--------------------------------- MODULE Tasks ---------------------------------
(***************************************************************************)
(* Tasks of one branch and the commands that wrote them.  A command locks   *)
(* the organization, the actor's membership and role and whatever else its *)
(* authority comes from before it reads them, so it is one step.  A row of *)
(* a task and its newest event say the same: a task is the list of its     *)
(* events here, and its version the length of the list.                    *)
(***************************************************************************)
EXTENDS Commands, Staffing, Sequences, SequencesExt

CONSTANTS TaskIds, MaxTaskVersion   \* a task is written this many times at most

ASSUME TasksAssumption ==
  /\ MaxTaskVersion \in Nat \ {0} /\ {"tasks.manage", "tasks.manage_own"} \subseteq Capabilities

VARIABLES tasks, remembered, reply
taskVars == <<staff, tasks, remembered, reply>>

Open == {"todo", "in_progress"}
TaskStatuses == Open \cup {"completed", "cancelled"}
TaskVersions == 1 .. MaxTaskVersion

(* An event, with the status and the assignee that it left.                 *)
TaskEvent == [kind : {"create", "update", "status", "cancel", "reopen"}, by : People,
              status : TaskStatuses, assignee : People]

(* A request names the task, unless it makes one, and the version it saw.   *)
TaskCmd ==
  [kind : {"create"}, assignee : People]
    \cup [kind : {"update"}, task : TaskIds, version : TaskVersions, assignee : Optional(People)]
    \cup [kind : {"status"}, task : TaskIds, version : TaskVersions, to : {"todo", "in_progress", "completed"}]
    \cup [kind : {"cancel", "reopen"}, task : TaskIds, version : TaskVersions]

Unused == [actor |-> Owner, cmd |-> [kind |-> "none"]]
NoReply == [key |-> {}]

(***************************************************************************)
(* Authority, as it is when the command runs.                              *)
(***************************************************************************)
Manages(p) == WorksAt(staff, p, TheBranch) /\ May(staff, p, "tasks.manage")
UpdatesOwn(p) == WorksAt(staff, p, TheBranch) /\ May(staff, p, "tasks.manage_own")

TaskRowOf(t) == Last(tasks[t])

(* What a command may be about: progress is for the assignee too.           *)
MayCommand(p, kind, t) ==
  Manages(p) \/ (kind = "status" /\ UpdatesOwn(p) /\ TaskRowOf(t).assignee = p)

(***************************************************************************)
(* Commands                                                                *)
(***************************************************************************)
TasksInit ==
  /\ StaffInit /\ tasks = [t \in TaskIds |-> <<>>]
  /\ remembered = [k \in Keys |-> Unused] /\ reply = NoReply

Progress == {<<"todo", "in_progress">>, <<"todo", "completed">>,
             <<"in_progress", "todo">>, <<"in_progress", "completed">>}

(* The event a command adds to the row it locked; none if it is refused.    *)
Results(p, c, row) ==
  CASE c.kind = "update" ->
         {[row EXCEPT !.kind = "update", !.by = p, !.assignee = a] :
            a \in {x \in (IF c.assignee = {} THEN {row.assignee} ELSE c.assignee) :
                     row.status \in Open /\ (c.assignee = {} \/ UpdatesOwn(x))}}
    [] c.kind = "status" ->
         {[row EXCEPT !.kind = "status", !.by = p, !.status = s] :
            s \in {x \in {c.to} : <<row.status, x>> \in Progress}}
    [] c.kind = "cancel" ->
         {[row EXCEPT !.kind = "cancel", !.by = p, !.status = "cancelled"] : s \in {row.status} \cap Open}
    [] c.kind = "reopen" ->
         {[row EXCEPT !.kind = "reopen", !.by = p, !.status = "todo"] : s \in {row.status} \cap {"completed"}}

(* Mutant: what is remembered is the version that the request named.        *)
RememberSeen(k, p, c, t, v) ==
  /\ remembered' = [remembered EXCEPT ![k] =
       [actor |-> p, cmd |-> c, task |-> t, version |-> IF c.kind = "create" THEN 1 ELSE c.version]]
  /\ reply' = [key |-> {k}, actor |-> p, cmd |-> c, task |-> t, version |-> v]
  /\ UNCHANGED staff

Remember(k, p, c, t, v) ==
  /\ remembered' = [remembered EXCEPT ![k] = [actor |-> p, cmd |-> c, task |-> t, version |-> v]]
  /\ reply' = [key |-> {k}, actor |-> p, cmd |-> c, task |-> t, version |-> v]
  /\ UNCHANGED staff

CreateTask(k, p, c) ==
  /\ remembered[k] = Unused /\ c.kind = "create" /\ Manages(p) /\ UpdatesOwn(c.assignee)
  /\ \E t \in TaskIds :
       /\ tasks[t] = <<>> /\ Remember(k, p, c, t, 1)
       /\ tasks' = [tasks EXCEPT ![t] =
            <<[kind |-> "create", by |-> p, status |-> "todo", assignee |-> c.assignee]>>]

WriteTask(k, p, c) ==
  /\ remembered[k] = Unused /\ c.kind # "create"
  /\ Len(tasks[c.task]) = c.version /\ c.version < MaxTaskVersion
  /\ MayCommand(p, c.kind, c.task)
  /\ \E e \in Results(p, c, TaskRowOf(c.task)) :
       tasks' = [tasks EXCEPT ![c.task] = Append(@, e)]
  /\ Remember(k, p, c, c.task, Len(tasks[c.task]) + 1)

(* Mutant: a key answers whatever its actor sends with it.                  *)
SameActor(r, p, c) == r.actor = p

SameCommand(r, p, c) == r.actor = p /\ r.cmd = c

(* A repeated key answers what its first command did, if that is the same   *)
(* command and its actor may still give it.                                 *)
RepeatTask(k, p, c) ==
  LET r == remembered[k] IN
  /\ r # Unused /\ SameCommand(r, p, c) /\ MayCommand(p, c.kind, r.task)
  /\ reply' = [key |-> {k}, actor |-> p, cmd |-> c, task |-> r.task, version |-> r.version]
  /\ UNCHANGED <<staff, tasks, remembered>>

TasksNext ==
  \/ Administer /\ UNCHANGED <<tasks, remembered, reply>>
  \/ \E k \in Keys, p \in People, c \in TaskCmd :
       CreateTask(k, p, c) \/ WriteTask(k, p, c) \/ RepeatTask(k, p, c)

TasksSpec == TasksInit /\ [][TasksNext]_taskVars

(***************************************************************************)
(* Properties                                                              *)
(***************************************************************************)
(* Rows have their columns, and whatever happened to a task is legal after *)
(* what had happened before: nothing follows a cancellation, only a        *)
(* reopening follows completion.                                           *)
TasksTypeOK ==
  /\ StaffTypeOK
  /\ \A t \in TaskIds :
       /\ Len(tasks[t]) <= MaxTaskVersion /\ \A i \in DOMAIN tasks[t] : tasks[t][i] \in TaskEvent
       /\ \A i \in DOMAIN tasks[t] \ {1} :
            /\ tasks[t][i - 1].status # "cancelled"
            /\ tasks[t][i - 1].status = "completed" => tasks[t][i].kind = "reopen"
  /\ DOMAIN remembered = Keys

(* Every write of a task was one command, which is remembered with its     *)
(* actor: "task fact, command and history commit together".                *)
CommandsExplainHistory ==
  \A t \in TaskIds : \A i \in DOMAIN tasks[t] :
    \E k \in Keys :
      /\ remembered[k] # Unused /\ remembered[k].task = t /\ remembered[k].version = i
      /\ remembered[k].actor = tasks[t][i].by /\ remembered[k].cmd.kind = tasks[t][i].kind

(* What is answered, also to a repeated key, is the very change that was   *)
(* asked for: it follows the version that the request named and carries    *)
(* what the request says.                                                  *)
RepliesDescribeRequests ==
  reply # NoReply =>
    LET e == tasks[reply.task][reply.version]
        c == reply.cmd
    IN  /\ e.by = reply.actor /\ e.kind = c.kind
        /\ c.kind = "create" => reply.version = 1 /\ e.assignee = c.assignee
        /\ c.kind # "create" => reply.task = c.task /\ reply.version = c.version + 1
        /\ c.kind = "update" => c.assignee = {} \/ c.assignee = {e.assignee}
        /\ c.kind = "status" => e.status = c.to
=============================================================================
