--------------------------------- MODULE Forms ---------------------------------
(***************************************************************************)
(* The browser's forms for commands: what is filled in is reviewed, sent,  *)
(* and sent again when no answer came.  A request may arrive after the     *)
(* form gave up on it.                                                     *)
(*                                                                         *)
(* Forms differ in what makes a retry safe: a key made when the form       *)
(* opens, a command pinned when it is first confirmed, a command pinned    *)
(* until it is refused (tasks), or nothing.                                *)
(***************************************************************************)
EXTENDS Naturals, Sequences, FiniteSets

CONSTANTS
  Fills,         \* what can be filled in
  MaxOpenings,   \* bound on the forms that are opened
  MaxSent        \* bound on the requests that are sent

ASSUME FormsAssumption == MaxOpenings \in Nat /\ MaxSent \in Nat

FormKinds == {"keyed", "pinned", "task", "keyless"}

VARIABLES
  form,       \* the open form
  openings,   \* how many forms were opened
  sent,       \* requests, in the order they were sent
  fate        \* what became of each of them at the server

formsVars == <<form, openings, sent, fate>>

Closed == [stage |-> "closed"]
Request == [opening : Nat, kind : FormKinds, key : SUBSET (Nat \X Nat), values : Fills]
Form ==
  [kind : FormKinds, stage : {"edit", "review", "discard"}, was : {"edit", "review"}, values : Fills,
   pinned : SUBSET Request, error : {"none", "refused", "conflict", "uncertain"},
   pending : SUBSET Nat,   \* the request it waits for
   busy : BOOLEAN,         \* whether what is displayed is that it waits
   latch : BOOLEAN]        \* set by a confirmation at once

FormsTypeOK ==
  /\ form \in Form \cup {Closed}
  /\ openings \in 0..MaxOpenings
  /\ sent \in Seq(Request)
  /\ fate \in Seq({"way", "taken", "repeated", "refused", "conflict"}) /\ Len(fate) = Len(sent)

FormsInit == form = Closed /\ openings = 0 /\ sent = <<>> /\ fate = <<>>

Open(kind, v) ==
  /\ form = Closed /\ openings < MaxOpenings
  /\ openings' = openings + 1
  /\ form' = [kind |-> kind, stage |-> "edit", was |-> "edit", values |-> v, pinned |-> {},
              error |-> "none", pending |-> {}, busy |-> FALSE, latch |-> FALSE]
  /\ UNCHANGED <<sent, fate>>

Unready == form.busy \/ form.latch

FillIn(v) ==
  /\ form.stage = "edit" /\ ~form.busy /\ form.error \notin {"uncertain", "conflict"}
  /\ form' = [form EXCEPT !.values = v]
  /\ UNCHANGED <<openings, sent, fate>>

ShowReview ==
  /\ form.stage = "edit" /\ ~Unready
  /\ form' = [form EXCEPT !.stage = "review"]
  /\ UNCHANGED <<openings, sent, fate>>

(* The task form can be changed after a refusal, and that of services       *)
(* starts over then.  Between a confirmation and what is displayed, every   *)
(* form can.                                                                *)
Back ==
  /\ form.stage = "review" /\ ~form.busy
  /\ \/ form.error = "none"
     \/ form.kind = "task" /\ form.error = "refused"
     \/ form.kind = "keyless" /\ form.error \in {"refused", "conflict"}
  /\ form' = [form EXCEPT !.stage = "edit", !.error = IF form.kind = "keyless" THEN "none" ELSE @]
  /\ UNCHANGED <<openings, sent, fate>>

(* The task form looks at what is displayed only.                           *)
Cancel ==
  /\ form.stage \in {"edit", "review"} /\ ~form.busy
  /\ form.kind # "task" => ~form.latch
  /\ form' = [form EXCEPT !.stage = "discard", !.was = form.stage]
  /\ UNCHANGED <<openings, sent, fate>>

KeepEditing ==
  /\ form.stage = "discard"
  /\ form' = [form EXCEPT !.stage =
       IF form.kind = "task" THEN form.was ELSE IF form.error = "none" THEN "edit" ELSE "review"]
  /\ UNCHANGED <<openings, sent, fate>>

Discard ==
  /\ form.stage = "discard"
  /\ form' = Closed
  /\ UNCHANGED <<openings, sent, fate>>

(* The request of a confirmation, with the key that was made when the form  *)
(* opened, one of its own, or none.                                         *)
Keyed(k) == [opening |-> openings, kind |-> form.kind, key |-> k, values |-> form.values]
WithKeyOfOpening == Keyed({<<openings, 0>>})
WithNewKey == Keyed({<<openings, Len(sent) + 1>>})
WithoutKey == Keyed({})

Command ==
  CASE form.pinned # {}       -> CHOOSE r \in form.pinned : TRUE
    [] form.kind = "keyed"    -> WithKeyOfOpening
    [] form.kind = "keyless"  -> WithoutKey
    [] OTHER                  -> WithNewKey

(* Mutant: creations without a key are sent again like the others.          *)
RetriesAnything == form.error # "conflict"

(* Without a key, nothing is sent after an outcome that is not known.       *)
Sendable ==
  CASE form.kind = "keyless" -> form.error # "uncertain"
    [] form.kind = "task"    -> form.error # "conflict"
    [] OTHER                 -> TRUE

Confirm ==
  /\ form.stage = "review" /\ ~Unready /\ Sendable
  /\ Len(sent) < MaxSent
  /\ sent' = Append(sent, Command)
  /\ fate' = Append(fate, "way")
  /\ form' = [form EXCEPT !.pinned = IF form.kind \in {"pinned", "task"} THEN {Command} ELSE {},
                          !.error = "none", !.pending = {Len(sent) + 1}, !.latch = TRUE]
  /\ UNCHANGED openings

(* What is displayed catches up with the request.                           *)
Render ==
  /\ form # Closed
  /\ form' = [form EXCEPT !.busy = form.pending # {}, !.latch = @ /\ form.pending # {}]
  /\ UNCHANGED <<openings, sent, fate>>

(* The server takes a command once per key and compares what it is asked    *)
(* with what it took.                                                       *)
Serve(i) ==
  /\ fate[i] = "way"
  /\ LET before == {j \in DOMAIN sent : fate[j] = "taken" /\ sent[j].key = sent[i].key /\ sent[i].key # {}}
     IN  \E f \in IF before = {} THEN {"taken", "refused", "conflict"}
                  ELSE IF \E j \in before : sent[j].values = sent[i].values THEN {"repeated"}
                  ELSE {"conflict"} :
           fate' = [fate EXCEPT ![i] = f]
  /\ UNCHANGED <<form, openings, sent>>

(* A refused task command is no longer pinned.                              *)
Answer(i) ==
  /\ form # Closed /\ form.pending = {i} /\ fate[i] # "way"
  /\ form' = IF fate[i] \in {"taken", "repeated"} THEN Closed
             ELSE [form EXCEPT !.error = fate[i], !.pending = {},
                               !.pinned = IF form.kind = "task" THEN {} ELSE @]
  /\ UNCHANGED <<openings, sent, fate>>

(* No answer in time, or a server error, whatever became of the request.    *)
GiveUp ==
  /\ form # Closed /\ form.pending # {}
  /\ form' = [form EXCEPT !.error = "uncertain", !.pending = {}]
  /\ UNCHANGED <<openings, sent, fate>>

FormsNext ==
  \/ \E v \in Fills : FillIn(v) \/ \E kind \in FormKinds : Open(kind, v)
  \/ ShowReview \/ Back \/ Cancel \/ KeepEditing \/ Discard \/ Confirm \/ Render \/ GiveUp
  \/ \E i \in DOMAIN sent : Serve(i) \/ Answer(i)

FormsSpec == FormsInit /\ [][FormsNext]_formsVars

-----------------------------------------------------------------------------
(* Properties.                                                              *)

(* What one opened form asks for takes effect once: confirming twice, lost  *)
(* answers and late requests do not record it again, and a key that goes    *)
(* out with changed values is refused.  Only a refused task is sent anew,   *)
(* while an earlier request of it may be late.                              *)
TakenOnce ==
  \A i, j \in DOMAIN sent :
    /\ sent[i].opening = sent[j].opening /\ sent[i].kind # "task"
    /\ fate[i] = "taken" /\ fate[j] = "taken"
    => i = j
=============================================================================
