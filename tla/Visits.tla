-------------------------------- MODULE Visits --------------------------------
(***************************************************************************)
(* Appointments and the queue of one branch: bookings, arrivals with and   *)
(* without an appointment, and the numbered tokens of a business day.      *)
(* Each row keeps the statuses it went through, one event per version.     *)
(***************************************************************************)
EXTENDS Commands, Sequences, SequencesExt

CONSTANTS
  Appointments,
  MaxDay,       \* business days of the instance
  MaxTokens     \* tokens of all days

ASSUME VisitsAssumption == MaxDay \in Nat \ {0} /\ MaxTokens \in Nat

BusinessDays == 1 .. MaxDay

AppointmentMoves ==
  [scheduled  |-> {"confirmed", "checked_in", "cancelled", "no_show"},
   confirmed  |-> {"checked_in", "cancelled", "no_show"},
   checked_in |-> {"completed", "cancelled"},
   completed |-> {}, cancelled |-> {}, no_show |-> {}]
TokenMoves ==
  [waiting |-> {"serving", "cancelled"}, serving |-> {"completed", "cancelled"},
   completed |-> {}, cancelled |-> {}]

(* What the API accepts; an appointment is checked in by the queue only.    *)
RequestedMoves == {"confirmed", "completed", "cancelled", "no_show"}

Histories(moves) ==
  {h \in BoundedSeq(DOMAIN moves, 4) : \A i \in 2 .. Len(h) : h[i] \in moves[h[i - 1]]}

NoVisit == [log |-> <<>>]
Status(row) == Last(row.log)
Exists(row) == row.log # <<>>

Numbers == BusinessDays \X (1 .. MaxTokens)

ArriveCmd == [op : {"arrive"}, appointment : Optional(Appointments), key : Optional(Keys),
              session : BusinessDays]
MoveCmd == [op : {"appointment"}, row : Appointments, version : Nat, to : RequestedMoves]
           \cup [op : {"token"}, row : Numbers, version : Nat, to : DOMAIN TokenMoves]

VARIABLES
  today,         \* the branch's business date
  next,          \* queue_sessions: next_token_number of each day, 0 if not opened
  appointments,
  tokens,        \* queue_tokens, by session and number
  visitTxn       \* the sessions

visitVars == <<today, next, appointments, tokens, visitTxn>>

VisitsTypeOK ==
  /\ today \in BusinessDays
  /\ next \in [BusinessDays -> 0 .. MaxTokens + 1]
  /\ \A a \in Appointments : appointments[a] = NoVisit
       \/ appointments[a].log \in Histories(AppointmentMoves)
  /\ \A n \in Numbers : tokens[n] = NoVisit \/
       /\ tokens[n].log \in Histories(TokenMoves)
       /\ tokens[n].appointment \in Optional(Appointments) /\ tokens[n].key \in Optional(Keys)
  /\ \A t \in Txns : visitTxn[t] = NotInTxn \/ visitTxn[t].cmd \in ArriveCmd \cup MoveCmd

VisitsInit ==
  /\ today = 1
  /\ next = [d \in BusinessDays |-> 0]
  /\ appointments = [a \in Appointments |-> NoVisit]
  /\ tokens = [n \in Numbers |-> NoVisit]
  /\ visitTxn = AllIdle

-----------------------------------------------------------------------------
NextDay ==
  /\ today < MaxDay
  /\ today' = today + 1
  /\ UNCHANGED <<next, appointments, tokens, visitTxn>>

(* A booking is one transaction under the organization's lock; the retry of *)
(* one answers the appointment it booked.  One whose provider is not        *)
(* assigned to the service, or is taken at that time, is refused.           *)
Book(a) ==
  /\ ~Exists(appointments[a])
  /\ appointments' = [appointments EXCEPT ![a] = [log |-> <<"scheduled">>]]
  /\ UNCHANGED <<today, next, tokens, visitTxn>>

-----------------------------------------------------------------------------
(* Moves.  The client names the version of the row it shows.  Only moves    *)
(* that this version allows are worth following, the others are refused.    *)
MoveBegin(t, c) ==
  /\ visitTxn[t] = NotInTxn
  /\ visitTxn' = Begun(visitTxn, t, c)
  /\ UNCHANGED <<today, next, appointments, tokens>>

BeginMoveAppointment(t) ==
  \E a \in {b \in Appointments : Exists(appointments[b])} :
    \E s \in RequestedMoves \cap AppointmentMoves[Status(appointments[a])] :
      MoveBegin(t, [op |-> "appointment", row |-> a, version |-> Len(appointments[a].log), to |-> s])

BeginMoveToken(t) ==
  \E n \in {m \in Numbers : Exists(tokens[m])} : \E s \in TokenMoves[Status(tokens[n])] :
    MoveBegin(t, [op |-> "token", row |-> n, version |-> Len(tokens[n].log), to |-> s])

MayMove(c, row, moves) == c.version = Len(row.log) /\ c.to \in moves[Status(row)]

AppointmentRow(a) == <<1, a>>
SessionRow(d) == <<2, d>>

(* Mutant: a check-in reads the appointment without locking its row.        *)
MovesUnderCheckIn(t) ==
  LET c == visitTxn[t].cmd IN
  /\ c.op = "appointment"
  /\ MayMove(c, appointments[c.row], AppointmentMoves)
  /\ appointments' = [appointments EXCEPT ![c.row].log = Append(@, c.to)]
  /\ visitTxn' = Ended(visitTxn, t)
  /\ UNCHANGED <<today, next, tokens>>

MoveAppointment(t) ==
  LET c == visitTxn[t].cmd IN
  /\ c.op = "appointment"
  /\ Free(visitTxn, AppointmentRow(c.row))
  /\ MayMove(c, appointments[c.row], AppointmentMoves)
  /\ appointments' = [appointments EXCEPT ![c.row].log = Append(@, c.to)]
  /\ visitTxn' = Ended(visitTxn, t)
  /\ UNCHANGED <<today, next, tokens>>

MoveToken(t) ==
  LET c == visitTxn[t].cmd IN
  /\ c.op = "token"
  /\ MayMove(c, tokens[c.row], TokenMoves)
  /\ tokens' = [tokens EXCEPT ![c.row].log = Append(@, c.to)]
  /\ visitTxn' = Ended(visitTxn, t)
  /\ UNCHANGED <<today, next, appointments>>

-----------------------------------------------------------------------------
(* Arrivals.  A request opens the session of the day it is received on, in  *)
(* a transaction of its own; check-ins need an idempotency key.             *)
ArriveBegin(t, a, k) ==
  /\ visitTxn[t] = NotInTxn
  /\ a # {} => k # {} /\ \A b \in a : Exists(appointments[b])
  /\ next' = [next EXCEPT ![today] = IF @ = 0 THEN 1 ELSE @]
  /\ visitTxn' = Begun(visitTxn, t, [op |-> "arrive", appointment |-> a, key |-> k,
                                     session |-> today])
  /\ UNCHANGED <<today, appointments, tokens>>

ArrivalLocks(c) ==
  IF c.op = "arrive" THEN {AppointmentRow(a) : a \in c.appointment} \cup {SessionRow(c.session)}
  ELSE {}

ArrivalWants(t) ==
  LET missing == ArrivalLocks(visitTxn[t].cmd) \ visitTxn[t].held
  IN  {l \in missing : \A m \in missing : l[1] <= m[1]}

UsesKey(c, n) == c.key # {} /\ Exists(tokens[n]) /\ tokens[n].key = c.key

(* Mutant: the key is looked up before the session is locked only.          *)
AdmitsWithoutLookup(c, l) ==
  l[1] = 1 => Status(appointments[l[2]]) \in {"scheduled", "confirmed"}

(* What an arrival must find when it gets a lock: an appointment that has   *)
(* no token yet, and then no token of its key, which it would answer.       *)
ArrivalAdmits(c, l) ==
  IF l[1] = 1 THEN Status(appointments[l[2]]) \in {"scheduled", "confirmed"}
  ELSE \A n \in Numbers : ~UsesKey(c, n)

ArriveLock(t) ==
  /\ \E l \in ArrivalWants(t) :
       /\ Free(visitTxn, l)
       /\ ArrivalAdmits(visitTxn[t].cmd, l)
       /\ visitTxn' = Locked(visitTxn, t, l)
  /\ UNCHANGED <<today, next, appointments, tokens>>

ArriveReady(t) == visitTxn[t].cmd.op = "arrive" /\ ArrivalWants(t) = {}

(* The unique index refuses a key that another day's session used.          *)
Arrive(t) ==
  LET c == visitTxn[t].cmd
      n == <<c.session, next[c.session]>> IN
  /\ ArriveReady(t)
  /\ Cardinality({m \in Numbers : Exists(tokens[m])}) < MaxTokens
  /\ \A m \in Numbers : ~UsesKey(c, m)
  /\ next' = [next EXCEPT ![c.session] = @ + 1]
  /\ tokens' = [tokens EXCEPT ![n] = [appointment |-> c.appointment, key |-> c.key,
                                      log |-> <<"waiting">>]]
  /\ appointments' = [a \in Appointments |->
       IF a \in c.appointment THEN [appointments[a] EXCEPT !.log = Append(@, "checked_in")]
       ELSE appointments[a]]
  /\ visitTxn' = Ended(visitTxn, t)
  /\ UNCHANGED <<today>>

(* A refusal, as of a check-in whose provider, service or customer is no    *)
(* longer active, the answer to a retry, or a lost connection.              *)
VisitAbort(t) ==
  /\ visitTxn[t] # NotInTxn
  /\ visitTxn' = Ended(visitTxn, t)
  /\ UNCHANGED <<today, next, appointments, tokens>>

VisitsNext ==
  \/ NextDay
  \/ \E a \in Appointments : Book(a)
  \/ \E t \in Txns :
       \/ BeginMoveAppointment(t) \/ MoveAppointment(t)
       \/ BeginMoveToken(t) \/ MoveToken(t)
       \/ \E a \in Optional(Appointments), k \in Optional(Keys) : ArriveBegin(t, a, k)
       \/ ArriveLock(t) \/ Arrive(t) \/ VisitAbort(t)

VisitsSpec == VisitsInit /\ [][VisitsNext]_visitVars

-----------------------------------------------------------------------------
(* Properties.                                                              *)

(* An appointment was checked in exactly when it has a token, and it has    *)
(* one; the check-in, which writes the appointment without a condition on   *)
(* its status, never revives one that was cancelled or not shown meanwhile. *)
ArrivalsHaveTokens ==
  \A a \in Appointments :
    LET own == {n \in Numbers : Exists(tokens[n]) /\ a \in tokens[n].appointment}
        log == appointments[a].log
    IN  /\ Cardinality(own) = (IF "checked_in" \in Range(log) THEN 1 ELSE 0)
        /\ \A i \in 2 .. Len(log) : log[i] \in AppointmentMoves[log[i - 1]]

(* A day's tokens are numbered from 1 without gaps, whatever attempts were  *)
(* refused or broken off.                                                   *)
NumbersWithoutGaps ==
  \A d \in BusinessDays, i \in 1 .. MaxTokens : Exists(tokens[<<d, i>>]) <=> i < next[d]

(* The retry of an arrival that is still being recorded waits for it and    *)
(* answers its token; the unique index has to refuse only a retry that came *)
(* after midnight, to the session of another day.                           *)
ArrivalRetriesAgree ==
  \A t \in Txns : ArriveReady(t) =>
    \A n \in Numbers : UsesKey(visitTxn[t].cmd, n) => n[1] # visitTxn[t].cmd.session

=============================================================================
