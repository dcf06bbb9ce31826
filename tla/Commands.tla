------------------------------- MODULE Commands -------------------------------
(***************************************************************************)
(* What commands share: the sessions they run in and the idempotency keys  *)
(* clients send with them.  A session runs one command in one transaction, *)
(* takes the command's locks one by one, and gives them all up when the    *)
(* transaction ends.  Each component keeps a table of its own sessions,    *)
(* "tx" here.                                                              *)
(***************************************************************************)
EXTENDS Integers, FiniteSets

CONSTANTS
  Txns,      \* concurrent database sessions
  Keys       \* idempotency keys that clients choose

NotInTxn == [cmd |-> [op |-> "idle"], held |-> {}]
AllIdle == [t \in Txns |-> NotInTxn]

Free(tx, l) == \A t \in Txns : l \notin tx[t].held

Begun(tx, t, c) == [tx EXCEPT ![t] = [cmd |-> c, held |-> {}]]
Locked(tx, t, l) == [tx EXCEPT ![t].held = @ \cup {l}]
Ended(tx, t) == [tx EXCEPT ![t] = NotInTxn]

(* At most one of these, or none: an optional argument.                     *)
Optional(S) == {{}} \cup {{x} : x \in S}
=============================================================================
