-------------------------------- MODULE MCStock --------------------------------
(* Small instances of Stock: one session may hold what another waits for,   *)
(* and every key can be used twice.                                         *)
EXTENDS Stock, TLC

MCDeltas == {-1, 1}

StockSymmetry == UNION {Permutations(S) : S \in {Txns, Keys, Branches, Units, Imported, Items \ Imported}}

(* Purchasing alone, of items that exist: updates of an active item that    *)
(* take the most locks, and commands for the last or last but one version.  *)
OrderCommands == {c \in SaveCmd \cup TransitionCmd \cup ReceiveCmd :
                    orders[c.order] # NoOrder => c.version + 1 >= orders[c.order].version}

OrdersNext ==
  \E t \in Txns :
    \/ \E c \in {u \in UpdateCmd : u.threshold /\ u.status = "active"} \cup OrderCommands : Begin(t, c)
    \/ Acquire(t) \/ Abort(t)
    \/ CommitUpdate(t) \/ CommitSave(t) \/ CommitTransition(t) \/ CommitReceive(t)

OrdersSpec == Init /\ [][OrdersNext]_vars
=============================================================================
