------------------------------ MODULE MCRenewal ------------------------------
(* Small instances of Renewal: a clock of few instants and the             *)
(* subscription rows an operator writes in the runs.                       *)
EXTENDS Renewal, TLC

CONSTANTS p1, p2

Row(status, starts, ends, pkg) ==
  [status |-> status, starts |-> starts, ends |-> ends, pkg |-> pkg]

(* What an operator edit can change under a renewal: the status, the end   *)
(* of the period over the same start, the package.                         *)
MCFewEdits == {Row("trialing", 0, 1, p1), Row("active", 0, 2, p1)}

MCEdits == MCFewEdits \cup {Row("active", 0, NoEnd, p2)}

MCSuspension == {Row("trialing", 0, 1, p1), Row("suspended", 0, 1, p1)}

RowSymmetry == Permutations(Renewals) \cup Permutations(Txns) \cup Permutations(Keys)
=============================================================================
