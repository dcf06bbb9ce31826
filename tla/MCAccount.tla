------------------------------ MODULE MCAccount ------------------------------
EXTENDS Account, TLC

(* Requests, sessions, links and addresses are interchangeable. *)
IdSymmetry == Permutations(Requests) \cup Permutations(Sessions)
                \cup Permutations(Links) \cup Permutations(Emails)
=============================================================================
