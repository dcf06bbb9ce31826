-------------------------------- MODULE Tenant --------------------------------
(***************************************************************************)
(* One organization: no component of it reads or writes another's rows.    *)
(***************************************************************************)
CONSTANTS
  Branches,   \* its branches, in use or not
  People,     \* those who are, were or may become its members
  Owner       \* the one who onboarded it

ASSUME TenantAssumption == Owner \in People /\ Branches # {}
=============================================================================
