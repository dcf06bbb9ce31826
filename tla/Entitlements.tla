---------------------------- MODULE Entitlements ----------------------------
(***************************************************************************)
(* The time windows by which the entitlement calculator decides, at the    *)
(* moment it is asked, whether a subscription gives access.                *)
(***************************************************************************)
EXTENDS Integers

NoEnd == -1                          \* an end date that is NULL

(* starts <= now < ends, an absent end being unbounded *)
InWindow(starts, ends, now) == starts <= now /\ (ends = NoEnd \/ ends > now)

EffectiveStatus(s, now) ==
  CASE s.starts > now -> "pending"
    [] s.starts <= now /\ s.status \in {"active", "trialing"}
         /\ ~InWindow(s.starts, s.ends, now) -> "expired"
    [] OTHER -> s.status

(* Plan and add-on modules are granted only under an active subscription.  *)
GivesAccess(s, now) == EffectiveStatus(s, now) \in {"active", "trialing"}
=============================================================================
