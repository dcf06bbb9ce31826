-------------------------------- MODULE Browser --------------------------------
(***************************************************************************)
(* The session of one browser tab.  What the tab shows belongs to a place, *)
(* the user's workspace, and to what is granted there; the user signs in   *)
(* and out and switches while calls and renewals of the session are under  *)
(* way.  A revision counts the changes of session.  Between two awaits the *)
(* tab runs alone, so what it does with one answer is one step.            *)
(***************************************************************************)
EXTENDS Integers

CONSTANTS
  Calls,         \* calls of the application to the API
  Workspaces,    \* organizations and branches the user may work in
  MaxRevision    \* bound on changes of session

ASSUME BrowserAssumption == MaxRevision \in Nat \ {0} /\ "nowhere" \notin Workspaces

VARIABLES
  revision, here,   \* the session as the tab has it
  calls,            \* where each call stands
  renewals,         \* by revision: the session whose renewal is under way
  landing,          \* sign-ins and switches that wait for the server
  choice            \* the last workspace the user chose, and when

browserVars == <<revision, here, calls, renewals, landing, choice>>

Revisions == 0 .. MaxRevision
Authorities == [place : Workspaces, grants : {"basic", "more"}]
SignedOut == [place |-> "nowhere", grants |-> "none"]
Places == Workspaces \cup {"nowhere"}

NotMade == [phase |-> "none"]
OpenCall == [phase : {"sent", "ok", "unauthorized", "waiting", "renewed"}, kind : {"read", "command"},
             rev : Revisions, as : Authorities, retried : BOOLEAN, sends : 1 .. 2, moved : BOOLEAN]
EndedCall == [phase : {"delivered", "rejected", "cancelled"}, kind : {"read", "command"}, sends : 1 .. 2]


BrowserInit ==
  /\ revision = 0 /\ here = SignedOut /\ calls = [c \in Calls |-> NotMade]
  /\ renewals = [v \in Revisions |-> SignedOut] /\ landing = {}
  /\ choice = [place |-> "nowhere", at |-> 0]

(* Calls know, for the properties, whether the tab has been elsewhere since *)
(* they were made.                                                          *)
Moved(cs, place) ==
  [c \in Calls |-> IF cs[c] \in OpenCall /\ place # here.place THEN [cs[c] EXCEPT !.moved = TRUE] ELSE cs[c]]

Establish(authority, cs) ==
  /\ revision < MaxRevision /\ revision' = revision + 1 /\ here' = authority
  /\ calls' = Moved(cs, authority.place)

(***************************************************************************)
(* What the user chooses                                                   *)
(***************************************************************************)
(* Starting up, signing in and switching advance the revision and ask.     *)
Choose(w) ==
  /\ revision < MaxRevision /\ revision' = revision + 1
  /\ landing' = landing \cup {[rev |-> revision + 1, place |-> w]}
  /\ choice' = [place |-> w, at |-> revision + 1]
  /\ UNCHANGED <<here, calls, renewals>>

(* Mutant: whatever the server answers is shown.                            *)
LandsLate(a) == TRUE

LandsNow(a) == a.rev = revision

Land(a, authority) ==
  /\ a \in landing /\ authority.place = a.place /\ landing' = landing \ {a}
  /\ IF LandsNow(a) THEN Establish(authority, calls) ELSE UNCHANGED <<revision, here, calls>>
  /\ UNCHANGED <<renewals, choice>>

(* A switch or a sign-in that fails leaves the tab where it is.             *)
NotLanded(a) ==
  /\ a \in landing /\ landing' = landing \ {a}
  /\ UNCHANGED <<revision, here, calls, renewals, choice>>

(* Starting up without a session clears the tab, signed out as it was.      *)
StartsSignedOut(a) ==
  /\ a \in landing /\ landing' = landing \ {a} /\ LandsNow(a) /\ here = SignedOut
  /\ Establish(SignedOut, calls) /\ UNCHANGED <<renewals, choice>>

(* Signing out does not wait for the server.                                *)
SignOut ==
  /\ here # SignedOut /\ Establish(SignedOut, calls) /\ choice' = [place |-> "nowhere", at |-> revision + 1]
  /\ UNCHANGED <<renewals, landing>>

(* The billing page reads the entitlements again.                           *)
RefreshEntitlements(authority) ==
  /\ here # SignedOut /\ authority.place = here.place /\ authority # here
  /\ here' = authority /\ UNCHANGED <<revision, calls, renewals, landing, choice>>

(***************************************************************************)
(* Calls                                                                   *)
(***************************************************************************)
SetCall(c, row) == calls' = [calls EXCEPT ![c] = row]
Becomes(c, phase) == SetCall(c, [calls[c] EXCEPT !.phase = phase])
CallEnded(call, phase) == [phase |-> phase, kind |-> call.kind, sends |-> call.sends]
Ends(c, phase) == SetCall(c, CallEnded(calls[c], phase))
Rest == UNCHANGED <<revision, here, landing, choice>>

SendCall(c, kind) ==
  /\ calls[c] = NotMade /\ here # SignedOut
  /\ SetCall(c, [phase |-> "sent", kind |-> kind, rev |-> revision, as |-> here,
                 retried |-> FALSE, sends |-> 1, moved |-> FALSE])
  /\ Rest /\ UNCHANGED renewals

(* The access token lasts a quarter of an hour, and any call may fail.      *)
Answered(c) ==
  /\ calls[c].phase = "sent" /\ (Becomes(c, "ok") \/ Becomes(c, "unauthorized") \/ Ends(c, "rejected"))
  /\ Rest /\ UNCHANGED renewals

(* Mutant: only what is shown now is compared, as if nobody came back.      *)
SameAuthority(call) == call.as = here

StillValid(call) == call.rev = revision /\ call.as = here

Deliver(c) ==
  /\ calls[c].phase = "ok" /\ Ends(c, IF StillValid(calls[c]) THEN "delivered" ELSE "cancelled")
  /\ Rest /\ UNCHANGED renewals

Repeatable(call) == ~call.retried /\ call.kind = "read"

(* A call refused for its token: of this session, a read waits for a        *)
(* renewal of the session, which all of its revision share; it is good for *)
(* what was granted when the first of them asked for it.                    *)
Unauthorized(c) ==
  LET call == calls[c] IN
  /\ call.phase = "unauthorized" /\ Rest
  /\ CASE call.rev # revision -> Ends(c, "cancelled") /\ UNCHANGED renewals
       [] call.rev = revision /\ ~Repeatable(call) -> Ends(c, "rejected") /\ UNCHANGED renewals
       [] call.rev = revision /\ Repeatable(call) /\ call.as # here -> Ends(c, "cancelled") /\ UNCHANGED renewals
       [] OTHER ->
            /\ SetCall(c, [call EXCEPT !.phase = "waiting", !.retried = TRUE])
            /\ renewals' = [renewals EXCEPT ![revision] = IF @ = SignedOut THEN here ELSE @]

Current(v) == v = revision /\ renewals[v] = here

Over(v) == renewals[v] # SignedOut /\ renewals' = [renewals EXCEPT ![v] = SignedOut]

(* What has waited for a renewal that failed fails with it.                 *)
WaitersEnd(v, phase) ==
  [c \in Calls |-> IF calls[c] \in OpenCall /\ calls[c].phase = "waiting" /\ calls[c].rev = v
                   THEN CallEnded(calls[c], phase) ELSE calls[c]]
WaitersGoOn(v) ==
  [c \in Calls |-> IF calls[c] \in OpenCall /\ calls[c].phase = "waiting" /\ calls[c].rev = v
                   THEN [calls[c] EXCEPT !.phase = "renewed", !.rev = revision + 1] ELSE calls[c]]

Renewed(v, grants) ==
  /\ Over(v) /\ Current(v) /\ Establish([here EXCEPT !.grants = grants], WaitersGoOn(v))
  /\ UNCHANGED <<landing, choice>>

(* The server has no such session: the tab is signed out.                   *)
RenewalRefused(v) ==
  /\ Over(v) /\ Current(v) /\ Establish(SignedOut, WaitersEnd(v, "rejected"))
  /\ UNCHANGED <<landing, choice>>

(* A timeout, a lost connection, or whatever comes for an older session.    *)
RenewalFails(v) ==
  /\ Over(v) /\ calls' = WaitersEnd(v, IF Current(v) THEN "rejected" ELSE "cancelled") /\ Rest

(* A call whose session was renewed is repeated.                            *)
Resume(c) ==
  LET call == calls[c] IN
  /\ call.phase = "renewed" /\ Rest /\ UNCHANGED renewals
  /\ IF StillValid(call) THEN SetCall(c, [call EXCEPT !.phase = "sent", !.sends = @ + 1])
     ELSE Ends(c, "cancelled")

BrowserNext ==
  \/ \E w \in Workspaces : Choose(w)
  \/ \E a \in landing, authority \in Authorities : Land(a, authority)
  \/ \E a \in landing : NotLanded(a) \/ StartsSignedOut(a)
  \/ SignOut
  \/ \E authority \in Authorities : RefreshEntitlements(authority)
  \/ \E c \in Calls :
       \/ \E kind \in {"read", "command"} : SendCall(c, kind)
       \/ Answered(c) \/ Deliver(c) \/ Unauthorized(c) \/ Resume(c)
  \/ \E v \in Revisions :
       \/ \E grants \in {"basic", "more"} : Renewed(v, grants)
       \/ RenewalRefused(v) \/ RenewalFails(v)

BrowserSpec == BrowserInit /\ [][BrowserNext]_browserVars

(***************************************************************************)
(* Properties                                                              *)
(***************************************************************************)
(* State has its types; "never replay business commands": a command is     *)
(* sent once, and a read twice at most.                                    *)
BrowserTypeOK ==
  /\ revision \in Revisions /\ here \in Authorities \cup {SignedOut}
  /\ calls \in [Calls -> OpenCall \cup EndedCall \cup {NotMade}]
  /\ renewals \in [Revisions -> Authorities \cup {SignedOut}]
  /\ landing \subseteq [rev : Revisions, place : Workspaces] /\ choice \in [place : Places, at : Revisions]
  /\ \A c \in Calls : calls[c] # NotMade /\ calls[c].kind = "command" => calls[c].sends = 1

(* What is delivered to the application was asked in the workspace that is *)
(* shown, with what is granted there now, and the tab has not been in      *)
(* another since, however often the user left and came back.               *)
AnswersStayHome ==
  [][\A c \in Calls :
       calls'[c].phase = "delivered" /\ calls[c].phase # "delivered"
         => ~calls[c].moved /\ calls[c].as = here]_browserVars

(* The tab moves only to the workspace the user chose last, whatever        *)
(* answers arrive late; a switch that failed or was superseded leaves the  *)
(* old one shown.  It is signed out against that choice only by a refusal  *)
(* of a renewal that was asked since.                                       *)
LastChoiceWins ==
  [][here'.place # here.place =>
       \/ here'.place = choice'.place
       \/ /\ here' = SignedOut
          /\ \E v \in choice.at .. revision : renewals[v] # SignedOut /\ renewals'[v] = SignedOut
     ]_browserVars
=============================================================================
