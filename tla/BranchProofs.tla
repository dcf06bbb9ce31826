--------------------------- MODULE BranchProofs ---------------------------
(***************************************************************************)
(* Proofs about the visits and the leads of a branch, and about the        *)
(* browser tab.                                                            *)
(***************************************************************************)
EXTENDS MCBranch, FiniteSetTheorems, SequenceTheorems, TLAPS

-----------------------------------------------------------------------------
(* What the browser tab promises, for any number of calls and workspaces.  *)
(* Both properties rest on the revision: whatever is stamped with the      *)
(* present one was asked since the session last changed.                   *)

OpenPhases == {"sent", "ok", "unauthorized", "waiting", "renewed"}

(* A call of the present revision was made in the place that is shown.      *)
CallsKnowTheirRevision ==
  \A c \in Calls : calls[c] \in OpenCall =>
    calls[c].rev <= revision /\ (calls[c].rev = revision => ~calls[c].moved)

(* A sign-in or switch of the present revision goes where the user chose.   *)
LandingsFollowChoice ==
  \A a \in landing : a.rev <= revision /\ (a.rev = revision => a.place = choice.place)

BrowserTypes ==
  /\ revision \in Revisions /\ here \in Authorities \cup {SignedOut}
  /\ calls \in [Calls -> OpenCall \cup EndedCall \cup {NotMade}]
  /\ renewals \in [Revisions -> Authorities \cup {SignedOut}]
  /\ landing \subseteq [rev : Revisions, place : Workspaces]
  /\ choice \in [place : Places, at : Revisions]

(* A call is sent anew once, after it waited for the session to be renewed; *)
(* a command never is.                                                      *)
Sparing(x) ==
  /\ x \in OpenCall =>
       /\ x.phase \in {"waiting", "renewed"} => x.retried /\ x.sends = 1 /\ x.kind = "read"
       /\ ~x.retried => x.sends = 1
  /\ x \in OpenCall \cup EndedCall /\ x.kind = "command" => x.sends = 1
SentSparingly == \A c \in Calls : Sparing(calls[c])

BrowserInv ==
  /\ BrowserTypes /\ SentSparingly
  /\ CallsKnowTheirRevision /\ LandingsFollowChoice /\ choice.at <= revision

LEMMA BrowserBegins == BrowserInit => BrowserInv
<1> SUFFICES ASSUME BrowserInit PROVE BrowserInv
  OBVIOUS
<1>1. BrowserTypes
  BY BrowserAssumption DEF BrowserInit, BrowserTypes, Revisions, Places
<1>2. CallsKnowTheirRevision /\ SentSparingly
  BY DEF BrowserInit, CallsKnowTheirRevision, SentSparingly, Sparing, OpenCall, EndedCall, NotMade
<1>3. LandingsFollowChoice /\ choice.at <= revision
  BY DEF BrowserInit, LandingsFollowChoice
<1> QED
  BY <1>1, <1>2, <1>3 DEF BrowserInv

(* A row tells by its phase whether its call is open.                       *)
LEMMA Phases ==
  /\ \A x \in OpenCall : x.phase \in OpenPhases
  /\ \A x \in EndedCall \cup {NotMade} : x.phase \notin OpenPhases /\ x \notin OpenCall
  BY DEF OpenCall, EndedCall, NotMade, OpenPhases

-----------------------------------------------------------------------------
(* Changes of the session.                                                  *)

(* The tab goes somewhere: its revision is new, so no open call has it but  *)
(* those that cs gives it, and these stay where they are.                   *)
LEMMA EstablishKeeps ==
  ASSUME BrowserInv, NEW authority \in Authorities \cup {SignedOut},
         NEW cs \in [Calls -> OpenCall \cup EndedCall \cup {NotMade}],
         Establish(authority, cs),
         \A c \in Calls : cs[c] \in OpenCall =>
           \/ cs[c].rev <= revision
           \/ cs[c].rev = revision + 1 /\ ~cs[c].moved /\ authority.place = here.place,
         \A c \in Calls : Sparing(cs[c]),
         renewals' \in [Revisions -> Authorities \cup {SignedOut}]
  PROVE  /\ revision' = revision + 1 /\ revision' \in Revisions /\ here' \in Authorities \cup {SignedOut}
         /\ calls' \in [Calls -> OpenCall \cup EndedCall \cup {NotMade}]
         /\ CallsKnowTheirRevision' /\ SentSparingly'
<1> USE DEF BrowserInv
<1>1. revision' = revision + 1 /\ revision' \in Revisions /\ revision \in Int /\ here' = authority
  BY BrowserAssumption DEF Establish, BrowserTypes, Revisions
<1> DEFINE new(c) == IF cs[c] \in OpenCall /\ authority.place # here.place
                     THEN [cs[c] EXCEPT !.moved = TRUE] ELSE cs[c]
<1>2. calls' = [c \in Calls |-> new(c)]
  BY DEF Establish, Moved
<1>3. ASSUME NEW c \in Calls
      PROVE  /\ new(c) \in OpenCall \cup EndedCall \cup {NotMade}
             /\ new(c) \in OpenCall => /\ cs[c] \in OpenCall /\ new(c).rev = cs[c].rev
                                       /\ authority.place = here.place => new(c) = cs[c]
             /\ Sparing(new(c))
  <2>1. CASE cs[c] \in OpenCall
    <3>1. [cs[c] EXCEPT !.moved = TRUE] \in OpenCall /\ [cs[c] EXCEPT !.moved = TRUE].rev = cs[c].rev
            /\ Sparing([cs[c] EXCEPT !.moved = TRUE])
      BY <2>1 DEF OpenCall, Sparing
    <3> QED
      BY <2>1, <3>1
  <2>2. CASE cs[c] \notin OpenCall
    BY <2>2
  <2> QED
    BY <2>1, <2>2
<1>4. ASSUME NEW c \in Calls, calls'[c] \in OpenCall
      PROVE  calls'[c].rev <= revision' /\ (calls'[c].rev = revision' => ~calls'[c].moved)
  <2>1. cs[c] \in OpenCall /\ calls'[c].rev = cs[c].rev /\ cs[c].rev \in Int
          /\ (authority.place = here.place => calls'[c] = cs[c])
    BY <1>2, <1>3, <1>4, BrowserAssumption DEF OpenCall, Revisions
  <2> QED
    BY <1>1, <2>1
<1> QED
  BY <1>1, <1>2, <1>3, <1>4 DEF CallsKnowTheirRevision, SentSparingly

LEMMA ChooseKeeps == ASSUME BrowserInv, NEW w \in Workspaces, Choose(w) PROVE BrowserInv'
<1> USE DEF BrowserInv
<1>1. revision' = revision + 1 /\ revision' \in Revisions /\ revision \in Int
  BY BrowserAssumption DEF Choose, BrowserTypes, Revisions
<1>2. BrowserTypes'
  BY <1>1 DEF Choose, BrowserTypes, Places
<1>3. CallsKnowTheirRevision'
  <2>1. \A c \in Calls : calls[c] \in OpenCall => calls[c].rev \in Int /\ calls[c].rev <= revision
    BY BrowserAssumption DEF CallsKnowTheirRevision, OpenCall, Revisions
  <2>2. calls' = calls
    BY DEF Choose
  <2> QED
    BY <1>1, <2>1, <2>2 DEF CallsKnowTheirRevision
<1>4. LandingsFollowChoice'
  <2> SUFFICES ASSUME NEW a \in landing' PROVE a.rev <= revision' /\ (a.rev = revision' => a.place = w)
    BY DEF Choose, LandingsFollowChoice
  <2>1. CASE a = [rev |-> revision + 1, place |-> w]
    <3>1. a.rev = revision + 1 /\ a.place = w
      BY <2>1
    <3> QED
      BY <1>1, <3>1
  <2>2. CASE a \in landing
    BY <1>1, <2>2, BrowserAssumption DEF LandingsFollowChoice, BrowserTypes, Revisions
  <2> QED
    BY <2>1, <2>2 DEF Choose
<1> QED
  BY <1>1, <1>2, <1>3, <1>4 DEF Choose, SentSparingly

LEMMA LandKeeps ==
  ASSUME BrowserInv, NEW a \in landing, NEW authority \in Authorities, Land(a, authority)
  PROVE  BrowserInv'
<1> USE DEF BrowserInv
<1>1. /\ landing' = landing \ {a} /\ UNCHANGED <<renewals, choice>> /\ revision \in Int /\ choice.at \in Int
      /\ \A c \in Calls : calls[c] \in OpenCall => calls[c].rev <= revision
      /\ \A b \in landing : b.rev \in Int
  BY BrowserAssumption DEF Land, CallsKnowTheirRevision, BrowserTypes, Revisions
<1>2. CASE LandsNow(a)
  <2>1. Establish(authority, calls)
    BY <1>2 DEF Land
  <2>2. /\ revision' = revision + 1 /\ revision' \in Revisions /\ here' \in Authorities \cup {SignedOut}
        /\ calls' \in [Calls -> OpenCall \cup EndedCall \cup {NotMade}] /\ CallsKnowTheirRevision' /\ SentSparingly'
    BY <1>1, <2>1, EstablishKeeps DEF BrowserTypes, SentSparingly
  <2>3. BrowserTypes'
    BY <1>1, <2>2 DEF BrowserTypes
  <2>4. LandingsFollowChoice' /\ choice'.at <= revision'
    BY <1>1, <2>2 DEF LandingsFollowChoice
  <2> QED
    BY <2>2, <2>3, <2>4
<1>3. CASE ~LandsNow(a)
  BY <1>1, <1>3 DEF Land, BrowserTypes, CallsKnowTheirRevision, LandingsFollowChoice, SentSparingly
<1> QED
  BY <1>2, <1>3

LEMMA StartingKeeps == ASSUME BrowserInv, NEW a \in landing, StartsSignedOut(a) PROVE BrowserInv'
<1> USE DEF BrowserInv
<1>1. /\ Establish(SignedOut, calls) /\ landing' = landing \ {a} /\ UNCHANGED <<renewals, choice>>
      /\ revision \in Int /\ choice.at \in Int
      /\ \A c \in Calls : calls[c] \in OpenCall => calls[c].rev <= revision
      /\ \A b \in landing : b.rev \in Int
  BY BrowserAssumption DEF StartsSignedOut, CallsKnowTheirRevision, BrowserTypes, Revisions
<1>2. /\ revision' = revision + 1 /\ revision' \in Revisions /\ here' \in Authorities \cup {SignedOut}
      /\ calls' \in [Calls -> OpenCall \cup EndedCall \cup {NotMade}] /\ CallsKnowTheirRevision' /\ SentSparingly'
  BY <1>1, EstablishKeeps DEF BrowserTypes, SentSparingly
<1>3. BrowserTypes'
  BY <1>1, <1>2 DEF BrowserTypes
<1>4. LandingsFollowChoice' /\ choice'.at <= revision'
  BY <1>1, <1>2 DEF LandingsFollowChoice
<1> QED
  BY <1>2, <1>3, <1>4

LEMMA SignOutKeeps == ASSUME BrowserInv, SignOut PROVE BrowserInv'
<1> USE DEF BrowserInv
<1>1. /\ Establish(SignedOut, calls) /\ choice' = [place |-> "nowhere", at |-> revision + 1]
      /\ UNCHANGED <<renewals, landing>> /\ revision \in Int
      /\ \A c \in Calls : calls[c] \in OpenCall => calls[c].rev <= revision
      /\ \A a \in landing : a.rev \in Int
  BY BrowserAssumption DEF SignOut, CallsKnowTheirRevision, BrowserTypes, Revisions
<1>2. /\ revision' = revision + 1 /\ revision' \in Revisions /\ here' \in Authorities \cup {SignedOut}
      /\ calls' \in [Calls -> OpenCall \cup EndedCall \cup {NotMade}] /\ CallsKnowTheirRevision' /\ SentSparingly'
  BY <1>1, EstablishKeeps DEF BrowserTypes, SentSparingly
<1>3. BrowserTypes'
  BY <1>1, <1>2 DEF BrowserTypes, Places
<1>4. LandingsFollowChoice' /\ choice'.at <= revision'
  BY <1>1, <1>2 DEF LandingsFollowChoice
<1> QED
  BY <1>2, <1>3, <1>4

(* Steps that stay in the session, and keep the revisions of open calls.    *)
LEMMA CallStepKeeps ==
  ASSUME BrowserInv, UNCHANGED <<revision, landing, choice>>,
         here' \in Authorities \cup {SignedOut},
         renewals' \in [Revisions -> Authorities \cup {SignedOut}],
         calls' \in [Calls -> OpenCall \cup EndedCall \cup {NotMade}],
         \A c \in Calls : calls'[c] \in OpenCall =>
           \/ calls[c] \in OpenCall /\ calls'[c].rev = calls[c].rev /\ calls'[c].moved = calls[c].moved
           \/ calls'[c].rev = revision /\ ~calls'[c].moved,
         \A c \in Calls : Sparing(calls'[c])
  PROVE  BrowserInv'
<1> USE DEF BrowserInv
<1>1. BrowserTypes'
  BY DEF BrowserTypes
<1>2. CallsKnowTheirRevision'
  BY BrowserAssumption DEF CallsKnowTheirRevision, BrowserTypes, Revisions
<1>3. LandingsFollowChoice' /\ choice'.at <= revision' /\ SentSparingly'
  BY DEF LandingsFollowChoice, SentSparingly
<1> QED
  BY <1>1, <1>2, <1>3

(* One call becomes x.                                                      *)
LEMMA OneCallKeeps ==
  ASSUME BrowserInv, Rest, NEW c \in Calls, NEW x \in OpenCall \cup EndedCall,
         SetCall(c, x), renewals' \in [Revisions -> Authorities \cup {SignedOut}],
         x \in OpenCall =>
           \/ calls[c] \in OpenCall /\ x.rev = calls[c].rev /\ x.moved = calls[c].moved
           \/ x.rev = revision /\ ~x.moved,
         Sparing(x)
  PROVE  BrowserInv'
<1> USE DEF BrowserInv
<1>1. /\ calls' \in [Calls -> OpenCall \cup EndedCall \cup {NotMade}]
      /\ calls'[c] = x /\ \A d \in Calls \ {c} : calls'[d] = calls[d]
  BY DEF SetCall, BrowserTypes
<1> QED
  BY <1>1, CallStepKeeps DEF Rest, BrowserTypes, SentSparingly

(* What an open call may become, and what its end is.                       *)
LEMMA Succession ==
  ASSUME NEW call \in OpenCall, Sparing(call)
  PROVE  /\ \A p \in {"delivered", "rejected", "cancelled"} :
              CallEnded(call, p) \in EndedCall /\ Sparing(CallEnded(call, p))
         /\ \A p \in {"sent", "ok", "unauthorized"} :
              LET x == [call EXCEPT !.phase = p]
              IN  x \in OpenCall /\ x.rev = call.rev /\ x.moved = call.moved /\ Sparing(x)
<1>1. ASSUME NEW p \in {"delivered", "rejected", "cancelled"}
      PROVE  CallEnded(call, p) \in EndedCall /\ Sparing(CallEnded(call, p))
  BY DEF OpenCall, EndedCall, CallEnded, Sparing
<1>2. ASSUME NEW p \in {"sent", "ok", "unauthorized"}
      PROVE  LET x == [call EXCEPT !.phase = p]
             IN  x \in OpenCall /\ x.rev = call.rev /\ x.moved = call.moved /\ Sparing(x)
  BY DEF OpenCall, EndedCall, Sparing
<1> QED
  BY <1>1, <1>2

LEMMA Repetition ==
  ASSUME NEW call \in OpenCall, Sparing(call)
  PROVE  /\ LET x == [call EXCEPT !.phase = "waiting", !.retried = TRUE]
            IN  Repeatable(call) => x \in OpenCall /\ x.rev = call.rev /\ x.moved = call.moved /\ Sparing(x)
         /\ LET x == [call EXCEPT !.phase = "sent", !.sends = @ + 1]
            IN  call.phase = "renewed" =>
                  x \in OpenCall /\ x.rev = call.rev /\ x.moved = call.moved /\ Sparing(x)
         /\ \A v \in Revisions :
              LET x == [call EXCEPT !.phase = "renewed", !.rev = v]
              IN  call.phase = "waiting" =>
                    x \in OpenCall /\ x.rev = v /\ x.moved = call.moved /\ Sparing(x)
<1>1. LET x == [call EXCEPT !.phase = "waiting", !.retried = TRUE]
      IN  Repeatable(call) => x \in OpenCall /\ x.rev = call.rev /\ x.moved = call.moved /\ Sparing(x)
  BY DEF OpenCall, EndedCall, Sparing, Repeatable
<1>2. LET x == [call EXCEPT !.phase = "sent", !.sends = @ + 1]
      IN  call.phase = "renewed" =>
            x \in OpenCall /\ x.rev = call.rev /\ x.moved = call.moved /\ Sparing(x)
  <2> DEFINE x == [call EXCEPT !.phase = "sent", !.sends = call.sends + 1]
  <2> SUFFICES ASSUME call.phase = "renewed"
               PROVE  x \in OpenCall /\ x.rev = call.rev /\ x.moved = call.moved /\ Sparing(x)
    OBVIOUS
  <2>1. call.retried /\ call.sends = 1 /\ call.kind = "read"
    BY DEF Sparing
  <2>2. x \in OpenCall /\ x.rev = call.rev /\ x.moved = call.moved
    <3>1. call.sends + 1 = 2 /\ 2 \in 1 .. 2
      BY <2>1
    <3>2. x = [call EXCEPT !.phase = "sent", !.sends = 2]
      BY <3>1
    <3> HIDE DEF x
    <3> QED
      BY <3>1, <3>2 DEF OpenCall
  <2>3. x.phase = "sent" /\ x.retried = call.retried /\ x.kind = call.kind
    BY DEF OpenCall
  <2> HIDE DEF x
  <2>4. Sparing(x)
    BY <2>1, <2>3 DEF Sparing
  <2> QED
    BY <2>2, <2>4
<1>3. ASSUME NEW v \in Revisions
      PROVE  LET x == [call EXCEPT !.phase = "renewed", !.rev = v]
             IN  call.phase = "waiting" =>
                   x \in OpenCall /\ x.rev = v /\ x.moved = call.moved /\ Sparing(x)
  BY DEF OpenCall, EndedCall, Sparing
<1> QED
  BY <1>1, <1>2, <1>3

LEMMA EndKeeps ==
  ASSUME BrowserInv, Rest, NEW c \in Calls, calls[c] \in OpenCall,
         NEW p \in {"delivered", "rejected", "cancelled"}, Ends(c, p),
         renewals' \in [Revisions -> Authorities \cup {SignedOut}]
  PROVE  BrowserInv'
<1>1. CallEnded(calls[c], p) \in EndedCall /\ CallEnded(calls[c], p) \notin OpenCall
        /\ Sparing(CallEnded(calls[c], p))
  BY Succession, Phases DEF BrowserInv, SentSparingly
<1> QED
  BY <1>1, OneCallKeeps DEF Ends

-----------------------------------------------------------------------------
(* Calls.                                                                   *)

LEMMA CallsKeep ==
  ASSUME BrowserInv, NEW c \in Calls,
         \/ \E kind \in {"read", "command"} : SendCall(c, kind)
         \/ Answered(c) \/ Deliver(c) \/ Unauthorized(c) \/ Resume(c)
  PROVE  BrowserInv'
<1> USE DEF BrowserInv
<1>1. revision \in Revisions /\ here \in Authorities \cup {SignedOut}
        /\ renewals \in [Revisions -> Authorities \cup {SignedOut}]
  BY DEF BrowserTypes
<1>2. calls[c].phase \in OpenPhases => calls[c] \in OpenCall
  BY Phases DEF BrowserTypes
<1>3. Sparing(calls[c])
  BY DEF SentSparingly
<1>4. ASSUME NEW kind \in {"read", "command"}, SendCall(c, kind) PROVE BrowserInv'
  <2> DEFINE x == [phase |-> "sent", kind |-> kind, rev |-> revision, as |-> here,
                   retried |-> FALSE, sends |-> 1, moved |-> FALSE]
  <2>1. here \in Authorities
    BY <1>1, <1>4 DEF SendCall
  <2>2. x \in OpenCall /\ x.rev = revision /\ ~x.moved /\ Sparing(x)
    BY <1>1, <2>1 DEF OpenCall, Sparing
  <2>3. SetCall(c, x) /\ Rest /\ renewals' = renewals
    BY <1>4 DEF SendCall
  <2> HIDE DEF x
  <2> QED
    BY <1>1, <2>2, <2>3, OneCallKeeps
<1>5. ASSUME Answered(c) PROVE BrowserInv'
  <2>1. calls[c] \in OpenCall /\ Rest /\ renewals' = renewals
    BY <1>2, <1>5 DEF Answered, OpenPhases
  <2>2. CASE Ends(c, "rejected")
    BY <1>1, <2>1, <2>2, EndKeeps
  <2>3. ASSUME NEW p \in {"ok", "unauthorized"}, Becomes(c, p) PROVE BrowserInv'
    <3> DEFINE x == [calls[c] EXCEPT !.phase = p]
    <3>1. x \in OpenCall /\ x.rev = calls[c].rev /\ x.moved = calls[c].moved /\ Sparing(x)
      BY <1>3, <2>1, Succession
    <3>2. SetCall(c, x)
      BY <2>3 DEF Becomes
    <3> HIDE DEF x
    <3> QED
      BY <1>1, <2>1, <3>1, <3>2, OneCallKeeps
  <2> QED
    BY <1>5, <2>2, <2>3 DEF Answered
<1>6. ASSUME Deliver(c) PROVE BrowserInv'
  <2>1. calls[c] \in OpenCall /\ Rest /\ renewals' = renewals
    BY <1>2, <1>6 DEF Deliver, OpenPhases
  <2>2. Ends(c, "delivered") \/ Ends(c, "cancelled")
    BY <1>6 DEF Deliver
  <2> QED
    BY <1>1, <2>1, <2>2, EndKeeps
<1>7. ASSUME Unauthorized(c) PROVE BrowserInv'
  <2> DEFINE x == [calls[c] EXCEPT !.phase = "waiting", !.retried = TRUE]
  <2>1. calls[c] \in OpenCall /\ Rest
    BY <1>2, <1>7 DEF Unauthorized, OpenPhases
  <2>2. renewals' = renewals
          \/ renewals' = [renewals EXCEPT ![revision] = IF @ = SignedOut THEN here ELSE @]
    BY <1>7 DEF Unauthorized
  <2>3. Ends(c, "rejected") \/ Ends(c, "cancelled") \/ (Repeatable(calls[c]) /\ SetCall(c, x))
    BY <1>7 DEF Unauthorized
  <2>4. renewals' \in [Revisions -> Authorities \cup {SignedOut}]
    BY <1>1, <2>2
  <2>5. Repeatable(calls[c]) =>
          x \in OpenCall /\ x.rev = calls[c].rev /\ x.moved = calls[c].moved /\ Sparing(x)
    BY <1>3, <2>1, Repetition
  <2> HIDE DEF x
  <2> QED
    BY <2>1, <2>3, <2>4, <2>5, EndKeeps, OneCallKeeps
<1>8. ASSUME Resume(c) PROVE BrowserInv'
  <2> DEFINE x == [calls[c] EXCEPT !.phase = "sent", !.sends = @ + 1]
  <2>1. calls[c] \in OpenCall /\ calls[c].phase = "renewed" /\ Rest /\ renewals' = renewals
    BY <1>2, <1>8 DEF Resume, OpenPhases
  <2>2. Ends(c, "cancelled") \/ SetCall(c, x)
    BY <1>8 DEF Resume
  <2>3. x \in OpenCall /\ x.rev = calls[c].rev /\ x.moved = calls[c].moved /\ Sparing(x)
    BY <1>3, <2>1, Repetition
  <2> HIDE DEF x
  <2> QED
    BY <1>1, <2>1, <2>2, <2>3, EndKeeps, OneCallKeeps
<1> QED
  BY <1>4, <1>5, <1>6, <1>7, <1>8
-----------------------------------------------------------------------------
(* Renewals of the session.                                                 *)

LEMMA WaitersEndQuietly ==
  ASSUME BrowserInv, NEW v \in Revisions, NEW p \in {"rejected", "cancelled"}
  PROVE  /\ WaitersEnd(v, p) \in [Calls -> OpenCall \cup EndedCall \cup {NotMade}]
         /\ \A c \in Calls : Sparing(WaitersEnd(v, p)[c])
         /\ \A c \in Calls : WaitersEnd(v, p)[c] \in OpenCall =>
              calls[c] \in OpenCall /\ WaitersEnd(v, p)[c] = calls[c]
<1> USE DEF BrowserInv
<1> SUFFICES ASSUME NEW c \in Calls
             PROVE  LET x == WaitersEnd(v, p)[c]
                    IN  /\ x \in OpenCall \cup EndedCall \cup {NotMade} /\ Sparing(x)
                        /\ x \in OpenCall => calls[c] \in OpenCall /\ x = calls[c]
  BY DEF WaitersEnd
<1>1. calls[c] \in OpenCall \cup EndedCall \cup {NotMade} /\ Sparing(calls[c])
  BY DEF BrowserTypes, SentSparingly
<1>2. calls[c] \in OpenCall =>
        CallEnded(calls[c], p) \in EndedCall /\ CallEnded(calls[c], p) \notin OpenCall
          /\ Sparing(CallEnded(calls[c], p))
  BY <1>1, Succession, Phases
<1> QED
  BY <1>1, <1>2 DEF WaitersEnd

LEMMA WaitersResume ==
  ASSUME BrowserInv, revision + 1 \in Revisions, NEW v \in Revisions, v = revision
  PROVE  /\ WaitersGoOn(v) \in [Calls -> OpenCall \cup EndedCall \cup {NotMade}]
         /\ \A c \in Calls : Sparing(WaitersGoOn(v)[c])
         /\ \A c \in Calls : WaitersGoOn(v)[c] \in OpenCall =>
              \/ WaitersGoOn(v)[c].rev <= revision
              \/ WaitersGoOn(v)[c].rev = revision + 1 /\ ~WaitersGoOn(v)[c].moved
<1> USE DEF BrowserInv
<1> SUFFICES ASSUME NEW c \in Calls
             PROVE  LET x == WaitersGoOn(v)[c]
                    IN  /\ x \in OpenCall \cup EndedCall \cup {NotMade} /\ Sparing(x)
                        /\ x \in OpenCall => x.rev <= revision \/ (x.rev = revision + 1 /\ ~x.moved)
  BY DEF WaitersGoOn
<1> DEFINE x == [calls[c] EXCEPT !.phase = "renewed", !.rev = revision + 1]
<1>1. calls[c] \in OpenCall \cup EndedCall \cup {NotMade} /\ Sparing(calls[c])
  BY DEF BrowserTypes, SentSparingly
<1>2. CASE calls[c] \in OpenCall /\ calls[c].phase = "waiting" /\ calls[c].rev = v
  <2>1. x \in OpenCall /\ x.rev = revision + 1 /\ x.moved = calls[c].moved /\ Sparing(x)
    BY <1>1, <1>2, Repetition
  <2>2. ~calls[c].moved
    BY <1>2 DEF CallsKnowTheirRevision
  <2>3. WaitersGoOn(v)[c] = x
    BY <1>2 DEF WaitersGoOn
  <2> HIDE DEF x
  <2> QED
    BY <2>1, <2>2, <2>3
<1>3. CASE ~(calls[c] \in OpenCall /\ calls[c].phase = "waiting" /\ calls[c].rev = v)
  <2>1. WaitersGoOn(v)[c] = calls[c]
    BY <1>3 DEF WaitersGoOn
  <2> QED
    BY <1>1, <2>1 DEF CallsKnowTheirRevision
<1> QED
  BY <1>2, <1>3

LEMMA RenewalsKeep ==
  ASSUME BrowserInv, NEW v \in Revisions,
         \/ \E grants \in {"basic", "more"} : Renewed(v, grants)
         \/ RenewalRefused(v) \/ RenewalFails(v)
  PROVE  BrowserInv'
<1> USE DEF BrowserInv
<1>1. /\ renewals[v] # SignedOut /\ renewals' = [renewals EXCEPT ![v] = SignedOut]
      /\ renewals' \in [Revisions -> Authorities \cup {SignedOut}]
      /\ revision \in Int /\ UNCHANGED <<landing, choice>> /\ choice.at \in Int
      /\ \A a \in landing : a.rev \in Int
  BY BrowserAssumption DEF Renewed, RenewalRefused, RenewalFails, Over, Rest, BrowserTypes, Revisions
<1>2. ASSUME revision' = revision + 1, revision' \in Revisions, here' \in Authorities \cup {SignedOut},
             calls' \in [Calls -> OpenCall \cup EndedCall \cup {NotMade}],
             CallsKnowTheirRevision', SentSparingly'
      PROVE  BrowserInv'
  <2>1. BrowserTypes'
    BY <1>1, <1>2 DEF BrowserTypes
  <2>2. LandingsFollowChoice' /\ choice'.at <= revision'
    BY <1>1, <1>2 DEF LandingsFollowChoice
  <2> QED
    BY <1>2, <2>1, <2>2
<1>3. ASSUME NEW grants \in {"basic", "more"}, Renewed(v, grants) PROVE BrowserInv'
  <2> DEFINE authority == [here EXCEPT !.grants = grants]
  <2>1. v = revision /\ here # SignedOut /\ here \in Authorities /\ Establish(authority, WaitersGoOn(v))
    BY <1>1, <1>3 DEF Renewed, Current, BrowserTypes
  <2>2. authority \in Authorities /\ authority.place = here.place
    BY <2>1 DEF Authorities
  <2>3. revision + 1 \in Revisions
    BY <2>1, BrowserAssumption DEF Establish, BrowserTypes, Revisions
  <2> HIDE DEF authority
  <2> QED
    BY <1>1, <1>2, <2>1, <2>2, <2>3, WaitersResume, EstablishKeeps
<1>4. ASSUME RenewalRefused(v) PROVE BrowserInv'
  <2>1. Establish(SignedOut, WaitersEnd(v, "rejected"))
    BY <1>4 DEF RenewalRefused
  <2>2. \A c \in Calls : WaitersEnd(v, "rejected")[c] \in OpenCall => WaitersEnd(v, "rejected")[c].rev <= revision
    BY WaitersEndQuietly DEF CallsKnowTheirRevision
  <2> QED
    BY <1>1, <1>2, <2>1, <2>2, WaitersEndQuietly, EstablishKeeps
<1>5. ASSUME RenewalFails(v) PROVE BrowserInv'
  <2>1. PICK p \in {"rejected", "cancelled"} : calls' = WaitersEnd(v, p)
    BY <1>5 DEF RenewalFails
  <2>2. here' \in Authorities \cup {SignedOut} /\ UNCHANGED <<revision, landing, choice>>
    BY <1>5 DEF RenewalFails, Rest, BrowserTypes
  <2> QED
    BY <1>1, <2>1, <2>2, WaitersEndQuietly, CallStepKeeps
<1> QED
  BY <1>3, <1>4, <1>5

LEMMA BrowserStep == BrowserInv /\ [BrowserNext]_browserVars => BrowserInv'
<1> SUFFICES ASSUME BrowserInv, [BrowserNext]_browserVars PROVE BrowserInv'
  OBVIOUS
<1>1. ASSUME NEW w \in Workspaces, Choose(w) PROVE BrowserInv'
  BY <1>1, ChooseKeeps
<1>2. ASSUME NEW a \in landing, NEW authority \in Authorities, Land(a, authority) PROVE BrowserInv'
  BY <1>2, LandKeeps
<1>3. ASSUME NEW a \in landing, NotLanded(a) PROVE BrowserInv'
  BY <1>3 DEF NotLanded, BrowserInv, BrowserTypes, SentSparingly, CallsKnowTheirRevision, LandingsFollowChoice
<1>4. CASE SignOut
  BY <1>4, SignOutKeeps
<1>7. ASSUME NEW a \in landing, StartsSignedOut(a) PROVE BrowserInv'
  BY <1>7, StartingKeeps
<1>5. ASSUME NEW authority \in Authorities, RefreshEntitlements(authority) PROVE BrowserInv'
  BY <1>5 DEF RefreshEntitlements, BrowserInv, BrowserTypes, SentSparingly, CallsKnowTheirRevision,
              LandingsFollowChoice
<1>6. CASE UNCHANGED browserVars
  BY <1>6 DEF browserVars, BrowserInv, BrowserTypes, SentSparingly, CallsKnowTheirRevision, LandingsFollowChoice
<1> QED
  BY <1>1, <1>2, <1>3, <1>4, <1>5, <1>6, <1>7, CallsKeep, RenewalsKeep DEF BrowserNext

LEMMA BrowserAlways == BrowserSpec => []BrowserInv
<1> QED
  BY BrowserBegins, BrowserStep, PTL DEF BrowserSpec

-----------------------------------------------------------------------------
(* State has its types; a command is sent once, and a read twice at most.   *)
THEOREM NoReplay == BrowserSpec => []BrowserTypeOK
<1>1. BrowserInv => BrowserTypeOK
  <2> SUFFICES ASSUME BrowserInv PROVE BrowserTypeOK
    OBVIOUS
  <2>1. \A c \in Calls : calls[c] # NotMade /\ calls[c].kind = "command" => calls[c].sends = 1
    BY DEF BrowserInv, BrowserTypes, SentSparingly, Sparing
  <2> QED
    BY <2>1 DEF BrowserInv, BrowserTypes, BrowserTypeOK
<1> QED
  BY <1>1, BrowserAlways, PTL

(* No other step delivers: it leaves every call as it was, ends it another  *)
(* way or keeps it open.                                                    *)
LEMMA OnlyDeliverDelivers ==
  ASSUME BrowserInv, [BrowserNext]_browserVars, NEW c \in Calls,
         calls'[c].phase = "delivered", calls[c].phase # "delivered"
  PROVE  Deliver(c)
<1> USE DEF BrowserInv
<1>0. calls \in [Calls -> OpenCall \cup EndedCall \cup {NotMade}]
  BY DEF BrowserTypes
<1>1. ASSUME NEW cs, NEW authority, cs[c].phase # "delivered", Establish(authority, cs)
      PROVE  FALSE
  <2>1. calls'[c] = IF cs[c] \in OpenCall /\ authority.place # here.place
                    THEN [cs[c] EXCEPT !.moved = TRUE] ELSE cs[c]
    BY <1>1 DEF Establish, Moved
  <2>2. cs[c] \in OpenCall => [cs[c] EXCEPT !.moved = TRUE].phase = cs[c].phase
    BY DEF OpenCall
  <2> QED
    BY <1>1, <2>1, <2>2
<1>2. ASSUME calls' = calls PROVE FALSE
  BY <1>2
<1>3. ASSUME NEW v \in Revisions, NEW p \in {"rejected", "cancelled"}
      PROVE  WaitersEnd(v, p)[c].phase # "delivered"
  BY DEF WaitersEnd, CallEnded
<1>4. ASSUME NEW v \in Revisions PROVE WaitersGoOn(v)[c].phase # "delivered"
  <2>1. calls[c] \in OpenCall => [calls[c] EXCEPT !.phase = "renewed", !.rev = revision + 1].phase = "renewed"
    BY DEF OpenCall
  <2> QED
    BY <2>1 DEF WaitersGoOn
<1>5. ASSUME NEW d \in Calls, NEW row, calls' = [calls EXCEPT ![d] = row], row.phase # "delivered"
      PROVE  FALSE
  BY <1>0, <1>5
<1>6. ASSUME NEW d \in Calls, NEW p, calls' = [calls EXCEPT ![d] = [calls[d] EXCEPT !.phase = p]],
             calls[d].phase \in OpenPhases, p # "delivered"
      PROVE  FALSE
  <2>1. calls[d] \in OpenCall
    BY <1>0, <1>6, Phases
  <2>2. [calls[d] EXCEPT !.phase = p].phase = p
    BY <2>1 DEF OpenCall
  <2> QED
    BY <1>5, <1>6, <2>2
<1>7. ASSUME NEW d \in Calls, NEW p, Ends(d, p), p # "delivered" PROVE FALSE
  BY <1>5, <1>7 DEF Ends, SetCall, CallEnded
<1>8. CASE \E d \in Calls : \E kind \in {"read", "command"} : SendCall(d, kind)
  BY <1>5, <1>8 DEF SendCall, SetCall
<1>9. CASE \E d \in Calls : Answered(d)
  <2>1. PICK d \in Calls : Answered(d)
    BY <1>9
  <2> QED
    BY <2>1, <1>6, <1>7 DEF Answered, Becomes, SetCall, OpenPhases
<1>10. CASE \E d \in Calls : Deliver(d)
  <2>1. PICK d \in Calls : Deliver(d)
    BY <1>10
  <2>2. d = c
    BY <1>0, <2>1 DEF Deliver, Ends, SetCall
  <2> QED
    BY <2>1, <2>2
<1>11. CASE \E d \in Calls : Unauthorized(d)
  <2>1. PICK d \in Calls : Unauthorized(d)
    BY <1>11
  <2>2. calls[d] \in OpenCall
    BY <1>0, <2>1, Phases DEF Unauthorized, OpenPhases
  <2>3. [calls[d] EXCEPT !.phase = "waiting", !.retried = TRUE].phase = "waiting"
    BY <2>2 DEF OpenCall
  <2>4. \/ Ends(d, "cancelled") \/ Ends(d, "rejected")
        \/ SetCall(d, [calls[d] EXCEPT !.phase = "waiting", !.retried = TRUE])
    BY <2>1 DEF Unauthorized
  <2> QED
    BY <2>3, <2>4, <1>5, <1>7 DEF SetCall
<1>12. CASE \E d \in Calls : Resume(d)
  <2>1. PICK d \in Calls : Resume(d)
    BY <1>12
  <2>2. calls[d] \in OpenCall
    BY <1>0, <2>1, Phases DEF Resume, OpenPhases
  <2>3. [calls[d] EXCEPT !.phase = "sent", !.sends = @ + 1].phase = "sent"
    BY <2>2 DEF OpenCall
  <2>4. Ends(d, "cancelled") \/ SetCall(d, [calls[d] EXCEPT !.phase = "sent", !.sends = @ + 1])
    BY <2>1 DEF Resume
  <2> QED
    BY <2>3, <2>4, <1>5, <1>7 DEF SetCall
<1>13. CASE \E v \in Revisions : \/ \E grants \in {"basic", "more"} : Renewed(v, grants)
                                 \/ RenewalRefused(v) \/ RenewalFails(v)
  <2>1. PICK v \in Revisions : \/ \E grants \in {"basic", "more"} : Renewed(v, grants)
                               \/ RenewalRefused(v) \/ RenewalFails(v)
    BY <1>13
  <2>2. CASE \E grants \in {"basic", "more"} : Renewed(v, grants)
    BY <1>1, <1>4, <2>2 DEF Renewed
  <2>3. CASE RenewalRefused(v)
    BY <1>1, <1>3, <2>3 DEF RenewalRefused
  <2>4. CASE RenewalFails(v)
    BY <1>3, <2>4 DEF RenewalFails
  <2> QED
    BY <2>1, <2>2, <2>3, <2>4
<1>14. CASE \E a \in landing, authority \in Authorities : Land(a, authority)
  BY <1>1, <1>2, <1>14 DEF Land
<1>15. CASE SignOut
  BY <1>1, <1>15 DEF SignOut
<1>16. CASE \E a \in landing : StartsSignedOut(a)
  BY <1>1, <1>16 DEF StartsSignedOut
<1> QED
  BY <1>2, <1>8, <1>9, <1>10, <1>11, <1>12, <1>13, <1>14, <1>15, <1>16
     DEF BrowserNext, browserVars, Choose, NotLanded, RefreshEntitlements

(* What is delivered was asked in the workspace that is shown, and the tab  *)
(* has not been in another since, however often the user came back.         *)
THEOREM AnswersReachTheirPlace == BrowserSpec => AnswersStayHome
<1>1. BrowserInv /\ [BrowserNext]_browserVars =>
        [\A c \in Calls : calls'[c].phase = "delivered" /\ calls[c].phase # "delivered"
           => ~calls[c].moved /\ calls[c].as = here]_browserVars
  <2> SUFFICES ASSUME BrowserInv, [BrowserNext]_browserVars, NEW c \in Calls,
                      calls'[c].phase = "delivered", calls[c].phase # "delivered"
               PROVE  ~calls[c].moved /\ calls[c].as = here
    OBVIOUS
  <2>1. Deliver(c)
    BY OnlyDeliverDelivers
  <2>2. calls[c] \in OpenCall
    BY <2>1, Phases DEF Deliver, BrowserInv, BrowserTypes, OpenPhases
  <2>3. calls'[c] = CallEnded(calls[c], IF StillValid(calls[c]) THEN "delivered" ELSE "cancelled")
    BY <2>1 DEF Deliver, Ends, SetCall, BrowserInv, BrowserTypes
  <2>4. StillValid(calls[c])
    BY <2>3 DEF CallEnded
  <2> QED
    BY <2>2, <2>4 DEF StillValid, BrowserInv, CallsKnowTheirRevision
<1> QED
  BY <1>1, BrowserAlways, PTL DEF BrowserSpec, AnswersStayHome

-----------------------------------------------------------------------------
(* Where the tab is.                                                        *)
LEMMA PlaceFollowsChoice ==
  ASSUME BrowserInv, [BrowserNext]_browserVars, here'.place # here.place
  PROVE  \/ here'.place = choice'.place
         \/ /\ here' = SignedOut
            /\ \E v \in choice.at .. revision : renewals[v] # SignedOut /\ renewals'[v] = SignedOut
<1> USE DEF BrowserInv
<1>1. CASE \E a \in landing, authority \in Authorities : Land(a, authority)
  <2>1. PICK a \in landing, authority \in Authorities : Land(a, authority)
    BY <1>1
  <2>2. a.rev = revision /\ here' = authority /\ authority.place = a.place /\ choice' = choice
    BY <2>1 DEF Land, LandsNow, Establish
  <2> QED
    BY <2>2 DEF LandingsFollowChoice
<1>2. CASE SignOut
  BY <1>2 DEF SignOut, Establish, SignedOut
<1>3. CASE \E v \in Revisions : \E grants \in {"basic", "more"} : Renewed(v, grants)
  <2>1. PICK v \in Revisions, grants \in {"basic", "more"} : Renewed(v, grants)
    BY <1>3
  <2>2. here' = [here EXCEPT !.grants = grants] /\ here \in Authorities
    BY <2>1 DEF Renewed, Establish, Over, Current, BrowserTypes
  <2> QED
    BY <2>2 DEF Authorities
<1>4. CASE \E v \in Revisions : RenewalRefused(v)
  <2>1. PICK v \in Revisions : RenewalRefused(v)
    BY <1>4
  <2>2. v = revision /\ here' = SignedOut /\ renewals[v] # SignedOut
    BY <2>1 DEF RenewalRefused, Over, Current, Establish
  <2>3. renewals'[v] = SignedOut
    BY <2>1 DEF RenewalRefused, Over, BrowserTypes
  <2>4. v \in choice.at .. revision
    BY <2>2, BrowserAssumption DEF BrowserTypes, Revisions
  <2> QED
    BY <2>2, <2>3, <2>4
<1>5. ASSUME here' = here PROVE FALSE
  BY <1>5
<1>6. ASSUME NEW authority, RefreshEntitlements(authority) PROVE FALSE
  BY <1>6 DEF RefreshEntitlements
<1>7. ASSUME NEW a \in landing, StartsSignedOut(a) PROVE FALSE
  BY <1>7 DEF StartsSignedOut, Establish
<1> QED
  BY <1>1, <1>2, <1>3, <1>4, <1>5, <1>6, <1>7
     DEF BrowserNext, browserVars, Choose, NotLanded, SendCall, Answered, Deliver, Unauthorized, Resume,
         RenewalFails, Rest

(* The tab moves only to the workspace the user chose last; a switch that  *)
(* failed or was superseded leaves the old one shown.  It is signed out     *)
(* against that choice only by the refusal of a renewal asked since.        *)
THEOREM ChoiceDecides == BrowserSpec => LastChoiceWins
<1>1. BrowserInv /\ [BrowserNext]_browserVars =>
        [here'.place # here.place =>
           \/ here'.place = choice'.place
           \/ /\ here' = SignedOut
              /\ \E v \in choice.at .. revision : renewals[v] # SignedOut /\ renewals'[v] = SignedOut
        ]_browserVars
  BY PlaceFollowsChoice
<1> QED
  BY <1>1, BrowserAlways, PTL DEF BrowserSpec, LastChoiceWins

-----------------------------------------------------------------------------
(* What Crm promises of leads and follow-ups, for any number of rows,       *)
(* people and sessions.  Every write of a row raises its version: a row at  *)
(* the version of a snapshot still says what the snapshot says.             *)

CrmCmd == LeadCmd \cup FollowupCmd \cup StageCmd \cup {CrmIdle.cmd}

(* A lead that was active when it was read, and is unless it was written.   *)
ActiveIfUnwritten(l, v) ==
  v \in Nat /\ v <= leads[l].version /\ (v = leads[l].version => leads[l].status = "active")

SnapshotOf(c, rows) ==
  /\ c.op = "follow" =>
       leads[c.lead].version > 0 /\ \E v : <<c.lead, v>> \in rows /\ ActiveIfUnwritten(c.lead, v)
  /\ c.op = "refollow" =>
       /\ <<c.followup, c.version>> \in rows /\ c.version <= followups[c.followup].version
       /\ \A l \in followups[c.followup].lead : \E v : <<l, v>> \in rows /\ ActiveIfUnwritten(l, v)

CrmInv ==
  /\ CrmTypeOK
  /\ \A l \in Leads : leads[l].status # "none" => leads[l].version > 0
  /\ crmTx = [t \in Txns |-> crmTx[t]]
  /\ \A t \in Txns : crmTx[t].cmd \in CrmCmd /\ SnapshotOf(crmTx[t].cmd, crmTx[t].rows)

-----------------------------------------------------------------------------
(* Commands and rows.                                                       *)

LEMMA CrmCommands ==
  ASSUME NEW c \in CrmCmd
  PROVE  /\ c.op = "create" => c.lead \in Leads /\ c.stage \in Stages /\ c.assignee \in Assignees
         /\ c.op = "update" => c.lead \in Leads /\ c.version \in Versions /\ c.stage \in Stages /\ c.assignee \in Assignees
         /\ c.op = "state" => c.lead \in Leads /\ c.version \in Versions /\ c.status \in {"active", "lost", "archived"}
         /\ c.op \in {"note", "convert"} => c.lead \in Leads /\ c.version \in Versions
         /\ c.op = "follow" => c.lead \in Leads /\ c.followup \in Followups /\ c.assignee \in Assignees
         /\ c.op = "refollow" => c.followup \in Followups /\ c.version \in Versions /\ c.assignee \in Assignees
         /\ c.op = "finish" => /\ c.followup \in Followups /\ c.version \in Versions
                               /\ c.status \in {"completed", "cancelled"}
         /\ c.op = "stage" => c.stage \in Stages /\ c.version \in 0 .. MaxVersion /\ c.active \in BOOLEAN
<1>1. CASE c \in LeadCmd
  BY <1>1 DEF LeadCmd
<1>2. CASE c \in FollowupCmd
  BY <1>2 DEF FollowupCmd
<1>3. CASE c \in StageCmd
  BY <1>3 DEF StageCmd
<1>4. CASE c = CrmIdle.cmd
  BY <1>4 DEF CrmIdle
<1> QED
  BY <1>1, <1>2, <1>3, <1>4 DEF CrmCmd

LEMMA CrmBegins == CrmInit => CrmInv
<1> SUFFICES ASSUME CrmInit PROVE CrmInv
  OBVIOUS
<1>1. StaffTypeOK
  BY TenantAssumption DEF CrmInit, StaffInit, StaffTypeOK, Standing, OwnerStanding, NoStanding
<1>2. CrmTypeOK
  BY <1>1, CrmAssumption
     DEF CrmInit, CrmTypeOK, StageRow, LeadRow, FollowupRow, NoStage, NoLead, NoFollowup, Assignees
<1> QED
  BY <1>2 DEF CrmInit, CrmInv, CrmIdle, CrmCmd, SnapshotOf, NoLead

(* Rows that are written get a higher version, and a follow-up keeps its    *)
(* lead: then the other commands' snapshots are what they were.             *)
LEMMA SnapshotsStay ==
  ASSUME CrmInv, CrmTypeOK', NEW c \in CrmCmd, NEW rows, SnapshotOf(c, rows),
         \A l \in Leads : leads'[l] = leads[l] \/ leads'[l].version > leads[l].version,
         \A f \in Followups : \/ followups'[f] = followups[f]
                              \/ /\ followups'[f].version > followups[f].version
                                 /\ followups[f].version = 0 \/ followups'[f].lead = followups[f].lead
  PROVE  SnapshotOf(c, rows)'
<1>1. /\ \A l \in Leads : leads[l].version \in Nat /\ leads'[l].version \in Nat
      /\ \A f \in Followups : /\ followups[f].version \in Nat /\ followups'[f].version \in Nat
                              /\ followups[f].lead \subseteq Leads
  BY CrmAssumption DEF CrmInv, CrmTypeOK, LeadRow, FollowupRow
<1>2. ASSUME NEW l \in Leads, NEW v, ActiveIfUnwritten(l, v) PROVE ActiveIfUnwritten(l, v)'
  BY <1>1, <1>2 DEF ActiveIfUnwritten
<1>3. CASE c.op = "follow"
  <2>1. PICK l \in Leads : l = c.lead
    BY <1>3, CrmCommands
  <2>2. PICK v : <<l, v>> \in rows /\ ActiveIfUnwritten(l, v)
    BY <1>3, <2>1 DEF SnapshotOf
  <2>3. ActiveIfUnwritten(l, v)'
    BY <1>2, <2>2
  <2>4. leads'[l].version > 0
    BY <1>1, <1>3, <2>1 DEF SnapshotOf
  <2> QED
    BY <1>3, <2>1, <2>2, <2>3, <2>4 DEF SnapshotOf
<1>4. CASE c.op = "refollow"
  <2>1. PICK f \in Followups : f = c.followup /\ c.version \in Versions
    BY <1>4, CrmCommands
  <2>2. c.version \in Nat \ {0} /\ <<f, c.version>> \in rows /\ c.version <= followups[f].version
    BY <1>4, <2>1, CrmAssumption DEF SnapshotOf, Versions
  <2>3. followups'[f].lead = followups[f].lead /\ c.version <= followups'[f].version
    BY <1>1, <2>1, <2>2
  <2>4. ASSUME NEW l \in followups'[f].lead PROVE \E v : <<l, v>> \in rows /\ ActiveIfUnwritten(l, v)'
    <3>1. l \in Leads /\ l \in followups[f].lead
      BY <1>1, <2>3, <2>4
    <3>2. PICK v : <<l, v>> \in rows /\ ActiveIfUnwritten(l, v)
      BY <1>4, <2>1, <3>1 DEF SnapshotOf
    <3> QED
      BY <1>2, <3>1, <3>2
  <2> QED
    BY <1>4, <2>1, <2>2, <2>3, <2>4 DEF SnapshotOf
<1> QED
  BY <1>3, <1>4 DEF SnapshotOf

LEMMA CrmKeeps ==
  ASSUME CrmInv, CrmTypeOK', \A l \in Leads : leads'[l].status # "none" => leads'[l].version > 0,
         \A l \in Leads : leads'[l] = leads[l] \/ leads'[l].version > leads[l].version,
         \A f \in Followups : \/ followups'[f] = followups[f]
                              \/ /\ followups'[f].version > followups[f].version
                                 /\ followups[f].version = 0 \/ followups'[f].lead = followups[f].lead,
         crmTx' = crmTx \/ \E t \in Txns : crmTx' = [crmTx EXCEPT ![t] = CrmIdle]
  PROVE  CrmInv'
<1>1. crmTx' = [t \in Txns |-> crmTx'[t]] /\ \A t \in Txns : crmTx'[t] = crmTx[t] \/ crmTx'[t] = CrmIdle
  BY DEF CrmInv
<1>2. ASSUME NEW t \in Txns PROVE crmTx'[t].cmd \in CrmCmd /\ SnapshotOf(crmTx[t].cmd, crmTx[t].rows)'
  <2>1. PICK c, rows : c = crmTx'[t].cmd /\ rows = crmTx'[t].rows
    OBVIOUS
  <2>2. CASE crmTx'[t] = crmTx[t]
    <3>1. c \in CrmCmd /\ SnapshotOf(c, rows)
      BY <2>1, <2>2 DEF CrmInv
    <3>2. SnapshotOf(c, rows)'
      BY <3>1, SnapshotsStay
    <3> QED
      BY <2>1, <3>1, <3>2 DEF SnapshotOf, ActiveIfUnwritten
  <2>3. CASE crmTx'[t] = CrmIdle
    BY <2>3 DEF CrmIdle, CrmCmd, SnapshotOf
  <2> QED
    BY <1>1, <2>2, <2>3
<1> QED
  BY <1>1, <1>2 DEF CrmInv

-----------------------------------------------------------------------------
(* Every step.                                                              *)

LEMMA LeadSaved ==
  ASSUME CrmInv, NEW t \in Txns, CrmEnd(t), NEW l \in Leads, NEW new \in LeadRow,
         new.version = leads[l].version + 1,
         leads' = [leads EXCEPT ![l] = new], UNCHANGED <<staff, stages, followups>>
  PROVE  CrmInv'
<1>1. /\ \A m \in Leads : leads[m].version \in Nat
      /\ \A f \in Followups : followups[f].lead \subseteq Leads
  BY CrmAssumption DEF CrmInv, CrmTypeOK, LeadRow, FollowupRow
<1>2. leads' \in [Leads -> LeadRow] /\ \A m \in Leads : leads'[m] = IF m = l THEN new ELSE leads[m]
  BY DEF CrmInv, CrmTypeOK
<1>3. \A m \in Leads : leads'[m] = leads[m] \/ leads'[m].version > leads[m].version
  BY <1>1, <1>2
<1>4. \A m \in Leads : leads[m].version > 0 => leads'[m].version > 0
  BY <1>1, <1>2
<1>5. \A f \in Followups : \A m \in followups'[f].lead : leads'[m].version > 0
  BY <1>1, <1>4 DEF CrmInv, CrmTypeOK
<1>6. CrmTypeOK'
  BY <1>2, <1>5 DEF CrmInv, CrmTypeOK, StaffTypeOK
<1>7. \A m \in Leads : leads'[m].status # "none" => leads'[m].version > 0
  BY <1>1, <1>2 DEF CrmInv
<1>8. crmTx' = [crmTx EXCEPT ![t] = CrmIdle] /\ \A f \in Followups : followups'[f] = followups[f]
  BY DEF CrmEnd
<1> QED
  BY <1>3, <1>6, <1>7, <1>8, CrmKeeps

LEMMA FollowupSaved ==
  ASSUME CrmInv, NEW t \in Txns, CrmEnd(t), NEW f \in Followups, NEW new \in FollowupRow,
         new.version = followups[f].version + 1,
         followups[f].version = 0 \/ new.lead = followups[f].lead,
         \A l \in new.lead : leads[l].version > 0,
         followups' = [followups EXCEPT ![f] = new], UNCHANGED <<staff, stages, leads>>
  PROVE  CrmInv'
<1>1. \A g \in Followups : followups[g].version \in Nat
  BY CrmAssumption DEF CrmInv, CrmTypeOK, FollowupRow
<1>2. /\ followups' \in [Followups -> FollowupRow]
      /\ \A g \in Followups : followups'[g] = IF g = f THEN new ELSE followups[g]
  BY DEF CrmInv, CrmTypeOK
<1>3. \A g \in Followups :
        \/ followups'[g] = followups[g]
        \/ /\ followups'[g].version > followups[g].version
           /\ followups[g].version = 0 \/ followups'[g].lead = followups[g].lead
  BY <1>1, <1>2
<1>4. \A g \in Followups : \A m \in followups'[g].lead : leads'[m].version > 0
  BY <1>2 DEF CrmInv, CrmTypeOK
<1>5. CrmTypeOK'
  BY <1>2, <1>4 DEF CrmInv, CrmTypeOK, StaffTypeOK
<1>6. \A m \in Leads : leads'[m] = leads[m] /\ (leads'[m].status # "none" => leads'[m].version > 0)
  BY DEF CrmInv
<1>7. crmTx' = [crmTx EXCEPT ![t] = CrmIdle]
  BY DEF CrmEnd
<1> QED
  BY <1>3, <1>5, <1>6, <1>7, CrmKeeps

LEMMA StagesSaved ==
  ASSUME CrmInv, NEW t \in Txns, CrmEnd(t), stages' \in [Stages -> StageRow],
         UNCHANGED <<staff, leads, followups>>
  PROVE  CrmInv'
<1>1. CrmTypeOK'
  BY DEF CrmInv, CrmTypeOK, StaffTypeOK
<1>2. /\ \A m \in Leads : leads'[m] = leads[m] /\ (leads'[m].status # "none" => leads'[m].version > 0)
      /\ \A g \in Followups : followups'[g] = followups[g]
  BY DEF CrmInv
<1>3. crmTx' = [crmTx EXCEPT ![t] = CrmIdle]
  BY DEF CrmEnd
<1> QED
  BY <1>1, <1>2, <1>3, CrmKeeps

LEMMA CrmRuns ==
  ASSUME CrmInv, NEW t \in Txns, CrmRun(t)
  PROVE  CrmInv'
<1> DEFINE c == crmTx[t].cmd
<1>1. c \in CrmCmd
  BY DEF CrmInv
<1>2. /\ leads \in [Leads -> LeadRow] /\ followups \in [Followups -> FollowupRow]
      /\ stages \in [Stages -> StageRow] /\ MaxVersion \in Nat \ {0} /\ Recommended \subseteq Stages
  BY CrmAssumption DEF CrmInv, CrmTypeOK
<1>3. CASE CreateLead(t)
  <2>1. PICK l \in Leads, s \in Stages, who \in Assignees : c.lead = l /\ c.stage = s /\ c.assignee = who
    BY <1>1, <1>3, CrmCommands DEF CreateLead, Runs
  <2>2. PICK new : new = [version |-> 1, status |-> "active", stage |-> {s}, assignee |-> who]
    OBVIOUS
  <2>3. new \in LeadRow /\ new.version = leads[l].version + 1
    BY <1>2, <1>3, <2>1, <2>2 DEF CreateLead, LeadRow, NoLead
  <2>4. CrmEnd(t) /\ leads' = [leads EXCEPT ![l] = new] /\ UNCHANGED <<staff, stages, followups>>
    BY <1>3, <2>1, <2>2 DEF CreateLead, Runs, SetLead
  <2> QED
    BY <2>3, <2>4, LeadSaved
<1>4. CASE UpdateLead(t) \/ ChangeState(t) \/ AddNote(t) \/ Convert(t)
  <2>1. PICK l \in Leads : c.lead = l
    BY <1>1, <1>4, CrmCommands DEF UpdateLead, ChangeState, AddNote, Convert, Runs
  <2>2. PICK old \in LeadRow : old = leads[l]
    BY <1>2
  <2>3. ASSUME NEW new \in LeadRow, new.version = old.version + 1, CrmEnd(t), SetLead(l, new) PROVE CrmInv'
    <3>1. leads' = [leads EXCEPT ![l] = new] /\ UNCHANGED <<staff, stages, followups>> /\ new.version = leads[l].version + 1
      BY <2>2, <2>3 DEF SetLead
    <3> QED
      BY <2>3, <3>1, LeadSaved
  <2>4. CASE UpdateLead(t)
    <3>1. PICK s \in Stages, who \in Assignees : c.stage = s /\ c.assignee = who
      BY <1>1, <2>4, CrmCommands DEF UpdateLead, Runs
    <3>2. PICK new : new = [old EXCEPT !.version = @ + 1, !.stage = {s}, !.assignee = who]
      OBVIOUS
    <3>3. CrmEnd(t) /\ SetLead(l, new)
      BY <2>1, <2>2, <2>4, <3>1, <3>2 DEF UpdateLead, Runs
    <3>4. new \in LeadRow /\ new.version = old.version + 1
      <4>1. old.version \in 0 .. MaxVersion /\ new.version = old.version + 1 /\ new.version <= MaxVersion
        BY <3>2, <3>3 DEF LeadRow, SetLead
      <4>2. new.status = old.status /\ new.stage = {s} /\ new.assignee = who
        BY <3>2 DEF LeadRow
      <4>3. old.version + 1 \in 0 .. MaxVersion
        BY <1>2, <4>1
      <4> QED
        BY <3>2, <4>1, <4>2, <4>3 DEF LeadRow
    <3> QED
      BY <2>3, <3>3, <3>4
  <2>5. CASE ChangeState(t)
    <3>1. PICK to \in {"active", "lost", "archived"} : c.status = to
      BY <1>1, <2>5, CrmCommands DEF ChangeState, Runs
    <3>2. PICK new : new = [old EXCEPT !.version = @ + 1, !.status = to]
      OBVIOUS
    <3>3. CrmEnd(t) /\ SetLead(l, new)
      BY <2>1, <2>2, <2>5, <3>1, <3>2 DEF ChangeState, Runs
    <3>4. new \in LeadRow /\ new.version = old.version + 1
      <4>1. old.version \in 0 .. MaxVersion /\ new.version = old.version + 1 /\ new.version <= MaxVersion
        BY <3>2, <3>3 DEF LeadRow, SetLead
      <4>2. new.status = to /\ new.stage = old.stage /\ new.assignee = old.assignee
        BY <3>2 DEF LeadRow
      <4>3. old.version + 1 \in 0 .. MaxVersion
        BY <1>2, <4>1
      <4> QED
        BY <3>2, <4>1, <4>2, <4>3 DEF LeadRow
    <3> QED
      BY <2>3, <3>3, <3>4
  <2>6. CASE AddNote(t)
    <3>1. PICK new : new = [old EXCEPT !.version = @ + 1]
      OBVIOUS
    <3>2. CrmEnd(t) /\ SetLead(l, new)
      BY <2>1, <2>2, <2>6, <3>1 DEF AddNote, Runs
    <3>3. new \in LeadRow /\ new.version = old.version + 1
      BY <1>2, <3>1, <3>2 DEF LeadRow, SetLead
    <3> QED
      BY <2>3, <3>2, <3>3
  <2>7. CASE Convert(t)
    <3>1. PICK new : new = [old EXCEPT !.version = @ + 1, !.status = "converted"]
      OBVIOUS
    <3>2. CrmEnd(t) /\ SetLead(l, new)
      BY <2>1, <2>2, <2>7, <3>1 DEF Convert, Runs
    <3>3. new \in LeadRow /\ new.version = old.version + 1
      <4>1. old.version \in 0 .. MaxVersion /\ new.version = old.version + 1 /\ new.version <= MaxVersion
        BY <3>1, <3>2 DEF LeadRow, SetLead
      <4>2. new.status = "converted" /\ new.stage = old.stage /\ new.assignee = old.assignee
        BY <3>1 DEF LeadRow
      <4>3. old.version + 1 \in 0 .. MaxVersion
        BY <1>2, <4>1
      <4> QED
        BY <3>1, <4>1, <4>2, <4>3 DEF LeadRow
    <3> QED
      BY <2>3, <3>2, <3>3
  <2> QED
    BY <1>4, <2>4, <2>5, <2>6, <2>7
<1>5. CASE CreateFollowup(t)
  <2>1. PICK f \in Followups, l \in Leads, who \in Assignees : c.followup = f /\ c.lead = l /\ c.assignee = who
    BY <1>1, <1>5, CrmCommands DEF CreateFollowup, Runs
  <2>2. PICK new : new = [version |-> 1, status |-> "pending", lead |-> {l}, assignee |-> who]
    OBVIOUS
  <2>3. new \in FollowupRow /\ followups[f].version = 0 /\ new.version = followups[f].version + 1
    BY <1>2, <1>5, <2>1, <2>2 DEF CreateFollowup, FollowupRow, NoFollowup
  <2>4. CrmEnd(t) /\ followups' = [followups EXCEPT ![f] = new] /\ UNCHANGED <<staff, stages, leads>>
    BY <1>5, <2>1, <2>2 DEF CreateFollowup, Runs, SetFollowup
  <2>5. \A m \in new.lead : leads[m].version > 0
    BY <1>5, <2>1, <2>2 DEF CreateFollowup, Runs, CrmInv, SnapshotOf
  <2> QED
    BY <2>3, <2>4, <2>5, FollowupSaved
<1>6. CASE UpdateFollowup(t) \/ FinishFollowup(t)
  <2>1. PICK f \in Followups : c.followup = f
    BY <1>1, <1>6, CrmCommands DEF UpdateFollowup, FinishFollowup, Runs
  <2>2. PICK old \in FollowupRow : old = followups[f]
    BY <1>2
  <2>3. ASSUME NEW new \in FollowupRow, new.version = old.version + 1, new.lead = old.lead, CrmEnd(t), SetFollowup(f, new)
        PROVE  CrmInv'
    <3>1. /\ followups' = [followups EXCEPT ![f] = new] /\ UNCHANGED <<staff, stages, leads>>
          /\ new.version = followups[f].version + 1 /\ new.lead = followups[f].lead
      BY <2>2, <2>3 DEF SetFollowup
    <3>2. \A m \in new.lead : leads[m].version > 0
      BY <3>1 DEF CrmInv, CrmTypeOK
    <3> QED
      BY <2>3, <3>1, <3>2, FollowupSaved
  <2>4. CASE UpdateFollowup(t)
    <3>1. PICK who \in Assignees : c.assignee = who
      BY <1>1, <2>4, CrmCommands DEF UpdateFollowup, Runs
    <3>2. PICK new : new = [old EXCEPT !.version = @ + 1, !.assignee = who]
      OBVIOUS
    <3>3. CrmEnd(t) /\ SetFollowup(f, new)
      BY <2>1, <2>2, <2>4, <3>1, <3>2 DEF UpdateFollowup, Runs
    <3>4. new \in FollowupRow /\ new.version = old.version + 1 /\ new.lead = old.lead
      <4>1. old.version \in 0 .. MaxVersion /\ new.version = old.version + 1 /\ new.version <= MaxVersion
        BY <3>2, <3>3 DEF FollowupRow, SetFollowup
      <4>2. new.status = old.status /\ new.lead = old.lead /\ new.assignee = who
        BY <3>2 DEF FollowupRow
      <4>3. old.version + 1 \in 0 .. MaxVersion
        BY <1>2, <4>1
      <4> QED
        BY <3>2, <4>1, <4>2, <4>3 DEF FollowupRow
    <3> QED
      BY <2>3, <3>3, <3>4
  <2>5. CASE FinishFollowup(t)
    <3>1. PICK to \in {"completed", "cancelled"} : c.status = to
      BY <1>1, <2>5, CrmCommands DEF FinishFollowup, Runs
    <3>2. PICK new : new = [old EXCEPT !.version = @ + 1, !.status = to]
      OBVIOUS
    <3>3. CrmEnd(t) /\ SetFollowup(f, new)
      BY <2>1, <2>2, <2>5, <3>1, <3>2 DEF FinishFollowup, Runs
    <3>4. new \in FollowupRow /\ new.version = old.version + 1 /\ new.lead = old.lead
      <4>1. old.version \in 0 .. MaxVersion /\ new.version = old.version + 1 /\ new.version <= MaxVersion
        BY <3>2, <3>3 DEF FollowupRow, SetFollowup
      <4>2. new.status = to /\ new.lead = old.lead /\ new.assignee = old.assignee
        BY <3>2 DEF FollowupRow
      <4>3. old.version + 1 \in 0 .. MaxVersion
        BY <1>2, <4>1
      <4> QED
        BY <3>2, <4>1, <4>2, <4>3 DEF FollowupRow
    <3> QED
      BY <2>3, <3>3, <3>4
  <2> QED
    BY <1>6, <2>4, <2>5
<1>7. CASE SaveStage(t)
  <2>1. PICK s \in Stages, v \in 0 .. MaxVersion, on \in BOOLEAN : c.stage = s /\ c.version = v /\ c.active = on
    BY <1>1, <1>7, CrmCommands DEF SaveStage, Runs
  <2>2. /\ CrmEnd(t) /\ v < MaxVersion /\ UNCHANGED <<staff, leads, followups>>
        /\ stages' = [stages EXCEPT ![s] = [version |-> v + 1, active |-> on]]
    BY <1>7, <2>1 DEF SaveStage, Runs
  <2>3. [version |-> v + 1, active |-> on] \in StageRow
    BY <1>2, <2>2 DEF StageRow
  <2>4. stages' \in [Stages -> StageRow]
    BY <1>2, <2>2, <2>3
  <2> QED
    BY <2>2, <2>4, StagesSaved
<1>8. CASE Recommend(t)
  <2>1. [version |-> 1, active |-> TRUE] \in StageRow
    BY <1>2 DEF StageRow
  <2>2. CrmEnd(t) /\ stages' \in [Stages -> StageRow] /\ UNCHANGED <<staff, leads, followups>>
    BY <1>2, <1>8, <2>1 DEF Recommend, Runs
  <2> QED
    BY <2>2, StagesSaved
<1> QED
  BY <1>3, <1>4, <1>5, <1>6, <1>7, <1>8 DEF CrmRun

(* A snapshot is right when it is taken.                                    *)
LEMMA CrmAccepts ==
  ASSUME CrmInv, NEW c \in CrmCmd, NEW rows,
         \/ c \in LeadCmd
         \/ c \in FollowupCmd /\ AcceptsFollowup(c) /\ rows = FollowupRows(c)
         \/ c \in StageCmd
  PROVE  SnapshotOf(c, rows)
<1>1. /\ \A l \in Leads : leads[l].version \in Nat
      /\ \A f \in Followups : followups[f].lead \subseteq Leads
  BY CrmAssumption DEF CrmInv, CrmTypeOK, LeadRow, FollowupRow
<1>2. ASSUME NEW l \in Leads, leads[l].status = "active" PROVE ActiveIfUnwritten(l, leads[l].version)
  BY <1>1, <1>2 DEF ActiveIfUnwritten
<1>3. CASE c.op = "follow"
  <2>1. c.lead \in Leads /\ leads[c.lead].status = "active" /\ rows = {<<c.lead, leads[c.lead].version>>}
    BY <1>3, CrmCommands DEF LeadCmd, StageCmd, AcceptsFollowup, FollowupRows, RowsOfLead
  <2>2. ActiveIfUnwritten(c.lead, leads[c.lead].version) /\ leads[c.lead].version > 0
    BY <1>2, <2>1 DEF CrmInv
  <2> QED
    BY <1>3, <2>1, <2>2 DEF SnapshotOf
<1>4. CASE c.op = "refollow"
  <2>1. PICK f \in Followups, v \in Versions : f = c.followup /\ v = c.version
    BY <1>4, CrmCommands
  <2>2. /\ followups[f].version = v /\ OnActiveLead(f)
        /\ rows = RowsOfLead(followups[f].lead) \cup {<<f, v>>}
    BY <1>4, <2>1 DEF LeadCmd, StageCmd, AcceptsFollowup, FollowupRows
  <2>3. ASSUME NEW l \in followups[f].lead PROVE \E w : <<l, w>> \in rows /\ ActiveIfUnwritten(l, w)
    <3>1. l \in Leads /\ leads[l].status = "active" /\ <<l, leads[l].version>> \in rows
      BY <1>1, <2>2, <2>3 DEF OnActiveLead, RowsOfLead
    <3> QED
      BY <1>2, <3>1
  <2>4. v \in Nat /\ v <= followups[f].version
    BY <2>2, CrmAssumption DEF Versions
  <2> QED
    BY <1>4, <2>1, <2>2, <2>3, <2>4 DEF SnapshotOf
<1> QED
  BY <1>3, <1>4 DEF SnapshotOf

LEMMA CrmUndisturbed ==
  ASSUME CrmInv, StaffTypeOK', UNCHANGED <<stages, leads, followups>>,
         crmTx' = crmTx \/ \E t \in Txns : crmTx' = [crmTx EXCEPT ![t] = CrmIdle]
  PROVE  CrmInv'
<1>1. CrmTypeOK'
  BY DEF CrmInv, CrmTypeOK
<1>2. /\ \A m \in Leads : leads'[m] = leads[m] /\ (leads'[m].status # "none" => leads'[m].version > 0)
      /\ \A g \in Followups : followups'[g] = followups[g]
  BY DEF CrmInv
<1> QED
  BY <1>1, <1>2, CrmKeeps

LEMMA CrmAsks ==
  ASSUME CrmInv, NEW t \in Txns, NEW c, NEW rows, c \in CrmCmd, SnapshotOf(c, rows), CrmBegin(t, c, rows)
  PROVE  CrmInv'
<1>1. /\ crmTx' = [crmTx EXCEPT ![t] = [cmd |-> c, rows |-> rows]]
      /\ UNCHANGED <<staff, stages, leads, followups>>
  BY DEF CrmBegin
<1>2. crmTx' = [u \in Txns |-> IF u = t THEN [cmd |-> c, rows |-> rows] ELSE crmTx[u]]
  BY <1>1 DEF CrmInv
<1>3. CrmTypeOK' /\ \A l \in Leads : leads'[l].status # "none" => leads'[l].version > 0
  BY <1>1 DEF CrmInv, CrmTypeOK, StaffTypeOK
<1>4. ASSUME NEW u \in Txns PROVE crmTx'[u].cmd \in CrmCmd /\ SnapshotOf(crmTx'[u].cmd, crmTx'[u].rows)
  BY <1>2 DEF CrmInv
<1>5. ASSUME NEW u \in Txns PROVE (crmTx[u].cmd \in CrmCmd /\ SnapshotOf(crmTx[u].cmd, crmTx[u].rows))'
  BY <1>1, <1>4 DEF SnapshotOf, ActiveIfUnwritten
<1> QED
  BY <1>2, <1>3, <1>5 DEF CrmInv

LEMMA CrmStep ==
  ASSUME CrmInv, [CrmNext]_crmVars
  PROVE  CrmInv'
<1>1. CASE Administer /\ UNCHANGED <<stages, leads, followups, crmTx>>
  <2>1. StaffTypeOK'
    BY <1>1 DEF CrmInv, CrmTypeOK, StaffTypeOK, Administer
  <2> QED
    BY <1>1, <2>1, CrmUndisturbed
<1>2. ASSUME NEW t \in Txns, NEW c \in LeadCmd, CrmBegin(t, c, LeadRows(c)) PROVE CrmInv'
  <2>1. c \in CrmCmd /\ SnapshotOf(c, LeadRows(c))
    BY CrmAccepts DEF CrmCmd
  <2> QED
    BY <1>2, <2>1, CrmAsks
<1>3. ASSUME NEW t \in Txns, NEW c \in FollowupCmd, AcceptsFollowup(c), CrmBegin(t, c, FollowupRows(c))
      PROVE  CrmInv'
  <2>1. c \in CrmCmd /\ SnapshotOf(c, FollowupRows(c))
    BY <1>3, CrmAccepts DEF CrmCmd
  <2> QED
    BY <1>3, <2>1, CrmAsks
<1>4. ASSUME NEW t \in Txns, NEW c \in StageCmd, CrmBegin(t, c, StageRows(c)) PROVE CrmInv'
  <2>1. c \in CrmCmd /\ SnapshotOf(c, StageRows(c))
    BY CrmAccepts DEF CrmCmd
  <2> QED
    BY <1>4, <2>1, CrmAsks
<1>5. ASSUME NEW t \in Txns, CrmRun(t) PROVE CrmInv'
  BY <1>5, CrmRuns
<1>6. ASSUME NEW t \in Txns, CrmAbort(t) PROVE CrmInv'
  <2>1. StaffTypeOK' /\ UNCHANGED <<stages, leads, followups>> /\ crmTx' = [crmTx EXCEPT ![t] = CrmIdle]
    BY <1>6 DEF CrmAbort, CrmEnd, CrmInv, CrmTypeOK, StaffTypeOK
  <2> QED
    BY <2>1, CrmUndisturbed
<1>7. CASE UNCHANGED crmVars
  <2>1. StaffTypeOK' /\ UNCHANGED <<stages, leads, followups, crmTx>>
    BY <1>7 DEF crmVars, CrmInv, CrmTypeOK, StaffTypeOK
  <2> QED
    BY <2>1, CrmUndisturbed
<1> QED
  BY <1>1, <1>2, <1>3, <1>4, <1>5, <1>6, <1>7 DEF CrmNext

(* CrmInv holds in every reachable state.                                   *)
THEOREM LeadsKept == CrmSpec => []CrmInv
  BY CrmBegins, CrmStep, PTL DEF CrmSpec

(* Leads, stages and follow-ups have their columns, and only a lead that is *)
(* there has follow-ups.                                                    *)
THEOREM FollowupsHaveLeads == CrmSpec => []CrmTypeOK
<1>1. CrmInv => CrmTypeOK
  BY DEF CrmInv
<1> QED
  BY <1>1, LeadsKept, PTL

-----------------------------------------------------------------------------
(* Opening and reassigning a follow-up.                                     *)

LEMMA FollowupsOpenStep ==
  ASSUME CrmInv, [CrmNext]_crmVars, NEW f \in Followups,
         followups'[f] # followups[f], followups'[f].status = "pending"
  PROVE  \A l \in followups'[f].lead : leads[l].status = "active"
<1>1. PICK t \in Txns : CreateFollowup(t) \/ UpdateFollowup(t) \/ FinishFollowup(t)
  BY DEF CrmNext, crmVars, CrmBegin, CrmAbort, CrmRun, SetLead,
         CreateLead, UpdateLead, ChangeState, AddNote, Convert, SaveStage, Recommend
<1> DEFINE c == crmTx[t].cmd
<1>2. /\ c \in CrmCmd /\ SnapshotOf(c, crmTx[t].rows) /\ StillAsSeen(t)
      /\ followups \in [Followups -> FollowupRow]
  BY <1>1 DEF CrmInv, CrmTypeOK, CreateFollowup, UpdateFollowup, FinishFollowup, Runs
<1>3. ASSUME NEW l \in Leads, NEW v, <<l, v>> \in crmTx[t].rows, ActiveIfUnwritten(l, v)
      PROVE  leads[l].status = "active"
  <2>1. VersionOf(l) = v /\ VersionOf(l) = leads[l].version
    BY <1>2, <1>3 DEF StillAsSeen, VersionOf
  <2> QED
    BY <1>3, <2>1 DEF ActiveIfUnwritten
<1>4. CASE CreateFollowup(t)
  <2>1. c.op = "follow" /\ c.lead \in Leads /\ c.followup \in Followups
    BY <1>2, <1>4, CrmCommands DEF CreateFollowup, Runs
  <2>2. PICK v : <<c.lead, v>> \in crmTx[t].rows /\ ActiveIfUnwritten(c.lead, v)
    BY <1>2, <2>1 DEF SnapshotOf
  <2>3. leads[c.lead].status = "active"
    BY <1>3, <2>1, <2>2
  <2>4. PICK new : /\ new = [version |-> 1, status |-> "pending", lead |-> {c.lead}, assignee |-> c.assignee]
                   /\ followups' = [followups EXCEPT ![c.followup] = new]
    BY <1>4 DEF CreateFollowup, SetFollowup
  <2>5. followups'[f].lead = {c.lead}
    BY <1>2, <2>1, <2>4
  <2> QED
    BY <2>3, <2>5
<1>5. CASE UpdateFollowup(t)
  <2>1. c.op = "refollow" /\ c.followup \in Followups
    BY <1>2, <1>5, CrmCommands DEF UpdateFollowup, Runs
  <2>2. PICK old \in FollowupRow : old = followups[c.followup]
    BY <1>2, <2>1
  <2>3. PICK new : /\ new = [old EXCEPT !.version = @ + 1, !.assignee = c.assignee]
                   /\ followups' = [followups EXCEPT ![c.followup] = new]
    BY <1>5, <2>2 DEF UpdateFollowup, SetFollowup
  <2>4. f = c.followup /\ followups'[f] = new
    BY <1>2, <2>1, <2>3
  <2>5. new.lead = old.lead /\ old.lead \subseteq Leads
    BY <2>2, <2>3 DEF FollowupRow
  <2>6. ASSUME NEW l \in old.lead PROVE leads[l].status = "active"
    <3>1. PICK v : <<l, v>> \in crmTx[t].rows /\ ActiveIfUnwritten(l, v)
      BY <1>2, <2>1, <2>2, <2>6 DEF SnapshotOf
    <3> QED
      BY <1>3, <2>5, <2>6, <3>1
  <2> QED
    BY <2>4, <2>5, <2>6
<1>6. CASE FinishFollowup(t)
  <2>1. c.op = "finish" /\ c.followup \in Followups /\ c.status \in {"completed", "cancelled"}
    BY <1>2, <1>6, CrmCommands DEF FinishFollowup, Runs
  <2>2. PICK old \in FollowupRow : old = followups[c.followup]
    BY <1>2, <2>1
  <2>3. PICK new : /\ new = [old EXCEPT !.version = @ + 1, !.status = c.status]
                   /\ followups' = [followups EXCEPT ![c.followup] = new]
    BY <1>6, <2>2 DEF FinishFollowup, SetFollowup
  <2>4. f = c.followup /\ followups'[f] = new
    BY <1>2, <2>1, <2>3
  <2>5. new.status = c.status
    BY <2>2, <2>3 DEF FollowupRow
  <2> QED
    BY <2>1, <2>4, <2>5
<1> QED
  BY <1>1, <1>4, <1>5, <1>6

(* A follow-up is opened or reassigned only while its lead is active, in    *)
(* spite of a snapshot from before the lead was closed.                     *)
THEOREM FollowupsOpenOnActive == CrmSpec => FollowupsOnActiveLeads
<1>1. CrmInv /\ [CrmNext]_crmVars =>
        [\A f \in Followups :
           followups'[f] # followups[f] /\ followups'[f].status = "pending"
             => \A l \in followups'[f].lead : leads[l].status = "active"]_crmVars
  BY FollowupsOpenStep
<1> QED
  BY <1>1, LeadsKept, PTL DEF CrmSpec, FollowupsOnActiveLeads

-----------------------------------------------------------------------------
(* What Visits promises, for any number of appointments, days, tokens, keys *)
(* and sessions.  What an arrival found when it got a lock stays true until *)
(* it ends: who writes an appointment or a day's tokens has that lock.      *)

Statuses == DOMAIN AppointmentMoves

(* A log whose check-in is the newest entry or was followed by an end.      *)
LogFacts(log) ==
  /\ log \in Seq(Statuses)
  /\ \A i \in 2 .. Len(log) : log[i] \in AppointmentMoves[log[i - 1]]
  /\ "checked_in" \in Range(log) => Last(log) \in {"checked_in", "completed", "cancelled"}

TokenLog(l) ==
  /\ l \in Seq(DOMAIN TokenMoves) /\ l # <<>>
  /\ \A i \in 2 .. Len(l) : l[i] \in TokenMoves[l[i - 1]]

IsToken(row) ==
  \E a \in Optional(Appointments), k \in Optional(Keys), l \in Seq(DOMAIN TokenMoves) :
    TokenLog(l) /\ row = [appointment |-> a, key |-> k, log |-> l]

TokenFor(n, a) == Exists(tokens[n]) /\ a \in tokens[n].appointment

OneToken(a) ==
  /\ "checked_in" \in Range(appointments[a].log) <=> \E n \in Numbers : TokenFor(n, a)
  /\ \A m, n \in Numbers : TokenFor(m, a) /\ TokenFor(n, a) => m = n

VisitRows ==
  /\ today \in BusinessDays
  /\ next \in [BusinessDays -> 0 .. MaxTokens + 1]
  /\ appointments = [a \in Appointments |-> appointments[a]]
  /\ \A a \in Appointments : appointments[a] = [log |-> appointments[a].log] /\ LogFacts(appointments[a].log)
  /\ tokens = [n \in Numbers |-> tokens[n]]
  /\ \A n \in Numbers : tokens[n] = NoVisit \/ IsToken(tokens[n])
  /\ \A a \in Appointments : OneToken(a)
  /\ NumbersWithoutGaps

(* What the sessions run.                                                   *)
VisitTx(x) ==
  \/ x = NotInTxn
  \/ \E c \in ArriveCmd : \E h \in SUBSET ArrivalLocks(c) : x = [cmd |-> c, held |-> h]
  \/ \E c \in MoveCmd : x = [cmd |-> c, held |-> {}] /\ c.version > 0

(* What an arrival has found with the locks it has.                         *)
HasFound(x) ==
  x.cmd.op = "arrive" =>
    /\ next[x.cmd.session] > 0
    /\ \A a \in x.cmd.appointment :
         /\ Exists(appointments[a])
         /\ AppointmentRow(a) \in x.held => Status(appointments[a]) \in {"scheduled", "confirmed"}
    /\ SessionRow(x.cmd.session) \in x.held =>
         \A n \in Numbers : UsesKey(x.cmd, n) => n[1] # x.cmd.session

OneHolder == \A t, u \in Txns : t # u => visitTxn[t].held \cap visitTxn[u].held = {}

VisitsInv ==
  /\ VisitRows
  /\ visitTxn = [t \in Txns |-> visitTxn[t]]
  /\ \A t \in Txns : VisitTx(visitTxn[t]) /\ HasFound(visitTxn[t])
  /\ OneHolder

-----------------------------------------------------------------------------
(* Logs.                                                                    *)

LEMMA MovesOfAppointments ==
  /\ Statuses = {"scheduled", "confirmed", "checked_in", "completed", "cancelled", "no_show"}
  /\ \A s \in Statuses : \A x \in AppointmentMoves[s] :
       /\ x \in Statuses
       /\ s = "checked_in" => x \in {"completed", "cancelled"}
       /\ s \notin {"completed", "cancelled", "no_show"}
  /\ \A s \in {"scheduled", "confirmed"} : "checked_in" \in AppointmentMoves[s]
  BY DEF Statuses, AppointmentMoves

LEMMA LogGrows ==
  ASSUME NEW S, NEW log \in Seq(S), NEW x \in S
  PROVE  /\ Append(log, x) \in Seq(S) /\ Append(log, x) # <<>>
         /\ Len(Append(log, x)) = Len(log) + 1 /\ Last(Append(log, x)) = x
         /\ \A i \in 1 .. Len(log) : Append(log, x)[i] = log[i]
         /\ Append(log, x)[Len(log) + 1] = x
         /\ Range(Append(log, x)) = Range(log) \cup {x}
<1> DEFINE new == Append(log, x)
<1>1. /\ new \in Seq(S) /\ Len(log) \in Nat /\ Len(new) = Len(log) + 1
      /\ \A i \in 1 .. Len(log) : new[i] = log[i]
      /\ new[Len(log) + 1] = x /\ DOMAIN new = 1 .. Len(log) + 1 /\ DOMAIN log = 1 .. Len(log)
  OBVIOUS
<1>2. new # <<>> /\ Last(new) = x
  BY <1>1 DEF Last
<1>3. \A i \in 1 .. Len(log) + 1 : i \in 1 .. Len(log) \/ i = Len(log) + 1
  BY <1>1
<1>4. Range(new) = Range(log) \cup {x}
  BY <1>1, <1>3 DEF Range
<1> QED
  BY <1>1, <1>2, <1>4

(* A move of the newest entry extends a legal history.                      *)
LEMMA LogFollows ==
  ASSUME NEW moves, NEW log \in Seq(DOMAIN moves), log # <<>>,
         \A i \in 2 .. Len(log) : log[i] \in moves[log[i - 1]],
         NEW x \in DOMAIN moves, x \in moves[Last(log)]
  PROVE  \A i \in 2 .. Len(Append(log, x)) : Append(log, x)[i] \in moves[Append(log, x)[i - 1]]
<1>1. PICK new : new = Append(log, x)
  OBVIOUS
<1>2. /\ Len(log) \in Nat \ {0} /\ Last(log) = log[Len(log)] /\ Len(new) = Len(log) + 1
      /\ \A i \in 1 .. Len(log) : new[i] = log[i]
      /\ new[Len(log) + 1] = x
  BY <1>1, LogGrows DEF Last
<1>3. ASSUME NEW i \in 2 .. Len(new) PROVE new[i] \in moves[new[i - 1]]
  <2>1. i - 1 \in 1 .. Len(log) /\ (i \in 2 .. Len(log) \/ i = Len(log) + 1)
    BY <1>2
  <2>2. new[i - 1] = log[i - 1]
    BY <1>2, <2>1
  <2>3. CASE i \in 2 .. Len(log)
    BY <1>2, <2>2, <2>3
  <2>4. CASE i = Len(log) + 1
    BY <1>2, <2>2, <2>4
  <2> QED
    BY <2>1, <2>3, <2>4
<1> QED
  BY <1>1, <1>3

LEMMA LogMoves ==
  ASSUME NEW log, LogFacts(log), log # <<>>, NEW x \in AppointmentMoves[Last(log)]
  PROVE  LogFacts(Append(log, x)) /\ Last(log) \in Statuses /\ x \in Statuses
<1>1. log \in Seq(Statuses) /\ Len(log) \in Nat \ {0} /\ Last(log) = log[Len(log)] /\ Last(log) \in Statuses
  BY DEF LogFacts, Last
<1>2. x \in Statuses
  BY <1>1, MovesOfAppointments
<1>3. PICK new : new = Append(log, x)
  OBVIOUS
<1>4. /\ new \in Seq(Statuses) /\ Len(new) = Len(log) + 1 /\ Last(new) = x /\ Range(new) = Range(log) \cup {x}
      /\ \A i \in 1 .. Len(log) : new[i] = log[i]
      /\ new[Len(log) + 1] = x
  BY <1>1, <1>2, <1>3, LogGrows
<1>5. \A i \in 2 .. Len(new) : new[i] \in AppointmentMoves[new[i - 1]]
  BY <1>1, <1>2, <1>3, LogFollows DEF LogFacts, Statuses
<1>6. "checked_in" \in Range(new) => Last(new) \in {"checked_in", "completed", "cancelled"}
  BY <1>1, <1>4, MovesOfAppointments DEF LogFacts
<1> QED
  BY <1>1, <1>2, <1>3, <1>4, <1>5, <1>6 DEF LogFacts

(* A full day has as many tokens as there may be.                           *)
LEMMA FullDay ==
  ASSUME NEW E \in SUBSET Numbers, NEW d \in BusinessDays, \A i \in 1 .. MaxTokens : <<d, i>> \in E
  PROVE  IsFiniteSet(E) /\ Cardinality(E) \in Nat /\ Cardinality(E) >= MaxTokens
<1>1. /\ IsFiniteSet(BusinessDays) /\ IsFiniteSet(1 .. MaxTokens) /\ MaxTokens \in Nat
      /\ Cardinality(1 .. MaxTokens) = MaxTokens
  BY VisitsAssumption, FS_Interval DEF BusinessDays
<1>2. IsFiniteSet(Numbers)
  BY <1>1, FS_Product DEF Numbers
<1>3. IsFiniteSet(E) /\ Cardinality(E) \in Nat
  BY <1>2, FS_Subset, FS_CardinalityType
<1>4. PICK f : f = [i \in 1 .. MaxTokens |-> <<d, i>>]
  OBVIOUS
<1>5. f \in Injection(1 .. MaxTokens, E)
  BY <1>4 DEF Injection, IsInjective
<1>6. Cardinality(1 .. MaxTokens) <= Cardinality(E)
  BY <1>3, <1>5, FS_Injection
<1> QED
  BY <1>1, <1>3, <1>6

-----------------------------------------------------------------------------
(* Sessions.                                                                *)

LEMMA VisitCommands ==
  ASSUME NEW x, VisitTx(x)
  PROVE  /\ x.cmd.op = "arrive" =>
              /\ x = [cmd |-> x.cmd, held |-> x.held] /\ x.cmd \in ArriveCmd /\ x.held \subseteq ArrivalLocks(x.cmd)
              /\ x.cmd.appointment \in Optional(Appointments) /\ x.cmd.appointment \subseteq Appointments
              /\ x.cmd.key \in Optional(Keys) /\ x.cmd.session \in BusinessDays
         /\ x.cmd.op # "arrive" => x.held = {}
         /\ x.cmd.op = "appointment" =>
              x.cmd.row \in Appointments /\ x.cmd.version \in Nat \ {0} /\ x.cmd.to \in RequestedMoves
         /\ x.cmd.op = "token" =>
              x.cmd.row \in Numbers /\ x.cmd.version \in Nat \ {0} /\ x.cmd.to \in DOMAIN TokenMoves
<1>1. CASE x = NotInTxn
  BY <1>1 DEF NotInTxn
<1>2. ASSUME NEW c \in ArriveCmd, NEW h \in SUBSET ArrivalLocks(c), x = [cmd |-> c, held |-> h]
      PROVE  /\ x.cmd = c /\ x.held = h /\ c.op = "arrive"
             /\ c.appointment \in Optional(Appointments) /\ c.appointment \subseteq Appointments
             /\ c.key \in Optional(Keys) /\ c.session \in BusinessDays
  BY <1>2 DEF ArriveCmd, Optional
<1>3. ASSUME NEW c \in MoveCmd, x = [cmd |-> c, held |-> {}], c.version > 0
      PROVE  /\ x.cmd = c /\ x.held = {} /\ c.op \in {"appointment", "token"}
             /\ c.op = "appointment" => c.row \in Appointments /\ c.version \in Nat \ {0} /\ c.to \in RequestedMoves
             /\ c.op = "token" => c.row \in Numbers /\ c.version \in Nat \ {0} /\ c.to \in DOMAIN TokenMoves
  BY <1>3 DEF MoveCmd
<1>4. CASE \E c \in ArriveCmd : \E h \in SUBSET ArrivalLocks(c) : x = [cmd |-> c, held |-> h]
  BY <1>2, <1>4
<1>5. CASE \E c \in MoveCmd : x = [cmd |-> c, held |-> {}] /\ c.version > 0
  BY <1>3, <1>5
<1> QED
  BY <1>1, <1>4, <1>5 DEF VisitTx

(* A session that is now at x, while the others keep their locks.           *)
LEMMA VisitTxStep ==
  ASSUME VisitsInv, NEW t \in Txns, NEW x, VisitTx(x), HasFound(x)', VisitRows',
         visitTxn' = [visitTxn EXCEPT ![t] = x],
         \A u \in Txns : u # t => visitTxn[u].held \cap x.held = {},
         \A u \in Txns : \A y : u # t /\ y = visitTxn[u] => HasFound(y)'
  PROVE  VisitsInv'
<1>1. visitTxn' = [u \in Txns |-> IF u = t THEN x ELSE visitTxn[u]]
  BY DEF VisitsInv
<1>2. ASSUME NEW u \in Txns PROVE VisitTx(visitTxn'[u]) /\ HasFound(visitTxn[u])'
  <2>1. PICK y : y = visitTxn'[u]
    OBVIOUS
  <2>2. VisitTx(y) /\ HasFound(y)'
    BY <1>1, <2>1 DEF VisitsInv
  <2> QED
    BY <2>1, <2>2 DEF HasFound
<1>3. OneHolder'
  BY <1>1 DEF VisitsInv, OneHolder
<1> QED
  BY <1>1, <1>2, <1>3 DEF VisitsInv

(* Where neither days, appointments nor tokens change.                      *)
LEMMA VisitTxOnly ==
  ASSUME VisitsInv, NEW t \in Txns, NEW x, VisitTx(x), HasFound(x),
         visitTxn' = [visitTxn EXCEPT ![t] = x],
         \A u \in Txns : u # t => visitTxn[u].held \cap x.held = {},
         UNCHANGED <<today, next, appointments, tokens>>
  PROVE  VisitsInv'
<1>1. VisitRows'
  BY DEF VisitsInv, VisitRows, OneToken, TokenFor, NumbersWithoutGaps
<1>2. HasFound(x)'
  BY DEF HasFound, UsesKey
<1>3. \A u \in Txns : \A y : u # t /\ y = visitTxn[u] => HasFound(y)'
  BY DEF VisitsInv, HasFound, UsesKey
<1> QED
  BY <1>1, <1>2, <1>3, VisitTxStep

LEMMA VisitsBegin == VisitsInit => VisitsInv
<1> SUFFICES ASSUME VisitsInit PROVE VisitsInv
  OBVIOUS
<1>1. LogFacts(<<>>) /\ Range(<<>>) = {}
  <2>1. DOMAIN <<>> = 1 .. 0 /\ Len(<<>>) = 0
    OBVIOUS
  <2>2. Range(<<>>) = {}
    BY <2>1 DEF Range
  <2> QED
    BY <2>1, <2>2 DEF LogFacts
<1>2. /\ \A a \in Appointments : appointments[a] = [log |-> <<>>] /\ appointments[a].log = <<>>
      /\ \A n \in Numbers : tokens[n] = NoVisit /\ tokens[n].log = <<>>
  BY DEF VisitsInit, NoVisit
<1>3. \A a \in Appointments : OneToken(a)
  BY <1>1, <1>2 DEF OneToken, TokenFor, Exists
<1>4. NumbersWithoutGaps
  BY <1>2, VisitsAssumption DEF NumbersWithoutGaps, VisitsInit, Exists, Numbers
<1>5. VisitRows
  BY <1>1, <1>2, <1>3, <1>4, VisitsAssumption DEF VisitRows, VisitsInit, BusinessDays
<1>6. visitTxn = [t \in Txns |-> NotInTxn] /\ \A t \in Txns : visitTxn[t] = NotInTxn
  BY DEF VisitsInit, AllIdle
<1>7. VisitTx(NotInTxn) /\ HasFound(NotInTxn)
  BY DEF VisitTx, HasFound, NotInTxn
<1>8. OneHolder
  BY <1>6 DEF OneHolder, NotInTxn
<1> QED
  BY <1>5, <1>6, <1>7, <1>8 DEF VisitsInv

-----------------------------------------------------------------------------
(* Every step.                                                              *)

(* Writing an appointment that nobody checks in.                            *)
LEMMA AppointmentWritten ==
  ASSUME VisitsInv, NEW a \in Appointments, NEW log, LogFacts(log), log # <<>>,
         "checked_in" \in Range(log) <=> "checked_in" \in Range(appointments[a].log),
         appointments' = [appointments EXCEPT ![a] = [log |-> log]],
         UNCHANGED <<today, next, tokens>>
  PROVE  /\ VisitRows'
         /\ \A y : VisitTx(y) /\ HasFound(y) /\ AppointmentRow(a) \notin y.held => HasFound(y)'
<1>1. appointments' = [b \in Appointments |-> IF b = a THEN [log |-> log] ELSE appointments[b]]
  BY DEF VisitsInv, VisitRows
<1>2. \A b \in Appointments : /\ appointments'[b] = [log |-> appointments'[b].log] /\ LogFacts(appointments'[b].log)
                              /\ Exists(appointments[b]) => appointments'[b].log # <<>>
                              /\ b # a => appointments'[b] = appointments[b]
  BY <1>1 DEF VisitsInv, VisitRows, Exists
<1>3. ASSUME NEW b \in Appointments PROVE OneToken(b)'
  <2>1. "checked_in" \in Range(appointments'[b].log) <=> "checked_in" \in Range(appointments[b].log)
    BY <1>1
  <2>2. OneToken(b)
    BY DEF VisitsInv, VisitRows
  <2> QED
    BY <2>1, <2>2 DEF OneToken, TokenFor
<1>4. VisitRows'
  BY <1>1, <1>2, <1>3 DEF VisitsInv, VisitRows, NumbersWithoutGaps
<1>5. ASSUME NEW y, VisitTx(y), HasFound(y), AppointmentRow(a) \notin y.held PROVE HasFound(y)'
  <2> SUFFICES ASSUME y.cmd.op = "arrive" PROVE HasFound(y)'
    BY DEF HasFound
  <2>1. y.cmd.appointment \subseteq Appointments
    BY <1>5, VisitCommands
  <2>2. ASSUME NEW b \in y.cmd.appointment
        PROVE  /\ appointments'[b].log # <<>>
               /\ AppointmentRow(b) \in y.held => Last(appointments'[b].log) \in {"scheduled", "confirmed"}
    <3>1. /\ b \in Appointments /\ Exists(appointments[b])
          /\ AppointmentRow(b) \in y.held => Last(appointments[b].log) \in {"scheduled", "confirmed"}
      BY <1>5, <2>1 DEF HasFound, Status
    <3>2. AppointmentRow(b) \in y.held => appointments'[b] = appointments[b]
      BY <1>2, <1>5, <3>1
    <3> QED
      BY <1>2, <3>1, <3>2
  <2> QED
    BY <1>5, <2>2 DEF HasFound, UsesKey, Exists, Status
<1> QED
  BY <1>4, <1>5

(* Rows that are locked are there.                                          *)
LEMMA LockedIsThere ==
  ASSUME VisitsInv, NEW u \in Txns, NEW a \in Appointments, AppointmentRow(a) \in visitTxn[u].held
  PROVE  Exists(appointments[a])
<1>1. PICK y : y = visitTxn[u] /\ VisitTx(y) /\ HasFound(y)
  BY DEF VisitsInv
<1>2. y.cmd.op = "arrive" /\ y.held \subseteq ArrivalLocks(y.cmd)
  BY <1>1, VisitCommands
<1>3. a \in y.cmd.appointment
  BY <1>1, <1>2 DEF ArrivalLocks, AppointmentRow, SessionRow
<1> QED
  BY <1>1, <1>2, <1>3 DEF HasFound

LEMMA StepBook ==
  ASSUME VisitsInv, NEW a \in Appointments, Book(a)
  PROVE  VisitsInv'
<1>1. appointments[a].log = <<>> /\ UNCHANGED <<today, next, tokens, visitTxn>>
  BY DEF Book, Exists
<1>2. PICK log : log = <<"scheduled">>
  OBVIOUS
<1>3. log \in Seq(Statuses) /\ Len(log) = 1 /\ log # <<>> /\ DOMAIN log = 1 .. 1 /\ log[1] = "scheduled"
  BY <1>2, MovesOfAppointments
<1>4. LogFacts(log) /\ "checked_in" \notin Range(log)
  BY <1>3 DEF LogFacts, Range
<1>5. "checked_in" \notin Range(appointments[a].log)
  <2>1. DOMAIN <<>> = 1 .. 0
    OBVIOUS
  <2> QED
    BY <1>1, <2>1 DEF Range
<1>6. appointments' = [appointments EXCEPT ![a] = [log |-> log]]
  BY <1>2 DEF Book
<1>7. /\ VisitRows'
      /\ \A y : VisitTx(y) /\ HasFound(y) /\ AppointmentRow(a) \notin y.held => HasFound(y)'
  BY <1>1, <1>3, <1>4, <1>5, <1>6, AppointmentWritten
<1>8. \A u \in Txns : AppointmentRow(a) \notin visitTxn[u].held
  BY <1>1, LockedIsThere DEF Exists
<1>9. ASSUME NEW u \in Txns PROVE HasFound(visitTxn[u])'
  <2>1. PICK y : y = visitTxn[u]
    OBVIOUS
  <2>2. HasFound(y)'
    BY <1>7, <1>8, <2>1 DEF VisitsInv
  <2> QED
    BY <1>1, <2>1, <2>2 DEF HasFound
<1> QED
  BY <1>1, <1>7, <1>9 DEF VisitsInv, VisitTx, OneHolder

LEMMA StepNextDay ==
  ASSUME VisitsInv, NextDay
  PROVE  VisitsInv'
<1>1. today' \in BusinessDays /\ UNCHANGED <<next, appointments, tokens, visitTxn>>
  BY VisitsAssumption DEF VisitsInv, VisitRows, NextDay, BusinessDays
<1>2. VisitRows'
  BY <1>1 DEF VisitsInv, VisitRows, OneToken, TokenFor, NumbersWithoutGaps
<1> QED
  BY <1>1, <1>2 DEF VisitsInv, VisitTx, HasFound, UsesKey, OneHolder

LEMMA StepMoveBegin ==
  ASSUME VisitsInv, NEW t \in Txns, BeginMoveAppointment(t) \/ BeginMoveToken(t)
  PROVE  VisitsInv'
<1>1. PICK c \in MoveCmd : c.version > 0 /\ MoveBegin(t, c)
  <2>1. CASE BeginMoveAppointment(t)
    <3>1. PICK a \in Appointments, to \in RequestedMoves :
            /\ Exists(appointments[a])
            /\ MoveBegin(t, [op |-> "appointment", row |-> a, version |-> Len(appointments[a].log), to |-> to])
      BY <2>1 DEF BeginMoveAppointment
    <3>2. Len(appointments[a].log) \in Nat \ {0}
      BY <3>1 DEF VisitsInv, VisitRows, LogFacts, Exists
    <3> QED
      BY <3>1, <3>2 DEF MoveCmd
  <2>2. CASE BeginMoveToken(t)
    <3>1. PICK n \in Numbers :
            /\ Exists(tokens[n])
            /\ \E to \in TokenMoves[Status(tokens[n])] :
                 MoveBegin(t, [op |-> "token", row |-> n, version |-> Len(tokens[n].log), to |-> to])
      BY <2>2 DEF BeginMoveToken
    <3>2. IsToken(tokens[n])
      BY <3>1 DEF VisitsInv, VisitRows, NoVisit, Exists
    <3>3. Len(tokens[n].log) \in Nat \ {0} /\ Status(tokens[n]) \in DOMAIN TokenMoves
      BY <3>2 DEF IsToken, TokenLog, Status, Last
    <3>4. \A x \in TokenMoves[Status(tokens[n])] : x \in DOMAIN TokenMoves
      BY <3>3 DEF TokenMoves
    <3> QED
      BY <3>1, <3>3, <3>4 DEF MoveCmd
  <2> QED
    BY <2>1, <2>2
<1>2. PICK x : x = [cmd |-> c, held |-> {}]
  OBVIOUS
<1>3. VisitTx(x) /\ HasFound(x) /\ x.held = {}
  BY <1>1, <1>2 DEF VisitTx, HasFound, MoveCmd
<1>4. visitTxn' = [visitTxn EXCEPT ![t] = x] /\ UNCHANGED <<today, next, appointments, tokens>>
  BY <1>1, <1>2 DEF MoveBegin, Begun
<1>5. \A u \in Txns : u # t => visitTxn[u].held \cap x.held = {}
  BY <1>3
<1> QED
  BY <1>3, <1>4, <1>5, VisitTxOnly

LEMMA StepAbort ==
  ASSUME VisitsInv, NEW t \in Txns, VisitAbort(t)
  PROVE  VisitsInv'
<1>1. VisitTx(NotInTxn) /\ HasFound(NotInTxn) /\ NotInTxn.held = {}
  BY DEF VisitTx, HasFound, NotInTxn
<1>2. visitTxn' = [visitTxn EXCEPT ![t] = NotInTxn] /\ UNCHANGED <<today, next, appointments, tokens>>
  BY DEF VisitAbort, Ended
<1>3. \A u \in Txns : u # t => visitTxn[u].held \cap NotInTxn.held = {}
  BY <1>1
<1> QED
  BY <1>1, <1>2, <1>3, VisitTxOnly

LEMMA StepMoveAppointment ==
  ASSUME VisitsInv, NEW t \in Txns, MoveAppointment(t)
  PROVE  VisitsInv'
<1>1. PICK x : x = visitTxn[t] /\ VisitTx(x) /\ HasFound(x)
  BY DEF VisitsInv
<1>2. PICK a \in Appointments, to \in RequestedMoves : x.cmd.row = a /\ x.cmd.to = to /\ x.cmd.version \in Nat \ {0}
  BY <1>1, VisitCommands DEF MoveAppointment
<1>3. /\ Free(visitTxn, AppointmentRow(a)) /\ x.cmd.version = Len(appointments[a].log)
      /\ to \in AppointmentMoves[Last(appointments[a].log)]
      /\ appointments' = [appointments EXCEPT ![a].log = Append(@, to)]
      /\ visitTxn' = [visitTxn EXCEPT ![t] = NotInTxn] /\ UNCHANGED <<today, next, tokens>>
  BY <1>1, <1>2 DEF MoveAppointment, MayMove, Status, Ended
<1>4. PICK log, new : log = appointments[a].log /\ new = Append(log, to)
  OBVIOUS
<1>5. LogFacts(log) /\ log # <<>> /\ appointments[a] = [log |-> log]
  <2>1. LogFacts(log) /\ appointments[a] = [log |-> log]
    BY <1>4 DEF VisitsInv, VisitRows
  <2>2. Len(log) # 0
    BY <1>2, <1>3, <1>4
  <2> QED
    BY <2>1, <2>2 DEF LogFacts
<1>6. LogFacts(new) /\ to \in Statuses /\ to # "checked_in"
  BY <1>3, <1>4, <1>5, LogMoves DEF RequestedMoves
<1>7. new # <<>> /\ ("checked_in" \in Range(new) <=> "checked_in" \in Range(log))
  BY <1>4, <1>5, <1>6, LogGrows DEF LogFacts
<1>8. appointments' = [appointments EXCEPT ![a] = [log |-> new]]
  <2>1. PICK row : row = [appointments[a] EXCEPT !.log = Append(@, to)]
    OBVIOUS
  <2>2. row = [log |-> new]
    BY <1>4, <1>5, <2>1
  <2>3. appointments' = [appointments EXCEPT ![a] = row]
    BY <1>3, <2>1
  <2> QED
    BY <2>2, <2>3
<1>9. /\ VisitRows'
      /\ \A y : VisitTx(y) /\ HasFound(y) /\ AppointmentRow(a) \notin y.held => HasFound(y)'
  BY <1>3, <1>4, <1>6, <1>7, <1>8, AppointmentWritten
<1>10. \A u \in Txns : \A y : u # t /\ y = visitTxn[u] => HasFound(y)'
  BY <1>3, <1>9 DEF VisitsInv, Free
<1>11. VisitTx(NotInTxn) /\ HasFound(NotInTxn)' /\ NotInTxn.held = {}
  BY DEF VisitTx, HasFound, NotInTxn
<1>12. \A u \in Txns : u # t => visitTxn[u].held \cap NotInTxn.held = {}
  BY <1>11
<1> QED
  BY <1>3, <1>9, <1>10, <1>11, <1>12, VisitTxStep

(* A token that moves is the token it was.                                  *)
LEMMA StepMoveToken ==
  ASSUME VisitsInv, NEW t \in Txns, MoveToken(t)
  PROVE  VisitsInv'
<1>1. PICK x : x = visitTxn[t] /\ VisitTx(x) /\ HasFound(x)
  BY DEF VisitsInv
<1>2. PICK n \in Numbers, to \in DOMAIN TokenMoves : x.cmd.row = n /\ x.cmd.to = to /\ x.cmd.version \in Nat \ {0}
  BY <1>1, VisitCommands DEF MoveToken
<1>3. /\ x.cmd.version = Len(tokens[n].log)
      /\ to \in TokenMoves[Last(tokens[n].log)]
      /\ tokens' = [tokens EXCEPT ![n].log = Append(@, to)]
      /\ visitTxn' = [visitTxn EXCEPT ![t] = NotInTxn] /\ UNCHANGED <<today, next, appointments>>
  BY <1>1, <1>2 DEF MoveToken, MayMove, Status, Ended
<1>4. PICK a \in Optional(Appointments), k \in Optional(Keys), l \in Seq(DOMAIN TokenMoves) :
        TokenLog(l) /\ tokens[n] = [appointment |-> a, key |-> k, log |-> l]
  <2>1. tokens[n] # NoVisit
    <3>1. Len(NoVisit.log) = 0
      BY DEF NoVisit
    <3> QED
      BY <1>2, <1>3, <3>1
  <2> QED
    BY <2>1 DEF VisitsInv, VisitRows, IsToken
<1>5. PICK new : new = Append(l, to)
  OBVIOUS
<1>6. TokenLog(new) /\ new \in Seq(DOMAIN TokenMoves) /\ new # <<>>
  <2>1. new \in Seq(DOMAIN TokenMoves) /\ new # <<>>
    BY <1>5, LogGrows
  <2>2. to \in TokenMoves[Last(l)]
    BY <1>3, <1>4
  <2>3. \A i \in 2 .. Len(new) : new[i] \in TokenMoves[new[i - 1]]
    BY <1>4, <1>5, <2>2, LogFollows DEF TokenLog
  <2> QED
    BY <2>1, <2>3 DEF TokenLog
<1>7. PICK row : row = [appointment |-> a, key |-> k, log |-> new]
  OBVIOUS
<1>8. tokens' = [m \in Numbers |-> IF m = n THEN row ELSE tokens[m]]
  <2>1. PICK other : other = [tokens[n] EXCEPT !.log = Append(@, to)]
    OBVIOUS
  <2>2. tokens' = [tokens EXCEPT ![n] = other]
    BY <1>3, <2>1
  <2>3. PICK old : old = [appointment |-> a, key |-> k, log |-> l]
    OBVIOUS
  <2>4. other = [old EXCEPT !.log = new] /\ old.log = l
    BY <1>4, <1>5, <2>1, <2>3
  <2>5. other = row
    BY <1>7, <2>3, <2>4
  <2>6. tokens = [m \in Numbers |-> tokens[m]]
    BY DEF VisitsInv, VisitRows
  <2> QED
    BY <2>2, <2>5, <2>6
<1>9. IsToken(row)
  BY <1>6, <1>7 DEF IsToken
<1>10. \A m \in Numbers : /\ Exists(tokens[m])' <=> Exists(tokens[m])
                          /\ Exists(tokens[m]) => /\ tokens'[m].appointment = tokens[m].appointment
                                                  /\ tokens'[m].key = tokens[m].key
  BY <1>4, <1>6, <1>7, <1>8 DEF Exists, TokenLog
<1>11. VisitRows'
  <2>1. \A b \in Appointments : OneToken(b)'
    BY <1>3, <1>10 DEF VisitsInv, VisitRows, OneToken, TokenFor
  <2>2. \A m \in Numbers : tokens'[m] = NoVisit \/ IsToken(tokens'[m])
    BY <1>8, <1>9 DEF VisitsInv, VisitRows
  <2>3. NumbersWithoutGaps'
    <3>1. \A d \in BusinessDays, i \in 1 .. MaxTokens : <<d, i>> \in Numbers
      BY DEF Numbers
    <3> QED
      BY <1>3, <1>10, <3>1 DEF VisitsInv, VisitRows, NumbersWithoutGaps
  <2> QED
    BY <1>3, <1>8, <2>1, <2>2, <2>3 DEF VisitsInv, VisitRows
<1>12. ASSUME NEW y, HasFound(y) PROVE HasFound(y)'
  BY <1>3, <1>10, <1>12 DEF HasFound, UsesKey
<1>13. \A u \in Txns : \A y : u # t /\ y = visitTxn[u] => HasFound(y)'
  BY <1>12 DEF VisitsInv
<1>14. VisitTx(NotInTxn) /\ HasFound(NotInTxn)' /\ NotInTxn.held = {}
  BY DEF VisitTx, HasFound, NotInTxn
<1>15. \A u \in Txns : u # t => visitTxn[u].held \cap NotInTxn.held = {}
  BY <1>14
<1> QED
  BY <1>3, <1>11, <1>13, <1>14, <1>15, VisitTxStep

(* An arrival opens the session of its day, which has no token yet.         *)
LEMMA StepArriveBegin ==
  ASSUME VisitsInv, NEW t \in Txns, NEW a \in Optional(Appointments), NEW k \in Optional(Keys), ArriveBegin(t, a, k)
  PROVE  VisitsInv'
<1>1. PICK d \in BusinessDays : d = today
  BY DEF VisitsInv, VisitRows
<1>2. PICK c : c = [op |-> "arrive", appointment |-> a, key |-> k, session |-> d]
  OBVIOUS
<1>3. PICK x : x = [cmd |-> c, held |-> {}]
  OBVIOUS
<1>4. /\ next' = [next EXCEPT ![d] = IF next[d] = 0 THEN 1 ELSE next[d]]
      /\ visitTxn' = [visitTxn EXCEPT ![t] = x] /\ UNCHANGED <<today, appointments, tokens>>
      /\ \A b \in a : Exists(appointments[b])
  BY <1>1, <1>2, <1>3 DEF ArriveBegin, Begun
<1>5. next \in [BusinessDays -> 0 .. MaxTokens + 1] /\ MaxTokens \in Nat
  BY VisitsAssumption DEF VisitsInv, VisitRows
<1>6. next' \in [BusinessDays -> 0 .. MaxTokens + 1]
  BY <1>4, <1>5
<1>7. \A e \in BusinessDays :
        /\ next[e] > 0 => next'[e] > 0
        /\ next'[e] = next[e] \/ (next[e] = 0 /\ next'[e] = 1)
  BY <1>4, <1>5
<1>8. next'[d] > 0
  BY <1>4, <1>5
<1>9. VisitRows'
  <2>1. NumbersWithoutGaps'
    <3>1. ASSUME NEW e \in BusinessDays, NEW i \in 1 .. MaxTokens PROVE i < next'[e] <=> i < next[e]
      BY <1>5, <1>7
    <3> QED
      BY <1>4, <3>1 DEF VisitsInv, VisitRows, NumbersWithoutGaps
  <2> QED
    BY <1>4, <1>6, <2>1 DEF VisitsInv, VisitRows, OneToken, TokenFor
<1>10. VisitTx(x)
  <2>1. c \in ArriveCmd
    BY <1>2 DEF ArriveCmd
  <2> QED
    BY <1>3, <2>1 DEF VisitTx
<1>11. HasFound(x)'
  BY <1>2, <1>3, <1>4, <1>8 DEF HasFound
<1>12. ASSUME NEW y, VisitTx(y), HasFound(y) PROVE HasFound(y)'
  <2>1. y.cmd.op = "arrive" => y.cmd.session \in BusinessDays
    BY <1>12, VisitCommands
  <2> QED
    BY <1>4, <1>7, <1>12, <2>1 DEF HasFound, UsesKey
<1>13. \A u \in Txns : \A y : u # t /\ y = visitTxn[u] => HasFound(y)'
  BY <1>12 DEF VisitsInv
<1>14. \A u \in Txns : u # t => visitTxn[u].held \cap x.held = {}
  BY <1>3
<1> QED
  BY <1>4, <1>9, <1>10, <1>11, <1>13, <1>14, VisitTxStep

LEMMA StepArriveLock ==
  ASSUME VisitsInv, NEW t \in Txns, ArriveLock(t)
  PROVE  VisitsInv'
<1>1. PICK x : x = visitTxn[t] /\ VisitTx(x) /\ HasFound(x)
  BY DEF VisitsInv
<1>2. PICK l \in ArrivalLocks(x.cmd) : /\ Free(visitTxn, l) /\ ArrivalAdmits(x.cmd, l)
                                     /\ visitTxn' = Locked(visitTxn, t, l)
  BY <1>1 DEF ArriveLock, ArrivalWants
<1>3. x.cmd.op = "arrive"
  BY <1>2 DEF ArrivalLocks
<1>4. PICK c, h : /\ c = x.cmd /\ h = x.held /\ x = [cmd |-> c, held |-> h] /\ c \in ArriveCmd
                  /\ h \subseteq ArrivalLocks(c) /\ c.op = "arrive"
  BY <1>1, <1>3, VisitCommands
<1>5. PICK new : new = [cmd |-> c, held |-> h \cup {l}]
  OBVIOUS
<1>6. visitTxn' = [visitTxn EXCEPT ![t] = new]
  <2>1. PICK other : other = [visitTxn[t] EXCEPT !.held = @ \cup {l}]
    OBVIOUS
  <2>2. other = [x EXCEPT !.held = h \cup {l}]
    BY <1>1, <1>4, <2>1
  <2>3. other = new
    BY <1>4, <1>5, <2>2
  <2>4. visitTxn' = [visitTxn EXCEPT ![t] = other]
    BY <1>2, <2>1 DEF Locked
  <2> QED
    BY <2>3, <2>4
<1>7. VisitTx(new)
  <2>1. h \cup {l} \in SUBSET ArrivalLocks(c)
    BY <1>2, <1>4
  <2> QED
    BY <1>4, <1>5, <2>1 DEF VisitTx
<1>8. HasFound(new)
  <2>1. ASSUME NEW a \in c.appointment
        PROVE  /\ Exists(appointments[a])
               /\ AppointmentRow(a) \in h \cup {l} => Status(appointments[a]) \in {"scheduled", "confirmed"}
    <3>1. /\ Exists(appointments[a])
          /\ AppointmentRow(a) \in h => Status(appointments[a]) \in {"scheduled", "confirmed"}
      BY <1>1, <1>3, <1>4, <2>1 DEF HasFound
    <3>2. AppointmentRow(a) = l => Status(appointments[a]) \in {"scheduled", "confirmed"}
      BY <1>2, <1>4 DEF ArrivalAdmits, AppointmentRow
    <3> QED
      BY <3>1, <3>2
  <2>2. SessionRow(c.session) \in h \cup {l} => \A n \in Numbers : UsesKey(c, n) => n[1] # c.session
    <3>1. SessionRow(c.session) = l => \A n \in Numbers : ~UsesKey(c, n)
      BY <1>2, <1>4 DEF ArrivalAdmits, SessionRow
    <3> QED
      BY <1>1, <1>3, <1>4, <3>1 DEF HasFound
  <2>3. next[c.session] > 0
    BY <1>1, <1>3, <1>4 DEF HasFound
  <2> QED
    BY <1>5, <2>1, <2>2, <2>3 DEF HasFound
<1>9. \A u \in Txns : u # t => visitTxn[u].held \cap new.held = {}
  BY <1>1, <1>2, <1>4, <1>5 DEF VisitsInv, OneHolder, Free
<1>10. UNCHANGED <<today, next, appointments, tokens>>
  BY DEF ArriveLock
<1> QED
  BY <1>6, <1>7, <1>8, <1>9, <1>10, VisitTxOnly

(* An arrival that waits for no lock has them all.                          *)
LEMMA ReadyHolds ==
  ASSUME VisitsInv, NEW t \in Txns, ArriveReady(t)
  PROVE  ArrivalLocks(visitTxn[t].cmd) \subseteq visitTxn[t].held
<1>1. PICK missing : missing = ArrivalLocks(visitTxn[t].cmd) \ visitTxn[t].held
  OBVIOUS
<1>2. \A l \in missing : l[1] \in {1, 2}
  BY <1>1 DEF ArrivalLocks, AppointmentRow, SessionRow
<1>3. \A l \in missing : \E m \in missing : ~(l[1] <= m[1])
  BY <1>1 DEF ArriveReady, ArrivalWants
<1>4. \A l \in missing : l[1] # 1
  BY <1>2, <1>3
<1>5. missing = {}
  BY <1>2, <1>3, <1>4
<1> QED
  BY <1>1, <1>5

LEMMA StepArrive ==
  ASSUME VisitsInv, NEW t \in Txns, Arrive(t)
  PROVE  VisitsInv'
<1>1. PICK x : x = visitTxn[t] /\ VisitTx(x) /\ HasFound(x) /\ x.cmd.op = "arrive"
  BY DEF VisitsInv, Arrive, ArriveReady
<1>2. PICK c, d, v : c = x.cmd /\ d = c.session /\ v = next[d]
  OBVIOUS
<1>3. /\ c.appointment \in Optional(Appointments) /\ c.appointment \subseteq Appointments
      /\ c.key \in Optional(Keys) /\ d \in BusinessDays
  BY <1>1, <1>2, VisitCommands
<1>4. SessionRow(d) \in x.held /\ \A a \in c.appointment : AppointmentRow(a) \in x.held
  BY <1>1, <1>2, ReadyHolds DEF Arrive, ArrivalLocks
<1>5. PICK n, row : n = <<d, v>> /\ row = [appointment |-> c.appointment, key |-> c.key, log |-> <<"waiting">>]
  OBVIOUS
<1>6. /\ Cardinality({m \in Numbers : Exists(tokens[m])}) < MaxTokens
      /\ next' = [next EXCEPT ![d] = v + 1] /\ tokens' = [tokens EXCEPT ![n] = row]
      /\ appointments' = [a \in Appointments |->
           IF a \in c.appointment THEN [appointments[a] EXCEPT !.log = Append(@, "checked_in")]
           ELSE appointments[a]]
      /\ visitTxn' = [visitTxn EXCEPT ![t] = NotInTxn] /\ today' = today
  BY <1>1, <1>2, <1>5 DEF Arrive, Ended
<1>7. /\ next \in [BusinessDays -> 0 .. MaxTokens + 1] /\ MaxTokens \in Nat
      /\ NumbersWithoutGaps /\ tokens = [m \in Numbers |-> tokens[m]]
  BY VisitsAssumption DEF VisitsInv, VisitRows
<1>8. v \in 1 .. MaxTokens
  <2>1. v \in 0 .. MaxTokens + 1 /\ v > 0
    BY <1>1, <1>2, <1>3, <1>7 DEF HasFound
  <2>2. v # MaxTokens + 1
    <3> SUFFICES ASSUME v = MaxTokens + 1 PROVE FALSE
      OBVIOUS
    <3>1. PICK E \in SUBSET Numbers : E = {m \in Numbers : Exists(tokens[m])}
      OBVIOUS
    <3>2. ASSUME NEW i \in 1 .. MaxTokens PROVE <<d, i>> \in E
      <4>1. i < next[d] /\ <<d, i>> \in Numbers
        BY <1>2, <1>3, <1>7 DEF Numbers
      <4> QED
        BY <1>3, <1>7, <3>1, <4>1 DEF NumbersWithoutGaps
    <3>3. Cardinality(E) \in Nat /\ Cardinality(E) >= MaxTokens
      BY <1>3, <3>1, <3>2, FullDay
    <3> QED
      BY <1>6, <1>7, <3>1, <3>3
  <2> QED
    BY <1>7, <2>1, <2>2
<1>9. n \in Numbers /\ ~Exists(tokens[n])
  <2>1. n \in Numbers
    BY <1>3, <1>5, <1>8 DEF Numbers
  <2>2. ~(v < next[d])
    BY <1>2, <1>8
  <2> QED
    BY <1>3, <1>5, <1>7, <1>8, <2>1, <2>2 DEF NumbersWithoutGaps
<1>10. /\ tokens' = [m \in Numbers |-> IF m = n THEN row ELSE tokens[m]]
       /\ row.log # <<>> /\ row.appointment = c.appointment /\ row.key = c.key
  BY <1>5, <1>6, <1>7
<1>11. IsToken(row)
  <2>1. <<"waiting">> \in Seq(DOMAIN TokenMoves) /\ TokenLog(<<"waiting">>)
    BY DEF TokenMoves, TokenLog
  <2> QED
    BY <1>3, <1>5, <2>1 DEF IsToken
<1>12. ASSUME NEW a \in c.appointment
       PROVE  /\ appointments'[a] = [log |-> appointments'[a].log] /\ LogFacts(appointments'[a].log)
              /\ appointments'[a].log # <<>> /\ "checked_in" \in Range(appointments'[a].log)
              /\ "checked_in" \notin Range(appointments[a].log)
  <2>1. PICK log, new : log = appointments[a].log /\ new = Append(log, "checked_in")
    OBVIOUS
  <2>2. appointments[a] = [log |-> log] /\ LogFacts(log)
    BY <1>3, <1>12, <2>1 DEF VisitsInv, VisitRows
  <2>3. log # <<>> /\ Last(log) \in {"scheduled", "confirmed"}
    BY <1>1, <1>2, <1>4, <1>12, <2>1 DEF HasFound, Exists, Status
  <2>4. "checked_in" \notin Range(log) /\ "checked_in" \in AppointmentMoves[Last(log)]
    BY <2>2, <2>3, MovesOfAppointments DEF LogFacts
  <2>5. LogFacts(new)
    BY <2>1, <2>2, <2>3, <2>4, LogMoves
  <2>6. new # <<>> /\ "checked_in" \in Range(new)
    BY <2>1, <2>2, MovesOfAppointments, LogGrows DEF LogFacts
  <2>7. appointments'[a] = [log |-> new]
    <3>1. PICK old : old = appointments[a]
      OBVIOUS
    <3>2. appointments'[a] = [old EXCEPT !.log = Append(@, "checked_in")]
      BY <1>3, <1>6, <1>12, <3>1
    <3>3. old = [log |-> log]
      BY <2>2, <3>1
    <3> QED
      BY <2>1, <3>2, <3>3
  <2> QED
    BY <2>1, <2>4, <2>5, <2>6, <2>7
<1>13. \A a \in Appointments : a \notin c.appointment => appointments'[a] = appointments[a]
  BY <1>6
<1>14. ASSUME NEW a \in Appointments PROVE OneToken(a)'
  <2>1. OneToken(a)
    BY DEF VisitsInv, VisitRows
  <2>2. \A m \in Numbers : TokenFor(m, a)' <=> IF m = n THEN a \in c.appointment ELSE TokenFor(m, a)
    BY <1>10 DEF TokenFor, Exists
  <2>3. ~TokenFor(n, a)
    BY <1>9 DEF TokenFor
  <2>4. CASE a \in c.appointment
    <3>1. \A m \in Numbers : ~TokenFor(m, a)
      BY <1>12, <2>1, <2>4 DEF OneToken
    <3>2. \A m \in Numbers : TokenFor(m, a)' <=> m = n
      BY <2>2, <2>4, <3>1
    <3>3. "checked_in" \in Range(appointments'[a].log)
      BY <1>12, <2>4
    <3> QED
      BY <1>9, <3>2, <3>3 DEF OneToken
  <2>5. CASE a \notin c.appointment
    <3>1. \A m \in Numbers : TokenFor(m, a)' <=> TokenFor(m, a)
      BY <2>2, <2>3, <2>5
    <3>2. appointments'[a] = appointments[a]
      BY <1>13, <2>5
    <3> QED
      BY <2>1, <3>1, <3>2 DEF OneToken
  <2> QED
    BY <2>4, <2>5
<1>15. /\ next' \in [BusinessDays -> 0 .. MaxTokens + 1]
       /\ next' = [e \in BusinessDays |-> IF e = d THEN v + 1 ELSE next[e]]
  <2>1. v + 1 \in 0 .. MaxTokens + 1
    BY <1>7, <1>8
  <2> QED
    BY <1>6, <1>7, <2>1
<1>16. NumbersWithoutGaps'
  <2>1. ASSUME NEW e \in BusinessDays, NEW i \in 1 .. MaxTokens
        PROVE  Exists(tokens'[<<e, i>>]) <=> i < next'[e]
    <3>1. <<e, i>> \in Numbers /\ (Exists(tokens[<<e, i>>]) <=> i < next[e])
      BY <1>7 DEF Numbers, NumbersWithoutGaps
    <3>2. CASE e = d /\ i = v
      BY <1>5, <1>8, <1>10, <1>15, <3>1, <3>2 DEF Exists
    <3>3. CASE e = d /\ i # v
      <4>1. <<e, i>> # n
        BY <1>5, <3>3
      <4>2. i < v + 1 <=> i < v
        BY <1>7, <1>8, <3>3
      <4> QED
        BY <1>2, <1>10, <1>15, <3>1, <3>3, <4>1, <4>2
    <3>4. CASE e # d
      <4>1. <<e, i>> # n
        BY <1>5, <3>4
      <4> QED
        BY <1>10, <1>15, <3>1, <3>4, <4>1
    <3> QED
      BY <3>2, <3>3, <3>4
  <2> QED
    BY <2>1 DEF NumbersWithoutGaps, Exists
<1>17. VisitRows'
  <2>1. appointments' = [a \in Appointments |-> appointments'[a]]
    BY <1>6
  <2>2. \A a \in Appointments : appointments'[a] = [log |-> appointments'[a].log] /\ LogFacts(appointments'[a].log)
    BY <1>12, <1>13 DEF VisitsInv, VisitRows
  <2>3. \A m \in Numbers : tokens'[m] = NoVisit \/ IsToken(tokens'[m])
    BY <1>10, <1>11 DEF VisitsInv, VisitRows
  <2>4. tokens' = [m \in Numbers |-> tokens'[m]] /\ today' \in BusinessDays
    BY <1>6, <1>10 DEF VisitsInv, VisitRows
  <2> QED
    BY <1>14, <1>15, <1>16, <2>1, <2>2, <2>3, <2>4 DEF VisitRows
<1>18. ASSUME NEW u \in Txns, NEW y, u # t, y = visitTxn[u] PROVE HasFound(y)'
  <2> SUFFICES ASSUME y.cmd.op = "arrive" PROVE HasFound(y)'
    BY DEF HasFound
  <2>1. VisitTx(y) /\ HasFound(y) /\ y.held \cap x.held = {}
    BY <1>1, <1>18 DEF VisitsInv, OneHolder
  <2>2. y.cmd.session \in BusinessDays /\ y.cmd.appointment \subseteq Appointments
    BY <2>1, VisitCommands
  <2>3. next'[y.cmd.session] > 0
    BY <1>8, <1>15, <2>1, <2>2 DEF HasFound
  <2>4. ASSUME NEW a \in y.cmd.appointment
        PROVE  /\ Exists(appointments'[a])
               /\ AppointmentRow(a) \in y.held => Status(appointments'[a]) \in {"scheduled", "confirmed"}
    <3>1. /\ a \in Appointments /\ Exists(appointments[a])
          /\ AppointmentRow(a) \in y.held => Status(appointments[a]) \in {"scheduled", "confirmed"}
      BY <2>1, <2>2 DEF HasFound
    <3>2. CASE a \in c.appointment
      BY <1>4, <1>12, <2>1, <3>2 DEF Exists
    <3>3. CASE a \notin c.appointment
      BY <1>13, <3>1, <3>3
    <3> QED
      BY <3>2, <3>3
  <2>5. ASSUME SessionRow(y.cmd.session) \in y.held, NEW m \in Numbers, UsesKey(y.cmd, m)'
        PROVE  m[1] # y.cmd.session
    <3>1. CASE m = n
      BY <1>4, <1>5, <2>1, <2>5, <3>1
    <3>2. CASE m # n
      <4>1. UsesKey(y.cmd, m)
        BY <1>10, <2>5, <3>2 DEF UsesKey
      <4> QED
        BY <2>1, <2>5, <4>1 DEF HasFound
    <3> QED
      BY <3>1, <3>2
  <2> QED
    BY <2>3, <2>4, <2>5 DEF HasFound, UsesKey, Exists, Status
<1>19. VisitTx(NotInTxn) /\ HasFound(NotInTxn)' /\ NotInTxn.held = {}
  BY DEF VisitTx, HasFound, NotInTxn
<1>20. \A u \in Txns : u # t => visitTxn[u].held \cap NotInTxn.held = {}
  BY <1>19
<1>21. \A u \in Txns : \A y : u # t /\ y = visitTxn[u] => HasFound(y)'
  BY <1>18
<1> QED
  BY <1>6, <1>17, <1>19, <1>20, <1>21, VisitTxStep

LEMMA VisitsStep ==
  ASSUME VisitsInv, [VisitsNext]_visitVars
  PROVE  VisitsInv'
<1>1. CASE UNCHANGED visitVars
  <2>1. VisitRows'
    BY <1>1 DEF visitVars, VisitsInv, VisitRows, OneToken, TokenFor, NumbersWithoutGaps
  <2> QED
    BY <1>1, <2>1 DEF visitVars, VisitsInv, VisitTx, HasFound, UsesKey, OneHolder
<1> QED
  BY <1>1, StepNextDay, StepBook, StepMoveBegin, StepMoveAppointment, StepMoveToken, StepArriveBegin,
     StepArriveLock, StepArrive, StepAbort DEF VisitsNext

-----------------------------------------------------------------------------
(* VisitsInv holds in every reachable state.                                *)
THEOREM VisitsKept == VisitsSpec => []VisitsInv
  BY VisitsBegin, VisitsStep, PTL DEF VisitsSpec

(* A day's tokens are numbered from 1 without gaps, and the retry of an     *)
(* arrival that is being recorded waits for it.                             *)
THEOREM NumbersFollow == VisitsSpec => [](NumbersWithoutGaps /\ ArrivalRetriesAgree)
<1>1. VisitsInv => NumbersWithoutGaps /\ ArrivalRetriesAgree
  <2> SUFFICES ASSUME VisitsInv PROVE NumbersWithoutGaps /\ ArrivalRetriesAgree
    OBVIOUS
  <2>1. ASSUME NEW t \in Txns, ArriveReady(t), NEW n \in Numbers, UsesKey(visitTxn[t].cmd, n)
        PROVE  n[1] # visitTxn[t].cmd.session
    <3>1. SessionRow(visitTxn[t].cmd.session) \in visitTxn[t].held
      BY <2>1, ReadyHolds DEF ArriveReady, ArrivalLocks
    <3> QED
      BY <2>1, <3>1 DEF VisitsInv, HasFound, ArriveReady
  <2> QED
    BY <2>1 DEF VisitsInv, VisitRows, ArrivalRetriesAgree
<1> QED
  BY <1>1, VisitsKept, PTL

(* An appointment was checked in exactly when it has a token, and it has    *)
(* one; what happened to it is in the order its statuses allow.             *)
THEOREM TokensOfArrivals == VisitsSpec => []ArrivalsHaveTokens
<1>1. VisitsInv => ArrivalsHaveTokens
  <2> SUFFICES ASSUME VisitsInv, NEW a \in Appointments
               PROVE  LET own == {n \in Numbers : Exists(tokens[n]) /\ a \in tokens[n].appointment}
                          log == appointments[a].log
                      IN  /\ Cardinality(own) = (IF "checked_in" \in Range(log) THEN 1 ELSE 0)
                          /\ \A i \in 2 .. Len(log) : log[i] \in AppointmentMoves[log[i - 1]]
    BY DEF ArrivalsHaveTokens
  <2> DEFINE own == {n \in Numbers : Exists(tokens[n]) /\ a \in tokens[n].appointment}
  <2>1. OneToken(a) /\ LogFacts(appointments[a].log)
    BY DEF VisitsInv, VisitRows
  <2>2. CASE "checked_in" \in Range(appointments[a].log)
    <3>1. PICK n \in Numbers : TokenFor(n, a)
      BY <2>1, <2>2 DEF OneToken
    <3>2. own = {n}
      BY <2>1, <3>1 DEF OneToken, TokenFor
    <3> QED
      BY <2>1, <2>2, <3>2, FS_Singleton DEF LogFacts
  <2>3. CASE "checked_in" \notin Range(appointments[a].log)
    <3>1. own = {}
      BY <2>1, <2>3 DEF OneToken, TokenFor
    <3> QED
      BY <2>1, <2>3, <3>1, FS_EmptySet DEF LogFacts
  <2> QED
    BY <2>2, <2>3
<1> QED
  BY <1>1, VisitsKept, PTL

-----------------------------------------------------------------------------
(* A history that follows a table of moves is short: every move goes to a   *)
(* later stage, and there are four.                                         *)
LEMMA ShortHistories ==
  ASSUME NEW moves, NEW stage \in [DOMAIN moves -> 1 .. 4],
         \A s \in DOMAIN moves : \A x \in moves[s] : x \in DOMAIN moves /\ stage[x] > stage[s],
         NEW log \in Seq(DOMAIN moves), \A i \in 2 .. Len(log) : log[i] \in moves[log[i - 1]]
  PROVE  log \in Histories(moves)
<1>1. Len(log) \in Nat /\ \A i \in 1 .. Len(log) : log[i] \in DOMAIN moves /\ stage[log[i]] \in 1 .. 4
  OBVIOUS
<1>2. ASSUME NEW i \in 2 .. Len(log) PROVE stage[log[i]] > stage[log[i - 1]]
  <2>1. i - 1 \in 1 .. Len(log)
    BY <1>1
  <2> QED
    BY <1>1, <2>1
<1>3. Len(log) <= 4
  <2> SUFFICES ASSUME Len(log) > 4 PROVE FALSE
    BY <1>1
  <2>1. \A i \in 1 .. 5 : stage[log[i]] \in 1 .. 4
    BY <1>1
  <2>2. /\ stage[log[2]] > stage[log[1]] /\ stage[log[3]] > stage[log[2]]
        /\ stage[log[4]] > stage[log[3]] /\ stage[log[5]] > stage[log[4]]
    BY <1>1, <1>2
  <2> QED
    BY <2>1, <2>2
<1>4. log \in BoundedSeq(DOMAIN moves, 4)
  <2>1. PICK n : n = Len(log) /\ n \in 0 .. 4
    <3>1. \A n \in Nat : n <= 4 => n \in 0 .. 4
      OBVIOUS
    <3> QED
      BY <1>1, <1>3, <3>1, Zenon
  <2>2. log \in [1 .. n -> DOMAIN moves]
    <3>1. PICK m \in Nat : log \in [1 .. m -> DOMAIN moves]
      BY SeqDef
    <3>2. Len(log) = m
      BY <3>1
    <3> QED
      BY <2>1, <3>1, <3>2
  <2>3. log \in UNION {[1 .. m -> DOMAIN moves] : m \in 0 .. 4}
    BY <2>1, <2>2, Zenon
  <2> QED
    BY <2>3, Zenon DEF BoundedSeq, SeqOf
<1> QED
  BY <1>4 DEF Histories

LEMMA ShortAppointments == \A log : LogFacts(log) => log \in Histories(AppointmentMoves)
<1> SUFFICES ASSUME NEW log, LogFacts(log) PROVE log \in Histories(AppointmentMoves)
  OBVIOUS
<1>1. PICK stage : stage = [s \in Statuses |-> IF s = "scheduled" THEN 1 ELSE IF s = "confirmed" THEN 2
                                               ELSE IF s = "checked_in" THEN 3 ELSE 4]
  OBVIOUS
<1>2. \A s \in Statuses : \A x \in AppointmentMoves[s] : x \in Statuses /\ stage[x] > stage[s]
  BY <1>1 DEF Statuses, AppointmentMoves
<1>3. stage \in [Statuses -> 1 .. 4]
  BY <1>1
<1> QED
  BY <1>2, <1>3, ShortHistories DEF LogFacts, Statuses

LEMMA ShortTokens == \A log : TokenLog(log) => log \in Histories(TokenMoves)
<1> SUFFICES ASSUME NEW log, TokenLog(log) PROVE log \in Histories(TokenMoves)
  OBVIOUS
<1>1. PICK stage : stage = [s \in DOMAIN TokenMoves |-> IF s = "waiting" THEN 1 ELSE IF s = "serving" THEN 2 ELSE 3]
  OBVIOUS
<1>2. \A s \in DOMAIN TokenMoves : \A x \in TokenMoves[s] : x \in DOMAIN TokenMoves /\ stage[x] > stage[s]
  BY <1>1 DEF TokenMoves
<1>3. stage \in [DOMAIN TokenMoves -> 1 .. 4]
  BY <1>1
<1> QED
  BY <1>2, <1>3, ShortHistories DEF TokenLog

(* Rows have their columns, and every appointment and token has gone only   *)
(* where its statuses allow, one event for each version.                    *)
THEOREM VisitHistories == VisitsSpec => []VisitsTypeOK
<1>1. VisitsInv => VisitsTypeOK
  <2> SUFFICES ASSUME VisitsInv PROVE VisitsTypeOK
    OBVIOUS
  <2>1. \A a \in Appointments : appointments[a].log \in Histories(AppointmentMoves)
    BY ShortAppointments DEF VisitsInv, VisitRows
  <2>2. ASSUME NEW n \in Numbers, tokens[n] # NoVisit
        PROVE  /\ tokens[n].log \in Histories(TokenMoves)
               /\ tokens[n].appointment \in Optional(Appointments) /\ tokens[n].key \in Optional(Keys)
    <3>1. IsToken(tokens[n])
      BY <2>2 DEF VisitsInv, VisitRows
    <3> QED
      BY <3>1, ShortTokens DEF IsToken
  <2>3. ASSUME NEW t \in Txns PROVE visitTxn[t] = NotInTxn \/ visitTxn[t].cmd \in ArriveCmd \cup MoveCmd
    <3>1. PICK x : x = visitTxn[t] /\ VisitTx(x)
      BY DEF VisitsInv
    <3>2. ASSUME NEW c \in ArriveCmd, NEW h, x = [cmd |-> c, held |-> h] PROVE x.cmd \in ArriveCmd
      BY <3>2
    <3>3. ASSUME NEW c \in MoveCmd, x = [cmd |-> c, held |-> {}] PROVE x.cmd \in MoveCmd
      BY <3>3
    <3> QED
      BY <3>1, <3>2, <3>3 DEF VisitTx
  <2> QED
    BY <2>1, <2>2, <2>3 DEF VisitsTypeOK, VisitsInv, VisitRows
<1> QED
  BY <1>1, VisitsKept, PTL

-----------------------------------------------------------------------------
(* One system.  Visits, leads and the browser share no state: a step of it  *)
(* is a step of one and a stutter of the others.                            *)
LEMMA BranchSteps ==
  ASSUME [BranchNext]_<<visitVars, crmVars, browserVars>>
  PROVE  [VisitsNext]_visitVars /\ [CrmNext]_crmVars /\ [BrowserNext]_browserVars
  BY DEF BranchNext, VisitsRest, CrmRests, BrowserRests

LEMMA BranchBehaves == BranchSpec => VisitsSpec /\ CrmSpec /\ BrowserSpec
<1>1. BranchInit => VisitsInit /\ CrmInit /\ BrowserInit
  BY DEF BranchInit
<1> QED
  BY <1>1, BranchSteps, PTL DEF BranchSpec, VisitsSpec, CrmSpec, BrowserSpec

(* What each component keeps at every moment: appointments and tokens have  *)
(* legal histories, a day's tokens are numbered without gaps, and leads,    *)
(* stages and the browser's session are what their code allows.             *)
THEOREM BranchKept == BranchSpec => []BranchInv
<1>1. VisitsTypeOK /\ (NumbersWithoutGaps /\ ArrivalRetriesAgree) /\ CrmTypeOK /\ BrowserTypeOK => BranchInv
  BY DEF BranchInv
<1> QED
  BY <1>1, BranchBehaves, VisitHistories, NumbersFollow, FollowupsHaveLeads, NoReplay, PTL
=============================================================================
