--------------------------- MODULE PeopleProofs ---------------------------
(***************************************************************************)
(* Proofs about what concerns the people of an organization: their         *)
(* accounts, leave and shifts, tasks, and all of them in one system.       *)
(***************************************************************************)
EXTENDS MCPeople, SequenceTheorems, TLAPS

-----------------------------------------------------------------------------
(* What Account promises for every number of requests, sessions, links and *)
(* addresses.                                                              *)
(* The inductive invariant says what the user's row lock is good for:      *)
(* while a request holds it, what the request has read under it (the hash, *)
(* the verified address, the state of the link) is still true.  From that  *)
(* each property follows at the step that commits.                         *)
USE DEF NoRow, Idle, At, Go, Unrevoked

LockInv ==
  \A q, r \in Requests :
    q # r /\ req[q].op \in {"recover", "replace"}
      => req[r].op \notin {"issuing", "recover", "replace"}

HeldInv ==
  \A r \in Requests :
    /\ At(r, "issuing") => req[r].pw = pw
    /\ At(r, "recover") => req[r].to = email.verified
    /\ At(r, "replace") => req[r].from = pw
    /\ At(r, "replace") /\ req[r].link # NoLink
         => links[req[r].link].status \in Unrevoked

RotatedInv ==
  \A r \in Requests : At(r, "rotated") =>
    /\ sessions[req[r].cred.session] # NoRow
    /\ req[r].cred.gen < sessions[req[r].cred.session].gen

IInv == /\ TypeOK /\ LockInv /\ HeldInv /\ RotatedInv
        /\ LiveSessionsUseCurrentPassword /\ OneRefreshWins /\ ResetLinksFollowEmail

-----------------------------------------------------------------------------
(* What a request that has come to a given point carries. *)
LEMMA RequestCases ==
  ASSUME NEW x \in Request
  PROVE  /\ x.op \in {"login", "issuing", "change"} => x.pw \in Hashes
         /\ x.op \in {"refresh", "rotate", "rotated"} => x.cred \in Creds
         /\ x.op = "reset" => x.link \in Links
         /\ x.op = "recover" => x.to \in Emails \cup {NoEmail}
         /\ x.op = "replace" => x.link \in Links \cup {NoLink} /\ x.from \in Hashes
         /\ x.op = "connect" => x.session \in Sessions
         /\ x.op = "disconnect" => x.of \subseteq Sessions
BY DEF Request

LEMMA SessionCases ==
  ASSUME NEW x \in SessionRow \cup {NoRow}, x.status # "none"
  PROVE  x \in SessionRow
BY DEF SessionRow

LEMMA LinkCases ==
  ASSUME NEW x \in LinkRow \cup {NoRow}, x.status # "none"
  PROVE  x \in LinkRow
BY DEF LinkRow

LEMMA RevokedForTyped ==
  ASSUME TypeOK, NEW purpose
  PROVE  RevokedFor(purpose) \in [Links -> LinkRow \cup {NoRow}]
<1> SUFFICES ASSUME NEW l \in Links PROVE RevokedFor(purpose)[l] \in LinkRow \cup {NoRow}
  BY DEF RevokedFor
<1>1. CASE links[l].status \in Unrevoked
  <2>1. links[l] \in LinkRow
    BY <1>1, LinkCases DEF TypeOK
  <2>2. [links[l] EXCEPT !.status = "revoked"] \in LinkRow
    BY <2>1 DEF LinkRow
  <2> QED
    BY <2>2 DEF RevokedFor, TypeOK
<1>2. CASE links[l].status \notin Unrevoked
  BY <1>2 DEF RevokedFor, TypeOK
<1> QED
  BY <1>1, <1>2

LEMMA IssueTyped ==
  ASSUME TypeOK, NEW purpose \in {"verify", "reset"}, NEW to \in Emails, Issue(purpose, to)
  PROVE  links' \in [Links -> LinkRow \cup {NoRow}]
BY RevokedForTyped DEF Issue, LinkRow

LEMMA AllRevokedTyped ==
  ASSUME TypeOK
  PROVE  AllRevoked \in [Sessions -> SessionRow \cup {NoRow}]
<1> SUFFICES ASSUME NEW s \in Sessions PROVE AllRevoked[s] \in SessionRow \cup {NoRow}
  BY DEF AllRevoked
<1>1. CASE sessions[s].status \in Unrevoked
  <2>1. sessions[s] \in SessionRow
    BY <1>1, SessionCases DEF TypeOK
  <2>2. [sessions[s] EXCEPT !.status = "revoked"] \in SessionRow
    BY <2>1 DEF SessionRow
  <2> QED
    BY <2>2 DEF AllRevoked, TypeOK
<1>2. CASE sessions[s].status \notin Unrevoked
  BY <1>2 DEF AllRevoked, TypeOK
<1> QED
  BY <1>1, <1>2

LEMMA InitInv == Init => IInv
<1> SUFFICES ASSUME Init PROVE IInv
  OBVIOUS
<1>1. TypeOK
  BY ConstantsAssumption DEF Init, TypeOK, Request, Hashes
<1>2. LockInv /\ HeldInv /\ RotatedInv
  BY DEF Init, LockInv, HeldInv, RotatedInv
<1>3. LiveSessionsUseCurrentPassword /\ OneRefreshWins /\ ResetLinksFollowEmail
  BY DEF Init, LiveSessionsUseCurrentPassword, OneRefreshWins, ResetLinksFollowEmail
<1> QED
  BY <1>1, <1>2, <1>3 DEF IInv

-----------------------------------------------------------------------------
(* Types. *)
LEMMA TypeStep == TypeOK /\ HeldInv /\ [Next]_vars => TypeOK'
<1> SUFFICES ASSUME TypeOK, HeldInv, [Next]_vars PROVE TypeOK'
  OBVIOUS
<1> USE DEF TypeOK
<1>1. ASSUME NEW r \in Requests, LoginVerify(r) PROVE TypeOK'
  BY <1>1 DEF LoginVerify, Request
<1>2. ASSUME NEW r \in Requests, LoginCheck(r) PROVE TypeOK'
  BY <1>2 DEF LoginCheck, Request
<1>3. ASSUME NEW r \in Requests, LoginInsert(r) PROVE TypeOK'
  <2>1. req[r].pw \in Hashes
    BY <1>3, RequestCases DEF LoginInsert
  <2>2. req' \in [Requests -> Request]
    BY <1>3 DEF LoginInsert, Request
  <2>3. sessions' \in [Sessions -> SessionRow \cup {NoRow}]
    BY <1>3, <2>1, ConstantsAssumption DEF LoginInsert, SessionRow, Gens
  <2> QED
    BY <1>3, <2>2, <2>3 DEF LoginInsert
<1>4. ASSUME NEW r \in Requests, RefreshValidate(r) PROVE TypeOK'
  BY <1>4 DEF RefreshValidate, Request
<1>5. ASSUME NEW r \in Requests, RotateValidate(r) PROVE TypeOK'
  <2>1. req[r].cred \in Creds
    BY <1>5, RequestCases DEF RotateValidate
  <2> QED
    BY <1>5, <2>1 DEF RotateValidate, Request
<1>6. ASSUME NEW r \in Requests, Rotate(r) PROVE TypeOK'
  <2>1. req[r].cred \in Creds
    BY <1>6, RequestCases DEF Rotate
  <2> DEFINE s == req[r].cred.session
  <2>2. s \in Sessions
    BY <2>1 DEF Creds
  <2>3. sessions[s] \in SessionRow
    BY <1>6, <2>2, SessionCases DEF Rotate, Swaps
  <2>4. sessions[s].gen + 1 \in Gens
    BY <1>6, <2>3, ConstantsAssumption DEF Rotate, SessionRow, Gens
  <2>5. sessions' \in [Sessions -> SessionRow \cup {NoRow}]
    BY <1>6, <2>2, <2>3, <2>4 DEF Rotate, SessionRow
  <2>6. req' \in [Requests -> Request]
    BY <1>6, <2>1 DEF Rotate, Request
  <2> QED
    BY <1>6, <2>5, <2>6 DEF Rotate
<1>7. ASSUME NEW r \in Requests, Respond(r) PROVE TypeOK'
  BY <1>7 DEF Respond, Request
<1>8. ASSUME NEW r \in Requests, Logout(r) PROVE TypeOK'
  <2>1. PICK cred \in Creds :
          /\ sessions[cred.session] # NoRow
          /\ sessions' = IF Swaps(cred) THEN [sessions EXCEPT ![cred.session].status = "revoked"]
                         ELSE sessions
          /\ Go(r, [op |-> "disconnect", of |-> {cred.session}])
    BY <1>8 DEF Logout
  <2>2. cred.session \in Sessions /\ sessions[cred.session] \in SessionRow
    BY <2>1 DEF Creds
  <2>3. sessions' \in [Sessions -> SessionRow \cup {NoRow}]
    BY <2>1, <2>2 DEF SessionRow
  <2>4. req' \in [Requests -> Request]
    BY <2>1, <2>2 DEF Request
  <2> QED
    BY <1>8, <2>3, <2>4 DEF Logout
<1>9. ASSUME NEW r \in Requests, Disconnect(r) PROVE TypeOK'
  BY <1>9 DEF Disconnect, Request
<1>10. ASSUME NEW r \in Requests, ChangeVerify(r) PROVE TypeOK'
  BY <1>10 DEF ChangeVerify, Request
<1>11. ASSUME NEW r \in Requests, ChangeUpdate(r) PROVE TypeOK'
  BY <1>11 DEF ChangeUpdate, Request
<1>12. ASSUME NEW r \in Requests, ResetInspect(r) PROVE TypeOK'
  BY <1>12 DEF ResetInspect, Request
<1>13. ASSUME NEW r \in Requests, ResetLock(r) PROVE TypeOK'
  <2>1. req[r].link \in Links
    BY <1>13, RequestCases DEF ResetLock
  <2> QED
    BY <1>13, <2>1 DEF ResetLock, Request
<1>14. ASSUME NEW r \in Requests, Replace(r) PROVE TypeOK'
  <2>1. pw' \in Hashes
    BY <1>14, ConstantsAssumption DEF Replace, Hashes
  <2>2. req[r].link # NoLink => req[r].link \in Links /\ links[req[r].link] \in LinkRow
    BY <1>14, RequestCases, LinkCases DEF Replace, HeldInv
  <2>3. links' \in [Links -> LinkRow \cup {NoRow}]
    BY <1>14, <2>2, ConstantsAssumption DEF Replace, LinkRow
  <2>4. req' \in [Requests -> Request]
    BY <1>14 DEF Replace, Request
  <2> QED
    BY <1>14, <2>1, <2>3, <2>4, AllRevokedTyped DEF Replace
<1>15. ASSUME NEW r \in Requests, Forgot(r) PROVE TypeOK'
  BY <1>15 DEF Forgot, Request
<1>16. ASSUME NEW r \in Requests, ForgotIssue(r) PROVE TypeOK'
  <2>1. req[r].to \in Emails
    BY <1>16, RequestCases DEF ForgotIssue
  <2>2. req' \in [Requests -> Request]
    BY <1>16 DEF ForgotIssue, Request
  <2> QED
    BY <1>16, <2>1, <2>2, IssueTyped DEF ForgotIssue
<1>17. ASSUME NEW r \in Requests, Connect(r) PROVE TypeOK'
  BY <1>17 DEF Connect, Request
<1>18. ASSUME NEW r \in Requests, Join(r) PROVE TypeOK'
  <2>1. req[r].session \in Sessions
    BY <1>18, RequestCases DEF Join
  <2> QED
    BY <1>18, <2>1 DEF Join, Request
<1>19. ASSUME NEW r \in Requests, Abort(r) PROVE TypeOK'
  BY <1>19 DEF Abort, Request
<1>20. ASSUME NEW e \in Emails, ProposeEmail(e) PROVE TypeOK'
  BY <1>20, IssueTyped DEF ProposeEmail
<1>21. ASSUME NEW l \in Links, VerifyEmail(l) PROVE TypeOK'
  <2>1. links[l] \in LinkRow
    BY <1>21, LinkCases DEF VerifyEmail, Redeemable
  <2>2. RevokedFor("reset")[l] = links[l]
    BY <1>21 DEF VerifyEmail, Redeemable, RevokedFor
  <2>3. links' \in [Links -> LinkRow \cup {NoRow}]
    BY <1>21, <2>1, <2>2, RevokedForTyped DEF VerifyEmail, LinkRow
  <2> QED
    BY <1>21, <2>3 DEF VerifyEmail
<1>22. ASSUME NEW l \in Links, DeliveryFails(l) PROVE TypeOK'
  <2>1. links[l] \in LinkRow
    BY <1>22, LinkCases DEF DeliveryFails
  <2> QED
    BY <1>22, <2>1 DEF DeliveryFails, LinkRow
<1>23. ASSUME NEW l \in Links, ExpireLink(l) PROVE TypeOK'
  <2>1. links[l] \in LinkRow
    BY <1>23, LinkCases DEF ExpireLink
  <2> QED
    BY <1>23, <2>1 DEF ExpireLink, LinkRow
<1>24. ASSUME NEW s \in Sessions, EmitToBranch(s) PROVE TypeOK'
  BY <1>24 DEF EmitToBranch
<1>25. ASSUME NEW s \in Sessions, ExpireSession(s) PROVE TypeOK'
  <2>1. sessions[s] \in SessionRow
    BY <1>25, SessionCases DEF ExpireSession
  <2> QED
    BY <1>25, <2>1 DEF ExpireSession, SessionRow
<1>26. CASE Restart
  BY <1>26 DEF Restart, Request
<1>27. CASE UNCHANGED vars
  BY <1>27 DEF vars
<1> QED
  BY <1>1, <1>2, <1>3, <1>4, <1>5, <1>6, <1>7, <1>8, <1>9, <1>10, <1>11, <1>12, <1>13,
     <1>14, <1>15, <1>16, <1>17, <1>18, <1>19, <1>20, <1>21, <1>22, <1>23, <1>24, <1>25,
     <1>26, <1>27 DEF Next

-----------------------------------------------------------------------------
Rest == /\ LockInv /\ HeldInv /\ RotatedInv /\ OneRefreshWins
        /\ LiveSessionsUseCurrentPassword /\ ResetLinksFollowEmail

(* Most steps of a request change no row and leave it without the user's   *)
(* lock; they disturb nothing the invariant speaks of.                     *)
Quiet(r) ==
  \/ LoginVerify(r) \/ RefreshValidate(r) \/ RotateValidate(r) \/ Respond(r)
  \/ ChangeVerify(r) \/ ResetInspect(r) \/ Connect(r) \/ Join(r) \/ Abort(r)
  \/ Disconnect(r)

LEMMA QuietMoves ==
  ASSUME NEW r \in Requests, Quiet(r)
  PROVE  /\ \E x : x.op \notin {"issuing", "recover", "replace", "rotated"} /\ Go(r, x)
         /\ UNCHANGED <<pw, email, links, sessions>>
BY DEF Quiet, LoginVerify, RefreshValidate, RotateValidate, Respond, ChangeVerify,
       ResetInspect, Connect, Join, Abort, Disconnect

LEMMA QuietStep ==
  ASSUME IInv, NEW r \in Requests, Quiet(r)
  PROVE  Rest'
<1>1. PICK x : x.op \notin {"issuing", "recover", "replace", "rotated"} /\ Go(r, x)
  BY QuietMoves
<1>2. UNCHANGED <<pw, email, links, sessions>>
  BY QuietMoves
<1>3. \A q \in Requests : req'[q] = IF q = r THEN x ELSE req[q]
  BY <1>1 DEF IInv, TypeOK
<1>4. LockInv'
  BY <1>1, <1>3 DEF IInv, LockInv
<1>5. HeldInv'
  BY <1>1, <1>2, <1>3 DEF IInv, HeldInv
<1>6. RotatedInv' /\ OneRefreshWins'
  BY <1>1, <1>2, <1>3 DEF IInv, RotatedInv, OneRefreshWins
<1>7. LiveSessionsUseCurrentPassword' /\ ResetLinksFollowEmail'
  BY <1>2 DEF IInv, LiveSessionsUseCurrentPassword, ResetLinksFollowEmail
<1> QED
  BY <1>4, <1>5, <1>6, <1>7 DEF Rest

(* The helpers of the steps that write rows.                               *)
LEMMA RevokedForClears ==
  ASSUME TypeOK, NEW purpose, NEW l \in Links, RevokedFor(purpose)[l].status \in Unrevoked
  PROVE  RevokedFor(purpose)[l] = links[l] /\ links[l].purpose # purpose
<1>1. CASE links[l].status \in Unrevoked /\ links[l].purpose = purpose
  <2>1. links[l] \in LinkRow
    BY <1>1, LinkCases DEF TypeOK
  <2>2. RevokedFor(purpose)[l].status = "revoked"
    BY <1>1, <2>1 DEF RevokedFor, LinkRow
  <2> QED
    BY <2>2
<1>2. CASE ~(links[l].status \in Unrevoked /\ links[l].purpose = purpose)
  BY <1>2 DEF RevokedFor
<1> QED
  BY <1>1, <1>2

LEMMA AllRevokedKeeps ==
  ASSUME TypeOK, NEW s \in Sessions
  PROVE  /\ AllRevoked[s].status \notin Unrevoked
         /\ sessions[s] # NoRow => AllRevoked[s] # NoRow /\ AllRevoked[s].gen = sessions[s].gen
<1>1. CASE sessions[s].status \in Unrevoked
  <2>1. sessions[s] \in SessionRow
    BY <1>1, SessionCases DEF TypeOK
  <2> QED
    BY <1>1, <2>1 DEF AllRevoked, SessionRow
<1>2. CASE sessions[s].status \notin Unrevoked
  BY <1>2 DEF AllRevoked
<1> QED
  BY <1>1, <1>2


LEMMA LoginCheckStep ==
  ASSUME IInv, NEW r \in Requests, LoginCheck(r)
  PROVE  Rest'
<1>1. LockInv'
  BY DEF IInv, TypeOK, LockInv, LoginCheck, ShareFree
<1>2. HeldInv'
  BY DEF IInv, TypeOK, HeldInv, LoginCheck, ShareFree
<1>3. RotatedInv'
  BY DEF IInv, TypeOK, RotatedInv, LoginCheck
<1>4. OneRefreshWins'
  BY DEF IInv, TypeOK, OneRefreshWins, LoginCheck
<1>5. LiveSessionsUseCurrentPassword'
  BY DEF IInv, TypeOK, LiveSessionsUseCurrentPassword, LoginCheck
<1>6. ResetLinksFollowEmail'
  BY DEF IInv, TypeOK, ResetLinksFollowEmail, LoginCheck
<1> QED
  BY <1>1, <1>2, <1>3, <1>4, <1>5, <1>6 DEF Rest

LEMMA LoginInsertStep ==
  ASSUME IInv, NEW r \in Requests, LoginInsert(r)
  PROVE  Rest'
<1>1. LockInv'
  BY DEF IInv, TypeOK, LockInv, LoginInsert
<1>2. HeldInv'
  BY DEF IInv, TypeOK, HeldInv, LoginInsert
<1>3. RotatedInv'
  BY DEF IInv, TypeOK, RotatedInv, LoginInsert
<1>4. OneRefreshWins'
  BY DEF IInv, TypeOK, OneRefreshWins, LoginInsert
<1>5. LiveSessionsUseCurrentPassword'
  BY DEF IInv, TypeOK, HeldInv, LiveSessionsUseCurrentPassword, LoginInsert
<1>6. ResetLinksFollowEmail'
  BY DEF IInv, TypeOK, ResetLinksFollowEmail, LoginInsert
<1> QED
  BY <1>1, <1>2, <1>3, <1>4, <1>5, <1>6 DEF Rest

LEMMA RotateStep ==
  ASSUME IInv, NEW r \in Requests, Rotate(r)
  PROVE  Rest'
<1>1. LockInv'
  BY DEF IInv, TypeOK, LockInv, Rotate
<1>2. HeldInv'
  BY DEF IInv, TypeOK, HeldInv, Rotate
<1>3. RotatedInv'
  <2>1. req[r].cred \in Creds /\ req[r].cred.gen \in Int /\ req[r].cred.session \in Sessions
    BY RequestCases DEF IInv, TypeOK, Rotate, Creds, Gens
  <2>2. sessions[req[r].cred.session] \in SessionRow
    BY <2>1, SessionCases DEF IInv, TypeOK, Rotate, Swaps
  <2>3. sessions[req[r].cred.session].gen \in Int
    BY <2>2 DEF SessionRow, Gens
  <2>4. \A q \in Requests : q # r /\ At(q, "rotated") =>
          req[q].cred.gen \in Int /\ req[q].cred.session \in Sessions
    BY RequestCases DEF IInv, TypeOK, Creds, Gens
  <2> QED
    BY <2>1, <2>2, <2>3, <2>4 DEF IInv, TypeOK, RotatedInv, Rotate, Swaps
<1>4. OneRefreshWins'
  <2>1. \A q \in Requests : q # r /\ At(q, "rotated") => req[q].cred # req[r].cred
    <3> SUFFICES ASSUME NEW q \in Requests, At(q, "rotated"), req[q].cred = req[r].cred
                 PROVE  FALSE
      OBVIOUS
    <3>1. req[r].cred.gen \in Int
      BY RequestCases DEF IInv, TypeOK, Rotate, Creds, Gens
    <3>2. req[r].cred.gen < req[r].cred.gen
      BY DEF IInv, RotatedInv, Rotate, Swaps
    <3> QED
      BY <3>1, <3>2
  <2> QED
    BY <2>1 DEF IInv, TypeOK, OneRefreshWins, Rotate
<1>5. LiveSessionsUseCurrentPassword'
  <2>1. req[r].cred.session \in Sessions
    BY RequestCases DEF IInv, TypeOK, Rotate, Creds
  <2>2. sessions[req[r].cred.session] \in SessionRow
    BY <2>1, SessionCases DEF IInv, TypeOK, Rotate, Swaps
  <2>3. \A s \in Sessions : sessions'[s].pw = sessions[s].pw
    BY <2>1, <2>2 DEF IInv, TypeOK, Rotate, SessionRow
  <2> QED
    BY <2>1, <2>3 DEF IInv, TypeOK, LiveSessionsUseCurrentPassword, Rotate, Swaps
<1>6. ResetLinksFollowEmail'
  BY DEF IInv, TypeOK, ResetLinksFollowEmail, Rotate
<1> QED
  BY <1>1, <1>2, <1>3, <1>4, <1>5, <1>6 DEF Rest

LEMMA LogoutStep ==
  ASSUME IInv, NEW r \in Requests, Logout(r)
  PROVE  Rest'
<1>1. LockInv'
  BY DEF IInv, TypeOK, LockInv, Logout
<1>2. HeldInv'
  BY DEF IInv, TypeOK, HeldInv, Logout
<1>3. RotatedInv'
  BY DEF IInv, TypeOK, RotatedInv, Logout
<1>4. OneRefreshWins'
  BY DEF IInv, TypeOK, OneRefreshWins, Logout
<1>5. LiveSessionsUseCurrentPassword'
  BY DEF IInv, TypeOK, LiveSessionsUseCurrentPassword, Logout
<1>6. ResetLinksFollowEmail'
  BY DEF IInv, TypeOK, ResetLinksFollowEmail, Logout
<1> QED
  BY <1>1, <1>2, <1>3, <1>4, <1>5, <1>6 DEF Rest

LEMMA ChangeUpdateStep ==
  ASSUME IInv, NEW r \in Requests, ChangeUpdate(r)
  PROVE  Rest'
<1>1. LockInv'
  BY DEF IInv, TypeOK, LockInv, ChangeUpdate, ExclusiveFree
<1>2. HeldInv'
  BY DEF IInv, TypeOK, HeldInv, ChangeUpdate, ExclusiveFree
<1>3. RotatedInv'
  BY DEF IInv, TypeOK, RotatedInv, ChangeUpdate
<1>4. OneRefreshWins'
  BY DEF IInv, TypeOK, OneRefreshWins, ChangeUpdate
<1>5. LiveSessionsUseCurrentPassword'
  BY DEF IInv, TypeOK, LiveSessionsUseCurrentPassword, ChangeUpdate
<1>6. ResetLinksFollowEmail'
  BY DEF IInv, TypeOK, ResetLinksFollowEmail, ChangeUpdate
<1> QED
  BY <1>1, <1>2, <1>3, <1>4, <1>5, <1>6 DEF Rest

LEMMA ResetLockStep ==
  ASSUME IInv, NEW r \in Requests, ResetLock(r)
  PROVE  Rest'
<1>1. LockInv'
  BY DEF IInv, TypeOK, LockInv, ResetLock, ExclusiveFree
<1>2. HeldInv'
  BY DEF IInv, TypeOK, HeldInv, ResetLock, ExclusiveFree, Redeemable
<1>3. RotatedInv'
  BY DEF IInv, TypeOK, RotatedInv, ResetLock
<1>4. OneRefreshWins'
  BY DEF IInv, TypeOK, OneRefreshWins, ResetLock
<1>5. LiveSessionsUseCurrentPassword'
  BY DEF IInv, TypeOK, LiveSessionsUseCurrentPassword, ResetLock
<1>6. ResetLinksFollowEmail'
  BY DEF IInv, TypeOK, ResetLinksFollowEmail, ResetLock
<1> QED
  BY <1>1, <1>2, <1>3, <1>4, <1>5, <1>6 DEF Rest

LEMMA ReplaceStep ==
  ASSUME IInv, NEW r \in Requests, Replace(r)
  PROVE  Rest'
<1>1. LockInv'
  BY DEF IInv, TypeOK, LockInv, Replace
<1>2. HeldInv'
  BY DEF IInv, TypeOK, LockInv, HeldInv, Replace
<1>3. RotatedInv'
  <2>1. \A q \in Requests : At(q, "rotated") => req[q].cred.session \in Sessions
    BY RequestCases DEF IInv, TypeOK, Creds
  <2> QED
    BY <2>1, AllRevokedKeeps DEF IInv, TypeOK, RotatedInv, Replace
<1>4. OneRefreshWins'
  BY DEF IInv, TypeOK, OneRefreshWins, Replace
<1>5. LiveSessionsUseCurrentPassword'
  BY AllRevokedKeeps DEF IInv, LiveSessionsUseCurrentPassword, Replace
<1>6. ResetLinksFollowEmail'
  BY DEF IInv, TypeOK, ResetLinksFollowEmail, Replace
<1> QED
  BY <1>1, <1>2, <1>3, <1>4, <1>5, <1>6 DEF Rest

LEMMA ForgotStep ==
  ASSUME IInv, NEW r \in Requests, Forgot(r)
  PROVE  Rest'
<1>1. LockInv'
  BY DEF IInv, TypeOK, LockInv, Forgot, ExclusiveFree
<1>2. HeldInv'
  BY DEF IInv, TypeOK, HeldInv, Forgot, ExclusiveFree
<1>3. RotatedInv'
  BY DEF IInv, TypeOK, RotatedInv, Forgot
<1>4. OneRefreshWins'
  BY DEF IInv, TypeOK, OneRefreshWins, Forgot
<1>5. LiveSessionsUseCurrentPassword'
  BY DEF IInv, TypeOK, LiveSessionsUseCurrentPassword, Forgot
<1>6. ResetLinksFollowEmail'
  BY DEF IInv, TypeOK, ResetLinksFollowEmail, Forgot
<1> QED
  BY <1>1, <1>2, <1>3, <1>4, <1>5, <1>6 DEF Rest

LEMMA ForgotIssueStep ==
  ASSUME IInv, NEW r \in Requests, ForgotIssue(r)
  PROVE  Rest'
<1>1. LockInv'
  BY DEF IInv, TypeOK, LockInv, ForgotIssue
<1>2. HeldInv'
  BY DEF IInv, TypeOK, LockInv, HeldInv, ForgotIssue
<1>3. RotatedInv'
  BY DEF IInv, TypeOK, RotatedInv, ForgotIssue
<1>4. OneRefreshWins'
  BY DEF IInv, TypeOK, OneRefreshWins, ForgotIssue
<1>5. LiveSessionsUseCurrentPassword'
  BY DEF IInv, TypeOK, LiveSessionsUseCurrentPassword, ForgotIssue
<1>6. ResetLinksFollowEmail'
  <2>1. PICK k \in Links : links' = [RevokedFor("reset") EXCEPT
          ![k] = [status |-> "live", purpose |-> "reset", to |-> req[r].to]]
    BY DEF ForgotIssue, Issue
  <2>2. \A l \in Links : l # k => links'[l] = RevokedFor("reset")[l]
    BY <2>1, RevokedForTyped DEF IInv
  <2>3. links'[k].to = req[r].to
    BY <2>1, RevokedForTyped DEF IInv
  <2>4. req[r].to = email.verified /\ email' = email
    BY DEF IInv, HeldInv, ForgotIssue
  <2>5. \A l \in Links : l # k /\ links'[l].status \in Unrevoked => links'[l].purpose # "reset"
    BY <2>2, RevokedForClears DEF IInv
  <2> QED
    BY <2>3, <2>4, <2>5 DEF ResetLinksFollowEmail
<1> QED
  BY <1>1, <1>2, <1>3, <1>4, <1>5, <1>6 DEF Rest

LEMMA ProposeEmailStep ==
  ASSUME IInv, NEW e \in Emails, ProposeEmail(e)
  PROVE  Rest'
<1>1. LockInv'
  BY DEF IInv, TypeOK, LockInv, ProposeEmail, ExclusiveFree
<1>2. HeldInv'
  BY DEF IInv, TypeOK, HeldInv, ProposeEmail, ExclusiveFree
<1>3. RotatedInv'
  BY DEF IInv, TypeOK, RotatedInv, ProposeEmail
<1>4. OneRefreshWins'
  BY DEF IInv, TypeOK, OneRefreshWins, ProposeEmail
<1>5. LiveSessionsUseCurrentPassword'
  BY DEF IInv, TypeOK, LiveSessionsUseCurrentPassword, ProposeEmail
<1>6. ResetLinksFollowEmail'
  <2>1. PICK k \in Links : links' = [RevokedFor("verify") EXCEPT
          ![k] = [status |-> "live", purpose |-> "verify", to |-> e]]
    BY DEF ProposeEmail, Issue
  <2>2. links'[k].purpose = "verify"
    BY <2>1, RevokedForTyped DEF IInv
  <2>3. \A l \in Links : l # k /\ links'[l].status \in Unrevoked => links'[l] = links[l]
    BY <2>1, RevokedForTyped, RevokedForClears DEF IInv
  <2>4. email'.verified = email.verified
    BY DEF IInv, TypeOK, ProposeEmail
  <2> QED
    BY <2>2, <2>3, <2>4 DEF IInv, ResetLinksFollowEmail
<1> QED
  BY <1>1, <1>2, <1>3, <1>4, <1>5, <1>6 DEF Rest

LEMMA VerifyEmailStep ==
  ASSUME IInv, NEW l \in Links, VerifyEmail(l)
  PROVE  Rest'
<1>1. LockInv'
  BY DEF IInv, TypeOK, LockInv, VerifyEmail, ExclusiveFree
<1>2. HeldInv'
  BY DEF IInv, TypeOK, HeldInv, VerifyEmail, ExclusiveFree
<1>3. RotatedInv'
  BY DEF IInv, TypeOK, RotatedInv, VerifyEmail
<1>4. OneRefreshWins'
  BY DEF IInv, TypeOK, OneRefreshWins, VerifyEmail
<1>5. LiveSessionsUseCurrentPassword'
  BY DEF IInv, TypeOK, LiveSessionsUseCurrentPassword, VerifyEmail
<1>6. ResetLinksFollowEmail'
  <2>1. links'[l].status = "consumed"
    <3>1. links[l] \in LinkRow
      BY LinkCases DEF IInv, TypeOK, VerifyEmail, Redeemable
    <3>2. RevokedFor("reset")[l] = links[l]
      BY DEF VerifyEmail, Redeemable, RevokedFor
    <3> QED
      BY <3>1, <3>2, RevokedForTyped DEF IInv, VerifyEmail, LinkRow
  <2>2. \A k \in Links : k # l /\ links'[k].status \in Unrevoked => links'[k].purpose # "reset"
    BY RevokedForTyped, RevokedForClears DEF IInv, VerifyEmail
  <2> QED
    BY <2>1, <2>2 DEF ResetLinksFollowEmail
<1> QED
  BY <1>1, <1>2, <1>3, <1>4, <1>5, <1>6 DEF Rest

LEMMA DeliveryFailsStep ==
  ASSUME IInv, NEW l \in Links, DeliveryFails(l)
  PROVE  Rest'
<1>1. LockInv'
  BY DEF IInv, TypeOK, LockInv, DeliveryFails
<1>2. HeldInv'
  BY DEF IInv, TypeOK, HeldInv, DeliveryFails
<1>3. RotatedInv'
  BY DEF IInv, TypeOK, RotatedInv, DeliveryFails
<1>4. OneRefreshWins'
  BY DEF IInv, TypeOK, OneRefreshWins, DeliveryFails
<1>5. LiveSessionsUseCurrentPassword'
  BY DEF IInv, TypeOK, LiveSessionsUseCurrentPassword, DeliveryFails
<1>6. ResetLinksFollowEmail'
  BY DEF IInv, TypeOK, ResetLinksFollowEmail, DeliveryFails
<1> QED
  BY <1>1, <1>2, <1>3, <1>4, <1>5, <1>6 DEF Rest

LEMMA ExpireLinkStep ==
  ASSUME IInv, NEW l \in Links, ExpireLink(l)
  PROVE  Rest'
<1>1. LockInv'
  BY DEF IInv, TypeOK, LockInv, ExpireLink
<1>2. HeldInv'
  BY DEF IInv, TypeOK, HeldInv, ExpireLink
<1>3. RotatedInv'
  BY DEF IInv, TypeOK, RotatedInv, ExpireLink
<1>4. OneRefreshWins'
  BY DEF IInv, TypeOK, OneRefreshWins, ExpireLink
<1>5. LiveSessionsUseCurrentPassword'
  BY DEF IInv, TypeOK, LiveSessionsUseCurrentPassword, ExpireLink
<1>6. ResetLinksFollowEmail'
  BY DEF IInv, TypeOK, ResetLinksFollowEmail, ExpireLink
<1> QED
  BY <1>1, <1>2, <1>3, <1>4, <1>5, <1>6 DEF Rest

LEMMA ExpireSessionStep ==
  ASSUME IInv, NEW s \in Sessions, ExpireSession(s)
  PROVE  Rest'
<1>1. LockInv'
  BY DEF IInv, TypeOK, LockInv, ExpireSession
<1>2. HeldInv'
  BY DEF IInv, TypeOK, HeldInv, ExpireSession
<1>3. RotatedInv'
  BY DEF IInv, TypeOK, RotatedInv, ExpireSession
<1>4. OneRefreshWins'
  BY DEF IInv, TypeOK, OneRefreshWins, ExpireSession
<1>5. LiveSessionsUseCurrentPassword'
  BY DEF IInv, TypeOK, LiveSessionsUseCurrentPassword, ExpireSession
<1>6. ResetLinksFollowEmail'
  BY DEF IInv, TypeOK, ResetLinksFollowEmail, ExpireSession
<1> QED
  BY <1>1, <1>2, <1>3, <1>4, <1>5, <1>6 DEF Rest

LEMMA InvStep == IInv /\ [Next]_vars => IInv'
<1> SUFFICES ASSUME IInv, [Next]_vars PROVE IInv'
  OBVIOUS
<1>0. TypeOK'
  BY TypeStep DEF IInv
<1>1. ASSUME NEW r \in Requests, Quiet(r) PROVE Rest'
  BY <1>1, QuietStep
<1>2. ASSUME NEW r \in Requests, LoginCheck(r) PROVE Rest'
  BY <1>2, LoginCheckStep
<1>3. ASSUME NEW r \in Requests, LoginInsert(r) PROVE Rest'
  BY <1>3, LoginInsertStep
<1>4. ASSUME NEW r \in Requests, Rotate(r) PROVE Rest'
  BY <1>4, RotateStep
<1>5. ASSUME NEW r \in Requests, Logout(r) PROVE Rest'
  BY <1>5, LogoutStep
<1>6. ASSUME NEW r \in Requests, ChangeUpdate(r) PROVE Rest'
  BY <1>6, ChangeUpdateStep
<1>7. ASSUME NEW r \in Requests, ResetLock(r) PROVE Rest'
  BY <1>7, ResetLockStep
<1>8. ASSUME NEW r \in Requests, Replace(r) PROVE Rest'
  BY <1>8, ReplaceStep
<1>9. ASSUME NEW r \in Requests, Forgot(r) PROVE Rest'
  BY <1>9, ForgotStep
<1>10. ASSUME NEW r \in Requests, ForgotIssue(r) PROVE Rest'
  BY <1>10, ForgotIssueStep
<1>11. ASSUME NEW e \in Emails, ProposeEmail(e) PROVE Rest'
  BY <1>11, ProposeEmailStep
<1>12. ASSUME NEW l \in Links, VerifyEmail(l) PROVE Rest'
  BY <1>12, VerifyEmailStep
<1>13. ASSUME NEW l \in Links, DeliveryFails(l) PROVE Rest'
  BY <1>13, DeliveryFailsStep
<1>14. ASSUME NEW l \in Links, ExpireLink(l) PROVE Rest'
  BY <1>14, ExpireLinkStep
<1>15. ASSUME NEW s \in Sessions, ExpireSession(s) PROVE Rest'
  BY <1>15, ExpireSessionStep
<1>16. ASSUME NEW s \in Sessions, EmitToBranch(s) PROVE Rest'
  BY <1>16 DEF EmitToBranch, IInv, Rest, LockInv, HeldInv, RotatedInv, OneRefreshWins,
              LiveSessionsUseCurrentPassword, ResetLinksFollowEmail
<1>17. ASSUME Restart PROVE Rest'
  BY <1>17 DEF Restart, IInv, Rest, LockInv, HeldInv, RotatedInv, OneRefreshWins,
              LiveSessionsUseCurrentPassword, ResetLinksFollowEmail
<1>18. ASSUME UNCHANGED vars PROVE Rest'
  BY <1>18 DEF vars, IInv, Rest, LockInv, HeldInv, RotatedInv, OneRefreshWins,
              LiveSessionsUseCurrentPassword, ResetLinksFollowEmail
<1>19. Rest'
  BY <1>1, <1>2, <1>3, <1>4, <1>5, <1>6, <1>7, <1>8, <1>9,
     <1>10, <1>11, <1>12, <1>13, <1>14, <1>15, <1>16, <1>17, <1>18 DEF Next, Quiet
<1> QED
  BY <1>0, <1>19 DEF IInv, Rest

-----------------------------------------------------------------------------
(* The rows and requests of an account keep their types.                   *)
THEOREM TypeCorrect == Spec => []TypeOK
<1>1. IInv => TypeOK
  BY DEF IInv
<1> QED
  BY <1>1, InitInv, InvStep, PTL DEF Spec

THEOREM Invariance == Spec => []IInv
BY InitInv, InvStep, PTL DEF Spec

(* No sign-in, refresh or sign-out, however it overlaps with a password    *)
(* change or a recovery, leaves a usable session of an older password.     *)
THEOREM CurrentPassword == Spec => []LiveSessionsUseCurrentPassword
<1>1. IInv => LiveSessionsUseCurrentPassword
  BY DEF IInv
<1> QED
  BY <1>1, Invariance, PTL

(* Any number of concurrent refreshes of one credential have one winner.   *)
THEOREM RefreshWinner == Spec => []OneRefreshWins
<1>1. IInv => OneRefreshWins
  BY DEF IInv
<1> QED
  BY <1>1, Invariance, PTL

(* A redeemable reset link was mailed to the address verified now.         *)
THEOREM LinksFollowEmail == Spec => []ResetLinksFollowEmail
<1>1. IInv => ResetLinksFollowEmail
  BY DEF IInv
<1> QED
  BY <1>1, Invariance, PTL

-----------------------------------------------------------------------------
(* Which steps write the password, and which write a revoked session.      *)

LEMMA OnlyReplaceWritesPw ==
  ASSUME [Next]_vars, pw' # pw
  PROVE  \E r \in Requests : Replace(r)
BY DEF Next, vars, LoginVerify, LoginCheck, LoginInsert, RefreshValidate, RotateValidate,
       Rotate, Respond, Logout, Disconnect, ChangeVerify, ChangeUpdate, ResetInspect,
       ResetLock, Forgot, ForgotIssue, Connect, Join, Abort, ProposeEmail, VerifyEmail,
       DeliveryFails, ExpireLink, EmitToBranch, ExpireSession, Restart

(* The request that writes the password is the only one at that point.     *)
LEMMA OneWriter ==
  ASSUME IInv, NEW q \in Requests, Replace(q), NEW r \in Requests, At(r, "replace")
  PROVE  r = q
BY DEF IInv, LockInv, Replace

(* A password change never overwrites a hash written since it verified.    *)
THEOREM ChangeOverItsOwn == Spec => ChangeNeverOverwrites
<1> DEFINE Never == \A r \in Requests : At(r, "replace") /\ pw' # pw => req[r].from = pw
<1>1. IInv => Never
  BY DEF IInv, HeldInv
<1>2. IInv /\ [Next]_vars => [Never]_vars
  BY <1>1
<1> QED
  BY <1>2, Invariance, PTL DEF Spec, ChangeNeverOverwrites

(* A reset link is redeemable when it replaces the password, and consumed  *)
(* by the step that does.                                                  *)
THEOREM LinkOnce == Spec => LinkRedeemedOnce
<1> DEFINE Once == \A r \in Requests :
       /\ At(r, "replace") /\ req[r].link # NoLink /\ pw' # pw
       => /\ links[req[r].link].status \in Unrevoked
          /\ links'[req[r].link].status = "consumed"
<1>1. ASSUME IInv, [Next]_vars PROVE Once
  <2> SUFFICES ASSUME NEW r \in Requests, At(r, "replace"), req[r].link # NoLink, pw' # pw
               PROVE  /\ links[req[r].link].status \in Unrevoked
                      /\ links'[req[r].link].status = "consumed"
    OBVIOUS
  <2>1. links[req[r].link].status \in Unrevoked
    BY <1>1 DEF IInv, HeldInv
  <2>2. Replace(r)
    BY <1>1, OnlyReplaceWritesPw, OneWriter
  <2>3. req[r].link \in Links /\ links[req[r].link] \in LinkRow
    BY <1>1, <2>1, RequestCases, LinkCases DEF IInv, TypeOK
  <2> QED
    BY <2>1, <2>2, <2>3 DEF Replace, LinkRow
<1>2. IInv /\ [Next]_vars => [Once]_vars
  BY <1>1
<1> QED
  BY <1>2, Invariance, PTL DEF Spec, LinkRedeemedOnce

(* No refresh, sign-out or passing of time brings a revoked session back.  *)
THEOREM Revocation == Spec => RevokedForGood
<1> DEFINE Good == \A s \in Sessions :
                     sessions[s].status = "revoked" => sessions'[s].status = "revoked"
<1>1. ASSUME IInv, [Next]_vars PROVE Good
  <2> SUFFICES ASSUME NEW s \in Sessions, sessions[s].status = "revoked"
               PROVE  sessions'[s].status = "revoked"
    OBVIOUS
  <2>1. CASE UNCHANGED sessions
    BY <2>1
  <2>2. ASSUME NEW r \in Requests, LoginInsert(r) PROVE sessions'[s].status = "revoked"
    BY <1>1, <2>2 DEF LoginInsert, IInv, TypeOK
  <2>3. ASSUME NEW r \in Requests, Rotate(r) PROVE sessions'[s].status = "revoked"
    BY <1>1, <2>3 DEF Rotate, Swaps, IInv, TypeOK
  <2>4. ASSUME NEW r \in Requests, Logout(r) PROVE sessions'[s].status = "revoked"
    BY <1>1, <2>4 DEF Logout, Swaps, IInv, TypeOK
  <2>5. ASSUME NEW r \in Requests, Replace(r) PROVE sessions'[s].status = "revoked"
    BY <2>5 DEF Replace, AllRevoked
  <2>6. ASSUME NEW u \in Sessions, ExpireSession(u) PROVE sessions'[s].status = "revoked"
    BY <1>1, <2>6 DEF ExpireSession, IInv, TypeOK
  <2> QED
    BY <1>1, <2>1, <2>2, <2>3, <2>4, <2>5, <2>6
    DEF Next, vars, LoginVerify, LoginCheck, RefreshValidate, RotateValidate,
        Respond, Disconnect, ChangeVerify, ChangeUpdate, ResetInspect,
        ResetLock, Forgot, ForgotIssue, Connect, Join, Abort, ProposeEmail, VerifyEmail,
        DeliveryFails, ExpireLink, EmitToBranch, Restart
<1>2. IInv /\ [Next]_vars => [Good]_vars
  BY <1>1
<1> QED
  BY <1>2, Invariance, PTL DEF Spec, RevokedForGood

-----------------------------------------------------------------------------
(* What the calendars of leave and shifts promise, for any number of       *)
(* people, branches, requests and shifts.  Leave and shifts are written by *)
(* different commands and compared by both: approval looks at the shifts,  *)
(* whatever touches a shift looks at the leave.                            *)

HrRows ==
  /\ day \in CalendarDays /\ offered \subseteq Templates
  /\ leaves \in [Leaves -> LeaveRow \cup {NoLeave}] /\ shifts \in [Shifts -> ShiftRow \cup {NoShift}]

(* No day of approved leave has hours of a published shift.                 *)
DaysApart ==
  \A x \in Shifts, l \in Leaves :
    shifts[x].status = "published" /\ leaves[l].status = "approved" /\ shifts[x].member = leaves[l].member
      => LeaveDays(leaves[l]) \cap ShiftDays(shifts[x]) = {}

HrInv == HrRows /\ ShiftsDisjoint(shifts) /\ DaysApart

LEMMA HrBegins == HrInit => HrInv
<1> SUFFICES ASSUME HrInit PROVE HrInv
  OBVIOUS
<1>1. HrRows
  BY HrAssumption DEF HrInit, HrRows, CalendarDays
<1>2. ShiftsDisjoint(shifts) /\ DaysApart
  BY DEF HrInit, ShiftsDisjoint, LiveShift, NoShift, DaysApart
<1> QED
  BY <1>1, <1>2 DEF HrInv

(* A command on one request: if it approves, the member is not on duty.     *)
LEMMA LeaveKeeps ==
  ASSUME HrInv, NEW l \in Leaves, NEW row \in LeaveRow, SetLeave(l, row),
         row.status = "approved" => ~OnDuty(row)
  PROVE  HrInv'
<1> USE DEF HrInv
<1>1. leaves' = [leaves EXCEPT ![l] = row] /\ UNCHANGED <<day, offered, shifts>>
  BY DEF SetLeave
<1>2. HrRows'
  BY <1>1 DEF HrRows
<1>3. ShiftsDisjoint(shifts)'
  BY <1>1
<1>4. DaysApart'
  <2> SUFFICES ASSUME NEW x \in Shifts, NEW k \in Leaves, shifts[x].status = "published",
                      leaves'[k].status = "approved", shifts[x].member = leaves'[k].member
               PROVE  LeaveDays(leaves'[k]) \cap ShiftDays(shifts[x]) = {}
    BY <1>1 DEF DaysApart
  <2>1. CASE k = l
    BY <1>1, <2>1 DEF HrRows, OnDuty
  <2>2. CASE k # l
    <3>1. leaves'[k] = leaves[k]
      BY <1>1, <2>2 DEF HrRows
    <3> QED
      BY <3>1 DEF DaysApart
  <2> QED
    BY <2>1, <2>2
<1> QED
  BY <1>2, <1>3, <1>4

(* A command on shifts: a published one that is new stands.                 *)
LEMMA ShiftsKeep ==
  ASSUME HrInv, NEW new \in [Shifts -> ShiftRow \cup {NoShift}], SetShifts(new),
         \A x \in Shifts : new[x].status = "published" => new[x] = shifts[x] \/ ~OnLeave(new[x])
  PROVE  HrInv'
<1> USE DEF HrInv
<1>1. shifts' = new /\ ShiftsDisjoint(new) /\ UNCHANGED <<day, offered, leaves>>
  BY DEF SetShifts
<1>2. HrRows' /\ ShiftsDisjoint(shifts)'
  BY <1>1 DEF HrRows
<1>3. DaysApart'
  <2> SUFFICES ASSUME NEW x \in Shifts, NEW l \in Leaves, new[x].status = "published",
                      leaves[l].status = "approved", new[x].member = leaves[l].member
               PROVE  LeaveDays(leaves[l]) \cap ShiftDays(new[x]) = {}
    BY <1>1 DEF DaysApart
  <2>1. CASE new[x] = shifts[x]
    BY <2>1 DEF DaysApart
  <2>2. CASE ~OnLeave(new[x])
    BY <2>2 DEF OnLeave
  <2> QED
    BY <2>1, <2>2
<1> QED
  BY <1>2, <1>3

-----------------------------------------------------------------------------
(* Every command.                                                           *)
LEMMA LeaveCommandsKeep ==
  ASSUME HrInv, NEW who \in People, NEW b \in Branches, NEW l \in Leaves
  PROVE  /\ \A range \in Ranges : SubmitLeave(who, b, l, range) => HrInv'
         /\ CancelOwnLeave(who, b, l) => HrInv'
         /\ \A status \in {"approved", "rejected", "cancelled"} : ReviewLeave(who, b, l, status) => HrInv'
<1>1. ASSUME NEW range \in Ranges, SubmitLeave(who, b, l, range) PROVE HrInv'
  <2> DEFINE row == [status |-> "pending", member |-> who, range |-> range]
  <2>1. row \in LeaveRow /\ row.status # "approved"
    BY DEF LeaveRow
  <2> QED
    BY <1>1, <2>1, LeaveKeeps DEF SubmitLeave
<1>2. ASSUME CancelOwnLeave(who, b, l) PROVE HrInv'
  <2> DEFINE row == [leaves[l] EXCEPT !.status = "cancelled"]
  <2>1. leaves[l] \in LeaveRow
    BY <1>2 DEF CancelOwnLeave, HrInv, HrRows, NoLeave
  <2>2. row \in LeaveRow /\ row.status # "approved"
    BY <2>1 DEF LeaveRow
  <2> QED
    BY <1>2, <2>2, LeaveKeeps DEF CancelOwnLeave
<1>3. ASSUME NEW status \in {"approved", "rejected", "cancelled"}, ReviewLeave(who, b, l, status) PROVE HrInv'
  <2> DEFINE row == [leaves[l] EXCEPT !.status = status]
  <2>1. leaves[l] \in LeaveRow
    BY <1>3 DEF ReviewLeave, HrInv, HrRows, NoLeave
  <2>2. row \in LeaveRow /\ row.status = status /\ row.member = leaves[l].member /\ row.range = leaves[l].range
    BY <2>1 DEF LeaveRow
  <2>3. row.status = "approved" => ~OnDuty(row)
    BY <1>3, <2>2 DEF ReviewLeave, OnDuty, LeaveDays
  <2> QED
    BY <1>3, <2>2, <2>3, LeaveKeeps DEF ReviewLeave
<1> QED
  BY <1>1, <1>2, <1>3

LEMMA GenerationKeeps ==
  ASSUME HrInv, NEW who \in People, NEW b \in Branches, NEW rows \in DayRows, NEW member \in People,
         NEW template \in Templates, GenerateShifts(who, b, rows, member, template)
  PROVE  HrInv'
<1> DEFINE Draft(x) == [status |-> "draft", member |-> member, branch |-> b, on |-> rows[x], template |-> template]
           new == [x \in Shifts |-> IF x \in DOMAIN rows THEN Draft(x) ELSE shifts[x]]
<1>1. \A x \in DOMAIN rows : rows[x] \in CalendarDays
  BY DEF DayRows
<1>2. \A x \in DOMAIN rows : Draft(x) \in ShiftRow /\ Draft(x).status # "published"
  BY <1>1 DEF ShiftRow
<1> HIDE DEF Draft
<1>3. new \in [Shifts -> ShiftRow \cup {NoShift}]
  BY <1>2 DEF HrInv, HrRows
<1>4. \A x \in Shifts : new[x].status = "published" => new[x] = shifts[x]
  BY <1>2
<1>5. SetShifts(new)
  BY DEF GenerateShifts, Draft
<1> HIDE DEF new
<1> QED
  BY <1>3, <1>4, <1>5, ShiftsKeep

LEMMA ShiftCommandsKeep ==
  ASSUME HrInv, NEW who \in People, NEW x \in Shifts
  PROVE  /\ \A on \in CalendarDays, template \in Templates : EditShift(who, x, on, template) => HrInv'
         /\ PublishShift(who, x) => HrInv'
         /\ CancelShift(who, x) => HrInv'
<1>1. ASSUME NEW row \in ShiftRow, SetShifts([shifts EXCEPT ![x] = row]),
             row.status = "published" => ~OnLeave(row)
      PROVE  HrInv'
  <2>1. [shifts EXCEPT ![x] = row] \in [Shifts -> ShiftRow \cup {NoShift}]
    BY DEF HrInv, HrRows
  <2>2. \A y \in Shifts : [shifts EXCEPT ![x] = row][y] = IF y = x THEN row ELSE shifts[y]
    BY DEF HrInv, HrRows
  <2> QED
    BY <1>1, <2>1, <2>2, ShiftsKeep
<1>2. shifts[x].status \in {"draft", "published"} => shifts[x] \in ShiftRow
  BY DEF HrInv, HrRows, NoShift
<1>3. ASSUME NEW on \in CalendarDays, NEW template \in Templates, EditShift(who, x, on, template) PROVE HrInv'
  <2> DEFINE row == [shifts[x] EXCEPT !.on = on, !.template = template]
  <2>1. shifts[x].status = "draft"
    BY <1>3 DEF EditShift
  <2>2. row \in ShiftRow /\ row.status # "published"
    BY <1>2, <2>1 DEF ShiftRow
  <2> QED
    BY <1>1, <1>3, <2>2 DEF EditShift
<1>4. ASSUME PublishShift(who, x) PROVE HrInv'
  <2> DEFINE row == [shifts[x] EXCEPT !.status = "published"]
  <2>1. shifts[x] \in ShiftRow
    BY <1>2, <1>4 DEF PublishShift
  <2>2. row \in ShiftRow /\ row.member = shifts[x].member /\ row.on = shifts[x].on
          /\ row.template = shifts[x].template
    BY <2>1 DEF ShiftRow
  <2>3. ~OnLeave(row)
    BY <1>4, <2>2 DEF PublishShift, ShiftStands, OnLeave, ShiftDays, Hours
  <2>4. SetShifts([shifts EXCEPT ![x] = row])
    BY <1>4 DEF PublishShift
  <2> QED
    BY <1>1, <2>2, <2>3, <2>4
<1>5. ASSUME CancelShift(who, x) PROVE HrInv'
  <2> DEFINE row == [shifts[x] EXCEPT !.status = "cancelled"]
  <2>1. shifts[x] \in ShiftRow
    BY <1>2, <1>5 DEF CancelShift
  <2>2. row \in ShiftRow /\ row.status # "published"
    BY <2>1 DEF ShiftRow
  <2> QED
    BY <1>1, <1>5, <2>2 DEF CancelShift
<1> QED
  BY <1>3, <1>4, <1>5

LEMMA HrStep == HrInv /\ [HrNext]_hrVars => HrInv'
<1> SUFFICES ASSUME HrInv, [HrNext]_hrVars PROVE HrInv'
  OBVIOUS
<1>1. ASSUME UNCHANGED <<leaves, shifts>>, day' \in CalendarDays, offered' \subseteq Templates PROVE HrInv'
  BY <1>1 DEF HrInv, HrRows, DaysApart
<1>2. CASE (Administer /\ UNCHANGED <<day, offered, leaves, shifts>>) \/ UNCHANGED hrVars
  BY <1>1, <1>2 DEF hrVars, HrInv, HrRows
<1>3. CASE DayPasses
  BY <1>1, <1>3, HrAssumption DEF DayPasses, HrInv, HrRows, CalendarDays
<1>4. ASSUME NEW who \in People, NEW b \in Branches, NEW template \in Templates, SaveTemplate(who, b, template)
      PROVE  HrInv'
  BY <1>1, <1>4 DEF SaveTemplate, HrInv, HrRows
<1> QED
  BY <1>2, <1>3, <1>4, LeaveCommandsKeep, GenerationKeeps, ShiftCommandsKeep DEF HrNext

LEMMA HrAlways == HrSpec => []HrInv
<1> QED
  BY HrBegins, HrStep, PTL DEF HrSpec

-----------------------------------------------------------------------------
(* Nobody is on approved leave and on a published shift on one day, also   *)
(* when the shift began the evening before.                                *)
LEMMA HoursOfDays ==
  ASSUME HrInv, NEW x \in Shifts, NEW l \in Leaves,
         shifts[x].status = "published", leaves[l].status = "approved"
  PROVE  OnShift(x) \cap Away(l) = {}
<1>1. leaves[l] \in LeaveRow
  BY DEF HrInv, HrRows, NoLeave
<1>2. leaves[l].range[1] \in Int /\ leaves[l].range[2] \in Int
  BY <1>1 DEF LeaveRow, Ranges, CalendarDays
<1> SUFFICES ASSUME NEW h \in Hours(shifts[x]), NEW d \in LeaveDays(leaves[l]), h \in {2 * d, 2 * d + 1},
                    shifts[x].member = leaves[l].member
             PROVE  FALSE
  BY DEF OnShift, Away
<1>3. d \in Int
  BY <1>2 DEF LeaveDays
<1>4. h \div 2 = d
  BY <1>3
<1>5. d \in ShiftDays(shifts[x])
  BY <1>4 DEF ShiftDays
<1> QED
  BY <1>5 DEF HrInv, DaysApart

(* In whatever order leave is approved and shifts are published, edited or  *)
(* generated, nobody has both in one hour.                                  *)
THEOREM LeaveIsLeave == HrSpec => []CalendarsAgree
<1>1. HrInv => CalendarsAgree
  BY HoursOfDays DEF CalendarsAgree
<1> QED
  BY <1>1, HrAlways, PTL

(* Nobody has two shifts at one time, in whatever branches.                 *)
NoDoubleShift ==
  \A x, y \in {z \in Shifts : LiveShift(shifts[z])} : x = y \/ OnShift(x) \cap OnShift(y) = {}

THEOREM OneShiftAtATime == HrSpec => []NoDoubleShift
<1>1. HrInv => NoDoubleShift
  BY DEF HrInv, ShiftsDisjoint, Clash, OnShift, NoDoubleShift
<1> QED
  BY <1>1, HrAlways, PTL

-----------------------------------------------------------------------------
(* What Tasks promises, for all people, tasks and keys, and any number of   *)
(* versions.  A command and the event it adds are one step, and an event    *)
(* never changes: what is remembered of a command still describes what it   *)
(* did when the key is repeated.                                            *)

(* An event is what a command asked for.                                    *)
Describes(r) ==
  /\ r.task \in TaskIds /\ r.cmd \in TaskCmd /\ r.version \in DOMAIN tasks[r.task]
  /\ LET e == tasks[r.task][r.version]
         c == r.cmd
     IN  /\ e.by = r.actor /\ e.kind = c.kind
         /\ c.kind = "create" => r.version = 1 /\ e.assignee = c.assignee
         /\ c.kind # "create" => r.task = c.task /\ r.version = c.version + 1
         /\ c.kind = "update" => c.assignee = {} \/ c.assignee = {e.assignee}
         /\ c.kind = "status" => e.status = c.to

(* What may follow an event.                                                *)
Follows(old, e) == old.status # "cancelled" /\ (old.status = "completed" => e.kind = "reopen")

TasksInv ==
  /\ StaffTypeOK /\ tasks \in [TaskIds -> Seq(TaskEvent)] /\ DOMAIN remembered = Keys
  /\ \A t \in TaskIds :
       /\ Len(tasks[t]) <= MaxTaskVersion
       /\ \A i \in DOMAIN tasks[t] \ {1} : Follows(tasks[t][i - 1], tasks[t][i])
  /\ \A k \in Keys : remembered[k] = Unused \/ Describes(remembered[k])
  /\ reply = NoReply \/ Describes(reply)
  /\ CommandsExplainHistory

(* The commands, by their kind.                                             *)
LEMMA TaskCommands ==
  ASSUME NEW c \in TaskCmd
  PROVE  /\ c.kind \in {"create", "update", "status", "cancel", "reopen"}
         /\ c.kind = "create" => c.assignee \in People
         /\ c.kind # "create" => c.task \in TaskIds /\ c.version \in TaskVersions
         /\ c.kind = "update" => c.assignee = {} \/ \E x \in People : c.assignee = {x}
         /\ c.kind = "status" => c.to \in {"todo", "in_progress", "completed"}
<1>1. CASE c \in [kind : {"create"}, assignee : People]
  BY <1>1
<1>2. CASE c \in [kind : {"update"}, task : TaskIds, version : TaskVersions, assignee : Optional(People)]
  BY <1>2 DEF Optional
<1>3. CASE c \in [kind : {"status"}, task : TaskIds, version : TaskVersions, to : {"todo", "in_progress", "completed"}]
  BY <1>3
<1>4. CASE c \in [kind : {"cancel", "reopen"}, task : TaskIds, version : TaskVersions]
  BY <1>4
<1> QED
  BY <1>1, <1>2, <1>3, <1>4 DEF TaskCmd

(* What a command adds to a task is what it asked for, and may follow.      *)
LEMMA EventsOfCommands ==
  ASSUME NEW c \in TaskCmd, c.kind # "create", NEW row \in TaskEvent, NEW p \in People, NEW e \in Results(p, c, row)
  PROVE  /\ e \in TaskEvent /\ e.by = p /\ e.kind = c.kind /\ Follows(row, e)
         /\ c.kind = "update" => c.assignee = {} \/ c.assignee = {e.assignee}
         /\ c.kind = "status" => e.status = c.to
<1>1. CASE c.kind = "update"
  <2>1. Results(p, c, row) =
          {[row EXCEPT !.kind = "update", !.by = p, !.assignee = a] :
             a \in {x \in (IF c.assignee = {} THEN {row.assignee} ELSE c.assignee) :
                      row.status \in Open /\ (c.assignee = {} \/ UpdatesOwn(x))}}
    BY <1>1, Zenon DEF Results
  <2>2. PICK a : /\ e = [row EXCEPT !.kind = "update", !.by = p, !.assignee = a] /\ row.status \in Open
                 /\ a \in IF c.assignee = {} THEN {row.assignee} ELSE c.assignee
    BY <2>1
  <2>3. a \in People /\ (c.assignee = {} \/ c.assignee = {a})
    BY <1>1, <2>2, TaskCommands DEF TaskEvent
  <2> QED
    BY <1>1, <2>2, <2>3 DEF TaskEvent, Follows, Open
<1>2. CASE c.kind = "status"
  <2>1. Results(p, c, row) =
          {[row EXCEPT !.kind = "status", !.by = p, !.status = s] : s \in {x \in {c.to} : <<row.status, x>> \in Progress}}
    BY <1>2, Zenon DEF Results
  <2>2. e = [row EXCEPT !.kind = "status", !.by = p, !.status = c.to] /\ <<row.status, c.to>> \in Progress
    BY <2>1
  <2>3. row.status \in {"todo", "in_progress"} /\ c.to \in TaskStatuses
    BY <1>2, <2>2, TaskCommands DEF Progress, TaskStatuses, Open
  <2> QED
    BY <1>2, <2>2, <2>3 DEF TaskEvent, Follows
<1>3. CASE c.kind = "cancel"
  <2>1. Results(p, c, row) =
          {[row EXCEPT !.kind = "cancel", !.by = p, !.status = "cancelled"] : s \in {row.status} \cap Open}
    BY <1>3, Zenon DEF Results
  <2>2. e = [row EXCEPT !.kind = "cancel", !.by = p, !.status = "cancelled"] /\ row.status \in Open
    BY <2>1
  <2> QED
    BY <1>3, <2>2 DEF TaskEvent, Follows, Open, TaskStatuses
<1>4. CASE c.kind = "reopen"
  <2>1. Results(p, c, row) =
          {[row EXCEPT !.kind = "reopen", !.by = p, !.status = "todo"] : s \in {row.status} \cap {"completed"}}
    BY <1>4, Zenon DEF Results
  <2>2. e = [row EXCEPT !.kind = "reopen", !.by = p, !.status = "todo"] /\ row.status = "completed"
    BY <2>1
  <2> QED
    BY <1>4, <2>2 DEF TaskEvent, Follows, Open, TaskStatuses
<1> QED
  BY <1>1, <1>2, <1>3, <1>4, TaskCommands

(* What was said of an event remains true while events only come after it.  *)
LEMMA DescriptionsStay ==
  ASSUME \A s \in TaskIds : \A i \in DOMAIN tasks[s] : i \in DOMAIN tasks'[s] /\ tasks'[s][i] = tasks[s][i],
         NEW r, Describes(r)
  PROVE  Describes(r)'
  BY DEF Describes

LEMMA QuietlyKeeps ==
  ASSUME TasksInv, UNCHANGED <<tasks, remembered>>, StaffTypeOK',
         reply' = reply \/ \E r : Describes(r) /\ reply' = r
  PROVE  TasksInv'
<1>1. ASSUME NEW r, Describes(r) PROVE Describes(r)'
  BY <1>1, DescriptionsStay
<1>2. ASSUME NEW k \in Keys PROVE remembered'[k] = Unused \/ Describes(remembered[k])'
  <2>1. PICK r : r = remembered[k] /\ r = remembered'[k]
    OBVIOUS
  <2>2. r = Unused \/ Describes(r)'
    BY <1>1, <2>1 DEF TasksInv
  <2> QED
    BY <2>1, <2>2 DEF Describes
<1>3. reply' = NoReply \/ Describes(reply)'
  <2>1. PICK r : r = reply' /\ (r = NoReply \/ Describes(r))
    BY DEF TasksInv
  <2>2. r = NoReply \/ Describes(r)'
    BY <1>1, <2>1
  <2> QED
    BY <2>1, <2>2 DEF Describes
<1> QED
  BY <1>2, <1>3 DEF TasksInv, CommandsExplainHistory

LEMMA TasksBegin == TasksInit => TasksInv
<1> SUFFICES ASSUME TasksInit PROVE TasksInv
  OBVIOUS
<1>1. StaffTypeOK
  BY TenantAssumption DEF TasksInit, StaffInit, StaffTypeOK, Standing, OwnerStanding, NoStanding
<1>2. PICK none \in Seq(TaskEvent) : none = <<>> /\ Len(none) = 0 /\ DOMAIN none = {}
  <2>1. PICK none \in Seq(TaskEvent) : none = <<>> /\ Len(none) = 0
    BY EmptySeq
  <2>2. DOMAIN none = 1 .. 0
    BY <2>1
  <2>3. DOMAIN none = {}
    BY <2>2
  <2> QED
    BY <2>1, <2>3
<1>3. \A t \in TaskIds : tasks[t] = none
  BY <1>2 DEF TasksInit
<1>4. tasks \in [TaskIds -> Seq(TaskEvent)]
  BY <1>2 DEF TasksInit
<1>5. 0 <= MaxTaskVersion
  BY TasksAssumption
<1> QED
  BY <1>1, <1>2, <1>3, <1>4, <1>5 DEF TasksInv, TasksInit, CommandsExplainHistory

(* A command that adds an event, and is remembered with it.                 *)
LEMMA EventKeeps ==
  ASSUME TasksInv, NEW k \in Keys, remembered[k] = Unused, NEW p, NEW c \in TaskCmd, NEW t \in TaskIds,
         NEW e \in TaskEvent, NEW v, v = Len(tasks[t]) + 1, v <= MaxTaskVersion,
         tasks' = [tasks EXCEPT ![t] = Append(tasks[t], e)], Remember(k, p, c, t, v),
         e.by = p, e.kind = c.kind,
         c.kind = "create" => v = 1 /\ e.assignee = c.assignee,
         c.kind # "create" => t = c.task /\ v = c.version + 1,
         c.kind = "update" => c.assignee = {} \/ c.assignee = {e.assignee},
         c.kind = "status" => e.status = c.to,
         v # 1 => Follows(tasks[t][Len(tasks[t])], e)
  PROVE  TasksInv'
<1>1. PICK log, new : log \in Seq(TaskEvent) /\ log = tasks[t] /\ new = Append(log, e)
  BY DEF TasksInv
<1>2. /\ new \in Seq(TaskEvent) /\ Len(new) = v /\ DOMAIN new = 1 .. v /\ new[v] = e /\ v \in Nat \ {0}
      /\ DOMAIN log = 1 .. Len(log) /\ v = Len(log) + 1 /\ Len(log) \in Nat
      /\ \A i \in 1 .. Len(log) : new[i] = log[i]
  BY <1>1
<1>3. tasks'[t] = new /\ \A s \in TaskIds \ {t} : tasks'[s] = tasks[s]
  BY <1>1 DEF TasksInv
<1>4. tasks' \in [TaskIds -> Seq(TaskEvent)]
  BY <1>1, <1>2 DEF TasksInv
<1>5. \A s \in TaskIds : \A i \in DOMAIN tasks[s] : i \in DOMAIN tasks'[s] /\ tasks'[s][i] = tasks[s][i]
  BY <1>1, <1>2, <1>3
<1>6. PICK row : row = [actor |-> p, cmd |-> c, task |-> t, version |-> v]
  OBVIOUS
<1>7. PICK answer : answer = [key |-> {k}, actor |-> p, cmd |-> c, task |-> t, version |-> v]
  OBVIOUS
<1>8. /\ remembered' = [remembered EXCEPT ![k] = row] /\ reply' = answer /\ UNCHANGED staff
  BY <1>6, <1>7 DEF Remember
<1>9. /\ row.task = t /\ row.version = v /\ row.actor = p /\ row.cmd = c
      /\ answer.task = t /\ answer.version = v /\ answer.actor = p /\ answer.cmd = c
  BY <1>6, <1>7
<1>10. row # Unused
  <2>1. "task" \in DOMAIN row
    BY <1>6
  <2> QED
    BY <2>1 DEF Unused
<1>12. Describes(row)' /\ Describes(answer)'
  BY <1>2, <1>3, <1>9 DEF Describes
<1>13. remembered'[k] = row /\ \A j \in Keys \ {k} : remembered'[j] = remembered[j]
  BY <1>8 DEF TasksInv
<1>14. ASSUME NEW j \in Keys PROVE remembered'[j] = Unused \/ Describes(remembered[j])'
  <2>1. CASE j = k
    BY <1>12, <1>13, <2>1 DEF Describes
  <2>2. CASE j # k
    <3>1. PICK r : r = remembered[j] /\ r = remembered'[j]
      BY <1>13, <2>2
    <3>2. r = Unused \/ Describes(r)'
      BY <1>5, <3>1, DescriptionsStay DEF TasksInv
    <3> QED
      BY <3>1, <3>2 DEF Describes
  <2> QED
    BY <2>1, <2>2
<1>15. Describes(reply)'
  BY <1>8, <1>12 DEF Describes
<1>16. ASSUME NEW s \in TaskIds, NEW i \in DOMAIN tasks'[s]
       PROVE  \E j \in Keys : /\ remembered'[j] # Unused /\ remembered'[j].task = s /\ remembered'[j].version = i
                              /\ remembered'[j].actor = tasks'[s][i].by /\ remembered'[j].cmd.kind = tasks'[s][i].kind
  <2>1. CASE s = t /\ i = v
    BY <1>2, <1>3, <1>9, <1>10, <1>13, <2>1
  <2>2. CASE ~(s = t /\ i = v)
    <3>1. i \in DOMAIN tasks[s]
      BY <1>1, <1>2, <1>3, <1>16, <2>2
    <3>2. PICK j \in Keys : /\ remembered[j] # Unused /\ remembered[j].task = s /\ remembered[j].version = i
                            /\ remembered[j].actor = tasks[s][i].by /\ remembered[j].cmd.kind = tasks[s][i].kind
      BY <3>1 DEF TasksInv, CommandsExplainHistory
    <3>3. remembered'[j] = remembered[j]
      BY <1>13, <3>2
    <3> QED
      BY <1>5, <3>1, <3>2, <3>3
  <2> QED
    BY <2>1, <2>2
<1>17. ASSUME NEW s \in TaskIds
       PROVE  /\ Len(tasks'[s]) <= MaxTaskVersion
              /\ \A i \in DOMAIN tasks'[s] \ {1} : Follows(tasks'[s][i - 1], tasks'[s][i])
  <2>1. CASE s = t
    <3>1. Len(new) <= MaxTaskVersion
      BY <1>2
    <3>2. ASSUME NEW i \in DOMAIN new \ {1} PROVE Follows(new[i - 1], new[i])
      <4>1. CASE i = v
        <5>1. v # 1 /\ new[i - 1] = log[Len(log)] /\ new[i] = e
          BY <1>2, <3>2, <4>1
        <5> QED
          BY <1>1, <5>1
      <4>2. CASE i # v
        <5>1. i \in DOMAIN log \ {1} /\ new[i - 1] = log[i - 1] /\ new[i] = log[i]
          BY <1>2, <3>2, <4>2
        <5> QED
          BY <1>1, <5>1 DEF TasksInv
      <4> QED
        BY <4>1, <4>2
    <3> QED
      BY <1>3, <2>1, <3>1, <3>2
  <2>2. CASE s # t
    BY <1>3, <2>2 DEF TasksInv
  <2> QED
    BY <2>1, <2>2
<1>18. StaffTypeOK' /\ DOMAIN remembered' = Keys
  BY <1>8 DEF TasksInv, StaffTypeOK
<1> QED
  BY <1>4, <1>14, <1>15, <1>16, <1>17, <1>18 DEF TasksInv, CommandsExplainHistory

LEMMA TasksStep == TasksInv /\ [TasksNext]_taskVars => TasksInv'
<1> SUFFICES ASSUME TasksInv, [TasksNext]_taskVars PROVE TasksInv'
  OBVIOUS
<1>1. CASE UNCHANGED taskVars
  <2>1. StaffTypeOK'
    BY <1>1 DEF taskVars, TasksInv, StaffTypeOK
  <2> QED
    BY <1>1, <2>1, QuietlyKeeps DEF taskVars
<1>2. CASE Administer /\ UNCHANGED <<tasks, remembered, reply>>
  <2>1. StaffTypeOK'
    BY <1>2, TenantAssumption DEF TasksInv, StaffTypeOK, Administer
  <2> QED
    BY <1>2, <2>1, QuietlyKeeps
<1>3. ASSUME NEW k \in Keys, NEW p \in People, NEW c \in TaskCmd,
             CreateTask(k, p, c) \/ WriteTask(k, p, c) \/ RepeatTask(k, p, c)
      PROVE  TasksInv'
  <2>1. CASE CreateTask(k, p, c)
    <3>1. PICK t \in TaskIds : /\ tasks[t] = <<>> /\ Remember(k, p, c, t, 1)
                               /\ tasks' = [tasks EXCEPT ![t] =
                                    <<[kind |-> "create", by |-> p, status |-> "todo", assignee |-> c.assignee]>>]
      BY <2>1 DEF CreateTask
    <3>2. PICK e : e = [kind |-> "create", by |-> p, status |-> "todo", assignee |-> c.assignee]
      OBVIOUS
    <3>3. c.kind = "create" /\ remembered[k] = Unused /\ c.assignee \in People
      BY <2>1, TaskCommands DEF CreateTask
    <3>4. e \in TaskEvent /\ e.by = p /\ e.kind = c.kind /\ e.assignee = c.assignee
      BY <3>2, <3>3 DEF TaskEvent, TaskStatuses, Open
    <3>5. PICK v : v = 1
      OBVIOUS
    <3>6. v = Len(tasks[t]) + 1 /\ v <= MaxTaskVersion
      BY <3>1, <3>5, TasksAssumption
    <3>7. tasks' = [tasks EXCEPT ![t] = Append(tasks[t], e)]
      <4>1. Append(<<>>, e) = <<e>>
        OBVIOUS
      <4> QED
        BY <3>1, <3>2, <4>1
    <3>8. remembered[k] = Unused /\ Remember(k, p, c, t, v)
      BY <3>1, <3>3, <3>5
    <3>9. /\ c.kind = "create" => v = 1 /\ e.assignee = c.assignee
          /\ c.kind # "create" => t = c.task /\ v = c.version + 1
          /\ c.kind = "update" => c.assignee = {} \/ c.assignee = {e.assignee}
          /\ c.kind = "status" => e.status = c.to
          /\ v # 1 => Follows(tasks[t][Len(tasks[t])], e)
      BY <3>3, <3>4, <3>5
    <3> QED
      BY <3>4, <3>6, <3>7, <3>8, <3>9, EventKeeps
  <2>2. CASE WriteTask(k, p, c)
    <3>1. PICK t, v, row : t = c.task /\ v = Len(tasks[t]) + 1 /\ row = TaskRowOf(t)
      OBVIOUS
    <3>2. /\ c.kind # "create" /\ remembered[k] = Unused /\ t \in TaskIds /\ c.version \in TaskVersions
          /\ Len(tasks[t]) = c.version /\ c.version < MaxTaskVersion /\ Remember(k, p, c, t, v)
      BY <2>2, <3>1, TaskCommands DEF WriteTask
    <3>3. PICK e \in Results(p, c, row) : tasks' = [tasks EXCEPT ![t] = Append(tasks[t], e)]
      BY <2>2, <3>1 DEF WriteTask
    <3>4. row = tasks[t][Len(tasks[t])] /\ row \in TaskEvent
      <4>1. tasks[t] \in Seq(TaskEvent) /\ Len(tasks[t]) \in Nat \ {0}
        BY <3>2 DEF TasksInv, TaskVersions
      <4> QED
        BY <3>1, <4>1 DEF TaskRowOf, Last
    <3>5. /\ e \in TaskEvent /\ e.by = p /\ e.kind = c.kind /\ Follows(row, e)
          /\ c.kind = "update" => c.assignee = {} \/ c.assignee = {e.assignee}
          /\ c.kind = "status" => e.status = c.to
      BY <3>2, <3>3, <3>4, EventsOfCommands
    <3>6. v <= MaxTaskVersion /\ v = c.version + 1
      BY <3>1, <3>2, TasksAssumption DEF TaskVersions
    <3> QED
      BY <3>1, <3>2, <3>3, <3>4, <3>5, <3>6, EventKeeps
  <2>3. CASE RepeatTask(k, p, c)
    <3>1. PICK r, answer : /\ r = remembered[k]
                           /\ answer = [key |-> {k}, actor |-> p, cmd |-> c, task |-> r.task, version |-> r.version]
      OBVIOUS
    <3>2. /\ r # Unused /\ r.actor = p /\ r.cmd = c /\ reply' = answer /\ UNCHANGED <<staff, tasks, remembered>>
      BY <2>3, <3>1 DEF RepeatTask, SameCommand
    <3>3. Describes(r)
      BY <3>1, <3>2 DEF TasksInv
    <3>4. Describes(answer)
      BY <3>1, <3>2, <3>3 DEF Describes
    <3>5. StaffTypeOK'
      BY <3>2 DEF TasksInv, StaffTypeOK
    <3> QED
      BY <3>2, <3>4, <3>5, QuietlyKeeps
  <2> QED
    BY <1>3, <2>1, <2>2, <2>3
<1> QED
  BY <1>1, <1>2, <1>3 DEF TasksNext

LEMMA TasksAlways == TasksSpec => []TasksInv
  BY TasksBegin, TasksStep, PTL DEF TasksSpec

(* Whatever happened to a task was legal after what had happened before.    *)
THEOREM TaskHistories == TasksSpec => []TasksTypeOK
<1>1. TasksInv => TasksTypeOK
  BY DEF TasksInv, TasksTypeOK, Follows
<1> QED
  BY <1>1, TasksAlways, PTL

(* Every event of a task was one command, remembered with its actor.        *)
THEOREM HistoryExplained == TasksSpec => []CommandsExplainHistory
<1>1. TasksInv => CommandsExplainHistory
  BY DEF TasksInv
<1> QED
  BY <1>1, TasksAlways, PTL

(* What is answered, also to a repeated key, is what was asked for.         *)
THEOREM AnswersAreTrue == TasksSpec => []RepliesDescribeRequests
<1>1. TasksInv => RepliesDescribeRequests
  BY DEF TasksInv, RepliesDescribeRequests, Describes
<1> QED
  BY <1>1, TasksAlways, PTL

-----------------------------------------------------------------------------
(* One system.  A step of it is a step or a stutter of each component: an   *)
(* account shares no rows with the others, and what the administration      *)
(* changes both leave and tasks see at once.                                *)
LEMMA HrLeavesStaff == HrNext => Administer \/ UNCHANGED staff
<1> SUFFICES ASSUME HrNext PROVE Administer \/ UNCHANGED staff
  OBVIOUS
<1>1. ASSUME NEW who, NEW b, NEW l
      PROVE  /\ \A range : SubmitLeave(who, b, l, range) => UNCHANGED staff
             /\ CancelOwnLeave(who, b, l) => UNCHANGED staff
             /\ \A status : ReviewLeave(who, b, l, status) => UNCHANGED staff
  BY DEF SubmitLeave, CancelOwnLeave, ReviewLeave, SetLeave
<1>2. ASSUME NEW who, NEW b, NEW template
      PROVE  /\ \A rows, member : GenerateShifts(who, b, rows, member, template) => UNCHANGED staff
             /\ SaveTemplate(who, b, template) => UNCHANGED staff
  BY DEF GenerateShifts, SaveTemplate, SetShifts
<1>3. ASSUME NEW who, NEW x
      PROVE  /\ \A on, template : EditShift(who, x, on, template) => UNCHANGED staff
             /\ PublishShift(who, x) => UNCHANGED staff
             /\ CancelShift(who, x) => UNCHANGED staff
  BY DEF EditShift, PublishShift, CancelShift, SetShifts
<1>4. DayPasses => UNCHANGED staff
  BY DEF DayPasses
<1> QED
  BY <1>1, <1>2, <1>3, <1>4, Zenon DEF HrNext

LEMMA TasksLeaveStaff == TasksNext => Administer \/ UNCHANGED staff
<1>1. ASSUME NEW k, NEW p, NEW c, CreateTask(k, p, c) \/ WriteTask(k, p, c) \/ RepeatTask(k, p, c)
      PROVE  UNCHANGED staff
  BY <1>1 DEF CreateTask, WriteTask, RepeatTask, Remember
<1> QED
  BY <1>1, Zenon DEF TasksNext

LEMMA PeopleSteps ==
  ASSUME [PeopleNext]_<<vars, hrVars, taskVars>>
  PROVE  [Next]_vars /\ [HrNext]_hrVars /\ [TasksNext]_taskVars
<1>1. CASE UNCHANGED <<vars, hrVars, taskVars>>
  BY <1>1
<1>2. CASE NothingPlanned /\ NothingToDo /\ StaffInit /\ UNCHANGED staff /\ Next
  BY <1>2 DEF NothingPlanned, NothingToDo, hrVars, taskVars
<1>3. CASE AccountRests /\ NothingToDo /\ HrNext /\ GrantedTogether(HrCapabilities)
  <2>1. Administer \/ UNCHANGED staff
    BY <1>3, HrLeavesStaff
  <2> QED
    BY <1>3, <2>1 DEF AccountRests, NothingToDo, TasksNext, taskVars
<1>4. CASE AccountRests /\ NothingPlanned /\ TasksNext /\ Granted(TaskCapabilities)
  <2>1. Administer \/ UNCHANGED staff
    BY <1>4, TasksLeaveStaff
  <2> QED
    BY <1>4, <2>1 DEF AccountRests, NothingPlanned, HrNext, hrVars
<1> QED
  BY <1>1, <1>2, <1>3, <1>4 DEF PeopleNext

LEMMA PeopleBehave == PeopleSpec => Spec /\ HrSpec /\ TasksSpec
<1>1. PeopleInit => Init /\ HrInit /\ TasksInit
  BY DEF PeopleInit
<1> QED
  BY <1>1, PeopleSteps, PTL DEF PeopleSpec, Spec, HrSpec, TasksSpec

(* What each component keeps at every moment: the rows of accounts, leave,  *)
(* shifts and tasks are what their tables allow, nobody has two leaves or   *)
(* two shifts at one time, and the commands that a task remembers explain   *)
(* its history.                                                             *)
THEOREM PeopleKept == PeopleSpec => []PeopleInv
<1>1. HrInv /\ NoDoubleShift /\ TasksInv => HrTypeOK
  BY DEF HrInv, HrRows, NoDoubleShift, TasksInv, HrTypeOK
<1>2. TypeOK /\ HrTypeOK /\ TasksTypeOK /\ CommandsExplainHistory => PeopleInv
  BY DEF PeopleInv
<1> QED
  BY <1>1, <1>2, PeopleBehave, TypeCorrect, HrAlways, OneShiftAtATime, TasksAlways, TaskHistories,
     HistoryExplained, PTL
=============================================================================
