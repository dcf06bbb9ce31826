------------------------------- MODULE Account -------------------------------
(***************************************************************************)
(* One user's account: sign-in, refresh sessions and their rotation,       *)
(* sign-out, password change, password recovery by e-mail link, change of  *)
(* the verified e-mail address, and the user's realtime sockets.           *)
(*                                                                         *)
(* A request is a chain of awaits.  Each await between two reads or writes *)
(* of shared state is a step here, and what the request read before it is  *)
(* kept in req.  The row lock on the user (FOR SHARE for sign-in, FOR      *)
(* UPDATE or an UPDATE for all else) is held in the steps "issuing",       *)
(* "recover" and "replace"; a transaction that needs the lock for a single *)
(* step takes that step while nobody else holds it.                        *)
(***************************************************************************)
EXTENDS Integers, FiniteSets

CONSTANTS
  Requests,  \* requests the server handles at the same time
  Sessions,  \* ids of auth_sessions rows
  Links,     \* ids of identity_challenges rows
  Emails,    \* addresses this user may claim
  NoEmail, NoLink,
  MaxGen,    \* bound: rotations of one session
  MaxPw      \* bound: password replacements

ASSUME ConstantsAssumption ==
  /\ NoEmail \notin Emails
  /\ NoLink \notin Links
  /\ MaxGen \in Nat /\ MaxPw \in Nat

VARIABLES
  pw,        \* users.password_hash; bcrypt salts it, so every write is a new value
  email,     \* user_email_identities that are verified and pending
  links,     \* identity_challenges of this user
  sessions,  \* auth_sessions; gen numbers the successive credentials
  sockets,   \* sessions that have a connected socket
  req        \* where each request stands, and what it has read

vars == <<pw, email, links, sessions, sockets, req>>

-----------------------------------------------------------------------------
(* Rows and requests.                                                      *)

Hashes == 0 .. MaxPw
Gens == 0 .. MaxGen
Creds == [session : Sessions, gen : Gens]

NoRow == [status |-> "none"]
SessionRow == [status : {"live", "expired", "revoked"}, gen : Gens, pw : Hashes]
LinkRow == [status : {"live", "expired", "consumed", "revoked"},
            purpose : {"verify", "reset"}, to : Emails]

Unrevoked == {"live", "expired"}     \* revoked_at (and consumed_at) IS NULL

Idle == [op |-> "idle"]
Request ==
  {Idle}
    \cup [op : {"login", "issuing", "change"}, pw : Hashes]
    \cup [op : {"refresh", "rotate", "rotated"}, cred : Creds]
    \cup [op : {"reset"}, link : Links]
    \cup [op : {"recover"}, to : Emails \cup {NoEmail}]
    \cup [op : {"replace"}, link : Links \cup {NoLink}, from : Hashes]
    \cup [op : {"connect"}, session : Sessions]
    \cup [op : {"disconnect"}, of : SUBSET Sessions]

TypeOK ==
  /\ pw \in Hashes
  /\ email \in [verified : Emails \cup {NoEmail}, pending : Emails \cup {NoEmail}]
  /\ links \in [Links -> LinkRow \cup {NoRow}]
  /\ sessions \in [Sessions -> SessionRow \cup {NoRow}]
  /\ sockets \subseteq Sessions
  /\ req \in [Requests -> Request]

Init ==
  /\ pw = 0
  /\ email \in [verified : Emails \cup {NoEmail}, pending : {NoEmail}]
  /\ links = [l \in Links |-> NoRow]
  /\ sessions = [s \in Sessions |-> NoRow]
  /\ sockets = {}
  /\ req = [r \in Requests |-> Idle]

At(r, op) == req[r].op = op
Go(r, state) == req' = [req EXCEPT ![r] = state]

(* Who holds the user's row: shared by sign-in, exclusive by the others.   *)
ShareFree == \A r \in Requests : req[r].op \notin {"recover", "replace"}
ExclusiveFree == \A r \in Requests : req[r].op \notin {"issuing", "recover", "replace"}

SignedIn == \E s \in Sessions : sessions[s].status = "live"

-----------------------------------------------------------------------------
(* login: verify the password, then in one transaction lock the user FOR   *)
(* SHARE, compare the hash that was verified, and insert the session.      *)

LoginVerify(r) ==
  /\ req[r] = Idle
  /\ Go(r, [op |-> "login", pw |-> pw])
  /\ UNCHANGED <<pw, email, links, sessions, sockets>>

(* Mutant: the hash is compared without locking the user's row. *)
LoginCheckUnlocked(r) ==
  /\ At(r, "login")
  /\ req[r].pw = pw
  /\ Go(r, [op |-> "issuing", pw |-> req[r].pw])
  /\ UNCHANGED <<pw, email, links, sessions, sockets>>

LoginCheck(r) ==
  /\ At(r, "login")
  /\ ShareFree
  /\ req[r].pw = pw
  /\ Go(r, [op |-> "issuing", pw |-> req[r].pw])
  /\ UNCHANGED <<pw, email, links, sessions, sockets>>

LoginInsert(r) ==
  /\ At(r, "issuing")
  /\ \E s \in Sessions :
       /\ sessions[s] = NoRow
       /\ sessions' = [sessions EXCEPT ![s] = [status |-> "live", gen |-> 0, pw |-> req[r].pw]]
  /\ Go(r, Idle)
  /\ UNCHANGED <<pw, email, links, sockets>>

-----------------------------------------------------------------------------
(* refresh: validate, build the context, validate again, then replace the  *)
(* credential by compare-and-swap.  The last statement compares the expiry *)
(* with the clock that the second validation read.                         *)

Current(cred) == sessions[cred.session].status = "live"
                   /\ sessions[cred.session].gen = cred.gen

RefreshValidate(r) ==
  /\ req[r] = Idle
  /\ \E cred \in Creds : Current(cred) /\ Go(r, [op |-> "refresh", cred |-> cred])
  /\ UNCHANGED <<pw, email, links, sessions, sockets>>

RotateValidate(r) ==
  /\ At(r, "refresh")
  /\ Current(req[r].cred)
  /\ Go(r, [op |-> "rotate", cred |-> req[r].cred])
  /\ UNCHANGED <<pw, email, links, sessions, sockets>>

(* Mutants: the update does not compare the stored credential, or does not *)
(* ask for a session that is not revoked.                                  *)
SwapsAnyCredential(cred) == sessions[cred.session].status \in Unrevoked
SwapsRevoked(cred) == sessions[cred.session].gen = cred.gen

Swaps(cred) == /\ sessions[cred.session].status \in Unrevoked
               /\ sessions[cred.session].gen = cred.gen

Rotate(r) ==
  /\ At(r, "rotate")
  /\ LET s == req[r].cred.session IN
       /\ Swaps(req[r].cred)
       /\ sessions[s].gen < MaxGen
       /\ sessions' = [sessions EXCEPT ![s].status = "live", ![s].gen = @ + 1]
  /\ Go(r, [op |-> "rotated", cred |-> req[r].cred])
  /\ UNCHANGED <<pw, email, links, sockets>>

Respond(r) ==
  /\ At(r, "rotated")
  /\ Go(r, Idle)
  /\ UNCHANGED <<pw, email, links, sessions, sockets>>

-----------------------------------------------------------------------------
(* logout, with whatever credential the cookie held: revoke by compare-    *)
(* and-swap, then close the session's sockets.                             *)

Logout(r) ==
  /\ req[r] = Idle
  /\ \E cred \in Creds :
       LET s == cred.session IN
         /\ sessions[s] # NoRow
         /\ cred.gen <= sessions[s].gen
         /\ sessions' = IF Swaps(cred) THEN [sessions EXCEPT ![s].status = "revoked"]
                        ELSE sessions
         /\ Go(r, [op |-> "disconnect", of |-> {s}])
  /\ UNCHANGED <<pw, email, links, sockets>>

Disconnect(r) ==
  /\ At(r, "disconnect")
  /\ sockets' = sockets \ req[r].of
  /\ Go(r, Idle)
  /\ UNCHANGED <<pw, email, links, sessions>>

-----------------------------------------------------------------------------
(* Replacing the password: by the signed-in user, who proved the old one,  *)
(* or by whoever holds a reset link.  Both end in Replace, which revokes   *)
(* every session in the transaction that writes the hash.                  *)

ChangeVerify(r) ==
  /\ req[r] = Idle
  /\ SignedIn
  /\ Go(r, [op |-> "change", pw |-> pw])
  /\ UNCHANGED <<pw, email, links, sessions, sockets>>

(* Mutant: the update does not compare the hash that was verified. *)
ChangeAnyHash(r) ==
  /\ At(r, "change")
  /\ ExclusiveFree
  /\ Go(r, [op |-> "replace", link |-> NoLink, from |-> req[r].pw])
  /\ UNCHANGED <<pw, email, links, sessions, sockets>>

ChangeUpdate(r) ==
  /\ At(r, "change")
  /\ ExclusiveFree
  /\ req[r].pw = pw
  /\ Go(r, [op |-> "replace", link |-> NoLink, from |-> req[r].pw])
  /\ UNCHANGED <<pw, email, links, sessions, sockets>>

Redeemable(l, purpose) == links[l].status = "live" /\ links[l].purpose = purpose

ResetInspect(r) ==
  /\ req[r] = Idle
  /\ ExclusiveFree
  /\ \E l \in Links : Redeemable(l, "reset") /\ Go(r, [op |-> "reset", link |-> l])
  /\ UNCHANGED <<pw, email, links, sessions, sockets>>

(* Mutant: the link that was inspected before hashing is not rechecked. *)
ResetUnchecked(r) ==
  /\ At(r, "reset")
  /\ ExclusiveFree
  /\ Go(r, [op |-> "replace", link |-> req[r].link, from |-> pw])
  /\ UNCHANGED <<pw, email, links, sessions, sockets>>

ResetLock(r) ==
  /\ At(r, "reset")
  /\ ExclusiveFree
  /\ Redeemable(req[r].link, "reset")
  /\ Go(r, [op |-> "replace", link |-> req[r].link, from |-> pw])
  /\ UNCHANGED <<pw, email, links, sessions, sockets>>

AllRevoked ==
  [s \in Sessions |-> IF sessions[s].status \in Unrevoked
                      THEN [sessions[s] EXCEPT !.status = "revoked"] ELSE sessions[s]]

Replace(r) ==
  /\ At(r, "replace")
  /\ pw < MaxPw
  /\ pw' = pw + 1
  /\ links' = [l \in Links |-> IF l = req[r].link THEN [links[l] EXCEPT !.status = "consumed"]
                               ELSE links[l]]
  /\ sessions' = AllRevoked
  /\ Go(r, [op |-> "disconnect", of |-> Sessions])
  /\ UNCHANGED <<email, sockets>>

-----------------------------------------------------------------------------
(* Links and addresses.                                                    *)

(* issue: a new link of a purpose revokes the ones before it. *)
RevokedFor(purpose) ==
  [l \in Links |-> IF links[l].status \in Unrevoked /\ links[l].purpose = purpose
                   THEN [links[l] EXCEPT !.status = "revoked"] ELSE links[l]]

Issue(purpose, to) ==
  \E l \in Links :
    /\ links[l] = NoRow
    /\ links' = [RevokedFor(purpose) EXCEPT
                   ![l] = [status |-> "live", purpose |-> purpose, to |-> to]]

(* forgotPassword locks the user and reads the verified address.           *)
Forgot(r) ==
  /\ req[r] = Idle
  /\ ExclusiveFree
  /\ Go(r, [op |-> "recover", to |-> email.verified])
  /\ UNCHANGED <<pw, email, links, sessions, sockets>>

ForgotIssue(r) ==
  /\ At(r, "recover")
  /\ req[r].to # NoEmail
  /\ Issue("reset", req[r].to)
  /\ Go(r, Idle)
  /\ UNCHANGED <<pw, email, sessions, sockets>>

(* proposeEmail, and resendEmail for the address that is already pending. *)
ProposeEmail(e) ==
  /\ SignedIn
  /\ ExclusiveFree
  /\ e # email.verified
  /\ email' = [email EXCEPT !.pending = e]
  /\ Issue("verify", e)
  /\ UNCHANGED <<pw, sessions, sockets, req>>

(* Mutant: the verification locks its own link only, not the user. *)
VerifyEmailUnlocked(l) ==
  /\ Redeemable(l, "verify")
  /\ email.pending = links[l].to
  /\ email' = [verified |-> email.pending, pending |-> NoEmail]
  /\ links' = [RevokedFor("reset") EXCEPT ![l].status = "consumed"]
  /\ UNCHANGED <<pw, sessions, sockets, req>>

VerifyEmail(l) ==
  /\ ExclusiveFree
  /\ Redeemable(l, "verify")
  /\ email.pending = links[l].to
  /\ email' = [verified |-> email.pending, pending |-> NoEmail]
  /\ links' = [RevokedFor("reset") EXCEPT ![l].status = "consumed"]
  /\ UNCHANGED <<pw, sessions, sockets, req>>

(* A link that could not be mailed is revoked, unless it was used already. *)
DeliveryFails(l) ==
  /\ \A r \in Requests : ~(At(r, "replace") /\ req[r].link = l)
  /\ links[l].status \in Unrevoked
  /\ links' = [links EXCEPT ![l].status = "revoked"]
  /\ UNCHANGED <<pw, email, sessions, sockets, req>>

-----------------------------------------------------------------------------
(* Sockets: the handshake authorizes a session and joins after more        *)
(* awaits.  A queue event re-authorizes every socket it would be sent to.  *)

Connect(r) ==
  /\ req[r] = Idle
  /\ \E s \in Sessions : /\ sessions[s].status = "live"
                         /\ Go(r, [op |-> "connect", session |-> s])
  /\ UNCHANGED <<pw, email, links, sessions, sockets>>

Join(r) ==
  /\ At(r, "connect")
  /\ sockets' = sockets \cup {req[r].session}
  /\ Go(r, Idle)
  /\ UNCHANGED <<pw, email, links, sessions>>

EmitToBranch(s) ==
  /\ s \in sockets
  /\ sessions[s].status # "live"
  /\ sockets' = sockets \ {s}
  /\ UNCHANGED <<pw, email, links, sessions, req>>

-----------------------------------------------------------------------------
(* Time, failures and restarts.                                            *)

ExpireSession(s) ==
  /\ sessions[s].status = "live"
  /\ sessions' = [sessions EXCEPT ![s].status = "expired"]
  /\ UNCHANGED <<pw, email, links, sockets, req>>

ExpireLink(l) ==
  /\ links[l].status = "live"
  /\ links' = [links EXCEPT ![l].status = "expired"]
  /\ UNCHANGED <<pw, email, sessions, sockets, req>>

(* A refusal, an error or a lost connection: an open transaction rolls back. *)
Abort(r) ==
  /\ req[r].op \notin {"idle", "rotated", "disconnect"}
  /\ Go(r, Idle)
  /\ UNCHANGED <<pw, email, links, sessions, sockets>>

Restart ==
  /\ req' = [r \in Requests |-> Idle]
  /\ sockets' = {}
  /\ UNCHANGED <<pw, email, links, sessions>>

Next ==
  \/ \E r \in Requests :
       \/ LoginVerify(r) \/ LoginCheck(r) \/ LoginInsert(r)
       \/ RefreshValidate(r) \/ RotateValidate(r) \/ Rotate(r) \/ Respond(r)
       \/ Logout(r) \/ Disconnect(r)
       \/ ChangeVerify(r) \/ ChangeUpdate(r)
       \/ ResetInspect(r) \/ ResetLock(r) \/ Replace(r)
       \/ Forgot(r) \/ ForgotIssue(r)
       \/ Connect(r) \/ Join(r) \/ Abort(r)
  \/ \E e \in Emails : ProposeEmail(e)
  \/ \E l \in Links : VerifyEmail(l) \/ DeliveryFails(l) \/ ExpireLink(l)
  \/ \E s \in Sessions : EmitToBranch(s) \/ ExpireSession(s)
  \/ Restart

Spec == Init /\ [][Next]_vars

-----------------------------------------------------------------------------
(* Properties.                                                             *)

(* Every session that can still be used or renewed was opened with the     *)
(* password of now: a sign-in that verified the old one before a change or *)
(* a reset leaves no session behind, in whatever order the two commit.     *)
LiveSessionsUseCurrentPassword ==
  \A s \in Sessions : sessions[s].status \in Unrevoked => sessions[s].pw = pw

(* Of the refreshes that present one credential at most one is answered    *)
(* with a new one.                                                         *)
OneRefreshWins ==
  \A q, r \in Requests :
    q # r /\ At(q, "rotated") /\ At(r, "rotated") => req[q].cred # req[r].cred

(* A reset link that can still be redeemed went to the address that is     *)
(* verified now, even when recovery and a change of address overlap.       *)
ResetLinksFollowEmail ==
  \A l \in Links :
    links[l].status \in Unrevoked /\ links[l].purpose = "reset"
      => links[l].to = email.verified

(* A reset link replaces the password once: two redemptions that both      *)
(* inspected it do not both commit, and a link revoked meanwhile does not. *)
LinkRedeemedOnce ==
  [][\A r \in Requests :
       /\ At(r, "replace") /\ req[r].link # NoLink /\ pw' # pw
       => /\ links[req[r].link].status \in Unrevoked
          /\ links'[req[r].link].status = "consumed"]_vars

(* A password change replaces the hash it verified, never one that a       *)
(* concurrent reset or change has written since.                           *)
ChangeNeverOverwrites ==
  [][\A r \in Requests : At(r, "replace") /\ pw' # pw => req[r].from = pw]_vars

(* A revoked session stays revoked, whatever rotation was in flight.       *)
RevokedForGood ==
  [][\A s \in Sessions : sessions[s].status = "revoked" => sessions'[s].status = "revoked"]_vars

(* A socket outlives its session's revocation only until the request that  *)
(* revoked it has disconnected the user's sockets.                         *)
RevokedSocketsClosed ==
  \A s \in sockets : sessions[s].status = "revoked" =>
    \E r \in Requests : At(r, "disconnect") /\ s \in req[r].of

(* When sign-out has revoked what it finds and goes on to disconnect the   *)
(* sockets of the session and to answer, that session is over.             *)
SignOutEndsSession ==
  [][\A r \in Requests :
       req[r] = Idle /\ req'[r].op = "disconnect"
       => \A s \in req'[r].of : sessions'[s].status # "live"]_vars
=============================================================================
