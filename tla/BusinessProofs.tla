-------------------------- MODULE BusinessProofs --------------------------
(***************************************************************************)
(* Proofs about deployments, customers and appointments, the browser's     *)
(* forms, and all of them with the stock in one system.                    *)
(***************************************************************************)
EXTENDS MCBusiness, StockProofs, SequenceTheorems

-----------------------------------------------------------------------------
(* What Migrator promises for all releases and any number of deployments.  *)
(* The argument: one deployment at a time has the lock, so what it read of *)
(* the history stays the history until it gives the lock up.               *)

(* The advisory lock is held once.                                          *)
OneDeploys ==
  \A d, e \in Deployments : deployment[d] # Undeployed /\ deployment[e] # Undeployed => d = e

(* What a deployment believes to be applied is what is recorded, and the    *)
(* names are all of its own release; in the end it is what that release has. *)
KnowsHistory ==
  \A d \in Deployments :
    /\ deployment[d].pc \in {"running", "done"} =>
         deployment[d].applied = history /\ Numbers(history) \subseteq Numbers(deployment[d].release)
    /\ deployment[d].pc = "done" => history = deployment[d].release

MigratorInv == MigratorTypeOK /\ OneDeploys /\ KnowsHistory /\ ExecutedIsRecorded

(* A deployment's row is empty or has the three columns.                    *)
DeploymentRow == [pc : {"locked", "running", "done"}, release : Releases, applied : SUBSET Migrations]

LEMMA InitiallyUndeployed == MigratorInit => MigratorInv
<1> SUFFICES ASSUME MigratorInit PROVE MigratorInv
  OBVIOUS
<1>1. MigratorTypeOK
  BY DEF MigratorInit, MigratorTypeOK, Migrations
<1>2. OneDeploys /\ KnowsHistory
  BY DEF MigratorInit, OneDeploys, KnowsHistory, Undeployed
<1>3. ExecutedIsRecorded
  BY DEF MigratorInit, ExecutedIsRecorded
<1> QED
  BY <1>1, <1>2, <1>3 DEF MigratorInv

(* One more migration that was not recorded: the schema stays what is       *)
(* recorded, each migration in it once.                                     *)
LEMMA RecordsOneMore ==
  ASSUME schema \in Seq(Migrations), ExecutedIsRecorded, NEW m \in Migrations, m \notin history,
         schema' = Append(schema, m), history' = history \cup {m}
  PROVE  schema' \in Seq(Migrations) /\ ExecutedIsRecorded'
<1> DEFINE n == Len(schema)
<1>1. n \in Nat /\ DOMAIN schema = 1 .. n /\ DOMAIN schema' = 1 .. (n + 1)
  OBVIOUS
<1>2. schema'[n + 1] = m /\ \A i \in 1 .. n : schema'[i] = schema[i]
  OBVIOUS
<1>3. schema' \in Seq(Migrations)
  OBVIOUS
<1>4. {schema'[i] : i \in DOMAIN schema'} = history'
  <2>1. ASSUME NEW x \in {schema'[i] : i \in DOMAIN schema'} PROVE x \in history'
    <3>1. PICK i \in 1 .. (n + 1) : x = schema'[i]
      BY <1>1, <2>1
    <3>2. CASE i = n + 1
      BY <3>1, <3>2, <1>2
    <3>3. CASE i \in 1 .. n
      BY <3>1, <3>3, <1>1, <1>2 DEF ExecutedIsRecorded
    <3> QED
      BY <3>1, <3>2, <3>3, <1>1
  <2>2. ASSUME NEW x \in history' PROVE x \in {schema'[i] : i \in DOMAIN schema'}
    <3>1. CASE x = m
      BY <3>1, <1>1, <1>2
    <3>2. CASE x \in history
      <4>1. PICK i \in 1 .. n : x = schema[i]
        BY <3>2, <1>1 DEF ExecutedIsRecorded
      <4>2. i \in 1 .. (n + 1) /\ x = schema'[i]
        BY <4>1, <1>1, <1>2
      <4> QED
        BY <4>2, <1>1
    <3> QED
      BY <2>2, <3>1, <3>2
  <2> QED
    BY <2>1, <2>2
<1>5. \A i, j \in DOMAIN schema' : schema'[i] = schema'[j] => i = j
  <2> SUFFICES ASSUME NEW i \in 1 .. (n + 1), NEW j \in 1 .. (n + 1), schema'[i] = schema'[j]
               PROVE  i = j
    BY <1>1
  <2>1. CASE i \in 1 .. n /\ j \in 1 .. n
    BY <2>1, <1>1, <1>2 DEF ExecutedIsRecorded
  <2>2. CASE i = n + 1 /\ j \in 1 .. n
    BY <2>2, <1>1, <1>2 DEF ExecutedIsRecorded
  <2>3. CASE j = n + 1 /\ i \in 1 .. n
    BY <2>3, <1>1, <1>2 DEF ExecutedIsRecorded
  <2> QED
    BY <2>1, <2>2, <2>3, <1>1
<1> QED
  BY <1>3, <1>4, <1>5 DEF ExecutedIsRecorded

LEMMA StepKeepsMigratorInv == MigratorInv /\ [MigratorNext]_migratorVars => MigratorInv'
<1> SUFFICES ASSUME MigratorInv, [MigratorNext]_migratorVars PROVE MigratorInv'
  OBVIOUS
<1> USE DEF MigratorInv
<1>1. \A d \in Deployments : deployment[d] = Undeployed \/ deployment[d] \in DeploymentRow
  BY DEF MigratorTypeOK, DeploymentRow
<1>2. ASSUME NEW d \in Deployments, Take(d) PROVE MigratorInv'
  <2>1. PICK r \in Releases :
          /\ \A e \in Deployments : deployment[e] = Undeployed
          /\ deployment' = [deployment EXCEPT ![d] = [pc |-> "locked", release |-> r, applied |-> {}]]
    BY <1>2 DEF Take, LockFree
  <2>2. UNCHANGED <<schema, history>>
    BY <1>2 DEF Take
  <2>3. MigratorTypeOK'
    BY <2>1, <2>2 DEF MigratorTypeOK
  <2>4. OneDeploys'
    BY <2>1, <2>2 DEF OneDeploys, MigratorTypeOK
  <2>5. KnowsHistory'
    BY <2>1, <2>2 DEF KnowsHistory, MigratorTypeOK, Undeployed
  <2> QED
    BY <2>2, <2>3, <2>4, <2>5 DEF ExecutedIsRecorded
<1>3. ASSUME NEW d \in Deployments, ReadHistory(d) PROVE MigratorInv'
  <2> DEFINE row == [deployment[d] EXCEPT !.pc = "running", !.applied = history]
  <2>1. deployment[d] \in DeploymentRow /\ Numbers(history) \subseteq Numbers(deployment[d].release)
    BY <1>1, <1>3 DEF ReadHistory, Undeployed
  <2>2. deployment' = [deployment EXCEPT ![d] = row] /\ UNCHANGED <<schema, history>>
    BY <1>3, <2>1 DEF ReadHistory, MigratorTypeOK, DeploymentRow
  <2>3. row \in DeploymentRow /\ row.pc = "running" /\ row.applied = history
          /\ row.release = deployment[d].release
    BY <2>1 DEF DeploymentRow, MigratorTypeOK
  <2> HIDE DEF row
  <2>4. MigratorTypeOK'
    BY <2>2, <2>3 DEF MigratorTypeOK, DeploymentRow
  <2>5. OneDeploys'
    BY <2>1, <2>2 DEF OneDeploys, MigratorTypeOK, Undeployed, DeploymentRow
  <2>6. KnowsHistory'
    BY <2>1, <2>2, <2>3 DEF KnowsHistory, MigratorTypeOK
  <2> QED
    BY <2>2, <2>4, <2>5, <2>6 DEF ExecutedIsRecorded
<1>4. ASSUME NEW d \in Deployments, Run(d) PROVE MigratorInv'
  <2>1. deployment[d] \in DeploymentRow /\ deployment[d].pc = "running"
    BY <1>1, <1>4 DEF Run, Undeployed
  <2>2. PICK m \in Pending(d) :
          /\ \A n \in history : n[1] # m[1]
          /\ schema' = Append(schema, m) /\ history' = history \cup {m}
          /\ deployment' = [deployment EXCEPT ![d].applied = @ \cup {m}]
    BY <1>4 DEF Run
  <2>3. m \in deployment[d].release /\ m \in Migrations /\ m \notin history
    BY <2>1, <2>2 DEF Pending, Migrations, DeploymentRow
  <2>4. schema' \in Seq(Migrations) /\ ExecutedIsRecorded'
    BY <2>2, <2>3, RecordsOneMore DEF MigratorTypeOK
  <2>5. MigratorTypeOK'
    BY <2>1, <2>2, <2>3, <2>4 DEF MigratorTypeOK, DeploymentRow
  <2>6. \A e \in Deployments : e # d => deployment[e] = Undeployed
    BY <2>1 DEF OneDeploys, Undeployed, DeploymentRow
  <2>7. OneDeploys'
    BY <2>2, <2>6 DEF OneDeploys, MigratorTypeOK
  <2>8. Numbers(history) \subseteq Numbers(deployment[d].release)
          => Numbers(history') \subseteq Numbers(deployment[d].release)
    BY <2>2, <2>3 DEF Numbers
  <2>9. KnowsHistory'
    <3> DEFINE row == [deployment[d] EXCEPT !.applied = @ \cup {m}]
    <3>1. deployment[d].applied = history /\ Numbers(history) \subseteq Numbers(deployment[d].release)
      BY <2>1 DEF KnowsHistory
    <3>2. row.pc = "running" /\ row.release = deployment[d].release /\ row.applied = history'
      BY <2>1, <2>2, <3>1 DEF DeploymentRow
    <3>3. deployment' = [deployment EXCEPT ![d] = row]
      BY <2>2
    <3>4. \A e \in Deployments : deployment'[e] = IF e = d THEN row ELSE Undeployed
      BY <2>6, <3>3 DEF MigratorTypeOK
    <3>5. Undeployed.pc = "start"
      BY DEF Undeployed
    <3> HIDE DEF row
    <3> QED
      BY <2>8, <3>1, <3>2, <3>4, <3>5 DEF KnowsHistory, Numbers
  <2> QED
    BY <2>4, <2>5, <2>7, <2>9
<1>5. ASSUME NEW d \in Deployments, Finish(d) PROVE MigratorInv'
  <2> USE <1>5 DEF Finish
  <2>1. MigratorTypeOK'
    BY <1>1 DEF MigratorTypeOK, Undeployed, DeploymentRow
  <2>2. OneDeploys'
    BY <1>1 DEF OneDeploys, MigratorTypeOK, Undeployed, DeploymentRow
  <2>3. deployment[d].applied = history /\ Numbers(history) \subseteq Numbers(deployment[d].release)
    BY DEF KnowsHistory
  <2>4. history = deployment[d].release
    <3>1. ASSUME NEW n \in history PROVE n \in deployment[d].release
      BY <2>3, <3>1 DEF Numbers, Changed
    <3>2. ASSUME NEW m \in deployment[d].release PROVE m \in history
      BY <2>3, <3>2 DEF Numbers, Pending, Changed
    <3> QED
      BY <3>1, <3>2
  <2>5. KnowsHistory'
    BY <1>1, <2>3, <2>4 DEF KnowsHistory, MigratorTypeOK, Undeployed, DeploymentRow
  <2> QED
    BY <2>1, <2>2, <2>5 DEF ExecutedIsRecorded
<1>6. ASSUME NEW d \in Deployments, Leave(d) PROVE MigratorInv'
  BY <1>6 DEF Leave, MigratorTypeOK, OneDeploys, KnowsHistory, ExecutedIsRecorded, Undeployed
<1>7. CASE UNCHANGED migratorVars
  BY <1>7 DEF migratorVars, MigratorTypeOK, OneDeploys, KnowsHistory, ExecutedIsRecorded
<1> QED
  BY <1>2, <1>3, <1>4, <1>5, <1>6, <1>7 DEF MigratorNext

LEMMA MigratorAlways == MigratorSpec => []MigratorInv
<1> QED
  BY InitiallyUndeployed, StepKeepsMigratorInv, PTL DEF MigratorSpec

(* Any number of deployments of any releases, overlapping, failing and      *)
(* dying: the schema is what is recorded, and no migration ran twice.       *)
THEOREM Recorded == MigratorSpec => []ExecutedIsRecorded
<1>1. MigratorInv => ExecutedIsRecorded
  BY DEF MigratorInv
<1> QED
  BY <1>1, MigratorAlways, PTL

(* A deployment that reports success leaves exactly its release.            *)
THEOREM Deployed == MigratorSpec => []DeployedIsRelease
<1>1. MigratorInv => DeployedIsRelease
  BY DEF MigratorInv, KnowsHistory, DeployedIsRelease
<1> QED
  BY <1>1, MigratorAlways, PTL

-----------------------------------------------------------------------------
(* What Schedule promises for all customers, documents, services, providers *)
(* and times, and any number of requests.                                   *)

AnyRequest == {AtRest} \cup AssignRequest \cup BookRequest \cup MergeRequest

(* The time a booking takes was the duration of its service when it began.  *)
LastsAService ==
  \A q \in Requesters : request[q].op = "book" =>
    \E m \in Minutes : request[q].ends = request[q].of.starts + m

(* The two records of a merge are different; those it has locked are active *)
(* until it commits, and no other merge has them.                           *)
MergesAreSafe ==
  \A q \in Requesters : request[q].op = "merge" =>
    /\ request[q].from # request[q].to /\ request[q].held \subseteq {request[q].from, request[q].to}
    /\ \A c \in request[q].held :
         /\ clients[c].status = "active"
         /\ \A r \in Requesters \ {q} : request[r].op = "merge" => c \notin request[r].held

ScheduleInv ==
  /\ ScheduleTypeOK /\ bookings \in [BookingKeys -> BookingRow \cup {NoBooking}]
  /\ request \in [Requesters -> AnyRequest]
  /\ LastsAService /\ MergesAreSafe /\ NoDoubleBooking /\ MergesEnd /\ LinksResolve

(* The smaller of at most two customers is one of them.                     *)
LEMMA LowerOfTwo ==
  ASSUME NEW a \in Clients, NEW b \in Clients, NEW S \in SUBSET {a, b}, S # {}
  PROVE  Min(S) \in S
<1>0. a \in Int /\ b \in Int
  BY ScheduleAssumption
<1>1. \E x \in S : \A y \in S : x <= y
  <2>1. CASE a \in S /\ (b \notin S \/ a <= b)
    <3>1. \A y \in S : a <= y
      BY <1>0, <2>1
    <3> QED
      BY <2>1, <3>1
  <2>2. CASE b \in S /\ (a \notin S \/ b <= a)
    <3>1. \A y \in S : b <= y
      BY <1>0, <2>2
    <3> QED
      BY <2>2, <3>1
  <2>3. a \in S \/ b \in S
    OBVIOUS
  <2>4. a <= b \/ b <= a
    BY <1>0
  <2> QED
    BY <2>1, <2>2, <2>3, <2>4
<1> QED
  BY <1>1 DEF Min

LEMMA RequestsAreRequests ==
  ASSUME NEW r \in AnyRequest
  PROVE  /\ r.op \in {"rest", "assign", "book", "merge"}
         /\ r.op = "assign" => r \in AssignRequest
         /\ r.op = "book" => r \in BookRequest
         /\ r.op = "merge" => r \in MergeRequest
         /\ AtRest \in AnyRequest /\ AtRest.op = "rest"
  BY DEF AnyRequest, AtRest, AssignRequest, BookRequest, MergeRequest

LEMMA BookingsAreBookings ==
  ASSUME NEW b \in BookingRow
  PROVE  /\ b.of \in Wanted /\ b.ends \in Nat /\ b.status \in DOMAIN BookingMoves /\ b # NoBooking
         /\ b.of.starts \in Nat /\ b.of.provider \in Providers /\ b.of.client \in Clients
         /\ \A s \in DOMAIN BookingMoves : [b EXCEPT !.status = s] \in BookingRow
<1>1. PICK w \in Wanted, m \in Minutes, s \in DOMAIN BookingMoves :
        b = [of |-> w, ends |-> w.starts + m, status |-> s]
  BY DEF BookingRow
<1>2. w.starts \in Nat /\ m \in Nat /\ w.provider \in Providers /\ w.client \in Clients
  BY ScheduleAssumption DEF Wanted
<1>3. b # NoBooking
  BY <1>1, <1>2 DEF NoBooking, BookingMoves
<1>4. ASSUME NEW z \in DOMAIN BookingMoves PROVE [b EXCEPT !.status = z] \in BookingRow
  <2>1. [b EXCEPT !.status = z] = [of |-> w, ends |-> w.starts + m, status |-> z]
    BY <1>1
  <2> QED
    BY <2>1 DEF BookingRow
<1> QED
  BY <1>1, <1>2, <1>3, <1>4

LEMMA ScheduleBegins == ScheduleInit => ScheduleInv
<1> SUFFICES ASSUME ScheduleInit PROVE ScheduleInv
  OBVIOUS
<1>1. ScheduleTypeOK /\ bookings \in [BookingKeys -> BookingRow \cup {NoBooking}]
      /\ request \in [Requesters -> AnyRequest]
  BY ScheduleAssumption DEF ScheduleInit, ScheduleTypeOK, ClientRow, NoClient, AnyRequest
<1>2. LastsAService /\ MergesAreSafe
  BY DEF ScheduleInit, LastsAService, MergesAreSafe, AtRest
<1>3. NoDoubleBooking
  BY DEF ScheduleInit, NoDoubleBooking
<1>4. MergesEnd /\ LinksResolve
  BY ScheduleAssumption DEF ScheduleInit, MergesEnd, LinksResolve, NoClient
<1> QED
  BY <1>1, <1>2, <1>3, <1>4 DEF ScheduleInv

(* A request that begins, ends or goes on leaves what others hold.          *)
LEMMA RequestsKeep ==
  ASSUME ScheduleInv, NEW q \in Requesters, NEW r \in AnyRequest,
         request' = [request EXCEPT ![q] = r],
         r.op = "book" => \E m \in Minutes : r.ends = r.of.starts + m,
         r.op = "merge" =>
           /\ r.from # r.to /\ r.held \subseteq {r.from, r.to}
           /\ \A c \in r.held :
                /\ clients'[c].status = "active"
                /\ \A p \in Requesters \ {q} : request[p].op = "merge" => c \notin request[p].held,
         \A p \in Requesters \ {q} : request[p].op = "merge" =>
           \A c \in request[p].held : clients[c].status = "active" => clients'[c].status = "active"
  PROVE  request' \in [Requesters -> AnyRequest] /\ LastsAService' /\ MergesAreSafe'
<1>1. request' \in [Requesters -> AnyRequest] /\ request'[q] = r
      /\ \A p \in Requesters \ {q} : request'[p] = request[p]
  BY DEF ScheduleInv
<1>2. LastsAService'
  BY <1>1 DEF ScheduleInv, LastsAService
<1>3. MergesAreSafe'
  BY <1>1 DEF ScheduleInv, MergesAreSafe
<1> QED
  BY <1>1, <1>2, <1>3

(* Nothing a merge has locked is changed by anybody else.                   *)
LEMMA ScheduleSteps == ScheduleInv /\ [ScheduleNext]_scheduleVars => ScheduleInv'
<1> SUFFICES ASSUME ScheduleInv, [ScheduleNext]_scheduleVars PROVE ScheduleInv'
  OBVIOUS
<1> USE DEF ScheduleInv
<1>1. ASSUME NEW s \in Offers, NEW m \in Minutes, CreateService(s, m) PROVE ScheduleInv'
  BY <1>1 DEF CreateService, ScheduleTypeOK, OfferRow, LastsAService, MergesAreSafe, NoDoubleBooking,
              MergesEnd, LinksResolve
<1>2. ASSUME NEW s \in Offers, NEW m \in Minutes, NEW active \in BOOLEAN, UpdateService(s, m, active)
      PROVE  ScheduleInv'
  BY <1>2 DEF UpdateService, ScheduleTypeOK, OfferRow, LastsAService, MergesAreSafe, NoDoubleBooking,
              MergesEnd, LinksResolve
<1>3. ASSUME NEW c \in Clients, NEW new \in [status : {"active", "inactive"}, into : {{}}],
             clients' = [clients EXCEPT ![c] = new],
             clients[c].status # "merged", ClientFree(c) \/ clients[c] = NoClient,
             UNCHANGED <<offers, working, assigned, links, bookings, request>>
      PROVE  ScheduleInv'
  <2>1. ScheduleTypeOK'
    BY <1>3 DEF ScheduleTypeOK, ClientRow
  <2>2. MergesAreSafe'
    BY <1>3 DEF MergesAreSafe, ClientFree, NoClient, ScheduleTypeOK
  <2>3. MergesEnd'
    <3>1. SUFFICES ASSUME NEW S \in SUBSET Clients, S # {}
                   PROVE  \E d \in S : clients'[d].status # "merged" \/ clients'[d].into \cap S = {}
      BY DEF MergesEnd
    <3>2. PICK d \in S : clients[d].status # "merged" \/ clients[d].into \cap S = {}
      BY <3>1 DEF MergesEnd
    <3>3. clients'[d] = clients[d] \/ clients'[d].status # "merged"
      BY <1>3 DEF ScheduleTypeOK
    <3> QED
      BY <3>2, <3>3
  <2>4. LinksResolve'
    BY <1>3 DEF LinksResolve, ScheduleTypeOK
  <2> QED
    BY <1>3, <2>1, <2>2, <2>3, <2>4 DEF LastsAService, NoDoubleBooking
<1>4. ASSUME NEW c \in Clients, CreateCustomer(c) PROVE ScheduleInv'
  <2>1. PICK new \in [status : {"active", "inactive"}, into : {{}}] :
          new = [status |-> "active", into |-> {}]
    OBVIOUS
  <2>2. clients' = [clients EXCEPT ![c] = new] /\ clients[c] = NoClient /\ clients[c].status # "merged"
    BY <1>4, <2>1 DEF CreateCustomer, NoClient
  <2>3. UNCHANGED <<offers, working, assigned, links, bookings, request>>
    BY <1>4 DEF CreateCustomer
  <2> QED
    BY <1>3, <2>2, <2>3
<1>5. ASSUME NEW c \in Clients, NEW st \in {"active", "inactive"}, UpdateCustomer(c, st) PROVE ScheduleInv'
  <2>1. clients[c] \in ClientRow /\ clients[c].status # "merged"
    BY <1>5 DEF UpdateCustomer, ScheduleTypeOK, NoClient
  <2>2. [clients[c] EXCEPT !.status = st] \in [status : {"active", "inactive"}, into : {{}}]
    BY <2>1 DEF ClientRow
  <2>3. clients' = [clients EXCEPT ![c] = [clients[c] EXCEPT !.status = st]]
    BY <1>5 DEF UpdateCustomer
  <2> QED
    BY <1>3, <1>5, <2>1, <2>2, <2>3 DEF UpdateCustomer
<1>6. ASSUME NEW p \in Providers, Revoke(p) \/ Reinstate(p) PROVE ScheduleInv'
  <2>1. assigned' \in [Providers \X Offers -> {"none", "on", "off"}]
    BY <1>6 DEF Revoke, Reinstate, ScheduleTypeOK
  <2>2. working' \subseteq Providers /\ UNCHANGED <<offers, clients, links, bookings, request>>
    BY <1>6 DEF Revoke, Reinstate, ScheduleTypeOK
  <2> QED
    BY <2>1, <2>2 DEF ScheduleTypeOK, LastsAService, MergesAreSafe, NoDoubleBooking, MergesEnd, LinksResolve
<1>7. ASSUME NEW k \in BookingKeys, NEW st \in DOMAIN BookingMoves, MoveBooking(k, st) PROVE ScheduleInv'
  <2> DEFINE new == [bookings[k] EXCEPT !.status = st]
  <2>1. bookings[k] \in BookingRow /\ st \in BookingMoves[bookings[k].status]
    BY <1>7 DEF MoveBooking
  <2>2. new \in BookingRow /\ new.of = bookings[k].of /\ new.ends = bookings[k].ends /\ new # NoBooking
    BY <2>1, BookingsAreBookings
  <2>3. /\ bookings' = [bookings EXCEPT ![k] = new]
        /\ UNCHANGED <<offers, working, assigned, clients, links, request>>
    BY <1>7 DEF MoveBooking
  <2> HIDE DEF new
  <2>4. ScheduleTypeOK' /\ bookings' \in [BookingKeys -> BookingRow \cup {NoBooking}]
    BY <2>2, <2>3 DEF ScheduleTypeOK
  <2>5. NoDoubleBooking'
    <3> DEFINE before == {j \in BookingKeys :
                            bookings[j] # NoBooking /\ \E z \in BookingMoves[bookings[j].status] : TRUE}
               after == {j \in BookingKeys :
                           bookings'[j] # NoBooking /\ \E z \in BookingMoves[bookings'[j].status] : TRUE}
    <3>1. k \in before
      BY <2>1, BookingsAreBookings
    <3>2. after \subseteq before
      BY <2>3, <3>1
    <3>3. \A j \in before : bookings'[j].of = bookings[j].of /\ bookings'[j].ends = bookings[j].ends
      BY <2>2, <2>3
    <3>4. \A i, j \in before : i # j /\ bookings[i].of.provider = bookings[j].of.provider
            => bookings[i].ends <= bookings[j].of.starts \/ bookings[j].ends <= bookings[i].of.starts
      BY DEF NoDoubleBooking
    <3> HIDE DEF before
    <3>5. \A i, j \in after : i # j /\ bookings'[i].of.provider = bookings'[j].of.provider
            => bookings'[i].ends <= bookings'[j].of.starts \/ bookings'[j].ends <= bookings'[i].of.starts
      <4> HIDE DEF after
      <4> QED
        BY <3>2, <3>3, <3>4
    <3> QED
      BY <3>5 DEF NoDoubleBooking
  <2> QED
    BY <2>3, <2>4, <2>5 DEF LastsAService, MergesAreSafe, MergesEnd, LinksResolve
<1>8. ASSUME NEW q \in Requesters, NEW r \in AnyRequest, request' = [request EXCEPT ![q] = r],
             r.op = "book" => \E m \in Minutes : r.ends = r.of.starts + m,
             r.op = "merge" =>
               /\ r.from # r.to /\ r.held \subseteq {r.from, r.to}
               /\ \A c \in r.held :
                    /\ clients[c].status = "active"
                    /\ \A p \in Requesters \ {q} : request[p].op = "merge" => c \notin request[p].held,
             UNCHANGED <<offers, working, clients, links, bookings>>,
             assigned' \in [Providers \X Offers -> {"none", "on", "off"}]
      PROVE  ScheduleInv'
  <2>1. request' \in [Requesters -> AnyRequest] /\ LastsAService' /\ MergesAreSafe'
    BY <1>8, RequestsKeep
  <2>2. ScheduleTypeOK'
    BY <1>8, <2>1 DEF ScheduleTypeOK, AnyRequest
  <2> QED
    BY <1>8, <2>1, <2>2 DEF NoDoubleBooking, MergesEnd, LinksResolve
<1>9. ASSUME NEW q \in Requesters, NEW from \in Clients, NEW to \in Clients, MergeBegin(q, from, to)
      PROVE  ScheduleInv'
  <2> DEFINE r == [op |-> "merge", from |-> from, to |-> to, held |-> {}]
  <2>1. r \in AnyRequest
    BY DEF AnyRequest, MergeRequest
  <2>2. request' = [request EXCEPT ![q] = r] /\ from # to
    BY <1>9 DEF MergeBegin, RequestBegins
  <2>3. UNCHANGED <<offers, working, clients, links, bookings, assigned>>
    BY <1>9 DEF MergeBegin
  <2> QED
    BY <1>8, <2>1, <2>2, <2>3 DEF ScheduleTypeOK
<1>10. ASSUME NEW q \in Requesters, MergeLock(q) PROVE ScheduleInv'
  <2> DEFINE old == request[q]
             c == Min({old.from, old.to} \ old.held)
             r == [old EXCEPT !.held = @ \cup {c}]
  <2>1. old \in MergeRequest
    BY <1>10, RequestsAreRequests DEF MergeLock
  <2>2. c \in {old.from, old.to} \ old.held
    BY <1>10, <2>1, LowerOfTwo DEF MergeLock, MergeRequest
  <2>3. clients[c].status = "active" /\ ClientFree(c) /\ request' = [request EXCEPT ![q] = r]
    BY <1>10 DEF MergeLock
  <2> HIDE DEF c
  <2>4. r \in AnyRequest /\ r.op = "merge" /\ r.held = old.held \cup {c}
        /\ r.from = old.from /\ r.to = old.to
    BY <2>1, <2>2 DEF AnyRequest, MergeRequest
  <2>5. old.op = "merge" /\ UNCHANGED <<offers, working, clients, links, bookings, assigned>>
    BY <1>10 DEF MergeLock
  <2> HIDE DEF r
  <2>6. \A d \in r.held : /\ clients[d].status = "active"
                          /\ \A p \in Requesters \ {q} : request[p].op = "merge" => d \notin request[p].held
    BY <2>3, <2>4, <2>5 DEF MergesAreSafe, ClientFree
  <2> QED
    BY <1>8, <2>2, <2>3, <2>4, <2>5, <2>6 DEF ScheduleTypeOK, MergesAreSafe
<1>11. ASSUME NEW q \in Requesters, MergeCommit(q) PROVE ScheduleInv'
  <2> DEFINE r == request[q]
             new == [status |-> "merged", into |-> {r.to}]
  <2>1. r \in MergeRequest /\ r.op = "merge" /\ r.held = {r.from, r.to}
    BY <1>11, RequestsAreRequests DEF MergeCommit
  <2>2. /\ r.from \in Clients /\ r.to \in Clients /\ r.from # r.to
        /\ clients[r.from].status = "active" /\ clients[r.to].status = "active"
    BY <2>1 DEF MergesAreSafe, MergeRequest
  <2>3. /\ clients' = [clients EXCEPT ![r.from] = new]
        /\ links' = [d \in Documents |-> IF links[d] = r.from THEN r.to ELSE links[d]]
        /\ request' = [request EXCEPT ![q] = AtRest]
        /\ UNCHANGED <<offers, working, assigned, bookings>>
    BY <1>11 DEF MergeCommit, RequestEnds
  <2>4. new \in ClientRow /\ new.status = "merged" /\ new.into = {r.to}
    BY <2>2 DEF ClientRow
  <2>5. AtRest \in AnyRequest /\ AtRest.op = "rest"
    BY DEF AtRest, AnyRequest
  <2> HIDE DEF new
  <2>6. \A p \in Requesters \ {q} : request[p].op = "merge" =>
           \A c \in request[p].held : clients[c].status = "active" => clients'[c].status = "active"
    BY <2>1, <2>3 DEF MergesAreSafe, ScheduleTypeOK
  <2>7. request' \in [Requesters -> AnyRequest] /\ LastsAService' /\ MergesAreSafe'
    BY <2>3, <2>5, <2>6, RequestsKeep
  <2>8. ScheduleTypeOK'
    BY <2>2, <2>3, <2>4, <2>7 DEF ScheduleTypeOK, AnyRequest
  <2>9. MergesEnd'
    <3>1. SUFFICES ASSUME NEW S \in SUBSET Clients, S # {}
                   PROVE  \E d \in S : clients'[d].status # "merged" \/ clients'[d].into \cap S = {}
      BY DEF MergesEnd
    <3>2. CASE r.from \in S /\ r.to \notin S
      BY <2>2, <2>3, <2>4, <3>2 DEF ScheduleTypeOK
    <3>3. CASE r.to \in S
      BY <2>2, <2>3, <3>3 DEF ScheduleTypeOK
    <3>4. CASE r.from \notin S
      <4>1. PICK d \in S : clients[d].status # "merged" \/ clients[d].into \cap S = {}
        BY <3>1 DEF MergesEnd
      <4> QED
        BY <2>3, <3>4, <4>1 DEF ScheduleTypeOK
    <3> QED
      BY <3>2, <3>3, <3>4
  <2>10. LinksResolve'
    BY <2>2, <2>3, <2>4 DEF LinksResolve, ScheduleTypeOK
  <2> QED
    BY <2>3, <2>7, <2>8, <2>9, <2>10 DEF NoDoubleBooking
<1>12. ASSUME NEW q \in Requesters, NEW p \in Providers, NEW s \in Offers, NEW active \in BOOLEAN,
              AssignBegin(q, p, s, active)
       PROVE  ScheduleInv'
  <2> DEFINE r == [op |-> "assign", provider |-> p, offer |-> s, active |-> active]
  <2>1. r \in AnyRequest
    BY DEF AnyRequest, AssignRequest
  <2>2. request' = [request EXCEPT ![q] = r]
    BY <1>12 DEF AssignBegin, RequestBegins
  <2>3. UNCHANGED <<offers, working, clients, links, bookings, assigned>>
    BY <1>12 DEF AssignBegin
  <2> QED
    BY <1>8, <2>1, <2>2, <2>3 DEF ScheduleTypeOK
<1>13. ASSUME NEW q \in Requesters, AssignCommit(q) PROVE ScheduleInv'
  <2>1. request[q] \in AssignRequest
    BY <1>13, RequestsAreRequests DEF AssignCommit
  <2>2. assigned' \in [Providers \X Offers -> {"none", "on", "off"}]
    BY <1>13, <2>1 DEF AssignCommit, ScheduleTypeOK
  <2>3. AtRest \in AnyRequest /\ AtRest.op = "rest"
    BY DEF AtRest, AnyRequest
  <2> QED
    BY <1>8, <1>13, <2>2, <2>3 DEF AssignCommit, RequestEnds
<1>14. ASSUME NEW q \in Requesters, NEW k \in BookingKeys, NEW w \in Wanted, BookBegin(q, k, w)
       PROVE  ScheduleInv'
  <2> DEFINE r == [op |-> "book", key |-> k, of |-> w, ends |-> w.starts + offers[w.offer].minutes]
  <2>1. w.starts \in Nat /\ offers[w.offer].minutes \in Minutes /\ offers[w.offer].minutes \in Nat
    BY <1>14, ScheduleAssumption DEF BookBegin, Bookable, ScheduleTypeOK, OfferRow, Wanted
  <2>2. r \in AnyRequest
    BY <2>1 DEF AnyRequest, BookRequest
  <2>3. request' = [request EXCEPT ![q] = r]
    BY <1>14 DEF BookBegin, RequestBegins
  <2>4. UNCHANGED <<offers, working, clients, links, bookings, assigned>>
    BY <1>14 DEF BookBegin
  <2> QED
    BY <1>8, <2>1, <2>2, <2>3, <2>4 DEF ScheduleTypeOK
<1>15. ASSUME NEW q \in Requesters, BookCommit(q) PROVE ScheduleInv'
  <2> DEFINE r == request[q]
             new == [of |-> r.of, ends |-> r.ends, status |-> "scheduled"]
  <2>1. r \in BookRequest
    BY <1>15, RequestsAreRequests DEF BookCommit
  <2>2. new \in BookingRow /\ new.of = r.of /\ new.ends = r.ends /\ r.key \in BookingKeys
    <3>1. PICK m \in Minutes : r.ends = r.of.starts + m
      BY <1>15 DEF BookCommit, LastsAService
    <3> QED
      BY <2>1, <3>1 DEF BookRequest, BookingRow, BookingMoves
  <2>3. /\ bookings' = [bookings EXCEPT ![r.key] = new]
        /\ ProviderFree(new.of, new.ends)
        /\ request' = [request EXCEPT ![q] = AtRest]
        /\ UNCHANGED <<offers, working, assigned, clients, links>>
    BY <1>15 DEF BookCommit, RequestEnds
  <2> HIDE DEF new
  <2>4. \A j \in BookingKeys :
          bookings[j] # NoBooking /\ (\E s \in BookingMoves[bookings[j].status] : TRUE)
            /\ bookings[j].of.provider = new.of.provider
          => bookings[j].ends <= new.of.starts \/ new.ends <= bookings[j].of.starts
    <3>1. SUFFICES ASSUME NEW j \in BookingKeys, bookings[j] # NoBooking,
                          \E s \in BookingMoves[bookings[j].status] : TRUE,
                          bookings[j].of.provider = new.of.provider
                   PROVE  bookings[j].ends <= new.of.starts \/ new.ends <= bookings[j].of.starts
      OBVIOUS
    <3>2. bookings[j] \in BookingRow
      BY <3>1
    <3>3. HoldsTime(bookings[j].status)
      BY <3>1, <3>2, BookingsAreBookings DEF HoldsTime, BookingMoves
    <3>4. ~Overlaps(bookings[j], new.of, new.ends)
      BY <2>3, <3>1, <3>3 DEF ProviderFree
    <3> QED
      BY <2>2, <3>2, <3>4, BookingsAreBookings DEF Overlaps
  <2>5. NoDoubleBooking'
    BY <2>2, <2>3, <2>4 DEF NoDoubleBooking
  <2>6. ScheduleTypeOK' /\ bookings' \in [BookingKeys -> BookingRow \cup {NoBooking}]
        /\ request' \in [Requesters -> AnyRequest] /\ LastsAService' /\ MergesAreSafe'
    <3>1. AtRest \in AnyRequest /\ AtRest.op = "rest"
      BY DEF AtRest, AnyRequest
    <3>2. request' \in [Requesters -> AnyRequest] /\ LastsAService' /\ MergesAreSafe'
      BY <2>3, <3>1, RequestsKeep
    <3> QED
      BY <2>2, <2>3, <3>2 DEF ScheduleTypeOK, AnyRequest
  <2> QED
    BY <2>3, <2>5, <2>6 DEF MergesEnd, LinksResolve
<1>16. ASSUME NEW q \in Requesters, RequestFails(q) PROVE ScheduleInv'
  <2>1. AtRest \in AnyRequest /\ AtRest.op = "rest"
    BY DEF AtRest, AnyRequest
  <2>2. request' = [request EXCEPT ![q] = AtRest]
        /\ UNCHANGED <<offers, working, assigned, clients, links, bookings>>
    BY <1>16 DEF RequestFails, RequestEnds
  <2> QED
    BY <1>8, <2>1, <2>2 DEF ScheduleTypeOK
<1>17. CASE UNCHANGED scheduleVars
  BY <1>17 DEF scheduleVars, ScheduleTypeOK, LastsAService, MergesAreSafe, NoDoubleBooking,
               MergesEnd, LinksResolve
<1> HIDE DEF ScheduleInv
<1> QED
  BY <1>1, <1>2, <1>4, <1>5, <1>6, <1>7, <1>9, <1>10, <1>11, <1>12, <1>13, <1>14, <1>15, <1>16, <1>17
     DEF ScheduleNext

THEOREM ScheduleKept == ScheduleSpec => []ScheduleInv
<1> QED
  BY ScheduleBegins, ScheduleSteps, PTL DEF ScheduleSpec

(* Rows have their columns, and merges lead to a customer that stands for   *)
(* itself.                                                                  *)
THEOREM MergesLeadSomewhere == ScheduleSpec => [](ScheduleTypeOK /\ MergesEnd)
<1>1. ScheduleInv => ScheduleTypeOK /\ MergesEnd
  BY DEF ScheduleInv
<1> QED
  BY <1>1, ScheduleKept, PTL

(* No provider is booked twice at one time, whatever services, customers,   *)
(* assignments and retries change while a booking is being made.            *)
THEOREM NeverDoubleBooked == ScheduleSpec => []NoDoubleBooking
<1>1. ScheduleInv => NoDoubleBooking
  BY DEF ScheduleInv
<1> QED
  BY <1>1, ScheduleKept, PTL

(* Imported documents lead to the customer who stands for the person.       *)
THEOREM DocumentsResolve == ScheduleSpec => []LinksResolve
<1>1. ScheduleInv => LinksResolve
  BY DEF ScheduleInv
<1> QED
  BY <1>1, ScheduleKept, PTL

-----------------------------------------------------------------------------
(* What Forms promises, for any number of forms and requests and whatever   *)
(* can be filled in.  A keyed or pinned form sends one key only, which the  *)
(* server takes once; a form without keys sends again only what it knows to *)
(* have been refused; and what is sent belongs to the form that is open.    *)

Rejected == {"refused", "conflict"}
Fates == {"way", "taken", "repeated", "refused", "conflict"}

(* What the open form knows of the requests it sent.                        *)
Knows(f, i) ==
  /\ sent[i].kind = f.kind
  /\ f.kind = "keyed" => sent[i].key = {<<openings, 0>>}
  /\ f.kind = "pinned" => f.pinned = {sent[i]}
  /\ f.kind = "keyless" => fate[i] \in Rejected \/ f.error = "uncertain" \/ f.pending = {i}

FormFacts(f) ==
  /\ f.kind \in {"keyed", "keyless"} => f.pinned = {}
  /\ f.pinned = {} \/ \E r : f.pinned = {r} /\ r.opening = openings /\ r.kind = f.kind /\ r.key # {}
  /\ f.pending # {} => f.latch /\ f.error = "none"
  /\ \A i \in DOMAIN sent : sent[i].opening = openings => Knows(f, i)

OneKey(i, j) ==
  sent[i].opening = sent[j].opening =>
    /\ sent[i].kind = sent[j].kind
    /\ sent[i].kind \in {"keyed", "pinned"} => sent[i].key = sent[j].key /\ sent[i].key # {}
    /\ sent[i].kind = "keyless" /\ i < j => fate[i] \in Rejected

FormsInv ==
  /\ FormsTypeOK /\ TakenOnce
  /\ \A i \in DOMAIN sent : sent[i].opening <= openings
  /\ \A i, j \in DOMAIN sent : OneKey(i, j)
  /\ form # Closed => FormFacts(form)

LEMMA FormsTypes ==
  ASSUME FormsTypeOK
  PROVE  /\ form # Closed => form \in Form
         /\ sent \in Seq(Request) /\ fate \in Seq(Fates) /\ DOMAIN sent = DOMAIN fate
         /\ DOMAIN sent = 1 .. Len(sent) /\ Len(sent) \in Nat /\ openings \in Nat
         /\ \A i \in DOMAIN sent : sent[i] \in Request /\ fate[i] \in Fates
  BY FormsAssumption DEF FormsTypeOK, Fates

(* A form that stays, or knows less of what it need not know.               *)
LEMMA FormOnly ==
  ASSUME FormsInv, form # Closed, UNCHANGED <<openings, sent, fate>>,
         NEW new \in Form, form' = new, new.kind = form.kind,
         new.pinned = form.pinned \/ (form.kind = "task" /\ new.pinned = {}),
         new.pending # {} => new.latch /\ new.error = "none",
         form.error = "uncertain" => new.error = "uncertain" \/ form.kind # "keyless",
         \A i \in DOMAIN sent : form.pending = {i} =>
           new.pending = {i} \/ new.error = "uncertain" \/ fate[i] \in Rejected
  PROVE  FormsInv'
<1>1. FormsTypeOK'
  BY DEF FormsInv, FormsTypeOK
<1>2. TakenOnce' /\ (\A i \in DOMAIN sent : sent[i].opening <= openings)'
  BY DEF FormsInv, TakenOnce
<1>3. (\A i, j \in DOMAIN sent : OneKey(i, j))'
  BY DEF FormsInv, OneKey
<1>4. ASSUME NEW i \in DOMAIN sent, sent[i].opening = openings PROVE Knows(new, i)
  BY <1>4 DEF FormsInv, FormFacts, Knows
<1>5. FormFacts(new)
  <2>1. new.kind \in {"keyed", "keyless"} => new.pinned = {}
    BY DEF FormsInv, FormFacts
  <2>2. new.pinned = {} \/ \E r : new.pinned = {r} /\ r.opening = openings /\ r.kind = new.kind /\ r.key # {}
    BY DEF FormsInv, FormFacts
  <2> QED
    BY <1>4, <2>1, <2>2 DEF FormFacts
<1>6. FormFacts(form)'
  BY <1>5 DEF FormFacts, Knows
<1> QED
  BY <1>1, <1>2, <1>3, <1>6 DEF FormsInv

LEMMA FormCloses ==
  ASSUME FormsInv, UNCHANGED <<openings, sent, fate>>, form' = Closed
  PROVE  FormsInv'
<1>1. FormsTypeOK'
  BY DEF FormsInv, FormsTypeOK
<1>2. TakenOnce' /\ (\A i \in DOMAIN sent : sent[i].opening <= openings)'
  BY DEF FormsInv, TakenOnce
<1>3. (\A i, j \in DOMAIN sent : OneKey(i, j))'
  BY DEF FormsInv, OneKey
<1> QED
  BY <1>1, <1>2, <1>3 DEF FormsInv

LEMMA FormsBegin == FormsInit => FormsInv
<1> SUFFICES ASSUME FormsInit PROVE FormsInv
  OBVIOUS
<1>1. sent = <<>> /\ fate = <<>> /\ DOMAIN sent = {} /\ Len(sent) = 0 /\ Len(fate) = 0
  <2>1. DOMAIN sent = 1 .. 0
    BY DEF FormsInit
  <2> QED
    BY <2>1 DEF FormsInit
<1>2. FormsTypeOK
  BY <1>1, FormsAssumption DEF FormsInit, FormsTypeOK
<1> QED
  BY <1>1, <1>2 DEF FormsInit, FormsInv, TakenOnce

LEMMA FormsOpen ==
  ASSUME FormsInv, NEW kind \in FormKinds, NEW v \in Fills, Open(kind, v)
  PROVE  FormsInv'
<1> DEFINE new == [kind |-> kind, stage |-> "edit", was |-> "edit", values |-> v, pinned |-> {},
                   error |-> "none", pending |-> {}, busy |-> FALSE, latch |-> FALSE]
<1>1. /\ form' = new /\ openings' = openings + 1 /\ openings < MaxOpenings /\ UNCHANGED <<sent, fate>>
      /\ openings \in Nat /\ MaxOpenings \in Nat /\ openings' \in 0 .. MaxOpenings
  BY FormsAssumption DEF Open, FormsInv, FormsTypeOK
<1>2. new \in Form
  BY DEF Form
<1>3. FormsTypeOK'
  BY <1>1, <1>2 DEF FormsInv, FormsTypeOK
<1>4. \A i \in DOMAIN sent : sent[i].opening <= openings /\ sent[i].opening \in Nat
  BY FormsTypes DEF FormsInv, Request
<1>5. \A i \in DOMAIN sent' : sent'[i].opening <= openings' /\ sent'[i].opening # openings'
  BY <1>1, <1>4
<1>6. TakenOnce'
  BY <1>1 DEF FormsInv, TakenOnce
<1>7. (\A i, j \in DOMAIN sent : OneKey(i, j))'
  BY <1>1 DEF FormsInv, OneKey
<1>8. FormFacts(form)'
  BY <1>1, <1>5 DEF FormFacts
<1> QED
  BY <1>3, <1>5, <1>6, <1>7, <1>8 DEF FormsInv

(* Whatever the user does but confirm, and whatever is displayed.           *)
LEMMA FormsEdit ==
  ASSUME FormsInv,
         (\E v \in Fills : FillIn(v)) \/ ShowReview \/ Back \/ Cancel \/ KeepEditing \/ Render
  PROVE  FormsInv'
<1>1. form # Closed
  BY DEF FillIn, ShowReview, Back, Cancel, KeepEditing, Render, Closed
<1>2. PICK f \in Form : f = form
  BY <1>1, FormsTypes DEF FormsInv
<1>3. f.pending # {} => f.latch /\ f.error = "none"
  BY <1>1, <1>2 DEF FormsInv, FormFacts
<1>4. UNCHANGED <<openings, sent, fate>>
  BY DEF FillIn, ShowReview, Back, Cancel, KeepEditing, Render
<1>5. ASSUME NEW new \in Form, form' = new, new.kind = f.kind, new.pinned = f.pinned, new.pending = f.pending,
             f.pending # {} => new.latch /\ new.error = "none", f.error = "uncertain" => new.error = "uncertain"
      PROVE  FormsInv'
  <2>1. /\ new.kind = form.kind
        /\ new.pinned = form.pinned \/ (form.kind = "task" /\ new.pinned = {})
        /\ form.error = "uncertain" => new.error = "uncertain" \/ form.kind # "keyless"
        /\ \A i \in DOMAIN sent : form.pending = {i} =>
             new.pending = {i} \/ new.error = "uncertain" \/ fate[i] \in Rejected
    BY <1>2, <1>5
  <2>2. new.pending # {} => new.latch /\ new.error = "none"
    BY <1>5
  <2> QED
    BY <1>1, <1>4, <1>5, <2>1, <2>2, FormOnly
<1>6. CASE \E v \in Fills : FillIn(v)
  <2>1. PICK v \in Fills : form' = [f EXCEPT !.values = v]
    BY <1>2, <1>6 DEF FillIn
  <2>2. PICK new : new = [f EXCEPT !.values = v]
    OBVIOUS
  <2>3. new \in Form /\ new.kind = f.kind /\ new.pinned = f.pinned /\ new.pending = f.pending
        /\ new.latch = f.latch /\ new.error = f.error
    BY <2>2 DEF Form
  <2> QED
    BY <1>3, <1>5, <2>1, <2>2, <2>3
<1>7. CASE ShowReview \/ KeepEditing \/ Cancel
  <2>1. PICK s \in {"edit", "review", "discard"}, w \in {"edit", "review"} :
          form' = [f EXCEPT !.stage = s, !.was = w]
    <3>1. CASE ShowReview
      <4>1. form' = [f EXCEPT !.stage = "review", !.was = f.was] /\ f.was \in {"edit", "review"}
        BY <1>2, <3>1 DEF ShowReview, Form
      <4> QED
        BY <4>1
    <3>2. CASE KeepEditing
      <4>1. PICK s : s = IF f.kind = "task" THEN f.was ELSE IF f.error = "none" THEN "edit" ELSE "review"
        OBVIOUS
      <4>2. form' = [f EXCEPT !.stage = s, !.was = f.was] /\ f.was \in {"edit", "review"}
        BY <1>2, <3>2, <4>1 DEF KeepEditing, Form
      <4>3. s \in {"edit", "review", "discard"}
        BY <4>1, <4>2
      <4> QED
        BY <4>2, <4>3
    <3>3. CASE Cancel
      <4>1. form' = [f EXCEPT !.stage = "discard", !.was = f.stage] /\ f.stage \in {"edit", "review"}
        BY <1>2, <3>3 DEF Cancel
      <4> QED
        BY <4>1
    <3> QED
      BY <1>7, <3>1, <3>2, <3>3
  <2>2. PICK new : new = [f EXCEPT !.stage = s, !.was = w]
    OBVIOUS
  <2>3. new \in Form /\ new.kind = f.kind /\ new.pinned = f.pinned /\ new.pending = f.pending
        /\ new.latch = f.latch /\ new.error = f.error
    BY <2>2 DEF Form
  <2> QED
    BY <1>3, <1>5, <2>1, <2>2, <2>3
<1>8. CASE Back
  <2>1. PICK e : e = IF f.kind = "keyless" THEN "none" ELSE f.error
    OBVIOUS
  <2>2. /\ e \in {"none", "refused", "conflict", "uncertain"} /\ (f.error = "uncertain" => e = "uncertain")
        /\ f.error = "none" => e = "none"
    BY <1>2, <1>8, <2>1 DEF Back, Form
  <2>3. PICK new : new = [f EXCEPT !.stage = "edit", !.error = e]
    OBVIOUS
  <2>4. form' = new
    BY <1>2, <1>8, <2>1, <2>3 DEF Back
  <2>5. new \in Form /\ new.kind = f.kind /\ new.pinned = f.pinned /\ new.pending = f.pending
        /\ new.latch = f.latch /\ new.error = e
    BY <2>2, <2>3 DEF Form
  <2> QED
    BY <1>3, <1>5, <2>2, <2>4, <2>5
<1>9. CASE Render
  <2>1. PICK on \in BOOLEAN : on <=> f.pending # {}
    OBVIOUS
  <2>2. PICK new : new = [f EXCEPT !.busy = f.pending # {}, !.latch = @ /\ f.pending # {}]
    OBVIOUS
  <2>3. form' = new
    BY <1>2, <1>9, <2>2 DEF Render
  <2>4. new \in Form /\ new.kind = f.kind /\ new.pinned = f.pinned /\ new.pending = f.pending
        /\ new.error = f.error
    BY <2>2 DEF Form
  <2>5. f.pending # {} => new.latch /\ new.error = "none"
    BY <1>3, <2>2 DEF Form
  <2> QED
    BY <1>5, <2>3, <2>4, <2>5
<1> QED
  BY <1>6, <1>7, <1>8, <1>9

LEMMA FormsConfirm ==
  ASSUME FormsInv, Confirm
  PROVE  FormsInv'
<1>1. form # Closed /\ form.stage = "review"
  BY DEF Confirm, Closed
<1>2. PICK f \in Form : f = form
  BY <1>1, FormsTypes DEF FormsInv
<1>3. f.pending = {} /\ FormFacts(f) /\ (f.kind = "keyless" => f.error # "uncertain")
  <2>1. f.pending # {} => f.latch
    BY <1>1, <1>2 DEF FormsInv, FormFacts
  <2>2. ~f.latch /\ Sendable
    BY <1>2 DEF Confirm, Unready
  <2>3. f.kind = "keyless" => f.error # "uncertain"
    BY <1>2, <2>2, Zenon DEF Sendable
  <2> QED
    BY <1>1, <1>2, <2>1, <2>2, <2>3 DEF FormsInv
<1>4. PICK n, r : n = Len(sent) + 1 /\ r = Command
  OBVIOUS
<1>5. /\ sent \in Seq(Request) /\ fate \in Seq(Fates) /\ DOMAIN sent = DOMAIN fate
      /\ DOMAIN sent = 1 .. Len(sent) /\ Len(sent) \in Nat /\ Len(fate) = Len(sent) /\ openings \in Nat
      /\ \A i \in DOMAIN sent : sent[i] \in Request /\ fate[i] \in Fates
  BY FormsTypes DEF FormsInv, FormsTypeOK
<1>6. ASSUME NEW k \in SUBSET (Nat \X Nat)
      PROVE  /\ Keyed(k) \in Request /\ Keyed(k).opening = openings /\ Keyed(k).kind = f.kind
             /\ Keyed(k).key = k
  BY <1>2, <1>5 DEF Keyed, Request, Form
<1>7. /\ r \in Request /\ r.opening = openings /\ r.kind = f.kind
      /\ f.kind = "keyed" => r.key = {<<openings, 0>>}
      /\ f.kind \in {"pinned", "task"} => r.key # {}
      /\ f.pinned # {} => f.pinned = {r}
  <2>1. CASE f.pinned # {}
    <3>1. PICK p : f.pinned = {p} /\ p.opening = openings /\ p.kind = f.kind /\ p.key # {}
      BY <1>3, <2>1 DEF FormFacts
    <3>2. f.kind # "keyed" /\ f.kind # "keyless"
      BY <1>3, <2>1 DEF FormFacts
    <3>3. r = CHOOSE q \in f.pinned : TRUE
      BY <1>2, <1>4, <2>1, <3>2, Zenon DEF Command
    <3>4. r = p /\ p \in Request
      BY <3>1, <3>3 DEF Form
    <3> QED
      BY <3>1, <3>2, <3>4
  <2>2. CASE f.pinned = {} /\ f.kind = "keyed"
    <3>1. r = Keyed({<<openings, 0>>})
      BY <1>2, <1>4, <2>2, Zenon DEF Command, WithKeyOfOpening
    <3>2. {<<openings, 0>>} \in SUBSET (Nat \X Nat)
      BY <1>5
    <3> QED
      BY <1>6, <2>2, <3>1, <3>2
  <2>3. CASE f.pinned = {} /\ f.kind = "keyless"
    <3>1. r = Keyed({})
      BY <1>2, <1>4, <2>3, Zenon DEF Command, WithoutKey
    <3> QED
      BY <1>6, <2>3, <3>1
  <2>4. CASE f.pinned = {} /\ f.kind \in {"pinned", "task"}
    <3>1. r = Keyed({<<openings, n>>})
      <4>1. f.kind # "keyed" /\ f.kind # "keyless" /\ ~(f.pinned # {})
        BY <2>4
      <4>2. r = WithNewKey
        BY <1>2, <1>4, <4>1, Zenon DEF Command
      <4> QED
        BY <1>4, <4>2 DEF WithNewKey
    <3>2. {<<openings, n>>} \in SUBSET (Nat \X Nat)
      BY <1>4, <1>5
    <3> QED
      BY <1>6, <2>4, <3>1, <3>2
  <2> QED
    BY <2>1, <2>2, <2>3, <2>4 DEF Form, FormKinds
<1>8. PICK pins : pins = IF f.kind \in {"pinned", "task"} THEN {r} ELSE {}
  OBVIOUS
<1>9. PICK new : new = [f EXCEPT !.pinned = pins, !.error = "none", !.pending = {n}, !.latch = TRUE]
  OBVIOUS
<1>10. form' = new /\ sent' = Append(sent, r) /\ fate' = Append(fate, "way") /\ openings' = openings
  BY <1>2, <1>4, <1>8, <1>9 DEF Confirm
<1>11. /\ new \in Form /\ new.kind = f.kind /\ new.pinned = pins /\ new.error = "none"
       /\ new.pending = {n} /\ new.latch = TRUE
  <2>1. pins \in SUBSET Request /\ {n} \in SUBSET Nat
    BY <1>4, <1>5, <1>7, <1>8
  <2> QED
    BY <1>9, <2>1 DEF Form
<1>12. /\ sent' \in Seq(Request) /\ fate' \in Seq(Fates) /\ Len(sent') = n /\ Len(fate') = n
       /\ DOMAIN sent' = 1 .. n /\ sent'[n] = r /\ fate'[n] = "way" /\ n \in Nat /\ n \notin DOMAIN sent
       /\ \A i \in DOMAIN sent : sent'[i] = sent[i] /\ fate'[i] = fate[i] /\ i < n
       /\ \A i \in DOMAIN sent' : i = n \/ i \in DOMAIN sent
  BY <1>4, <1>5, <1>7, <1>10 DEF Fates
<1>13. FormsTypeOK'
  BY <1>10, <1>11, <1>12 DEF FormsInv, FormsTypeOK, Fates
<1>14. (\A i \in DOMAIN sent : sent[i].opening <= openings)'
  BY <1>5, <1>7, <1>10, <1>12 DEF FormsInv
<1>15. TakenOnce'
  BY <1>12 DEF FormsInv, TakenOnce
<1>16. \A i \in DOMAIN sent : sent[i].opening = openings => Knows(f, i)
  BY <1>3 DEF FormFacts
<1>17. ASSUME NEW i \in DOMAIN sent, sent[i].opening = openings
       PROVE  /\ sent[i].kind = r.kind
              /\ r.kind \in {"keyed", "pinned"} => sent[i].key = r.key /\ r.key # {}
              /\ r.kind = "keyless" => fate[i] \in Rejected
              /\ r.kind = "pinned" => sent[i] = r
  BY <1>3, <1>7, <1>16, <1>17 DEF Knows
<1>18. (\A i, j \in DOMAIN sent : OneKey(i, j))'
  <2> SUFFICES ASSUME NEW i \in DOMAIN sent', NEW j \in DOMAIN sent' PROVE OneKey(i, j)'
    OBVIOUS
  <2>1. CASE i \in DOMAIN sent /\ j \in DOMAIN sent
    BY <1>12, <2>1 DEF FormsInv, OneKey
  <2>2. CASE i \in DOMAIN sent /\ j = n
    BY <1>7, <1>12, <1>17, <2>2 DEF OneKey
  <2>3. CASE i = n /\ j \in DOMAIN sent
    <3>1. ~(i < j)
      BY <1>5, <1>12, <2>3
    <3> QED
      BY <1>7, <1>12, <1>17, <2>3, <3>1 DEF OneKey
  <2>4. CASE i = n /\ j = n
    <3>1. n \in Nat
      BY <1>12
    <3>2. ~(i < j)
      BY <2>4, <3>1
    <3>3. r.kind \in {"keyed", "pinned"} => r.key # {}
      BY <1>7
    <3> QED
      BY <1>12, <2>4, <3>2, <3>3 DEF OneKey
  <2> QED
    BY <1>12, <2>1, <2>2, <2>3, <2>4
<1>19. ASSUME NEW i \in DOMAIN sent', sent'[i].opening = openings'
       PROVE  /\ sent'[i].kind = new.kind
              /\ new.kind = "keyed" => sent'[i].key = {<<openings', 0>>}
              /\ new.kind = "pinned" => new.pinned = {sent'[i]}
              /\ new.kind = "keyless" => fate'[i] \in Rejected \/ new.error = "uncertain" \/ new.pending = {i}
  <2>1. CASE i = n
    BY <1>7, <1>8, <1>10, <1>11, <1>12, <2>1
  <2>2. CASE i \in DOMAIN sent
    <3>1. sent[i].opening = openings /\ sent'[i] = sent[i] /\ fate'[i] = fate[i]
      BY <1>10, <1>12, <1>19, <2>2
    <3> QED
      BY <1>7, <1>8, <1>10, <1>11, <1>17, <2>2, <3>1
  <2> QED
    BY <1>12, <2>1, <2>2
<1>20. FormFacts(form)'
  <2>1. new.kind \in {"keyed", "keyless"} => new.pinned = {}
    BY <1>8, <1>11
  <2>2. new.pinned = {} \/ \E q : new.pinned = {q} /\ q.opening = openings' /\ q.kind = new.kind /\ q.key # {}
    BY <1>7, <1>8, <1>10, <1>11
  <2> QED
    BY <1>10, <1>11, <1>19, <2>1, <2>2 DEF FormFacts, Knows
<1> QED
  BY <1>13, <1>14, <1>15, <1>18, <1>20 DEF FormsInv

LEMMA FormsServe ==
  ASSUME FormsInv, NEW i \in DOMAIN sent, Serve(i)
  PROVE  FormsInv'
<1>1. /\ sent \in Seq(Request) /\ fate \in Seq(Fates) /\ DOMAIN sent = DOMAIN fate
      /\ Len(sent) \in Nat /\ openings \in Nat /\ Len(fate) = Len(sent)
  BY FormsTypes DEF FormsInv, FormsTypeOK
<1>2. PICK f \in Fates :
        /\ fate' = [fate EXCEPT ![i] = f]
        /\ f = "taken" => \A j \in DOMAIN sent :
             ~(fate[j] = "taken" /\ sent[j].key = sent[i].key /\ sent[i].key # {})
  BY DEF Serve, Fates
<1>3. fate[i] = "way" /\ UNCHANGED <<form, openings, sent>>
  BY DEF Serve
<1>4. fate' \in Seq(Fates) /\ Len(fate') = Len(fate) /\ DOMAIN fate' = DOMAIN fate
  BY <1>1, <1>2, ExceptSeq
<1>5. /\ \A j \in DOMAIN sent : j # i => fate'[j] = fate[j]
      /\ fate'[i] = f
      /\ \A j \in DOMAIN sent : fate[j] \in Rejected => fate'[j] = fate[j]
  BY <1>1, <1>2, <1>3 DEF Rejected
<1>6. FormsTypeOK'
  BY <1>3, <1>4 DEF FormsInv, FormsTypeOK, Fates
<1>7. (\A j \in DOMAIN sent : sent[j].opening <= openings)'
  BY <1>3 DEF FormsInv
<1>8. (\A j, k \in DOMAIN sent : OneKey(j, k))'
  BY <1>3, <1>5 DEF FormsInv, OneKey
<1>9. ASSUME NEW j \in DOMAIN sent, j # i, sent[i].opening = sent[j].opening, sent[i].kind # "task",
             f = "taken", fate[j] = "taken"
      PROVE  FALSE
  <2>1. OneKey(i, j) /\ OneKey(j, i)
    BY DEF FormsInv
  <2>2. CASE sent[i].kind = "keyless"
    <3>1. i < j \/ j < i
      BY <1>1, <1>9
    <3> QED
      BY <1>3, <1>9, <2>1, <2>2, <3>1 DEF OneKey, Rejected
  <2>3. CASE sent[i].kind \in {"keyed", "pinned"}
    BY <1>2, <1>9, <2>1, <2>3 DEF OneKey
  <2>4. sent[i].kind \in FormKinds
    BY <1>1, FormsTypes DEF FormsInv, Request
  <2> QED
    BY <1>9, <2>2, <2>3, <2>4 DEF FormKinds
<1>10. TakenOnce'
  <2> SUFFICES ASSUME NEW j \in DOMAIN sent, NEW k \in DOMAIN sent, sent[j].opening = sent[k].opening,
                      sent[j].kind # "task", fate'[j] = "taken", fate'[k] = "taken"
               PROVE  j = k
    BY <1>3 DEF TakenOnce
  <2>1. CASE j # i /\ k # i
    BY <1>5, <2>1 DEF FormsInv, TakenOnce
  <2>2. CASE j = i /\ k # i
    BY <1>5, <1>9, <2>2
  <2>3. CASE j # i /\ k = i
    <3>1. sent[i].kind # "task"
      BY <2>3 DEF FormsInv, OneKey
    <3> QED
      BY <1>5, <1>9, <2>3, <3>1
  <2> QED
    BY <2>1, <2>2, <2>3
<1>11. form # Closed => FormFacts(form)'
  BY <1>3, <1>5 DEF FormsInv, FormFacts, Knows
<1> QED
  BY <1>3, <1>6, <1>7, <1>8, <1>10, <1>11 DEF FormsInv

LEMMA FormsHear ==
  ASSUME FormsInv, GiveUp \/ \E i \in DOMAIN sent : Answer(i)
  PROVE  FormsInv'
<1>1. form # Closed /\ UNCHANGED <<openings, sent, fate>>
  BY DEF GiveUp, Answer
<1>2. PICK f \in Form : f = form
  BY <1>1, FormsTypes DEF FormsInv
<1>3. CASE GiveUp
  <2>1. PICK new : new = [f EXCEPT !.error = "uncertain", !.pending = {}]
    OBVIOUS
  <2>2. new \in Form /\ new.kind = f.kind /\ new.pinned = f.pinned /\ new.pending = {} /\ new.error = "uncertain"
    BY <2>1 DEF Form
  <2>3. form' = new
    BY <1>2, <1>3, <2>1 DEF GiveUp
  <2> QED
    BY <1>1, <1>2, <2>2, <2>3, FormOnly
<1>4. ASSUME NEW i \in DOMAIN sent, Answer(i) PROVE FormsInv'
  <2>1. f.pending = {i} /\ fate[i] \in {"taken", "repeated", "refused", "conflict"}
    BY <1>2, <1>4, FormsTypes DEF Answer, FormsInv, Fates
  <2>2. CASE fate[i] \in {"taken", "repeated"}
    BY <1>1, <1>4, <2>2, FormCloses DEF Answer
  <2>3. CASE fate[i] \in Rejected
    <3>1. PICK e, pins : e \in Rejected /\ e = fate[i] /\ pins = IF f.kind = "task" THEN {} ELSE f.pinned
      BY <2>3
    <3>2. PICK new : new = [f EXCEPT !.error = e, !.pending = {}, !.pinned = pins]
      OBVIOUS
    <3>3. /\ new \in Form /\ new.kind = f.kind /\ new.pinned = pins
          /\ new.pending = {} /\ new.error = e
      BY <3>1, <3>2 DEF Form, Rejected
    <3>4. form' = new
      BY <1>2, <1>4, <2>3, <3>1, <3>2 DEF Answer, Rejected
    <3>5. \A j \in DOMAIN sent : form.pending = {j} =>
            new.pending = {j} \/ new.error = "uncertain" \/ fate[j] \in Rejected
      BY <1>2, <2>1, <2>3
    <3>6. form.error = "uncertain" => new.error = "uncertain" \/ form.kind # "keyless"
      BY <1>1, <1>2, <2>1 DEF FormsInv, FormFacts
    <3>7. new.pinned = form.pinned \/ (form.kind = "task" /\ new.pinned = {})
      BY <1>2, <3>1, <3>3
    <3> QED
      BY <1>1, <1>2, <3>3, <3>4, <3>5, <3>6, <3>7, FormOnly
  <2> QED
    BY <2>1, <2>2, <2>3 DEF Rejected
<1> QED
  BY <1>3, <1>4

LEMMA FormsStep ==
  ASSUME FormsInv, [FormsNext]_formsVars
  PROVE  FormsInv'
<1>1. CASE Discard
  BY <1>1, FormCloses DEF Discard
<1>2. CASE UNCHANGED formsVars
  BY <1>2 DEF formsVars, FormsInv, FormsTypeOK, TakenOnce, OneKey, FormFacts, Knows
<1> QED
  BY <1>1, <1>2, FormsOpen, FormsEdit, FormsConfirm, FormsServe, FormsHear DEF FormsNext

(* FormsInv holds in every reachable state.                                 *)
THEOREM FormsKept == FormsSpec => []FormsInv
  BY FormsBegin, FormsStep, PTL DEF FormsSpec

(* What one opened form asks for is taken once, except a refused task that  *)
(* is sent anew.                                                            *)
THEOREM OpeningsTakeOnce == FormsSpec => []TakenOnce
<1>1. FormsInv => TakenOnce
  BY DEF FormsInv
<1> QED
  BY <1>1, FormsKept, PTL

------------------------------------------------------------------------------
(* Stock, appointments, deployments and forms share no rows, so what each   *)
(* promises it also promises beside the others.                             *)
LEMMA BusinessSteps ==
  ASSUME [BusinessNext]_<<vars, scheduleVars, migratorVars, formsVars>>
  PROVE  [Next]_vars /\ [ScheduleNext]_scheduleVars /\ [MigratorNext]_migratorVars /\ [FormsNext]_formsVars
<1>1. CASE UNCHANGED <<vars, scheduleVars, migratorVars, formsVars>>
  BY <1>1
<1>2. CASE BusinessNext
  BY <1>2 DEF BusinessNext, StockRests, ScheduleRests, MigratorRests, FormsRest
<1> QED
  BY <1>1, <1>2

LEMMA BusinessBehaves == BusinessSpec => Spec /\ ScheduleSpec /\ MigratorSpec /\ FormsSpec
<1>1. BusinessInit => Init /\ ScheduleInit /\ MigratorInit /\ FormsInit
  BY DEF BusinessInit
<1> QED
  BY <1>1, BusinessSteps, PTL DEF BusinessSpec, Spec, ScheduleSpec, MigratorSpec, FormsSpec

(* What each component keeps at every moment: its rows are what its tables  *)
(* allow, a balance is the sum of its movements, merged customers lead to   *)
(* one that is not, and a migration that was executed is recorded.          *)
THEOREM BusinessKept == BusinessSpec => []BusinessInv
<1>1. (TypeOK /\ BalanceIsLedger /\ (ScheduleTypeOK /\ MergesEnd) /\ ExecutedIsRecorded) => BusinessInv
  BY DEF BusinessInv
<1> QED
  BY <1>1, BusinessBehaves, StockTyped, BalancesAddUp, MergesLeadSomewhere, Recorded, PTL
=============================================================================
