------------------------------- MODULE Schedule -------------------------------
(***************************************************************************)
(* The services of a branch, who provides them, and the appointments that  *)
(* customers book with them; the customers, who are merged when one person *)
(* has two records, and the legacy documents that point at them.           *)
(*                                                                         *)
(* Writes that may set custom fields hold the organization's row from      *)
(* their first statement to their commit; assignments of providers and     *)
(* merges do not.                                                          *)
(***************************************************************************)
EXTENDS Integers, FiniteSets, FiniteSetsExt

CONSTANTS
  Clients,      \* ids of customer records, which are ordered
  Documents,    \* legacy documents about customers
  ClientOf,     \* the customer that each of them was imported as
  Offers,       \* services
  Providers,    \* members who may provide them
  BookingKeys,  \* idempotency keys of bookings
  Requesters,   \* requests being served at the same time
  Minutes,      \* durations of a service
  Starts        \* times an appointment may start at

ASSUME ScheduleAssumption ==
  /\ Clients \subseteq Int /\ Minutes \subseteq Nat \ {0} /\ Starts \subseteq Nat
  /\ ClientOf \in [Documents -> Clients]

NoOffer == [minutes |-> 0]
OfferRow == [minutes : Minutes, active : BOOLEAN]

NoClient == [status |-> "none"]
ClientRow == [status : {"active", "inactive"}, into : {{}}]
             \cup [status : {"merged"}, into : {{c} : c \in Clients}]

BookingMoves ==
  [scheduled  |-> {"confirmed", "checked_in", "cancelled", "no_show"},
   confirmed  |-> {"checked_in", "cancelled", "no_show"},
   checked_in |-> {"completed", "cancelled"},
   completed |-> {}, cancelled |-> {}, no_show |-> {}]

NoBooking == [status |-> "none"]
(* One without a provider holds nobody's time; those are left out.          *)
Wanted == [client : Clients, offer : Offers, provider : Providers, starts : Starts]
BookingRow == {[of |-> w, ends |-> w.starts + m, status |-> s] :
                 w \in Wanted, m \in Minutes, s \in DOMAIN BookingMoves}

AtRest == [op |-> "rest"]
AssignRequest == [op : {"assign"}, provider : Providers, offer : Offers, active : BOOLEAN]
BookRequest == [op : {"book"}, key : BookingKeys, of : Wanted, ends : Nat]
MergeRequest == [op : {"merge"}, from : Clients, to : Clients, held : SUBSET Clients]

VARIABLES
  offers,     \* services, all available at the branch
  working,    \* members who are active and assigned to the branch
  assigned,   \* provider_service_assignments
  clients,    \* customers
  links,      \* customer_source_links
  bookings,   \* appointments, by their key
  request     \* what each request has done so far

scheduleVars == <<offers, working, assigned, clients, links, bookings, request>>

ScheduleTypeOK ==
  /\ offers \in [Offers -> OfferRow \cup {NoOffer}]
  /\ working \subseteq Providers
  /\ assigned \in [Providers \X Offers -> {"none", "on", "off"}]
  /\ clients \in [Clients -> ClientRow \cup {NoClient}]
  /\ links \in [Documents -> Clients]
  /\ \A k \in BookingKeys : bookings[k] \in BookingRow \cup {NoBooking}
  /\ \A q \in Requesters :
       request[q] \in {AtRest} \cup AssignRequest \cup BookRequest \cup MergeRequest

(* The customers of legacy documents were imported.                         *)
ScheduleInit ==
  /\ offers = [s \in Offers |-> NoOffer]
  /\ working = Providers
  /\ assigned = [a \in Providers \X Offers |-> "none"]
  /\ links = ClientOf
  /\ clients = [c \in Clients |-> IF \E d \in Documents : ClientOf[d] = c
                                  THEN [status |-> "active", into |-> {}] ELSE NoClient]
  /\ bookings = [k \in BookingKeys |-> NoBooking]
  /\ request = [q \in Requesters |-> AtRest]

-----------------------------------------------------------------------------
(* Locks.  Only bookings hold the organization's row for more than a step.  *)

OrganizationFree == \A q \in Requesters : request[q].op # "book"

ClientFree(c) == \A q \in Requesters : request[q].op = "merge" => c \notin request[q].held

(* An insertion of the same assignment waits for one that is not committed; *)
(* so does an update, but it sees only rows that were there.                *)
Assigning(p, s) ==
  \E q \in Requesters : request[q].op = "assign" /\ request[q].provider = p /\ request[q].offer = s

RequestBegins(q, r) == request[q] = AtRest /\ request' = [request EXCEPT ![q] = r]
RequestEnds(q) == request' = [request EXCEPT ![q] = AtRest]

-----------------------------------------------------------------------------
(* Services and customers.                                                  *)

CreateService(s, m) ==
  /\ OrganizationFree
  /\ offers[s] = NoOffer
  /\ offers' = [offers EXCEPT ![s] = [minutes |-> m, active |-> TRUE]]
  /\ UNCHANGED <<working, assigned, clients, links, bookings, request>>

UpdateService(s, m, active) ==
  /\ OrganizationFree
  /\ offers[s] # NoOffer
  /\ offers' = [offers EXCEPT ![s] = [minutes |-> m, active |-> active]]
  /\ UNCHANGED <<working, assigned, clients, links, bookings, request>>

CreateCustomer(c) ==
  /\ OrganizationFree
  /\ clients[c] = NoClient
  /\ clients' = [clients EXCEPT ![c] = [status |-> "active", into |-> {}]]
  /\ UNCHANGED <<offers, working, assigned, links, bookings, request>>

UpdateCustomer(c, status) ==
  /\ OrganizationFree /\ ClientFree(c)
  /\ clients[c].status \notin {"none", "merged"}
  /\ clients' = [clients EXCEPT ![c].status = status]
  /\ UNCHANGED <<offers, working, assigned, links, bookings, request>>

-----------------------------------------------------------------------------
(* Merging two records of one customer locks both rows in the order of      *)
(* their ids, and looks at them then.                                       *)

MergeBegin(q, from, to) ==
  /\ from # to
  /\ RequestBegins(q, [op |-> "merge", from |-> from, to |-> to, held |-> {}])
  /\ UNCHANGED <<offers, working, assigned, clients, links, bookings>>

MergeLock(q) ==
  /\ request[q].op = "merge"
  /\ LET missing == {request[q].from, request[q].to} \ request[q].held IN
       /\ missing # {}
       /\ ClientFree(Min(missing))
       /\ clients[Min(missing)].status = "active"
       /\ request' = [request EXCEPT ![q].held = @ \cup {Min(missing)}]
  /\ UNCHANGED <<offers, working, assigned, clients, links, bookings>>

(* Mutant: the documents keep pointing at the record that is given up.      *)
MergeKeepsLinks(q) ==
  LET r == request[q] IN
  /\ r.op = "merge" /\ r.held = {r.from, r.to}
  /\ clients' = [clients EXCEPT ![r.from] = [status |-> "merged", into |-> {r.to}]]
  /\ RequestEnds(q)
  /\ UNCHANGED <<offers, working, assigned, links, bookings>>

MergeCommit(q) ==
  LET r == request[q] IN
  /\ r.op = "merge" /\ r.held = {r.from, r.to}
  /\ links' = [d \in Documents |-> IF links[d] = r.from THEN r.to ELSE links[d]]
  /\ clients' = [clients EXCEPT ![r.from] = [status |-> "merged", into |-> {r.to}]]
  /\ RequestEnds(q)
  /\ UNCHANGED <<offers, working, assigned, bookings>>

-----------------------------------------------------------------------------
(* Providers.                                                               *)

(* The trigger looks at what is committed when the statement begins.        *)
AssignBegin(q, p, s, active) ==
  /\ ~Assigning(p, s)
  /\ offers[s] # NoOffer
  /\ active => p \in working /\ offers[s].active
  /\ RequestBegins(q, [op |-> "assign", provider |-> p, offer |-> s, active |-> active])
  /\ UNCHANGED <<offers, working, assigned, clients, links, bookings>>

AssignCommit(q) ==
  LET r == request[q] IN
  /\ r.op = "assign"
  /\ assigned' = [assigned EXCEPT ![<<r.provider, r.offer>>] = IF r.active THEN "on" ELSE "off"]
  /\ RequestEnds(q)
  /\ UNCHANGED <<offers, working, clients, links, bookings>>

(* Revoking a member switches off the assignments it finds, and waits for   *)
(* those that are being changed, not for those that are being made.         *)
Revoke(p) ==
  /\ OrganizationFree
  /\ p \in working
  /\ \A s \in Offers : assigned[<<p, s>>] # "none" => ~Assigning(p, s)
  /\ working' = working \ {p}
  /\ assigned' = [a \in DOMAIN assigned |->
       IF a[1] = p /\ assigned[a] = "on" THEN "off" ELSE assigned[a]]
  /\ UNCHANGED <<offers, clients, links, bookings, request>>

Reinstate(p) ==
  /\ OrganizationFree
  /\ p \notin working
  /\ working' = working \cup {p}
  /\ UNCHANGED <<offers, assigned, clients, links, bookings, request>>

-----------------------------------------------------------------------------
(* Appointments.                                                            *)

(* The service is read first, for its duration; the triggers then look at   *)
(* the customer, the service and the provider.                              *)
Bookable(w) ==
  /\ offers[w.offer] # NoOffer /\ offers[w.offer].active
  /\ clients[w.client].status = "active"
  /\ w.provider \in working /\ assigned[<<w.provider, w.offer>>] = "on"

BookBegin(q, k, w) ==
  /\ OrganizationFree
  /\ Bookable(w)
  /\ RequestBegins(q, [op |-> "book", key |-> k, of |-> w, ends |-> w.starts + offers[w.offer].minutes])
  /\ UNCHANGED <<offers, working, assigned, clients, links, bookings>>

(* Mutant: a provider is free again while a customer waits in the queue.    *)
HoldsUntilArrival(status) == status \in {"scheduled", "confirmed"}

(* The appointments that hold their provider's time.                        *)
HoldsTime(status) == status \in {"scheduled", "confirmed", "checked_in"}

Overlaps(b, w, ends) == b.of.starts < ends /\ w.starts < b.ends

(* The exclusion constraint.                                                *)
ProviderFree(w, ends) ==
  \A k \in BookingKeys :
    bookings[k] # NoBooking /\ HoldsTime(bookings[k].status) /\ bookings[k].of.provider = w.provider
      => ~Overlaps(bookings[k], w, ends)

(* The key of an earlier booking answers it or refuses; either way nothing  *)
(* is written.  The foreign key waits for a merge of the customer, but does *)
(* not look at its status again.                                            *)
BookCommit(q) ==
  LET r == request[q] IN
  /\ r.op = "book"
  /\ bookings[r.key] = NoBooking
  /\ ProviderFree(r.of, r.ends)
  /\ ClientFree(r.of.client)
  /\ bookings' = [bookings EXCEPT ![r.key] = [of |-> r.of, ends |-> r.ends, status |-> "scheduled"]]
  /\ RequestEnds(q)
  /\ UNCHANGED <<offers, working, assigned, clients, links>>

MoveBooking(k, status) ==
  /\ bookings[k] # NoBooking
  /\ status \in BookingMoves[bookings[k].status]
  /\ bookings' = [bookings EXCEPT ![k].status = status]
  /\ UNCHANGED <<offers, working, assigned, clients, links, request>>

(* A refusal, the answer to a retry, or a lost connection.                  *)
RequestFails(q) ==
  /\ request[q] # AtRest
  /\ RequestEnds(q)
  /\ UNCHANGED <<offers, working, assigned, clients, links, bookings>>

ScheduleNext ==
  \/ \E s \in Offers, m \in Minutes :
       CreateService(s, m) \/ \E active \in BOOLEAN : UpdateService(s, m, active)
  \/ \E c \in Clients : CreateCustomer(c) \/ \E st \in {"active", "inactive"} : UpdateCustomer(c, st)
  \/ \E p \in Providers : Revoke(p) \/ Reinstate(p)
  \/ \E k \in BookingKeys, st \in DOMAIN BookingMoves : MoveBooking(k, st)
  \/ \E q \in Requesters :
       \/ \E from, to \in Clients : MergeBegin(q, from, to)
       \/ \E p \in Providers, s \in Offers, active \in BOOLEAN : AssignBegin(q, p, s, active)
       \/ \E k \in BookingKeys, w \in Wanted : BookBegin(q, k, w)
       \/ MergeLock(q) \/ MergeCommit(q) \/ AssignCommit(q) \/ BookCommit(q) \/ RequestFails(q)

ScheduleSpec == ScheduleInit /\ [][ScheduleNext]_scheduleVars

-----------------------------------------------------------------------------
(* Properties.                                                              *)

(* No provider has two appointments at one time: those that were booked and *)
(* neither finished nor called off do not overlap, also while one of their  *)
(* customers is in the queue.                                               *)
NoDoubleBooking ==
  \A j, k \in BookingKeys :
    LET Holds(i) == bookings[i] # NoBooking /\ \E s \in BookingMoves[bookings[i].status] : TRUE
    IN  j # k /\ Holds(j) /\ Holds(k) /\ bookings[j].of.provider = bookings[k].of.provider
          => bookings[j].ends <= bookings[k].of.starts \/ bookings[k].ends <= bookings[j].of.starts

(* Following merges from any customer ends at a record that was not merged, *)
(* though merges of the same records run in opposite directions at once.    *)
MergesEnd ==
  \A S \in (SUBSET Clients) \ {{}} :
    \E c \in S : clients[c].status # "merged" \/ clients[c].into \cap S = {}

(* What was imported for a person is found under the record that stands for *)
(* the person now, however many merges it went through.                     *)
LinksResolve == \A d \in Documents : clients[links[d]].status # "merged"
=============================================================================
