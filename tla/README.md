# EkaVio: a TLA+ model of its stateful core

EkaVio is a multi-tenant business application: an Express and PostgreSQL
backend (`src/backend`) and a React client (`src/frontend`). Organizations have
branches, members and roles; a subscription decides which modules they may use;
the modules keep queues, appointments, attendance, customer dues, stock,
purchases, leave, leads and tasks. All state that matters is in PostgreSQL.
Every command is one transaction on one pooled connection, READ COMMITTED unless
it says otherwise, and correctness rests on row locks, advisory locks, unique
indexes, versions and idempotency keys. This directory models that: what the
locks protect, what the commands read before they hold them, and what remains
true when they overlap, are retried or are abandoned half-way.

The models are checked by TLC on small instances, and nearly every property the
runs check is also a theorem for all values of the constants, which TLAPS checks.

## 1. Inventory

State, operations, interactions, and what is hard. Paths are below
`src/backend/src` unless they say otherwise.

**Database access** (`postgres/database.ts`). A pool of ten connections;
`transaction` is BEGIN, operation, COMMIT or ROLLBACK; `atomic` puts its client
in asynchronous local storage so that every `transaction` called inside joins
it. Hard: isolation levels, nesting, pool exhaustion.

**Subscription renewals** (`postgres/commercialRenewalRepository.ts`). State: the
`subscriptions` row, `commercial_renewals`, `manual_renewal_payments`.
Operations: finalize, record and void a payment, cancel, apply. It shares the
subscription with the commercial administration, which upserts the row by hand,
and with every entitlement check. Hard: finalize runs under REPEATABLE READ and
may wait for the row; apply reads without a lock first; both lock two rows; the
clock is read before the transaction. Correct when there is one open renewal
per period, a renewal is written against the current period, no period is
granted twice or overlaps, the status says what was paid, nothing deadlocks.

**Activation and public requests** (`postgres/manualCommercialRepository.ts`,
`postgres/publicCommercialRepository.ts`). Quotes and requests with a cooldown
by phone, reviews, agreements with their payments, one-time invitations, and the
activation that makes an organization and its owner. Hard: prices published
between quote and submission, invitations replaced while they are used, two
requests of one person.

**Entitlements and commercial administration** (`services/entitlementService.ts`,
`commercial/catalogue.ts`, `postgres/commercialRepository.ts`). A function of a
snapshot: status, window, plan, add-ons, exceptions. Operators edit contracts
and exceptions, a release reconciles the catalogue. Hard: inside `atomic` the
snapshot is four READ COMMITTED statements of a transaction that writes later.

**Accounts, sessions, recovery** (`services/identityAccountService.ts`,
`services/authService.ts`, `services/sessionService.ts`). State: password hash,
verified and pending e-mail, `identity_challenges`, `auth_sessions`. Operations:
login, refresh with rotation, logout, password change, forgot and reset, propose
and verify an e-mail. Hard: several awaits per request, and only some of them
under the user's row lock. **Realtime sockets** (`config/socket.ts`): sockets per
branch room in process memory, authorized at the handshake and at every
emission, disconnected when a session or a user is revoked.

**Organization administration and staff**
(`services/organizationAdministrationService.ts`,
`postgres/organizationAuthorization.ts`). Memberships, roles, branches and
invitations behind the organization's row. Correct when an administrator never
grants what they lack and every active member who needs a branch has an active
one. **Dynamic fields** (`domains/dynamicFields`): definitions with options, the
layout of the form and the values, behind the same row.

**Inventory** (`domains/inventory/repository.ts`). Items, balances, an
append-only journal of movements; create, update, receive, consume, adjust,
reverse, each with an idempotency key. **Purchasing**
(`domains/purchasing/service.ts`): orders with versions, receipts that call
`changeStock` once per line in their own transaction. Hard: the two share items
and balances, one behind the organization's lock and one not.

**Customer dues** (`domains/customerDues/repository.ts`). An append-only register
per customer, payments checked against the sum of all branches under an advisory
lock. **Attendance** (`domains/attendance/repository.ts`). One record per member
and day, corrected by version, with a history. Hard in both: retries that race
their original.

**Queue and appointments** (`domains/queue/repository.ts`,
`domains/appointments/repository.ts`). Business days with a token counter, tokens
and appointments that change by version, a check-in that turns an appointment
into a token. **Customers and services** (`domains/customers`, `domains/services`):
bookings that need both, merges of customers and the links they move.

**Tasks, HR, CRM** (`domains/tasks`, `domains/hr`, `domains/crm`). Commands by
version with remembered keys; leave and shifts over midnight; leads, follow-ups
and stages under REPEATABLE READ and the organization's row.

**Cutovers** (`domains/*/migration.ts`, `postgres/shadow*.ts`) import one vertical
each from the legacy store, verify it and switch authority. **Database
migrations** (`postgres/migrations.ts`) run files once under a session lock.

**Browser** (`src/frontend/src/api/client.ts`, `store`, `components/ui`). One shared
refresh per session revision, calls that must not be shown or sent again under
another authority; forms that ask for review, keep a key and may be confirmed
again when no answer came.

Components call each other inside one transaction (purchasing calls inventory,
tasks call entitlements, a check-in changes the appointment), or share rows that
each locks for itself (the organization, the subscription). Notifications,
analytics and the HTTP layer keep no protocol of their own and are not modelled.
The full list of parts with their status, and of hazards with their lines, is in
`PROJECT.json`.

## 2. Plan

Done: every component above has a module, a run and theorems. What is left:

* The two hazards no property covers: the start date that `updateSubscription`
  may put back (`commercialRepository.ts:439`), which no document forbids, and
  the lock cycle of activation and re-issue (`manualCommercialRepository.ts:743`),
  which PostgreSQL breaks by refusing one of the two.
* Rate limits and cooldowns of recovery mail; several browser tabs.
* A second user in `Account`, for addresses that two users claim.

## 3. Modules

| module | models | state |
| --- | --- | --- |
| `Commands` | sessions, their locks, idempotency keys | none; operators |
| `Tenant`, `Staffing` | one organization; who works where and may do what | `staff` |
| `Entitlements` | when a subscription gives access | none; operators |
| `Renewal` | renewals of one subscription | `now`, `sub`, `renewals`, `payments`, `txn` |
| `Activation` | from a public request to an organization | `price`, `requests`, `recent`, `agreements`, `users`, `commerceTxn` |
| `Cutover` | how one vertical leaves the legacy store | `vertical`, `source`, `reviewed`, `target`, `aside`, `latch`, `job`, `attested`, `events` |
| `Access` | what an organization may use, and task commands that check it | `moment`, `catalogue`, `contract`, `exceptions`, `session` |
| `Organization` | branches, roles, members, invitations | `branches`, `roles`, `members`, `invitations` |
| `Fields` | configurable fields, layout, values | `definitions`, `placed`, `values` |
| `Attendance` | records, corrections and their history | `records`, `changes`, `markTxn` |
| `DuesLedger` | what the dues register promises | `owed`, `standing`, `used` |
| `Dues` | charges, payments, adjustments, reversals | `dues`, `dueTxn` |
| `Account` | one user's account, sessions and sockets | `pw`, `email`, `links`, `sessions`, `sockets`, `req` |
| `Hr` | leave and shifts | `staff`, `day`, `offered`, `leaves`, `shifts` |
| `Tasks` | tasks and the commands that wrote them | `staff`, `tasks`, `remembered`, `reply` |
| `StockLedger` | what stock promises | `items`, `balances`, `movements` |
| `Stock` | inventory and purchasing | those three, `orders`, `receipts`, `txn` |
| `Schedule` | services, bookings, customers and their merges | `offers`, `working`, `assigned`, `clients`, `links`, `bookings`, `request` |
| `Migrator` | deployments that migrate the schema | `schema`, `history`, `deployment` |
| `Forms` | forms of the browser and their retries | `form`, `openings`, `sent`, `fate` |
| `Visits` | appointments and the queue of one branch | `today`, `next`, `appointments`, `tokens`, `visitTxn` |
| `Crm` | leads, follow-ups, stages | `staff`, `stages`, `leads`, `followups`, `crmTx` |
| `Browser` | the session of one browser tab | `revision`, `here`, `calls`, `renewals`, `landing`, `choice` |

`MCRenewal`, `MCAccount` and `MCStock` instantiate one component for TLC;
`MCCommerce` (Renewal, Activation, Cutover), `MCPeople` (Account, Hr, Tasks),
`MCBusiness` (Stock, Schedule, Migrator, Forms), `MCRecords` (Dues, Attendance,
Organization, Fields, Access) and `MCBranch` (Visits, Crm, Browser) put several
into one system. These share no rows, so the composed specification lets one of
them run while the others rest in their first state: that says as much as their
product and is the sum of their sizes. What two components do share is in one
module: inventory with purchasing, appointments with the queue, contracts with
the tasks that check them. The proof modules are described in section 7.

**How a transaction is modelled.** A transaction is a session: what it was asked
to do and the locks it holds. It begins, takes one lock per step while nobody
holds it, checks what the code checks under that lock, and makes all its writes
in the step that commits. That is faithful because uncommitted writes are
invisible to others under READ COMMITTED and REPEATABLE READ, and every row a
command writes is locked first or is new; where a new row meets a unique index
the commit step has the index's condition. A session may roll back after any
step: a refusal, a lost connection, a crash of the server. Commands that lock
one row first and do all under it are one step, as in `Organization`, `Fields`,
`Hr` and `Tasks`, whose commands start with the organization's row. Under
REPEATABLE READ the snapshot is taken before that wait, so `Crm` and the finalize
of `Renewal` have a step for it.

**`Renewal`.** `FinalizeBegin` takes the snapshot, `Acquire` the subscription
row, and `Conflicts` is the serialization failure PostgreSQL raises when the row
has changed since the snapshot. `FinalizeCommit` checks the period and the open
renewals *of the snapshot*, then the partial unique index (`IndexAdmits`).
`ApplyBegin` is the unlocked preliminary read; `Acquire` the subscription and
then the renewal row; `ApplyCommit` needs `Applicable`, otherwise the command is
refused. `RecordPayment`, `VoidPayment` and `CancelRenewal` are one step each.
`UpdateSubscription` is the operator's upsert. A command's clock is read by the
service before the transaction, so it may be up to `MaxWait` old.

**`Activation`.** Operators and invitation holders begin a command, lock its rows
(`CommerceLock`) and commit in the action of that command. What a holder's
activation must find (`Honours`) it reads under the invitation's, the agreement's
and the request's locks; voids and replacements take the agreement. A request of
a visitor is checked against the price and the cooldown when it commits.

**`Cutover`.** A job plans against the legacy rows and a reviewed mapping, applies
the plan row by row in one transaction, verifies what it had loaded, and
activates; others write legacy and native rows between all of these, and a job
may die anywhere. `vertical` fixes for a behaviour which importer runs: what
blocks its plan, what a repeated import does, what its verification compares.
The corporate run imports parents and the links of their children. They are two
verticals of the model: a parent that is there is left alone whatever it says, a
child with another parent is refused, and the runtime may link a child before
its import does (`LinkChild`). Attendance needs no review of a document whose
member has one branch. The records of the shared core are its commercial
documents, the only ones its activation compares.

**`Access`.** `Snapshot` is what the four statements read, `Enabled` and `Limit`
what the resolver answers. A task command takes the organization, module,
contract and exceptions, reads one statement per step, reads the clock in
`TaskAdmitted` and then writes until `SessionEnds`.

**`Account`.** A request is a chain of awaits and `req` holds what it has read:
`LoginVerify` (password compared), `LoginCheck` (FOR SHARE, hash compared again),
`LoginInsert`; `RefreshValidate`, `RotateValidate`, `Rotate` (the conditional
UPDATE), `Respond`; `ChangeVerify`, `ChangeUpdate`, `Replace`; `ResetInspect`,
`ResetLock`, `Replace`; `Forgot`, `ForgotIssue`; `ProposeEmail`, `VerifyEmail`;
`Logout`, `Disconnect`; `Connect` and `Join`. Passwords are numbered because
bcrypt salts every hash; credentials of a session are numbered by rotation.

**`Tasks` and `Hr`.** A task is the list of its events and its version their
number. `WriteTask` is a command that runs, `RepeatTask` one whose key is
remembered, answered only to the same command of the same actor. Hr's shifts
cover half-days of a calendar, so that one over midnight has two local days.

**`Stock`.** Commands are records; `Needs` lists the locks of a command, `Rank`
the order in which the code asks for them, `Wants` those it asks for next, and
`Admits` what it must find under each. `RetriesAgree` is why the key lock exists;
an item creation shares the index on keys but not the lock, which the model keeps
(`Post`). **`StockLedger`** says it without locks: movements are only added,
whole; a balance moves by exactly what is added for it and stays non-negative;
a reversal is the only inverse of a movement; an item's unit is frozen by its
first movement. **`Dues`** and **`DuesLedger`** stand in the same relation: what
is owed is a sum in the one, a number in the other.

**`Schedule`.** Bookings hold the organization's row, as do changes of services
and customers; moves of an appointment (the appointment's row only), merges and
assignments of providers do not, which is why a merge is two locks and a commit.
**`Migrator`** has one step per await of the runner and lets a deployment leave
after any. A history with a file the release lacks ends it at once; a file that
has changed ends it when its turn comes, after the pending files before it.
**`Forms`** distinguishes four kinds by what makes their retry safe.
**`Visits`** keeps for each row the statuses it went through, one per version;
an arrival locks the session of its day and, for a check-in, the appointment.
**`Crm`** takes the snapshot before the wait for the organization's row; the
limit on stages (`RoomForStage`) is counted in it, so overlapping creations may
pass the limit. It binds in `crm_assignees`. The owner may always convert a
lead, hence what a conversion asks for of customers decides nothing.
**`Browser`** takes one step per answer, between two awaits of the tab. The
calls of a revision share one renewal, which is good for what was granted when
the first of them asked (`Unauthorized`); starting up without a session clears
the tab (`StartsSignedOut`).

## 4. Runs

| run | instance | distinct states |
| --- | --- | --- |
| `commerce` | two sessions; two renewals, one payment key, three instants, three operator edits; two requests of one phone, two invitations each, one price change; two jobs, two documents, two contents, two events, all eight verticals | 1 567 thousand |
| `renewal_liveness` | two sessions, one renewal, two payment keys, totals 0 and 2, amounts 1 and 2, a suspension | 323 thousand |
| `people` | three requests, one session, two links, two addresses, two rotations; one leave, two shifts, two days, a day and a night template; one task to version 3, three keys, one member besides the owner | 717 thousand |
| `business` | one item to be created, two units, three keys, deltas -1 and 1, two sessions; two customers and a legacy document, one service, one provider, two bookings of length 2, two requests; three releases (one adds a file before one it changes), two deployments; one opening of a form sent up to three times | 468 thousand |
| `stock_orders` | one order over two items, two receipt keys, versions to 4 | 222 thousand |
| `records` | two sessions, two branches, two keys; imported charges of 1 and amounts of 2; one member on two days, versions to 3; one role, three people; two fields, one of them a choice; two catalogues, four contract edits, three instants | 461 thousand |
| `branch` | two sessions, one appointment, one key, two days, two tokens; one lead, one follow-up, versions to 2; one stage; two calls, two workspaces, five revisions | 1 609 thousand |
| `renewal_access`, `account_sockets`, `account_sign_out`, `crm_assignees`, `audit_once` | small instances of one component each | stop at the counterexample of section 6 |

**Why the bounds are enough.** Each hazard has two actors, so two transactions
interleave in every order; the account part has three requests, so that a third
one can replace the password or the address between two others. Two renewals let
one be superseded by the other. Amounts 1 and 2 against totals 0 and 2 can be
complimentary, under, exact and over. The instants let a period be open, just
ended, and renewed. Two links let a new one revoke an old one; two rotations are
needed for two refreshes to race. Three stock keys are a movement, another that
keeps the balance up, and a reversal, or a creation and two retries. Version 4
of an order is draft, ordered, and two receipts. A payment of 2 against two
charges of 1 in two branches is affordable only to the sum, and only once. Two
tokens meet midnight. A sign-in or switch takes two revisions, one to ask and
one to land, a sign-out one: with five a tab signs in, out and in again and so
comes back to where it was, which is what the mutant of `AnswersStayHome` needs.
Coming back by way of another workspace takes six and is left to the theorem.
The one service of `business` gives slots that overlap or coincide; slots that
only touch are left to the theorem of `NoDoubleBooking`. The theorems cover
every number of each, so the bounds only decide what a counterexample can show.
All bounds (`MaxTime`, `MaxWait`, `MaxGen`, `MaxPw`, `MaxQty`, `MaxVersion`,
`MaxRecordVersion`, `MaxTaskVersion`, `MaxDay`, `MaxTokens`, `MaxPrices`,
`MaxInvitations`, `MaxContents`, `MaxEvents`, `MaxOpenings`, `MaxSent`,
`MaxRevision`, `MaxMoment`) are guards named where they act; `MaxStages` is the
code's own limit. Symmetry is over ids nobody compares by order and is not used
in the liveness run. `CHECK_DEADLOCK FALSE` is set where the clock, the keys or
the versions run out; waiting in a cycle has its own invariant.

**Fairness.** The safety runs assume none. `renewal_liveness` runs
`MCRenewal`'s `FairSpec`: strong fairness of the next step of each transaction
that has begun (`Acquire`, `FinalizeCommit`, `ApplyCommit` or `Refuse`), which is
what PostgreSQL gives: waiters of a row lock are queued, and a transaction that
waits for nobody runs on. Nothing is assumed of clients, operators or the clock.
That is enough for `CommandsFinish` only because the two commands lock in one
order; with the order of the mutant they wait for each other for ever.

## 5. Properties

Every property fails in its run when the definition it rests on is replaced by
the variant marked "Mutant" in the same module: a dropped guard, a missing lock,
a swapped order. The pairs are in `PROJECT.json` under `mutants`.

| run | property | what would break it |
| --- | --- | --- |
| `commerce` | `CommerceInv` | two open renewals of a period; voided payments that count; two requests of one phone |
| | `NoDeadlock` | finalize and apply that lock in two orders |
| | `FinalizedOnCurrentPeriod` | a snapshot older than the row it waited for |
| | `RenewalNeverOverlaps` | an apply after the subscription moved on |
| | `ConsumedOnce` | an invitation used while it is replaced |
| | `QuotesAreCurrent` | a price published between quote and request |
| | `AttestedIsImported` | a repaired source document, a stale plan, an apply that overlaps the verification |
| | `NativeChangesSurvive` | a repeated import that corrects what the runtime has changed |
| `renewal_liveness` | `SettledExactly` | payments, retries and voids in an unexpected order |
| | `CommandsFinish` | the lock cycle again |
| `people` | `PeopleInv` | a task's remembered commands that do not explain its history |
| | `LiveSessionsUseCurrentPassword` | a login that inserts after a reset it did not see |
| | `OneRefreshWins`, `RevokedForGood` | rotation of a credential that is no longer current, or of a session that was revoked |
| | `ResetLinksFollowEmail`, `LinkRedeemedOnce` | a recovery that overlaps an e-mail change, or itself |
| | `ChangeNeverOverwrites` | a change that verified an older hash |
| | `CalendarsAgree` | leave on the second day of a shift over midnight |
| | `RepliesDescribeRequests` | a key that is repeated with another task or version |
| `business` | `BusinessInv` | quantities written beside the journal; merges in a circle; a migration that took effect unrecorded |
| | `LedgerSpec` | a reversal twice, an overdraft, a posting to an inactive item |
| | `NoDeadlock` | locations, items and balances in two orders |
| | `RetriesAgree` | a key looked up without its lock |
| | `NoDoubleBooking` | a checked-in appointment that frees its time |
| | `LinksResolve` | a merge that leaves links behind; two merges in opposite directions at once |
| | `DeployedIsRelease` | two deployments of different releases at once |
| | `TakenOnce` | a form sent anew after its answer was lost |
| `stock_orders` | `ReceiptsMatchOrders` | receipts by clients with stale versions; a unit changed between order and goods |
| `records` | `RecordsInv` | a key that posts, or marks, twice; an archived role that is still used |
| | `DuesLedgerSpec` | two payments in two branches that are affordable alone |
| | `CorrectsWhatWasRead` | a correction over another one |
| | `NobodyStranded` | a branch that is closed while somebody is moved to it |
| | `GrantsAreHeld` | an invitation accepted after its issuer lost what it grants |
| | `ValuesFollowDefinitions` | a value for an option that was retired meanwhile |
| | `WritersAreEntitled` | a contract edited between the statements of a check and the write |
| `branch` | `BranchInv` | a key that arrives twice; gaps in a day's numbers; a command sent again |
| | `ArrivalsHaveTokens` | a check-in of an appointment that was called off |
| | `FollowupsOnActiveLeads` | a snapshot in which a closed lead is active |
| | `AnswersStayHome` | an answer after the user left, also when they came back |
| | `LastChoiceWins` | a switch that is answered after the next one, and lands |

Some say less than their names. `AttestedIsImported` compares the content of a
row except in the shared core, which a later apply may overwrite, and in parent
organizations, of which only the presence is compared. `LastChoiceWins` speaks
of moves: after a switch that failed or was superseded the old workspace stays
shown. `NativeChangesSurvive` leaves out the queue and the shared core, whose
imports update rows. `TakenOnce` leaves out tasks, whose form sends a refused
command under a new key while an earlier one may still be on its way.

## 6. Disagreements between code and documents

Each is the counterexample of a run that checks what a document says.

1. **Renewing early interrupts access** (`renewal_access`,
   `commercialRenewalRepository.ts:804`). A continuous renewal starts where the
   current period ends. Applying it before then sets `starts_at` to that future
   instant, and entitlements treat a subscription whose start is in the future
   as not effective: access stops until the old period would have ended.
   ADR 0016:56 says: "Continuous renewal preserves access".
2. **A socket can outlive its session** (`account_sockets`, `socket.ts:95`). The
   handshake awaits its authorization before the socket is in the map a
   revocation walks. It stays until the next event of its branch. ADR 0021:34
   has sockets disconnected, ADR 0004:65 a revoked session unable to go on.
3. **A sign-out can do nothing** (`account_sign_out`, `sessionService.ts:188`).
   It revokes by the hash of the credential in the cookie; a refresh in flight
   has replaced it, no row matches, the answer is still success. ADR 0003:40 says
   it revokes the matching session.
4. **A lead can be assigned to someone who has left** (`crm_assignees`,
   `domains/crm/service.ts:41`). The command takes its snapshot before it waits
   for the organization's row, and checks the assignee in that snapshot without
   locking what it reads. ADR 0026:21 asks for an active member of the branch.
5. **An audit row can be represented twice** (`audit_once`,
   `domains/runtimeRetirement/migration.ts:560`). A row that was set aside, then
   repaired in the source and imported, is both a disposition and an event, and
   the verification passes. The runbook of V2-06F, line 45, says exactly once.

## 7. Proofs

`tlapm` checks every theorem for all values of the constants: any number of
sessions, keys, people, rows, versions and instants. What they assume of the
constants are the named `ASSUME`s of the modules, which TLC evaluates in the
runs: bounds are natural numbers, sets of ids do not meet, amounts are positive,
imported rows and catalogues have their columns, edits end after they start.
`LegacyDues`, `AddOns` and `Records` are finite, as tables are: a sum or a
largest limit over an infinite one would mean nothing.

All but one of the properties of the runs are theorems; the list is in
`PROJECT.json`. The argument is the same everywhere: the invariant is
strengthened by *who excludes whom* and by *what a session that holds a lock has
found and may still rely on*. That second part is what makes it inductive, since
a commit step only repeats what an earlier step has checked.

**Renewal** (`RenewalProofs`). `IInv`: whoever holds any lock holds the
subscription's, which has one holder; a finalize whose snapshot is not stale has
seen the subscription as it is; every renewal starts no earlier than its prior
period ends. The locks give `DeadlockFree`; the snapshot that equals the row
gives `FinalizedCurrent`; the periods give `NeverOverlaps`; `OneActionable` is
inductive because of the index. `Settles` adds `MoneyInv`: finitely many payments
count, and none before there is a renewal.

**Accounts, leave, tasks** (`PeopleProofs`). `IInv`: who writes the user's row
excludes all others who hold it; while it is held, what the request read is
still true (the password of a login, the address of a recovery, the hash and the
link of a replacement); a rotated credential is older than its session's.
`HrInv`: no hour has two shifts of one member, and no *day* of approved leave has
hours of a published shift, whence the hours of `LeaveIsLeave`. `TasksInv`: what
is remembered of a command, and what is answered, `Describes` an event of the
history, and an event never changes.

**Stock** (`StockProofs`). `LockInv` is about locks alone: the commands have their
shape, a lock is held once and only by who needs it, and later ones are asked
for in order behind earlier ones. `Progress` numbers how far a command has come;
in any set of waiting commands one that is furthest waits for nobody in the set
(`NobodyWaitsForever`). `StockInv` adds what each command has read under which
lock (`Reads`) and that what has come is kept in the unit it was ordered in.
`ImplementsLedger` is the refinement: each commit is a posting of `StockLedger`,
every other step a stutter. `BalancesAddUp` and `ReceivedIsOrdered` rest on sums.

**Records** (`RecordsProofs`). Dues: `Relies` says what a session with the lock of
a key, an entry or a customer may rely on (the key is free, the target stands,
the payment is owed). It gives `ImplementsRegister`, with the sum of the entries
as the number the register keeps. Attendance: a client that has read the present
version has read the present facts (`ReadIsCurrent`). Administration needs only
its type invariant, since commands run behind one row. Fields: defaults are
offered, what is placed or kept has a definition. Access: who may edit the
contract waits for a task command that has locked it (`EditorsWait`), so all four
statements see one commit (`ReadsAreCurrent`); `GrantsInv`, that what was bought
is in the catalogue, gives `AddOnsAdd`.

**Bookings, deployments, forms** (`BusinessProofs`). `ScheduleInv`: the records a
merge has locked are active and no other merge has them, so a merge adds an edge
from a record that has none, and there is no circle. `MigratorInv`: one
deployment has the lock, and what it believes applied is what is recorded;
`KnowsHistory`: whatever is recorded has a number of the running release.
`FormsInv`: the requests of one opening carry one key, or all before the last are
known to have been refused.

**Visits, leads, browser** (`BranchProofs`). `VisitsInv`: what an arrival has found
with the locks it has; a token for each arrival and one at most; numbers without
gaps. `CrmInv`: a lead that was active in a snapshot still is unless its version
has grown, and then the write conflicts. `BrowserInv`: a call of the present
revision has not been left behind; a landing of it goes where the user chose.

**Activation and cutovers** (`CommerceProofs`). `ActivationInv`: a lock is held
once, and `Knows` says per command what it found with which of them; only the
last invitation is live or consumed (`Once`). `PaidInFull` adds the sums.
`CutoverInv`: what a verification has looked at stays there while it looks at the
rest, whatever applies and native writes run, hence also after the latch.

**Sums** (`SumProofs`). A sum over a finite set does not depend on the order in
which its elements are taken, and grows by what is added. The induction over
parts of a finite set is done by hand, through the least cardinality of a
counterexample, because the library's induction theorems take an operator.

**Composition.** `CommerceKept`, `PeopleKept`, `BusinessKept`, `RecordsKept` and
`BranchKept` speak of the composed specifications: a step of the system is a step
of one component and leaves the variables of the others alone, so each
behaviour of the system is one of every component. Hr and Tasks both read
`staff`; a step of either changes it only by `Administer`, which both admit.

**Only model-checked.** `CommandsFinish`: strong fairness is stated with ENABLED,
which the prover does not expand. The runs of section 6 are refutations and need
no proof.

## 8. What is abstracted or left out

* Everywhere: permissions beyond the ones a property tells apart, names, prices,
  texts, audit rows, activity logs and notifications written in the same
  transaction, lists and reports, validation of shapes.
* `Renewal`: packages are values (plan, add-ons and billing cycle together).
  Methods and references of payments are left out. The payment retry with other
  values is a refusal.
* `Activation`: the rate limiter and the plan lists. A command may be refused at
  any lock, which covers the cycle of invitation and agreement
  (`manualCommercialRepository.ts:743`): PostgreSQL ends one of the two.
* `Access`: operator edits are arbitrary, which includes the one that puts an
  older start date back (`commercialRepository.ts:439`).
* `Account`: one user. The 60-second cooldown of links (any number may be
  issued), other users who claim the same address, and a missing user are left
  out. Triggers and unique indexes that repeat a check made under a lock are left
  out, and so is the disconnect of a whole organization's sockets.
* `Organization`, `Staffing`: the profile of the organization and the read-only
  directory. Permission names are a small set.
* `Fields`: sections, labels, types other than choice and scalar.
* `Stock`: one organization; suppliers, SKUs and the value of the reorder
  threshold; branches and locations stay active. Share locks count as exclusive,
  which is exact because every command that takes one holds the organization's
  lock. A command that takes several item locks takes them in any order; the code
  goes by line. A PATCH sends status and unit together. The movement of a receipt
  line is keyed by a fresh line id, modelled as the pair of receipt key and item.
* `Hr`: leave types and their rules, holidays, the work calendar. `Crm`: which
  customer a lead becomes, contact data.
* `Cutover`: the mapping of single columns is the content of a row;
  `restoreIntegrity.ts`, which reads after a restore, is left out.
* `Browser`: one tab. `Forms`: layout and reading pages.
* Database access: the pool and its timeouts; a transaction is what a session of
  a model does between its first and last step.
* Not modelled at all: notifications, analytics and reports, HTTP routing and
  error mapping, e-mail delivery beyond failure.
