# C1RCLE backend: TLA+ models, checks and proofs

The repository is the v2 backend of an event-ticketing platform: a Fastify gateway
(`src/apps/api-gateway`) over a core of domain models, application services and
repositories (`src/packages/core`), with the wire contracts in `src/packages/contracts`.
This directory holds TLA+ models of the parts whose correctness depends on the order in
which requests, webhooks, timers and crashes interleave, the TLC configurations that check
them on small instances, and TLAPS proofs of the results that matter most.

## 1. How the system runs

Every request is an `async` handler on one event loop per process. Between two `await`s any
other request may run, and with firestore so may requests of other processes. Nothing in the
code locks across awaits. What protects shared rows is

* a *compare-and-set* save: a write of version N must find N-1
  (`compare-and-set.ts`, `casSet` of the memory driver). Over firestore a version-1 write is
  exempt and overwrites whatever is stored;
* a few *transactional claims* (ticket admission, scan codes, wallet debits, ledger batches);
* *deterministic ids*: the hold of an idempotency key, the order of a payment, the tickets
  of an order;
* *idempotency records* around mutating commands.

There are two storage drivers, `memory` (process-local maps, synchronous operations) and
`firestore` (durable, transactions, several processes). A model that depends on the difference
takes it as the constant `Driver`, or says in its head which one it is of. In every model one repository call is one atomic step.

## 2. Inventory

Each part below: the state it keeps, its operations, whom it talks to, what is hard about it,
and what makes it correct. Paths are relative to `src/packages/core/src/application` unless
they say otherwise. "→ Module" names the model; a part without one is out of scope (section 9).

### 2.1 Selling

**Checkout** (`checkout/checkout-service.ts`, `inventory/inventory-service.ts`) → `Checkout`,
`Fulfilment`. State: cart reservations (holds), orders, entitlements (tickets), promo
redemptions, ledger entries, the promoter's link and leaderboard counters. Operations: create a
hold under an idempotency key, create a payment intent for it, confirm a payment (from the
provider's webhook *and* from the browser's redirect), sweep expired holds. Hard: availability is
read in several awaits before the hold is written; the two confirmation paths race; fulfilment
is a chain of separate writes in which any can fail; the hold can expire while the buyer pays.
Correct when: stock and the per-user cap hold; a payment becomes one order, each ticket is
issued once and admits once, a commission is counted once; whatever was paid is fulfilled.

**RSVP** (`checkout-service.ts` `createRsvp`) → `Rsvp`: a free booking, a paid order with an id made of
event and guest, then its ticket. Hard: the order exists before the ticket does, and a repeated booking
meets the first one at a different place over each driver.

**Pricing** (`pricing/pricing-service.ts`, `domain/models/pricing.ts`, `event-catalog/`) → `Quotes`. State:
tiers with their pricing phases, promo codes, the terms a referral link signed, tier by tier. Operations: quote, and quote
again for a hold, which freezes the breakdown. Integer paise, rounded. Hard: tiers, code and link are read in
three calls; a discount is allocated over lines, fees follow it. Correct when the parts of a breakdown add
up, a code never makes a basket dearer, and fee and commission fit in what is paid.

**Orders, tickets, guest profile** (`orders/`, `tickets/`, `guest-profile/`): listings → `Listings`, and one profile
row per guest → `Social`.

**Idempotent commands** (`idempotency/idempotency-service.ts`, the two stores) →
`Idempotency`, `OnceOnly`. State: one record per key (in progress or completed, the body's
digest, the response, an expiry) and, for the memory store, a set of keys in flight. Operations:
claim, complete, release, expire. Every mutating route wraps its command in it. Hard: over
firestore a claim is read-delete-create-reread; completing and releasing write by key and not by
claim. Correct when one caller runs the command, its effect happens once while the record lasts,
and a response is replayed only to the body it answers.

### 2.2 Money out

**Refunds** (`finance/refund-service.ts`) → `Refunds`. State: refund requests; the refund lock is
a status of the order. Operations: request (may approve at once when small), approve (one or two
sign-offs), reject. Hard: order and request are two rows; decisions race; tickets are read long
before the save. Correct when: the lock has one owner, a decision is final, nobody signs off
their own request, a rejection gives the order back.

**Payouts** (`finance/payout-service.ts`, `finance/admin-payout-service.ts`) → `Payouts`. State:
payouts, versions, a frozen payout's former status. Operations: request, begin processing,
complete, fail, freeze, release, run a batch. Hard: the balance is two queries and the payout a
third call; ids are milliseconds. Correct when: an organisation never promises more than it has,
paid and failed are final, only a release thaws.

**Settlement and ledger** (`finance/finance-service.ts`, `domain/models/ledger.ts`, `checkout-service.ts`
`settleOrder`) → `DoorTickets`, `Checkout`: an order's money split into ledger entries. Hard:
rates and shares are read before the entries are written. Correct when the legs add up to the order.

**Disputes** (`finance/dispute-service.ts`, `finance/admin-dispute-service.ts`) → `Disputes`. State: dispute rows
and the correcting entries of the ledger. Hard: the entry is booked before the dispute is saved, and partner
and admin resolve at once. Correct when an upheld dispute is paid.

**Bank accounts** (`finance/bank-account-service.ts`) → `BankAccounts`: accounts with one default. Hard: changing
the default is two saves. **Leaderboards** (`finance/leaderboard-service.ts`): sums.

### 2.3 The door

**Scanner shifts and devices** (`door/scanner-service.ts`, `door/door-ops-service.ts`) →
`ScannerShift`. State: door codes, device bindings, sessions. Operations: bind a device, redeem a
code (open a shift), reauthorise, unbind a device, revoke a code or a session, authenticate a
scan or a sync. Hard: opening a shift is six repository calls, and a manager revokes things in
between. Correct when: what is revoked stops working and stays revoked, a code opens no more
shifts than its cap, a handset has one shift.

**Admissions** (`scanner-service.ts`, `door-ops-service.ts` `manualCheckIn`) → `Admission`. State:
seats spent of each ticket, the scan ledger, a couple's confirmation token. Operations: scan,
confirm a couple, deny, override, sync offline scans, check in by hand; and what reads them: the offline
manifest, the guest list, the attendance report. Hard: the claim is a
transaction and the ledger row a later call; offline scans arrive after online ones. Correct when:
nobody is admitted on a void or spent ticket, and ledger, tickets, report and manifest agree.

**Cover wallets** (`cover-wallet/cover-wallet-service.ts`) → `CoverWallet`. State: a wallet's
status and balance, its transaction rows, idempotency by key. Operations: credit, debit, preset
charge, refund, adjust, freeze, unfreeze, terminate, close, reconcile. Refund, adjust and close
are part of the service's interface and of its tests, but no route calls them yet; they are
modelled with the rest. Hard: what the service checks may change before the balance moves. Correct
when: the balance is its rows, a key moves it once, an ended wallet stays ended, limits hold.

**Door sales** (`door/door-service.ts`) → `DoorSales` (which extends `CoverWallet`). State: sale
rows, an index by idempotency key, and the wallet. Operations: walk-in and dine-in sale, void and
refund (service interface; no route yet). Hard: sale, index and debit are separate writes. Correct
when: one sale per key, and what is given back was taken.

**Door ticket sales** (`door/door-ticket-sale-service.ts`) → `DoorTickets`: a walk-up sale writes order, tickets,
admissions, ledger rows and settlement in turn. Hard: it can die after any of them and is sent again. Correct
when what is settled is whole, and what is answered is true.

**Door operations and statistics** (`door/door-ops-service.ts`, `door/door-stats-service.ts`): settings and counts; the
counts are operators of `Admission`, `DoorSales` and `CoverWallet`.

### 2.4 Partners

State machines over single rows, saved by compare-and-set. What is hard is seldom one row (though a
decision may rest on an old one) and mostly the pairs: check-then-create of something that must be unique,
and two rows that must agree.

**Events** (`events/event-service.ts`) → `Events`. Creation, review, publication (which reads the tiers), pause,
cancellation, an admin's pause and forced end. Correct when no stale request puts back on sale what was
paused, cancelled or ended.

**Catalogue** (`event-catalog/`) → `Catalogue`. Promo codes, tables, promoter assignments; an admin's bulk
suspension. Every write is a plain set.

**Venues, calendars, slot requests** (`venues/`) → `Venues`. Hard: blocks overlap; the conflict check is a
transaction over a capped read. Correct when a calendar is a single track.

**Onboarding** (`onboarding/`) → `Onboarding`. Hard: an approval provisions an organisation, then closes the
application, while documents are being reviewed and submissions and reviews are repeated. Correct when an approval
rests on verified documents.

**Organisations and invitations** (`organizations/`) → `Organizations`. Hard: an acceptance writes two rows; any admin's
save may rest on an old membership. Correct when a write changes only the membership it is about.

**Partnerships** (`partnerships/`), **promoter connections** (`promoters/`) → `Relations`. Both sides answer, end
and block one relation. Correct when a closed relation stays closed.

**Referral links** (`promoters/referral-link-service.ts`) → `ReferralLinks`. Assignment, code, vanity address and link
are four writes. Correct when a code names one promoter.

**Analytics, public reads** (`analytics/`, `public/`) → `Analytics`: no state of their own. Each screen scans
orders, tickets and events by itself. Correct when two screens never disagree about the same money.

### 2.5 People and platform

**Admin authority** (`admin/admin-authority-service.ts`) → `AdminAuthority`. State: platform admins
and proposed actions. Operations: propose, approve, reject, cancel, execute (provision or change a
role), revoke. Hard: checks on one row, saves on another. Correct when: every grant was signed by
two, a resolution is final, the platform is never left without a super admin.

**Admin operations** (`admin/admin-ops-service.ts`) → `AdminDesk` (bans, settings), and the modules of the rows they
touch: `Events`, `Venues`, `Catalogue`, `Organizations`.

**Event bus and outbox** (`events/event-bus.ts`, `context.ts`,
`infrastructure/memory/memory-outbox-store.ts`) → `EventBus`. State: outbox rows, attempts, a
draining flag, each consumer's seen set. Operations: append, drain. Hard: nothing drains but the
next append. Correct when: a handler finishes an event once, a processed row's handlers all have,
a drain reaches every row it listed.

**Support desk** (`support/`) → `Support`. Hard: merging two tickets is two saves while guests write to both.
Correct when no message is lost.

**Safety and bans** (`safety/`) → `AdminDesk`. Reports compared and set, bans with a plain first version.

**Social graph, notifications** (`social/`, `notifications/`, `guest-profile/`) → `Social`. Hard: the fan-out of a
publication is delivered again after a failure, while guests read. Correct when what is read stays read.

**Email codes** (`auth/email-otp-service.ts`) → `EmailOtp`. Hard: attempts are counted by writing back a row that
another request may have deleted or replaced.

**Identity** (`src/apps/api-gateway/src/plugins/auth.ts`, `routes/v2/auth/`, `domain/models/partner-access.ts`) →
`Access`. Accounts, sessions, the hook that makes a session and a named organisation an actor, permissions
and dashboards.

**Lists** (`infrastructure/firestore/pagination.ts`, the memory repositories, and whoever reads a list page by page)
→ `Listings`. State: the list, and each walk's cursor and what it has taken. Operations: screens and exports take one
page; sold counts, fan-outs, manifests, rosters, reports and figures turn the pages until there is none, or up to a
cap. Hard: the list moves between two pages, and over firestore between a page's count and its rows. Correct when a
walk that was not cut short misses no row.

**Process memory** (`plugins/rate-limit.ts`, `plugins/cache.ts`, the statistics streams of `phase5-routes.ts`) →
`Limits`.

**Gateway** (`src/apps/api-gateway/src`): each route is the first step of an action in the module it
calls; wiring, the Razorpay client and shutdown are not modelled. **Contracts** (`src/packages/contracts`): schemas.
**Storage** (`infrastructure/firestore`, `infrastructure/memory`): modelled inside the modules that
call it, with the atomicity each driver gives.

### 2.6 How they meet

The gateway calls one service per request, wrapped in *idempotent execution*. *Checkout* calls
*inventory*, *pricing*, the *ledger*, *referral links* and *leaderboards* directly. A *refund* and
an *admission* meet checkout in two rows, the order and the ticket. A *door sale* writes to the
*wallet's* repository past the wallet's service. *Payouts* sum the *ledger*; their freeze and
release, like *admin operations*, run from *admin authority*'s approved proposals. Services tell
consumers of events through the *bus*, in the request that caused them. There is no other channel:
no queue, and no
timer except the sweeps of expired holds and scanner sessions (`app.ts`, firestore only).

## 3. How the modules are composed

The order in which the parts were taken up is by what a mistake costs: money and entry first,
administration next, bookkeeping last.

| composition | modules | abstract specification | proofs |
|---|---|---|---|
| `MCCheckout` | `Checkout` (holds, confirmation, admission, refund lock) | `Fulfilment` | `CheckoutProofs` |
| `MCIdempotency` | `Idempotency` over the memory store, `Idempotency` over a faulty firestore, `EventBus` | `OnceOnly` | `IdempotencyProofs` |
| `Refunds` by itself | `Refunds` | – | `RefundsProofs` |
| `Payouts` by itself | `Payouts` | – | `PayoutsProofs` |
| `AdminAuthority` by itself | `AdminAuthority` | – | `AdminAuthorityProofs` |
| `MCDoor` | `DoorSales` with `CoverWallet`, `ScannerShift`, `Admission` | – | `DoorProofs` |
| `MCPartners` | `Organizations`, `Access` (over the organisation's members), `Relations`, `ReferralLinks`, `Onboarding` | – | `PartnersProofs` |
| `MCProgramme` | `Events`, `Venues`, `Catalogue`, `Disputes`, `BankAccounts`, `DoorTickets`, `Support`, `AdminDesk`, `Social`, `Quotes`, `Rsvp`, `EmailOtp`, `Limits`, `Analytics`, `Listings` | – | `ProgrammeProofs` |

Parts that share rows are one specification: `DoorSales` writes the wallet's rows beside the wallet's own
operations, `Access` reads the membership that `Organizations` keeps while an admin changes it.
Parts that share no row are put side by side in one run, and a behaviour exercises one of them (`part`, or `Parts` for what a configuration starts): interleaving them would multiply the
states and show nothing about either. `Requests` is what the modules of partners and programme share: a
request in flight, a rule that answers the rows it may produce, and the compare-and-set.

What would come next, in this order: several tiers in one basket; the ledger of one organisation with
settlements, refunds, corrections and payouts together, for which `Payouts` takes the settled sum as a
constant.

## 4. How to read the modules

One action is the code between two awaits of one request, or one whole repository call; the call's
transaction, its compare-and-set and its index writes are inside the action. Each request in flight
carries a program counter and the rows it has read: what it later saves is computed from those and
not from the rows as they are then. `Crash`, `Die` and `Failures` let a process or a call stop
between any two steps. Variables named as histories count what happened and are read by no guard.
Ids, bodies, names and texts are model values; money is a small natural number.

What `save` means is the same everywhere: version N+1 replaces version N and nothing else; a first
version is checked by most memory repositories and by none of the firestore ones. A module says in
its head which case applies.

| module | state (code) | actions (code) |
|---|---|---|
| `Checkout` | `holds`, `expired` (cart reservations), `orders`, `ents` (entitlements), `captured` (Razorpay), `redeemed`, `ledger`, `attributed`, `credited`; `req` | `createReservation` as `BeginHold`…`WriteHold`; `createPaymentIntent`; `confirmPayment` from `Lookup` through `SaveOrder`, `ConvertHold`, promo, tickets, ledger, link and leaderboard; `Capture`, `Expire`, the sweep in two steps, `ClaimAdmission`, the refund lock and its restoration |
| `Idempotency` | `record`, `inFlight`, each caller's `pc` and `told` | `executeOnce` over both stores: find, take over, create, re-read, work, complete, release |
| `Refunds` | `order`, `refund`, `redeemed`; `call` | `requestRefund` (read order, read tickets, lock, store), `approveRefund`, `rejectRefund` (save, read order, restore), `Scan` |
| `Payouts` | `payout`, `last` (ids); `call` | `requestPayout` (two sums, decide, create), `beginProcessing`, `complete`, `fail`, `freeze`, `release`, `runBatch` |
| `AdminAuthority` | `admin`, `proposal`; `call` | `propose`, `approve`, `reject`, `cancel`, `executeApprovedAction`'s provisioning and role change, `revoke` |
| `ScannerShift` | `code`, `device`, `session`; `call` | `bindDevice`, `startSession` (code, sessions, device, replace, create), `reauthorize`, `unbind`, `revokeCode`, `revokeSession`, `authenticateSession` for scans and syncs |
| `Admission` | `ticket`, `asked`, ledger counts; `call` | `scan`, `confirmCouple`, `recordStaffDeny`, `syncOfflineScans`, `overrideScan`, `manualCheckIn`; voiding and token expiry |
| `CoverWallet` | `wallet`, `ledger`, `lately`, `answered`; `req` | every wallet operation as check, count, look up, move; `reconcile` |
| `DoorSales` | `sales`, `sold`, `indexed`, `served`; `sreq`, and `CoverWallet`'s state | `createWalkIn`, `createDineIn`, `voidSale`, `refundSale` |
| `EventBus` | `status`, `attempts`, `pending`, `seen`, `draining`; `call` | `emit`: append, take the flag, list, dispatch, mark |
| `Events` | `event`, `tiers`; `call` | the routes of creation, edit and actions; `FetchOwned` with the rule of the action, `PublishReadsEvent`, `PublishReadsTiers`, `Duplicate`, the admins' rules, `CreateTier`, `SaveEvent` |
| `Venues` | `venue`, `slot`, `slotRequest` | venue creation, edits, menu and private profile; suspension and reinstatement; `CreateBlockIfFree` (the overlap transaction) and the older guarded creation, `Unblock`; slot requests, answers, cancellation; availability as `ComputeVenueAvailability` |
| `Catalogue` | `assignment`, `promo`, `table`, `invited` | `createPromotion`, `createTable`, assigning and ending a promoter, the admins' list-and-save-one-by-one of a suspension |
| `Quotes` | `day`, `class`, `offer`, `signed` | `createTicketTier`, `createPromoCode`, `quote` and the hold's quote as `ListTiers`, `GetPromoByCode`, `ResolveAttribution`, answer; `CalculatePricing` as functions of lines, units and code |
| `Rsvp` | `bookable`, `booked`, `admission`; `driver` | `createRsvp` call by call; scans, the event opening and closing |
| `DoorTickets` | `sale`, `tickets`, `scans`, `revenue`, `answered` | `sellAtDoor`: `FindSale`, `CheckAvailable`, three saves, `IssueEntitlements`, `ClaimAdmission`, `RecordScan`, `SettleOrder`, `AnswerSale`; the split as `SettlementLegs` |
| `Disputes` | `dispute`, `correction` | raise, review, `resolve` by partner and admin: `Adjudicate`, `WriteCorrection`, `SaveDispute` |
| `BankAccounts` | `account` | `addBankAccount`, `setDefaultAccount` in its two saves, `removeAccount` |
| `Support` | `ticket` | every route of guests and admins as read-with-rule and save; the merge as two reads and two saves |
| `AdminDesk` | `report`, `ban`, `settings` | reports from submission to restoration, `banUser`, `unbanUser`, `updatePlatformSettings` |
| `Social` | `published`, `follows`, `feed`, `inbox`, `profile` | follow, unfollow; the consumer of `event.published` call by call; reads and marks; inbox notices and actions; the two saves of a guest profile |
| `EmailOtp` | `minute`, `otp`, `mailed`, `drawn`, `verified` | `send` and `verify` call by call |
| `Limits` | `instant`, `hits`, `streams`, `reading`, `kept` | the rate limiter's hook; opening, ticks and closing of a statistics stream; the cache's two hooks around a handler; a restart |
| `Analytics` | `billing`, `purchase`, `scannedAt` | orders and scans as they move; `Overview`, `EventAnalytics`, `OrganizationEventCards`, `OrganizationCalendar`, `OrganizationTrends`, `AnalyticsSummary` as operators |
| `Listings` | `listed`, `paging`; a walk in `call` | one action per reader of a list, all of them `Asks`: how many rows, and the cap; a page as `ReadAfterRow` (memory, by a row's id), `ReadSlice` (memory and embedded arrays, by offset), `CountRows` and `FetchRows` (firestore, by offset beside a count); rows that enter and leave |
| `Organizations` | `org`, `invitation`, `lapsed`; `joined` | the routes with the hook's permission check; `ReadOrg` with the rule, `SaveOrg`; invitations; acceptance as `SaveMember`, `SaveInvitation`; admins' suspension and commission |
| `Access` | `today`, `password`, `session`, `resetToken`, `trade`, `told` | sign-up, sign-in, reset, refresh, sign-out; `getAccess` as `ResolveSession`, `ReadMembership`, `RequirePermission`, answer |
| `Relations` | `relation` | discovery, requests, answers, end, block, share, each as read-with-rule and `SaveRelation` |
| `ReferralLinks` | `assigned`, `codeOf`, `ownerOf`, `aliasOf`, `link`, `sales` | link creation as `FindAssignment`, code, alias, `SaveLink`; deactivation, clicks, sales |
| `Onboarding` | `application`, `provisioned`, `attempts` | drafts, documents, submission, reviews; approval as `ReadForApproval`, `Provision`, `SaveApplication`; counted document checks |

In the last block an action named after a route (`PostEvent`, `PatchOrganization`, …) is the request arriving with
what the gateway has checked of it; the action that reads applies the domain's rule and keeps the new row
in the request; the `Save…` action writes it.

`Fulfilment` and `OnceOnly` are the promises: what a payment, and what a key, may be seen to do.
`Checkout!Promise` and `Idempotency!Once` are the refinement mappings. `MC*` modules name small
instances, or put several modules side by side; `Refunds`, `Payouts` and `AdminAuthority` name their instances at
their end. `*Proofs` modules hold the theorems.

## 5. Runs

Every run explores its instance completely, on two workers in less than five minutes. Deadlock is
checked in the runs of `Checkout`, where there is always a next request, and not elsewhere: requests are
bounded and the system stops when they are used up.

| run | instance | what it shows |
|---|---|---|
| `CheckoutConverges` | memory; one hold of two tickets, two payments of it, two workers, a refund, scans, the sweep; fair | Whatever order webhook and redirect come in, every behaviour is one of `Fulfilment`; a seat admits once and a commission counts once; captured money becomes an order (or its hold is gone), and that order has its tickets, and its ledger too unless the settlement refuses the commission it froze, as it may for one of the payments. Two tickets, because one can be scanned while the next is being issued; two payments, because the second confirmation races the first one's conversion. |
| `CheckoutFirestore` | firestore; two holds of one buyer, two payments of one of them, crashes, the sweep's stale batch, version-1 overwrites | What survives all of it: no ticket without captured money, an unexpired hold or the order made of it is counted, an order that lists its tickets has them. |
| `CheckoutOversells` | memory; two holds, stock for one | Ends in a counterexample: two hold requests read the same availability. |
| `Idempotency` | part *commands*: memory store; three callers, two bodies, four calls, failing work and expiry; part *faults*: the same callers over firestore with every fault; part *events*: three events, two handlers that may throw, lists of two rows, two attempts, traffic that nothing obliges to come; fair | Faithful replays, an implementation of `OnceOnly`, a key that does not stay claimed; over firestore with every fault, nothing is replayed that did not happen. A handler succeeds once per event, a processed row was handled by all, a drain counts an attempt of every row it listed, and if drains keep coming every row settles. A winner, a loser, a retry and a foreign body are the four roles a call of a key can have. |
| `Refunds` | four calls of three admins, who may die anywhere, and the door | One request owns the lock, a payment back needs distinct approvers, a decision is final: a request, two sign-offs and a rejection race. |
| `PayoutsDecide` | five calls on two payouts, batches included | Paid and failed are final, only a release undoes a freeze. |
| `AdminAuthorityDecide` | four calls of two super admins and a third user, one proposal | Nobody gains authority alone, what is executed was signed by a second admin. |
| `Door` | part *sales*: a clerk's sale with its void and refund beside two wallet requests (`Beside`: open, credit, debit, terminate); *wallet*: two requests of every kind over two keys; *shift*: three calls of every kind over two devices and two sessions of one code; *entry*: three calls over a single's and a couple's ticket and two devices' offline batches, one with a payload it could not read; calls may die | A key moves the balance once and the event's statistics agree with the wallet; a sale gives back no more than it took and its debits are in the revenue shown; what revocations end stays ended, and no scan admits with its device unbound; only a manager binds again; ledger, tickets, gauge and offline manifest agree. |
| `Partners` | two requests at a time: one organisation with its invitation; a member's sessions and dashboard; a host-venue and a promoter-target pair with two rows each; one event's links of two promoters; one application | An accepted invitation made a member; a write changes the membership it is about and no other, whatever the caller's session and role became meanwhile; a closed relation is closed for good; a code names one promoter and no link counts more than was recorded; an approval rests on verified documents and its organisation exists. |
| `Programme` | two requests at a time at one of fifteen components, 23 parts in all | A calendar is a single track and offers only what is free; an upheld dispute is paid; a settled door sale is whole; a merge keeps every message; an event moves along its life cycle and halted sales stay marked; what is read stays read; a quote is fair; all screens show the same money; a walk over pages misses no row that stayed, unless the list moved where its cursor cannot tell. |
| `DoorTicketReplay` | the door's ticket sales of `Programme`; two sales, crashes, retries | Ends in a counterexample: a sale that dies half-way is answered as a completed one. |
| `MonthlyTrends` | the analytics of `Programme` | Ends in a counterexample: a monthly chart shows zero beside totals that do not. |

### Bounds

Bounds are named constants. They limit how much happens in one behaviour and never which of two steps
comes first; the races found need two requests, and each instance has at least one more than that or is
exactly the smallest that shows it.

* *Requests in flight*: `Calls`, `Workers`, `Clerks`. Two in `Partners` and `Programme`, where each row has at most two
  writes per request; the rows themselves go through many requests one after the other, up to
  their last version (`MaxEventVersion` and `MaxOrgVersion` 4, `MaxAppVersion` 5, assignments and relations 3, the others 3 to 5): enough
  for a row to be made, changed by another, and written by a request that read it before.
* *Requests that do not meet*: a quote writes nothing, so there is one at a time (`Alone`), and so is a walk over a list; of two requests about support
  tickets one sends, says or merges (`OneDesk`); a request for a dashboard meets one of another
  kind (`MeetsAccess`); a sale meets the wallet operations of `Beside`, the rest of them meet each other in *wallet*.
* *Counters*: `MaxRefunds`, `MaxCalls`, `MaxId`, `MaxRows`, `MaxClicks` and `MaxScans` 1, `MaxCharge` 1, `MaxCodes` 2.
* *Limits of the code, scaled down*: three blocks against `MaxSlotsRead` 3 (2,000 in the code), a `Budget` of 2 in a `Window`
  of 2 with `MaxTracked` 2 of three keys, streams `MaxPerActor` 1 and `MaxGlobal` 2, `TimeToLive` 2, two failed attempts of a code,
  one document check a day, a velocity limit of 1. Each is small enough to be hit and larger than none.
* *Lists*: four rows; a page holds at most `Clamp` 2 of them (100), whatever was asked, 2 or 3 (up to 1,000);
  a walk stops after `MaxScan` 3 rows or `MaxPages` 2 pages. So there are walks of one page, of several, of a last page
  that is full, and walks that are cut short and that are not.
* *Time*: sessions live two days and are extended after one; a chart has two hours a day, two days a month
  and at most five buckets, with orders and scans at instants 2, 3 and 6: two of one day, one of the next
  month. Two orders and two events with one couple's ticket each.
* *Settlements that are refused*: `Tight`, the payments whose order may freeze more commission than the settlement leaves;
  the second of two in `CheckoutConverges` and `CheckoutFirestore`.
* *Values*: prices 101 and 350 and rates 15, 20, 50, 90 and 95, because a percentage of 101 is a fraction that must be
  rounded, a code of 250 exceeds the cheaper ticket, and a commission of 95 per cent comes close to what is
  left after the fee.

`Symmetry` exchanges only workers, calls or ids that no other constant tells apart, and no run that checks
liveness uses it.

### 5.1 Statements the code does not keep

The modules also state what the repository says of itself and the code does not do. TLC finds each of the
following violated when the property is added to the run named, with the change of constants in brackets. A
property of an instance (`Shift!…`, `Entry!…` in `MCDoor`) is added through a definition, as `LedgerAgrees` is
there. "Serially" is what holds when requests do not overlap.

| property, run [change] | the repository says | the code |
|---|---|---|
| `NeverOversold`, `CheckoutOversells` | "Atomically hold inventory" (`src/docs/integration-flows/checkout.md:59`) | `checkout-service.ts:164` reads availability and writes the hold in later awaits. Serially, and while no order is locked for a refund (5.2), it holds, with `CapRespected` (`StockKeptSerially`) |
| `OneOrderPerHold`, `CheckoutConverges` | "the hold's `active -> converted` transition is the single point of contention" (`checkout-service.ts:416`) | The order is saved before the conversion, which rewrites any row: two captured payments of one hold become two orders. Serially it holds (`OneOrderSerially`) |
| `SeatAdmittedOnce`, `CheckoutFirestore` | "a double admission is impossible, not merely unlikely" (`firestore-entitlement-repository.ts:98`) | `compare-and-set.ts:32` plain-sets version 1: a late confirmation makes a redeemed ticket valid again |
| `PaidOrderIsFulfilled`, `CheckoutConverges` [`Driver = "firestore"`] | "Atomic transaction: Order + CartReservation conversion + Entitlements + …" (`checkout-service.ts:493`) | Separate awaits; after a crash behind the order's save every redelivery finds the order and returns |
| `PaidOrderIsSettled`, `CheckoutConverges` | "a paid order became money" (`checkout-service.ts:553`) | The settlement refuses a commission above gross minus plan fee minus venue share (`finance-service.ts:105`), of which the quote checked neither (`checkout-service.ts:105`). The order is paid and ticketed by then, and every redelivery returns at `checkout-service.ts:402`: no ledger, no link's sale, no leaderboard |
| `ConversionIsFinal`, `CheckoutFirestore` [no symmetry] | "converted: hold turned into an order" (`cart-reservation.ts:16`) | The sweep's batch writes back, as released, what its query read (`firestore-cart-reservation-repository.ts:89`): a hold whose confirmation read it before it expired is converted in between |
| `OneWinner`, `Idempotency` [`Driver = "firestore"`, `Faults = {"workFails"}` or `{"expiry"}`] | "exactly one may win", "no read-then-write race" (`firestore-idempotency-store.ts:15`, `:18`) | A lost create whose re-read is empty reports a win (`:65`); an expired record is read, then deleted unconditionally (`:45`) |
| `EffectOnce`, `Idempotency` [`Driver = "firestore"`, `Faults = {"storeFails"}`] | "exactly once per key" (`idempotency-service.ts:54`) | When storing the response fails the key is released and the retry runs again (`:82`) |
| `ReplayFaithful`, `Idempotency` [`Driver = "firestore"`, `Faults = {"workFails"}`] | "a reused key with a different request throws" (`idempotency-service.ts:55`) | `complete` merges into whatever record is stored (`firestore-idempotency-store.ts:69`) |
| `RejectionReopens`, `Refunds` [`FairSpec`, no symmetry, two calls] | "Always entered from `paid` and always left back to `paid`" (`order.ts:44`) | `refund-service.ts:163` stores the rejection, then restores the order; a crash between them strands it |
| `LockStopsTheDoor`, `Refunds` | "so a second refund request and a door scan can't race" (`order.ts:43`) | `claimAdmission` never reads the order |
| `CheckedInIsReviewed`, `Refunds` | a checked-in ticket "always needs at least one sign-off" (`refund-request.ts:18`) | Tickets are read before the lock (`refund-service.ts:85`); a scan in between is not seen |
| `NoOverdraw`, `PayoutsDecide` [`Settled = 1`] | "never lets requested payouts exceed available balance" (`payout-service.ts:24`) | The balance is read and the payout stored in a later await; and a frozen payout reserves nothing. Serially and without freezes it holds [`Serial = TRUE`, `Ops <- Unfrozen`]: `NoOverdrawSerially` |
| `RequestsAreKept`, `PayoutsDecide` [`SameMillisecond = TRUE`] | "ids are generated" (`compare-and-set.ts:20`) | `payout.ts:52`: the id is the organisation and the millisecond |
| `FreezeIsIdempotent`, `PayoutsDecide` | "freezing an already-frozen payout is a no-op" (`payout.ts:98`) | The unchanged row is saved with the version it has, and the save refuses it (`admin-payout-service.ts:55`) |
| `MovesAreAudited`, `PayoutsDecide` | "Every admin mutation writes an audit record" (`src/docs/roadmap/phase-02-kyc-onboarding.md:58`) | `runBatch` records once, after its loop (`admin-payout-service.ts:122`) |
| `SuperRemains`, `AdminAuthorityDecide` | "refuses to demote the last active super admin, even racing two approved proposals" (`onboarding.test.ts:800`) | Checks on one row, saves on another (`admin-authority-service.ts:343`, `:379`). Serially it holds [`Exclusive = TRUE`]: `SuperRemainsSerially` |
| `OneRunPerApproval`, `AdminAuthorityDecide` | "no single operator can provision an admin … alone" (`admin-authority-service.ts:44`) | A proposal that has run stays approved (`:278`), and one admin runs it again |
| `AdminsAreKept`, `AdminAuthorityDecide` [`Proposals = {p1, p2}`, `Initial <- GrantAndDemotion`, three calls] | "ids are generated" (`compare-and-set.ts:20`) | Admin rows are keyed by user: a second first version overwrites what happened since (`:297`). Serially it holds: `AdminsAreKeptSerially` |
| `UnboundStaysUnbound`, `Door` [`Driver = "firestore"`] | "It will not resurrect an unbound device." (`scanner-service.ts:1054`) | Two first launches both write version 1 (`:1086`) |
| `UsesNeedBinding`, `Door` | "Both are required." (`scanner-service.ts:356`) | `syncOfflineScans` never asks for the binding (`:1425`) |
| `RevokedCodeStops`, `Door` | "Revoking a code must also close the shifts it opened" (`scanner-service.ts:640`) | A session is created after the revocation listed them (`:711`) |
| `DeviceCap`, `Door` [`MaxDevices = 1`] | "Max concurrent devices" (`event-code.ts:64`) | Counted in one call, created in another (`scanner-service.ts:707`) |
| `OneShiftPerDevice`, `Door` | "replaces the old shift rather than consuming a second slot" (`scanner-service.ts:703`) | Two openings both find no shift (`:701`) |
| `OneOfflineAdmission`, `Door` | "one admission and one recorded conflict rather than two admissions" (`scanner-service.ts:1365`) | The sync claims one seat of a couple's ticket per scan (`:1458`) |
| `CouplesTogether`, `Door` | "admitted all-or-nothing, never partially" (`src/docs/scanner-app/02-scan-admission.md:136`) | The same line. Without offline scans it holds [`EntryRequests = {"scan", "confirm", "override"}`] |
| `EverySeatIsRecorded`, `Door` | "Every scan attempt — admitted or refused — lands here" (`scanner-service.ts:510`) | Claim and ledger row are two calls (`:890`) |
| `OnlyActiveMoves`, `Door` | "terminated wallets reject all mutations" (`cover-wallet-service.ts:41`) | The status is checked when the request reads the wallet (`:444`), not when the balance moves |
| `VelocityHolds`, `Door` | "max 3 debits/min per device" (`cover-wallet-service.ts:40`) | Recent debits are counted before the debit is made (`:495`) |
| `FrozenOnlyThaws`, `Door` | "only `active` is reachable from it" (`cover-wallet.ts:24`) | `terminateWallet` refuses only an ended wallet (`cover-wallet-service.ts:635`) |
| `DiscrepanciesAreReal`, `Door` | "(opening + credits - debits + refunds)" (`cover-wallet-reconciliation.ts:9`) | A debit's row is negative and is subtracted (`cover-wallet-service.ts:816`) |
| `OneSalePerKey`, `Door` | "Idempotent via client-supplied idempotency key." (`door-service.ts:18`) | The row and the index of its key are two writes (`firestore-door-sale-repository.ts:42`) |
| `RefundsNeedDebits`, `Door` [`Parts = {"sales"}`, `Clerks = {c1, c2}`, `Workers = {}`, no symmetry] | "only ever credited back what it was actually debited" (`door-service.ts:334`) | A void and a refund both read the sale as active and each credits under its own key (`:285`) |
| `NoOrphans`, `Partners` | "a refused approval must not leave an orphan organization behind" (`onboarding-service.ts:430`) | Only the gate is checked before the organisation is saved; the application's save that follows may lose to another review or submission (`:459`) |
| `EveryRowSettles`, `Idempotency` | the bus "polls pending rows" (`outbox.ts:5`) | Only an append drains (`event-bus.ts:70`) |
| `NothingIsMissed`, `Programme` [`Parts = {"listing"}`] | "Pages through every order for the event rather than trusting a single page" (`inventory-service.ts:48`) | The page and the count are two reads (`pagination.ts:30`), and the next page is an offset: an order stored between them may push another past the end of a full last page, and a row that leaves moves the next one below the offset. With a row's id for a cursor it holds |

Two more have runs of their own, listed with the oversold hold as findings: `AnsweredSalesAreReal`
(`DoorTicketReplay`) and `MonthsAddUp` (`MonthlyTrends`).

### 5.2 What else does not hold

The following were met while the other modules were written. They follow from what the models do step by
step; no definition states them, because they would only say again that two awaits are two awaits.

*Rows that two requests write without looking.*
* Two payments of a hold make two orders, and an RSVP that meets the winner is told of it by the memory driver only
  (`checkout-service.ts:324`: "converge on the winner"); over firestore its first version overwrites the winner's. One that dies
  after the order leaves a booking that lists no ticket.
* A promoter's assignment is saved plainly: the admins' bulk suspension writes back what it listed
  (`admin-ops-service.ts:192`), and the host's link creation remakes a suspended or ended assignment as active under its
  fixed id (`referral-link-service.ts:71`).
* Settings are read, merged and written whole, without a version (`admin-ops-service.ts:271`): of two admins' patches one is
  lost. A first ban (`:383`) overwrites a ban made meanwhile. A guest's profile loses one of two edits that start
  from none.
* A bank account made the default between another's two saves leaves two defaults, a death between
  them none (`bank-account-service.ts:93`).
* One pair of tenants can have two live relations over firestore: the pair is looked up and the row, under an id of
  its own, created later. So can a guest have two wallets of one event (`cover-wallet-service.ts:329`); a wallet whose opening
  dies between its two writes has a balance that no row explains. A reconciliation that was resolved can be
  made again and overwrites it (`:763`).
* A merge of support tickets that dies between its saves leaves the duplicate open beside a primary that lists it.
* A dispute that ends denied can keep the correcting entry of a resolution that lost its save or died
  (`admin-dispute-service.ts:53`).
* Two tills sell the last place (`door-ticket-sale-service.ts:173`: "The door is the last place that should oversell a room.").
* A one-time code verifies twice when two requests read it before either deletes it (`email-otp-service.ts:75`: "a
  replayed code can never verify twice"), and a failed attempt saved late brings a used code back or puts an
  old one in place of a new (`:70`).
* An application submitted or reviewed a second time moves to the status it has, which is no error (`fsm.ts:14`): a new
  version, whose review replaces the one before, and an approval under way loses its save (`NoOrphans`).
* A session created after an unbinding listed the device's shifts survives it (`scanner-service.ts:711`).

*Limits that are read, not kept.*
* A calendar's window is asked of a slot's start alone (`firestore-venue-slot-repository.ts:36`): availability asked from the middle
  of a block on does not show it.
* The conflict check of a calendar and its availability see `MAX_SLOTS_READ` rows (`firestore-venue-slot-repository.ts:17`): with
  more, cancelled ones included, a block overlaps another. The overview and the charts scan 1,000 rows
  (`analytics-service.ts:25`).
* An export is "capped at 1000 rows" (`directory.ts:255`) and firestore answers at most 100 (`pagination.ts:28`), of which
  nothing is said in the file. So do the guest list's door sales and `listWallets` (`cover-wallet-service.ts:405`), and the
  platform's summary, whose `truncated` looks for 1,000 (`admin-ops-service.ts:318`). A desk's list says `hasNextPage` and
  carries no cursor (`directory.ts:41`); of the lists on the wire only follows and notifications do (`social-routes.ts:267`).
* The rate limiter forgets a key that it evicts, and its budget starts again. The cache counts an answer's life from
  when it is sent, not from when it was read (`plugins/cache.ts:83`). A stream whose first frame the socket does not take is
  cleaned up before its timers exist (`phase5-routes.ts:245`), which throws and keeps its slot: the leak that
  `door-stats-stream.test.ts:121` is about. A tick's statistics are asked for whether or not the last were answered
  (`:247`), and an older answer may be sent after a newer one.

*Two computations of one thing.*
* An order locked for a refund is not sold to the inventory (`inventory-service.ts:57`) and is sold to the analytics
  (`analytics-service.ts:28`). Its tickets stay valid and are offered again, and a rejection brings the order back: with no two
  requests overlapping, the tier is oversold and a buyer over the cap (`NeverOversold` and `CapRespected` of `Checkout` with
  `Workers = {w1}` and `MaxRefunds = 1`).
* A page's cursor "mirrors the memory adapter's scheme exactly" (`pagination.ts:4`): most of the memory repositories have a
  row's id for a cursor, no clamp, and begin anew when the row has gone (`memory-repositories.ts:66`).
* Quote and hold check the commission a link signed against what is left of the order (`checkout-service.ts:105`); the settlement
  computes the platform's fee from the onboarding plan, and the promoter's share from the promoter's tier
  (`:593`). The fee an admin sets on the organisation (`organization.ts:81`) is read by neither. A commission that passed the
  one and not the other leaves a paid order without a settlement (`PaidOrderIsSettled`).
* A promo code is looked up and applied but neither its validity nor its number of uses is looked at
  (`pricing-service.ts:70`).
* Sale statistics count voided sales; an organisation's wallet statistics are always zero; a refund rate divides
  refunds by net revenue (`analytics-service.ts:517`).
* The guest list shows a voided ticket as not entered, which the attendance report leaves out because it "would
  misreport it" (`door-ops-service.ts:599`). An overridden scan admits a guest and leaves the ticket unspent
  (`scan-ledger.ts:283`): it admits again.
* A proposal stays approved after it ran: a commission change or a freeze that is run again undoes what
  was decided since (`admin-ops-service.ts:547`).
* Discovery offers partners that block the organisation and the request from the card is refused, though answering it
  "cannot 400" (`partner-discovery-service.ts:24`). A host may withdraw a slot request while it is
  "`pending`/`accepted`" (`venue-service.ts:387`); `SLOT_REQUEST_TRANSITIONS` (`venue.ts:328`) lets only an accepted one be
  cancelled.
* A promoter organisation's staff, to which an unknown role falls back, has no permission at all
  (`partner-access.ts:163`: "rather than to an empty set").
* A sign-up whose re-read of the session fails has made the account and answers 401 (`routes/v2/auth/index.ts:259`).

*Without a caller.* A report's review has no gateway route, nor have `refundWallet`, `adjustWallet`, `closeWallet`,
`resolveReconciliation`, `voidSale` and `refundSale`; nothing moves an order to failed, cancelled, expired or refunded, nothing
edits a tier. They are modelled where a model of the row would be incomplete without them.

## 6. Fairness

Only what the code schedules is fair. A request that has been accepted runs on (`WF` of its step): the
event loop does not starve a promise. Razorpay redelivers a webhook until it is answered with success,
so a confirmation of a captured payment is begun again and again (`SF` of `BeginConfirm`: each
delivery may find every worker busy). Nobody is obliged to pay, scan, approve, reject or append. A
crash is never obliged and never excluded except where a run says so; a counterexample to liveness
is always found under the fair specification. In `Idempotency` the fairness is that of the modules it
composes (`OnceSpec`): a caller's work goes on, and a drain that was begun goes on. That another event is appended, and drains what
was left, is assumed by nothing: `DrainsMakeProgress` has it as a hypothesis where it needs it. The other runs check no liveness and assume no fairness.

## 7. Proofs

60 theorems are checked by TLAPS, in eight modules, for every value of the constants that satisfies the
modules' named assumptions. Most assumptions give the constants their types, keep `None` apart from the rows and say
that sets of rows to be summed are finite; `AnalyticsAssumption` adds that an event which takes place starts
within the time considered, as the calendar is asked for that time only. Two say something of the code: `SaleAssumption` and `WalletAssumption` keep
the keys of wallet requests apart from those a sale makes of its own (`<key>-debit`, `<key>-void`, `<key>-refund`) and from an
opening's (`wallet-open-<wallet>`), which nothing in the code enforces but its callers' keys have.

Every safety property of a passing run is the conclusion of one of them. A theorem
with a hypothesis says so: it is the exact part of the statement that holds, and 5.1 has the counterexample to the rest.

*How the invariants are found.* The properties relate rows, and are broken by requests that write what they read long
ago. So each inductive invariant says, per program counter, what a request in flight knows: that the row it read is
the stored one or an older version of it; that what it is about to write follows from what it read by a rule of
the domain; which rows it has already written. A compare-and-set that succeeds then finds the very row that was read. Where
components stand side by side in a run (`part`), each has its own invariant, and the steps of the others leave it alone.

*CheckoutProofs.* Types first (`TypeCorrect`): the only difficulty is that counts of holds and
orders stay natural numbers. `FlowInv` is what both drivers guarantee. `TicketsFollowMoney` and
`SettledOrderIsComplete` are not inductive by themselves: a request about to write the ledger must
know that the tickets are there. `CarriesThrough` says, per program counter, which rows the request
has already written; and rows of a payment never disappear. `HoldsInv` does the same for the inventory: a
hold is made by one request at a time and only where no row was found, and one that the cleanup has read exists and stays
expired; so no unexpired hold is released, or made anew under its order (`UnexpiredHoldIsSeen`, a conjunct of it). A hold that is
converted has its order, and an order that is paid counts its units as sold (`PaidIsSold`): the units of an unexpired hold are
counted, except while an order made of it is locked for a refund (`HoldsAreCounted`, both drivers). `CasInv` is what compare-and-set creates
add: at most one request is past the order's save for each payment, so no ticket is rewritten and no
commission counted twice. From both, every step of `Checkout` is a step of `Fulfilment` or none
(`FulfilmentCorrect`). What fails when requests overlap is proved of one request at a time: `OrdersInv` says that an order's hold is
active only until the request that saved the order converts it (`OneOrderSerially`); `StockInv` counts the units
that are spoken for (`Taken`: live carts, holds a confirmation has checked, holds with an order) and says per program counter
what the request that makes a hold has read of them. With one order per hold tickets are as many as units
(`TicketsAreUnits`), no step but `CreateHold` takes a hold (`TakenStays`), and so stock and cap are kept (`StockKeptSerially`). It
assumes that no order is locked for a refund (`MaxRefunds = 0`): with one it is false (5.2). `CasCorrect` and what follows from it assume `Driver = "memory"`; over firestore they are
false, and `SeatAdmittedOnce` added to `CheckoutFirestore` shows it.

*IdempotencyProofs.* `ReplayCorrect` (`RealInv`) holds under every fault, and `NothingIsInvented` says it of the composition,
over both stores. `ClaimInv`, and with it
`OneWinner`, `EffectOnce`, `ReplayFaithful` and the refinement of `OnceOnly`, is proved under `Sound`:
the memory store, or a firestore whose only fault is a crash. It is `OneWinner` with what each caller
knows of the record it claimed; the counterexamples of 5.1 show that `Sound` cannot be dropped. For the bus, `BusInv` is
that one request at most is draining, that it alone changes rows, and that the handlers it has dispatched and
marked are those in the seen sets: `HandledAtMostOnce` and `ProcessedRowsAreHandled` follow for any events, handlers,
attempts and lists.

*RefundsProofs.* `LockInv`: what a call has read is the stored row or an older version of it; where
the call stands says which rows it wrote; one call undoes a request. Two owners of the lock would
need two saves of one version. `LockIsOwned` needs calls that do not crash. `FourEyes` and
`DecisionIsFinal` follow from reads being old: a decision on a stale row loses its save.

*PayoutsProofs.* `PayoutInv`: reads are old, a frozen payout remembers where it came from, and no
two requests create one id. The theorems assume that no two requests share a millisecond; with a
shared one `RequestsAreKept` is false (5.1). `NoOverdrawSerially` is about requests that do not overlap and in which
nothing is frozen: what a request has summed is then still what is stored when it creates its payout
(`SerialInv`), which is all that is missing in the general case.

*AdminAuthorityProofs.* Every step lets proposals only grow (`Grows`): a row appears, or a pending one
moves by one version, and nothing else. `IInv` adds to the types and to dual control what each
request knows: a resolution about to be saved was let through on a pending row that is the stored one
or an older version of it, so a compare-and-set that succeeds finds that very row; an execution in
flight carries a proposal that is approved, and stays so because a resolved row never changes. From
it follow `DualControlCorrect`, `ResolutionCorrect` and `GrantsCorrect`, whether executions overlap
or not. That a super admin remains is false when they overlap (5.1). `SuperRemainsSerially` and `AdminsAreKeptSerially`
say that nothing else breaks it: with one execution at a time (`OneAtATime`), the rows it has read are
the stored ones (`Fresh`) and what it is about to save is what the domain makes of them (`Fits`), so the check it passed is
still true when it saves, and no admin row is lost under another.

*DoorProofs*, the largest. Wallet: `BookInv` is that each key has one row and that the balance is the opening plus
the rows, `ReqKnows` that a request which is about to move the balance has no row under its key and is the only one of that key;
so a retry after a death finds the row of the first attempt and moves nothing (`WalletMovesOnce`). Sales: `SaleInv` says for each
sale how its status, its index, its debit and what was given back go together, and what the till's request in flight
may still write. `WalletMovesOnce` and `RefundsAreCovered` speak of one till (`OneTill`) where sales are made: with two, a void and a refund each
credit (5.1), and a walk-in and a dine-in asked for under one key at the same time both debit. Wallet requests
race freely with the till and with one another. Shifts: `ShiftInv` is that versions grow, that a session once over stays over, and what an
unbinding or a revocation that has listed sessions still has to end. `RevokedSessionsStayEnded` holds for both drivers;
`ScansStopAtUnbinding` and `UnboundDevicesStay` need `Driver = "memory"`, whose save checks the first version too. Admissions:
`EntryInv` is that, ticket by ticket, the people on the ledger and those claimed by calls that have not recorded them yet are the seats spent:
a sum over the calls in flight, which every step of one call changes by what it moves from one side to the other
(`LedgerAgreesWithSeats`).

*PartnersProofs.* For each of relations, links, applications and organisations, a request's knowledge of the row it read: a row that would be
written over the stored version follows it by a rule of the domain. `RelationsStayClosed`, `ApprovalsAreSound` and `MembersAreKept` are action
properties and follow from that alone. `CodesStayOwned` adds that codes, addresses and links of one promoter name one another at
every step of the creation; `AcceptanceJoins` that an invitation is being accepted only by who has already been saved as a member.

*ProgrammeProofs.* Disputes: a resolution that would be saved as upheld has its entry. Door ticket sales: one request of a key at a
time, and what the sale's rows are at each of its steps. Support: a duplicate's messages are in the primary from the first of
the merge's two saves on, and a version that a merge has read and would still replace has no other message. Events: the row to be saved is one move of
the life cycle from the row of the version before. The follow feed: a row that is read is never written. Calendar: the
check and the write are one transaction, so live slots stay apart as long as the transaction reads the whole calendar:
`TimelineIsSingleTrack` has that as its hypothesis (no more blocks than `MaxSlotsRead`), and 5.2 says what happens beyond. Quotes:
`QuotesAreFairToAll` is arithmetic about allocation and rounding, for all lines, prices, discounts and rates, and an invariant that
what a request has read of tiers and code still bounds what it will answer. It speaks of the component's own behaviours (`part = "quote"`), the only ones in
which anything is quoted. `SplitsAreSound`: for any amount and any rates whose sum with a frozen commission the guard lets
through, the legs of an order are not negative and add up to what was paid, whichever way a half is
rounded; it is arithmetic about `SettlementLegs`, which `DoorTickets` books.

`WholeWalks`: wherever a walk is, it has taken every row that stayed and that lies before its cursor (`Passed`): by
its place in the list where the cursor is a row, by how many rows lie before it where it is an offset. A row that
enters moves others away from an offset and never back below it, which `BeforeGrows` says of sets of numbers; a page is
as many rows as lie between two offsets, unless it is the last (`Slice`). For a walk that counts, the invariant
(`WalkKnows`) adds what the count and the rows of one page know of each other. The exceptions of `WalksAreWhole` are exactly where
this fails: leaving out any of them makes it false on the run's instance.

`DashboardsAgreeForAll`: the rows' types are all the invariant it takes, for every screen is computed from the same rows
at once; what has to be proved is that the ways they are grouped are partitions. `SumByKind` says that a sum taken
by kinds, and then over the kinds, is the sum over what is of one of the kinds: events for the overview, months and days
for the calendar, and for a chart the keys of its buckets. `ChartKeys` gives those: as many as were asked for or `MAX_TREND_BUCKETS`,
none twice, and an hour has one of them exactly when it is in the time the chart covers, which for days is a
fact about division (`DayReached`).

*Sums.* Balances, ledgers, quotes and statistics are sums over finite sets, and a fold of the library is a recursive function over
subsets. What is needed of them (the empty sum, any element taken out, a union of disjoint sets, a partition, equal terms, bounds) is
proved by induction over the subsets of a finite set, `SubsetsAllIn`, which takes the well-founded ordering of subsets and its minimal
elements (`WFMin`) in place of the induction theorems the provers cannot instantiate.

## 8. What is only model-checked

Liveness and everything under fairness (`DrainsMakeProgress`, that captured money becomes a fulfilled order, that a key does not stay
claimed): TLAPS does not prove them. Of the type
invariants, those of the modules with a `TypeCorrect` are proved; in `DoorProofs`, `PartnersProofs` and `ProgrammeProofs` the invariants type
the rows they are about, and no theorem says it of the rest. `Access`, `BankAccounts`, `AdminDesk`, `EmailOtp`, `Rsvp` and
`Limits` have no property of their own: what one would say of them either holds by the shape of one row or
does not hold (5.2). They are there because others are checked beside or over them (`Access` gives the requests of
`MembershipIsKept` the actors they have), because their steps are what 5.2 was read from, and so that the runs'
type invariants cover them: `TypeOK` of `MCPartners` and `MCProgramme` can be added to either run and holds.

## 9. What is not modelled, and why

The models stand for about three in ten of the implementation's lines. The rest is what a model would only repeat
or that decides nothing: wiring and start-up, request and response schemas, the mapping of rows to documents
and of rows to responses, the layout of listings and exports, seeds, scripts and
generated manifests.

*Not at all.* Leaderboard rankings (sums; the increment is a step of `Checkout`, not keyed by its order); the Razorpay client
(`Checkout` models what it reports); readiness and shutdown (every model lets a process die between any two
steps); contracts; deployment, scripts and CI.

*In part.* Checkout has one line per basket: with several tiers the lines are checked one after the other and
written in one hold. Settlement is modelled order by order, not as the balance of an organisation. Of the door's
operations, a venue's rule sets, menus, tables and tier prices are rows saved whole by one call. Of lists, who
may see one and what a filter leaves out of a page are not modelled. The audit log is modelled where something
depends on it (payouts and door sales).

*Inside the modelled parts* these are left out: the text and layout of audit records; counters no operation
reads (a code's active sessions); several events, venues and organisations at a time (rows of different ones
never meet in one operation); signatures, encryption and token verification; request validation, which
rejects before any step.
