----------------------------- MODULE Admission -----------------------------
(***************************************************************************)
(* Admissions at the door: scan, confirmCouple, recordStaffDeny,           *)
(* syncOfflineScans and overrideScan of ScannerService and manualCheckIn   *)
(* of DoorOpsService.                                                      *)
(*                                                                         *)
(* A ticket admits one person or, a couple's, two.  Seats are claimed in   *)
(* one transaction of the ticket, and the scan is recorded in the ledger   *)
(* by a later call.  Sessions and devices are ScannerShift's: every call   *)
(* here has passed their checks.  A payload that does not verify is        *)
(* refused and recorded without a ticket, whose rows are kept under        *)
(* Unread.  A ledger row's other columns are left out.                     *)
(***************************************************************************)
EXTENDS Naturals, Sequences, FiniteSetsExt

CONSTANTS
  Singles,   \* tickets for one
  Couples,   \* tickets for two
  Calls,     \* requests
  Batches,   \* what offline devices hand in: sequences of payloads
  Unread,    \* a payload no ticket can be read from
  Requests,  \* the kinds of request made
  Failures   \* a call may die between two steps

Tickets == Singles \cup Couples
Payloads == Tickets \cup {Unread}
Kinds == {"scan", "confirm", "sync", "manual", "deny", "override"}

AdmissionAssumption ==
  /\ Singles \cap Couples = {}
  /\ IsFiniteSet(Singles) /\ IsFiniteSet(Couples) /\ IsFiniteSet(Calls)
  /\ Unread \notin Tickets /\ Batches \subseteq Seq(Payloads)
  /\ Requests \subseteq Kinds
  /\ Failures \in BOOLEAN

VARIABLES
  ticket,    \* the entitlements
  asked,     \* couples with a confirmation token that has not expired
  admitted,  \* people on the ledger's consumed rows, by ticket
  refused,   \* the ledger's denied rows, by what was scanned
  waved,     \* the ledger's overridden rows, by what was scanned
  offline,   \* a history: admissions claimed from offline scans, by ticket
  call       \* each call in flight

vars == <<ticket, asked, admitted, refused, waved, offline, call>>

---------------------------------------------------------------------------
Ticket == [scans : 0..2, void : BOOLEAN]
Call == [pc : {"idle", "preview", "verify", "claim", "record", "wave", "done",
               "dead"},
         op : Kinds, batch : Seq(Payloads), yes : BOOLEAN, seats : 0..2]

Allowed(t) == IF t \in Couples THEN 2 ELSE 1

---------------------------------------------------------------------------
(* The ledger's rows, and what the door's screens make of them.            *)

\* A row is created in its final state: nothing leaves one pending.
ScanLedger == [status : {"consumed", "denied", "overridden"}, admittedCount : 0..2]

CreateScanLedger(seats) ==
  [status |-> IF seats = 0 THEN "denied" ELSE "consumed", admittedCount |-> seats]

\* Only a denied row; whoever was let in counts for one.  The ticket is not touched.
OverrideRow(row) ==
  IF row.status # "denied" THEN {}
  ELSE {[status |-> "overridden", admittedCount |-> Max({row.admittedCount, 1})]}

\* The sum of the people on every row that admits somebody, whatever its status.
AdmissionStats ==
  MapThenSumSet(LAMBDA t : admitted[t], Tickets) + MapThenSumSet(LAMBDA p : waved[p], Payloads)

Idle == [pc |-> "idle", op |-> "scan", batch |-> << >>, yes |-> TRUE, seats |-> 0]
Finished == [Idle EXCEPT !.pc = "done"]

Init ==
  /\ ticket = [t \in Tickets |-> [scans |-> 0, void |-> FALSE]]
  /\ asked = {}
  /\ admitted = [t \in Tickets |-> 0]
  /\ refused = [p \in Payloads |-> 0]
  /\ waved = [p \in Payloads |-> 0]
  /\ offline = [t \in Tickets |-> 0]
  /\ call = [k \in Calls |-> Idle]

Set(k, c) == call' = [call EXCEPT ![k] = c]
Begin(k, op, pc, q, yes) ==
  /\ op \in Requests /\ call[k].pc = "idle"
  /\ Set(k, [Idle EXCEPT !.pc = pc, !.op = op, !.batch = q, !.yes = yes])
  /\ UNCHANGED <<ticket, asked, admitted, refused, waved, offline>>

---------------------------------------------------------------------------
(* The routes.                                                             *)

PostScan(k)          == \E p \in Payloads : Begin(k, "scan", "preview", <<p>>, TRUE)
PostConfirm(k)       == \E t \in Couples, yes \in BOOLEAN : Begin(k, "confirm", "verify", <<t>>, yes)
PostStaffDeny(k)     == \E p \in Payloads : Begin(k, "deny", "record", <<p>>, TRUE)
PostManualCheckIn(k) == \E t \in Tickets : Begin(k, "manual", "claim", <<t>>, TRUE)
PostOfflineSync(k)   == \E q \in Batches : q # << >> /\ Begin(k, "sync", "claim", q, TRUE)
PostOverride(k)      == \E p \in Payloads :
                          refused[p] > 0 /\ Begin(k, "override", "wave", <<p>>, TRUE)

---------------------------------------------------------------------------
(* The steps.                                                              *)

\* Which ticket a payload names: decodeQr.
Verifies(p) == p # Unread

\* An untouched couple's ticket asks whether both are there.
MustAsk(t) == t \in Couples /\ ~ticket[t].void /\ ticket[t].scans = 0

\* The token names the ticket and the seats the preview found taken, none.
MintConfirmationToken(t) == asked \cup {t}

\* A payload that does not verify goes on record at once, as denied.
Preview(k) ==
  LET p == Head(call[k].batch) IN
  /\ call[k].pc = "preview"
  /\ \/ /\ Verifies(p) /\ MustAsk(p)
        /\ asked' = MintConfirmationToken(p)
        /\ Set(k, Finished)
     \/ /\ ~(Verifies(p) /\ MustAsk(p))
        /\ Set(k, [call[k] EXCEPT !.pc = IF Verifies(p) THEN "claim" ELSE "record"])
        /\ UNCHANGED asked
  /\ UNCHANGED <<ticket, admitted, refused, waved, offline>>

\* confirmCouple: the token, and what staff have seen.
Verify(k) ==
  LET c == call[k] IN
  /\ c.pc = "verify"
  /\ Set(k, IF Head(c.batch) \notin asked THEN Finished
            ELSE [c EXCEPT !.pc = IF c.yes THEN "claim" ELSE "record"])
  /\ UNCHANGED <<ticket, asked, admitted, refused, waved, offline>>

Wanted(op) == IF op = "confirm" THEN 2 ELSE 1

\* A ticket that stands and has a seat left.
EvaluateAdmission(t) == ~ticket[t].void /\ ticket[t].scans < Allowed(t)

\* The seats a claim takes, all or none; a confirmation expects none taken before.
AdmitSeats(op, t) ==
  IF /\ EvaluateAdmission(t)
     /\ op = "confirm" => ticket[t].scans = 0
     /\ ticket[t].scans + Wanted(op) <= Allowed(t)
  THEN Wanted(op) ELSE 0

\* claimAdmission is one transaction; a refused manual check-in is no row.
Claim(k) ==
  LET c == call[k]
      t == Head(c.batch)
      seats == AdmitSeats(c.op, t) IN
  /\ c.pc = "claim" /\ Verifies(t)
  /\ ticket' = [ticket EXCEPT ![t].scans = @ + seats]
  /\ offline' = IF c.op = "sync" /\ seats > 0 THEN [offline EXCEPT ![t] = @ + 1] ELSE offline
  /\ Set(k, IF c.op = "manual" /\ seats = 0 THEN Finished
            ELSE [c EXCEPT !.pc = "record", !.seats = seats])
  /\ UNCHANGED <<asked, admitted, refused, waved>>

\* Mutation of Counted: a couple is one person.
CountedOnce(c) == IF c.seats > 0 THEN 1 ELSE 0

Counted(c) == c.seats

\* An offline payload that does not verify is recorded without a claim.
PassUnread(k) ==
  /\ call[k].pc = "claim" /\ ~Verifies(Head(call[k].batch))
  /\ Set(k, [call[k] EXCEPT !.pc = "record"])
  /\ UNCHANGED <<ticket, asked, admitted, refused, waved, offline>>

\* recordScan; an offline batch goes on to its next payload.
Record(k) ==
  LET c == call[k]
      t == Head(c.batch)
      row == CreateScanLedger(Counted(c)) IN
  /\ c.pc = "record"
  /\ admitted' =
       IF Verifies(t) THEN [admitted EXCEPT ![t] = @ + row.admittedCount] ELSE admitted
  /\ refused' = IF row.status = "denied" THEN [refused EXCEPT ![t] = @ + 1] ELSE refused
  /\ Set(k, IF Len(c.batch) = 1 THEN Finished
            ELSE [c EXCEPT !.pc = "claim", !.batch = Tail(@), !.seats = 0])
  /\ UNCHANGED <<ticket, asked, waved, offline>>

\* One denied row becomes an overridden one, in a transaction that refuses a row
\* another call has overridden since.
Wave(k) ==
  LET p == Head(call[k].batch) IN
  /\ call[k].pc = "wave"
  /\ \/ /\ refused[p] > 0
        /\ refused' = [refused EXCEPT ![p] = @ - 1]
        /\ \E row \in OverrideRow(CreateScanLedger(0)) :
             waved' = [waved EXCEPT ![p] = @ + row.admittedCount]
     \/ waved[p] > 0 /\ UNCHANGED <<refused, waved>>
  /\ Set(k, Finished)
  /\ UNCHANGED <<ticket, asked, admitted, offline>>

---------------------------------------------------------------------------
(* The operations, each the steps it makes.                                *)

Of(k, op) == call[k].op = op

Scan(k)             == Of(k, "scan") /\ (Preview(k) \/ Claim(k) \/ Record(k))
ConfirmCouple(k)    == Of(k, "confirm") /\ (Verify(k) \/ Claim(k) \/ Record(k))
RecordStaffDeny(k)  == Of(k, "deny") /\ Record(k)
ManualCheckIn(k)    == Of(k, "manual") /\ (Claim(k) \/ Record(k))
SyncOfflineScans(k) == Of(k, "sync") /\ (Claim(k) \/ PassUnread(k) \/ Record(k))
OverrideScan(k)     == Of(k, "override") /\ Wave(k)

\* A refund voids the ticket, see Refunds.
Void(t) ==
  /\ ~ticket[t].void
  /\ ticket' = [ticket EXCEPT ![t].void = TRUE]
  /\ UNCHANGED <<asked, admitted, refused, waved, offline, call>>

ExpireToken(t) ==
  /\ t \in asked /\ asked' = asked \ {t}
  /\ UNCHANGED <<ticket, admitted, refused, waved, offline, call>>

\* A dead call leaves the seats it claimed off the ledger.
Die(k) ==
  /\ Failures /\ call[k].pc \notin {"idle", "done", "dead"}
  /\ Set(k, IF call[k].pc = "record" THEN [call[k] EXCEPT !.pc = "dead"] ELSE Finished)
  /\ UNCHANGED <<ticket, asked, admitted, refused, waved, offline>>

Posted(k) ==
  \/ PostScan(k) \/ PostConfirm(k) \/ PostStaffDeny(k) \/ PostManualCheckIn(k)
  \/ PostOfflineSync(k) \/ PostOverride(k)

Step(k) ==
  \/ Scan(k) \/ ConfirmCouple(k) \/ RecordStaffDeny(k) \/ ManualCheckIn(k)
  \/ SyncOfflineScans(k) \/ OverrideScan(k) \/ Die(k)

Next ==
  \/ \E k \in Calls : Posted(k) \/ Step(k)
  \/ \E t \in Tickets : Void(t) \/ ExpireToken(t)

Spec == Init /\ [][Next]_vars

---------------------------------------------------------------------------
(* What the door reads; nothing is written.                                *)

\* Whether a scan would admit: the rule of Claim, without the claim.
Resolve(p) == IF Verifies(p) /\ EvaluateAdmission(p) THEN "valid" ELSE "invalid"

\* What a device takes offline: the tickets with a seat left.
OfflineManifest == {t \in Tickets : ~ticket[t].void /\ ticket[t].scans < Allowed(t)}

\* The roster by whether a seat was spent; withdrawn tickets are on it too.
ListGuests(entered) == {t \in Tickets : (ticket[t].scans > 0) <=> entered}

\* The report counts them apart, and counts the people of every ticket.
AttendanceReport ==
  LET valid == {t \in Tickets : ~ticket[t].void} IN
  [entered |-> ListGuests(TRUE) \cap valid, notEntered |-> ListGuests(FALSE) \cap valid,
   voided |-> Tickets \ valid, admittedCount |-> MapThenSumSet(LAMBDA t : ticket[t].scans, Tickets)]

\* The gauge, from the ledger; people sold in at the door are DoorSales'.
DoorStats ==
  [prebooked |-> AdmissionStats, denied |-> MapThenSumSet(LAMBDA p : refused[p], Payloads)]

---------------------------------------------------------------------------
\* Types of the rows and of the calls.
TypeOK ==
  /\ ticket \in [Tickets -> Ticket]
  /\ asked \subseteq Couples
  /\ admitted \in [Tickets -> Nat] /\ refused \in [Payloads -> Nat]
  /\ waved \in [Payloads -> Nat] /\ offline \in [Tickets -> Nat]
  /\ \A k \in Calls : call[k] \in Call

\* Seats claimed by calls that have not recorded them yet, or never will.
Pending(t) ==
  LET at == {k \in Calls : call[k].pc \in {"record", "dead"} /\ Head(call[k].batch) = t} IN
  MapThenSumSet(LAMBDA k : call[k].seats, at)

\* The people who are inside, but for those of calls that have not recorded them.
Recorded ==
  AttendanceReport.admittedCount - MapThenSumSet(Pending, Tickets)
    + MapThenSumSet(LAMBDA p : waved[p], Payloads)

\* The people on the ledger are the seats spent on the ticket, but for those of calls
\* that have not recorded them; no ticket is overspent and nobody is counted without a
\* seat; the gauge, read from the ledger, agrees with the report, read from the tickets,
\* and what a device may take offline with what a scan would admit, however scanners,
\* devices and overrides race.
LedgerAgrees ==
  /\ \A t \in Tickets : /\ admitted[t] + Pending(t) = ticket[t].scans
                        /\ ticket[t].scans <= Allowed(t)
  /\ DoorStats.prebooked = Recorded
  /\ OfflineManifest = {p \in Payloads : Resolve(p) = "valid"}

\* When every call has ended, dead or alive, every seat spent is on record.
EverySeatIsRecorded ==
  (\A k \in Calls : call[k].pc \in {"idle", "done", "dead"}) =>
    \A t \in Tickets : admitted[t] = ticket[t].scans

\* A couple is admitted together or not at all.
CouplesTogether == \A t \in Couples : ticket[t].scans \in {0, 2}

\* Offline devices that admit the same guests produce one admission.
OneOfflineAdmission == \A t \in Tickets : offline[t] <= 1

\* A voided ticket admits nobody, whenever the guest was asked about.
VoidAdmitsNobody ==
  [][\A t \in Tickets : ticket[t].void => ticket'[t].scans = ticket[t].scans]_vars
=============================================================================
