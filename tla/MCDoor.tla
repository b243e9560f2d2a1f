------------------------------- MODULE MCDoor -------------------------------
(***************************************************************************)
(* The door in one run: sales with the wallet they debit, shifts,          *)
(* admissions.  The three share no row, an admission starting where a      *)
(* shift's checks end, so a behaviour exercises one of them, chosen at the *)
(* start, over requests in flight at the same time; so does one of the     *)
(* wallet alone, with the operations that are left out beside a sale.      *)
(***************************************************************************)
EXTENDS DoorSales, TLC

CONSTANTS k1, k2, s1,
  Parts,   \* the components a run exercises
  ShiftDevices, Sessions, Calls, Requests, CodeTypes, MaxDevices, AllowReuse, Driver, Exclusive,
  single, couple, unread, Singles, Couples, Batches, EntryRequests, Failures

VARIABLES
  part,                                              \* what this behaviour exercises
  code, late, device, session, closed, ended, call,  \* of ScannerShift
  ticket, presented, admitted, refused, waved, offline, entry   \* of Admission

\* Rows of the wallet: its opening, requests' own keys, and the ones sales make up.
Rows == {k1, k2, OpeningKey} \cup ({s1} \X {"debit", "void", "refund"})

Shift == INSTANCE ScannerShift WITH Devices <- ShiftDevices

\* One device hands in both tickets, another the couple's again after what it could
\* not read.
TwoDevices == {<<single, couple>>, <<unread, couple>>}

Entry == INSTANCE Admission WITH
  Unread <- unread, Requests <- EntryRequests, call <- entry, asked <- presented

ASSUME DoorAssumption == Shift!ShiftAssumption /\ Entry!AdmissionAssumption

shiftVars == <<code, late, device, session, closed, ended, call>>
entryVars == <<ticket, presented, admitted, refused, waved, offline, entry>>
doorVars == <<vars, part, shiftVars, entryVars>>

\* A part no step of the behaviour reads is left out of its states.
NoShift == /\ code = None /\ late = None /\ device = None /\ session = None
           /\ closed = None /\ ended = None /\ call = None
NoEntry == /\ ticket = None /\ presented = None /\ admitted = None /\ refused = None
           /\ waved = None /\ offline = None /\ entry = None

DoorInit ==
  /\ Init /\ part \in Parts
  /\ \/ part \in {"sales", "wallet"} /\ NoShift /\ NoEntry
     \/ part = "shift" /\ Shift!Init /\ NoEntry
     \/ part = "entry" /\ NoShift /\ Entry!Init

\* Bound: what is asked of the wallet itself while sales are made.
Beside == {"create", "credit", "debit", "terminate"}
AskedBeside == {k \in Keys : asked'[k] # None /\ asked'[k].op \notin Beside} = {}

DoorNext ==
  /\ UNCHANGED part
  /\ \/ part = "wallet" /\ WalletNext /\ UNCHANGED <<saleVars, shiftVars, entryVars>>
     \/ part = "sales" /\ Next /\ AskedBeside /\ UNCHANGED <<shiftVars, entryVars>>
     \/ part = "shift" /\ Shift!Next /\ UNCHANGED <<vars, entryVars>>
     \/ part = "entry" /\ Entry!Next /\ UNCHANGED <<vars, shiftVars>>

DoorSpec == DoorInit /\ [][DoorNext]_doorVars

\* A session or a code a revocation was to end is not live after it, and no scan by a
\* device that is not bound admits anybody: see ScannerShift.
RevokedShiftsEnd ==
  part = "shift" => Shift!RevokedShiftsEnd /\ Shift!ScansNeedBinding
\* A device a manager unbound is bound again by a manager only: see ScannerShift.
UnboundStaysUnbound == [][part = "shift" => Shift!UnboundKept]_doorVars
\* The people on the ledger are the seats spent: see Admission.
LedgerAgrees == part = "entry" => Entry!LedgerAgrees

\* Interchangeable: the keys, which name the sessions too, the workers, which name
\* the shifts' devices (a behaviour uses them as the one or as the other), and calls.
Symmetry ==
  Permutations({k1, k2}) \cup Permutations(Workers) \cup Permutations(Calls)
=============================================================================
