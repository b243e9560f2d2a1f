--------------------------- MODULE ScannerShift ---------------------------
(***************************************************************************)
(* Door codes, bound devices and scanner sessions: the shift side of       *)
(* ScannerService and DoorOpsService.  A shift binds its handset, redeems  *)
(* the door code and gets a session token; managers unbind handsets,       *)
(* revoke sessions and revoke the code while tokens are in use.            *)
(*                                                                         *)
(* One organization, event and door code.  A call makes one repository     *)
(* call per step.  A use of a session stops at what it is about to claim   *)
(* or charge, which is Admission's and CoverWallet's.  The code's          *)
(* counters, which no operation reads, gates, the columns a heartbeat      *)
(* touches and the audit records are left out.                             *)
(***************************************************************************)
EXTENDS Integers, FiniteSets

CONSTANTS
  Devices,     \* device ids
  Sessions,    \* session ids, one per session ever opened
  Calls,       \* requests
  Requests,    \* the kinds of request clients make
  CodeTypes,   \* what the door code may be made for
  MaxDevices,  \* the code's maxDevices
  AllowReuse,  \* the code's allowReuse
  Driver,      \* "memory" or "firestore"
  Exclusive,   \* requests run one at a time
  None

Uses == {"scan", "sync", "deny", "heartbeat", "charge", "sell"}
Kinds == Uses \cup {"bind", "start", "reauthorize", "unbind", "makeCode", "revokeCode",
                   "revokeSession"}

ShiftAssumption ==
  /\ Devices # {} /\ IsFiniteSet(Sessions)
  /\ Requests \subseteq Kinds
  /\ CodeTypes \subseteq {"full", "scan_only", "charge"}
  /\ MaxDevices \in Nat \ {0}
  /\ AllowReuse \in BOOLEAN /\ Exclusive \in BOOLEAN
  /\ Driver \in {"memory", "firestore"}
  /\ None \notin Devices \cup Sessions

VARIABLES
  code,      \* the door code
  late,      \* the code's expiresAt has passed
  device,    \* the bound devices
  session,   \* the sessions
  closed,    \* a history: a revocation of the code has ended
  ended,     \* a history: sessions a revocation that has ended was to end
  call       \* each call in flight

vars == <<code, late, device, session, closed, ended, call>>

---------------------------------------------------------------------------
Device == [status : {"none", "active", "unbound"}, version : Nat]
SessionRow == [state : {"none", "live", "revoked", "expired"}, device : Devices \cup {None}]
Session == {s \in SessionRow : s.state = "none" <=> s.device = None}
Code == [status : {"none", "active", "revoked", "expired"}, type : CodeTypes \cup {None}]
Call == [pc : {"idle", "readDevice", "saveDevice", "readCode", "expireCode", "count", "replace",
               "create", "makeCode", "revokeCode", "list", "revoke", "auth", "bound", "claim",
               "done"},
         op : Kinds \cup {"none"}, device : Devices \cup {None}, session : Sessions \cup {None},
         read : Device, todo : SUBSET Sessions, must : SUBSET Sessions,
         shut : BOOLEAN]

NoDevice == [status |-> "none", version |-> 0]
NoSession == [state |-> "none", device |-> None]
Idle == [pc |-> "idle", op |-> "none", device |-> None, session |-> None, read |-> NoDevice,
         todo |-> {}, must |-> {}, shut |-> FALSE]
Finished == [Idle EXCEPT !.pc = "done"]

Made(type) == [status |-> "active", type |-> type]

\* The doors open with a code, or the manager has yet to make it.
Init ==
  /\ code \in {[status |-> "none", type |-> None]} \cup {Made(type) : type \in CodeTypes}
  /\ late = FALSE
  /\ device = [d \in Devices |-> NoDevice]
  /\ session = [s \in Sessions |-> NoSession]
  /\ closed = FALSE /\ ended = {}
  /\ call = [k \in Calls |-> Idle]

Set(k, c) == call' = [call EXCEPT ![k] = c]
Live == {s \in Sessions : session[s].state = "live"}
LiveOn(d) == {s \in Live : session[s].device = d}

Begin(k, op) ==
  /\ op \in Requests
  /\ call[k].pc = "idle"
  /\ Exclusive => \A j \in Calls : call[j].pc \in {"idle", "done"}

\* A call arrives; it needs the door code, a session or a device to be about.
Arrives(k, op, c) ==
  /\ Begin(k, op)
  /\ Set(k, [c EXCEPT !.op = op])
  /\ UNCHANGED <<code, late, device, session, closed, ended>>

---------------------------------------------------------------------------
(* The routes.  The managers' need the permission door.manage.             *)

PostOnDevice(k, op, d) == Arrives(k, op, [Idle EXCEPT !.pc = "readDevice", !.device = d])
PostDevice(k) == \E d \in Devices : PostOnDevice(k, "bind", d)
\* A shift is opened on site, as far as both positions are known: of the handset's
\* fix and of the venue's pin, either may be missing.
Places == {"here", "there"}
OnSite(fix, pin) == fix = None \/ pin = None \/ fix = pin
PostShift(k) ==
  \E d \in Devices, fix, pin \in Places \cup {None} :
    OnSite(fix, pin) /\ PostOnDevice(k, "start", d)
PostReauthorization(k) == \E d \in Devices : PostOnDevice(k, "reauthorize", d)
PostUnbinding(k)       == \E d \in Devices : PostOnDevice(k, "unbind", d)

PostCode(k) ==
  code.status = "none" /\ Arrives(k, "makeCode", [Idle EXCEPT !.pc = "makeCode"])

PostCodeRevocation(k) ==
  code.status # "none" /\ Arrives(k, "revokeCode", [Idle EXCEPT !.pc = "revokeCode"])

PostSessionRevocation(k) ==
  \E s \in Sessions :
    /\ session[s].state # "none"
    /\ Arrives(k, "revokeSession", [Idle EXCEPT !.pc = "revoke", !.todo = {s}, !.must = {s}])

\* A request with a session's token; the call remembers the device's row and the
\* code's revocation as they were when it began.
PostUse(k, op) ==
  \E s \in Sessions :
    LET d == session[s].device IN
    /\ session[s].state # "none"
    /\ Arrives(k, op, [Idle EXCEPT !.pc = "auth", !.session = s, !.device = d,
                                   !.read = device[d], !.shut = closed])
PostScan(k)         == PostUse(k, "scan")
PostOfflineSync(k)  == PostUse(k, "sync")
PostStaffDeny(k)    == PostUse(k, "deny")
PostHeartbeat(k)    == PostUse(k, "heartbeat")
PostWalletCharge(k) == PostUse(k, "charge")
PostTicketSale(k)   == PostUse(k, "sell")

---------------------------------------------------------------------------
(* Devices.                                                                *)

\* bindDevice refuses an unbound device; the managers' calls need a row.
Refused(op, row) ==
  \/ op \in {"bind", "start"} /\ row.status = "unbound"
  \/ op \in {"reauthorize", "unbind"} /\ row.status = "none"

ReadDevice(k) ==
  LET c == call[k]
      row == device[c.device] IN
  /\ c.pc = "readDevice"
  /\ Set(k, IF Refused(c.op, row) THEN Finished ELSE [c EXCEPT !.pc = "saveDevice", !.read = row])
  /\ UNCHANGED <<code, late, device, session, closed, ended>>

\* bindScannerDevice, rebindScannerDevice and unbindScannerDevice.
NextRow(op, row) ==
  [status |-> IF op = "unbind" THEN "unbound" ELSE "active", version |-> row.version + 1]

\* Mutation of CasHolds: the save is a plain set.
CasHoldsAlways(stored, next) == TRUE

\* The memory driver checks every row it has, the Firestore driver every
\* version above one.
CasHolds(stored, next) ==
  IF Driver = "memory"
  THEN stored.version = 0 \/ stored.version = next.version - 1
  ELSE next.version <= 1 \/ stored.version = next.version - 1

SaveDevice(k) ==
  LET c == call[k]
      d == c.device
      next == NextRow(c.op, c.read)
      saved == CasHolds(device[d], next) IN
  /\ c.pc = "saveDevice"
  /\ device' = IF saved THEN [device EXCEPT ![d] = next] ELSE device
  /\ Set(k, CASE saved /\ c.op = "start"  -> [c EXCEPT !.pc = "readCode"]
              [] saved /\ c.op = "unbind" -> [c EXCEPT !.pc = "list", !.must = LiveOn(d)]
              [] OTHER                    -> Finished)
  /\ UNCHANGED <<code, late, session, closed, ended>>

---------------------------------------------------------------------------
(* openSession, after the handset is bound.                                *)

ReadCode(k) ==
  /\ call[k].pc = "readCode"
  /\ Set(k, IF code.status # "active" THEN Finished
            ELSE [call[k] EXCEPT !.pc = IF late THEN "expireCode" ELSE "count"])
  /\ UNCHANGED <<code, late, device, session, closed, ended>>

\* The status is updated, whatever it is by now.
UpdateStatus(status) == code' = [code EXCEPT !.status = status]

ExpireCode(k) ==
  /\ call[k].pc = "expireCode"
  /\ UpdateStatus("expired")
  /\ Set(k, Finished)
  /\ UNCHANGED <<late, device, session, closed, ended>>

Full == ~AllowReuse /\ Cardinality(Live) >= MaxDevices

\* A shift of the same device is replaced; another device must find a slot.
CountShifts(k) ==
  LET c == call[k] IN
  /\ c.pc = "count"
  /\ \/ \E s \in LiveOn(c.device) : Set(k, [c EXCEPT !.pc = "replace", !.session = s])
     \/ /\ LiveOn(c.device) = {}
        /\ Set(k, IF Full THEN Finished ELSE [c EXCEPT !.pc = "create"])
  /\ UNCHANGED <<code, late, device, session, closed, ended>>

Replace(k) ==
  LET c == call[k] IN
  /\ c.pc = "replace"
  /\ session' = [session EXCEPT ![c.session].state = "revoked"]
  /\ Set(k, [c EXCEPT !.pc = "create", !.session = None])
  /\ UNCHANGED <<code, late, device, closed, ended>>

CreateScannerSession(d) == [state |-> "live", device |-> d]

Create(k) ==
  /\ call[k].pc = "create"
  /\ \E s \in Sessions :
       /\ session[s].state = "none"
       /\ session' = [session EXCEPT ![s] = CreateScannerSession(call[k].device)]
  /\ Set(k, Finished)
  /\ UNCHANGED <<code, late, device, closed, ended>>

---------------------------------------------------------------------------
(* The door code, and revocations.  Only an unbind and a revokeEventCode   *)
(* loop over sessions.                                                     *)

\* A code is made for one kind of work, which its sessions inherit.
MakeCode(k) ==
  /\ call[k].pc = "makeCode" /\ code.status = "none"
  /\ \E type \in CodeTypes : code' = Made(type)
  /\ Set(k, Finished)
  /\ UNCHANGED <<late, device, session, closed, ended>>

RevokeCode(k) ==
  /\ call[k].pc = "revokeCode"
  /\ UpdateStatus("revoked")
  /\ Set(k, [call[k] EXCEPT !.pc = "list", !.must = Live])
  /\ UNCHANGED <<late, device, session, closed, ended>>

\* Mutation of Listed: an unbind leaves the device's sessions open.
ListedForCode(c) == IF c.op = "unbind" THEN {} ELSE Live

Listed(c) == IF c.op = "unbind" THEN LiveOn(c.device) ELSE Live

ListSessions(k) ==
  /\ call[k].pc = "list"
  /\ Set(k, [call[k] EXCEPT !.pc = "revoke", !.todo = Listed(call[k])])
  /\ UNCHANGED <<code, late, device, session, closed, ended>>

RevokeNext(k) ==
  /\ call[k].pc = "revoke"
  /\ \E s \in call[k].todo :
       /\ session' = [session EXCEPT ![s].state = "revoked"]
       /\ Set(k, [call[k] EXCEPT !.todo = @ \ {s}])
  /\ UNCHANGED <<code, late, device, closed, ended>>

EndRevocation(k) ==
  LET c == call[k] IN
  /\ c.pc = "revoke" /\ c.todo = {}
  /\ ended' = ended \cup c.must
  /\ closed' = (closed \/ c.op = "revokeCode")
  /\ Set(k, Finished)
  /\ UNCHANGED <<code, late, device, session>>

---------------------------------------------------------------------------
(* Uses of a session token.                                                *)

\* What a code's type lets its sessions do, and what a use asks for; refusing a
\* guest and a heartbeat need nothing.
SessionPermissions(type) ==
  [canScan |-> type \in {"full", "scan_only"}, canDoorEntry |-> type = "full",
   canCharge |-> type = "charge"]

Permitted(op) ==
  LET may == SessionPermissions(code.type) IN
  /\ op \in {"scan", "sync"} => may.canScan
  /\ op = "sell" => may.canDoorEntry
  /\ op = "charge" => may.canCharge

\* Mutation of AfterAuth: a scan is not checked against its device.
AfterAuthUnchecked(op) == "claim"

AfterAuth(op) == IF op \in {"scan", "deny", "heartbeat"} THEN "bound" ELSE "claim"

Authenticate(k) ==
  LET c == call[k] IN
  /\ c.pc = "auth"
  /\ Set(k, IF c.session \in Live /\ Permitted(c.op) THEN [c EXCEPT !.pc = AfterAuth(c.op)]
                                                   ELSE Finished)
  /\ UNCHANGED <<code, late, device, session, closed, ended>>

RequireBound(k) ==
  LET c == call[k] IN
  /\ c.pc = "bound"
  /\ Set(k, IF device[c.device].status = "active" THEN [c EXCEPT !.pc = "claim"] ELSE Finished)
  /\ UNCHANGED <<code, late, device, session, closed, ended>>

\* What the call was for: an admission, a refusal on record, a debit, a sale.
Claim(k) ==
  /\ call[k].pc = "claim"
  /\ Set(k, Finished)
  /\ UNCHANGED <<code, late, device, session, closed, ended>>

---------------------------------------------------------------------------
(* The operations of the services, each the steps it makes.                *)

Of(k, op) == call[k].op = op
Revoking(k) == ListSessions(k) \/ RevokeNext(k) \/ EndRevocation(k)
Using(k) == Authenticate(k) \/ RequireBound(k) \/ Claim(k)

BindDevice(k)  == Of(k, "bind") /\ (ReadDevice(k) \/ SaveDevice(k))
OpenSession(k) == ReadCode(k) \/ ExpireCode(k) \/ CountShifts(k) \/ Replace(k) \/ Create(k)
StartShift(k)  == Of(k, "start") /\ (ReadDevice(k) \/ SaveDevice(k) \/ OpenSession(k))
ReauthorizeDevice(k) == Of(k, "reauthorize") /\ (ReadDevice(k) \/ SaveDevice(k))
UnbindDevice(k)    == Of(k, "unbind") /\ (ReadDevice(k) \/ SaveDevice(k) \/ Revoking(k))
CreateEventCode(k) == Of(k, "makeCode") /\ MakeCode(k)
RevokeEventCode(k) == Of(k, "revokeCode") /\ (RevokeCode(k) \/ Revoking(k))
RevokeSession(k)   == Of(k, "revokeSession") /\ (RevokeNext(k) \/ EndRevocation(k))
Scan(k)             == Of(k, "scan") /\ Using(k)
SyncOfflineScans(k) == Of(k, "sync") /\ Using(k)
RecordStaffDeny(k)  == Of(k, "deny") /\ Using(k)
Heartbeat(k)        == Of(k, "heartbeat") /\ Using(k)
ChargeWallet(k)     == Of(k, "charge") /\ Using(k)
SellAtDoor(k)       == Of(k, "sell") /\ Using(k)

\* Time passes for the code and for a session.
PassTime ==
  /\ ~late /\ late' = TRUE
  /\ UNCHANGED <<code, device, session, closed, ended, call>>

ExpireSession(s) ==
  /\ session[s].state = "live"
  /\ session' = [session EXCEPT ![s].state = "expired"]
  /\ UNCHANGED <<code, late, device, closed, ended, call>>

Posted(k) ==
  \/ PostDevice(k) \/ PostShift(k) \/ PostReauthorization(k) \/ PostUnbinding(k)
  \/ PostCode(k) \/ PostCodeRevocation(k) \/ PostSessionRevocation(k)
  \/ PostScan(k) \/ PostOfflineSync(k) \/ PostStaffDeny(k) \/ PostHeartbeat(k)
  \/ PostWalletCharge(k) \/ PostTicketSale(k)

Step(k) ==
  \/ BindDevice(k) \/ StartShift(k) \/ ReauthorizeDevice(k) \/ UnbindDevice(k)
  \/ CreateEventCode(k) \/ RevokeEventCode(k) \/ RevokeSession(k)
  \/ Scan(k) \/ SyncOfflineScans(k) \/ RecordStaffDeny(k) \/ Heartbeat(k)
  \/ ChargeWallet(k) \/ SellAtDoor(k)

Next ==
  \/ \E k \in Calls : Posted(k) \/ Step(k)
  \/ PassTime
  \/ \E s \in Sessions : ExpireSession(s)

Spec == Init /\ [][Next]_vars

---------------------------------------------------------------------------
\* Types of the rows and of the calls.
TypeOK ==
  /\ code \in Code /\ late \in BOOLEAN
  /\ device \in [Devices -> Device]
  /\ session \in [Sessions -> Session]
  /\ closed \in BOOLEAN /\ ended \subseteq Sessions
  /\ call \in [Calls -> Call]

\* An unbound device is turned on by a manager's reauthorization only,
\* whatever launches of the app are in flight.
UnboundKept ==
  \A d \in Devices :
    device[d].status = "unbound" /\ device'[d].status = "active" =>
      \E k \in Calls : /\ call[k].op = "reauthorize" /\ call[k].device = d
                       /\ call[k].pc = "saveDevice" /\ call'[k].pc = "done"
UnboundStaysUnbound == [][UnboundKept]_vars

\* Every session that was live when an unbind or a revocation took effect is
\* over when that call answers, and stays over.
RevokedShiftsEnd == \A s \in ended : session[s].state # "live"

\* No scan that began with its device unbound admits anybody, unless a manager
\* has changed the device since.
Unbound(c) == c.read.status = "unbound" /\ device[c.device] = c.read
ScansNeedBinding ==
  \A k \in Calls : call[k].pc = "claim" /\ call[k].op = "scan" => ~Unbound(call[k])

\* Nor does any other use of the session.
UsesNeedBinding == \A k \in Calls : call[k].pc = "claim" => ~Unbound(call[k])

\* No session of a revoked code admits anybody once the revocation answered.
RevokedCodeStops == \A k \in Calls : call[k].pc = "claim" => ~call[k].shut

\* A code has no more live shifts than devices it allows.
DeviceCap == AllowReuse \/ Cardinality(Live) <= MaxDevices

\* A device has one live shift.
OneShiftPerDevice == \A d \in Devices : Cardinality(LiveOn(d)) <= 1
=============================================================================
