----------------------------- MODULE AdminDesk -----------------------------
(***************************************************************************)
(* What admins decide about guests and the platform, each in a request     *)
(* that reads a row and saves it later: safety reports, bans of users, and *)
(* the one document of platform settings.                                  *)
(*                                                                         *)
(* Reports are compared and set whatever their version.  The ban of a user *)
(* has the user's id, and its first version is a plain set.  The settings  *)
(* have no version: the document is written as it was read, with the       *)
(* fields of the request on top.  Audit records are left out.              *)
(***************************************************************************)
EXTENDS Requests

CONSTANTS
  Reports,         \* ids of safety reports
  Guests,          \* users who may be banned
  MaxDeskVersion   \* bound on the versions of a row

VARIABLES report, ban, settings

deskVars == <<report, ban, settings>>

SafetyReport ==
  [status : {"open", "dismissed", "actioned"}, deleted : BOOLEAN, version : 1..MaxDeskVersion]
UserBan == [isBanned : BOOLEAN, version : 1..MaxDeskVersion]
PlatformSettings == [platformFeeRate : {"default", "set"}, maintenanceMode : BOOLEAN]

DeskTypeOK ==
  /\ report \in [Reports -> SafetyReport \cup {None}]
  /\ ban \in [Guests -> UserBan \cup {None}]
  /\ settings \in PlatformSettings

---------------------------------------------------------------------------
(* The rules of the domain models.                                         *)

CreateSafetyReport == [status |-> "open", deleted |-> FALSE, version |-> 1]

AssertOpen(r) == ~r.deleted /\ r.status = "open"
DismissSafetyReport(r) == When(AssertOpen(r), Bump([r EXCEPT !.status = "dismissed"]))
ActionSafetyReport(r)  == When(AssertOpen(r), Bump([r EXCEPT !.status = "actioned"]))
DeleteSafetyReport(r)  == When(~r.deleted, Bump([r EXCEPT !.deleted = TRUE]))
RestoreSafetyReport(r) == When(r.deleted, Bump([r EXCEPT !.deleted = FALSE]))

\* A ban of the banned, and the end of none, are answered without a save.
BanUser(b) ==
  IF b = None THEN {[isBanned |-> TRUE, version |-> 1]}
  ELSE When(~b.isBanned, Bump([b EXCEPT !.isBanned = TRUE]))
UnbanUser(b) == When(b # None /\ b.isBanned, Bump([b EXCEPT !.isBanned = FALSE]))

---------------------------------------------------------------------------
(* Safety reports.                                                         *)

Submitted == {r \in Reports : report[r] # None}

SubmitReport(c) ==
  /\ Free(c)
  /\ \E r \in Reports \ Submitted : report' = [report EXCEPT ![r] = CreateSafetyReport]
  /\ UNCHANGED <<call, ban, settings>>

ReviewReport(c) ==
  /\ \E r \in Submitted, op \in {"dismiss", "action", "delete", "restore"} :
       Arrive(c, op, "admin", r, None)
  /\ UNCHANGED deskVars

\* A deleted report is found by the request that restores it alone.
RequireReport(c, op, Rule(_)) ==
  LET r == report[call[c].on] IN
  /\ At(c, op, "read") /\ HasRoom(r, MaxDeskVersion)
  /\ IF r.deleted /\ op # "restore" THEN Leave(c) ELSE Decide(c, Rule(r), "save")
  /\ UNCHANGED deskVars

DismissReport(c) == RequireReport(c, "dismiss", DismissSafetyReport)
ActionReport(c)  == RequireReport(c, "action", ActionSafetyReport)
DeleteReport(c)  == RequireReport(c, "delete", DeleteSafetyReport)
RestoreReport(c) == RequireReport(c, "restore", RestoreSafetyReport)

SaveReport(c) ==
  LET q == call[c] IN
  /\ q.op \in {"dismiss", "action", "delete", "restore"} /\ q.pc = "save"
  /\ report' = IF report[q.on].version = q.row.version - 1
               THEN [report EXCEPT ![q.on] = q.row] ELSE report
  /\ Leave(c) /\ UNCHANGED <<ban, settings>>

ReportStep(c) ==
  \/ SubmitReport(c) \/ ReviewReport(c) \/ DismissReport(c) \/ ActionReport(c)
  \/ DeleteReport(c) \/ RestoreReport(c)
  \/ SaveReport(c)

---------------------------------------------------------------------------
(* Bans.                                                                   *)

PostBan(c) ==
  /\ \E g \in Guests : Arrive(c, "ban", "admin", g, None)
  /\ UNCHANGED deskVars
PostUnban(c) ==
  /\ \E g \in Guests : Arrive(c, "unban", "admin", g, None)
  /\ UNCHANGED deskVars

ReadBan(c, op, Rule(_)) ==
  LET b == ban[call[c].on] IN
  /\ At(c, op, "read") /\ (b = None \/ HasRoom(b, MaxDeskVersion))
  /\ Decide(c, Rule(b), "save") /\ UNCHANGED deskVars

BanGuest(c)   == ReadBan(c, "ban", BanUser)
UnbanGuest(c) == ReadBan(c, "unban", UnbanUser)

SaveBan(c) ==
  LET q == call[c] IN
  /\ q.op \in {"ban", "unban"} /\ q.pc = "save"
  /\ ban' = Written(ban, q.on, q.row)
  /\ Leave(c) /\ UNCHANGED <<report, settings>>

BanStep(c) == PostBan(c) \/ PostUnban(c) \/ BanGuest(c) \/ UnbanGuest(c) \/ SaveBan(c)

---------------------------------------------------------------------------
(* Settings.                                                               *)

\* The fields a request may name: the fee, or the maintenance mode on or off.
Patches == {[platformFeeRate |-> "set"]} \cup [{"maintenanceMode"} -> BOOLEAN]

PutSettings(c) ==
  /\ \E patch \in Patches : Arrive(c, "settings", "admin", None, patch)
  /\ UNCHANGED deskVars

MergeSettings(c) ==
  LET patch == call[c].arg IN
  /\ At(c, "settings", "read")
  /\ Goto(c, "save", [f \in DOMAIN settings |-> IF f \in DOMAIN patch THEN patch[f]
                                                 ELSE settings[f]])
  /\ UNCHANGED deskVars

SaveSettings(c) ==
  /\ At(c, "settings", "save")
  /\ settings' = call[c].row /\ Leave(c) /\ UNCHANGED <<report, ban>>

SettingsStep(c) == PutSettings(c) \/ MergeSettings(c) \/ SaveSettings(c)

DeskInit ==
  /\ report = [r \in Reports |-> None] /\ ban = [g \in Guests |-> None]
  /\ settings = [platformFeeRate |-> "default", maintenanceMode |-> FALSE]
=============================================================================
