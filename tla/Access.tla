------------------------------- MODULE Access -------------------------------
(***************************************************************************)
(* Who a request speaks for: accounts and sessions, the hook that turns a  *)
(* session and a named organisation into an actor, the permission a route  *)
(* asks of the actor's role, and the dashboard a member is told it has.    *)
(*                                                                         *)
(* Accounts, sessions and reset tokens are the auth library's, modelled as *)
(* the gateway configures it: a session lasts a number of days and is      *)
(* extended in place when it is used a day later; a reset token is used    *)
(* once, and resetting a password ends no session.  Every route awaits the *)
(* library or the organisation's row in steps of its own, so that a logout *)
(* or a change of membership falls between them.                           *)
(***************************************************************************)
EXTENDS Organizations

CONSTANTS
  Sessions,          \* session rows
  SessionLife,       \* days a session lasts when it is made or extended
  UpdateAge,         \* days after which its use extends it
  LastDate,          \* bound on the calendar
  LastPassword,      \* bound on the passwords a user goes through
  LastMove,          \* bound on the organisation's versions while members ask about it
  Trades             \* the capabilities an organisation's members may have been given

ASSUME AccessAssumption ==
  /\ LastMove \in 2..MaxOrgVersion
  /\ LastDate \in Nat /\ LastPassword \in Nat \ {0} /\ SessionLife \in Nat /\ UpdateAge \in Nat
  /\ Trades # {} /\ \A t \in Trades : t \subseteq {"venue", "host", "promoter"}

VARIABLES
  today,
  password,          \* the user's current password, numbered; 0 without an account
  session,           \* Sessions -> the user it names and the day it ends
  resetToken,        \* users with a reset link outstanding
  trade,             \* the capabilities of the organisation's members
  told               \* the dashboard the last answer told of

accessVars == <<today, password, session, resetToken, trade, told>>

---------------------------------------------------------------------------
(* The partner matrix: what a role does in each line of business.          *)

Capabilities == {"venue", "host", "promoter"}
PartnerRoles == {"OWNER", "MANAGER", "FINANCE_ADMIN", "STAFF", "SECURITY", "DOOR",
                 "COHOST", "PROMOTER", "TEAM_LEAD"}

Guestlist == {"VIEW_GUESTLIST", "SCAN_ENTRY", "LOG_INCIDENTS"}
VenueManager ==
  Guestlist \cup {"VIEW_FINANCIALS", "MANAGE_EVENTS", "EDIT_EVENT_RULES", "MANAGE_TABLES",
                  "VIEW_ANALYTICS", "MANAGE_PAGE_CONTENT", "MANAGE_GUEST_OPS",
                  "CHARGE_COVER_WALLETS"}
VenuePermissions ==
  [OWNER |-> VenueManager \cup {"MANAGE_STAFF", "MANAGE_SETTINGS", "MANAGE_PARTNERSHIPS",
                                "MANAGE_PAYOUTS", "EXPORT_GUESTS"},
   MANAGER |-> VenueManager,
   FINANCE_ADMIN |-> {"VIEW_FINANCIALS", "MANAGE_PAYOUTS", "VIEW_ANALYTICS"},
   STAFF |-> {"VIEW_GUESTLIST", "MANAGE_TABLES", "LOG_INCIDENTS"},
   SECURITY |-> Guestlist,
   DOOR |-> Guestlist \cup {"CHARGE_COVER_WALLETS"}]

HostStaff == {"VIEW_GUESTLIST", "VIEW_REAL_TIME_SCANS"}
HostPermissions ==
  [OWNER |-> {"VIEW_FINANCIALS", "MANAGE_STAFF", "MANAGE_EVENTS", "MANAGE_PROMOTERS",
              "MANAGE_PAGE_CONTENT", "VIEW_ANALYTICS", "MANAGE_PAYOUTS",
              "MANAGE_PARTNERSHIPS", "VIEW_REAL_TIME_SCANS"},
   COHOST |-> HostStaff \cup {"MANAGE_EVENTS", "MANAGE_PROMOTERS", "VIEW_ANALYTICS"},
   MANAGER |-> HostStaff \cup {"MANAGE_EVENTS", "VIEW_ANALYTICS"},
   STAFF |-> HostStaff]

PromoterLead == {"VIEW_ANALYTICS", "VIEW_GUESTLIST", "VIEW_FINANCIALS"}
PromoterPermissions ==
  [PROMOTER |-> PromoterLead \cup {"MANAGE_PAGE_CONTENT", "MANAGE_PAYOUTS"},
   TEAM_LEAD |-> PromoterLead \cup {"MANAGE_STAFF"}]

\* A role a line of business does not know has no permissions there.
PermissionsFor(type, role) ==
  LET table == [venue |-> VenuePermissions, host |-> HostPermissions,
                promoter |-> PromoterPermissions][type]
  IN IF role \in DOMAIN table THEN table[role] ELSE {}

\* The tabs a role is shown; None withholds none of them.
HostTabs == {"events", "calendar", "audience", "team"}
HostTabVisibility(role) ==
  CASE role = "OWNER"   -> None
    [] role = "COHOST"  -> HostTabs \cup {"overview", "network", "analytics"}
    [] role = "MANAGER" -> HostTabs \cup {"overview", "analytics"}
    [] OTHER            -> HostTabs

PromoterTabVisibility(role) ==
  IF role = "TEAM_LEAD" THEN None
  ELSE {"overview", "links", "events", "calendar", "partners", "analytics", "finance", "guests"}

VenueTabVisibility(role) ==
  CASE role = "OWNER"   -> None
    [] role = "MANAGER" -> {"overview", "analytics", "events", "calendar", "walk_ins",
                            "partnerships", "staff", "registers", "guest_ops",
                            "page_management", "door", "partners", "presence", "crm"}
    [] role = "STAFF"         -> {"walk_ins", "guest_ops", "registers", "door"}
    [] role = "SECURITY"      -> {"guest_ops", "walk_ins", "door"}
    [] role = "FINANCE_ADMIN" -> {"finance", "analytics", "overview"}
    [] OTHER                  -> {"door"}

TabVisibilityFor(type, role) ==
  CASE type = "host"     -> HostTabVisibility(role)
    [] type = "promoter" -> PromoterTabVisibility(role)
    [] type = "venue"    -> VenueTabVisibility(role)

\* The strictest line of business decides.
PrimaryPartnerType(capabilities) ==
  IF "venue" \in capabilities \/ capabilities = {} THEN "venue"
  ELSE IF "host" \in capabilities THEN "host" ELSE "promoter"

\* An admin runs the tenant, but is not its owner to the matrix.
ToPartnerRole(role) ==
  CASE role = "owner" -> "OWNER"
    [] role \in {"admin", "manager"} -> "MANAGER"
    [] role \in {"member", None} -> "STAFF"

PartnerAccessContext(type, role) ==
  [partnerType |-> type, role |-> role, permissions |-> PermissionsFor(type, role),
   tabVisibility |-> TabVisibilityFor(type, role)]

---------------------------------------------------------------------------
(* The auth library.                                                       *)

AccessTypeOK ==
  /\ today \in 0..LastDate /\ password \in [Users -> 0..LastPassword]
  /\ session \in [Sessions -> [user : Users, ends : Nat] \cup {None}]
  /\ resetToken \subseteq Users /\ trade \in Trades /\ trade \subseteq Capabilities
  /\ told # None => told.role \in PartnerRoles

Fresh(u)   == [user |-> u, ends |-> today + SessionLife]
Live(s) == session[s] # None /\ session[s].ends > today

\* Reading a session ends one that is over, and extends one that is due.
GetSession(s) ==
  session' = [session EXCEPT ![s] =
                IF ~Live(s) THEN None
                ELSE IF @.ends - SessionLife + UpdateAge <= today THEN Fresh(@.user) ELSE @]

\* A session row in its place among the unused ones.
MakeSession(c, u) ==
  \E s \in Sessions : /\ session[s] = None
                      /\ session' = [session EXCEPT ![s] = Fresh(u)]
                      /\ Goto(c, "reread", s)

---------------------------------------------------------------------------
(* Signing up, in and out; resetting a password.                           *)

PostSignup(c, u) == Arrive(c, "signup", u, None, None)
PostLogin(c, u)  == \E p \in 1..LastPassword : Arrive(c, "login", u, None, p)
PostForgot(c, u) == Arrive(c, "forgot", u, None, None)
PostReset(c, u)  == Arrive(c, "reset", u, None, None)

\* A cookie names a session row, whether or not it still stands.
PostRefresh(c, s) == Arrive(c, "refresh", None, s, None)
PostLogout(c, s)  == Arrive(c, "logout", None, s, None)

\* What the library refuses, or cannot do, the route refuses in its own words.
Refused(c) == Leave(c) /\ UNCHANGED session

SignUpEmail(c) ==
  LET u == call[c].who IN
  /\ At(c, "signup", "read")
  /\ IF password[u] # 0 THEN Refused(c) /\ UNCHANGED password
     ELSE password' = [password EXCEPT ![u] = 1] /\ MakeSession(c, u)
  /\ UNCHANGED <<today, resetToken, trade, told>>

\* One refusal for an unknown address and for a wrong password.
SignInEmail(c) ==
  LET q == call[c] IN
  /\ At(c, "login", "read")
  /\ IF password[q.who] # q.arg THEN Refused(c)
     ELSE MakeSession(c, q.who)
  /\ UNCHANGED <<today, password, resetToken, trade, told>>

\* The cookie is forwarded; then the session is read through it.  When that fails
\* the answer is a 401, though the account and the session exist.
RunAuthFlow(c) ==
  /\ call[c].op \in {"signup", "login"} /\ call[c].pc = "reread"
  /\ GetSession(call[c].row) \/ UNCHANGED session
  /\ Leave(c) /\ UNCHANGED <<today, password, resetToken, trade, told>>

\* The answer is the same for an unknown address, which gets no token.
RequestPasswordReset(c) ==
  LET u == call[c].who IN
  /\ At(c, "forgot", "read")
  /\ resetToken' = IF password[u] = 0 THEN resetToken ELSE resetToken \cup {u}
  /\ Leave(c) /\ UNCHANGED <<today, password, session, trade, told>>

ResetPassword(c) ==
  LET u == call[c].who IN
  /\ At(c, "reset", "read") /\ (u \in resetToken => password[u] < LastPassword)
  /\ password' = [password EXCEPT ![u] = IF u \in resetToken THEN @ + 1 ELSE @]
  /\ resetToken' = resetToken \ {u}
  /\ Leave(c) /\ UNCHANGED <<today, session, trade, told>>

\* Refreshing reads the session, and so extends it when it is due.
RefreshSession(c) ==
  /\ At(c, "refresh", "read") /\ GetSession(call[c].on)
  /\ Leave(c) /\ UNCHANGED <<today, password, resetToken, trade, told>>

SignOut(c) ==
  /\ At(c, "logout", "read") /\ session' = [session EXCEPT ![call[c].on] = None]
  /\ Leave(c) /\ UNCHANGED <<today, password, resetToken, trade, told>>

---------------------------------------------------------------------------
(* A request for the member's dashboard.                                   *)

\* With or without the organisation of its path named in its header.
GetAccess(c, s) == \E scoped \in BOOLEAN : Arrive(c, "access", None, s, scoped)

\* The hook, first: whose session it is.  Without one a route that asks a
\* permission answers 401.
ResolveSession(c) ==
  LET s == call[c].on IN
  /\ At(c, "access", "read") /\ GetSession(s)
  /\ IF Live(s)
     THEN Goto(c, "member", [userId |-> session[s].user, scoped |-> FALSE, role |-> "member"])
     ELSE Leave(c)
  /\ UNCHANGED <<today, password, resetToken, trade, told>>

\* The hook, second: the membership in the organisation the header names.  A
\* lookup that fails, or finds none, leaves an actor of no organisation.
ReadMembership(c) ==
  LET actor == call[c].row role == RoleOf(actor.userId) IN
  /\ At(c, "access", "member")
  /\ \/ Goto(c, "permit", actor)
     \/ call[c].arg /\ role # None /\ Goto(c, "permit", [actor EXCEPT !.scoped = TRUE, !.role = role])
  /\ UNCHANGED accessVars

\* The role holds the permission, and the path names the actor's organisation.
RequirePermission(c) ==
  LET actor == call[c].row IN
  /\ At(c, "access", "permit")
  /\ IF RoleHasPermission(actor.role, "organization.read") /\ actor.scoped
     THEN Goto(c, "load", actor) ELSE Leave(c)
  /\ UNCHANGED accessVars

\* The organisation is read once more: a member removed since is shown what staff see.
AnswerAccess(c) ==
  LET role == RoleOf(call[c].row.userId) IN
  /\ At(c, "access", "load")
  /\ told' = PartnerAccessContext(PrimaryPartnerType(IF role = None THEN {} ELSE trade),
                                  ToPartnerRole(role))
  /\ Leave(c) /\ UNCHANGED <<today, password, session, resetToken, trade>>

---------------------------------------------------------------------------
(* Around the requests.                                                    *)

DayPasses ==
  /\ today < LastDate /\ today' = today + 1 /\ resetToken' = {}
  /\ UNCHANGED <<password, session, trade, told, call>>

\* Other requests change the membership: whole operations of Organizations.
MembershipMoves ==
  /\ HasRoom(org, LastMove)
  /\ \E u \in Users, r \in {"admin", "member"} :
       org' \in AddMember(org, u, r) \cup UpdateMemberRole(org, u, r) \cup RemoveMember(org, u)
  /\ UNCHANGED <<invitation, lapsed, joined, accessVars, call>>

\* An organisation with a founder and another member.
Staffed ==
  UNION {AddMember(NewOrganization(Founder), u, r) : u \in Users, r \in {"admin", "member"}}

AccessInit ==
  /\ today = 0 /\ password = [u \in Users |-> 0] /\ session = [s \in Sessions |-> None]
  /\ resetToken = {} /\ trade \in Trades /\ told = None

AccessArrives(c) ==
  /\ \/ \E u \in Users : PostSignup(c, u) \/ PostLogin(c, u) \/ PostForgot(c, u) \/ PostReset(c, u)
     \/ \E s \in Sessions : /\ session[s] # None
                            /\ PostRefresh(c, s) \/ PostLogout(c, s) \/ GetAccess(c, s)
  /\ UNCHANGED accessVars

AccessStep(c) ==
  \/ AccessArrives(c) \/ SignUpEmail(c) \/ SignInEmail(c) \/ RunAuthFlow(c)
  \/ RequestPasswordReset(c) \/ ResetPassword(c) \/ RefreshSession(c) \/ SignOut(c)
  \/ ResolveSession(c) \/ ReadMembership(c) \/ RequirePermission(c) \/ AnswerAccess(c)
=============================================================================
