------------------------------ MODULE Support ------------------------------
(***************************************************************************)
(* The support desk: tickets a guest opens and writes to, and what the     *)
(* admins do to them - reply, assign, escalate, resolve, close, reopen,    *)
(* delete, restore, and merge a duplicate into a primary.                  *)
(*                                                                         *)
(* Every operation reads a ticket, applies a rule of the model and saves   *)
(* the next version; a merge reads two and saves them one after the other. *)
(* A ticket's notes, assignee, priority and links are left out but for     *)
(* what they do to its status and version; deadlines are not kept.         *)
(***************************************************************************)
EXTENDS Requests

CONSTANTS
  Tickets,           \* ids of support tickets
  Messages,          \* messages a customer or an admin may write
  MaxTicketVersion   \* bound on the versions of a row

VARIABLE ticket      \* the ticket rows

TicketAt(versions) ==
  [status : {"open", "in_progress", "waiting_on_customer", "escalated", "resolved", "closed"},
   messages : SUBSET Messages, mergedInto : Tickets \cup {None}, mergedFrom : SUBSET Tickets,
   deleted : BOOLEAN, version : versions]
SupportTicket == TicketAt(1..MaxTicketVersion)

ASSUME SupportAssumption == None \notin TicketAt(Nat)

SupportTypeOK == ticket \in [Tickets -> SupportTicket \cup {None}]

---------------------------------------------------------------------------
(* The rules of the ticket model.                                          *)

IsTerminal(t) == t.status \in {"resolved", "closed"}
IsLiveTicket(t)     == ~IsTerminal(t) /\ ~t.deleted

CreateSupportTicket ==
  [status |-> "open", messages |-> {}, mergedInto |-> None, mergedFrom |-> {},
   deleted |-> FALSE, version |-> 1]

\* A customer's message brings a ticket that waits for one back into work.
AddCustomerMessage(t, m) ==
  When(IsLiveTicket(t),
       Bump([t EXCEPT !.messages = @ \cup {m},
                      !.status = IF @ = "waiting_on_customer" THEN "in_progress" ELSE @]))

AddAdminReply(t, m) ==
  When(IsLiveTicket(t), Bump([t EXCEPT !.messages = @ \cup {m}, !.status = "waiting_on_customer"]))

AddInternalNote(t) == When(~t.deleted, Bump(t))
LinkTicket(t)      == When(~t.deleted, Bump(t))
ChangePriority(t)  == When(IsLiveTicket(t), Bump(t))
AssignTicket(t) ==
  When(IsLiveTicket(t), Bump([t EXCEPT !.status = IF @ = "open" THEN "in_progress" ELSE @]))
EscalateTicket(t)  == When(IsLiveTicket(t), Bump([t EXCEPT !.status = "escalated"]))
ResolveTicket(t)   == When(IsLiveTicket(t), Bump([t EXCEPT !.status = "resolved"]))
CloseTicket(t) ==
  When(~t.deleted /\ t.status # "closed", Bump([t EXCEPT !.status = "closed"]))
ReopenTicket(t) ==
  When(IsTerminal(t) /\ ~t.deleted /\ t.mergedInto = None,
       Bump([t EXCEPT !.status = "open"]))
DeleteTicket(t)    == When(~t.deleted, Bump([t EXCEPT !.deleted = TRUE]))
RestoreTicket(t)   == When(t.deleted, Bump([t EXCEPT !.deleted = FALSE]))

\* The primary takes the duplicate's messages, the duplicate is closed.
MergeDuplicateTicket(p, primary, d, duplicate) ==
  When(/\ p # d /\ ~primary.deleted /\ ~duplicate.deleted
       /\ primary.mergedInto = None /\ duplicate.mergedInto = None
       /\ d \notin primary.mergedFrom /\ p \notin duplicate.mergedFrom,
       [primary   |-> Bump([primary EXCEPT !.messages = @ \cup duplicate.messages,
                                           !.mergedFrom = @ \cup {d}]),
        duplicate |-> Bump([duplicate EXCEPT !.status = "closed", !.mergedInto = p])])

---------------------------------------------------------------------------
(* The routes: who may ask.                                                *)

Opened == {t \in Tickets : ticket[t] # None}
\* A message is new.
Unsent == {m \in Messages : /\ \A t \in Opened : m \notin ticket[t].messages
                            /\ \A c \in Calls : call[c].arg # m}

\* A ticket's id is fresh.
PostTicket(c) ==
  \E t \in Tickets : /\ ticket[t] = None /\ \A d \in Calls : call[d].on # t
                     /\ Arrive(c, "submit", "guest", t, None)

PostMessage(c) == \E t \in Opened, m \in Unsent : Arrive(c, "message", "guest", t, m)

PostReply(c) == \E t \in Opened, m \in Unsent : Arrive(c, "reply", "admin", t, m)

\* The admins' other commands name a ticket.
PostDesk(c, op)    == \E t \in Opened : Arrive(c, op, "admin", t, None)
PostNote(c)        == PostDesk(c, "note")
PostLink(c)        == PostDesk(c, "link")
PatchPriority(c)   == PostDesk(c, "priority")
PostAssign(c)      == PostDesk(c, "assign")
PostResolution(c)  == PostDesk(c, "resolve")
DeleteThread(c)    == PostDesk(c, "delete")
PostTransition(c)  == \E op \in {"escalate", "close", "reopen", "restore"} : PostDesk(c, op)

PostMerge(c) == \E p, d \in Opened : Arrive(c, "merge", "admin", p, d)

SupportArrives(c) ==
  /\ \/ PostTicket(c) \/ PostMessage(c) \/ PostReply(c) \/ PostNote(c) \/ PostLink(c)
     \/ PatchPriority(c) \/ PostAssign(c) \/ PostResolution(c) \/ DeleteThread(c)
     \/ PostTransition(c) \/ PostMerge(c)
  /\ UNCHANGED ticket

---------------------------------------------------------------------------
(* The services: read, decide, write.                                      *)

\* Only a restoration sees a deleted ticket.
Seen(op, t) == ticket[t] # None /\ (op = "restore" \/ ~ticket[t].deleted)

SubmitTicket(c) ==
  /\ At(c, "submit", "read")
  /\ ticket' = [ticket EXCEPT ![call[c].on] = CreateSupportTicket] /\ Leave(c)

\* The ticket a request names is read, and what its rule makes of it is saved next.
RequireTicket(c, op, Ruled(_)) ==
  LET t == call[c].on IN
  /\ At(c, op, "read") /\ ticket[t].version < MaxTicketVersion
  /\ IF Seen(op, t) THEN Decide(c, Ruled(ticket[t]), "save") ELSE Leave(c)
  /\ UNCHANGED ticket

SendMessage(c) ==
  RequireTicket(c, "message", LAMBDA t : AddCustomerMessage(t, call[c].arg))
SendAdminReply(c) ==
  RequireTicket(c, "reply", LAMBDA t : AddAdminReply(t, call[c].arg))
AddNote(c)           == RequireTicket(c, "note", AddInternalNote)
Link(c)              == RequireTicket(c, "link", LinkTicket)
Reprioritise(c)      == RequireTicket(c, "priority", ChangePriority)
Assign(c)            == RequireTicket(c, "assign", AssignTicket)
Escalate(c)          == RequireTicket(c, "escalate", EscalateTicket)
Resolve(c)           == RequireTicket(c, "resolve", ResolveTicket)
Close(c)             == RequireTicket(c, "close", CloseTicket)
Reopen(c)            == RequireTicket(c, "reopen", ReopenTicket)
Delete(c)            == RequireTicket(c, "delete", DeleteTicket)
RestoreDeleted(c)    == RequireTicket(c, "restore", RestoreTicket)

SaveTicket(c) ==
  LET q == call[c] IN
  /\ q.op # "merge" /\ q.pc = "save"
  /\ ticket' = Written(ticket, q.on, q.row) /\ Leave(c)

\* The primary, then the duplicate.
ReadPrimary(c) ==
  LET p == call[c].on IN
  /\ At(c, "merge", "read") /\ ticket[p].version < MaxTicketVersion
  /\ IF Seen("merge", p) THEN Goto(c, "duplicate", ticket[p]) ELSE Leave(c)
  /\ UNCHANGED ticket

ReadDuplicate(c) ==
  LET q == call[c] d == q.arg IN
  /\ At(c, "merge", "duplicate") /\ ticket[d].version < MaxTicketVersion
  /\ IF Seen("merge", d)
     THEN Decide(c, MergeDuplicateTicket(q.on, q.row, d, ticket[d]), "savePrimary")
     ELSE Leave(c)
  /\ UNCHANGED ticket

\* A refused save ends the merge.
SavePrimary(c) ==
  LET q == call[c] IN
  /\ At(c, "merge", "savePrimary")
  /\ ticket' = Written(ticket, q.on, q.row.primary)
  /\ IF ticket'[q.on] = q.row.primary THEN Goto(c, "saveDuplicate", q.row) ELSE Leave(c)

SaveDuplicate(c) ==
  LET q == call[c] IN
  /\ At(c, "merge", "saveDuplicate")
  /\ ticket' = Written(ticket, q.arg, q.row.duplicate) /\ Leave(c)

SupportInit == ticket = [t \in Tickets |-> None]

SupportStep(c) ==
  \/ SupportArrives(c) \/ SubmitTicket(c) \/ SendMessage(c) \/ SendAdminReply(c)
  \/ AddNote(c) \/ Link(c) \/ Reprioritise(c) \/ Assign(c) \/ Escalate(c) \/ Resolve(c)
  \/ Close(c) \/ Reopen(c) \/ Delete(c) \/ RestoreDeleted(c) \/ SaveTicket(c)
  \/ ReadPrimary(c) \/ ReadDuplicate(c) \/ SavePrimary(c) \/ SaveDuplicate(c)

---------------------------------------------------------------------------

\* What a guest wrote on a duplicate is never lost: a ticket that has been merged
\* stays closed, its primary lists it, and every message it has ever been sent is
\* in the primary's thread, though the two tickets are saved one after the other
\* while their guests and other admins go on writing to both.
MergeKeepsMessages ==
  \A d \in Opened : ticket[d].mergedInto # None =>
    LET p == ticket[d].mergedInto IN
    /\ ticket[d].status = "closed" /\ d \in ticket[p].mergedFrom
    /\ ticket[d].messages \subseteq ticket[p].messages
=============================================================================
