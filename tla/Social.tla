------------------------------- MODULE Social -------------------------------
(***************************************************************************)
(* Who follows an event's venue and host, what the publication of the      *)
(* event puts in the followers' feeds, the inbox of the partners, and a    *)
(* guest's own profile.                                                    *)
(*                                                                         *)
(* A delivery of `event.published` is a call of the event bus, which may   *)
(* deliver one again (EventBus); a resumed sale publishes again.  It reads *)
(* the event, then the followers of the venue and those of the host, and   *)
(* writes one row per follower, named by follower and event.  Follow rows  *)
(* are named by follower and target: their saves and deletes are plain,    *)
(* and the events they emit have no subscriber.                            *)
(***************************************************************************)
EXTENDS Requests

CONSTANTS
  Followers,   \* guests
  Notices,     \* rows of a partner's inbox
  Tastes,      \* what a guest may say of themselves
  LastProfile  \* last version of a profile (bound)

VARIABLES
  published,   \* the event is on sale, as its repository says
  follows,     \* <<follower, target>>
  feed,        \* the row about the event in each follower's feed
  inbox,       \* the rows of the partner's inbox
  profile      \* the guest's profile

socialVars == <<published, follows, feed, inbox, profile>>

Targets == {"venue", "host"}
Row == {None, "unread", "read"}
Profile == [version : 1..LastProfile, tastes : Tastes]

ASSUME SocialAssumption == None \notin {"unread", "read"}

SocialTypeOK ==
  /\ published \in BOOLEAN
  /\ follows \subseteq Followers \X Targets
  /\ feed \in [Followers -> Row] /\ inbox \in [Notices -> Row]
  /\ profile \in Profile \cup {None}

---------------------------------------------------------------------------
(* The follow graph.                                                       *)

FollowId(u, target) == <<u, target>>

PostFollow(c) ==
  /\ \E u \in Followers, t \in Targets : Arrive(c, "follow", u, t, None)
  /\ UNCHANGED socialVars
DeleteFollow(c) ==
  /\ \E u \in Followers, t \in Targets : Arrive(c, "unfollow", u, t, None)
  /\ UNCHANGED socialVars

\* The edge is looked up in one call, and saved or deleted in the next.
ReadEdge(c) ==
  LET q == call[c]
      exists == FollowId(q.who, q.on) \in follows
  IN /\ q.op \in {"follow", "unfollow"} /\ q.pc = "read"
     /\ IF exists = (q.op = "unfollow") THEN Goto(c, "save", None) ELSE Leave(c)
     /\ UNCHANGED socialVars

SaveEdge(c) ==
  LET q == call[c] IN
  /\ At(c, "follow", "save")
  /\ follows' = follows \cup {FollowId(q.who, q.on)}
  /\ Leave(c) /\ UNCHANGED <<published, feed, inbox, profile>>

DeleteEdge(c) ==
  LET q == call[c] IN
  /\ At(c, "unfollow", "save")
  /\ follows' = follows \ {FollowId(q.who, q.on)}
  /\ Leave(c) /\ UNCHANGED <<published, feed, inbox, profile>>

---------------------------------------------------------------------------
(* The fan-out of a published event.                                       *)

\* The event is published, paused, resumed or cancelled by its own service (Events).
EventMoves == published' = ~published /\ UNCHANGED <<call, follows, feed, inbox, profile>>

FollowerIds(target) == {u \in Followers : FollowId(u, target) \in follows}

Delivery(c) == Arrive(c, "fanOut", "bus", None, {}) /\ UNCHANGED socialVars

\* An event that is not on sale any more notifies nobody.
ReadEvent(c) ==
  /\ At(c, "fanOut", "read")
  /\ IF published THEN Goto(c, "venue", None) ELSE Leave(c)
  /\ UNCHANGED socialVars

\* `arg` gathers the recipients.
ListFollowers(c) ==
  /\ call[c].op = "fanOut" /\ call[c].pc \in Targets
  /\ call' = [call EXCEPT ![c].arg = @ \cup FollowerIds(call[c].pc),
                          ![c].pc = IF @ = "venue" THEN "host" ELSE "write"]
  /\ UNCHANGED socialVars

\* Mutation of CreateIfAbsent: the row is set whether or not it is there.
CreateAnyway(u) == feed' = [feed EXCEPT ![u] = "unread"]

CreateIfAbsent(u) == feed' = IF feed[u] = None THEN [feed EXCEPT ![u] = "unread"] ELSE feed

\* The rows of a batch are written side by side: in any order.
NotifyFollower(c) ==
  /\ At(c, "fanOut", "write")
  /\ IF call[c].arg = {} THEN Leave(c) /\ UNCHANGED feed
     ELSE \E u \in call[c].arg :
            CreateIfAbsent(u) /\ call' = [call EXCEPT ![c].arg = @ \ {u}]
  /\ UNCHANGED <<published, follows, inbox, profile>>

---------------------------------------------------------------------------
(* Reading: a feed's unread rows are collected, then written together.     *)

PostRead(c) ==
  /\ \E u \in Followers : Arrive(c, "markRead", u, None, None)
  /\ UNCHANGED socialVars

FindUnread(c) ==
  /\ At(c, "markRead", "read")
  /\ IF feed[call[c].who] = "unread" THEN Goto(c, "commit", None) ELSE Leave(c)
  /\ UNCHANGED socialVars

CommitReadAt(c) ==
  /\ At(c, "markRead", "commit")
  /\ feed' = [feed EXCEPT ![call[c].who] = "read"]
  /\ Leave(c) /\ UNCHANGED <<published, follows, inbox, profile>>

---------------------------------------------------------------------------
(* The partner's inbox: the consumer of the bus creates a row under a new  *)
(* id; a row is marked read on its own, with the others, or after its      *)
(* quick action, which the owning service runs and may refuse (Relations,  *)
(* Venues).                                                                *)

RecordNotice(c) ==
  /\ Free(c)
  /\ \E n \in Notices : inbox[n] = None /\ inbox' = [inbox EXCEPT ![n] = "unread"]
  /\ UNCHANGED <<call, published, follows, feed, profile>>

PatchNotice(c) ==
  /\ \E n \in Notices : inbox[n] # None /\ Arrive(c, "open", "partner", n, None)
  /\ UNCHANGED socialVars

PostNoticeAction(c) ==
  /\ \E n \in Notices : inbox[n] # None /\ Arrive(c, "quickAction", "partner", n, None)
  /\ UNCHANGED socialVars

PatchAllNotices(c) == Arrive(c, "openAll", "partner", None, None) /\ UNCHANGED socialVars

OwnedNotice(c) ==
  LET q == call[c] IN
  /\ \/ /\ At(c, "open", "read")
        /\ IF inbox[q.on] = "read" THEN Leave(c) ELSE Goto(c, "mark", {q.on})
     \/ At(c, "quickAction", "read") /\ (Goto(c, "mark", {q.on}) \/ Leave(c))
     \/ At(c, "openAll", "read") /\ Goto(c, "mark", {n \in Notices : inbox[n] = "unread"})
  /\ UNCHANGED socialVars

MarkNotices(c) ==
  LET q == call[c] IN
  /\ q.op \in {"open", "quickAction", "openAll"} /\ q.pc = "mark"
  /\ inbox' = [n \in Notices |-> IF n \in q.row THEN "read" ELSE inbox[n]]
  /\ Leave(c) /\ UNCHANGED <<published, follows, feed, profile>>

---------------------------------------------------------------------------
(* A guest's profile: read, and stored over whatever is there by then.     *)

IsAdult(birth) == birth = "past"

CreateGuestProfile(tastes) == [version |-> 1, tastes |-> tastes]
UpdateGuestProfile(row, tastes) == [Bump(row) EXCEPT !.tastes = tastes]

PutProfile(c) ==
  /\ \E t \in Tastes, birth \in {"past", "minor"} : Arrive(c, "profile", birth, None, t)
  /\ UNCHANGED socialVars

ReadProfile(c) ==
  LET q == call[c]
      next == IF profile = None THEN CreateGuestProfile(q.arg)
                                ELSE UpdateGuestProfile(profile, q.arg)
  IN /\ At(c, "profile", "read")
     /\ Decide(c, When(IsAdult(q.who) /\ next.version <= LastProfile, next), "save")
     /\ UNCHANGED socialVars

SaveProfile(c) ==
  /\ At(c, "profile", "save")
  /\ profile' = call[c].row
  /\ Leave(c) /\ UNCHANGED <<published, follows, feed, inbox>>

SocialInit ==
  /\ published = FALSE /\ follows = {}
  /\ feed = [u \in Followers |-> None] /\ inbox = [n \in Notices |-> None]
  /\ profile = None

FollowStep(c) ==
  \/ PostFollow(c) \/ DeleteFollow(c) \/ ReadEdge(c) \/ SaveEdge(c) \/ DeleteEdge(c)
  \/ EventMoves \/ Delivery(c) \/ ReadEvent(c) \/ ListFollowers(c) \/ NotifyFollower(c)
  \/ PostRead(c) \/ FindUnread(c) \/ CommitReadAt(c)

InboxStep(c) ==
  \/ RecordNotice(c) \/ PatchNotice(c) \/ PatchAllNotices(c) \/ PostNoticeAction(c)
  \/ OwnedNotice(c) \/ MarkNotices(c)

ProfileStep(c) == PutProfile(c) \/ ReadProfile(c) \/ SaveProfile(c)

---------------------------------------------------------------------------

\* "A re-publish (resumeSales / redelivery) never duplicates or un-reads": whatever
\* deliveries run side by side, a guest's row about the event stays one row, and what
\* the guest has read stays read.
ReadStaysRead == [][\A u \in Followers : feed[u] = "read" => feed'[u] = "read"]_feed
=============================================================================
