------------------------------- MODULE Limits -------------------------------
(***************************************************************************)
(* What one gateway process bounds in its own memory: the requests a key   *)
(* may make in a window of time, the live-statistics streams an actor and  *)
(* the process may hold open, and the answers it keeps for a while.        *)
(*                                                                         *)
(* All are lost with the process.  A handler runs to its next await       *)
(* without interruption, so that a counted request is one step, and so is  *)
(* everything between a stream's first reading and its first frame.        *)
(***************************************************************************)
EXTENDS Requests, Integers, SequencesExt

CONSTANTS
  Budgeted,       \* keys: class, address, user and organisation
  Budget,         \* requests a key may make in a window
  Window,         \* the window's length
  MaxTracked,     \* keys the map holds
  LastInstant,    \* bound on the clock
  Watchers,       \* actors that open streams
  MaxPerActor, MaxGlobal, \* streams held open
  LastReading,    \* bound on the changes of the statistics
  TimeToLive      \* of a kept answer

VARIABLES
  instant,        \* the clock
  hits,           \* tracked keys, least recently touched first, each with its stamps
  streams,        \* the limiter: actor -> slots held
  reading,        \* what a stream or a cached route shows, numbered as it changes
  kept            \* the kept answer of one class, organisation, user and address

limitVars == <<instant, hits, streams, reading, kept>>

CacheEntry == [body : 0..LastReading, expiresAt : Nat]

Stamps == Seq(0..LastInstant)

LimitTypeOK ==
  /\ instant \in 0..LastInstant /\ reading \in 0..LastReading
  /\ \A i \in DOMAIN hits : hits[i].key \in Budgeted /\ hits[i].stamps \in Stamps
  /\ Len(hits) <= MaxTracked /\ streams \in [Watchers -> Nat]
  /\ kept \in CacheEntry \cup {None}

---------------------------------------------------------------------------
(* The sliding window.                                                     *)

Others(key) == SelectSeq(hits, LAMBDA h : h.key # key)

StampsOf(key) ==
  IF \E i \in DOMAIN hits : hits[i].key = key
  THEN hits[CHOOSE i \in DOMAIN hits : hits[i].key = key].stamps ELSE <<>>

\* The key becomes the most recently touched; a full map loses the least one.
Touch(key, stamps) ==
  LET rest == Others(key) IN
  hits' = Append(IF Len(rest) >= MaxTracked THEN Tail(rest) ELSE rest,
                 [key |-> key, stamps |-> stamps])

\* A request over its budget is refused, and is not counted.
RateLimit(key) ==
  LET recent == SelectSeq(StampsOf(key), LAMBDA s : s > instant - Window) IN
  /\ Touch(key, IF Len(recent) >= Budget THEN recent ELSE Append(recent, instant))
  /\ UNCHANGED <<instant, streams, reading, kept, call>>

InstantPasses ==
  /\ instant < LastInstant /\ instant' = instant + 1
  /\ UNCHANGED <<hits, streams, reading, kept, call>>

---------------------------------------------------------------------------
(* The streams.                                                            *)

Total == FoldFunction(+, 0, streams)

CanAcquire(a) == streams[a] < MaxPerActor /\ Total < MaxGlobal
Acquired(a)   == [streams EXCEPT ![a] = @ + 1]
Released(a)   == [streams EXCEPT ![a] = IF @ > 0 THEN @ - 1 ELSE 0]

GetStream(c) ==
  /\ \E a \in Watchers : Arrive(c, "stream", a, None, None)
  /\ UNCHANGED limitVars

\* The first reading is also the authorisation.
FirstReading(c) ==
  /\ At(c, "stream", "read")
  /\ Goto(c, "acquire", [shown |-> reading, asked |-> {}]) \/ Leave(c)
  /\ UNCHANGED limitVars

\* A slot, the headers, the first frame.  When the socket does not take the frame,
\* because its peer is slow or has gone, the stream is to be cleaned up before its
\* timers exist: the handler fails there, and keeps the slot.
StartStatsStream(c) ==
  LET a == call[c].who IN
  /\ At(c, "stream", "acquire")
  /\ IF ~CanAcquire(a) THEN Leave(c) /\ UNCHANGED streams
     ELSE streams' = Acquired(a) /\ (Goto(c, "open", call[c].row) \/ Leave(c))
  /\ UNCHANGED <<instant, hits, reading, kept>>

\* Expired, gone, failed or too slow: once, with its timers and its slot.
Cleanup(c) == Leave(c) /\ streams' = Released(call[c].who)

\* A tick asks for the statistics, whether or not the last one was answered.
Tick(c) ==
  /\ At(c, "stream", "open") /\ Cardinality(call[c].row.asked) < 2
  /\ Goto(c, "open", [call[c].row EXCEPT !.asked = @ \cup {reading}])
  /\ UNCHANGED limitVars

\* The answers come in any order; one that shows no change sends no frame.
Emit(c) ==
  LET r == call[c].row IN
  /\ At(c, "stream", "open")
  /\ \E n \in r.asked :
       \/ Goto(c, "open", [shown |-> n, asked |-> r.asked \ {n}]) /\ UNCHANGED streams
       \/ n # r.shown /\ Cleanup(c)
  /\ UNCHANGED <<instant, hits, reading, kept>>

\* The authority that opened it was withdrawn, its time is up, or its peer left.
CloseStream(c) ==
  /\ At(c, "stream", "open") /\ Cleanup(c)
  /\ UNCHANGED <<instant, hits, reading, kept>>

StatsMove ==
  /\ reading < LastReading /\ reading' = reading + 1
  /\ UNCHANGED <<instant, hits, streams, kept, call>>

\* The process restarts: its memory is empty and its sockets are closed.
ProcessRestarts ==
  /\ hits' = <<>> /\ streams' = [a \in Watchers |-> 0] /\ call' = [c \in Calls |-> Idle]
  /\ kept' = None
  /\ UNCHANGED <<instant, reading>>

---------------------------------------------------------------------------
(* Kept answers.                                                           *)

GetCached(c) ==
  /\ Arrive(c, "cached", None, None, None)
  /\ UNCHANGED limitVars

\* A fresh entry is the answer; a stale one is dropped, and the route goes on.
Cached(c) ==
  /\ At(c, "cached", "read")
  /\ IF kept # None /\ kept.expiresAt > instant
     THEN Leave(c) /\ UNCHANGED kept
     ELSE Goto(c, "handle", None) /\ kept' = None
  /\ UNCHANGED <<instant, hits, streams, reading>>

\* The handler reads the rows; an answer that is not a 200 is not kept.
Handle(c) ==
  /\ At(c, "cached", "handle")
  /\ Goto(c, "send", [body |-> reading]) \/ Leave(c)
  /\ UNCHANGED limitVars

\* Its time to live counts from the sending, not from the reading.
OnSend(c) ==
  /\ At(c, "cached", "send")
  /\ kept' = [body |-> call[c].row.body, expiresAt |-> instant + TimeToLive]
  /\ Leave(c)
  /\ UNCHANGED <<instant, hits, streams, reading>>

---------------------------------------------------------------------------
LimitInit ==
  /\ instant = 0 /\ hits = <<>> /\ streams = [a \in Watchers |-> 0] /\ reading = 0
  /\ kept = None

StreamStep(c) ==
  GetStream(c) \/ FirstReading(c) \/ StartStatsStream(c) \/ Tick(c) \/ Emit(c) \/ CloseStream(c)

StreamWorld == StatsMove \/ ProcessRestarts

CacheStep(c) == GetCached(c) \/ Cached(c) \/ Handle(c) \/ OnSend(c)

CacheWorld == InstantPasses \/ StatsMove \/ ProcessRestarts

BudgetWorld == InstantPasses \/ ProcessRestarts \/ \E key \in Budgeted : RateLimit(key)
=============================================================================
