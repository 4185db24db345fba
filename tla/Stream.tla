------------------------------- MODULE Stream -------------------------------
(***************************************************************************)
(* One market's tick stream, from the feed to a broker: TickFeed           *)
(* (packages/distribution/src/feed.ts), the single-market route of         *)
(* apps/api/src/market.controller.ts that serves it over HTTP, and         *)
(* VenueClient.subscribe (packages/client/src) that reads it.              *)
(*                                                                         *)
(* A tick is its sequence, and replay and socket bounds are counted in     *)
(* frames.  The handlers are synchronous, so each is one step.  What a     *)
(* socket holds and what the network carries are one queue of frames: it   *)
(* arrives in order, up to where the connection is lost.                   *)
(***************************************************************************)
EXTENDS Integers, Sequences, FiniteSets, SequencesExt, FiniteSetsExt

CONSTANTS
  None,          \* no sequence
  Clients,
  Retain,        \* retainTicks
  HighWater,     \* frames a socket holds before it says stop
  MaxReplay,     \* MAX_REPLAY_BYTES, in frames
  ReplayBudget,  \* replayBudgetBytes, in frames
  Lease,         \* the sequences a seam passes over
  MaxSequence, MaxBatch, MaxCalls, MaxReconnects, MaxDrops, MaxSeams, MaxBeats  \* bounds

ASSUME StreamAssumption ==
  /\ None \notin Int
  /\ {Retain, HighWater, Lease} \subseteq Nat \ {0}
  /\ MaxReplay \in Nat /\ HighWater <= MaxReplay /\ ReplayBudget \in Nat
  /\ {MaxSequence, MaxBatch, MaxReconnects} \subseteq Nat

VARIABLES
  record,     \* the venue: the newest sequence recorded, where its last run began, the next one
  feed,       \* the feed's window, and the seam declared while there is none
  inForce,    \* the tick the last clean pass named, and whether the market is stalled
  conn,       \* per client: its connection, as the venue holds it
  client,     \* per client: the subscribe() in progress
  heard,      \* history, per client: what its caller was handed and told
  drops, seams, beats  \* counters of the bounds

vars == <<record, feed, inForce, conn, client, heard, drops, seams, beats>>

-----------------------------------------------------------------------------
(* The feed *)

Empty(window) == window.to = 0
Larger(a, b) == IF a > b THEN a ELSE b
Run(a, b) == [i \in 1..(b - a + 1) |-> a + i - 1]

\* since: the ticks from a sequence on, or the refusal.
Since(from) ==
  IF Empty(feed) THEN
    IF feed.resumes # None THEN
      IF from < feed.resumes THEN [kind |-> "evicted", oldest |-> feed.resumes]
      ELSE IF from > feed.resumes THEN [kind |-> "unknown"] ELSE [kind |-> "ticks", ticks |-> <<>>]
    ELSE IF from # 1 THEN [kind |-> "unknown"] ELSE [kind |-> "ticks", ticks |-> <<>>]
  ELSE IF from < feed.from THEN [kind |-> "evicted", oldest |-> feed.from]
  ELSE IF from > feed.to + 1 THEN [kind |-> "unknown"]
  ELSE [kind |-> "ticks", ticks |-> Run(from, feed.to)]

\* publish: the window slides, and a declared seam has done its work.
Extended(window, first, last) ==
  [from |-> Larger(IF Empty(window) THEN first ELSE window.from, last - Retain + 1),
   to |-> last, resumes |-> None]

-----------------------------------------------------------------------------
(* The route *)

Tick(n) == [kind |-> "tick", sequence |-> n]
Gap(requested, resumes) == [kind |-> "gap", requested |-> requested, resumes |-> resumes]
Beat(n) == [kind |-> "beat", sequence |-> n]
Close == [kind |-> "close"]

NoConnection == [state |-> "none", frames |-> <<>>, stop |-> FALSE, given |-> None, charge |-> 0]
Charged == FoldSet(LAMBDA c, sum : sum + conn[c].charge, 0, Clients)

\* res.write: the socket says stop once it holds too much.
Written(c, frames) ==
  LET all == c.frames \o frames
  IN [c EXCEPT !.frames = all, !.stop = c.stop \/ Len(all) >= HighWater]

\* The sink's close after the headers: the reason, then the end of the response.
Closed(c) == [Written(c, <<Close>>) EXCEPT !.state = "ended"]

\* deliver: everything in order, or everything and then disconnection.
Deliver(c, ticks) ==
  LET w == [Written(c, [i \in DOMAIN ticks |-> Tick(ticks[i])]) EXCEPT !.given = Last(ticks)]
  IN IF w.stop THEN Closed(w) ELSE w

\* What a connection is opened with: the replay up to the cap, flushed whole
\* into the socket, and closed when the cap cut it or the socket said stop.
Opened(gap, ticks) ==
  LET sent == SubSeq(ticks, 1, Min({MaxReplay, Len(ticks)}))
      cut == Len(ticks) >= MaxReplay
      frames == gap \o [i \in DOMAIN sent |-> Tick(sent[i])] \o (IF cut THEN <<Close>> ELSE <<>>)
      full == Len(frames) >= HighWater
  IN [state |-> IF full THEN "ended" ELSE "live",
      frames |-> IF full /\ ~cut THEN frames \o <<Close>> ELSE frames,
      stop |-> full, given |-> IF sent = <<>> THEN None ELSE Last(sent),
      charge |-> Len(frames)]

\* Mutant: a resume past the budget joins the live edge with nothing told.
AnswerSilently(from, others) ==
  LET found == IF from = None \/ Charged + others >= ReplayBudget THEN [kind |-> "ticks", ticks |-> <<>>]
               ELSE Since(from)
  IN IF found.kind = "ticks" THEN Opened(<<>>, found.ticks)
     ELSE IF found.kind = "evicted" THEN Opened(<<Gap(from, found.oldest)>>, Since(found.oldest).ticks)
     ELSE Opened(<<Gap(from, None)>>, <<>>)
\* stream with onGap=live: a resume the feed refuses is told as a gap and joined
\* at the oldest tick retained, or at the live edge when this process already
\* replays all it will.
Answer(from, others) ==
  LET over == from # None /\ Charged + others >= ReplayBudget
      found == IF from = None THEN [kind |-> "ticks", ticks |-> <<>>]
               ELSE IF over THEN [kind |-> "unknown"] ELSE Since(from)
  IN IF found.kind = "ticks" THEN Opened(<<>>, found.ticks)
     ELSE IF found.kind = "evicted" THEN Opened(<<Gap(from, found.oldest)>>, Since(found.oldest).ticks)
     ELSE Opened(<<Gap(from, None)>>, <<>>)

\* The streams of other markets may owe the process its whole budget already.
Connect(c, others) ==
  /\ client[c].state = "connecting"
  /\ conn' = [conn EXCEPT ![c] = Answer(client[c].from, others)]
  /\ client' = [client EXCEPT ![c].state = "reading"]
  /\ UNCHANGED <<record, feed, inForce, heard, drops, seams, beats>>

\* heartbeatOwed
Owed(c) ==
  /\ inForce.tick # None
  /\ conn[c].state = "live" /\ ~conn[c].stop
  /\ conn[c].given \in {None, inForce.tick}

Heartbeat(c) ==
  /\ beats < MaxBeats
  /\ Owed(c)
  /\ conn' = [conn EXCEPT ![c] = Written(@, <<Beat(inForce.tick)>>)]
  /\ beats' = beats + 1
  /\ UNCHANGED <<record, feed, inForce, client, heard, drops, seams>>

-----------------------------------------------------------------------------
(* The venue *)

\* A pass: what the market published since the last one is recorded, offered to
\* the feed and its subscribers, and named as the price in force; a pass with no
\* tick names the newest one again.
Pass(k) ==
  LET first == record.next
      last == record.next + k - 1
  IN /\ last <= MaxSequence
     /\ IF k = 0
        THEN /\ ~inForce.stalled /\ record.head # 0 /\ inForce.tick # record.head
             /\ inForce' = [inForce EXCEPT !.tick = record.head]
             /\ UNCHANGED <<record, feed, conn>>
        ELSE /\ record' = [head |-> last, next |-> last + 1,
                           base |-> IF first = record.head + 1 THEN record.base ELSE first]
             /\ feed' = Extended(feed, first, last)
             /\ conn' = [c \in Clients |-> IF conn[c].state = "live"
                                           THEN Deliver(conn[c], Run(first, last)) ELSE conn[c]]
             /\ inForce' = [tick |-> last, stalled |-> FALSE]
     /\ UNCHANGED <<client, heard, drops, seams, beats>>

\* A seam resumes a lease further, or where one that was never published into
\* already stood.
Further == {record.next + Lease} \cup (IF record.next = record.head + 1 THEN {} ELSE {record.next})
Seamed(next) == [from |-> 1, to |-> 0, resumes |-> next]

\* #reopen: the subscribers are told why they end, and the feed where it resumes.
Reopen ==
  /\ seams < MaxSeams
  /\ record.head # 0 /\ ~inForce.stalled
  /\ record' = [record EXCEPT !.next = @ + Lease]
  /\ feed' = Seamed(record.next + Lease)
  /\ inForce' = [inForce EXCEPT !.stalled = TRUE]
  /\ conn' = [c \in Clients |-> IF conn[c].state = "live" THEN Closed(conn[c]) ELSE conn[c]]
  /\ seams' = seams + 1
  /\ UNCHANGED <<client, heard, drops, beats>>

Lost(c) == IF c.state = "none" THEN c ELSE [NoConnection EXCEPT !.state = "lost"]

\* The process ends and another boots: #primeFromRecord gives the feed the run
\* the record ends with, or declares the seam. A stop says so on every stream
\* (beforeApplicationShutdown); a kill says nothing.
Restart(told, next) ==
  LET seamed == next # record.head + 1
  IN
  /\ drops < MaxDrops
  /\ record.head # 0
  /\ seamed => seams < MaxSeams
  /\ record' = [record EXCEPT !.next = next]
  /\ feed' = IF seamed THEN Seamed(next)
             ELSE [from |-> Larger(record.base, record.head - Retain + 1),
                   to |-> record.head, resumes |-> None]
  /\ inForce' = [tick |-> None, stalled |-> FALSE]
  /\ conn' = [c \in Clients |-> IF ~told THEN Lost(conn[c])
                                ELSE IF conn[c].state = "live"
                                THEN [Closed(conn[c]) EXCEPT !.charge = 0]
                                ELSE [conn[c] EXCEPT !.charge = 0]]
  /\ drops' = drops + 1
  /\ seams' = IF seamed THEN seams + 1 ELSE seams
  /\ UNCHANGED <<client, heard, beats>>

\* External: the network loses a connection, and the venue cleans up after it.
Drop(c) ==
  /\ drops < MaxDrops
  /\ conn[c].state \in {"live", "ended"}
  /\ conn' = [conn EXCEPT ![c] = Lost(@)]
  /\ drops' = drops + 1
  /\ UNCHANGED <<record, feed, inForce, client, heard, seams, beats>>

-----------------------------------------------------------------------------
(* The client *)

NotCalled == [state |-> "idle", from |-> None, delivered |-> None, anywhere |-> FALSE,
              budget |-> MaxReconnects, calls |-> 0]

\* External: the caller subscribes, from anywhere at first and from what follows
\* the last tick it was handed after that.
Subscribe(c, from) ==
  /\ client[c].state = "idle" /\ client[c].calls < MaxCalls
  /\ heard[c].handed # None => from = heard[c].handed + 1
  /\ client' = [client EXCEPT ![c] = [NotCalled EXCEPT !.state = "connecting", !.from = from,
                                                        !.calls = client[c].calls + 1]]
  /\ heard' = [heard EXCEPT ![c].expects = None]
  /\ UNCHANGED <<record, feed, inForce, conn, drops, seams, beats>>

\* A frame was read: a socket that has emptied releases its charge if it had said
\* stop ('drain') or was ended ('finish').
Consumed(c) ==
  LET rest == Tail(c.frames)
  IN IF rest # <<>> THEN [c EXCEPT !.frames = rest]
     ELSE [c EXCEPT !.frames = rest, !.stop = FALSE,
                    !.charge = IF c.stop \/ c.state = "ended" THEN 0 ELSE @]

\* What a gap tells: the sequences from the one asked for to where the stream resumes.
HoleOf(frame) == frame.requested..(IF frame.resumes = None THEN MaxSequence ELSE frame.resumes - 1)

\* Mutant: a gap does not move what the next tick is expected to be.
ReadGapIgnored(c, frame) ==
  /\ client' = [client EXCEPT ![c].anywhere = @ \/ frame.resumes = None]
  /\ heard' = [heard EXCEPT ![c].hole = @ \cup HoleOf(frame), ![c].expects = frame.resumes]
ReadGap(c, frame) ==
  LET d == client[c].delivered
      moves == frame.resumes # None /\ (d = None \/ frame.resumes - 1 > d)
  IN /\ client' = [client EXCEPT ![c].anywhere = @ \/ frame.resumes = None,
                                 ![c].delivered = IF moves THEN frame.resumes - 1 ELSE d]
     /\ heard' = [heard EXCEPT ![c].hole = @ \cup HoleOf(frame), ![c].expects = frame.resumes]

ReadTick(c, n) ==
  LET d == client[c].delivered
      repeated == d # None /\ n <= d
      untold == ~repeated /\ d # None /\ ~client[c].anywhere /\ n # d + 1
  IN IF repeated THEN UNCHANGED <<client, heard>>
     ELSE IF untold THEN /\ client' = [client EXCEPT ![c].state = "accusing"]
                         /\ UNCHANGED heard
     ELSE /\ client' = [client EXCEPT ![c].delivered = n, ![c].anywhere = FALSE]
          /\ heard' = [heard EXCEPT ![c] = [handed |-> n, hole |-> {}, expects |-> None,
                                            quoted |-> None]]

Read(c) ==
  /\ client[c].state = "reading" /\ conn[c].frames # <<>>
  /\ LET frame == Head(conn[c].frames)
     IN CASE frame.kind = "gap" ->
               ReadGap(c, frame) /\ conn' = [conn EXCEPT ![c] = Consumed(@)]
          [] frame.kind = "tick" ->
               ReadTick(c, frame.sequence) /\ conn' = [conn EXCEPT ![c] = Consumed(@)]
          [] frame.kind = "beat" ->
               /\ heard' = [heard EXCEPT ![c].quoted = frame.sequence]
               /\ conn' = [conn EXCEPT ![c] = Consumed(@)]
               /\ UNCHANGED client
          [] frame.kind = "close" ->
               /\ client' = [client EXCEPT ![c].state = "idle"]
               /\ conn' = [conn EXCEPT ![c] = NoConnection]
               /\ UNCHANGED heard
  /\ UNCHANGED <<record, feed, inForce, drops, seams, beats>>

\* Mutant: the stream is reopened one past the sequence that follows.
LosePastNext(c, clean) ==
  /\ client[c].state = "reading"
  /\ conn[c].state = "lost"
  /\ conn' = [conn EXCEPT ![c] = NoConnection]
  /\ LET d == client[c].delivered
     IN client' = [client EXCEPT
          ![c].state = IF ~clean THEN "failed" ELSE IF client[c].budget = 0 THEN "idle" ELSE "connecting",
          ![c].budget = IF @ = 0 THEN 0 ELSE @ - 1,
          ![c].from = IF d = None THEN @ ELSE d + 2]
  /\ UNCHANGED <<record, feed, inForce, heard, drops, seams, beats>>
\* The connection is gone with no close frame. A body that ends is resumed
\* exactly while the budget lasts; a body that fails makes the read throw, and
\* with it the iterator.
Lose(c, clean) ==
  /\ client[c].state = "reading"
  /\ conn[c].state = "lost"
  /\ conn' = [conn EXCEPT ![c] = NoConnection]
  /\ LET d == client[c].delivered
     IN client' = [client EXCEPT
          ![c].state = IF ~clean THEN "failed" ELSE IF client[c].budget = 0 THEN "idle" ELSE "connecting",
          ![c].budget = IF @ = 0 THEN 0 ELSE @ - 1,
          ![c].from = IF d = None THEN @ ELSE d + 1]
  /\ UNCHANGED <<record, feed, inForce, heard, drops, seams, beats>>

-----------------------------------------------------------------------------

Init ==
  /\ record = [head |-> 0, base |-> 1, next |-> 1]
  /\ feed = [from |-> 1, to |-> 0, resumes |-> None]
  /\ inForce = [tick |-> None, stalled |-> FALSE]
  /\ conn = [c \in Clients |-> NoConnection]
  /\ client = [c \in Clients |-> NotCalled]
  /\ heard = [c \in Clients |-> [handed |-> None, hole |-> {}, expects |-> None, quoted |-> None]]
  /\ drops = 0 /\ seams = 0 /\ beats = 0

Next ==
  \/ \E k \in 0..MaxBatch : Pass(k)
  \/ Reopen
  \/ \E told \in BOOLEAN :
       \E next \in Further \cup (IF record.next = record.head + 1 THEN {record.next} ELSE {}) :
         Restart(told, next)
  \/ \E c \in Clients :
       \/ \E from \in {None} \cup 0..(record.next + 1) : Subscribe(c, from)
       \/ \E others \in {0, ReplayBudget} : Connect(c, others)
       \/ Heartbeat(c) \/ Drop(c) \/ Read(c)
       \/ \E clean \in BOOLEAN : Lose(c, clean)

Spec == Init /\ [][Next]_vars

-----------------------------------------------------------------------------
(* Properties *)

\* What the variables hold.
TypeOK ==
  /\ record.base <= record.head + 1 /\ record.head < record.next
  /\ ~Empty(feed) => /\ feed.to = record.head /\ feed.resumes = None
                     /\ feed.from \in record.base..feed.to /\ feed.to - feed.from < Retain
  /\ \A c \in Clients :
       /\ conn[c].state \in {"none", "live", "ended", "lost"}
       /\ client[c].state \in {"idle", "connecting", "reading", "accusing", "failed"}
       /\ client[c].budget \in 0..MaxReconnects

\* The order of a stream is the record's, across drops, restarts, seams, slow
\* reads and refused replays: a tick handed to a caller follows the one handed
\* before it, whatever lies between was told as missing, and after a gap the
\* next tick is the one `resumesAt` named, so that the hole is bounded exactly.
NothingIsSkippedUntold ==
  [][\A c \in Clients :
       heard'[c].handed # heard[c].handed =>
         /\ heard[c].expects # None => heard'[c].handed = heard[c].expects
         /\ heard[c].handed # None =>
              /\ heard'[c].handed > heard[c].handed
              /\ (heard[c].handed + 1)..(heard'[c].handed - 1) \subseteq heard[c].hole]_vars

\* The client's own check never takes an honest venue for one that skips; and a
\* heartbeat never moves its caller back, and names a later tick than the last
\* one handed only inside a hole the caller was told of (venueClient.ts).
VenueIsNotAccused ==
  \A c \in Clients :
    /\ client[c].state # "accusing"
    /\ heard[c].quoted # None /\ heard[c].handed # None =>
         /\ heard[c].quoted >= heard[c].handed
         /\ (heard[c].handed + 1)..heard[c].quoted \subseteq heard[c].hole

\* venueClient.ts: a heartbeat "never names a tick this subscription has not been
\* handed, so a broker may refresh its quote's age from it without moving its
\* price".
HeartbeatsAreHanded ==
  \A c \in Clients : heard[c].quoted # None /\ heard[c].handed # None =>
    heard[c].quoted = heard[c].handed

\* venueClient.ts: "after a drop the stream is reopened from the last delivered
\* sequence plus one".
DropsAreResumed == \A c \in Clients : client[c].state # "failed"

\* market.controller.ts: "Charge a response's undrained bytes to the process, and
\* release them when the socket catches up or the client goes away."
CaughtUpOwesNothing == \A c \in Clients : conn[c].frames = <<>> => conn[c].charge = 0

=============================================================================
