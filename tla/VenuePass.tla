----------------------------- MODULE VenuePass ------------------------------
(***************************************************************************)
(* One asset in the venue as it is deployed: a single process that boots   *)
(* from a checkpoint and a tick record, publishes in passes, reopens its   *)
(* market when it falls past its catch-up bound, and is killed and         *)
(* restarted.  VenueService of apps/api/src/venue.service.ts over the      *)
(* markets of HostedMarket.tla, the tick record of                         *)
(* packages/runtime/src/tickRecord.ts and the feed of                      *)
(* packages/distribution/src/feed.ts, with one client of that feed.        *)
(*                                                                         *)
(* A pass awaits the record and the checkpoint store.  Time passes in each *)
(* of its stretches, and the process may be killed in any of them: what is *)
(* in memory is lost, the record and the checkpoint stay.                  *)
(***************************************************************************)
EXTENDS HostedMarket, SequencesExt, FiniteSets

CONSTANTS
  NoSeam,           \* the feed has no seam declared
  CheckpointEvery,  \* checkpointEveryMs
  MinReopen,        \* MIN_REOPEN_INTERVAL_MS
  RetainTicks,      \* DEFAULT_RETAIN_TICKS of the feed
  Calms,            \* what a host keeps up with, for each kind of host: see Tick
  Promised,         \* what it must keep up with for the promises that need it
  MaxTime,          \* bound: the clock
  MaxStarvedTime,   \* bound: the clock on a host that keeps up with nothing
  MaxBoots          \* bound: starts of the process

ASSUME VenueAssumption ==
  /\ {CheckpointEvery, MinReopen, RetainTicks} \subseteq Nat \ {0}
  /\ Calms \cup {Promised} \subseteq SUBSET {"passes", "stops", "seams", "genesis"}
  /\ {MaxTime, MaxStarvedTime, MaxBoots} \subseteq Nat

AnyTick == [sequence : Nat, value : [instant : Nat, epoch : Nat]]
AnyCheckpoint == [savedAt : Nat, drawn : AnyTick, pending : BOOLEAN, last : AnyTick \cup {NoTick},
                  leased : Nat]

AnySeam == [publishedThrough : Nat, resumesAt : Nat]

ASSUME NullAssumption ==
  NoTick \notin AnyTick /\ NoCheckpoint \notin AnyCheckpoint /\ NoSeam \notin AnySeam

VARIABLES
  now,
  calm,      \* the host: what it keeps up with, the same throughout
  saved,     \* the state store: the asset's checkpoint, or NoCheckpoint
  record,    \* the tick record: its ticks in order; a jump in sequence is a seam row
  pc,        \* where the process is
  boots,     \* how often it has started
  venue,     \* the VenueService's own state for the asset
  pass,      \* the pass in progress
  feed,      \* TickFeed: the retained ticks and the declared seam
  client,    \* one client of the feed
  quoted     \* history: the price last put in force, by any process so far

vars == <<now, calm, saved, record, pc, boots, venue, pass, feed, client, quoted>>

-----------------------------------------------------------------------------
(* The tick record *)

Newest(ticks) == IF ticks = <<>> THEN NoTick ELSE Last(ticks)
HeadOf(ticks) == IF ticks = <<>> THEN 0 ELSE Last(ticks).sequence

\* append: a tick at or below the head must be the one recorded there, and the
\* others are what is new; any jump above the head is accepted.
Fresh(batch) ==
  LET known == CHOOSE n \in 0..Len(batch) :
                 \A k \in DOMAIN batch : k <= n <=> batch[k].sequence <= HeadOf(record)
  IN SubSeq(batch, known + 1, Len(batch))
Accepts(batch) == \A k \in DOMAIN batch :
                    batch[k].sequence > HeadOf(record) \/ batch[k] \in Range(record)

\* tail: the newest run without a jump, no longer than asked.
ContiguousTail(ticks, limit) ==
  LET from == CHOOSE i \in 1..Len(ticks) :
                /\ i > Len(ticks) - limit
                /\ \A k \in i..(Len(ticks) - 1) : ticks[k + 1].sequence = ticks[k].sequence + 1
                /\ i > 1 /\ i > Len(ticks) - limit + 1 =>
                     ticks[i].sequence # ticks[i - 1].sequence + 1
  IN IF ticks = <<>> THEN <<>> ELSE SubSeq(ticks, from, Len(ticks))

-----------------------------------------------------------------------------
(* The feed *)

EmptyFeed == [history |-> <<>>, seam |-> NoSeam]

\* seam: refused unless it resumes past what was published.
Declarable(publishedThrough, resumesAt) == publishedThrough < resumesAt
Declared(publishedThrough, resumesAt) ==
  [history |-> <<>>, seam |-> [publishedThrough |-> publishedThrough, resumesAt |-> resumesAt]]

\* publish: a batch that does not follow the window is refused; one that does
\* ends the declared seam and pushes the oldest ticks out.
Offerable(f, ticks) ==
  LET all == f.history \o ticks IN
  \A k \in (Len(f.history) + 1)..Len(all) : k > 1 => all[k].sequence = all[k - 1].sequence + 1
Offered(f, ticks) ==
  LET all == f.history \o ticks
      evicted == IF Len(all) > RetainTicks THEN Len(all) - RetainTicks ELSE 0
  IN [history |-> SubSeq(all, evicted + 1, Len(all)), seam |-> NoSeam]

\* Mutant: an empty window answers as one that never held anything.
AnswerByWindow(f, from) ==
  IF f.history = <<>> THEN IF from = 1 THEN "served" ELSE "unknown"
  ELSE IF from < f.history[1].sequence THEN "evicted"
       ELSE IF from > HeadOf(f.history) + 1 THEN "unknown" ELSE "served"

\* since: where a request from a sequence lands.
Answer(f, from) ==
  IF f.history = <<>>
  THEN IF f.seam = NoSeam
       THEN IF from = 1 THEN "served" ELSE "unknown"
       ELSE IF from < f.seam.resumesAt THEN "evicted"
            ELSE IF from > f.seam.resumesAt THEN "unknown" ELSE "served"
  ELSE IF from < f.history[1].sequence THEN "evicted"
       ELSE IF from > HeadOf(f.history) + 1 THEN "unknown" ELSE "served"

\* What EvictedError names: the oldest sequence that may be asked for.
OldestOffered(f) == IF f.history = <<>> THEN f.seam.resumesAt ELSE f.history[1].sequence

-----------------------------------------------------------------------------
(* The client: `next` is the sequence it will ask for, 0 for none in        *)
(* particular.                                                              *)

\* A push to whoever is subscribed.
Pushed(c, ticks) == IF c.live /\ ticks # <<>> THEN [c EXCEPT !.next = Last(ticks).sequence + 1] ELSE c

Dropped(c) == [c EXCEPT !.live = FALSE]

-----------------------------------------------------------------------------
(* Boot *)

NoPrice == [tick |-> NoTick, asOf |-> Never]
NoPass  == [advancedTo |-> Never, batch |-> <<>>, failed |-> FALSE, plan |-> NoCheckpoint,
            planAt |-> Never, stopping |-> FALSE]
NoVenue == [market |-> NoTick, hosted |-> FALSE, seamed |-> FALSE, stalled |-> FALSE,
            awaiting |-> FALSE, reopenedAt |-> Never, checkpointAt |-> Never,
            latest |-> NoTick, inForce |-> NoPrice]

\* start, through #primeFromRecord: resume, draw the first tick, and give the
\* feed the record's window, or the bounds of the seam.  A seam the feed
\* refuses fails the boot.
Boot ==
  /\ pc = "down"
  /\ boots < MaxBoots
  /\ boots' = boots + 1
  /\ LET opening == Opening(saved, Newest(record), now, now)
         seamed  == opening.kind = "seam"
         tail    == ContiguousTail(record, RetainTicks)
     IN IF seamed /\ ~Declarable(HeadOf(record), ResumesAt(opening.market))
        THEN UNCHANGED <<pc, venue, feed>>
        ELSE /\ pc' = "booting"
             /\ venue' = [NoVenue EXCEPT !.market = Primed(opening.market), !.hosted = TRUE,
                                         !.seamed = seamed, !.latest = Newest(record)]
             /\ feed' = IF seamed THEN Declared(HeadOf(record), ResumesAt(opening.market))
                        ELSE [EmptyFeed EXCEPT !.history = tail]
  /\ UNCHANGED <<calm, now, saved, record, pass, client, quoted>>

\* #rearmBootSeams and the end of start: a seamed market is resumed again at
\* the clock, unless the second resume disagrees with the first.
Ready ==
  /\ pc = "booting"
  /\ LET again  == Opening(saved, Newest(record), now, now)
         agrees == again.kind = "seam" /\ ResumesAt(again.market) = feed.seam.resumesAt
     IN venue' = [venue EXCEPT !.market = IF venue.seamed /\ agrees THEN Primed(again.market) ELSE @,
                               !.awaiting = venue.seamed,
                               !.checkpointAt = now]
  /\ pc' = "idle"
  /\ UNCHANGED <<calm, now, saved, record, boots, pass, feed, client, quoted>>

-----------------------------------------------------------------------------
(* A pass *)

\* #reopen: a market still awaiting its first tick, where the feed already
\* says it will be, is re-armed in silence; another one takes a whole seam, not
\* more often than MIN_REOPEN_INTERVAL_MS; one that never published stays
\* stalled.
Rearms(v) == /\ v.awaiting
             /\ feed.seam # NoSeam
             /\ v.market.last # NoTick
             /\ feed.seam.publishedThrough = v.market.last.sequence
TooSoon(v) == v.reopenedAt # Never /\ now - v.reopenedAt < MinReopen

Reopen(v) ==
  IF (~Rearms(v) /\ TooSoon(v)) \/ v.market.last = NoTick
  THEN /\ venue' = [v EXCEPT !.stalled = TRUE]
       /\ UNCHANGED <<feed, client>>
  ELSE LET market  == Primed(Reopened(v.market, now))
           resumes == ResumesAt(Reopened(v.market, now))
           carried == v.market.last.sequence
       IN IF Rearms(v)
          THEN /\ venue' = [v EXCEPT !.market = market, !.stalled = TRUE]
               /\ feed' = IF feed.seam.resumesAt = resumes THEN feed ELSE
                            [feed EXCEPT !.seam = [publishedThrough |-> carried, resumesAt |-> resumes]]
               /\ UNCHANGED client
          ELSE /\ venue' = [v EXCEPT !.market = market, !.stalled = TRUE,
                                     !.reopenedAt = now, !.awaiting = TRUE]
               /\ feed' = Declared(carried, resumes)
               /\ client' = Dropped(client)

\* advanceDetailed, and what is done about a market past its bound.
Advance ==
  /\ pc = "idle"
  /\ pc' = "record"
  /\ LET failed == venue.hosted /\ CatchUpTooLarge(venue.market, now) IN
       /\ pass' = [NoPass EXCEPT !.advancedTo = now, !.failed = failed,
                     !.batch = IF venue.hosted /\ ~failed THEN Published(venue.market, now) ELSE <<>>]
       /\ IF failed
          THEN Reopen(venue)
          ELSE /\ venue' = IF venue.hosted THEN [venue EXCEPT !.market = Advanced(@, now)] ELSE venue
               /\ UNCHANGED <<feed, client>>
  /\ UNCHANGED <<calm, now, saved, record, boots, quoted>>

\* The plan of a checkpoint at the present clock; a stalled market has no part
\* in it.
Planned(v) == IF v.hosted /\ ~v.stalled THEN CheckpointMarket(v.market, now) ELSE NoCheckpoint

\* The price in force: the newest tick, at the instant the market was advanced to.
Quotable(v) == v.hosted /\ ~pass.failed /\ ~v.stalled /\ v.latest # NoTick

\* Mutant: at the instant it is offered.
QuotedNow(v) ==
  IF Quotable(v) THEN [v EXCEPT !.inForce = [tick |-> v.latest, asOf |-> now]] ELSE v
Quoted(v) ==
  IF Quotable(v) THEN [v EXCEPT !.inForce = [tick |-> v.latest, asOf |-> pass.advancedTo]] ELSE v

\* What follows the publication: the price in force, and a checkpoint when the
\* cadence asks for one.
Offer(v) ==
  LET due == now - v.checkpointAt >= CheckpointEvery
  IN /\ venue' = Quoted(v)
     /\ quoted' = IF Quotable(v) THEN Quoted(v).inForce ELSE quoted
     /\ pc' = IF due THEN "save" ELSE "finish"
     /\ pass' = [pass EXCEPT !.batch = <<>>,
                             !.plan = IF due THEN Planned(v) ELSE NoCheckpoint,
                             !.planAt = IF due THEN now ELSE Never]

\* recordPass, then the publication of what the record found new.  Ticks the
\* record refuses are not published and the market is unhosted.
Publish ==
  /\ pc = "record"
  /\ pass.batch # <<>>
  /\ Accepts(pass.batch)
  /\ LET fresh == Fresh(pass.batch)
         v     == [venue EXCEPT !.stalled = FALSE, !.awaiting = FALSE, !.latest = Last(pass.batch)]
     IN /\ record' = record \o fresh
        /\ IF fresh # <<>> /\ ~Offerable(feed, fresh)
           THEN /\ Offer([v EXCEPT !.stalled = TRUE, !.hosted = FALSE])   \* #publishRefused
                /\ UNCHANGED <<feed, client>>
           ELSE /\ Offer(v)
                /\ feed' = IF fresh = <<>> THEN feed ELSE Offered(feed, fresh)
                /\ client' = Pushed(client, fresh)
  /\ UNCHANGED <<calm, now, saved, boots>>

RecordRefuses ==
  /\ pc = "record"
  /\ pass.batch # <<>>
  /\ ~Accepts(pass.batch)
  /\ Offer([venue EXCEPT !.stalled = TRUE, !.hosted = FALSE])
  /\ UNCHANGED <<calm, now, saved, record, boots, feed, client>>

NothingDue ==
  /\ pc = "record"
  /\ pass.batch = <<>>
  /\ Offer(venue)
  /\ UNCHANGED <<calm, now, saved, record, boots, feed, client>>

\* The process is gone, and all it had in memory.
Exit == /\ pc' = "down"
        /\ venue' = NoVenue
        /\ pass' = NoPass
        /\ feed' = EmptyFeed
        /\ client' = Dropped(client)

\* #writeCheckpoint, and the end of the pass or of the process.
Save ==
  /\ pc = "save"
  /\ saved' = IF pass.plan = NoCheckpoint THEN saved ELSE pass.plan
  /\ IF pass.stopping
     THEN Exit
     ELSE /\ pc' = "finish"
          /\ venue' = [venue EXCEPT !.checkpointAt = pass.planAt]
          /\ UNCHANGED <<pass, feed, client>>
  /\ UNCHANGED <<calm, now, record, boots, quoted>>

\* The end of #pass: the process watched the market until now, as far as the
\* bound lets it say so.
Finish ==
  /\ pc = "finish"
  /\ LET watched == IF now <= pass.advancedTo + MaxCatchUp THEN now ELSE pass.advancedTo + MaxCatchUp
     IN venue' = IF venue.hosted /\ ~pass.failed /\ ~venue.stalled
                 THEN [venue EXCEPT !.market = ObservedUntil(@, watched)] ELSE venue
  /\ pc' = "idle"
  /\ pass' = NoPass
  /\ UNCHANGED <<calm, now, saved, record, boots, feed, client, quoted>>

\* stop: between two passes, a last checkpoint.
Stop ==
  /\ pc = "idle"
  /\ "stops" \in calm => NextUnpublished(venue.market).value.instant > now
  /\ pc' = "save"
  /\ pass' = [NoPass EXCEPT !.plan = Planned(venue), !.planAt = now, !.stopping = TRUE]
  /\ UNCHANGED <<calm, now, saved, record, boots, venue, feed, client, quoted>>

-----------------------------------------------------------------------------
(* The client and the world *)

\* subscribe: a request the window no longer or not yet covers is refused with
\* where to start over; a request for what it cannot know is called unknown.
Subscribe ==
  /\ pc \notin {"down", "booting"}
  /\ ~client.live
  /\ ~client.accused
  /\ LET answer == IF client.next = 0 THEN "served" ELSE Answer(feed, client.next) IN
      client' = CASE answer = "evicted" -> [client EXCEPT !.next = OldestOffered(feed)]
                    [] answer = "unknown" -> [client EXCEPT !.accused = TRUE]
                    [] OTHER -> [client EXCEPT !.live = TRUE,
                                   !.next = IF feed.history # <<>> THEN HeadOf(feed.history) + 1
                                            ELSE IF feed.seam # NoSeam THEN feed.seam.resumesAt ELSE 1]
  /\ UNCHANGED <<calm, now, saved, record, pc, boots, venue, pass, feed, quoted>>

Disconnect ==
  /\ client.live
  /\ client' = Dropped(client)
  /\ UNCHANGED <<calm, now, saved, record, pc, boots, venue, pass, feed, quoted>>

\* kill -9, at any point.
Crash ==
  /\ pc # "down"
  /\ Exit
  /\ UNCHANGED <<calm, now, saved, record, boots, quoted>>

\* Time passes: in any stretch, unless this host keeps up there.
\* "passes": an advance is published, and its checkpoint planned, at once;
\* "stops": a process is not stopped with a tick overdue; "seams": no market falls
\* past its bound while it waits for its first tick after a seam; "genesis": no
\* checkpoint, written or being written, goes stale before its market's first tick.
Tick ==
  /\ now < IF calm = {} THEN MaxStarvedTime ELSE MaxTime
  /\ "passes" \in calm => pc # "record"
  /\ "seams" \in calm /\ venue.awaiting => ~CatchUpTooLarge(venue.market, now + 1)
  /\ "genesis" \in calm =>
       \A cp \in {saved, pass.plan} \ {NoCheckpoint} : cp.last # NoTick \/ ~Stale(cp, now + 1)
  /\ now' = now + 1
  /\ UNCHANGED <<calm, saved, record, pc, boots, venue, pass, feed, client, quoted>>

Init ==
  /\ now = 0
  /\ calm \in Calms
  /\ saved = NoCheckpoint
  /\ record = <<>>
  /\ pc = "down"
  /\ boots = 0
  /\ venue = NoVenue
  /\ pass = NoPass
  /\ feed = EmptyFeed
  /\ client = [next |-> 0, live |-> FALSE, accused |-> FALSE]
  /\ quoted = NoPrice

Next ==
  \/ Boot \/ Ready
  \/ Advance \/ Publish \/ RecordRefuses \/ NothingDue \/ Save \/ Finish \/ Stop
  \/ Subscribe \/ Disconnect \/ Crash \/ Tick

Spec == Init /\ [][Next]_vars

-----------------------------------------------------------------------------
(* Properties *)

\* Whether the host keeps up with what the promises below ask of it.
HostKeepsUp == Promised \subseteq calm

MaxSequence == (MaxBoots + MaxTime + 1) * (SequenceLease + MaxTime + 1)
Sequences   == 0..MaxSequence
TickStates  == [sequence : Sequences,
                value : [instant : -Gap..(MaxTime + Gap + SeamGap + GenesisGap),
                         epoch : 0..(EpochSpan * (MaxTime + 1) + MaxTime)]]

\* Every variable has its type.
TypeOK ==
  /\ now \in 0..MaxTime /\ calm \in Calms
  /\ saved = NoCheckpoint \/ saved.drawn \in TickStates
  /\ Range(record) \subseteq TickStates
  /\ pc \in {"down", "booting", "idle", "record", "save", "finish"}
  /\ boots \in 0..MaxBoots
  /\ venue.hosted => venue.market.drawn \in TickStates
  /\ venue.latest \in TickStates \cup {NoTick}
  /\ Range(pass.batch) \subseteq TickStates
  /\ Len(feed.history) <= RetainTicks
  /\ client \in [next : Sequences, live : BOOLEAN, accused : BOOLEAN]

\* On a host that keeps up, the venue never refuses its own market: no sequence of kills, restarts,
\* stalls and reopenings leads the record or the feed to refuse a tick, which
\* would unhost the market until the next restart, or a boot to fail.
MarketStaysHosted == HostKeepsUp =>
  /\ pc \notin {"down", "booting"} => venue.hosted
  /\ pc = "down" =>
       LET opening == Opening(saved, Newest(record), now, now) IN
       opening.kind = "seam" => Declarable(HeadOf(record), ResumesAt(opening.market))

\* A checkpoint fresh enough to resume from is one the record continues: the
\* ticks recorded after it are those the resumed market generates again.
\* ("a checkpoint is a claim that this market was here at this instant",
\* venue.service.ts #planCheckpoint.)
ResumptionReplaysTheRecord ==
  HostKeepsUp /\ pc = "down" /\ saved # NoCheckpoint /\ saved.last # NoTick
    /\ Opening(saved, Newest(record), now, now).kind = "resumed" =>
    /\ saved.last \in Range(record)
    /\ \A k \in DOMAIN record : record[k].sequence > saved.last.sequence =>
         record[k] = Later(saved.last, record[k].sequence - saved.last.sequence)

\* What the record shows as one run is one run of one stream, and where streams
\* change the numbers jump, so that the break is a seam; time and key epochs
\* only move forward.
BreaksAreSeams ==
  \A k \in 1..(Len(record) - 1) :
    /\ record[k].sequence < record[k + 1].sequence
    /\ record[k].value.instant <= record[k + 1].value.instant
    /\ record[k].value.epoch <= record[k + 1].value.epoch
    /\ record[k + 1].sequence = record[k].sequence + 1 => record[k + 1] = Later(record[k], 1)

\* The tick of a price is the last of these at or before its instant.
InForce(price, ticks) ==
  \E k \in DOMAIN ticks :
    /\ ticks[k] = price.tick
    /\ \A j \in DOMAIN ticks : j <= k <=> ticks[j].value.instant <= price.asOf

\* A price stands for ever at the instant it was put in force for: whatever is
\* recorded afterwards, by the same process or by one that resumed, replayed or
\* seamed the market after it was killed, the tick quoted remains the record's
\* last at or before that instant, so that a contract struck at it is settled
\* against the same ticks.
QuotesStand ==
  [][quoted # NoPrice => InForce(quoted, record')]_vars

\* A client that holds nothing but what it was served, and asks for nothing but
\* what comes next, is never told that its record is not this venue's.
ClientsAreNotAccused == HostKeepsUp => ~client.accused

=============================================================================
