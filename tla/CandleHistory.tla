--------------------------- MODULE CandleHistory ---------------------------
(***************************************************************************)
(* The candle history of one market: the recorder that folds ticks into    *)
(* minute bars and the hours rolled up from what is stored                 *)
(* (packages/runtime/src/history.ts), the store (sqliteHistory.ts), the    *)
(* service that primes and flushes it (apps/api/src/history.service.ts),   *)
(* the past a new market is given (backfill.ts), and the bars a chart is   *)
(* served.                                                                 *)
(*                                                                         *)
(* Time is counted in minutes, and a tick has the minute it falls in: what *)
(* orders two ticks of one minute is their sequence.  A bar is the set of  *)
(* sequences folded into it, of which its prices are a function.           *)
(***************************************************************************)
EXTENDS Naturals, Sequences, SequencesExt, FiniteSets, FiniteSetsExt

CONSTANTS
  None, Unknown,
  Deployments,   \* which of [record, backfill : BOOLEAN] there are
  HourMinutes,   \* minutes of a bar of the rollup tier
  Timeframes,    \* the bars a chart may ask for, in minutes
  SequenceLease, \* what a seam leaves out
  KilledIn,      \* what the process may be doing when it is killed
  MaxMinute, MaxTicks, MaxFaults   \* bounds

VARIABLES
  deployment, \* whether it keeps a tick record, and backfills new markets
  process,    \* "down", "backfill", "catchup", "joining", "up", "stalled", or "refused"
  step,       \* "run", or which half of a flush it is in: "flush", "rollup"
  published,  \* every tick of the market, oldest first
  served,     \* how many of them were offered to anyone
  recordFrom, \* how many came before the tick record
  lease,      \* what the next tick leaves out: a seam was taken
  checkpoint, \* how many the checkpoint covers, or None
  minutes, hours, \* the two stored series
  recorder,   \* the process's HistoryRecorder, or None
  kills, failures \* of which there are MaxFaults

market == <<published, served, recordFrom, lease>>
stored == <<minutes, hours>>
vars == <<deployment, process, step, market, checkpoint, stored, recorder, kills, failures>>

Tick == [sequence : Nat, minute : 0..MaxMinute]

First(bar) == Min(bar.ticks)
Newest(bar) == Max(bar.ticks)
BucketStart(minute, duration) == minute - (minute % duration)
Touches(earlier, later) == First(later) = Newest(earlier) + 1

-----------------------------------------------------------------------------
(* HistoryRecorder                                                         *)

Started(continuesAfter) ==
  [continuesAfter |-> continuesAfter, \* the newest sequence stored, None, or Unknown
   first |-> None,                    \* the first tick seen
   fate |-> "undecided",              \* of the bucket it fell in
   firstClosed |-> None,              \* that bucket, closed before its fate was known
   open |-> None,                     \* the CandleAggregator's
   closed |-> <<>>]

\* #closeFirst: ahead of whatever else closed, kept until it can be told, or
\* left out for good.
CloseFirst(r, bar) ==
  CASE r.fate = "undecided" -> [r EXCEPT !.firstClosed = bar]
    [] r.fate = "whole"     -> [r EXCEPT !.closed = <<bar>> \o @]
    [] OTHER                -> r

\* Mutant: the first bucket counts as seen from its start wherever it was joined.
FateAlwaysWhole(continuesAfter, first) == "whole"
\* The first bucket is whole if nothing precedes its first tick that is not stored.
Fate(continuesAfter, first) ==
  LET head == IF continuesAfter = None THEN 0 ELSE continuesAfter
  IN IF first.sequence <= head THEN "spliced"
     ELSE IF first.sequence = head + 1 THEN "whole" ELSE "withheld"

\* #decideFirst, once both the first tick and the stored head are known.
Decided(r) ==
  IF r.continuesAfter = Unknown \/ r.first = None \/ r.fate # "undecided" THEN r
  ELSE LET told == [r EXCEPT !.fate = Fate(r.continuesAfter, r.first), !.firstClosed = None]
       IN IF r.firstClosed = None THEN told ELSE CloseFirst(told, r.firstClosed)

ContinueAfter(r, head) == Decided([r EXCEPT !.continuesAfter = head])

\* accept, of one tick: it joins the open bucket, or closes that and opens another.
AcceptTick(r, tick) ==
  LET seen == IF r.first = None THEN Decided([r EXCEPT !.first = tick]) ELSE r
      joins == seen.open # None /\ seen.open.open = tick.minute
      next == IF joins THEN [seen.open EXCEPT !.ticks = @ \cup {tick.sequence}]
              ELSE [open |-> tick.minute, ticks |-> {tick.sequence}]
      done == IF joins \/ seen.open = None THEN seen
              ELSE IF seen.open.open = seen.first.minute THEN CloseFirst(seen, seen.open)
              ELSE [seen EXCEPT !.closed = Append(@, seen.open)]
  IN [done EXCEPT !.open = next]
Accept(r, ticks) == FoldLeft(AcceptTick, r, ticks)

-----------------------------------------------------------------------------
(* CandleHistory, and what is folded from it                               *)

\* foldCandles
Fold(bars, duration) ==
  LET buckets == SetToSortSeq({BucketStart(bar.open, duration) : bar \in ToSet(bars)}, <)
  IN [i \in DOMAIN buckets |->
        [open |-> buckets[i],
         ticks |-> UNION {bar.ticks : bar \in {b \in ToSet(bars) :
                                                 BucketStart(b.open, duration) = buckets[i]}}]]

\* append: a batch in order, past the stored head, or nothing of it.
Appendable(series, bars) ==
  LET all == (IF series = <<>> THEN <<>> ELSE <<Last(series)>>) \o bars
  IN \A i \in 2..Len(all) : all[i - 1].open < all[i].open

Within(series, from, to) == SelectSeq(series, LAMBDA bar : from <= bar.open /\ bar.open < to)

LastStoredSequence == IF minutes = <<>> THEN None ELSE Newest(Last(minutes))

\* The buckets on either side of a place where stored bars do not touch.
Holed(bars, duration) ==
  UNION {{BucketStart(bars[i - 1].open, duration), BucketStart(bars[i].open, duration)} :
           i \in {i \in 2..Len(bars) : ~Touches(bars[i - 1], bars[i])}}

BeginsWhole(bar, source) == source.open = bar.open \/ First(source) = 1

\* refreshRollup: the hours the minute tier has moved past, except those that
\* hold a hole, and the one the history begins inside.
NewHours ==
  IF minutes = <<>> THEN <<>>
  ELSE LET from == IF hours = <<>> THEN 0 ELSE Last(hours).open + HourMinutes
           passed == Within(minutes, from, BucketStart(Last(minutes).open, HourMinutes))
           vouched == SelectSeq(passed, LAMBDA bar :
                        BucketStart(bar.open, HourMinutes) \notin Holed(passed, HourMinutes))
           folded == Fold(vouched, HourMinutes)
       IN IF hours = <<>> /\ folded # <<>> /\ ~BeginsWhole(folded[1], vouched[1])
          THEN Tail(folded) ELSE folded

\* readTimeframe, of the bars of `duration` that open in from..(to - 1).
ReadTimeframe(duration, from, to) ==
  LET rolled == duration % HourMinutes = 0
      source == IF rolled THEN hours ELSE minutes
      width  == IF rolled THEN HourMinutes ELSE 1
      read == Within(source, BucketStart(from, duration), BucketStart(to, duration) + duration)
      holes  == IF width = duration THEN {} ELSE Holed(read, duration)
      complete == SelectSeq(Fold(read, duration), LAMBDA bar :
                    /\ bar.open + duration <= Last(source).open + width
                    /\ from <= bar.open /\ bar.open < to
                    /\ bar.open \notin holes)
  IN IF /\ complete # <<>>
        /\ ~BeginsWhole(complete[1], read[1])
        /\ Within(source, complete[1].open - Min({duration, complete[1].open}), complete[1].open) = <<>>
     THEN Tail(complete) ELSE complete

-----------------------------------------------------------------------------
(* The service and the venue around it                                     *)

Init ==
  /\ deployment \in Deployments
  /\ process = "down" /\ step = "run"
  /\ published = <<>> /\ served = 0 /\ recordFrom = 0 /\ lease = 0
  /\ checkpoint = None
  /\ minutes = <<>> /\ hours = <<>>
  /\ recorder = None
  /\ kills = 0 /\ failures = 0

\* observe: a recorder is made for the first tick of a market that has none.
Observed(r, ticks) ==
  IF ticks = <<>> THEN r
  ELSE Accept(IF r = None THEN Started(Unknown) ELSE r, ticks)

Spliced(r) == r # None /\ r.fate = "spliced"

\* Mutant: a restarted recorder joins at the next live tick.
PrimedEmpty(ticks) == Started(LastStoredSequence)
\* prime: the record's ticks past the stored head, before any live one.
Primed(ticks) ==
  Accept(Started(LastStoredSequence),
         SelectSeq(ticks, LAMBDA tick :
           LastStoredSequence # None => tick.sequence > LastStoredSequence))

\* A market with no checkpoint: given a past unless bars are stored already, or
\* opened at its genesis, or past what its record holds.
FirstBoot ==
  /\ process = "down" /\ checkpoint = None
  /\ IF deployment.backfill
     THEN IF minutes = <<>>
          THEN process' = "backfill" /\ published' = <<>> /\ recorder' = Started(None)
          ELSE process' = "refused" /\ UNCHANGED <<published, recorder>>
     ELSE /\ process' = "up"
          /\ published' = IF deployment.record THEN published ELSE <<>>
          /\ recorder' = IF deployment.record THEN Primed(published) ELSE None
  /\ served' = IF deployment.record THEN served ELSE 0
  /\ lease' = IF published' = <<>> \/ deployment.backfill THEN 0 ELSE SequenceLease
  /\ UNCHANGED <<deployment, step, recordFrom, checkpoint, stored, kills, failures>>

\* A backfill, or the catch-up after it, generates a tick nobody is offered.
Generate(minute) ==
  /\ process \in {"backfill", "catchup"} /\ step = "run"
  /\ Len(published) < MaxTicks
  /\ published # <<>> => minute >= Last(published).minute
  /\ LET tick == [sequence |-> Len(published) + 1, minute |-> minute]
     IN /\ published' = Append(published, tick)
        /\ recorder' = Observed(recorder, <<tick>>)
  /\ UNCHANGED <<deployment, process, step, served, recordFrom, lease, checkpoint, stored, kills, failures>>

\* A chunk of the backfill ends.
BackfillFlush ==
  /\ process = "backfill" /\ step = "run"
  /\ recorder.closed # <<>>
  /\ step' = "flush"
  /\ UNCHANGED <<deployment, process, market, checkpoint, stored, recorder, kills, failures>>

\* Its last flush is done: the checkpoint the live market continues from.
Backfilled ==
  /\ process = "backfill" /\ step = "run"
  /\ recorder.closed = <<>>
  /\ checkpoint' = Len(published)
  /\ process' = "catchup"
  /\ UNCHANGED <<deployment, step, market, stored, recorder, kills, failures>>

\* #catchUp: what closed on the way is flushed, and then the market is saved.
CaughtUp ==
  /\ process = "catchup" /\ step = "run"
  /\ process' = "joining" /\ step' = "flush"
  /\ UNCHANGED <<deployment, market, checkpoint, stored, recorder, kills, failures>>

\* The venue resumes what was saved; the recorder goes on.
Join ==
  /\ process = "joining" /\ step = "run"
  /\ process' = "up"
  /\ checkpoint' = Len(published) /\ served' = Len(published) /\ recordFrom' = Len(published)
  /\ UNCHANGED <<deployment, step, published, lease, stored, recorder, kills, failures>>

\* A restart: within the bound the market regenerates what follows its
\* checkpoint, of which the record lets through what it does not hold; past it,
\* or with a seam still to publish, it moves beyond.
Boot(seam) ==
  /\ process = "down" /\ checkpoint # None
  /\ lease # 0 /\ checkpoint < Len(published) => seam
  /\ LET offered == Max({served, checkpoint})
         again == IF seam THEN <<>>
                  ELSE SubSeq(published, (IF deployment.record THEN offered ELSE checkpoint) + 1,
                              Len(published))
         primed == IF deployment.record THEN Primed(SubSeq(published, recordFrom' + 1, served))
                   ELSE None
     IN /\ recordFrom' = IF served = 0 THEN checkpoint ELSE recordFrom
        /\ published' = IF seam THEN SubSeq(published, 1, offered) ELSE published
        /\ served' = Len(published')
        /\ recorder' = Observed(primed, again)
        /\ process' = IF Spliced(recorder') THEN "stalled" ELSE "up"
        /\ lease' = IF seam /\ published' # <<>> THEN SequenceLease ELSE lease
  /\ UNCHANGED <<deployment, step, checkpoint, stored, kills, failures>>

\* A pass publishes a tick, which the record takes and the recorder folds; the
\* market may have been reopened since the one before.
Publish(minute, reopened) ==
  /\ process = "up" /\ step = "run"
  /\ Len(published) < MaxTicks
  /\ published # <<>> => minute >= Last(published).minute
  /\ reopened => published # <<>> /\ lease = 0
  /\ LET newest == IF published = <<>> THEN 0 ELSE Last(published).sequence
         left == IF reopened THEN SequenceLease ELSE lease
         tick == [sequence |-> newest + left + 1, minute |-> minute]
     IN /\ published' = Append(published, tick)
        /\ recorder' = Observed(recorder, <<tick>>)
  /\ served' = Len(published')
  /\ lease' = 0
  /\ UNCHANGED <<deployment, process, step, recordFrom, checkpoint, stored, kills, failures>>

\* #writeCheckpoint: the checkpoint is saved, then the bars are flushed.
Checkpoint ==
  /\ process = "up" /\ step = "run"
  /\ checkpoint' = Len(published)
  /\ step' = IF recorder = None THEN "run" ELSE "flush"
  /\ UNCHANGED <<deployment, process, market, stored, recorder, kills, failures>>

\* What a flush drains, once the recorder knows what is stored.
Told(r) == IF r.continuesAfter = Unknown THEN ContinueAfter(r, LastStoredSequence) ELSE r

\* flush: every closed bar is drained and appended; one the store refuses, or a
\* stream behind what is stored, ends it.
Flush ==
  /\ step = "flush"
  /\ LET told == Told(recorder)
         refused == Spliced(told) /\ ~Spliced(recorder)
         kept == ~refused /\ Appendable(minutes, told.closed)
     IN /\ recorder' = IF refused THEN told ELSE [told EXCEPT !.closed = <<>>]
        /\ minutes' = IF kept THEN minutes \o told.closed ELSE minutes
        /\ step' = IF kept THEN "rollup" ELSE "run"
  /\ UNCHANGED <<deployment, process, market, checkpoint, hours, kills, failures>>

\* An append fails: the runs before it are stored, what was drained is gone.
FlushFails(appended) ==
  /\ process = "up" /\ step = "flush" /\ kills + failures < MaxFaults
  /\ LET told == Told(recorder)
     IN /\ ~Spliced(told) /\ appended < Len(told.closed)
        /\ Appendable(minutes, told.closed)
        /\ recorder' = [told EXCEPT !.closed = <<>>]
        /\ minutes' = minutes \o SubSeq(told.closed, 1, appended)
  /\ step' = "run"
  /\ failures' = failures + 1
  /\ UNCHANGED <<deployment, process, market, checkpoint, hours, kills>>

Rollup ==
  /\ step = "rollup"
  /\ hours' = hours \o NewHours
  /\ step' = "run"
  /\ UNCHANGED <<deployment, process, market, checkpoint, minutes, recorder, kills, failures>>

Kill ==
  /\ process \in KilledIn /\ kills + failures < MaxFaults
  /\ process' = "down" /\ step' = "run" /\ recorder' = None
  /\ kills' = kills + 1
  /\ UNCHANGED <<deployment, market, checkpoint, stored, failures>>

Next ==
  \/ FirstBoot \/ (\E seam \in BOOLEAN : Boot(seam)) \/ Kill
  \/ \E minute \in 0..MaxMinute : Generate(minute) \/ \E reopened \in BOOLEAN : Publish(minute, reopened)
  \/ BackfillFlush \/ Backfilled \/ CaughtUp \/ Join
  \/ Checkpoint \/ Flush \/ Rollup
  \/ \E appended \in 0..MaxTicks : FlushFails(appended)

Spec == Init /\ [][Next]_vars

-----------------------------------------------------------------------------
(* Properties                                                              *)

Bar == [open : 0..MaxMinute, ticks : SUBSET Nat]

\* What the variables hold.
TypeOK ==
  /\ deployment \in [record : BOOLEAN, backfill : BOOLEAN]
  /\ process \in {"down", "backfill", "catchup", "joining", "up", "stalled", "refused"}
  /\ step \in {"run", "flush", "rollup"}
  /\ published \in Seq(Tick) /\ minutes \in Seq(Bar) /\ hours \in Seq(Bar)
  /\ served \in 0..Len(published) /\ recordFrom \in 0..Len(published)
  /\ checkpoint \in 0..Len(published) \cup {None}

Stored == UNION {bar.ticks : bar \in ToSet(minutes)}
\* The ticks of the minutes the store has moved past that no bar holds.
Missing == {tick \in ToSet(published) :
              minutes # <<>> /\ tick.minute <= Last(minutes).open /\ tick.sequence \notin Stored}
OfBucket(open, duration) ==
  {tick.sequence : tick \in {t \in ToSet(published) : BucketStart(t.minute, duration) = open}}
Windows == {w \in (0..MaxMinute) \X (0..MaxMinute + 1) : w[1] < w[2]}
Exact(bar, duration) == bar.ticks = OfBucket(bar.open, duration)
Gapless(bar) ==
  \A tick \in ToSet(published) :
    First(bar) <= tick.sequence /\ tick.sequence <= Newest(bar) => tick.sequence \in bar.ticks

\* The minutes a restarted recorder cannot vouch for: the one a backfill ended
\* in, the one the record then begins in, and one that opens behind a seam.
Unvouched ==
  {published[i].minute : i \in {i \in DOMAIN published :
     recordFrom > 0 /\ i \in {recordFrom, recordFrom + 1}}}
  \cup {published[i].minute : i \in {i \in 2..Len(published) :
           published[i].sequence > published[i - 1].sequence + 1
           /\ published[i].minute > published[i - 1].minute}}

\* "handing them to the recorder first makes its first tick that one, so the
\* minute is seen from its start and stored rather than withheld": with a tick
\* record, whatever kills and seams come between, the series passes over no other
\* minute than those, unless an append failed.
MinutesAreKept ==
  deployment.record /\ failures = 0 =>
    \A tick \in Missing : tick.minute \in Unvouched

\* "A wrong candle is indistinguishable from a real one and a missing one is not":
\* a stored minute is every tick published in it, whatever was killed, replayed
\* or lost around it; no bar of any length passes over a tick between its first
\* and its last; and while the minute series has lost nothing, the hours and
\* the bars folded from minutes are every tick of their buckets.
BarsAreExact ==
  /\ \A bar \in ToSet(minutes) : Exact(bar, 1)
  /\ \A bar \in ToSet(hours) : Gapless(bar) /\ (Missing = {} => Exact(bar, HourMinutes))
  /\ process = "down" =>
       \A duration \in Timeframes, window \in Windows :
         \A bar \in ToSet(ReadTimeframe(duration, window[1], window[2])) :
           /\ Gapless(bar)
           /\ Missing = {} /\ duration % HourMinutes # 0 => Exact(bar, duration)

\* "No partial bar is ever labelled whole."
ServedAreWhole ==
  process = "down" =>
    \A duration \in Timeframes, window \in Windows :
      \A bar \in ToSet(ReadTimeframe(duration, window[1], window[2])) : Exact(bar, duration)

\* "It is not an error for a market to have been provisioned already": no restart
\* finds its own stream behind what it stored.
NothingIsSpliced == process # "stalled"

=============================================================================
