---------------------------- MODULE HostedMarket ----------------------------
(***************************************************************************)
(* One hosted market and the ways it is opened, as pure operators: the     *)
(* clock-driven publication of packages/runtime/src/hosted.ts over the     *)
(* tick stream of packages/engine/src/engine.ts, and the opening of a      *)
(* market from a checkpoint, past a record or after a stall in resume.ts,  *)
(* genesis.ts and reopen.ts.                                               *)
(*                                                                         *)
(* A stream is fixed by its key epoch and its start, so a tick is its      *)
(* sequence, its instant and the epoch it was drawn on: two ticks are the  *)
(* same in price exactly when they agree on all three.  The engine's state *)
(* is the last tick it drew.  Intervals between ticks are constant, apart  *)
(* from the first of a stream.                                             *)
(***************************************************************************)
EXTENDS Integers, Sequences

CONSTANTS
  Gap,             \* interval between two ticks of a stream
  GenesisGap,      \* interval to the first tick of a market that never ran
  SeamGap,         \* interval to the first tick after a seam
  MaxCatchUp,      \* DEFAULT_MAX_CATCH_UP_MS
  SequenceLease,   \* DEFAULT_SEQUENCE_LEASE
  EpochSpan,       \* START_EPOCH_SPAN
  NoTick,          \* null, where a tick may stand
  NoCheckpoint     \* no checkpoint names the asset

ASSUME HostedMarketAssumption ==
  /\ {Gap, MaxCatchUp, SequenceLease, EpochSpan} \subseteq Nat \ {0}
  /\ {GenesisGap, SeamGap} \subseteq Nat

Never == -1         \* lastAdvancedAt is null

Larger(a, b) == IF a >= b THEN a ELSE b

-----------------------------------------------------------------------------
(* The stream *)

\* The engine k ticks after `tick`: next(), k times.
Later(tick, k) == [sequence |-> tick.sequence + k,
                   value |-> [instant |-> tick.value.instant + k * Gap,
                              epoch |-> tick.value.epoch]]

\* The engine before its first tick, which comes firstGap after the start.
EngineAt(sequence, instant, epoch, firstGap) ==
  [sequence |-> sequence, value |-> [instant |-> instant + firstGap - Gap, epoch |-> epoch]]

\* startKeyEpoch: the instant's own epoch, or one past the previous.
StartKeyEpoch(instant) == instant * EpochSpan
StartKeyEpochAfter(instant, previous) == Larger(previous + 1, instant * EpochSpan)

-----------------------------------------------------------------------------
(* HostedMarket: floor is #floorInstant, advancedAt #lastAdvancedAt, drawn   *)
(* the engine's last tick, pending whether it is still unpublished, last     *)
(* what was last published.                                                  *)

Hosted(engine, floor, pending, last) ==
  [drawn |-> engine, floor |-> floor, pending |-> pending, last |-> last,
   advancedAt |-> Never]

KeyEpoch(m) == m.drawn.value.epoch

NextUnpublished(m) == IF m.pending THEN m.drawn ELSE Later(m.drawn, 1)

\* How many ticks are due by t, the next unpublished first.
DueCount(m, t) ==
  LET first == NextUnpublished(m).value.instant IN
  IF first > t THEN 0 ELSE (t - first) \div Gap + 1

\* advanceTo refuses to generate an interval nobody observed.
Behind(m, t) == t - Larger(m.advancedAt, m.floor)
CatchUpTooLarge(m, t) == Behind(m, t) > MaxCatchUp
ClockWentBackwards(m, t) == t < m.advancedAt

\* advanceTo: the ticks it publishes, and the market after it.
Published(m, t) == [k \in 1..DueCount(m, t) |-> Later(NextUnpublished(m), k - 1)]
Advanced(m, t) ==
  LET n == DueCount(m, t) IN
  [m EXCEPT !.advancedAt = t,
            !.drawn = Later(NextUnpublished(m), n),
            !.pending = TRUE,
            !.last = IF n = 0 THEN m.last ELSE Later(NextUnpublished(m), n - 1)]

\* prime: draw the next tick without publishing it.
Primed(m) == [m EXCEPT !.drawn = NextUnpublished(m), !.pending = TRUE]

\* observedUntil: forward only.
ObservedUntil(m, t) == [m EXCEPT !.advancedAt = Larger(m.advancedAt, t)]

-----------------------------------------------------------------------------
(* Opening and checkpointing a market *)

\* checkpointMarket
CheckpointMarket(m, t) ==
  [savedAt |-> t,
   drawn |-> m.drawn,
   pending |-> m.pending,
   last |-> m.last,
   leased |-> Larger(IF m.last = NoTick THEN 0 ELSE m.last.sequence,
                     IF m.pending THEN m.drawn.sequence ELSE 0) + SequenceLease]

FreshMarket(genesis) ==
  Hosted(EngineAt(0, genesis, StartKeyEpoch(genesis), GenesisGap), genesis, FALSE, NoTick)

Seamed(sequence, instant, epoch, last) ==
  Hosted(EngineAt(sequence, instant, epoch, SeamGap), instant, FALSE, last)

\* seamPastRecord: no checkpoint, but the record holds ticks.
SeamPastRecord(published, t, genesis) ==
  LET instant == Larger(Larger(genesis, t), published.value.instant) IN
  Seamed(published.sequence + SequenceLease, instant, StartKeyEpoch(instant), published)

\* Mutant: past what the checkpoint saw published, and nothing else.
SeamFromCheckpoint(checkpoint, published, t, genesis) ==
  LET last    == checkpoint.last
      instant == Larger(IF last = NoTick THEN genesis ELSE last.value.instant, t)
  IN Seamed(IF last = NoTick THEN 0 ELSE last.sequence, instant,
            StartKeyEpochAfter(instant, checkpoint.drawn.value.epoch), last)

\* seamFrom: past everything the checkpoint and the record are known to have
\* reached; a checkpoint that never published restarts the numbering.
SeamFrom(checkpoint, published, t, genesis) ==
  LET last    == checkpoint.last
      instant == Larger(IF last = NoTick THEN genesis ELSE last.value.instant, t)
      epoch   == StartKeyEpochAfter(instant, checkpoint.drawn.value.epoch)
      known   == Larger(checkpoint.leased,
                   Larger(last.sequence, IF published = NoTick THEN 0 ELSE published.sequence)
                     + SequenceLease)
  IN Seamed(IF last = NoTick THEN 0 ELSE known, instant, epoch, last)

\* assertUsableRecord: a pending tick follows the last published one.
UsableRecord(checkpoint) ==
  checkpoint.pending =>
    IF checkpoint.last = NoTick
    THEN checkpoint.drawn.sequence <= 1
    ELSE checkpoint.drawn.sequence = checkpoint.last.sequence + 1

Stale(checkpoint, t) == t - checkpoint.savedAt > MaxCatchUp

\* Mutant: a resumption starts a new key epoch.
ResumedRekeyed(checkpoint) ==
  LET engine == [checkpoint.drawn EXCEPT
                   !.value.epoch = StartKeyEpochAfter(checkpoint.savedAt, @)]
  IN Hosted(engine, checkpoint.drawn.value.instant, checkpoint.pending, checkpoint.last)

Resumed(checkpoint) ==
  Hosted(checkpoint.drawn, checkpoint.drawn.value.instant, checkpoint.pending, checkpoint.last)

\* resumeMarket: which way the market opens, `genesis` being when it would
\* begin if nothing is known of it.
Opening(checkpoint, published, t, genesis) ==
  IF checkpoint = NoCheckpoint
  THEN IF published = NoTick
       THEN [kind |-> "fresh", market |-> FreshMarket(genesis)]
       ELSE [kind |-> "seam", market |-> SeamPastRecord(published, t, genesis)]
  ELSE IF ~UsableRecord(checkpoint) \/ Stale(checkpoint, t)
       THEN [kind |-> "seam", market |-> SeamFrom(checkpoint, published, t, genesis)]
       ELSE [kind |-> "resumed", market |-> Resumed(checkpoint)]

\* The sequence an opening says the market resumes at.
ResumesAt(m) == m.drawn.sequence + 1

\* Mutant: the numbering goes on as if nothing had been skipped.
ReopenedWithoutLease(m, t) ==
  LET instant == Larger(m.last.value.instant, t) IN
  Seamed(m.last.sequence, instant, StartKeyEpochAfter(instant, KeyEpoch(m)), m.last)

\* reopenStalledMarket: the same seam, in place.
Reopened(m, t) ==
  LET instant == Larger(m.last.value.instant, t) IN
  Seamed(m.last.sequence + SequenceLease, instant,
         StartKeyEpochAfter(instant, KeyEpoch(m)), m.last)

=============================================================================
