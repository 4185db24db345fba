--------------------------- MODULE VenuePassProofs ---------------------------
(***************************************************************************)
(* What a venue's own record shows, for every pace of its host, every      *)
(* cadence, catch-up bound and lease; and what a host that keeps up is     *)
(* promised of its checkpoints, its market and the feed's clients.         *)
(***************************************************************************)
EXTENDS VenuePass, WellFoundedInduction, TLAPS

\* What the proofs assume of the deployment, each of which a run of VenuePass.tla
\* shows to be needed: a stream's first tick after a seam comes strictly after
\* it, and a lease is longer than what a market may publish, a tick every
\* interval, before a checkpoint is written.
Deployed ==
  /\ SeamGap > 0
  /\ CheckpointEvery + 4 * MaxCatchUp < (SequenceLease - 1) * Gap

-----------------------------------------------------------------------------
(* The types *)

TickType == [sequence : Nat \ {0}, value : [instant : Nat, epoch : Nat]]
MaybeTick == TickType \cup {NoTick}
CheckpointType == [savedAt : Nat, drawn : TickType, pending : {TRUE}, last : MaybeTick, leased : Nat]
MarketType == [drawn : TickType, floor : Nat, pending : {TRUE}, last : MaybeTick, advancedAt : Int]
PriceType == [tick : MaybeTick, asOf : Int]
VenueType == [market : MarketType \cup {NoTick}, hosted : BOOLEAN, seamed : BOOLEAN,
              stalled : BOOLEAN, awaiting : BOOLEAN, reopenedAt : Int, checkpointAt : Int,
              latest : MaybeTick, inForce : PriceType]
PassType == [advancedTo : Int, batch : Seq(TickType), failed : BOOLEAN,
             plan : CheckpointType \cup {NoCheckpoint}, planAt : Int, stopping : BOOLEAN]

TypeInv ==
  /\ now \in Nat
  /\ saved \in CheckpointType \cup {NoCheckpoint}
  /\ record \in Seq(TickType)
  /\ pc \in {"down", "booting", "idle", "record", "save", "finish"}
  /\ venue \in VenueType
  /\ venue.hosted => venue.market \in MarketType /\ pc # "down"
  /\ pass \in PassType
  /\ quoted \in PriceType

-----------------------------------------------------------------------------
(* A tick and a record *)

Recorded(rec, d) == \E k \in 1..Len(rec) : rec[k] = d

\* What the record holds past a tick is what its stream generates after it.
At(d, sequence) == Later(d, sequence - d.sequence)
RunFrom(rec, d) ==
  \A k \in 1..Len(rec) : rec[k].sequence > d.sequence => rec[k] = At(d, rec[k].sequence)

\* A tick the record would take next, a number it has passed by, a tick it
\* holds and continues.
Leads(rec, d) ==
  /\ d.sequence > HeadOf(rec)
  /\ rec # <<>> => /\ Newest(rec).value.instant < d.value.instant
                   /\ d.sequence = HeadOf(rec) + 1 => d = Later(Newest(rec), 1)
Lost(rec, d)    == d.sequence <= HeadOf(rec) /\ ~Recorded(rec, d)
Replays(rec, d) == Recorded(rec, d) /\ RunFrom(rec, d)
Forward(rec, d) == Leads(rec, d) \/ Lost(rec, d) \/ Replays(rec, d)

\* A tick past a seam the record does not show yet.
Jumps(rec, d) == d.sequence > HeadOf(rec) + 1

\* Past what a market may be asked to catch up with.
Late(t, instant) == t > instant + MaxCatchUp

\* The longest a run may go on past the last tick a checkpoint saw.
Slack == Gap + CheckpointEvery + 4 * MaxCatchUp

\* A tick the record continues for less than a lease, or is more than a lease past.
Near(rec, d) ==
  /\ Recorded(rec, d)
  /\ \/ HeadOf(rec) > d.sequence + SequenceLease
     \/ RunFrom(rec, d) /\ Newest(rec).value.instant <= d.value.instant + Slack

\* The next tick of a market and the last it published.
Continues(d, last) == last # NoTick /\ d = Later(last, 1)
Shape(d, last) ==
  IF last = NoTick THEN d.sequence = 1
  ELSE Continues(d, last) \/ d.sequence > last.sequence + SequenceLease

RecordInv(rec, t) ==
  /\ \A k \in 1..Len(rec) : rec[k].value.instant <= t
  /\ \A j, k \in 1..Len(rec) : j < k =>
       rec[j].sequence < rec[k].sequence /\ rec[j].value.instant < rec[k].value.instant
  /\ \A k \in 1..(Len(rec) - 1) :
       rec[k + 1].sequence = rec[k].sequence + 1 => rec[k + 1] = Later(rec[k], 1)

QuoteInv(rec, price, t) ==
  price # NoPrice => price.tick \in TickType /\ price.asOf <= t /\ InForce(price, rec)

\* What is recorded next leaves a price in force.
After(rec, price, d) ==
  price # NoPrice =>
    /\ Leads(rec, d) => price.asOf < d.value.instant
    /\ Replays(rec, d) => price.asOf < Newest(rec).value.instant + Gap

-----------------------------------------------------------------------------
(* The checkpoint *)

Resumable(cp, t) == cp # NoCheckpoint /\ UsableRecord(cp) /\ ~Stale(cp, t)

Resumes(rec, price, d, t) ==
  /\ Forward(rec, d) \/ (Recorded(rec, d) /\ Late(t, d.value.instant))
  /\ After(rec, price, d)

SavedInv(rec, cp, price, t) == cp # NoCheckpoint =>
  /\ cp.savedAt <= t
  /\ Shape(cp.drawn, cp.last)
  /\ cp.last # NoTick => Near(rec, cp.last)
  /\ Resumable(cp, t) => Resumes(rec, price, cp.drawn, t)

-----------------------------------------------------------------------------
(* The market *)

Watch(m) == Larger(m.advancedAt, m.floor)

\* A market by itself.
MarketInv(m) ==
  /\ m.floor <= m.drawn.value.instant
  /\ m.advancedAt <= m.drawn.value.instant + MaxCatchUp
  /\ Shape(m.drawn, m.last)

\* A next tick beside a checkpoint that may be resumed.
Heir(rec, cp, t, d, stalled) == Resumable(cp, t) =>
  /\ Jumps(rec, d) => /\ stalled
                      /\ Recorded(rec, cp.drawn) => Late(t, cp.drawn.value.instant)
  /\ Lost(rec, d) /\ ~stalled => d = cp.drawn

\* A market beside the record and the checkpoint.
OpenInv(rec, cp, price, t, m, stalled) ==
  /\ Resumes(rec, price, m.drawn, t)
  /\ Recorded(rec, m.drawn) => Watch(m) = m.drawn.value.instant
  /\ m.last # NoTick => Near(rec, m.last)
  /\ Heir(rec, cp, t, m.drawn, stalled)
  /\ cp # NoCheckpoint /\ cp.last # NoTick => m.last # NoTick /\ cp.last.sequence <= m.last.sequence
  /\ Resumable(cp, t) /\ Recorded(rec, cp.drawn) => cp.drawn.value.instant <= Watch(m)

\* A market that goes on from what the checkpoint saw.
Follows(rec, cp) == cp # NoCheckpoint /\ cp.last # NoTick /\ HeadOf(rec) <= cp.last.sequence + SequenceLease

\* How far it may have been watched.
LagInv(rec, cp, m, stalled, checkpointAt, bound) ==
  Follows(rec, cp) /\ Continues(m.drawn, m.last) =>
    /\ m.floor <= cp.last.value.instant + Slack - 2 * MaxCatchUp
    /\ m.last # cp.last /\ ~stalled => checkpointAt <= cp.last.value.instant + Gap + 2 * MaxCatchUp
    /\ m.advancedAt <= cp.last.value.instant + bound

-----------------------------------------------------------------------------
(* The pass *)

InPass == pc \in {"record", "save", "finish"} /\ ~pass.stopping
Taken == pc = "record" /\ pass.batch # <<>>

Bound == IF pc = "record" /\ ~pass.failed THEN Slack
         ELSE IF pc = "finish" /\ ~pass.failed THEN Slack - 2 * MaxCatchUp
         ELSE Slack - MaxCatchUp

\* A market that is behind where it goes on stays so.
StallInv(t, m, stalled, failed) ==
  stalled /\ Continues(m.drawn, m.last) => Late(t, Watch(m)) /\ failed

HostedInv == venue.hosted =>
  /\ MarketInv(venue.market)
  /\ ~Taken =>
       /\ OpenInv(record, saved, quoted, now, venue.market, venue.stalled)
       /\ \/ pc = "save" /\ pass.plan # NoCheckpoint
          \/ LagInv(record, saved, venue.market, venue.stalled, venue.checkpointAt, Bound)
       /\ StallInv(now, venue.market, venue.stalled, InPass => pass.failed)
       /\ venue.latest = Newest(record)

\* What a market has published up to T, and is being recorded.
BatchFits(rec, cp, price, t, m, stalled, at, b, T) ==
  LET d == b[1]
      n == Len(b) IN
  /\ \A k \in 1..n : b[k] = Later(d, k - 1)
  /\ m.last = b[n] /\ m.drawn = Later(m.last, 1)
  /\ m.floor <= T /\ m.last.value.instant <= T
  /\ Forward(rec, d) /\ After(rec, price, d)
  /\ Heir(rec, cp, t, d, stalled)
  /\ cp # NoCheckpoint /\ cp.last # NoTick /\ Jumps(rec, d) =>
       d.sequence > cp.last.sequence + SequenceLease
  /\ Follows(rec, cp) /\ ~Jumps(rec, d) =>
       \/ Lost(rec, d)
       \/ /\ m.floor <= cp.last.value.instant + Slack - 2 * MaxCatchUp
          /\ at <= cp.last.value.instant + Gap + 2 * MaxCatchUp
          /\ T <= cp.last.value.instant + Slack

BatchInv == Taken =>
  /\ venue.hosted /\ ~pass.failed
  /\ BatchFits(record, saved, quoted, now, venue.market, venue.stalled, venue.checkpointAt,
               pass.batch, pass.advancedTo)

PassInv ==
  /\ venue.checkpointAt <= now
  /\ pc = "booting" /\ venue.hosted => 
       /\ ~venue.stalled
       /\ saved # NoCheckpoint => venue.market.last = saved.last
  /\ pc = "record" => venue.checkpointAt <= pass.advancedTo /\ ~pass.stopping
  /\ pc = "finish" => ~pass.stopping
  /\ InPass /\ venue.hosted /\ pass.failed => venue.stalled
  /\ InPass /\ venue.hosted /\ ~pass.failed =>
       /\ \A k \in 1..Len(record) : record[k].value.instant <= pass.advancedTo
       /\ venue.market.advancedAt = pass.advancedTo
       /\ pass.advancedTo < venue.market.drawn.value.instant
  /\ InPass => 0 <= pass.advancedTo /\ pass.advancedTo <= now
  /\ pc = "save" /\ pass.plan # NoCheckpoint =>
       /\ venue.hosted /\ ~venue.stalled
       /\ pass.plan = CheckpointMarket(venue.market, pass.planAt)
  /\ pc = "save" /\ pass.plan = NoCheckpoint /\ venue.hosted => venue.stalled
  /\ pc = "save" => 0 <= pass.planAt /\ pass.planAt <= now

IInv ==
  /\ TypeInv
  /\ RecordInv(record, now)
  /\ QuoteInv(record, quoted, now)
  /\ SavedInv(record, saved, quoted, now)
  /\ HostedInv
  /\ BatchInv
  /\ PassInv

-----------------------------------------------------------------------------
(* Streams *)

\* The constants, as numbers.
LEMMA Constants ==
  /\ Gap \in Nat \ {0} /\ MaxCatchUp \in Nat \ {0} /\ SequenceLease \in Nat \ {0}
  /\ EpochSpan \in Nat \ {0} /\ GenesisGap \in Nat /\ SeamGap \in Nat
  /\ CheckpointEvery \in Nat \ {0} /\ Slack \in Nat
  /\ Slack - MaxCatchUp \in Nat /\ Slack - 2 * MaxCatchUp \in Nat /\ Gap <= Slack - 2 * MaxCatchUp
BY HostedMarketAssumption, VenueAssumption DEF Slack

\* A run that fits the slack is shorter than a lease.
LEMMA SlackIsShort ==
  ASSUME Deployed, NEW k \in Nat, k * Gap <= Slack
  PROVE  k < SequenceLease
<1>1. Slack < SequenceLease * Gap
  <2>1. (SequenceLease - 1) * Gap = SequenceLease * Gap - Gap
    BY Constants
  <2>2. SequenceLease * Gap \in Int /\ CheckpointEvery \in Int /\ MaxCatchUp \in Int /\ Gap \in Int
    BY Constants
  <2> QED BY <2>1, <2>2 DEF Deployed, Slack
<1> SUFFICES ASSUME SequenceLease <= k PROVE FALSE
  BY Constants
<1>2. SequenceLease * Gap <= k * Gap
  BY Constants
<1>3. SequenceLease * Gap \in Int /\ k * Gap \in Int /\ Slack \in Int
  BY Constants
<1> QED BY <1>1, <1>2, <1>3

\* A tick and its fields.
LEMMA Fields ==
  ASSUME NEW d \in TickType
  PROVE  /\ d.sequence \in Nat \ {0} /\ d.value.instant \in Nat /\ d.value.epoch \in Nat
         /\ d = [sequence |-> d.sequence, value |-> [instant |-> d.value.instant, epoch |-> d.value.epoch]]
         /\ d \in AnyTick /\ d # NoTick
BY NullAssumption DEF TickType, AnyTick

\* Generating k ticks of a stream.
LEMMA LaterFacts ==
  ASSUME NEW d \in TickType
  PROVE  /\ Later(d, 0) = d
         /\ \A k \in Nat : /\ Later(d, k) \in TickType
                          /\ Later(d, k).sequence = d.sequence + k
                          /\ Later(d, k).value.instant = d.value.instant + k * Gap
                          /\ d.value.instant + k <= Later(d, k).value.instant
                          /\ Later(d, k).value.epoch = d.value.epoch
         /\ \A j, k \in Int : Later(Later(d, j), k) = Later(d, j + k)
<1>1. Later(d, 0) = d
  BY Fields, Constants DEF Later
<1>2. ASSUME NEW k \in Nat
      PROVE  /\ Later(d, k) \in TickType
             /\ Later(d, k).sequence = d.sequence + k
             /\ Later(d, k).value.instant = d.value.instant + k * Gap
             /\ d.value.instant + k <= Later(d, k).value.instant
             /\ Later(d, k).value.epoch = d.value.epoch
  <2>1. k * Gap \in Nat /\ k <= k * Gap
    BY Constants
  <2> QED BY <2>1, Fields DEF Later, TickType
<1>3. ASSUME NEW j \in Int, NEW k \in Int PROVE Later(Later(d, j), k) = Later(d, j + k)
  <2>1. j * Gap + k * Gap = (j + k) * Gap /\ j * Gap \in Int /\ k * Gap \in Int
    BY Constants
  <2>2. d.value.instant + j * Gap + k * Gap = d.value.instant + (j + k) * Gap
    BY <2>1, Fields
  <2>3. d.sequence + j + k = d.sequence + (j + k)
    BY Fields
  <2> QED BY <2>2, <2>3 DEF Later
<1> QED BY <1>1, <1>2, <1>3

\* The next tick.
LEMMA NextTick ==
  ASSUME NEW d \in TickType
  PROVE  /\ Later(d, 1) \in TickType /\ Later(d, 1).sequence = d.sequence + 1
         /\ Later(d, 1).value.instant = d.value.instant + Gap /\ Later(d, 1).value.epoch = d.value.epoch
<1>1. 1 * Gap = Gap /\ Gap \in Nat /\ 1 \in Nat
  BY Constants
<1>2. Later(d, 1).value.instant = d.value.instant + 1 * Gap
  BY <1>1, LaterFacts
<1>3. Later(d, 1) \in TickType /\ Later(d, 1).sequence = d.sequence + 1 /\ Later(d, 1).value.epoch = d.value.epoch
  BY <1>1, LaterFacts
<1> QED BY <1>1, <1>2, <1>3

\* Where the tick of a stream at a sequence lies.
LEMMA AtInstant ==
  ASSUME NEW d \in TickType, NEW i \in Nat, d.sequence <= i
  PROVE  At(d, i).value.instant = d.value.instant + (i - d.sequence) * Gap
<1>0. d.sequence \in Nat
  BY Fields
<1>1. PICK k \in Nat : k = i - d.sequence
  BY <1>0
<1> QED BY <1>1, LaterFacts DEF At

\* The tick of a stream at a sequence from one of its ticks on.
LEMMA AtIs ==
  ASSUME NEW d \in TickType, NEW i \in Nat, d.sequence <= i
  PROVE  /\ At(d, i) \in TickType /\ At(d, i).sequence = i /\ At(d, i).value.instant \in Nat
         /\ At(d, i).value.epoch = d.value.epoch /\ d.value.instant <= At(d, i).value.instant
<1>0. d.sequence \in Nat
  BY Fields
<1>1. PICK k \in Nat : k = i - d.sequence /\ d.sequence + k = i
  BY <1>0
<1>2. /\ Later(d, k) \in TickType /\ Later(d, k).sequence = d.sequence + k
      /\ d.value.instant + k <= Later(d, k).value.instant /\ Later(d, k).value.epoch = d.value.epoch
  BY LaterFacts
<1>3. At(d, i) = Later(d, k)
  BY <1>1 DEF At
<1> QED BY <1>1, <1>2, <1>3, Fields

\* A stream from its tick, and k ticks on.
LEMMA AtSelf ==
  ASSUME NEW d \in TickType
  PROVE  At(d, d.sequence) = d /\ Later(d, 1) = At(d, d.sequence + 1)
<1>1. d.sequence \in Nat /\ d.sequence - d.sequence = 0 /\ (d.sequence + 1) - d.sequence = 1
  BY Fields
<1>2. Later(d, 0) = d
  BY LaterFacts
<1> QED BY <1>1, <1>2 DEF At

\* The same stream is seen from any of its ticks.
LEMMA AtAt ==
  ASSUME NEW d \in TickType, NEW i \in Nat, NEW j \in Nat, d.sequence <= i
  PROVE  At(At(d, i), j) = At(d, j)
<1>1. d.sequence \in Nat /\ At(d, i).sequence = i
  BY AtIs, Fields
<1>2. At(At(d, i), j) = Later(Later(d, i - d.sequence), j - i)
  BY <1>1 DEF At
<1>3. (i - d.sequence) + (j - i) = j - d.sequence /\ i - d.sequence \in Int /\ j - i \in Int
  BY <1>1
<1>4. Later(Later(d, i - d.sequence), j - i) = Later(d, (i - d.sequence) + (j - i))
  BY <1>3, LaterFacts
<1> QED BY <1>2, <1>3, <1>4 DEF At

\* Its instants ascend.
LEMMA AtAscends ==
  ASSUME NEW d \in TickType, NEW i \in Nat, NEW j \in Nat, d.sequence <= i
  PROVE  /\ i <= j => At(d, i).value.instant <= At(d, j).value.instant
         /\ i < j => At(d, i).value.instant < At(d, j).value.instant
<1> SUFFICES ASSUME i <= j
             PROVE  /\ At(d, i).value.instant <= At(d, j).value.instant
                    /\ i < j => At(d, i).value.instant < At(d, j).value.instant
  OBVIOUS
<1>1. d.sequence \in Nat /\ d.value.instant \in Nat
  BY Fields
<1>2. PICK a \in Nat, b \in Nat : a = i - d.sequence /\ b = j - i /\ j - d.sequence = a + b
  BY <1>1
<1>3. (a + b) * Gap = a * Gap + b * Gap /\ b <= b * Gap /\ a * Gap \in Nat /\ b * Gap \in Nat
  BY Constants
<1>4. At(d, i).value.instant = d.value.instant + a * Gap
  BY <1>2, AtInstant
<1>5. At(d, j).value.instant = d.value.instant + (a + b) * Gap
  BY <1>1, <1>2, AtInstant
<1> QED BY <1>1, <1>2, <1>3, <1>4, <1>5

\* Division, rounding down.
LEMMA Quotient ==
  ASSUME NEW u \in Int, u >= 0, NEW g \in Nat \ {0}
  PROVE  \E q \in Nat : q = u \div g /\ q * g <= u /\ u < (q + 1) * g
<1>1. u \div g \in Nat
  OBVIOUS
<1>2. (u \div g) * g <= u /\ u < (u \div g) * g + g
  OBVIOUS
<1>3. ((u \div g) + 1) * g = (u \div g) * g + g
  BY <1>1
<1> QED BY <1>1, <1>2, <1>3

\* What is due is every tick up to the instant, and the next comes after it.
LEMMA DueFacts ==
  ASSUME NEW m \in MarketType, NEW t \in Nat
  PROVE  /\ DueCount(m, t) \in Nat
         /\ NextUnpublished(m) = m.drawn
         /\ m.drawn.value.instant > t => DueCount(m, t) = 0
         /\ m.drawn.value.instant <= t =>
              /\ DueCount(m, t) >= 1
              /\ Later(m.drawn, DueCount(m, t) - 1).value.instant <= t
              /\ t < Later(m.drawn, DueCount(m, t)).value.instant
<1> DEFINE d == m.drawn
           x == d.value.instant
           n == DueCount(m, t)
<1>1. d \in TickType /\ x \in Nat /\ NextUnpublished(m) = d
  <2>1. d \in TickType /\ m.pending = TRUE
    BY DEF MarketType
  <2> QED BY <2>1, Fields DEF NextUnpublished
<1>2. n = IF x > t THEN 0 ELSE (t - x) \div Gap + 1
  BY <1>1 DEF DueCount
<1>3. CASE x > t
  BY <1>1, <1>2, <1>3
<1>4. CASE x <= t
  <2>1. PICK q \in Nat : q = (t - x) \div Gap /\ q * Gap <= t - x /\ t - x < (q + 1) * Gap
    <3>1. PICK u \in Int : u = t - x /\ u >= 0
      BY <1>1, <1>4
    <3>2. Gap \in Nat \ {0}
      BY Constants
    <3>3. \E q \in Nat : q = u \div Gap /\ q * Gap <= u /\ u < (q + 1) * Gap
      BY <3>1, <3>2, Quotient
    <3> QED BY <3>1, <3>3
  <2>2. n = q + 1 /\ n - 1 = q /\ n \in Nat /\ n >= 1
    BY <1>1, <1>2, <1>4, <2>1
  <2> HIDE DEF n, d, x
  <2>3. q * Gap \in Int /\ (q + 1) * Gap \in Int
    BY Constants
  <2>4. Later(d, q).value.instant = x + q * Gap /\ Later(d, q + 1).value.instant = x + (q + 1) * Gap
    BY <1>1, LaterFacts DEF x
  <2>5. Later(d, n - 1).value.instant <= t /\ t < Later(d, n).value.instant
    BY <1>1, <2>1, <2>2, <2>3, <2>4
  <2> QED BY <1>1, <1>4, <2>2, <2>5 DEF n, d, x
<1> QED BY <1>1, <1>3, <1>4
-----------------------------------------------------------------------------
(* The record *)

\* The newest tick of a record and the head it gives it.
LEMMA HeadFacts ==
  ASSUME NEW rec \in Seq(TickType)
  PROVE  /\ Len(rec) \in Nat /\ HeadOf(rec) \in Nat
         /\ \A k \in 1..Len(rec) : rec[k] \in TickType
         /\ rec = <<>> => Len(rec) = 0 /\ HeadOf(rec) = 0 /\ Newest(rec) = NoTick
         /\ rec # <<>> => /\ Len(rec) \in 1..Len(rec)
                          /\ Newest(rec) = rec[Len(rec)] /\ Newest(rec) \in TickType
                          /\ HeadOf(rec) = Newest(rec).sequence /\ HeadOf(rec) >= 1
<1>1. \A k \in 1..Len(rec) : rec[k] \in TickType
  OBVIOUS
<1>2. CASE rec = <<>>
  BY <1>2 DEF HeadOf, Newest
<1>3. CASE rec # <<>>
  <2>1. Len(rec) \in 1..Len(rec) /\ Len(rec) \in Nat
    BY <1>3
  <2>2. rec[Len(rec)] \in TickType
    BY <1>1, <2>1
  <2>3. rec[Len(rec)].sequence \in Nat \ {0}
    BY <2>2, Fields
  <2> QED BY <1>1, <1>3, <2>1, <2>2, <2>3 DEF HeadOf, Newest, Last
<1> QED BY <1>2, <1>3

\* The newest is above the others.
LEMMA NewestIsLast ==
  ASSUME NEW rec \in Seq(TickType), NEW t, RecordInv(rec, t), NEW k \in 1..Len(rec)
  PROVE  /\ rec # <<>>
         /\ rec[k].sequence <= HeadOf(rec) /\ rec[k].value.instant <= Newest(rec).value.instant
         /\ rec[k].sequence = HeadOf(rec) => rec[k] = Newest(rec)
<1>1. rec # <<>>
  OBVIOUS
<1>2. /\ Len(rec) \in 1..Len(rec) /\ Newest(rec) = rec[Len(rec)] /\ HeadOf(rec) = rec[Len(rec)].sequence
      /\ rec[k] \in TickType /\ rec[Len(rec)] \in TickType
  BY <1>1, HeadFacts
<1>3. /\ rec[k].sequence \in Nat /\ rec[Len(rec)].sequence \in Nat
      /\ rec[k].value.instant \in Nat /\ rec[Len(rec)].value.instant \in Nat
  BY <1>2, Fields
<1>4. k < Len(rec) => /\ rec[k].sequence < rec[Len(rec)].sequence
                      /\ rec[k].value.instant < rec[Len(rec)].value.instant
  BY <1>2 DEF RecordInv
<1>5. k = Len(rec) \/ k < Len(rec)
  BY <1>2
<1> QED BY <1>1, <1>2, <1>3, <1>4, <1>5

\* What is recorded is a tick, of a record that is not empty.
LEMMA RecordedFacts ==
  ASSUME NEW rec \in Seq(TickType), NEW t, RecordInv(rec, t), NEW d, Recorded(rec, d)
  PROVE  /\ d \in TickType /\ rec # <<>>
         /\ d.sequence <= HeadOf(rec) /\ d.value.instant <= Newest(rec).value.instant
         /\ d.sequence = HeadOf(rec) => d = Newest(rec)
         /\ d.value.instant <= t
<1>1. PICK k \in 1..Len(rec) : rec[k] = d
  BY DEF Recorded
<1>2. d \in TickType
  BY <1>1
<1>3. d.value.instant <= t
  BY <1>1 DEF RecordInv
<1> QED BY <1>1, <1>2, <1>3, NewestIsLast

\* One tick has a number.
LEMMA OneOfANumber ==
  ASSUME NEW rec \in Seq(TickType), NEW t, RecordInv(rec, t), NEW d, NEW e,
         Recorded(rec, d), Recorded(rec, e), d.sequence = e.sequence
  PROVE  d = e
<1>1. PICK j \in 1..Len(rec) : rec[j] = d
  BY DEF Recorded
<1>2. PICK k \in 1..Len(rec) : rec[k] = e
  BY DEF Recorded
<1>3. d.sequence \in Nat /\ e.sequence \in Nat
  BY <1>1, <1>2, HeadFacts, Fields
<1>4. ~(j < k) /\ ~(k < j)
  BY <1>1, <1>2, <1>3 DEF RecordInv
<1> QED BY <1>1, <1>2, <1>4

\* What a record runs to from a tick it holds is its newest.
LEMMA NewestOfRun ==
  ASSUME NEW rec \in Seq(TickType), NEW t, RecordInv(rec, t), NEW d, Replays(rec, d)
  PROVE  /\ d \in TickType /\ rec # <<>> /\ d.sequence <= HeadOf(rec)
         /\ Newest(rec) = At(d, HeadOf(rec))
<1>1. /\ d \in TickType /\ rec # <<>> /\ d.sequence <= HeadOf(rec)
      /\ d.sequence = HeadOf(rec) => d = Newest(rec)
  BY RecordedFacts DEF Replays
<1>2. /\ Len(rec) \in 1..Len(rec) /\ Newest(rec) = rec[Len(rec)] /\ HeadOf(rec) = rec[Len(rec)].sequence
      /\ HeadOf(rec) \in Nat
  BY <1>1, HeadFacts
<1>3. CASE d.sequence = HeadOf(rec)
  BY <1>1, <1>3, AtSelf
<1>4. CASE d.sequence # HeadOf(rec)
  <2>1. rec[Len(rec)].sequence > d.sequence
    BY <1>1, <1>2, <1>4, Fields
  <2> QED BY <1>1, <1>2, <2>1 DEF Replays, RunFrom
<1> QED BY <1>1, <1>3, <1>4

\* What the record takes next, without a seam, is generated after its newest.
LEMMA SameStream ==
  ASSUME NEW rec \in Seq(TickType), NEW t, RecordInv(rec, t), NEW d \in TickType, rec # <<>>,
         Leads(rec, d) \/ Replays(rec, d), ~Jumps(rec, d)
  PROVE  \A i \in Nat : At(d, i) = At(Newest(rec), i)
<1>1. /\ Newest(rec) \in TickType /\ HeadOf(rec) = Newest(rec).sequence /\ HeadOf(rec) \in Nat
      /\ d.sequence \in Nat
  BY HeadFacts, Fields
<1>2. CASE Leads(rec, d)
  <2>1. d.sequence = HeadOf(rec) + 1 /\ d = Later(Newest(rec), 1)
    BY <1>1, <1>2 DEF Leads, Jumps
  <2>2. d = At(Newest(rec), HeadOf(rec) + 1)
    BY <1>1, <2>1, AtSelf
  <2>3. HeadOf(rec) + 1 >= Newest(rec).sequence /\ HeadOf(rec) + 1 \in Nat
    BY <1>1
  <2>4. \A i \in Nat : At(At(Newest(rec), HeadOf(rec) + 1), i) = At(Newest(rec), i)
    BY <1>1, <2>3, AtAt
  <2> QED BY <2>2, <2>4
<1>3. CASE Replays(rec, d)
  <2>1. d.sequence <= HeadOf(rec) /\ Newest(rec) = At(d, HeadOf(rec))
    BY <1>3, NewestOfRun
  <2>2. \A i \in Nat : At(At(d, HeadOf(rec)), i) = At(d, i)
    BY <1>1, <2>1, AtAt
  <2> QED BY <2>1, <2>2
<1> QED BY <1>2, <1>3

\* A record that continues a tick for no longer than the slack is less than a
\* lease past it.
LEMMA NearIsApart ==
  ASSUME Deployed, NEW rec \in Seq(TickType), NEW t, RecordInv(rec, t), NEW d, Near(rec, d)
  PROVE  /\ d \in TickType /\ rec # <<>> /\ d.sequence <= HeadOf(rec)
         /\ HeadOf(rec) > d.sequence + SequenceLease \/ HeadOf(rec) < d.sequence + SequenceLease
<1>1. Recorded(rec, d)
  BY DEF Near
<1>2. d \in TickType /\ rec # <<>> /\ d.sequence <= HeadOf(rec)
  BY <1>1, RecordedFacts
<1>3. CASE HeadOf(rec) > d.sequence + SequenceLease
  BY <1>2, <1>3
<1>4. CASE RunFrom(rec, d) /\ Newest(rec).value.instant <= d.value.instant + Slack
  <2>1. Newest(rec) = At(d, HeadOf(rec))
    BY <1>1, <1>4, NewestOfRun DEF Replays
  <2>2. HeadOf(rec) \in Nat /\ d.sequence \in Nat /\ d.value.instant \in Nat
    BY <1>2, HeadFacts, Fields
  <2>3. PICK k \in Nat : k = HeadOf(rec) - d.sequence
    BY <1>2, <2>2
  <2>4. Newest(rec).value.instant = d.value.instant + k * Gap
    BY <1>2, <2>1, <2>2, <2>3, AtInstant
  <2>5. k * Gap <= Slack
    <3>1. k * Gap \in Int /\ Slack \in Int
      BY Constants
    <3> QED BY <1>4, <2>2, <2>4, <3>1
  <2>6. k < SequenceLease
    BY <2>5, SlackIsShort
  <2> QED BY <1>2, <2>2, <2>3, <2>6, Constants
<1> QED BY <1>3, <1>4 DEF Near

\* A resumable market's next tick is the next of what the checkpoint saw published.
LEMMA UsableFacts ==
  ASSUME NEW rec \in Seq(TickType), NEW t, RecordInv(rec, t), NEW price, NEW cp \in CheckpointType,
         SavedInv(rec, cp, price, t), UsableRecord(cp)
  PROVE  /\ IF cp.last = NoTick THEN cp.drawn.sequence = 1
            ELSE Continues(cp.drawn, cp.last) /\ Recorded(rec, cp.last)
         /\ cp.drawn.sequence <= HeadOf(rec) + 1
<1>1. /\ cp # NoCheckpoint /\ cp.pending = TRUE /\ cp.drawn \in TickType
      /\ cp.drawn.sequence \in Nat /\ HeadOf(rec) \in Nat
  <2>1. cp \in AnyCheckpoint
    BY DEF CheckpointType, AnyCheckpoint, TickType, AnyTick, MaybeTick
  <2> QED BY <2>1, NullAssumption, Fields, HeadFacts DEF CheckpointType
<1>2. Shape(cp.drawn, cp.last) /\ (cp.last # NoTick => Near(rec, cp.last))
  BY <1>1 DEF SavedInv
<1>3. CASE cp.last = NoTick
  BY <1>1, <1>2, <1>3 DEF Shape
<1>4. CASE cp.last # NoTick
  <2>1. cp.drawn.sequence = cp.last.sequence + 1
    BY <1>1, <1>4 DEF UsableRecord
  <2>2. Recorded(rec, cp.last)
    BY <1>2, <1>4 DEF Near
  <2>3. cp.last \in TickType /\ cp.last.sequence <= HeadOf(rec) /\ cp.last.sequence \in Nat
    BY <2>2, RecordedFacts, Fields
  <2>4. ~(cp.drawn.sequence > cp.last.sequence + SequenceLease)
    BY <2>1, <2>3, Constants
  <2> QED BY <1>1, <1>2, <1>4, <2>1, <2>2, <2>3, <2>4 DEF Shape
<1> QED BY <1>3, <1>4

\* A checkpoint is not the absence of one.
LEMMA CheckpointFacts ==
  ASSUME NEW cp \in CheckpointType
  PROVE  /\ cp # NoCheckpoint /\ cp.drawn \in TickType /\ cp.pending = TRUE /\ cp.last \in MaybeTick
         /\ cp.savedAt \in Nat /\ cp.leased \in Nat
         /\ cp.last # NoTick => cp.last \in TickType
<1>1. cp \in AnyCheckpoint
  BY DEF CheckpointType, AnyCheckpoint, TickType, AnyTick, MaybeTick
<1> QED BY <1>1, NullAssumption DEF CheckpointType, MaybeTick
-----------------------------------------------------------------------------
(* A batch, appended *)

\* Two sequences, one after the other.
LEMMA Joined ==
  ASSUME NEW S, NEW s \in Seq(S), NEW t \in Seq(S)
  PROVE  /\ s \o t \in Seq(S) /\ Len(s \o t) = Len(s) + Len(t)
         /\ \A k \in 1..Len(s) : (s \o t)[k] = s[k]
         /\ \A k \in (Len(s) + 1)..(Len(s) + Len(t)) : (s \o t)[k] = t[k - Len(s)]
OBVIOUS

\* The end of a sequence.
LEMMA Rest ==
  ASSUME NEW S, NEW s \in Seq(S), NEW n \in Nat, n = Len(s), NEW c \in 0..n
  PROVE  /\ SubSeq(s, c + 1, n) \in Seq(S) /\ Len(SubSeq(s, c + 1, n)) = n - c
         /\ \A i \in 1..(n - c) : SubSeq(s, c + 1, n)[i] = s[c + i] /\ c + i \in 1..n
<1>0. n - c \in Nat /\ n - (c + 1) + 1 = n - c /\ c \in Nat
  OBVIOUS
<1>1. PICK l \in Nat : l = n - c /\ n - (c + 1) + 1 = l
  BY <1>0
<1>2. PICK t : t = SubSeq(s, c + 1, n)
  OBVIOUS
<1>3. \A i \in 1..l : c + i \in 1..n /\ (c + 1) + i - 1 = c + i
  BY <1>0, <1>1
<1>4. t \in Seq(S) /\ Len(t) = l
  BY <1>1, <1>2
<1>5. \A i \in 1..l : t[i] = s[c + i]
  BY <1>1, <1>2, <1>3
<1> QED BY <1>1, <1>2, <1>3, <1>4, <1>5

\* A batch generated from its first tick.
Batch(b, n, d) == /\ b \in Seq(TickType) /\ n \in Nat \ {0} /\ n = Len(b) /\ d \in TickType
                  /\ \A k \in 1..n : b[k] = At(d, d.sequence + (k - 1))

\* A record and what has grown from it: ticks above its head, of the stream of d.
Grown(rec, new, d) ==
  /\ new \in Seq(TickType) /\ Len(rec) <= Len(new)
  /\ \A k \in 1..Len(rec) : new[k] = rec[k]
  /\ \A k \in (Len(rec) + 1)..Len(new) :
       /\ HeadOf(rec) < new[k].sequence /\ d.sequence <= new[k].sequence
       /\ new[k] = At(d, new[k].sequence)

\* A batch the record accepts, of which it holds the first c already.
Accepted(rec, b, n, d, c, T) ==
  /\ Batch(b, n, d) /\ Forward(rec, d) /\ T \in Nat
  /\ \A k \in 1..n : b[k].sequence > HeadOf(rec) \/ Recorded(rec, b[k])
  /\ b[n].value.instant <= T /\ T < Later(b[n], 1).value.instant
  /\ c \in 0..n /\ \A k \in 1..n : k <= c <=> b[k].sequence <= HeadOf(rec)

\* The sequence the rest of it goes on from.
GoesOn(rec, b, n, d, c, e) ==
  /\ HeadOf(rec) <= e /\ d.sequence <= e + 1 /\ e + (n - c) = b[n].sequence
  /\ \A i \in 1..(n - c) : b[c + i] = At(d, e + i)
  /\ rec # <<>> => Newest(rec).value.instant < At(d, e + 1).value.instant
  /\ rec # <<>> /\ e = HeadOf(rec) => At(d, e + 1) = At(Newest(rec), e + 1)
  /\ n = c => rec # <<>> /\ b[n] = Newest(rec)

\* The record with the rest of it.
Appended(rec, b, n, c, new) ==
  /\ new \in Seq(TickType) /\ Len(new) = Len(rec) + (n - c)
  /\ \A k \in 1..Len(rec) : new[k] = rec[k]
  /\ \A k \in (Len(rec) + 1)..(Len(rec) + (n - c)) : new[k] = b[c + (k - Len(rec))]

\* Appending a batch's rest.
LEMMA AppendIs ==
  ASSUME NEW rec \in Seq(TickType), NEW b, NEW n, NEW d, Batch(b, n, d), NEW c \in 0..n
  PROVE  Appended(rec, b, n, c, rec \o SubSeq(b, c + 1, n))
<1>1. b \in Seq(TickType) /\ n \in Nat /\ n = Len(b)
  BY DEF Batch
<1>2. PICK f : /\ f = SubSeq(b, c + 1, n) /\ f \in Seq(TickType) /\ Len(f) = n - c
               /\ \A i \in 1..(n - c) : f[i] = b[c + i]
  <2>1. /\ SubSeq(b, c + 1, n) \in Seq(TickType) /\ Len(SubSeq(b, c + 1, n)) = n - c
        /\ \A i \in 1..(n - c) : SubSeq(b, c + 1, n)[i] = b[c + i] /\ c + i \in 1..n
    BY <1>1, Rest
  <2> QED BY <2>1
<1>3. /\ rec \o f \in Seq(TickType) /\ Len(rec \o f) = Len(rec) + (n - c)
      /\ \A k \in 1..Len(rec) : (rec \o f)[k] = rec[k]
      /\ \A k \in (Len(rec) + 1)..(Len(rec) + (n - c)) : (rec \o f)[k] = f[k - Len(rec)]
  BY <1>2, Joined
<1>4. ASSUME NEW k \in (Len(rec) + 1)..(Len(rec) + (n - c)) PROVE f[k - Len(rec)] = b[c + (k - Len(rec))]
  <2>1. k - Len(rec) \in 1..(n - c)
    BY <1>1, HeadFacts
  <2> QED BY <1>2, <2>1
<1> QED BY <1>2, <1>3, <1>4 DEF Appended

\* The ticks of a batch.
LEMMA BatchFacts ==
  ASSUME NEW b, NEW n, NEW d, Batch(b, n, d), NEW k \in 1..n
  PROVE  /\ b[k] \in TickType /\ b[k].sequence = d.sequence + (k - 1)
         /\ d.value.instant <= b[k].value.instant /\ b[k].value.instant <= b[n].value.instant
         /\ b[k] = At(d, b[k].sequence) /\ b[k].value.epoch = d.value.epoch
<1>1. /\ b \in Seq(TickType) /\ n \in Nat \ {0} /\ n = Len(b) /\ d \in TickType
      /\ d.sequence \in Nat /\ d.value.instant \in Nat /\ n \in 1..n
  BY Fields DEF Batch
<1>2. PICK i \in Nat : i = d.sequence + (k - 1) /\ i >= d.sequence /\ b[k] = At(d, i)
  <2>1. d.sequence + (k - 1) \in Nat /\ d.sequence + (k - 1) >= d.sequence
    BY <1>1
  <2> QED BY <2>1 DEF Batch
<1>3. PICK j \in Nat : j = d.sequence + (n - 1) /\ j >= i /\ b[n] = At(d, j)
  <2>1. d.sequence + (n - 1) \in Nat /\ d.sequence + (n - 1) >= i
    BY <1>1, <1>2
  <2> QED BY <1>1, <2>1 DEF Batch
<1>4. /\ At(d, i) \in TickType /\ At(d, i).sequence = i
      /\ d.value.instant <= At(d, i).value.instant /\ At(d, i).value.epoch = d.value.epoch
  BY <1>1, <1>2, AtIs
<1>5. At(d, i).value.instant <= At(d, j).value.instant
  BY <1>1, <1>2, <1>3, AtAscends
<1>6. At(d, i).value.instant \in Nat /\ At(d, j).value.instant \in Nat
  <2>1. At(d, j) \in TickType
    BY <1>1, <1>2, <1>3, AtIs
  <2> QED BY <1>4, <2>1, Fields
<1>7. d.value.instant <= At(d, i).value.instant /\ At(d, i).value.instant <= At(d, j).value.instant
  BY <1>1, <1>2, <1>3, <1>4, <1>5, <1>6
<1> QED BY <1>1, <1>2, <1>3, <1>4, <1>7

\* What of an accepted batch is new: it goes on from the head or from its first
\* tick, and ends where the batch ends.
LEMMA NewPart ==
  ASSUME NEW rec \in Seq(TickType), NEW b, NEW n, NEW d, NEW c, NEW T, RecordInv(rec, T),
         Accepted(rec, b, n, d, c, T)
  PROVE  /\ Leads(rec, d) \/ Replays(rec, d)
         /\ \E e \in Nat : GoesOn(rec, b, n, d, c, e)
<1>a. /\ Batch(b, n, d) /\ Forward(rec, d) /\ T \in Nat
      /\ \A k \in 1..n : b[k].sequence > HeadOf(rec) \/ Recorded(rec, b[k])
      /\ T < Later(b[n], 1).value.instant
      /\ \A k \in 1..n : k <= c <=> b[k].sequence <= HeadOf(rec)
  BY DEF Accepted
<1>1. /\ b \in Seq(TickType) /\ n \in Nat \ {0} /\ n = Len(b) /\ d \in TickType /\ 1 \in 1..n /\ n \in 1..n
      /\ d.sequence \in Nat \ {0} /\ HeadOf(rec) \in Nat /\ c \in 0..n
      /\ c \in Nat /\ c <= n /\ n - c \in Nat
  <2>1. /\ b \in Seq(TickType) /\ n \in Nat \ {0} /\ n = Len(b) /\ d \in TickType /\ c \in 0..n
    BY <1>a DEF Batch, Accepted
  <2>2. d.sequence \in Nat \ {0} /\ HeadOf(rec) \in Nat
    BY <2>1, Fields, HeadFacts
  <2>3. 1 \in 1..n /\ n \in 1..n /\ c \in Nat /\ c <= n /\ n - c \in Nat
    BY <2>1
  <2> QED BY <2>1, <2>2, <2>3
<1>2. b[1].sequence = d.sequence /\ b[1] = d /\ b[n].sequence = d.sequence + (n - 1)
  <2>1. b[1].sequence = d.sequence + (1 - 1) /\ b[1] = At(d, b[1].sequence)
    BY <1>a, <1>1, BatchFacts
  <2>2. At(d, d.sequence) = d
    BY <1>1, AtSelf
  <2>3. b[n].sequence = d.sequence + (n - 1)
    BY <1>a, <1>1, BatchFacts
  <2> QED BY <1>1, <2>1, <2>2, <2>3
<1>3. Leads(rec, d) \/ Replays(rec, d)
  <2>1. b[1].sequence > HeadOf(rec) \/ Recorded(rec, b[1])
    BY <1>a, <1>1
  <2>2. ~Lost(rec, d)
    BY <1>1, <1>2, <2>1 DEF Lost
  <2> QED BY <1>a, <2>2 DEF Forward
<1>4. CASE Leads(rec, d)
  <2>1. d.sequence > HeadOf(rec)
    BY <1>4 DEF Leads
  <2>2. c = 0
    <3>1. ~(1 <= c)
      BY <1>a, <1>1, <1>2, <2>1
    <3> QED BY <1>1, <3>1
  <2>3. PICK e \in Nat : e = d.sequence - 1 /\ HeadOf(rec) <= e /\ d.sequence = e + 1
    BY <1>1, <2>1
  <2>4. ASSUME NEW i \in 1..(n - c) PROVE b[c + i] = At(d, e + i)
    <3>1. i \in 1..n /\ c + i = i /\ d.sequence + (i - 1) = e + i
      BY <1>1, <2>2, <2>3
    <3> QED BY <1>a, <3>1 DEF Batch
  <2>5. At(d, e + 1) = d
    BY <1>1, <2>3, AtSelf
  <2>6. rec # <<>> => /\ Newest(rec).value.instant < d.value.instant
                      /\ d.sequence = HeadOf(rec) + 1 => d = Later(Newest(rec), 1)
    BY <1>4 DEF Leads
  <2>7. rec # <<>> /\ e = HeadOf(rec) => d = At(Newest(rec), e + 1)
    <3> SUFFICES ASSUME rec # <<>>, e = HeadOf(rec) PROVE d = At(Newest(rec), e + 1)
      OBVIOUS
    <3>1. Newest(rec) \in TickType /\ Newest(rec).sequence = HeadOf(rec)
      BY HeadFacts
    <3>2. d = Later(Newest(rec), 1)
      BY <2>3, <2>6
    <3> QED BY <3>1, <3>2, AtSelf
  <2>8. e + (n - c) = b[n].sequence
    <3>1. b[n].sequence = e + 1 + (n - 1) /\ n - c = n
      BY <1>1, <1>2, <2>2, <2>3
    <3> QED BY <1>1, <3>1
  <2>9. n # c
    BY <1>1, <2>2
  <2>10. GoesOn(rec, b, n, d, c, e)
    BY <2>3, <2>4, <2>5, <2>6, <2>7, <2>8, <2>9 DEF GoesOn
  <2> QED BY <1>3, <2>10
<1>5. CASE Replays(rec, d)
  <2>1. rec # <<>> /\ d.sequence <= HeadOf(rec) /\ Newest(rec) = At(d, HeadOf(rec))
    BY <1>5, NewestOfRun
  <2>2. PICK e \in Nat : e = HeadOf(rec) /\ d.sequence <= e
    BY <1>1, <2>1
  <2>3. Newest(rec).value.instant <= T /\ Newest(rec).value.instant \in Nat
    BY <2>1, HeadFacts, Fields DEF RecordInv
  <2>4. e <= b[n].sequence
    <3> SUFFICES ASSUME b[n].sequence < e PROVE FALSE
      BY <1>1, <1>2
    <3>1. PICK j \in Nat : j = b[n].sequence /\ d.sequence <= j /\ j + 1 <= e
      BY <1>1, <1>2
    <3>2. b[n] = At(d, j) /\ At(d, j) \in TickType /\ At(d, j).sequence = j
      <4>1. b[n] = At(d, b[n].sequence)
        BY <1>a, <1>1, BatchFacts
      <4> QED BY <1>1, <3>1, <4>1, AtIs
    <3>3. Later(b[n], 1) = At(d, j + 1)
      <4>1. Later(b[n], 1) = At(b[n], j + 1)
        BY <3>1, <3>2, AtSelf
      <4>2. At(At(d, j), j + 1) = At(d, j + 1)
        BY <1>1, <3>1, AtAt
      <4> QED BY <3>2, <4>1, <4>2
    <3>4. At(d, j + 1).value.instant <= At(d, e).value.instant
      BY <1>1, <3>1, AtAscends
    <3>5. At(d, j + 1).value.instant \in Nat
      <4>1. j + 1 \in Nat /\ j + 1 >= d.sequence
        BY <1>1, <3>1
      <4>2. At(d, j + 1) \in TickType
        BY <1>1, <4>1, AtIs
      <4> QED BY <4>2, Fields
    <3> QED BY <1>a, <2>1, <2>2, <2>3, <3>1, <3>3, <3>4, <3>5
  <2>5. c = e - d.sequence + 1
    <3>1. PICK k \in 1..n : k = e - d.sequence + 1 /\ b[k].sequence = e
      <4>1. e - d.sequence + 1 \in 1..n
        BY <1>1, <1>2, <2>2, <2>4
      <4>2. b[e - d.sequence + 1].sequence = d.sequence + ((e - d.sequence + 1) - 1)
        BY <1>a, <4>1, BatchFacts
      <4> QED BY <1>1, <4>1, <4>2
    <3>2. k <= c
      BY <1>a, <2>2, <3>1
    <3>3. ~(k < c)
      <4> SUFFICES ASSUME k < c PROVE FALSE
        OBVIOUS
      <4>1. k + 1 \in 1..n /\ k + 1 <= c
        BY <1>1
      <4>2. b[k + 1].sequence = d.sequence + ((k + 1) - 1)
        BY <1>a, <4>1, BatchFacts
      <4>3. b[k + 1].sequence <= HeadOf(rec)
        BY <1>a, <4>1
      <4> QED BY <1>1, <2>2, <3>1, <4>2, <4>3
    <3>4. k \in Nat
      BY <1>1, <3>1
    <3>5. k = c
      BY <1>1, <3>2, <3>3, <3>4
    <3> QED BY <3>1, <3>5
  <2>6. ASSUME NEW i \in 1..(n - c) PROVE b[c + i] = At(d, e + i)
    <3>0. i \in Nat /\ i >= 1 /\ i <= n - c
      BY <1>1
    <3>2. PICK a \in Nat, q \in Nat, z \in Nat, h \in Nat :
                 /\ a = d.sequence /\ q = n /\ z = c /\ h = i
                 /\ z = e - a + 1 /\ 1 <= h /\ h <= q - z
      BY <1>1, <2>5, <3>0
    <3>4. z + h >= 1 /\ z + h <= q /\ a + ((z + h) - 1) = e + h
      <4>1. z = e - a + 1 /\ 1 <= h /\ h <= q - z
        BY <3>2
      <4> QED BY <4>1
    <3>3. z + i \in 1..q /\ a + ((z + i) - 1) = e + i
      BY <3>2, <3>4
    <3>1. c + i \in 1..n /\ d.sequence + ((c + i) - 1) = e + i
      BY <3>2, <3>3
    <3> QED BY <1>a, <3>1 DEF Batch
  <2>7. Newest(rec).value.instant < At(d, e + 1).value.instant
    <3>1. At(d, e).value.instant < At(d, e + 1).value.instant
      BY <1>1, <2>2, AtAscends
    <3>2. At(d, e + 1).value.instant \in Nat
      <4>1. At(d, e + 1) \in TickType
        BY <1>1, <2>2, AtIs
      <4> QED BY <4>1, Fields
    <3> QED BY <2>1, <2>2, <2>3, <3>1, <3>2
  <2>8. At(d, e + 1) = At(Newest(rec), e + 1)
    BY <1>1, <2>1, <2>2, AtAt
  <2>9. e + (n - c) = b[n].sequence
    <3>1. PICK a \in Nat, q \in Nat : a = d.sequence /\ q = n
      BY <1>1
    <3>2. e + (q - (e - a + 1)) = a + (q - 1)
      OBVIOUS
    <3> QED BY <1>2, <2>5, <3>1, <3>2
  <2>10. n = c => b[n] = Newest(rec)
    BY <1>a, <1>1, <2>1, <2>2, <2>9, BatchFacts
  <2>11. HeadOf(rec) <= e /\ d.sequence <= e + 1
    BY <1>1, <2>2
  <2>12. GoesOn(rec, b, n, d, c, e)
    BY <2>1, <2>6, <2>7, <2>8, <2>9, <2>10, <2>11 DEF GoesOn
  <2> QED BY <1>3, <2>12
<1> QED BY <1>3, <1>4, <1>5

\* Appended, it leaves a record: ascending, and where the numbers run on, a stream.
LEMMA AppendFits ==
  ASSUME NEW rec \in Seq(TickType), NEW b, NEW n, NEW d, NEW c, NEW T, RecordInv(rec, T),
         Accepted(rec, b, n, d, c, T), NEW new, Appended(rec, b, n, c, new)
  PROVE  /\ Leads(rec, d) \/ Replays(rec, d)
         /\ Grown(rec, new, d)
         /\ RecordInv(new, T)
         /\ Newest(new) = b[n] /\ new # <<>>
         /\ Len(new) = Len(rec) + (n - c)
<1>a. Batch(b, n, d) /\ T \in Nat /\ b[n].value.instant <= T
  BY DEF Accepted
<1>1. /\ b \in Seq(TickType) /\ n \in Nat \ {0} /\ n = Len(b) /\ d \in TickType /\ n \in 1..n
      /\ d.sequence \in Nat \ {0} /\ HeadOf(rec) \in Nat /\ c \in 0..n
      /\ c \in Nat /\ c <= n /\ n - c \in Nat
  <2>1. /\ b \in Seq(TickType) /\ n \in Nat \ {0} /\ n = Len(b) /\ d \in TickType /\ c \in 0..n
    BY <1>a DEF Batch, Accepted
  <2>2. d.sequence \in Nat \ {0} /\ HeadOf(rec) \in Nat
    BY <2>1, Fields, HeadFacts
  <2>3. 1 \in 1..n /\ n \in 1..n /\ c \in Nat /\ c <= n /\ n - c \in Nat
    BY <2>1
  <2> QED BY <2>1, <2>2, <2>3
<1>2. Leads(rec, d) \/ Replays(rec, d)
  BY NewPart
<1>3. PICK e \in Nat : GoesOn(rec, b, n, d, c, e)
  BY NewPart
<1>4. /\ HeadOf(rec) <= e /\ d.sequence <= e + 1 /\ e + (n - c) = b[n].sequence
      /\ \A i \in 1..(n - c) : b[c + i] = At(d, e + i)
      /\ rec # <<>> => Newest(rec).value.instant < At(d, e + 1).value.instant
      /\ rec # <<>> /\ e = HeadOf(rec) => At(d, e + 1) = At(Newest(rec), e + 1)
      /\ n = c => rec # <<>> /\ b[n] = Newest(rec)
  BY <1>3 DEF GoesOn
<1>5. PICK L \in Nat : L = Len(rec)
  BY HeadFacts
<1>6. PICK l \in Nat : l = n - c
  BY <1>1
<1>7. /\ new \in Seq(TickType) /\ Len(new) = L + l
      /\ \A k \in 1..L : new[k] = rec[k] /\ rec[k] \in TickType
      /\ \A k \in (L + 1)..(L + l) : new[k] = b[c + (k - L)]
  BY <1>5, <1>6, HeadFacts DEF Appended
<1>8. \A i \in Nat : i >= 1 => /\ At(d, e + i) \in TickType /\ At(d, e + i).sequence = e + i
                              /\ At(d, e + i).value.instant \in Nat
  <2> SUFFICES ASSUME NEW i \in Nat, i >= 1
               PROVE  /\ At(d, e + i) \in TickType /\ At(d, e + i).sequence = e + i
                      /\ At(d, e + i).value.instant \in Nat
    OBVIOUS
  <2>1. e + i \in Nat /\ e + i >= d.sequence
    <3>1. d.sequence \in Nat /\ d.sequence <= e + 1
      BY <1>1, <1>4
    <3> QED BY <3>1
  <2> QED BY <1>1, <2>1, AtIs, Fields
<1>9. ASSUME NEW k \in (L + 1)..(L + l)
      PROVE  /\ k - L \in 1..l /\ k - L \in Nat /\ new[k] = At(d, e + (k - L))
             /\ new[k].sequence = e + (k - L) /\ new[k].value.instant <= T
  <2>1. k - L \in 1..l /\ k - L \in Nat
    OBVIOUS
  <2>0. c + (k - L) \in 1..n
    BY <1>1, <1>6, <2>1
  <2>5. b[c + (k - L)] = At(d, e + (k - L))
    BY <1>4, <1>6, <2>1
  <2>2. new[k] = b[c + (k - L)] /\ c + (k - L) \in 1..n /\ b[c + (k - L)] = At(d, e + (k - L))
    BY <1>7, <2>0, <2>5
  <2>3. b[c + (k - L)].value.instant <= b[n].value.instant
    BY <1>a, <2>2, BatchFacts
  <2>4. new[k].value.instant \in Nat /\ b[n].value.instant \in Nat
    BY <1>a, <1>1, <2>2, BatchFacts, Fields
  <2>6. b[n].value.instant <= T /\ k - L >= 1
    BY <1>a, <2>1
  <2>7. new[k].sequence = e + (k - L)
    BY <1>8, <2>1, <2>2, <2>6
  <2>8. new[k].value.instant <= T
    <3>1. PICK x \in Nat, y \in Nat : x = new[k].value.instant /\ y = b[n].value.instant
      BY <2>4
    <3>2. x <= y
      BY <2>2, <2>3, <3>1
    <3>3. y <= T /\ T \in Nat
      BY <1>a, <2>6, <3>1
    <3>4. x <= T
      BY <3>2, <3>3
    <3> QED BY <3>1, <3>4
  <2> QED BY <2>1, <2>2, <2>7, <2>8
<1>10. Grown(rec, new, d)
  <2>1. ASSUME NEW k \in (L + 1)..(L + l)
        PROVE  /\ HeadOf(rec) < new[k].sequence /\ d.sequence <= new[k].sequence
               /\ new[k] = At(d, new[k].sequence)
    <3>1. k - L \in Nat /\ k - L >= 1 /\ new[k] = At(d, e + (k - L)) /\ new[k].sequence = e + (k - L)
      BY <1>9
    <3> QED BY <1>1, <1>4, <3>1
  <2> QED BY <1>5, <1>7, <2>1 DEF Grown
<1>11. Len(new) \in Nat /\ new # <<>> /\ Newest(new) = b[n]
  <2>1. CASE l = 0
    <3>1. rec # <<>> /\ b[n] = Newest(rec) /\ Newest(rec) = rec[L] /\ L \in 1..L
      <4>1. n = c
        BY <1>1, <1>6, <2>1
      <4>2. rec # <<>> /\ b[n] = Newest(rec)
        BY <1>4, <4>1
      <4>3. Newest(rec) = rec[L] /\ L \in 1..L
        BY <1>5, <4>2, HeadFacts
      <4> QED BY <4>2, <4>3
    <3>2. new # <<>> /\ Len(new) = L
      BY <1>7, <2>1, <3>1
    <3>3. Newest(new) = new[L]
      BY <1>7, <3>2, HeadFacts
    <3> QED BY <1>7, <3>1, <3>2, <3>3
  <2>2. CASE l # 0
    <3>1. L + l \in (L + 1)..(L + l) /\ (L + l) - L = l /\ new # <<>>
      BY <1>7, <2>2
    <3>2. new[L + l] = At(d, e + l)
      BY <1>9, <3>1
    <3>3. b[n] = At(d, e + l)
      <4>1. b[n] = At(d, b[n].sequence)
        <5>1. n \in 1..n
          BY <1>1
        <5> QED BY <1>a, <5>1, BatchFacts
      <4>2. e + l = b[n].sequence
        BY <1>4, <1>6
      <4> QED BY <4>1, <4>2
    <3>4. Newest(new) = new[Len(new)]
      BY <1>7, <3>1, HeadFacts
    <3> QED BY <1>7, <3>1, <3>2, <3>3, <3>4
  <2> QED BY <2>1, <2>2
<1>12. \A k \in 1..Len(new) : new[k].value.instant <= T
  <2> SUFFICES ASSUME NEW k \in 1..(L + l) PROVE new[k].value.instant <= T
    BY <1>7
  <2>1. CASE k \in 1..L
    BY <1>5, <1>7, <2>1 DEF RecordInv
  <2>2. CASE k \in (L + 1)..(L + l)
    BY <1>9, <2>2
  <2> QED BY <2>1, <2>2
<1>13. ASSUME NEW j \in 1..(L + l), NEW k \in 1..(L + l), j < k
       PROVE  new[j].sequence < new[k].sequence /\ new[j].value.instant < new[k].value.instant
  <2>1. CASE k \in 1..L
    <3>1. j \in 1..L
      BY <1>13, <2>1
    <3> QED BY <1>5, <1>7, <1>13, <2>1, <3>1 DEF RecordInv
  <2>2. CASE k \in (L + 1)..(L + l) /\ j \in 1..L
    <3>1. /\ new[j] = rec[j] /\ rec # <<>> /\ rec[j].sequence <= HeadOf(rec)
          /\ rec[j].value.instant <= Newest(rec).value.instant
          /\ rec[j].sequence \in Nat /\ rec[j].value.instant \in Nat
      BY <1>5, <1>7, <2>2, NewestIsLast, Fields
    <3>2. PICK i \in Nat : i = k - L /\ i >= 1 /\ new[k] = At(d, e + i) /\ new[k].sequence = e + i
      BY <1>9, <2>2
    <3>3. At(d, e + 1).value.instant <= At(d, e + i).value.instant
      <4>1. PICK p \in Nat, q \in Nat : p = e + 1 /\ q = e + i /\ d.sequence <= p /\ p <= q
        <5>1. d.sequence \in Nat /\ d.sequence <= e + 1 /\ i >= 1
          BY <1>1, <1>4, <3>2
        <5>2. e + 1 \in Nat /\ e + i \in Nat /\ e + 1 <= e + i
          BY <5>1
        <5> QED BY <5>1, <5>2
      <4>2. At(d, p).value.instant <= At(d, q).value.instant
        BY <1>1, <4>1, AtAscends
      <4> QED BY <4>1, <4>2
    <3>4. At(d, e + 1).value.instant \in Nat /\ At(d, e + i).value.instant \in Nat
      <4>1. At(d, e + 1).value.instant \in Nat
        BY <1>8
      <4>2. At(d, e + i).value.instant \in Nat
        BY <1>8, <3>2
      <4> QED BY <4>1, <4>2
    <3>5. Newest(rec).value.instant < At(d, e + 1).value.instant /\ Newest(rec).value.instant \in Nat
      BY <1>4, <3>1, HeadFacts, Fields
    <3>6. new[j].sequence < new[k].sequence
      BY <1>1, <1>4, <3>1, <3>2
    <3>7. new[j].value.instant < new[k].value.instant
      <4>1. PICK x \in Nat, y \in Nat, v \in Nat, w \in Nat :
              /\ x = new[j].value.instant /\ y = Newest(rec).value.instant
              /\ v = At(d, e + 1).value.instant /\ w = At(d, e + i).value.instant
        BY <3>1, <3>4, <3>5
      <4>2. x <= y
        BY <3>1, <4>1
      <4>3. y < v /\ v <= w
        BY <3>3, <3>5, <4>1
      <4>4. w = new[k].value.instant
        BY <3>2, <4>1
      <4>5. x < w
        BY <4>2, <4>3
      <4> QED BY <4>1, <4>4, <4>5
    <3> QED BY <3>6, <3>7
  <2>3. CASE k \in (L + 1)..(L + l) /\ j \in (L + 1)..(L + l)
    <3>1. PICK i \in Nat : i = k - L /\ i >= 1 /\ new[k] = At(d, e + i) /\ new[k].sequence = e + i
      BY <1>9, <2>3
    <3>2. PICK h \in Nat : h = j - L /\ h >= 1 /\ new[j] = At(d, e + h) /\ new[j].sequence = e + h
      BY <1>9, <2>3
    <3>3. h < i
      BY <1>13, <3>1, <3>2
    <3>4. At(d, e + h).value.instant < At(d, e + i).value.instant
      <4>1. PICK p \in Nat, q \in Nat : p = e + h /\ q = e + i /\ d.sequence <= p /\ p < q
        <5>1. PICK a \in Nat : a = d.sequence /\ a <= e + 1
          BY <1>1, <1>4
        <5> QED BY <3>1, <3>2, <3>3, <5>1
      <4>2. At(d, p).value.instant < At(d, q).value.instant
        BY <1>1, <4>1, AtAscends
      <4> QED BY <4>1, <4>2
    <3>5. At(d, e + h).value.instant \in Nat /\ At(d, e + i).value.instant \in Nat
      BY <1>8, <3>1, <3>2
    <3> QED BY <3>1, <3>2, <3>3, <3>4, <3>5
  <2> QED BY <2>1, <2>2, <2>3
<1>14. ASSUME NEW k \in 1..((L + l) - 1), new[k + 1].sequence = new[k].sequence + 1
       PROVE  new[k + 1] = Later(new[k], 1)
  <2>1. CASE k + 1 \in 1..L
    <3>1. k \in 1..(L - 1) /\ k \in 1..L
      BY <2>1
    <3> QED BY <1>5, <1>7, <1>14, <2>1, <3>1 DEF RecordInv
  <2>2. CASE k = L
    <3>1. /\ k \in 1..L /\ rec # <<>> /\ new[k] = Newest(rec) /\ Newest(rec) \in TickType
          /\ HeadOf(rec) = Newest(rec).sequence
      BY <1>5, <1>7, <2>2, HeadFacts
    <3>2. k + 1 \in (L + 1)..(L + l) /\ (k + 1) - L = 1
      BY <2>2
    <3>3. new[k + 1] = At(d, e + 1) /\ new[k + 1].sequence = e + 1
      BY <1>9, <3>2
    <3>4. e = HeadOf(rec)
      BY <1>1, <1>14, <3>1, <3>3
    <3>5. At(d, e + 1) = At(Newest(rec), e + 1)
      BY <1>4, <3>1, <3>4
    <3> QED BY <3>1, <3>3, <3>4, <3>5, AtSelf
  <2>3. CASE k \in (L + 1)..(L + l)
    <3>1. PICK i \in Nat : i = k - L /\ i >= 1 /\ new[k] = At(d, e + i)
      BY <1>9, <2>3
    <3>2. k + 1 \in (L + 1)..(L + l) /\ (k + 1) - L = i + 1
      BY <2>3, <3>1
    <3>3. new[k + 1] = At(d, e + (i + 1))
      BY <1>9, <3>2
    <3>4. PICK q \in Nat : q = e + i /\ q >= d.sequence /\ e + (i + 1) = q + 1
      <4>1. e + i \in Nat /\ e + (i + 1) = (e + i) + 1
        OBVIOUS
      <4>2. d.sequence \in Nat /\ d.sequence <= e + 1 /\ i >= 1
        BY <1>1, <1>4, <3>1
      <4>3. e + i >= d.sequence
        BY <4>2
      <4> QED BY <4>1, <4>3
    <3>5. At(At(d, q), q + 1) = At(d, q + 1)
      BY <1>1, <3>4, AtAt
    <3>6. At(d, q) \in TickType /\ At(d, q).sequence = q
      BY <1>1, <3>4, AtIs
    <3>7. Later(At(d, q), 1) = At(At(d, q), q + 1)
      BY <3>6, AtSelf
    <3> QED BY <3>1, <3>3, <3>4, <3>5, <3>7
  <2> QED BY <2>1, <2>2, <2>3
<1>15. RecordInv(new, T)
  BY <1>7, <1>12, <1>13, <1>14 DEF RecordInv
<1> QED BY <1>2, <1>5, <1>6, <1>7, <1>10, <1>11, <1>15
-----------------------------------------------------------------------------
(* What a record has grown into *)

\* A record, and that record with what a market has published up to T.
Extended(rec, new, d, T) ==
  /\ rec \in Seq(TickType) /\ new \in Seq(TickType) /\ d \in TickType /\ T \in Nat
  /\ RecordInv(rec, T) /\ RecordInv(new, T)
  /\ Leads(rec, d) \/ Replays(rec, d)
  /\ Grown(rec, new, d)
  /\ new # <<>> /\ d.sequence <= HeadOf(new) /\ T < Newest(new).value.instant + Gap

\* What was recorded stays so, and the others are above the head it had.
LEMMA ExtendedFacts ==
  ASSUME NEW rec, NEW new, NEW d, NEW T, Extended(rec, new, d, T)
  PROVE  /\ HeadOf(rec) \in Nat /\ HeadOf(new) \in Nat /\ d.sequence \in Nat
         /\ HeadOf(rec) <= HeadOf(new)
         /\ rec # <<>> => Newest(rec).value.instant <= Newest(new).value.instant
         /\ \A x : Recorded(rec, x) => Recorded(new, x)
         /\ \A k \in 1..Len(new) :
              \/ k \in 1..Len(rec) /\ new[k] = rec[k] /\ new[k].sequence <= HeadOf(rec)
              \/ /\ HeadOf(rec) < new[k].sequence /\ d.sequence <= new[k].sequence
                 /\ new[k] = At(d, new[k].sequence)
<1>1. /\ rec \in Seq(TickType) /\ new \in Seq(TickType) /\ d \in TickType
      /\ RecordInv(rec, T) /\ RecordInv(new, T) /\ Grown(rec, new, d)
  BY DEF Extended
<1>2. PICK L \in Nat, N \in Nat : L = Len(rec) /\ N = Len(new) /\ L <= N
  BY <1>1, HeadFacts DEF Grown
<1>3. /\ \A k \in 1..L : new[k] = rec[k]
      /\ \A k \in (L + 1)..N : /\ HeadOf(rec) < new[k].sequence /\ d.sequence <= new[k].sequence
                               /\ new[k] = At(d, new[k].sequence)
  BY <1>1, <1>2 DEF Grown
<1>4. \A k \in 1..L : k \in 1..N
  BY <1>2
<1>5. HeadOf(rec) \in Nat /\ HeadOf(new) \in Nat /\ d.sequence \in Nat
  BY <1>1, HeadFacts, Fields
<1>6. CASE rec = <<>>
  <2>1. HeadOf(rec) = 0 /\ L = 0
    BY <1>1, <1>2, <1>6, HeadFacts
  <2>2. \A k \in 1..N : k \in (L + 1)..N
    BY <2>1
  <2> QED BY <1>2, <1>3, <1>5, <1>6, <2>1, <2>2 DEF Recorded
<1>7. CASE rec # <<>>
  <2>1. L \in 1..L /\ Newest(rec) = rec[L] /\ HeadOf(rec) = rec[L].sequence
    BY <1>1, <1>2, <1>7, HeadFacts
  <2>2. L \in 1..N /\ new[L] = rec[L]
    BY <1>3, <1>4, <2>1
  <2>3. new[L].sequence <= HeadOf(new) /\ new[L].value.instant <= Newest(new).value.instant
    BY <1>1, <1>2, <2>2, NewestIsLast
  <2>4. \A x : Recorded(rec, x) => Recorded(new, x)
    BY <1>2, <1>3, <1>4 DEF Recorded
  <2>5. ASSUME NEW k \in 1..N
        PROVE  \/ k \in 1..L /\ new[k] = rec[k] /\ new[k].sequence <= HeadOf(rec)
               \/ /\ HeadOf(rec) < new[k].sequence /\ d.sequence <= new[k].sequence
                  /\ new[k] = At(d, new[k].sequence)
    <3>1. CASE k \in 1..L
      <4>1. rec[k].sequence <= HeadOf(rec)
        BY <1>1, <1>2, <3>1, NewestIsLast
      <4> QED BY <1>3, <3>1, <4>1
    <3>2. CASE k \in (L + 1)..N
      BY <1>3, <3>2
    <3> QED BY <3>1, <3>2
  <2> QED BY <1>2, <1>5, <2>1, <2>2, <2>3, <2>4, <2>5
<1> QED BY <1>6, <1>7

\* A tick that is there already, or is above the head there was.
LEMMA NewlyRecorded ==
  ASSUME NEW rec, NEW new, NEW d, NEW T, Extended(rec, new, d, T), NEW x, Recorded(new, x)
  PROVE  \/ Recorded(rec, x) /\ x.sequence <= HeadOf(rec)
         \/ HeadOf(rec) < x.sequence /\ d.sequence <= x.sequence /\ x = At(d, x.sequence)
<1>1. PICK k \in 1..Len(new) : new[k] = x
  BY DEF Recorded
<1> QED BY <1>1, ExtendedFacts DEF Recorded

\* A tick the record replays stays so when what is published does not jump.
LEMMA RunGrows ==
  ASSUME NEW rec, NEW new, NEW d, NEW T, Extended(rec, new, d, T), NEW s, Replays(rec, s), ~Jumps(rec, d)
  PROVE  Replays(new, s)
<1>1. /\ rec \in Seq(TickType) /\ new \in Seq(TickType) /\ d \in TickType /\ RecordInv(rec, T)
      /\ Leads(rec, d) \/ Replays(rec, d)
  BY DEF Extended
<1>2. s \in TickType /\ rec # <<>> /\ s.sequence <= HeadOf(rec) /\ Newest(rec) = At(s, HeadOf(rec))
  BY <1>1, NewestOfRun
<1>3. HeadOf(rec) \in Nat
  BY <1>1, HeadFacts
<1>4. \A i \in Nat : At(d, i) = At(s, i)
  <2>1. \A i \in Nat : At(d, i) = At(Newest(rec), i)
    BY <1>1, <1>2, SameStream
  <2>2. \A i \in Nat : At(At(s, HeadOf(rec)), i) = At(s, i)
    BY <1>2, <1>3, AtAt
  <2> QED BY <1>2, <2>1, <2>2
<1>5. ASSUME NEW k \in 1..Len(new), new[k].sequence > s.sequence PROVE new[k] = At(s, new[k].sequence)
  <2>1. CASE k \in 1..Len(rec) /\ new[k] = rec[k]
    BY <1>5, <2>1 DEF Replays, RunFrom
  <2>2. CASE new[k] = At(d, new[k].sequence)
    <3>1. new[k] \in TickType
      BY <1>1, HeadFacts
    <3>2. new[k].sequence \in Nat
      BY <3>1, Fields
    <3> QED BY <1>4, <2>2, <3>2
  <2> QED BY <2>1, <2>2, ExtendedFacts
<1>6. Recorded(new, s)
  BY ExtendedFacts DEF Replays
<1> QED BY <1>5, <1>6 DEF Replays, RunFrom

\* A tick the record continues for less than a lease, or is more than a lease past,
\* stays one of the two.
LEMMA NearGrows ==
  ASSUME NEW rec, NEW new, NEW d, NEW T, Extended(rec, new, d, T), NEW s, Near(rec, s),
         Jumps(rec, d) => d.sequence > s.sequence + SequenceLease,
         ~Jumps(rec, d) /\ HeadOf(rec) <= s.sequence + SequenceLease => T <= s.value.instant + Slack
  PROVE  Near(new, s)
<1>1. /\ rec \in Seq(TickType) /\ new \in Seq(TickType) /\ d \in TickType
      /\ RecordInv(rec, T) /\ RecordInv(new, T) /\ new # <<>> /\ d.sequence <= HeadOf(new) /\ T \in Nat
  BY DEF Extended
<1>2. /\ Recorded(new, s) /\ Recorded(rec, s)
      /\ HeadOf(rec) \in Nat /\ HeadOf(new) \in Nat /\ d.sequence \in Nat /\ HeadOf(rec) <= HeadOf(new)
  BY ExtendedFacts DEF Near
<1>3. s \in TickType /\ s.sequence \in Nat /\ s.value.instant \in Nat
  BY <1>1, <1>2, RecordedFacts, Fields
<1>4. SequenceLease \in Nat /\ Slack \in Nat
  BY Constants
<1>5. CASE HeadOf(rec) > s.sequence + SequenceLease
  BY <1>2, <1>3, <1>4, <1>5 DEF Near
<1>6. CASE Jumps(rec, d)
  BY <1>1, <1>2, <1>3, <1>4, <1>6 DEF Near
<1>7. CASE ~Jumps(rec, d) /\ HeadOf(rec) <= s.sequence + SequenceLease
  <2>1. RunFrom(rec, s)
    BY <1>2, <1>3, <1>4, <1>7 DEF Near
  <2>2. RunFrom(new, s)
    BY <1>2, <1>7, <2>1, RunGrows DEF Replays
  <2>3. Newest(new).value.instant <= T /\ Newest(new).value.instant \in Nat
    BY <1>1, HeadFacts, Fields DEF RecordInv
  <2> QED BY <1>1, <1>2, <1>3, <1>4, <1>7, <2>2, <2>3 DEF Near
<1> QED BY <1>2, <1>3, <1>4, <1>5, <1>6, <1>7

\* A price in force stays so, whatever the market publishes after it.
LEMMA QuoteGrows ==
  ASSUME NEW rec, NEW new, NEW d, NEW T, Extended(rec, new, d, T), NEW t \in Nat,
         NEW price \in PriceType, QuoteInv(rec, price, t), After(rec, price, d)
  PROVE  /\ QuoteInv(new, price, t)
         /\ price # NoPrice => InForce(price, new) /\ price.asOf < Newest(new).value.instant + Gap
<1> SUFFICES ASSUME price # NoPrice
             PROVE  InForce(price, new) /\ price.asOf < Newest(new).value.instant + Gap
  BY DEF QuoteInv
<1>1. /\ rec \in Seq(TickType) /\ new \in Seq(TickType) /\ d \in TickType
      /\ RecordInv(rec, T) /\ RecordInv(new, T) /\ new # <<>> /\ d.sequence <= HeadOf(new)
      /\ Leads(rec, d) \/ Replays(rec, d)
  BY DEF Extended
<1>2. /\ price.asOf \in Int /\ Gap \in Nat \ {0} /\ d.value.instant \in Nat /\ d.sequence \in Nat
      /\ HeadOf(rec) \in Nat
  BY <1>1, Constants, Fields, HeadFacts DEF PriceType
<1>3. ASSUME NEW k \in 1..Len(new), HeadOf(rec) < new[k].sequence, d.sequence <= new[k].sequence,
             new[k] = At(d, new[k].sequence)
      PROVE  price.asOf < new[k].value.instant
  <2>1. new[k] \in TickType /\ new[k].sequence \in Nat /\ new[k].value.instant \in Nat
    BY <1>1, HeadFacts, Fields
  <2>2. CASE Leads(rec, d)
    <3>1. price.asOf < d.value.instant
      BY <2>2 DEF After
    <3>2. d.value.instant <= At(d, new[k].sequence).value.instant
      BY <1>1, <1>3, <2>1, AtIs
    <3> QED BY <1>2, <1>3, <2>1, <3>1, <3>2
  <2>3. CASE Replays(rec, d)
    <3>1. price.asOf < Newest(rec).value.instant + Gap
      BY <2>3 DEF After
    <3>2. d.sequence <= HeadOf(rec) /\ Newest(rec) = At(d, HeadOf(rec)) /\ rec # <<>>
      BY <1>1, <2>3, NewestOfRun
    <3>3. /\ Newest(rec) \in TickType /\ Newest(rec).sequence = HeadOf(rec)
          /\ Newest(rec).value.instant \in Nat
      BY <1>1, <3>2, HeadFacts, Fields
    <3>4. Later(Newest(rec), 1) = At(d, HeadOf(rec) + 1)
      <4>1. Later(Newest(rec), 1) = At(Newest(rec), HeadOf(rec) + 1)
        BY <3>3, AtSelf
      <4>2. At(At(d, HeadOf(rec)), HeadOf(rec) + 1) = At(d, HeadOf(rec) + 1)
        BY <1>1, <1>2, <3>2, AtAt
      <4> QED BY <3>2, <4>1, <4>2
    <3>5. Later(Newest(rec), 1).value.instant = Newest(rec).value.instant + Gap
      BY <3>3, NextTick
    <3>6. At(d, HeadOf(rec) + 1).value.instant <= At(d, new[k].sequence).value.instant
      <4>1. PICK p \in Nat, q \in Nat : p = HeadOf(rec) + 1 /\ q = new[k].sequence /\ d.sequence <= p /\ p <= q
        BY <1>2, <1>3, <2>1, <3>2
      <4>2. At(d, p).value.instant <= At(d, q).value.instant
        BY <1>1, <4>1, AtAscends
      <4> QED BY <4>1, <4>2
    <3>7. Newest(rec).value.instant + Gap <= new[k].value.instant
      BY <1>3, <3>4, <3>5, <3>6
    <3>8. PICK x \in Int : x = price.asOf
      BY <1>2
    <3>9. PICK v \in Nat, g \in Nat : v = Newest(rec).value.instant /\ g = Gap
      BY <1>2, <3>3
    <3>10. PICK z \in Nat : z = new[k].value.instant
      BY <2>1
    <3>11. x < v + g /\ v + g <= z
      BY <3>1, <3>7, <3>8, <3>9, <3>10
    <3>12. x < z
      BY <3>11
    <3> QED BY <3>8, <3>10, <3>12
  <2> QED BY <1>1, <2>2, <2>3
<1>4. PICK k \in DOMAIN rec : /\ rec[k] = price.tick
                             /\ \A j \in DOMAIN rec : j <= k <=> rec[j].value.instant <= price.asOf
  BY DEF QuoteInv, InForce
<1>5. /\ k \in 1..Len(rec) /\ k \in 1..Len(new) /\ new[k] = rec[k] /\ DOMAIN new = 1..Len(new)
      /\ DOMAIN rec = 1..Len(rec) /\ Len(rec) \in Nat /\ Len(new) \in Nat
      /\ \A j \in 1..Len(new) : j \in 1..Len(rec) \/ j > Len(rec)
  <2>1. Len(rec) \in Nat /\ Len(new) \in Nat /\ Len(rec) <= Len(new) /\ \A i \in 1..Len(rec) : new[i] = rec[i]
    BY <1>1, HeadFacts DEF Extended, Grown
  <2> QED BY <1>1, <1>4, <2>1
<1>6. ASSUME NEW j \in 1..Len(new) PROVE j <= k <=> new[j].value.instant <= price.asOf
  <2>1. CASE j \in 1..Len(rec) /\ new[j] = rec[j]
    BY <1>4, <1>5, <2>1
  <2>2. CASE /\ HeadOf(rec) < new[j].sequence /\ d.sequence <= new[j].sequence
             /\ new[j] = At(d, new[j].sequence)
    <3>1. price.asOf < new[j].value.instant /\ new[j].value.instant \in Nat
      BY <1>1, <1>3, <2>2, HeadFacts, Fields
    <3>2. ~(j <= k)
      <4> SUFFICES ASSUME j <= k PROVE FALSE
        OBVIOUS
      <4>1. j \in 1..Len(rec)
        BY <1>5
      <4>2. new[j] = rec[j]
        BY <1>1, <4>1 DEF Extended, Grown
      <4>3. rec[j].sequence <= HeadOf(rec) /\ rec[j].sequence \in Nat
        BY <1>1, <4>1, NewestIsLast, HeadFacts, Fields
      <4> QED BY <1>2, <2>2, <4>2, <4>3
    <3> QED BY <1>2, <3>1, <3>2
  <2> QED BY <2>1, <2>2, ExtendedFacts
<1>7. InForce(price, new)
  BY <1>4, <1>5, <1>6 DEF InForce
<1>8. price.asOf < Newest(new).value.instant + Gap
  <2>1. Newest(new) \in TickType /\ Len(new) \in 1..Len(new) /\ Newest(new) = new[Len(new)]
    BY <1>1, HeadFacts
  <2>2. Newest(new).value.instant \in Nat
    BY <2>1, Fields
  <2>3. CASE Len(new) \in 1..Len(rec) /\ new[Len(new)] = rec[Len(new)]
    <3>1. Leads(rec, d) => FALSE
      <4>1. rec[Len(new)].sequence <= HeadOf(rec) /\ HeadOf(new) = Newest(new).sequence
        BY <1>1, <2>3, NewestIsLast, HeadFacts
      <4>2. HeadOf(new) \in Nat
        BY <1>1, HeadFacts
      <4> QED BY <1>1, <1>2, <2>1, <2>3, <4>1, <4>2 DEF Leads
    <3>2. price.asOf < Newest(rec).value.instant + Gap
      BY <1>1, <3>1 DEF After
    <3>3. Newest(rec).value.instant <= Newest(new).value.instant /\ Newest(rec).value.instant \in Nat
      <4>1. rec # <<>>
        BY <2>3
      <4> QED BY <1>1, <4>1, ExtendedFacts, HeadFacts, Fields
    <3> QED BY <1>2, <2>2, <3>2, <3>3
  <2>4. CASE /\ HeadOf(rec) < new[Len(new)].sequence /\ d.sequence <= new[Len(new)].sequence
             /\ new[Len(new)] = At(d, new[Len(new)].sequence)
    BY <1>2, <1>3, <2>1, <2>2, <2>4
  <2> QED BY <2>1, <2>3, <2>4, ExtendedFacts
<1> QED BY <1>7, <1>8
\* A record's instants are behind every later clock.
LEMMA RecordAges ==
  ASSUME NEW rec \in Seq(TickType), NEW T \in Nat, NEW t \in Nat, T <= t, RecordInv(rec, T)
  PROVE  RecordInv(rec, t)
<1>1. \A k \in 1..Len(rec) : rec[k].value.instant \in Nat /\ rec[k].value.instant <= T
  BY HeadFacts, Fields DEF RecordInv
<1>2. \A k \in 1..Len(rec) : rec[k].value.instant <= t
  BY <1>1
<1> QED BY <1>2 DEF RecordInv

\* What goes on from the newest tick of a record leaves a price in force that is
\* not past it.
LEMMA NextIsAfter ==
  ASSUME NEW rec \in Seq(TickType), rec # <<>>, NEW d \in TickType, ~Jumps(rec, d),
         NEW price \in PriceType, price # NoPrice => price.asOf < Newest(rec).value.instant + Gap
  PROVE  After(rec, price, d)
<1>1. /\ Newest(rec) \in TickType /\ HeadOf(rec) \in Nat /\ d.sequence \in Nat
      /\ Later(Newest(rec), 1).value.instant = Newest(rec).value.instant + Gap
  BY HeadFacts, Fields, NextTick
<1>2. Leads(rec, d) => d = Later(Newest(rec), 1)
  BY <1>1 DEF Leads, Jumps
<1> QED BY <1>1, <1>2 DEF After

\* A checkpoint beside what a market publishes.
LEMMA SavedGrows ==
  ASSUME NEW rec, NEW new, NEW d, NEW T, Extended(rec, new, d, T), NEW t \in Nat, T <= t,
         NEW cp \in CheckpointType \cup {NoCheckpoint}, NEW price, NEW price2 \in PriceType,
         NEW stalled, SavedInv(rec, cp, price, t), Heir(rec, cp, t, d, stalled),
         cp # NoCheckpoint /\ cp.last # NoTick /\ Jumps(rec, d) =>
           d.sequence > cp.last.sequence + SequenceLease,
         Follows(rec, cp) /\ ~Jumps(rec, d) => T <= cp.last.value.instant + Slack,
         price2 # NoPrice => price2.asOf < Newest(new).value.instant + Gap
  PROVE  SavedInv(new, cp, price2, t)
<1> SUFFICES ASSUME cp # NoCheckpoint PROVE SavedInv(new, cp, price2, t)
  BY DEF SavedInv
<1>1. /\ rec \in Seq(TickType) /\ new \in Seq(TickType) /\ d \in TickType /\ T \in Nat
      /\ RecordInv(rec, T) /\ RecordInv(new, T) /\ new # <<>> /\ d.sequence <= HeadOf(new)
      /\ Leads(rec, d) \/ Replays(rec, d)
  BY DEF Extended
<1>2. /\ cp \in CheckpointType /\ cp.drawn \in TickType /\ cp.drawn.sequence \in Nat
      /\ cp.last # NoTick => cp.last \in TickType
  BY CheckpointFacts, Fields
<1>3. RecordInv(rec, t) /\ RecordInv(new, t)
  BY <1>1, RecordAges
<1>4. cp.last # NoTick => Near(new, cp.last)
  <2> SUFFICES ASSUME cp.last # NoTick PROVE Near(new, cp.last)
    OBVIOUS
  <2>1. Near(rec, cp.last)
    BY DEF SavedInv
  <2>2. ~Jumps(rec, d) /\ HeadOf(rec) <= cp.last.sequence + SequenceLease => T <= cp.last.value.instant + Slack
    BY DEF Follows
  <2> QED BY <2>1, <2>2, NearGrows
<1>5. ASSUME Resumable(cp, t) PROVE Resumes(new, price2, cp.drawn, t)
  <2> DEFINE s == cp.drawn
  <2>1. Resumes(rec, price, s, t)
    BY <1>5 DEF SavedInv
  <2>2. s \in TickType /\ s.sequence \in Nat /\ HeadOf(rec) \in Nat /\ HeadOf(new) \in Nat /\ HeadOf(rec) <= HeadOf(new)
    BY <1>2, ExtendedFacts
  <2>3. s.sequence <= HeadOf(rec) + 1
    BY <1>1, <1>2, <1>3, <1>5, UsableFacts DEF Resumable
  <2>4. After(new, price2, s)
    <3>1. ~Jumps(new, s)
      BY <2>2, <2>3 DEF Jumps
    <3> QED BY <1>1, <2>2, <3>1, NextIsAfter
  <2>5. CASE Recorded(rec, s) /\ Late(t, s.value.instant)
    <3>1. Recorded(new, s)
      BY <2>5, ExtendedFacts
    <3> QED BY <2>4, <2>5, <3>1 DEF Resumes
  <2>6. CASE Recorded(rec, s) /\ ~Late(t, s.value.instant)
    <3>1. ~Jumps(rec, d)
      BY <1>5, <2>6 DEF Heir
    <3>2. Replays(rec, s)
      <4>1. s.sequence <= HeadOf(rec)
        BY <1>1, <2>6, RecordedFacts
      <4>2. ~Leads(rec, s) /\ ~Lost(rec, s)
        BY <2>2, <2>6, <4>1 DEF Leads, Lost
      <4> QED BY <2>1, <2>6, <4>2 DEF Resumes, Forward
    <3>3. Replays(new, s)
      BY <3>1, <3>2, RunGrows
    <3> QED BY <2>4, <3>3 DEF Resumes, Forward
  <2>7. CASE ~Recorded(rec, s) /\ s.sequence <= HeadOf(rec)
    <3>1. ~Recorded(new, s)
      BY <2>2, <2>7, NewlyRecorded
    <3>2. Lost(new, s)
      BY <2>2, <2>7, <3>1 DEF Lost
    <3> QED BY <2>4, <3>2 DEF Resumes, Forward
  <2>8. CASE ~Recorded(rec, s) /\ s.sequence > HeadOf(rec) /\ Recorded(new, s)
    <3>1. d.sequence <= s.sequence /\ s = At(d, s.sequence) /\ s.sequence = HeadOf(rec) + 1
      BY <2>2, <2>3, <2>8, NewlyRecorded
    <3>2. \A i \in Nat : At(At(d, s.sequence), i) = At(d, i)
      BY <1>1, <2>2, <3>1, AtAt
    <3>3. ASSUME NEW k \in 1..Len(new), new[k].sequence > s.sequence PROVE new[k] = At(s, new[k].sequence)
      <4>1. new[k].sequence \in Nat
        BY <1>1, HeadFacts, Fields
      <4>2. new[k] = At(d, new[k].sequence)
        <5>1. ~(new[k].sequence <= HeadOf(rec))
          BY <2>2, <3>1, <3>3, <4>1
        <5> QED BY <5>1, ExtendedFacts
      <4> QED BY <3>1, <3>2, <4>1, <4>2
    <3>4. Replays(new, s)
      BY <2>8, <3>3 DEF Replays, RunFrom
    <3> QED BY <2>4, <3>4 DEF Resumes, Forward
  <2>9. CASE s.sequence > HeadOf(rec) /\ ~Recorded(new, s) /\ s.sequence <= HeadOf(new)
    <3>1. Lost(new, s)
      BY <2>9 DEF Lost
    <3> QED BY <2>4, <3>1 DEF Resumes, Forward
  <2>10. CASE s.sequence > HeadOf(new)
    \* the record has not grown
    <3>1. HeadOf(new) = HeadOf(rec) /\ s.sequence = HeadOf(new) + 1
      BY <2>2, <2>3, <2>10
    <3>2. rec # <<>>
      <4>1. HeadOf(new) >= 1
        BY <1>1, HeadFacts
      <4> QED BY <1>1, <3>1, <4>1, HeadFacts
    <3>3. Newest(new) = Newest(rec)
      <4>1. Len(new) \in 1..Len(new) /\ Newest(new) = new[Len(new)] /\ new[Len(new)].sequence = HeadOf(new)
        BY <1>1, HeadFacts
      <4>2. Len(new) \in 1..Len(rec) /\ new[Len(new)] = rec[Len(new)]
        <5>1. ~(HeadOf(rec) < new[Len(new)].sequence)
          BY <2>2, <3>1, <4>1
        <5> QED BY <4>1, <5>1, ExtendedFacts
      <4> QED BY <1>1, <3>1, <4>1, <4>2, NewestIsLast
    <3>4. ~Recorded(rec, s)
      <4> SUFFICES ASSUME Recorded(rec, s) PROVE FALSE
        OBVIOUS
      <4>1. s.sequence <= HeadOf(rec)
        BY <1>1, RecordedFacts
      <4> QED BY <2>2, <3>1, <4>1
    <3>5. Leads(rec, s)
      <4>1. ~Lost(rec, s)
        BY <2>2, <3>1 DEF Lost
      <4> QED BY <2>1, <3>4, <4>1 DEF Resumes, Forward, Replays
    <3>6. Leads(new, s)
      BY <3>1, <3>2, <3>3, <3>5 DEF Leads
    <3> QED BY <2>4, <3>6 DEF Resumes, Forward
  <2> QED BY <2>2, <2>5, <2>6, <2>7, <2>8, <2>9, <2>10
<1> QED BY <1>4, <1>5 DEF SavedInv

\* The market that published it, beside it.
LEMMA MarketGrows ==
  ASSUME NEW rec, NEW new, NEW d, NEW T, Extended(rec, new, d, T), NEW t \in Nat, T <= t,
         NEW cp \in CheckpointType \cup {NoCheckpoint}, NEW price, NEW price2 \in PriceType,
         SavedInv(rec, cp, price, t),
         price2 # NoPrice => price2.asOf < Newest(new).value.instant + Gap,
         NEW m \in MarketType, m.last = Newest(new), m.drawn = Later(m.last, 1), m.advancedAt = T
  PROVE  OpenInv(new, cp, price2, t, m, FALSE) /\ ~Recorded(new, m.drawn)
<1>1. /\ rec \in Seq(TickType) /\ new \in Seq(TickType) /\ T \in Nat
      /\ RecordInv(rec, T) /\ RecordInv(new, T) /\ new # <<>>
  BY DEF Extended
<1>2. /\ m.last \in TickType /\ m.last = new[Len(new)] /\ Len(new) \in 1..Len(new)
      /\ HeadOf(new) = m.last.sequence /\ HeadOf(new) \in Nat
      /\ m.last # NoTick /\ m.last.value.instant \in Nat
  BY <1>1, HeadFacts, Fields
<1>3. /\ m.drawn \in TickType /\ m.drawn.sequence = HeadOf(new) + 1
      /\ m.drawn.value.instant = m.last.value.instant + Gap
  BY <1>2, NextTick
<1>4. ~Jumps(new, m.drawn) /\ ~Lost(new, m.drawn) /\ Leads(new, m.drawn)
  BY <1>2, <1>3, Constants DEF Jumps, Lost, Leads
<1>5. ~Recorded(new, m.drawn)
  <2> SUFFICES ASSUME Recorded(new, m.drawn) PROVE FALSE
    OBVIOUS
  <2>1. m.drawn.sequence <= HeadOf(new)
    BY <1>1, RecordedFacts
  <2> QED BY <1>2, <1>3, <2>1
<1>6. Resumes(new, price2, m.drawn, t)
  BY <1>1, <1>3, <1>4, NextIsAfter DEF Resumes, Forward
<1>7. Near(new, m.last)
  <2>1. Recorded(new, m.last)
    BY <1>2 DEF Recorded
  <2>2. RunFrom(new, m.last)
    <3> SUFFICES ASSUME NEW k \in 1..Len(new), new[k].sequence > m.last.sequence PROVE FALSE
      BY DEF RunFrom
    <3>1. new[k].sequence <= HeadOf(new) /\ new[k].sequence \in Nat
      BY <1>1, NewestIsLast, HeadFacts, Fields
    <3> QED BY <1>2, <3>1
  <2>3. m.last.value.instant <= m.last.value.instant + Slack
    BY <1>2, Constants
  <2> QED BY <2>1, <2>2, <2>3 DEF Near
<1>8. Heir(new, cp, t, m.drawn, FALSE)
  BY <1>4 DEF Heir
<1>9. cp # NoCheckpoint /\ cp.last # NoTick => cp.last.sequence <= m.last.sequence
  <2> SUFFICES ASSUME cp # NoCheckpoint, cp.last # NoTick PROVE cp.last.sequence <= m.last.sequence
    OBVIOUS
  <2>1. Recorded(rec, cp.last)
    BY DEF SavedInv, Near
  <2>2. Recorded(new, cp.last)
    BY <2>1, ExtendedFacts
  <2> QED BY <1>1, <1>2, <2>2, RecordedFacts
<1>10. Recorded(new, cp.drawn) => cp.drawn.value.instant <= Watch(m)
  <2> SUFFICES ASSUME Recorded(new, cp.drawn) PROVE cp.drawn.value.instant <= Watch(m)
    OBVIOUS
  <2>1. cp.drawn.value.instant <= T /\ cp.drawn.value.instant \in Nat
    BY <1>1, RecordedFacts, Fields
  <2>2. m.floor \in Nat
    BY DEF MarketType
  <2> QED BY <1>1, <2>1, <2>2 DEF Watch, Larger
<1> QED BY <1>2, <1>5, <1>6, <1>7, <1>8, <1>9, <1>10 DEF OpenInv
-----------------------------------------------------------------------------
(* Opening a market *)

\* A primed engine before its first tick.
Started(sequence, instant, epoch, first, last) ==
  Primed(Hosted(EngineAt(sequence, instant, epoch, first), instant, FALSE, last))

\* What it is.
Awaits(m, sequence, instant, epoch, first, last) ==
  /\ m \in MarketType /\ m.drawn.sequence = sequence + 1 /\ m.drawn.value.epoch = epoch
  /\ m.drawn.value.instant = instant + first
  /\ m.floor = instant /\ m.last = last /\ m.advancedAt = -1

\* It is that.
LEMMA PrimedAt ==
  ASSUME NEW sequence \in Nat, NEW instant \in Nat, NEW epoch \in Nat, NEW first \in Nat,
         NEW last \in MaybeTick, NEW m, m = Started(sequence, instant, epoch, first, last)
  PROVE  Awaits(m, sequence, instant, epoch, first, last)
<1> DEFINE e == EngineAt(sequence, instant, epoch, first)
           h == Hosted(e, instant, FALSE, last)
           d == Later(e, 1)
<1>1. NextUnpublished(h) = d
  BY DEF NextUnpublished, Hosted
<1>2. m = [drawn |-> d, floor |-> instant, pending |-> TRUE, last |-> last, advancedAt |-> -1]
  BY <1>1 DEF Started, Primed, Hosted, Never
<1>3. Gap \in Int /\ 1 * Gap = Gap /\ instant + first - Gap + Gap = instant + first
  BY Constants
<1>4. d = [sequence |-> sequence + 1, value |-> [instant |-> instant + first, epoch |-> epoch]]
  BY <1>3 DEF Later, EngineAt
<1>5. d \in TickType
  BY <1>4 DEF TickType
<1>6. /\ d.sequence = sequence + 1 /\ d.value.instant = instant + first
      /\ d.value.epoch = epoch
  BY <1>4
<1> HIDE DEF d
<1>7. m.drawn = d /\ m.floor = instant /\ m.last = last /\ m.advancedAt = -1
  BY <1>2
<1>8. m \in MarketType
  <2>1. -1 \in Int /\ instant \in Nat /\ last \in MaybeTick /\ TRUE \in {TRUE} /\ d \in TickType
    BY <1>5
  <2> QED BY <1>2, <2>1 DEF MarketType
<1> QED BY <1>6, <1>7, <1>8 DEF Awaits

\* A market whose next tick is past everything the record and the clock show, or
\* is a number the record has passed by.
LEMMA PastASeam ==
  ASSUME NEW rec \in Seq(TickType), NEW t \in Nat, RecordInv(rec, t),
         NEW price \in PriceType, QuoteInv(rec, price, t),
         NEW cp \in CheckpointType \cup {NoCheckpoint}, NEW m \in MarketType, NEW stalled \in BOOLEAN,
         m.floor = t, m.advancedAt = -1, m.drawn.value.instant >= t,
         rec = <<>> \/ (m.drawn.value.instant > t /\ ~(m.drawn.sequence = HeadOf(rec) + 1)),
         m.last = NoTick => m.drawn.sequence = 1,
         m.last # NoTick => Near(rec, m.last) /\ m.drawn.sequence > m.last.sequence + SequenceLease,
         cp # NoCheckpoint /\ cp.last # NoTick =>
           m.last # NoTick /\ cp.last.sequence <= m.last.sequence,
         Resumable(cp, t) => stalled /\ (Recorded(rec, cp.drawn) => Late(t, cp.drawn.value.instant))
  PROVE  /\ MarketInv(m) /\ OpenInv(rec, cp, price, t, m, stalled)
         /\ ~Continues(m.drawn, m.last)
<1>1. /\ m.drawn \in TickType /\ m.drawn.sequence \in Nat \ {0} /\ m.drawn.value.instant \in Nat
      /\ m.last # NoTick => m.last \in TickType /\ m.last.sequence \in Nat
      /\ SequenceLease \in Nat \ {0} /\ MaxCatchUp \in Nat /\ price.asOf \in Int /\ HeadOf(rec) \in Nat
  BY Constants, Fields, HeadFacts DEF MarketType, MaybeTick, PriceType
<1>2. ~Continues(m.drawn, m.last)
  <2> SUFFICES ASSUME m.last # NoTick, m.drawn = Later(m.last, 1) PROVE FALSE
    BY DEF Continues
  <2>1. m.drawn.sequence = m.last.sequence + 1
    BY <1>1, NextTick
  <2> QED BY <1>1, <2>1
<1>3. MarketInv(m)
  <2>1. m.floor <= m.drawn.value.instant /\ m.advancedAt <= m.drawn.value.instant + MaxCatchUp
    <3>1. PICK x \in Nat, c \in Nat : x = m.drawn.value.instant /\ c = MaxCatchUp
      BY <1>1
    <3>2. t <= x /\ -1 <= x + c
      BY <3>1
    <3> QED BY <3>1, <3>2
  <2>2. Shape(m.drawn, m.last)
    BY <1>1 DEF Shape
  <2> QED BY <2>1, <2>2 DEF MarketInv
<1>4. ~Recorded(rec, m.drawn)
  <2> SUFFICES ASSUME Recorded(rec, m.drawn) PROVE FALSE
    OBVIOUS
  <2>1. m.drawn.value.instant <= t /\ rec # <<>>
    BY RecordedFacts
  <2> QED BY <1>1, <2>1
<1>5. Forward(rec, m.drawn)
  <2>1. CASE m.drawn.sequence <= HeadOf(rec)
    BY <1>4, <2>1 DEF Forward, Lost
  <2>2. CASE m.drawn.sequence > HeadOf(rec) /\ rec = <<>>
    BY <2>2 DEF Forward, Leads
  <2>3. CASE m.drawn.sequence > HeadOf(rec) /\ rec # <<>>
    <3>1. Newest(rec).value.instant <= t /\ Newest(rec).value.instant \in Nat
      BY <2>3, HeadFacts, Fields DEF RecordInv
    <3>2. Newest(rec).value.instant < m.drawn.value.instant
      BY <1>1, <2>3, <3>1
    <3> QED BY <2>3, <3>2 DEF Forward, Leads
  <2> QED BY <1>1, <2>1, <2>2, <2>3
<1>6. After(rec, price, m.drawn)
  <2> SUFFICES ASSUME price # NoPrice PROVE price.asOf < m.drawn.value.instant
    BY <1>4 DEF After, Replays
  <2>1. price.asOf <= t /\ rec # <<>>
    BY DEF QuoteInv, InForce
  <2> QED BY <1>1, <2>1
<1>7. Heir(rec, cp, t, m.drawn, stalled)
  BY DEF Heir
<1>8. Recorded(rec, cp.drawn) => cp.drawn.value.instant <= Watch(m)
  <2> SUFFICES ASSUME Recorded(rec, cp.drawn) PROVE cp.drawn.value.instant <= Watch(m)
    OBVIOUS
  <2>1. cp.drawn.value.instant <= t
    BY RecordedFacts
  <2>2. Watch(m) = t
    BY DEF Watch, Larger
  <2> QED BY <2>1, <2>2
<1>9. OpenInv(rec, cp, price, t, m, stalled)
  BY <1>4, <1>5, <1>6, <1>7, <1>8 DEF OpenInv, Resumes
<1> QED BY <1>2, <1>3, <1>9

\* A record's newest tick is one it does not go on from.
LEMMA NewestIsNear ==
  ASSUME NEW rec \in Seq(TickType), NEW t, RecordInv(rec, t), rec # <<>>
  PROVE  Near(rec, Newest(rec))
<1>1. /\ Newest(rec) \in TickType /\ Newest(rec) = rec[Len(rec)] /\ Len(rec) \in 1..Len(rec)
      /\ HeadOf(rec) = Newest(rec).sequence /\ Newest(rec).sequence \in Nat
      /\ Newest(rec).value.instant \in Nat /\ Slack \in Nat
  BY HeadFacts, Fields, Constants
<1>2. Recorded(rec, Newest(rec))
  BY <1>1 DEF Recorded
<1>3. RunFrom(rec, Newest(rec))
  <2> SUFFICES ASSUME NEW k \in 1..Len(rec), rec[k].sequence > HeadOf(rec) PROVE FALSE
    BY <1>1 DEF RunFrom
  <2>1. rec[k].sequence <= HeadOf(rec) /\ rec[k].sequence \in Nat
    BY NewestIsLast, HeadFacts, Fields
  <2> QED BY <1>1, <2>1
<1> QED BY <1>1, <1>2, <1>3 DEF Near

\* A market that goes on from a checkpoint, or past it, last published what it saw.
SameLast(cp, m) == cp # NoCheckpoint => m.last = cp.last

\* However a market is opened, it fits the record, the checkpoint and the price in
\* force.
LEMMA OpeningFits ==
  ASSUME Deployed, NEW rec \in Seq(TickType), NEW t \in Nat, RecordInv(rec, t),
         NEW price \in PriceType, QuoteInv(rec, price, t),
         NEW cp \in CheckpointType \cup {NoCheckpoint}, SavedInv(rec, cp, price, t),
         NEW m, m = Primed(Opening(cp, Newest(rec), t, t).market)
  PROVE  /\ m \in MarketType
         /\ MarketInv(m) /\ OpenInv(rec, cp, price, t, m, FALSE)
         /\ \A at : LagInv(rec, cp, m, FALSE, at, Slack - MaxCatchUp)
         /\ SameLast(cp, m)
<1>1. /\ Newest(rec) \in MaybeTick /\ HeadOf(rec) \in Nat
      /\ rec = <<>> => Newest(rec) = NoTick
      /\ rec # <<>> => /\ Newest(rec) \in TickType /\ Newest(rec) # NoTick /\ HeadOf(rec) = Newest(rec).sequence
                       /\ Newest(rec).value.instant <= t /\ Newest(rec).value.instant \in Nat
  BY HeadFacts, Fields DEF MaybeTick, RecordInv
<1>2. EpochSpan \in Nat /\ SeamGap \in Nat \ {0} /\ GenesisGap \in Nat /\ SequenceLease \in Nat \ {0} /\ t * EpochSpan \in Nat
  BY Constants DEF Deployed
<1>3. CASE cp = NoCheckpoint /\ rec = <<>>
  <2>1. Opening(cp, Newest(rec), t, t).market = Hosted(EngineAt(0, t, t * EpochSpan, GenesisGap), t, FALSE, NoTick)
    BY <1>1, <1>3 DEF Opening, FreshMarket, StartKeyEpoch
  <2>2. /\ m \in MarketType /\ m.drawn.sequence = 0 + 1 /\ m.drawn.value.instant = t + GenesisGap
        /\ m.floor = t /\ m.last = NoTick /\ m.advancedAt = -1
    <3>1. NoTick \in MaybeTick /\ 0 \in Nat
      BY DEF MaybeTick
    <3>2. m = Started(0, t, t * EpochSpan, GenesisGap, NoTick)
      BY <2>1 DEF Started
    <3>3. Awaits(m, 0, t, t * EpochSpan, GenesisGap, NoTick)
      BY <1>2, <3>1, <3>2, PrimedAt
    <3> QED BY <3>3 DEF Awaits
  <2>3. ~Resumable(cp, t) /\ ~Follows(rec, cp)
    BY <1>3 DEF Resumable, Follows
  <2>4. m.drawn.value.instant >= t /\ m.drawn.sequence = 1
    BY <1>2, <2>2
  <2>5. MarketInv(m) /\ OpenInv(rec, cp, price, t, m, FALSE)
    BY <1>3, <2>2, <2>3, <2>4, PastASeam
  <2> QED BY <1>3, <2>2, <2>3, <2>5 DEF LagInv, SameLast
<1>4. CASE cp = NoCheckpoint /\ rec # <<>>
  <2>1. Opening(cp, Newest(rec), t, t).market =
          Hosted(EngineAt(HeadOf(rec) + SequenceLease, t, t * EpochSpan, SeamGap), t, FALSE, Newest(rec))
    <3>1. Larger(Larger(t, t), Newest(rec).value.instant) = t
      BY <1>1, <1>4 DEF Larger
    <3> QED BY <1>1, <1>4, <3>1 DEF Opening, SeamPastRecord, Seamed, StartKeyEpoch
  <2>2. /\ m \in MarketType /\ m.drawn.sequence = HeadOf(rec) + SequenceLease + 1
        /\ m.drawn.value.instant = t + SeamGap
        /\ m.floor = t /\ m.last = Newest(rec) /\ m.advancedAt = -1
    <3>1. HeadOf(rec) + SequenceLease \in Nat
      BY <1>1, <1>2
    <3>2. m = Started(HeadOf(rec) + SequenceLease, t, t * EpochSpan, SeamGap, Newest(rec))
      BY <2>1 DEF Started
    <3>3. SeamGap \in Nat
      BY <1>2
    <3>4. Awaits(m, HeadOf(rec) + SequenceLease, t, t * EpochSpan, SeamGap, Newest(rec))
      BY <1>1, <1>2, <3>1, <3>2, <3>3, PrimedAt
    <3> QED BY <3>4 DEF Awaits
  <2>3. ~Resumable(cp, t) /\ ~Follows(rec, cp)
    BY <1>4 DEF Resumable, Follows
  <2>4. /\ m.drawn.value.instant >= t /\ m.drawn.value.instant > t /\ ~(m.drawn.sequence = HeadOf(rec) + 1)
        /\ m.drawn.sequence > m.last.sequence + SequenceLease
    <3>1. PICK h \in Nat, l \in Nat, g \in Nat, x \in Nat :
            h = HeadOf(rec) /\ l = SequenceLease /\ l >= 1 /\ g = SeamGap /\ g >= 1 /\ x = t
      BY <1>1, <1>2
    <3>2. m.drawn.sequence = h + l + 1 /\ m.drawn.value.instant = x + g
      BY <2>2, <3>1
    <3>3. m.last.sequence = h
      BY <1>1, <1>4, <2>2, <3>1
    <3>4. x + g >= x /\ x + g > x /\ h + l + 1 # h + 1 /\ h + l + 1 > h + l
      BY <3>1
    <3> QED BY <3>1, <3>2, <3>3, <3>4
  <2>5. Near(rec, m.last) /\ m.last # NoTick
    BY <1>1, <1>4, <2>2, NewestIsNear
  <2>6. MarketInv(m) /\ OpenInv(rec, cp, price, t, m, FALSE)
    BY <1>4, <2>2, <2>3, <2>4, <2>5, PastASeam
  <2> QED BY <1>4, <2>2, <2>3, <2>6 DEF LagInv, SameLast
<1>5. CASE cp # NoCheckpoint /\ ~Resumable(cp, t)
  <2>1. /\ cp.drawn \in TickType /\ cp.drawn.value.epoch \in Nat /\ cp.leased \in Nat /\ cp.last \in MaybeTick
        /\ cp.last # NoTick => /\ cp.last \in TickType /\ cp.last.sequence \in Nat
                               /\ Near(rec, cp.last) /\ cp.last.sequence <= HeadOf(rec) /\ rec # <<>>
                               /\ cp.last.value.instant <= t /\ cp.last.value.instant \in Nat
    <3>1. cp.drawn \in TickType /\ cp.leased \in Nat /\ cp.last \in MaybeTick
      BY <1>5, CheckpointFacts
    <3>2. cp.last # NoTick => Near(rec, cp.last)
      BY <1>5 DEF SavedInv
    <3>3. cp.last # NoTick => /\ cp.last \in TickType /\ cp.last.sequence <= HeadOf(rec) /\ rec # <<>>
                              /\ cp.last.value.instant <= t
      BY <3>2, RecordedFacts DEF Near
    <3> QED BY <3>1, <3>2, <3>3, Fields
  <2>2. PICK epoch \in Nat : epoch = StartKeyEpochAfter(t, cp.drawn.value.epoch)
    BY <1>2, <2>1 DEF StartKeyEpochAfter, Larger
  <2>3. Opening(cp, Newest(rec), t, t).market = SeamFrom(cp, Newest(rec), t, t)
    BY <1>5 DEF Opening, Resumable
  <2>4. CASE cp.last = NoTick
    <3>1. SeamFrom(cp, Newest(rec), t, t) = Hosted(EngineAt(0, t, epoch, SeamGap), t, FALSE, NoTick)
      BY <2>2, <2>4 DEF SeamFrom, Seamed, Larger
    <3>2. /\ m \in MarketType /\ m.drawn.sequence = 0 + 1 /\ m.drawn.value.instant = t + SeamGap
          /\ m.floor = t /\ m.last = NoTick /\ m.advancedAt = -1
      <4>1. NoTick \in MaybeTick /\ 0 \in Nat
        BY DEF MaybeTick
      <4>2. m = Started(0, t, epoch, SeamGap, NoTick)
        BY <2>3, <3>1 DEF Started
      <4>3. SeamGap \in Nat
        BY <1>2
      <4>4. Awaits(m, 0, t, epoch, SeamGap, NoTick)
        BY <4>1, <4>2, <4>3, PrimedAt
      <4> QED BY <4>4 DEF Awaits
    <3>3. /\ m.drawn.value.instant >= t /\ m.drawn.value.instant > t /\ m.drawn.sequence = 1
          /\ rec # <<>> => ~(m.drawn.sequence = HeadOf(rec) + 1)
      BY <1>2, <3>2, HeadFacts
    <3>4. MarketInv(m) /\ OpenInv(rec, cp, price, t, m, FALSE)
      BY <1>5, <2>4, <3>2, <3>3, PastASeam
    <3> QED BY <2>4, <3>2, <3>4 DEF LagInv, Follows, SameLast
  <2>5. CASE cp.last # NoTick
    <3>1. PICK known \in Nat : /\ known >= HeadOf(rec) + SequenceLease
                              /\ SeamFrom(cp, Newest(rec), t, t) =
                                   Hosted(EngineAt(known, t, epoch, SeamGap), t, FALSE, cp.last)
      <4>1. Larger(cp.last.value.instant, t) = t
        BY <2>1, <2>5 DEF Larger
      <4>2. (IF Newest(rec) = NoTick THEN 0 ELSE Newest(rec).sequence) = HeadOf(rec)
        BY <1>1, <2>1, <2>5
      <4>3. PICK known \in Nat : /\ known >= HeadOf(rec) + SequenceLease
                                /\ known = Larger(cp.leased, Larger(cp.last.sequence, HeadOf(rec)) + SequenceLease)
        BY <1>1, <1>2, <2>1, <2>5 DEF Larger
      <4>4. SeamFrom(cp, Newest(rec), t, t) = Hosted(EngineAt(known, t, epoch, SeamGap), t, FALSE, cp.last)
        BY <2>2, <2>5, <4>1, <4>2, <4>3 DEF SeamFrom, Seamed
      <4> QED BY <4>3, <4>4
    <3>2. /\ m \in MarketType /\ m.drawn.sequence = known + 1 /\ m.drawn.value.instant = t + SeamGap
          /\ m.floor = t /\ m.last = cp.last /\ m.advancedAt = -1
      <4>1. m = Started(known, t, epoch, SeamGap, cp.last)
        BY <2>3, <3>1 DEF Started
      <4>2. SeamGap \in Nat /\ cp.last \in MaybeTick
        BY <1>2, <2>1
      <4>3. Awaits(m, known, t, epoch, SeamGap, cp.last)
        BY <4>1, <4>2, PrimedAt
      <4> QED BY <4>3 DEF Awaits
    <3>3. /\ m.drawn.value.instant >= t /\ m.drawn.value.instant > t
          /\ ~(m.drawn.sequence = HeadOf(rec) + 1) /\ m.drawn.sequence > m.last.sequence + SequenceLease
      <4>1. PICK l \in Nat, h \in Nat, g \in Nat, q \in Nat :
              /\ l = SequenceLease /\ h = HeadOf(rec) /\ g = SeamGap /\ g >= 1 /\ l >= 1
              /\ q = m.last.sequence /\ q <= h
        <5>1. m.last = cp.last /\ cp.last.sequence \in Nat /\ cp.last.sequence <= HeadOf(rec)
          BY <2>1, <2>5, <3>2
        <5>2. SeamGap \in Nat /\ SeamGap >= 1 /\ SequenceLease \in Nat /\ SequenceLease >= 1
          BY <1>2
        <5> QED BY <1>1, <5>1, <5>2
      <4>2. known >= h + l
        BY <3>1, <4>1
      <4>3. t + g >= t /\ t + g > t /\ ~(known + 1 = h + 1) /\ known + 1 > q + l
        <5>1. g >= 1 /\ l >= 1 /\ q <= h
          BY <4>1
        <5> QED BY <4>2, <5>1
      <4> QED BY <3>2, <4>1, <4>3
    <3>4. /\ MarketInv(m) /\ OpenInv(rec, cp, price, t, m, FALSE)
          /\ ~Continues(m.drawn, m.last)
      <4>1. cp.last.sequence <= m.last.sequence /\ m.last # NoTick /\ Near(rec, m.last)
        BY <2>1, <2>5, <3>2
      <4> QED BY <1>5, <2>5, <3>2, <3>3, <4>1, PastASeam
    <3> QED BY <3>2, <3>4 DEF LagInv, SameLast
  <2> QED BY <2>4, <2>5
<1>6. CASE Resumable(cp, t)
  <2>1. /\ cp \in CheckpointType /\ cp # NoCheckpoint /\ cp.drawn \in TickType /\ cp.last \in MaybeTick
        /\ cp.drawn.sequence \in Nat /\ cp.drawn.value.instant \in Nat /\ cp.pending = TRUE
    BY <1>6, CheckpointFacts, Fields DEF Resumable
  <2>2. Opening(cp, Newest(rec), t, t).market = Resumed(cp)
    BY <1>6 DEF Opening, Resumable
  <2>3. PICK h : h = Resumed(cp) /\ h \in MarketType /\ NextUnpublished(h) = h.drawn
               /\ h.drawn = cp.drawn /\ h.floor = cp.drawn.value.instant /\ h.last = cp.last
               /\ h.advancedAt = -1
    <3>1. Resumed(cp) = [drawn |-> cp.drawn, floor |-> cp.drawn.value.instant, pending |-> TRUE,
                         last |-> cp.last, advancedAt |-> -1]
      BY <2>1 DEF Resumed, Hosted, Never
    <3>2. Resumed(cp) \in MarketType
      BY <2>1, <3>1 DEF MarketType
    <3>3. NextUnpublished(Resumed(cp)) = cp.drawn
      BY <3>1 DEF NextUnpublished
    <3> QED BY <3>1, <3>2, <3>3
  <2>4. /\ m \in MarketType /\ m.drawn = cp.drawn /\ m.floor = cp.drawn.value.instant
        /\ m.last = cp.last /\ m.advancedAt = -1
    <3>1. m = [h EXCEPT !.drawn = h.drawn, !.pending = TRUE]
      BY <2>2, <2>3 DEF Primed
    <3> QED BY <2>3, <3>1 DEF MarketType
  <2>5. cp.drawn.sequence <= HeadOf(rec) + 1
    BY <1>6, <2>1, UsableFacts DEF Resumable
  <2>6. Shape(cp.drawn, cp.last) /\ (cp.last # NoTick => Near(rec, cp.last)) /\ Resumes(rec, price, cp.drawn, t)
    BY <1>6, <2>1 DEF SavedInv
  <2>7. MarketInv(m)
    <3>1. cp.drawn.value.instant <= cp.drawn.value.instant /\ -1 <= cp.drawn.value.instant + MaxCatchUp
      <4>1. PICK x \in Nat : x = cp.drawn.value.instant
        BY <2>1
      <4>2. PICK c \in Nat : c = MaxCatchUp
        BY Constants
      <4>3. x <= x /\ -1 <= x + c
        OBVIOUS
      <4> QED BY <4>1, <4>2, <4>3
    <3> QED BY <2>4, <2>6, <3>1 DEF MarketInv
  <2>8. Watch(m) = cp.drawn.value.instant
    BY <2>1, <2>4 DEF Watch, Larger
  <2>9. ~Jumps(rec, cp.drawn)
    BY <1>1, <2>1, <2>5 DEF Jumps
  <2>10. cp.last # NoTick => cp.last.sequence <= cp.last.sequence
    BY <2>1, Fields DEF MaybeTick
  <2>11. OpenInv(rec, cp, price, t, m, FALSE)
    <3>1. Heir(rec, cp, t, m.drawn, FALSE)
      BY <2>4, <2>9 DEF Heir
    <3>2. cp.drawn.value.instant <= Watch(m)
      BY <2>1, <2>8
    <3>3. m.drawn = cp.drawn /\ m.last = cp.last
      BY <2>4
    <3> QED BY <2>6, <2>8, <2>10, <3>1, <3>2, <3>3 DEF OpenInv
  <2>12. ASSUME NEW at PROVE LagInv(rec, cp, m, FALSE, at, Slack - MaxCatchUp)
    <3> SUFFICES ASSUME cp.last # NoTick, cp.drawn = Later(cp.last, 1)
                 PROVE  /\ cp.drawn.value.instant <= cp.last.value.instant + Slack - 2 * MaxCatchUp
                        /\ -1 <= cp.last.value.instant + (Slack - MaxCatchUp)
      <4>1. m.drawn = cp.drawn /\ m.last = cp.last /\ m.floor = cp.drawn.value.instant /\ m.advancedAt = -1
        BY <2>4
      <4> QED BY <4>1 DEF LagInv, Follows, Continues
    <3>1. cp.last \in TickType /\ cp.last.value.instant \in Nat
      BY <2>1, Fields DEF MaybeTick
    <3>2. cp.drawn.value.instant = cp.last.value.instant + Gap
      BY <3>1, NextTick
    <3> QED BY <3>1, <3>2, Constants
  <2>13. m.last = cp.last
    BY <2>4
  <2> QED BY <2>4, <2>7, <2>11, <2>12, <2>13 DEF SameLast
<1> QED BY <1>3, <1>4, <1>5, <1>6 DEF Resumable
-----------------------------------------------------------------------------
(* Reopening, advancing and saving a market *)

\* A market reopened in place is past a seam.
LEMMA ReopenFits ==
  ASSUME Deployed, NEW rec \in Seq(TickType), NEW t \in Nat, RecordInv(rec, t),
         NEW price \in PriceType, QuoteInv(rec, price, t),
         NEW cp \in CheckpointType \cup {NoCheckpoint}, NEW m \in MarketType, NEW stalled,
         OpenInv(rec, cp, price, t, m, stalled), m.last # NoTick, CatchUpTooLarge(m, t),
         NEW n, n = Primed(Reopened(m, t))
  PROVE  /\ n \in MarketType /\ n.last = m.last
         /\ MarketInv(n) /\ OpenInv(rec, cp, price, t, n, TRUE)
         /\ ~Continues(n.drawn, n.last)
<1>1. /\ Near(rec, m.last)
      /\ cp # NoCheckpoint /\ cp.last # NoTick => cp.last.sequence <= m.last.sequence
      /\ Resumable(cp, t) /\ Recorded(rec, cp.drawn) => cp.drawn.value.instant <= Watch(m)
  BY DEF OpenInv
<1>2. /\ m.last \in TickType /\ m.last.sequence \in Nat /\ m.last.value.instant \in Nat
      /\ m.drawn \in TickType /\ m.drawn.value.epoch \in Nat /\ HeadOf(rec) \in Nat
      /\ m.floor \in Nat /\ m.advancedAt \in Int
  BY Fields, HeadFacts DEF MarketType, MaybeTick
<1>3. /\ EpochSpan \in Nat /\ SeamGap \in Nat /\ SeamGap >= 1 /\ SequenceLease \in Nat /\ SequenceLease >= 1
      /\ MaxCatchUp \in Nat /\ t * EpochSpan \in Nat
  BY Constants DEF Deployed
<1>4. /\ m.last.value.instant <= t /\ rec # <<>>
      /\ HeadOf(rec) > m.last.sequence + SequenceLease \/ HeadOf(rec) < m.last.sequence + SequenceLease
  BY <1>1, NearIsApart, RecordedFacts DEF Near
<1>5. PICK epoch \in Nat : epoch = StartKeyEpochAfter(t, KeyEpoch(m))
  <2>1. PICK x \in Nat, y \in Nat : x = t * EpochSpan /\ y = KeyEpoch(m)
    BY <1>2, <1>3 DEF KeyEpoch
  <2>2. Larger(y + 1, x) \in Nat
    BY DEF Larger
  <2> QED BY <2>1, <2>2 DEF StartKeyEpochAfter
<1>6. PICK sequence \in Nat : sequence = m.last.sequence + SequenceLease
  BY <1>2, <1>3
<1>7. Awaits(n, sequence, t, epoch, SeamGap, m.last)
  <2>1. Larger(m.last.value.instant, t) = t
    BY <1>2, <1>4 DEF Larger
  <2>2. n = Started(sequence, t, epoch, SeamGap, m.last)
    BY <1>5, <1>6, <2>1 DEF Started, Reopened, Seamed
  <2>3. m.last \in MaybeTick
    BY <1>2 DEF MaybeTick
  <2> QED BY <1>3, <2>2, <2>3, PrimedAt
<1>8. /\ n \in MarketType /\ n.drawn.sequence = sequence + 1 /\ n.drawn.value.instant = t + SeamGap
      /\ n.floor = t /\ n.last = m.last /\ n.advancedAt = -1
  BY <1>7 DEF Awaits
<1>9. /\ n.drawn.value.instant >= t /\ n.drawn.value.instant > t
      /\ ~(n.drawn.sequence = HeadOf(rec) + 1)
      /\ n.drawn.sequence > n.last.sequence + SequenceLease
  <2>1. PICK l \in Nat, h \in Nat, g \in Nat, q \in Nat :
          /\ l = SequenceLease /\ h = HeadOf(rec) /\ g = SeamGap /\ q = m.last.sequence
          /\ g >= 1 /\ l >= 1 /\ (h > q + l \/ h < q + l)
    BY <1>2, <1>3, <1>4
  <2>2. sequence = q + l
    BY <1>6, <2>1
  <2>3. t + g >= t /\ t + g > t /\ ~(sequence + 1 = h + 1) /\ sequence + 1 > q + l
    <3>1. g >= 1 /\ l >= 1 /\ (h > q + l \/ h < q + l)
      BY <2>1
    <3> QED BY <2>2, <3>1
  <2> QED BY <1>8, <2>1, <2>3
<1>10. Resumable(cp, t) => (Recorded(rec, cp.drawn) => Late(t, cp.drawn.value.instant))
  <2> SUFFICES ASSUME Resumable(cp, t), Recorded(rec, cp.drawn) PROVE Late(t, cp.drawn.value.instant)
    OBVIOUS
  <2>1. cp.drawn.value.instant <= Watch(m) /\ cp.drawn.value.instant \in Nat
    BY <1>1, RecordedFacts, Fields
  <2>2. t - Watch(m) > MaxCatchUp /\ Watch(m) \in Int
    BY <1>2 DEF CatchUpTooLarge, Behind, Watch, Larger
  <2> QED BY <1>3, <2>1, <2>2 DEF Late
<1>11. Near(rec, n.last) /\ n.last # NoTick
  BY <1>1, <1>8
<1>12. /\ MarketInv(n) /\ OpenInv(rec, cp, price, t, n, TRUE)
       /\ ~Continues(n.drawn, n.last)
  <2>1. cp # NoCheckpoint /\ cp.last # NoTick => cp.last.sequence <= n.last.sequence
    BY <1>1, <1>8
  <2> QED BY <1>8, <1>9, <1>10, <1>11, <2>1, PastASeam
<1> QED BY <1>8, <1>12

\* The plan of a checkpoint.
LEMMA PlanFacts ==
  ASSUME NEW m \in MarketType, NEW t \in Nat, NEW cp, cp = CheckpointMarket(m, t)
  PROVE  /\ cp \in CheckpointType /\ cp # NoCheckpoint
         /\ cp.savedAt = t /\ cp.drawn = m.drawn /\ cp.last = m.last
<1>1. /\ m.drawn \in TickType /\ m.drawn.sequence \in Nat /\ m.pending = TRUE /\ m.last \in MaybeTick
      /\ m.last # NoTick => m.last.sequence \in Nat
      /\ SequenceLease \in Nat
  BY Fields, Constants DEF MarketType, MaybeTick
<1>2. PICK leased \in Nat :
        leased = Larger(IF m.last = NoTick THEN 0 ELSE m.last.sequence,
                        IF m.pending THEN m.drawn.sequence ELSE 0) + SequenceLease
  BY <1>1 DEF Larger
<1>3. cp = [savedAt |-> t, drawn |-> m.drawn, pending |-> TRUE, last |-> m.last, leased |-> leased]
  BY <1>1, <1>2 DEF CheckpointMarket
<1>4. cp \in CheckpointType
  BY <1>1, <1>3 DEF CheckpointType
<1>5. cp.savedAt = t /\ cp.drawn = m.drawn /\ cp.last = m.last
  BY <1>3
<1> QED BY <1>4, <1>5, CheckpointFacts

\* A checkpoint of a market is one the market continues.
LEMMA PlanFits ==
  ASSUME NEW rec \in Seq(TickType), NEW t \in Nat, RecordInv(rec, t),
         NEW price, NEW old, NEW m \in MarketType, MarketInv(m), OpenInv(rec, old, price, t, m, FALSE),
         NEW cp \in CheckpointType, cp.savedAt <= t, cp.drawn = m.drawn, cp.last = m.last
  PROVE  SavedInv(rec, cp, price, t) /\ OpenInv(rec, cp, price, t, m, FALSE)
<1>1. /\ Resumes(rec, price, m.drawn, t) /\ Shape(m.drawn, m.last)
      /\ Recorded(rec, m.drawn) => Watch(m) = m.drawn.value.instant
      /\ m.last # NoTick => Near(rec, m.last)
  BY DEF OpenInv, MarketInv
<1>2. SavedInv(rec, cp, price, t)
  BY <1>1 DEF SavedInv
<1>3. Heir(rec, cp, t, m.drawn, FALSE)
  <2> SUFFICES ASSUME Resumable(cp, t) PROVE ~Jumps(rec, m.drawn)
    BY DEF Heir
  <2>1. cp.drawn.sequence <= HeadOf(rec) + 1
    BY <1>2, UsableFacts DEF Resumable
  <2>2. cp.drawn.sequence \in Nat /\ HeadOf(rec) \in Nat
    BY CheckpointFacts, Fields, HeadFacts
  <2> QED BY <2>1, <2>2 DEF Jumps
<1>4. m.last # NoTick => m.last.sequence <= m.last.sequence
  BY Fields DEF MarketType, MaybeTick
<1>5. Recorded(rec, m.drawn) => m.drawn.value.instant <= Watch(m)
  BY <1>1, Fields DEF MarketType
<1> QED BY <1>1, <1>2, <1>3, <1>4, <1>5 DEF OpenInv
\* What an advance publishes, and the market after it.
LEMMA AdvancedFacts ==
  ASSUME NEW m \in MarketType, NEW t \in Nat, NEW n, n = Advanced(m, t), NEW b, b = Published(m, t)
  PROVE  /\ n \in MarketType /\ n.floor = m.floor /\ n.advancedAt = t /\ t < n.drawn.value.instant
         /\ b \in Seq(TickType)
         /\ b = <<>> => n.drawn = m.drawn /\ n.last = m.last
         /\ b # <<>> => /\ b[1] = m.drawn /\ m.drawn.value.instant <= t
                        /\ \A k \in 1..Len(b) : b[k] = Later(m.drawn, k - 1)
                        /\ n.last = b[Len(b)] /\ n.drawn = Later(n.last, 1)
                        /\ n.last.value.instant <= t
<1>1. PICK d \in TickType : d = m.drawn
  BY DEF MarketType
<1>2. PICK c \in Nat : c = DueCount(m, t)
  BY DueFacts
<1>3. /\ NextUnpublished(m) = d
      /\ d.value.instant > t => c = 0
      /\ d.value.instant <= t => /\ c >= 1 /\ Later(d, c - 1).value.instant <= t
                                 /\ t < Later(d, c).value.instant
  BY <1>1, <1>2, DueFacts
<1>4. d.value.instant \in Nat /\ Later(d, 0) = d
  BY Fields, LaterFacts
<1>5. Later(d, c) \in TickType /\ t < Later(d, c).value.instant
  <2>1. Later(d, c) \in TickType
    BY LaterFacts
  <2> QED BY <1>3, <1>4, <2>1
<1>6. c # 0 => /\ c - 1 \in Nat /\ Later(d, c - 1) \in TickType
               /\ Later(Later(d, c - 1), 1) = Later(d, c)
  <2> SUFFICES ASSUME c # 0
               PROVE  /\ c - 1 \in Nat /\ Later(d, c - 1) \in TickType
                      /\ Later(Later(d, c - 1), 1) = Later(d, c)
    OBVIOUS
  <2>1. PICK e \in Nat : e = c - 1 /\ e + 1 = c
    OBVIOUS
  <2>2. Later(d, e) \in TickType /\ Later(Later(d, e), 1) = Later(d, e + 1)
    <3>1. e \in Int /\ 1 \in Int
      OBVIOUS
    <3>2. Later(Later(d, e), 1) = Later(d, e + 1)
      BY <3>1, LaterFacts
    <3> QED BY <3>2, LaterFacts
  <2> QED BY <2>1, <2>2
<1>7. PICK last \in MaybeTick : last = IF c = 0 THEN m.last ELSE Later(d, c - 1)
  BY <1>6 DEF MarketType, MaybeTick
<1>8. n = [m EXCEPT !.advancedAt = t, !.drawn = Later(d, c), !.pending = TRUE, !.last = last]
  BY <1>2, <1>3, <1>7 DEF Advanced
<1>9. PICK x \in TickType : x = Later(d, c) /\ t < x.value.instant
  BY <1>5
<1>16. n = [m EXCEPT !.advancedAt = t, !.drawn = x, !.pending = TRUE, !.last = last]
  BY <1>8, <1>9
<1>10. n \in MarketType /\ n.floor = m.floor /\ n.advancedAt = t /\ n.drawn = x /\ n.last = last
  <2>1. PICK a : a = [m EXCEPT !.advancedAt = t, !.drawn = x]
    OBVIOUS
  <2>2. a \in MarketType /\ a.floor = m.floor /\ a.advancedAt = t /\ a.drawn = x
    <3>1. PICK u \in Int : u = t
      OBVIOUS
    <3>2. PICK r : r = [m EXCEPT !.advancedAt = u]
      OBVIOUS
    <3>3. r \in MarketType /\ r.floor = m.floor /\ r.advancedAt = u
      BY <3>2 DEF MarketType
    <3>4. a = [r EXCEPT !.drawn = x]
      BY <2>1, <3>1, <3>2
    <3> QED BY <3>1, <3>3, <3>4 DEF MarketType
  <2>3. n = [a EXCEPT !.pending = TRUE, !.last = last]
    BY <1>16, <2>1
  <2> QED BY <2>2, <2>3 DEF MarketType
<1>11. b = [k \in 1..c |-> Later(d, k - 1)]
  BY <1>2, <1>3 DEF Published
<1>12. \A k \in 1..c : Later(d, k - 1) \in TickType
  <2> SUFFICES ASSUME NEW k \in 1..c PROVE Later(d, k - 1) \in TickType
    OBVIOUS
  <2>1. k - 1 \in Nat
    OBVIOUS
  <2> QED BY <2>1, LaterFacts
<1>13. b \in Seq(TickType) /\ Len(b) = c
  BY <1>11, <1>12
<1>14. CASE c = 0
  <2>1. b = <<>>
    BY <1>13, <1>14
  <2>2. n.drawn = m.drawn /\ n.last = m.last
    BY <1>1, <1>4, <1>7, <1>9, <1>10, <1>14
  <2> QED BY <1>9, <1>10, <1>13, <2>1, <2>2
<1>15. CASE c # 0
  <2>1. b # <<>> /\ 1 \in 1..c /\ c \in 1..c
    BY <1>13, <1>15
  <2>2. \A k \in 1..c : b[k] = Later(d, k - 1)
    BY <1>11
  <2>3. b[1] = d
    <3>1. 1 - 1 = 0
      OBVIOUS
    <3> QED BY <1>4, <2>1, <2>2, <3>1
  <2>4. n.last = b[c] /\ b[c] = Later(d, c - 1) /\ n.drawn = Later(n.last, 1)
    BY <1>6, <1>7, <1>9, <1>10, <1>15, <2>1, <2>2
  <2>5. m.drawn.value.instant <= t /\ n.last.value.instant <= t
    BY <1>1, <1>3, <1>4, <1>15, <2>4
  <2> QED BY <1>1, <1>9, <1>10, <1>13, <2>1, <2>2, <2>3, <2>4, <2>5
<1> QED BY <1>14, <1>15

\* An advance within the bound leaves what the record will go on with.
LEMMA AdvanceFits ==
  ASSUME Deployed, NEW rec \in Seq(TickType), NEW t \in Nat, RecordInv(rec, t),
         NEW price, NEW cp \in CheckpointType \cup {NoCheckpoint}, NEW m \in MarketType, NEW stalled,
         MarketInv(m), OpenInv(rec, cp, price, t, m, stalled), ~CatchUpTooLarge(m, t),
         NEW at \in Int, at <= t, NEW failed,
         LagInv(rec, cp, m, stalled, at, Slack - MaxCatchUp), StallInv(t, m, stalled, failed),
         NEW n, n = Advanced(m, t), NEW b, b = Published(m, t)
  PROVE  /\ MarketInv(n)
         /\ b = <<>> => /\ OpenInv(rec, cp, price, t, n, stalled)
                        /\ LagInv(rec, cp, n, stalled, at, Slack)
                        /\ ~(stalled /\ Continues(n.drawn, n.last))
         /\ b # <<>> => BatchFits(rec, cp, price, t, n, stalled, at, b, t)
<1>1. /\ n \in MarketType /\ n.floor = m.floor /\ n.advancedAt = t /\ t < n.drawn.value.instant
      /\ b \in Seq(TickType)
      /\ b = <<>> => n.drawn = m.drawn /\ n.last = m.last
      /\ b # <<>> => /\ b[1] = m.drawn /\ m.drawn.value.instant <= t
                     /\ \A k \in 1..Len(b) : b[k] = Later(m.drawn, k - 1)
                     /\ n.last = b[Len(b)] /\ n.drawn = Later(n.last, 1)
                     /\ n.last.value.instant <= t
  BY AdvancedFacts
<1>2. /\ m.drawn \in TickType /\ m.drawn.value.instant \in Nat /\ m.drawn.sequence \in Nat
      /\ m.floor \in Nat /\ m.advancedAt \in Int
      /\ n.drawn \in TickType /\ n.drawn.value.instant \in Nat
      /\ MaxCatchUp \in Nat /\ Slack \in Nat /\ SequenceLease \in Nat /\ SequenceLease >= 1 /\ Gap \in Nat
      /\ HeadOf(rec) \in Nat
      /\ m.last # NoTick => m.last \in TickType /\ m.last.sequence \in Nat /\ m.last.value.instant \in Nat
  <2>1. /\ m.drawn \in TickType /\ m.floor \in Nat /\ m.advancedAt \in Int /\ n.drawn \in TickType
        /\ m.last \in TickType \cup {NoTick}
    BY <1>1 DEF MarketType, MaybeTick
  <2>2. /\ MaxCatchUp \in Nat /\ Slack \in Nat /\ SequenceLease \in Nat /\ SequenceLease >= 1 /\ Gap \in Nat
    BY Constants
  <2> QED BY <2>1, <2>2, Fields, HeadFacts
<1>3. t <= Watch(m) + MaxCatchUp /\ Watch(m) \in Int
  <2>1. Watch(m) \in Int
    BY <1>2 DEF Watch, Larger
  <2>2. PICK w \in Int, c \in Nat : w = Watch(m) /\ c = MaxCatchUp
    BY <1>2, <2>1
  <2>3. t - w <= c
    BY <2>2 DEF CatchUpTooLarge, Behind, Watch
  <2>4. t <= w + c
    BY <2>3
  <2> QED BY <2>1, <2>2, <2>4
<1>4. m.floor <= m.drawn.value.instant /\ m.advancedAt <= m.drawn.value.instant + MaxCatchUp /\ Shape(m.drawn, m.last)
  BY DEF MarketInv
<1>5. /\ Resumes(rec, price, m.drawn, t) /\ Heir(rec, cp, t, m.drawn, stalled)
      /\ Recorded(rec, m.drawn) => Watch(m) = m.drawn.value.instant
      /\ m.last # NoTick => Near(rec, m.last)
      /\ cp # NoCheckpoint /\ cp.last # NoTick => m.last # NoTick /\ cp.last.sequence <= m.last.sequence
  BY DEF OpenInv
<1>6. ~(stalled /\ Continues(m.drawn, m.last))
  <2> SUFFICES ASSUME stalled, Continues(m.drawn, m.last) PROVE FALSE
    OBVIOUS
  <2>1. Late(t, Watch(m))
    BY DEF StallInv
  <2> QED BY <1>2, <1>3, <2>1 DEF Late
<1>7. cp # NoCheckpoint /\ cp.last # NoTick => cp.last \in TickType /\ cp.last.value.instant \in Nat /\ cp.last.sequence \in Nat
  BY CheckpointFacts, Fields
<1>11. b # <<>> => m.floor <= t
  <2> SUFFICES ASSUME b # <<>> PROVE m.floor <= t
    OBVIOUS
  <2>1. PICK x \in Nat, f \in Nat : x = m.drawn.value.instant /\ f = m.floor
    BY <1>2
  <2>2. f <= x
    BY <1>4, <2>1
  <2>3. x <= t
    BY <1>1, <2>1
  <2>4. f <= t
    BY <2>2, <2>3
  <2> QED BY <2>1, <2>4
<1>8. MarketInv(n)
  <2>1. n.floor <= n.drawn.value.instant /\ n.advancedAt <= n.drawn.value.instant + MaxCatchUp
    <3>1. n.advancedAt <= n.drawn.value.instant + MaxCatchUp
      <4>1. PICK x \in Nat, c \in Nat : x = n.drawn.value.instant /\ c = MaxCatchUp
        BY <1>2
      <4>2. n.advancedAt = t /\ t < x
        BY <1>1, <4>1
      <4>3. t <= x + c
        BY <4>2
      <4> QED BY <4>1, <4>2, <4>3
    <3>2. CASE b = <<>>
      BY <1>1, <1>4, <3>1, <3>2
    <3>3. CASE b # <<>>
      <4>1. m.floor <= t
        BY <1>11, <3>3
      <4>2. n.floor = m.floor /\ t < n.drawn.value.instant
        BY <1>1
      <4>3. n.drawn.value.instant \in Nat /\ m.floor \in Nat
        BY <1>2
      <4>4. n.floor <= n.drawn.value.instant
        BY <4>1, <4>2, <4>3
      <4> QED BY <3>1, <4>4
    <3> QED BY <3>2, <3>3
  <2>2. Shape(n.drawn, n.last)
    <3>1. CASE b = <<>>
      BY <1>1, <1>4, <3>1
    <3>2. CASE b # <<>>
      <4>1. Len(b) \in 1..Len(b)
        BY <1>1, <3>2
      <4>2. n.last \in TickType
        BY <1>1, <3>2, <4>1
      <4> QED BY <1>1, <3>2, <4>2, Fields DEF Shape, Continues
    <3> QED BY <3>1, <3>2
  <2> QED BY <2>1, <2>2 DEF MarketInv
<1>9. ASSUME b = <<>>
      PROVE  /\ OpenInv(rec, cp, price, t, n, stalled)
             /\ LagInv(rec, cp, n, stalled, at, Slack)
             /\ ~(stalled /\ Continues(n.drawn, n.last))
  <2>1. n.drawn = m.drawn /\ n.last = m.last
    BY <1>1, <1>9
  <2>2. ~Recorded(rec, n.drawn)
    <3> SUFFICES ASSUME Recorded(rec, n.drawn) PROVE FALSE
      OBVIOUS
    <3>1. n.drawn.value.instant <= t
      BY RecordedFacts
    <3> QED BY <1>1, <1>2, <3>1
  <2>3. Recorded(rec, cp.drawn) => cp.drawn.value.instant <= Watch(n)
    <3> SUFFICES ASSUME Recorded(rec, cp.drawn) PROVE cp.drawn.value.instant <= Watch(n)
      OBVIOUS
    <3>1. cp.drawn.value.instant <= t /\ cp.drawn.value.instant \in Nat
      BY RecordedFacts, Fields
    <3>2. n.advancedAt = t /\ n.floor = m.floor /\ m.floor \in Nat
      BY <1>1, <1>2
    <3>3. t <= Watch(n) /\ Watch(n) \in Int
      BY <3>2 DEF Watch, Larger
    <3> QED BY <3>1, <3>3
  <2>4. OpenInv(rec, cp, price, t, n, stalled)
    BY <1>5, <2>1, <2>2, <2>3 DEF OpenInv
  <2>5. LagInv(rec, cp, n, stalled, at, Slack)
    <3> SUFFICES ASSUME Follows(rec, cp), Continues(m.drawn, m.last)
                 PROVE  /\ m.floor <= cp.last.value.instant + Slack - 2 * MaxCatchUp
                        /\ m.last # cp.last /\ ~stalled => at <= cp.last.value.instant + Gap + 2 * MaxCatchUp
                        /\ t <= cp.last.value.instant + Slack
      BY <1>1, <2>1 DEF LagInv
    <3>1. /\ m.floor <= cp.last.value.instant + Slack - 2 * MaxCatchUp
          /\ m.last # cp.last /\ ~stalled => at <= cp.last.value.instant + Gap + 2 * MaxCatchUp
          /\ m.advancedAt <= cp.last.value.instant + (Slack - MaxCatchUp)
      BY DEF LagInv
    <3>2. cp.last.value.instant \in Nat
      BY <1>7 DEF Follows
    <3>3. Watch(m) <= cp.last.value.instant + (Slack - MaxCatchUp)
      <4>1. PICK c \in Nat, s \in Nat, y \in Nat, f \in Nat, a \in Int :
              /\ c = MaxCatchUp /\ s = Slack /\ y = cp.last.value.instant
              /\ f = m.floor /\ a = m.advancedAt
        BY <1>2, <3>2
      <4>2. Watch(m) = IF a >= f THEN a ELSE f
        BY <4>1 DEF Watch, Larger
      <4>3. f <= y + s - 2 * c /\ a <= y + (s - c)
        BY <3>1, <4>1
      <4>4. (IF a >= f THEN a ELSE f) <= y + (s - c)
        BY <4>3
      <4> QED BY <4>1, <4>2, <4>4
    <3>4. t <= cp.last.value.instant + Slack
      <4>1. PICK w \in Int, c \in Nat, s \in Nat, y \in Nat :
              w = Watch(m) /\ c = MaxCatchUp /\ s = Slack /\ y = cp.last.value.instant
        BY <1>2, <1>3, <3>2
      <4>2. t <= w + c /\ w <= y + (s - c)
        BY <1>3, <3>3, <4>1
      <4>3. t <= y + s
        BY <4>2
      <4> QED BY <4>1, <4>3
    <3> QED BY <3>1, <3>4
  <2> QED BY <1>6, <2>1, <2>4, <2>5
<1>10. ASSUME b # <<>> PROVE BatchFits(rec, cp, price, t, n, stalled, at, b, t)
  <2> DEFINE d == m.drawn
  <2>1. /\ b[1] = d /\ d.value.instant <= t /\ n.last = b[Len(b)] /\ n.drawn = Later(n.last, 1)
        /\ n.last.value.instant <= t /\ \A k \in 1..Len(b) : b[k] = Later(d, k - 1)
    BY <1>1, <1>10
  <2>2. n.floor <= t
    BY <1>1, <1>10, <1>11
  <2>3. Forward(rec, d) /\ After(rec, price, d)
    <3>1. ASSUME Recorded(rec, d), Late(t, d.value.instant) PROVE FALSE
      <4>1. Watch(m) = d.value.instant
        BY <1>5, <3>1
      <4> QED BY <1>2, <1>3, <3>1, <4>1 DEF Late
    <3> QED BY <1>5, <3>1 DEF Resumes
  <2>4. ASSUME cp # NoCheckpoint, cp.last # NoTick, Jumps(rec, d)
        PROVE  d.sequence > cp.last.sequence + SequenceLease
    <3>1. m.last # NoTick /\ cp.last.sequence <= m.last.sequence /\ Near(rec, m.last)
      BY <1>5, <2>4
    <3>2. m.last.sequence <= HeadOf(rec)
      BY <3>1, RecordedFacts DEF Near
    <3>3. ~Continues(d, m.last)
      <4> SUFFICES ASSUME d = Later(m.last, 1) PROVE FALSE
        BY DEF Continues
      <4>1. d.sequence = m.last.sequence + 1
        BY <1>2, <3>1, NextTick
      <4> QED BY <1>2, <2>4, <3>1, <3>2, <4>1 DEF Jumps
    <3>4. d.sequence > m.last.sequence + SequenceLease
      BY <1>4, <3>1, <3>3 DEF Shape
    <3>5. /\ d.sequence \in Nat /\ m.last.sequence \in Nat /\ cp.last.sequence \in Nat /\ SequenceLease \in Nat
          /\ cp.last.sequence <= m.last.sequence
      BY <1>2, <1>7, <2>4, <3>1
    <3> HIDE DEF d
    <3>6. PICK x \in Nat, y \in Nat, z \in Nat, w \in Nat :
            /\ x = d.sequence /\ y = m.last.sequence /\ z = cp.last.sequence /\ w = SequenceLease
      BY <3>5
    <3>7. x > y + w /\ z <= y
      BY <3>4, <3>5, <3>6
    <3>8. x > z + w
      BY <3>7
    <3> QED BY <3>6, <3>8
  <2>5. ASSUME Follows(rec, cp), ~Jumps(rec, d)
        PROVE  /\ m.floor <= cp.last.value.instant + Slack - 2 * MaxCatchUp
               /\ at <= cp.last.value.instant + Gap + 2 * MaxCatchUp
               /\ t <= cp.last.value.instant + Slack
    <3>1. /\ cp # NoCheckpoint /\ cp.last # NoTick /\ HeadOf(rec) <= cp.last.sequence + SequenceLease
          /\ cp.last.value.instant \in Nat /\ cp.last.sequence \in Nat
      BY <1>7, <2>5 DEF Follows
    <3>2. m.last # NoTick /\ cp.last.sequence <= m.last.sequence /\ Near(rec, m.last)
      BY <1>5, <3>1
    <3>3. HeadOf(rec) < m.last.sequence + SequenceLease
      <4>1. HeadOf(rec) > m.last.sequence + SequenceLease \/ HeadOf(rec) < m.last.sequence + SequenceLease
        BY <3>2, NearIsApart
      <4>2. m.last.sequence \in Nat /\ cp.last.sequence \in Nat /\ HeadOf(rec) \in Nat /\ SequenceLease \in Nat
        BY <1>2, <3>1, <3>2
      <4>3. cp.last.sequence <= m.last.sequence /\ HeadOf(rec) <= cp.last.sequence + SequenceLease
        BY <3>1, <3>2
      <4> QED BY <4>1, <4>2, <4>3
    <3>4. Continues(d, m.last)
      <4> SUFFICES ASSUME d.sequence > m.last.sequence + SequenceLease PROVE FALSE
        BY <1>4, <3>2 DEF Shape
      <4>1. m.last.sequence \in Nat /\ d.sequence \in Nat /\ HeadOf(rec) \in Nat /\ SequenceLease \in Nat
            /\ SequenceLease >= 1
        BY <1>2, <3>2
      <4>2. d.sequence <= HeadOf(rec) + 1
        BY <2>5, <4>1 DEF Jumps
      <4> HIDE DEF d
      <4> QED BY <3>3, <4>1, <4>2
    <3>5. /\ m.floor <= cp.last.value.instant + Slack - 2 * MaxCatchUp
          /\ m.last # cp.last /\ ~stalled => at <= cp.last.value.instant + Gap + 2 * MaxCatchUp
          /\ m.advancedAt <= cp.last.value.instant + (Slack - MaxCatchUp)
      BY <2>5, <3>4 DEF LagInv
    <3>6. t <= cp.last.value.instant + Slack
      <4>1. PICK w \in Int, c \in Nat, s \in Nat, y \in Nat, f \in Nat, a \in Int :
              /\ w = Watch(m) /\ c = MaxCatchUp /\ s = Slack /\ y = cp.last.value.instant
              /\ f = m.floor /\ a = m.advancedAt
        BY <1>2, <1>3, <3>1
      <4>2. w = IF a >= f THEN a ELSE f
        BY <4>1 DEF Watch, Larger
      <4>3. f <= y + s - 2 * c /\ a <= y + (s - c)
        BY <3>5, <4>1
      <4>4. t <= w + c
        BY <1>3, <4>1
      <4>5. w <= y + (s - c)
        BY <4>2, <4>3
      <4>6. t <= y + s
        BY <4>4, <4>5
      <4> QED BY <4>1, <4>6
    <3>7. at <= cp.last.value.instant + Gap + 2 * MaxCatchUp
      <4>1. ~stalled
        BY <1>6, <3>4
      <4>2. CASE m.last # cp.last
        BY <3>5, <4>1, <4>2
      <4>3. CASE m.last = cp.last
        <5>1. d.value.instant = cp.last.value.instant + Gap
          BY <1>2, <3>2, <3>4, <4>3, NextTick DEF Continues
        <5>2. Watch(m) <= d.value.instant + MaxCatchUp
          <6>1. PICK x \in Nat, c \in Nat, f \in Nat, a \in Int :
                  x = d.value.instant /\ c = MaxCatchUp /\ f = m.floor /\ a = m.advancedAt
            BY <1>2
          <6>2. f <= x /\ a <= x + c
            BY <1>4, <6>1
          <6>3. Watch(m) = IF a >= f THEN a ELSE f
            BY <6>1 DEF Watch, Larger
          <6>4. (IF a >= f THEN a ELSE f) <= x + c
            BY <6>2
          <6> QED BY <6>1, <6>3, <6>4
        <5>3. PICK x \in Nat : x = d.value.instant
          BY <1>2
        <5>4. at <= x + 2 * MaxCatchUp
          <6>1. PICK w \in Int, c \in Nat : w = Watch(m) /\ c = MaxCatchUp
            BY <1>2, <1>3
          <6>2. w <= x + c /\ t <= w + c
            BY <1>3, <5>2, <5>3, <6>1
          <6>3. at <= x + 2 * c
            BY <6>2
          <6> QED BY <6>1, <6>3
        <5> QED BY <1>2, <3>1, <5>1, <5>3, <5>4
      <4> QED BY <4>2, <4>3
    <3> QED BY <3>5, <3>6, <3>7
  <2>6. /\ cp # NoCheckpoint /\ cp.last # NoTick /\ Jumps(rec, d) =>
             d.sequence > cp.last.sequence + SequenceLease
        /\ Follows(rec, cp) /\ ~Jumps(rec, d) =>
             \/ Lost(rec, d)
             \/ /\ n.floor <= cp.last.value.instant + Slack - 2 * MaxCatchUp
                /\ at <= cp.last.value.instant + Gap + 2 * MaxCatchUp
                /\ t <= cp.last.value.instant + Slack
    BY <1>1, <2>4, <2>5
  <2> HIDE DEF d
  <2>7. Heir(rec, cp, t, d, stalled)
    BY <1>5 DEF d
  <2> QED BY <2>1, <2>2, <2>3, <2>6, <2>7 DEF BatchFits
<1> QED BY <1>8, <1>9, <1>10
\* How much of a batch a record with this head holds.
LEMMA KnownPart ==
  ASSUME NEW b, NEW n, NEW d, Batch(b, n, d), NEW h \in Nat
  PROVE  \E c \in 0..n : \A k \in 1..n : k <= c <=> b[k].sequence <= h
<1>1. n \in Nat /\ d \in TickType /\ d.sequence \in Nat
  BY Fields DEF Batch
<1>2. PICK s \in Nat : s = d.sequence
  BY <1>1
<1>3. \A k \in 1..n : b[k].sequence = s + (k - 1)
  BY <1>2, BatchFacts
<1>4. CASE h < s
  <2>1. 0 \in 0..n /\ \A k \in 1..n : k <= 0 <=> s + (k - 1) <= h
    BY <1>1, <1>4
  <2> QED BY <1>3, <2>1
<1>5. CASE h >= s /\ h - s + 1 <= n
  <2>1. h - s + 1 \in 0..n /\ \A k \in 1..n : k <= h - s + 1 <=> s + (k - 1) <= h
    BY <1>1, <1>5
  <2> QED BY <1>3, <2>1
<1>6. CASE h - s + 1 > n
  <2>1. n \in 0..n /\ \A k \in 1..n : k <= n <=> s + (k - 1) <= h
    BY <1>1, <1>6
  <2> QED BY <1>3, <2>1
<1> QED BY <1>1, <1>4, <1>5, <1>6

\* A batch the record accepts, and how much of it the record holds.
Splits(rec, b, c) ==
  /\ c \in 0..Len(b)
  /\ \A k \in 1..Len(b) : b[k].sequence > HeadOf(rec) \/ Recorded(rec, b[k])
  /\ \A k \in 1..Len(b) : k <= c <=> b[k].sequence <= HeadOf(rec)

\* A batch the record accepts is what the record is extended by.
LEMMA BatchExtends ==
  ASSUME NEW rec \in Seq(TickType), NEW t, NEW T \in Nat, RecordInv(rec, T),
         NEW cp, NEW price, NEW m \in MarketType, T < m.drawn.value.instant, NEW at, NEW stalled,
         NEW b \in Seq(TickType), b # <<>>, BatchFits(rec, cp, price, t, m, stalled, at, b, T),
         NEW c, Splits(rec, b, c), NEW new, Appended(rec, b, Len(b), c, new)
  PROVE  Extended(rec, new, b[1], T) /\ Newest(new) = m.last
<1>0. /\ c \in 0..Len(b)
      /\ \A k \in 1..Len(b) : b[k].sequence > HeadOf(rec) \/ Recorded(rec, b[k])
      /\ \A k \in 1..Len(b) : k <= c <=> b[k].sequence <= HeadOf(rec)
  BY DEF Splits
<1>1. PICK n \in Nat \ {0} : n = Len(b) /\ 1 \in 1..n /\ n \in 1..n /\ c \in 0..n
  BY <1>0
<1>2. PICK d \in TickType : d = b[1]
  BY <1>1
<1>3. /\ \A k \in 1..n : b[k] = Later(d, k - 1)
      /\ m.last = b[n] /\ m.drawn = Later(m.last, 1) /\ m.last.value.instant <= T
      /\ Forward(rec, d)
  BY <1>1, <1>2 DEF BatchFits
<1>4. Batch(b, n, d)
  <2>1. ASSUME NEW k \in 1..n PROVE b[k] = At(d, d.sequence + (k - 1))
    <3>1. PICK q \in Nat, i \in Nat : q = d.sequence /\ i = q + (k - 1) /\ i - q = k - 1
      <4>1. PICK q \in Nat : q = d.sequence
        BY Fields
      <4>2. k \in Nat /\ k >= 1
        BY <1>1
      <4>3. q + (k - 1) \in Nat /\ (q + (k - 1)) - q = k - 1
        BY <4>2
      <4> QED BY <4>1, <4>3
    <3>2. At(d, i) = Later(d, k - 1)
      BY <3>1 DEF At
    <3> QED BY <1>3, <3>1, <3>2
  <2> QED BY <1>1, <2>1 DEF Batch
<1>5. Accepted(rec, b, n, d, c, T)
  <2>1. \A k \in 1..n : k <= c <=> b[k].sequence <= HeadOf(rec)
    BY <1>0, <1>1
  <2>2. \A k \in 1..n : b[k].sequence > HeadOf(rec) \/ Recorded(rec, b[k])
    BY <1>0, <1>1
  <2> QED BY <1>1, <1>3, <1>4, <2>1, <2>2 DEF Accepted
<1>6. Appended(rec, b, n, c, new)
  BY <1>1
<1>7. /\ Leads(rec, d) \/ Replays(rec, d)
      /\ Grown(rec, new, d) /\ RecordInv(new, T) /\ Newest(new) = b[n] /\ new # <<>>
  BY <1>5, <1>6, AppendFits
<1>8. new \in Seq(TickType)
  BY <1>6 DEF Appended
<1>9. d.sequence <= HeadOf(new) /\ T < Newest(new).value.instant + Gap
  <2>1. HeadOf(new) = Newest(new).sequence
    BY <1>7, <1>8, HeadFacts
  <2>2. b[n].sequence = d.sequence + (n - 1) /\ b[n] \in TickType
    BY <1>1, <1>4, BatchFacts
  <2>3. d.sequence <= HeadOf(new)
    BY <1>7, <2>1, <2>2, Fields
  <2>4. m.drawn.value.instant = b[n].value.instant + Gap
    BY <1>3, <2>2, NextTick
  <2> QED BY <1>7, <2>3, <2>4
<1>10. Extended(rec, new, d, T)
  BY <1>7, <1>8, <1>9 DEF Extended
<1> QED BY <1>1, <1>2, <1>3, <1>6, <1>7, <1>10

\* A price at the newest tick, at an instant the record has not passed, is in force.
LEMMA NewestQuoted ==
  ASSUME NEW rec \in Seq(TickType), NEW T \in Nat, RecordInv(rec, T), rec # <<>>,
         NEW t \in Nat, T <= t, NEW price, price = [tick |-> Newest(rec), asOf |-> T]
  PROVE  price \in PriceType /\ QuoteInv(rec, price, t)
<1>1. Newest(rec) = rec[Len(rec)] /\ Newest(rec) \in TickType /\ Len(rec) \in 1..Len(rec) /\ Len(rec) \in Nat
  BY HeadFacts
<1>2. price.tick = Newest(rec) /\ price.asOf = T
  OBVIOUS
<1>3. \A j \in 1..Len(rec) : j <= Len(rec) <=> rec[j].value.instant <= T
  BY <1>1 DEF RecordInv
<1>4. InForce(price, rec)
  BY <1>1, <1>2, <1>3 DEF InForce
<1>5. price \in PriceType
  BY <1>1 DEF PriceType, MaybeTick
<1> QED BY <1>1, <1>2, <1>4, <1>5 DEF QuoteInv

\* What is published leaves the checkpoint, the market and the price fitting the
\* record it has become, whether or not the price changes.
LEMMA PublishFits ==
  ASSUME NEW rec, NEW new, NEW d, NEW T, Extended(rec, new, d, T), NEW t \in Nat, T <= t,
         NEW price \in PriceType, QuoteInv(rec, price, t),
         NEW cp \in CheckpointType \cup {NoCheckpoint}, SavedInv(rec, cp, price, t),
         NEW m \in MarketType, m.advancedAt = T, NEW at, NEW stalled,
         NEW b, d = b[1], BatchFits(rec, cp, price, t, m, stalled, at, b, T), Newest(new) = m.last,
         NEW price2 \in PriceType, price2 = price \/ price2 = [tick |-> Newest(new), asOf |-> T]
  PROVE  /\ RecordInv(new, t) /\ new \in Seq(TickType)
         /\ price # NoPrice => InForce(price, new)
         /\ QuoteInv(new, price2, t) /\ SavedInv(new, cp, price2, t)
         /\ OpenInv(new, cp, price2, t, m, FALSE)
         /\ Follows(new, cp) => /\ m.floor <= cp.last.value.instant + Slack - 2 * MaxCatchUp
                                /\ at <= cp.last.value.instant + Gap + 2 * MaxCatchUp
                                /\ T <= cp.last.value.instant + Slack
<1>1. /\ rec \in Seq(TickType) /\ new \in Seq(TickType) /\ d \in TickType /\ T \in Nat
      /\ RecordInv(rec, T) /\ RecordInv(new, T) /\ new # <<>> /\ d.sequence <= HeadOf(new)
      /\ Leads(rec, d) \/ Replays(rec, d)
      /\ T < Newest(new).value.instant + Gap
  BY DEF Extended
<1>2. /\ After(rec, price, d) /\ Heir(rec, cp, t, d, stalled) /\ m.drawn = Later(m.last, 1)
      /\ cp # NoCheckpoint /\ cp.last # NoTick /\ Jumps(rec, d) =>
           d.sequence > cp.last.sequence + SequenceLease
      /\ Follows(rec, cp) /\ ~Jumps(rec, d) =>
           \/ Lost(rec, d)
           \/ /\ m.floor <= cp.last.value.instant + Slack - 2 * MaxCatchUp
              /\ at <= cp.last.value.instant + Gap + 2 * MaxCatchUp
              /\ T <= cp.last.value.instant + Slack
  BY DEF BatchFits
<1>3. HeadOf(rec) \in Nat /\ HeadOf(new) \in Nat /\ d.sequence \in Nat /\ HeadOf(rec) <= HeadOf(new)
  BY ExtendedFacts
<1>4. ~Lost(rec, d)
  BY <1>1, <1>3 DEF Leads, Replays, Lost
<1>5. RecordInv(new, t)
  BY <1>1, RecordAges
<1>6. /\ QuoteInv(new, price, t)
      /\ price # NoPrice => InForce(price, new) /\ price.asOf < Newest(new).value.instant + Gap
  BY <1>2, QuoteGrows
<1>7. /\ QuoteInv(new, price2, t)
      /\ price2 # NoPrice => price2.asOf < Newest(new).value.instant + Gap
  <2>1. CASE price2 = price
    BY <1>6, <2>1
  <2>2. CASE price2 = [tick |-> Newest(new), asOf |-> T]
    <3>1. QuoteInv(new, price2, t)
      BY <1>1, <2>2, NewestQuoted
    <3>2. price2.asOf = T
      BY <2>2
    <3> QED BY <1>1, <3>1, <3>2
  <2> QED BY <2>1, <2>2
<1>8. SavedInv(new, cp, price2, t)
  <2>1. Follows(rec, cp) /\ ~Jumps(rec, d) => T <= cp.last.value.instant + Slack
    BY <1>2, <1>4
  <2> QED BY <1>2, <1>7, <2>1, SavedGrows
<1>9. OpenInv(new, cp, price2, t, m, FALSE)
  BY <1>2, <1>7, MarketGrows
<1>10. ASSUME Follows(new, cp) PROVE Follows(rec, cp) /\ ~Jumps(rec, d)
  <2>1. /\ cp # NoCheckpoint /\ cp.last # NoTick /\ HeadOf(new) <= cp.last.sequence + SequenceLease
        /\ cp.last.sequence \in Nat /\ SequenceLease \in Nat
    BY <1>10, CheckpointFacts, Fields, Constants DEF Follows
  <2>2. Follows(rec, cp)
    BY <1>3, <2>1 DEF Follows
  <2>3. ~(d.sequence > cp.last.sequence + SequenceLease)
    BY <1>1, <1>3, <2>1
  <2> QED BY <1>2, <2>1, <2>2, <2>3
<1> QED BY <1>1, <1>2, <1>4, <1>5, <1>6, <1>7, <1>8, <1>9, <1>10
-----------------------------------------------------------------------------
(* The clock *)

\* A checkpoint that may be resumed later may be resumed now.
LEMMA ResumableBefore ==
  ASSUME NEW cp \in CheckpointType \cup {NoCheckpoint}, NEW t \in Nat, Resumable(cp, t + 1)
  PROVE  Resumable(cp, t)
<1>1. cp # NoCheckpoint /\ UsableRecord(cp) /\ ~Stale(cp, t + 1)
  BY DEF Resumable
<1>2. cp.savedAt \in Nat /\ MaxCatchUp \in Nat
  BY <1>1, CheckpointFacts, Constants
<1>3. ~Stale(cp, t)
  BY <1>1, <1>2 DEF Stale
<1> QED BY <1>1, <1>3 DEF Resumable

\* What is late stays late.
LEMMA LateStays ==
  ASSUME NEW t \in Nat, NEW i \in Int, Late(t, i)
  PROVE  Late(t + 1, i)
BY Constants DEF Late

\* A tick that may be resumed from may be resumed from later.
LEMMA ResumesAges ==
  ASSUME NEW rec \in Seq(TickType), NEW price, NEW d \in TickType, NEW t \in Nat, Resumes(rec, price, d, t)
  PROVE  Resumes(rec, price, d, t + 1)
<1>1. d.value.instant \in Int
  BY Fields
<1> QED BY <1>1, LateStays DEF Resumes

\* So may a tick beside a checkpoint.
LEMMA HeirAges ==
  ASSUME NEW rec, NEW cp \in CheckpointType \cup {NoCheckpoint}, NEW t \in Nat, NEW d, NEW stalled,
         Heir(rec, cp, t, d, stalled)
  PROVE  Heir(rec, cp, t + 1, d, stalled)
<1> SUFFICES ASSUME Resumable(cp, t + 1)
             PROVE  /\ Jumps(rec, d) => /\ stalled
                                        /\ Recorded(rec, cp.drawn) => Late(t + 1, cp.drawn.value.instant)
                    /\ Lost(rec, d) /\ ~stalled => d = cp.drawn
  BY DEF Heir
<1>1. Resumable(cp, t)
  BY ResumableBefore
<1>2. cp.drawn.value.instant \in Int
  <2>1. cp \in CheckpointType
    BY <1>1 DEF Resumable
  <2>2. cp.drawn \in TickType
    BY <2>1, CheckpointFacts
  <2> QED BY <2>2, Fields
<1>3. /\ Jumps(rec, d) => /\ stalled
                          /\ Recorded(rec, cp.drawn) => Late(t, cp.drawn.value.instant)
      /\ Lost(rec, d) /\ ~stalled => d = cp.drawn
  BY <1>1 DEF Heir
<1> QED BY <1>2, <1>3, LateStays

\* What holds of the store, the market and the batch holds as time passes.
LEMMA Ages ==
  ASSUME NEW rec \in Seq(TickType), NEW cp \in CheckpointType \cup {NoCheckpoint}, NEW price, NEW t \in Nat
  PROVE  /\ SavedInv(rec, cp, price, t) => SavedInv(rec, cp, price, t + 1)
         /\ \A m \in MarketType, stalled \in BOOLEAN :
              OpenInv(rec, cp, price, t, m, stalled) => OpenInv(rec, cp, price, t + 1, m, stalled)
         /\ \A m \in MarketType, stalled \in BOOLEAN, failed \in BOOLEAN :
              StallInv(t, m, stalled, failed) => StallInv(t + 1, m, stalled, failed)
         /\ \A m, stalled, at, b, T :
              BatchFits(rec, cp, price, t, m, stalled, at, b, T) =>
                BatchFits(rec, cp, price, t + 1, m, stalled, at, b, T)
<1>1. ASSUME SavedInv(rec, cp, price, t), cp # NoCheckpoint PROVE SavedInv(rec, cp, price, t + 1)
  <2>1. cp.savedAt \in Nat /\ cp.drawn \in TickType
    BY <1>1, CheckpointFacts
  <2>2. /\ cp.savedAt <= t /\ Shape(cp.drawn, cp.last)
        /\ cp.last # NoTick => Near(rec, cp.last)
        /\ Resumable(cp, t) => Resumes(rec, price, cp.drawn, t)
    BY <1>1 DEF SavedInv
  <2>3. cp.savedAt <= t + 1
    BY <2>1, <2>2
  <2>4. Resumable(cp, t + 1) => Resumes(rec, price, cp.drawn, t + 1)
    BY <2>1, <2>2, ResumableBefore, ResumesAges
  <2> QED BY <2>2, <2>3, <2>4 DEF SavedInv
<1>2. ASSUME NEW m \in MarketType, NEW stalled \in BOOLEAN, OpenInv(rec, cp, price, t, m, stalled)
      PROVE  OpenInv(rec, cp, price, t + 1, m, stalled)
  <2>1. m.drawn \in TickType
    BY DEF MarketType
  <2>2. /\ Resumes(rec, price, m.drawn, t)
        /\ Recorded(rec, m.drawn) => Watch(m) = m.drawn.value.instant
        /\ m.last # NoTick => Near(rec, m.last)
        /\ Heir(rec, cp, t, m.drawn, stalled)
        /\ cp # NoCheckpoint /\ cp.last # NoTick => m.last # NoTick /\ cp.last.sequence <= m.last.sequence
        /\ Resumable(cp, t) /\ Recorded(rec, cp.drawn) => cp.drawn.value.instant <= Watch(m)
    BY <1>2 DEF OpenInv
  <2>3. Resumes(rec, price, m.drawn, t + 1) /\ Heir(rec, cp, t + 1, m.drawn, stalled)
    BY <2>1, <2>2, ResumesAges, HeirAges
  <2>4. Resumable(cp, t + 1) => Resumable(cp, t)
    BY ResumableBefore
  <2> QED BY <2>2, <2>3, <2>4 DEF OpenInv
<1>3. ASSUME NEW m \in MarketType, NEW stalled \in BOOLEAN, NEW failed \in BOOLEAN,
             StallInv(t, m, stalled, failed)
      PROVE  StallInv(t + 1, m, stalled, failed)
  <2>1. Watch(m) \in Int
    BY DEF Watch, Larger, MarketType
  <2> QED BY <1>3, <2>1, LateStays DEF StallInv
<1>4. ASSUME NEW m, NEW stalled, NEW at, NEW b, NEW T, BatchFits(rec, cp, price, t, m, stalled, at, b, T)
      PROVE  BatchFits(rec, cp, price, t + 1, m, stalled, at, b, T)
  <2>1. Heir(rec, cp, t + 1, b[1], stalled)
    BY <1>4, HeirAges DEF BatchFits
  <2> QED BY <1>4, <2>1 DEF BatchFits
<1>5. cp = NoCheckpoint => SavedInv(rec, cp, price, t + 1)
  BY DEF SavedInv
<1> QED BY <1>1, <1>2, <1>3, <1>4, <1>5
-----------------------------------------------------------------------------
(* The steps *)

\* The state, where each step starts.
LEMMA Unfolded ==
  ASSUME IInv
  PROVE  /\ now \in Nat /\ saved \in CheckpointType \cup {NoCheckpoint} /\ record \in Seq(TickType)
         /\ pc \in {"down", "booting", "idle", "record", "save", "finish"}
         /\ venue \in VenueType /\ pass \in PassType /\ quoted \in PriceType
         /\ venue.hosted => venue.market \in MarketType /\ pc # "down"
         /\ RecordInv(record, now) /\ QuoteInv(record, quoted, now) /\ SavedInv(record, saved, quoted, now)
         /\ HostedInv /\ BatchInv /\ PassInv
BY DEF IInv, TypeInv

\* The parts of the venue and of a pass.
LEMMA VenueParts ==
  ASSUME IInv
  PROVE  /\ venue.hosted \in BOOLEAN /\ venue.seamed \in BOOLEAN /\ venue.stalled \in BOOLEAN
         /\ venue.awaiting \in BOOLEAN /\ venue.reopenedAt \in Int /\ venue.checkpointAt \in Int
         /\ venue.latest \in MaybeTick /\ venue.inForce \in PriceType
         /\ pass.advancedTo \in Int /\ pass.batch \in Seq(TickType) /\ pass.failed \in BOOLEAN
         /\ pass.plan \in CheckpointType \cup {NoCheckpoint} /\ pass.planAt \in Int
         /\ pass.stopping \in BOOLEAN
BY Unfolded DEF VenueType, PassType

\* What the venue and the pass are before there is one.
LEMMA Nothing ==
  /\ NoPrice \in PriceType /\ NoVenue \in VenueType /\ NoPass \in PassType
  /\ NoVenue.hosted = FALSE /\ NoVenue.stalled = FALSE /\ NoVenue.checkpointAt = -1
  /\ NoPass.batch = <<>> /\ NoPass.failed = FALSE /\ NoPass.plan = NoCheckpoint /\ NoPass.stopping = FALSE
<1>1. NoPrice \in PriceType
  BY DEF NoPrice, PriceType, MaybeTick, Never
<1>2. -1 \in Int /\ NoTick \in MarketType \cup {NoTick} /\ NoTick \in MaybeTick
  BY DEF MaybeTick
<1>3. NoVenue \in VenueType
  BY <1>1, <1>2 DEF NoVenue, VenueType, Never
<1>4. NoPass \in PassType
  BY <1>2 DEF NoPass, PassType, Never
<1> QED BY <1>1, <1>3, <1>4 DEF NoVenue, NoPass, Never

\* Where the program starts.
LEMMA InitInv == Init => IInv
<1> SUFFICES ASSUME Init PROVE IInv
  OBVIOUS
<1>1. /\ now = 0 /\ saved = NoCheckpoint /\ record = <<>> /\ pc = "down"
      /\ venue = NoVenue /\ pass = NoPass /\ quoted = NoPrice
  BY DEF Init
<1>2. TypeInv
  BY <1>1, Nothing DEF TypeInv
<1>3. RecordInv(record, now)
  BY <1>1 DEF RecordInv
<1>4. QuoteInv(record, quoted, now) /\ SavedInv(record, saved, quoted, now)
  BY <1>1 DEF QuoteInv, SavedInv
<1>5. HostedInv /\ BatchInv
  BY <1>1, Nothing DEF HostedInv, BatchInv, Taken
<1>6. PassInv
  BY <1>1, Nothing DEF PassInv, InPass
<1> QED BY <1>2, <1>3, <1>4, <1>5, <1>6 DEF IInv

\* What a step that records nothing leaves a price at.
LEMMA StillInForce ==
  ASSUME IInv, UNCHANGED record
  PROVE  quoted # NoPrice => InForce(quoted, record')
BY Unfolded DEF QuoteInv

\* A step of a client, or none.
LEMMA Elsewhere ==
  ASSUME IInv, UNCHANGED <<now, saved, record, pc, venue, pass, quoted>>
  PROVE  IInv'
BY DEF IInv, TypeInv, HostedInv, BatchInv, PassInv, Taken, InPass, Bound

\* The end of the process, whatever it has last written.
LEMMA Gone ==
  ASSUME IInv, Exit, UNCHANGED <<now, record, quoted>>,
         saved' \in CheckpointType \cup {NoCheckpoint}, SavedInv(record, saved', quoted, now)
  PROVE  IInv'
<1>1. pc' = "down" /\ venue' = NoVenue /\ pass' = NoPass
  BY DEF Exit
<1>2. /\ now \in Nat /\ record \in Seq(TickType) /\ quoted \in PriceType
      /\ RecordInv(record, now) /\ QuoteInv(record, quoted, now)
  BY Unfolded
<1>3. TypeInv'
  BY <1>1, <1>2, Nothing DEF TypeInv
<1>4. HostedInv' /\ BatchInv'
  BY <1>1, Nothing DEF HostedInv, BatchInv, Taken
<1>5. PassInv'
  <2>1. venue'.checkpointAt <= now' /\ pc' = "down"
    BY <1>1, <1>2, Nothing
  <2> QED BY <2>1 DEF PassInv, InPass
<1> QED BY <1>2, <1>3, <1>4, <1>5 DEF IInv

\* Time passes.
LEMMA TickStep ==
  ASSUME IInv, Tick
  PROVE  IInv'
<1>1. now' = now + 1 /\ UNCHANGED <<saved, record, pc, venue, pass, quoted>>
  BY DEF Tick
<1>2. /\ now \in Nat /\ now + 1 \in Nat /\ now <= now + 1 /\ saved \in CheckpointType \cup {NoCheckpoint}
      /\ record \in Seq(TickType) /\ quoted \in PriceType
      /\ RecordInv(record, now) /\ QuoteInv(record, quoted, now) /\ SavedInv(record, saved, quoted, now)
      /\ venue.hosted => venue.market \in MarketType
      /\ HostedInv /\ BatchInv /\ PassInv /\ TypeInv
  BY Unfolded DEF IInv
<1>3. TypeInv'
  BY <1>1, <1>2 DEF TypeInv
<1>4. RecordInv(record', now') /\ QuoteInv(record', quoted', now') /\ SavedInv(record', saved', quoted', now')
  <2>1. RecordInv(record, now + 1)
    BY <1>2, RecordAges
  <2>2. QuoteInv(record, quoted, now + 1)
    <3>1. quoted.asOf \in Int
      BY <1>2 DEF PriceType
    <3> QED BY <1>2, <3>1 DEF QuoteInv
  <2>3. SavedInv(record, saved, quoted, now + 1)
    BY <1>2, Ages
  <2> QED BY <1>1, <2>1, <2>2, <2>3
<1>5. HostedInv'
  <2> SUFFICES ASSUME venue.hosted
               PROVE  /\ MarketInv(venue.market)
                      /\ ~Taken =>
                           /\ OpenInv(record, saved, quoted, now + 1, venue.market, venue.stalled)
                           /\ \/ pc = "save" /\ pass.plan # NoCheckpoint
                              \/ LagInv(record, saved, venue.market, venue.stalled, venue.checkpointAt, Bound)
                           /\ StallInv(now + 1, venue.market, venue.stalled, InPass => pass.failed)
                           /\ venue.latest = Newest(record)
    BY <1>1 DEF HostedInv, Taken, InPass, Bound
  <2>1. venue.market \in MarketType /\ venue.stalled \in BOOLEAN /\ (InPass => pass.failed) \in BOOLEAN
    BY <1>2, VenueParts
  <2>2. ~Taken => /\ OpenInv(record, saved, quoted, now, venue.market, venue.stalled)
                  /\ StallInv(now, venue.market, venue.stalled, InPass => pass.failed)
    BY <1>2 DEF HostedInv
  <2>3. ~Taken => OpenInv(record, saved, quoted, now + 1, venue.market, venue.stalled)
    BY <1>2, <2>1, <2>2, Ages
  <2>4. ~Taken => StallInv(now + 1, venue.market, venue.stalled, InPass => pass.failed)
    <3> DEFINE f == InPass => pass.failed
    <3> HIDE DEF f
    <3>1. f \in BOOLEAN
      BY <2>1 DEF f
    <3>2. ~Taken => StallInv(now, venue.market, venue.stalled, f)
      BY <2>2 DEF f
    <3>3. ~Taken => StallInv(now + 1, venue.market, venue.stalled, f)
      BY <1>2, <2>1, <3>1, <3>2, Ages
    <3> QED BY <3>3 DEF f
  <2> QED BY <1>2, <2>3, <2>4 DEF HostedInv
<1>6. BatchInv'
  <2> SUFFICES ASSUME Taken
               PROVE  BatchInv'
    BY <1>1 DEF BatchInv, Taken
  <2>1. /\ venue.hosted /\ ~pass.failed
        /\ BatchFits(record, saved, quoted, now, venue.market, venue.stalled, venue.checkpointAt,
                     pass.batch, pass.advancedTo)
    BY <1>2 DEF BatchInv
  <2>2. BatchFits(record, saved, quoted, now + 1, venue.market, venue.stalled, venue.checkpointAt,
                  pass.batch, pass.advancedTo)
    BY <1>2, <2>1, Ages
  <2> QED BY <1>1, <2>1, <2>2 DEF BatchInv
<1>7. PassInv'
  <2>1. venue.checkpointAt \in Int /\ pass.advancedTo \in Int /\ pass.planAt \in Int
    BY VenueParts
  <2>2. venue.checkpointAt <= now + 1
    BY <1>2, <2>1 DEF PassInv
  <2>3. InPass => 0 <= pass.advancedTo /\ pass.advancedTo <= now + 1
    BY <1>2, <2>1 DEF PassInv
  <2>4. pc = "save" => 0 <= pass.planAt /\ pass.planAt <= now + 1
    BY <1>2, <2>1 DEF PassInv
  <2> QED BY <1>1, <1>2, <2>2, <2>3, <2>4 DEF PassInv, InPass
<1> QED BY <1>3, <1>4, <1>5, <1>6, <1>7 DEF IInv
\* The start of the process.
LEMMA BootStep ==
  ASSUME Deployed, IInv, Boot
  PROVE  IInv'
<1>1. /\ now \in Nat /\ saved \in CheckpointType \cup {NoCheckpoint} /\ record \in Seq(TickType)
      /\ quoted \in PriceType /\ pass \in PassType /\ TypeInv
      /\ RecordInv(record, now) /\ QuoteInv(record, quoted, now) /\ SavedInv(record, saved, quoted, now)
  BY Unfolded DEF IInv
<1>2. UNCHANGED <<now, saved, record, pass, quoted>>
  BY DEF Boot
<1>3. PICK m : m = Primed(Opening(saved, Newest(record), now, now).market)
  OBVIOUS
<1>4. /\ m \in MarketType /\ MarketInv(m) /\ OpenInv(record, saved, quoted, now, m, FALSE)
      /\ LagInv(record, saved, m, FALSE, -1, Slack - MaxCatchUp)
      /\ saved # NoCheckpoint => m.last = saved.last
  <2>1. m \in MarketType /\ MarketInv(m) /\ OpenInv(record, saved, quoted, now, m, FALSE)
    BY <1>1, <1>3, OpeningFits
  <2>2. \A at : LagInv(record, saved, m, FALSE, at, Slack - MaxCatchUp)
    BY <1>1, <1>3, OpeningFits
  <2>3. saved # NoCheckpoint => m.last = saved.last
    <3>1. SameLast(saved, m)
      BY <1>1, <1>3, OpeningFits
    <3> QED BY <3>1 DEF SameLast
  <2> QED BY <2>1, <2>2, <2>3
<1>5. CASE UNCHANGED <<pc, venue, feed>>
  BY <1>2, <1>5, Elsewhere
<1>6. CASE ~UNCHANGED <<pc, venue, feed>>
  <2>1. PICK seamed \in BOOLEAN :
          /\ pc' = "booting"
          /\ venue' = [NoVenue EXCEPT !.market = m, !.hosted = TRUE, !.seamed = seamed,
                                      !.latest = Newest(record)]
    BY <1>3, <1>6 DEF Boot
  <2>2. Newest(record) \in MaybeTick
    BY <1>1, HeadFacts DEF MaybeTick
  <2>3. venue' = [market |-> m, hosted |-> TRUE, seamed |-> seamed, stalled |-> FALSE, awaiting |-> FALSE,
                  reopenedAt |-> -1, checkpointAt |-> -1, latest |-> Newest(record), inForce |-> NoPrice]
    BY <2>1 DEF NoVenue, Never
  <2>4. /\ venue'.market = m /\ venue'.hosted = TRUE /\ venue'.stalled = FALSE
        /\ venue'.checkpointAt = -1 /\ venue'.latest = Newest(record)
    BY <2>3
  <2>5. venue' \in VenueType
    <3>1. NoPrice \in PriceType /\ -1 \in Int
      BY Nothing
    <3> QED BY <1>4, <2>2, <2>3, <3>1 DEF VenueType
  <2>6. TypeInv'
    BY <1>1, <1>2, <1>4, <2>1, <2>4, <2>5 DEF TypeInv
  <2>7. ~Taken' /\ ~InPass' /\ Bound' = Slack - MaxCatchUp
    BY <2>1 DEF Taken, InPass, Bound
  <2>8. HostedInv'
    <3>1. StallInv(now, m, FALSE, TRUE)
      BY DEF StallInv
    <3>2. InPass' => pass.failed
      BY <2>7
    <3>3. StallInv(now', venue'.market, venue'.stalled, (InPass => pass.failed)')
      BY <1>2, <2>4 DEF StallInv
    <3> QED BY <1>2, <1>4, <2>4, <2>7, <3>3 DEF HostedInv
  <2>9. BatchInv'
    BY <2>7 DEF BatchInv
  <2>10. PassInv'
    <3>1. venue'.checkpointAt <= now'
      BY <1>1, <1>2, <2>4
    <3> QED BY <1>2, <1>4, <2>1, <2>4, <2>7, <3>1 DEF PassInv
  <2>11. RecordInv(record', now') /\ QuoteInv(record', quoted', now') /\ SavedInv(record', saved', quoted', now')
    BY <1>1, <1>2
  <2> QED BY <2>6, <2>8, <2>9, <2>10, <2>11 DEF IInv
<1> QED BY <1>5, <1>6

\* A seamed market armed again, and the venue ready.
LEMMA ReadyStep ==
  ASSUME Deployed, IInv, Ready
  PROVE  IInv'
<1>1. /\ now \in Nat /\ saved \in CheckpointType \cup {NoCheckpoint} /\ record \in Seq(TickType)
      /\ quoted \in PriceType /\ pass \in PassType /\ venue \in VenueType /\ TypeInv
      /\ RecordInv(record, now) /\ QuoteInv(record, quoted, now) /\ SavedInv(record, saved, quoted, now)
      /\ HostedInv /\ PassInv
      /\ venue.hosted => venue.market \in MarketType
  BY Unfolded DEF IInv
<1>2. UNCHANGED <<now, saved, record, pass, quoted>> /\ pc = "booting" /\ pc' = "idle"
  BY DEF Ready
<1>3. PICK n : n = Primed(Opening(saved, Newest(record), now, now).market)
  OBVIOUS
<1>4. /\ n \in MarketType /\ MarketInv(n) /\ OpenInv(record, saved, quoted, now, n, FALSE)
      /\ LagInv(record, saved, n, FALSE, now, Slack - MaxCatchUp)
  BY <1>1, <1>3, OpeningFits
<1>5. PICK m : /\ m = n \/ m = venue.market
               /\ venue' = [venue EXCEPT !.market = m, !.awaiting = venue.seamed, !.checkpointAt = now]
  BY <1>3 DEF Ready
<1>6. /\ venue'.market = m /\ venue'.hosted = venue.hosted /\ venue'.stalled = venue.stalled
      /\ venue'.checkpointAt = now /\ venue'.latest = venue.latest /\ venue' \in VenueType
  <2>1. m \in MarketType \cup {NoTick} /\ venue.seamed \in BOOLEAN /\ now \in Int
    BY <1>1, <1>4, <1>5 DEF VenueType
  <2>2. PICK u \in Int : u = now
    BY <2>1
  <2>3. venue' = [venue EXCEPT !.market = m, !.awaiting = venue.seamed, !.checkpointAt = u]
    BY <1>5, <2>2
  <2> QED BY <1>1, <2>1, <2>2, <2>3 DEF VenueType
<1>7. ~Taken /\ ~InPass /\ Bound = Slack - MaxCatchUp /\ ~Taken' /\ ~InPass' /\ Bound' = Slack - MaxCatchUp
  BY <1>2 DEF Taken, InPass, Bound
<1>8. venue.hosted => /\ m \in MarketType /\ MarketInv(m) /\ OpenInv(record, saved, quoted, now, m, FALSE)
                      /\ LagInv(record, saved, m, FALSE, now, Slack - MaxCatchUp)
                      /\ venue.stalled = FALSE /\ venue.latest = Newest(record)
  <2> SUFFICES ASSUME venue.hosted
               PROVE  /\ m \in MarketType /\ MarketInv(m) /\ OpenInv(record, saved, quoted, now, m, FALSE)
                      /\ LagInv(record, saved, m, FALSE, now, Slack - MaxCatchUp)
                      /\ venue.stalled = FALSE /\ venue.latest = Newest(record)
    OBVIOUS
  <2>1. venue.stalled = FALSE /\ (saved # NoCheckpoint => venue.market.last = saved.last)
    BY <1>1, <1>2, VenueParts DEF PassInv
  <2>2. /\ MarketInv(venue.market) /\ OpenInv(record, saved, quoted, now, venue.market, FALSE)
        /\ LagInv(record, saved, venue.market, FALSE, venue.checkpointAt, Slack - MaxCatchUp)
        /\ venue.latest = Newest(record)
    BY <1>1, <1>2, <1>7, <2>1 DEF HostedInv
  <2>3. LagInv(record, saved, venue.market, FALSE, now, Slack - MaxCatchUp)
    BY <2>1, <2>2 DEF LagInv, Follows
  <2> QED BY <1>1, <1>4, <1>5, <2>1, <2>2, <2>3
<1>9. TypeInv'
  BY <1>1, <1>2, <1>6, <1>8 DEF TypeInv
<1>10. HostedInv'
  <2>1. venue.hosted => StallInv(now', venue'.market, venue'.stalled, (InPass => pass.failed)')
    BY <1>2, <1>6, <1>8 DEF StallInv
  <2> QED BY <1>2, <1>6, <1>7, <1>8, <2>1 DEF HostedInv
<1>11. BatchInv'
  BY <1>7 DEF BatchInv
<1>12. PassInv'
  <2>1. venue'.checkpointAt <= now'
    BY <1>1, <1>2, <1>6
  <2> QED BY <1>2, <1>7, <2>1 DEF PassInv
<1> QED BY <1>1, <1>2, <1>9, <1>10, <1>11, <1>12 DEF IInv

\* The venue stops between two passes.
LEMMA StopStep ==
  ASSUME IInv, Stop
  PROVE  IInv'
<1>1. /\ now \in Nat /\ venue \in VenueType /\ TypeInv
      /\ RecordInv(record, now) /\ QuoteInv(record, quoted, now) /\ SavedInv(record, saved, quoted, now)
      /\ HostedInv /\ PassInv
      /\ venue.hosted => venue.market \in MarketType
  BY Unfolded DEF IInv
<1>2. /\ UNCHANGED <<now, saved, record, quoted, venue>> /\ pc = "idle" /\ pc' = "save"
      /\ pass' = [NoPass EXCEPT !.plan = Planned(venue), !.planAt = now, !.stopping = TRUE]
  BY DEF Stop
<1>3. PICK plan \in CheckpointType \cup {NoCheckpoint} :
        /\ plan = Planned(venue)
        /\ plan # NoCheckpoint => venue.hosted /\ ~venue.stalled /\ plan = CheckpointMarket(venue.market, now)
        /\ plan = NoCheckpoint => ~venue.hosted \/ venue.stalled
  <2>1. venue.hosted => CheckpointMarket(venue.market, now) \in CheckpointType
                        /\ CheckpointMarket(venue.market, now) # NoCheckpoint
    BY <1>1, PlanFacts
  <2> QED BY <2>1 DEF Planned
<1>4. pass' = [advancedTo |-> -1, batch |-> <<>>, failed |-> FALSE, plan |-> plan, planAt |-> now,
               stopping |-> TRUE]
  BY <1>2, <1>3 DEF NoPass, Never
<1>5. /\ pass'.plan = plan /\ pass'.planAt = now /\ pass'.stopping = TRUE /\ pass'.failed = FALSE
      /\ pass' \in PassType
  <2>1. -1 \in Int /\ <<>> \in Seq(TickType) /\ now \in Int
    BY <1>1
  <2>2. pass' \in PassType
    BY <1>3, <1>4, <2>1 DEF PassType
  <2> QED BY <1>4, <2>2
<1>6. ~Taken /\ ~InPass /\ Bound = Slack - MaxCatchUp /\ ~Taken' /\ ~InPass' /\ Bound' = Slack - MaxCatchUp
  BY <1>2, <1>5 DEF Taken, InPass, Bound
<1>7. TypeInv'
  BY <1>1, <1>2, <1>5 DEF TypeInv
<1>8. HostedInv'
  <2> SUFFICES ASSUME venue.hosted
               PROVE  /\ MarketInv(venue.market)
                      /\ OpenInv(record, saved, quoted, now, venue.market, venue.stalled)
                      /\ LagInv(record, saved, venue.market, venue.stalled, venue.checkpointAt, Slack - MaxCatchUp)
                      /\ StallInv(now, venue.market, venue.stalled, (InPass => pass.failed)')
                      /\ venue.latest = Newest(record)
    BY <1>2, <1>6 DEF HostedInv
  <2>1. /\ MarketInv(venue.market)
        /\ OpenInv(record, saved, quoted, now, venue.market, venue.stalled)
        /\ LagInv(record, saved, venue.market, venue.stalled, venue.checkpointAt, Slack - MaxCatchUp)
        /\ StallInv(now, venue.market, venue.stalled, InPass => pass.failed)
        /\ venue.latest = Newest(record)
    BY <1>1, <1>2, <1>6 DEF HostedInv
  <2>2. StallInv(now, venue.market, venue.stalled, (InPass => pass.failed)')
    BY <1>6, <2>1 DEF StallInv
  <2> QED BY <2>1, <2>2
<1>9. BatchInv'
  BY <1>6 DEF BatchInv
<1>10. PassInv'
  <2>1. venue.checkpointAt <= now
    BY <1>1 DEF PassInv
  <2>2. 0 <= pass'.planAt /\ pass'.planAt <= now'
    BY <1>1, <1>2, <1>5
  <2> QED BY <1>1, <1>2, <1>3, <1>5, <1>6, <2>1, <2>2 DEF PassInv
<1> QED BY <1>1, <1>2, <1>7, <1>8, <1>9, <1>10 DEF IInv
\* A market watched for a while past its last advance, no longer than its bound.
LEMMA ObservedFits ==
  ASSUME NEW rec \in Seq(TickType), NEW t \in Nat, NEW T \in Nat,
         \A k \in 1..Len(rec) : rec[k].value.instant <= T,
         NEW price, NEW cp \in CheckpointType \cup {NoCheckpoint}, NEW m \in MarketType, NEW at,
         m.advancedAt = T, T < m.drawn.value.instant,
         MarketInv(m), OpenInv(rec, cp, price, t, m, FALSE),
         LagInv(rec, cp, m, FALSE, at, Slack - 2 * MaxCatchUp),
         NEW w \in Int, T <= w, w <= T + MaxCatchUp, NEW n, n = ObservedUntil(m, w)
  PROVE  /\ n \in MarketType /\ MarketInv(n) /\ OpenInv(rec, cp, price, t, n, FALSE)
         /\ LagInv(rec, cp, n, FALSE, at, Slack - MaxCatchUp)
<1>1. /\ m.drawn \in TickType /\ m.drawn.value.instant \in Nat /\ m.floor \in Nat /\ m.advancedAt \in Int
      /\ m.last \in MaybeTick /\ m.pending = TRUE
  BY Fields DEF MarketType
<1>2. n = [drawn |-> m.drawn, floor |-> m.floor, pending |-> TRUE, last |-> m.last, advancedAt |-> w]
  <2>1. Larger(m.advancedAt, w) = w
    BY DEF Larger
  <2> QED BY <1>1, <2>1 DEF ObservedUntil, MarketType
<1>3. n.drawn = m.drawn /\ n.floor = m.floor /\ n.last = m.last /\ n.advancedAt = w
  BY <1>2
<1>4. n \in MarketType
  BY <1>1, <1>2 DEF MarketType
<1>5. MarketInv(n)
  <2>1. w <= m.drawn.value.instant + MaxCatchUp
    BY <1>1, Constants
  <2> QED BY <1>3, <2>1 DEF MarketInv
<1>6. ~Recorded(rec, m.drawn)
  BY <1>1 DEF Recorded
<1>7. Watch(m) <= Watch(n) /\ Watch(m) \in Int /\ Watch(n) \in Int
  BY <1>1, <1>3 DEF Watch, Larger
<1>8. OpenInv(rec, cp, price, t, n, FALSE)
  <2>1. Resumable(cp, t) /\ Recorded(rec, cp.drawn) => cp.drawn.value.instant <= Watch(n)
    <3> SUFFICES ASSUME Resumable(cp, t), Recorded(rec, cp.drawn) PROVE cp.drawn.value.instant <= Watch(n)
      OBVIOUS
    <3>1. cp \in CheckpointType
      BY DEF Resumable
    <3>2. cp.drawn.value.instant \in Nat
      BY <3>1, CheckpointFacts, Fields
    <3>3. cp.drawn.value.instant <= Watch(m)
      BY DEF OpenInv
    <3> QED BY <1>7, <3>2, <3>3
  <2> QED BY <1>3, <1>6, <2>1 DEF OpenInv
<1>9. LagInv(rec, cp, n, FALSE, at, Slack - MaxCatchUp)
  <2> SUFFICES ASSUME Follows(rec, cp), Continues(m.drawn, m.last)
               PROVE  /\ m.floor <= cp.last.value.instant + Slack - 2 * MaxCatchUp
                      /\ m.last # cp.last => at <= cp.last.value.instant + Gap + 2 * MaxCatchUp
                      /\ w <= cp.last.value.instant + (Slack - MaxCatchUp)
    BY <1>3 DEF LagInv
  <2>1. /\ m.floor <= cp.last.value.instant + Slack - 2 * MaxCatchUp
        /\ m.last # cp.last => at <= cp.last.value.instant + Gap + 2 * MaxCatchUp
        /\ T <= cp.last.value.instant + (Slack - 2 * MaxCatchUp)
    BY DEF LagInv
  <2>2. cp.last.value.instant \in Nat
    <3>1. cp \in CheckpointType /\ cp.last # NoTick
      BY DEF Follows
    <3> QED BY <3>1, CheckpointFacts, Fields
  <2>3. w <= cp.last.value.instant + (Slack - MaxCatchUp)
    BY <2>1, <2>2, Constants
  <2> QED BY <2>1, <2>3
<1> QED BY <1>4, <1>5, <1>8, <1>9

\* The end of a pass.
LEMMA FinishStep ==
  ASSUME IInv, Finish
  PROVE  IInv'
<1>1. /\ now \in Nat /\ venue \in VenueType /\ TypeInv
      /\ RecordInv(record, now) /\ QuoteInv(record, quoted, now) /\ SavedInv(record, saved, quoted, now)
      /\ record \in Seq(TickType) /\ saved \in CheckpointType \cup {NoCheckpoint}
      /\ HostedInv /\ PassInv
      /\ venue.hosted => venue.market \in MarketType
  BY Unfolded DEF IInv
<1>2. UNCHANGED <<now, saved, record, quoted>> /\ pc = "finish" /\ pc' = "idle" /\ pass' = NoPass
  BY DEF Finish
<1>3. ~Taken /\ ~Taken' /\ ~InPass' /\ Bound' = Slack - MaxCatchUp /\ (InPass <=> ~pass.stopping)
  BY <1>2 DEF Taken, InPass, Bound
<1>4. CASE ~(venue.hosted /\ ~pass.failed /\ ~venue.stalled)
  <2>1. venue' = venue
    BY <1>4 DEF Finish
  <2>2. TypeInv'
    BY <1>1, <1>2, <2>1, Nothing DEF TypeInv
  <2>3. HostedInv'
    <3> SUFFICES ASSUME venue.hosted
                 PROVE  /\ MarketInv(venue.market)
                        /\ OpenInv(record, saved, quoted, now, venue.market, venue.stalled)
                        /\ LagInv(record, saved, venue.market, venue.stalled, venue.checkpointAt, Slack - MaxCatchUp)
                        /\ StallInv(now, venue.market, venue.stalled, (InPass => pass.failed)')
                        /\ venue.latest = Newest(record)
      BY <1>2, <1>3, <2>1 DEF HostedInv
    <3>1. /\ MarketInv(venue.market)
          /\ OpenInv(record, saved, quoted, now, venue.market, venue.stalled)
          /\ LagInv(record, saved, venue.market, venue.stalled, venue.checkpointAt, Bound)
          /\ StallInv(now, venue.market, venue.stalled, InPass => pass.failed)
          /\ venue.latest = Newest(record)
      BY <1>1, <1>2, <1>3 DEF HostedInv
    <3>2. StallInv(now, venue.market, venue.stalled, (InPass => pass.failed)')
      BY <1>3, <3>1 DEF StallInv
    <3>3. LagInv(record, saved, venue.market, venue.stalled, venue.checkpointAt, Slack - MaxCatchUp)
      <4>1. CASE Bound = Slack - MaxCatchUp
        BY <3>1, <4>1
      <4>2. CASE Bound = Slack - 2 * MaxCatchUp
        <5> SUFFICES ASSUME Follows(record, saved)
                     PROVE  venue.market.advancedAt <= saved.last.value.instant + (Slack - 2 * MaxCatchUp) =>
                              venue.market.advancedAt <= saved.last.value.instant + (Slack - MaxCatchUp)
          BY <3>1, <4>2 DEF LagInv
        <5>1. saved.last \in TickType
          BY <1>1, CheckpointFacts DEF Follows
        <5>2. saved.last.value.instant \in Nat /\ venue.market.advancedAt \in Int
          BY <1>1, <5>1, Fields DEF MarketType
        <5> QED BY <5>2, Constants
      <4> QED BY <1>2, <4>1, <4>2 DEF Bound
    <3> QED BY <3>1, <3>2, <3>3
  <2>4. PassInv'
    <3>1. venue.checkpointAt <= now
      BY <1>1 DEF PassInv
    <3> QED BY <1>2, <1>3, <2>1, <3>1 DEF PassInv
  <2>5. BatchInv'
    BY <1>3 DEF BatchInv
  <2> QED BY <1>1, <1>2, <2>2, <2>3, <2>4, <2>5 DEF IInv
<1>5. CASE venue.hosted /\ ~pass.failed /\ ~venue.stalled
  <2>1. PICK m \in MarketType : m = venue.market
    BY <1>1, <1>5
  <2>2. PICK T \in Nat : T = pass.advancedTo /\ T <= now
    <3>1. pass.advancedTo \in Int
      BY VenueParts
    <3> QED BY <1>1, <1>2, <1>3, <3>1 DEF PassInv
  <2>3. PICK w : /\ w = IF now <= T + MaxCatchUp THEN now ELSE T + MaxCatchUp
                 /\ venue' = [venue EXCEPT !.market = ObservedUntil(m, w)]
    BY <1>5, <2>1, <2>2 DEF Finish
  <2>4. w \in Int /\ T <= w /\ w <= T + MaxCatchUp
    <3>1. MaxCatchUp \in Nat
      BY Constants
    <3>2. CASE now <= T + MaxCatchUp
      BY <1>1, <2>2, <2>3, <3>2
    <3>3. CASE ~(now <= T + MaxCatchUp)
      BY <2>3, <3>1, <3>3
    <3> QED BY <3>2, <3>3
  <2>5. /\ \A k \in 1..Len(record) : record[k].value.instant <= T
        /\ m.advancedAt = T
        /\ T < m.drawn.value.instant
    BY <1>1, <1>2, <1>3, <1>5, <2>1, <2>2 DEF PassInv
  <2>6. /\ MarketInv(m) /\ OpenInv(record, saved, quoted, now, m, FALSE)
        /\ LagInv(record, saved, m, FALSE, venue.checkpointAt, Slack - 2 * MaxCatchUp)
        /\ venue.latest = Newest(record) /\ venue.stalled = FALSE
    <3>1. Bound = Slack - 2 * MaxCatchUp
      BY <1>2, <1>5 DEF Bound
    <3>2. venue.stalled = FALSE
      BY <1>5, VenueParts
    <3> QED BY <1>1, <1>2, <1>3, <1>5, <2>1, <3>1, <3>2 DEF HostedInv
  <2>7. PICK n : n = ObservedUntil(m, w)
    OBVIOUS
  <2>8. /\ n \in MarketType /\ MarketInv(n) /\ OpenInv(record, saved, quoted, now, n, FALSE)
        /\ LagInv(record, saved, n, FALSE, venue.checkpointAt, Slack - MaxCatchUp)
    BY <1>1, <2>4, <2>5, <2>6, <2>7, ObservedFits
  <2>9. /\ venue'.market = n /\ venue'.hosted = venue.hosted /\ venue'.stalled = FALSE
        /\ venue'.checkpointAt = venue.checkpointAt /\ venue'.latest = venue.latest
        /\ venue' \in VenueType
    <3>1. venue' = [venue EXCEPT !.market = n] /\ n \in MarketType \cup {NoTick}
      BY <2>3, <2>7, <2>8
    <3> QED BY <1>1, <2>6, <3>1 DEF VenueType
  <2>10. TypeInv'
    BY <1>1, <1>2, <2>8, <2>9, Nothing DEF TypeInv
  <2>11. HostedInv'
    <3>1. StallInv(now', venue'.market, venue'.stalled, (InPass => pass.failed)')
      BY <2>9 DEF StallInv
    <3> QED BY <1>2, <1>3, <2>6, <2>8, <2>9, <3>1 DEF HostedInv
  <2>12. PassInv'
    <3>1. venue.checkpointAt <= now
      BY <1>1 DEF PassInv
    <3> QED BY <1>2, <1>3, <2>9, <3>1 DEF PassInv
  <2>13. BatchInv'
    BY <1>3 DEF BatchInv
  <2> QED BY <1>1, <1>2, <2>10, <2>11, <2>12, <2>13 DEF IInv
<1> QED BY <1>4, <1>5

\* A market that goes on from its own checkpoint is not far past what it saw.
LEMMA SavedLag ==
  ASSUME NEW rec, NEW m \in MarketType, MarketInv(m), m.advancedAt <= m.drawn.value.instant,
         NEW cp, cp.last = m.last, NEW at, NEW stalled
  PROVE  LagInv(rec, cp, m, stalled, at, Slack - 2 * MaxCatchUp)
<1> SUFFICES ASSUME m.last # NoTick, Continues(m.drawn, m.last)
             PROVE  /\ m.floor <= m.last.value.instant + Slack - 2 * MaxCatchUp
                    /\ m.advancedAt <= m.last.value.instant + (Slack - 2 * MaxCatchUp)
  BY DEF LagInv, Follows
<1>1. m.last \in TickType /\ m.drawn = Later(m.last, 1)
  BY DEF Continues, MarketType, MaybeTick
<1>2. /\ m.last.value.instant \in Nat /\ m.drawn.value.instant = m.last.value.instant + Gap
      /\ m.floor \in Nat /\ m.advancedAt \in Int
  BY <1>1, NextTick, Fields DEF MarketType
<1>3. m.floor <= m.drawn.value.instant
  BY DEF MarketInv
<1>4. Gap \in Nat /\ Slack - 2 * MaxCatchUp \in Nat /\ Gap <= Slack - 2 * MaxCatchUp /\ Slack \in Nat /\ MaxCatchUp \in Nat
  BY Constants
<1>5. PICK s \in Nat : s = Slack - 2 * MaxCatchUp
  BY <1>4
<1>6. m.floor <= m.last.value.instant + s /\ m.advancedAt <= m.last.value.instant + s
  BY <1>2, <1>3, <1>4, <1>5
<1>7. m.last.value.instant + Slack - 2 * MaxCatchUp = m.last.value.instant + s
  BY <1>2, <1>4, <1>5
<1> QED BY <1>5, <1>6, <1>7

\* The checkpoint is written, and the pass goes on or the process ends.
LEMMA SaveStep ==
  ASSUME IInv, Save
  PROVE  IInv'
<1>1. /\ now \in Nat /\ venue \in VenueType /\ TypeInv /\ pass \in PassType
      /\ RecordInv(record, now) /\ QuoteInv(record, quoted, now) /\ SavedInv(record, saved, quoted, now)
      /\ record \in Seq(TickType) /\ saved \in CheckpointType \cup {NoCheckpoint}
      /\ HostedInv /\ PassInv
      /\ (venue.hosted => venue.market \in MarketType)
  BY Unfolded DEF IInv
<1>2. /\ UNCHANGED <<now, record, quoted>> /\ pc = "save"
      /\ saved' = IF pass.plan = NoCheckpoint THEN saved ELSE pass.plan
      /\ pass.stopping => Exit
      /\ ~pass.stopping => pc' = "finish" /\ pass' = pass
                           /\ venue' = [venue EXCEPT !.checkpointAt = pass.planAt]
  BY DEF Save
<1>3. /\ pass.plan \in CheckpointType \cup {NoCheckpoint} /\ pass.stopping \in BOOLEAN
      /\ pass.failed \in BOOLEAN /\ venue.stalled \in BOOLEAN
  BY VenueParts
<1>4. PICK at \in Nat : at = pass.planAt /\ at <= now
  <2>1. pass.planAt \in Int
    BY VenueParts
  <2> QED BY <1>1, <1>2, <2>1 DEF PassInv
<1>5. ~Taken /\ (InPass <=> ~pass.stopping) /\ Bound = Slack - MaxCatchUp
  BY <1>2 DEF Taken, InPass, Bound
<1>6. PICK m : m = venue.market
  OBVIOUS
<1>7. venue.hosted => /\ m \in MarketType /\ MarketInv(m)
                      /\ OpenInv(record, saved, quoted, now, m, venue.stalled)
                      /\ pass.plan # NoCheckpoint \/ LagInv(record, saved, m, venue.stalled, venue.checkpointAt, Slack - MaxCatchUp)
                      /\ StallInv(now, m, venue.stalled, InPass => pass.failed)
                      /\ venue.latest = Newest(record)
  BY <1>1, <1>2, <1>5, <1>6 DEF HostedInv
<1>8. pass.plan # NoCheckpoint => /\ venue.hosted /\ venue.stalled = FALSE
                                  /\ pass.plan \in CheckpointType
                                  /\ pass.plan.savedAt = at /\ pass.plan.drawn = m.drawn
                                  /\ pass.plan.last = m.last
  <2> SUFFICES ASSUME pass.plan # NoCheckpoint
               PROVE  /\ venue.hosted /\ venue.stalled = FALSE /\ pass.plan \in CheckpointType
                      /\ pass.plan.savedAt = at /\ pass.plan.drawn = m.drawn /\ pass.plan.last = m.last
    OBVIOUS
  <2>1. venue.hosted /\ venue.stalled = FALSE /\ pass.plan = CheckpointMarket(m, at)
    BY <1>1, <1>2, <1>3, <1>4, <1>6 DEF PassInv
  <2>2. m \in MarketType
    BY <1>7, <2>1
  <2>3. PICK plan : plan = pass.plan
    OBVIOUS
  <2>4. plan = CheckpointMarket(m, at)
    BY <2>1, <2>3
  <2>5. plan \in CheckpointType /\ plan.savedAt = at /\ plan.drawn = m.drawn /\ plan.last = m.last
    BY <2>2, <2>4, PlanFacts
  <2> QED BY <2>1, <2>3, <2>5
<1>9. PICK cp \in CheckpointType \cup {NoCheckpoint} :
        cp = saved' /\ (pass.plan = NoCheckpoint => cp = saved) /\ (pass.plan # NoCheckpoint => cp = pass.plan)
  BY <1>1, <1>2, <1>3
<1>10. pass.plan # NoCheckpoint => SavedInv(record, cp, quoted, now) /\ OpenInv(record, cp, quoted, now, m, FALSE)
  <2> SUFFICES ASSUME pass.plan # NoCheckpoint
               PROVE  SavedInv(record, cp, quoted, now) /\ OpenInv(record, cp, quoted, now, m, FALSE)
    OBVIOUS
  <2>1. /\ cp \in CheckpointType /\ cp.savedAt <= now /\ cp.drawn = m.drawn /\ cp.last = m.last
        /\ m \in MarketType /\ MarketInv(m) /\ OpenInv(record, saved, quoted, now, m, FALSE)
    BY <1>4, <1>7, <1>8, <1>9
  <2> QED BY <1>1, <2>1, PlanFits
<1>11. SavedInv(record, cp, quoted, now)
  BY <1>1, <1>9, <1>10
<1>12. CASE pass.stopping
  <2>1. Exit
    BY <1>2, <1>12
  <2>2. saved' \in CheckpointType \cup {NoCheckpoint} /\ SavedInv(record, saved', quoted, now)
    BY <1>9, <1>11
  <2> QED BY <1>2, <2>1, <2>2, Gone
<1>13. CASE ~pass.stopping
  <2>1. /\ venue'.market = m /\ venue'.hosted = venue.hosted /\ venue'.stalled = venue.stalled
        /\ venue'.checkpointAt = at /\ venue'.latest = venue.latest /\ venue' \in VenueType
    <3>1. venue' = [venue EXCEPT !.checkpointAt = at] /\ at \in Int
      BY <1>2, <1>4, <1>13
    <3> QED BY <1>1, <1>6, <3>1 DEF VenueType
  <2>2. pc' = "finish" /\ pass' = pass
    BY <1>2, <1>13
  <2>3. ~Taken' /\ InPass /\ InPass' /\ Bound' = IF pass.failed THEN Slack - MaxCatchUp ELSE Slack - 2 * MaxCatchUp
    BY <1>5, <1>13, <2>2 DEF Taken, InPass, Bound
  <2>4. TypeInv'
    BY <1>1, <1>2, <1>7, <1>9, <2>1, <2>2 DEF TypeInv
  <2>5. venue.hosted => OpenInv(record, cp, quoted, now, m, venue.stalled)
    BY <1>7, <1>8, <1>9, <1>10
  <2>6. venue.hosted => LagInv(record, cp, m, venue.stalled, at, Bound')
    <3> SUFFICES ASSUME venue.hosted PROVE LagInv(record, cp, m, venue.stalled, at, Bound')
      OBVIOUS
    <3>1. CASE pass.plan = NoCheckpoint
      <4>1. venue.stalled /\ cp = saved /\ LagInv(record, saved, m, venue.stalled, venue.checkpointAt, Slack - MaxCatchUp)
        BY <1>1, <1>2, <1>7, <1>9, <3>1 DEF PassInv
      <4>2. CASE pass.failed
        BY <2>3, <4>1, <4>2 DEF LagInv
      <4>3. CASE ~pass.failed
        <5>1. ~Continues(m.drawn, m.last)
          BY <1>7, <2>3, <4>1, <4>3 DEF StallInv
        <5> QED BY <5>1 DEF LagInv
      <4> QED BY <4>2, <4>3
    <3>2. CASE pass.plan # NoCheckpoint
      <4>1. ~pass.failed
        BY <1>1, <1>8, <2>3, <3>2 DEF PassInv
      <4>2. m \in MarketType /\ MarketInv(m) /\ cp.last = m.last
        BY <1>7, <1>8, <1>9, <3>2
      <4>3. m.advancedAt <= m.drawn.value.instant
        <5>1. m.advancedAt = pass.advancedTo /\ pass.advancedTo < m.drawn.value.instant
          BY <1>1, <1>6, <2>3, <4>1 DEF PassInv
        <5>2. m.advancedAt \in Int /\ m.drawn.value.instant \in Nat
          BY <4>2, Fields DEF MarketType
        <5> QED BY <5>1, <5>2
      <4>4. LagInv(record, cp, m, venue.stalled, at, Slack - 2 * MaxCatchUp)
        BY <4>2, <4>3, SavedLag
      <4> QED BY <2>3, <4>1, <4>4
    <3> QED BY <3>1, <3>2
  <2>7. HostedInv'
    <3>1. venue.hosted => StallInv(now', venue'.market, venue'.stalled, (InPass => pass.failed)')
      BY <1>2, <1>7, <2>1, <2>2, <2>3 DEF StallInv
    <3> QED BY <1>2, <1>7, <1>9, <2>1, <2>3, <2>5, <2>6, <3>1 DEF HostedInv
  <2>8. BatchInv'
    BY <2>3 DEF BatchInv
  <2>9. PassInv'
    <3>1. InPass /\ venue.hosted /\ pass.failed => venue.stalled
      BY <1>1 DEF PassInv
    <3>2. InPass /\ venue.hosted /\ ~pass.failed =>
            /\ \A k \in 1..Len(record) : record[k].value.instant <= pass.advancedTo
            /\ m.advancedAt = pass.advancedTo
            /\ pass.advancedTo < m.drawn.value.instant
      BY <1>1, <1>6 DEF PassInv
    <3>3. 0 <= pass.advancedTo /\ pass.advancedTo <= now
      BY <1>1, <2>3 DEF PassInv
    <3> QED BY <1>2, <1>4, <1>13, <2>1, <2>2, <2>3, <3>1, <3>2, <3>3 DEF PassInv
  <2> QED BY <1>1, <1>2, <1>9, <1>11, <2>4, <2>7, <2>8, <2>9 DEF IInv
<1> QED BY <1>3, <1>12, <1>13

\* A market past its bound that is not reopened.
LEMMA StallFits ==
  ASSUME NEW rec, NEW t \in Nat, NEW price, NEW cp, NEW m \in MarketType, NEW stalled, NEW at, NEW bound,
         OpenInv(rec, cp, price, t, m, stalled), LagInv(rec, cp, m, stalled, at, bound),
         CatchUpTooLarge(m, t)
  PROVE  /\ OpenInv(rec, cp, price, t, m, TRUE) /\ LagInv(rec, cp, m, TRUE, at, bound)
         /\ StallInv(t, m, TRUE, TRUE)
<1>1. OpenInv(rec, cp, price, t, m, TRUE)
  BY DEF OpenInv, Heir
<1>2. LagInv(rec, cp, m, TRUE, at, bound)
  BY DEF LagInv
<1>3. Late(t, Watch(m))
  <2>1. Watch(m) \in Int
    BY Fields DEF Watch, Larger, MarketType
  <2> QED BY <2>1, Constants DEF Late, CatchUpTooLarge, Behind, Watch
<1> QED BY <1>1, <1>2, <1>3 DEF StallInv

\* The start of a pass.
LEMMA AdvanceStep ==
  ASSUME Deployed, IInv, Advance
  PROVE  IInv'
<1>1. /\ now \in Nat /\ venue \in VenueType /\ TypeInv
      /\ RecordInv(record, now) /\ QuoteInv(record, quoted, now) /\ SavedInv(record, saved, quoted, now)
      /\ record \in Seq(TickType) /\ saved \in CheckpointType \cup {NoCheckpoint} /\ quoted \in PriceType
      /\ HostedInv /\ PassInv
      /\ (venue.hosted => venue.market \in MarketType)
  BY Unfolded DEF IInv
<1>a. PICK failed \in BOOLEAN : failed = (venue.hosted /\ CatchUpTooLarge(venue.market, now))
  <2>1. (venue.hosted /\ CatchUpTooLarge(venue.market, now)) \in BOOLEAN
    OBVIOUS
  <2> QED BY <2>1
<1>b. PICK m : m = venue.market
  OBVIOUS
<1>c. PICK b : b = IF venue.hosted /\ ~failed THEN Published(m, now) ELSE <<>>
  OBVIOUS
<1>2. /\ m = venue.market /\ failed = (venue.hosted /\ CatchUpTooLarge(m, now))
      /\ b = (IF venue.hosted /\ ~failed THEN Published(m, now) ELSE <<>>)
      /\ pass' = [NoPass EXCEPT !.advancedTo = now, !.failed = failed, !.batch = b]
      /\ UNCHANGED <<now, saved, record, quoted>> /\ pc = "idle" /\ pc' = "record"
      /\ (failed => Reopen(venue))
      /\ (~failed => venue' = IF venue.hosted THEN [venue EXCEPT !.market = Advanced(m, now)] ELSE venue)
  <2>5. pass' = [NoPass EXCEPT !.advancedTo = now, !.failed = failed, !.batch = b]
    BY <1>a, <1>b, <1>c DEF Advance
  <2>6. UNCHANGED <<now, saved, record, quoted>> /\ pc = "idle" /\ pc' = "record"
    BY DEF Advance
  <2>7. failed => Reopen(venue)
    BY <1>a DEF Advance
  <2>8. ~failed => venue' = IF venue.hosted THEN [venue EXCEPT !.market = Advanced(m, now)] ELSE venue
    BY <1>a, <1>b DEF Advance
  <2> QED BY <1>a, <1>b, <1>c, <2>5, <2>6, <2>7, <2>8
<1>3. venue.hosted => /\ m \in MarketType /\ MarketInv(m)
                      /\ OpenInv(record, saved, quoted, now, m, venue.stalled)
                      /\ LagInv(record, saved, m, venue.stalled, venue.checkpointAt, Slack - MaxCatchUp)
                      /\ StallInv(now, m, venue.stalled, TRUE)
                      /\ venue.latest = Newest(record)
  <2>1. ~Taken /\ ~InPass /\ Bound = Slack - MaxCatchUp /\ ~(pc = "save")
    BY <1>2 DEF Taken, InPass, Bound
  <2>2. StallInv(now, m, venue.stalled, InPass => pass.failed) => StallInv(now, m, venue.stalled, TRUE)
    BY DEF StallInv
  <2> QED BY <1>1, <1>2, <2>1, <2>2 DEF HostedInv
<1>4. /\ venue.checkpointAt \in Int /\ venue.checkpointAt <= now /\ venue.stalled \in BOOLEAN
      /\ venue.hosted \in BOOLEAN
  BY <1>1, VenueParts DEF PassInv
<1>5. pass' = [advancedTo |-> now, batch |-> b, failed |-> failed, plan |-> NoCheckpoint,
               planAt |-> -1, stopping |-> FALSE]
  BY <1>2 DEF NoPass, Never
<1>6. /\ pass'.advancedTo = now /\ pass'.batch = b /\ pass'.failed = failed
      /\ pass'.plan = NoCheckpoint /\ pass'.stopping = FALSE
  BY <1>5
<1>7. b \in Seq(TickType)
  <2>1. venue.hosted => Published(m, now) \in Seq(TickType)
    BY <1>1, <1>3, AdvancedFacts
  <2> QED BY <1>2, <2>1
<1>8. pass' \in PassType
  <2>1. -1 \in Int /\ now \in Int
    BY <1>1
  <2>2. failed \in BOOLEAN
    BY <1>a
  <2> QED BY <1>5, <1>7, <2>1, <2>2 DEF PassType
<1>9. /\ (Taken' <=> b # <<>>) /\ InPass' /\ Bound' = IF failed THEN Slack - MaxCatchUp ELSE Slack
      /\ (InPass => pass.failed)' = failed
  BY <1>2, <1>6 DEF Taken, InPass, Bound
<1>10. CASE ~venue.hosted
  <2>1. venue' = venue /\ b = <<>> /\ ~failed
    BY <1>2, <1>10
  <2>2. TypeInv'
    BY <1>1, <1>2, <1>8, <1>10, <2>1 DEF TypeInv
  <2>3. HostedInv' /\ BatchInv'
    BY <1>9, <1>10, <2>1 DEF HostedInv, BatchInv
  <2>4. PassInv'
    BY <1>1, <1>2, <1>4, <1>6, <1>9, <1>10, <2>1 DEF PassInv
  <2> QED BY <1>1, <1>2, <2>2, <2>3, <2>4 DEF IInv
<1>11. CASE venue.hosted /\ ~failed
  <2>1. PICK n : n = Advanced(m, now)
    OBVIOUS
  <2>2. b = Published(m, now) /\ ~CatchUpTooLarge(m, now)
    BY <1>2, <1>11
  <2>3. /\ n \in MarketType /\ n.advancedAt = now /\ now < n.drawn.value.instant
    BY <1>1, <1>3, <1>11, <2>1, <2>2, AdvancedFacts
  <2>4. PICK at \in Int : at = venue.checkpointAt /\ at <= now
    BY <1>4
  <2>5. /\ MarketInv(m) /\ OpenInv(record, saved, quoted, now, m, venue.stalled) /\ m \in MarketType
        /\ LagInv(record, saved, m, venue.stalled, at, Slack - MaxCatchUp)
        /\ StallInv(now, m, venue.stalled, TRUE)
    BY <1>3, <1>11, <2>4
  <2>6. /\ MarketInv(n)
        /\ (b = <<>> => /\ OpenInv(record, saved, quoted, now, n, venue.stalled)
                        /\ LagInv(record, saved, n, venue.stalled, at, Slack)
                        /\ ~(venue.stalled /\ Continues(n.drawn, n.last)))
        /\ (b # <<>> => BatchFits(record, saved, quoted, now, n, venue.stalled, at, b, now))
    BY <1>1, <2>1, <2>2, <2>4, <2>5, AdvanceFits
  <2>7. /\ venue'.market = n /\ venue'.hosted = venue.hosted /\ venue'.stalled = venue.stalled
        /\ venue'.checkpointAt = at /\ venue'.latest = venue.latest /\ venue' \in VenueType
    <3>1. venue' = [venue EXCEPT !.market = n] /\ n \in MarketType \cup {NoTick}
      BY <1>2, <1>11, <2>1, <2>3
    <3> QED BY <1>1, <2>4, <3>1 DEF VenueType
  <2>8. TypeInv'
    BY <1>1, <1>2, <1>8, <2>3, <2>7 DEF TypeInv
  <2>9. HostedInv'
    <3>1. b = <<>> => StallInv(now', venue'.market, venue'.stalled, (InPass => pass.failed)')
      BY <2>6, <2>7 DEF StallInv
    <3> QED BY <1>2, <1>3, <1>9, <1>11, <2>6, <2>7, <3>1 DEF HostedInv
  <2>10. BatchInv'
    BY <1>2, <1>6, <1>9, <1>11, <2>6, <2>7 DEF BatchInv
  <2>11. PassInv'
    <3>1. \A k \in 1..Len(record) : record[k].value.instant <= now
      BY <1>1 DEF RecordInv
    <3> QED BY <1>1, <1>2, <1>6, <1>9, <1>11, <2>3, <2>4, <2>7, <3>1 DEF PassInv
  <2> QED BY <1>1, <1>2, <2>8, <2>9, <2>10, <2>11 DEF IInv
<1>12. CASE venue.hosted /\ failed
  <2>1. /\ b = <<>> /\ CatchUpTooLarge(m, now) /\ m \in MarketType /\ MarketInv(m)
        /\ OpenInv(record, saved, quoted, now, m, venue.stalled)
        /\ LagInv(record, saved, m, venue.stalled, venue.checkpointAt, Slack - MaxCatchUp)
    BY <1>2, <1>3, <1>12
  <2>2. PICK n : n = Primed(Reopened(m, now))
    OBVIOUS
  <2>3. \/ venue' = [venue EXCEPT !.stalled = TRUE]
        \/ m.last # NoTick /\ venue' = [venue EXCEPT !.market = n, !.stalled = TRUE]
        \/ m.last # NoTick /\ venue' = [venue EXCEPT !.market = n, !.stalled = TRUE,
                                                     !.reopenedAt = now, !.awaiting = TRUE]
    BY <1>2, <1>12, <2>2 DEF Reopen
  <2>4. PICK r \in MarketType :
          /\ venue'.market = r /\ MarketInv(r)
          /\ OpenInv(record, saved, quoted, now, r, TRUE)
          /\ LagInv(record, saved, r, TRUE, venue.checkpointAt, Slack - MaxCatchUp)
          /\ StallInv(now, r, TRUE, TRUE)
    <3>1. CASE venue' = [venue EXCEPT !.stalled = TRUE]
      <4>1. /\ OpenInv(record, saved, quoted, now, m, TRUE)
            /\ LagInv(record, saved, m, TRUE, venue.checkpointAt, Slack - MaxCatchUp)
            /\ StallInv(now, m, TRUE, TRUE)
        BY <1>1, <2>1, StallFits
      <4>2. venue'.market = m
        BY <1>1, <1>2, <3>1 DEF VenueType
      <4> QED BY <2>1, <4>1, <4>2
    <3>2. CASE m.last # NoTick /\ venue' # [venue EXCEPT !.stalled = TRUE]
      <4>1. /\ n \in MarketType /\ MarketInv(n) /\ OpenInv(record, saved, quoted, now, n, TRUE)
            /\ ~Continues(n.drawn, n.last)
        BY <1>1, <2>1, <2>2, <3>2, ReopenFits
      <4>2. venue'.market = n
        BY <1>1, <2>3, <3>2 DEF VenueType
      <4>3. /\ LagInv(record, saved, n, TRUE, venue.checkpointAt, Slack - MaxCatchUp)
            /\ StallInv(now, n, TRUE, TRUE)
        BY <4>1 DEF LagInv, StallInv
      <4> QED BY <4>1, <4>2, <4>3
    <3> QED BY <2>3, <3>1, <3>2
  <2>5. /\ venue'.hosted = venue.hosted /\ venue'.stalled = TRUE
        /\ venue'.checkpointAt = venue.checkpointAt /\ venue'.latest = venue.latest
    BY <1>1, <2>3 DEF VenueType
  <2>6. venue' \in VenueType
    <3>1. venue'.market \in MarketType \cup {NoTick} /\ now \in Int
      BY <1>1, <2>4
    <3>2. PICK u \in Int : u = now
      BY <3>1
    <3>3. CASE venue' = [venue EXCEPT !.stalled = TRUE]
      BY <1>1, <3>3 DEF VenueType
    <3>4. CASE venue' = [venue EXCEPT !.market = n, !.stalled = TRUE]
      <4>1. n \in MarketType \cup {NoTick}
        BY <1>1, <3>1, <3>4 DEF VenueType
      <4> QED BY <1>1, <3>4, <4>1 DEF VenueType
    <3>5. CASE venue' = [venue EXCEPT !.market = n, !.stalled = TRUE, !.reopenedAt = now, !.awaiting = TRUE]
      <4>1. n \in MarketType \cup {NoTick}
        BY <1>1, <3>1, <3>5 DEF VenueType
      <4>2. venue' = [venue EXCEPT !.market = n, !.stalled = TRUE, !.reopenedAt = u, !.awaiting = TRUE]
        BY <3>2, <3>5
      <4> QED BY <1>1, <4>1, <4>2 DEF VenueType
    <3> QED BY <2>3, <3>3, <3>4, <3>5
  <2>7. TypeInv'
    BY <1>1, <1>2, <1>8, <2>4, <2>6 DEF TypeInv
  <2>8. HostedInv'
    <3>1. Bound' = Slack - MaxCatchUp /\ (InPass => pass.failed)'
      BY <1>9, <1>12
    <3>2. StallInv(now', venue'.market, venue'.stalled, (InPass => pass.failed)')
      BY <1>2, <2>4, <2>5, <3>1 DEF StallInv
    <3> QED BY <1>2, <1>3, <1>12, <2>4, <2>5, <3>1, <3>2 DEF HostedInv
  <2>9. BatchInv'
    BY <1>9, <2>1 DEF BatchInv
  <2>10. PassInv'
    BY <1>1, <1>2, <1>4, <1>6, <1>9, <1>12, <2>5 DEF PassInv
  <2> QED BY <1>1, <1>2, <2>7, <2>8, <2>9, <2>10 DEF IInv
<1> QED BY <1>4, <1>10, <1>11, <1>12

\* Before a checkpoint is due, a market that goes on from one is not far past it.
LEMMA ShortOfDue ==
  ASSUME NEW rec, NEW m \in MarketType, NEW cp \in CheckpointType \cup {NoCheckpoint},
         NEW at \in Int, NEW t \in Nat, t < at + CheckpointEvery,
         m.advancedAt <= t, m.advancedAt < m.drawn.value.instant,
         LagInv(rec, cp, m, FALSE, at, Slack)
  PROVE  LagInv(rec, cp, m, FALSE, at, Slack - 2 * MaxCatchUp)
<1> SUFFICES ASSUME Follows(rec, cp), Continues(m.drawn, m.last)
             PROVE  m.advancedAt <= cp.last.value.instant + (Slack - 2 * MaxCatchUp)
  BY DEF LagInv
<1>1. cp.last \in TickType /\ cp.last.value.instant \in Nat /\ m.advancedAt \in Int
  <2>1. cp \in CheckpointType /\ cp.last # NoTick
    BY DEF Follows
  <2> QED BY <2>1, CheckpointFacts, Fields DEF MarketType
<1>2. CASE m.last # cp.last
  <2>1. at <= cp.last.value.instant + Gap + 2 * MaxCatchUp
    BY <1>2 DEF LagInv
  <2> QED BY <1>1, <2>1, Constants DEF Slack
<1>3. CASE m.last = cp.last
  <2>1. m.drawn.value.instant = cp.last.value.instant + Gap
    BY <1>1, <1>3, NextTick DEF Continues
  <2> QED BY <1>1, <2>1, Constants
<1> QED BY <1>2, <1>3

\* A price at the newest tick, at the instant the market was advanced to.
LEMMA QuoteAgain ==
  ASSUME NEW rec \in Seq(TickType), rec # <<>>, NEW T \in Nat, NEW t \in Nat, T <= t, RecordInv(rec, T),
         NEW cp \in CheckpointType \cup {NoCheckpoint}, NEW price, SavedInv(rec, cp, price, t),
         NEW m \in MarketType, T < m.drawn.value.instant, OpenInv(rec, cp, price, t, m, FALSE),
         NEW price2, price2 = [tick |-> Newest(rec), asOf |-> T]
  PROVE  /\ price2 \in PriceType /\ QuoteInv(rec, price2, t)
         /\ SavedInv(rec, cp, price2, t) /\ OpenInv(rec, cp, price2, t, m, FALSE)
<1>1. price2 \in PriceType /\ QuoteInv(rec, price2, t) /\ price2.asOf = T
  BY NewestQuoted
<1>2. m.drawn \in TickType /\ m.drawn.value.instant \in Nat /\ m.drawn.sequence \in Nat
  BY Fields DEF MarketType
<1>3. ~Recorded(rec, m.drawn)
  BY <1>2 DEF Recorded, RecordInv
<1>4. After(rec, price2, m.drawn)
  BY <1>1, <1>3 DEF After, Replays
<1>5. ASSUME Resumable(cp, t) PROVE After(rec, price2, cp.drawn)
  <2>1. cp \in CheckpointType /\ cp.drawn \in TickType /\ UsableRecord(cp)
    BY <1>5, CheckpointFacts DEF Resumable
  <2>2. ~Jumps(rec, m.drawn) /\ (Lost(rec, m.drawn) => m.drawn = cp.drawn)
    BY <1>5 DEF OpenInv, Heir
  <2>3. Leads(rec, m.drawn) \/ Lost(rec, m.drawn)
    BY <1>3 DEF OpenInv, Resumes, Forward, Replays
  <2>4. CASE Lost(rec, m.drawn)
    <3>1. ~Recorded(rec, cp.drawn) /\ cp.drawn.sequence <= HeadOf(rec)
      BY <2>2, <2>4 DEF Lost
    <3>2. ~Leads(rec, cp.drawn)
      <4>1. cp.drawn.sequence \in Nat /\ HeadOf(rec) \in Nat
        BY <2>1, HeadFacts, Fields
      <4> QED BY <3>1, <4>1 DEF Leads
    <3> QED BY <3>1, <3>2 DEF After, Replays
  <2>5. CASE Leads(rec, m.drawn)
    <3>1. m.drawn = Later(Newest(rec), 1)
      <4>1. HeadOf(rec) \in Nat
        BY HeadFacts
      <4> QED BY <1>2, <2>2, <2>5, <4>1 DEF Leads, Jumps
    <3>2. Newest(rec) \in TickType
      BY HeadFacts
    <3>3. price2.asOf < Newest(rec).value.instant + Gap
      BY <1>1, <3>1, <3>2, NextTick
    <3>4. ~Jumps(rec, cp.drawn)
      <4>1. RecordInv(rec, t)
        BY RecordAges
      <4>2. cp.drawn.sequence <= HeadOf(rec) + 1
        BY <2>1, <4>1, UsableFacts
      <4>3. cp.drawn.sequence \in Nat /\ HeadOf(rec) \in Nat
        BY <2>1, HeadFacts, Fields
      <4> QED BY <4>2, <4>3 DEF Jumps
    <3> QED BY <1>1, <2>1, <3>3, <3>4, NextIsAfter
  <2> QED BY <2>3, <2>4, <2>5
<1>6. SavedInv(rec, cp, price2, t)
  BY <1>5 DEF SavedInv, Resumes
<1>7. OpenInv(rec, cp, price2, t, m, FALSE)
  BY <1>4 DEF OpenInv, Resumes
<1> QED BY <1>1, <1>6, <1>7

\* A venue as it stands before what it publishes is offered.
LEMMA OfferFacts ==
  ASSUME IInv, pc = "record", NEW v \in VenueType, v.hosted => v.market \in MarketType, Offer(v)
  PROVE  /\ venue' \in VenueType
         /\ venue'.market = v.market /\ venue'.hosted = v.hosted /\ venue'.stalled = v.stalled
         /\ venue'.checkpointAt = v.checkpointAt /\ venue'.latest = v.latest
         /\ pass' \in PassType
         /\ pass'.advancedTo = pass.advancedTo /\ pass'.failed = pass.failed
         /\ pass'.stopping = FALSE
         /\ \/ quoted' = quoted
            \/ /\ v.hosted /\ ~pass.failed /\ ~v.stalled /\ v.latest # NoTick
               /\ quoted' = [tick |-> v.latest, asOf |-> pass.advancedTo]
         /\ (v.hosted /\ ~pass.failed /\ ~v.stalled) \/ quoted' = quoted
         /\ \/ pc' = "finish" /\ now < v.checkpointAt + CheckpointEvery
            \/ /\ pc' = "save" /\ pass'.planAt = now
               /\ pass'.plan # NoCheckpoint =>
                    v.hosted /\ ~v.stalled /\ pass'.plan = CheckpointMarket(v.market, now)
               /\ pass'.plan = NoCheckpoint => ~v.hosted \/ v.stalled
<1>1. now \in Nat /\ pass \in PassType /\ quoted \in PriceType /\ PassInv
  BY Unfolded
<1>0. v.checkpointAt \in Int /\ CheckpointEvery \in Nat
  BY Constants DEF VenueType
<1>2. PICK due \in BOOLEAN : due = (now - v.checkpointAt >= CheckpointEvery)
  <2>1. (now - v.checkpointAt >= CheckpointEvery) \in BOOLEAN
    OBVIOUS
  <2> QED BY <2>1
<1>3. PICK plan \in CheckpointType \cup {NoCheckpoint} :
        /\ plan = (IF due THEN Planned(v) ELSE NoCheckpoint)
        /\ due /\ plan # NoCheckpoint => v.hosted /\ ~v.stalled /\ plan = CheckpointMarket(v.market, now)
        /\ due /\ plan = NoCheckpoint => ~v.hosted \/ v.stalled
  <2>1. v.hosted => CheckpointMarket(v.market, now) \in CheckpointType
                    /\ CheckpointMarket(v.market, now) # NoCheckpoint
    BY <1>1, PlanFacts
  <2> QED BY <2>1 DEF Planned
<1>4. PICK planAt \in Int : planAt = IF due THEN now ELSE Never
  BY <1>1 DEF Never
<1>5. /\ venue' = Quoted(v) /\ quoted' = (IF Quotable(v) THEN Quoted(v).inForce ELSE quoted)
      /\ pc' = (IF due THEN "save" ELSE "finish")
      /\ pass' = [pass EXCEPT !.batch = <<>>, !.plan = plan, !.planAt = planAt]
  BY <1>2, <1>3, <1>4 DEF Offer
<1>6. PICK price \in PriceType : price = [tick |-> v.latest, asOf |-> pass.advancedTo]
  BY <1>1 DEF PriceType, VenueType, PassType
<1>7. venue' = [v EXCEPT !.inForce = price] \/ venue' = v
  BY <1>5, <1>6 DEF Quoted
<1>8. /\ venue' \in VenueType
      /\ venue'.market = v.market /\ venue'.hosted = v.hosted /\ venue'.stalled = v.stalled
      /\ venue'.checkpointAt = v.checkpointAt /\ venue'.latest = v.latest
  BY <1>7 DEF VenueType
<1>9. \/ quoted' = quoted
      \/ /\ v.hosted /\ ~pass.failed /\ ~v.stalled /\ v.latest # NoTick
         /\ quoted' = [tick |-> v.latest, asOf |-> pass.advancedTo]
  <2>1. CASE Quotable(v)
    <3>1. Quoted(v) = [v EXCEPT !.inForce = price]
      BY <1>6, <2>1 DEF Quoted
    <3>2. Quoted(v).inForce = price
      BY <3>1 DEF VenueType
    <3> QED BY <1>5, <1>6, <2>1, <3>2 DEF Quotable
  <2>2. CASE ~Quotable(v)
    BY <1>5, <2>2
  <2> QED BY <2>1, <2>2
<1>10. /\ pass' \in PassType /\ pass'.advancedTo = pass.advancedTo /\ pass'.failed = pass.failed
       /\ pass'.stopping = pass.stopping /\ pass'.plan = plan /\ pass'.planAt = planAt
  <2>1. <<>> \in Seq(TickType)
    OBVIOUS
  <2> QED BY <1>1, <1>5, <2>1 DEF PassType
<1>11. pass'.stopping = FALSE
  BY <1>1, <1>10, VenueParts DEF PassInv
<1>12. ~due => now < v.checkpointAt + CheckpointEvery
  <2> SUFFICES ASSUME ~due PROVE now < v.checkpointAt + CheckpointEvery
    OBVIOUS
  <2>1. ~(now - v.checkpointAt >= CheckpointEvery)
    BY <1>2
  <2> QED BY <1>0, <1>1, <2>1
<1>13. \/ pc' = "finish" /\ now < v.checkpointAt + CheckpointEvery
       \/ /\ pc' = "save" /\ pass'.planAt = now
          /\ pass'.plan # NoCheckpoint =>
               v.hosted /\ ~v.stalled /\ pass'.plan = CheckpointMarket(v.market, now)
          /\ pass'.plan = NoCheckpoint => ~v.hosted \/ v.stalled
  BY <1>3, <1>4, <1>5, <1>10, <1>12
<1>14. (v.hosted /\ ~pass.failed /\ ~v.stalled) \/ quoted' = quoted
  BY <1>9
<1> QED BY <1>8, <1>9, <1>10, <1>11, <1>13, <1>14

\* What an offer needs of the record and the venue it is made with.
Offering(new, v, price) ==
  /\ new \in Seq(TickType) /\ price \in PriceType /\ v \in VenueType
  /\ v.hosted => v.market \in MarketType
  /\ RecordInv(new, now) /\ QuoteInv(new, price, now) /\ SavedInv(new, saved, price, now)
  /\ v.checkpointAt = venue.checkpointAt
  /\ v.hosted =>
       /\ MarketInv(v.market) /\ OpenInv(new, saved, price, now, v.market, v.stalled)
       /\ LagInv(new, saved, v.market, v.stalled, v.checkpointAt,
                 IF pass.failed THEN Slack - MaxCatchUp ELSE Slack)
       /\ StallInv(now, v.market, v.stalled, pass.failed)
       /\ v.latest = Newest(new)
       /\ pass.failed => v.stalled
       /\ ~pass.failed =>
            /\ \A k \in 1..Len(new) : new[k].value.instant <= pass.advancedTo
            /\ v.market.advancedAt = pass.advancedTo
            /\ pass.advancedTo < v.market.drawn.value.instant

\* The offer itself keeps the invariant.
LEMMA OfferStep ==
  ASSUME IInv, pc = "record", UNCHANGED <<now, saved>>, NEW v, Offer(v), Offering(record', v, quoted')
  PROVE  IInv'
<1>1. /\ now \in Nat /\ saved \in CheckpointType \cup {NoCheckpoint} /\ PassInv
      /\ pass.failed \in BOOLEAN /\ pass.advancedTo \in Int
  BY Unfolded, VenueParts
<1>2. /\ record' \in Seq(TickType) /\ quoted' \in PriceType /\ v \in VenueType
      /\ v.hosted => v.market \in MarketType
      /\ RecordInv(record', now) /\ QuoteInv(record', quoted', now) /\ SavedInv(record', saved, quoted', now)
      /\ v.checkpointAt = venue.checkpointAt
  BY DEF Offering
<1>3. v.hosted =>
       /\ MarketInv(v.market) /\ OpenInv(record', saved, quoted', now, v.market, v.stalled)
       /\ LagInv(record', saved, v.market, v.stalled, v.checkpointAt,
                 IF pass.failed THEN Slack - MaxCatchUp ELSE Slack)
       /\ StallInv(now, v.market, v.stalled, pass.failed)
       /\ v.latest = Newest(record')
       /\ pass.failed => v.stalled
       /\ ~pass.failed =>
            /\ \A k \in 1..Len(record') : record'[k].value.instant <= pass.advancedTo
            /\ v.market.advancedAt = pass.advancedTo
            /\ pass.advancedTo < v.market.drawn.value.instant
  BY DEF Offering
<1>4. /\ venue' \in VenueType
      /\ venue'.market = v.market /\ venue'.hosted = v.hosted /\ venue'.stalled = v.stalled
      /\ venue'.checkpointAt = v.checkpointAt /\ venue'.latest = v.latest
      /\ pass' \in PassType
      /\ pass'.advancedTo = pass.advancedTo /\ pass'.failed = pass.failed
      /\ pass'.stopping = FALSE
  BY <1>2, OfferFacts
<1>5. \/ pc' = "finish" /\ now < v.checkpointAt + CheckpointEvery
      \/ /\ pc' = "save" /\ pass'.planAt = now
         /\ pass'.plan # NoCheckpoint =>
              v.hosted /\ ~v.stalled /\ pass'.plan = CheckpointMarket(v.market, now)
         /\ pass'.plan = NoCheckpoint => ~v.hosted \/ v.stalled
  BY <1>2, OfferFacts
<1>6. /\ ~Taken' /\ InPass'
      /\ Bound' = IF pc' = "finish" /\ ~pass.failed THEN Slack - 2 * MaxCatchUp ELSE Slack - MaxCatchUp
  BY <1>4, <1>5 DEF Taken, InPass, Bound
<1>7. venue.checkpointAt \in Int /\ venue.checkpointAt <= now
  BY <1>1, VenueParts DEF PassInv
<1>8. 0 <= pass.advancedTo /\ pass.advancedTo <= now
  <2>1. InPass
    BY <1>1 DEF PassInv, InPass
  <2> QED BY <1>1, <2>1 DEF PassInv
<1>9. TypeInv'
  BY <1>1, <1>2, <1>4, <1>5 DEF TypeInv
<1>10. v.hosted => \/ pc' = "save" /\ pass'.plan # NoCheckpoint
                   \/ LagInv(record', saved, v.market, v.stalled, v.checkpointAt, Bound')
  <2> SUFFICES ASSUME v.hosted, ~(pc' = "save" /\ pass'.plan # NoCheckpoint)
               PROVE  LagInv(record', saved, v.market, v.stalled, v.checkpointAt, Bound')
    OBVIOUS
  <2>1. CASE pass.failed
    BY <1>3, <1>6, <2>1
  <2>2. CASE ~pass.failed /\ v.stalled
    <3>1. ~Continues(v.market.drawn, v.market.last)
      BY <1>3, <2>2 DEF StallInv
    <3> QED BY <3>1 DEF LagInv
  <2>3. CASE ~pass.failed /\ ~v.stalled
    <3>1. pc' = "finish" /\ now < v.checkpointAt + CheckpointEvery
      BY <1>5, <2>3
    <3>2. Bound' = Slack - 2 * MaxCatchUp
      BY <1>6, <2>3, <3>1
    <3>3. v.stalled = FALSE
      BY <1>2, <2>3 DEF VenueType
    <3>4. PICK m \in MarketType : m = v.market
      BY <1>2
    <3>5. PICK at \in Int : at = v.checkpointAt /\ now < at + CheckpointEvery
      BY <1>2, <1>7, <3>1
    <3>6. LagInv(record', saved, m, FALSE, at, Slack)
      BY <1>3, <2>3, <3>3, <3>4, <3>5
    <3>7. m.advancedAt <= now /\ m.advancedAt < m.drawn.value.instant
      BY <1>3, <1>8, <2>3, <3>4
    <3>8. LagInv(record', saved, m, FALSE, at, Slack - 2 * MaxCatchUp)
      BY <1>1, <3>5, <3>6, <3>7, ShortOfDue
    <3> QED BY <3>2, <3>3, <3>4, <3>5, <3>8
  <2> QED BY <2>1, <2>2, <2>3
<1>11. HostedInv'
  <2>1. v.hosted => StallInv(now', venue'.market, venue'.stalled, (InPass => pass.failed)')
    BY <1>3, <1>4, <1>6 DEF StallInv
  <2> QED BY <1>3, <1>4, <1>6, <1>10, <2>1 DEF HostedInv
<1>12. BatchInv'
  BY <1>6 DEF BatchInv
<1>13. PassInv'
  BY <1>1, <1>3, <1>4, <1>5, <1>6, <1>7, <1>8, <1>2 DEF PassInv
<1> QED BY <1>2, <1>9, <1>11, <1>12, <1>13 DEF IInv

\* A pass that published nothing.
LEMMA NothingDueStep ==
  ASSUME IInv, NothingDue
  PROVE  IInv'
<1>1. /\ now \in Nat /\ venue \in VenueType /\ PassInv /\ HostedInv
      /\ RecordInv(record, now) /\ QuoteInv(record, quoted, now) /\ SavedInv(record, saved, quoted, now)
      /\ record \in Seq(TickType) /\ saved \in CheckpointType \cup {NoCheckpoint} /\ quoted \in PriceType
      /\ (venue.hosted => venue.market \in MarketType)
  BY Unfolded
<1>2. pc = "record" /\ pass.batch = <<>> /\ Offer(venue) /\ UNCHANGED <<now, saved, record>>
  BY DEF NothingDue
<1>3. /\ ~Taken /\ InPass /\ Bound = (IF pass.failed THEN Slack - MaxCatchUp ELSE Slack)
  BY <1>1, <1>2 DEF Taken, InPass, Bound, PassInv
<1>4. PICK T \in Nat : T = pass.advancedTo /\ T <= now
  <2>1. pass.advancedTo \in Int
    BY VenueParts
  <2> QED BY <1>1, <1>3, <2>1 DEF PassInv
<1>5. venue.hosted =>
        /\ MarketInv(venue.market) /\ OpenInv(record, saved, quoted, now, venue.market, venue.stalled)
        /\ LagInv(record, saved, venue.market, venue.stalled, venue.checkpointAt,
                  IF pass.failed THEN Slack - MaxCatchUp ELSE Slack)
        /\ StallInv(now, venue.market, venue.stalled, pass.failed)
        /\ venue.latest = Newest(record)
  <2>1. StallInv(now, venue.market, venue.stalled, InPass => pass.failed) =>
          StallInv(now, venue.market, venue.stalled, pass.failed)
    BY <1>3 DEF StallInv
  <2> QED BY <1>1, <1>2, <1>3, <2>1 DEF HostedInv
<1>6. venue.hosted =>
        /\ pass.failed => venue.stalled
        /\ ~pass.failed =>
             /\ \A k \in 1..Len(record) : record[k].value.instant <= pass.advancedTo
             /\ venue.market.advancedAt = pass.advancedTo
             /\ pass.advancedTo < venue.market.drawn.value.instant
  BY <1>1, <1>3 DEF PassInv
<1>7. \/ quoted' = quoted
      \/ /\ venue.hosted /\ ~pass.failed /\ ~venue.stalled /\ venue.latest # NoTick
         /\ quoted' = [tick |-> venue.latest, asOf |-> pass.advancedTo]
  BY <1>1, <1>2, OfferFacts
<1>8. Offering(record, venue, quoted')
  <2>1. CASE quoted' = quoted
    BY <1>1, <1>5, <1>6, <2>1 DEF Offering
  <2>2. CASE /\ venue.hosted /\ ~pass.failed /\ ~venue.stalled /\ venue.latest # NoTick
             /\ quoted' = [tick |-> venue.latest, asOf |-> pass.advancedTo]
    <3>1. PICK m \in MarketType : m = venue.market
      BY <1>1, <2>2
    <3>2. venue.stalled = FALSE
      BY <2>2, VenueParts
    <3>3. PICK price2 : price2 = [tick |-> Newest(record), asOf |-> T] /\ price2 = quoted'
      BY <1>4, <1>5, <2>2
    <3>4. record # <<>>
      BY <1>5, <2>2 DEF Newest
    <3>5. RecordInv(record, T) /\ T < m.drawn.value.instant /\ OpenInv(record, saved, quoted, now, m, FALSE)
      BY <1>1, <1>4, <1>5, <1>6, <2>2, <3>1, <3>2 DEF RecordInv
    <3>6. /\ price2 \in PriceType /\ QuoteInv(record, price2, now)
          /\ SavedInv(record, saved, price2, now) /\ OpenInv(record, saved, price2, now, m, FALSE)
      BY <1>1, <1>4, <3>3, <3>4, <3>5, QuoteAgain
    <3> QED BY <1>1, <1>5, <1>6, <3>1, <3>2, <3>3, <3>6 DEF Offering
  <2> QED BY <1>7, <2>1, <2>2
<1>9. Offering(record', venue, quoted')
  BY <1>2, <1>8
<1> QED BY <1>2, <1>9, OfferStep

\* A pass whose ticks the record refused: the market is no longer hosted.
LEMMA RecordRefusesStep ==
  ASSUME IInv, RecordRefuses
  PROVE  IInv'
<1>1. /\ now \in Nat /\ venue \in VenueType
      /\ RecordInv(record, now) /\ QuoteInv(record, quoted, now) /\ SavedInv(record, saved, quoted, now)
      /\ record \in Seq(TickType) /\ quoted \in PriceType
  BY Unfolded
<1>2. PICK v : v = [venue EXCEPT !.stalled = TRUE, !.hosted = FALSE]
  OBVIOUS
<1>3. v \in VenueType /\ v.hosted = FALSE /\ v.checkpointAt = venue.checkpointAt
  BY <1>1, <1>2 DEF VenueType
<1>4. pc = "record" /\ Offer(v) /\ UNCHANGED <<now, saved, record>>
  BY <1>2 DEF RecordRefuses
<1>5. quoted' = quoted
  BY <1>3, <1>4, OfferFacts
<1>6. Offering(record', v, quoted')
  BY <1>1, <1>3, <1>4, <1>5 DEF Offering
<1> QED BY <1>4, <1>6, OfferStep

\* A pass's ticks are a batch its record is extended by.
LEMMA PublishExtends ==
  ASSUME IInv, Publish
  PROVE  /\ venue.hosted /\ ~pass.failed /\ venue.market \in MarketType
         /\ Extended(record, record', pass.batch[1], pass.advancedTo)
         /\ Newest(record') = venue.market.last /\ venue.market.last = Last(pass.batch)
         /\ venue.market.last \in TickType
<1>1. /\ now \in Nat /\ venue \in VenueType /\ PassInv /\ HostedInv /\ BatchInv
      /\ RecordInv(record, now) /\ QuoteInv(record, quoted, now) /\ SavedInv(record, saved, quoted, now)
      /\ record \in Seq(TickType) /\ saved \in CheckpointType \cup {NoCheckpoint} /\ quoted \in PriceType
      /\ (venue.hosted => venue.market \in MarketType) /\ pass.batch \in Seq(TickType)
  BY Unfolded, VenueParts
<1>2. /\ pc = "record" /\ pass.batch # <<>> /\ Accepts(pass.batch) /\ UNCHANGED <<now, saved>>
      /\ record' = record \o Fresh(pass.batch)
  BY DEF Publish
<1>3. Taken /\ InPass /\ venue.hosted /\ ~pass.failed
  BY <1>1, <1>2 DEF Taken, InPass, PassInv, BatchInv
<1>4. PICK T \in Nat : T = pass.advancedTo /\ T <= now
  <2>1. pass.advancedTo \in Int
    BY VenueParts
  <2> QED BY <1>1, <1>3, <2>1 DEF PassInv
<1>5. PICK m \in MarketType : m = venue.market
  BY <1>1, <1>3
<1>6. PICK b \in Seq(TickType), n \in Nat \ {0} : b = pass.batch /\ n = Len(b)
  BY <1>1, <1>2
<1>7. PICK at \in Int, stalled \in BOOLEAN : at = venue.checkpointAt /\ stalled = venue.stalled
  BY VenueParts
<1>8. BatchFits(record, saved, quoted, now, m, stalled, at, b, T)
  BY <1>1, <1>3, <1>4, <1>5, <1>6, <1>7 DEF BatchInv
<1>9. /\ \A k \in 1..Len(record) : record[k].value.instant <= T
      /\ m.advancedAt = T /\ T < m.drawn.value.instant /\ MarketInv(m)
  BY <1>1, <1>3, <1>4, <1>5 DEF PassInv, HostedInv
<1>10. RecordInv(record, T)
  BY <1>1, <1>9 DEF RecordInv
<1>11. HeadOf(record) \in Nat /\ n \in 1..n /\ b # <<>> /\ m.last = b[n]
  BY <1>1, <1>6, <1>8, HeadFacts DEF BatchFits
<1>12. \A k \in 1..n : b[k].sequence > HeadOf(record) \/ Recorded(record, b[k])
  BY <1>1, <1>2, <1>6 DEF Accepts, Recorded, Range
<1>a. Batch(b, n, b[1])
  <2>1. \A k \in 1..n : b[k] = Later(b[1], k - 1)
    BY <1>6, <1>8 DEF BatchFits
  <2>2. b[1] \in TickType /\ b[1].sequence \in Nat
    BY <1>6, <1>11, Fields
  <2>3. ASSUME NEW k \in 1..n PROVE b[k] = At(b[1], b[1].sequence + (k - 1))
    <3>1. (b[1].sequence + (k - 1)) - b[1].sequence = k - 1
      BY <2>2
    <3> QED BY <2>1, <3>1 DEF At
  <2> QED BY <1>6, <2>2, <2>3 DEF Batch
<1>13. PICK c \in 0..n : /\ \A k \in 1..n : k <= c <=> b[k].sequence <= HeadOf(record)
                         /\ Fresh(b) = SubSeq(b, c + 1, n)
  <2>2. \E i \in 0..n : \A k \in 1..n : k <= i <=> b[k].sequence <= HeadOf(record)
    BY <1>11, <1>a, KnownPart
  <2>3. DOMAIN b = 1..n /\ Len(b) = n
    BY <1>6
  <2>4. PICK c : c = CHOOSE i \in 0..n : \A k \in 1..n : k <= i <=> b[k].sequence <= HeadOf(record)
    OBVIOUS
  <2>5. c \in 0..n /\ \A k \in 1..n : k <= c <=> b[k].sequence <= HeadOf(record)
    BY <2>2, <2>4
  <2>6. Fresh(b) = SubSeq(b, c + 1, n)
    BY <2>3, <2>4 DEF Fresh
  <2> QED BY <2>5, <2>6
<1>14. PICK new : new = record \o SubSeq(b, c + 1, n) /\ Extended(record, new, b[1], T) /\ Newest(new) = m.last
  <2>1. PICK x : x = record \o SubSeq(b, c + 1, n)
    OBVIOUS
  <2>2. Splits(record, b, c)
    BY <1>6, <1>12, <1>13 DEF Splits
  <2>3. Appended(record, b, Len(b), c, x)
    BY <1>1, <1>6, <1>a, <1>13, <2>1, AppendIs
  <2>4. Extended(record, x, b[1], T) /\ Newest(x) = m.last
    BY <1>1, <1>8, <1>9, <1>10, <1>11, <2>2, <2>3, BatchExtends
  <2> QED BY <2>1, <2>4
<1>15. record' = new
  BY <1>2, <1>6, <1>13, <1>14
<1>17. Last(b) = m.last /\ m.last \in TickType
  BY <1>6, <1>11 DEF Last
<1> QED BY <1>3, <1>4, <1>5, <1>6, <1>14, <1>15, <1>17

\* What an accepted pass leaves: the record with what was new in it, which still
\* shows the price in force.
LEMMA PublishStep ==
  ASSUME Deployed, IInv, Publish
  PROVE  IInv' /\ (quoted # NoPrice => InForce(quoted, record'))
<1>1. /\ now \in Nat /\ venue \in VenueType /\ PassInv /\ HostedInv /\ BatchInv
      /\ RecordInv(record, now) /\ QuoteInv(record, quoted, now) /\ SavedInv(record, saved, quoted, now)
      /\ record \in Seq(TickType) /\ saved \in CheckpointType \cup {NoCheckpoint} /\ quoted \in PriceType
      /\ (venue.hosted => venue.market \in MarketType) /\ pass.batch \in Seq(TickType)
  BY Unfolded, VenueParts
<1>2. /\ pc = "record" /\ pass.batch # <<>> /\ Accepts(pass.batch) /\ UNCHANGED <<now, saved>>
      /\ record' = record \o Fresh(pass.batch)
  BY DEF Publish
<1>3. Taken /\ InPass /\ venue.hosted /\ ~pass.failed
  BY <1>1, <1>2 DEF Taken, InPass, PassInv, BatchInv
<1>4. PICK T \in Nat : T = pass.advancedTo /\ T <= now
  <2>1. pass.advancedTo \in Int
    BY VenueParts
  <2> QED BY <1>1, <1>3, <2>1 DEF PassInv
<1>5. PICK m \in MarketType : m = venue.market
  BY <1>1, <1>3
<1>6. PICK b \in Seq(TickType), n \in Nat \ {0} : b = pass.batch /\ n = Len(b)
  BY <1>1, <1>2
<1>7. PICK at \in Int, stalled \in BOOLEAN : at = venue.checkpointAt /\ stalled = venue.stalled
  BY VenueParts
<1>8. BatchFits(record, saved, quoted, now, m, stalled, at, b, T)
  BY <1>1, <1>3, <1>4, <1>5, <1>6, <1>7 DEF BatchInv
<1>9. /\ \A k \in 1..Len(record) : record[k].value.instant <= T
      /\ m.advancedAt = T /\ T < m.drawn.value.instant /\ MarketInv(m)
  BY <1>1, <1>3, <1>4, <1>5 DEF PassInv, HostedInv
<1>14. PICK new : /\ new = record' /\ Extended(record, new, b[1], T) /\ Newest(new) = m.last
                 /\ m.last = Last(b) /\ m.last \in TickType
  <2>1. /\ Extended(record, record', pass.batch[1], pass.advancedTo)
        /\ Newest(record') = venue.market.last /\ venue.market.last = Last(pass.batch)
        /\ venue.market.last \in TickType
    BY PublishExtends
  <2> QED BY <1>4, <1>5, <1>6, <2>1
<1>15. record' = new
  BY <1>14
<1>16. PICK v : /\ v = [venue EXCEPT !.stalled = FALSE, !.awaiting = FALSE, !.latest = Last(b)]
                /\ Offer(v) \/ Offer([v EXCEPT !.stalled = TRUE, !.hosted = FALSE])
  BY <1>6 DEF Publish
<1>17. Last(b) = m.last /\ m.last \in TickType /\ Newest(new) = m.last
  BY <1>14
<1>18. /\ v \in VenueType /\ v.hosted /\ v.stalled = FALSE /\ v.checkpointAt = at /\ v.market = m
       /\ v.latest = Newest(new)
  <2>1. Last(b) \in MaybeTick
    BY <1>17 DEF MaybeTick
  <2> QED BY <1>1, <1>3, <1>5, <1>7, <1>16, <1>17, <2>1 DEF VenueType
<1>19. ASSUME NEW price2 \in PriceType, price2 = quoted \/ price2 = [tick |-> Newest(new), asOf |-> T]
       PROVE  /\ RecordInv(new, now) /\ new \in Seq(TickType)
              /\ quoted # NoPrice => InForce(quoted, new)
              /\ QuoteInv(new, price2, now) /\ SavedInv(new, saved, price2, now)
              /\ OpenInv(new, saved, price2, now, m, FALSE)
              /\ LagInv(new, saved, m, FALSE, at, Slack)
  <2>1. PICK d : d = b[1] /\ Extended(record, new, d, T)
    BY <1>14
  <2>2. /\ RecordInv(new, now) /\ new \in Seq(TickType)
        /\ (quoted # NoPrice => InForce(quoted, new))
        /\ QuoteInv(new, price2, now) /\ SavedInv(new, saved, price2, now)
        /\ OpenInv(new, saved, price2, now, m, FALSE)
        /\ (Follows(new, saved) => /\ m.floor <= saved.last.value.instant + Slack - 2 * MaxCatchUp
                                   /\ at <= saved.last.value.instant + Gap + 2 * MaxCatchUp
                                   /\ T <= saved.last.value.instant + Slack)
    BY <1>1, <1>4, <1>8, <1>9, <1>17, <1>19, <2>1, PublishFits
  <2>3. LagInv(new, saved, m, FALSE, at, Slack)
    BY <1>9, <2>2 DEF LagInv
  <2> QED BY <2>2, <2>3
<1>20. quoted # NoPrice => InForce(quoted, record')
  BY <1>1, <1>15, <1>19
<1>21. CASE Offer(v)
  <2>1. \/ quoted' = quoted
        \/ quoted' = [tick |-> Newest(new), asOf |-> T]
    <3>1. v.hosted => v.market \in MarketType
      BY <1>18
    <3>2. quoted' = quoted \/ quoted' = [tick |-> v.latest, asOf |-> pass.advancedTo]
      BY <1>2, <1>18, <1>21, <3>1, OfferFacts
    <3> QED BY <1>4, <1>18, <3>2
  <2>2. PICK price2 \in PriceType : price2 = quoted'
    <3>1. [tick |-> Newest(new), asOf |-> T] \in PriceType
      BY <1>17 DEF PriceType, MaybeTick
    <3> QED BY <1>1, <2>1, <3>1
  <2>3. /\ RecordInv(new, now) /\ new \in Seq(TickType)
        /\ QuoteInv(new, price2, now) /\ SavedInv(new, saved, price2, now)
        /\ OpenInv(new, saved, price2, now, m, FALSE)
        /\ LagInv(new, saved, m, FALSE, at, Slack)
    BY <1>19, <2>1, <2>2
  <2>4. \A k \in 1..Len(new) : new[k].value.instant <= T
    BY <1>14 DEF Extended, RecordInv
  <2>5. StallInv(now, m, FALSE, pass.failed)
    BY DEF StallInv
  <2>6. Offering(new, v, price2)
    BY <1>3, <1>4, <1>7, <1>9, <1>18, <2>3, <2>4, <2>5 DEF Offering
  <2>7. Offering(record', v, quoted')
    BY <1>15, <2>2, <2>6
  <2> QED BY <1>2, <1>20, <1>21, <2>7, OfferStep
<1>22. CASE Offer([v EXCEPT !.stalled = TRUE, !.hosted = FALSE])
  <2>1. PICK w : w = [v EXCEPT !.stalled = TRUE, !.hosted = FALSE]
    OBVIOUS
  <2>2. w \in VenueType /\ w.hosted = FALSE /\ w.checkpointAt = at
    BY <1>18, <2>1 DEF VenueType
  <2>3. Offer(w)
    BY <1>22, <2>1
  <2>4. quoted' = quoted
    BY <1>2, <2>2, <2>3, OfferFacts
  <2>5. Offering(record', w, quoted')
    BY <1>1, <1>7, <1>15, <1>19, <2>2, <2>4 DEF Offering
  <2> QED BY <1>2, <1>20, <2>3, <2>5, OfferStep
<1> QED BY <1>16, <1>21, <1>22

\* A step keeps the invariant, and the price in force.
LEMMA Step ==
  ASSUME Deployed, IInv, [Next]_vars
  PROVE  IInv' /\ (quoted # NoPrice => InForce(quoted, record'))
<1>1. CASE Publish
  BY <1>1, PublishStep
<1>2. CASE Boot
  BY <1>2, BootStep, StillInForce DEF Boot
<1>3. CASE Ready
  BY <1>3, ReadyStep, StillInForce DEF Ready
<1>4. CASE Advance
  BY <1>4, AdvanceStep, StillInForce DEF Advance
<1>5. CASE RecordRefuses
  BY <1>5, RecordRefusesStep, StillInForce DEF RecordRefuses
<1>6. CASE NothingDue
  BY <1>6, NothingDueStep, StillInForce DEF NothingDue
<1>7. CASE Save
  BY <1>7, SaveStep, StillInForce DEF Save
<1>8. CASE Finish
  BY <1>8, FinishStep, StillInForce DEF Finish
<1>9. CASE Stop
  BY <1>9, StopStep, StillInForce DEF Stop
<1>10. CASE Subscribe
  BY <1>10, Elsewhere, StillInForce DEF Subscribe
<1>11. CASE Disconnect
  BY <1>11, Elsewhere, StillInForce DEF Disconnect
<1>12. CASE Crash
  <2>1. /\ Exit /\ UNCHANGED <<now, saved, record, quoted>>
    BY <1>12 DEF Crash
  <2>2. saved' \in CheckpointType \cup {NoCheckpoint} /\ SavedInv(record, saved', quoted, now)
    BY <2>1, Unfolded
  <2> QED BY <2>1, <2>2, Gone, StillInForce
<1>13. CASE Tick
  BY <1>13, TickStep, StillInForce DEF Tick
<1>14. CASE UNCHANGED vars
  BY <1>14, Elsewhere, StillInForce DEF vars
<1> QED BY <1>1, <1>2, <1>3, <1>4, <1>5, <1>6, <1>7, <1>8, <1>9, <1>10, <1>11, <1>12, <1>13, <1>14 DEF Next

\* The invariant, for every pace of the host.
THEOREM Inductive ==
  ASSUME Deployed PROVE Spec => []IInv
<1>1. IInv /\ [Next]_vars => IInv'
  BY Step
<1> QED BY <1>1, InitInv, PTL DEF Spec

\* A price stands at the instant it was put in force for, whatever is recorded
\* after it (VenueService.quote and its record, venue.service.ts).
THEOREM QuotesAlwaysStand ==
  ASSUME Deployed PROVE Spec => QuotesStand
<1>1. IInv /\ [Next]_vars => [quoted # NoPrice => InForce(quoted, record')]_vars
  BY Step
<1> QED BY <1>1, Inductive, PTL DEF Spec, QuotesStand

-----------------------------------------------------------------------------
(* Key epochs *)

\* A key epoch is no later than its tick, and no further than one instant past
\* the start of its stream.
Dated(d) == d.value.epoch <= d.value.instant * EpochSpan
Aged(d, instant) == d.value.epoch <= (instant + 1) * EpochSpan

\* What a record takes next is on no earlier key epoch.
Newer(rec, d) == Leads(rec, d) /\ rec # <<>> => Newest(rec).value.epoch <= d.value.epoch

RecordDated(rec) ==
  /\ \A k \in 1..Len(rec) : Dated(rec[k])
  /\ \A j, k \in 1..Len(rec) : j < k => rec[j].value.epoch <= rec[k].value.epoch

EpochInv ==
  /\ RecordDated(record)
  /\ saved # NoCheckpoint => Dated(saved.drawn)
  /\ pass.plan # NoCheckpoint => Dated(pass.plan.drawn)
  /\ venue.hosted =>
       /\ Dated(venue.market.drawn) /\ Aged(venue.market.drawn, venue.market.floor)
       /\ ~Taken => Newer(record, venue.market.drawn)
  /\ Taken => Dated(pass.batch[1]) /\ Newer(record, pass.batch[1])

\* Whenever a process starts, its checkpoint's key epoch is before the next
\* instant's own: fewer than EpochSpan of them have started at one instant.
ClockLeads ==
  (pc = "down" /\ boots < MaxBoots) \/ pc = "booting" =>
    (saved # NoCheckpoint => saved.drawn.value.epoch < (now + 1) * EpochSpan)

\* A step of a process under way: its market stays on its key epoch or takes this
\* instant's own, and what it plans to store is on the market's.
Rekeys ==
  /\ venue'.hosted => /\ venue.hosted
                      /\ \/ venue'.market.drawn.value.epoch = venue.market.drawn.value.epoch
                         \/ venue'.market.drawn.value.epoch = now * EpochSpan
  /\ pass'.plan # NoCheckpoint =>
       \/ pass'.plan = pass.plan
       \/ venue.hosted /\ pass'.plan.drawn = venue.market.drawn

\* The key epochs an instant has to itself.
LEMMA Spans ==
  /\ \A a \in Nat : a * EpochSpan \in Nat /\ (a + 1) * EpochSpan = a * EpochSpan + EpochSpan
  /\ \A a, b \in Nat : a <= b => a * EpochSpan <= b * EpochSpan
<1>1. EpochSpan \in Nat
  BY Constants
<1>2. ASSUME NEW a \in Nat PROVE a * EpochSpan \in Nat /\ (a + 1) * EpochSpan = a * EpochSpan + EpochSpan
  BY <1>1
<1>3. ASSUME NEW a \in Nat, NEW b \in Nat, a <= b PROVE a * EpochSpan <= b * EpochSpan
  <2>1. PICK c \in Nat : b = a + c
    <3>1. b - a \in Nat /\ b = a + (b - a)
      BY <1>3
    <3> QED BY <3>1
  <2>2. (a + c) * EpochSpan = a * EpochSpan + c * EpochSpan /\ c * EpochSpan \in Nat /\ a * EpochSpan \in Nat
    BY <1>1
  <2> QED BY <2>1, <2>2
<1> QED BY <1>2, <1>3

\* The ticks of a stream stay on its key epoch.
LEMMA StaysDated ==
  ASSUME NEW d \in TickType, Dated(d)
  PROVE  /\ \A i \in Nat : d.sequence <= i => Dated(At(d, i)) /\ At(d, i).value.epoch = d.value.epoch
         /\ Dated(Later(d, 1)) /\ Later(d, 1).value.epoch = d.value.epoch
<1>1. ASSUME NEW i \in Nat, d.sequence <= i PROVE Dated(At(d, i)) /\ At(d, i).value.epoch = d.value.epoch
  <2>1. /\ At(d, i).value.epoch = d.value.epoch /\ d.value.instant <= At(d, i).value.instant
        /\ At(d, i).value.instant \in Nat /\ d.value.instant \in Nat /\ d.value.epoch \in Nat
    BY <1>1, AtIs, Fields
  <2>2. PICK a \in Nat, b \in Nat : a = d.value.instant /\ b = At(d, i).value.instant /\ a <= b
    BY <2>1
  <2>3. a * EpochSpan <= b * EpochSpan /\ a * EpochSpan \in Nat /\ b * EpochSpan \in Nat
    BY <2>2, Spans
  <2>4. d.value.epoch <= a * EpochSpan
    BY <2>2 DEF Dated
  <2>5. d.value.epoch <= b * EpochSpan
    BY <2>1, <2>3, <2>4
  <2> QED BY <2>1, <2>2, <2>5 DEF Dated
<1>2. d.sequence \in Nat /\ d.sequence + 1 \in Nat /\ d.sequence <= d.sequence + 1
  BY Fields
<1>3. Later(d, 1) = At(d, d.sequence + 1)
  BY AtSelf
<1> QED BY <1>1, <1>2, <1>3

\* A record of dated ticks ends on a key epoch of its time.
LEMMA NewestDated ==
  ASSUME NEW rec \in Seq(TickType), NEW t \in Nat, RecordInv(rec, t), RecordDated(rec), rec # <<>>
  PROVE  /\ Newest(rec).value.epoch <= t * EpochSpan
         /\ \A k \in 1..Len(rec) : rec[k].value.epoch <= Newest(rec).value.epoch
<1>1. PICK L \in Nat : /\ L = Len(rec) /\ L \in 1..L /\ Newest(rec) = rec[L] /\ rec[L] \in TickType
                       /\ \A k \in 1..L : rec[k] \in TickType
  BY HeadFacts
<1>2. rec[L].value.instant <= t /\ rec[L].value.epoch <= rec[L].value.instant * EpochSpan
  BY <1>1 DEF RecordInv, RecordDated, Dated
<1>3. rec[L].value.instant \in Nat /\ rec[L].value.epoch \in Nat
  BY <1>1, Fields
<1>4. PICK a \in Nat : a = rec[L].value.instant
  BY <1>3
<1>5. a * EpochSpan <= t * EpochSpan /\ a * EpochSpan \in Nat /\ t * EpochSpan \in Nat
  BY <1>2, <1>4, Spans
<1>6. ASSUME NEW k \in 1..L PROVE rec[k].value.epoch <= rec[L].value.epoch
  <2>1. k = L \/ k < L
    BY <1>1
  <2>2. k < L => rec[k].value.epoch <= rec[L].value.epoch
    BY <1>1 DEF RecordDated
  <2> QED BY <1>3, <2>1, <2>2
<1> QED BY <1>1, <1>2, <1>3, <1>4, <1>5, <1>6

\* What is published leaves the record's key epochs in order.
LEMMA ExtendedDated ==
  ASSUME NEW rec, NEW new, NEW d, NEW T, Extended(rec, new, d, T), RecordDated(rec),
         Dated(d), Newer(rec, d)
  PROVE  RecordDated(new)
<1>1. /\ rec \in Seq(TickType) /\ new \in Seq(TickType) /\ d \in TickType /\ T \in Nat
      /\ RecordInv(rec, T) /\ (Leads(rec, d) \/ Replays(rec, d)) /\ Grown(rec, new, d)
  BY DEF Extended
<1>2. PICK L \in Nat, N \in Nat : L = Len(rec) /\ N = Len(new) /\ L <= N
  BY <1>1, HeadFacts DEF Grown
<1>3. /\ \A k \in 1..L : new[k] = rec[k] /\ rec[k] \in TickType
      /\ \A k \in (L + 1)..N : d.sequence <= new[k].sequence /\ new[k] = At(d, new[k].sequence)
      /\ \A k \in 1..N : new[k] \in TickType
  BY <1>1, <1>2, HeadFacts DEF Grown
<1>4. ASSUME NEW k \in (L + 1)..N PROVE Dated(new[k]) /\ new[k].value.epoch = d.value.epoch
  <2>1. new[k] \in TickType /\ d.sequence <= new[k].sequence /\ new[k] = At(d, new[k].sequence)
    <3>1. k \in 1..N
      BY <1>2
    <3> QED BY <1>3, <3>1
  <2>2. PICK i \in Nat : i = new[k].sequence
    BY <2>1, Fields
  <2>3. Dated(At(d, i)) /\ At(d, i).value.epoch = d.value.epoch
    BY <1>1, <2>1, <2>2, StaysDated
  <2> QED BY <2>1, <2>2, <2>3
<1>5. ASSUME NEW k \in 1..L PROVE rec[k].value.epoch <= d.value.epoch
  <2>1. rec # <<>>
    BY <1>1, <1>2, <1>5
  <2>2. rec[k].value.epoch <= Newest(rec).value.epoch /\ Newest(rec) \in TickType /\ HeadOf(rec) \in Nat
    BY <1>1, <1>2, <2>1, NewestDated, HeadFacts
  <2>3. CASE Leads(rec, d)
    <3>1. Newest(rec).value.epoch <= d.value.epoch
      BY <2>1, <2>3 DEF Newer
    <3>2. rec[k].value.epoch \in Nat /\ Newest(rec).value.epoch \in Nat /\ d.value.epoch \in Nat
      BY <1>1, <1>3, <2>2, Fields
    <3> QED BY <2>2, <3>1, <3>2
  <2>4. CASE Replays(rec, d)
    <3>1. Newest(rec) = At(d, HeadOf(rec)) /\ d.sequence <= HeadOf(rec)
      BY <1>1, <2>4, NewestOfRun
    <3>2. Newest(rec).value.epoch = d.value.epoch
      BY <1>1, <2>2, <3>1, StaysDated
    <3> QED BY <2>2, <3>2
  <2> QED BY <1>1, <2>3, <2>4
<1>6. ASSUME NEW k \in 1..N PROVE Dated(new[k])
  <2>1. k \in 1..L \/ k \in (L + 1)..N
    BY <1>2
  <2>2. k \in 1..L => Dated(new[k])
    BY <1>2, <1>3 DEF RecordDated
  <2> QED BY <1>4, <2>1, <2>2
<1>7. ASSUME NEW j \in 1..N, NEW k \in 1..N, j < k PROVE new[j].value.epoch <= new[k].value.epoch
  <2>1. CASE k \in 1..L
    <3>1. j \in 1..L /\ new[j] = rec[j] /\ new[k] = rec[k]
      BY <1>2, <1>3, <1>7, <2>1
    <3> QED BY <1>2, <1>7, <2>1, <3>1 DEF RecordDated
  <2>2. CASE j \in 1..L /\ k \in (L + 1)..N
    <3>1. new[j] = rec[j] /\ rec[j].value.epoch <= d.value.epoch /\ new[k].value.epoch = d.value.epoch
      BY <1>3, <1>4, <1>5, <2>2
    <3> QED BY <3>1
  <2>3. CASE j \in (L + 1)..N
    <3>1. k \in (L + 1)..N
      BY <1>2, <1>7, <2>3
    <3>2. new[j].value.epoch = d.value.epoch /\ new[k].value.epoch = d.value.epoch /\ d.value.epoch \in Nat
      BY <1>1, <1>4, <2>3, <3>1, Fields
    <3> QED BY <3>2
  <2> QED BY <1>2, <2>1, <2>2, <2>3
<1> QED BY <1>2, <1>6, <1>7 DEF RecordDated

\* The number a stream starts at: the first, or a lease past all that is known.
Apart(rec, s, last) ==
  IF last = NoTick THEN s = 0
  ELSE last.sequence + SequenceLease <= s /\ HeadOf(rec) + SequenceLease <= s

\* What an opening leaves: the tick it resumes from, or a stream started now.
LEMMA OpeningIs ==
  ASSUME Deployed, NEW rec \in Seq(TickType), NEW t \in Nat, RecordInv(rec, t), NEW price,
         NEW cp \in CheckpointType \cup {NoCheckpoint}, SavedInv(rec, cp, price, t),
         NEW m, m = Primed(Opening(cp, Newest(rec), t, t).market)
  PROVE  /\ Resumable(cp, t) => m.drawn = cp.drawn /\ m.floor = cp.drawn.value.instant
         /\ ~Resumable(cp, t) =>
              \E s \in Nat, epoch \in Nat, first \in Nat, last \in MaybeTick :
                /\ Awaits(m, s, t, epoch, first, last)
                /\ cp = NoCheckpoint => epoch = t * EpochSpan
                /\ cp # NoCheckpoint => first >= 1 /\ epoch = Larger(cp.drawn.value.epoch + 1, t * EpochSpan)
                /\ Apart(rec, s, last)
<1>1. /\ Newest(rec) \in MaybeTick /\ HeadOf(rec) \in Nat
      /\ rec = <<>> => Newest(rec) = NoTick
      /\ rec # <<>> => /\ Newest(rec) \in TickType /\ Newest(rec) # NoTick /\ HeadOf(rec) = Newest(rec).sequence
                       /\ Newest(rec).value.instant <= t /\ Newest(rec).value.instant \in Nat
  BY HeadFacts, Fields DEF MaybeTick, RecordInv
<1>2. EpochSpan \in Nat /\ SeamGap \in Nat /\ SeamGap >= 1 /\ GenesisGap \in Nat /\ SequenceLease \in Nat /\ t * EpochSpan \in Nat
  BY Constants DEF Deployed
<1>3. CASE cp = NoCheckpoint
  <2>1. ~Resumable(cp, t)
    BY <1>3 DEF Resumable
  <2>2. PICK s \in Nat, first \in Nat, last \in MaybeTick :
          m = Started(s, t, t * EpochSpan, first, last) /\ Apart(rec, s, last)
    <3>1. CASE rec = <<>>
      <4>1. m = Started(0, t, t * EpochSpan, GenesisGap, NoTick)
        BY <1>1, <1>3, <3>1 DEF Opening, FreshMarket, StartKeyEpoch, Started
      <4>2. NoTick \in MaybeTick /\ 0 \in Nat
        BY DEF MaybeTick
      <4>3. Apart(rec, 0, NoTick)
        BY DEF Apart
      <4> QED BY <1>2, <4>1, <4>2, <4>3
    <3>2. CASE rec # <<>>
      <4>1. Larger(Larger(t, t), Newest(rec).value.instant) = t
        BY <1>1, <3>2 DEF Larger
      <4>2. m = Started(HeadOf(rec) + SequenceLease, t, t * EpochSpan, SeamGap, Newest(rec))
        BY <1>1, <1>3, <3>2, <4>1 DEF Opening, SeamPastRecord, Seamed, StartKeyEpoch, Started
      <4>3. HeadOf(rec) + SequenceLease \in Nat
        BY <1>1, <1>2
      <4>4. Apart(rec, HeadOf(rec) + SequenceLease, Newest(rec))
        BY <1>1, <3>2, <4>3 DEF Apart
      <4> QED BY <1>1, <1>2, <4>2, <4>3, <4>4
    <3> QED BY <3>1, <3>2
  <2>3. PICK epoch \in Nat : epoch = t * EpochSpan
    BY <1>2
  <2>4. Awaits(m, s, t, epoch, first, last)
    BY <2>2, <2>3, PrimedAt
  <2> QED BY <1>3, <2>1, <2>2, <2>3, <2>4
<1>4. CASE cp # NoCheckpoint /\ ~Resumable(cp, t)
  <2>1. /\ cp.drawn \in TickType /\ cp.drawn.value.epoch \in Nat /\ cp.leased \in Nat /\ cp.last \in MaybeTick
        /\ cp.last # NoTick => /\ cp.last.sequence \in Nat /\ rec # <<>>
                               /\ cp.last.value.instant <= t /\ cp.last.value.instant \in Nat
    <3>1. cp.drawn \in TickType /\ cp.leased \in Nat /\ cp.last \in MaybeTick
      BY <1>4, CheckpointFacts
    <3>2. cp.last # NoTick => Near(rec, cp.last)
      BY <1>4 DEF SavedInv
    <3>3. cp.last # NoTick => cp.last \in TickType /\ rec # <<>> /\ cp.last.value.instant <= t
      BY <3>2, RecordedFacts DEF Near
    <3> QED BY <3>1, <3>3, Fields
  <2>2. PICK epoch \in Nat : epoch = Larger(cp.drawn.value.epoch + 1, t * EpochSpan)
    BY <1>2, <2>1 DEF Larger
  <2>3. Larger(IF cp.last = NoTick THEN t ELSE cp.last.value.instant, t) = t
    BY <2>1 DEF Larger
  <2>4. PICK s \in Nat :
          s = IF cp.last = NoTick THEN 0
              ELSE Larger(cp.leased, Larger(cp.last.sequence, IF Newest(rec) = NoTick THEN 0 ELSE Newest(rec).sequence)
                                       + SequenceLease)
    <3>1. CASE cp.last = NoTick
      BY <3>1
    <3>2. CASE cp.last # NoTick
      <4>1. (IF Newest(rec) = NoTick THEN 0 ELSE Newest(rec).sequence) = HeadOf(rec)
        BY <1>1, <2>1, <3>2
      <4>2. Larger(cp.leased, Larger(cp.last.sequence, HeadOf(rec)) + SequenceLease) \in Nat
        BY <1>1, <1>2, <2>1, <3>2 DEF Larger
      <4> QED BY <3>2, <4>1, <4>2
    <3> QED BY <3>1, <3>2
  <2>5. Opening(cp, Newest(rec), t, t).market = SeamFrom(cp, Newest(rec), t, t)
    BY <1>4 DEF Opening, Resumable
  <2>6. SeamFrom(cp, Newest(rec), t, t) = Hosted(EngineAt(s, t, epoch, SeamGap), t, FALSE, cp.last)
    BY <2>2, <2>3, <2>4 DEF SeamFrom, Seamed, StartKeyEpochAfter
  <2>7. m = Started(s, t, epoch, SeamGap, cp.last)
    BY <2>5, <2>6 DEF Started
  <2>8. Awaits(m, s, t, epoch, SeamGap, cp.last)
    BY <1>2, <2>1, <2>7, PrimedAt
  <2>9. Apart(rec, s, cp.last)
    <3> SUFFICES ASSUME cp.last # NoTick
                 PROVE  cp.last.sequence + SequenceLease <= s /\ HeadOf(rec) + SequenceLease <= s
      BY <2>4 DEF Apart
    <3>1. (IF Newest(rec) = NoTick THEN 0 ELSE Newest(rec).sequence) = HeadOf(rec)
      BY <1>1, <2>1
    <3>2. PICK q \in Nat, h \in Nat, l \in Nat, e \in Nat :
            q = cp.last.sequence /\ h = HeadOf(rec) /\ l = SequenceLease /\ e = cp.leased
      BY <1>1, <1>2, <2>1
    <3>3. s = Larger(e, Larger(q, h) + l)
      BY <2>4, <3>1, <3>2
    <3>4. q + l <= s /\ h + l <= s
      BY <3>3 DEF Larger
    <3> QED BY <3>2, <3>4
  <2> QED BY <1>2, <1>4, <2>1, <2>2, <2>8, <2>9
<1>5. CASE Resumable(cp, t)
  <2>1. /\ cp \in CheckpointType /\ cp # NoCheckpoint /\ cp.pending = TRUE
    BY <1>5, CheckpointFacts DEF Resumable
  <2>2. m = Primed(Resumed(cp))
    BY <1>5 DEF Opening, Resumable
  <2>3. PICK h : h = Resumed(cp)
    OBVIOUS
  <2>4. h = [drawn |-> cp.drawn, floor |-> cp.drawn.value.instant, pending |-> TRUE,
             last |-> cp.last, advancedAt |-> -1]
    BY <2>1, <2>3 DEF Resumed, Hosted, Never
  <2>5. NextUnpublished(h) = cp.drawn
    BY <2>4 DEF NextUnpublished
  <2>6. m = [h EXCEPT !.drawn = cp.drawn, !.pending = TRUE]
    BY <2>2, <2>3, <2>5 DEF Primed
  <2>7. m.drawn = cp.drawn /\ m.floor = cp.drawn.value.instant
    BY <2>4, <2>6
  <2> QED BY <1>5, <2>7
<1> QED BY <1>3, <1>4, <1>5

\* A stream started at the clock, on a key epoch of that instant or the next one's
\* first.
LEMMA StartedDated ==
  ASSUME NEW rec \in Seq(TickType), NEW t \in Nat, RecordInv(rec, t), RecordDated(rec),
         NEW s, NEW epoch \in Nat, NEW first \in Nat, NEW last, NEW m, Awaits(m, s, t, epoch, first, last),
         t * EpochSpan <= epoch, epoch <= (t + 1) * EpochSpan, epoch <= (t + first) * EpochSpan
  PROVE  Dated(m.drawn) /\ Aged(m.drawn, m.floor) /\ Newer(rec, m.drawn)
<1>1. /\ m.drawn.value.epoch = epoch /\ m.drawn.value.instant = t + first /\ m.floor = t
  BY DEF Awaits
<1>2. Newer(rec, m.drawn)
  <2> SUFFICES ASSUME rec # <<>> PROVE Newest(rec).value.epoch <= epoch
    BY <1>1 DEF Newer
  <2>1. Newest(rec).value.epoch <= t * EpochSpan /\ Newest(rec).value.epoch \in Nat /\ t * EpochSpan \in Nat
    BY NewestDated, HeadFacts, Fields, Spans
  <2> QED BY <2>1
<1> QED BY <1>1, <1>2 DEF Dated, Aged

\* Whatever a market is opened from.
LEMMA OpeningDated ==
  ASSUME Deployed, NEW rec \in Seq(TickType), NEW t \in Nat, RecordInv(rec, t), RecordDated(rec),
         NEW price, NEW cp \in CheckpointType \cup {NoCheckpoint}, SavedInv(rec, cp, price, t),
         cp # NoCheckpoint => Dated(cp.drawn) /\ cp.drawn.value.epoch < (t + 1) * EpochSpan,
         NEW m, m = Primed(Opening(cp, Newest(rec), t, t).market)
  PROVE  Dated(m.drawn) /\ Aged(m.drawn, m.floor) /\ Newer(rec, m.drawn)
<1>1. CASE Resumable(cp, t)
  <2>1. m.drawn = cp.drawn /\ m.floor = cp.drawn.value.instant
    BY <1>1, OpeningIs
  <2>2. /\ cp \in CheckpointType /\ cp.drawn \in TickType /\ UsableRecord(cp) /\ cp # NoCheckpoint
        /\ cp.drawn.value.instant \in Nat /\ cp.drawn.value.epoch \in Nat /\ cp.drawn.sequence \in Nat
        /\ HeadOf(rec) \in Nat
    BY <1>1, CheckpointFacts, Fields, HeadFacts DEF Resumable
  <2>3. Aged(cp.drawn, cp.drawn.value.instant)
    <3>1. PICK a \in Nat : a = cp.drawn.value.instant
      BY <2>2
    <3>2. (a + 1) * EpochSpan = a * EpochSpan + EpochSpan /\ a * EpochSpan \in Nat /\ EpochSpan \in Nat
      BY Spans, Constants
    <3>3. cp.drawn.value.epoch <= a * EpochSpan
      BY <2>2, <3>1 DEF Dated
    <3>4. cp.drawn.value.epoch <= (a + 1) * EpochSpan
      BY <2>2, <3>2, <3>3
    <3> QED BY <3>1, <3>4 DEF Aged
  <2>4. Newer(rec, cp.drawn)
    <3> SUFFICES ASSUME Leads(rec, cp.drawn), rec # <<>>
                 PROVE  Newest(rec).value.epoch <= cp.drawn.value.epoch
      BY DEF Newer
    <3>1. cp.drawn.sequence <= HeadOf(rec) + 1
      BY <2>2, UsableFacts
    <3>2. cp.drawn = Later(Newest(rec), 1) /\ Newest(rec) \in TickType
      BY <2>2, <3>1, HeadFacts DEF Leads
    <3>3. cp.drawn.value.epoch = Newest(rec).value.epoch
      BY <3>2, NextTick
    <3> QED BY <2>2, <3>3
  <2> QED BY <2>1, <2>2, <2>3, <2>4
<1>2. CASE ~Resumable(cp, t)
  <2>1. PICK s \in Nat, epoch \in Nat, first \in Nat, last \in MaybeTick :
          /\ Awaits(m, s, t, epoch, first, last)
          /\ cp = NoCheckpoint => epoch = t * EpochSpan
          /\ cp # NoCheckpoint => first >= 1 /\ epoch = Larger(cp.drawn.value.epoch + 1, t * EpochSpan)
    BY <1>2, OpeningIs
  <2>2. /\ t * EpochSpan \in Nat /\ (t + 1) * EpochSpan \in Nat /\ (t + first) * EpochSpan \in Nat
        /\ t * EpochSpan <= (t + 1) * EpochSpan /\ t * EpochSpan <= (t + first) * EpochSpan
        /\ first >= 1 => (t + 1) * EpochSpan <= (t + first) * EpochSpan
    <3>1. PICK u \in Nat, w \in Nat : u = t + 1 /\ w = t + first /\ t <= u /\ t <= w /\ (first >= 1 => u <= w)
      OBVIOUS
    <3>2. /\ t * EpochSpan \in Nat /\ u * EpochSpan \in Nat /\ w * EpochSpan \in Nat
          /\ t * EpochSpan <= u * EpochSpan /\ t * EpochSpan <= w * EpochSpan
          /\ (first >= 1 => u * EpochSpan <= w * EpochSpan)
      BY <3>1, Spans
    <3> QED BY <3>1, <3>2
  <2>3. t * EpochSpan <= epoch /\ epoch <= (t + 1) * EpochSpan /\ epoch <= (t + first) * EpochSpan
    <3>1. CASE cp = NoCheckpoint
      BY <2>1, <2>2, <3>1
    <3>2. CASE cp # NoCheckpoint
      <4>1. cp \in CheckpointType /\ cp.drawn.value.epoch \in Nat /\ cp.drawn.value.epoch < (t + 1) * EpochSpan
        BY <3>2, CheckpointFacts, Fields
      <4>2. PICK x \in Nat, y \in Nat, z \in Nat, e \in Nat :
              /\ x = t * EpochSpan /\ y = (t + 1) * EpochSpan /\ z = (t + first) * EpochSpan
              /\ e = cp.drawn.value.epoch /\ e < y /\ x <= y /\ y <= z
        BY <2>1, <2>2, <3>2, <4>1
      <4>3. epoch = IF e + 1 >= x THEN e + 1 ELSE x
        BY <2>1, <3>2, <4>2 DEF Larger
      <4>4. PICK f \in Nat : f = epoch /\ (f = IF e + 1 >= x THEN e + 1 ELSE x)
        BY <4>2, <4>3
      <4>5. x <= f /\ f <= y
        <5>1. CASE e + 1 >= x
          BY <4>2, <4>4, <5>1
        <5>2. CASE e + 1 < x
          BY <4>2, <4>4, <5>2
        <5> QED BY <5>1, <5>2
      <4>6. f <= z
        BY <4>2, <4>5
      <4> QED BY <4>2, <4>4, <4>5, <4>6
    <3> QED BY <3>1, <3>2
  <2> QED BY <2>1, <2>3, StartedDated
<1> QED BY <1>1, <1>2

\* A market reopened in place.
LEMMA ReopenDated ==
  ASSUME Deployed, NEW rec \in Seq(TickType), NEW t \in Nat, RecordInv(rec, t), RecordDated(rec),
         NEW m \in MarketType, m.last # NoTick, m.last.value.instant <= t, CatchUpTooLarge(m, t),
         Aged(m.drawn, m.floor), NEW n, n = Primed(Reopened(m, t))
  PROVE  /\ Dated(n.drawn) /\ Aged(n.drawn, n.floor) /\ Newer(rec, n.drawn)
         /\ n.drawn.value.epoch = t * EpochSpan
<1>1. /\ m.last \in TickType /\ m.last.sequence \in Nat /\ m.last.value.instant \in Nat
      /\ m.drawn \in TickType /\ m.drawn.value.epoch \in Nat /\ m.floor \in Nat /\ m.advancedAt \in Int
      /\ m.last \in MaybeTick
  BY Fields DEF MarketType, MaybeTick
<1>2. /\ EpochSpan \in Nat /\ EpochSpan >= 1 /\ SeamGap \in Nat /\ SequenceLease \in Nat
      /\ MaxCatchUp \in Nat /\ MaxCatchUp >= 1 /\ t * EpochSpan \in Nat
  BY Constants
<1>3. m.floor + 1 < t
  BY <1>1, <1>2 DEF CatchUpTooLarge, Behind, Larger
<1>4. PICK u \in Nat : u + 1 = t /\ m.floor + 1 <= u
  <2>1. t - 1 \in Nat /\ (t - 1) + 1 = t /\ m.floor + 1 <= t - 1
    BY <1>1, <1>3
  <2> QED BY <2>1
<1>5. m.drawn.value.epoch + 1 <= t * EpochSpan
  <2>1. PICK f \in Nat : f = m.floor + 1 /\ f <= u
    BY <1>1, <1>4
  <2>2. f * EpochSpan <= u * EpochSpan /\ f * EpochSpan \in Nat /\ u * EpochSpan \in Nat
    BY <2>1, Spans
  <2>3. (u + 1) * EpochSpan = u * EpochSpan + EpochSpan
    BY Spans
  <2>4. m.drawn.value.epoch <= f * EpochSpan
    BY <2>1 DEF Aged
  <2>5. t * EpochSpan = u * EpochSpan + EpochSpan
    BY <1>4, <2>3
  <2>6. PICK x \in Nat, y \in Nat, e \in Nat, g \in Nat :
          /\ x = f * EpochSpan /\ y = u * EpochSpan /\ e = m.drawn.value.epoch /\ g = EpochSpan
          /\ x <= y /\ e <= x /\ g >= 1
    BY <1>1, <1>2, <2>2, <2>4
  <2>7. e + 1 <= y + g
    BY <2>6
  <2> QED BY <2>5, <2>6, <2>7
<1>6. PICK epoch \in Nat : epoch = StartKeyEpochAfter(t, KeyEpoch(m)) /\ epoch = t * EpochSpan
  <2>1. PICK e \in Nat, x \in Nat : e = m.drawn.value.epoch /\ x = t * EpochSpan
    BY <1>1, <1>2
  <2>2. e + 1 <= x
    BY <1>5, <2>1
  <2>3. StartKeyEpochAfter(t, KeyEpoch(m)) = IF e + 1 >= x THEN e + 1 ELSE x
    BY <2>1 DEF StartKeyEpochAfter, Larger, KeyEpoch
  <2>4. (IF e + 1 >= x THEN e + 1 ELSE x) = x
    BY <2>2
  <2> QED BY <2>1, <2>3, <2>4
<1>7. PICK s \in Nat : s = m.last.sequence + SequenceLease
  BY <1>1, <1>2
<1>8. Awaits(n, s, t, epoch, SeamGap, m.last)
  <2>1. Larger(m.last.value.instant, t) = t
    BY <1>1 DEF Larger
  <2>2. n = Started(s, t, epoch, SeamGap, m.last)
    BY <1>6, <1>7, <2>1 DEF Started, Reopened, Seamed
  <2> QED BY <1>1, <1>2, <2>2, PrimedAt
<1>9. epoch <= (t + 1) * EpochSpan /\ epoch <= (t + SeamGap) * EpochSpan /\ t * EpochSpan <= epoch
  <2>1. PICK v \in Nat, w \in Nat : v = t + 1 /\ w = t + SeamGap /\ t <= v /\ t <= w
    BY <1>2
  <2>2. t * EpochSpan <= v * EpochSpan /\ t * EpochSpan <= w * EpochSpan
    BY <2>1, Spans
  <2> QED BY <1>6, <2>1, <2>2
<1>10. Dated(n.drawn) /\ Aged(n.drawn, n.floor) /\ Newer(rec, n.drawn)
  BY <1>2, <1>8, <1>9, StartedDated
<1>11. n.drawn.value.epoch = epoch
  BY <1>8 DEF Awaits
<1> QED BY <1>6, <1>10, <1>11

\* A step that moves none of the ticks.
LEMMA EpochsStay ==
  ASSUME EpochInv, UNCHANGED <<saved, record>>, ~Taken', ~Taken,
         pass'.plan # NoCheckpoint => pass'.plan = pass.plan,
         venue'.hosted => /\ venue.hosted /\ venue'.market.drawn = venue.market.drawn
                          /\ venue'.market.floor = venue.market.floor
  PROVE  EpochInv' /\ Rekeys
BY DEF EpochInv, Rekeys

\* The key epochs a pass takes on at its start.
LEMMA AdvanceEpochs ==
  ASSUME Deployed, IInv, EpochInv, Advance
  PROVE  EpochInv' /\ Rekeys
<1>1. /\ now \in Nat /\ venue \in VenueType /\ record \in Seq(TickType) /\ RecordInv(record, now)
      /\ HostedInv /\ (venue.hosted => venue.market \in MarketType)
  BY Unfolded
<1>2. /\ UNCHANGED <<now, saved, record>> /\ pc = "idle" /\ pc' = "record" /\ ~Taken
  BY DEF Advance, Taken
<1>3. PICK failed : failed = (venue.hosted /\ CatchUpTooLarge(venue.market, now))
  OBVIOUS
<1>4. PICK b : b = IF venue.hosted /\ ~failed THEN Published(venue.market, now) ELSE <<>>
  OBVIOUS
<1>5. pass' = [NoPass EXCEPT !.advancedTo = now, !.failed = failed, !.batch = b]
  BY <1>3, <1>4 DEF Advance
<1>6. pass'.plan = NoCheckpoint /\ pass'.batch = b
  BY <1>5 DEF NoPass
<1>7. /\ RecordDated(record) /\ (saved # NoCheckpoint => Dated(saved.drawn))
      /\ (venue.hosted => /\ Dated(venue.market.drawn) /\ Aged(venue.market.drawn, venue.market.floor)
                          /\ Newer(record, venue.market.drawn))
  BY <1>2 DEF EpochInv
<1>8. CASE ~venue.hosted
  <2>1. venue' = venue /\ b = <<>>
    BY <1>3, <1>4, <1>8 DEF Advance
  <2>2. EpochInv'
    BY <1>2, <1>6, <1>7, <1>8, <2>1 DEF EpochInv, Taken
  <2> QED BY <1>6, <1>8, <2>1, <2>2 DEF Rekeys
<1>9. CASE venue.hosted /\ ~CatchUpTooLarge(venue.market, now)
  <2>1. PICK m \in MarketType : m = venue.market
    BY <1>1, <1>9
  <2>2. PICK n : n = Advanced(m, now)
    OBVIOUS
  <2>3. b = Published(m, now) /\ venue' = [venue EXCEPT !.market = n]
    BY <1>3, <1>4, <1>9, <2>1, <2>2 DEF Advance
  <2>4. venue'.market = n
    BY <1>1, <2>3 DEF VenueType
  <2>5. /\ n \in MarketType /\ n.floor = m.floor
        /\ (b = <<>> => n.drawn = m.drawn)
        /\ (b # <<>> => /\ b[1] = m.drawn /\ (\A k \in 1..Len(b) : b[k] = Later(m.drawn, k - 1))
                        /\ n.last = b[Len(b)] /\ n.drawn = Later(n.last, 1))
        /\ b \in Seq(TickType)
    BY <1>1, <2>2, <2>3, AdvancedFacts
  <2>6. m.drawn \in TickType /\ m.drawn.sequence \in Nat /\ Dated(m.drawn) /\ Aged(m.drawn, m.floor)
        /\ Newer(record, m.drawn)
    BY <1>7, <1>9, <2>1, Fields DEF MarketType
  <2>7. Dated(n.drawn) /\ n.drawn.value.epoch = m.drawn.value.epoch
    <3>1. CASE b = <<>>
      BY <2>5, <2>6, <3>1
    <3>2. CASE b # <<>>
      <4>1. PICK l \in Nat : l = Len(b) - 1 /\ Len(b) \in 1..Len(b)
        <5>1. PICK n0 \in Nat : n0 = Len(b) /\ n0 # 0
          BY <2>5, <3>2
        <5>2. n0 - 1 \in Nat /\ n0 \in 1..n0
          BY <5>1
        <5> QED BY <5>1, <5>2
      <4>2. n.last = Later(m.drawn, l)
        BY <2>5, <3>2, <4>1
      <4>3. PICK i \in Nat : i = m.drawn.sequence + l /\ i - m.drawn.sequence = l /\ m.drawn.sequence <= i
        BY <2>6, <4>1
      <4>4. n.last = At(m.drawn, i)
        BY <4>2, <4>3 DEF At
      <4>5. n.last \in TickType /\ Dated(n.last) /\ n.last.value.epoch = m.drawn.value.epoch
        BY <2>6, <4>3, <4>4, StaysDated, AtIs
      <4> QED BY <2>5, <3>2, <4>5, StaysDated
    <3> QED BY <3>1, <3>2
  <2>8. Aged(n.drawn, n.floor)
    BY <2>5, <2>6, <2>7 DEF Aged
  <2>9. Taken' <=> b # <<>>
    BY <1>2, <1>6 DEF Taken
  <2>10. b = <<>> => Newer(record, n.drawn)
    BY <2>5, <2>6
  <2>11. b # <<>> => Dated(b[1]) /\ Newer(record, b[1])
    BY <2>5, <2>6
  <2>12. EpochInv'
    BY <1>2, <1>6, <1>7, <2>4, <2>7, <2>8, <2>9, <2>10, <2>11 DEF EpochInv
  <2> QED BY <1>6, <1>9, <2>1, <2>4, <2>7, <2>12 DEF Rekeys
<1>10. CASE venue.hosted /\ CatchUpTooLarge(venue.market, now)
  <2>1. PICK m \in MarketType : m = venue.market
    BY <1>1, <1>10
  <2>2. b = <<>> /\ Reopen(venue)
    BY <1>3, <1>4, <1>10 DEF Advance
  <2>3. PICK n : n = Primed(Reopened(m, now))
    OBVIOUS
  <2>4. venue'.market = m \/ (m.last # NoTick /\ venue'.market = n)
    BY <1>1, <2>1, <2>2, <2>3 DEF Reopen, VenueType
  <2>5. ~Taken'
    BY <1>6, <2>2 DEF Taken
  <2>6. Dated(m.drawn) /\ Aged(m.drawn, m.floor) /\ Newer(record, m.drawn)
    BY <1>7, <1>10, <2>1
  <2>7. m.last # NoTick => m.last.value.instant <= now
    <3> SUFFICES ASSUME m.last # NoTick PROVE m.last.value.instant <= now
      OBVIOUS
    <3>1. OpenInv(record, saved, quoted, now, m, venue.stalled)
      BY <1>1, <1>2, <1>10, <2>1 DEF HostedInv
    <3>2. Recorded(record, m.last)
      BY <3>1 DEF OpenInv, Near
    <3> QED BY <1>1, <3>2, RecordedFacts
  <2>8. m.last # NoTick => /\ Dated(n.drawn) /\ Aged(n.drawn, n.floor) /\ Newer(record, n.drawn)
                           /\ n.drawn.value.epoch = now * EpochSpan
    BY <1>1, <1>7, <1>10, <2>1, <2>3, <2>6, <2>7, ReopenDated
  <2>9. EpochInv'
    BY <1>2, <1>6, <1>7, <2>4, <2>5, <2>6, <2>8 DEF EpochInv
  <2> QED BY <1>6, <1>10, <2>1, <2>4, <2>8, <2>9 DEF Rekeys
<1> QED BY <1>1, <1>8, <1>9, <1>10

\* The key epochs a publication leaves.
LEMMA PublishEpochs ==
  ASSUME IInv, EpochInv, Publish
  PROVE  EpochInv' /\ Rekeys
<1>1. /\ venue.hosted /\ ~pass.failed /\ venue.market \in MarketType
      /\ Extended(record, record', pass.batch[1], pass.advancedTo)
      /\ Newest(record') = venue.market.last /\ venue.market.last = Last(pass.batch)
      /\ venue.market.last \in TickType
  BY PublishExtends
<1>2. now \in Nat /\ venue \in VenueType /\ BatchInv
  BY Unfolded
<1>3. pc = "record" /\ UNCHANGED <<now, saved>> /\ Taken
  BY DEF Publish, Taken
<1>4. RecordDated(record')
  BY <1>1, <1>3, ExtendedDated DEF EpochInv
<1>5. PICK v : /\ v \in VenueType /\ v.market = venue.market /\ Offer(v)
  <2>1. PICK x : /\ x = [venue EXCEPT !.stalled = FALSE, !.awaiting = FALSE, !.latest = Last(pass.batch)]
                 /\ Offer(x) \/ Offer([x EXCEPT !.stalled = TRUE, !.hosted = FALSE])
    BY DEF Publish
  <2>2. Last(pass.batch) \in MaybeTick
    BY <1>1 DEF MaybeTick
  <2>3. x \in VenueType /\ x.market = venue.market
    BY <1>2, <2>1, <2>2 DEF VenueType
  <2>4. PICK y : y = [x EXCEPT !.stalled = TRUE, !.hosted = FALSE]
    OBVIOUS
  <2>5. y \in VenueType /\ y.market = venue.market
    BY <2>3, <2>4 DEF VenueType
  <2> QED BY <2>1, <2>3, <2>4, <2>5
<1>6. /\ venue'.market = venue.market
      /\ pc' \in {"finish", "save"}
  BY <1>1, <1>3, <1>5, OfferFacts
<1>7. pass'.plan # NoCheckpoint => pass'.plan.drawn = venue.market.drawn
  <2>1. pass'.plan # NoCheckpoint => pass'.plan = CheckpointMarket(venue.market, now)
    BY <1>5 DEF Offer, Planned
  <2> QED BY <2>1 DEF CheckpointMarket
<1>8. ~Taken'
  BY <1>6 DEF Taken
<1>9. Dated(venue.market.drawn) /\ Aged(venue.market.drawn, venue.market.floor)
  BY <1>1 DEF EpochInv
<1>10. Newer(record', venue.market.drawn)
  <2>1. venue.market.drawn = Later(venue.market.last, 1)
    BY <1>2, <1>3 DEF BatchInv, BatchFits
  <2>2. Newest(record').value.epoch = venue.market.drawn.value.epoch /\ Newest(record').value.epoch \in Nat
    BY <1>1, <2>1, NextTick, Fields
  <2> QED BY <2>2 DEF Newer
<1>11. saved' # NoCheckpoint => Dated(saved'.drawn)
  BY <1>3 DEF EpochInv
<1>12. EpochInv'
  BY <1>3, <1>4, <1>6, <1>7, <1>8, <1>9, <1>10, <1>11 DEF EpochInv
<1> QED BY <1>1, <1>6, <1>7, <1>12 DEF Rekeys

\* The key epochs an offer leaves, of a market no longer hosted or as it was.
LEMMA OfferEpochs ==
  ASSUME IInv, EpochInv, pc = "record", UNCHANGED <<now, saved, record>>,
         NEW v \in VenueType, v.market = venue.market, v.hosted => venue.hosted /\ ~Taken, Offer(v)
  PROVE  EpochInv' /\ Rekeys
<1>1. now \in Nat /\ (venue.hosted => venue.market \in MarketType)
  BY Unfolded
<1>2. /\ venue'.market = venue.market /\ venue'.hosted = v.hosted /\ pc' \in {"finish", "save"}
      /\ pass'.plan # NoCheckpoint => v.hosted /\ pass'.plan = CheckpointMarket(venue.market, now)
  <2>1. /\ venue'.market = v.market /\ venue'.hosted = v.hosted /\ pc' \in {"finish", "save"}
    BY <1>1, OfferFacts
  <2>2. pass'.plan # NoCheckpoint => v.hosted /\ pass'.plan = CheckpointMarket(v.market, now)
    BY DEF Offer, Planned
  <2> QED BY <2>1, <2>2
<1>3. pass'.plan # NoCheckpoint => v.hosted /\ pass'.plan.drawn = venue.market.drawn
  BY <1>2 DEF CheckpointMarket
<1>4. ~Taken'
  BY <1>2 DEF Taken
<1>5. EpochInv'
  BY <1>2, <1>3, <1>4 DEF EpochInv
<1> QED BY <1>2, <1>3, <1>5 DEF Rekeys

\* A process that starts, on the market it opens.
LEMMA OpenEpochs ==
  ASSUME Deployed, IInv, EpochInv, UNCHANGED <<saved, record>>, ~Taken', pass'.plan = pass.plan,
         saved # NoCheckpoint => saved.drawn.value.epoch < (now + 1) * EpochSpan,
         venue'.market = Primed(Opening(saved, Newest(record), now, now).market)
  PROVE  EpochInv'
<1>1. /\ now \in Nat /\ saved \in CheckpointType \cup {NoCheckpoint} /\ record \in Seq(TickType)
      /\ RecordInv(record, now) /\ SavedInv(record, saved, quoted, now)
  BY Unfolded
<1>2. PICK m : m = Primed(Opening(saved, Newest(record), now, now).market) /\ venue'.market = m
  OBVIOUS
<1>3. RecordDated(record) /\ (saved # NoCheckpoint => Dated(saved.drawn))
  BY DEF EpochInv
<1>4. Dated(m.drawn) /\ Aged(m.drawn, m.floor) /\ Newer(record, m.drawn)
  BY <1>1, <1>2, <1>3, OpeningDated
<1> QED BY <1>2, <1>3, <1>4 DEF EpochInv

\* The key epochs of a process that is gone.
LEMMA GoneEpochs ==
  ASSUME EpochInv, Exit, UNCHANGED record, saved' # NoCheckpoint => Dated(saved'.drawn)
  PROVE  EpochInv' /\ Rekeys
<1>1. /\ venue'.hosted = FALSE /\ pass'.plan = NoCheckpoint /\ ~Taken'
  BY DEF Exit, NoVenue, NoPass, Taken
<1> QED BY <1>1 DEF EpochInv, Rekeys

\* A step of a process under way, or of what is around it.
LEMMA EpochStep ==
  ASSUME Deployed, IInv, EpochInv, Next, ~Boot, ~Ready
  PROVE  EpochInv' /\ Rekeys
<1>1. /\ now \in Nat /\ venue \in VenueType /\ pass \in PassType
      /\ saved \in CheckpointType \cup {NoCheckpoint}
      /\ venue.hosted => venue.market \in MarketType
      /\ PassInv
  BY Unfolded
<1>2. CASE Publish
  BY <1>2, PublishEpochs
<1>3. CASE Advance
  BY <1>3, AdvanceEpochs
<1>4. CASE RecordRefuses
  <2>1. PICK v : v = [venue EXCEPT !.stalled = TRUE, !.hosted = FALSE]
    OBVIOUS
  <2>2. v \in VenueType /\ v.market = venue.market /\ v.hosted = FALSE
    BY <1>1, <2>1 DEF VenueType
  <2>3. Offer(v) /\ pc = "record" /\ UNCHANGED <<now, saved, record>>
    BY <1>4, <2>1 DEF RecordRefuses
  <2> QED BY <2>2, <2>3, OfferEpochs
<1>5. CASE NothingDue
  <2>1. Offer(venue) /\ pc = "record" /\ UNCHANGED <<now, saved, record>> /\ ~Taken
    BY <1>5 DEF NothingDue, Taken
  <2> QED BY <1>1, <2>1, OfferEpochs
<1>6. CASE Save
  <2>1. saved' # NoCheckpoint => Dated(saved'.drawn)
    BY <1>6 DEF Save, EpochInv
  <2>2. pc = "save" /\ UNCHANGED <<now, record>> /\ ~Taken
    BY <1>6 DEF Save, Taken
  <2>3. CASE pass.stopping
    <3>1. Exit
      BY <1>6, <2>3 DEF Save
    <3> QED BY <2>1, <2>2, <3>1, GoneEpochs
  <2>4. CASE ~pass.stopping
    <3>1. pc' = "finish" /\ venue' = [venue EXCEPT !.checkpointAt = pass.planAt] /\ pass' = pass
      BY <1>6, <2>4 DEF Save
    <3>2. venue'.hosted = venue.hosted /\ venue'.market = venue.market /\ ~Taken'
      BY <1>1, <3>1 DEF VenueType, Taken
    <3>3. EpochInv'
      BY <2>1, <2>2, <3>1, <3>2 DEF EpochInv
    <3> QED BY <3>1, <3>2, <3>3 DEF Rekeys
  <2> QED BY <2>3, <2>4
<1>7. CASE Finish
  <2>1. /\ UNCHANGED <<saved, record>> /\ pc = "finish" /\ pc' = "idle" /\ pass'.plan = NoCheckpoint
        /\ ~Taken /\ ~Taken'
    BY <1>7 DEF Finish, NoPass, Taken
  <2>2. venue'.hosted => /\ venue.hosted /\ venue'.market.drawn = venue.market.drawn
                         /\ venue'.market.floor = venue.market.floor
    <3>1. PICK watched :
            venue' = IF venue.hosted /\ ~pass.failed /\ ~venue.stalled
                     THEN [venue EXCEPT !.market = ObservedUntil(venue.market, watched)] ELSE venue
      BY <1>7 DEF Finish
    <3>2. CASE venue' = venue
      BY <3>2
    <3>3. CASE venue.hosted /\ venue' = [venue EXCEPT !.market = ObservedUntil(venue.market, watched)]
      <4>1. PICK m \in MarketType : m = venue.market
        BY <1>1, <3>3
      <4>2. PICK n : n = [m EXCEPT !.advancedAt = Larger(m.advancedAt, watched)]
        OBVIOUS
      <4>3. n.drawn = m.drawn /\ n.floor = m.floor
        BY <4>2 DEF MarketType
      <4>4. venue'.market = n /\ venue'.hosted = venue.hosted
        BY <1>1, <3>3, <4>1, <4>2 DEF ObservedUntil, VenueType
      <4> QED BY <3>3, <4>1, <4>3, <4>4
    <3> QED BY <3>1, <3>2, <3>3
  <2> QED BY <2>1, <2>2, EpochsStay
<1>8. CASE Stop
  <2>1. /\ UNCHANGED <<saved, record, venue>> /\ pc = "idle" /\ pc' = "save" /\ ~Taken /\ ~Taken'
        /\ pass'.plan = Planned(venue)
    BY <1>8 DEF Stop, NoPass, Taken
  <2>2. pass'.plan # NoCheckpoint => venue.hosted /\ pass'.plan = CheckpointMarket(venue.market, now)
    BY <2>1 DEF Planned
  <2>3. pass'.plan # NoCheckpoint => venue.hosted /\ pass'.plan.drawn = venue.market.drawn
    BY <2>2 DEF CheckpointMarket
  <2>4. EpochInv'
    BY <2>1, <2>3 DEF EpochInv
  <2> QED BY <2>1, <2>3, <2>4 DEF Rekeys
<1>9. CASE UNCHANGED <<saved, record, pc, venue, pass>>
  BY <1>9 DEF EpochInv, Rekeys, Taken
<1>10. CASE Crash
  <2>1. Exit /\ UNCHANGED <<saved, record>>
    BY <1>10 DEF Crash
  <2>2. saved' # NoCheckpoint => Dated(saved'.drawn)
    BY <2>1 DEF EpochInv
  <2> QED BY <2>1, <2>2, GoneEpochs
<1>11. Subscribe \/ Disconnect \/ Tick => UNCHANGED <<saved, record, pc, venue, pass>>
  BY DEF Subscribe, Disconnect, Tick
<1> QED BY <1>2, <1>3, <1>4, <1>5, <1>6, <1>7, <1>8, <1>9, <1>10, <1>11 DEF Next

\* Every step keeps the key epochs in order.
LEMMA EpochsKept ==
  ASSUME Deployed, IInv, EpochInv, ClockLeads, [Next]_vars
  PROVE  EpochInv'
<1>1. CASE Boot
  <2>1. /\ UNCHANGED <<saved, record, pass>> /\ pc = "down" /\ boots < MaxBoots
    BY <1>1 DEF Boot
  <2>2. CASE UNCHANGED <<pc, venue, feed>>
    BY <2>1, <2>2 DEF EpochInv, Taken
  <2>3. CASE ~UNCHANGED <<pc, venue, feed>>
    <3>1. PICK m : m = Primed(Opening(saved, Newest(record), now, now).market)
      OBVIOUS
    <3>2. PICK seamed : pc' = "booting" /\ venue' = [NoVenue EXCEPT !.market = m, !.hosted = TRUE,
                                              !.seamed = seamed, !.latest = Newest(record)]
      BY <1>1, <2>3, <3>1 DEF Boot
    <3>3. venue'.market = m /\ ~Taken'
      BY <3>2 DEF NoVenue, Taken
    <3>4. saved # NoCheckpoint => saved.drawn.value.epoch < (now + 1) * EpochSpan
      BY <2>1 DEF ClockLeads
    <3> QED BY <2>1, <3>1, <3>3, <3>4, OpenEpochs
  <2> QED BY <2>2, <2>3
<1>2. CASE Ready
  <2>1. UNCHANGED <<saved, record, pass>> /\ pc = "booting" /\ pc' = "idle" /\ ~Taken /\ ~Taken'
    BY <1>2 DEF Ready, Taken
  <2>2. PICK m : m = Primed(Opening(saved, Newest(record), now, now).market)
    OBVIOUS
  <2>3. PICK n : /\ n = m \/ n = venue.market
                 /\ venue' = [venue EXCEPT !.market = n, !.awaiting = venue.seamed, !.checkpointAt = now]
    BY <1>2, <2>2 DEF Ready
  <2>4. venue'.market = n /\ venue'.hosted = venue.hosted
    BY <2>3, Unfolded DEF VenueType
  <2>5. CASE n = m
    <3>1. saved # NoCheckpoint => saved.drawn.value.epoch < (now + 1) * EpochSpan
      BY <2>1 DEF ClockLeads
    <3> QED BY <2>1, <2>2, <2>4, <2>5, <3>1, OpenEpochs
  <2>6. CASE n = venue.market
    BY <2>1, <2>4, <2>6 DEF EpochInv
  <2> QED BY <2>3, <2>5, <2>6
<1>3. CASE Next /\ ~Boot /\ ~Ready
  BY <1>3, EpochStep
<1>4. CASE UNCHANGED vars
  BY <1>4 DEF vars, EpochInv, Taken
<1> QED BY <1>1, <1>2, <1>3, <1>4

-----------------------------------------------------------------------------
(* The starts of the process *)

\* A key epoch no further past an instant's own than there were starts.
Early(d, t, n) == d.value.epoch <= t * EpochSpan + n

StartInv ==
  /\ boots \in Nat /\ boots <= MaxBoots
  /\ saved # NoCheckpoint =>
       /\ Early(saved.drawn, now, boots)
       /\ pc = "booting" => saved.drawn.value.epoch < now * EpochSpan + boots
  /\ pass.plan # NoCheckpoint => Early(pass.plan.drawn, now, boots)
  /\ venue.hosted => Early(venue.market.drawn, now, boots)

\* What fewer starts than an instant has key epochs amount to.
LEMMA StartsLead ==
  ASSUME MaxBoots <= EpochSpan, IInv, StartInv
  PROVE  ClockLeads
<1> SUFFICES ASSUME (pc = "down" /\ boots < MaxBoots) \/ pc = "booting", saved # NoCheckpoint
             PROVE  saved.drawn.value.epoch < (now + 1) * EpochSpan
  BY DEF ClockLeads
<1>1. saved.drawn.value.epoch \in Nat
  BY Unfolded, CheckpointFacts, Fields
<1>2. PICK x \in Nat, g \in Nat : x = now * EpochSpan /\ g = EpochSpan /\ (now + 1) * EpochSpan = x + g
  BY Unfolded, Spans, Constants
<1>3. MaxBoots \in Nat
  BY VenueAssumption
<1>4. saved.drawn.value.epoch <= x + boots /\ (pc = "booting" => saved.drawn.value.epoch < x + boots)
  BY <1>2 DEF StartInv, Early
<1> QED BY <1>1, <1>2, <1>3, <1>4 DEF StartInv

\* The key epoch a market is opened on.
LEMMA OpeningEarly ==
  ASSUME Deployed, IInv, NEW n \in Nat,
         saved # NoCheckpoint => saved.drawn.value.epoch < now * EpochSpan + n,
         NEW m, m = Primed(Opening(saved, Newest(record), now, now).market)
  PROVE  Early(m.drawn, now, n)
<1>1. /\ now \in Nat /\ saved \in CheckpointType \cup {NoCheckpoint} /\ record \in Seq(TickType)
      /\ RecordInv(record, now) /\ SavedInv(record, saved, quoted, now)
  BY Unfolded
<1>2. PICK x \in Nat : x = now * EpochSpan
  BY <1>1, Spans
<1>3. saved # NoCheckpoint => saved.drawn.value.epoch \in Nat
  BY <1>1, CheckpointFacts, Fields
<1>4. CASE Resumable(saved, now)
  <2>1. m.drawn = saved.drawn /\ saved # NoCheckpoint
    BY <1>1, <1>4, OpeningIs DEF Resumable
  <2> QED BY <1>2, <1>3, <2>1 DEF Early
<1>5. CASE ~Resumable(saved, now)
  <2>1. PICK s \in Nat, epoch \in Nat, first \in Nat, last \in MaybeTick :
          /\ Awaits(m, s, now, epoch, first, last)
          /\ saved = NoCheckpoint => epoch = now * EpochSpan
          /\ saved # NoCheckpoint => epoch = Larger(saved.drawn.value.epoch + 1, now * EpochSpan)
    BY <1>1, <1>5, OpeningIs
  <2>2. epoch <= x + n
    <3>1. CASE saved = NoCheckpoint
      BY <1>2, <2>1, <3>1
    <3>2. CASE saved # NoCheckpoint
      <4>1. PICK e \in Nat : e = saved.drawn.value.epoch /\ e < x + n
        BY <1>2, <1>3, <3>2
      <4>2. epoch = IF e + 1 >= x THEN e + 1 ELSE x
        BY <1>2, <2>1, <3>2, <4>1 DEF Larger
      <4> QED BY <4>1, <4>2
    <3> QED BY <3>1, <3>2
  <2>3. m.drawn.value.epoch = epoch
    BY <2>1 DEF Awaits
  <2> QED BY <1>2, <2>2, <2>3 DEF Early
<1> QED BY <1>4, <1>5

\* Time and starts only take a key epoch further from the limit.
LEMMA EarlyStays ==
  ASSUME NEW d, d.value.epoch \in Nat, NEW t \in Nat, NEW u \in Nat, t <= u, NEW n \in Nat, NEW k \in Nat,
         n <= k, Early(d, t, n)
  PROVE  Early(d, u, k)
<1>1. PICK x \in Nat, y \in Nat : x = t * EpochSpan /\ y = u * EpochSpan /\ x <= y
  BY Spans
<1>2. d.value.epoch <= x + n
  BY <1>1 DEF Early
<1>3. d.value.epoch <= y + k
  BY <1>1, <1>2
<1> QED BY <1>1, <1>3 DEF Early

\* Every step keeps the key epochs near their time.
LEMMA StartStep ==
  ASSUME Deployed, IInv, EpochInv, StartInv, [Next]_vars
  PROVE  StartInv'
<1>1. /\ now \in Nat /\ venue \in VenueType /\ pass \in PassType
      /\ saved \in CheckpointType \cup {NoCheckpoint}
      /\ venue.hosted => venue.market \in MarketType
  BY Unfolded
<1>2. PICK n \in Nat : n = boots /\ n <= MaxBoots
  BY DEF StartInv
<1>3. /\ saved # NoCheckpoint => saved.drawn.value.epoch \in Nat /\ Early(saved.drawn, now, n)
      /\ pass.plan # NoCheckpoint => pass.plan.drawn.value.epoch \in Nat /\ Early(pass.plan.drawn, now, n)
      /\ venue.hosted => venue.market.drawn.value.epoch \in Nat /\ Early(venue.market.drawn, now, n)
  <2>1. pass.plan \in CheckpointType \cup {NoCheckpoint}
    BY <1>1 DEF PassType
  <2>2. venue.hosted => venue.market.drawn \in TickType
    BY <1>1 DEF MarketType
  <2> QED BY <1>1, <1>2, <2>1, <2>2, CheckpointFacts, Fields DEF StartInv
<1>4. CASE Boot
  <2>1. /\ UNCHANGED <<now, saved, record, pass>> /\ pc = "down" /\ boots < MaxBoots /\ boots' = boots + 1
    BY <1>4 DEF Boot
  <2>2. PICK k \in Nat : k = boots' /\ k = n + 1 /\ k <= MaxBoots
    <3>1. MaxBoots \in Nat
      BY VenueAssumption
    <3> QED BY <1>2, <2>1, <3>1
  <2>3. /\ saved # NoCheckpoint => Early(saved.drawn, now, k) /\ saved.drawn.value.epoch < now * EpochSpan + k
        /\ pass.plan # NoCheckpoint => Early(pass.plan.drawn, now, k)
        /\ venue.hosted => Early(venue.market.drawn, now, k)
    <3>1. PICK x \in Nat : x = now * EpochSpan
      BY <1>1, Spans
    <3>2. saved # NoCheckpoint => saved.drawn.value.epoch < x + k
      BY <1>3, <2>2, <3>1 DEF Early
    <3> QED BY <1>1, <1>3, <2>2, <3>1, <3>2, EarlyStays
  <2>4. venue'.hosted => Early(venue'.market.drawn, now, k)
    <3>1. CASE UNCHANGED <<pc, venue, feed>>
      BY <2>3, <3>1
    <3>2. CASE ~UNCHANGED <<pc, venue, feed>>
      <4>1. PICK m : m = Primed(Opening(saved, Newest(record), now, now).market)
        OBVIOUS
      <4>2. PICK seamed : venue' = [NoVenue EXCEPT !.market = m, !.hosted = TRUE,
                                       !.seamed = seamed, !.latest = Newest(record)]
        BY <1>4, <3>2, <4>1 DEF Boot
      <4>3. venue'.market = m
        BY <4>2 DEF NoVenue
      <4>4. Early(m.drawn, now, k)
        BY <2>3, <4>1, OpeningEarly
      <4> QED BY <4>3, <4>4
    <3> QED BY <3>1, <3>2
  <2> QED BY <2>1, <2>2, <2>3, <2>4 DEF StartInv
<1>5. CASE Ready
  <2>1. UNCHANGED <<now, saved, record, pass, boots>> /\ pc = "booting" /\ pc' = "idle"
    BY <1>5 DEF Ready
  <2>2. PICK m : m = Primed(Opening(saved, Newest(record), now, now).market)
    OBVIOUS
  <2>3. PICK o : /\ o = m \/ o = venue.market
                 /\ venue' = [venue EXCEPT !.market = o, !.awaiting = venue.seamed, !.checkpointAt = now]
    BY <1>5, <2>2 DEF Ready
  <2>4. venue'.market = o /\ venue'.hosted = venue.hosted
    BY <1>1, <2>3 DEF VenueType
  <2>5. Early(m.drawn, now, n)
    <3>1. saved # NoCheckpoint => saved.drawn.value.epoch < now * EpochSpan + n
      BY <1>2, <2>1 DEF StartInv
    <3> QED BY <2>2, <3>1, OpeningEarly
  <2> QED BY <1>2, <1>3, <2>1, <2>3, <2>4, <2>5 DEF StartInv
<1>6. CASE Next /\ ~Boot /\ ~Ready
  <2>1. PICK u \in Nat : u = now' /\ now <= u
    <3>1. now' = now \/ now' = now + 1
      BY <1>6 DEF Next, Advance, Publish, RecordRefuses, NothingDue, Save, Finish, Stop, Subscribe, Disconnect, Crash, Tick
    <3> QED BY <1>1, <3>1
  <2>2. boots' = n /\ (pc' = "booting" => pc = "booting" /\ saved' = saved)
    BY <1>2, <1>6 DEF Next, Advance, Publish, RecordRefuses, NothingDue, Save, Finish, Stop, Subscribe, Disconnect,
         Crash, Tick, Exit, Offer
  <2>3. saved' = saved \/ (pass.plan # NoCheckpoint /\ saved' = pass.plan)
    BY <1>6 DEF Next, Advance, Publish, RecordRefuses, NothingDue, Save, Finish, Stop, Subscribe, Disconnect, Crash, Tick
  <2>4. Rekeys
    BY <1>6, EpochStep
  <2>5. /\ saved # NoCheckpoint => Early(saved.drawn, u, n)
        /\ pass.plan # NoCheckpoint => Early(pass.plan.drawn, u, n)
        /\ venue.hosted => Early(venue.market.drawn, u, n)
    BY <1>1, <1>3, <2>1, EarlyStays
  <2>6. saved # NoCheckpoint /\ pc = "booting" => saved.drawn.value.epoch < u * EpochSpan + n
    <3>1. PICK x \in Nat, y \in Nat : x = now * EpochSpan /\ y = u * EpochSpan /\ x <= y
      BY <1>1, <2>1, Spans
    <3>2. saved # NoCheckpoint /\ pc = "booting" => saved.drawn.value.epoch < x + n
      BY <1>2, <3>1 DEF StartInv
    <3>3. saved # NoCheckpoint /\ pc = "booting" => saved.drawn.value.epoch < y + n
      BY <1>3, <3>1, <3>2
    <3> QED BY <3>1, <3>3
  <2>7. venue'.hosted => Early(venue'.market.drawn, u, n)
    <3> SUFFICES ASSUME venue'.hosted PROVE Early(venue'.market.drawn, u, n)
      OBVIOUS
    <3>1. PICK x \in Nat, y \in Nat : x = now * EpochSpan /\ y = u * EpochSpan /\ x <= y
      BY <1>1, <2>1, Spans
    <3>2. CASE venue'.market.drawn.value.epoch = venue.market.drawn.value.epoch
      BY <2>4, <2>5, <3>2 DEF Rekeys, Early
    <3>3. CASE venue'.market.drawn.value.epoch = x
      <4>1. x <= y + n
        BY <3>1
      <4> QED BY <3>1, <3>3, <4>1 DEF Early
    <3> QED BY <2>4, <3>1, <3>2, <3>3 DEF Rekeys
  <2>8. pass'.plan # NoCheckpoint => Early(pass'.plan.drawn, u, n)
    BY <2>4, <2>5 DEF Rekeys
  <2>9. saved' # NoCheckpoint => Early(saved'.drawn, u, n)
    BY <2>3, <2>5
  <2>10. saved' # NoCheckpoint /\ pc' = "booting" => saved'.drawn.value.epoch < u * EpochSpan + n
    BY <2>2, <2>6
  <2> QED BY <1>2, <2>1, <2>2, <2>7, <2>8, <2>9, <2>10 DEF StartInv
<1>7. CASE UNCHANGED vars
  BY <1>7 DEF vars, StartInv, Early
<1> QED BY <1>4, <1>5, <1>6, <1>7

\* A market that was never hosted is on no key epoch.
LEMMA InitEpochs == Init => EpochInv /\ StartInv
<1>1. MaxBoots \in Nat
  BY VenueAssumption
<1> QED BY <1>1 DEF Init, EpochInv, StartInv, RecordDated, NoVenue, NoPass, Taken

\* What is recorded breaks only at seams.
LEMMA BreaksShow ==
  ASSUME IInv, EpochInv
  PROVE  BreaksAreSeams
<1>1. record \in Seq(TickType) /\ RecordInv(record, now) /\ RecordDated(record)
  BY Unfolded DEF EpochInv
<1>2. PICK L \in Nat : L = Len(record)
  BY <1>1
<1> SUFFICES ASSUME NEW k \in 1..(L - 1)
             PROVE  /\ record[k].sequence < record[k + 1].sequence
                    /\ record[k].value.instant <= record[k + 1].value.instant
                    /\ record[k].value.epoch <= record[k + 1].value.epoch
                    /\ (record[k + 1].sequence = record[k].sequence + 1 => record[k + 1] = Later(record[k], 1))
  BY <1>2 DEF BreaksAreSeams
<1>3. k \in 1..L /\ k + 1 \in 1..L /\ k < k + 1
  BY <1>2
<1>4. record[k] \in TickType /\ record[k + 1] \in TickType
  BY <1>1, <1>2, <1>3
<1>5. record[k].value.instant \in Nat /\ record[k + 1].value.instant \in Nat
  BY <1>4, Fields
<1>6. /\ record[k].sequence < record[k + 1].sequence /\ record[k].value.instant < record[k + 1].value.instant
      /\ record[k].value.epoch <= record[k + 1].value.epoch
  BY <1>1, <1>2, <1>3 DEF RecordInv, RecordDated
<1>7. record[k + 1].sequence = record[k].sequence + 1 => record[k + 1] = Later(record[k], 1)
  BY <1>1, <1>2 DEF RecordInv
<1> QED BY <1>5, <1>6, <1>7

\* Where the record of an asset jumps in number it may change streams, and
\* nowhere else, as long as no process starts on a key epoch its clock has not
\* reached (tickRecord.ts, startKeyEpoch of genesis.ts).
THEOREM SeamsWhereTheClockLeads ==
  ASSUME Deployed PROVE Spec /\ []ClockLeads => []BreaksAreSeams
<1>1. Init => EpochInv
  BY InitEpochs
<1>2. IInv /\ EpochInv /\ ClockLeads /\ [Next]_vars => EpochInv'
  BY EpochsKept
<1>3. IInv /\ EpochInv => BreaksAreSeams
  BY BreaksShow
<1> QED BY <1>1, <1>2, <1>3, Inductive, PTL DEF Spec

\* The same of every run of fewer starts than one instant has key epochs.
THEOREM BreaksAreAlwaysSeams ==
  ASSUME Deployed, MaxBoots <= EpochSpan PROVE Spec => []BreaksAreSeams
<1>1. Init => StartInv
  BY InitEpochs
<1>2. Init => EpochInv
  BY InitEpochs
<1>3. IInv /\ EpochInv /\ StartInv /\ [Next]_vars => StartInv'
  BY StartStep
<1>4. IInv /\ StartInv => ClockLeads
  BY StartsLead
<1>5. IInv /\ EpochInv /\ ClockLeads /\ [Next]_vars => EpochInv'
  BY EpochsKept
<1>6. IInv /\ EpochInv => BreaksAreSeams
  BY BreaksShow
<1> QED BY <1>1, <1>2, <1>3, <1>4, <1>5, <1>6, Inductive, PTL DEF Spec

-----------------------------------------------------------------------------
(* What a host that keeps up is promised: its record goes on where the      *)
(* checkpoint says it does                                                  *)

\* A tick, and one further on in its stream.
OnStream(s, d) == s.sequence <= d.sequence /\ d = At(s, d.sequence)

\* A record that holds all of a stream from a tick on, up to its head; and is not
\* far past that tick.
Whole(rec, s) == \A i \in Nat : s.sequence <= i /\ i <= HeadOf(rec) => Recorded(rec, At(s, i))
Running(rec, s) == Whole(rec, s) /\ Newest(rec).value.instant <= s.value.instant + Slack

\* A stream from a tick, and from the next.
LEMMA OnStreamFacts ==
  ASSUME NEW d \in TickType
  PROVE  /\ OnStream(d, d) /\ OnStream(d, Later(d, 1))
         /\ \A k \in Nat : OnStream(d, Later(d, k))
<1>1. d.sequence \in Nat /\ At(d, d.sequence) = d
  BY AtSelf, Fields
<1>2. ASSUME NEW k \in Nat PROVE OnStream(d, Later(d, k))
  <2>1. Later(d, k).sequence = d.sequence + k
    BY LaterFacts
  <2>2. PICK i \in Nat : i = d.sequence + k /\ i - d.sequence = k /\ d.sequence <= i
    BY <1>1
  <2>3. At(d, i) = Later(d, k)
    BY <2>2 DEF At
  <2> QED BY <2>1, <2>2, <2>3 DEF OnStream
<1>3. 1 \in Nat
  OBVIOUS
<1> QED BY <1>1, <1>2, <1>3 DEF OnStream

\* Further on from further on.
LEMMA OnStreamOn ==
  ASSUME NEW s \in TickType, NEW d \in TickType, NEW e \in TickType, OnStream(s, d), OnStream(d, e)
  PROVE  OnStream(s, e) /\ \A i \in Nat : At(d, i) = At(s, i)
<1>1. PICK i \in Nat : i = d.sequence /\ s.sequence <= i /\ d = At(s, i)
  BY Fields DEF OnStream
<1>2. PICK j \in Nat : j = e.sequence /\ i <= j /\ e = At(d, j)
  BY <1>1, Fields DEF OnStream
<1>3. \A k \in Nat : At(d, k) = At(s, k)
  BY <1>1, AtAt
<1>4. s.sequence \in Nat
  BY Fields
<1> QED BY <1>1, <1>2, <1>3, <1>4 DEF OnStream

\* A record that holds a whole stream is one it goes on from.
LEMMA WholeRuns ==
  ASSUME NEW rec \in Seq(TickType), NEW t, RecordInv(rec, t), NEW s \in TickType, Whole(rec, s)
  PROVE  /\ RunFrom(rec, s)
         /\ \A d \in TickType : OnStream(s, d) => Whole(rec, d)
<1>1. s.sequence \in Nat /\ HeadOf(rec) \in Nat
  BY Fields, HeadFacts
<1>2. ASSUME NEW k \in 1..Len(rec), rec[k].sequence > s.sequence PROVE rec[k] = At(s, rec[k].sequence)
  <2>1. PICK i \in Nat : i = rec[k].sequence /\ s.sequence <= i /\ i <= HeadOf(rec)
    <3>1. rec[k] \in TickType /\ rec[k].sequence \in Nat
      BY HeadFacts, Fields
    <3>2. rec[k].sequence <= HeadOf(rec)
      BY NewestIsLast
    <3> QED BY <1>1, <1>2, <3>1, <3>2
  <2>2. Recorded(rec, At(s, i)) /\ Recorded(rec, rec[k])
    BY <2>1 DEF Whole, Recorded
  <2>3. At(s, i).sequence = rec[k].sequence
    BY <2>1, AtIs
  <2>4. At(s, i) = rec[k]
    BY <2>2, <2>3, OneOfANumber
  <2> QED BY <2>1, <2>4
<1>3. ASSUME NEW d \in TickType, OnStream(s, d) PROVE Whole(rec, d)
  <2> SUFFICES ASSUME NEW i \in Nat, d.sequence <= i, i <= HeadOf(rec) PROVE Recorded(rec, At(d, i))
    BY DEF Whole
  <2>1. s.sequence <= d.sequence /\ d.sequence \in Nat
    BY <1>3, Fields DEF OnStream
  <2>2. s.sequence <= i
    BY <1>1, <2>1
  <2>3. At(d, i) = At(s, i)
    BY <1>3, OnStreamFacts, OnStreamOn
  <2> QED BY <2>2, <2>3 DEF Whole
<1> QED BY <1>2, <1>3 DEF RunFrom

\* A record that runs from a tick is less than a lease past it.
LEMMA RunningIsShort ==
  ASSUME Deployed, NEW rec \in Seq(TickType), NEW t, RecordInv(rec, t), NEW s, Recorded(rec, s), Running(rec, s)
  PROVE  /\ s \in TickType /\ s.sequence <= HeadOf(rec)
         /\ HeadOf(rec) <= s.sequence + SequenceLease /\ HeadOf(rec) < s.sequence + SequenceLease
         /\ RunFrom(rec, s) /\ Replays(rec, s)
<1>1. s \in TickType /\ s.sequence <= HeadOf(rec) /\ rec # <<>> /\ Whole(rec, s)
  BY RecordedFacts DEF Running
<1>2. RunFrom(rec, s)
  BY <1>1, WholeRuns
<1>3. Replays(rec, s)
  BY <1>2 DEF Replays
<1>4. PICK h \in Nat, q \in Nat, k \in Nat : h = HeadOf(rec) /\ q = s.sequence /\ k = h - q /\ q <= h
  BY <1>1, HeadFacts, Fields
<1>5. Newest(rec) = At(s, h)
  BY <1>3, <1>4, NewestOfRun
<1>6. At(s, h).value.instant = s.value.instant + k * Gap
  BY <1>1, <1>4, AtInstant
<1>7. k * Gap <= Slack
  <2>1. PICK x \in Nat : x = s.value.instant
    BY <1>1, Fields
  <2>2. PICK g \in Nat : g = k * Gap
    BY Constants
  <2>3. PICK w \in Nat : w = Slack
    BY Constants
  <2>4. Newest(rec).value.instant <= x + w /\ Newest(rec).value.instant = x + g
    BY <1>5, <1>6, <2>1, <2>2, <2>3 DEF Running
  <2>5. g <= w
    BY <2>4
  <2> QED BY <2>2, <2>3, <2>5
<1>8. k < SequenceLease
  BY <1>7, SlackIsShort
<1>9. SequenceLease \in Nat
  BY Constants
<1> QED BY <1>1, <1>2, <1>3, <1>4, <1>8, <1>9

\* What a market publishes leaves the record whole from its first tick.
LEMMA PublishWhole ==
  ASSUME IInv, Publish
  PROVE  Whole(record', pass.batch[1])
<1>1. /\ Extended(record, record', pass.batch[1], pass.advancedTo)
      /\ Newest(record') = venue.market.last /\ venue.market.last = Last(pass.batch)
  BY PublishExtends
<1>2. /\ record \in Seq(TickType) /\ pass.batch \in Seq(TickType) /\ BatchInv
  BY Unfolded, VenueParts
<1>3. /\ pc = "record" /\ pass.batch # <<>> /\ Accepts(pass.batch)
      /\ record' = record \o Fresh(pass.batch)
  BY DEF Publish
<1>4. PICK b \in Seq(TickType), n \in Nat \ {0} : b = pass.batch /\ n = Len(b)
  BY <1>2, <1>3
<1>5. PICK d \in TickType : d = b[1] /\ \A k \in 1..n : b[k] = Later(d, k - 1)
  <2>1. Taken
    BY <1>3 DEF Taken
  <2>2. BatchFits(record, saved, quoted, now, venue.market, venue.stalled, venue.checkpointAt, b, pass.advancedTo)
    BY <1>2, <1>4, <2>1 DEF BatchInv
  <2>3. b[1] \in TickType
    BY <1>4
  <2> QED BY <1>4, <2>2, <2>3 DEF BatchFits
<1>6. record' \in Seq(TickType) /\ record' # <<>> /\ HeadOf(record) \in Nat
  BY <1>1, <1>2, HeadFacts DEF Extended
<1>7. PICK q \in Nat : q = d.sequence
  BY Fields
<1>8. HeadOf(record') = q + (n - 1)
  <2>1. Last(b) = b[n] /\ n \in 1..n
    BY <1>4 DEF Last
  <2>2. b[n] = Later(d, n - 1)
    BY <1>5, <2>1
  <2>3. PICK p \in Nat : p = n - 1
    OBVIOUS
  <2>6. b[n] = Later(d, p)
    BY <2>2, <2>3
  <2>7. Later(d, p).sequence = d.sequence + p
    BY LaterFacts
  <2>4. b[n].sequence = q + p
    BY <1>7, <2>6, <2>7
  <2>5. HeadOf(record') = Newest(record').sequence
    BY <1>6, HeadFacts
  <2> QED BY <1>1, <1>4, <2>1, <2>3, <2>4, <2>5
<1>9. ASSUME NEW k \in 1..n PROVE Recorded(record', b[k])
  <2>1. Batch(b, n, d)
    <3>1. ASSUME NEW j \in 1..n PROVE b[j] = At(d, d.sequence + (j - 1))
      <4>1. (q + (j - 1)) - q = j - 1
        OBVIOUS
      <4> QED BY <1>5, <1>7, <4>1 DEF At
    <3> QED BY <1>4, <3>1 DEF Batch
  <2>2. PICK c \in 0..n : /\ \A j \in 1..n : j <= c <=> b[j].sequence <= HeadOf(record)
                          /\ Fresh(b) = SubSeq(b, c + 1, n)
    <3>1. \E i \in 0..n : \A j \in 1..n : j <= i <=> b[j].sequence <= HeadOf(record)
      BY <1>6, <2>1, KnownPart
    <3>2. DOMAIN b = 1..n /\ Len(b) = n
      BY <1>4
    <3>3. PICK c : c = CHOOSE i \in 0..n : \A j \in 1..n : j <= i <=> b[j].sequence <= HeadOf(record)
      OBVIOUS
    <3>4. c \in 0..n /\ \A j \in 1..n : j <= c <=> b[j].sequence <= HeadOf(record)
      BY <3>1, <3>3
    <3>5. Fresh(b) = SubSeq(b, c + 1, n)
      BY <3>2, <3>3 DEF Fresh
    <3> QED BY <3>4, <3>5
  <2>3. CASE k <= c
    <3>1. b[k].sequence <= HeadOf(record)
      BY <2>2, <2>3
    <3>a. b[k] \in TickType
      BY <1>4
    <3>b. b[k].sequence \in Nat
      BY <3>a, Fields
    <3>2. b[k].sequence > HeadOf(record) \/ Recorded(record, b[k])
      BY <1>2, <1>3, <1>4 DEF Accepts, Recorded, Range
    <3>3. Recorded(record, b[k])
      BY <1>6, <3>1, <3>b, <3>2
    <3> QED BY <1>1, <3>3, ExtendedFacts
  <2>4. CASE ~(k <= c)
    <3>1. Appended(record, b, n, c, record')
      BY <1>2, <1>3, <1>4, <2>1, <2>2, AppendIs
    <3>2. PICK L \in Nat : L = Len(record)
      BY <1>2
    <3>3. PICK j \in Nat : j = L + (k - c) /\ j \in (L + 1)..(L + (n - c)) /\ c + (j - L) = k
      <4>1. PICK p \in Nat : p = k - c /\ p >= 1 /\ p <= n - c /\ c + p = k
        BY <2>4
      <4>2. L + p \in Nat /\ L + p \in (L + 1)..(L + (n - c)) /\ c + ((L + p) - L) = k
        BY <4>1
      <4> QED BY <4>1, <4>2
    <3>4. PICK new : new = record'
      OBVIOUS
    <3>5. Len(new) = L + (n - c) /\ \A x \in (L + 1)..(L + (n - c)) : new[x] = b[c + (x - L)]
      BY <3>1, <3>2, <3>4 DEF Appended
    <3>6. new[j] = b[k]
      BY <3>3, <3>5
    <3>7. j \in 1..Len(new)
      BY <3>3, <3>5
    <3>8. Recorded(new, b[k])
      BY <3>6, <3>7 DEF Recorded
    <3> QED BY <3>4, <3>8
  <2> QED BY <2>3, <2>4
<1> SUFFICES ASSUME NEW i \in Nat, q <= i, i <= HeadOf(record') PROVE Recorded(record', At(d, i))
  BY <1>4, <1>5, <1>7 DEF Whole
<1>10. PICK k \in 1..n : k = (i - q) + 1 /\ k - 1 = i - q
  BY <1>8
<1>11. At(d, i) = b[k]
  BY <1>5, <1>7, <1>10 DEF At
<1> QED BY <1>9, <1>11

\* What was whole stays so, when what is published does not jump.
LEMMA WholeGrows ==
  ASSUME NEW rec, NEW new, NEW d, NEW T, Extended(rec, new, d, T), ~Jumps(rec, d), Whole(new, d),
         NEW s \in TickType, Whole(rec, s), OnStream(s, d)
  PROVE  Whole(new, s)
<1>1. /\ d \in TickType /\ d.sequence \in Nat /\ s.sequence \in Nat /\ HeadOf(rec) \in Nat /\ HeadOf(new) \in Nat
      /\ d.sequence <= HeadOf(rec) + 1
  <2>1. d \in TickType
    BY DEF Extended
  <2>2. d.sequence \in Nat /\ s.sequence \in Nat
    BY <2>1, Fields
  <2>3. HeadOf(rec) \in Nat /\ HeadOf(new) \in Nat
    BY ExtendedFacts
  <2>4. d.sequence <= HeadOf(rec) + 1
    BY <2>2, <2>3 DEF Jumps
  <2> QED BY <2>1, <2>2, <2>3, <2>4
<1> SUFFICES ASSUME NEW i \in Nat, s.sequence <= i, i <= HeadOf(new) PROVE Recorded(new, At(s, i))
  BY DEF Whole
<1>2. CASE i <= HeadOf(rec)
  <2>1. Recorded(rec, At(s, i))
    BY <1>2 DEF Whole
  <2> QED BY <2>1, ExtendedFacts
<1>3. CASE HeadOf(rec) < i
  <2>1. d.sequence <= i
    BY <1>1, <1>3
  <2>2. Recorded(new, At(d, i))
    BY <2>1 DEF Whole
  <2>3. At(d, i) = At(s, i)
    BY <1>1, OnStreamFacts, OnStreamOn
  <2> QED BY <2>2, <2>3
<1> QED BY <1>1, <1>2, <1>3

-----------------------------------------------------------------------------
(* The markets a process opens and reopens, once more *)

\* How a market is opened: from the checkpoint, or past a seam.
LEMMA OpeningFrom ==
  ASSUME Deployed, NEW rec \in Seq(TickType), NEW t \in Nat, RecordInv(rec, t),
         NEW price \in PriceType, QuoteInv(rec, price, t),
         NEW cp \in CheckpointType \cup {NoCheckpoint}, SavedInv(rec, cp, price, t),
         NEW m, m = Primed(Opening(cp, Newest(rec), t, t).market)
  PROVE  /\ m \in MarketType
         /\ Resumable(cp, t) => /\ m.drawn = cp.drawn /\ m.last = cp.last
                                /\ m.floor = cp.drawn.value.instant
                                /\ m.last = NoTick \/ Continues(m.drawn, m.last)
         /\ ~Resumable(cp, t) => /\ m.floor = t /\ ~Continues(m.drawn, m.last)
                                 /\ m.last # NoTick => /\ Jumps(rec, m.drawn)
                                                       /\ HeadOf(rec) + SequenceLease < m.drawn.sequence
<1>1. m \in MarketType /\ SameLast(cp, m)
  BY OpeningFits
<1>2. CASE Resumable(cp, t)
  <2>1. m.drawn = cp.drawn /\ m.floor = cp.drawn.value.instant
    BY <1>2, OpeningIs
  <2>2. cp \in CheckpointType /\ UsableRecord(cp) /\ cp # NoCheckpoint
    BY <1>2 DEF Resumable
  <2>3. cp.last = NoTick \/ Continues(cp.drawn, cp.last)
    BY <2>2, UsableFacts
  <2> QED BY <1>1, <1>2, <2>1, <2>2, <2>3 DEF SameLast
<1>3. CASE ~Resumable(cp, t)
  <2>1. PICK s \in Nat, epoch \in Nat, first \in Nat, last \in MaybeTick :
          Awaits(m, s, t, epoch, first, last) /\ Apart(rec, s, last)
    BY <1>3, OpeningIs
  <2>2. m.drawn.sequence = s + 1 /\ m.floor = t /\ m.last = last
    BY <2>1 DEF Awaits
  <2>3. last # NoTick => /\ Jumps(rec, m.drawn) /\ ~Continues(m.drawn, m.last)
                         /\ HeadOf(rec) + SequenceLease < m.drawn.sequence
    <3> SUFFICES ASSUME last # NoTick
                 PROVE  /\ Jumps(rec, m.drawn) /\ ~Continues(m.drawn, m.last)
                        /\ HeadOf(rec) + SequenceLease < m.drawn.sequence
      OBVIOUS
    <3>1. last \in TickType
      BY DEF MaybeTick
    <3>a. last.sequence \in Nat /\ HeadOf(rec) \in Nat
      BY <3>1, Fields, HeadFacts
    <3>b. SequenceLease \in Nat /\ SequenceLease >= 1
      BY Constants
    <3>2. PICK q \in Nat, h \in Nat, l \in Nat : q = last.sequence /\ h = HeadOf(rec) /\ l = SequenceLease /\ l >= 1
      BY <3>a, <3>b
    <3>3. q + l <= s /\ h + l <= s
      BY <2>1, <3>2 DEF Apart
    <3>4. Later(last, 1).sequence = q + 1
      BY <3>1, <3>2, NextTick
    <3>5. s + 1 > h + 1 /\ s + 1 # q + 1 /\ h + l < s + 1
      BY <3>2, <3>3
    <3> QED BY <2>2, <3>2, <3>4, <3>5 DEF Jumps, Continues
  <2> QED BY <1>1, <1>3, <2>2, <2>3 DEF Continues
<1> QED BY <1>1, <1>2, <1>3

\* How one is reopened in place.
LEMMA ReopenIs ==
  ASSUME NEW t \in Nat, NEW m \in MarketType, m.last # NoTick, m.last.value.instant <= t,
         NEW n, n = Primed(Reopened(m, t))
  PROVE  /\ n \in MarketType /\ n.last = m.last /\ n.floor = t /\ n.advancedAt = -1
         /\ n.drawn.sequence = (m.last.sequence + SequenceLease) + 1
         /\ n.drawn.sequence = ResumesAt(Reopened(m, t))
<1>1. /\ m.last \in TickType /\ m.last.sequence \in Nat /\ m.last.value.instant \in Nat
      /\ m.drawn \in TickType /\ m.drawn.value.epoch \in Nat /\ m.last \in MaybeTick
  BY Fields DEF MarketType, MaybeTick
<1>2. EpochSpan \in Nat /\ SeamGap \in Nat /\ SequenceLease \in Nat /\ t * EpochSpan \in Nat
  BY Constants
<1>3. PICK epoch \in Nat : epoch = StartKeyEpochAfter(t, KeyEpoch(m))
  <2>1. PICK x \in Nat, y \in Nat : x = t * EpochSpan /\ y = KeyEpoch(m)
    BY <1>1, <1>2 DEF KeyEpoch
  <2>2. Larger(y + 1, x) \in Nat
    BY DEF Larger
  <2> QED BY <2>1, <2>2 DEF StartKeyEpochAfter
<1>4. PICK s \in Nat : s = m.last.sequence + SequenceLease
  BY <1>1, <1>2
<1>5. Reopened(m, t) = Hosted(EngineAt(s, t, epoch, SeamGap), t, FALSE, m.last)
  <2>1. Larger(m.last.value.instant, t) = t
    BY <1>1 DEF Larger
  <2> QED BY <1>3, <1>4, <2>1 DEF Reopened, Seamed
<1>6. Awaits(n, s, t, epoch, SeamGap, m.last)
  <2>1. n = Started(s, t, epoch, SeamGap, m.last)
    BY <1>5 DEF Started
  <2> QED BY <1>1, <1>2, <2>1, PrimedAt
<1>7. ResumesAt(Reopened(m, t)) = s + 1
  BY <1>5 DEF ResumesAt, Hosted, EngineAt
<1> QED BY <1>4, <1>6, <1>7 DEF Awaits

\* What an advance does to a market.
LEMMA AdvanceIs ==
  ASSUME IInv, Advance
  PROVE  /\ UNCHANGED <<now, saved, record, boots, calm, quoted>> /\ pc = "idle" /\ pc' = "record" /\ ~Taken
         /\ pass'.advancedTo = now /\ pass'.plan = NoCheckpoint /\ pass'.stopping = FALSE
         /\ ~venue.hosted => venue' = venue /\ UNCHANGED <<feed, client>> /\ ~Taken' /\ pass'.failed = FALSE
         /\ venue.hosted /\ ~CatchUpTooLarge(venue.market, now) =>
              /\ venue'.market = Advanced(venue.market, now) /\ venue'.hosted
              /\ venue'.awaiting = venue.awaiting /\ venue'.stalled = venue.stalled /\ pass'.failed = FALSE
              /\ pass'.batch = Published(venue.market, now) /\ UNCHANGED <<feed, client>>
              /\ Taken' <=> pass'.batch # <<>>
         /\ venue.hosted /\ CatchUpTooLarge(venue.market, now) =>
              /\ venue'.hosted /\ Reopen(venue) /\ ~Taken' /\ pass'.failed = TRUE
              /\ \/ venue'.market = venue.market
                 \/ venue.market.last # NoTick /\ venue'.market = Primed(Reopened(venue.market, now))
<1>1. venue \in VenueType
  BY Unfolded
<1>2. /\ UNCHANGED <<now, saved, record, boots, calm, quoted>> /\ pc = "idle" /\ pc' = "record" /\ ~Taken
  BY DEF Advance, Taken
<1>3. PICK failed : failed = (venue.hosted /\ CatchUpTooLarge(venue.market, now))
  OBVIOUS
<1>4. PICK b : b = IF venue.hosted /\ ~failed THEN Published(venue.market, now) ELSE <<>>
  OBVIOUS
<1>5. pass' = [NoPass EXCEPT !.advancedTo = now, !.failed = failed, !.batch = b]
  BY <1>3, <1>4 DEF Advance
<1>6. /\ pass'.plan = NoCheckpoint /\ pass'.batch = b /\ pass'.advancedTo = now /\ pass'.stopping = FALSE
      /\ pass'.failed = failed
  BY <1>5 DEF NoPass
<1>7. Taken' <=> b # <<>>
  BY <1>2, <1>6 DEF Taken
<1>8. CASE ~venue.hosted
  <2>1. venue' = venue /\ UNCHANGED <<feed, client>> /\ b = <<>>
    BY <1>3, <1>4, <1>8 DEF Advance
  <2>2. failed = FALSE
    BY <1>3, <1>8
  <2> QED BY <1>2, <1>6, <1>7, <1>8, <2>1, <2>2
<1>9. CASE venue.hosted /\ ~CatchUpTooLarge(venue.market, now)
  <2>1. PICK n : n = Advanced(venue.market, now)
    OBVIOUS
  <2>2. b = Published(venue.market, now) /\ venue' = [venue EXCEPT !.market = n] /\ UNCHANGED <<feed, client>>
    BY <1>3, <1>4, <1>9, <2>1 DEF Advance
  <2>3. venue'.market = n /\ venue'.hosted /\ venue'.awaiting = venue.awaiting /\ venue'.stalled = venue.stalled
    BY <1>1, <1>9, <2>2 DEF VenueType
  <2>4. failed = FALSE
    BY <1>3, <1>9
  <2> QED BY <1>2, <1>6, <1>7, <1>9, <2>1, <2>2, <2>3, <2>4
<1>10. CASE venue.hosted /\ CatchUpTooLarge(venue.market, now)
  <2>1. b = <<>> /\ Reopen(venue) /\ failed = TRUE
    BY <1>3, <1>4, <1>10 DEF Advance
  <2>2. PICK n : n = Primed(Reopened(venue.market, now))
    OBVIOUS
  <2>3. venue'.market = venue.market \/ (venue.market.last # NoTick /\ venue'.market = n)
    BY <1>1, <2>1, <2>2 DEF Reopen, VenueType
  <2>4. venue'.hosted
    BY <1>1, <1>10, <2>1 DEF Reopen, VenueType
  <2> QED BY <1>2, <1>6, <1>7, <1>10, <2>1, <2>2, <2>3, <2>4
<1> QED BY <1>2, <1>6, <1>8, <1>9, <1>10

-----------------------------------------------------------------------------
(* A host whose passes are prompt and whose stops are clean *)

Prompt == {"passes", "stops"} \subseteq calm

\* An advance is recorded at the instant it was made for.
PunctualInv == pc = "record" => now = pass.advancedTo

\* A checkpoint is of a market at an instant it was watched, before its next tick.
WatchedInv ==
  /\ saved # NoCheckpoint => saved.savedAt < saved.drawn.value.instant
  /\ pc = "save" /\ pass.plan # NoCheckpoint =>
       /\ pass.planAt < venue.market.drawn.value.instant
       /\ ~pass.stopping => pass.planAt <= Watch(venue.market)
  /\ venue.hosted /\ saved # NoCheckpoint => saved.savedAt <= Watch(venue.market)

\* A market beside a checkpoint that may be resumed is on its stream.
GoesOnFrom(cp, m) == OnStream(cp.drawn, m.drawn) /\ (m.last = NoTick \/ Continues(m.drawn, m.last))
StreamInv == Resumable(saved, now) =>
  /\ venue.hosted => GoesOnFrom(saved, venue.market)
  /\ Taken => OnStream(saved.drawn, pass.batch[1]) /\ ~Jumps(record, pass.batch[1])

\* The record runs from such a checkpoint, and from what a market goes on from.
RunInv ==
  /\ Resumable(saved, now) /\ saved.last # NoTick => Running(record, saved.last)
  /\ venue.hosted /\ ~Taken /\ Continues(venue.market.drawn, venue.market.last) =>
       Running(record, venue.market.last)

CalmInv == PunctualInv /\ WatchedInv /\ StreamInv /\ RunInv

\* A market past its bound leaves no checkpoint to resume.
LEMMA BehindIsStale ==
  ASSUME NEW cp, cp.savedAt \in Nat, NEW m \in MarketType, NEW t \in Nat, cp.savedAt <= Watch(m), CatchUpTooLarge(m, t)
  PROVE  ~Resumable(cp, t)
<1>1. m.floor \in Nat /\ m.advancedAt \in Int
  BY DEF MarketType
<1>2. PICK w \in Int : w = Watch(m)
  BY <1>1 DEF Watch, Larger
<1>3. t - w > MaxCatchUp /\ cp.savedAt <= w
  BY <1>2 DEF CatchUpTooLarge, Behind, Watch
<1>4. MaxCatchUp \in Nat
  BY Constants
<1>5. t - cp.savedAt > MaxCatchUp
  BY <1>3, <1>4
<1> QED BY <1>5 DEF Resumable, Stale

\* A market that goes on from what it last published, or never did, does not jump.
LEMMA GoesOnFits ==
  ASSUME NEW rec \in Seq(TickType), NEW t, RecordInv(rec, t), NEW m \in MarketType,
         Shape(m.drawn, m.last), m.last # NoTick => Near(rec, m.last),
         m.last = NoTick \/ Continues(m.drawn, m.last)
  PROVE  ~Jumps(rec, m.drawn)
<1>1. HeadOf(rec) \in Nat
  BY HeadFacts
<1>2. CASE m.last = NoTick
  <2>1. m.drawn.sequence = 1
    BY <1>2 DEF Shape
  <2> QED BY <1>1, <2>1 DEF Jumps
<1>3. CASE m.last # NoTick
  <2>1. Recorded(rec, m.last) /\ m.drawn = Later(m.last, 1)
    BY <1>3 DEF Near, Continues
  <2>2. m.last \in TickType /\ m.last.sequence <= HeadOf(rec)
    BY <2>1, RecordedFacts
  <2>3. m.drawn.sequence = m.last.sequence + 1 /\ m.last.sequence \in Nat
    BY <2>1, <2>2, NextTick, Fields
  <2> QED BY <1>1, <2>2, <2>3 DEF Jumps
<1> QED BY <1>2, <1>3

\* What an advance leaves goes on from the same checkpoint.
LEMMA AdvancedGoesOn ==
  ASSUME NEW cp \in CheckpointType, NEW m \in MarketType, NEW t \in Nat, GoesOnFrom(cp, m)
  PROVE  GoesOnFrom(cp, Advanced(m, t))
<1>1. PICK n, b : n = Advanced(m, t) /\ b = Published(m, t)
  OBVIOUS
<1>2. /\ n \in MarketType /\ b \in Seq(TickType)
      /\ b = <<>> => n.drawn = m.drawn /\ n.last = m.last
      /\ b # <<>> => /\ \A k \in 1..Len(b) : b[k] = Later(m.drawn, k - 1)
                     /\ n.last = b[Len(b)] /\ n.drawn = Later(n.last, 1)
  BY <1>1, AdvancedFacts
<1>3. cp.drawn \in TickType /\ m.drawn \in TickType
  BY CheckpointFacts DEF MarketType
<1>4. CASE b = <<>>
  <2>1. GoesOnFrom(cp, n)
    BY <1>2, <1>4 DEF GoesOnFrom
  <2> QED BY <1>1, <2>1
<1>5. CASE b # <<>>
  <2>1. PICK l \in Nat : l = Len(b) - 1 /\ Len(b) \in 1..Len(b)
    <3>1. PICK x \in Nat : x = Len(b) /\ x # 0
      BY <1>2, <1>5
    <3>2. x - 1 \in Nat /\ x \in 1..x
      BY <3>1
    <3> QED BY <3>1, <3>2
  <2>2. n.last = Later(m.drawn, l)
    BY <1>2, <1>5, <2>1
  <2>3. n.last \in TickType /\ OnStream(m.drawn, n.last)
    <3>1. n.last \in TickType
      BY <1>3, <2>2, LaterFacts
    <3>2. OnStream(m.drawn, n.last)
      BY <1>3, <2>2, OnStreamFacts
    <3> QED BY <3>1, <3>2
  <2>4. n.drawn \in TickType /\ OnStream(n.last, n.drawn)
    BY <1>2, <1>5, <2>3, NextTick, OnStreamFacts
  <2>5. OnStream(cp.drawn, m.drawn)
    BY DEF GoesOnFrom
  <2>6. OnStream(cp.drawn, n.last)
    BY <1>3, <2>3, <2>5, OnStreamOn
  <2>7. OnStream(cp.drawn, n.drawn)
    BY <1>3, <2>3, <2>4, <2>6, OnStreamOn
  <2>8. Continues(n.drawn, n.last)
    BY <1>2, <1>5, <2>3, Fields DEF Continues
  <2> QED BY <1>1, <2>7, <2>8 DEF GoesOnFrom
<1> QED BY <1>4, <1>5

\* The start of a pass of a prompt host.
LEMMA AdvanceCalm ==
  ASSUME Deployed, IInv, CalmInv, Advance
  PROVE  CalmInv'
<1>1. /\ now \in Nat /\ saved \in CheckpointType \cup {NoCheckpoint} /\ record \in Seq(TickType)
      /\ venue.hosted => venue.market \in MarketType
      /\ RecordInv(record, now) /\ QuoteInv(record, quoted, now) /\ quoted \in PriceType
      /\ SavedInv(record, saved, quoted, now) /\ HostedInv
  BY Unfolded
<1>2. /\ UNCHANGED <<now, saved, record>> /\ pc = "idle" /\ pc' = "record" /\ ~Taken
      /\ pass'.advancedTo = now /\ pass'.plan = NoCheckpoint
  BY AdvanceIs
<1>3. PunctualInv /\ WatchedInv /\ StreamInv /\ RunInv
  BY DEF CalmInv
<1>4. PunctualInv'
  BY <1>2 DEF PunctualInv
<1>5. saved # NoCheckpoint => /\ saved \in CheckpointType /\ saved.savedAt \in Nat /\ saved.savedAt <= now
                              /\ saved.drawn \in TickType
  BY <1>1, CheckpointFacts DEF SavedInv
<1>6. CASE ~venue.hosted
  <2>1. venue' = venue /\ ~Taken'
    BY <1>6, AdvanceIs
  <2> QED BY <1>2, <1>3, <1>4, <1>6, <2>1 DEF CalmInv, WatchedInv, StreamInv, RunInv
<1>7. ASSUME venue.hosted
      PROVE  CalmInv'
  <2>1. PICK m \in MarketType : m = venue.market
    BY <1>1, <1>7
  <2>2. /\ MarketInv(m) /\ OpenInv(record, saved, quoted, now, m, venue.stalled)
    BY <1>1, <1>2, <1>7, <2>1 DEF HostedInv
  <2>3. Shape(m.drawn, m.last) /\ (m.last # NoTick => Near(record, m.last))
    BY <2>2 DEF MarketInv, OpenInv
  <2>4. saved # NoCheckpoint => saved.savedAt <= Watch(m)
    BY <1>3, <1>7, <2>1 DEF WatchedInv
  <2>5. CASE ~CatchUpTooLarge(m, now)
    <3>1. PICK n, b : n = Advanced(m, now) /\ b = Published(m, now)
      OBVIOUS
    <3>2. venue'.market = n /\ venue'.hosted /\ pass'.batch = b /\ (Taken' <=> b # <<>>)
      BY <1>7, <2>1, <2>5, <3>1, AdvanceIs
    <3>3. /\ n \in MarketType /\ n.advancedAt = now
          /\ b = <<>> => n.drawn = m.drawn /\ n.last = m.last
          /\ b # <<>> => b[1] = m.drawn
      BY <1>1, <3>1, AdvancedFacts
    <3>4. saved # NoCheckpoint => saved.savedAt <= Watch(n)
      <4>1. n.floor \in Nat
        BY <3>3 DEF MarketType
      <4> QED BY <1>1, <1>5, <3>3, <4>1 DEF Watch, Larger
    <3>5. WatchedInv'
      BY <1>2, <1>3, <3>2, <3>4 DEF WatchedInv
    <3>6. Resumable(saved, now) => GoesOnFrom(saved, n) /\ (b # <<>> => OnStream(saved.drawn, b[1]) /\ ~Jumps(record, b[1]))
      <4> SUFFICES ASSUME Resumable(saved, now)
                   PROVE  GoesOnFrom(saved, n) /\ (b # <<>> => OnStream(saved.drawn, b[1]) /\ ~Jumps(record, b[1]))
        OBVIOUS
      <4>1. GoesOnFrom(saved, m) /\ saved \in CheckpointType
        BY <1>3, <1>5, <1>7, <2>1 DEF StreamInv, Resumable
      <4>2. GoesOnFrom(saved, n)
        BY <1>1, <3>1, <4>1, AdvancedGoesOn
      <4>3. OnStream(saved.drawn, m.drawn) /\ ~Jumps(record, m.drawn)
        BY <1>1, <2>3, <4>1, GoesOnFits DEF GoesOnFrom
      <4> QED BY <3>3, <4>2, <4>3
    <3>7. StreamInv'
      BY <1>2, <3>2, <3>6 DEF StreamInv
    <3>8. b = <<>> /\ Continues(n.drawn, n.last) => Running(record, n.last)
      BY <1>2, <1>3, <1>7, <2>1, <3>3 DEF RunInv
    <3>9. RunInv'
      BY <1>2, <1>3, <3>2, <3>8 DEF RunInv
    <3> QED BY <1>4, <3>5, <3>7, <3>9 DEF CalmInv
  <2>6. CASE CatchUpTooLarge(m, now)
    <3>1. ~Resumable(saved, now)
      <4>1. CASE saved = NoCheckpoint
        BY <4>1 DEF Resumable
      <4>2. CASE saved # NoCheckpoint
        BY <1>1, <1>5, <2>4, <2>6, <4>2, BehindIsStale
      <4> QED BY <4>1, <4>2
    <3>2. PICK n : n = Primed(Reopened(m, now))
      OBVIOUS
    <3>3. ~Taken' /\ (venue'.market = m \/ (m.last # NoTick /\ venue'.market = n))
      BY <1>7, <2>1, <2>6, <3>2, AdvanceIs
    <3>4. m.last # NoTick => ~Continues(n.drawn, n.last) /\ (saved # NoCheckpoint => saved.savedAt <= Watch(n))
      <4> SUFFICES ASSUME m.last # NoTick
                   PROVE  ~Continues(n.drawn, n.last) /\ (saved # NoCheckpoint => saved.savedAt <= Watch(n))
        OBVIOUS
      <4>1. ~Continues(n.drawn, n.last)
        BY <1>1, <2>2, <2>6, <3>2, ReopenFits
      <4>2. m.last.value.instant <= now
        BY <1>1, <2>3, RecordedFacts DEF Near
      <4>3. n.floor = now /\ n.advancedAt = -1
        BY <1>1, <3>2, <4>2, ReopenIs
      <4> QED BY <1>1, <1>5, <4>1, <4>3 DEF Watch, Larger
    <3>5. WatchedInv'
      BY <1>2, <1>3, <1>7, <2>1, <2>4, <3>3, <3>4 DEF WatchedInv
    <3>6. StreamInv'
      BY <1>2, <3>1 DEF StreamInv
    <3>7. RunInv'
      BY <1>2, <1>3, <1>7, <2>1, <3>1, <3>3, <3>4 DEF RunInv
    <3> QED BY <1>4, <3>5, <3>6, <3>7 DEF CalmInv
  <2> QED BY <2>5, <2>6
<1> QED BY <1>6, <1>7

\* The checkpoint an offer plans is of this instant.
LEMMA OfferWatched ==
  ASSUME IInv, CalmInv, pc = "record", UNCHANGED <<now, saved>>,
         NEW v \in VenueType, v.market = venue.market, v.hosted => venue.hosted,
         v.hosted /\ ~v.stalled => ~pass.failed, Offer(v)
  PROVE  /\ PunctualInv' /\ WatchedInv' /\ ~Taken'
         /\ venue'.market = venue.market /\ venue'.hosted = v.hosted
<1>1. /\ now \in Nat /\ PassInv /\ (venue.hosted => venue.market \in MarketType) /\ pass.advancedTo \in Int
      /\ pass.stopping \in BOOLEAN
  BY Unfolded, VenueParts
<1>2. /\ venue'.market = venue.market /\ venue'.hosted = v.hosted
      /\ pc' = "finish" \/ /\ pc' = "save" /\ pass'.planAt = now
                           /\ pass'.plan # NoCheckpoint => v.hosted /\ ~v.stalled
  BY <1>1, OfferFacts
<1>3. PunctualInv' /\ ~Taken'
  BY <1>2 DEF PunctualInv, Taken
<1>4. PunctualInv /\ WatchedInv
  BY DEF CalmInv
<1>5. pc' = "save" /\ pass'.plan # NoCheckpoint =>
        /\ pass'.planAt < venue.market.drawn.value.instant
        /\ pass'.planAt <= Watch(venue.market)
  <2> SUFFICES ASSUME pc' = "save", pass'.plan # NoCheckpoint
               PROVE  /\ pass'.planAt < venue.market.drawn.value.instant
                      /\ pass'.planAt <= Watch(venue.market)
    OBVIOUS
  <2>1. venue.hosted /\ ~pass.failed /\ pass'.planAt = now
    BY <1>2
  <2>2. InPass
    BY <1>1 DEF InPass, PassInv
  <2>3. venue.market.advancedAt = pass.advancedTo /\ pass.advancedTo < venue.market.drawn.value.instant
    BY <1>1, <2>1, <2>2 DEF PassInv
  <2>4. now = pass.advancedTo
    BY <1>4 DEF PunctualInv
  <2>5. venue.market.floor \in Nat
    BY <1>1, <2>1 DEF MarketType
  <2> QED BY <1>1, <2>1, <2>3, <2>4, <2>5 DEF Watch, Larger
<1>6. v.hosted /\ saved # NoCheckpoint => saved.savedAt <= Watch(venue.market)
  BY <1>4 DEF WatchedInv
<1>7. saved # NoCheckpoint => saved.savedAt < saved.drawn.value.instant
  BY <1>4 DEF WatchedInv
<1>8. WatchedInv'
  BY <1>2, <1>5, <1>6, <1>7 DEF WatchedInv
<1> QED BY <1>2, <1>3, <1>8

\* A publication that runs on leaves the record running from the checkpoint.
LEMMA PublishRuns ==
  ASSUME Deployed, IInv, CalmInv, Publish, Resumable(saved, now), saved.last # NoTick
  PROVE  Running(record', saved.last)
<1>1. /\ now \in Nat /\ saved \in CheckpointType \cup {NoCheckpoint} /\ record \in Seq(TickType)
      /\ RecordInv(record, now) /\ SavedInv(record, saved, quoted, now) /\ BatchInv
  BY Unfolded
<1>2. /\ venue.market \in MarketType
      /\ Extended(record, record', pass.batch[1], pass.advancedTo)
      /\ Newest(record') = venue.market.last
      /\ venue.market.last \in TickType
  BY PublishExtends
<1>3. Taken
  BY DEF Publish, Taken
<1>4. /\ saved \in CheckpointType /\ saved # NoCheckpoint /\ UsableRecord(saved)
      /\ saved.last \in TickType /\ saved.drawn \in TickType
  BY <1>1, CheckpointFacts DEF Resumable
<1>5. PICK s \in TickType, d \in TickType, T \in Nat : s = saved.last /\ d = pass.batch[1] /\ T = pass.advancedTo
  BY <1>2, <1>4 DEF Extended
<1>6. Running(record, s) /\ OnStream(saved.drawn, d) /\ ~Jumps(record, d)
  BY <1>3, <1>5 DEF CalmInv, RunInv, StreamInv
<1>7. Continues(saved.drawn, s) /\ Recorded(record, s)
  BY <1>1, <1>4, <1>5, UsableFacts
<1>8. OnStream(s, d)
  <2>1. saved.drawn = Later(s, 1)
    BY <1>7 DEF Continues
  <2>2. OnStream(s, saved.drawn)
    BY <2>1, OnStreamFacts
  <2> QED BY <1>4, <1>6, <2>2, OnStreamOn
<1>9. Whole(record', s)
  <2>1. Whole(record', d)
    BY <1>5, PublishWhole
  <2>2. Whole(record, s)
    BY <1>6 DEF Running
  <2> QED BY <1>2, <1>5, <1>6, <1>8, <2>1, <2>2, WholeGrows
<1>10. T <= s.value.instant + Slack
  <2>1. Follows(record, saved)
    <3>1. HeadOf(record) <= s.sequence + SequenceLease
      BY <1>1, <1>6, <1>7, RunningIsShort
    <3> QED BY <1>4, <1>5, <3>1 DEF Follows
  <2>2. ~Lost(record, d)
    <3>1. d.sequence \in Nat /\ HeadOf(record) \in Nat
      BY <1>1, Fields, HeadFacts
    <3>2. Leads(record, d) \/ Replays(record, d)
      BY <1>2, <1>5 DEF Extended
    <3> QED BY <3>1, <3>2 DEF Leads, Replays, Lost
  <2>3. BatchFits(record, saved, quoted, now, venue.market, venue.stalled, venue.checkpointAt,
                  pass.batch, T)
    BY <1>1, <1>3, <1>5 DEF BatchInv
  <2> QED BY <1>5, <1>6, <2>1, <2>2, <2>3 DEF BatchFits
<1>11. Newest(record').value.instant <= T /\ Newest(record').value.instant \in Nat
  <2>1. BatchFits(record, saved, quoted, now, venue.market, venue.stalled, venue.checkpointAt,
                  pass.batch, T)
    BY <1>1, <1>3, <1>5 DEF BatchInv
  <2> QED BY <1>2, <2>1, Fields DEF BatchFits
<1>12. s.value.instant \in Nat /\ Slack \in Nat
  BY Fields, Constants
<1>13. Running(record', s)
  BY <1>9, <1>10, <1>11, <1>12 DEF Running
<1> QED BY <1>5, <1>13

\* The publication of a prompt host.
LEMMA PublishCalm ==
  ASSUME Deployed, IInv, CalmInv, Publish
  PROVE  CalmInv'
<1>1. /\ venue.hosted /\ ~pass.failed /\ venue.market \in MarketType
      /\ Extended(record, record', pass.batch[1], pass.advancedTo)
      /\ Newest(record') = venue.market.last /\ venue.market.last = Last(pass.batch)
      /\ venue.market.last \in TickType
  BY PublishExtends
<1>2. now \in Nat /\ venue \in VenueType
  BY Unfolded
<1>3. pc = "record" /\ UNCHANGED <<now, saved>> /\ Taken
  BY DEF Publish, Taken
<1>4. PICK v : /\ v \in VenueType /\ v.market = venue.market /\ Offer(v)
  <2>1. PICK x : /\ x = [venue EXCEPT !.stalled = FALSE, !.awaiting = FALSE, !.latest = Last(pass.batch)]
                 /\ Offer(x) \/ Offer([x EXCEPT !.stalled = TRUE, !.hosted = FALSE])
    BY DEF Publish
  <2>2. Last(pass.batch) \in MaybeTick
    BY <1>1 DEF MaybeTick
  <2>3. x \in VenueType /\ x.market = venue.market
    BY <1>2, <2>1, <2>2 DEF VenueType
  <2>4. PICK y : y = [x EXCEPT !.stalled = TRUE, !.hosted = FALSE]
    OBVIOUS
  <2>5. y \in VenueType /\ y.market = venue.market
    BY <2>3, <2>4 DEF VenueType
  <2> QED BY <2>1, <2>3, <2>4, <2>5
<1>5. PunctualInv' /\ WatchedInv' /\ ~Taken' /\ venue'.market = venue.market
  BY <1>1, <1>3, <1>4, OfferWatched
<1>6. StreamInv'
  BY <1>1, <1>3, <1>5 DEF CalmInv, StreamInv
<1>7. Running(record', venue.market.last)
  <2>1. record' \in Seq(TickType) /\ record' # <<>> /\ RecordInv(record', pass.advancedTo)
    BY <1>1 DEF Extended
  <2>2. PICK e \in TickType : e = venue.market.last
    BY <1>1
  <2>3. Newest(record') = e /\ HeadOf(record') = e.sequence /\ e.sequence \in Nat /\ Recorded(record', e)
    <3>1. Newest(record') = record'[Len(record')] /\ Len(record') \in 1..Len(record') /\ HeadOf(record') = Newest(record').sequence
      BY <2>1, HeadFacts
    <3> QED BY <1>1, <2>2, <3>1, Fields DEF Recorded
  <2>4. Whole(record', e)
    <3> SUFFICES ASSUME NEW i \in Nat, e.sequence <= i, i <= HeadOf(record') PROVE Recorded(record', At(e, i))
      BY DEF Whole
    <3>1. i = e.sequence
      BY <2>3
    <3> QED BY <2>3, <3>1, AtSelf
  <2>5. Newest(record').value.instant <= e.value.instant + Slack
    BY <2>3, Fields, Constants
  <2> QED BY <2>2, <2>4, <2>5 DEF Running
<1>8. Resumable(saved, now) /\ saved.last # NoTick => Running(record', saved.last)
  BY PublishRuns
<1>9. RunInv'
  BY <1>3, <1>5, <1>7, <1>8 DEF RunInv
<1> QED BY <1>5, <1>6, <1>9 DEF CalmInv

\* A step that leaves the record and the checkpoint, and of the market what comes
\* next.
LEMMA CalmStays ==
  ASSUME IInv, CalmInv, UNCHANGED <<saved, record>>, now' = now \/ now' = now + 1,
         pc' # "record",
         pc' = "save" /\ pass'.plan # NoCheckpoint =>
           /\ pass'.planAt < venue'.market.drawn.value.instant
           /\ ~pass'.stopping => pass'.planAt <= Watch(venue'.market),
         venue'.hosted => /\ venue.hosted /\ ~Taken
                          /\ venue'.market.drawn = venue.market.drawn /\ venue'.market.last = venue.market.last
                          /\ Watch(venue.market) <= Watch(venue'.market),
         venue'.hosted => Watch(venue'.market) \in Int
  PROVE  CalmInv'
<1>1. now \in Nat /\ saved \in CheckpointType \cup {NoCheckpoint} /\ (venue.hosted => venue.market \in MarketType)
  BY Unfolded
<1>2. PunctualInv' /\ ~Taken'
  BY DEF PunctualInv, Taken
<1>3. venue'.hosted /\ saved # NoCheckpoint => saved.savedAt <= Watch(venue'.market)
  <2> SUFFICES ASSUME venue'.hosted, saved # NoCheckpoint PROVE saved.savedAt <= Watch(venue'.market)
    OBVIOUS
  <2>1. saved.savedAt \in Nat
    BY <1>1, CheckpointFacts
  <2>2. saved.savedAt <= Watch(venue.market)
    BY DEF CalmInv, WatchedInv
  <2>3. PICK a \in Int : a = Watch(venue.market)
    <3>1. venue.market.floor \in Nat /\ venue.market.advancedAt \in Int
      BY <1>1 DEF MarketType
    <3> QED BY <3>1 DEF Watch, Larger
  <2> QED BY <2>1, <2>2, <2>3
<1>4. WatchedInv'
  BY <1>3 DEF CalmInv, WatchedInv
<1>5. Resumable(saved, now') => Resumable(saved, now)
  BY <1>1, ResumableBefore
<1>6. StreamInv'
  BY <1>2, <1>5 DEF CalmInv, StreamInv, GoesOnFrom
<1>7. RunInv'
  BY <1>2, <1>5 DEF CalmInv, RunInv
<1> QED BY <1>2, <1>4, <1>6, <1>7 DEF CalmInv

\* A market opened from the checkpoint of a prompt host, or past a seam.
LEMMA OpenCalm ==
  ASSUME Deployed, IInv, CalmInv, UNCHANGED <<now, saved, record>>, pc' \notin {"record", "save"},
         venue'.market = Primed(Opening(saved, Newest(record), now, now).market)
  PROVE  CalmInv'
<1>1. /\ now \in Nat /\ saved \in CheckpointType \cup {NoCheckpoint} /\ record \in Seq(TickType)
      /\ RecordInv(record, now) /\ QuoteInv(record, quoted, now) /\ quoted \in PriceType
      /\ SavedInv(record, saved, quoted, now)
  BY Unfolded
<1>2. PICK m : m = Primed(Opening(saved, Newest(record), now, now).market) /\ venue'.market = m
  OBVIOUS
<1>3. /\ m \in MarketType
      /\ Resumable(saved, now) => /\ m.drawn = saved.drawn /\ m.last = saved.last
                                  /\ m.floor = saved.drawn.value.instant
                                  /\ m.last = NoTick \/ Continues(m.drawn, m.last)
      /\ ~Resumable(saved, now) => /\ m.floor = now /\ ~Continues(m.drawn, m.last)
  BY <1>1, <1>2, OpeningFrom
<1>4. ~Taken' /\ PunctualInv'
  BY DEF Taken, PunctualInv
<1>5. saved # NoCheckpoint => saved.savedAt <= Watch(m)
  <2> SUFFICES ASSUME saved # NoCheckpoint PROVE saved.savedAt <= Watch(m)
    OBVIOUS
  <2>1. saved.savedAt \in Nat /\ saved.savedAt <= now /\ saved.drawn.value.instant \in Nat
    BY <1>1, CheckpointFacts, Fields DEF SavedInv
  <2>2. saved.savedAt < saved.drawn.value.instant
    BY DEF CalmInv, WatchedInv
  <2>3. m.floor \in Nat /\ m.advancedAt \in Int
    BY <1>3 DEF MarketType
  <2>4. saved.savedAt <= m.floor
    BY <1>1, <1>3, <2>1, <2>2
  <2> QED BY <2>1, <2>3, <2>4 DEF Watch, Larger
<1>6. WatchedInv'
  BY <1>2, <1>5 DEF CalmInv, WatchedInv
<1>7. StreamInv'
  <2>1. Resumable(saved, now) => GoesOnFrom(saved, m)
    <3>1. Resumable(saved, now) => OnStream(saved.drawn, saved.drawn)
      BY <1>1, CheckpointFacts, OnStreamFacts DEF Resumable
    <3> QED BY <1>3, <3>1 DEF GoesOnFrom
  <2> QED BY <1>2, <1>4, <2>1 DEF StreamInv
<1>8. RunInv'
  <2>1. Resumable(saved, now) /\ saved.last # NoTick => Running(record, saved.last)
    BY DEF CalmInv, RunInv
  <2>2. Continues(m.drawn, m.last) => Resumable(saved, now) /\ m.last = saved.last /\ m.last # NoTick
    BY <1>3 DEF Continues
  <2> QED BY <1>2, <1>4, <2>1, <2>2 DEF RunInv
<1> QED BY <1>4, <1>6, <1>7, <1>8 DEF CalmInv

\* A checkpoint of a market is one a prompt host goes on from.
LEMMA SaveCalm ==
  ASSUME IInv, CalmInv, Save
  PROVE  CalmInv'
<1>1. /\ now \in Nat /\ venue \in VenueType /\ record \in Seq(TickType)
      /\ saved \in CheckpointType \cup {NoCheckpoint} /\ pass.plan \in CheckpointType \cup {NoCheckpoint}
      /\ RecordInv(record, now) /\ HostedInv /\ PassInv
      /\ (venue.hosted => venue.market \in MarketType) /\ pass.stopping \in BOOLEAN
  BY Unfolded, VenueParts
<1>2. /\ UNCHANGED <<now, record>> /\ pc = "save" /\ ~Taken
      /\ saved' = IF pass.plan = NoCheckpoint THEN saved ELSE pass.plan
      /\ pass.stopping => venue'.hosted = FALSE /\ pc' = "down"
      /\ ~pass.stopping => pc' = "finish" /\ pass' = pass /\ venue'.market = venue.market
                           /\ venue'.hosted = venue.hosted
  BY <1>1 DEF Save, Exit, NoVenue, VenueType, Taken
<1>3. PunctualInv' /\ ~Taken'
  BY <1>2 DEF PunctualInv, Taken
<1>4. CASE pass.plan = NoCheckpoint
  <2>1. saved' = saved
    BY <1>2, <1>4
  <2> QED BY <1>2, <1>3, <2>1 DEF CalmInv, WatchedInv, StreamInv, RunInv
<1>5. CASE pass.plan # NoCheckpoint
  <2>1. PICK m \in MarketType, cp \in CheckpointType : m = venue.market /\ cp = pass.plan /\ saved' = cp
    BY <1>1, <1>2, <1>5 DEF PassInv
  <2>2. PICK at \in Nat : at = pass.planAt
    <3>1. pass.planAt \in Int
      BY VenueParts
    <3> QED BY <1>1, <1>2, <3>1 DEF PassInv
  <2>3. venue.hosted /\ ~venue.stalled /\ cp = CheckpointMarket(m, at)
    BY <1>1, <1>2, <1>5, <2>1, <2>2 DEF PassInv
  <2>4. cp # NoCheckpoint /\ cp.savedAt = at /\ cp.drawn = m.drawn /\ cp.last = m.last
    BY <2>1, <2>2, <2>3, PlanFacts
  <2>5. /\ at < m.drawn.value.instant
        /\ ~pass.stopping => at <= Watch(m)
    BY <1>2, <1>5, <2>1, <2>2 DEF CalmInv, WatchedInv
  <2>6. WatchedInv'
    BY <1>2, <2>1, <2>4, <2>5 DEF WatchedInv
  <2>7. MarketInv(m) /\ OpenInv(record, saved, quoted, now, m, FALSE)
    <3>1. venue.stalled = FALSE
      BY <2>3, VenueParts
    <3> QED BY <1>1, <1>2, <2>1, <2>3, <3>1 DEF HostedInv
  <2>8. cp.savedAt <= now
    BY <1>1, <1>2, <2>2, <2>4 DEF PassInv
  <2>9. SavedInv(record, cp, quoted, now)
    BY <1>1, <2>1, <2>4, <2>7, <2>8, PlanFits
  <2>10. Resumable(cp, now) => m.last = NoTick \/ Continues(m.drawn, m.last)
    <3>1. Resumable(cp, now) => UsableRecord(cp)
      BY DEF Resumable
    <3>2. UsableRecord(cp) => cp.last = NoTick \/ Continues(cp.drawn, cp.last)
      BY <1>1, <2>1, <2>9, UsableFacts
    <3> QED BY <2>4, <3>1, <3>2
  <2>11. Resumable(cp, now) => GoesOnFrom(cp, m)
    <3>1. OnStream(cp.drawn, m.drawn)
      BY <2>1, <2>4, CheckpointFacts, OnStreamFacts
    <3> QED BY <2>10, <3>1 DEF GoesOnFrom
  <2>12. StreamInv'
    BY <1>2, <1>3, <2>1, <2>11 DEF StreamInv
  <2>13. Continues(m.drawn, m.last) => Running(record, m.last)
    BY <1>2, <2>1, <2>3 DEF CalmInv, RunInv
  <2>14. RunInv'
    BY <1>2, <1>3, <2>1, <2>4, <2>10, <2>13 DEF RunInv
  <2> QED BY <1>3, <2>6, <2>12, <2>14 DEF CalmInv
<1> QED BY <1>4, <1>5

\* How far a market was watched.
LEMMA WatchIs ==
  ASSUME NEW m \in MarketType
  PROVE  Watch(m) \in Int /\ Watch(m) <= Watch(m)
<1>1. PICK a \in Int, f \in Nat : a = m.advancedAt /\ f = m.floor
  BY DEF MarketType
<1>2. Larger(a, f) \in Int
  BY DEF Larger
<1> QED BY <1>1, <1>2 DEF Watch

\* A clean stop plans a checkpoint of a market with nothing due.
LEMMA StopCalm ==
  ASSUME IInv, CalmInv, Prompt, Stop
  PROVE  CalmInv'
<1>1. /\ now \in Nat /\ (venue.hosted => venue.market \in MarketType)
  BY Unfolded
<1>2. /\ UNCHANGED <<now, saved, record, venue>> /\ pc = "idle" /\ pc' = "save" /\ ~Taken
      /\ NextUnpublished(venue.market).value.instant > now
      /\ pass'.plan = Planned(venue) /\ pass'.planAt = now /\ pass'.stopping = TRUE
  BY DEF Stop, NoPass, Taken, Prompt
<1>3. pass'.plan # NoCheckpoint => venue.hosted
  BY <1>2 DEF Planned
<1>4. pass'.plan # NoCheckpoint => pass'.planAt < venue.market.drawn.value.instant
  <2> SUFFICES ASSUME pass'.plan # NoCheckpoint PROVE now < venue.market.drawn.value.instant
    BY <1>2
  <2>1. PICK m \in MarketType : m = venue.market
    BY <1>1, <1>3
  <2>2. NextUnpublished(m) = m.drawn /\ m.drawn.value.instant \in Nat
    BY <2>1, Fields DEF NextUnpublished, MarketType
  <2> QED BY <1>1, <1>2, <2>1, <2>2
<1>5. venue.hosted => Watch(venue.market) \in Int /\ Watch(venue.market) <= Watch(venue.market)
  BY <1>1, WatchIs
<1> QED BY <1>2, <1>3, <1>4, <1>5, CalmStays

\* A market watched on.
LEMMA FinishIs ==
  ASSUME IInv, Finish
  PROVE  /\ UNCHANGED <<now, saved, record, boots, calm, quoted, feed, client>> /\ pc = "finish" /\ pc' = "idle"
         /\ pass'.plan = NoCheckpoint /\ ~Taken /\ ~Taken'
         /\ venue'.hosted = venue.hosted /\ venue'.awaiting = venue.awaiting
         /\ venue.hosted => /\ venue.market \in MarketType /\ venue'.market \in MarketType
                            /\ venue'.market.drawn = venue.market.drawn
                            /\ venue'.market.last = venue.market.last
                            /\ Watch(venue.market) <= Watch(venue'.market)
<1>1. /\ venue \in VenueType /\ (venue.hosted => venue.market \in MarketType)
      /\ pass.advancedTo \in Int /\ now \in Nat
  BY Unfolded, VenueParts
<1>2. /\ UNCHANGED <<now, saved, record, boots, calm, quoted, feed, client>> /\ pc = "finish" /\ pc' = "idle"
      /\ pass'.plan = NoCheckpoint /\ ~Taken /\ ~Taken'
  BY DEF Finish, NoPass, Taken
<1>3. PICK w \in Int :
        venue' = IF venue.hosted /\ ~pass.failed /\ ~venue.stalled
                 THEN [venue EXCEPT !.market = ObservedUntil(venue.market, w)] ELSE venue
  <2>1. PICK a \in Int : a = pass.advancedTo + MaxCatchUp
    BY <1>1, Constants
  <2> QED BY <1>1, <2>1 DEF Finish
<1>4. CASE venue' = venue
  <2>1. venue.hosted => Watch(venue.market) <= Watch(venue.market)
    BY <1>1, WatchIs
  <2> QED BY <1>1, <1>2, <1>4, <2>1
<1>5. CASE venue.hosted /\ venue' = [venue EXCEPT !.market = ObservedUntil(venue.market, w)]
  <2>1. PICK m \in MarketType : m = venue.market
    BY <1>1, <1>5
  <2>2. PICK n : n = [m EXCEPT !.advancedAt = Larger(m.advancedAt, w)]
    OBVIOUS
  <2>3. /\ n \in MarketType /\ n.drawn = m.drawn /\ n.floor = m.floor /\ n.last = m.last
        /\ n.advancedAt = Larger(m.advancedAt, w)
    <3>1. PICK a \in Int : a = Larger(m.advancedAt, w)
      BY DEF MarketType, Larger
    <3> QED BY <2>2, <3>1 DEF MarketType
  <2>4. Watch(m) <= Watch(n)
    <3>1. PICK a \in Int, f \in Nat : a = m.advancedAt /\ f = m.floor
      BY DEF MarketType
    <3>2. Larger(a, f) <= Larger(Larger(a, w), f)
      BY DEF Larger
    <3> QED BY <2>3, <3>1, <3>2 DEF Watch
  <2>5. venue'.market = n /\ venue'.hosted = venue.hosted /\ venue'.awaiting = venue.awaiting
    BY <1>1, <1>5, <2>1, <2>2 DEF ObservedUntil, VenueType
  <2> QED BY <1>2, <1>5, <2>1, <2>3, <2>4, <2>5
<1> QED BY <1>3, <1>4, <1>5

\* Every step of a prompt host.
LEMMA CalmKept ==
  ASSUME Deployed, Prompt, IInv, CalmInv, [Next]_vars
  PROVE  CalmInv'
<1>0. /\ now \in Nat /\ venue \in VenueType
      /\ venue.hosted => venue.market \in MarketType /\ Watch(venue.market) \in Int
                         /\ Watch(venue.market) <= Watch(venue.market)
      /\ PassInv
  <2>1. /\ now \in Nat /\ venue \in VenueType /\ (venue.hosted => venue.market \in MarketType) /\ PassInv
    BY Unfolded
  <2>2. venue.hosted => Watch(venue.market) \in Int /\ Watch(venue.market) <= Watch(venue.market)
    BY <2>1, WatchIs
  <2> QED BY <2>1, <2>2
<1>1. CASE Boot
  <2>1. /\ UNCHANGED <<now, saved, record, pass>> /\ pc = "down"
    BY <1>1 DEF Boot
  <2>2. CASE UNCHANGED <<pc, venue, feed>>
    BY <2>1, <2>2 DEF CalmInv, PunctualInv, WatchedInv, StreamInv, RunInv, Taken
  <2>3. CASE ~UNCHANGED <<pc, venue, feed>>
    <3>1. PICK m : m = Primed(Opening(saved, Newest(record), now, now).market)
      OBVIOUS
    <3>2. PICK seamed : pc' = "booting" /\ venue' = [NoVenue EXCEPT !.market = m, !.hosted = TRUE,
                                              !.seamed = seamed, !.latest = Newest(record)]
      BY <1>1, <2>3, <3>1 DEF Boot
    <3>3. venue'.market = m
      BY <3>2 DEF NoVenue
    <3> QED BY <2>1, <3>1, <3>2, <3>3, OpenCalm
  <2> QED BY <2>2, <2>3
<1>2. CASE Ready
  <2>1. UNCHANGED <<now, saved, record, pass>> /\ pc = "booting" /\ pc' = "idle" /\ ~Taken
    BY <1>2 DEF Ready, Taken
  <2>2. PICK m : m = Primed(Opening(saved, Newest(record), now, now).market)
    OBVIOUS
  <2>3. PICK n : /\ n = m \/ n = venue.market
                 /\ venue' = [venue EXCEPT !.market = n, !.awaiting = venue.seamed, !.checkpointAt = now]
    BY <1>2, <2>2 DEF Ready
  <2>4. venue'.market = n /\ venue'.hosted = venue.hosted
    BY <1>0, <2>3 DEF VenueType
  <2>5. CASE n = m
    BY <2>1, <2>2, <2>4, <2>5, OpenCalm
  <2>6. CASE n = venue.market
    BY <1>0, <2>1, <2>4, <2>6, CalmStays
  <2> QED BY <2>3, <2>5, <2>6
<1>3. CASE Advance
  BY <1>3, AdvanceCalm
<1>4. CASE Publish
  BY <1>4, PublishCalm
<1>5. CASE RecordRefuses
  <2>1. PICK v : v = [venue EXCEPT !.stalled = TRUE, !.hosted = FALSE]
    OBVIOUS
  <2>2. v \in VenueType /\ v.market = venue.market /\ v.hosted = FALSE
    BY <1>0, <2>1 DEF VenueType
  <2>3. Offer(v) /\ pc = "record" /\ UNCHANGED <<now, saved, record>>
    BY <1>5, <2>1 DEF RecordRefuses
  <2>4. PunctualInv' /\ WatchedInv' /\ ~Taken' /\ venue'.hosted = FALSE
    BY <2>2, <2>3, OfferWatched
  <2> QED BY <2>3, <2>4 DEF CalmInv, StreamInv, RunInv
<1>6. CASE NothingDue
  <2>1. Offer(venue) /\ pc = "record" /\ UNCHANGED <<now, saved, record>> /\ ~Taken
    BY <1>6 DEF NothingDue, Taken
  <2>2. venue.hosted /\ ~venue.stalled => ~pass.failed
    <3>1. InPass
      BY <1>0, <2>1 DEF InPass, PassInv
    <3> QED BY <1>0, <3>1 DEF PassInv
  <2>3. /\ PunctualInv' /\ WatchedInv' /\ ~Taken'
        /\ venue'.market = venue.market /\ venue'.hosted = venue.hosted
    BY <1>0, <2>1, <2>2, OfferWatched
  <2> QED BY <2>1, <2>3 DEF CalmInv, StreamInv, RunInv
<1>7. CASE Save
  BY <1>7, SaveCalm
<1>8. CASE Finish
  <2>1. /\ UNCHANGED <<now, saved, record>> /\ pc' = "idle" /\ ~Taken
        /\ venue'.hosted = venue.hosted
        /\ venue.hosted => /\ venue'.market \in MarketType
                           /\ venue'.market.drawn = venue.market.drawn
                           /\ venue'.market.last = venue.market.last
                           /\ Watch(venue.market) <= Watch(venue'.market)
    BY <1>8, FinishIs
  <2>2. venue'.market \in MarketType => Watch(venue'.market) \in Int
    BY WatchIs
  <2> QED BY <2>1, <2>2, CalmStays
<1>9. CASE Stop
  BY <1>9, StopCalm
<1>10. CASE Crash
  <2>1. UNCHANGED <<now, saved, record>> /\ pc' = "down" /\ venue'.hosted = FALSE
    BY <1>10 DEF Crash, Exit, NoVenue
  <2> QED BY <2>1, CalmStays
<1>11. CASE Tick
  <2>1. /\ UNCHANGED <<saved, record, pc, venue, pass>> /\ now' = now + 1 /\ pc # "record" /\ ~Taken
    BY <1>11 DEF Tick, Prompt, Taken
  <2>2. pc = "save" /\ pass.plan # NoCheckpoint =>
           /\ pass.planAt < venue.market.drawn.value.instant
           /\ ~pass.stopping => pass.planAt <= Watch(venue.market)
    BY DEF CalmInv, WatchedInv
  <2> QED BY <1>0, <2>1, <2>2, CalmStays
<1>12. CASE UNCHANGED <<now, saved, record, pc, venue, pass>>
  BY <1>12 DEF CalmInv, PunctualInv, WatchedInv, StreamInv, RunInv, Taken
<1>13. Subscribe \/ Disconnect \/ UNCHANGED vars => UNCHANGED <<now, saved, record, pc, venue, pass>>
  BY DEF Subscribe, Disconnect, vars
<1> QED BY <1>1, <1>2, <1>3, <1>4, <1>5, <1>6, <1>7, <1>8, <1>9, <1>10, <1>11, <1>12, <1>13 DEF Next

\* The host is the same throughout.
LEMMA SameHost == ASSUME [Next]_vars PROVE calm' = calm
BY DEF Next, vars, Boot, Ready, Advance, Publish, RecordRefuses, NothingDue, Save, Finish, Stop,
       Subscribe, Disconnect, Crash, Tick

\* The invariant of a prompt host.
LEMMA CalmAlways ==
  ASSUME Deployed PROVE Spec => [](Prompt => CalmInv)
<1>1. Init => (Prompt => CalmInv)
  <2>1. Init => CalmInv
    BY DEF Init, CalmInv, PunctualInv, WatchedInv, StreamInv, RunInv, Resumable, NoVenue, NoPass, Taken
  <2> QED BY <2>1
<1>2. IInv /\ (Prompt => CalmInv) /\ [Next]_vars => (Prompt => CalmInv)'
  <2> SUFFICES ASSUME IInv, Prompt => CalmInv, [Next]_vars, Prompt' PROVE CalmInv'
    OBVIOUS
  <2>1. Prompt
    BY SameHost DEF Prompt
  <2> QED BY <2>1, CalmKept
<1> QED BY <1>1, <1>2, Inductive, PTL DEF Spec

\* What is recorded past a checkpoint fresh enough to resume from is what the
\* resumed market generates again, on every host that publishes an advance at once
\* and is not stopped with a tick overdue (#planCheckpoint, venue.service.ts).
THEOREM ResumptionAlwaysReplays ==
  ASSUME Deployed, {"passes", "stops"} \subseteq Promised
  PROVE  Spec => []ResumptionReplaysTheRecord
<1>1. IInv /\ (Prompt => CalmInv) => ResumptionReplaysTheRecord
  <2> SUFFICES ASSUME IInv, CalmInv, saved # NoCheckpoint, saved.last # NoTick,
                      Opening(saved, Newest(record), now, now).kind = "resumed"
               PROVE  /\ saved.last \in Range(record)
                      /\ \A k \in DOMAIN record : record[k].sequence > saved.last.sequence =>
                           record[k] = Later(saved.last, record[k].sequence - saved.last.sequence)
    BY DEF ResumptionReplaysTheRecord, HostKeepsUp, Prompt
  <2>1. /\ now \in Nat /\ record \in Seq(TickType) /\ RecordInv(record, now)
        /\ SavedInv(record, saved, quoted, now)
    BY Unfolded
  <2>2. Resumable(saved, now)
    BY DEF Opening, Resumable
  <2>3. Running(record, saved.last) /\ Recorded(record, saved.last)
    BY <2>1, <2>2 DEF CalmInv, RunInv, SavedInv, Near
  <2>4. RunFrom(record, saved.last)
    BY <2>1, <2>3, RunningIsShort
  <2>5. DOMAIN record = 1..Len(record)
    BY <2>1
  <2> QED BY <2>3, <2>4, <2>5 DEF RunFrom, At, Recorded, Range
<1> QED BY <1>1, CalmAlways, Inductive, PTL

-----------------------------------------------------------------------------
(* What a host that keeps up is promised, further: its market stays hosted  *)

Steady == {"passes", "stops", "seams", "genesis"} \subseteq calm

\* No checkpoint of a market that has not published yet goes stale.
Fresher(cp, t) == cp # NoCheckpoint /\ cp.last = NoTick => ~Stale(cp, t)
FirstInv == Fresher(saved, now) /\ Fresher(pass.plan, now)

\* A market whose next tick is not the next of what it published: past a seam.
Away(m) == m.last # NoTick /\ ~Continues(m.drawn, m.last)

\* What the feed says of the seam a process boots past.
Announced(cp, rec, t) ==
  LET opening == Opening(cp, Newest(rec), t, t) IN
  /\ opening.kind = "seam"
  /\ feed.seam.resumesAt = ResumesAt(opening.market) /\ feed.history = <<>>

\* Whether it is known to the venue to be.
Waits == IF pc = "booting" THEN venue.seamed ELSE venue.awaiting

\* A market past a seam awaits its first tick, past the record, and does not wait
\* longer than it may be asked to catch up with.
SeamInv ==
  /\ venue.hosted /\ ~Taken /\ Away(venue.market) =>
       Waits /\ Jumps(record, venue.market.drawn)
  /\ venue.hosted /\ venue.awaiting => ~CatchUpTooLarge(venue.market, now)
  /\ pc = "booting" /\ venue.seamed => Announced(saved, record, now)

\* What a market publishes next is what the record holds of its stream already,
\* up to its head, or is past it.
WholeInv ==
  /\ Resumable(saved, now) /\ saved.last = NoTick => Whole(record, saved.drawn)
  /\ venue.hosted /\ ~Taken /\ venue.market.last = NoTick => Whole(record, venue.market.drawn)
  /\ Taken => Whole(record, pass.batch[1])

\* The next tick to be recorded.
Lead == IF Taken THEN pass.batch[1] ELSE venue.market.drawn

\* The feed's window ends where the record does, and is empty when what comes next
\* is past a seam.
WindowInv ==
  /\ feed.history \in Seq(TickType)
  /\ feed.history # <<>> => HeadOf(feed.history) = HeadOf(record)
  /\ venue.hosted /\ Jumps(record, Lead) => feed.history = <<>>

KeptInv == (pc # "down" => venue.hosted) /\ FirstInv /\ SeamInv /\ WholeInv /\ WindowInv

\* A seam stays one, at the same number.
LEMMA SeamAges ==
  ASSUME NEW rec \in Seq(TickType), NEW cp \in CheckpointType \cup {NoCheckpoint}, NEW t \in Nat,
         Opening(cp, Newest(rec), t, t).kind = "seam"
  PROVE  /\ Opening(cp, Newest(rec), t + 1, t + 1).kind = "seam"
         /\ ResumesAt(Opening(cp, Newest(rec), t + 1, t + 1).market) = ResumesAt(Opening(cp, Newest(rec), t, t).market)
<1>1. CASE cp = NoCheckpoint
  <2>1. Newest(rec) # NoTick
    BY <1>1 DEF Opening
  <2> QED BY <1>1, <2>1 DEF Opening, SeamPastRecord, Seamed, Hosted, EngineAt, ResumesAt
<1>2. CASE cp # NoCheckpoint
  <2>1. ~UsableRecord(cp) \/ Stale(cp, t)
    BY <1>2 DEF Opening
  <2>2. cp.savedAt \in Nat /\ MaxCatchUp \in Nat
    BY <1>2, CheckpointFacts, Constants
  <2>3. Stale(cp, t) => Stale(cp, t + 1)
    BY <2>2 DEF Stale
  <2> QED BY <1>2, <2>1, <2>3 DEF Opening, SeamFrom, Seamed, Hosted, EngineAt, ResumesAt
<1> QED BY <1>1, <1>2

\* However a market is opened, once more: past a seam of which the feed is told,
\* or where the record goes on.
LEMMA OpenedFrom ==
  ASSUME Deployed, NEW rec \in Seq(TickType), NEW t \in Nat, RecordInv(rec, t),
         NEW price \in PriceType, QuoteInv(rec, price, t),
         NEW cp \in CheckpointType \cup {NoCheckpoint}, SavedInv(rec, cp, price, t), Fresher(cp, t),
         NEW opening, opening = Opening(cp, Newest(rec), t, t),
         NEW m, m = Primed(opening.market)
  PROVE  /\ m \in MarketType
         /\ m.last = NoTick /\ (Resumable(cp, t) /\ cp.last = NoTick => Whole(rec, cp.drawn)) =>
              Whole(rec, m.drawn)
         /\ Away(m) => opening.kind = "seam"
         /\ Away(m) \/ opening.kind = "seam" => Jumps(rec, m.drawn)
         /\ Jumps(rec, m.drawn) => opening.kind = "seam" \/ rec = <<>>
         /\ opening.kind = "seam" =>
              /\ m.floor = t /\ ResumesAt(opening.market) = m.drawn.sequence
              /\ HeadOf(rec) + SequenceLease < m.drawn.sequence
         /\ ~Resumable(cp, t) /\ rec # <<>> => opening.kind = "seam"
<1>1. /\ m \in MarketType
      /\ Resumable(cp, t) => /\ m.drawn = cp.drawn /\ m.last = cp.last
                             /\ m.last = NoTick \/ Continues(m.drawn, m.last)
      /\ ~Resumable(cp, t) => /\ m.floor = t /\ ~Continues(m.drawn, m.last)
                              /\ m.last # NoTick => /\ Jumps(rec, m.drawn)
                                                    /\ HeadOf(rec) + SequenceLease < m.drawn.sequence
  BY OpeningFrom
<1>2. /\ Resumable(cp, t) => opening.kind = "resumed"
      /\ ~Resumable(cp, t) /\ (cp # NoCheckpoint \/ Newest(rec) # NoTick) => opening.kind = "seam"
      /\ cp = NoCheckpoint /\ Newest(rec) = NoTick => opening.kind = "fresh"
  BY DEF Opening, Resumable
<1>3. /\ cp = NoCheckpoint => m.last = Newest(rec)
      /\ cp # NoCheckpoint => m.last = cp.last
  <2>1. MarketInv(m) /\ SameLast(cp, m)
    BY OpeningFits
  <2>2. ASSUME cp = NoCheckpoint PROVE m.last = Newest(rec)
    BY <2>2 DEF Opening, FreshMarket, SeamPastRecord, Seamed, Hosted, Primed
  <2> QED BY <2>1, <2>2 DEF SameLast
<1>4. cp # NoCheckpoint /\ cp.last = NoTick => Resumable(cp, t)
  <2> SUFFICES ASSUME cp # NoCheckpoint, cp.last = NoTick PROVE Resumable(cp, t)
    OBVIOUS
  <2>1. cp.drawn.sequence = 1
    BY DEF SavedInv, Shape
  <2>2. UsableRecord(cp)
    BY <2>1 DEF UsableRecord
  <2> QED BY <2>2 DEF Fresher, Resumable
<1>5. Newest(rec) = NoTick <=> rec = <<>>
  BY HeadFacts, Fields
<1>6. ASSUME m.last = NoTick, Resumable(cp, t) /\ cp.last = NoTick => Whole(rec, cp.drawn) PROVE Whole(rec, m.drawn)
  <2>1. CASE Resumable(cp, t)
    BY <1>1, <1>6, <2>1
  <2>2. CASE ~Resumable(cp, t)
    <3>1. HeadOf(rec) = 0
      BY <1>3, <1>4, <1>5, <1>6, <2>2, HeadFacts
    <3>2. m.drawn.sequence \in Nat \ {0}
      BY <1>1, Fields DEF MarketType
    <3> QED BY <3>1, <3>2 DEF Whole
  <2> QED BY <2>1, <2>2
<1>7. Resumable(cp, t) => ~Jumps(rec, m.drawn)
  <2> SUFFICES ASSUME Resumable(cp, t) PROVE ~Jumps(rec, m.drawn)
    OBVIOUS
  <2>1. Shape(m.drawn, m.last) /\ (m.last # NoTick => Near(rec, m.last))
    BY <1>1 DEF SavedInv, Resumable
  <2> QED BY <1>1, <2>1, GoesOnFits
<1>8. ASSUME opening.kind = "seam" PROVE m.floor = t /\ ResumesAt(opening.market) = m.drawn.sequence
  <2>1. ~Resumable(cp, t)
    BY <1>2, <1>8
  <2>2. opening.market.pending = FALSE
    BY <1>8 DEF Opening, FreshMarket, SeamPastRecord, SeamFrom, Seamed, Hosted
  <2>3. m.drawn = Later(opening.market.drawn, 1)
    BY <2>2 DEF Primed, NextUnpublished, Opening, FreshMarket, SeamPastRecord, SeamFrom, Seamed, Hosted
  <2> QED BY <1>1, <2>1, <2>3 DEF ResumesAt, Later
<1>9. ASSUME opening.kind = "seam" PROVE m.last # NoTick
  BY <1>2, <1>3, <1>4, <1>9
<1>10. Away(m) => ~Resumable(cp, t) /\ (cp = NoCheckpoint => Newest(rec) # NoTick)
  BY <1>1, <1>3 DEF Away
<1> QED BY <1>1, <1>2, <1>3, <1>5, <1>6, <1>7, <1>8, <1>9, <1>10 DEF Away

\* A market that starts now is not behind.
LEMMA StartedInTime ==
  ASSUME NEW m \in MarketType, NEW t \in Nat, m.floor = t
  PROVE  ~CatchUpTooLarge(m, t)
<1>1. PICK a \in Int : a = m.advancedAt
  BY DEF MarketType
<1>2. PICK w \in Int : w = Larger(a, t) /\ t <= w
  BY DEF Larger
<1>3. ~(t - w > MaxCatchUp)
  BY <1>2, Constants
<1> QED BY <1>1, <1>2, <1>3 DEF CatchUpTooLarge, Behind

\* A set of naturals has a least one.
LEMMA LeastNatural ==
  ASSUME NEW S, S \subseteq Nat, S # {}
  PROVE  \E x \in S : \A y \in S : x <= y
<1>1. PICK less : less = {p \in Nat \X Nat : p[1] < p[2]}
  OBVIOUS
<1>2. IsWellFoundedOn(less, Nat)
  BY <1>1, NatLessThanWellFounded DEF OpToRel
<1>3. PICK x \in S : \A y \in S : ~(<<y, x>> \in less)
  BY <1>2, WFMin
<1>4. ASSUME NEW y \in S PROVE x <= y
  <2>1. x \in Nat /\ y \in Nat /\ (y < x => <<y, x>> \in less)
    BY <1>1
  <2> QED BY <1>3, <2>1
<1> QED BY <1>4

\* What the record gives the feed at boot: its newest ticks, the very newest last.
LEMMA TailFacts ==
  ASSUME NEW ticks \in Seq(TickType), NEW limit \in Nat \ {0}
  PROVE  /\ ContiguousTail(ticks, limit) \in Seq(TickType)
         /\ ticks = <<>> => ContiguousTail(ticks, limit) = <<>>
         /\ ticks # <<>> => /\ ContiguousTail(ticks, limit) # <<>>
                            /\ HeadOf(ContiguousTail(ticks, limit)) = HeadOf(ticks)
                            /\ \A k \in 1..Len(ContiguousTail(ticks, limit)) :
                                 Recorded(ticks, ContiguousTail(ticks, limit)[k])
<1>1. CASE ticks = <<>>
  BY <1>1 DEF ContiguousTail
<1>2. CASE ticks # <<>>
  <2> DEFINE Runs(i) == /\ i > Len(ticks) - limit
                        /\ \A k \in i..(Len(ticks) - 1) : ticks[k + 1].sequence = ticks[k].sequence + 1
             Breaks(i) == i > 1 /\ i > Len(ticks) - limit + 1 => ticks[i].sequence # ticks[i - 1].sequence + 1
  <2>1. PICK n \in Nat \ {0} : n = Len(ticks)
    BY <1>2
  <2>2. n \in 1..n /\ Runs(n)
    BY <2>1
  <2>3. PICK i \in {j \in 1..n : Runs(j)} : \A j \in {j \in 1..n : Runs(j)} : i <= j
    <3> HIDE DEF Runs, Breaks
    <3>1. {j \in 1..n : Runs(j)} \subseteq Nat
      OBVIOUS
    <3>2. {j \in 1..n : Runs(j)} # {}
      BY <2>2
    <3> QED BY <3>1, <3>2, LeastNatural
  <2>4. i \in 1..n /\ Runs(i)
    BY <2>3
  <2>5. Breaks(i)
    <3> SUFFICES ASSUME i > 1, i > n - limit + 1, ticks[i].sequence = ticks[i - 1].sequence + 1 PROVE FALSE
      BY <2>1
    <3>1. i - 1 \in 1..n /\ i - 1 > n - limit /\ (i - 1) + 1 = i
      BY <2>4
    <3>2. ASSUME NEW k \in (i - 1)..(n - 1) PROVE ticks[k + 1].sequence = ticks[k].sequence + 1
      <4>1. k = i - 1 \/ k \in i..(n - 1)
        BY <3>1
      <4> QED BY <2>1, <2>4, <3>1, <4>1
    <3>3. Runs(i - 1)
      BY <2>1, <3>1, <3>2
    <3> HIDE DEF Runs
    <3>4. i <= i - 1
      BY <2>3, <3>1, <3>3
    <3> QED BY <2>4, <3>4
  <2>6. PICK from \in 1..n : from = CHOOSE j \in 1..Len(ticks) : Runs(j) /\ Breaks(j)
    <3> HIDE DEF Runs, Breaks
    <3> QED BY <2>1, <2>4, <2>5
  <2>7. ContiguousTail(ticks, limit) = SubSeq(ticks, from, n)
    BY <1>2, <2>1, <2>6 DEF ContiguousTail
  <2>8. PICK c \in 0..n : c = from - 1 /\ c + 1 = from /\ c < n
    <3> HIDE DEF Runs, Breaks
    <3>1. from - 1 \in 0..n /\ (from - 1) + 1 = from /\ from - 1 < n
      OBVIOUS
    <3> QED BY <3>1
  <2>9. PICK t \in Seq(TickType) : t = ContiguousTail(ticks, limit) /\ Len(t) = n - c
                                   /\ \A k \in 1..(n - c) : t[k] = ticks[c + k] /\ c + k \in 1..n
    <3>1. /\ SubSeq(ticks, c + 1, n) \in Seq(TickType) /\ Len(SubSeq(ticks, c + 1, n)) = n - c
          /\ \A k \in 1..(n - c) : SubSeq(ticks, c + 1, n)[k] = ticks[c + k] /\ c + k \in 1..n
      <4>1. n \in Nat /\ n = Len(ticks) /\ c \in 0..n
        BY <2>1
      <4> QED BY <4>1, Rest
    <3>2. SubSeq(ticks, c + 1, n) = ContiguousTail(ticks, limit)
      BY <2>7, <2>8
    <3> QED BY <3>1, <3>2
  <2>10. t # <<>> /\ n - c \in 1..(n - c) /\ c + (n - c) = n
    BY <2>8, <2>9
  <2>11. Last(t) = Last(ticks)
    BY <2>1, <2>9, <2>10 DEF Last
  <2>12. HeadOf(t) = HeadOf(ticks)
    BY <1>2, <2>10, <2>11 DEF HeadOf
  <2>13. \A k \in 1..Len(t) : Recorded(ticks, t[k])
    BY <2>1, <2>9 DEF Recorded
  <2> QED BY <1>2, <2>9, <2>10, <2>12, <2>13
<1> QED BY <1>1, <1>2

\* A step that leaves the record, the feed, and of the market what comes next.
LEMMA KeptStays ==
  ASSUME IInv, KeptInv, UNCHANGED <<now, record, feed>>, FirstInv', pc # "down",
         Resumable(saved', now) /\ saved'.last = NoTick => Whole(record, saved'.drawn),
         Taken <=> Taken', Taken => pass'.batch = pass.batch,
         venue'.hosted = venue.hosted, venue'.market \in MarketType,
         venue'.market.drawn = venue.market.drawn, venue'.market.last = venue.market.last,
         ~CatchUpTooLarge(venue.market, now) => ~CatchUpTooLarge(venue'.market, now),
         Waits => Waits', venue'.awaiting => venue.awaiting,
         pc' = "booting" /\ venue'.seamed => Announced(saved', record, now)
  PROVE  KeptInv'
<1>1. /\ now \in Nat /\ venue.hosted /\ venue.market \in MarketType
      /\ FirstInv /\ SeamInv /\ WholeInv /\ WindowInv
  BY Unfolded DEF KeptInv
<1>2. Announced(saved', record, now) <=> Announced(saved, record, now)'
  BY DEF Announced
<1>3. SeamInv'
  BY <1>1, <1>2 DEF SeamInv, Away
<1>5. WholeInv'
  BY <1>1 DEF WholeInv
<1>6. Lead' = Lead
  BY DEF Lead
<1>7. WindowInv'
  BY <1>1, <1>6 DEF WindowInv
<1> QED BY <1>1, <1>3, <1>5, <1>7 DEF KeptInv

\* A step of which the market, the store and the feed see nothing.
LEMMA KeptElsewhere ==
  ASSUME KeptInv, UNCHANGED <<now, saved, record, pc, venue, pass, feed>>
  PROVE  KeptInv'
BY DEF KeptInv, FirstInv, SeamInv, Waits, Announced, WholeInv, WindowInv, Lead, Taken

\* The process is gone.
LEMMA KeptGone ==
  ASSUME IInv, KeptInv, Exit, UNCHANGED <<now, record>>, Fresher(saved', now),
         Resumable(saved', now) /\ saved'.last = NoTick => Whole(record, saved'.drawn)
  PROVE  KeptInv'
<1>1. /\ pc' = "down" /\ venue'.hosted = FALSE /\ pass'.plan = NoCheckpoint /\ ~Taken'
      /\ feed'.history = <<>> /\ venue'.seamed = FALSE
  BY DEF Exit, NoVenue, NoPass, EmptyFeed, Taken
<1>2. FirstInv'
  BY <1>1 DEF FirstInv, Fresher
<1>3. SeamInv' /\ WholeInv'
  BY <1>1 DEF SeamInv, WholeInv
<1>4. WindowInv'
  BY <1>1 DEF WindowInv
<1> QED BY <1>1, <1>2, <1>3, <1>4 DEF KeptInv

\* A market opened, or opened again at the clock.
LEMMA KeptOpened ==
  ASSUME Deployed, IInv, KeptInv, UNCHANGED <<now, saved, record, pass>>, pc' \in {"booting", "idle"},
         NEW opening, opening = Opening(saved, Newest(record), now, now),
         venue'.market = Primed(opening.market), venue'.hosted,
         opening.kind = "seam" => Waits' /\ feed'.history = <<>>,
         venue'.awaiting => opening.kind = "seam",
         pc' = "booting" /\ venue'.seamed =>
           opening.kind = "seam" /\ feed'.seam.resumesAt = ResumesAt(opening.market),
         feed'.history \in Seq(TickType), record = <<>> => feed'.history = <<>>,
         feed'.history # <<>> => HeadOf(feed'.history) = HeadOf(record)
  PROVE  KeptInv'
<1>1. PICK m : m = Primed(opening.market) /\ venue'.market = m
  OBVIOUS
<1>2. now \in Nat /\ FirstInv /\ WholeInv
  BY Unfolded DEF KeptInv
<1>a. /\ saved \in CheckpointType \cup {NoCheckpoint} /\ record \in Seq(TickType)
      /\ RecordInv(record, now) /\ QuoteInv(record, quoted, now) /\ quoted \in PriceType
      /\ SavedInv(record, saved, quoted, now)
  BY Unfolded
<1>3. /\ m \in MarketType
      /\ m.last = NoTick => Whole(record, m.drawn)
      /\ Away(m) => opening.kind = "seam"
      /\ Away(m) \/ opening.kind = "seam" => Jumps(record, m.drawn)
      /\ Jumps(record, m.drawn) => opening.kind = "seam" \/ record = <<>>
      /\ opening.kind = "seam" => m.floor = now /\ ResumesAt(opening.market) = m.drawn.sequence
  <2>1. /\ m \in MarketType
        /\ m.last = NoTick /\ (Resumable(saved, now) /\ saved.last = NoTick => Whole(record, saved.drawn)) =>
             Whole(record, m.drawn)
        /\ Away(m) => opening.kind = "seam"
        /\ Away(m) \/ opening.kind = "seam" => Jumps(record, m.drawn)
        /\ Jumps(record, m.drawn) => opening.kind = "seam" \/ record = <<>>
        /\ opening.kind = "seam" => m.floor = now /\ ResumesAt(opening.market) = m.drawn.sequence
    BY <1>1, <1>2, <1>a, OpenedFrom DEF FirstInv
  <2> QED BY <1>2, <2>1 DEF WholeInv
<1>4. ~Taken' /\ FirstInv'
  BY <1>2 DEF Taken, FirstInv
<1>5. opening.kind = "seam" => ~CatchUpTooLarge(m, now)
  BY <1>2, <1>3, StartedInTime
<1>6. Announced(saved, record, now)' <=> /\ opening.kind = "seam"
                                         /\ feed'.seam.resumesAt = ResumesAt(opening.market)
                                         /\ feed'.history = <<>>
  BY DEF Announced
<1>7. SeamInv'
  BY <1>1, <1>3, <1>4, <1>5, <1>6 DEF SeamInv
<1>8. WholeInv'
  BY <1>1, <1>2, <1>3, <1>4 DEF WholeInv
<1>9. WindowInv'
  BY <1>1, <1>3, <1>4 DEF WindowInv, Lead
<1> QED BY <1>4, <1>7, <1>8, <1>9 DEF KeptInv

\* The start of a process.
LEMMA BootKept ==
  ASSUME Deployed, IInv, KeptInv, Boot
  PROVE  KeptInv'
<1>1. PICK opening : opening = Opening(saved, Newest(record), now, now)
  OBVIOUS
<1>2. PICK seamed \in BOOLEAN : seamed = (opening.kind = "seam")
  <2>1. (opening.kind = "seam") \in BOOLEAN
    OBVIOUS
  <2> QED BY <2>1
<1>3. UNCHANGED <<now, saved, record, pass>> /\ pc = "down"
  BY DEF Boot
<1>4. \/ UNCHANGED <<pc, venue, feed>>
      \/ /\ pc' = "booting"
         /\ venue' = [NoVenue EXCEPT !.market = Primed(opening.market), !.hosted = TRUE,
                                     !.seamed = seamed, !.latest = Newest(record)]
         /\ feed' = IF seamed THEN Declared(HeadOf(record), ResumesAt(opening.market))
                    ELSE [EmptyFeed EXCEPT !.history = ContiguousTail(record, RetainTicks)]
  BY <1>1, <1>2 DEF Boot
<1>5. CASE UNCHANGED <<pc, venue, feed>>
  BY <1>3, <1>5, KeptElsewhere
<1>6. CASE ~UNCHANGED <<pc, venue, feed>>
  <2>1. /\ venue'.market = Primed(opening.market) /\ venue'.hosted /\ venue'.seamed = seamed
        /\ venue'.awaiting = FALSE /\ pc' = "booting"
    BY <1>4, <1>6 DEF NoVenue
  <2>2. CASE seamed
    <3>1. feed'.history = <<>> /\ feed'.seam.resumesAt = ResumesAt(opening.market)
      BY <1>4, <1>6, <2>2 DEF Declared
    <3>2. Waits'
      BY <2>1, <2>2 DEF Waits
    <3>3. <<>> \in Seq(TickType)
      OBVIOUS
    <3> QED BY <1>1, <1>2, <1>3, <2>1, <2>2, <3>1, <3>2, <3>3, KeptOpened
  <2>3. CASE ~seamed
    <3>1. feed'.history = ContiguousTail(record, RetainTicks)
      BY <1>4, <1>6, <2>3 DEF EmptyFeed
    <3>2. record \in Seq(TickType) /\ RetainTicks \in Nat \ {0}
      BY Unfolded, VenueAssumption
    <3>3. /\ feed'.history \in Seq(TickType) /\ (record = <<>> => feed'.history = <<>>)
          /\ feed'.history # <<>> => HeadOf(feed'.history) = HeadOf(record)
      BY <3>1, <3>2, TailFacts
    <3> QED BY <1>1, <1>2, <1>3, <2>1, <2>3, <3>3, KeptOpened
  <2> QED BY <2>2, <2>3
<1> QED BY <1>5, <1>6

\* A market re-armed past the seam it was opened with, and the venue ready.
LEMMA ReadyKept ==
  ASSUME Deployed, IInv, KeptInv, Ready
  PROVE  KeptInv'
<1>1. PICK again : again = Opening(saved, Newest(record), now, now)
  OBVIOUS
<1>2. /\ UNCHANGED <<now, saved, record, pass, feed>> /\ pc = "booting" /\ pc' = "idle"
      /\ ~Taken /\ ~Taken'
  BY DEF Ready, Taken
<1>3. /\ venue \in VenueType /\ venue.hosted /\ venue.market \in MarketType
      /\ FirstInv /\ SeamInv /\ WindowInv /\ WholeInv
  BY <1>2, Unfolded DEF KeptInv
<1>4. PICK market : market = IF venue.seamed /\ again.kind = "seam"
                                  /\ ResumesAt(again.market) = feed.seam.resumesAt
                             THEN Primed(again.market) ELSE venue.market
  OBVIOUS
<1>5. venue' = [venue EXCEPT !.market = market, !.awaiting = venue.seamed, !.checkpointAt = now]
  BY <1>1, <1>4 DEF Ready
<1>6. venue'.market = market /\ venue'.awaiting = venue.seamed /\ venue'.hosted = venue.hosted
  BY <1>3, <1>5 DEF VenueType
<1>7. CASE venue.seamed
  <2>1. Announced(saved, record, now)
    BY <1>2, <1>3, <1>7 DEF SeamInv
  <2>2. again.kind = "seam" /\ feed.history = <<>> /\ market = Primed(again.market)
    BY <1>1, <1>4, <1>7, <2>1 DEF Announced
  <2>3. Waits'
    BY <1>2, <1>6, <1>7 DEF Waits
  <2>4. feed'.history = <<>> /\ <<>> \in Seq(TickType)
    BY <1>2, <2>2
  <2> QED BY <1>1, <1>2, <1>3, <1>6, <2>2, <2>3, <2>4, KeptOpened
<1>8. CASE ~venue.seamed
  <2>1. market = venue.market
    BY <1>4, <1>8
  <2>2. FirstInv'
    BY <1>2, <1>3 DEF FirstInv
  <2>3. ~Waits /\ ~venue'.awaiting
    BY <1>2, <1>6, <1>8 DEF Waits
  <2>4. Resumable(saved', now) /\ saved'.last = NoTick => Whole(record, saved'.drawn)
    BY <1>2, <1>3 DEF WholeInv
  <2> QED BY <1>2, <1>3, <1>6, <2>1, <2>2, <2>3, <2>4, KeptStays
<1> QED BY <1>7, <1>8

\* Time passes, where a host that keeps up lets it.
LEMMA TickKept ==
  ASSUME IInv, KeptInv, Steady, Tick
  PROVE  KeptInv'
<1>1. /\ UNCHANGED <<saved, record, pc, venue, pass, feed>> /\ now' = now + 1
      /\ venue.awaiting => ~CatchUpTooLarge(venue.market, now + 1)
      /\ \A cp \in {saved, pass.plan} \ {NoCheckpoint} : cp.last # NoTick \/ ~Stale(cp, now + 1)
  BY DEF Tick, Steady
<1>2. /\ now \in Nat /\ record \in Seq(TickType) /\ saved \in CheckpointType \cup {NoCheckpoint}
      /\ FirstInv /\ SeamInv /\ WholeInv /\ WindowInv
  BY Unfolded DEF KeptInv
<1>3. FirstInv'
  BY <1>1 DEF FirstInv, Fresher
<1>4. (Taken <=> Taken') /\ (Waits <=> Waits') /\ Lead' = Lead
  BY <1>1 DEF Taken, Waits, Lead
<1>5. Announced(saved, record, now) => Announced(saved, record, now)'
  <2>1. Announced(saved, record, now) => Announced(saved, record, now + 1)
    BY <1>2, SeamAges DEF Announced
  <2>2. Announced(saved, record, now + 1) => Announced(saved, record, now)'
    BY <1>1 DEF Announced
  <2> QED BY <2>1, <2>2
<1>6. SeamInv'
  BY <1>1, <1>2, <1>4, <1>5 DEF SeamInv
<1>7. Resumable(saved, now') => Resumable(saved, now)
  BY <1>1, <1>2, ResumableBefore
<1>8. WholeInv'
  BY <1>1, <1>2, <1>4, <1>7 DEF WholeInv
<1>9. WindowInv'
  BY <1>1, <1>2, <1>4 DEF WindowInv
<1> QED BY <1>1, <1>3, <1>6, <1>8, <1>9 DEF KeptInv

\* A checkpoint of this instant is not stale.
LEMMA PlanFresher ==
  ASSUME NEW t \in Nat, NEW m, NEW cp, cp # NoCheckpoint => cp = CheckpointMarket(m, t)
  PROVE  Fresher(cp, t)
<1>1. cp # NoCheckpoint => cp.savedAt = t
  BY DEF CheckpointMarket
<1> QED BY <1>1, Constants DEF Fresher, Stale

\* What an offer leaves of the pass.
LEMMA OfferFirst ==
  ASSUME IInv, FirstInv, pc = "record", UNCHANGED <<now, saved>>, NEW v \in VenueType, Offer(v)
  PROVE  /\ FirstInv' /\ ~Taken' /\ pc' \in {"save", "finish"}
         /\ venue'.awaiting = v.awaiting /\ venue'.market = v.market /\ venue'.hosted = v.hosted
<1>1. now \in Nat /\ pass \in PassType /\ pass.advancedTo \in Int
  BY Unfolded, VenueParts
<1>2. pc' \in {"save", "finish"} /\ ~Taken'
  BY DEF Offer, Taken
<1>3. pass'.plan # NoCheckpoint => pass'.plan = CheckpointMarket(v.market, now)
  BY <1>1 DEF Offer, Planned, PassType
<1>4. Fresher(pass'.plan, now)
  BY <1>1, <1>3, PlanFresher
<1>5. FirstInv'
  BY <1>4 DEF FirstInv
<1>6. venue' = v \/ \E price : venue' = [v EXCEPT !.inForce = price]
  BY DEF Offer, Quoted
<1>7. venue'.awaiting = v.awaiting /\ venue'.market = v.market /\ venue'.hosted = v.hosted
  BY <1>6 DEF VenueType
<1> QED BY <1>2, <1>5, <1>7

\* A pass that published nothing.
LEMMA NothingDueKept ==
  ASSUME IInv, KeptInv, NothingDue
  PROVE  KeptInv'
<1>1. /\ UNCHANGED <<now, saved, record, feed>> /\ pc = "record" /\ ~Taken /\ Offer(venue)
  BY DEF NothingDue, Taken
<1>2. /\ venue \in VenueType /\ venue.hosted /\ venue.market \in MarketType /\ FirstInv /\ WholeInv
  BY <1>1, Unfolded DEF KeptInv
<1>3. /\ FirstInv' /\ ~Taken' /\ pc' \in {"save", "finish"}
      /\ venue'.awaiting = venue.awaiting /\ venue'.market = venue.market /\ venue'.hosted = venue.hosted
  BY <1>1, <1>2, OfferFirst
<1>4. Waits => Waits'
  BY <1>1, <1>3 DEF Waits
<1>5. Resumable(saved', now) /\ saved'.last = NoTick => Whole(record, saved'.drawn)
  BY <1>1, <1>2 DEF WholeInv
<1> QED BY <1>1, <1>2, <1>3, <1>4, <1>5, KeptStays

\* The checkpoint is written.
LEMMA SaveKept ==
  ASSUME IInv, KeptInv, Save
  PROVE  KeptInv'
<1>1. /\ UNCHANGED <<now, record>> /\ pc = "save" /\ ~Taken
      /\ saved' = IF pass.plan = NoCheckpoint THEN saved ELSE pass.plan
  BY DEF Save, Taken
<1>2. /\ now \in Nat /\ venue \in VenueType /\ venue.hosted /\ venue.market \in MarketType /\ PassInv
      /\ FirstInv /\ WholeInv /\ pass.stopping \in BOOLEAN
  BY <1>1, Unfolded, VenueParts DEF KeptInv
<1>3. Fresher(saved', now)
  BY <1>1, <1>2 DEF FirstInv
<1>4. Resumable(saved', now) /\ saved'.last = NoTick => Whole(record, saved'.drawn)
  <2>1. CASE pass.plan = NoCheckpoint
    BY <1>1, <1>2, <2>1 DEF WholeInv
  <2>2. CASE pass.plan # NoCheckpoint
    <3>1. pass.plan = CheckpointMarket(venue.market, pass.planAt)
      BY <1>1, <1>2, <2>2 DEF PassInv
    <3>2. saved'.last = venue.market.last /\ saved'.drawn = venue.market.drawn
      BY <1>1, <2>2, <3>1 DEF CheckpointMarket
    <3> QED BY <1>1, <1>2, <3>2 DEF WholeInv
  <2> QED BY <2>1, <2>2
<1>5. CASE pass.stopping
  <2>1. Exit
    BY <1>5 DEF Save
  <2> QED BY <1>1, <1>3, <1>4, <2>1, KeptGone
<1>6. CASE ~pass.stopping
  <2>1. /\ pc' = "finish" /\ UNCHANGED <<pass, feed>>
        /\ venue' = [venue EXCEPT !.checkpointAt = pass.planAt]
    BY <1>6 DEF Save
  <2>2. /\ venue'.market = venue.market /\ venue'.hosted = venue.hosted
        /\ venue'.awaiting = venue.awaiting
    BY <1>2, <2>1 DEF VenueType
  <2>3. FirstInv'
    BY <1>1, <1>2, <1>3, <2>1 DEF FirstInv
  <2>4. ~Taken' /\ (Waits => Waits')
    BY <1>1, <2>1, <2>2 DEF Taken, Waits
  <2> QED BY <1>1, <1>2, <1>4, <2>1, <2>2, <2>3, <2>4, KeptStays
<1> QED BY <1>2, <1>5, <1>6

\* The venue stops between two passes.
LEMMA StopKept ==
  ASSUME IInv, KeptInv, Stop
  PROVE  KeptInv'
<1>1. /\ UNCHANGED <<now, saved, record, venue, feed>> /\ pc = "idle" /\ pc' = "save" /\ ~Taken /\ ~Taken'
      /\ pass'.plan = Planned(venue)
  BY DEF Stop, NoPass, Taken
<1>2. now \in Nat /\ venue.hosted /\ venue.market \in MarketType /\ FirstInv /\ WholeInv
  BY <1>1, Unfolded DEF KeptInv
<1>3. Fresher(pass'.plan, now)
  BY <1>1, <1>2, PlanFresher DEF Planned
<1>4. FirstInv'
  BY <1>1, <1>2, <1>3 DEF FirstInv
<1>5. Waits => Waits'
  BY <1>1 DEF Waits
<1>6. Resumable(saved', now) /\ saved'.last = NoTick => Whole(record, saved'.drawn)
  BY <1>1, <1>2 DEF WholeInv
<1> QED BY <1>1, <1>2, <1>4, <1>5, <1>6, KeptStays

\* The end of a pass.
LEMMA FinishKept ==
  ASSUME IInv, KeptInv, Finish
  PROVE  KeptInv'
<1>1. /\ UNCHANGED <<now, saved, record, feed>> /\ pc = "finish" /\ pc' = "idle"
      /\ pass'.plan = NoCheckpoint /\ ~Taken /\ ~Taken'
      /\ venue'.hosted = venue.hosted /\ venue'.awaiting = venue.awaiting
      /\ venue.hosted => /\ venue.market \in MarketType /\ venue'.market \in MarketType
                         /\ venue'.market.drawn = venue.market.drawn
                         /\ venue'.market.last = venue.market.last
                         /\ Watch(venue.market) <= Watch(venue'.market)
  BY FinishIs
<1>2. now \in Nat /\ venue.hosted /\ FirstInv /\ WholeInv
  BY <1>1, Unfolded DEF KeptInv
<1>3. ~CatchUpTooLarge(venue.market, now) => ~CatchUpTooLarge(venue'.market, now)
  <2>1. PICK u \in Int, w \in Int : u = Watch(venue.market) /\ w = Watch(venue'.market) /\ u <= w
    BY <1>1, <1>2, WatchIs
  <2>2. now - u <= MaxCatchUp => now - w <= MaxCatchUp
    BY <1>2, <2>1, Constants
  <2>3. /\ CatchUpTooLarge(venue.market, now) <=> now - u > MaxCatchUp
        /\ CatchUpTooLarge(venue'.market, now) <=> now - w > MaxCatchUp
    BY <2>1 DEF CatchUpTooLarge, Behind, Watch
  <2> QED BY <1>2, <2>1, <2>2, <2>3, Constants
<1>4. FirstInv'
  BY <1>1, <1>2 DEF FirstInv, Fresher
<1>5. Waits => Waits'
  BY <1>1 DEF Waits
<1>6. Resumable(saved', now) /\ saved'.last = NoTick => Whole(record, saved'.drawn)
  BY <1>1, <1>2 DEF WholeInv
<1> QED BY <1>1, <1>2, <1>3, <1>4, <1>5, <1>6, KeptStays

\* A market just advanced is not behind.
LEMMA AdvancedInTime ==
  ASSUME NEW m \in MarketType, NEW t \in Nat
  PROVE  ~CatchUpTooLarge(Advanced(m, t), t)
<1>1. PICK f \in Nat : f = m.floor
  BY DEF MarketType
<1>2. Advanced(m, t).advancedAt = t /\ Advanced(m, t).floor = f
  <2>1. PICK n : n = Advanced(m, t)
    OBVIOUS
  <2>2. n.advancedAt = t /\ n.floor = m.floor
    BY <2>1, AdvancedFacts
  <2> QED BY <1>1, <2>1, <2>2
<1>3. Larger(t, f) \in Int /\ t - Larger(t, f) <= 0
  BY DEF Larger
<1> QED BY <1>2, <1>3, Constants DEF CatchUpTooLarge, Behind

\* What a market publishes next: the record holds its stream up to the head, or is behind it.
LEMMA NextIsWhole ==
  ASSUME Deployed, IInv, CalmInv, KeptInv, venue.hosted, ~Taken
  PROVE  Whole(record, venue.market.drawn)
<1>1. /\ record \in Seq(TickType) /\ RecordInv(record, now) /\ venue.market \in MarketType
      /\ SeamInv /\ WholeInv /\ RunInv
  BY Unfolded DEF KeptInv, CalmInv
<1>2. PICK d \in TickType, last \in MaybeTick : d = venue.market.drawn /\ last = venue.market.last
  BY <1>1 DEF MarketType
<1>3. CASE last = NoTick
  BY <1>1, <1>2, <1>3 DEF WholeInv
<1>4. CASE Continues(d, last)
  <2>1. last \in TickType /\ Running(record, last)
    BY <1>1, <1>2, <1>4 DEF RunInv, Continues, MaybeTick
  <2>2. OnStream(last, d)
    BY <1>4, <2>1, OnStreamFacts DEF Continues
  <2> QED BY <1>1, <1>2, <2>1, <2>2, WholeRuns DEF Running
<1>5. CASE last # NoTick /\ ~Continues(d, last)
  <2>1. Jumps(record, d)
    BY <1>1, <1>2, <1>5 DEF SeamInv, Away
  <2>2. d.sequence > HeadOf(record) /\ d.sequence \in Nat /\ HeadOf(record) \in Nat
    BY <1>1, <2>1, HeadFacts, Fields DEF Jumps
  <2> QED BY <1>2, <2>2 DEF Whole
<1> QED BY <1>3, <1>4, <1>5

\* A market reopened in place is past a seam of a lease.
LEMMA ReopenJumps ==
  ASSUME Deployed, IInv, CalmInv, venue.hosted, ~Taken, ~Away(venue.market), venue.market.last # NoTick,
         NEW n, n = Primed(Reopened(venue.market, now))
  PROVE  /\ n \in MarketType /\ n.last # NoTick /\ n.floor = now /\ Jumps(record, n.drawn)
         /\ n.drawn.sequence = ResumesAt(Reopened(venue.market, now))
<1>1. /\ now \in Nat /\ record \in Seq(TickType) /\ RecordInv(record, now) /\ venue.market \in MarketType
      /\ HostedInv /\ RunInv
  BY Unfolded DEF CalmInv
<1>2. Near(record, venue.market.last) /\ Running(record, venue.market.last)
  BY <1>1 DEF HostedInv, OpenInv, RunInv, Away
<1>3. /\ Recorded(record, venue.market.last)
      /\ HeadOf(record) < venue.market.last.sequence + SequenceLease
  BY <1>1, <1>2, RunningIsShort DEF Near
<1>4. venue.market.last.value.instant <= now /\ venue.market.last \in TickType
  BY <1>1, <1>3, RecordedFacts
<1>5. /\ n \in MarketType /\ n.last = venue.market.last /\ n.floor = now
      /\ n.drawn.sequence = (venue.market.last.sequence + SequenceLease) + 1
      /\ n.drawn.sequence = ResumesAt(Reopened(venue.market, now))
  BY <1>1, <1>4, ReopenIs
<1>6. PICK h \in Nat, q \in Nat : h = HeadOf(record) /\ q = venue.market.last.sequence + SequenceLease
  <2>1. HeadOf(record) \in Nat /\ venue.market.last.sequence \in Nat /\ SequenceLease \in Nat
    BY <1>1, <1>4, HeadFacts, Fields, Constants
  <2> QED BY <2>1
<1>7. q + 1 > h + 1
  BY <1>3, <1>6
<1> QED BY <1>5, <1>6, <1>7 DEF Jumps

\* The start of a pass.
LEMMA AdvanceKept ==
  ASSUME Deployed, IInv, CalmInv, KeptInv, Advance
  PROVE  KeptInv'
<1>1. /\ UNCHANGED <<now, saved, record>> /\ pc = "idle" /\ pc' = "record" /\ ~Taken
      /\ pass'.plan = NoCheckpoint
      /\ venue.hosted /\ ~CatchUpTooLarge(venue.market, now) =>
           /\ venue'.market = Advanced(venue.market, now) /\ venue'.hosted
           /\ venue'.awaiting = venue.awaiting
           /\ pass'.batch = Published(venue.market, now) /\ UNCHANGED feed
           /\ Taken' <=> pass'.batch # <<>>
      /\ venue.hosted /\ CatchUpTooLarge(venue.market, now) =>
           venue'.hosted /\ Reopen(venue) /\ ~Taken'
  BY AdvanceIs
<1>2. /\ now \in Nat /\ venue \in VenueType /\ venue.hosted /\ venue.market \in MarketType
      /\ FirstInv /\ SeamInv /\ WholeInv /\ WindowInv
  BY <1>1, Unfolded DEF KeptInv
<1>3. FirstInv'
  BY <1>1, <1>2 DEF FirstInv, Fresher
<1>4. Resumable(saved', now) /\ saved'.last = NoTick => Whole(record, saved'.drawn)
  BY <1>1, <1>2 DEF WholeInv
<1>5. CASE ~CatchUpTooLarge(venue.market, now)
  <2>1. PICK n, b : n = Advanced(venue.market, now) /\ b = Published(venue.market, now)
    OBVIOUS
  <2>2. /\ n \in MarketType /\ b \in Seq(TickType)
        /\ b = <<>> => n.drawn = venue.market.drawn /\ n.last = venue.market.last
        /\ b # <<>> => b[1] = venue.market.drawn
    BY <1>2, <2>1, AdvancedFacts
  <2>3. ~CatchUpTooLarge(n, now)
    BY <1>2, <2>1, AdvancedInTime
  <2>4. Waits => Waits'
    BY <1>1, <1>2, <1>5 DEF Waits
  <2>5. CASE b = <<>>
    BY <1>1, <1>2, <1>3, <1>4, <1>5, <2>1, <2>2, <2>3, <2>4, <2>5, KeptStays
  <2>6. CASE b # <<>>
    <3>1. Taken' /\ pass'.batch[1] = venue.market.drawn /\ venue'.market = n
      BY <1>1, <1>2, <1>5, <2>1, <2>2, <2>6
    <3>2. Whole(record, venue.market.drawn)
      BY <1>1, <1>2, NextIsWhole
    <3>3. SeamInv'
      BY <1>1, <1>2, <1>5, <2>3, <3>1 DEF SeamInv
    <3>4. WholeInv'
      BY <1>1, <1>4, <3>1, <3>2 DEF WholeInv
    <3>5. Lead' = Lead
      BY <1>1, <3>1 DEF Lead
    <3>6. WindowInv'
      BY <1>1, <1>2, <1>5, <3>5 DEF WindowInv
    <3> QED BY <1>1, <1>2, <1>3, <1>5, <3>3, <3>4, <3>6 DEF KeptInv
  <2> QED BY <2>5, <2>6
<1>6. CASE CatchUpTooLarge(venue.market, now)
  <2>1. Reopen(venue) /\ ~Taken' /\ venue'.hosted
    BY <1>1, <1>2, <1>6
  <2>2. ~venue.awaiting /\ ~Waits /\ ~Rearms(venue) /\ ~Away(venue.market)
    BY <1>1, <1>2, <1>6 DEF SeamInv, Waits, Rearms
  <2>3. CASE TooSoon(venue) \/ venue.market.last = NoTick
    <3>1. venue' = [venue EXCEPT !.stalled = TRUE] /\ UNCHANGED feed
      BY <2>1, <2>2, <2>3 DEF Reopen
    <3>2. venue'.market = venue.market /\ venue'.awaiting = venue.awaiting /\ venue'.hosted = venue.hosted
      BY <1>2, <3>1 DEF VenueType
    <3> QED BY <1>1, <1>2, <1>3, <1>4, <2>1, <2>2, <3>1, <3>2, KeptStays
  <2>4. CASE ~(TooSoon(venue) \/ venue.market.last = NoTick)
    <3>1. PICK n, resumes : n = Primed(Reopened(venue.market, now)) /\ resumes = ResumesAt(Reopened(venue.market, now))
      OBVIOUS
    <3>2. /\ venue' = [venue EXCEPT !.market = n, !.stalled = TRUE, !.reopenedAt = now, !.awaiting = TRUE]
          /\ feed' = Declared(venue.market.last.sequence, resumes)
      BY <2>1, <2>2, <2>4, <3>1 DEF Reopen
    <3>3. venue'.market = n /\ venue'.awaiting = TRUE /\ feed'.history = <<>>
      BY <1>2, <3>2 DEF VenueType, Declared
    <3>4. n \in MarketType /\ n.last # NoTick /\ n.floor = now /\ Jumps(record, n.drawn)
      BY <1>1, <1>2, <2>2, <2>4, <3>1, ReopenJumps
    <3>5. ~CatchUpTooLarge(n, now)
      BY <1>2, <3>4, StartedInTime
    <3>6. SeamInv'
      BY <1>1, <2>1, <3>3, <3>4, <3>5 DEF SeamInv, Waits
    <3>7. WholeInv'
      BY <1>1, <1>4, <2>1, <3>3, <3>4 DEF WholeInv
    <3>8. WindowInv'
      BY <3>3 DEF WindowInv
    <3> QED BY <1>1, <1>3, <2>1, <3>6, <3>7, <3>8 DEF KeptInv
  <2> QED BY <2>3, <2>4
<1> QED BY <1>5, <1>6

\* What the record found new of a batch, and that it goes on where the head is, or
\* from the batch's first tick.
FreshOf(rec, b, n, c, d, fresh) ==
  /\ n \in Nat \ {0} /\ c \in 0..n /\ d \in TickType /\ d = b[1] /\ n = Len(b)
  /\ fresh \in Seq(TickType) /\ Len(fresh) = n - c
  /\ \A i \in 1..(n - c) : fresh[i] = Later(d, c + (i - 1))
  /\ \A k \in 1..n : k <= c <=> d.sequence + (k - 1) <= HeadOf(rec)

\* It is that.
LEMMA FreshIs ==
  ASSUME IInv, Publish
  PROVE  \E n \in Nat \ {0} : \E c \in 0..n : \E d : FreshOf(record, pass.batch, n, c, d, Fresh(pass.batch))
<1>1. /\ record \in Seq(TickType) /\ pass.batch \in Seq(TickType) /\ BatchInv /\ HeadOf(record) \in Nat
  BY Unfolded, VenueParts, HeadFacts
<1>2. pc = "record" /\ pass.batch # <<>> /\ Taken
  BY DEF Publish, Taken
<1>3. PICK b \in Seq(TickType), n \in Nat \ {0} : b = pass.batch /\ n = Len(b)
  BY <1>1, <1>2
<1>4. PICK d \in TickType : d = b[1] /\ \A k \in 1..n : b[k] = Later(d, k - 1)
  <2>1. \A k \in 1..n : b[k] = Later(b[1], k - 1)
    BY <1>1, <1>2, <1>3 DEF BatchInv, BatchFits
  <2>2. b[1] \in TickType
    BY <1>3
  <2> QED BY <2>1, <2>2
<1>5. Batch(b, n, d)
  <2>1. \A k \in 1..n : At(d, d.sequence + (k - 1)) = b[k]
    <3> SUFFICES ASSUME NEW k \in 1..n PROVE At(d, d.sequence + (k - 1)) = b[k]
      OBVIOUS
    <3>1. d.sequence \in Nat
      BY Fields
    <3>2. (d.sequence + (k - 1)) - d.sequence = k - 1
      BY <3>1
    <3> QED BY <1>4, <3>2 DEF At
  <2> QED BY <1>3, <1>4, <2>1 DEF Batch
<1>6. PICK c \in 0..n : /\ \A k \in 1..n : k <= c <=> b[k].sequence <= HeadOf(record)
                        /\ Fresh(b) = SubSeq(b, c + 1, n)
  <2>1. \E c \in 0..n : \A k \in 1..n : k <= c <=> b[k].sequence <= HeadOf(record)
    BY <1>1, <1>5, KnownPart
  <2>2. PICK c \in 0..n : c = CHOOSE i \in 0..n : \A k \in 1..n : k <= i <=> b[k].sequence <= HeadOf(record)
    BY <2>1
  <2>3. \A k \in 1..n : k <= c <=> b[k].sequence <= HeadOf(record)
    BY <2>1, <2>2
  <2>4. DOMAIN b = 1..n
    BY <1>3
  <2>5. Fresh(b) = SubSeq(b, c + 1, n)
    BY <1>3, <2>2, <2>4 DEF Fresh
  <2> QED BY <2>3, <2>5
<1>7. /\ Fresh(b) \in Seq(TickType) /\ Len(Fresh(b)) = n - c
      /\ \A i \in 1..(n - c) : Fresh(b)[i] = b[c + i] /\ c + i \in 1..n
  <2>1. n \in Nat
    OBVIOUS
  <2> QED BY <1>3, <1>6, <2>1, Rest
<1>8. ASSUME NEW i \in 1..(n - c) PROVE Fresh(b)[i] = Later(d, c + (i - 1))
  <2>1. (c + i) - 1 = c + (i - 1)
    OBVIOUS
  <2> QED BY <1>4, <1>7, <2>1
<1>9. ASSUME NEW k \in 1..n PROVE k <= c <=> d.sequence + (k - 1) <= HeadOf(record)
  <2>1. b[k].sequence = d.sequence + (k - 1)
    BY <1>5, BatchFacts
  <2> QED BY <1>6, <2>1
<1>10. FreshOf(record, b, n, c, d, Fresh(b))
  BY <1>3, <1>4, <1>7, <1>8, <1>9 DEF FreshOf
<1> QED BY <1>3, <1>10

\* Its numbers, and where they start in a record it does not jump past.
LEMMA FreshFacts ==
  ASSUME NEW rec \in Seq(TickType), NEW b, NEW n, NEW c, NEW d, NEW fresh, FreshOf(rec, b, n, c, d, fresh)
  PROVE  /\ \A i \in 1..Len(fresh) : fresh[i].sequence \in Nat /\ HeadOf(rec) < fresh[i].sequence
         /\ \A i \in 2..Len(fresh) : fresh[i].sequence = fresh[i - 1].sequence + 1
         /\ ~Jumps(rec, d) /\ fresh # <<>> => fresh[1].sequence = HeadOf(rec) + 1
<1> n \in Nat \ {0} /\ c \in 0..n
  BY DEF FreshOf
<1>1. /\ n \in Nat \ {0} /\ c \in 0..n /\ d \in TickType /\ fresh \in Seq(TickType) /\ Len(fresh) = n - c
      /\ \A i \in 1..(n - c) : fresh[i] = Later(d, c + (i - 1))
      /\ \A k \in 1..n : k <= c <=> d.sequence + (k - 1) <= HeadOf(rec)
  BY DEF FreshOf
<1>2. PICK h \in Nat, q \in Nat \ {0} : h = HeadOf(rec) /\ q = d.sequence
  BY <1>1, HeadFacts, Fields
<1>3. \A i \in 1..(n - c) : fresh[i].sequence = q + (c + (i - 1))
  <2> SUFFICES ASSUME NEW i \in 1..(n - c) PROVE fresh[i].sequence = q + (c + (i - 1))
    OBVIOUS
  <2>1. c + (i - 1) \in Nat
    OBVIOUS
  <2>2. PICK e \in Nat : e = c + (i - 1)
    BY <2>1
  <2>3. Later(d, e).sequence = d.sequence + e
    BY <1>1, LaterFacts
  <2>4. fresh[i] = Later(d, e)
    BY <1>1, <2>2
  <2> QED BY <1>2, <2>2, <2>3, <2>4
<1>4. \A k \in 1..n : k <= c <=> q + (k - 1) <= h
  BY <1>1, <1>2
<1>5. ASSUME NEW i \in 1..(n - c) PROVE fresh[i].sequence \in Nat /\ h < fresh[i].sequence
  <2>1. c + i \in 1..n /\ ~(c + i <= c) /\ (c + i) - 1 = c + (i - 1)
    OBVIOUS
  <2>2. ~(q + ((c + i) - 1) <= h)
    BY <1>4, <2>1
  <2> QED BY <1>3, <2>1, <2>2
<1>6. ASSUME NEW i \in 2..(n - c) PROVE fresh[i].sequence = fresh[i - 1].sequence + 1
  <2>1. i \in 1..(n - c) /\ i - 1 \in 1..(n - c)
    OBVIOUS
  <2>2. fresh[i].sequence = q + (c + (i - 1)) /\ fresh[i - 1].sequence = q + (c + ((i - 1) - 1))
    BY <1>3, <2>1
  <2> QED BY <2>2
<1>7. ASSUME ~Jumps(rec, d), fresh # <<>> PROVE fresh[1].sequence = h + 1
  <2>1. n - c \in Nat \ {0} /\ 1 \in 1..(n - c)
    BY <1>1, <1>7
  <2>2. fresh[1].sequence = q + c /\ h < fresh[1].sequence
    BY <1>3, <1>5, <2>1
  <2>3. q <= h + 1
    BY <1>2, <1>7 DEF Jumps
  <2>4. CASE c = 0
    BY <2>2, <2>3, <2>4
  <2>5. CASE c # 0
    <3>1. c \in 1..n
      BY <2>5
    <3>2. q + (c - 1) <= h
      BY <1>4, <3>1
    <3> QED BY <2>2, <3>2
  <2> QED BY <2>4, <2>5
<1> QED BY <1>1, <1>2, <1>5, <1>6, <1>7

\* The feed offers what goes on from its window.
LEMMA FollowsWindow ==
  ASSUME NEW f, f.history \in Seq(TickType), NEW fresh \in Seq(TickType),
         \A i \in 2..Len(fresh) : fresh[i].sequence = fresh[i - 1].sequence + 1,
         f.history # <<>> /\ fresh # <<>> => fresh[1].sequence = HeadOf(f.history) + 1
  PROVE  Offerable(f, fresh)
<1>1. PICK h \in Seq(TickType), n \in Nat, k \in Nat : h = f.history /\ n = Len(h) /\ k = Len(fresh)
  OBVIOUS
<1>2. PICK all : all = h \o fresh
  OBVIOUS
<1>3. /\ Len(all) = n + k
      /\ \A i \in 1..n : all[i] = h[i]
      /\ \A i \in (n + 1)..(n + k) : all[i] = fresh[i - n]
  BY <1>1, <1>2, Joined
<1>4. ASSUME NEW i \in (n + 1)..(n + k), i > 1 PROVE all[i].sequence = all[i - 1].sequence + 1
  <2>1. CASE i = n + 1
    <3>1. i - 1 = n /\ n \in 1..n /\ i - n = 1 /\ k \in Nat \ {0}
      BY <1>4, <2>1
    <3>2. all[i] = fresh[1] /\ all[i - 1] = h[n]
      BY <1>3, <3>1
    <3>3. h # <<>> /\ fresh # <<>> /\ HeadOf(h) = h[n].sequence
      BY <1>1, <3>1 DEF HeadOf, Last
    <3> QED BY <1>1, <3>2, <3>3
  <2>2. CASE i # n + 1
    <3>1. i - 1 \in (n + 1)..(n + k) /\ i - n \in 2..k /\ (i - 1) - n = (i - n) - 1
      BY <2>2
    <3>2. all[i] = fresh[i - n] /\ all[i - 1] = fresh[(i - n) - 1]
      BY <1>3, <3>1
    <3> QED BY <1>1, <3>1, <3>2
  <2> QED BY <2>1, <2>2
<1>5. \A i \in (Len(f.history) + 1)..Len(all) : i > 1 => all[i].sequence = all[i - 1].sequence + 1
  BY <1>1, <1>3, <1>4
<1> QED BY <1>1, <1>2, <1>5 DEF Offerable

\* The window after it: it ends where what was offered does.
LEMMA OfferedFacts ==
  ASSUME NEW f, f.history \in Seq(TickType), NEW fresh \in Seq(TickType), fresh # <<>>
  PROVE  /\ Offered(f, fresh).history \in Seq(TickType) /\ Offered(f, fresh).history # <<>>
         /\ HeadOf(Offered(f, fresh).history) = Last(fresh).sequence
         /\ \A i \in 1..Len(Offered(f, fresh).history) :
              Recorded(f.history, Offered(f, fresh).history[i]) \/ Recorded(fresh, Offered(f, fresh).history[i])
         /\ Offered(f, fresh).seam = NoSeam
<1>1. PICK h \in Seq(TickType), n \in Nat, k \in Nat \ {0} : h = f.history /\ n = Len(h) /\ k = Len(fresh)
  <2>1. Len(fresh) \in Nat \ {0} /\ Len(f.history) \in Nat
    OBVIOUS
  <2> QED BY <2>1
<1>2. PICK all : all = h \o fresh
  OBVIOUS
<1>3. /\ all \in Seq(TickType) /\ Len(all) = n + k
      /\ \A i \in 1..n : all[i] = h[i]
      /\ \A i \in (n + 1)..(n + k) : all[i] = fresh[i - n]
  BY <1>1, <1>2, Joined
<1>4. PICK m \in Nat : m = n + k /\ m = Len(all)
  BY <1>3
<1>5. PICK c \in 0..m : c = (IF m > RetainTicks THEN m - RetainTicks ELSE 0) /\ c < m
  <2>1. RetainTicks \in Nat \ {0}
    BY VenueAssumption
  <2>2. (IF m > RetainTicks THEN m - RetainTicks ELSE 0) \in 0..m
    BY <1>4, <2>1
  <2>3. (IF m > RetainTicks THEN m - RetainTicks ELSE 0) < m
    BY <1>4, <2>1
  <2> QED BY <2>2, <2>3
<1>6. PICK t : /\ t = SubSeq(all, c + 1, m) /\ t \in Seq(TickType) /\ Len(t) = m - c
               /\ \A i \in 1..(m - c) : t[i] = all[c + i] /\ c + i \in 1..m
  <2>1. m \in Nat /\ m = Len(all) /\ c \in 0..m
    BY <1>4
  <2>2. /\ SubSeq(all, c + 1, m) \in Seq(TickType) /\ Len(SubSeq(all, c + 1, m)) = m - c
        /\ \A i \in 1..(m - c) : SubSeq(all, c + 1, m)[i] = all[c + i] /\ c + i \in 1..m
    BY <1>3, <2>1, Rest
  <2> QED BY <2>2
<1>7. Offered(f, fresh).history = t /\ Offered(f, fresh).seam = NoSeam
  BY <1>1, <1>2, <1>4, <1>5, <1>6 DEF Offered
<1>8. t # <<>> /\ m - c \in 1..(m - c) /\ c + (m - c) = m /\ m \in (n + 1)..(n + k) /\ m - n = k
  <2>1. m \in (n + 1)..(n + k) /\ m - n = k
    BY <1>4
  <2>2. m - c \in 1..(m - c) /\ c + (m - c) = m
    BY <1>5
  <2>3. Len(t) \in 1..(m - c)
    BY <1>6, <2>2
  <2>4. t # <<>>
    BY <2>3, Len(<<>>) = 0
  <2> QED BY <2>1, <2>2, <2>4
<1>9. HeadOf(t) = Last(fresh).sequence
  <2>1. Last(t) = fresh[k]
    BY <1>3, <1>6, <1>8 DEF Last
  <2> QED BY <1>1, <1>8, <2>1 DEF HeadOf, Last
<1>10. ASSUME NEW i \in 1..Len(t) PROVE Recorded(h, t[i]) \/ Recorded(fresh, t[i])
  <2>1. c + i \in 1..m /\ t[i] = all[c + i]
    BY <1>6
  <2>2. CASE c + i <= n
    <3>1. c + i \in 1..n
      BY <2>1, <2>2
    <3> QED BY <1>1, <1>3, <2>1, <3>1 DEF Recorded
  <2>3. CASE c + i > n
    <3>1. c + i \in (n + 1)..(n + k) /\ (c + i) - n \in 1..k
      BY <1>4, <2>1, <2>3
    <3> QED BY <1>1, <1>3, <2>1, <3>1 DEF Recorded
  <2> QED BY <2>1, <2>2, <2>3
<1> QED BY <1>1, <1>6, <1>7, <1>8, <1>9, <1>10

\* A steady host's publication is one the feed offers.
LEMMA PublishIsOffered ==
  ASSUME IInv, KeptInv, Publish
  PROVE  /\ \E v \in VenueType : /\ Offer(v) /\ v.hosted = venue.hosted /\ v.market = venue.market
                                 /\ v.awaiting = FALSE
         /\ feed' = IF Fresh(pass.batch) = <<>> THEN feed ELSE Offered(feed, Fresh(pass.batch))
         /\ client' = Pushed(client, Fresh(pass.batch))
         /\ record' = record \o Fresh(pass.batch)
         /\ Fresh(pass.batch) \in Seq(TickType)
         /\ \A i \in 1..Len(Fresh(pass.batch)) : HeadOf(record) < Fresh(pass.batch)[i].sequence
         /\ feed.history # <<>> => ~Jumps(record, pass.batch[1])
<1>1. /\ record \in Seq(TickType) /\ venue \in VenueType /\ venue.hosted /\ Taken /\ WindowInv
      /\ venue.market.last = Last(pass.batch) /\ venue.market.last \in TickType
  BY Unfolded, PublishExtends DEF Publish, Taken, KeptInv
<1>2. PICK fresh : fresh = Fresh(pass.batch)
  OBVIOUS
<1>3. PICK n \in Nat \ {0} : \E c \in 0..n : \E d : FreshOf(record, pass.batch, n, c, d, fresh)
  BY <1>2, FreshIs
<1>a. PICK c \in 0..n : \E d : FreshOf(record, pass.batch, n, c, d, fresh)
  BY <1>3
<1>4. PICK d : FreshOf(record, pass.batch, n, c, d, fresh)
  BY <1>a
<1>5. /\ \A i \in 1..Len(fresh) : HeadOf(record) < fresh[i].sequence
      /\ \A i \in 2..Len(fresh) : fresh[i].sequence = fresh[i - 1].sequence + 1
      /\ ~Jumps(record, d) /\ fresh # <<>> => fresh[1].sequence = HeadOf(record) + 1
      /\ fresh \in Seq(TickType) /\ d = pass.batch[1]
  <2>1. fresh \in Seq(TickType) /\ d = pass.batch[1]
    BY <1>4 DEF FreshOf
  <2>2. /\ \A i \in 1..Len(fresh) : fresh[i].sequence \in Nat /\ HeadOf(record) < fresh[i].sequence
        /\ \A i \in 2..Len(fresh) : fresh[i].sequence = fresh[i - 1].sequence + 1
        /\ ~Jumps(record, d) /\ fresh # <<>> => fresh[1].sequence = HeadOf(record) + 1
    <3>1. record \in Seq(TickType) /\ FreshOf(record, pass.batch, n, c, d, fresh)
      BY <1>1, <1>4
    <3> QED BY <3>1, FreshFacts
  <2> QED BY <2>1, <2>2
<1>6. feed.history # <<>> => ~Jumps(record, d) /\ HeadOf(feed.history) = HeadOf(record)
  BY <1>1, <1>5 DEF WindowInv, Lead
<1>7. Offerable(feed, fresh)
  <2>1. feed.history # <<>> /\ fresh # <<>> => fresh[1].sequence = HeadOf(feed.history) + 1
    BY <1>5, <1>6
  <2> QED BY <1>1, <1>5, <2>1, FollowsWindow DEF WindowInv
<1>8. PICK v : v = [venue EXCEPT !.stalled = FALSE, !.awaiting = FALSE, !.latest = Last(pass.batch)]
  OBVIOUS
<1>9. v \in VenueType /\ v.hosted = venue.hosted /\ v.market = venue.market /\ v.awaiting = FALSE
  <2>1. Last(pass.batch) \in MaybeTick
    BY <1>1 DEF MaybeTick
  <2> QED BY <1>1, <1>8, <2>1 DEF VenueType
<1>10. /\ Offer(v) /\ feed' = IF fresh = <<>> THEN feed ELSE Offered(feed, fresh)
       /\ client' = Pushed(client, fresh) /\ record' = record \o fresh
  BY <1>2, <1>7, <1>8 DEF Publish
<1> QED BY <1>2, <1>5, <1>6, <1>9, <1>10

\* It leaves the window ending where the record does.
LEMMA PublishKept ==
  ASSUME Deployed, IInv, CalmInv, KeptInv, Publish
  PROVE  KeptInv'
<1>1. PICK fresh : fresh = Fresh(pass.batch)
  OBVIOUS
<1>2. /\ feed' = IF fresh = <<>> THEN feed ELSE Offered(feed, fresh)
      /\ record' = record \o fresh /\ fresh \in Seq(TickType)
  BY <1>1, PublishIsOffered
<1>3. PICK v \in VenueType : /\ Offer(v) /\ v.hosted = venue.hosted /\ v.market = venue.market
                             /\ v.awaiting = FALSE
  BY PublishIsOffered
<1>4. /\ now \in Nat /\ record \in Seq(TickType) /\ saved \in CheckpointType \cup {NoCheckpoint}
      /\ BatchInv /\ FirstInv /\ WholeInv /\ WindowInv /\ StreamInv
  BY Unfolded DEF KeptInv, CalmInv
<1>5. /\ pc = "record" /\ UNCHANGED <<now, saved>> /\ Taken
  BY DEF Publish, Taken
<1>6. /\ FirstInv' /\ ~Taken' /\ pc' \in {"save", "finish"}
      /\ venue'.awaiting = FALSE /\ venue'.market = venue.market /\ venue'.hosted = venue.hosted
  BY <1>3, <1>4, <1>5, OfferFirst
<1>7. /\ venue.hosted /\ venue.market \in MarketType
      /\ Extended(record, record', pass.batch[1], pass.advancedTo)
      /\ Newest(record') = venue.market.last /\ venue.market.last \in TickType
  BY PublishExtends
<1>8. venue.market.drawn = Later(venue.market.last, 1) /\ venue.market.last # NoTick
  BY <1>4, <1>5, <1>7, Fields DEF BatchInv, BatchFits
<1>9. SeamInv'
  BY <1>6, <1>8 DEF SeamInv, Away, Continues
<1>10. Resumable(saved, now) /\ saved.last = NoTick => Whole(record', saved.drawn)
  <2> SUFFICES ASSUME Resumable(saved, now), saved.last = NoTick PROVE Whole(record', saved.drawn)
    OBVIOUS
  <2>1. Whole(record, saved.drawn) /\ OnStream(saved.drawn, pass.batch[1]) /\ ~Jumps(record, pass.batch[1])
    BY <1>4, <1>5 DEF WholeInv, StreamInv
  <2>2. saved.drawn \in TickType
    BY <1>4, CheckpointFacts DEF Resumable
  <2> QED BY <1>7, <2>1, <2>2, PublishWhole, WholeGrows
<1>11. WholeInv'
  BY <1>5, <1>6, <1>8, <1>10 DEF WholeInv
<1>12. /\ feed'.history \in Seq(TickType)
       /\ feed'.history # <<>> => HeadOf(feed'.history) = HeadOf(record')
  <2>1. CASE fresh = <<>>
    <3>1. record' = record /\ feed' = feed
      BY <1>2, <1>4, <2>1
    <3> QED BY <1>4, <3>1 DEF WindowInv
  <2>2. CASE fresh # <<>>
    <3>1. feed'.history \in Seq(TickType) /\ HeadOf(feed'.history) = Last(fresh).sequence
      BY <1>2, <1>4, <2>2, OfferedFacts DEF WindowInv
    <3>2. HeadOf(record') = Last(fresh).sequence
      <4>1. PICK n \in Nat, k \in Nat \ {0} : n = Len(record) /\ k = Len(fresh)
        <5>1. Len(record) \in Nat /\ Len(fresh) \in Nat \ {0}
          BY <1>2, <1>4, <2>2
        <5> QED BY <5>1
      <4>2. /\ Len(record') = n + k /\ record' \in Seq(TickType)
            /\ \A i \in (n + 1)..(n + k) : record'[i] = fresh[i - n]
        BY <1>2, <1>4, <4>1, Joined
      <4>3. n + k \in (n + 1)..(n + k) /\ (n + k) - n = k /\ record' # <<>>
        BY <4>1, <4>2
      <4>4. record'[n + k] = fresh[k]
        BY <4>2, <4>3
      <4> QED BY <4>1, <4>2, <4>3, <4>4 DEF HeadOf, Last
    <3> QED BY <3>1, <3>2
  <2> QED BY <2>1, <2>2
<1>13. ~Jumps(record', Lead')
  <2>1. Lead' = venue.market.drawn
    BY <1>6 DEF Lead
  <2>2. HeadOf(record') = venue.market.last.sequence /\ venue.market.last.sequence \in Nat
    <3>1. record' \in Seq(TickType) /\ record' # <<>>
      BY <1>7 DEF Extended
    <3> QED BY <1>7, <3>1, HeadFacts, Fields
  <2>3. venue.market.drawn.sequence = venue.market.last.sequence + 1
    BY <1>7, <1>8, NextTick
  <2> QED BY <2>1, <2>2, <2>3 DEF Jumps
<1>14. WindowInv'
  BY <1>12, <1>13 DEF WindowInv
<1> QED BY <1>6, <1>7, <1>9, <1>11, <1>14 DEF KeptInv

\* The record of a steady host refuses nothing its market publishes.
LEMMA NothingRefused ==
  ASSUME IInv, KeptInv, Taken
  PROVE  Accepts(pass.batch)
<1>1. /\ record \in Seq(TickType) /\ pass.batch \in Seq(TickType) /\ pass.batch # <<>> /\ BatchInv
      /\ Whole(record, pass.batch[1])
  BY Unfolded, VenueParts DEF KeptInv, WholeInv, Taken
<1>2. PICK b \in Seq(TickType), n \in Nat \ {0} : b = pass.batch /\ n = Len(b)
  BY <1>1
<1>3. PICK d \in TickType : d = b[1] /\ \A k \in 1..n : b[k] = Later(d, k - 1)
  <2>1. \A k \in 1..n : b[k] = Later(b[1], k - 1)
    BY <1>1, <1>2 DEF BatchInv, BatchFits
  <2>2. b[1] \in TickType
    BY <1>2
  <2> QED BY <2>1, <2>2
<1>4. HeadOf(record) \in Nat /\ d.sequence \in Nat
  BY <1>1, HeadFacts, Fields
<1>5. ASSUME NEW k \in 1..n PROVE b[k].sequence > HeadOf(record) \/ b[k] \in Range(record)
  <2>1. PICK j \in Nat : j = k - 1
    OBVIOUS
  <2>2. b[k] = Later(d, j) /\ b[k].sequence = d.sequence + j
    <3>1. b[k] = Later(d, j)
      BY <1>3, <2>1
    <3>2. Later(d, j).sequence = d.sequence + j
      BY LaterFacts
    <3> QED BY <3>1, <3>2
  <2>3. At(d, d.sequence + j) = b[k] /\ d.sequence + j \in Nat /\ d.sequence <= d.sequence + j
    BY <1>4, <2>2 DEF At
  <2>4. ASSUME d.sequence + j <= HeadOf(record) PROVE b[k] \in Range(record)
    <3>1. Recorded(record, b[k])
      BY <1>1, <1>2, <1>3, <2>3, <2>4 DEF Whole
    <3> QED BY <1>1, <3>1 DEF Recorded, Range
  <2> QED BY <1>4, <2>2, <2>4
<1> QED BY <1>2, <1>5 DEF Accepts

\* Every step of a steady host.
LEMMA KeptKept ==
  ASSUME Deployed, Steady, IInv, CalmInv, KeptInv, [Next]_vars
  PROVE  KeptInv'
<1>1. CASE Boot
  BY <1>1, BootKept
<1>2. CASE Ready
  BY <1>2, ReadyKept
<1>3. CASE Advance
  BY <1>3, AdvanceKept
<1>4. CASE Publish
  BY <1>4, PublishKept
<1>5. CASE RecordRefuses
  BY <1>5, NothingRefused DEF RecordRefuses, Taken
<1>6. CASE NothingDue
  BY <1>6, NothingDueKept
<1>7. CASE Save
  BY <1>7, SaveKept
<1>8. CASE Finish
  BY <1>8, FinishKept
<1>9. CASE Stop
  BY <1>9, StopKept
<1>10. CASE Crash
  <2>1. Exit /\ UNCHANGED <<now, saved, record>>
    BY <1>10 DEF Crash
  <2> QED BY <2>1, KeptGone DEF KeptInv, FirstInv, WholeInv
<1>11. CASE Tick
  BY <1>11, TickKept
<1>12. CASE Subscribe \/ Disconnect \/ UNCHANGED vars
  BY <1>12, KeptElsewhere DEF Subscribe, Disconnect, vars
<1> QED BY <1>1, <1>2, <1>3, <1>4, <1>5, <1>6, <1>7, <1>8, <1>9, <1>10, <1>11, <1>12 DEF Next

\* The invariant of a steady host.
LEMMA KeptAlways ==
  ASSUME Deployed PROVE Spec => [](Steady => KeptInv)
<1>1. Init => (Steady => KeptInv)
  <2> SUFFICES ASSUME Init PROVE KeptInv
    OBVIOUS
  <2>1. FirstInv /\ SeamInv /\ WholeInv
    BY DEF Init, FirstInv, Fresher, SeamInv, WholeInv, Resumable, NoVenue, NoPass, Taken
  <2>2. <<>> \in Seq(TickType)
    OBVIOUS
  <2>3. WindowInv
    BY <2>2 DEF Init, WindowInv, NoVenue, EmptyFeed
  <2> QED BY <2>1, <2>3 DEF KeptInv, Init
<1>2. IInv /\ (Prompt => CalmInv) /\ (Steady => KeptInv) /\ [Next]_vars => (Steady => KeptInv)'
  <2> SUFFICES ASSUME IInv, Prompt => CalmInv, Steady => KeptInv, [Next]_vars, Steady' PROVE KeptInv'
    OBVIOUS
  <2>1. Steady /\ Prompt
    BY SameHost DEF Steady, Prompt
  <2> QED BY <2>1, KeptKept
<1> QED BY <1>1, <1>2, Inductive, CalmAlways, PTL DEF Spec

\* A host that keeps up never has its market unhosted by its own record or feed, nor
\* a boot refused (VenueService's #recordPass, #publishRefused and #primeFromRecord):
\* however it is killed, restarted, stalled and reopened.
THEOREM MarketStaysAlwaysHosted ==
  ASSUME Deployed, {"passes", "stops", "seams", "genesis"} \subseteq Promised
  PROVE  Spec => []MarketStaysHosted
<1>1. IInv /\ (Steady => KeptInv) => MarketStaysHosted
  <2> SUFFICES ASSUME IInv, HostKeepsUp, Steady => KeptInv
               PROVE  /\ pc \notin {"down", "booting"} => venue.hosted
                      /\ pc = "down" =>
                           LET opening == Opening(saved, Newest(record), now, now) IN
                           opening.kind = "seam" => Declarable(HeadOf(record), ResumesAt(opening.market))
    BY DEF MarketStaysHosted
  <2>1. KeptInv
    BY DEF HostKeepsUp, Steady
  <2>2. PICK opening : opening = Opening(saved, Newest(record), now, now)
    OBVIOUS
  <2>3. ASSUME opening.kind = "seam" PROVE Declarable(HeadOf(record), ResumesAt(opening.market))
    <3>1. PICK m : m = Primed(opening.market)
      OBVIOUS
    <3>2. m \in MarketType /\ Jumps(record, m.drawn) /\ ResumesAt(opening.market) = m.drawn.sequence
      BY <2>1, <2>2, <2>3, <3>1, Unfolded, OpenedFrom DEF KeptInv, FirstInv
    <3>3. HeadOf(record) \in Nat /\ m.drawn.sequence \in Nat
      BY <3>2, Unfolded, HeadFacts, Fields DEF MarketType
    <3> QED BY <3>2, <3>3 DEF Declarable, Jumps
  <2> QED BY <2>1, <2>2, <2>3 DEF KeptInv
<1> QED BY <1>1, KeptAlways, Inductive, PTL

-----------------------------------------------------------------------------
(* What a host that keeps up is promised, last: its clients are not accused *)

\* Where a process that started now would have the numbers go on.
Far(cp, rec, t) ==
  LET opening == Opening(cp, Newest(rec), t, t) IN
  IF opening.kind = "seam" THEN ResumesAt(opening.market) ELSE HeadOf(rec) + 1

\* A seam the feed declares is the one its market is past, and not further than the
\* one that would follow it.
DeclaredInv == feed.seam # NoSeam =>
  /\ feed.history = <<>>
  /\ feed.seam.resumesAt = Lead.sequence /\ Jumps(record, Lead)
  /\ ~Resumable(saved, now) /\ feed.seam.resumesAt <= Far(saved, record, now)

\* The window's last tick is its newest; without a window or a seam there is no record.
HistoryInv ==
  /\ \A k \in 1..Len(feed.history) : feed.history[k].sequence <= HeadOf(feed.history)
  /\ pc # "down" /\ feed.history = <<>> /\ feed.seam = NoSeam => record = <<>>

\* A client asks for no more than what comes next, now or once the process is back.
Furthest == IF pc = "down" THEN Far(saved, record, now)
            ELSE IF feed.seam # NoSeam THEN feed.seam.resumesAt ELSE HeadOf(record) + 1
ClientInv ==
  /\ client \in [next : Nat, live : BOOLEAN, accused : {FALSE}]
  /\ client.next <= Furthest

ServedInv == (pc = "down" => feed.seam = NoSeam) /\ DeclaredInv /\ HistoryInv /\ ClientInv

\* A declared seam is one.
LEMMA DeclaredIs ==
  ASSUME NEW p \in Nat, NEW r \in Nat
  PROVE  Declared(p, r).seam # NoSeam /\ Declared(p, r).history = <<>> /\ Declared(p, r).seam.resumesAt = r
<1>1. [publishedThrough |-> p, resumesAt |-> r] \in AnySeam
  BY DEF AnySeam
<1> QED BY <1>1, NullAssumption DEF Declared

\* The numbers go on past the head, and past a seam by more than a lease.
LEMMA FarFacts ==
  ASSUME Deployed, NEW rec \in Seq(TickType), NEW t \in Nat, RecordInv(rec, t),
         NEW price \in PriceType, QuoteInv(rec, price, t),
         NEW cp \in CheckpointType \cup {NoCheckpoint}, SavedInv(rec, cp, price, t), Fresher(cp, t)
  PROVE  /\ Far(cp, rec, t) \in Nat /\ HeadOf(rec) + 1 <= Far(cp, rec, t)
         /\ ~Resumable(cp, t) /\ rec # <<>> => HeadOf(rec) + SequenceLease < Far(cp, rec, t)
<1>1. PICK opening, m : opening = Opening(cp, Newest(rec), t, t) /\ m = Primed(opening.market)
  OBVIOUS
<1>2. /\ m \in MarketType
      /\ opening.kind = "seam" => /\ Jumps(rec, m.drawn) /\ ResumesAt(opening.market) = m.drawn.sequence
                                  /\ HeadOf(rec) + SequenceLease < m.drawn.sequence
      /\ ~Resumable(cp, t) /\ rec # <<>> => opening.kind = "seam"
  BY <1>1, OpenedFrom
<1>3. HeadOf(rec) \in Nat /\ m.drawn.sequence \in Nat
  BY <1>2, HeadFacts, Fields DEF MarketType
<1>4. Far(cp, rec, t) = IF opening.kind = "seam" THEN m.drawn.sequence ELSE HeadOf(rec) + 1
  BY <1>1, <1>2 DEF Far
<1>5. opening.kind = "seam" => HeadOf(rec) + 1 <= m.drawn.sequence
  BY <1>2, <1>3 DEF Jumps
<1> QED BY <1>2, <1>3, <1>4, <1>5

\* As time passes they go on no earlier.
LEMMA FarAges ==
  ASSUME Deployed, NEW rec \in Seq(TickType), NEW t \in Nat, RecordInv(rec, t),
         NEW price \in PriceType, QuoteInv(rec, price, t),
         NEW cp \in CheckpointType \cup {NoCheckpoint}, SavedInv(rec, cp, price, t), Fresher(cp, t),
         Fresher(cp, t + 1)
  PROVE  Far(cp, rec, t) <= Far(cp, rec, t + 1)
<1>1. Far(cp, rec, t) \in Nat
  BY FarFacts
<1>2. CASE Opening(cp, Newest(rec), t, t).kind = "seam"
  <2>1. /\ Opening(cp, Newest(rec), t + 1, t + 1).kind = "seam"
        /\ ResumesAt(Opening(cp, Newest(rec), t + 1, t + 1).market) = ResumesAt(Opening(cp, Newest(rec), t, t).market)
    BY <1>2, SeamAges
  <2> QED BY <1>1, <1>2, <2>1 DEF Far
<1>3. CASE Opening(cp, Newest(rec), t, t).kind # "seam"
  <2>1. Far(cp, rec, t) = HeadOf(rec) + 1
    BY <1>3 DEF Far
  <2>2. t + 1 \in Nat /\ t <= t + 1
    OBVIOUS
  <2>3. RecordInv(rec, t + 1) /\ SavedInv(rec, cp, price, t + 1)
    BY <2>2, RecordAges, Ages
  <2>4. QuoteInv(rec, price, t + 1)
    <3>1. price.asOf \in Int
      BY DEF PriceType
    <3> QED BY <3>1 DEF QuoteInv
  <2>5. HeadOf(rec) + 1 <= Far(cp, rec, t + 1)
    BY <2>2, <2>3, <2>4, FarFacts
  <2> QED BY <2>1, <2>5
<1> QED BY <1>2, <1>3

\* A checkpoint of a market past a seam is not one to resume, and the numbers go on
\* past what the market is going to publish.
LEMMA PlanIsFurther ==
  ASSUME NEW rec \in Seq(TickType), NEW t \in Nat, RecordInv(rec, t),
         NEW m \in MarketType, NEW u \in Nat, NEW cp, cp = CheckpointMarket(m, u), MarketInv(m),
         m.last # NoTick => Near(rec, m.last), Jumps(rec, m.drawn)
  PROVE  ~Resumable(cp, t) /\ m.drawn.sequence <= Far(cp, rec, t)
<1>1. /\ cp \in CheckpointType /\ cp # NoCheckpoint /\ cp.drawn = m.drawn /\ cp.last = m.last /\ cp.pending = TRUE
      /\ m.drawn \in TickType /\ m.drawn.sequence \in Nat /\ m.last \in MaybeTick /\ m.pending = TRUE
      /\ HeadOf(rec) \in Nat /\ HeadOf(rec) + 1 < m.drawn.sequence
  <2>1. cp \in CheckpointType /\ cp # NoCheckpoint /\ cp.drawn = m.drawn /\ cp.last = m.last
    BY PlanFacts
  <2>2. m.drawn \in TickType /\ m.last \in MaybeTick /\ m.pending = TRUE
    BY DEF MarketType
  <2>3. HeadOf(rec) \in Nat /\ m.drawn.sequence \in Nat
    BY <2>2, HeadFacts, Fields
  <2> QED BY <2>1, <2>2, <2>3, CheckpointFacts DEF Jumps
<1>2. m.last # NoTick /\ m.last \in TickType /\ m.last.sequence \in Nat /\ m.last.sequence <= HeadOf(rec)
  <2>1. m.last # NoTick
    BY <1>1 DEF MarketInv, Shape
  <2> QED BY <1>1, <2>1, RecordedFacts, Fields DEF Near, MaybeTick
<1>3. ~UsableRecord(cp)
  BY <1>1, <1>2 DEF UsableRecord
<1>4. cp.leased = Larger(m.last.sequence, m.drawn.sequence) + SequenceLease
  BY <1>1, <1>2 DEF CheckpointMarket
<1>5. PICK d \in Nat, q \in Nat, l \in Nat, h \in Nat :
        d = m.drawn.sequence /\ q = m.last.sequence /\ l = SequenceLease /\ h = HeadOf(rec)
  BY <1>1, <1>2, Constants
<1>6. cp.leased \in Nat /\ d <= cp.leased
  BY <1>4, <1>5 DEF Larger
<1>7. Opening(cp, Newest(rec), t, t).kind = "seam" /\ Opening(cp, Newest(rec), t, t).market = SeamFrom(cp, Newest(rec), t, t)
  BY <1>1, <1>3 DEF Opening
<1>8. PICK p \in Nat : p = IF Newest(rec) = NoTick THEN 0 ELSE Newest(rec).sequence
  <2>1. rec # <<>> => Newest(rec) \in TickType
    BY HeadFacts
  <2>2. rec = <<>> => Newest(rec) = NoTick
    BY HeadFacts
  <2>3. (IF Newest(rec) = NoTick THEN 0 ELSE Newest(rec).sequence) \in Nat
    BY <2>1, <2>2, Fields
  <2> QED BY <2>3
<1>9. Far(cp, rec, t) = Larger(cp.leased, Larger(q, p) + l) + 1
  BY <1>1, <1>2, <1>5, <1>7, <1>8 DEF Far, SeamFrom, Seamed, Hosted, EngineAt, ResumesAt
<1>10. d <= Larger(cp.leased, Larger(q, p) + l) + 1
  BY <1>6 DEF Larger
<1> QED BY <1>3, <1>5, <1>9, <1>10 DEF Resumable

\* The next tick is one, and an instant's invariants say where numbers go on.
LEMMA ServedFacts ==
  ASSUME Deployed, IInv, KeptInv, ServedInv
  PROVE  /\ now \in Nat /\ record \in Seq(TickType) /\ HeadOf(record) \in Nat
         /\ pc # "down" => Lead \in TickType /\ Lead.sequence \in Nat
         /\ Far(saved, record, now) \in Nat /\ HeadOf(record) + 1 <= Far(saved, record, now)
         /\ client.next \in Nat /\ Furthest \in Nat
         /\ pc # "down" => Furthest <= Far(saved, record, now)
<1>1. /\ now \in Nat /\ record \in Seq(TickType) /\ HeadOf(record) \in Nat
      /\ saved \in CheckpointType \cup {NoCheckpoint} /\ quoted \in PriceType
      /\ RecordInv(record, now) /\ QuoteInv(record, quoted, now) /\ SavedInv(record, saved, quoted, now)
      /\ Fresher(saved, now)
  BY Unfolded, HeadFacts DEF KeptInv, FirstInv
<1>2. Far(saved, record, now) \in Nat /\ HeadOf(record) + 1 <= Far(saved, record, now)
  BY <1>1, FarFacts
<1>3. pc # "down" => Lead \in TickType /\ Lead.sequence \in Nat
  <2> SUFFICES ASSUME pc # "down" PROVE Lead \in TickType
    BY Fields
  <2>1. CASE Taken
    <3>1. pass.batch \in Seq(TickType) /\ pass.batch # <<>>
      BY <2>1, VenueParts DEF Taken
    <3>2. pass.batch[1] \in TickType
      BY <3>1
    <3> QED BY <2>1, <3>2 DEF Lead
  <2>2. CASE ~Taken
    <3>1. venue.market \in MarketType
      BY Unfolded DEF KeptInv
    <3> QED BY <2>2, <3>1 DEF Lead, MarketType
  <2> QED BY <2>1, <2>2
<1>4. client.next \in Nat
  BY DEF ServedInv, ClientInv
<1>5. pc # "down" => Furthest \in Nat /\ Furthest <= Far(saved, record, now)
  BY <1>1, <1>2, <1>3 DEF Furthest, ServedInv, DeclaredInv
<1> QED BY <1>1, <1>2, <1>3, <1>4, <1>5 DEF Furthest

\* A step that leaves the record, the feed and its client, and a market past the seam
\* the feed declares.
LEMMA ServedUnder ==
  ASSUME ServedInv, UNCHANGED <<now, record, feed, client>>, pc # "down", pc' # "down",
         feed.seam # NoSeam =>
           /\ feed.seam.resumesAt = Lead'.sequence /\ Jumps(record, Lead')
           /\ ~Resumable(saved', now) /\ feed.seam.resumesAt <= Far(saved', record, now)
  PROVE  ServedInv'
<1>1. DeclaredInv'
  BY DEF ServedInv, DeclaredInv
<1>2. HistoryInv'
  BY DEF ServedInv, HistoryInv
<1>3. ClientInv'
  BY DEF ServedInv, ClientInv, Furthest
<1> QED BY <1>1, <1>2, <1>3 DEF ServedInv

\* A step that leaves what comes next as well, and the checkpoint.
LEMMA ServedStays ==
  ASSUME ServedInv, UNCHANGED <<now, saved, record, feed, client>>, pc # "down", pc' # "down", Lead' = Lead
  PROVE  ServedInv'
<1>1. feed.seam # NoSeam =>
        /\ feed.seam.resumesAt = Lead'.sequence /\ Jumps(record, Lead')
        /\ ~Resumable(saved', now) /\ feed.seam.resumesAt <= Far(saved', record, now)
  BY DEF ServedInv, DeclaredInv
<1> QED BY <1>1, ServedUnder

\* A step that changes nothing it is about.
LEMMA ServedElsewhere ==
  ASSUME ServedInv, UNCHANGED <<now, saved, record, pc, venue, pass, feed, client>>
  PROVE  ServedInv'
<1>1. Lead' = Lead
  BY DEF Lead, Taken
<1>2. DeclaredInv'
  BY <1>1 DEF ServedInv, DeclaredInv
<1>3. HistoryInv' /\ ClientInv'
  BY DEF ServedInv, HistoryInv, ClientInv, Furthest
<1> QED BY <1>2, <1>3 DEF ServedInv

\* The process is gone: what its client may ask for is no further than where the
\* next one goes on.
LEMMA ServedGone ==
  ASSUME Deployed, IInv, KeptInv, ServedInv, Exit, UNCHANGED <<now, record>>, pc # "down",
         Far(saved', record, now) \in Nat, HeadOf(record) + 1 <= Far(saved', record, now),
         feed.seam # NoSeam => feed.seam.resumesAt <= Far(saved', record, now)
  PROVE  ServedInv'
<1>1. /\ pc' = "down" /\ feed' = EmptyFeed /\ client' = Dropped(client)
  BY DEF Exit
<1>2. client \in [next : Nat, live : BOOLEAN, accused : {FALSE}] /\ client.next <= Furthest
  BY DEF ServedInv, ClientInv
<1>3. client' \in [next : Nat, live : BOOLEAN, accused : {FALSE}] /\ client'.next = client.next
  BY <1>1, <1>2 DEF Dropped
<1>4. /\ HeadOf(record) \in Nat /\ Furthest \in Nat /\ client.next \in Nat
  BY ServedFacts
<1>5. Furthest <= Far(saved', record, now)
  BY DEF Furthest
<1>6. client.next <= Far(saved', record, now)
  BY <1>2, <1>4, <1>5
<1>7. Furthest' = Far(saved', record, now)
  BY <1>1 DEF Furthest
<1>8. feed'.seam = NoSeam /\ feed'.history = <<>>
  BY <1>1 DEF EmptyFeed
<1>9. DeclaredInv' /\ HistoryInv'
  BY <1>1, <1>8 DEF DeclaredInv, HistoryInv
<1> QED BY <1>1, <1>3, <1>6, <1>7, <1>8, <1>9 DEF ServedInv, ClientInv

\* The start of a process: the feed is told where the numbers go on.
LEMMA BootServed ==
  ASSUME Deployed, IInv, KeptInv, ServedInv, Boot
  PROVE  ServedInv'
<1>1. PICK opening : opening = Opening(saved, Newest(record), now, now)
  OBVIOUS
<1>2. PICK seamed \in BOOLEAN : seamed = (opening.kind = "seam")
  <2>1. (opening.kind = "seam") \in BOOLEAN
    OBVIOUS
  <2> QED BY <2>1
<1>3. UNCHANGED <<now, saved, record, pass, client>> /\ pc = "down"
  BY DEF Boot
<1>4. \/ UNCHANGED <<pc, venue, feed>>
      \/ /\ pc' = "booting"
         /\ venue' = [NoVenue EXCEPT !.market = Primed(opening.market), !.hosted = TRUE,
                                     !.seamed = seamed, !.latest = Newest(record)]
         /\ feed' = IF seamed THEN Declared(HeadOf(record), ResumesAt(opening.market))
                    ELSE [EmptyFeed EXCEPT !.history = ContiguousTail(record, RetainTicks)]
  BY <1>1, <1>2 DEF Boot
<1>5. CASE UNCHANGED <<pc, venue, feed>>
  BY <1>3, <1>5, ServedElsewhere
<1>6. CASE ~UNCHANGED <<pc, venue, feed>>
  <2>1. venue'.market = Primed(opening.market) /\ pc' = "booting" /\ ~Taken'
    BY <1>4, <1>6 DEF NoVenue, Taken
  <2>2. /\ record \in Seq(TickType) /\ HeadOf(record) \in Nat /\ client.next \in Nat
        /\ client.next <= Far(saved, record, now)
        /\ client \in [next : Nat, live : BOOLEAN, accused : {FALSE}]
    BY <1>3, ServedFacts DEF ServedInv, ClientInv, Furthest
  <2>3. CASE seamed
    <3>1. PICK m : m = Primed(opening.market)
      OBVIOUS
    <3>2. /\ m \in MarketType /\ Jumps(record, m.drawn) /\ ResumesAt(opening.market) = m.drawn.sequence
          /\ ~Resumable(saved, now)
      <4>1. /\ m \in MarketType /\ Jumps(record, m.drawn) /\ ResumesAt(opening.market) = m.drawn.sequence
        <5>1. /\ now \in Nat /\ record \in Seq(TickType) /\ RecordInv(record, now)
              /\ quoted \in PriceType /\ QuoteInv(record, quoted, now)
              /\ saved \in CheckpointType \cup {NoCheckpoint} /\ SavedInv(record, saved, quoted, now)
              /\ Fresher(saved, now)
          BY Unfolded DEF KeptInv, FirstInv
        <5>2. opening.kind = "seam"
          BY <1>2, <2>3
        <5> QED BY <1>1, <3>1, <5>1, <5>2, OpenedFrom
      <4>2. ~Resumable(saved, now)
        BY <1>1, <1>2, <2>3 DEF Opening, Resumable
      <4> QED BY <4>1, <4>2
    <3>3. PICK r \in Nat : r = m.drawn.sequence
      BY <3>2, Fields DEF MarketType
    <3>4. feed'.seam # NoSeam /\ feed'.history = <<>> /\ feed'.seam.resumesAt = r
      <4>1. feed' = Declared(HeadOf(record), r)
        BY <1>4, <1>6, <2>3, <3>2, <3>3
      <4> QED BY <2>2, <4>1, DeclaredIs
    <3>5. Far(saved, record, now) = r
      BY <1>1, <1>2, <2>3, <3>2, <3>3 DEF Far
    <3>6. Lead' = m.drawn
      BY <2>1, <3>1 DEF Lead
    <3>7. DeclaredInv'
      BY <1>3, <3>2, <3>3, <3>4, <3>5, <3>6 DEF DeclaredInv
    <3>8. HistoryInv'
      BY <3>4 DEF HistoryInv
    <3>9. ClientInv'
      BY <1>3, <2>1, <2>2, <3>4, <3>5 DEF ClientInv, Furthest
    <3> QED BY <2>1, <3>7, <3>8, <3>9 DEF ServedInv
  <2>4. CASE ~seamed
    <3>1. feed'.history = ContiguousTail(record, RetainTicks) /\ feed'.seam = NoSeam
      BY <1>4, <1>6, <2>4 DEF EmptyFeed
    <3>2. /\ record # <<>> => feed'.history # <<>> /\ HeadOf(feed'.history) = HeadOf(record)
          /\ record = <<>> => feed'.history = <<>>
          /\ record # <<>> => \A k \in 1..Len(feed'.history) : Recorded(record, feed'.history[k])
      BY <2>2, <3>1, VenueAssumption, TailFacts
    <3>3. \A k \in 1..Len(feed'.history) : feed'.history[k].sequence <= HeadOf(feed'.history)
      <4>1. CASE record = <<>>
        BY <3>2, <4>1
      <4>2. CASE record # <<>>
        BY <2>2, <3>2, <4>2, Unfolded, RecordedFacts
      <4> QED BY <4>1, <4>2
    <3>4. HistoryInv'
      BY <1>3, <3>2, <3>3 DEF HistoryInv
    <3>5. Far(saved, record, now) = HeadOf(record) + 1
      BY <1>1, <1>2, <2>4 DEF Far
    <3>6. ClientInv'
      BY <1>3, <2>1, <2>2, <3>1, <3>5 DEF ClientInv, Furthest
    <3>7. DeclaredInv'
      BY <3>1 DEF DeclaredInv
    <3> QED BY <2>1, <3>4, <3>6, <3>7 DEF ServedInv
  <2> QED BY <2>3, <2>4
<1> QED BY <1>5, <1>6

\* What an instant is known by.
LEMMA InstantFacts ==
  ASSUME IInv, KeptInv
  PROVE  /\ now \in Nat /\ record \in Seq(TickType) /\ RecordInv(record, now)
         /\ quoted \in PriceType /\ QuoteInv(record, quoted, now)
         /\ saved \in CheckpointType \cup {NoCheckpoint} /\ SavedInv(record, saved, quoted, now)
         /\ Fresher(saved, now)
BY Unfolded DEF KeptInv, FirstInv

\* A market whose next tick is past a seam does not go on from its last.
LEMMA JumpsIsAway ==
  ASSUME IInv, venue.hosted, ~Taken, Jumps(record, venue.market.drawn)
  PROVE  Away(venue.market)
<1>1. PICK m \in MarketType : m = venue.market
  BY Unfolded
<1>2. /\ record \in Seq(TickType) /\ RecordInv(record, now) /\ Shape(m.drawn, m.last)
      /\ m.last # NoTick => Near(record, m.last)
  BY <1>1, Unfolded DEF HostedInv, MarketInv, OpenInv
<1>3. ~(m.last = NoTick \/ Continues(m.drawn, m.last))
  BY <1>1, <1>2, GoesOnFits
<1> QED BY <1>1, <1>3 DEF Away

\* The market opened past the seam the feed declares is armed again there.
LEMMA ReadyServed ==
  ASSUME Deployed, IInv, KeptInv, ServedInv, Ready
  PROVE  ServedInv'
<1>1. PICK again : again = Opening(saved, Newest(record), now, now)
  OBVIOUS
<1>2. /\ UNCHANGED <<now, saved, record, pass, feed, client>> /\ pc = "booting" /\ pc' = "idle"
      /\ ~Taken /\ ~Taken'
  BY DEF Ready, Taken
<1>3. venue \in VenueType /\ venue.hosted /\ SeamInv
  BY <1>2, Unfolded DEF KeptInv
<1>4. ASSUME feed.seam # NoSeam
      PROVE  feed.seam.resumesAt = Lead'.sequence /\ Jumps(record, Lead')
  <2>1. Jumps(record, venue.market.drawn)
    BY <1>2, <1>4 DEF ServedInv, DeclaredInv, Lead
  <2>2. venue.seamed
    BY <1>2, <1>3, <2>1, JumpsIsAway DEF SeamInv, Waits
  <2>3. again.kind = "seam" /\ feed.seam.resumesAt = ResumesAt(again.market)
    BY <1>1, <1>2, <1>3, <2>2 DEF SeamInv, Announced
  <2>4. PICK m : m = Primed(again.market)
    OBVIOUS
  <2>5. Jumps(record, m.drawn) /\ ResumesAt(again.market) = m.drawn.sequence
    BY <1>1, <2>3, <2>4, InstantFacts, OpenedFrom
  <2>6. venue' = [venue EXCEPT !.market = m, !.awaiting = venue.seamed, !.checkpointAt = now]
    BY <1>1, <2>2, <2>3, <2>4 DEF Ready
  <2>7. Lead' = m.drawn
    BY <1>2, <1>3, <2>6 DEF Lead, VenueType
  <2> QED BY <2>3, <2>5, <2>7
<1>5. feed.seam # NoSeam => ~Resumable(saved', now) /\ feed.seam.resumesAt <= Far(saved', record, now)
  BY <1>2 DEF ServedInv, DeclaredInv
<1> QED BY <1>2, <1>4, <1>5, ServedUnder

\* As time passes.
LEMMA TickServed ==
  ASSUME Deployed, IInv, KeptInv, KeptInv', ServedInv, Tick
  PROVE  ServedInv'
<1>1. UNCHANGED <<saved, record, pc, venue, pass, feed, client>> /\ now' = now + 1
  BY DEF Tick
<1>2. Fresher(saved, now + 1)
  BY <1>1 DEF KeptInv, FirstInv
<1>3. Far(saved, record, now) <= Far(saved, record, now + 1)
  BY <1>2, InstantFacts, FarAges
<1>4. PICK f \in Nat, g \in Nat : /\ f = Far(saved, record, now) /\ g = Far(saved, record, now') /\ f <= g
  <2>1. Far(saved, record, now) \in Nat
    BY ServedFacts
  <2>2. Far(saved, record, now + 1) \in Nat
    <3>1. now + 1 \in Nat /\ now <= now + 1
      BY InstantFacts
    <3>2. RecordInv(record, now + 1) /\ SavedInv(record, saved, quoted, now + 1)
      BY <3>1, InstantFacts, RecordAges, Ages
    <3>3. QuoteInv(record, quoted, now + 1)
      <4>1. quoted.asOf \in Int /\ now \in Nat /\ QuoteInv(record, quoted, now)
        BY InstantFacts DEF PriceType
      <4> QED BY <4>1 DEF QuoteInv
    <3> QED BY <1>2, <3>1, <3>2, <3>3, InstantFacts, FarFacts
  <2> QED BY <1>1, <1>3, <2>1, <2>2
<1>5. Resumable(saved, now') => Resumable(saved, now)
  BY <1>1, InstantFacts, ResumableBefore
<1>6. (Taken' <=> Taken) /\ Lead' = Lead
  BY <1>1 DEF Taken, Lead
<1>7. DeclaredInv'
  <2> SUFFICES ASSUME feed.seam # NoSeam
               PROVE  /\ feed.history = <<>>
                      /\ feed.seam.resumesAt = Lead.sequence /\ Jumps(record, Lead)
                      /\ ~Resumable(saved, now') /\ feed.seam.resumesAt <= g
    BY <1>1, <1>4, <1>6 DEF DeclaredInv
  <2>1. /\ feed.history = <<>> /\ feed.seam.resumesAt = Lead.sequence /\ Jumps(record, Lead)
        /\ ~Resumable(saved, now) /\ feed.seam.resumesAt <= f
    BY <1>4 DEF ServedInv, DeclaredInv
  <2>2. feed.seam.resumesAt \in Nat
    <3>1. pc # "down"
      BY DEF ServedInv
    <3> QED BY <2>1, <3>1, ServedFacts
  <2> QED BY <1>4, <1>5, <2>1, <2>2
<1>8. HistoryInv'
  BY <1>1 DEF ServedInv, HistoryInv
<1>9. ClientInv'
  <2>1. client.next \in Nat /\ client.next <= Furthest
    BY ServedFacts DEF ServedInv, ClientInv
  <2>2. CASE pc = "down"
    <3>1. client.next <= f /\ Furthest' = g
      BY <1>1, <1>4, <2>1, <2>2 DEF Furthest
    <3>2. client.next <= g
      BY <1>4, <2>1, <3>1
    <3> QED BY <1>1, <3>1, <3>2 DEF ServedInv, ClientInv
  <2>3. CASE pc # "down"
    <3>1. Furthest' = Furthest
      BY <1>1, <2>3 DEF Furthest
    <3> QED BY <1>1, <3>1 DEF ServedInv, ClientInv
  <2> QED BY <2>2, <2>3
<1> QED BY <1>1, <1>7, <1>8, <1>9 DEF ServedInv

\* A pass that published nothing.
LEMMA NothingDueServed ==
  ASSUME IInv, KeptInv, ServedInv, NothingDue
  PROVE  ServedInv'
<1>1. /\ UNCHANGED <<now, saved, record, feed, client>> /\ pc = "record" /\ ~Taken /\ Offer(venue)
  BY DEF NothingDue, Taken
<1>2. venue \in VenueType /\ FirstInv
  BY Unfolded DEF KeptInv
<1>3. ~Taken' /\ pc' \in {"save", "finish"} /\ venue'.market = venue.market
  BY <1>1, <1>2, OfferFirst
<1>4. Lead' = Lead
  BY <1>1, <1>3 DEF Lead
<1> QED BY <1>1, <1>3, <1>4, ServedStays

\* The end of a pass.
LEMMA FinishServed ==
  ASSUME IInv, KeptInv, ServedInv, Finish
  PROVE  ServedInv'
<1>1. /\ UNCHANGED <<now, saved, record, feed, client>> /\ pc = "finish" /\ pc' = "idle"
      /\ ~Taken /\ ~Taken' /\ (venue.hosted => venue'.market.drawn = venue.market.drawn)
  BY FinishIs
<1>2. venue.hosted
  BY <1>1 DEF KeptInv
<1>3. Lead' = Lead
  BY <1>1, <1>2 DEF Lead
<1> QED BY <1>1, <1>3, ServedStays

\* The venue stops between two passes.
LEMMA StopServed ==
  ASSUME ServedInv, Stop
  PROVE  ServedInv'
<1>1. /\ UNCHANGED <<now, saved, record, venue, feed, client>> /\ pc = "idle" /\ pc' = "save" /\ ~Taken /\ ~Taken'
  BY DEF Stop, Taken
<1>2. Lead' = Lead
  BY <1>1 DEF Lead
<1> QED BY <1>1, <1>2, ServedStays

\* The process is killed.
LEMMA CrashServed ==
  ASSUME Deployed, IInv, KeptInv, ServedInv, Crash
  PROVE  ServedInv'
<1>1. pc # "down" /\ Exit /\ UNCHANGED <<now, saved, record>>
  BY DEF Crash
<1>2. Far(saved', record, now) \in Nat /\ HeadOf(record) + 1 <= Far(saved', record, now)
  BY <1>1, ServedFacts
<1>3. feed.seam # NoSeam => feed.seam.resumesAt <= Far(saved', record, now)
  BY <1>1 DEF ServedInv, DeclaredInv
<1> QED BY <1>1, <1>2, <1>3, ServedGone

\* The client is disconnected.
LEMMA DisconnectServed ==
  ASSUME ServedInv, Disconnect
  PROVE  ServedInv'
<1>1. /\ UNCHANGED <<now, saved, record, pc, venue, pass, feed>> /\ client' = Dropped(client)
  BY DEF Disconnect
<1>2. (Taken' <=> Taken) /\ Lead' = Lead
  BY <1>1 DEF Taken, Lead
<1>3. DeclaredInv' /\ HistoryInv' /\ Furthest' = Furthest
  BY <1>1, <1>2 DEF ServedInv, DeclaredInv, HistoryInv, Furthest
<1>4. client \in [next : Nat, live : BOOLEAN, accused : {FALSE}] /\ client.next <= Furthest
  BY DEF ServedInv, ClientInv
<1>5. client' \in [next : Nat, live : BOOLEAN, accused : {FALSE}] /\ client'.next = client.next
  BY <1>1, <1>4 DEF Dropped
<1> QED BY <1>1, <1>3, <1>4, <1>5 DEF ServedInv, ClientInv

\* A market reopened in place is announced where its numbers go on, no further than
\* where a process that took over would have them.
LEMMA ReopenServed ==
  ASSUME Deployed, IInv, CalmInv, KeptInv, ServedInv, UNCHANGED <<now, saved, record>>, pc = "idle", pc' = "record",
         ~Taken', CatchUpTooLarge(venue.market, now), ~Away(venue.market), venue.market.last # NoTick,
         NEW n, n = Primed(Reopened(venue.market, now)), venue'.market = n,
         NEW resumes, resumes = ResumesAt(Reopened(venue.market, now)),
         feed' = Declared(venue.market.last.sequence, resumes), client' = Dropped(client)
  PROVE  ServedInv'
<1>1. PICK m \in MarketType : m = venue.market /\ venue.hosted /\ ~Taken
  <2>1. venue.hosted /\ ~Taken
    BY DEF KeptInv, Taken
  <2> QED BY <2>1, Unfolded
<1>2. /\ n \in MarketType /\ Jumps(record, n.drawn) /\ n.drawn.sequence = resumes
  BY <1>1, ReopenJumps
<1>3. Recorded(record, m.last) /\ m.last \in TickType /\ record # <<>>
      /\ m.last.sequence <= HeadOf(record) /\ m.last.value.instant <= now
  <2>1. Near(record, m.last)
    BY <1>1, Unfolded DEF HostedInv, OpenInv
  <2>2. Recorded(record, m.last)
    BY <2>1 DEF Near
  <2> QED BY <2>2, InstantFacts, RecordedFacts
<1>4. resumes = (m.last.sequence + SequenceLease) + 1
  BY <1>1, <1>2, <1>3, InstantFacts, ReopenIs
<1>5. PICK h \in Nat, q \in Nat, l \in Nat, r \in Nat : /\ h = HeadOf(record) /\ q = m.last.sequence
                                                         /\ l = SequenceLease /\ r = resumes
  <2>1. HeadOf(record) \in Nat /\ m.last.sequence \in Nat /\ SequenceLease \in Nat /\ resumes \in Nat
    <3>1. n.drawn \in TickType
      BY <1>2 DEF MarketType
    <3> QED BY <1>2, <1>3, <3>1, InstantFacts, HeadFacts, Fields, Constants
  <2> QED BY <2>1
<1>6. ~Resumable(saved, now)
  <2>1. CASE saved = NoCheckpoint
    BY <2>1 DEF Resumable
  <2>2. CASE saved # NoCheckpoint
    <3>1. saved.savedAt \in Nat /\ saved.savedAt <= Watch(m)
      BY <1>1, <2>2, InstantFacts, CheckpointFacts DEF CalmInv, WatchedInv
    <3> QED BY <1>1, <3>1, InstantFacts, BehindIsStale
  <2> QED BY <2>1, <2>2
<1>7. PICK f \in Nat : f = Far(saved, record, now) /\ h + l < f
  <2>1. Far(saved, record, now) \in Nat /\ HeadOf(record) + SequenceLease < Far(saved, record, now)
    BY <1>3, <1>6, InstantFacts, FarFacts
  <2> QED BY <1>5, <2>1
<1>8. r <= f
  <2>1. r = (q + l) + 1 /\ q <= h
    BY <1>3, <1>4, <1>5
  <2> QED BY <1>7, <2>1
<1>9. feed'.seam # NoSeam /\ feed'.history = <<>> /\ feed'.seam.resumesAt = r
  BY <1>1, <1>3, <1>5, DeclaredIs, Fields
<1>10. Lead' = n.drawn
  BY DEF Lead
<1>11. DeclaredInv'
  BY <1>2, <1>5, <1>6, <1>7, <1>8, <1>9, <1>10 DEF DeclaredInv
<1>12. HistoryInv'
  BY <1>9 DEF HistoryInv
<1>13. ClientInv'
  <2>1. feed.seam = NoSeam
    <3>1. ~Jumps(record, venue.market.drawn)
      BY <1>1, JumpsIsAway
    <3> QED BY <1>1, <3>1 DEF ServedInv, DeclaredInv, Lead
  <2>2. client.next \in Nat /\ client.next <= h + 1
    BY <1>5, <2>1 DEF ServedInv, ClientInv, Furthest
  <2>3. h + 1 < r
    BY <1>2, <1>5 DEF Jumps
  <2>4. client.next <= r
    BY <2>2, <2>3
  <2>5. client' \in [next : Nat, live : BOOLEAN, accused : {FALSE}] /\ client'.next = client.next
    BY DEF ServedInv, ClientInv, Dropped
  <2>6. Furthest' = r
    BY <1>9 DEF Furthest
  <2> QED BY <2>4, <2>5, <2>6 DEF ClientInv
<1> QED BY <1>11, <1>12, <1>13 DEF ServedInv

\* The start of a pass.
LEMMA AdvanceServed ==
  ASSUME Deployed, IInv, CalmInv, KeptInv, ServedInv, Advance
  PROVE  ServedInv'
<1>1. /\ UNCHANGED <<now, saved, record>> /\ pc = "idle" /\ pc' = "record" /\ ~Taken
      /\ venue.hosted /\ ~CatchUpTooLarge(venue.market, now) =>
           /\ venue'.market = Advanced(venue.market, now)
           /\ pass'.batch = Published(venue.market, now) /\ UNCHANGED <<feed, client>>
           /\ Taken' <=> pass'.batch # <<>>
      /\ venue.hosted /\ CatchUpTooLarge(venue.market, now) => Reopen(venue) /\ ~Taken'
  BY AdvanceIs
<1>2. /\ now \in Nat /\ venue \in VenueType /\ venue.hosted /\ venue.market \in MarketType /\ SeamInv
  BY <1>1, Unfolded DEF KeptInv
<1>3. CASE ~CatchUpTooLarge(venue.market, now)
  <2>1. PICK n, b : n = Advanced(venue.market, now) /\ b = Published(venue.market, now)
    OBVIOUS
  <2>2. /\ b = <<>> => n.drawn = venue.market.drawn
        /\ b # <<>> => b[1] = venue.market.drawn
    BY <1>2, <2>1, AdvancedFacts
  <2>3. Lead' = Lead
    BY <1>1, <1>2, <1>3, <2>1, <2>2 DEF Lead
  <2> QED BY <1>1, <1>2, <1>3, <2>3, ServedStays
<1>4. CASE CatchUpTooLarge(venue.market, now)
  <2>1. Reopen(venue) /\ ~Taken'
    BY <1>1, <1>2, <1>4
  <2>2. ~Rearms(venue) /\ ~Away(venue.market)
    BY <1>1, <1>2, <1>4 DEF SeamInv, Waits, Rearms
  <2>3. CASE TooSoon(venue) \/ venue.market.last = NoTick
    <3>1. venue' = [venue EXCEPT !.stalled = TRUE] /\ UNCHANGED <<feed, client>>
      BY <2>1, <2>2, <2>3 DEF Reopen
    <3>2. Lead' = Lead
      BY <1>1, <1>2, <2>1, <3>1 DEF Lead, VenueType
    <3> QED BY <1>1, <3>1, <3>2, ServedStays
  <2>4. CASE ~(TooSoon(venue) \/ venue.market.last = NoTick)
    <3>1. PICK n, resumes : n = Primed(Reopened(venue.market, now)) /\ resumes = ResumesAt(Reopened(venue.market, now))
      OBVIOUS
    <3>2. /\ venue' = [venue EXCEPT !.market = n, !.stalled = TRUE, !.reopenedAt = now, !.awaiting = TRUE]
          /\ feed' = Declared(venue.market.last.sequence, resumes) /\ client' = Dropped(client)
      BY <2>1, <2>2, <2>4, <3>1 DEF Reopen
    <3>3. venue'.market = n
      BY <1>2, <3>2 DEF VenueType
    <3> QED BY <1>1, <1>4, <2>1, <2>2, <2>4, <3>1, <3>2, <3>3, ReopenServed
  <2> QED BY <2>3, <2>4
<1> QED BY <1>3, <1>4

\* The checkpoint is written: one of a market past a declared seam goes on no earlier.
LEMMA SaveServed ==
  ASSUME Deployed, IInv, CalmInv, KeptInv, ServedInv, Save
  PROVE  ServedInv'
<1>1. /\ UNCHANGED <<now, record>> /\ pc = "save" /\ ~Taken
      /\ saved' = IF pass.plan = NoCheckpoint THEN saved ELSE pass.plan
  BY DEF Save, Taken
<1>2. /\ venue \in VenueType /\ venue.hosted /\ venue.market \in MarketType /\ PassInv /\ HostedInv
      /\ pass.stopping \in BOOLEAN
  BY <1>1, Unfolded, VenueParts DEF KeptInv
<1>3. PICK m \in MarketType : m = venue.market
  BY <1>2
<1>4. /\ saved' \in CheckpointType \cup {NoCheckpoint} /\ SavedInv(record, saved', quoted, now)
      /\ Fresher(saved', now)
      /\ feed.seam # NoSeam => ~Resumable(saved', now) /\ feed.seam.resumesAt <= Far(saved', record, now)
  <2>1. CASE pass.plan = NoCheckpoint
    <3>1. saved' = saved
      BY <1>1, <2>1
    <3> QED BY <3>1, InstantFacts DEF ServedInv, DeclaredInv
  <2>2. CASE pass.plan # NoCheckpoint
    <3>1. PICK cp, at : cp = pass.plan /\ saved' = cp /\ at = pass.planAt
      BY <1>1, <2>2
    <3>2. at \in Nat /\ at <= now
      <4>1. pass.planAt \in Int
        BY VenueParts
      <4> QED BY <1>1, <1>2, <3>1, <4>1 DEF PassInv
    <3>3. venue.stalled = FALSE /\ cp = CheckpointMarket(m, at)
      <4>1. ~venue.stalled /\ venue.stalled \in BOOLEAN
        BY <1>1, <1>2, <2>2, VenueParts DEF PassInv
      <4> QED BY <1>1, <1>2, <1>3, <2>2, <3>1, <4>1 DEF PassInv
    <3>4. /\ cp \in CheckpointType /\ cp.savedAt = at /\ cp.drawn = m.drawn /\ cp.last = m.last
      BY <3>2, <3>3, PlanFacts
    <3>5. MarketInv(m) /\ OpenInv(record, saved, quoted, now, m, FALSE)
      BY <1>1, <1>2, <1>3, <3>3 DEF HostedInv
    <3>6. SavedInv(record, cp, quoted, now)
      BY <3>2, <3>4, <3>5, InstantFacts, PlanFits
    <3>7. Fresher(cp, now)
      BY <3>1 DEF KeptInv, FirstInv
    <3>8. ASSUME feed.seam # NoSeam
          PROVE  ~Resumable(cp, now) /\ feed.seam.resumesAt <= Far(cp, record, now)
      <4>1. feed.seam.resumesAt = m.drawn.sequence /\ Jumps(record, m.drawn)
        BY <1>1, <1>3, <3>8 DEF ServedInv, DeclaredInv, Lead
      <4>2. m.last # NoTick => Near(record, m.last)
        BY <3>5 DEF OpenInv
      <4> QED BY <3>2, <3>3, <3>5, <4>1, <4>2, InstantFacts, PlanIsFurther
    <3> QED BY <3>1, <3>4, <3>6, <3>7, <3>8
  <2> QED BY <2>1, <2>2
<1>5. CASE pass.stopping
  <2>1. Exit
    BY <1>5 DEF Save
  <2>2. Far(saved', record, now) \in Nat /\ HeadOf(record) + 1 <= Far(saved', record, now)
    BY <1>4, InstantFacts, FarFacts
  <2> QED BY <1>1, <1>4, <2>1, <2>2, ServedGone
<1>6. CASE ~pass.stopping
  <2>1. /\ pc' = "finish" /\ UNCHANGED <<pass, feed, client>>
        /\ venue' = [venue EXCEPT !.checkpointAt = pass.planAt]
    BY <1>6 DEF Save
  <2>2. Lead' = Lead
    BY <1>1, <1>2, <2>1 DEF Lead, Taken, VenueType
  <2>3. feed.seam # NoSeam =>
          /\ feed.seam.resumesAt = Lead'.sequence /\ Jumps(record, Lead')
          /\ ~Resumable(saved', now) /\ feed.seam.resumesAt <= Far(saved', record, now)
    BY <1>4, <2>2 DEF ServedInv, DeclaredInv
  <2> QED BY <1>1, <2>1, <2>3, ServedUnder
<1> QED BY <1>2, <1>5, <1>6

\* What was new is published: it ends a declared seam, and the client is at its end.
LEMMA PublishServed ==
  ASSUME IInv, KeptInv, KeptInv', ServedInv, Publish
  PROVE  ServedInv'
<1>1. PICK fresh : fresh = Fresh(pass.batch)
  OBVIOUS
<1>2. /\ feed' = IF fresh = <<>> THEN feed ELSE Offered(feed, fresh)
      /\ client' = Pushed(client, fresh)
      /\ record' = record \o fresh /\ fresh \in Seq(TickType)
  BY <1>1, PublishIsOffered
<1>3. /\ pc = "record" /\ UNCHANGED <<now, saved>> /\ Taken /\ pc' # "down"
  BY DEF Publish, Taken, Offer
<1>4. /\ record \in Seq(TickType) /\ HeadOf(record) \in Nat /\ feed.history \in Seq(TickType)
      /\ feed.history # <<>> => HeadOf(feed.history) = HeadOf(record)
  BY InstantFacts, HeadFacts DEF KeptInv, WindowInv
<1>5. Extended(record, record', pass.batch[1], pass.advancedTo)
  BY PublishExtends
<1>6. /\ HeadOf(record') \in Nat /\ HeadOf(record) <= HeadOf(record')
      /\ pass.batch[1].sequence <= HeadOf(record') /\ pass.batch[1].sequence \in Nat
      /\ record' \in Seq(TickType) /\ record' # <<>> /\ RecordInv(record', pass.advancedTo)
  BY <1>5, ExtendedFacts DEF Extended
<1>7. Lead = pass.batch[1]
  BY <1>3 DEF Lead
<1>8. /\ client \in [next : Nat, live : BOOLEAN, accused : {FALSE}]
      /\ client.next <= Furthest
  BY DEF ServedInv, ClientInv
<1>9. CASE fresh = <<>>
  <2>1. record' = record /\ feed' = feed /\ client' = client
    BY <1>2, <1>4, <1>9 DEF Pushed
  <2>2. pass.batch[1].sequence <= HeadOf(record)
    <3>1. PICK n \in Nat \ {0} : \E c \in 0..n : \E d : FreshOf(record, pass.batch, n, c, d, fresh)
      BY <1>1, FreshIs
    <3>2. PICK c \in 0..n : \E d : FreshOf(record, pass.batch, n, c, d, fresh)
      BY <3>1
    <3>3. PICK d : FreshOf(record, pass.batch, n, c, d, fresh)
      BY <3>2
    <3>4. /\ d \in TickType /\ d = pass.batch[1] /\ Len(fresh) = n - c
          /\ \A k \in 1..n : k <= c <=> d.sequence + (k - 1) <= HeadOf(record)
      BY <3>3 DEF FreshOf
    <3>5. 1 \in 1..n /\ 1 <= c
      BY <1>9, <3>4
    <3>6. d.sequence + (1 - 1) <= HeadOf(record)
      BY <3>4, <3>5
    <3>7. d.sequence \in Nat
      BY <3>4, Fields
    <3> QED BY <3>4, <3>6, <3>7
  <2>3. feed.seam = NoSeam
    <3>1. ~Jumps(record, pass.batch[1])
      BY <1>4, <1>6, <2>2 DEF Jumps
    <3> QED BY <1>7, <3>1 DEF ServedInv, DeclaredInv
  <2>4. DeclaredInv'
    BY <2>1, <2>3 DEF DeclaredInv
  <2>5. HistoryInv'
    BY <1>3, <2>1 DEF ServedInv, HistoryInv
  <2>6. ClientInv'
    BY <1>3, <1>8, <2>1, <2>3 DEF ClientInv, Furthest
  <2> QED BY <1>3, <2>4, <2>5, <2>6 DEF ServedInv
<1>10. CASE fresh # <<>>
  <2>1. /\ feed'.history \in Seq(TickType) /\ feed'.history # <<>>
        /\ HeadOf(feed'.history) = Last(fresh).sequence
        /\ \A i \in 1..Len(feed'.history) :
             Recorded(feed.history, feed'.history[i]) \/ Recorded(fresh, feed'.history[i])
        /\ feed'.seam = NoSeam
    BY <1>2, <1>4, <1>10, OfferedFacts
  <2>2. HeadOf(feed'.history) = HeadOf(record')
    BY <2>1 DEF KeptInv, WindowInv
  <2>3. ASSUME NEW i \in 1..Len(feed'.history) PROVE feed'.history[i].sequence <= HeadOf(record')
    <3>1. PICK x : x = feed'.history[i]
      OBVIOUS
    <3>2. CASE Recorded(feed.history, x)
      <4>1. PICK k \in 1..Len(feed.history) : feed.history[k] = x
        BY <3>2 DEF Recorded
      <4>2. feed.history # <<>> /\ x \in TickType
        BY <1>4, <4>1
      <4>3. x.sequence <= HeadOf(record)
        BY <1>4, <4>1, <4>2 DEF ServedInv, HistoryInv
      <4>4. x.sequence \in Nat
        BY <4>2, Fields
      <4> QED BY <1>4, <1>6, <3>1, <4>3, <4>4
    <3>3. CASE Recorded(fresh, x)
      <4>1. PICK k \in 1..Len(fresh) : fresh[k] = x
        BY <3>3 DEF Recorded
      <4>2. PICK a \in Nat, b \in Nat : a = Len(record) /\ b = Len(fresh)
        <5>1. Len(record) \in Nat /\ Len(fresh) \in Nat
          BY <1>2, <1>4
        <5> QED BY <5>1
      <4>3. /\ Len(record') = a + b
            /\ \A j \in (a + 1)..(a + b) : record'[j] = fresh[j - a]
        BY <1>2, <1>4, <4>2, Joined
      <4>4. a + k \in (a + 1)..(a + b) /\ (a + k) - a = k /\ a + k \in 1..(a + b)
        BY <4>1, <4>2
      <4>5. record'[a + k] = x
        BY <4>1, <4>3, <4>4
      <4>6. Recorded(record', x)
        BY <4>3, <4>4, <4>5 DEF Recorded
      <4> QED BY <1>6, <3>1, <4>6, RecordedFacts
    <3> QED BY <2>1, <3>1, <3>2, <3>3
  <2>4. DeclaredInv'
    BY <2>1 DEF DeclaredInv
  <2>5. HistoryInv'
    BY <2>1, <2>2, <2>3 DEF HistoryInv
  <2>6. Furthest' = HeadOf(record') + 1
    BY <1>3, <2>1 DEF Furthest
  <2>7. /\ client' \in [next : Nat, live : BOOLEAN, accused : {FALSE}]
        /\ client'.next = client.next \/ client'.next = HeadOf(record') + 1
    <3>1. Last(fresh).sequence = HeadOf(record')
      BY <2>1, <2>2
    <3>2. client' = client \/ client' = [client EXCEPT !.next = HeadOf(record') + 1]
      BY <1>2, <3>1 DEF Pushed
    <3>3. CASE client' = client
      BY <1>8, <3>3
    <3>4. CASE client' = [client EXCEPT !.next = HeadOf(record') + 1]
      <4>1. HeadOf(record') + 1 \in Nat
        BY <1>6
      <4> QED BY <1>8, <3>4, <4>1
    <3> QED BY <3>2, <3>3, <3>4
  <2>8. client.next <= HeadOf(record') + 1
    <3>1. Furthest = pass.batch[1].sequence \/ Furthest = HeadOf(record) + 1
      BY <1>3, <1>7 DEF ServedInv, DeclaredInv, Furthest
    <3>2. client.next \in Nat
      BY <1>8
    <3> QED BY <1>4, <1>6, <1>8, <3>1, <3>2
  <2>9. ClientInv'
    <3>1. client'.next <= HeadOf(record') + 1
      <4>1. HeadOf(record') + 1 \in Nat
        BY <1>6
      <4> QED BY <2>7, <2>8, <4>1
    <3> QED BY <2>6, <2>7, <3>1 DEF ClientInv
  <2> QED BY <1>3, <2>4, <2>5, <2>9 DEF ServedInv
<1> QED BY <1>9, <1>10

\* A client is served, or told where to start over.
LEMMA SubscribeServed ==
  ASSUME Deployed, IInv, KeptInv, ServedInv, Subscribe
  PROVE  ServedInv'
<1>1. UNCHANGED <<now, saved, record, pc, venue, pass, feed>> /\ pc # "down"
  BY DEF Subscribe
<1>2. (Taken' <=> Taken) /\ Lead' = Lead
  BY <1>1 DEF Taken, Lead
<1>3. DeclaredInv' /\ HistoryInv' /\ Furthest' = Furthest
  BY <1>1, <1>2 DEF ServedInv, DeclaredInv, HistoryInv, Furthest
<1>4. PICK answer : /\ answer = IF client.next = 0 THEN "served" ELSE Answer(feed, client.next)
                    /\ client' = CASE answer = "evicted" -> [client EXCEPT !.next = OldestOffered(feed)]
                                   [] answer = "unknown" -> [client EXCEPT !.accused = TRUE]
                                   [] OTHER -> [client EXCEPT !.live = TRUE,
                                                  !.next = IF feed.history # <<>> THEN HeadOf(feed.history) + 1
                                                           ELSE IF feed.seam # NoSeam THEN feed.seam.resumesAt ELSE 1]
  BY DEF Subscribe
<1>5. /\ client \in [next : Nat, live : BOOLEAN, accused : {FALSE}]
      /\ client.next \in Nat /\ client.next <= Furthest /\ Furthest \in Nat
      /\ record \in Seq(TickType) /\ HeadOf(record) \in Nat
      /\ WindowInv
  BY ServedFacts DEF ServedInv, ClientInv, KeptInv
<1>6. ASSUME NEW next \in Nat, next <= Furthest,
             client' = [client EXCEPT !.next = next] \/ client' = [client EXCEPT !.live = TRUE, !.next = next]
      PROVE  ServedInv'
  <2>1. client' \in [next : Nat, live : BOOLEAN, accused : {FALSE}] /\ client'.next = next
    BY <1>5, <1>6
  <2> QED BY <1>1, <1>3, <1>6, <2>1 DEF ServedInv, ClientInv
<1>7. CASE feed.seam # NoSeam
  <2>1. PICK r \in Nat : r = feed.seam.resumesAt /\ r = Furthest /\ feed.history = <<>>
    BY <1>1, <1>5, <1>7 DEF Furthest, ServedInv, DeclaredInv
  <2>2. answer # "unknown"
    BY <1>4, <1>5, <1>7, <2>1 DEF Answer
  <2>3. OldestOffered(feed) = r
    BY <2>1 DEF OldestOffered
  <2>4. client' = [client EXCEPT !.next = r] \/ client' = [client EXCEPT !.live = TRUE, !.next = r]
    BY <1>4, <1>7, <2>1, <2>2, <2>3
  <2>5. r <= Furthest
    BY <2>1
  <2>6. CASE client' = [client EXCEPT !.next = r]
    BY <1>6, <2>5, <2>6
  <2>7. CASE client' = [client EXCEPT !.live = TRUE, !.next = r]
    BY <1>6, <2>5, <2>7
  <2> QED BY <2>4, <2>6, <2>7
<1>8. CASE feed.seam = NoSeam /\ feed.history = <<>>
  <2>1. Furthest = 1
    <3>1. record = <<>>
      BY <1>1, <1>8 DEF ServedInv, HistoryInv
    <3>2. HeadOf(record) = 0
      BY <3>1 DEF HeadOf
    <3> QED BY <1>1, <1>8, <3>2 DEF Furthest
  <2>2. answer = "served"
    BY <1>4, <1>5, <1>8, <2>1 DEF Answer
  <2>3. client' = [client EXCEPT !.live = TRUE, !.next = 1]
    BY <1>4, <1>8, <2>2
  <2>4. 1 <= Furthest /\ 1 \in Nat
    BY <2>1
  <2> QED BY <1>6, <2>3, <2>4
<1>9. CASE feed.history # <<>>
  <2>1. PICK h \in Seq(TickType), top \in Nat : h = feed.history /\ top = HeadOf(h) /\ top = HeadOf(record)
    BY <1>5, <1>9 DEF WindowInv
  <2>2. feed.seam = NoSeam /\ Furthest = top + 1
    BY <1>1, <1>9, <2>1 DEF ServedInv, DeclaredInv, Furthest
  <2>3. PICK first \in Nat : first = h[1].sequence /\ first <= top
    <3>1. 1 \in 1..Len(h) /\ h[1] \in TickType
      BY <1>9, <2>1
    <3>2. h[1].sequence <= top /\ h[1].sequence \in Nat
      BY <2>1, <3>1, Fields DEF ServedInv, HistoryInv
    <3> QED BY <3>2
  <2>4. answer # "unknown"
    BY <1>4, <1>5, <1>9, <2>1, <2>2 DEF Answer
  <2>5. OldestOffered(feed) = first
    BY <1>9, <2>1, <2>3 DEF OldestOffered
  <2>6. \/ client' = [client EXCEPT !.next = first]
        \/ client' = [client EXCEPT !.live = TRUE, !.next = top + 1]
    BY <1>4, <1>9, <2>1, <2>4, <2>5
  <2>7. first <= Furthest /\ top + 1 \in Nat /\ top + 1 <= Furthest
    BY <2>1, <2>2, <2>3
  <2>8. CASE client' = [client EXCEPT !.next = first]
    BY <1>6, <2>7, <2>8
  <2>9. CASE client' = [client EXCEPT !.live = TRUE, !.next = top + 1]
    BY <1>6, <2>7, <2>9
  <2> QED BY <2>6, <2>8, <2>9
<1> QED BY <1>7, <1>8, <1>9

\* Every step of a steady host.
LEMMA ServedKept ==
  ASSUME Deployed, Steady, IInv, CalmInv, KeptInv, ServedInv, [Next]_vars
  PROVE  ServedInv'
<1>1. KeptInv'
  BY KeptKept
<1>2. CASE Boot
  BY <1>2, BootServed
<1>3. CASE Ready
  BY <1>3, ReadyServed
<1>4. CASE Advance
  BY <1>4, AdvanceServed
<1>5. CASE Publish
  BY <1>1, <1>5, PublishServed
<1>6. CASE RecordRefuses
  BY <1>6, NothingRefused DEF RecordRefuses, Taken
<1>7. CASE NothingDue
  BY <1>7, NothingDueServed
<1>8. CASE Save
  BY <1>8, SaveServed
<1>9. CASE Finish
  BY <1>9, FinishServed
<1>10. CASE Stop
  BY <1>10, StopServed
<1>11. CASE Subscribe
  BY <1>11, SubscribeServed
<1>12. CASE Disconnect
  BY <1>12, DisconnectServed
<1>13. CASE Crash
  BY <1>13, CrashServed
<1>14. CASE Tick
  BY <1>1, <1>14, TickServed
<1>15. CASE UNCHANGED vars
  BY <1>15, ServedElsewhere DEF vars
<1> QED BY <1>2, <1>3, <1>4, <1>5, <1>6, <1>7, <1>8, <1>9, <1>10, <1>11, <1>12, <1>13, <1>14, <1>15 DEF Next

\* It holds from the start.
LEMMA InitServed == Init => ServedInv
<1> SUFFICES ASSUME Init PROVE ServedInv
  OBVIOUS
<1>1. /\ now = 0 /\ saved = NoCheckpoint /\ record = <<>> /\ pc = "down"
      /\ feed.history = <<>> /\ feed.seam = NoSeam
      /\ client = [next |-> 0, live |-> FALSE, accused |-> FALSE]
  BY DEF Init, EmptyFeed
<1>2. Newest(record) = NoTick /\ HeadOf(record) = 0
  BY <1>1 DEF Newest, HeadOf
<1>3. Furthest = 1
  BY <1>1, <1>2 DEF Furthest, Far, Opening
<1>4. ClientInv
  BY <1>1, <1>3 DEF ClientInv
<1> QED BY <1>1, <1>4 DEF ServedInv, DeclaredInv, HistoryInv

\* A host that keeps up never tells a client that asks for no more than what comes next
\* that its record is not this venue's (TickFeed's since, and the seams VenueService
\* declares at boot, at a re-arming and at a reopening): across any kill, restart, stall,
\* eviction and seam, what it may ask for is at most where the feed goes on.
THEOREM ClientsAreNeverAccused ==
  ASSUME Deployed, {"passes", "stops", "seams", "genesis"} \subseteq Promised
  PROVE  Spec => []ClientsAreNotAccused
<1>1. IInv /\ (Prompt => CalmInv) /\ (Steady => KeptInv) /\ (Steady => ServedInv) /\ [Next]_vars =>
        (Steady => ServedInv)'
  <2> SUFFICES ASSUME IInv, Prompt => CalmInv, Steady => KeptInv, Steady => ServedInv, [Next]_vars, Steady'
               PROVE ServedInv'
    OBVIOUS
  <2>1. Steady /\ Prompt
    BY SameHost DEF Steady, Prompt
  <2> QED BY <2>1, ServedKept
<1>2. (Steady => ServedInv) => ClientsAreNotAccused
  BY DEF HostKeepsUp, Steady, ServedInv, ClientInv, ClientsAreNotAccused
<1>3. Init => (Steady => ServedInv)
  BY InitServed
<1> QED BY <1>1, <1>2, <1>3, Inductive, CalmAlways, KeptAlways, PTL DEF Spec
=============================================================================
