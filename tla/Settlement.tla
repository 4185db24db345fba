----------------------------- MODULE Settlement -----------------------------
(***************************************************************************)
(* What a broker settles a contract with: the price route, which answers   *)
(* for an instant from the tick record and says "not yet" past the instant *)
(* the price is final through; and settle(), which decides a contract from *)
(* the published ticks and the recorded seams.  Both are read while the    *)
(* venue publishes, stalls and reopens, is killed, restarts with or        *)
(* without a seam, changes its lattice in a release, and trims its record. *)
(*                                                                         *)
(* The engine is a schedule drawn when a market opens: regenerating after  *)
(* a restart gives the same ticks, a seam draws others.                    *)
(***************************************************************************)
EXTENDS Integers, Sequences, SequencesExt, FiniteSets

CONSTANTS
  Lattices,    \* the price frames a release may set
  Prices,      \* lattice levels
  Bound,       \* the catch-up bound
  Keep,        \* ticks the record retains
  MaxTime,     \* bound: the clock
  MaxDrawn,    \* bound: ticks one opened market will ever print
  MaxTicks,    \* bound: ticks in the record
  MaxRewinds   \* bound: times the host's clock is set back

ASSUME SettlementAssumption ==
  /\ Prices \subseteq Int /\ {Bound, MaxTime, MaxDrawn, MaxTicks, MaxRewinds} \subseteq Nat
  /\ Keep \in Nat \ {0}

VARIABLES
  now,       \* the venue's clock
  up,        \* whether a process hosts the market
  lattice,   \* the frame of the deployed release
  schedule,  \* the ticks the open market has still to publish
  observed,  \* when the market last looked at the clock
  stalled,   \* whether it awaits its first tick since it was reopened
  asOf,      \* the instant of the last clean pass, 0 before there is one
  held,      \* every tick ever recorded; those before oldest are trimmed
  oldest,    \* index of the oldest tick retained
  seams,     \* the record's discontinuities
  epochs,    \* the frame log
  spoken,    \* history: the latest instant a price was ever final through
  rewinds

venue == <<up, lattice, schedule, observed, stalled, asOf>>
kept == <<held, oldest, seams, epochs>>
settlementVars == <<now, venue, kept, spoken, rewinds>>

Instants == 0..MaxTime
Tick == [sequence : Nat, instant : Instants, price : Prices, lattice : Lattices]
Seam == [lastSequence : Nat, lastInstant : Instants, resumesAtSequence : Nat,
         resumesAtInstant : Instants]

Ascends(ticks) == \A i \in 1..Len(ticks) - 1 :
  ticks[i].instant < ticks[i + 1].instant /\ ticks[i].sequence < ticks[i + 1].sequence

\* What the variables hold.
SettlementTypeOK ==
  /\ now \in Instants /\ observed \in Instants /\ asOf \in Instants /\ spoken \in Instants
  /\ up \in BOOLEAN /\ stalled \in BOOLEAN /\ rewinds \in 0..MaxRewinds
  /\ lattice \in Lattices
  /\ held \in Seq(Tick) /\ schedule \in Seq(Tick)
  /\ Ascends(held \o schedule)
  /\ oldest \in 1..Len(held) + 1
  /\ seams \subseteq Seam
  /\ epochs \in Seq([fromSequence : Nat, lattice : Lattices])

-----------------------------------------------------------------------------
(* The record                                                              *)

Newest == held[Len(held)]
Later(a, b) == IF a > b THEN a ELSE b

\* append: a jump in the sequence is a seam, in the transaction of its tick, and
\* a frame other than the one in force an epoch, from the first tick of the pass.
SeamBetween(previous, next) ==
  IF next.sequence = previous.sequence + 1 THEN {}
  ELSE {[lastSequence |-> previous.sequence, lastInstant |-> previous.instant,
         resumesAtSequence |-> next.sequence, resumesAtInstant |-> next.instant]}

EpochOf(log, tick) ==
  IF log # <<>> /\ Last(log).lattice = tick.lattice THEN log
  ELSE Append(log, [fromSequence |-> tick.sequence, lattice |-> tick.lattice])

Recorded(ticks) ==
  LET whole == held \o ticks IN
  /\ held' = whole
  /\ seams' = seams \cup UNION {SeamBetween(whole[i], whole[i + 1]) :
                                 i \in {j \in Len(held)..Len(whole) - 1 : j > 0}}
  /\ epochs' = IF ticks = <<>> THEN epochs ELSE EpochOf(epochs, ticks[1])

\* trim: everything but the newest ticks; the seams stay.
Trim ==
  /\ up /\ Len(held) - oldest + 1 > Keep
  /\ oldest' = Len(held) - Keep + 1
  /\ UNCHANGED <<now, venue, held, seams, epochs, spoken, rewinds>>

-----------------------------------------------------------------------------
(* The venue                                                               *)

\* The ticks of a market opened at an instant: the last price on a lattice
\* carries over, so what follows it is drawn anew.
FirstSequence == IF held = <<>> THEN 1 ELSE Newest.sequence + 2

Opened(start, frame) ==
  {ticks \in UNION {[1..n -> [sequence : FirstSequence..FirstSequence + MaxDrawn - 1,
                              instant : start + 1..MaxTime, price : Prices,
                              lattice : {frame}]] : n \in 0..MaxDrawn} :
     /\ Len(held) + Len(ticks) <= MaxTicks
     /\ \A i \in 1..Len(ticks) : ticks[i].sequence = FirstSequence + i - 1
     /\ Ascends(ticks)}

\* A market never opens before the last instant it published at.
OpensAt == IF held = <<>> THEN now ELSE Later(Newest.instant, now)

SettlementInit ==
  /\ now = 0 /\ up = FALSE /\ lattice \in Lattices
  /\ schedule = <<>> /\ observed = 0 /\ stalled = FALSE /\ asOf = 0
  /\ held = <<>> /\ oldest = 1 /\ seams = {} /\ epochs = <<>>
  /\ spoken = 0 /\ rewinds = 0

ClockMoves ==
  /\ now < MaxTime
  /\ now' = now + 1
  /\ UNCHANGED <<venue, kept, spoken, rewinds>>

\* The host's clock is set back while no process runs.
ClockIsSetBack ==
  /\ ~up /\ now > 0 /\ rewinds < MaxRewinds
  /\ now' = now - 1
  /\ rewinds' = rewinds + 1
  /\ UNCHANGED <<venue, kept, spoken>>

\* What a pass leaves the price final through.
FinalThrough(ticks, clean) ==
  IF ticks = <<>> THEN 0 ELSE Later(Last(ticks).instant, clean)

\* Mutant: the market reopens at its last tick instead of at the clock.
ReopenFromLastTick ==
  /\ held # <<>>
  /\ schedule' \in Opened(Newest.instant, lattice)
  /\ observed' = now
  /\ stalled' = TRUE
  /\ UNCHANGED <<up, lattice, asOf, kept, spoken>>

\* Past its catch-up bound: reopened at the clock, and stalled by name until
\* it publishes.  A market that has printed nothing stays as it is.
Reopen ==
  /\ held # <<>>
  /\ schedule' \in Opened(OpensAt, lattice)
  /\ observed' = now
  /\ stalled' = TRUE
  /\ UNCHANGED <<up, lattice, asOf, kept, spoken>>

\* Every tick due is recorded; a clean pass moves the instant the price is
\* final through, and a market still stalled keeps what it had.
Publish ==
  LET count == SelectLastInSeq(schedule, LAMBDA tick : tick.instant <= now)
      due == SubSeq(schedule, 1, count) IN
  /\ schedule' = SubSeq(schedule, count + 1, Len(schedule))
  /\ Recorded(due)
  /\ observed' = now
  /\ stalled' = (stalled /\ due = <<>>)
  /\ asOf' = IF stalled' \/ held' = <<>> THEN asOf ELSE now
  /\ spoken' = Later(spoken, FinalThrough(held', asOf'))
  /\ UNCHANGED <<up, lattice, oldest>>

Pass ==
  /\ up
  /\ IF now > observed + Bound THEN Reopen ELSE Publish
  /\ UNCHANGED <<now, rewinds>>

Kill ==
  /\ up
  /\ up' = FALSE /\ asOf' = 0
  /\ UNCHANGED <<now, lattice, schedule, observed, stalled, kept, spoken, rewinds>>

\* A checkpoint within the bound of this lattice is continued from.
Resume ==
  /\ ~up /\ ~stalled /\ now <= observed + Bound
  /\ up' = TRUE
  /\ UNCHANGED <<now, lattice, schedule, observed, stalled, asOf, kept, spoken, rewinds>>

\* Any other boot moves past the record, on the lattice of its release.
BootPastRecord(frame) ==
  /\ ~up
  /\ up' = TRUE /\ lattice' = frame
  /\ schedule' \in Opened(OpensAt, frame)
  /\ observed' = OpensAt /\ stalled' = FALSE
  /\ UNCHANGED <<now, asOf, kept, spoken, rewinds>>

SettlementNext ==
  \/ ClockMoves \/ ClockIsSetBack \/ Pass \/ Kill \/ Resume \/ Trim
  \/ \E frame \in Lattices : BootPastRecord(frame)

SettlementSpec == SettlementInit /\ [][SettlementNext]_settlementVars

-----------------------------------------------------------------------------
(* The price route                                                         *)

\* atOrBefore, over the ticks the record retains; 0 when it starts later.
AtOrBefore(at) ==
  SelectLastInSubSeq(held, oldest, Len(held), LAMBDA tick : tick.instant <= at)

\* What the route answers: the tick in force, or none, which is said apart for
\* an instant not final yet and for one the record no longer reaches.
PriceRoute(at) ==
  {held[i] : i \in {AtOrBefore(at)} \ {0}} \cap
  {tick \in Range(held) : at <= FinalThrough(held, asOf)}

-----------------------------------------------------------------------------
(* settle()                                                                *)

\* A window, in instants; what it decides is who was right about the move.
ContractWindows == {w \in Instants \X Instants : w[1] < w[2]}

\* priceAtOrBefore, over the ticks a broker holds: those the record retains.
TickAt(instant) ==
  SelectLastInSubSeq(held, oldest, Len(held), LAMBDA tick : tick.instant <= instant)

\* The frame log's changes, and whether one falls inside a seam.
Changes == {epochs[i].fromSequence : i \in 2..Len(epochs)}
Reframes(seam) ==
  \E at \in Changes : at > seam.lastSequence /\ at <= seam.resumesAtSequence

\* Mutant: only a window that holds the whole gap is said to cross it.
CrossesWhole(entry, expiry, seam) ==
  entry <= seam.lastInstant /\ expiry >= seam.resumesAtInstant

\* Whether a window reaches into the gap a seam declares.
Crosses(entry, expiry, seam) ==
  entry < seam.resumesAtInstant /\ expiry > seam.lastInstant

Settleable(entry, expiry) ==
  /\ TickAt(entry) # 0
  /\ expiry <= Newest.instant
  /\ \A seam \in seams : Crosses(entry, expiry, seam) => ~Reframes(seam)

\* The two prices a settlement rests on.
Settled(entry, expiry) == <<held[TickAt(entry)], held[TickAt(expiry)]>>

-----------------------------------------------------------------------------
(* Properties                                                              *)

\* The tick in force at an instant, over everything ever recorded.
Truth(ticks, at) == SelectLastInSeq(ticks, LAMBDA tick : tick.instant <= at)

\* What was answered stands.  "An instant at or before asOf has a price that
\* will never change": once a price was final through an instant, no later tick
\* is put at or before it, by a catch-up, a reopening, a restart or a seam; and a
\* settled outcome stays the outcome, until the ticks it rests on are trimmed.
\* It holds until the host's clock is first set back, and not after.
AnswersStand ==
  [][rewinds' = 0 =>
     /\ \A at \in 0..spoken : Truth(held', at) = Truth(held, at)
     /\ held # <<>> => \A w \in ContractWindows : Settleable(w[1], w[2]) =>
          \/ Settleable(w[1], w[2])' /\ Settled(w[1], w[2])' = Settled(w[1], w[2])
          \/ oldest' > oldest]_settlementVars

\* One rule everywhere: what settle() decides from the published ticks and what
\* the price route answered for the same two instants are the same; and the
\* integers it compares count in one unit, wherever in a gap the contract was
\* opened or expires.
RouteAgreesWithSettle ==
  held # <<>> => \A w \in ContractWindows : Settleable(w[1], w[2]) =>
    /\ Settled(w[1], w[2])[1].lattice = Settled(w[1], w[2])[2].lattice
    /\ \A i \in 1..2 : PriceRoute(w[i]) = {Settled(w[1], w[2])[i]}

\* "Anyone holding the published series can recompute any outcome": two final
\* prices of the route that are on one lattice are ones settle() will accept
\* once the record reaches the expiry.
AnswersCanBeRecomputed ==
  \A w \in ContractWindows :
    (/\ held # <<>> /\ w[2] <= spoken /\ w[2] <= Newest.instant
     /\ TickAt(w[1]) # 0
     /\ held[TickAt(w[1])].lattice = held[TickAt(w[2])].lattice) =>
      Settleable(w[1], w[2])
=============================================================================
