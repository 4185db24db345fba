----------------------------- MODULE Laboratory -----------------------------
(***************************************************************************)
(* What the laboratory does to one market of its venue                     *)
(* (apps/api/src/lab): the scripts of signs and of arrivals an engine      *)
(* plays (selectableSigns.ts, selectableArrival.ts), the pushes, closes,   *)
(* scenarios and biases that arm them, their release, the positions opened *)
(* meanwhile (positions.ts), and what the session says of each             *)
(* (lab.controller.ts).                                                    *)
(*                                                                         *)
(* The venue keeps one tick drawn ahead; a push takes it back.  A request  *)
(* that acts on the engine waits for the pass in flight, and what it read  *)
(* when it arrived may be old by then.  A process that ends, or a market   *)
(* that is reopened, takes all of this with it.                            *)
(*                                                                         *)
(* The keystream is a stream of ticks, each with the interval and the sign *)
(* it would have and a size per unit of interval; an arrival draw is the   *)
(* interval it gives.                                                      *)
(***************************************************************************)
EXTENDS Integers, Sequences, FiniteSets, SequencesExt

CONSTANTS
  None,
  Streams,      \* what the keystream may hold: sequences of [gap, size, sign]
  Paces,        \* intervals a push may ask for; 0 is the market's own
  BiasTerm,     \* BIAS_MAX_MS
  BiasRun,      \* ticks of a run for the bias; the run against it is one tick
  MaxPush,      \* PUSH_MAX_TICKS
  ScenarioWindow, \* how far ahead a scenario reaches
  MaxTime,      \* bound: the clock
  MaxActs,      \* bound: requests
  MaxWaiting,   \* bound: requests waiting for one pass
  MaxPositions  \* bound: positions opened

VARIABLES
  now,      \* the venue's clock
  stream,   \* the keystream
  market,   \* the hosted market, its engine and what that plays
  saving,   \* a pass is in flight: its checkpoint is being written
  waiting,  \* the requests waiting for it, oldest first
  desk,     \* what the controller keeps about the market
  acts      \* of which there are MaxActs

vars == <<now, stream, market, saving, waiting, desk, acts>>

Direction == {1, -1}

-----------------------------------------------------------------------------
(* The market                                                              *)

\* The engine stands at the last tick it drew.
Engine(m) == IF m.pending = None THEN Last(m.published) ELSE m.pending
Exhausted(m) == Engine(m).sequence >= Len(stream)
OwnGap(m) == IF Exhausted(m) THEN 1 ELSE stream[Engine(m).sequence + 1].gap

Rest(script) == IF script = <<>> THEN <<>> ELSE Tail(script)

InForce(bias, at) == bias # None /\ at < bias.until
\* SelectableSigns.bias
Bias(m) == IF InForce(m.bias, now) THEN m.bias.direction ELSE None

\* #biasedSign: a run for the direction, then a shorter one against it.
Biased(bias) ==
  IF (bias.played + 1) % (BiasRun + 1) = 0 THEN -bias.direction ELSE bias.direction

\* nextBoolean: the script, else the bias until its deadline, else the keystream.
Sign(m) ==
  IF m.signs # <<>> THEN Head(m.signs)
  ELSE IF InForce(m.bias, now) THEN Biased(m.bias)
  ELSE stream[Engine(m).sequence + 1].sign

\* nextFloat64 of the arrivals, as the interval the draw gives.
Gap(m) == IF m.draws = <<>> \/ Head(m.draws) = 0 THEN OwnGap(m) ELSE Head(m.draws)

NextTick(m) ==
  [sequence |-> Engine(m).sequence + 1,
   instant  |-> Engine(m).instant + Gap(m),
   price    |-> Engine(m).price + Sign(m) * Gap(m) * stream[Engine(m).sequence + 1].size]

\* engine.next(): each draw spends one entry of the scripts, and a bias past its
\* deadline is cleared by the first draw that would have used it.
Drawn(m) ==
  IF m.pending # None \/ Exhausted(m) THEN m
  ELSE [m EXCEPT !.pending = NextTick(m), !.signs = Rest(@), !.draws = Rest(@),
                 !.bias = IF m.signs # <<>> \/ @ = None THEN @
                          ELSE IF InForce(@, now) THEN [@ EXCEPT !.played = @ + 1] ELSE None]

Shown(m) == [m EXCEPT !.published = Append(@, m.pending), !.pending = None]

\* advanceTo: every tick now due, and the one after it drawn.
Advanced(m) ==
  FoldLeft(LAMBDA done, entry :
             LET ahead == Drawn(done)
             IN IF ahead.pending # None /\ ahead.pending.instant <= now THEN Shown(ahead) ELSE ahead,
           m, stream)

\* retractPending: the engine is restored to before the draw, and the seek of a
\* restore releases both scripts.
Retracted(m) ==
  IF m.pending = None THEN m ELSE [m EXCEPT !.pending = None, !.signs = <<>>, !.draws = <<>>]

\* Mutant: the bias goes with the script.
FreedOfAll(m) == [m EXCEPT !.signs = <<>>, !.draws = <<>>, !.bias = None]
\* releaseScript
Freed(m) == [m EXCEPT !.signs = <<>>, !.draws = <<>>]

\* Mutant: the fork is not given the paces.
ForkAtOwnPace(m, signs, draws) ==
  [published |-> <<Engine(m)>>, pending |-> None, signs |-> signs, draws |-> <<>>, bias |-> None]
\* labFork: a copy of the engine, its scripts armed after the restore.
Fork(m, signs, draws) ==
  [published |-> <<Engine(m)>>, pending |-> None, signs |-> signs, draws |-> draws, bias |-> None]
Walk(fork, steps) ==
  FoldLeft(LAMBDA f, step : IF Exhausted(f) THEN f ELSE Shown(Drawn(f)), fork, steps)

PriceAt(ticks, instant) ==
  LET known == SelectSeq(ticks, LAMBDA t : t.instant <= instant)
  IN IF known = <<>> THEN None ELSE Last(known).price

-----------------------------------------------------------------------------
(* The desk                                                                *)

\* noticeBiasExpiry: a bias that is no longer in force, and that no request
\* ended, ran out.
Noticed(d, m) ==
  IF d.noted = None \/ Bias(m) = d.noted.direction THEN d
  ELSE [d EXCEPT !.noted = None,
                 !.expiries = IF Bias(m) = None
                              THEN @ \cup {[until |-> d.noted.until, noticed |-> now]} ELSE @]

\* controlState: a push that played out is over.
Looked(d, m) == IF m.signs = <<>> THEN [d EXCEPT !.pushes = None] ELSE d

\* What an act that is announced, or about to be, was touched by since.
Touched(announced, by) ==
  IF announced = None \/ announced.touched # None THEN announced
  ELSE [announced EXCEPT !.touched = by]
TouchedBy(d, kinds, by) ==
  [d EXCEPT !.landing = IF "landing" \in kinds THEN Touched(@, by) ELSE @,
            !.applied = IF "applied" \in kinds THEN Touched(@, by) ELSE @,
            !.telling = [i \in DOMAIN d.telling |->
                           IF d.telling[i].kind \in kinds
                           THEN [d.telling[i] EXCEPT !.told = Touched(@, by)] ELSE d.telling[i]]]

\* What each request does once its act is done: a landing or a close is noted
\* for the control to report, and the control is read for the session.
Told(d, m) ==
  FoldLeft(LAMBDA said, entry :
             Looked([said EXCEPT
                       !.landing = IF entry.kind = "landing" THEN entry.told ELSE @,
                       !.applied = IF entry.kind = "applied" THEN entry.told ELSE @], m),
           [d EXCEPT !.telling = <<>>], d.telling)

\* refuseWhilePushing
Refuses(d, m) == m.signs # <<>> /\ d.pushes # None

-----------------------------------------------------------------------------
(* The acts: each gives the market and the desk it leaves, and what the    *)
(* request is about to note                                                *)

Result(m, d, kind, told) ==
  [market |-> m, desk |-> [d EXCEPT !.telling = Append(@, [kind |-> kind, told |-> told])]]
Unannounced(m, d) == Result(m, d, "act", None)

\* Mutant: the first pushed tick falls one interval after the last published one.
AnchorAtLast(m, r) == IF r.pace = 0 THEN OwnGap(m) ELSE r.pace
\* anchoredFirstDraw: the first pushed tick falls one interval after the request
\* (exactly so here; the code finds the draw to within a millisecond).
Anchor(m, r) ==
  (IF r.at > Engine(m).instant THEN r.at - Engine(m).instant ELSE 0)
    + (IF r.pace = 0 THEN OwnGap(m) ELSE r.pace)

Slice(script, count) == SubSeq(script, 1, IF count < Len(script) THEN count ELSE Len(script))

\* What a push plays over what was left of the one it found running: the same
\* direction is carried on, the opposite one subtracts.
Plays(r, base, old) ==
  LET same    == r.running # None /\ r.running.direction = r.direction
      against == r.running # None /\ r.running.direction # r.direction
      signs   == [i \in 1..r.count |-> r.direction]
      paced   == [i \in 1..r.count |-> r.pace]
      fresh   == <<Anchor(base, r)>> \o Tail(paced)
      kept    == Len(old.signs) - r.count
      push    == [direction |-> r.direction, pace |-> r.pace]
  IN CASE ~same /\ ~against ->
            [signs |-> signs, draws |-> fresh, push |-> push, anchored |-> TRUE]
       [] same ->
            [signs |-> old.signs \o signs,
             draws |-> IF old.draws = <<>> THEN fresh ELSE old.draws \o paced,
             push |-> push, anchored |-> old.draws = <<>>]
       [] against /\ kept < 0 ->
            [signs |-> SubSeq(signs, 1, -kept), draws |-> SubSeq(fresh, 1, -kept),
             push |-> push, anchored |-> TRUE]
       [] OTHER ->
            [signs |-> SubSeq(old.signs, 1, kept), draws |-> Slice(old.draws, kept),
             push |-> r.running, anchored |-> FALSE]

\* Positions whose entry a push may still rewrite: the tick after them is drawn
\* anew, at an instant that need not lie after the request.
Exposed(positions, safe) ==
  IF safe THEN positions ELSE {[p EXCEPT !.exposed = TRUE] : p \in positions}

\* push, between advances: a script that is not a push's gives way to it, the
\* drawn tick is retracted, and the landing is read off a fork.
PushActs(r, m, d) ==
  LET superseded == m.signs # <<>> /\ d.pushes = None
      old    == IF superseded THEN Freed(m) ELSE m
      base   == Retracted(old)
      plays  == Plays(r, base, old)
      landed == Last(Walk(Fork(base, plays.signs, plays.draws), plays.signs).published)
      over   == IF superseded THEN [d EXCEPT !.applied = None] ELSE d
      later  == [TouchedBy(over, {"applied"}, "push") EXCEPT
                   !.positions = Exposed(@, plays.anchored /\ r.at = now)]
  IN IF plays.signs = <<>>
     THEN Unannounced(Freed(base), [TouchedBy(later, {"landing"}, "push") EXCEPT
                                      !.pushes = None, !.landing = None])
     ELSE Result([base EXCEPT !.signs = plays.signs, !.draws = plays.draws],
                 [TouchedBy(later, {"landing"}, "push") EXCEPT !.pushes = plays.push],
                 "landing", [sequence |-> Engine(base).sequence + Len(plays.signs),
                             level |-> landed.price, touched |-> None])

\* readWindow: the ticks the keystream holds up to the instant.
Window(m, instant) ==
  SelectSeq(Tail(Walk(Fork(m, <<>>, <<>>), stream).published), LAMBDA t : t.instant <= instant)

\* Some choice of signs for the ticks of a window: what the selections return.
SignChoices(m, instant) == [1..Len(Window(m, instant)) -> Direction]

\* applyAt: the target is where the natural window ends with the signs chosen.
CloseActs(r, m, d, signs) ==
  LET target == Last(Walk(Fork(m, signs, <<>>), signs).published).price
  IN IF signs = <<>> THEN Unannounced(m, d)
     ELSE Result([m EXCEPT !.signs = signs], TouchedBy(d, {"landing", "applied"}, "act"),
                 "applied", [instant |-> r.instant, target |-> target,
                             touched |-> IF m.draws = <<>> THEN None ELSE "pace"])

\* applyScenario
ScenarioActs(m, d, signs) ==
  IF signs = <<>> THEN Unannounced(m, d)
  ELSE Unannounced([m EXCEPT !.signs = signs], TouchedBy(d, {"landing", "applied"}, "act"))

\* bias
BiasActs(r, m, d) ==
  IF r.direction = None
  THEN Unannounced([m EXCEPT !.bias = None], [Noticed(d, m) EXCEPT !.noted = None])
  ELSE LET bias == [direction |-> r.direction, until |-> now + BiasTerm]
       IN Unannounced([m EXCEPT !.bias = [direction |-> r.direction, until |-> bias.until,
                                          played |-> 0]],
                      [d EXCEPT !.noted = bias])

\* LabPositions.open: not at an instant a drawn tick will be published at.
OpenActs(m, d) ==
  LET due   == m.pending # None /\ m.pending.instant <= now
      entry == IF due THEN m.pending.instant - 1 ELSE now
      opened == [entry |-> entry, price |-> PriceAt(m.published, entry),
                 exposed |-> m.pending = None]
  IN [market |-> m, desk |-> [d EXCEPT !.positions = @ \cup {opened}]]

-----------------------------------------------------------------------------
(* The process                                                             *)

Init ==
  /\ now = 0 /\ acts = 0 /\ saving = FALSE /\ waiting = <<>>
  /\ stream \in Streams
  /\ market = Drawn([published |-> <<[sequence |-> 0, instant |-> 0, price |-> 0]>>,
                     pending |-> None, signs |-> <<>>, draws |-> <<>>, bias |-> None])
  /\ desk = [pushes |-> None, landing |-> None, applied |-> None, noted |-> None,
             expiries |-> {}, positions |-> {}, telling |-> <<>>]

\* The pass is over: whoever waited for it acts before anything else does.
Resuming == ~saving /\ waiting # <<>>

ClockTicks ==
  /\ ~Resuming /\ now < MaxTime
  /\ now' = now + 1
  /\ UNCHANGED <<stream, market, saving, waiting, desk, acts>>

\* A pass publishes what is due, and awaits its checkpoint when one is due too.
Pass(checkpointing) ==
  /\ ~saving /\ ~Resuming
  /\ market' = Advanced(market)
  /\ saving' = checkpointing
  /\ UNCHANGED <<now, stream, waiting, desk, acts>>

Saved ==
  /\ saving /\ saving' = FALSE
  /\ UNCHANGED <<now, stream, market, waiting, desk, acts>>

\* Requests that waited for one pass act one after the other, and only then does
\* each note what it did.
Acts(r, d, behind) ==
  /\ UNCHANGED <<now, stream, saving>>
  /\ \E result \in
       CASE r.kind = "push" -> {PushActs(r, market, d)}
         [] r.kind = "bias" -> {BiasActs(r, market, d)}
         [] r.kind = "open" -> {OpenActs(market, d)}
         [] r.kind = "close" ->
              {CloseActs(r, market, d, signs) : signs \in SignChoices(market, r.instant)}
         [] OTHER ->
              {ScenarioActs(market, d, signs) : signs \in SignChoices(market, now + ScenarioWindow)} :
       /\ market' = result.market
       /\ desk' = IF behind = <<>> THEN Told(result.desk, result.market) ELSE result.desk

\* betweenAdvances: at once, unless a pass is in flight.
BetweenAdvances(r, d) ==
  /\ ~Resuming /\ acts < MaxActs /\ acts' = acts + 1
  /\ IF saving
     THEN /\ Len(waiting) < MaxWaiting
          /\ waiting' = Append(waiting, r) /\ desk' = d
          /\ UNCHANGED <<now, stream, market, saving>>
     ELSE UNCHANGED waiting /\ Acts(r, d, <<>>)

Resume ==
  /\ Resuming
  /\ waiting' = Tail(waiting) /\ UNCHANGED acts
  /\ Acts(Head(waiting), desk, Tail(waiting))

Push(direction, count, pace) ==
  LET heard == Looked(Noticed(desk, market), market)
  IN BetweenAdvances([kind |-> "push", direction |-> direction, count |-> count, pace |-> pace,
                      at |-> now, running |-> heard.pushes], heard)

\* A close, or a preset, which is a close at a position's expiry.  Neither it nor
\* a scenario is taken while a push runs.
Close(instant) ==
  LET heard == Looked(Noticed(desk, market), market)
  IN ~Refuses(heard, market) /\ BetweenAdvances([kind |-> "close", instant |-> instant], heard)

Scenario ==
  LET heard == Looked(desk, market)
  IN ~Refuses(heard, market) /\ BetweenAdvances([kind |-> "scenario"], heard)

SetBias(direction) ==
  BetweenAdvances([kind |-> "bias", direction |-> direction], Looked(desk, market))

Open ==
  /\ Cardinality(desk.positions) < MaxPositions
  /\ BetweenAdvances([kind |-> "open"], desk)

\* release: at any time, a pass in flight or not.  scope=push leaves the bias.
Release(scope) ==
  /\ ~Resuming /\ acts < MaxActs /\ acts' = acts + 1
  /\ LET noticed == IF market = Freed(market) THEN Noticed(desk, market)
                    ELSE TouchedBy(Noticed(desk, market), {"landing", "applied"}, "act")
     IN /\ market' = [Freed(market) EXCEPT !.bias = IF scope = "all" THEN None ELSE @]
        /\ desk' = [noticed EXCEPT !.pushes = None, !.noted = IF scope = "all" THEN None ELSE @]
  /\ UNCHANGED <<now, stream, saving, waiting>>

\* releaseAll leaves alone a market nothing is armed on.
ReleaseAll ==
  /\ market.signs # <<>> \/ Bias(market) # None
  /\ Release("all")

\* GET control; a refused request leaves as much.
Control ==
  /\ ~Resuming
  /\ desk' = Looked(Noticed(desk, market), market)
  /\ UNCHANGED <<now, stream, market, saving, waiting, acts>>

Next ==
  \/ ClockTicks \/ Saved \/ Resume \/ Control \/ Open \/ ReleaseAll
  \/ \E checkpointing \in BOOLEAN : Pass(checkpointing)
  \/ \E direction \in Direction, count \in 1..MaxPush, pace \in Paces : Push(direction, count, pace)
  \/ Scenario \/ \E instant \in now + 1..MaxTime : Close(instant)
  \/ \E direction \in Direction \cup {None} : SetBias(direction)
  \/ \E scope \in {"all", "push"} : Release(scope)

Spec == Init /\ [][Next]_vars

-----------------------------------------------------------------------------
(* Properties                                                              *)

Newest == Last(market.published)

\* What the variables hold; a market with no script plays no pace but what a
\* push left, and the drawn tick follows the published ones.
Tick == [sequence : 0..Len(stream), instant : Nat, price : Int]
TypeOK ==
  /\ now \in 0..MaxTime /\ acts \in 0..MaxActs /\ saving \in BOOLEAN
  /\ stream \in Streams /\ Len(waiting) <= MaxWaiting
  /\ market.published \in Seq(Tick) /\ market.published # <<>>
  /\ market.pending = None \/
       /\ market.pending \in Tick
       /\ market.pending.sequence = Newest.sequence + 1
       /\ market.pending.instant > Newest.instant
  /\ market.signs \in Seq(Direction) /\ market.draws \in Seq(Nat)
  /\ desk.telling # <<>> => Resuming
  /\ Cardinality(desk.positions) <= MaxPositions + MaxWaiting

\* The tick a push announced is published at the level announced, and a close
\* ends on its target, whatever passes, biases and positions come between, unless
\* another act or the pace of an interrupted push touched it.
ActsLandAsAnnounced ==
  /\ desk.landing # None /\ desk.landing.touched = None =>
       \A i \in DOMAIN market.published :
         market.published[i].sequence = desk.landing.sequence =>
           market.published[i].price = desk.landing.level
  /\ desk.applied # None /\ desk.applied.touched = None /\ Newest.instant > desk.applied.instant =>
       PriceAt(market.published, desk.applied.instant) = desk.applied.target

\* A position settles from the entry price it was shown (positions.ts,
\* EntryPriceDisagreementError), unless a push that is not anchored at the present
\* took back the tick after it, or it was opened with no tick drawn.
EntriesStand ==
  \A p \in desk.positions :
    ~p.exposed => PriceAt(market.published, p.entry) = p.price

\* The session records that a bias expired only once its deadline passed, and once.
OnlyExpiriesAreRecorded ==
  \A e \in desk.expiries :
    e.noticed >= e.until /\ \A f \in desk.expiries : f.until = e.until => f = e

\* The same without the exceptions.
EveryEntryStands ==
  \A p \in desk.positions : PriceAt(market.published, p.entry) = p.price

\* While a push is said to run, what plays is that push.
PushesArePlayed ==
  desk.pushes # None /\ market.signs # <<>> => desk.landing # None /\ desk.landing.touched = None

\* A push that another took back whole is announced no more.
UndonePushesAreForgotten ==
  desk.telling = <<>> /\ desk.landing # None => desk.landing.touched # "push"

\* A close the operator superseded with a push is not a close that failed.
SupersededIsNotMissed ==
  desk.applied # None /\ desk.applied.touched = "push" /\ Newest.instant > desk.applied.instant =>
    PriceAt(market.published, desk.applied.instant) = desk.applied.target

\* A bias that ran out is recorded before its note is erased.
ExpiriesAreKept ==
  [][desk.noted # None /\ desk'.noted # desk.noted /\ now >= desk.noted.until =>
       \E e \in desk'.expiries : e.until = desk.noted.until]_vars
=============================================================================
