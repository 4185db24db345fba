--------------------------- MODULE FailoverProofs ---------------------------
(***************************************************************************)
(* What Failover promises for any number of nodes and sessions, any clock, *)
(* terms, leases and gaps, and a store that rejects any number of calls.   *)
(*                                                                         *)
(* Two streams meet in the record: the one it ends with, and the one the   *)
(* session with the newest grant is about to write.  The inductive         *)
(* invariant says how they fit: either the session's first unrecorded tick *)
(* is the one the record expects (Continues), or the session owes a seam   *)
(* and everything it will write lies ahead of the record (Ahead).          *)
(***************************************************************************)
EXTENDS Failover, TLAPS

-----------------------------------------------------------------------------
(* Records and the streams that continue them: es is a record's entries,   *)
(* hd its head and ex the sequence it expects next.                        *)

Elements(q) == {q[k] : k \in DOMAIN q}
Ticks(es)   == {es[k].tick : k \in {k \in DOMAIN es : es[k].kind = "tick"}}
Newest(es)  == es[Len(es)]

AnySeam == [lastSequence : Int, resumesAt : Int, says : [from : Int \cup {NoTick}, to : Int]]
Entry   == [kind : {"tick"}, tick : AnyTick] \cup [kind : {"seam"}, seam : AnySeam]

\* The tick of t's stream at a sequence.
At(t, sequence) == Later(t, sequence - t.sequence)

\* u is no earlier than t, in time and in key epoch.
NoEarlier(t, u) == t.value.instant <= u.value.instant /\ t.value.epoch <= u.value.epoch

\* Everything recorded is behind the tick.
Ahead(es, t) == \A r \in Ticks(es) : r.sequence < t.sequence /\ NoEarlier(r, t)

\* The record ends in ticks of t's stream, and holds all of them from t on.
Replays(es, hd, t) ==
  /\ es # <<>>
  /\ hd >= t.sequence - 1
  /\ Newest(es) = [kind |-> "tick", tick |-> At(t, hd)]
  /\ \A i \in t.sequence..hd : At(t, i) \in Ticks(es)

\* What a leader writes from t on is what the record expects next.
Continues(es, hd, t) ==
  \/ Replays(es, hd, t)
  \/ es # <<>> /\ Newest(es).kind = "seam" /\ Newest(es).seam.resumesAt = t.sequence /\ Ahead(es, t)
  \/ es = <<>>

\* The tick f, above everything recorded, is one the record may grow by.
Joins(es, hd, f) ==
  /\ f.sequence > hd
  /\ Ahead(es, f)
  /\ es # <<>> /\ Newest(es).kind = "tick" => f = Later(Newest(es).tick, 1)

EndsAt(es, hd, ex) ==
  /\ es = <<>> => hd = 0 /\ ex = 0
  /\ es # <<>> =>
       /\ \E r \in Ticks(es) : r.sequence = hd
       /\ Newest(es).kind = "tick" => Newest(es).tick.sequence = hd /\ ex = hd + 1
       /\ Newest(es).kind = "seam" => Newest(es).seam.resumesAt = ex /\ ex > hd

MovesForward(es) ==
  \A j, k \in DOMAIN es :
    j < k /\ es[j].kind = "tick" /\ es[k].kind = "tick" =>
      /\ es[j].tick.sequence < es[k].tick.sequence
      /\ NoEarlier(es[j].tick, es[k].tick)
      /\ k = j + 1 => es[k].tick = Later(es[j].tick, 1)

Shape(es, hd, ex, t) ==
  /\ es \in Seq(Entry) /\ hd \in Nat /\ ex \in Nat
  /\ EndsAt(es, hd, ex)
  /\ \A r \in Ticks(es) : r.sequence \in 1..hd /\ r.value.instant <= t
  /\ MovesForward(es)

-----------------------------------------------------------------------------
(* The parts of the inductive invariant *)

\* The callers and the deployment the theorems are about: takeOver is given
\* the newest recorded tick, nobody checkpoints a market before it published,
\* and the market began before the first node opened it.
Deployed == RecordConsulted /\ Premature = {} /\ GenesisInstant + GenesisGap <= 0

Leads(n)    == pc[n] \notin {"out", "resuming"}
MayWrite(n) == Leads(n) /\ s(n).grant = Len(issued)

\* The grant in the table, live or not, is the newest.
InTable == grant # NoGrant =>
             grant = [holder |-> grant.holder, token |-> highWater, expiresAt |-> grant.expiresAt]

\* Tokens count the grants.
Leases ==
  /\ now \in Nat /\ highWater \in Nat /\ busy \in Nat
  /\ issued \in Seq([holder : Nodes, token : Nat])
  /\ Len(issued) = highWater
  /\ \A i \in DOMAIN issued : issued[i].token = i
  /\ InTable

Markets  == [drawn : AnyTick, floor : Int, pending : BOOLEAN, last : AnyTick \cup {NoTick},
             advancedAt : Int]
Sessions == [grant : Nat, market : Markets, owed : BOOLEAN, unrecorded : Seq(AnyTick),
             failures : Int, checkpointAt : Int, told : AnyTick \cup {NoTick}, asOf : Int,
             onDemand : BOOLEAN, answer : Seq(AnyTick), seam : AnySeam \cup {NoTick}]

Granted(n, i) == i \in DOMAIN issued /\ issued[i].holder = n

Types ==
  /\ pc \in [Nodes -> Locations]
  /\ session = [n \in Nodes |-> session[n]]
  /\ known \in [Nodes -> AnyTick \cup {NoTick}]
  /\ \A n \in Nodes : Leads(n) => s(n) \in Sessions /\ Granted(n, s(n).grant)
  /\ \A n \in Nodes : pc[n] = "resuming" =>
       \E i \in DOMAIN issued : Granted(n, i) /\ \A j \in DOMAIN issued : Granted(n, j) => j <= i

\* A checkpoint that a takeover resumes from rather than seams past.
Resumable == saved # NoCheckpoint /\ UsableRecord(saved) /\ ~Stale(saved, now)

\* No recorded key epoch is past the one the next seam opens.
EpochBound == IF saved = NoCheckpoint THEN StartKeyEpoch(now)
              ELSE StartKeyEpochAfter(now, saved.drawn.value.epoch)

\* The checkpoint is behind the record, and one that a takeover may resume
\* from is of the stream the record ends with.
Checkpointed ==
  /\ \A r \in Ticks(entries) : r.value.epoch <= EpochBound
  /\ saved # NoCheckpoint =>
       saved \in AnyCheckpoint /\ saved.pending /\ saved.last \in Ticks(entries)
  /\ Resumable => Replays(entries, head, saved.drawn) /\ saved.drawn.sequence >= 1

\* The first tick a session has to record, now or when its market publishes.
First(n) == IF s(n).unrecorded = <<>> THEN NextUnpublished(s(n).market) ELSE s(n).unrecorded[1]

\* The ticks a session holds follow each other up to its market's next one.
Holding(n) ==
  /\ First(n).sequence >= 1
  /\ \A k \in DOMAIN s(n).unrecorded : /\ s(n).unrecorded[k] = Later(First(n), k - 1)
                                       /\ s(n).unrecorded[k].value.instant <= now
  /\ NextUnpublished(s(n).market) = Later(First(n), Len(s(n).unrecorded))
  /\ s(n).unrecorded # <<>> =>
       s(n).market.pending /\ s(n).market.last = s(n).unrecorded[Len(s(n).unrecorded)]

\* What a call is about to write fits where the call is.
Located(n) ==
  /\ pc[n] \in {"head", "seam"} => s(n).owed
  /\ pc[n] = "append" => ~s(n).owed
  /\ pc[n] = "save" => /\ s(n).unrecorded = <<>>
                       /\ s(n).market.pending /\ s(n).market.last # NoTick
  /\ pc[n] = "seam" => /\ s(n).seam \in AnySeam
                       /\ s(n).seam.lastSequence = head /\ s(n).seam.resumesAt = First(n).sequence

\* The session's stream and the record's.
Follows(n) ==
  /\ s(n).unrecorded = <<>> =>
       \/ s(n).market.last \in Ticks(entries)
       \/ s(n).market.last = NoTick /\ entries = <<>> /\ First(n).value.instant <= now
  /\ First(n).value.epoch <= EpochBound
  /\ IF s(n).owed
     THEN entries # <<>> /\ Ahead(entries, First(n)) /\ First(n).sequence >= head + 2
     ELSE /\ Continues(entries, head, First(n))
          /\ s(n).unrecorded = <<>> => entries = <<>> \/ Newest(entries).kind = "tick"
  /\ Resumable => ~s(n).owed /\ First(n) = At(saved.drawn, First(n).sequence)

\* What a call still has to return is recorded, or about to be.
Answering(n) ==
  /\ pc[n] = "idle" => s(n).answer = <<>>
  /\ pc[n] = "renewed" => s(n).answer = <<>>
  /\ pc[n] \in {"head", "seam", "append"} =>
       s(n).unrecorded # <<>> /\ Elements(s(n).answer) \subseteq Elements(s(n).unrecorded)
  /\ pc[n] = "save" => Elements(s(n).answer) \subseteq Ticks(entries)

\* A node that resumes with the newest grant was given the newest tick.
Opens(n) == pc[n] = "resuming" /\ issued # <<>> /\ issued[Len(issued)].holder = n =>
              known[n] = NewestTick

\* While the store has rejected nothing, what observers were told is recorded.
Announced == busy = 0 => published \subseteq Ticks(entries)

Node(n) == /\ Leads(n) => Answering(n)
           /\ MayWrite(n) => Holding(n) /\ Located(n) /\ Follows(n)
           /\ Opens(n)

IInv ==
  /\ Leases /\ Types /\ Shape(entries, head, expectNext, now) /\ Checkpointed /\ Announced
  /\ \A n \in Nodes : Node(n)

-----------------------------------------------------------------------------
(* Streams *)

\* Generating j ticks and then k more is generating j + k, none is none, and
\* later ticks are no earlier.
LEMMA LaterFacts ==
  ASSUME NEW t \in AnyTick
  PROVE  /\ Later(t, 0) = t
         /\ \A k \in Int : /\ Later(t, k) \in AnyTick
                          /\ Later(t, k).sequence = t.sequence + k
                          /\ Later(t, k).value.epoch = t.value.epoch
         /\ \A j, k \in Int : Later(Later(t, j), k) = Later(t, j + k)
         /\ \A j, k \in Int : j <= k => NoEarlier(Later(t, j), Later(t, k))
<1> Gap \in Nat \ {0}
  BY HostedMarketAssumption
<1>1. /\ t = [sequence |-> t.sequence, value |-> t.value]
      /\ t.value = [instant |-> t.value.instant, epoch |-> t.value.epoch]
      /\ t.sequence \in Int /\ t.value.instant \in Int /\ t.value.epoch \in Int
  BY DEF AnyTick
<1>2. Later(t, 0) = t
  BY <1>1 DEF Later
<1>3. \A k \in Int : /\ Later(t, k) \in AnyTick
                    /\ Later(t, k).sequence = t.sequence + k
                    /\ Later(t, k).value.epoch = t.value.epoch
  BY <1>1 DEF Later, AnyTick
<1>4. ASSUME NEW j \in Int, NEW k \in Int
      PROVE  Later(Later(t, j), k) = Later(t, j + k)
  <2>1. j * Gap + k * Gap = (j + k) * Gap
    OBVIOUS
  <2>2. t.value.instant + j * Gap + k * Gap = t.value.instant + (j + k) * Gap
    BY <1>1, <2>1
  <2> QED BY <1>1, <2>2 DEF Later
<1>5. ASSUME NEW j \in Int, NEW k \in Int, j <= k
      PROVE  NoEarlier(Later(t, j), Later(t, k))
  <2>1. j * Gap <= k * Gap
    BY <1>5
  <2> QED BY <1>1, <2>1 DEF Later, NoEarlier
<1> QED BY <1>2, <1>3, <1>4, <1>5

\* No earlier than what is no earlier is no earlier.
LEMMA NoEarlierIsTransitive ==
  ASSUME NEW t \in AnyTick, NEW u \in AnyTick, NEW v \in AnyTick, NoEarlier(t, u), NoEarlier(u, v)
  PROVE  NoEarlier(t, v)
<1>1. \A w \in AnyTick : w.value.instant \in Int /\ w.value.epoch \in Int
  BY DEF AnyTick
<1> QED BY <1>1 DEF NoEarlier

\* A tick's stream is the same from any of its ticks.
LEMMA AtFacts ==
  ASSUME NEW t \in AnyTick
  PROVE  /\ At(t, t.sequence) = t
         /\ \A i \in Int : /\ At(t, i) \in AnyTick
                          /\ At(t, i).sequence = i
                          /\ At(t, i).value.epoch = t.value.epoch
         /\ \A i, j \in Int : At(At(t, i), j) = At(t, j)
         /\ \A i, k \in Int : Later(At(t, i), k) = At(t, i + k)
         /\ \A k \in Int : Later(t, k) = At(t, t.sequence + k)
<1>1. t.sequence \in Int
  BY DEF AnyTick
<1>2. At(t, t.sequence) = t
  BY <1>1, LaterFacts DEF At
<1>3. ASSUME NEW i \in Int
      PROVE  /\ At(t, i) \in AnyTick
             /\ At(t, i).sequence = i
             /\ At(t, i).value.epoch = t.value.epoch
  <2>1. i - t.sequence \in Int /\ t.sequence + (i - t.sequence) = i
    BY <1>1
  <2>2. /\ Later(t, i - t.sequence) \in AnyTick
        /\ Later(t, i - t.sequence).sequence = t.sequence + (i - t.sequence)
        /\ Later(t, i - t.sequence).value.epoch = t.value.epoch
    BY <2>1, LaterFacts
  <2> QED BY <2>1, <2>2 DEF At
<1>4. ASSUME NEW i \in Int, NEW k \in Int
      PROVE  Later(At(t, i), k) = At(t, i + k)
  <2>1. (i - t.sequence) + k = (i + k) - t.sequence /\ i - t.sequence \in Int
    BY <1>1
  <2>2. Later(Later(t, i - t.sequence), k) = Later(t, (i - t.sequence) + k)
    BY <2>1, LaterFacts
  <2> QED BY <2>1, <2>2 DEF At
<1>5. ASSUME NEW i \in Int, NEW j \in Int
      PROVE  At(At(t, i), j) = At(t, j)
  <2>1. At(At(t, i), j) = Later(At(t, i), j - i)
    BY <1>3 DEF At
  <2> QED BY <2>1, <1>4
<1>6. ASSUME NEW k \in Int
      PROVE  Later(t, k) = At(t, t.sequence + k)
  BY <1>1, <1>2, <1>4
<1> QED BY <1>2, <1>3, <1>4, <1>5, <1>6

\* Where the tick of a stream at a sequence lies.
LEMMA AtIs ==
  \A t \in AnyTick : \A i \in Int :
    At(t, i) \in AnyTick /\ At(t, i).sequence = i /\ At(t, i).value.epoch = t.value.epoch
BY AtFacts

\* The tick of a stream at a sequence, seen from another tick of the stream.
LEMMA AtAt == \A t \in AnyTick : \A i, j \in Int : At(At(t, i), j) = At(t, j)
BY AtFacts

\* k ticks later is the tick k sequences on.
LEMMA LaterIs == \A t \in AnyTick : \A k \in Int : Later(t, k) = At(t, t.sequence + k)
BY AtFacts

\* What is published is due, and the tick after it comes next.
LEMMA PublishedFacts ==
  ASSUME NEW m \in Markets, NEW t \in Nat
  PROVE  /\ DueCount(m, t) \in Nat
         /\ Published(m, t) \in Seq(AnyTick)
         /\ Len(Published(m, t)) = DueCount(m, t)
         /\ \A k \in DOMAIN Published(m, t) :
              /\ Published(m, t)[k] = Later(NextUnpublished(m), k - 1)
              /\ Published(m, t)[k].value.instant <= t
         /\ NextUnpublished(m) \in AnyTick
         /\ NextUnpublished(m).value.instant <= t => DueCount(m, t) >= 1
<1> DEFINE first == NextUnpublished(m)
           x == first.value.instant
           n == DueCount(m, t)
<1> Gap \in Nat \ {0}
  BY HostedMarketAssumption
<1>1. first \in AnyTick /\ x \in Int
  <2>1. m.drawn \in AnyTick
    BY DEF Markets
  <2>2. first \in AnyTick
    BY <2>1, LaterFacts DEF NextUnpublished
  <2> QED BY <2>2 DEF AnyTick
<1> HIDE DEF first
<1>2. n = IF x > t THEN 0 ELSE (t - x) \div Gap + 1
  BY DEF DueCount, first
<1> HIDE DEF n
<1>3. n \in Nat /\ (x <= t => n >= 1)
  <2>1. CASE x > t
    BY <2>1, <1>1, <1>2
  <2>2. CASE x <= t
    <3>1. (t - x) \div Gap \in Nat
      BY <1>1, <2>2
    <3> QED BY <1>1, <1>2, <2>2, <3>1
  <2> QED BY <1>1, <2>1, <2>2
<1>4. ASSUME NEW k \in 1..n
      PROVE  Later(first, k - 1) \in AnyTick /\ Later(first, k - 1).value.instant <= t
  <2>1. x <= t /\ k - 1 <= (t - x) \div Gap /\ (t - x) \div Gap \in Int
    BY <1>1, <1>2
  <2>2. ((t - x) \div Gap) * Gap <= t - x
    BY <1>1, <2>1
  <2>3. (k - 1) * Gap <= ((t - x) \div Gap) * Gap
    BY <2>1
  <2>4. (k - 1) * Gap \in Int /\ ((t - x) \div Gap) * Gap \in Int
    BY <2>1
  <2>5. x + (k - 1) * Gap <= t
    BY <1>1, <2>2, <2>3, <2>4
  <2>6. Later(first, k - 1).value.instant = x + (k - 1) * Gap
    BY DEF Later
  <2>7. k - 1 \in Int
    OBVIOUS
  <2>8. Later(first, k - 1) \in AnyTick
    BY <1>1, <2>7, LaterFacts
  <2> QED BY <2>5, <2>6, <2>8
<1>5. Published(m, t) = [k \in 1..n |-> Later(first, k - 1)]
  BY DEF Published, first, n
<1>6. Published(m, t) \in Seq(AnyTick) /\ Len(Published(m, t)) = n
  BY <1>3, <1>4, <1>5
<1>7. DOMAIN Published(m, t) = 1..n
  BY <1>5
<1> QED BY <1>1, <1>3, <1>4, <1>5, <1>6, <1>7 DEF first, n

-----------------------------------------------------------------------------
(* The record's ticks *)

\* The ticks of a record are ticks.
LEMMA TicksAreTicks ==
  ASSUME NEW es \in Seq(Entry)
  PROVE  /\ Ticks(es) \subseteq AnyTick
         /\ \A k \in DOMAIN es : /\ es[k] \in Entry /\ es[k].kind \in {"tick", "seam"}
                                 /\ es[k].kind = "tick" => es[k] = [kind |-> "tick", tick |-> es[k].tick]
         /\ es # <<>> => Len(es) \in DOMAIN es
<1>1. ASSUME NEW k \in DOMAIN es
      PROVE  /\ es[k] \in Entry /\ es[k].kind \in {"tick", "seam"}
             /\ es[k].kind = "tick" => /\ es[k].tick \in AnyTick
                                       /\ es[k] = [kind |-> "tick", tick |-> es[k].tick]
  <2>1. es[k] \in Entry
    OBVIOUS
  <2> QED BY <2>1 DEF Entry
<1>2. es # <<>> => Len(es) \in DOMAIN es
  OBVIOUS
<1> QED BY <1>1, <1>2 DEF Ticks

\* What appending ticks to a record adds to it.
LEMMA AppendedTicks ==
  ASSUME NEW es \in Seq(Entry), NEW f \in Seq(AnyTick)
  PROVE  LET es2 == es \o Store!TickEntries(f) IN
         /\ es2 \in Seq(Entry)
         /\ Len(es2) = Len(es) + Len(f)
         /\ \A k \in 1..Len(es) : es2[k] = es[k]
         /\ \A k \in 1..Len(f) : es2[Len(es) + k] = [kind |-> "tick", tick |-> f[k]]
         /\ Ticks(es2) = Ticks(es) \cup Elements(f)
<1> DEFINE g == Store!TickEntries(f)
           es2 == es \o g
<1>1. g = [k \in DOMAIN f |-> [kind |-> "tick", tick |-> f[k]]]
  BY DEF Store!TickEntries, Store!TickEntryOf
<1>2. \A k \in DOMAIN f : f[k] \in AnyTick /\ [kind |-> "tick", tick |-> f[k]] \in Entry
  BY DEF Entry
<1>3. g \in Seq(Entry) /\ Len(g) = Len(f) /\ DOMAIN f = 1..Len(f)
  BY <1>1, <1>2
<1> HIDE DEF g
<1>4. /\ es2 \in Seq(Entry)
      /\ Len(es2) = Len(es) + Len(f)
      /\ \A k \in 1..Len(es) : es2[k] = es[k]
      /\ \A k \in 1..Len(f) : es2[Len(es) + k] = g[k]
      /\ Len(es) \in Nat /\ Len(f) \in Nat
  BY <1>3
<1>5. \A k \in 1..Len(f) : es2[Len(es) + k] = [kind |-> "tick", tick |-> f[k]]
  BY <1>1, <1>3, <1>4
<1>6. DOMAIN es = 1..Len(es) /\ DOMAIN es2 = 1..(Len(es) + Len(f))
  BY <1>4
<1> HIDE DEF es2
<1>7. Ticks(es2) \subseteq Ticks(es) \cup Elements(f)
  <2>1. SUFFICES ASSUME NEW k \in DOMAIN es2, es2[k].kind = "tick"
                 PROVE  es2[k].tick \in Ticks(es) \cup Elements(f)
    BY DEF Ticks
  <2>2. CASE k <= Len(es)
    BY <1>4, <1>6, <2>1, <2>2 DEF Ticks
  <2>3. CASE k > Len(es)
    <3>1. PICK j \in 1..Len(f) : k = Len(es) + j
      <4>1. k - Len(es) \in 1..Len(f) /\ Len(es) + (k - Len(es)) = k
        BY <1>4, <1>6, <2>3
      <4> QED BY <4>1
    <3>2. es2[k] = [kind |-> "tick", tick |-> f[j]]
      BY <1>5, <3>1
    <3> QED BY <1>3, <3>1, <3>2 DEF Elements
  <2> QED BY <1>4, <1>6, <2>2, <2>3
<1>8. Ticks(es) \subseteq Ticks(es2)
  BY <1>4, <1>6 DEF Ticks
<1>9. Elements(f) \subseteq Ticks(es2)
  <2>1. SUFFICES ASSUME NEW k \in 1..Len(f)
                 PROVE  f[k] \in Ticks(es2)
    BY <1>3 DEF Elements
  <2>2. Len(es) + k \in DOMAIN es2
    BY <1>4, <1>6
  <2>3. es2[Len(es) + k] = [kind |-> "tick", tick |-> f[k]]
    BY <1>5
  <2>4. es2[Len(es) + k].kind = "tick" /\ es2[Len(es) + k].tick = f[k]
    BY <2>3
  <2> QED BY <2>2, <2>4 DEF Ticks
<1> QED BY <1>4, <1>5, <1>7, <1>8, <1>9 DEF es2, g

\* What recording a seam adds to a record: no tick.
LEMMA AppendedSeam ==
  ASSUME NEW es \in Seq(Entry), NEW seam \in AnySeam
  PROVE  LET es2 == Append(es, Store!SeamEntryOf(seam)) IN
         /\ es2 \in Seq(Entry)
         /\ Len(es2) = Len(es) + 1
         /\ \A k \in 1..Len(es) : es2[k] = es[k]
         /\ Newest(es2) = [kind |-> "seam", seam |-> seam]
         /\ Ticks(es2) = Ticks(es)
<1> DEFINE e == [kind |-> "seam", seam |-> seam]
           es2 == Append(es, e)
<1>1. e \in Entry /\ Store!SeamEntryOf(seam) = e
  BY DEF Entry, Store!SeamEntryOf
<1> HIDE DEF e
<1>2. /\ es2 \in Seq(Entry)
      /\ Len(es2) = Len(es) + 1
      /\ \A k \in 1..Len(es) : es2[k] = es[k]
      /\ es2[Len(es) + 1] = e
      /\ DOMAIN es = 1..Len(es) /\ DOMAIN es2 = 1..(Len(es) + 1)
      /\ Len(es) \in Nat
  BY <1>1
<1>3. e.kind # "tick"
  BY DEF e
<1> HIDE DEF es2
<1>4. Ticks(es2) = Ticks(es)
  <2>1. Ticks(es) \subseteq Ticks(es2)
    BY <1>2 DEF Ticks
  <2>2. ASSUME NEW k \in DOMAIN es2, es2[k].kind = "tick"
        PROVE  es2[k].tick \in Ticks(es)
    <3>1. k # Len(es) + 1
      BY <1>2, <1>3, <2>2
    <3>2. k \in 1..Len(es)
      BY <1>2, <3>1
    <3> QED BY <1>2, <2>2, <3>2 DEF Ticks
  <2> QED BY <2>1, <2>2 DEF Ticks
<1> QED BY <1>1, <1>2, <1>4 DEF Newest, e, es2

\* A record grows by consecutive ticks of the stream its next tick is of.
LEMMA Grows ==
  ASSUME NEW es, NEW hd, NEW ex, NEW t \in Nat, Shape(es, hd, ex, t),
         NEW f \in Seq(AnyTick), f # <<>>, Joins(es, hd, f[1]), f[1].sequence >= 1,
         \A k \in DOMAIN f : f[k] = Later(f[1], k - 1) /\ f[k].value.instant <= t
  PROVE  LET es2  == es \o Store!TickEntries(f)
             last == f[Len(f)]
         IN /\ Shape(es2, last.sequence, last.sequence + 1, t)
            /\ es2 # <<>>
            /\ Newest(es2) = [kind |-> "tick", tick |-> last]
<1> DEFINE es2 == es \o Store!TickEntries(f)
           last == f[Len(f)]
<1>1. es \in Seq(Entry) /\ hd \in Nat /\ ex \in Nat
  BY DEF Shape
<1>2. /\ es2 \in Seq(Entry)
      /\ Len(es2) = Len(es) + Len(f)
      /\ \A k \in 1..Len(es) : es2[k] = es[k]
      /\ \A k \in 1..Len(f) : es2[Len(es) + k] = [kind |-> "tick", tick |-> f[k]]
      /\ Ticks(es2) = Ticks(es) \cup Elements(f)
  BY <1>1, AppendedTicks
<1> HIDE DEF es2
<1>3. /\ DOMAIN es = 1..Len(es) /\ DOMAIN f = 1..Len(f) /\ DOMAIN es2 = 1..(Len(es) + Len(f))
      /\ Len(es) \in Nat /\ Len(f) \in Nat \ {0}
      /\ f[1] \in AnyTick /\ f[1].sequence \in Int
  <2>1. /\ DOMAIN es = 1..Len(es) /\ DOMAIN f = 1..Len(f) /\ DOMAIN es2 = 1..(Len(es) + Len(f))
        /\ Len(es) \in Nat
    BY <1>1, <1>2
  <2>2. Len(f) \in Nat \ {0}
    OBVIOUS
  <2>3. f[1] \in AnyTick
    BY <2>2
  <2> QED BY <2>1, <2>2, <2>3 DEF AnyTick
<1>4. ASSUME NEW k \in 1..Len(f)
      PROVE  /\ f[k] \in AnyTick /\ f[k].sequence = f[1].sequence + (k - 1)
             /\ NoEarlier(f[1], f[k])
             /\ f[k] = Later(f[1], k - 1) /\ f[k].value.instant <= t
  <2>1. f[k] = Later(f[1], k - 1) /\ k - 1 \in Int /\ 0 <= k - 1
    BY <1>3
  <2>2. f[1] = Later(f[1], 0)
    BY <1>3, LaterFacts
  <2>3. NoEarlier(Later(f[1], 0), Later(f[1], k - 1))
    BY <1>3, <2>1, LaterFacts
  <2>4. Later(f[1], k - 1) \in AnyTick /\ Later(f[1], k - 1).sequence = f[1].sequence + (k - 1)
    BY <1>3, <2>1, LaterFacts
  <2> QED BY <1>3, <2>1, <2>2, <2>3, <2>4
<1>5. last \in AnyTick /\ last.sequence = f[1].sequence + (Len(f) - 1) /\ last.sequence \in Nat
  BY <1>3, <1>4
<1>6. Newest(es2) = [kind |-> "tick", tick |-> last] /\ es2 # <<>>
  BY <1>2, <1>3 DEF Newest
<1>7. EndsAt(es2, last.sequence, last.sequence + 1)
  <2>1. last \in Ticks(es2)
    BY <1>2, <1>3 DEF Elements
  <2> QED BY <1>6, <2>1 DEF EndsAt
<1>8. ASSUME NEW r \in Ticks(es2)
      PROVE  r.sequence \in 1..last.sequence /\ r.value.instant <= t
  <2>1. CASE r \in Ticks(es)
    <3>1. r.sequence \in 1..hd /\ r.value.instant <= t
      BY <2>1 DEF Shape
    <3>2. r.sequence < f[1].sequence
      BY <2>1 DEF Joins, Ahead
    <3> QED BY <1>1, <1>3, <1>5, <3>1, <3>2
  <2>2. CASE r \in Elements(f)
    <3>1. PICK k \in 1..Len(f) : r = f[k]
      BY <1>3, <2>2 DEF Elements
    <3> QED BY <1>3, <1>4, <1>5, <3>1
  <2> QED BY <1>2, <2>1, <2>2
<1>9. MovesForward(es2)
  <2>1. SUFFICES ASSUME NEW j \in DOMAIN es2, NEW k \in DOMAIN es2, j < k,
                        es2[j].kind = "tick", es2[k].kind = "tick"
                 PROVE  /\ es2[j].tick.sequence < es2[k].tick.sequence
                        /\ NoEarlier(es2[j].tick, es2[k].tick)
                        /\ k = j + 1 => es2[k].tick = Later(es2[j].tick, 1)
    BY DEF MovesForward
  <2>2. CASE k <= Len(es)
    <3>1. j \in 1..Len(es) /\ k \in 1..Len(es)
      BY <1>3, <2>1, <2>2
    <3>2. MovesForward(es)
      BY DEF Shape
    <3> QED BY <1>2, <1>3, <2>1, <3>1, <3>2 DEF MovesForward
  <2>3. CASE k > Len(es)
    <3>1. PICK i \in 1..Len(f) : k = Len(es) + i
      <4>1. k - Len(es) \in 1..Len(f) /\ k = Len(es) + (k - Len(es))
        BY <1>3, <2>3
      <4> QED BY <4>1
    <3>2. es2[k].tick = f[i] /\ f[i].sequence = f[1].sequence + (i - 1) /\ NoEarlier(f[1], f[i])
          /\ f[i] = Later(f[1], i - 1) /\ f[i] \in AnyTick
      <4>1. es2[k] = [kind |-> "tick", tick |-> f[i]]
        BY <1>2, <3>1
      <4> QED BY <1>4, <4>1
    <3>3. CASE j <= Len(es)
      <4>1. j \in 1..Len(es) /\ es2[j] = es[j] /\ es[j].tick \in Ticks(es) /\ es[j].tick \in AnyTick
        BY <1>1, <1>2, <1>3, <2>1, <3>3, TicksAreTicks DEF Ticks
      <4>2. es[j].tick.sequence < f[1].sequence /\ NoEarlier(es[j].tick, f[1])
        BY <4>1 DEF Joins, Ahead
      <4>3. es2[j].tick.sequence < es2[k].tick.sequence
        <5>1. es[j].tick.sequence \in Int /\ f[1].sequence <= f[i].sequence /\ f[i].sequence \in Int
          BY <1>3, <3>2, <4>1 DEF AnyTick
        <5> QED BY <1>3, <3>2, <4>1, <4>2, <5>1
      <4>4. NoEarlier(es2[j].tick, es2[k].tick)
        BY <1>3, <3>2, <4>1, <4>2, NoEarlierIsTransitive
      <4>5. ASSUME k = j + 1
            PROVE  es2[k].tick = Later(es2[j].tick, 1)
        <5>1. j = Len(es) /\ i = 1
          BY <1>3, <3>1, <3>3, <4>5
        <5>2. es # <<>> /\ Newest(es) = es2[j]
          BY <1>3, <4>1, <5>1 DEF Newest
        <5> QED BY <2>1, <3>2, <5>1, <5>2 DEF Joins
      <4> QED BY <4>3, <4>4, <4>5
    <3>4. CASE j > Len(es)
      <4>1. PICK h \in 1..Len(f) : j = Len(es) + h /\ h < i
        <5>1. j - Len(es) \in 1..Len(f) /\ j = Len(es) + (j - Len(es)) /\ j - Len(es) < i
          BY <1>3, <2>1, <3>1, <3>4
        <5> QED BY <5>1
      <4>2. /\ es2[j].tick = f[h] /\ f[h].sequence = f[1].sequence + (h - 1)
            /\ f[h] = Later(f[1], h - 1)
        <5>1. es2[j] = [kind |-> "tick", tick |-> f[h]]
          BY <1>2, <4>1
        <5> QED BY <1>4, <5>1
      <4>3. NoEarlier(f[h], f[i])
        <5>1. h - 1 \in Int /\ i - 1 \in Int /\ h - 1 <= i - 1
          BY <3>1, <4>1
        <5> QED BY <1>3, <3>2, <4>2, <5>1, LaterFacts
      <4>4. ASSUME k = j + 1
            PROVE  f[i] = Later(f[h], 1)
        <5>1. (h - 1) + 1 = i - 1 /\ h - 1 \in Int
          BY <3>1, <4>1, <4>4
        <5>2. Later(Later(f[1], h - 1), 1) = Later(f[1], (h - 1) + 1)
          BY <1>3, <5>1, LaterFacts
        <5> QED BY <3>2, <4>2, <5>1, <5>2
      <4> QED BY <1>3, <3>1, <3>2, <4>1, <4>2, <4>3, <4>4
    <3> QED BY <1>3, <3>3, <3>4
  <2> QED BY <1>3, <2>2, <2>3
<1> QED BY <1>2, <1>5, <1>6, <1>7, <1>8, <1>9 DEF Shape, es2

\* A record that ends in a stream's ticks still does after more of them.
LEMMA GrowsOn ==
  ASSUME NEW es \in Seq(Entry), NEW hd \in Nat, NEW u \in AnyTick, Replays(es, hd, u),
         NEW f \in Seq(AnyTick), f # <<>>, f[1] = At(u, hd + 1),
         \A k \in DOMAIN f : f[k] = Later(f[1], k - 1)
  PROVE  Replays(es \o Store!TickEntries(f), f[Len(f)].sequence, u)
<1> DEFINE es2 == es \o Store!TickEntries(f)
           hd2 == f[Len(f)].sequence
<1>1. /\ Len(es2) = Len(es) + Len(f)
      /\ \A k \in 1..Len(f) : es2[Len(es) + k] = [kind |-> "tick", tick |-> f[k]]
      /\ Ticks(es2) = Ticks(es) \cup Elements(f)
      /\ es2 \in Seq(Entry)
  BY AppendedTicks
<1> HIDE DEF es2
<1>2. Len(f) \in Nat \ {0} /\ DOMAIN f = 1..Len(f) /\ u.sequence \in Int /\ Len(es) \in Nat
  BY DEF AnyTick
<1>3. ASSUME NEW k \in 1..Len(f)
      PROVE  f[k] = At(u, hd + k)
  <2>1. f[k] = Later(At(u, hd + 1), k - 1) /\ k - 1 \in Int /\ hd + 1 \in Int
    BY <1>2
  <2>2. Later(At(u, hd + 1), k - 1) = At(u, (hd + 1) + (k - 1))
    BY <2>1, AtFacts
  <2>3. (hd + 1) + (k - 1) = hd + k
    BY <1>2
  <2> QED BY <2>1, <2>2, <2>3
<1>4. hd2 = hd + Len(f)
  <2>1. f[Len(f)] = At(u, hd + Len(f)) /\ hd + Len(f) \in Int
    BY <1>2, <1>3
  <2>2. At(u, hd + Len(f)).sequence = hd + Len(f)
    BY <2>1, AtFacts
  <2> QED BY <2>1, <2>2
<1> HIDE DEF hd2
<1>5. Newest(es2) = [kind |-> "tick", tick |-> At(u, hd2)] /\ es2 # <<>>
  <2>1. es2[Len(es) + Len(f)] = [kind |-> "tick", tick |-> f[Len(f)]] /\ f[Len(f)] = At(u, hd + Len(f))
    BY <1>1, <1>2, <1>3
  <2> QED BY <1>1, <1>2, <1>4, <2>1 DEF Newest
<1>6. ASSUME NEW i \in u.sequence..hd2
      PROVE  At(u, i) \in Ticks(es2)
  <2>1. CASE i <= hd
    <3>1. i \in u.sequence..hd
      BY <1>2, <2>1
    <3> QED BY <1>1, <3>1 DEF Replays
  <2>2. CASE i > hd
    <3>1. i - hd \in 1..Len(f) /\ hd + (i - hd) = i
      BY <1>2, <1>4, <2>2
    <3>2. f[i - hd] = At(u, i)
      BY <1>3, <3>1
    <3> QED BY <1>1, <1>2, <3>1, <3>2 DEF Elements
  <2> QED BY <1>2, <2>1, <2>2
<1>7. hd2 >= u.sequence - 1
  BY <1>2, <1>4 DEF Replays
<1> QED BY <1>5, <1>6, <1>7 DEF Replays, es2, hd2

-----------------------------------------------------------------------------
(* Appending the ticks a session holds: b, which start at t *)

\* The newest tick is the latest recorded.
LEMMA NewestIsLatest ==
  ASSUME NEW es \in Seq(Entry), MovesForward(es), es # <<>>, Newest(es).kind = "tick",
         NEW r \in Ticks(es)
  PROVE  NoEarlier(r, Newest(es).tick)
<1>1. PICK j \in DOMAIN es : es[j].kind = "tick" /\ r = es[j].tick
  BY DEF Ticks
<1>2. Len(es) \in DOMAIN es /\ Newest(es) = es[Len(es)] /\ j <= Len(es) /\ j \in Int /\ Len(es) \in Int
  BY DEF Newest
<1>3. CASE j < Len(es)
  BY <1>1, <1>2, <1>3 DEF MovesForward
<1>4. CASE j = Len(es)
  <2>1. r \in AnyTick /\ r = Newest(es).tick
    BY <1>1, <1>2, <1>4, TicksAreTicks
  <2> QED BY <2>1 DEF NoEarlier, AnyTick
<1> QED BY <1>2, <1>3, <1>4

\* A stream's ticks in a row, by their sequences.
LEMMA InARow ==
  ASSUME NEW t \in AnyTick, NEW b \in Seq(AnyTick), \A k \in DOMAIN b : b[k] = Later(t, k - 1)
  PROVE  \A k \in 1..Len(b) : /\ b[k] = At(t, t.sequence + (k - 1))
                              /\ b[k].sequence = t.sequence + (k - 1)
                              /\ b[k] \in AnyTick /\ b[k].value.epoch = t.value.epoch
<1>1. SUFFICES ASSUME NEW k \in 1..Len(b)
               PROVE  /\ b[k] = At(t, t.sequence + (k - 1))
                      /\ b[k].sequence = t.sequence + (k - 1)
                      /\ b[k] \in AnyTick /\ b[k].value.epoch = t.value.epoch
  OBVIOUS
<1>2. b[k] = Later(t, k - 1) /\ k - 1 \in Int
  OBVIOUS
<1>3. b[k] = At(t, t.sequence + (k - 1)) /\ t.sequence + (k - 1) \in Int
  BY <1>2, LaterIs DEF AnyTick
<1>4. PICK i \in Int : i = t.sequence + (k - 1)
  BY <1>3
<1>5. At(t, i) \in AnyTick /\ At(t, i).sequence = i /\ At(t, i).value.epoch = t.value.epoch
  BY AtIs
<1> QED BY <1>3, <1>4, <1>5

\* The part of a batch that was not replayed.
LEMMA FreshFacts ==
  ASSUME NEW b \in Seq(AnyTick), NEW r \in 0..Len(b)
  PROVE  LET f == Store!Fresh(b, r) IN
         /\ f \in Seq(AnyTick) /\ Len(f) = Len(b) - r /\ DOMAIN f = 1..(Len(b) - r)
         /\ \A k \in 1..(Len(b) - r) : f[k] = b[r + k]
<1> DEFINE f == SubSeq(b, r + 1, Len(b))
<1>1. Len(b) \in Nat /\ r \in Int
  OBVIOUS
<1>2. r + 1 \in 1..(Len(b) + 1) /\ Len(b) + 1 - (r + 1) = Len(b) - r /\ Len(b) - r \in Nat
  BY <1>1
<1>3. f \in Seq(AnyTick) /\ Len(f) = Len(b) - r /\ DOMAIN f = 1..Len(f)
  BY <1>1, <1>2
<1>4. ASSUME NEW k \in 1..(Len(b) - r)
      PROVE  f[k] = b[r + k]
  <2>1. f[k] = b[(r + 1) + k - 1] /\ (r + 1) + k - 1 = r + k
    BY <1>1, <1>2, <1>3
  <2> QED BY <2>1
<1> QED BY <1>3, <1>4 DEF Store!Fresh

\* The record takes what continues it: some of the batch it holds already,
\* the rest fills the expected place.
LEMMA BatchFits ==
  ASSUME now \in Nat, Shape(entries, head, expectNext, now), NEW t \in AnyTick, t.sequence >= 1,
         NEW b \in Seq(AnyTick), \A k \in DOMAIN b : b[k] = Later(t, k - 1),
         Continues(entries, head, t)
  PROVE  \E r \in 0..Len(b) : Store!Splits(b, r)
<1>1. /\ entries \in Seq(Entry) /\ head \in Nat /\ expectNext \in Nat
      /\ EndsAt(entries, head, expectNext)
  BY DEF Shape
<1>2. \A k \in 1..Len(b) : /\ b[k] = At(t, t.sequence + (k - 1))
                           /\ b[k].sequence = t.sequence + (k - 1)
  BY InARow
<1>3. t.sequence \in Int /\ Len(b) \in Nat /\ DOMAIN b = 1..Len(b)
  BY DEF AnyTick
<1>4. Store!Ordered(b)
  BY <1>2, <1>3 DEF Store!Ordered
<1>5. ASSUME NEW r \in 0..Len(b),
             \A k \in 1..r : b[k].sequence <= head /\ b[k] \in Ticks(entries),
             r < Len(b) => b[r + 1].sequence > head,
             r < Len(b) => expectNext = 0 \/ b[r + 1].sequence = expectNext
      PROVE  Store!Splits(b, r)
  <2> DEFINE f == Store!Fresh(b, r)
  <2>1. /\ DOMAIN f = 1..(Len(b) - r)
        /\ \A k \in 1..(Len(b) - r) : f[k] = b[r + k]
    BY <1>3 DEF Store!Fresh
  <2> HIDE DEF f
  <2>2. ASSUME NEW k \in 1..r
        PROVE  Store!Recorded(b[k])
    <3>1. PICK j \in DOMAIN entries : entries[j].kind = "tick" /\ b[k] = entries[j].tick
      BY <1>5, <2>2 DEF Ticks
    <3>2. entries[j] = [kind |-> "tick", tick |-> b[k]]
      BY <1>1, <3>1, TicksAreTicks
    <3> QED BY <1>5, <3>2 DEF Store!Recorded, Store!TickEntryOf
  <2>3. ASSUME NEW k \in DOMAIN f
        PROVE  /\ f[k].sequence > head
               /\ f[k].sequence = (IF expectNext = 0 THEN f[1].sequence ELSE expectNext) + k - 1
    <3>1. k \in 1..(Len(b) - r) /\ r < Len(b) /\ r + k \in 1..Len(b) /\ r + 1 \in 1..Len(b)
          /\ 1 \in 1..(Len(b) - r)
      BY <1>3, <2>1, <2>3
    <3>2. /\ f[k].sequence = t.sequence + ((r + k) - 1)
          /\ f[1].sequence = t.sequence + ((r + 1) - 1)
          /\ f[1] = b[r + 1]
      BY <1>2, <2>1, <3>1
    <3>3. f[1].sequence > head /\ (expectNext = 0 \/ f[1].sequence = expectNext)
      BY <1>5, <3>1, <3>2
    <3>4. f[k].sequence = f[1].sequence + k - 1 /\ f[1].sequence \in Int /\ k \in Int /\ k >= 1
      BY <1>3, <3>1, <3>2
    <3> QED BY <1>1, <3>3, <3>4
  <2> QED BY <1>4, <2>2, <2>3 DEF Store!Splits, Store!Continues, f
<1>6. CASE Replays(entries, head, t)
  <2> DEFINE d == head - t.sequence + 1
             r == IF d <= Len(b) THEN d ELSE Len(b)
  <2>1. d \in Nat
    BY <1>1, <1>3, <1>6 DEF Replays
  <2>2. r \in 0..Len(b) /\ r <= d /\ (r < Len(b) => r = d)
    BY <1>3, <2>1
  <2>3. expectNext = head + 1
    BY <1>6 DEF Replays, Shape, EndsAt
  <2> HIDE DEF r
  <2>4. ASSUME NEW k \in 1..r
        PROVE  b[k].sequence <= head /\ b[k] \in Ticks(entries)
    <3>1. k \in 1..Len(b) /\ t.sequence + (k - 1) \in t.sequence..head
      BY <1>1, <1>3, <2>1, <2>2
    <3> QED BY <1>1, <1>2, <1>3, <1>6, <3>1 DEF Replays
  <2>5. r < Len(b) => b[r + 1].sequence = head + 1
    <3>1. ASSUME r < Len(b)
          PROVE  b[r + 1].sequence = head + 1
      <4>1. r + 1 \in 1..Len(b) /\ t.sequence + ((r + 1) - 1) = head + 1
        BY <1>1, <1>3, <2>1, <2>2, <3>1
      <4> QED BY <1>2, <4>1
    <3> QED BY <3>1
  <2> QED BY <1>1, <1>5, <2>2, <2>3, <2>4, <2>5
<1>7. CASE ~Replays(entries, head, t)
  <2>1. t.sequence > head /\ (expectNext = 0 \/ t.sequence = expectNext)
    <3>1. CASE entries = <<>>
      BY <1>1, <1>3, <3>1 DEF EndsAt
    <3>2. CASE entries # <<>> /\ Newest(entries).kind = "seam" /\ Newest(entries).seam.resumesAt = t.sequence
      BY <1>1, <1>3, <3>2 DEF EndsAt
    <3> QED BY <1>7, <3>1, <3>2 DEF Continues
  <2>2. 0 < Len(b) => b[0 + 1].sequence = t.sequence
    BY <1>2, <1>3
  <2> QED BY <1>3, <1>5, <2>1, <2>2
<1> QED BY <1>6, <1>7

\* What the record is once it took the batch: it ends with the stream the
\* batch is of, and goes on with any stream it was already replaying.
LEMMA BatchGrows ==
  ASSUME now \in Nat, Shape(entries, head, expectNext, now), NEW t \in AnyTick, t.sequence >= 1,
         NEW b \in Seq(AnyTick), b # <<>>,
         \A k \in DOMAIN b : b[k] = Later(t, k - 1) /\ b[k].value.instant <= now,
         Continues(entries, head, t),
         NEW r \in 0..Len(b), Store!Splits(b, r)
  PROVE  LET f   == Store!Fresh(b, r)
             es2 == entries \o Store!TickEntries(f)
             hd2 == IF f = <<>> THEN head ELSE f[Len(f)].sequence
             ex2 == IF f = <<>> THEN expectNext ELSE f[Len(f)].sequence + 1
         IN /\ Shape(es2, hd2, ex2, now)
            /\ Ticks(entries) \cup Elements(b) \subseteq Ticks(es2)
            /\ \A q \in Ticks(es2) : q \in Ticks(entries) \/ q.value.epoch = t.value.epoch
            /\ Replays(es2, hd2, Later(t, Len(b)))
            /\ \A u \in AnyTick : Replays(entries, head, u) /\ t = At(u, t.sequence) =>
                                    Replays(es2, hd2, u)
<1> DEFINE f   == Store!Fresh(b, r)
           es2 == entries \o Store!TickEntries(f)
           hd2 == IF f = <<>> THEN head ELSE f[Len(f)].sequence
           ex2 == IF f = <<>> THEN expectNext ELSE f[Len(f)].sequence + 1
           next == Later(t, Len(b))
<1>1. /\ entries \in Seq(Entry) /\ head \in Nat /\ expectNext \in Nat
      /\ EndsAt(entries, head, expectNext) /\ MovesForward(entries)
  BY DEF Shape
<1>2. \A k \in 1..Len(b) : /\ b[k] = At(t, t.sequence + (k - 1))
                           /\ b[k].sequence = t.sequence + (k - 1)
                           /\ b[k] \in AnyTick /\ b[k].value.epoch = t.value.epoch
  BY InARow
<1>3. t.sequence \in Int /\ Len(b) \in Nat \ {0} /\ DOMAIN b = 1..Len(b)
  <2>1. Len(b) \in Nat \ {0} /\ DOMAIN b = 1..Len(b)
    OBVIOUS
  <2> QED BY <2>1 DEF AnyTick
<1>4. /\ f \in Seq(AnyTick) /\ Len(f) = Len(b) - r /\ DOMAIN f = 1..(Len(b) - r)
      /\ \A k \in 1..(Len(b) - r) : f[k] = b[r + k]
  BY FreshFacts
<1>5. \A k \in 1..r : b[k].sequence <= head /\ b[k] \in Ticks(entries)
  <2>1. SUFFICES ASSUME NEW k \in 1..r
                 PROVE  b[k].sequence <= head /\ b[k] \in Ticks(entries)
    OBVIOUS
  <2>2. Store!Recorded(b[k])
    BY DEF Store!Splits
  <2>3. PICK j \in DOMAIN entries : entries[j] = [kind |-> "tick", tick |-> b[k]]
    BY <2>2 DEF Store!Recorded, Store!TickEntryOf
  <2>4. entries[j].kind = "tick" /\ entries[j].tick = b[k]
    BY <2>3
  <2> QED BY <2>2, <2>4 DEF Store!Recorded, Ticks
<1>6. next = At(t, t.sequence + Len(b)) /\ next \in AnyTick /\ next.sequence = t.sequence + Len(b)
  BY <1>3, AtFacts, LaterFacts
<1>7. \A j \in Int : At(next, j) = At(t, j)
  <2>1. t.sequence + Len(b) \in Int
    BY <1>3
  <2> QED BY <1>6, <2>1, AtAt
<1>8. \A q \in Elements(b) : q.value.epoch = t.value.epoch
  BY <1>2, <1>3 DEF Elements
<1> HIDE DEF next
<1>9. CASE r = Len(b)
  <2>1. f = <<>>
    BY <1>3, <1>4, <1>9
  <2>2. es2 = entries /\ hd2 = head /\ ex2 = expectNext
    <3>1. Store!TickEntries(<<>>) = <<>>
      BY DEF Store!TickEntries
    <3> QED BY <1>1, <2>1, <3>1
  <2>3. Elements(b) \subseteq Ticks(entries)
    BY <1>3, <1>5, <1>9 DEF Elements
  <2>4. Replays(entries, head, t)
    <3>1. b[1] \in Ticks(entries) /\ b[1].sequence = t.sequence
      BY <1>2, <1>3, <1>5, <1>9
    <3>2. entries # <<>>
      BY <3>1 DEF Ticks
    <3>3. ~Ahead(entries, t)
      BY <1>3, <3>1 DEF Ahead
    <3> QED BY <3>2, <3>3 DEF Continues
  <2>5. Replays(entries, head, next)
    <3>1. b[Len(b)].sequence <= head /\ b[Len(b)].sequence = t.sequence + (Len(b) - 1)
      BY <1>2, <1>3, <1>5, <1>9
    <3>2. head >= next.sequence - 1
      BY <1>1, <1>3, <1>6, <3>1
    <3>3. \A i \in next.sequence..head : At(next, i) \in Ticks(entries)
      <4>1. SUFFICES ASSUME NEW i \in next.sequence..head
                     PROVE  At(next, i) \in Ticks(entries)
        OBVIOUS
      <4>2. i \in t.sequence..head /\ i \in Int
        BY <1>1, <1>3, <1>6
      <4> QED BY <1>7, <2>4, <4>2 DEF Replays
    <3> QED BY <1>1, <1>7, <2>4, <3>2, <3>3 DEF Replays
  <2> QED BY <2>2, <2>3, <2>5 DEF next
<1>10. CASE r < Len(b)
  <2>1. /\ r + 1 \in 1..Len(b) /\ 1 \in 1..(Len(b) - r) /\ f[1] = b[r + 1] /\ f # <<>>
        /\ f[1] \in AnyTick
        /\ f[1].sequence = t.sequence + r /\ f[1] = At(t, t.sequence + r) /\ f[1] = Later(t, r)
    <3>1. r + 1 \in 1..Len(b) /\ 1 \in 1..(Len(b) - r) /\ r \in Int /\ (r + 1) - 1 = r
      BY <1>3, <1>10
    <3>2. f[1] = b[r + 1] /\ f # <<>>
      BY <1>4, <3>1
    <3>3. b[r + 1] = At(t, t.sequence + ((r + 1) - 1)) /\ b[r + 1].sequence = t.sequence + ((r + 1) - 1)
          /\ b[r + 1] = Later(t, (r + 1) - 1) /\ b[r + 1] \in AnyTick
      BY <1>2, <1>3, <3>1
    <3> QED BY <3>1, <3>2, <3>3
  <2>2. f[1].sequence > head /\ (expectNext = 0 \/ f[1].sequence = expectNext)
    <3>1. Store!Continues(f)
      BY DEF Store!Splits
    <3>2. 1 \in DOMAIN f
      BY <1>4, <2>1
    <3>3. /\ f[1].sequence > head
          /\ f[1].sequence = (IF expectNext = 0 THEN f[1].sequence ELSE expectNext) + 1 - 1
      BY <3>1, <3>2 DEF Store!Continues
    <3>4. f[1].sequence \in Int
      BY <1>3, <2>1
    <3> QED BY <1>1, <3>3, <3>4
  <2>3. \A k \in DOMAIN f : f[k] = Later(f[1], k - 1) /\ f[k].value.instant <= now
    <3>1. SUFFICES ASSUME NEW k \in 1..(Len(b) - r)
                   PROVE  f[k] = Later(f[1], k - 1) /\ f[k].value.instant <= now
      BY <1>4
    <3>2. /\ r + k \in 1..Len(b) /\ r \in Int /\ k - 1 \in Int /\ r + (k - 1) = (r + k) - 1
      BY <1>3
    <3>3. f[k] = b[r + k] /\ b[r + k] = Later(t, (r + k) - 1) /\ b[r + k].value.instant <= now
      BY <1>3, <1>4, <3>2
    <3>4. Later(Later(t, r), k - 1) = Later(t, r + (k - 1))
      BY <3>2, LaterFacts
    <3> QED BY <2>1, <3>2, <3>3, <3>4
  <2>4. Newest(entries).kind = "tick" /\ entries # <<>> => Replays(entries, head, t)
    BY DEF Continues
  <2>5. ASSUME Replays(entries, head, t)
        PROVE  /\ f[1].sequence = head + 1 /\ f[1] = At(t, head + 1)
               /\ f[1] = Later(Newest(entries).tick, 1) /\ Newest(entries).tick \in AnyTick
               /\ NoEarlier(Newest(entries).tick, f[1])
    <3>1. Newest(entries).kind = "tick" /\ Newest(entries).tick = At(t, head) /\ entries # <<>>
      BY <2>5 DEF Replays
    <3>2. f[1].sequence = head + 1
      BY <1>1, <2>2, <3>1 DEF EndsAt
    <3>3. f[1] = At(t, head + 1)
      <4>1. t.sequence + r = head + 1
        BY <2>1, <3>2
      <4> QED BY <2>1, <4>1
    <3>4. At(t, head + 1) = Later(At(t, head), 1) /\ At(t, head) \in AnyTick
      BY <1>1, AtFacts
    <3>5. NoEarlier(Later(At(t, head), 0), Later(At(t, head), 1)) /\ Later(At(t, head), 0) = At(t, head)
      BY <3>4, LaterFacts
    <3> QED BY <3>1, <3>2, <3>3, <3>4, <3>5
  <2>6. Joins(entries, head, f[1])
    <3>1. CASE Replays(entries, head, t)
      <4>1. ASSUME NEW q \in Ticks(entries)
            PROVE  q.sequence < f[1].sequence /\ NoEarlier(q, f[1])
        <5>1. q \in AnyTick /\ q.sequence \in 1..head
          BY <1>1, TicksAreTicks DEF Shape
        <5>2. NoEarlier(q, Newest(entries).tick)
          BY <1>1, <3>1, NewestIsLatest DEF Replays
        <5>3. NoEarlier(q, f[1])
          BY <2>1, <2>5, <3>1, <5>1, <5>2, NoEarlierIsTransitive
        <5> QED BY <1>1, <2>5, <3>1, <5>1, <5>3
      <4> QED BY <2>2, <2>5, <3>1, <4>1 DEF Joins, Ahead
    <3>2. CASE ~Replays(entries, head, t)
      <4>1. entries = <<>> \/ (Newest(entries).kind = "seam" /\ Ahead(entries, t))
        BY <3>2 DEF Continues
      <4>2. Ahead(entries, t)
        BY <4>1 DEF Ahead, Ticks
      <4>3. NoEarlier(t, f[1])
        <5>1. NoEarlier(Later(t, 0), Later(t, r)) /\ Later(t, 0) = t
          BY LaterFacts
        <5> QED BY <2>1, <5>1
      <4>4. ASSUME NEW q \in Ticks(entries)
            PROVE  q.sequence < f[1].sequence /\ NoEarlier(q, f[1])
        <5>1. q \in AnyTick /\ q.sequence \in Int
          BY <1>1, TicksAreTicks DEF AnyTick
        <5>2. q.sequence < t.sequence /\ NoEarlier(q, t)
          BY <4>2 DEF Ahead
        <5>3. NoEarlier(q, f[1])
          BY <2>1, <4>3, <5>1, <5>2, NoEarlierIsTransitive
        <5> QED BY <1>3, <2>1, <5>1, <5>2, <5>3
      <4> QED BY <2>2, <4>1, <4>4 DEF Joins, Ahead
    <3> QED BY <3>1, <3>2
  <2>7. hd2 = f[Len(f)].sequence /\ ex2 = f[Len(f)].sequence + 1
    BY <2>1
  <2>8. f[1].sequence >= 1
    BY <1>1, <1>3, <2>1, <2>2
  <2> HIDE DEF f
  <2>9. /\ Shape(es2, hd2, ex2, now) /\ es2 # <<>>
        /\ Newest(es2) = [kind |-> "tick", tick |-> f[Len(f)]]
    BY <1>4, <2>1, <2>3, <2>6, <2>7, <2>8, Grows
  <2>10. Ticks(es2) = Ticks(entries) \cup Elements(f)
    BY <1>1, <1>4, AppendedTicks
  <2>11. Elements(b) \subseteq Ticks(es2) /\ Elements(f) \subseteq Elements(b)
    <3>1. ASSUME NEW k \in 1..Len(b)
          PROVE  b[k] \in Ticks(entries) \cup Elements(f)
      <4>1. CASE k <= r
        BY <1>5, <4>1
      <4>2. CASE k > r
        <5>1. k - r \in 1..(Len(b) - r) /\ r + (k - r) = k
          BY <1>3, <4>2
        <5>2. f[k - r] = b[k]
          BY <1>4, <5>1
        <5> QED BY <1>4, <5>1, <5>2 DEF Elements
      <4> QED BY <4>1, <4>2
    <3>2. ASSUME NEW k \in 1..(Len(b) - r)
          PROVE  f[k] \in Elements(b)
      <4>1. r + k \in DOMAIN b
        BY <1>3
      <4> QED BY <1>4, <4>1 DEF Elements
    <3> QED BY <1>3, <1>4, <2>10, <3>1, <3>2 DEF Elements
  <2>12. Replays(es2, hd2, next)
    <3>1. f[Len(f)] = b[Len(b)]
      <4>1. Len(b) - r \in 1..(Len(b) - r) /\ r + (Len(b) - r) = Len(b)
        BY <1>3, <1>10
      <4> QED BY <1>4, <4>1
    <3>2. b[Len(b)] = At(t, t.sequence + (Len(b) - 1)) /\ b[Len(b)].sequence = t.sequence + (Len(b) - 1)
      BY <1>2, <1>3
    <3>3. hd2 = t.sequence + (Len(b) - 1) /\ hd2 \in Int /\ next.sequence = hd2 + 1
      BY <1>3, <1>6, <2>7, <3>1, <3>2
    <3>4. f[Len(f)] = At(next, hd2)
      BY <1>7, <3>1, <3>2, <3>3
    <3>5. hd2 >= next.sequence - 1 /\ next.sequence..hd2 = {}
      BY <3>3
    <3> QED BY <2>9, <3>4, <3>5 DEF Replays
  <2>13. ASSUME NEW u \in AnyTick, Replays(entries, head, u), t = At(u, t.sequence)
         PROVE  Replays(es2, hd2, u)
    <3>1. Replays(entries, head, t)
      BY <2>4, <2>13 DEF Replays
    <3>2. f[1] = At(u, head + 1)
      <4>1. At(At(u, t.sequence), head + 1) = At(u, head + 1)
        BY <1>1, <1>3, AtAt
      <4> QED BY <2>5, <2>13, <3>1, <4>1
    <3> QED BY <1>1, <1>4, <2>1, <2>3, <2>7, <2>13, <3>2, GrowsOn
  <2> QED BY <1>8, <2>9, <2>10, <2>11, <2>12, <2>13 DEF next, f
<1> QED BY <1>9, <1>10

-----------------------------------------------------------------------------
(* Who may write *)

\* Only the newest grant passes the fence.
LEMMA PassesIsNewest ==
  ASSUME Leases, NEW i \in DOMAIN issued, Store!Passes(i)
  PROVE  i = Len(issued)
<1>1. grant # NoGrant /\ grant.token = issued[i].token
  BY DEF Store!Passes, Store!Live
<1> QED BY <1>1 DEF Leases, InTable

\* It is one node's.
LEMMA OneWriter ==
  ASSUME Types, NEW m \in Nodes, NEW n \in Nodes, MayWrite(m), MayWrite(n)
  PROVE  m = n
BY DEF Types, MayWrite, Granted

\* A grant that passes the fence is the newest, so its node is the writer.
LEMMA PasserMayWrite ==
  ASSUME Leases, Types, NEW n \in Nodes, Leads(n), Store!Passes(s(n).grant)
  PROVE  MayWrite(n)
<1>1. s(n).grant \in DOMAIN issued
  BY DEF Types, Granted
<1> QED BY <1>1, PassesIsNewest DEF MayWrite

\* A session whose stream is untouched stands to the same record as it did.
LEMMA SameStream ==
  ASSUME NEW n \in Nodes, UNCHANGED <<now, entries, head, saved>>,
         s(n)'.unrecorded = s(n).unrecorded, s(n)'.market = s(n).market, s(n)'.owed = s(n).owed
  PROVE  /\ First(n)' = First(n)
         /\ Holding(n) => Holding(n)'
         /\ Follows(n) => Follows(n)'
<1>1. First(n)' = First(n)
  BY DEF First
<1>2. EpochBound' = EpochBound /\ Resumable' = Resumable
  BY DEF EpochBound, Resumable
<1> HIDE DEF s
<1>3. Holding(n) => Holding(n)'
  BY <1>1 DEF Holding
<1>4. Follows(n) => Follows(n)'
  BY <1>1, <1>2 DEF Follows
<1> QED BY <1>1, <1>3, <1>4

\* A step of one node, which only the node with the newest grant takes where it
\* touches the record or the checkpoint.
LEMMA NodeStep ==
  ASSUME IInv, NEW n \in Nodes,
         UNCHANGED <<now, issued, highWater>>, InTable',
         busy' \in Nat,
         UNCHANGED <<entries, head, saved>> \/ MayWrite(n),
         pc' \in [Nodes -> Locations], session' = [m \in Nodes |-> session'[m]],
         known' \in [Nodes -> AnyTick \cup {NoTick}],
         \A m \in Nodes \ {n} : pc'[m] = pc[m] /\ session'[m] = session[m] /\ known'[m] = known[m],
         pc'[n] # "resuming",
         Shape(entries, head, expectNext, now)', Checkpointed', Announced',
         Ticks(entries) \subseteq Ticks(entries)',
         Leads(n)' => s(n)' \in Sessions /\ Granted(n, s(n).grant)' /\ Answering(n)',
         MayWrite(n)' => Holding(n)' /\ Located(n)' /\ Follows(n)'
  PROVE  IInv'
<1>1. Leases /\ Types /\ \A m \in Nodes : Node(m)
  BY DEF IInv
<1>2. Leases'
  BY <1>1 DEF Leases
<1>3. \A m \in Nodes \ {n} : /\ Leads(m)' = Leads(m) /\ MayWrite(m)' = MayWrite(m) /\ s(m)' = s(m)
                             /\ pc'[m] = pc[m] /\ known'[m] = known[m]
  <2>1. SUFFICES ASSUME NEW m \in Nodes \ {n}
                 PROVE  /\ Leads(m)' = Leads(m) /\ MayWrite(m)' = MayWrite(m) /\ s(m)' = s(m)
                        /\ pc'[m] = pc[m] /\ known'[m] = known[m]
    OBVIOUS
  <2>2. pc'[m] = pc[m] /\ known'[m] = known[m] /\ s(m)' = s(m)
    BY DEF s
  <2>3. Leads(m)' = Leads(m)
    BY <2>2 DEF Leads
  <2> QED BY <2>2, <2>3 DEF MayWrite
<1>4. \A m, i : Granted(m, i)' = Granted(m, i)
  BY DEF Granted
<1>5. Types'
  <2>1. \A m \in Nodes : Leads(m)' => s(m)' \in Sessions /\ Granted(m, s(m).grant)'
    <3>1. SUFFICES ASSUME NEW m \in Nodes \ {n}, Leads(m)'
                   PROVE  s(m)' \in Sessions /\ Granted(m, s(m).grant)'
      OBVIOUS
    <3>2. s(m) \in Sessions /\ Granted(m, s(m).grant)
      BY <1>1, <1>3, <3>1 DEF Types
    <3> QED BY <1>3, <1>4, <3>2 DEF Granted
  <2>2. \A m \in Nodes : pc'[m] = "resuming" =>
          \E i \in DOMAIN issued' :
            Granted(m, i)' /\ \A j \in DOMAIN issued' : Granted(m, j)' => j <= i
    <3>1. SUFFICES ASSUME NEW m \in Nodes \ {n}, pc[m] = "resuming"
                   PROVE  \E i \in DOMAIN issued :
                            Granted(m, i) /\ \A j \in DOMAIN issued : Granted(m, j) => j <= i
      BY <1>3, <1>4
    <3> QED BY <1>1, <3>1 DEF Types
  <2> QED BY <2>1, <2>2 DEF Types
<1>6. ASSUME NEW m \in Nodes \ {n}
      PROVE  Node(m)'
  <2>1. Node(m) /\ s(m)' = s(m) /\ pc'[m] = pc[m] /\ known'[m] = known[m]
        /\ Leads(m)' = Leads(m) /\ MayWrite(m)' = MayWrite(m)
    BY <1>1, <1>3
  <2>2. Leads(m)' => Answering(m)'
    BY <2>1 DEF Node, Answering
  <2>3. ASSUME MayWrite(m)
        PROVE  Holding(m)' /\ Located(m)' /\ Follows(m)'
    <3>1. UNCHANGED <<entries, head, saved>>
      BY <1>1, <2>3, OneWriter
    <3>2. Holding(m) /\ Located(m) /\ Follows(m)
      BY <2>1, <2>3 DEF Node
    <3>3. First(m)' = First(m) /\ Holding(m)' /\ Follows(m)'
      BY <2>1, <3>1, <3>2, SameStream
    <3>4. Located(m)'
      BY <2>1, <3>1, <3>2, <3>3 DEF Located
    <3> QED BY <3>3, <3>4
  <2>4. Opens(m)'
    <3>1. SUFFICES ASSUME pc[m] = "resuming", issued # <<>>, issued[Len(issued)].holder = m
                   PROVE  known'[m] = NewestTick'
      BY <2>1 DEF Opens
    <3>2. ~MayWrite(n)
      BY <1>1, <3>1 DEF MayWrite, Types, Granted
    <3>3. UNCHANGED <<entries, head>>
      BY <3>2
    <3>4. NewestTick' = NewestTick
      BY <3>3 DEF NewestTick
    <3> QED BY <2>1, <3>1, <3>4 DEF Node, Opens
  <2> QED BY <2>1, <2>2, <2>3, <2>4 DEF Node
<1>7. Node(n)'
  BY DEF Node, Opens
<1> QED BY <1>2, <1>5, <1>6, <1>7 DEF IInv

\* A step that leaves the record and the checkpoint, and the session its stream
\* or nothing.
LEMMA QuietStep ==
  ASSUME IInv, NEW n \in Nodes,
         UNCHANGED <<now, issued, highWater, entries, head, expectNext, saved>>,
         InTable',
         busy' \in Nat, Announced',
         pc' \in [Nodes -> Locations], session' = [m \in Nodes |-> session'[m]],
         known' \in [Nodes -> AnyTick \cup {NoTick}],
         \A m \in Nodes \ {n} : pc'[m] = pc[m] /\ session'[m] = session[m] /\ known'[m] = known[m],
         pc'[n] = "out" \/
           /\ pc'[n] # "resuming" /\ Leads(n) /\ s(n)' \in Sessions
           /\ s(n)'.grant = s(n).grant /\ s(n)'.unrecorded = s(n).unrecorded
           /\ s(n)'.market = s(n).market /\ s(n)'.owed = s(n).owed
           /\ Answering(n)' /\ (MayWrite(n) => Located(n)')
  PROVE  IInv'
<1>1. Types /\ Node(n) /\ Shape(entries, head, expectNext, now) /\ Checkpointed
  BY DEF IInv
<1>2. Shape(entries, head, expectNext, now)' /\ Ticks(entries)' = Ticks(entries)
  BY <1>1
<1>3. Checkpointed'
  <2>1. EpochBound' = EpochBound /\ Resumable' = Resumable
    BY DEF EpochBound, Resumable
  <2> QED BY <1>1, <2>1 DEF Checkpointed
<1>4. CASE pc'[n] = "out"
  <2>1. ~Leads(n)' /\ ~MayWrite(n)'
    BY <1>4 DEF Leads, MayWrite
  <2> QED BY <1>2, <1>3, <1>4, <2>1, NodeStep
<1>5. CASE pc'[n] # "out"
  <2>1. /\ pc'[n] # "resuming" /\ Leads(n) /\ s(n)' \in Sessions
        /\ s(n)'.grant = s(n).grant /\ s(n)'.unrecorded = s(n).unrecorded
        /\ s(n)'.market = s(n).market /\ s(n)'.owed = s(n).owed
        /\ Answering(n)' /\ (MayWrite(n) => Located(n)')
    BY <1>5
  <2>2. Granted(n, s(n).grant)'
    BY <1>1, <2>1 DEF Types, Granted
  <2>3. MayWrite(n)' => MayWrite(n)
    BY <2>1 DEF MayWrite, Leads
  <2>4. MayWrite(n) => Holding(n)' /\ Follows(n)'
    BY <1>1, <2>1, SameStream DEF Node
  <2> QED BY <1>2, <1>3, <2>1, <2>2, <2>3, <2>4, NodeStep
<1> QED BY <1>4, <1>5

-----------------------------------------------------------------------------
(* Where a step leaves the node *)

\* Only n moved.
Moves(n) ==
  /\ pc' \in [Nodes -> Locations] /\ session' = [m \in Nodes |-> session'[m]]
  /\ known' \in [Nodes -> AnyTick \cup {NoTick}]
  /\ \A m \in Nodes \ {n} : pc'[m] = pc[m] /\ session'[m] = session[m] /\ known'[m] = known[m]

\* What the store's other calls leave: the record, the checkpoint, the grants.
StoreKeeps == InTable' /\ UNCHANGED <<now, issued, highWater, entries, head, expectNext, saved>>

\* x and y hold the same stream, under the same grant.
Alike(x, y) == x.grant = y.grant /\ x.unrecorded = y.unrecorded /\ x.market = y.market /\ x.owed = y.owed

\* Goto moves one node and its session.
LEMMA GotoMoves ==
  ASSUME Types, NEW n \in Nodes, NEW w \in Locations, NEW y, Goto(n, w, y), known' = known
  PROVE  Moves(n) /\ pc'[n] = w /\ session'[n] = y /\ published' = published
BY DEF Types, Goto, Moves

\* Drop puts the node out of its session.
LEMMA DropMoves ==
  ASSUME Types, NEW n \in Nodes, Drop(n)
  PROVE  Moves(n) /\ pc'[n] = "out" /\ published' = published
BY DEF Types, Drop, Moves, Locations

\* A session whose pass is over has the stream it had, and no answer left to give.
LEMMA OverIsAlike ==
  ASSUME NEW x \in Sessions
  PROVE  Over(x) \in Sessions /\ Alike(Over(x), x) /\ Over(x).answer = <<>>
<1>1. Over(x) = [x EXCEPT !.asOf = -1, !.onDemand = FALSE, !.answer = <<>>, !.seam = NoTick]
  BY DEF Over, Never
<1>2. <<>> \in Seq(AnyTick) /\ -1 \in Int
  OBVIOUS
<1> QED BY <1>1, <1>2 DEF Sessions, Alike

\* A session that counts a failure has the stream, answer and seam it had.
LEMMA FailedIsAlike ==
  ASSUME NEW x \in Sessions
  PROVE  /\ Failed(x) \in Sessions /\ Alike(Failed(x), x)
         /\ Failed(x).answer = x.answer /\ Failed(x).seam = x.seam
<1> DEFINE k == IF x.failures < MaxFailures THEN x.failures + 1 ELSE x.failures
<1>1. k \in Int
  BY DEF Sessions
<1>2. Failed(x) = [x EXCEPT !.failures = k]
  BY DEF Failed
<1> HIDE DEF k
<1> QED BY <1>1, <1>2 DEF Sessions, Alike

\* A pass that returns publishes its answer and leaves the stream as it was.
LEMMA ReturnMoves ==
  ASSUME Types, NEW n \in Nodes, NEW x \in Sessions, Return(n, x), known' = known
  PROVE  /\ Moves(n) /\ pc'[n] = "idle"
         /\ session'[n] \in Sessions /\ Alike(session'[n], x) /\ session'[n].answer = <<>>
         /\ published' = published \cup Elements(x.answer)
<1> DEFINE y == [Over(x) EXCEPT !.told = IF x.answer = <<>> THEN @ ELSE x.answer[Len(x.answer)]]
<1>1. /\ pc' = [pc EXCEPT ![n] = "idle"] /\ session' = [session EXCEPT ![n] = y]
      /\ published' = published \cup Elements(x.answer)
  BY DEF Return, Elements
<1>2. PICK z \in AnyTick \cup {NoTick} : y = [Over(x) EXCEPT !.told = z]
  <2>1. Over(x).told \in AnyTick \cup {NoTick} /\ x.answer \in Seq(AnyTick)
    BY OverIsAlike DEF Sessions
  <2>2. x.answer # <<>> => x.answer[Len(x.answer)] \in AnyTick
    BY <2>1
  <2> QED BY <2>1, <2>2
<1>3. y \in Sessions /\ Alike(y, Over(x)) /\ y.answer = Over(x).answer
  BY <1>2, OverIsAlike DEF Sessions, Alike
<1> HIDE DEF y
<1>4. Moves(n) /\ pc'[n] = "idle" /\ session'[n] = y
  BY <1>1 DEF Types, Moves, Locations
<1> QED BY <1>1, <1>3, <1>4, OverIsAlike DEF Alike

\* A pass that throws publishes nothing and leaves the stream as it was.
LEMMA ThrowMoves ==
  ASSUME Types, NEW n \in Nodes, NEW x \in Sessions, Throw(n, x), known' = known
  PROVE  /\ Moves(n) /\ pc'[n] = "idle" /\ published' = published
         /\ session'[n] \in Sessions /\ Alike(session'[n], x) /\ session'[n].answer = <<>>
<1>1. "idle" \in Locations
  BY DEF Locations
<1> QED BY <1>1, GotoMoves, OverIsAlike DEF Throw

\* A quiet step that drops the session.
LEMMA QuietDrop ==
  ASSUME IInv, NEW n \in Nodes, Drop(n), busy' \in Nat, busy' = 0 => busy = 0,
         UNCHANGED <<now, issued, highWater, entries, head, expectNext, saved>>,
         InTable'
  PROVE  IInv'
<1>1. Types /\ Announced
  BY DEF IInv
<1>2. Moves(n) /\ pc'[n] = "out" /\ published' = published
  BY <1>1, DropMoves
<1>3. Announced'
  BY <1>1, <1>2 DEF Announced
<1> QED BY <1>2, <1>3, QuietStep DEF Moves

\* A quiet step that goes on, or returns, with a session like the one it had.
LEMMA QuietMove ==
  ASSUME IInv, NEW n \in Nodes, Leads(n), Moves(n), busy' \in Nat, busy' = 0 => busy = 0,
         UNCHANGED <<now, issued, highWater, entries, head, expectNext, saved>>,
         InTable',
         pc'[n] \notin {"out", "resuming"},
         busy' = 0 => published' \subseteq published \cup Ticks(entries),
         session'[n] \in Sessions, Alike(session'[n], s(n)), Answering(n)',
         MayWrite(n) => Located(n)'
  PROVE  IInv'
<1>1. Announced
  BY DEF IInv
<1>2. Announced'
  <2>1. Ticks(entries)' = Ticks(entries)
    OBVIOUS
  <2> QED BY <1>1, <2>1 DEF Announced
<1>3. s(n)' = session'[n]
  BY DEF s
<1> QED BY <1>2, <1>3, QuietStep DEF Moves, Alike

\* A renewal, a release or a refusal keeps the record and the checkpoint.
LEMMA StoreLooks ==
  ASSUME Leases, NEW i,
         Store!Renew(i) \/ Store!Release(i) \/ Store!FenceRefuses(i) \/ UNCHANGED <<now, storeVars>>
  PROVE  StoreKeeps
<1>1. InTable
  BY DEF Leases
<1>2. CASE Store!Renew(i)
  <2>1. grant' = IF Store!Holds(i) THEN [grant EXCEPT !.expiresAt = now + TermMs] ELSE Store!Swept
    BY <1>2 DEF Store!Renew
  <2>2. Store!Holds(i) => grant # NoGrant
    BY DEF Store!Holds, Store!Live
  <2>3. InTable'
    BY <1>1, <1>2, <2>1, <2>2 DEF InTable, Store!Renew, Store!Swept, Store!Live
  <2> QED BY <1>2, <2>3 DEF StoreKeeps, Store!Renew, Store!recordVars
<1>3. CASE Store!Release(i)
  BY <1>1, <1>3 DEF InTable, StoreKeeps, Store!Release, Store!Swept, Store!recordVars
<1>4. CASE Store!FenceRefuses(i)
  BY <1>1, <1>4 DEF InTable, StoreKeeps, Store!FenceRefuses, Store!Swept, Store!recordVars
<1>5. CASE UNCHANGED <<now, storeVars>>
  BY <1>1, <1>5 DEF InTable, StoreKeeps, storeVars
<1> QED BY <1>2, <1>3, <1>4, <1>5

-----------------------------------------------------------------------------
(* The steps that leave the record and the checkpoint alone *)

\* What IInv says of a node with a session.
LEMMA SessionFacts ==
  ASSUME IInv, NEW n \in Nodes, Leads(n)
  PROVE  /\ Leases /\ Types /\ s(n) \in Sessions /\ s(n).grant \in DOMAIN issued
         /\ Answering(n)
         /\ MayWrite(n) => Holding(n) /\ Located(n) /\ Follows(n)
BY DEF IInv, Types, Granted, Node

\* A session with the stream it had is where its next step says, under the same record.
LEMMA AlikeFacts ==
  ASSUME NEW n \in Nodes, UNCHANGED <<entries, head>>, Alike(session'[n], s(n)), Located(n),
         pc'[n] \in {"head", "seam"} => s(n).owed,
         pc'[n] = "append" => ~s(n).owed,
         pc'[n] = "save" => s(n).unrecorded = <<>> /\ s(n).market.pending /\ s(n).market.last # NoTick,
         pc'[n] = "seam" => /\ session'[n].seam \in AnySeam
                            /\ session'[n].seam.lastSequence = head
                            /\ session'[n].seam.resumesAt = First(n).sequence
  PROVE  Located(n)'
<1>1. s(n)' = session'[n] /\ Alike(s(n)', s(n))
  BY DEF s
<1>2. First(n)' = First(n)
  BY <1>1 DEF First, Alike
<1> QED BY <1>1, <1>2 DEF Located, Alike

\* The newest recorded tick is there when anything is recorded.
LEMMA NewestTickFacts ==
  ASSUME Shape(entries, head, expectNext, now)
  PROVE  /\ NewestTick \in AnyTick \cup {NoTick}
         /\ NewestTick = NoTick => entries = <<>>
         /\ NewestTick # NoTick => NewestTick \in Ticks(entries) /\ NewestTick.sequence = head
                                  /\ entries # <<>>
<1> DEFINE at == {k \in DOMAIN entries : entries[k].kind = "tick" /\ entries[k].tick.sequence = head}
<1>1. entries \in Seq(Entry) /\ EndsAt(entries, head, expectNext)
  BY DEF Shape
<1>2. NewestTick = IF at = {} THEN NoTick ELSE entries[CHOOSE k \in at : TRUE].tick
  BY DEF NewestTick
<1>3. CASE at = {}
  <2>1. entries = <<>>
    BY <1>1, <1>3 DEF EndsAt, Ticks
  <2> QED BY <1>2, <1>3, <2>1
<1>4. CASE at # {}
  <2>1. PICK k \in at : NewestTick = entries[k].tick
    BY <1>2, <1>4
  <2>2. NewestTick \in Ticks(entries) /\ NewestTick.sequence = head /\ entries # <<>>
    BY <2>1 DEF Ticks
  <2>3. NewestTick \in AnyTick
    BY <1>1, <2>2, TicksAreTicks
  <2> QED BY <2>2, <2>3, NullAssumption
<1> QED BY <1>3, <1>4

\* renew keeps the invariant.
LEMMA RenewStep ==
  ASSUME IInv, NEW n \in Nodes, Renew(n)
  PROVE  IInv'
<1>1. Leads(n) /\ pc[n] = "idle"
  BY DEF Renew, Leads
<1>2. /\ Leases /\ Types /\ s(n) \in Sessions /\ Answering(n)
      /\ MayWrite(n) => Located(n)
  BY <1>1, SessionFacts
<1>3. StoreKeeps
  BY <1>2, StoreLooks DEF Renew
<1>4. busy' = busy /\ busy \in Nat /\ now \in Nat
  BY <1>2 DEF Renew, Leases
<1>5. CASE Drop(n)
  BY <1>3, <1>4, <1>5, QuietDrop DEF StoreKeeps
<1>6. CASE Goto(n, "renewed", [s(n) EXCEPT !.asOf = now]) /\ known' = known
  <2> DEFINE y == [s(n) EXCEPT !.asOf = now]
  <2>1. y \in Sessions /\ Alike(y, s(n)) /\ y.answer = s(n).answer
    BY <1>2, <1>4 DEF Sessions, Alike
  <2> HIDE DEF y
  <2>2. Moves(n) /\ pc'[n] = "renewed" /\ session'[n] = y /\ published' = published
    BY <1>2, <1>6, GotoMoves DEF Locations, y
  <2>3. Answering(n)'
    BY <1>1, <1>2, <2>1, <2>2 DEF Answering, s
  <2>4. MayWrite(n) => Located(n)'
    BY <1>2, <1>3, <2>1, <2>2, AlikeFacts DEF StoreKeeps
  <2> QED BY <1>1, <1>3, <1>4, <2>1, <2>2, <2>3, <2>4, QuietMove DEF StoreKeeps
<1> QED BY <1>5, <1>6 DEF Renew

\* A call throws: of what it was doing, nothing is left.
LEMMA ThrowStep ==
  ASSUME IInv, NEW n \in Nodes, Leads(n), NEW x \in Sessions, Alike(x, s(n)), Throw(n, x),
         known' = known, busy' \in Nat, busy' = 0 => busy = 0, StoreKeeps
  PROVE  IInv'
<1>1. Leases /\ Types /\ (MayWrite(n) => Located(n))
  BY SessionFacts
<1>2. /\ Moves(n) /\ pc'[n] = "idle" /\ published' = published
      /\ session'[n] \in Sessions /\ Alike(session'[n], x) /\ session'[n].answer = <<>>
  BY <1>1, ThrowMoves
<1>3. Alike(session'[n], s(n))
  BY <1>2 DEF Alike
<1>4. Answering(n)'
  BY <1>2 DEF Answering, s
<1>5. MayWrite(n) => Located(n)'
  BY <1>1, <1>2, <1>3, AlikeFacts DEF StoreKeeps
<1> QED BY <1>1, <1>2, <1>3, <1>4, <1>5, QuietMove DEF StoreKeeps

\* The session goes on, as it is or counting a failure, to give the lease up.
LEMMA ReleaseStep ==
  ASSUME IInv, NEW n \in Nodes, Leads(n), NEW x \in Sessions, Alike(x, s(n)), Goto(n, "release", x),
         known' = known, busy' \in Nat, busy' = 0 => busy = 0, StoreKeeps
  PROVE  IInv'
<1>1. Leases /\ Types /\ (MayWrite(n) => Located(n))
  BY SessionFacts
<1>2. Moves(n) /\ pc'[n] = "release" /\ session'[n] = x /\ published' = published
  BY <1>1, GotoMoves DEF Locations
<1>3. Answering(n)'
  BY <1>2 DEF Answering
<1>4. MayWrite(n) => Located(n)'
  BY <1>1, <1>2, AlikeFacts DEF StoreKeeps
<1> QED BY <1>1, <1>2, <1>3, <1>4, QuietMove DEF StoreKeeps

\* A refused catch-up keeps the invariant.
LEMMA RefuseToCatchUpStep ==
  ASSUME IInv, NEW n \in Nodes, RefuseToCatchUp(n)
  PROVE  IInv'
<1>1. Leads(n) /\ UNCHANGED <<now, storeVars, known, busy>> /\ Throw(n, s(n))
  BY DEF RefuseToCatchUp, Leads
<1>2. s(n) \in Sessions /\ Alike(s(n), s(n)) /\ Leases
  BY <1>1, SessionFacts DEF Alike
<1>3. StoreKeeps /\ busy' \in Nat /\ busy' = busy /\ known' = known
  BY <1>1, <1>2, StoreLooks DEF Leases
<1> QED BY <1>1, <1>2, <1>3, ThrowStep

\* A checkpoint the fence refuses keeps the invariant.
LEMMA FenceRefusesSaveStep ==
  ASSUME IInv, NEW n \in Nodes, FenceRefusesSave(n)
  PROVE  IInv'
<1>1. Leads(n) /\ UNCHANGED <<known, busy>> /\ Throw(n, s(n)) /\ Store!FenceRefuses(s(n).grant)
  BY DEF FenceRefusesSave, Leads
<1>2. s(n) \in Sessions /\ Alike(s(n), s(n)) /\ Leases
  BY <1>1, SessionFacts DEF Alike
<1>3. StoreKeeps /\ busy' \in Nat /\ busy' = busy /\ known' = known
  BY <1>1, <1>2, StoreLooks DEF Leases
<1> QED BY <1>1, <1>2, <1>3, ThrowStep

\* An append the fence refuses keeps the invariant.
LEMMA FenceRefusesRecordStep ==
  ASSUME IInv, NEW n \in Nodes, FenceRefusesRecord(n)
  PROVE  IInv'
<1>1. Leads(n) /\ UNCHANGED <<known, busy>> /\ Store!FenceRefuses(s(n).grant)
  BY DEF FenceRefusesRecord, Leads
<1>2. s(n) \in Sessions /\ Alike(s(n), s(n)) /\ Leases
      /\ Failed(s(n)) \in Sessions /\ Alike(Failed(s(n)), s(n))
  BY <1>1, SessionFacts, FailedIsAlike DEF Alike
<1>3. StoreKeeps /\ busy' \in Nat /\ busy' = busy /\ known' = known
  BY <1>1, <1>2, StoreLooks DEF Leases
<1>4. CASE Throw(n, Failed(s(n)))
  BY <1>1, <1>2, <1>3, <1>4, ThrowStep
<1>5. CASE Goto(n, "release", s(n))
  BY <1>1, <1>2, <1>3, <1>5, ReleaseStep
<1> QED BY <1>4, <1>5 DEF FenceRefusesRecord

\* handOver keeps the invariant.
LEMMA HandOverStep ==
  ASSUME IInv, NEW n \in Nodes, HandOver(n)
  PROVE  IInv'
<1>1. Leads(n) /\ UNCHANGED <<now, storeVars, known, busy>> /\ Goto(n, "release", s(n))
  BY DEF HandOver, Leads
<1>2. s(n) \in Sessions /\ Alike(s(n), s(n)) /\ Leases
  BY <1>1, SessionFacts DEF Alike
<1>3. StoreKeeps /\ busy' \in Nat /\ busy' = busy /\ known' = known
  BY <1>1, <1>2, StoreLooks DEF Leases
<1> QED BY <1>1, <1>2, <1>3, ReleaseStep

\* A leader that steps aside keeps the invariant.
LEMMA StepAsideStep ==
  ASSUME IInv, NEW n \in Nodes, StepAside(n)
  PROVE  IInv'
<1>1. Leases
  BY DEF IInv
<1>2. StoreKeeps
  BY <1>1, StoreLooks DEF StepAside
<1> QED BY <1>1, <1>2, QuietDrop DEF StepAside, StoreKeeps, Leases

\* A crash keeps the invariant.
LEMMA CrashStep ==
  ASSUME IInv, NEW n \in Nodes, Crash(n)
  PROVE  IInv'
<1>1. Leases
  BY DEF IInv
<1>2. StoreKeeps
  BY <1>1, StoreLooks DEF Crash
<1> QED BY <1>1, <1>2, QuietDrop DEF Crash, StoreKeeps, Leases

\* Reading the head, and dropping what the record holds, keeps the invariant.
LEMMA ReadHeadStep ==
  ASSUME IInv, NEW n \in Nodes, ReadHead(n)
  PROVE  IInv'
<1>1. Leads(n) /\ pc[n] = "head" /\ UNCHANGED <<now, storeVars, known, busy>>
  BY DEF ReadHead, Leads
<1>2. /\ Leases /\ Types /\ s(n) \in Sessions /\ Answering(n) /\ Shape(entries, head, expectNext, now)
      /\ MayWrite(n) => Located(n)
  BY <1>1, SessionFacts DEF IInv
<1>3. StoreKeeps /\ busy' \in Nat /\ busy' = busy /\ known' = known
  BY <1>1, <1>2, StoreLooks DEF Leases
<1> DEFINE from == IF NewestTick = NoTick THEN NoTick ELSE NewestTick.value.instant
           seam == [lastSequence |-> head, resumesAt |-> s(n).unrecorded[1].sequence,
                    says |-> [from |-> from, to |-> s(n).unrecorded[1].value.instant]]
           y    == [s(n) EXCEPT !.seam = seam]
<1>4. Goto(n, "seam", y)
  BY DEF ReadHead
<1> HIDE DEF seam
<1>5. Moves(n) /\ pc'[n] = "seam" /\ session'[n] = y /\ published' = published
  BY <1>2, <1>3, <1>4, GotoMoves DEF Locations
<1>6. NewestTick \in AnyTick \cup {NoTick} /\ s(n).unrecorded \in Seq(AnyTick) /\ s(n).unrecorded # <<>>
  BY <1>1, <1>2, NewestTickFacts DEF Answering, Sessions
<1>7. s(n).unrecorded[1] \in AnyTick
  BY <1>6
<1>8. seam \in AnySeam /\ seam.lastSequence = head /\ seam.resumesAt = s(n).unrecorded[1].sequence
  <2>1. from \in Int \cup {NoTick}
    BY <1>6 DEF AnyTick
  <2>2. head \in Int /\ s(n).unrecorded[1].sequence \in Int /\ s(n).unrecorded[1].value.instant \in Int
    BY <1>2, <1>7 DEF AnyTick, Shape
  <2> QED BY <2>1, <2>2 DEF AnySeam, seam
<1>9. y \in Sessions /\ Alike(y, s(n)) /\ y.answer = s(n).answer /\ y.seam = seam
  BY <1>2, <1>8 DEF Sessions, Alike
<1> HIDE DEF y
<1>10. Answering(n)'
  BY <1>1, <1>2, <1>5, <1>6, <1>9 DEF Answering, s, Alike
<1>11. MayWrite(n) => Located(n)'
  <2>1. ASSUME MayWrite(n)
        PROVE  Located(n)'
    <3>1. Located(n) /\ s(n).owed
      BY <1>1, <1>2, <2>1 DEF Located
    <3>2. seam.resumesAt = First(n).sequence
      BY <1>6, <1>8 DEF First
    <3> QED BY <1>3, <1>5, <1>6, <1>8, <1>9, <3>1, <3>2, AlikeFacts DEF StoreKeeps
  <2> QED BY <2>1
<1> QED BY <1>1, <1>3, <1>5, <1>9, <1>10, <1>11, QuietMove DEF StoreKeeps

\* The first unrecorded tick is a tick.
LEMMA FirstIsATick ==
  ASSUME NEW n, s(n) \in Sessions
  PROVE  First(n) \in AnyTick
<1>1. s(n).market.drawn \in AnyTick /\ s(n).unrecorded \in Seq(AnyTick)
  BY DEF Sessions, Markets
<1>2. NextUnpublished(s(n).market) \in AnyTick
  BY <1>1, LaterFacts DEF NextUnpublished
<1>3. s(n).unrecorded # <<>> => s(n).unrecorded[1] \in AnyTick
  BY <1>1
<1> QED BY <1>2, <1>3 DEF First

\* What a session that leads has to write, the record takes.
LEMMA NotWedged ==
  ASSUME IInv, NEW n \in Nodes, Leads(n), Store!Passes(s(n).grant)
  PROVE  /\ pc[n] = "seam" => Store!Seamable(s(n).seam)
         /\ pc[n] = "append" => \E k \in 0..Len(s(n).unrecorded) : Store!Splits(s(n).unrecorded, k)
<1>1. /\ Leases /\ Types /\ s(n) \in Sessions /\ Shape(entries, head, expectNext, now)
      /\ Answering(n)
  BY SessionFacts DEF IInv
<1>2. Holding(n) /\ Located(n) /\ Follows(n)
  BY <1>1, PasserMayWrite, SessionFacts
<1>3. First(n) \in AnyTick /\ head \in Nat /\ now \in Nat
  BY <1>1, FirstIsATick DEF Shape, Leases
<1>4. ASSUME pc[n] = "seam"
      PROVE  Store!Seamable(s(n).seam)
  <2>1. /\ s(n).seam.lastSequence = head /\ s(n).seam.resumesAt = First(n).sequence
        /\ First(n).sequence >= head + 2 /\ First(n).sequence \in Int
    BY <1>2, <1>3, <1>4 DEF Located, Follows, AnyTick
  <2> QED BY <1>3, <2>1 DEF Store!Seamable
<1>5. ASSUME pc[n] = "append"
      PROVE  \E k \in 0..Len(s(n).unrecorded) : Store!Splits(s(n).unrecorded, k)
  <2>1. /\ s(n).unrecorded \in Seq(AnyTick) /\ Continues(entries, head, First(n))
        /\ First(n).sequence >= 1
        /\ \A k \in DOMAIN s(n).unrecorded : s(n).unrecorded[k] = Later(First(n), k - 1)
    BY <1>1, <1>2, <1>5 DEF Located, Follows, Holding, Sessions
  <2> QED BY <1>1, <1>3, <2>1, BatchFits
<1> QED BY <1>4, <1>5

\* A refused append keeps the invariant: no leader that passes the fence meets one.
LEMMA RecordRefusesStep ==
  ASSUME IInv, NEW n \in Nodes, RecordRefuses(n)
  PROVE  IInv'
<1>1. Leads(n) /\ Store!Passes(s(n).grant)
  BY DEF RecordRefuses, Leads
<1> QED BY <1>1, NotWedged DEF RecordRefuses

\* The store is busy, and the session keeps what it has to write.
LEMMA StoreBusyStep ==
  ASSUME IInv, NEW n \in Nodes, StoreBusy(n)
  PROVE  IInv'
<1>1. Leads(n) /\ UNCHANGED <<now, storeVars, known>> /\ busy' = busy + 1
  BY DEF StoreBusy, Refused, Leads
<1>2. /\ Leases /\ Types /\ s(n) \in Sessions /\ Alike(s(n), s(n)) /\ (MayWrite(n) => Located(n))
      /\ Failed(s(n)) \in Sessions /\ Alike(Failed(s(n)), s(n))
  BY <1>1, SessionFacts, FailedIsAlike DEF Alike
<1>3. StoreKeeps /\ busy' \in Nat /\ busy' # 0 /\ known' = known
  BY <1>1, <1>2, StoreLooks DEF Leases
<1>4. CASE Throw(n, s(n))
  BY <1>1, <1>2, <1>3, <1>4, ThrowStep
<1>5. CASE Goto(n, "release", Failed(s(n)))
  BY <1>1, <1>2, <1>3, <1>5, ReleaseStep
<1>6. CASE Return(n, Failed(s(n)))
  <2>1. /\ Moves(n) /\ pc'[n] = "idle"
        /\ session'[n] \in Sessions /\ Alike(session'[n], Failed(s(n))) /\ session'[n].answer = <<>>
    BY <1>2, <1>3, <1>6, ReturnMoves
  <2>2. Alike(session'[n], s(n))
    BY <1>2, <2>1 DEF Alike
  <2>3. Answering(n)'
    BY <2>1 DEF Answering, s
  <2>4. MayWrite(n) => Located(n)'
    BY <1>2, <1>3, <2>1, <2>2, AlikeFacts DEF StoreKeeps
  <2> QED BY <1>1, <1>3, <2>1, <2>2, <2>3, <2>4, QuietMove DEF StoreKeeps
<1> QED BY <1>4, <1>5, <1>6 DEF StoreBusy, Refused

\* checkpoint keeps the invariant: what it saves, the record holds.
LEMMA CheckpointNowStep ==
  ASSUME IInv, Deployed, NEW n \in Nodes, CheckpointNow(n)
  PROVE  IInv'
<1>1. /\ Leads(n) /\ pc[n] = "idle" /\ UNCHANGED <<now, storeVars, known, busy>>
      /\ s(n).market.pending /\ s(n).market.last # NoTick
  BY DEF CheckpointNow, Leads, Deployed
<1>2. Leases /\ Types /\ s(n) \in Sessions /\ Answering(n) /\ (MayWrite(n) => Located(n))
  BY <1>1, SessionFacts
<1>3. StoreKeeps /\ busy' \in Nat /\ busy' = busy /\ known' = known
  BY <1>1, <1>2, StoreLooks DEF Leases
<1> DEFINE x == [s(n) EXCEPT !.asOf = now, !.onDemand = TRUE]
           where == BeforeRecording(x)
<1>4. x \in Sessions /\ Alike(x, s(n)) /\ x.answer = s(n).answer /\ x.onDemand = TRUE
  <2>1. now \in Int
    BY <1>2 DEF Leases
  <2> QED BY <1>2, <2>1 DEF Sessions, Alike
<1>5. Proceed(n, where, x)
  BY DEF CheckpointNow
<1> HIDE DEF x
<1>6. where = IF s(n).unrecorded = <<>> THEN "save" ELSE IF s(n).owed THEN "head" ELSE "append"
  BY <1>4 DEF BeforeRecording, AfterRecording, CheckpointDue, Alike
<1> HIDE DEF where
<1>7. Moves(n) /\ pc'[n] = where /\ session'[n] = x /\ published' = published
  <2>1. Goto(n, where, x) /\ where \in Locations
    BY <1>5, <1>6 DEF Proceed, Locations
  <2> QED BY <1>2, <1>3, <2>1, GotoMoves
<1>8. Answering(n)'
  <2>1. x.answer = <<>>
    BY <1>1, <1>2, <1>4 DEF Answering
  <2> QED BY <1>4, <1>6, <1>7, <2>1 DEF Answering, s, Alike, Elements
<1>9. MayWrite(n) => Located(n)'
  BY <1>1, <1>2, <1>3, <1>4, <1>6, <1>7, AlikeFacts DEF StoreKeeps
<1> QED BY <1>1, <1>3, <1>4, <1>6, <1>7, <1>8, <1>9, QuietMove DEF StoreKeeps

-----------------------------------------------------------------------------
(* The clock, the beginning and a grant *)

\* The invariant holds of an empty store and no sessions.
LEMMA InitHolds ==
  ASSUME Init
  PROVE  IInv
<1>1. /\ now = 0 /\ grant = NoGrant /\ highWater = 0 /\ entries = <<>> /\ head = 0
      /\ expectNext = 0 /\ saved = NoCheckpoint /\ issued = <<>> /\ busy = 0 /\ published = {}
      /\ pc = [n \in Nodes |-> "out"] /\ session = [n \in Nodes |-> NoSession]
      /\ known = [n \in Nodes |-> NoTick]
  BY DEF Init, Store!Init
<1>2. \A n \in Nodes : pc[n] = "out" /\ ~Leads(n) /\ ~MayWrite(n)
  BY <1>1 DEF Leads, MayWrite
<1>3. Leases
  BY <1>1 DEF Leases, InTable
<1>4. Types
  BY <1>1, <1>2 DEF Types, Locations
<1>5. Ticks(entries) = {}
  BY <1>1 DEF Ticks
<1>6. Shape(entries, head, expectNext, now)
  BY <1>1, <1>5 DEF Shape, EndsAt, MovesForward
<1>7. Checkpointed /\ Announced
  BY <1>1, <1>5 DEF Checkpointed, Resumable, Announced
<1>8. \A n \in Nodes : Node(n)
  BY <1>2 DEF Node, Opens
<1> QED BY <1>3, <1>4, <1>6, <1>7, <1>8 DEF IInv

\* The key epoch a seam would open moves forward, and a checkpoint that has
\* gone stale stays so.
LEMMA EpochFacts ==
  ASSUME Leases, Checkpointed
  PROVE  /\ EpochBound \in Int /\ StartKeyEpoch(now) \in Int /\ StartKeyEpoch(now) <= EpochBound
         /\ now' = now + 1 /\ saved' = saved =>
              /\ EpochBound' \in Int /\ EpochBound <= EpochBound'
              /\ Resumable' => Resumable
<1> EpochSpan \in Nat \ {0} /\ MaxCatchUp \in Nat
  BY HostedMarketAssumption
<1>1. now \in Nat
  BY DEF Leases
<1>2. saved # NoCheckpoint => saved.drawn.value.epoch \in Int /\ saved.savedAt \in Int
  BY DEF Checkpointed, AnyCheckpoint, AnyTick
<1>3. now * EpochSpan \in Int /\ (now + 1) * EpochSpan \in Int /\ now * EpochSpan <= (now + 1) * EpochSpan
  BY <1>1
<1>4. EpochBound = IF saved = NoCheckpoint THEN now * EpochSpan
                   ELSE Larger(saved.drawn.value.epoch + 1, now * EpochSpan)
  BY DEF EpochBound, StartKeyEpoch, StartKeyEpochAfter
<1>5. EpochBound \in Int /\ StartKeyEpoch(now) \in Int /\ StartKeyEpoch(now) <= EpochBound
  BY <1>2, <1>3, <1>4 DEF StartKeyEpoch, Larger
<1>6. ASSUME now' = now + 1, saved' = saved
      PROVE  /\ EpochBound' \in Int /\ EpochBound <= EpochBound'
             /\ Resumable' => Resumable
  <2>1. EpochBound' = IF saved = NoCheckpoint THEN (now + 1) * EpochSpan
                      ELSE Larger(saved.drawn.value.epoch + 1, (now + 1) * EpochSpan)
    BY <1>6 DEF EpochBound, StartKeyEpoch, StartKeyEpochAfter
  <2>2. EpochBound' \in Int /\ EpochBound <= EpochBound'
    BY <1>2, <1>3, <1>4, <2>1 DEF Larger
  <2>3. Resumable' => Resumable
    BY <1>1, <1>2, <1>6 DEF Resumable, Stale
  <2> QED BY <2>2, <2>3
<1> QED BY <1>5, <1>6

\* Time may pass.
LEMMA TickStep ==
  ASSUME IInv, Tick
  PROVE  IInv'
<1>1. /\ Leases /\ Types /\ Shape(entries, head, expectNext, now) /\ Checkpointed /\ Announced
      /\ \A n \in Nodes : Node(n)
  BY DEF IInv
<1>2. /\ now' = now + 1 /\ now \in Nat
      /\ UNCHANGED <<grant, highWater, entries, head, expectNext, saved, issued, pc, session, known,
                     busy, published>>
  BY <1>1 DEF Tick, storeVars, nodeVars, Leases
<1>3. Leases' /\ Types' /\ Announced'
  BY <1>1, <1>2 DEF Leases, InTable, Types, Leads, Granted, Announced, s
<1>4. /\ EpochBound \in Int /\ EpochBound' \in Int /\ EpochBound <= EpochBound'
      /\ Resumable' => Resumable
  BY <1>1, <1>2, EpochFacts
<1>5. Ticks(entries) \subseteq AnyTick
  BY <1>1, TicksAreTicks DEF Shape
<1>6. Shape(entries, head, expectNext, now)'
  <2>1. \A r \in Ticks(entries) : r.value.instant <= now + 1
    BY <1>1, <1>2, <1>5 DEF Shape, AnyTick
  <2> QED BY <1>1, <1>2, <2>1 DEF Shape
<1>7. Checkpointed'
  <2>1. \A r \in Ticks(entries) : r.value.epoch <= EpochBound'
    BY <1>1, <1>4, <1>5 DEF Checkpointed, AnyTick
  <2> QED BY <1>1, <1>2, <1>4, <2>1 DEF Checkpointed
<1>8. ASSUME NEW n \in Nodes
      PROVE  Node(n)'
  <2>1. Leads(n)' = Leads(n) /\ MayWrite(n)' = MayWrite(n) /\ s(n)' = s(n) /\ First(n)' = First(n)
    BY <1>2 DEF Leads, MayWrite, s, First
  <2>2. Leads(n) => Answering(n)'
    BY <1>1, <1>2, <2>1 DEF Node, Answering
  <2>3. Opens(n)'
    BY <1>1, <1>2 DEF Node, Opens, NewestTick
  <2>4. ASSUME MayWrite(n)
        PROVE  Holding(n)' /\ Located(n)' /\ Follows(n)'
    <3>1. Holding(n) /\ Located(n) /\ Follows(n) /\ s(n) \in Sessions
      BY <1>1, <2>4 DEF Node, MayWrite, Types
    <3>2. First(n) \in AnyTick /\ s(n).unrecorded \in Seq(AnyTick)
      BY <3>1, FirstIsATick DEF Sessions
    <3>3. \A k \in DOMAIN s(n).unrecorded : s(n).unrecorded[k].value.instant <= now + 1
      <4>1. SUFFICES ASSUME NEW k \in DOMAIN s(n).unrecorded
                     PROVE  s(n).unrecorded[k].value.instant <= now + 1
        OBVIOUS
      <4>2. s(n).unrecorded[k] \in AnyTick /\ s(n).unrecorded[k].value.instant <= now
        BY <3>1, <3>2 DEF Holding
      <4> QED BY <1>2, <4>2 DEF AnyTick
    <3>4. Holding(n)'
      BY <1>2, <2>1, <3>1, <3>3 DEF Holding
    <3>5. Located(n)'
      BY <1>2, <2>1, <3>1 DEF Located
    <3>6. First(n).value.epoch <= EpochBound' /\ (First(n).value.instant <= now => First(n).value.instant <= now')
      BY <1>2, <1>4, <3>1, <3>2 DEF Follows, AnyTick
    <3>7. Follows(n)'
      BY <1>2, <1>4, <2>1, <3>1, <3>6 DEF Follows
    <3> QED BY <3>4, <3>5, <3>7
  <2> QED BY <2>1, <2>2, <2>3, <2>4 DEF Node
<1> QED BY <1>3, <1>6, <1>7, <1>8 DEF IInv

\* takeOver keeps the invariant: the former writer passes no fence again.
LEMMA TakeOverStep ==
  ASSUME IInv, Deployed, NEW n \in Nodes, TakeOver(n)
  PROVE  IInv'
<1>1. /\ Leases /\ Types /\ Shape(entries, head, expectNext, now) /\ Checkpointed /\ Announced
      /\ \A m \in Nodes : Node(m)
  BY DEF IInv
<1> DEFINE top == highWater + 1
<1>2. /\ UNCHANGED <<now, entries, head, expectNext, saved, busy, published>>
      /\ highWater' = top
      /\ grant' = [holder |-> n, token |-> top, expiresAt |-> now + TermMs]
      /\ issued' = Append(issued, [holder |-> n, token |-> top])
      /\ pc' = [pc EXCEPT ![n] = "resuming"]
      /\ session' = [session EXCEPT ![n] = NoSession]
      /\ known' = [known EXCEPT ![n] = NewestTick]
  BY DEF TakeOver, Goto, Store!Acquire, Store!NextToken, Store!recordVars, Deployed
<1>3. /\ highWater \in Nat /\ Len(issued) = highWater /\ issued \in Seq([holder : Nodes, token : Nat])
      /\ \A i \in DOMAIN issued : issued[i].token = i
  BY <1>1 DEF Leases
<1>4. /\ issued' \in Seq([holder : Nodes, token : Nat]) /\ Len(issued') = top
      /\ DOMAIN issued = 1..highWater /\ DOMAIN issued' = 1..top
      /\ \A i \in 1..highWater : issued'[i] = issued[i]
      /\ issued'[top] = [holder |-> n, token |-> top]
  BY <1>2, <1>3
<1>5. Leases'
  <2>1. \A i \in DOMAIN issued' : issued'[i].token = i
    <3>1. SUFFICES ASSUME NEW i \in 1..top
                   PROVE  issued'[i].token = i
      BY <1>4
    <3>2. CASE i = top
      BY <1>4, <3>2
    <3>3. CASE i # top
      <4>1. i \in 1..highWater
        BY <1>3, <3>3
      <4> QED BY <1>3, <1>4, <4>1
    <3> QED BY <3>2, <3>3
  <2>2. InTable'
    BY <1>2 DEF InTable
  <2> QED BY <1>1, <1>2, <1>3, <1>4, <2>1, <2>2 DEF Leases
<1>6. /\ pc' \in [Nodes -> Locations] /\ session' = [m \in Nodes |-> session'[m]]
      /\ known' \in [Nodes -> AnyTick \cup {NoTick}]
      /\ pc'[n] = "resuming" /\ known'[n] = NewestTick
      /\ \A m \in Nodes \ {n} : pc'[m] = pc[m] /\ session'[m] = session[m] /\ known'[m] = known[m]
  BY <1>1, <1>2, NewestTickFacts DEF Types, Locations
<1>7. \A m, i : /\ Granted(m, i) => Granted(m, i)' /\ i \in 1..highWater
                /\ Granted(m, i)' => Granted(m, i) \/ (m = n /\ i = top)
  <2>1. SUFFICES ASSUME NEW m, NEW i
                 PROVE  /\ Granted(m, i) => Granted(m, i)' /\ i \in 1..highWater
                        /\ Granted(m, i)' => Granted(m, i) \/ (m = n /\ i = top)
    OBVIOUS
  <2>2. Granted(m, i) => Granted(m, i)' /\ i \in 1..highWater
    BY <1>3, <1>4 DEF Granted
  <2>3. ASSUME Granted(m, i)'
        PROVE  Granted(m, i) \/ (m = n /\ i = top)
    <3>1. i \in 1..top /\ issued'[i].holder = m
      BY <1>4, <2>3 DEF Granted
    <3>2. CASE i = top
      BY <1>4, <3>1, <3>2
    <3>3. CASE i # top
      <4>1. i \in 1..highWater
        BY <1>3, <3>1, <3>3
      <4> QED BY <1>4, <3>1, <4>1 DEF Granted
    <3> QED BY <3>2, <3>3
  <2> QED BY <2>2, <2>3
<1>8. \A m \in Nodes \ {n} : Leads(m)' = Leads(m) /\ s(m)' = s(m)
  BY <1>6 DEF Leads, s
<1>9. ~Leads(n)' /\ ~MayWrite(n)'
  BY <1>6 DEF Leads, MayWrite
<1>10. \A m \in Nodes : ~MayWrite(m)'
  <2>1. SUFFICES ASSUME NEW m \in Nodes \ {n}, Leads(m)
                 PROVE  s(m).grant # top
    BY <1>4, <1>8, <1>9 DEF MayWrite
  <2>2. s(m).grant \in 1..highWater
    BY <1>1, <1>7, <2>1 DEF Types
  <2> QED BY <1>3, <2>2
<1>11. Types'
  <2>1. ASSUME NEW m \in Nodes, Leads(m)'
        PROVE  s(m)' \in Sessions /\ Granted(m, s(m).grant)'
    <3>1. m # n /\ Leads(m) /\ s(m)' = s(m)
      BY <1>8, <1>9, <2>1
    <3>2. s(m) \in Sessions /\ Granted(m, s(m).grant)
      BY <1>1, <3>1 DEF Types
    <3>3. Granted(m, s(m).grant)'
      BY <1>4, <3>1, <3>2, <1>3 DEF Granted
    <3> QED BY <3>1, <3>2, <3>3
  <2>2. ASSUME NEW m \in Nodes, pc'[m] = "resuming"
        PROVE  \E i \in DOMAIN issued' :
                 Granted(m, i)' /\ \A j \in DOMAIN issued' : Granted(m, j)' => j <= i
    <3>1. CASE m = n
      <4>1. PICK i \in DOMAIN issued' : i = top
        BY <1>3, <1>4
      <4>2. Granted(n, i)' /\ \A j \in DOMAIN issued' : j <= i
        BY <1>3, <1>4, <4>1 DEF Granted
      <4> QED BY <3>1, <4>2
    <3>2. CASE m # n
      <4>1. PICK i \in DOMAIN issued : Granted(m, i) /\ \A j \in DOMAIN issued : Granted(m, j) => j <= i
        BY <1>1, <1>6, <2>2, <3>2 DEF Types
      <4>2. i \in DOMAIN issued' /\ Granted(m, i)'
        BY <1>3, <1>4, <1>7, <4>1
      <4>3. ASSUME NEW j \in DOMAIN issued', Granted(m, j)'
            PROVE  j <= i
        <5>1. Granted(m, j)
          BY <1>7, <3>2, <4>3
        <5>2. j \in DOMAIN issued
          BY <5>1 DEF Granted
        <5> QED BY <4>1, <5>1, <5>2
      <4> QED BY <4>2, <4>3
    <3> QED BY <3>1, <3>2
  <2> QED BY <1>6, <2>1, <2>2 DEF Types
<1>12. Shape(entries, head, expectNext, now)' /\ Announced'
  BY <1>1, <1>2 DEF Announced
<1>13. Checkpointed'
  <2>1. EpochBound' = EpochBound /\ Resumable' = Resumable
    BY <1>2 DEF EpochBound, Resumable
  <2> QED BY <1>1, <1>2, <2>1 DEF Checkpointed
<1>14. ASSUME NEW m \in Nodes
       PROVE  Node(m)'
  <2>1. NewestTick' = NewestTick
    BY <1>2 DEF NewestTick
  <2>2. Opens(m)'
    BY <1>4, <1>6, <2>1 DEF Opens
  <2>3. Leads(m)' => Answering(m)'
    BY <1>1, <1>2, <1>6, <1>8, <1>9 DEF Node, Answering
  <2> QED BY <1>10, <2>2, <2>3 DEF Node
<1> QED BY <1>5, <1>11, <1>12, <1>13, <1>14 DEF IInv

-----------------------------------------------------------------------------
(* Publishing *)

\* An advanced market has drawn one tick more than it published.
LEMMA AdvancedFacts ==
  ASSUME NEW m \in Markets, NEW t \in Nat
  PROVE  /\ Advanced(m, t) \in Markets
         /\ Advanced(m, t).pending = TRUE
         /\ NextUnpublished(Advanced(m, t)) = Later(NextUnpublished(m), Len(Published(m, t)))
         /\ Advanced(m, t).last = IF Published(m, t) = <<>> THEN m.last
                                  ELSE Published(m, t)[Len(Published(m, t))]
<1> DEFINE first == NextUnpublished(m)
           n == DueCount(m, t)
           new == Published(m, t)
<1>1. /\ n \in Nat /\ Len(new) = n /\ new \in Seq(AnyTick) /\ first \in AnyTick
      /\ \A k \in DOMAIN new : new[k] = Later(first, k - 1)
  BY PublishedFacts
<1>2. Advanced(m, t) = [m EXCEPT !.advancedAt = t, !.drawn = Later(first, n), !.pending = TRUE,
                                 !.last = IF n = 0 THEN m.last ELSE Later(first, n - 1)]
  BY DEF Advanced
<1> HIDE DEF first, n, new
<1>3. Later(first, n) \in AnyTick /\ Later(first, n - 1) \in AnyTick
  <2>1. n \in Int /\ n - 1 \in Int
    BY <1>1
  <2> QED BY <1>1, <2>1, LaterFacts
<1>4. (IF n = 0 THEN m.last ELSE Later(first, n - 1)) = IF new = <<>> THEN m.last ELSE new[Len(new)]
  <2>1. new = <<>> <=> n = 0
    BY <1>1
  <2>2. n # 0 => new[Len(new)] = Later(first, n - 1)
    BY <1>1
  <2> QED BY <2>1, <2>2
<1>5. PICK z : z = (IF n = 0 THEN m.last ELSE Later(first, n - 1)) /\ z \in AnyTick \cup {NoTick}
  BY <1>3 DEF Markets
<1>6. Advanced(m, t) = [m EXCEPT !.advancedAt = t, !.drawn = Later(first, n), !.pending = TRUE, !.last = z]
  BY <1>2, <1>5
<1>7. /\ Advanced(m, t) \in Markets /\ Advanced(m, t).pending = TRUE
      /\ Advanced(m, t).drawn = Later(first, n) /\ Advanced(m, t).last = z
  <2>1. PICK d \in AnyTick : d = Later(first, n)
    BY <1>3
  <2>2. Advanced(m, t) = [m EXCEPT !.advancedAt = t, !.drawn = d, !.pending = TRUE, !.last = z]
    BY <1>6, <2>1
  <2>3. t \in Int /\ z \in AnyTick \cup {NoTick}
    BY <1>5
  <2> QED BY <2>1, <2>2, <2>3 DEF Markets
<1> QED BY <1>1, <1>4, <1>5, <1>7 DEF NextUnpublished, first, new

\* What a market publishes follows what its session holds.
LEMMA Generated ==
  ASSUME NEW n \in Nodes, s(n) \in Sessions, now \in Nat, now' = now, Holding(n),
         s(n)'.market = Advanced(s(n).market, now),
         s(n)'.unrecorded = s(n).unrecorded \o Published(s(n).market, now)
  PROVE  First(n)' = First(n) /\ Holding(n)'
<1> DEFINE u == s(n).unrecorded
           m == s(n).market
           new == Published(m, now)
           next == NextUnpublished(m)
           v == u \o new
           f == First(n)
<1>1. /\ u \in Seq(AnyTick) /\ m \in Markets /\ f \in AnyTick
  BY FirstIsATick DEF Sessions
<1>2. /\ new \in Seq(AnyTick) /\ next \in AnyTick
      /\ \A k \in DOMAIN new : new[k] = Later(next, k - 1) /\ new[k].value.instant <= now
  BY <1>1, PublishedFacts
<1>3. /\ NextUnpublished(Advanced(m, now)) = Later(next, Len(new)) /\ Advanced(m, now).pending
      /\ Advanced(m, now).last = IF new = <<>> THEN m.last ELSE new[Len(new)]
  BY <1>1, AdvancedFacts
<1>4. /\ f.sequence >= 1 /\ next = Later(f, Len(u))
      /\ \A k \in DOMAIN u : u[k] = Later(f, k - 1) /\ u[k].value.instant <= now
      /\ u # <<>> => m.last = u[Len(u)]
      /\ f = IF u = <<>> THEN next ELSE u[1]
  BY DEF Holding, First
<1>5. s(n)'.unrecorded = v /\ s(n)'.market = Advanced(m, now)
  OBVIOUS
<1>6. First(n)' = IF v = <<>> THEN NextUnpublished(Advanced(m, now)) ELSE v[1]
  BY <1>5 DEF First
<1> HIDE DEF u, m, new, next, f
<1>7. /\ v \in Seq(AnyTick) /\ Len(v) = Len(u) + Len(new) /\ Len(u) \in Nat /\ Len(new) \in Nat
      /\ \A k \in 1..Len(u) : v[k] = u[k]
      /\ \A k \in 1..Len(new) : v[Len(u) + k] = new[k]
      /\ DOMAIN v = 1..(Len(u) + Len(new)) /\ DOMAIN u = 1..Len(u) /\ DOMAIN new = 1..Len(new)
  BY <1>1, <1>2
<1> HIDE DEF v
<1>8. ASSUME NEW k \in DOMAIN v
      PROVE  v[k] = Later(f, k - 1) /\ v[k].value.instant <= now
  <2>1. CASE k <= Len(u)
    <3>1. k \in 1..Len(u)
      BY <1>7, <2>1
    <3> QED BY <1>4, <1>7, <3>1
  <2>2. CASE k > Len(u)
    <3>1. PICK j \in 1..Len(new) : k = Len(u) + j
      <4>1. k - Len(u) \in 1..Len(new) /\ k = Len(u) + (k - Len(u))
        BY <1>7, <2>2
      <4> QED BY <4>1
    <3>2. v[k] = Later(next, j - 1) /\ v[k].value.instant <= now
      BY <1>2, <1>7, <3>1
    <3>3. Len(u) \in Int /\ j - 1 \in Int /\ Len(u) + (j - 1) = k - 1
      BY <1>7, <3>1
    <3>4. Later(Later(f, Len(u)), j - 1) = Later(f, Len(u) + (j - 1))
      BY <1>1, <3>3, LaterFacts
    <3> QED BY <1>4, <3>2, <3>3, <3>4
  <2> QED BY <1>7, <2>1, <2>2
<1>9. NextUnpublished(Advanced(m, now)) = Later(f, Len(v))
  <2>1. Later(Later(f, Len(u)), Len(new)) = Later(f, Len(u) + Len(new))
    BY <1>1, <1>7, LaterFacts
  <2> QED BY <1>3, <1>4, <1>7, <2>1
<1>10. Later(f, 0) = f
  BY <1>1, LaterFacts
<1>11. First(n)' = f
  <2>1. CASE v = <<>>
    BY <1>6, <1>9, <1>10, <2>1
  <2>2. CASE v # <<>>
    <3>1. 1 \in DOMAIN v
      BY <1>7, <2>2
    <3>2. v[1] = Later(f, 1 - 1)
      BY <1>8, <3>1
    <3> QED BY <1>6, <1>10, <2>2, <3>2
  <2> QED BY <2>1, <2>2
<1>12. v # <<>> => Advanced(m, now).last = v[Len(v)]
  <2>1. CASE new = <<>>
    <3>1. Len(new) = 0 /\ Len(v) = Len(u)
      BY <1>7, <2>1
    <3>2. u # <<>> => v[Len(v)] = u[Len(u)]
      BY <1>1, <1>7, <3>1
    <3>3. v # <<>> => u # <<>>
      BY <1>1, <1>7, <3>1
    <3> QED BY <1>3, <1>4, <2>1, <3>2, <3>3
  <2>2. CASE new # <<>>
    <3>1. Len(new) \in 1..Len(new) /\ Len(v) = Len(u) + Len(new)
      BY <1>2, <1>7, <2>2
    <3> QED BY <1>3, <1>7, <2>2, <3>1
  <2> QED BY <2>1, <2>2
<1>13. s(n)'.unrecorded = v /\ s(n)'.market = Advanced(m, now) /\ f = First(n)
  BY <1>5 DEF f, u, m, v, new
<1>14. Holding(n)'
  <2>1. First(n)'.sequence >= 1
    BY <1>4, <1>11
  <2>2. \A k \in DOMAIN s(n)'.unrecorded : /\ s(n)'.unrecorded[k] = Later(First(n)', k - 1)
                                           /\ s(n)'.unrecorded[k].value.instant <= now'
    BY <1>8, <1>11, <1>13
  <2>3. NextUnpublished(s(n)'.market) = Later(First(n)', Len(s(n)'.unrecorded))
    BY <1>9, <1>11, <1>13
  <2>4. s(n)'.unrecorded # <<>> => /\ s(n)'.market.pending
                                    /\ s(n)'.market.last = s(n)'.unrecorded[Len(s(n)'.unrecorded)]
    BY <1>3, <1>12, <1>13
  <2> QED BY <2>1, <2>2, <2>3, <2>4 DEF Holding
<1> QED BY <1>11, <1>13, <1>14

\* advanceTo keeps the invariant: what it publishes goes on from what is unrecorded.
LEMMA GenerateStep ==
  ASSUME IInv, NEW n \in Nodes, Generate(n)
  PROVE  IInv'
<1> DEFINE m == s(n).market
           u == s(n).unrecorded
           new == Published(m, now)
           x == [s(n) EXCEPT !.market = Advanced(m, now), !.unrecorded = u \o new, !.answer = new]
           where == BeforeRecording(x)
<1>1. Leads(n) /\ pc[n] = "renewed" /\ UNCHANGED <<now, storeVars, known, busy>>
      /\ Proceed(n, where, x)
  BY DEF Generate, Leads
<1>2. /\ Leases /\ Types /\ s(n) \in Sessions /\ Answering(n) /\ Shape(entries, head, expectNext, now)
      /\ Checkpointed /\ Announced /\ (MayWrite(n) => Holding(n) /\ Located(n) /\ Follows(n))
  BY <1>1, SessionFacts DEF IInv
<1>3. StoreKeeps /\ busy' \in Nat /\ busy' = busy /\ known' = known /\ now \in Nat
  BY <1>1, <1>2, StoreLooks DEF Leases
<1>4. m \in Markets /\ u \in Seq(AnyTick)
  BY <1>2 DEF Sessions
<1>5. /\ new \in Seq(AnyTick) /\ Advanced(m, now) \in Markets
      /\ Advanced(m, now).pending = TRUE
      /\ new = <<>> => Advanced(m, now).last = m.last
      /\ NextUnpublished(m).value.instant <= now => new # <<>>
  <2>1. /\ new \in Seq(AnyTick) /\ Len(new) = DueCount(m, now)
        /\ NextUnpublished(m).value.instant <= now => DueCount(m, now) >= 1
    BY <1>3, <1>4, PublishedFacts
  <2>2. NextUnpublished(m).value.instant <= now => new # <<>>
    BY <2>1
  <2> QED BY <1>3, <1>4, <2>1, <2>2, AdvancedFacts
<1> HIDE DEF new
<1>6. u \o new \in Seq(AnyTick) /\ (u \o new = <<>> => u = <<>> /\ new = <<>>)
      /\ Elements(new) \subseteq Elements(u \o new)
  <2>1. /\ u \o new \in Seq(AnyTick) /\ Len(u \o new) = Len(u) + Len(new)
        /\ Len(u) \in Nat /\ Len(new) \in Nat
        /\ DOMAIN (u \o new) = 1..(Len(u) + Len(new)) /\ DOMAIN new = 1..Len(new)
        /\ \A k \in 1..Len(new) : (u \o new)[Len(u) + k] = new[k]
    BY <1>4, <1>5
  <2>2. u \o new = <<>> => u = <<>> /\ new = <<>>
    BY <1>4, <1>5, <2>1
  <2>3. ASSUME NEW k \in 1..Len(new)
        PROVE  new[k] \in Elements(u \o new)
    <3>1. Len(u) + k \in DOMAIN (u \o new)
      BY <2>1
    <3> QED BY <2>1, <3>1 DEF Elements
  <2> QED BY <2>1, <2>2, <2>3 DEF Elements
<1>7. x \in Sessions /\ x.market = Advanced(m, now) /\ x.unrecorded = u \o new /\ x.answer = new
      /\ x.grant = s(n).grant /\ x.owed = s(n).owed
  BY <1>2, <1>5, <1>6 DEF Sessions
<1> HIDE DEF x
<1>8. where \in IF u \o new = <<>> THEN {"save", "idle"} ELSE IF s(n).owed THEN {"head"} ELSE {"append"}
  BY <1>7 DEF BeforeRecording, AfterRecording
<1> HIDE DEF where
<1>9. /\ Moves(n) /\ pc'[n] = where
      /\ session'[n] \in Sessions /\ Alike(session'[n], x)
      /\ where # "idle" => session'[n].answer = new /\ published' = published
      /\ where = "idle" => session'[n].answer = <<>> /\ published' = published
  <2>1. CASE where = "idle"
    <3>1. Return(n, x)
      BY <1>1, <2>1 DEF Proceed
    <3>2. Elements(x.answer) = {}
      BY <1>6, <1>7, <1>8, <2>1 DEF Elements
    <3> QED BY <1>2, <1>3, <1>7, <2>1, <3>1, <3>2, ReturnMoves
  <2>2. CASE where # "idle"
    <3>1. Goto(n, where, x) /\ where \in Locations
      BY <1>1, <1>8, <2>2 DEF Proceed, Locations
    <3> QED BY <1>2, <1>3, <1>7, <2>2, <3>1, GotoMoves DEF Alike
  <2> QED BY <2>1, <2>2
<1>10. /\ s(n)' = session'[n] /\ s(n)'.grant = s(n).grant /\ s(n)'.owed = s(n).owed
       /\ s(n)'.unrecorded = u \o new /\ s(n)'.market = Advanced(m, now)
  BY <1>7, <1>9 DEF Alike, s
<1>11. UNCHANGED <<now, issued, highWater, entries, head, expectNext, saved>> /\ InTable'
  BY <1>3 DEF StoreKeeps
<1>12. Shape(entries, head, expectNext, now)' /\ Ticks(entries)' = Ticks(entries) /\ Announced'
  BY <1>2, <1>3, <1>9, <1>11 DEF Announced
<1>13. EpochBound' = EpochBound /\ Resumable' = Resumable
  BY <1>11 DEF EpochBound, Resumable
<1>14. Checkpointed'
  BY <1>2, <1>11, <1>13 DEF Checkpointed
<1>15. Granted(n, s(n).grant)'
  BY <1>1, <1>2, <1>10, <1>11 DEF Types, Granted
<1>16. Answering(n)'
  <2>1. CASE where = "idle"
    BY <1>9, <1>10, <2>1 DEF Answering
  <2>2. CASE where = "save"
    <3>1. new = <<>> /\ session'[n].answer = new
      BY <1>6, <1>8, <1>9, <2>2
    <3>2. Elements(s(n)'.answer) = {}
      BY <1>10, <3>1 DEF Elements
    <3> QED BY <1>9, <2>2, <3>2 DEF Answering
  <2>3. CASE where \in {"head", "append"}
    <3>1. u \o new # <<>> /\ s(n)'.answer = new /\ s(n)'.unrecorded = u \o new
      BY <1>8, <1>9, <1>10, <2>3
    <3>2. Elements(s(n)'.answer) \subseteq Elements(s(n)'.unrecorded)
      BY <1>6, <3>1
    <3> QED BY <1>9, <2>3, <3>1, <3>2 DEF Answering
  <2> QED BY <1>8, <2>1, <2>2, <2>3
<1>17. ASSUME MayWrite(n)
       PROVE  Holding(n)' /\ Located(n)' /\ Follows(n)'
  <2>1. Holding(n) /\ Located(n) /\ Follows(n)
    BY <1>2, <1>17
  <2>2. First(n)' = First(n) /\ Holding(n)'
    BY <1>2, <1>3, <1>10, <1>11, <2>1, Generated DEF new
  <2>3. u \o new = <<>> => /\ s(n)'.market.last = m.last /\ First(n) = NextUnpublished(m)
                           /\ m.last \in Ticks(entries)
    <3>1. SUFFICES ASSUME u = <<>>, new = <<>>
                   PROVE  /\ s(n)'.market.last = m.last /\ First(n) = NextUnpublished(m)
                          /\ m.last \in Ticks(entries)
      BY <1>6
    <3>2. First(n) = NextUnpublished(m)
      BY <3>1 DEF First
    <3> QED BY <1>5, <1>10, <2>1, <3>1, <3>2 DEF Follows
  <2>4. u \o new = <<>> => m.last # NoTick
    <3>1. Ticks(entries) \subseteq AnyTick
      BY <1>2, TicksAreTicks DEF Shape
    <3> QED BY <2>3, <3>1, NullAssumption
  <2>5. Located(n)'
    BY <1>5, <1>8, <1>9, <1>10, <2>3, <2>4 DEF Located
  <2>6. Follows(n)'
    <3>1. s(n)'.unrecorded = <<>> => s(n)'.market.last \in Ticks(entries)'
      BY <1>10, <1>12, <2>3
    <3>2. First(n)'.value.epoch <= EpochBound'
      BY <1>13, <2>1, <2>2 DEF Follows
    <3>3. s(n)'.owed => entries' # <<>> /\ Ahead(entries', First(n)') /\ First(n)'.sequence >= head' + 2
      BY <1>10, <1>11, <2>1, <2>2 DEF Follows
    <3>4. ~s(n)'.owed => /\ Continues(entries', head', First(n)')
                         /\ s(n)'.unrecorded = <<>> => entries' = <<>> \/ Newest(entries').kind = "tick"
      BY <1>6, <1>10, <1>11, <2>1, <2>2 DEF Follows
    <3>5. Resumable' => ~s(n)'.owed /\ First(n)' = At(saved'.drawn, First(n)'.sequence)
      BY <1>10, <1>11, <1>13, <2>1, <2>2 DEF Follows
    <3> QED BY <3>1, <3>2, <3>3, <3>4, <3>5 DEF Follows
  <2> QED BY <2>2, <2>5, <2>6
<1>18. MayWrite(n)' => MayWrite(n)
  BY <1>1, <1>10, <1>11 DEF MayWrite
<1>19. pc'[n] # "resuming"
  BY <1>8, <1>9
<1>20. Ticks(entries) \subseteq Ticks(entries)' /\ UNCHANGED <<entries, head, saved>>
  BY <1>11
<1> QED BY <1>3, <1>9, <1>10, <1>11, <1>12, <1>14, <1>15, <1>16, <1>17, <1>18, <1>19, <1>20, NodeStep DEF Moves

-----------------------------------------------------------------------------
(* Writing the record *)

\* A seam above the head keeps a record's shape.
LEMMA SeamShape ==
  ASSUME NEW es, NEW hd, NEW ex, NEW t, Shape(es, hd, ex, t), es # <<>>,
         NEW seam \in AnySeam, seam.resumesAt > hd
  PROVE  Shape(Append(es, Store!SeamEntryOf(seam)), hd, seam.resumesAt, t)
<1> DEFINE es2 == Append(es, Store!SeamEntryOf(seam))
<1>1. es \in Seq(Entry) /\ hd \in Nat /\ EndsAt(es, hd, ex) /\ MovesForward(es)
  BY DEF Shape
<1>2. /\ es2 \in Seq(Entry) /\ Len(es2) = Len(es) + 1
      /\ \A k \in 1..Len(es) : es2[k] = es[k]
      /\ Newest(es2) = [kind |-> "seam", seam |-> seam]
      /\ Ticks(es2) = Ticks(es)
  BY <1>1, AppendedSeam
<1> HIDE DEF es2
<1>3. DOMAIN es = 1..Len(es) /\ DOMAIN es2 = 1..(Len(es) + 1) /\ Len(es) \in Nat
  BY <1>1, <1>2
<1>4. EndsAt(es2, hd, seam.resumesAt)
  BY <1>1, <1>2, <1>3 DEF EndsAt
<1>5. MovesForward(es2)
  <2>1. SUFFICES ASSUME NEW j \in DOMAIN es2, NEW k \in DOMAIN es2, j < k,
                        es2[j].kind = "tick", es2[k].kind = "tick"
                 PROVE  j \in 1..Len(es) /\ k \in 1..Len(es)
    BY <1>1, <1>2, <1>3 DEF MovesForward
  <2>2. k # Len(es) + 1
    BY <1>2, <2>1 DEF Newest
  <2> QED BY <1>3, <2>1, <2>2
<1>6. seam.resumesAt \in Nat
  BY <1>1 DEF AnySeam
<1> QED BY <1>2, <1>4, <1>5, <1>6 DEF Shape, es2

\* Recording the seam keeps the invariant: the record now expects the first tick after it.
LEMMA WriteSeamStep ==
  ASSUME IInv, NEW n \in Nodes, WriteSeam(n)
  PROVE  IInv'
<1> DEFINE x == [s(n) EXCEPT !.owed = FALSE, !.seam = NoTick]
           es2 == Append(entries, Store!SeamEntryOf(s(n).seam))
<1>1. /\ Leads(n) /\ pc[n] = "seam" /\ UNCHANGED <<known, busy>>
      /\ Store!Passes(s(n).grant) /\ Store!Seamable(s(n).seam)
      /\ entries' = es2 /\ expectNext' = s(n).seam.resumesAt
      /\ UNCHANGED <<now, grant, highWater, issued, head, saved>>
      /\ Goto(n, "append", x)
  BY DEF WriteSeam, Leads, Store!RecordSeam, Store!leaseVars
<1>2. /\ Leases /\ Types /\ s(n) \in Sessions /\ Answering(n) /\ Shape(entries, head, expectNext, now)
      /\ Checkpointed /\ Announced
  BY <1>1, SessionFacts DEF IInv
<1>3. MayWrite(n) /\ Holding(n) /\ Located(n) /\ Follows(n)
  BY <1>1, <1>2, PasserMayWrite, SessionFacts
<1>4. s(n).owed /\ s(n).unrecorded # <<>> /\ s(n).seam \in AnySeam
      /\ s(n).seam.resumesAt = First(n).sequence /\ ~Resumable
      /\ entries # <<>> /\ Ahead(entries, First(n)) /\ First(n).sequence >= head + 2
  BY <1>1, <1>2, <1>3 DEF Located, Follows, Answering
<1>5. head \in Nat /\ entries \in Seq(Entry) /\ First(n) \in AnyTick /\ First(n).sequence \in Int
  <2>1. First(n) \in AnyTick
    BY <1>2, FirstIsATick
  <2> QED BY <1>2, <2>1 DEF Shape, AnyTick
<1>6. Shape(entries, head, expectNext, now)'
  <2>1. s(n).seam.resumesAt > head
    BY <1>4, <1>5
  <2> QED BY <1>1, <1>2, <1>4, <2>1, SeamShape
<1>7. /\ Ticks(entries') = Ticks(entries) /\ entries' # <<>>
      /\ Newest(entries') = [kind |-> "seam", seam |-> s(n).seam]
  <2>1. /\ Ticks(es2) = Ticks(entries) /\ Newest(es2) = [kind |-> "seam", seam |-> s(n).seam]
        /\ Len(es2) = Len(entries) + 1 /\ Len(entries) \in Nat
    BY <1>4, <1>5, AppendedSeam
  <2>2. es2 # <<>>
    BY <2>1
  <2> QED BY <1>1, <2>1, <2>2
<1>8. EpochBound' = EpochBound /\ Resumable' = Resumable
  BY <1>1 DEF EpochBound, Resumable
<1>9. Checkpointed'
  BY <1>1, <1>2, <1>4, <1>7, <1>8 DEF Checkpointed
<1>10. x \in Sessions /\ x.grant = s(n).grant /\ x.unrecorded = s(n).unrecorded
       /\ x.market = s(n).market /\ x.owed = FALSE /\ x.answer = s(n).answer
  BY <1>2 DEF Sessions
<1> HIDE DEF x, es2
<1>11. Moves(n) /\ pc'[n] = "append" /\ session'[n] = x /\ s(n)' = x /\ published' = published
  <2>1. "append" \in Locations /\ known' = known
    BY <1>1 DEF Locations
  <2>2. Moves(n) /\ pc'[n] = "append" /\ session'[n] = x /\ published' = published
    BY <1>1, <1>2, <2>1, GotoMoves
  <2> QED BY <2>2 DEF s
<1>12. Announced'
  BY <1>1, <1>2, <1>7, <1>11 DEF Announced
<1>13. First(n)' = First(n)
  BY <1>10, <1>11 DEF First
<1>14. Holding(n)'
  BY <1>1, <1>3, <1>10, <1>11, <1>13 DEF Holding
<1>15. Located(n)'
  BY <1>10, <1>11 DEF Located
<1>16. Answering(n)'
  BY <1>1, <1>2, <1>10, <1>11 DEF Answering
<1>17. Follows(n)'
  <2>1. Continues(entries', head', First(n)')
    <3>1. Ahead(entries', First(n)')
      BY <1>4, <1>7, <1>13 DEF Ahead
    <3> QED BY <1>4, <1>7, <1>13, <3>1 DEF Continues
  <2>2. First(n)'.value.epoch <= EpochBound'
    BY <1>3, <1>8, <1>13 DEF Follows
  <2> QED BY <1>4, <1>8, <1>10, <1>11, <2>1, <2>2 DEF Follows
<1>18. Granted(n, s(n).grant)'
  BY <1>1, <1>2, <1>10, <1>11 DEF Types, Granted
<1>19. InTable' /\ busy' \in Nat /\ UNCHANGED <<now, issued, highWater>>
       /\ Ticks(entries) \subseteq Ticks(entries)' /\ pc'[n] # "resuming"
  BY <1>1, <1>2, <1>7, <1>11 DEF InTable, Leases
<1> QED BY <1>3, <1>6, <1>9, <1>10, <1>11, <1>12, <1>14, <1>15, <1>16, <1>17, <1>18, <1>19, NodeStep DEF Moves

\* What the record is once it took a session's ticks: the shape it had, every
\* one of them, and the end of their stream.
LEMMA TicksWritten ==
  ASSUME IInv, NEW n \in Nodes, pc[n] = "append", Store!AppendTicks(s(n).grant, s(n).unrecorded)
  PROVE  /\ MayWrite(n) /\ UNCHANGED <<now, grant, highWater, issued, saved>>
         /\ Shape(entries, head, expectNext, now)' /\ Checkpointed'
         /\ EpochBound' = EpochBound /\ Resumable' = Resumable
         /\ Ticks(entries) \cup Elements(s(n).unrecorded) \subseteq Ticks(entries')
         /\ Replays(entries', head', NextUnpublished(s(n).market))
<1>1. /\ Leads(n) /\ Store!Passes(s(n).grant)
      /\ UNCHANGED <<now, grant, highWater, issued, saved>>
  BY DEF Leads, Store!AppendTicks, Store!leaseVars
<1>2. /\ Leases /\ Types /\ s(n) \in Sessions /\ Answering(n) /\ Shape(entries, head, expectNext, now)
      /\ Checkpointed
  BY <1>1, SessionFacts DEF IInv
<1>3. MayWrite(n) /\ Holding(n) /\ Located(n) /\ Follows(n)
  BY <1>1, <1>2, PasserMayWrite, SessionFacts
<1> DEFINE b == s(n).unrecorded
           t == First(n)
<1>4. PICK r \in 0..Len(b) :
        LET f == Store!Fresh(b, r) IN
        /\ Store!Splits(b, r)
        /\ entries' = entries \o Store!TickEntries(f)
        /\ head' = IF f = <<>> THEN head ELSE f[Len(f)].sequence
        /\ expectNext' = IF f = <<>> THEN expectNext ELSE f[Len(f)].sequence + 1
  BY DEF Store!AppendTicks
<1>5. /\ b \in Seq(AnyTick) /\ b # <<>> /\ t \in AnyTick /\ t.sequence >= 1 /\ now \in Nat
      /\ \A k \in DOMAIN b : b[k] = Later(t, k - 1) /\ b[k].value.instant <= now
      /\ Continues(entries, head, t)
      /\ NextUnpublished(s(n).market) = Later(t, Len(b))
      /\ t.value.epoch <= EpochBound
      /\ Resumable => t = At(saved.drawn, t.sequence)
  BY <1>1, <1>2, <1>3, FirstIsATick DEF Sessions, Holding, Located, Follows, Answering, Leases
<1> HIDE DEF t, b
<1>6. /\ Shape(entries', head', expectNext', now)
      /\ Ticks(entries) \cup Elements(b) \subseteq Ticks(entries')
      /\ \A q \in Ticks(entries') : q \in Ticks(entries) \/ q.value.epoch = t.value.epoch
      /\ Replays(entries', head', Later(t, Len(b)))
      /\ \A u \in AnyTick : Replays(entries, head, u) /\ t = At(u, t.sequence) => Replays(entries', head', u)
  BY <1>2, <1>4, <1>5, BatchGrows
<1>7. EpochBound' = EpochBound /\ Resumable' = Resumable
  BY <1>1 DEF EpochBound, Resumable
<1>8. Checkpointed'
  <2>1. \A q \in Ticks(entries') : q.value.epoch <= EpochBound'
    BY <1>2, <1>5, <1>6, <1>7 DEF Checkpointed
  <2>2. saved # NoCheckpoint => saved \in AnyCheckpoint /\ saved.pending /\ saved.last \in Ticks(entries')
    BY <1>2, <1>6 DEF Checkpointed
  <2>3. Resumable => Replays(entries', head', saved.drawn) /\ saved.drawn.sequence >= 1
    <3>1. SUFFICES ASSUME Resumable
                   PROVE  Replays(entries', head', saved.drawn) /\ saved.drawn.sequence >= 1
      OBVIOUS
    <3>2. saved.drawn \in AnyTick /\ Replays(entries, head, saved.drawn) /\ saved.drawn.sequence >= 1
      BY <1>2, <3>1 DEF Checkpointed, Resumable, AnyCheckpoint
    <3> QED BY <1>5, <1>6, <3>1, <3>2
  <2> QED BY <1>1, <1>7, <2>1, <2>2, <2>3 DEF Checkpointed
<1> QED BY <1>1, <1>3, <1>5, <1>6, <1>7, <1>8 DEF b

\* Appending ticks keeps the invariant.
LEMMA WriteTicksStep ==
  ASSUME IInv, NEW n \in Nodes, WriteTicks(n)
  PROVE  IInv'
<1> DEFINE x == [s(n) EXCEPT !.unrecorded = <<>>, !.failures = 0]
           where == AfterRecording(x)
<1>1. /\ Leads(n) /\ pc[n] = "append" /\ UNCHANGED <<known, busy>>
      /\ Store!AppendTicks(s(n).grant, s(n).unrecorded) /\ Proceed(n, where, x)
  BY DEF WriteTicks, Leads
<1>2. /\ Leases /\ Types /\ s(n) \in Sessions /\ Answering(n) /\ Announced
      /\ (MayWrite(n) => Holding(n) /\ Located(n) /\ Follows(n))
  BY <1>1, SessionFacts DEF IInv
<1>3. /\ MayWrite(n) /\ UNCHANGED <<now, grant, highWater, issued, saved>>
      /\ Shape(entries, head, expectNext, now)' /\ Checkpointed'
      /\ EpochBound' = EpochBound /\ Resumable' = Resumable
      /\ Ticks(entries) \cup Elements(s(n).unrecorded) \subseteq Ticks(entries')
      /\ Replays(entries', head', NextUnpublished(s(n).market))
  BY <1>1, TicksWritten
<1>4. x \in Sessions /\ x.grant = s(n).grant /\ x.unrecorded = <<>>
      /\ x.market = s(n).market /\ x.owed = s(n).owed /\ x.answer = s(n).answer
  <2>1. <<>> \in Seq(AnyTick) /\ 0 \in Int
    OBVIOUS
  <2> QED BY <1>2, <2>1 DEF Sessions
<1> HIDE DEF x
<1>5. where \in {"save", "idle"}
  BY DEF AfterRecording
<1> HIDE DEF where
<1>6. Elements(x.answer) \subseteq Ticks(entries')
  BY <1>1, <1>2, <1>3, <1>4 DEF Answering
<1>7. /\ Moves(n) /\ pc'[n] = where
      /\ session'[n] \in Sessions /\ Alike(session'[n], x)
      /\ Elements(session'[n].answer) \subseteq Ticks(entries')
      /\ where = "idle" => session'[n].answer = <<>>
      /\ published' \subseteq published \cup Ticks(entries')
  <2>1. CASE where = "idle"
    <3>1. Return(n, x) /\ known' = known
      BY <1>1, <2>1 DEF Proceed
    <3>2. /\ Moves(n) /\ pc'[n] = "idle"
          /\ session'[n] \in Sessions /\ Alike(session'[n], x) /\ session'[n].answer = <<>>
          /\ published' = published \cup Elements(x.answer)
      BY <1>2, <1>4, <3>1, ReturnMoves
    <3> QED BY <1>6, <2>1, <3>2 DEF Elements
  <2>2. CASE where # "idle"
    <3>1. Goto(n, where, x) /\ where \in Locations /\ known' = known
      BY <1>1, <1>5, <2>2 DEF Proceed, Locations
    <3>2. Moves(n) /\ pc'[n] = where /\ session'[n] = x /\ published' = published
      BY <1>2, <3>1, GotoMoves
    <3> QED BY <1>4, <1>6, <2>2, <3>2 DEF Alike
  <2> QED BY <2>1, <2>2
<1>8. /\ s(n)' = session'[n] /\ s(n)'.grant = s(n).grant /\ s(n)'.owed = s(n).owed
      /\ s(n)'.unrecorded = <<>> /\ s(n)'.market = s(n).market
  BY <1>4, <1>7 DEF Alike, s
<1>9. Announced'
  BY <1>1, <1>2, <1>3, <1>7 DEF Announced
<1>10. Answering(n)'
  BY <1>5, <1>7, <1>8 DEF Answering
<1>11. Holding(n) /\ Located(n) /\ Follows(n) /\ ~s(n).owed /\ s(n).unrecorded # <<>>
  BY <1>1, <1>2, <1>3 DEF Located, Answering
<1> DEFINE next == NextUnpublished(s(n).market)
           b == s(n).unrecorded
           t == First(n)
<1>12. First(n)' = next
  BY <1>8 DEF First
<1>13. /\ b \in Seq(AnyTick) /\ b # <<>> /\ t \in AnyTick /\ t.sequence \in Int /\ t.sequence >= 1
       /\ b[Len(b)] = Later(t, Len(b) - 1) /\ s(n).market.last = b[Len(b)] /\ b[Len(b)] \in Elements(b)
       /\ next = Later(t, Len(b)) /\ Len(b) \in Nat
  <2>1. b \in Seq(AnyTick) /\ b # <<>> /\ t \in AnyTick
    BY <1>2, <1>11, FirstIsATick DEF Sessions
  <2>2. Len(b) \in DOMAIN b /\ Len(b) \in Nat
    BY <2>1
  <2> QED BY <1>11, <2>1, <2>2 DEF Holding, Elements, AnyTick
<1> HIDE DEF next, b, t
<1>14. /\ next \in AnyTick /\ next.sequence = t.sequence + Len(b)
       /\ next.value.epoch = t.value.epoch
  <2>1. PICK k \in Int : k = Len(b)
    BY <1>13
  <2>2. Later(t, k) \in AnyTick /\ Later(t, k).sequence = t.sequence + k
        /\ Later(t, k).value.epoch = t.value.epoch
    BY <1>13, LaterFacts
  <2> QED BY <1>13, <2>1, <2>2
<1>15. Holding(n)'
  <2>1. next.sequence >= 1
    BY <1>13, <1>14
  <2>2. next = Later(next, 0)
    BY <1>14, LaterFacts
  <2>3. Len(s(n)'.unrecorded) = 0 /\ DOMAIN s(n)'.unrecorded = {}
    BY <1>8
  <2> QED BY <1>8, <1>12, <2>1, <2>2, <2>3 DEF Holding, next
<1>16. Located(n)'
  <2>1. s(n).market.last # NoTick
    BY <1>13, NullAssumption
  <2>2. where = "save" => s(n).market.pending
    BY <1>11 DEF Holding
  <2> QED BY <1>5, <1>7, <1>8, <2>1, <2>2 DEF Located
<1>17. Follows(n)'
  <2>1. s(n)'.market.last \in Ticks(entries')
    BY <1>3, <1>8, <1>13 DEF b
  <2>2. First(n)'.value.epoch <= EpochBound'
    BY <1>3, <1>11, <1>12, <1>14 DEF Follows, t
  <2>3. Continues(entries', head', First(n)') /\ Newest(entries').kind = "tick"
    BY <1>3, <1>12 DEF Continues, Replays, next
  <2>4. ASSUME Resumable'
        PROVE  First(n)' = At(saved'.drawn, First(n)'.sequence)
    <3>1. Resumable /\ saved' = saved /\ t = At(saved.drawn, t.sequence)
      BY <1>3, <1>11, <2>4 DEF Follows, t
    <3>2. saved.drawn \in AnyTick
      BY <3>1 DEF IInv, Checkpointed, Resumable, AnyCheckpoint
    <3>3. Later(At(saved.drawn, t.sequence), Len(b)) = At(saved.drawn, t.sequence + Len(b))
      <4>1. PICK i \in Int, k \in Int : i = t.sequence /\ k = Len(b)
        BY <1>13
      <4>2. Later(At(saved.drawn, i), k) = At(saved.drawn, i + k)
        BY <3>2, AtFacts
      <4> QED BY <4>1, <4>2
    <3> QED BY <1>12, <1>13, <1>14, <3>1, <3>3
  <2> QED BY <1>8, <1>11, <2>1, <2>2, <2>3, <2>4 DEF Follows
<1>18. Granted(n, s(n).grant)'
  BY <1>1, <1>2, <1>3, <1>8 DEF Types, Granted
<1>19. InTable' /\ busy' \in Nat /\ UNCHANGED <<now, issued, highWater>>
       /\ Ticks(entries) \subseteq Ticks(entries)' /\ pc'[n] # "resuming"
  BY <1>1, <1>2, <1>3, <1>5, <1>7 DEF InTable, Leases
<1> QED BY <1>3, <1>7, <1>8, <1>9, <1>10, <1>15, <1>16, <1>17, <1>18, <1>19, NodeStep DEF Moves

\* An append whose answer is lost keeps the invariant: the next head read finds it.
LEMMA WriteUnheardStep ==
  ASSUME IInv, NEW n \in Nodes, WriteUnheard(n)
  PROVE  IInv'
<1>1. /\ pc[n] = "append" /\ Store!AppendTicks(s(n).grant, s(n).unrecorded) /\ Drop(n) /\ busy' = busy
  BY DEF WriteUnheard
<1>2. Leases /\ Types /\ Announced
  BY DEF IInv
<1>3. /\ MayWrite(n) /\ UNCHANGED <<now, grant, highWater, issued, saved>>
      /\ Shape(entries, head, expectNext, now)' /\ Checkpointed'
      /\ Ticks(entries) \subseteq Ticks(entries')
  BY <1>1, TicksWritten
<1>4. Moves(n) /\ pc'[n] = "out" /\ published' = published
  BY <1>1, <1>2, DropMoves
<1>5. Announced' /\ InTable' /\ busy' \in Nat /\ ~Leads(n)' /\ ~MayWrite(n)' /\ pc'[n] # "resuming"
  BY <1>1, <1>2, <1>3, <1>4 DEF Announced, InTable, Leases, Leads, MayWrite
<1> QED BY <1>3, <1>4, <1>5, NodeStep DEF Moves

-----------------------------------------------------------------------------
(* Checkpointing and taking over *)

\* A saved checkpoint is behind the record: one that leaves no seam owed says
\* the very tick the record ends before, and one that does is never resumed.
LEMMA SaveStep ==
  ASSUME IInv, NEW n \in Nodes, Save(n)
  PROVE  IInv'
<1> DEFINE m == s(n).market
           c == CheckpointMarket(m, s(n).asOf)
           x == [s(n) EXCEPT !.checkpointAt = s(n).asOf]
<1>1. /\ Leads(n) /\ pc[n] = "save" /\ UNCHANGED <<known, busy>>
      /\ Store!Passes(s(n).grant) /\ saved' = c
      /\ UNCHANGED <<now, grant, highWater, issued, entries, head, expectNext>>
      /\ Return(n, x)
  BY DEF Save, Leads, Store!SaveFenced, Store!leaseVars, Store!recordVars
<1>2. /\ Leases /\ Types /\ s(n) \in Sessions /\ Answering(n) /\ Shape(entries, head, expectNext, now)
      /\ Checkpointed /\ Announced
  BY <1>1, SessionFacts DEF IInv
<1>3. MayWrite(n) /\ Holding(n) /\ Located(n) /\ Follows(n)
  BY <1>1, <1>2, PasserMayWrite, SessionFacts
<1>4. /\ m \in Markets /\ m.pending /\ m.last # NoTick /\ s(n).unrecorded = <<>>
      /\ m.drawn \in AnyTick /\ m.last \in AnyTick /\ m.last \in Ticks(entries)
      /\ First(n) = m.drawn /\ m.drawn.sequence \in Int /\ m.drawn.value.epoch \in Int
      /\ m.drawn.sequence >= 1 /\ s(n).asOf \in Int /\ m.pending \in BOOLEAN
  <2>1. m \in Markets /\ m.pending /\ m.last # NoTick /\ s(n).unrecorded = <<>> /\ s(n).asOf \in Int
    BY <1>1, <1>2, <1>3 DEF Located, Sessions
  <2>2. m.drawn \in AnyTick /\ m.last \in AnyTick /\ m.pending \in BOOLEAN
    BY <2>1 DEF Markets
  <2>3. First(n) = m.drawn
    BY <2>1 DEF First, NextUnpublished
  <2>4. m.last \in Ticks(entries)
    BY <1>3, <2>1 DEF Follows
  <2>5. m.drawn.sequence >= 1
    BY <1>3, <2>3 DEF Holding
  <2> QED BY <2>1, <2>2, <2>3, <2>4, <2>5 DEF AnyTick
<1>5. /\ head \in Nat /\ entries \in Seq(Entry) /\ Ticks(entries) \subseteq AnyTick
      /\ MovesForward(entries) /\ entries # <<>>
      /\ \A q \in Ticks(entries) : q.sequence <= head
  <2>1. entries # <<>>
    BY <1>4 DEF Ticks
  <2>2. head \in Nat /\ entries \in Seq(Entry) /\ MovesForward(entries)
        /\ \A q \in Ticks(entries) : q.sequence <= head
    BY <1>2 DEF Shape
  <2> QED BY <2>1, <2>2, TicksAreTicks
<1> HIDE DEF m
<1>6. /\ c \in AnyCheckpoint /\ c # NoCheckpoint /\ c.pending /\ c.last = m.last /\ c.drawn = m.drawn
      /\ c.savedAt = s(n).asOf
  <2>1. c = [savedAt |-> s(n).asOf, drawn |-> m.drawn, pending |-> m.pending, last |-> m.last,
             leased |-> Larger(m.last.sequence, m.drawn.sequence) + SequenceLease]
    BY <1>4 DEF CheckpointMarket
  <2>2. Larger(m.last.sequence, m.drawn.sequence) + SequenceLease \in Int
    BY <1>4, HostedMarketAssumption DEF Larger, AnyTick
  <2>3. c \in AnyCheckpoint /\ c.pending /\ c.last = m.last /\ c.drawn = m.drawn /\ c.savedAt = s(n).asOf
    BY <1>4, <2>1, <2>2 DEF AnyCheckpoint
  <2> QED BY <2>3, NullAssumption
<1> HIDE DEF c
<1>7. /\ EpochBound' = Larger(m.drawn.value.epoch + 1, StartKeyEpoch(now))
      /\ EpochBound' \in Int /\ m.drawn.value.epoch <= EpochBound'
  <2>1. EpochBound' = Larger(m.drawn.value.epoch + 1, StartKeyEpoch(now))
    BY <1>1, <1>6 DEF EpochBound, StartKeyEpochAfter, StartKeyEpoch
  <2>2. StartKeyEpoch(now) \in Int
    BY <1>2, EpochFacts
  <2> QED BY <1>4, <2>1, <2>2 DEF Larger
<1>8. ASSUME Resumable'
      PROVE  ~s(n).owed /\ Replays(entries, head, m.drawn)
  <2>1. m.drawn.sequence = m.last.sequence + 1
    <3>1. UsableRecord(c)
      BY <1>1, <1>8 DEF Resumable
    <3> QED BY <1>4, <1>6, <3>1 DEF UsableRecord
  <2>2. ~s(n).owed
    <3>1. m.last.sequence <= head /\ m.last.sequence \in Int
      BY <1>4, <1>5 DEF AnyTick
    <3> QED BY <1>3, <1>4, <1>5, <2>1, <3>1 DEF Follows
  <2>3. Continues(entries, head, m.drawn) /\ Newest(entries).kind = "tick"
    BY <1>3, <1>4, <1>5, <2>2 DEF Follows
  <2> QED BY <1>5, <2>2, <2>3 DEF Continues
<1>9. ASSUME NEW q \in Ticks(entries)
      PROVE  q.value.epoch <= EpochBound'
  <2>1. q \in AnyTick /\ q.value.epoch \in Int
    BY <1>5 DEF AnyTick
  <2>2. q.value.epoch <= m.drawn.value.epoch
    <3>1. CASE s(n).owed
      BY <1>3, <1>4, <3>1 DEF Follows, Ahead, NoEarlier
    <3>2. CASE ~s(n).owed
      <4>1. Replays(entries, head, m.drawn)
        BY <1>3, <1>4, <1>5, <3>2 DEF Follows, Continues
      <4>2. NoEarlier(q, Newest(entries).tick) /\ Newest(entries).tick = At(m.drawn, head)
        BY <1>5, <4>1, NewestIsLatest DEF Replays
      <4>3. At(m.drawn, head).value.epoch = m.drawn.value.epoch
        <5>1. head \in Int
          BY <1>5
        <5> QED BY <1>4, <5>1, AtIs
      <4> QED BY <4>2, <4>3 DEF NoEarlier
    <3> QED BY <3>1, <3>2
  <2> QED BY <1>4, <1>7, <2>1, <2>2
<1>10. Checkpointed'
  BY <1>1, <1>4, <1>6, <1>8, <1>9 DEF Checkpointed
<1>11. x \in Sessions /\ Alike(x, s(n)) /\ x.answer = s(n).answer
  BY <1>2, <1>4 DEF Sessions, Alike
<1> HIDE DEF x
<1>12. /\ Moves(n) /\ pc'[n] = "idle"
       /\ session'[n] \in Sessions /\ Alike(session'[n], x) /\ session'[n].answer = <<>>
       /\ published' = published \cup Elements(x.answer)
  BY <1>1, <1>2, <1>11, ReturnMoves
<1>13. /\ s(n)' = session'[n] /\ s(n)'.grant = s(n).grant /\ s(n)'.owed = s(n).owed
       /\ s(n)'.unrecorded = s(n).unrecorded /\ s(n)'.market = m
  BY <1>11, <1>12 DEF Alike, s, m
<1>14. Announced'
  BY <1>1, <1>2, <1>11, <1>12 DEF Announced, Answering
<1>15. Answering(n)' /\ Located(n)'
  BY <1>12, <1>13 DEF Answering, Located
<1>16. First(n)' = First(n)
  BY <1>13 DEF First, m
<1>17. Holding(n)'
  BY <1>1, <1>3, <1>13, <1>16 DEF Holding, m
<1>18. Follows(n)'
  <2>1. First(n)'.value.epoch <= EpochBound'
    BY <1>4, <1>7, <1>16
  <2>2. s(n)'.market.last \in Ticks(entries')
    BY <1>1, <1>4, <1>13
  <2>3. IF s(n)'.owed
        THEN entries' # <<>> /\ Ahead(entries', First(n)') /\ First(n)'.sequence >= head' + 2
        ELSE /\ Continues(entries', head', First(n)')
             /\ s(n)'.unrecorded = <<>> => entries' = <<>> \/ Newest(entries').kind = "tick"
    BY <1>1, <1>3, <1>13, <1>16 DEF Follows
  <2>4. Resumable' => ~s(n)'.owed /\ First(n)' = At(saved'.drawn, First(n)'.sequence)
    <3>1. m.drawn = At(m.drawn, m.drawn.sequence)
      BY <1>4, AtFacts
    <3> QED BY <1>1, <1>4, <1>6, <1>8, <1>13, <1>16, <3>1
  <2> QED BY <2>1, <2>2, <2>3, <2>4 DEF Follows
<1>19. Granted(n, s(n).grant)'
  BY <1>1, <1>2, <1>13 DEF Types, Granted
<1>20. /\ InTable' /\ busy' \in Nat /\ UNCHANGED <<now, issued, highWater>>
       /\ Ticks(entries) \subseteq Ticks(entries)' /\ pc'[n] # "resuming"
       /\ Shape(entries, head, expectNext, now)'
  BY <1>1, <1>2, <1>12 DEF InTable, Leases
<1> QED BY <1>3, <1>10, <1>12, <1>13, <1>14, <1>15, <1>17, <1>18, <1>19, <1>20, NodeStep DEF Moves

\* How a market opens for the node with the newest grant: on the tick the
\* record expects, or ahead of all of it with a seam to declare.
LEMMA OpeningFacts ==
  ASSUME Leases, Shape(entries, head, expectNext, now), Checkpointed, Deployed,
         NEW o, o = Opening(saved, NewestTick, now, GenesisInstant)
  PROVE  LET next == NextUnpublished(o.market) IN
         /\ next.sequence >= 1 /\ next.value.epoch <= EpochBound
         /\ \/ o.market.last \in Ticks(entries)
            \/ o.market.last = NoTick /\ entries = <<>> /\ next.value.instant <= now
         /\ IF o.kind = "seam"
            THEN entries # <<>> /\ Ahead(entries, next) /\ next.sequence >= head + 2
            ELSE Continues(entries, head, next) /\ (entries = <<>> \/ Newest(entries).kind = "tick")
         /\ Resumable => o.kind # "seam" /\ next = At(saved.drawn, next.sequence)
<1> DEFINE next == NextUnpublished(o.market)
<1> /\ {Gap, SequenceLease, EpochSpan} \subseteq Nat \ {0} /\ {GenesisGap, SeamGap} \subseteq Nat
    /\ GenesisInstant \in Int /\ GenesisInstant + GenesisGap <= 0
  BY HostedMarketAssumption, FailoverAssumption DEF Deployed
<1>1. /\ now \in Nat /\ head \in Nat /\ entries \in Seq(Entry) /\ Ticks(entries) \subseteq AnyTick
      /\ \A q \in Ticks(entries) : /\ q.sequence <= head /\ q.value.instant <= now
                                   /\ q.value.epoch <= EpochBound
  <2>1. entries \in Seq(Entry)
    BY DEF Shape
  <2> QED BY <2>1, TicksAreTicks DEF Shape, Leases, Checkpointed
<1>2. \A q \in AnyTick : q.sequence \in Int /\ q.value.instant \in Int /\ q.value.epoch \in Int
  BY DEF AnyTick
<1>3. EpochBound \in Int /\ StartKeyEpoch(now) \in Int /\ StartKeyEpoch(now) <= EpochBound
  BY EpochFacts
<1>4. /\ NewestTick \in AnyTick \cup {NoTick} /\ (NewestTick = NoTick => entries = <<>>)
      /\ NewestTick # NoTick => NewestTick \in Ticks(entries) /\ NewestTick.sequence = head /\ entries # <<>>
  BY NewestTickFacts
\* A market seamed at the clock, past a sequence, on the epoch a seam opens.
<1>5. ASSUME NEW q \in Int, q >= head + 1, NEW l, entries # <<>>
      PROVE  LET x == NextUnpublished(Seamed(q, now, EpochBound, l)) IN
             /\ x.sequence >= 1 /\ x.value.epoch <= EpochBound
             /\ Ahead(entries, x) /\ x.sequence >= head + 2
             /\ Seamed(q, now, EpochBound, l).last = l
  <2> DEFINE x == NextUnpublished(Seamed(q, now, EpochBound, l))
  <2>1. /\ x.sequence = q + 1 /\ x.value.instant = now + SeamGap - Gap + 1 * Gap
        /\ x.value.epoch = EpochBound
        /\ Seamed(q, now, EpochBound, l).last = l
    BY DEF NextUnpublished, Seamed, Hosted, EngineAt, Later
  <2> HIDE DEF x
  <2>2. x.value.instant >= now /\ x.value.instant \in Int
    BY <1>1, <2>1
  <2>3. ASSUME NEW r \in Ticks(entries)
        PROVE  r.sequence < x.sequence /\ NoEarlier(r, x)
    <3>1. r.sequence < x.sequence
      BY <1>1, <1>2, <1>5, <2>1
    <3>2. r.value.instant <= x.value.instant /\ r.value.epoch <= x.value.epoch
      BY <1>1, <1>2, <2>1, <2>2
    <3> QED BY <3>1, <3>2 DEF NoEarlier
  <2> QED BY <1>1, <1>3, <1>5, <2>1, <2>3 DEF Ahead, x
<1>6. CASE saved = NoCheckpoint /\ NewestTick = NoTick
  <2>1. o = [kind |-> "fresh", market |-> FreshMarket(GenesisInstant)]
    BY <1>6 DEF Opening
  <2>2. /\ next.sequence = 0 + 1
        /\ next.value.instant = GenesisInstant + GenesisGap - Gap + 1 * Gap
        /\ next.value.epoch = GenesisInstant * EpochSpan
        /\ o.market.last = NoTick
    BY <2>1 DEF FreshMarket, NextUnpublished, Hosted, EngineAt, Later, StartKeyEpoch
  <2>3. entries = <<>> /\ ~Resumable /\ EpochBound = now * EpochSpan
    BY <1>4, <1>6 DEF Resumable, EpochBound, StartKeyEpoch
  <2>4. GenesisInstant * EpochSpan <= now * EpochSpan
    <3>1. GenesisInstant <= now
      BY <1>1
    <3> QED BY <1>1, <3>1
  <2>5. next.value.instant <= now
    BY <1>1, <2>2
  <2> QED BY <2>1, <2>2, <2>3, <2>4, <2>5 DEF Continues
<1>7. CASE saved = NoCheckpoint /\ NewestTick # NoTick
  <2>1. NewestTick \in Ticks(entries) /\ NewestTick.sequence = head /\ NewestTick.value.instant <= now
        /\ NewestTick.value.instant \in Int /\ entries # <<>>
    BY <1>1, <1>2, <1>4, <1>7
  <2>2. Larger(Larger(GenesisInstant, now), NewestTick.value.instant) = now
    BY <1>1, <2>1 DEF Larger
  <2>3. EpochBound = StartKeyEpoch(now) /\ ~Resumable
    BY <1>7 DEF EpochBound, Resumable
  <2>4. o = [kind |-> "seam", market |-> Seamed(head + SequenceLease, now, EpochBound, NewestTick)]
    BY <1>7, <2>1, <2>2, <2>3 DEF Opening, SeamPastRecord
  <2>5. head + SequenceLease \in Int /\ head + SequenceLease >= head + 1
    BY <1>1
  <2> QED BY <1>5, <2>1, <2>3, <2>4, <2>5
<1>8. CASE saved # NoCheckpoint /\ ~Resumable
  <2>1. /\ saved \in AnyCheckpoint /\ saved.last \in Ticks(entries) /\ saved.last # NoTick
        /\ saved.last \in AnyTick /\ saved.leased \in Int /\ entries # <<>>
    <3>1. saved \in AnyCheckpoint /\ saved.last \in Ticks(entries)
      BY <1>8 DEF Checkpointed
    <3>2. entries # <<>>
      BY <3>1 DEF Ticks
    <3> QED BY <1>1, <3>1, <3>2, NullAssumption DEF AnyCheckpoint
  <2>2. NewestTick # NoTick /\ NewestTick.sequence = head /\ NewestTick \in Ticks(entries)
    BY <1>4, <2>1
  <2>3. Larger(saved.last.value.instant, now) = now
    BY <1>1, <1>2, <2>1 DEF Larger
  <2>4. EpochBound = StartKeyEpochAfter(now, saved.drawn.value.epoch)
    BY <1>8 DEF EpochBound
  <2> DEFINE reach == Larger(saved.leased, Larger(saved.last.sequence, head) + SequenceLease)
  <2>5. o = [kind |-> "seam", market |-> Seamed(reach, now, EpochBound, saved.last)]
    BY <1>8, <2>1, <2>2, <2>3, <2>4 DEF Opening, SeamFrom, Resumable
  <2>6. reach \in Int /\ reach >= head + 1
    BY <1>1, <1>2, <2>1 DEF Larger
  <2> HIDE DEF reach
  <2> QED BY <1>5, <1>8, <2>1, <2>5, <2>6
<1>9. CASE Resumable
  <2>1. /\ saved # NoCheckpoint /\ saved \in AnyCheckpoint /\ saved.pending
        /\ saved.last \in Ticks(entries)
        /\ Replays(entries, head, saved.drawn) /\ saved.drawn.sequence >= 1
        /\ saved.drawn \in AnyTick
    BY <1>9 DEF Checkpointed, Resumable, AnyCheckpoint
  <2>2. o = [kind |-> "resumed", market |-> Resumed(saved)]
    BY <1>9, <2>1 DEF Opening, Resumable
  <2>3. next = saved.drawn /\ o.market.last = saved.last
    BY <2>1, <2>2 DEF Resumed, Hosted, NextUnpublished
  <2>4. saved.drawn.value.epoch <= EpochBound
    <3>1. EpochBound = Larger(saved.drawn.value.epoch + 1, StartKeyEpoch(now))
      BY <2>1 DEF EpochBound, StartKeyEpochAfter, StartKeyEpoch
    <3> QED BY <1>2, <1>3, <2>1, <3>1 DEF Larger
  <2>5. saved.drawn = At(saved.drawn, saved.drawn.sequence)
    BY <2>1, AtFacts
  <2>6. Continues(entries, head, saved.drawn) /\ Newest(entries).kind = "tick"
    BY <2>1 DEF Continues, Replays
  <2> QED BY <2>1, <2>2, <2>3, <2>4, <2>5, <2>6
<1>10. Resumable => saved # NoCheckpoint
  BY DEF Resumable
<1> QED BY <1>6, <1>7, <1>8, <1>9, <1>10

\* An engine at any place is a market that has not advanced.
LEMMA EngineIsAMarket ==
  \A q, i, e, g, f \in Int : \A l \in AnyTick \cup {NoTick} :
    Hosted(EngineAt(q, i, e, g), f, FALSE, l) \in Markets
<1>1. SUFFICES ASSUME NEW q \in Int, NEW i \in Int, NEW e \in Int, NEW g \in Int, NEW f \in Int,
                      NEW l \in AnyTick \cup {NoTick}
               PROVE  Hosted(EngineAt(q, i, e, g), f, FALSE, l) \in Markets
  OBVIOUS
<1>2. Gap \in Int
  BY HostedMarketAssumption
<1>3. EngineAt(q, i, e, g) \in AnyTick
  BY <1>2 DEF EngineAt, AnyTick
<1>4. PICK d \in AnyTick : d = EngineAt(q, i, e, g)
  BY <1>3
<1>5. Hosted(d, f, FALSE, l) \in Markets
  BY DEF Hosted, Markets, Never
<1> QED BY <1>4, <1>5

\* The larger of two integers is one of them.
LEMMA LargerIsInt == \A i, j \in Int : Larger(i, j) \in Int
  BY DEF Larger

\* What Opening hosts is a market, whichever way it opened it.
LEMMA OpeningIsAMarket ==
  ASSUME Leases, Checkpointed, Shape(entries, head, expectNext, now),
         NEW p \in AnyTick \cup {NoTick}
  PROVE  /\ Opening(saved, p, now, GenesisInstant).market \in Markets
         /\ Opening(saved, p, now, GenesisInstant).market.last \in AnyTick \cup {NoTick}
<1> DEFINE o == Opening(saved, p, now, GenesisInstant)
<1>1. /\ now \in Int /\ GenesisInstant \in Int /\ GenesisGap \in Int /\ SeamGap \in Int
      /\ EpochSpan \in Int /\ SequenceLease \in Int
  BY HostedMarketAssumption, FailoverAssumption DEF Leases
<1>2. \A q \in AnyTick : q.sequence \in Int /\ q.value.instant \in Int /\ q.value.epoch \in Int
  BY DEF AnyTick
<1>3. \A m \in Markets : m.last \in AnyTick \cup {NoTick}
  BY DEF Markets
<1>4. SUFFICES o.market \in Markets
  BY <1>3
<1>6. saved # NoCheckpoint => /\ saved.last \in AnyTick /\ saved.drawn \in AnyTick /\ saved.leased \in Int
                              /\ saved.pending \in BOOLEAN /\ saved.last # NoTick
  <2>1. SUFFICES ASSUME saved # NoCheckpoint
                 PROVE  /\ saved.last \in AnyTick /\ saved.drawn \in AnyTick /\ saved.leased \in Int
                        /\ saved.pending \in BOOLEAN /\ saved.last # NoTick
    OBVIOUS
  <2>2. saved \in AnyCheckpoint /\ saved.last \in Ticks(entries)
    BY <2>1 DEF Checkpointed
  <2>3. saved.last \in AnyTick
    BY <2>2, TicksAreTicks DEF Shape
  <2> QED BY <2>2, <2>3, NullAssumption DEF AnyCheckpoint
<1>7. CASE saved = NoCheckpoint /\ p = NoTick
  <2>1. o.market = Hosted(EngineAt(0, GenesisInstant, GenesisInstant * EpochSpan, GenesisGap),
                          GenesisInstant, FALSE, NoTick)
    BY <1>7 DEF Opening, FreshMarket, StartKeyEpoch
  <2>2. PICK e \in Int : e = GenesisInstant * EpochSpan
    BY <1>1
  <2>3. PICK z \in Int : z = 0
    OBVIOUS
  <2>4. PICK l \in AnyTick \cup {NoTick} : l = NoTick
    OBVIOUS
  <2>5. Hosted(EngineAt(z, GenesisInstant, e, GenesisGap), GenesisInstant, FALSE, l) \in Markets
    BY <1>1, EngineIsAMarket
  <2> QED BY <2>1, <2>2, <2>3, <2>4, <2>5
<1>8. CASE saved = NoCheckpoint /\ p # NoTick
  <2>1. p \in AnyTick /\ p.value.instant \in Int /\ p.sequence \in Int
    BY <1>2, <1>8
  <2>2. PICK a \in Int : a = p.value.instant
    BY <2>1
  <2>3. PICK c \in Int : c = Larger(GenesisInstant, now)
    BY <1>1, LargerIsInt
  <2>4. PICK i \in Int : i = Larger(c, a)
    BY LargerIsInt
  <2>5. PICK e \in Int : e = i * EpochSpan
    BY <1>1
  <2>6. PICK q \in Int : q = p.sequence + SequenceLease
    BY <1>1, <2>1
  <2>7. o.market = Hosted(EngineAt(q, i, e, SeamGap), i, FALSE, p)
    BY <1>8, <2>2, <2>3, <2>4, <2>5, <2>6 DEF Opening, SeamPastRecord, Seamed, StartKeyEpoch
  <2>8. Hosted(EngineAt(q, i, e, SeamGap), i, FALSE, p) \in Markets
    BY <1>1, EngineIsAMarket
  <2> QED BY <2>7, <2>8
<1>9. CASE saved # NoCheckpoint /\ (~UsableRecord(saved) \/ Stale(saved, now))
  <2>1. PICK l \in AnyTick : l = saved.last
    BY <1>6, <1>9
  <2>2. PICK a \in Int : a = l.value.instant
    BY <1>2
  <2>3. PICK i \in Int : i = Larger(a, now)
    BY <1>1, LargerIsInt
  <2>4. PICK b \in Int : b = saved.drawn.value.epoch + 1
    BY <1>2, <1>6, <1>9
  <2>5. PICK c \in Int : c = i * EpochSpan
    BY <1>1
  <2>6. PICK e \in Int : e = Larger(b, c)
    BY LargerIsInt
  <2>7. PICK u \in Int : u = (IF p = NoTick THEN 0 ELSE p.sequence)
    BY <1>2
  <2>8. PICK v \in Int : v = l.sequence
    BY <1>2
  <2>9. PICK w \in Int : w = Larger(v, u)
    BY LargerIsInt
  <2>10. PICK x \in Int : x = w + SequenceLease
    BY <1>1
  <2>11. PICK y \in Int : y = saved.leased
    BY <1>6, <1>9
  <2>12. PICK q \in Int : q = Larger(y, x)
    BY LargerIsInt
  <2>13. o.market = SeamFrom(saved, p, now, GenesisInstant)
    BY <1>9 DEF Opening
  <2>14. o.market = Hosted(EngineAt(q, i, e, SeamGap), i, FALSE, l)
    BY <1>6, <1>9, <2>1, <2>2, <2>3, <2>4, <2>5, <2>6, <2>7, <2>8, <2>9, <2>10, <2>11, <2>12, <2>13
       DEF SeamFrom, Seamed, StartKeyEpochAfter
  <2>15. Hosted(EngineAt(q, i, e, SeamGap), i, FALSE, l) \in Markets
    BY <1>1, EngineIsAMarket
  <2> QED BY <2>14, <2>15
<1>10. CASE saved # NoCheckpoint /\ ~(~UsableRecord(saved) \/ Stale(saved, now))
  <2>1. o.market = [drawn |-> saved.drawn, floor |-> saved.drawn.value.instant,
                    pending |-> saved.pending, last |-> saved.last, advancedAt |-> -1]
    BY <1>10 DEF Opening, Resumed, Hosted, Never
  <2>2. PICK d \in AnyTick : d = saved.drawn
    BY <1>6, <1>10
  <2>3. PICK f \in Int : f = d.value.instant
    BY <1>2
  <2>4. PICK l \in AnyTick : l = saved.last
    BY <1>6, <1>10
  <2>5. PICK g \in BOOLEAN : g = saved.pending
    BY <1>6, <1>10
  <2>6. [drawn |-> d, floor |-> f, pending |-> g, last |-> l, advancedAt |-> -1] \in Markets
    BY DEF Markets
  <2> QED BY <2>1, <2>2, <2>3, <2>4, <2>5, <2>6
<1> QED BY <1>7, <1>8, <1>9, <1>10

\* Opening a market keeps the invariant: it continues the record or owes a seam past it.
LEMMA ResumeStep ==
  ASSUME IInv, Deployed, NEW n \in Nodes, Resume(n)
  PROVE  IInv'
<1> DEFINE o == Opening(saved, known[n], now, GenesisInstant)
           m == o.market
           x == NewSession(MyGrant(n), m, o.kind = "seam")
<1>1. /\ pc[n] = "resuming" /\ Goto(n, "idle", x) /\ known' = [known EXCEPT ![n] = NoTick]
      /\ UNCHANGED <<now, grant, highWater, entries, head, expectNext, saved, issued, busy>>
  BY DEF Resume, storeVars
<1>2. /\ Leases /\ Types /\ Shape(entries, head, expectNext, now) /\ Checkpointed /\ Announced /\ Node(n)
  BY DEF IInv
<1>3. known[n] \in AnyTick \cup {NoTick}
  BY <1>2 DEF Types
<1>4. m \in Markets /\ m.last \in AnyTick \cup {NoTick}
  BY <1>2, <1>3, OpeningIsAMarket
<1>5. Granted(n, MyGrant(n)) /\ MyGrant(n) \in Nat
  <2>1. PICK i \in DOMAIN issued : Granted(n, i) /\ \A j \in DOMAIN issued : Granted(n, j) => j <= i
    BY <1>1, <1>2 DEF Types
  <2>2. \E k \in DOMAIN issued : /\ issued[k].holder = n
                                 /\ \A j \in DOMAIN issued : issued[j].holder = n => j <= k
    BY <2>1 DEF Granted
  <2>3. MyGrant(n) \in DOMAIN issued /\ issued[MyGrant(n)].holder = n
    BY <2>2 DEF MyGrant
  <2>4. DOMAIN issued \subseteq Nat
    BY <1>2 DEF Leases
  <2> QED BY <2>3, <2>4 DEF Granted
<1>6. o.kind \in {"fresh", "seam", "resumed"}
  BY DEF Opening
<1>7. /\ x \in Sessions /\ x.grant = MyGrant(n) /\ x.market = m /\ x.unrecorded = <<>>
      /\ x.answer = <<>> /\ (x.owed <=> o.kind = "seam")
  <2>1. PICK w \in BOOLEAN : w = (o.kind = "seam")
    OBVIOUS
  <2>2. x = [grant |-> MyGrant(n), market |-> m, owed |-> w, unrecorded |-> <<>>, failures |-> 0,
             checkpointAt |-> -1, told |-> m.last, asOf |-> -1, onDemand |-> FALSE, answer |-> <<>>,
             seam |-> NoTick]
    BY <2>1 DEF NewSession, Never
  <2>3. <<>> \in Seq(AnyTick) /\ 0 \in Int /\ -1 \in Int
    OBVIOUS
  <2> HIDE DEF m, x
  <2>4. x \in Sessions
    BY <1>4, <1>5, <2>2, <2>3 DEF Sessions
  <2> QED BY <2>1, <2>2, <2>4
<1> HIDE DEF x
<1>8. /\ pc' \in [Nodes -> Locations] /\ session' = [k \in Nodes |-> session'[k]]
      /\ known' \in [Nodes -> AnyTick \cup {NoTick}]
      /\ pc'[n] = "idle" /\ session'[n] = x /\ s(n)' = x /\ published' = published
      /\ \A k \in Nodes \ {n} : pc'[k] = pc[k] /\ session'[k] = session[k] /\ known'[k] = known[k]
  BY <1>1, <1>2 DEF Types, Goto, Locations, s
<1>9. Shape(entries, head, expectNext, now)' /\ Announced' /\ Ticks(entries)' = Ticks(entries)
  BY <1>1, <1>2, <1>8 DEF Announced
<1>10. EpochBound' = EpochBound /\ Resumable' = Resumable
  BY <1>1 DEF EpochBound, Resumable
<1>11. Checkpointed'
  BY <1>1, <1>2, <1>10 DEF Checkpointed
<1>12. Granted(n, s(n).grant)' /\ Answering(n)' /\ Located(n)'
  BY <1>1, <1>5, <1>7, <1>8 DEF Granted, Answering, Located
<1>13. ASSUME MayWrite(n)'
       PROVE  Holding(n)' /\ Follows(n)'
  <2>1. MyGrant(n) = Len(issued) /\ issued # <<>> /\ issued[Len(issued)].holder = n
    BY <1>1, <1>2, <1>5, <1>7, <1>8, <1>13 DEF MayWrite, Granted, Leases
  <2>2. known[n] = NewestTick
    BY <1>1, <1>2, <2>1 DEF Node, Opens
  <2> DEFINE next == NextUnpublished(m)
  <2>3. /\ next.sequence >= 1 /\ next.value.epoch <= EpochBound
        /\ \/ m.last \in Ticks(entries)
           \/ m.last = NoTick /\ entries = <<>> /\ next.value.instant <= now
        /\ IF o.kind = "seam"
           THEN entries # <<>> /\ Ahead(entries, next) /\ next.sequence >= head + 2
           ELSE Continues(entries, head, next) /\ (entries = <<>> \/ Newest(entries).kind = "tick")
        /\ Resumable => o.kind # "seam" /\ next = At(saved.drawn, next.sequence)
    BY <1>2, <2>2, OpeningFacts
  <2>4. First(n)' = next
    BY <1>7, <1>8 DEF First
  <2>5. next \in AnyTick
    BY <1>4, <1>7, <1>8, LaterFacts DEF NextUnpublished, Markets
  <2>6. s(n)'.market = m /\ s(n)'.unrecorded = <<>> /\ (s(n)'.owed <=> o.kind = "seam")
    BY <1>7, <1>8
  <2>7. NextUnpublished(s(n)'.market) = next
    BY <2>6
  <2> HIDE DEF next, m, o
  <2>8. Later(next, 0) = next
    BY <2>5, LaterFacts
  <2>9. Holding(n)'
    BY <2>3, <2>4, <2>6, <2>7, <2>8 DEF Holding
  <2>10. Follows(n)'
    BY <1>1, <1>10, <2>3, <2>4, <2>6 DEF Follows
  <2> QED BY <2>9, <2>10
<1>14. /\ InTable' /\ busy' \in Nat /\ UNCHANGED <<now, issued, highWater>>
       /\ Ticks(entries) \subseteq Ticks(entries)' /\ pc'[n] # "resuming"
       /\ UNCHANGED <<entries, head, saved>>
  BY <1>1, <1>2, <1>8 DEF InTable, Leases
<1> QED BY <1>7, <1>8, <1>9, <1>11, <1>12, <1>13, <1>14, NodeStep

-----------------------------------------------------------------------------
(* The theorems *)

\* Every step keeps the invariant.
LEMMA NextHolds ==
  ASSUME IInv, Deployed, [Next]_vars
  PROVE  IInv'
<1>1. CASE Tick
  BY <1>1, TickStep
<1>2. ASSUME NEW n \in Nodes, Step(n)
      PROVE  IInv'
  BY <1>2, ResumeStep, RenewStep, GenerateStep, RefuseToCatchUpStep, ReadHeadStep, WriteSeamStep,
     WriteTicksStep, FenceRefusesRecordStep, RecordRefusesStep, StepAsideStep, SaveStep,
     FenceRefusesSaveStep DEF Step
<1>3. ASSUME NEW n \in Nodes,
             \/ TakeOver(n) \/ StoreBusy(n) \/ CheckpointNow(n) \/ HandOver(n)
             \/ WriteUnheard(n) \/ Crash(n)
      PROVE  IInv'
  BY <1>3, TakeOverStep, StoreBusyStep, CheckpointNowStep, HandOverStep, WriteUnheardStep, CrashStep
<1>4. CASE UNCHANGED vars
  <2>1. UNCHANGED <<now, grant, highWater, entries, head, expectNext, saved, issued, pc, session, known,
                    busy, published>>
    BY <1>4 DEF vars, storeVars, nodeVars
  <2>2. Leases' /\ Types' /\ Announced' /\ Shape(entries, head, expectNext, now)'
    BY <2>1 DEF IInv, Leases, InTable, Types, Leads, Granted, Announced, s
  <2>3. Checkpointed'
    BY <2>1 DEF IInv, Checkpointed, EpochBound, Resumable
  <2>4. ASSUME NEW n \in Nodes
        PROVE  Node(n)'
    <3>1. Node(n)
      BY DEF IInv
    <3>2. First(n)' = First(n) /\ EpochBound' = EpochBound /\ Resumable' = Resumable /\ s(n)' = s(n)
          /\ NewestTick' = NewestTick
      BY <2>1 DEF First, EpochBound, Resumable, s, NewestTick
    <3>3. Leads(n)' = Leads(n) /\ MayWrite(n)' = MayWrite(n)
      BY <2>1, <3>2 DEF Leads, MayWrite
    <3>4. Answering(n)' = Answering(n) /\ Opens(n)' = Opens(n)
      BY <2>1, <3>2 DEF Answering, Opens
    <3>5. Holding(n)' = Holding(n) /\ Located(n)' = Located(n) /\ Follows(n)' = Follows(n)
      BY <2>1, <3>2 DEF Holding, Located, Follows
    <3> QED BY <3>1, <3>3, <3>4, <3>5 DEF Node
  <2> QED BY <2>2, <2>3, <2>4 DEF IInv
<1> QED BY <1>1, <1>2, <1>3, <1>4 DEF Next

\* The invariant every behaviour keeps: tokens count the grants, the record
\* moves forward, the checkpoint is behind it, and the session with the newest
\* grant continues the record or owes it a seam (failover.ts takeOver, advance
\* and checkpoint over lease.ts).
THEOREM Inductive ==
  ASSUME Deployed
  PROVE  Spec => []IInv
<1>1. Init => IInv
  BY InitHolds
<1>2. IInv /\ [Next]_vars => IInv'
  BY NextHolds
<1> QED BY <1>1, <1>2, PTL DEF Spec

\* The record leads the checkpoint: what a checkpoint says was published is in
\* the record, whatever was refused, lost or taken over in between
\* (failover.ts 125-128).
THEOREM RecordLeads ==
  ASSUME Deployed
  PROVE  Spec => []RecordLeadsCheckpoint
<1>1. IInv => RecordLeadsCheckpoint
  <2>1. SUFFICES ASSUME IInv, saved # NoCheckpoint
                 PROVE  \E k \in DOMAIN entries : entries[k] = [kind |-> "tick", tick |-> saved.last]
    BY DEF RecordLeadsCheckpoint
  <2>2. saved.last \in Ticks(entries) /\ entries \in Seq(Entry)
    BY <2>1 DEF IInv, Checkpointed, Shape
  <2>3. PICK k \in DOMAIN entries : entries[k].kind = "tick" /\ entries[k].tick = saved.last
    BY <2>2 DEF Ticks
  <2> QED BY <2>2, <2>3, TicksAreTicks
<1> QED BY <1>1, Inductive, PTL

\* A discontinuity is recorded, never inferred: recorded ticks with no seam
\* between them are consecutive ticks of one stream, and time and key epoch
\* only move forward (failover.ts #recordPendingSeam, resume.ts).
THEOREM DiscontinuitiesAreRecorded ==
  ASSUME Deployed
  PROVE  Spec => []DiscontinuityIsRecorded
<1>1. IInv => DiscontinuityIsRecorded
  BY DEF IInv, Shape, MovesForward, NoEarlier, DiscontinuityIsRecorded
<1> QED BY <1>1, Inductive, PTL

\* No leader is wedged: while a session leads, the record takes the seam or
\* the ticks it has to write, however its predecessors ended
\* (failover.ts 125-128).
THEOREM NoLeaderIsWedged ==
  ASSUME Deployed
  PROVE  Spec => []LeadersAreNotWedged
<1>1. IInv => LeadersAreNotWedged
  <2>1. SUFFICES ASSUME IInv, NEW n \in Nodes, pc[n] \in {"seam", "append"}, Store!Passes(s(n).grant)
                 PROVE  IF pc[n] = "seam" THEN Store!Seamable(s(n).seam)
                        ELSE \E k \in 0..Len(s(n).unrecorded) : Store!Splits(s(n).unrecorded, k)
    BY DEF LeadersAreNotWedged
  <2>2. Leads(n)
    BY <2>1 DEF Leads
  <2> QED BY <2>1, <2>2, NotWedged
<1> QED BY <1>1, Inductive, PTL

\* While the store rejects nothing, no number stands for two ticks: what any
\* leaders handed to their observers or wrote to the record at one sequence is
\* one tick (resume.ts 549-562, failover.test.ts "never lets the record hold
\* two ticks at one sequence").
THEOREM NumbersNameOneTick ==
  ASSUME Deployed
  PROVE  Spec => [](busy = 0 => OneTickPerSequence)
<1>1. IInv => (busy = 0 => OneTickPerSequence)
  <2>1. SUFFICES ASSUME IInv, busy = 0
                 PROVE  OneTickPerSequence
    OBVIOUS
  <2>2. published \subseteq Ticks(entries) /\ entries \in Seq(Entry) /\ MovesForward(entries)
    BY <2>1 DEF IInv, Announced, Shape
  <2>3. SUFFICES ASSUME NEW t \in Ticks(entries), NEW u \in Ticks(entries), t.sequence = u.sequence
                 PROVE  t = u
    BY <2>2 DEF OneTickPerSequence, Ticks
  <2>4. PICK j \in DOMAIN entries, k \in DOMAIN entries :
          entries[j].kind = "tick" /\ t = entries[j].tick /\ entries[k].kind = "tick" /\ u = entries[k].tick
    BY DEF Ticks
  <2>5. t.sequence \in Int /\ j \in Int /\ k \in Int
    BY <2>2, TicksAreTicks DEF AnyTick
  <2>6. ~(j < k) /\ ~(k < j)
    BY <2>2, <2>3, <2>4, <2>5 DEF MovesForward
  <2> QED BY <2>4, <2>5, <2>6
<1> QED BY <1>1, Inductive, PTL
=============================================================================
