--------------------------- MODULE FollowerProofs ---------------------------
(***************************************************************************)
(* What a follower guarantees for every set of followers, every size of    *)
(* its window, every limit of a read and every length of the record.       *)
(*                                                                         *)
(* Behind every theorem is one fact: a follower stands at a place in the   *)
(* record, and each of its fields is a function of the record up to there  *)
(* and of how much of it was evicted.  Applying an entry moves the place   *)
(* by one, evicting does not move it, and a read from `expectNext` begins  *)
(* just past it.                                                           *)
(*                                                                         *)
(* After it, what the other readers of a record are told, which shares no  *)
(* state with followers: brokers, who settle contracts (Settlement), for   *)
(* every lattice, bound, retention and length of the record.               *)
(***************************************************************************)
EXTENDS Follower, Settlement, SequenceTheorems, WellFoundedInduction, TLAPS

\* What the proofs assume of the deployment, each of which a run of Follower.tla
\* shows to be needed: a new leader writes a tick after its seam before it may
\* be replaced, none was replaced before the first tick, and a follower's caller
\* awaits one pull before the next.
Deployed == ~SeamUponSeam /\ ~SeamFirst /\ MaxInFlight = 1

-----------------------------------------------------------------------------
(* The inductive invariant *)

TickType == [sequence : Nat, instant : Nat]
SeamType == [lastSequence : Nat, closed : Nat, resumesAt : Nat, opens : Nat]
Entry == [kind : {"tick"}, tick : TickType] \cup [kind : {"seam"}, seam : SeamType]

\* The instants an entry stands between.
Opens(e)  == IF e.kind = "tick" THEN e.tick.instant ELSE e.seam.closed
Closes(e) == IF e.kind = "tick" THEN e.tick.instant ELSE e.seam.opens

\* An entry by itself.
Sound(e) ==
  /\ e \in Entry
  /\ EntrySequence(e) > 0
  /\ e.kind = "seam" => EntrySequence(e) < Concerns(e)
  /\ Opens(e) <= Closes(e)

\* An entry and the next.
Adjoins(d, e) ==
  IF e.kind = "tick"
  THEN /\ e.tick.sequence = NextAfter(d)
       /\ e.tick.instant = IF d.kind = "tick" THEN d.tick.instant + 1 ELSE d.seam.opens
  ELSE /\ d.kind = "tick"
       /\ e.seam.lastSequence = d.tick.sequence
       /\ e.seam.closed = d.tick.instant

\* An entry and any later one.
Precedes(d, e) ==
  /\ EntrySequence(d) < EntrySequence(e)
  /\ Concerns(d) <= Concerns(e)
  /\ Closes(d) <= Opens(e)

\* A record.
RecordInv(es) ==
  /\ es \in Seq(Entry)
  /\ \A k \in 1..Len(es) : Sound(es[k])
  /\ es # <<>> => es[1].kind = "tick" /\ es[1].tick.sequence = 1
  /\ \A k \in 1..Len(es) : k > 1 => Adjoins(es[k - 1], es[k])
  /\ \A j, k \in 1..Len(es) : j < k => Precedes(es[j], es[k])

\* The ticks a follower retains: those of the record up to its place, from one on.
HistoryFits(history, es, place) ==
  /\ history \in Seq(TickType)
  /\ \A i, j \in 1..Len(history) : i < j => history[i].sequence < history[j].sequence
  /\ \A i \in 1..Len(history) :
       \E k \in 1..place : es[k].kind = "tick" /\ es[k].tick = history[i]
  /\ \A k \in 1..place : es[k].kind = "tick" =>
       /\ history # <<>>
       /\ es[k].tick.sequence >= history[1].sequence => \E i \in 1..Len(history) : history[i] = es[k].tick

\* The entries it retains: those up to its place, but for some that concern no
\* tick it retains.
EntriesFit(entries, history, es, place) ==
  \E d \in 0..place :
    /\ entries = SubSeq(es, d + 1, place)
    /\ \A k \in 1..d : history # <<>> /\ Concerns(es[k]) < history[1].sequence

\* A follower at a place in a record.
Fits(x, es, place) ==
  /\ x \in [entries : Seq(Entry), history : Seq(TickType), head : Nat, expectNext : Nat,
            seams : SUBSET SeamType]
  /\ x.head = IF place = 0 THEN 0 ELSE HeadAfter(es[place])
  /\ x.expectNext = IF place = 0 THEN 0 ELSE NextAfter(es[place])
  /\ HistoryFits(x.history, es, place)
  /\ EntriesFit(x.entries, x.history, es, place)
  /\ \A k \in 1..place : es[k].kind = "seam" => es[k].seam \in x.seams
  /\ \A seam \in x.seams : \E k \in 1..place : es[k].kind = "seam" /\ es[k].seam = seam

\* What was read and is not yet applied begins just past the place.
ReadingFits(batches, es, place) ==
  \/ batches = <<>>
  \/ \E n \in 1..ReadLimit : place + n <= Len(es) /\ batches = <<SubSeq(es, place + 1, place + n)>>

\* A follower's place is how much it has taken.
FollowerInv(f) ==
  \E place \in 0..Len(record) :
    /\ taken[f] = SubSeq(record, 1, place)
    /\ Fits(follower[f], record, place)
    /\ Len(follower[f].history) <= RetainTicks
    /\ ReadingFits(reading[f], record, place)

FollowersInv ==
  /\ DOMAIN follower = Followers /\ DOMAIN reading = Followers /\ DOMAIN taken = Followers
  /\ \A f \in Followers : FollowerInv(f)

IInv == RecordInv(record) /\ FollowersInv

-----------------------------------------------------------------------------
(* Sequences, induction and the binary search of replication.ts            *)

\* Sequences with the same elements at the same places are the same.
LEMMA SameSequence ==
  ASSUME NEW S, NEW s \in Seq(S), NEW t \in Seq(S), Len(s) = Len(t), \A i \in 1..Len(s) : s[i] = t[i]
  PROVE  s = t
<1>1. DOMAIN s = 1..Len(s) /\ DOMAIN t = 1..Len(t)
  OBVIOUS
<1>2. s = [i \in 1..Len(s) |-> s[i]] /\ t = [i \in 1..Len(t) |-> t[i]]
  OBVIOUS
<1> QED BY <1>1, <1>2, Zenon

\* What lies between two places of a sequence.
LEMMA Segment ==
  ASSUME NEW S, NEW s \in Seq(S), NEW a \in Nat, NEW b \in Nat, a <= b, b <= Len(s)
  PROVE  /\ SubSeq(s, a + 1, b) \in Seq(S) /\ Len(SubSeq(s, a + 1, b)) = b - a
         /\ \A i \in 1..(b - a) : SubSeq(s, a + 1, b)[i] = s[a + i] /\ a + i \in 1..Len(s)
<1>1. PICK n \in Nat : n = Len(s)
  OBVIOUS
<1>2. PICK c \in Nat : c = b - a /\ b - (a + 1) + 1 = c
  OBVIOUS
<1>3. PICK t : t = SubSeq(s, a + 1, b)
  OBVIOUS
<1>4. \A i \in 1..c : a + i \in 1..n /\ (a + 1) + i - 1 = a + i
  BY <1>1, <1>2
<1>5. t \in Seq(S) /\ Len(t) = c
  BY <1>1, <1>2, <1>3
<1>6. \A i \in 1..c : t[i] = s[a + i]
  BY <1>1, <1>2, <1>3, <1>4
<1> QED BY <1>1, <1>2, <1>3, <1>4, <1>5, <1>6

\* A segment of a segment.
LEMMA SegmentOfSegment ==
  ASSUME NEW S, NEW s \in Seq(S), NEW a \in Nat, NEW b \in Nat, NEW c \in Nat,
         a + c <= b, b <= Len(s)
  PROVE  SubSeq(SubSeq(s, a + 1, b), c + 1, b - a) = SubSeq(s, a + c + 1, b)
<1>1. PICK t : t = SubSeq(s, a + 1, b) /\ t \in Seq(S) /\ Len(t) = b - a /\ \A i \in 1..(b - a) : t[i] = s[a + i]
  <2>1. s \in Seq(S) /\ a \in Nat /\ b \in Nat /\ a <= b /\ b <= Len(s)
    OBVIOUS
  <2>2. /\ SubSeq(s, a + 1, b) \in Seq(S) /\ Len(SubSeq(s, a + 1, b)) = b - a
        /\ \A i \in 1..(b - a) : SubSeq(s, a + 1, b)[i] = s[a + i]
    BY <2>1, Segment
  <2> QED BY <2>2, Zenon
<1>2. PICK m \in Nat : m = b - a /\ c <= m
  OBVIOUS
<1>3. PICK d \in Nat : d = a + c /\ b - d = m - c /\ d <= b
  BY <1>2
<1>4. PICK u : u = SubSeq(t, c + 1, m) /\ u \in Seq(S) /\ Len(u) = m - c /\ \A i \in 1..(m - c) : u[i] = t[c + i]
  <2>1. t \in Seq(S) /\ c \in Nat /\ m \in Nat /\ c <= m /\ m <= Len(t)
    BY <1>1, <1>2
  <2>2. /\ SubSeq(t, c + 1, m) \in Seq(S) /\ Len(SubSeq(t, c + 1, m)) = m - c
        /\ \A i \in 1..(m - c) : SubSeq(t, c + 1, m)[i] = t[c + i]
    BY <2>1, Segment
  <2> QED BY <2>2, Zenon
<1>5. PICK v : v = SubSeq(s, d + 1, b) /\ v \in Seq(S) /\ Len(v) = b - d /\ \A i \in 1..(b - d) : v[i] = s[d + i]
  <2>1. s \in Seq(S) /\ d \in Nat /\ b \in Nat /\ d <= b /\ b <= Len(s)
    BY <1>1, <1>2, <1>3
  <2>2. /\ SubSeq(s, d + 1, b) \in Seq(S) /\ Len(SubSeq(s, d + 1, b)) = b - d
        /\ \A i \in 1..(b - d) : SubSeq(s, d + 1, b)[i] = s[d + i]
    BY <2>1, Segment
  <2> QED BY <2>2, Zenon
<1>6. ASSUME NEW i \in 1..(m - c) PROVE u[i] = v[i]
  <2>1. c + i \in 1..m /\ d + i = a + (c + i)
    BY <1>2, <1>3
  <2> QED BY <1>1, <1>2, <1>3, <1>4, <1>5, <2>1
<1>7. u = v
  BY <1>3, <1>4, <1>5, <1>6, SameSequence
<1> QED BY <1>1, <1>2, <1>3, <1>4, <1>5, <1>7

\* Two sequences, one after the other.
LEMMA Joined ==
  ASSUME NEW S, NEW s \in Seq(S), NEW t \in Seq(S)
  PROVE  /\ s \o t \in Seq(S) /\ Len(s \o t) = Len(s) + Len(t)
         /\ \A k \in 1..(Len(s) + Len(t)) : (s \o t)[k] = IF k <= Len(s) THEN s[k] ELSE t[k - Len(s)]
OBVIOUS

\* A set of naturals has a least one.
LEMMA LeastNatural ==
  ASSUME NEW T, T \subseteq Nat, T # {}
  PROVE  \E x \in T : \A y \in T : x <= y
<1> DEFINE R == {ss \in Nat \X Nat : ss[1] < ss[2]}
<1>1. IsWellFoundedOn(R, Nat)
  BY NatLessThanWellFounded DEF OpToRel
<1>2. PICK x \in T : \A y \in T : ~(<<y, x>> \in R)
  <2> HIDE DEF R
  <2> QED BY <1>1, WFMin
<1>3. ASSUME NEW y \in T PROVE x <= y
  <2>1. x \in Nat /\ y \in Nat
    OBVIOUS
  <2>2. ~(<<y, x>> \in R)
    BY <1>2
  <2> QED BY <2>1, <2>2
<1> QED BY <1>3

\* Induction, of a set.
LEMMA Induction ==
  ASSUME NEW T, 0 \in T, \A n \in Nat : n \in T => n + 1 \in T
  PROVE  Nat \subseteq T
<1> SUFFICES ASSUME Nat \ T # {} PROVE FALSE
  OBVIOUS
<1>1. PICK m \in Nat \ T : \A y \in Nat \ T : m <= y
  BY LeastNatural
<1>2. m - 1 \in Nat /\ m - 1 \in T
  BY <1>1
<1> QED BY <1>1, <1>2

\* A set of places has a last one.
LEMMA GreatestPlace ==
  ASSUME NEW n \in Nat, NEW T, T \subseteq 1..n, T # {}
  PROVE  \E k \in T : \A j \in T : j <= k
<1> DEFINE U == {n - k : k \in T}
<1>1. U \subseteq Nat /\ U # {}
  <2>1. ASSUME NEW k \in T PROVE n - k \in Nat
    <3>1. k \in 1..n
      OBVIOUS
    <3> QED BY <3>1
  <2>2. PICK k \in T : TRUE
    OBVIOUS
  <2>3. n - k \in U
    OBVIOUS
  <2> QED BY <2>1, <2>3
<1>2. PICK u \in U : \A v \in U : u <= v
  <2> HIDE DEF U
  <2> QED BY <1>1, LeastNatural
<1>3. PICK k \in T : u = n - k
  OBVIOUS
<1>4. ASSUME NEW j \in T PROVE j <= k
  <2>1. n - j \in U
    OBVIOUS
  <2>2. u <= n - j
    BY <1>2, <2>1
  <2>3. j \in Int /\ k \in Int
    OBVIOUS
  <2> QED BY <1>3, <2>2, <2>3
<1> QED BY <1>4

\* The halves of a window lie in it and are narrower.
LEMMA Halves ==
  ASSUME NEW N \in Nat, NEW low \in 0..N, NEW high \in 0..N, low < high,
         NEW m, m = (low + high) \div 2
  PROVE  m \in 0..N /\ m + 1 \in 0..N /\ low <= m /\ m < high
OBVIOUS

\* The search LowerBound defines is a function: each window's value is that of a
\* narrower one.
LEMMA SearchEnds ==
  ASSUME NEW es, NEW s, NEW N \in Nat, N = Len(es)
  PROVE  \E g : g = [w \in Windows(es) |->
            IF w.low >= w.high THEN w.low
            ELSE LET middle == (w.low + w.high) \div 2 IN
                 IF EntrySequence(es[middle + 1]) < s
                   THEN g[[low |-> middle + 1, high |-> w.high]]
                   ELSE g[[low |-> w.low, high |-> middle]]]
<1> DEFINE W == [low : 0..N, high : 0..N]
           Low(w, m)  == [low |-> w.low, high |-> m]
           High(w, m) == [low |-> m + 1, high |-> w.high]
           Half(w) == (w.low + w.high) \div 2
           Body(g, w) == IF w.low >= w.high THEN w.low
                         ELSE IF EntrySequence(es[Half(w) + 1]) < s
                              THEN g[High(w, Half(w))] ELSE g[Low(w, Half(w))]
           T == {d \in Nat : \E g \in [W -> Int] :
                   \A w \in W : w.high - w.low <= d => g[w] = Body(g, w)}
<1>0. W = Windows(es)
  BY DEF Windows
<1>h. ASSUME NEW w \in W, ~(w.low >= w.high)
      PROVE  /\ Low(w, Half(w)) \in W /\ High(w, Half(w)) \in W
             /\ Low(w, Half(w)).high - Low(w, Half(w)).low < w.high - w.low
             /\ High(w, Half(w)).high - High(w, Half(w)).low < w.high - w.low
  <2>1. PICK l \in 0..N, h \in 0..N : w = [low |-> l, high |-> h]
    OBVIOUS
  <2>2. PICK m \in 0..N : m = (l + h) \div 2 /\ m + 1 \in 0..N /\ l <= m /\ m < h
    BY <1>h, <2>1, Halves
  <2>3. Low(w, Half(w)) = [low |-> l, high |-> m] /\ High(w, Half(w)) = [low |-> m + 1, high |-> h]
    BY <2>1, <2>2
  <2> QED BY <2>1, <2>2, <2>3
<1>1. 0 \in T
  <2> DEFINE g == [w \in W |-> w.low]
  <2>1. g \in [W -> Int]
    OBVIOUS
  <2>2. ASSUME NEW w \in W, w.high - w.low <= 0 PROVE g[w] = Body(g, w)
    <3>1. w.low >= w.high
      BY <2>2
    <3> QED BY <3>1
  <2> HIDE DEF g, Body, W
  <2> QED BY <2>1, <2>2
<1>2. ASSUME NEW d \in Nat, d \in T PROVE d + 1 \in T
  <2>1. PICK g \in [W -> Int] : \A w \in W : w.high - w.low <= d => g[w] = Body(g, w)
    BY <1>2
  <2> DEFINE h == [w \in W |-> IF w.high - w.low <= d THEN g[w] ELSE Body(g, w)]
  <2>2. ASSUME NEW w \in W PROVE Body(g, w) \in Int
    <3>1. CASE w.low >= w.high
      BY <3>1
    <3>2. CASE ~(w.low >= w.high)
      <4>1. g[Low(w, Half(w))] \in Int /\ g[High(w, Half(w))] \in Int
        <5> HIDE DEF W, Low, High, Half
        <5> QED BY <1>h, <3>2
      <4> HIDE DEF W, Low, High, Half
      <4> QED BY <3>2, <4>1
    <3> QED BY <3>1, <3>2
  <2>3. h \in [W -> Int]
    <3> HIDE DEF W, Body
    <3> QED BY <2>2
  <2>4. ASSUME NEW w \in W, w.high - w.low <= d + 1 PROVE h[w] = Body(h, w)
    <3>0. h[w] = Body(g, w)
      <4> HIDE DEF W, Body
      <4> QED BY <2>1
    <3>1. CASE w.low >= w.high
      BY <3>0, <3>1
    <3>2. CASE ~(w.low >= w.high)
      <4> DEFINE lo == Low(w, Half(w))
                 hi == High(w, Half(w))
      <4>1. lo \in W /\ hi \in W /\ lo.high - lo.low < w.high - w.low /\ hi.high - hi.low < w.high - w.low
        <5> HIDE DEF W, Low, High, Half
        <5> QED BY <1>h, <3>2
      <4>2. w.high \in Int /\ w.low \in Int /\ lo.high \in Int /\ lo.low \in Int /\ hi.high \in Int /\ hi.low \in Int
        <5> HIDE DEF lo, hi
        <5> QED BY <4>1
      <4>3. lo.high - lo.low <= d /\ hi.high - hi.low <= d
        <5> HIDE DEF lo, hi
        <5> QED BY <4>1, <4>2, <2>4
      <4>4. h[lo] = g[lo] /\ h[hi] = g[hi]
        <5> HIDE DEF lo, hi, W, Body
        <5> QED BY <4>1, <4>3
      <4> HIDE DEF h, W, Low, High, Half
      <4> QED BY <3>0, <3>2, <4>4
    <3> QED BY <3>1, <3>2
  <2> HIDE DEF h, Body, W
  <2> QED BY <2>3, <2>4
<1>3. N \in T
  <2> HIDE DEF T
  <2> QED BY <1>1, <1>2, Induction
<1>4. PICK g \in [W -> Int] : \A w \in W : w.high - w.low <= N => g[w] = Body(g, w)
  BY <1>3
<1>5. \A w \in W : w.high - w.low <= N
  OBVIOUS
<1>6. g = [w \in W |-> Body(g, w)]
  <2> HIDE DEF W, Body
  <2> QED BY <1>4, <1>5
<1> QED BY <1>0, <1>6

\* What the search returns splits a record whose entries are in order: those
\* before s, and the rest.
LEMMA SearchSplits ==
  ASSUME NEW es, NEW N \in Nat, N = Len(es), NEW s \in Int,
         \A k \in 1..N : EntrySequence(es[k]) \in Int,
         \A j, k \in 1..N : j < k => EntrySequence(es[j]) <= EntrySequence(es[k])
  PROVE  /\ LowerBound(es, s) \in 0..N
         /\ \A k \in 1..N : EntrySequence(es[k]) < s <=> k <= LowerBound(es, s)
<1> DEFINE W == Windows(es)
           f == CHOOSE g : g = [w \in W |->
                  IF w.low >= w.high THEN w.low
                  ELSE LET middle == (w.low + w.high) \div 2 IN
                       IF EntrySequence(es[middle + 1]) < s
                         THEN g[[low |-> middle + 1, high |-> w.high]]
                         ELSE g[[low |-> w.low, high |-> middle]]]
           before(k) == EntrySequence(es[k]) < s
           P == {k \in 0..N : k = N \/ ~before(k + 1)}
<1>1. f = [w \in W |->
             IF w.low >= w.high THEN w.low
             ELSE LET middle == (w.low + w.high) \div 2 IN
                  IF EntrySequence(es[middle + 1]) < s
                    THEN f[[low |-> middle + 1, high |-> w.high]]
                    ELSE f[[low |-> w.low, high |-> middle]]]
  BY SearchEnds, Zenon
<1>2. LowerBound(es, s) = f[[low |-> 0, high |-> Len(es)]]
  BY DEF LowerBound
<1>3. PICK p \in P : \A k \in P : p <= k
  <2>1. N \in P /\ P \subseteq Nat
    OBVIOUS
  <2> HIDE DEF P
  <2> QED BY <2>1, LeastNatural
<1>4. ASSUME NEW k \in 1..N PROVE before(k) <=> k <= p
  <2>1. CASE k <= p
    <3>1. PICK c \in 0..N : c = k - 1 /\ c + 1 = k /\ c < N /\ c < p
      BY <1>3, <2>1
    <3>2. c \notin P
      <4> HIDE DEF P
      <4>1. p \in Int /\ \A d \in P : p <= d
        BY <1>3 DEF P
      <4> QED BY <3>1, <4>1
    <3> QED BY <3>1, <3>2
  <2>2. CASE k > p
    <3>1. p + 1 \in 1..N /\ ~before(p + 1)
      BY <1>3, <2>2
    <3> QED BY <3>1, <2>2
  <2> QED BY <1>3, <2>1, <2>2
<1>5. ASSUME NEW low \in 0..N, NEW high \in 0..N, NEW m \in 0..N, m = (low + high) \div 2
      PROVE  f[[low |-> low, high |-> high]] =
               IF low >= high THEN low
               ELSE IF before(m + 1) THEN f[[low |-> m + 1, high |-> high]]
                                     ELSE f[[low |-> low, high |-> m]]
  <2>1. PICK w \in W : w = [low |-> low, high |-> high]
    BY DEF Windows
  <2>2. w.low = low /\ w.high = high
    BY <2>1
  <2> HIDE DEF f, W
  <2> QED BY <1>1, <1>5, <2>1, <2>2
<1> DEFINE Finds(low, high) == f[[low |-> low, high |-> high]] = p
           T == {d \in Nat : \E low, high \in 0..N :
                   d = high - low /\ low <= p /\ p <= high /\ ~Finds(low, high)}
<1> HIDE DEF f, W, before
<1>6. T = {}
  <2>1. SUFFICES ASSUME T # {} PROVE FALSE
    OBVIOUS
  <2>2. PICK d \in T : \A c \in T : d <= c
    <3> T \subseteq Nat
      OBVIOUS
    <3> HIDE DEF T
    <3> QED BY <2>1, LeastNatural
  <2>3. PICK low \in 0..N, high \in 0..N : d = high - low /\ low <= p /\ p <= high /\ ~Finds(low, high)
    BY <2>2
  <2>4. ASSUME NEW l \in 0..N, NEW h \in 0..N, l <= p, p <= h, h - l < d PROVE Finds(l, h)
    <3>1. PICK c \in Nat : c = h - l /\ c < d
      BY <1>3, <2>4
    <3>2. c \notin T
      <4> HIDE DEF T
      <4>1. d \in Nat
        BY DEF T
      <4> QED BY <2>2, <3>1, <4>1
    <3> QED BY <2>4, <3>1, <3>2
  <2>5. CASE low >= high
    <3>1. low = p
      BY <1>3, <2>3, <2>5
    <3>2. PICK m \in 0..N : m = (low + high) \div 2
      OBVIOUS
    <3>3. f[[low |-> low, high |-> high]] = low
      BY <1>5, <2>5, <3>2
    <3> QED BY <2>3, <3>1, <3>3
  <2>6. CASE low < high
    <3>1. PICK m \in 0..N : m = (low + high) \div 2 /\ m + 1 \in 1..N /\ low <= m /\ m < high
      BY <2>6, Halves
    <3>4. f[[low |-> low, high |-> high]] = IF before(m + 1) THEN f[[low |-> m + 1, high |-> high]]
                                                             ELSE f[[low |-> low, high |-> m]]
      <4>1. ~(low >= high)
        BY <2>6
      <4>2. \A mid \in 0..N : mid = (low + high) \div 2 =>
              f[[low |-> low, high |-> high]] =
                IF low >= high THEN low
                ELSE IF before(mid + 1) THEN f[[low |-> mid + 1, high |-> high]]
                                        ELSE f[[low |-> low, high |-> mid]]
        BY <1>5
      <4> QED BY <3>1, <4>1, <4>2, Zenon
    <3>2. CASE before(m + 1)
      <4>1. m + 1 <= p
        BY <1>4, <3>1, <3>2
      <4>2. Finds(m + 1, high)
        BY <2>3, <2>4, <3>1, <4>1
      <4>3. f[[low |-> low, high |-> high]] = f[[low |-> m + 1, high |-> high]]
        BY <3>2, <3>4, Zenon
      <4> QED BY <2>3, <4>2, <4>3
    <3>3. CASE ~before(m + 1)
      <4>1. p <= m
        BY <1>3, <1>4, <3>1, <3>3
      <4>2. Finds(low, m)
        BY <2>3, <2>4, <3>1, <4>1
      <4>3. f[[low |-> low, high |-> high]] = f[[low |-> low, high |-> m]]
        BY <3>3, <3>4, Zenon
      <4> QED BY <2>3, <4>2, <4>3
    <3> QED BY <3>2, <3>3
  <2> QED BY <2>3, <2>5, <2>6
<1>7. Finds(0, N)
  <2>1. N = N - 0 /\ 0 \in 0..N /\ N \in 0..N /\ 0 <= p /\ p <= N
    BY <1>3
  <2>2. N \notin T
    <3> HIDE DEF T
    <3> QED BY <1>6
  <2> QED BY <2>1, <2>2
<1>8. LowerBound(es, s) = p
  BY <1>2, <1>7
<1> QED BY <1>3, <1>4, <1>8 DEF before

(* The record *)

\* The fields of an entry.
LEMMA EntryFields ==
  ASSUME NEW e \in Entry
  PROVE  /\ e.kind \in {"tick", "seam"}
         /\ e.kind = "tick" => e.tick \in TickType /\ e.tick.sequence \in Nat /\ e.tick.instant \in Nat
         /\ e.kind = "seam" => /\ e.seam \in SeamType
                               /\ e.seam.lastSequence \in Nat /\ e.seam.closed \in Nat
                               /\ e.seam.resumesAt \in Nat /\ e.seam.opens \in Nat
         /\ EntrySequence(e) \in Nat /\ Concerns(e) \in Nat /\ Opens(e) \in Nat /\ Closes(e) \in Nat
         /\ HeadAfter(e) \in Nat /\ NextAfter(e) \in Nat
<1>1. CASE e \in [kind : {"tick"}, tick : TickType]
  BY <1>1 DEF TickType, EntrySequence, Concerns, Opens, Closes, HeadAfter, NextAfter
<1>2. CASE e \in [kind : {"seam"}, seam : SeamType]
  BY <1>2 DEF SeamType, EntrySequence, Concerns, Opens, Closes, HeadAfter, NextAfter
<1> QED BY <1>1, <1>2 DEF Entry

\* What adjoins an entry comes after it, and after all that came before it.
LEMMA AdjoiningFollows ==
  ASSUME NEW d, NEW e, Sound(d), Sound(e), Adjoins(d, e)
  PROVE  /\ Precedes(d, e)
         /\ \A c : Sound(c) /\ Precedes(c, d) => Precedes(c, e)
<1>1. d \in Entry /\ e \in Entry
  BY DEF Sound
<1>2. Precedes(d, e)
  BY <1>1, EntryFields DEF Sound, Adjoins, Precedes, EntrySequence, Concerns, Opens, Closes, NextAfter
<1>3. ASSUME NEW c, Sound(c), Precedes(c, d) PROVE Precedes(c, e)
  <2>1. c \in Entry
    BY <1>3 DEF Sound
  <2>2. Opens(d) <= Closes(d)
    BY DEF Sound
  <2>3. /\ EntrySequence(c) \in Nat /\ Concerns(c) \in Nat /\ Closes(c) \in Nat
        /\ EntrySequence(d) \in Nat /\ Concerns(d) \in Nat /\ Closes(d) \in Nat /\ Opens(d) \in Nat
        /\ EntrySequence(e) \in Nat /\ Concerns(e) \in Nat /\ Opens(e) \in Nat
    BY <1>1, <2>1, EntryFields
  <2> QED BY <1>2, <1>3, <2>2, <2>3 DEF Precedes
<1> QED BY <1>2, <1>3

\* A record grows by an entry that adjoins its last.
LEMMA RecordGrows ==
  ASSUME NEW es, RecordInv(es), NEW e, Sound(e),
         IF es = <<>> THEN e.kind = "tick" /\ e.tick.sequence = 1 ELSE Adjoins(es[Len(es)], e)
  PROVE  RecordInv(Append(es, e))
<1>1. PICK n \in Nat : n = Len(es) /\ DOMAIN es = 1..n
  BY DEF RecordInv
<1>2. PICK fs : fs = Append(es, e)
  OBVIOUS
<1>3. /\ fs \in Seq(Entry) /\ Len(fs) = n + 1 /\ fs # <<>>
      /\ \A k \in 1..n : fs[k] = es[k]
      /\ fs[n + 1] = e
  BY <1>1, <1>2 DEF RecordInv, Sound
<1>4. ASSUME NEW k \in 1..(n + 1) PROVE Sound(fs[k])
  BY <1>1, <1>3, <1>4 DEF RecordInv
<1>5. fs[1].kind = "tick" /\ fs[1].tick.sequence = 1
  BY <1>1, <1>3 DEF RecordInv
<1>6. ASSUME NEW k \in 1..(n + 1), k > 1 PROVE Adjoins(fs[k - 1], fs[k])
  <2>1. PICK i \in 1..n : i = k - 1
    BY <1>6
  <2>2. fs[k - 1] = es[i]
    BY <1>3, <2>1
  <2>3. CASE k = n + 1
    <3>1. es # <<>> /\ i = n
      BY <1>1, <2>1, <2>3
    <3> QED BY <1>1, <1>3, <2>2, <2>3, <3>1
  <2>4. CASE k \in 1..n
    <3>1. fs[k] = es[k] /\ es[k - 1] = es[i]
      BY <1>3, <2>1, <2>4
    <3>2. Adjoins(es[k - 1], es[k])
      BY <1>1, <1>6, <2>4 DEF RecordInv
    <3> QED BY <2>2, <3>1, <3>2
  <2> QED BY <2>3, <2>4
<1>7. ASSUME NEW j \in 1..(n + 1), NEW k \in 1..(n + 1), j < k PROVE Precedes(fs[j], fs[k])
  <2>1. j \in 1..n /\ fs[j] = es[j] /\ Sound(es[j])
    BY <1>1, <1>3, <1>7 DEF RecordInv
  <2>2. CASE k \in 1..n
    <3>1. Precedes(es[j], es[k])
      BY <1>1, <1>7, <2>1, <2>2 DEF RecordInv
    <3> QED BY <1>3, <2>1, <2>2, <3>1
  <2>3. CASE k = n + 1
    <3>1. n \in 1..n /\ es # <<>>
      BY <1>1, <2>1
    <3>2. Adjoins(es[n], e) /\ Sound(es[n])
      BY <1>1, <3>1 DEF RecordInv
    <3>3. CASE j = n
      BY <1>3, <2>1, <2>3, <3>2, <3>3, AdjoiningFollows
    <3>4. CASE j < n
      <4>1. Precedes(es[j], es[n])
        BY <1>1, <2>1, <3>1, <3>4 DEF RecordInv
      <4>2. Precedes(es[j], e)
        BY <2>1, <3>2, <4>1, AdjoiningFollows
      <4> QED BY <1>3, <2>1, <2>3, <4>2
    <3> QED BY <2>1, <3>3, <3>4
  <2> QED BY <2>2, <2>3
<1> QED
  <2>1. RecordInv(fs)
    BY <1>3, <1>4, <1>5, <1>6, <1>7 DEF RecordInv
  <2> QED BY <1>2, <2>1

\* What a leader writes adjoins the record.
LEMMA WriteKeeps ==
  ASSUME Deployed, RecordInv(record), WriteTick \/ WriteSeam
  PROVE  /\ RecordInv(record')
         /\ \E e \in Entry : record' = Append(record, e)
<1>1. PICK n \in Nat : n = Len(record) /\ DOMAIN record = 1..n /\ (n = 0 <=> record = <<>>)
  BY DEF RecordInv
<1>2. n > 0 => n \in 1..n /\ Sound(record[n]) /\ record[n] \in Entry /\ Last(record) = record[n]
  BY <1>1 DEF RecordInv, Sound, Last
<1>3. CASE WriteTick
  <2> DEFINE instant == IF EndsInSeam THEN Last(record).seam.opens
                        ELSE IF record = <<>> THEN 0 ELSE LastInstant + 1
             number == IF record = <<>> THEN 1 ELSE NextOf(record)
  <2>1. PICK e : e = TickEntryOf([sequence |-> number, instant |-> instant])
    OBVIOUS
  <2>2. record' = Append(record, e)
    BY <1>3, <2>1 DEF WriteTick
  <2>3. /\ n > 0 => number = NextAfter(record[n]) /\ number \in Nat /\ number >= 1
        /\ n = 0 => number = 1
    BY <1>1, <1>2, EntryFields
       DEF NextOf, NextAfter, Sound, Concerns, EntrySequence
  <2>4. /\ n > 0 => instant = IF record[n].kind = "tick" THEN record[n].tick.instant + 1
                                                          ELSE record[n].seam.opens
        /\ n = 0 => instant = 0
    BY <1>1, <1>2, EntryFields DEF EndsInSeam, LastInstant
  <2>5. instant \in Nat /\ number \in Nat /\ number >= 1
    BY <1>1, <1>2, <2>3, <2>4, EntryFields
  <2>6. /\ e \in Entry /\ e.kind = "tick" /\ e.tick.sequence = number /\ e.tick.instant = instant
    <3> HIDE DEF number, instant
    <3> QED BY <2>1, <2>5 DEF TickEntryOf, Entry, TickType
  <2> HIDE DEF number, instant
  <2>7. Sound(e)
    BY <2>5, <2>6 DEF Sound, EntrySequence, Concerns, Opens, Closes
  <2>8. IF record = <<>> THEN e.kind = "tick" /\ e.tick.sequence = 1 ELSE Adjoins(record[Len(record)], e)
    BY <1>1, <2>3, <2>4, <2>6 DEF Adjoins
  <2> QED BY <2>2, <2>6, <2>7, <2>8, RecordGrows
<1>4. CASE WriteSeam
  <2>1. record # <<>> /\ ~EndsInSeam
    BY <1>4 DEF WriteSeam, Deployed
  <2>2. n > 0 /\ record[n].kind = "tick"
    BY <1>1, <1>2, <2>1, EntryFields DEF EndsInSeam
  <2>3. PICK s \in Nat, t \in Nat : record[n].tick.sequence = s /\ record[n].tick.instant = t /\ s >= 1
    BY <1>2, <2>2, EntryFields DEF Sound, EntrySequence
  <2>4. HeadOf(record) = s /\ LastInstant = t
    BY <1>1, <1>2, <2>1, <2>2, <2>3 DEF HeadOf, HeadAfter, LastInstant
  <2>5. PICK jump \in SeamJumps, width \in SeamWidths :
          record' = Append(record, SeamEntryOf(
            [lastSequence |-> HeadOf(record), closed |-> LastInstant,
             resumesAt |-> IF HeadOf(record) = 0 THEN 1 ELSE HeadOf(record) + jump,
             opens |-> IF LastInstant = NoInstant THEN width ELSE LastInstant + width]))
    BY <1>4 DEF WriteSeam
  <2>6. jump \in Nat /\ jump >= 2 /\ width \in Nat /\ t # NoInstant
    BY FollowerAssumption, <2>3
  <2>7. PICK e : e = SeamEntryOf([lastSequence |-> s, closed |-> t, resumesAt |-> s + jump, opens |-> t + width])
    OBVIOUS
  <2>8. record' = Append(record, e)
    BY <2>3, <2>4, <2>5, <2>6, <2>7
  <2>9. /\ e \in Entry /\ e.kind = "seam"
        /\ e.seam.lastSequence = s /\ e.seam.closed = t
        /\ e.seam.resumesAt = s + jump /\ e.seam.opens = t + width
    BY <2>3, <2>6, <2>7 DEF SeamEntryOf, Entry, SeamType
  <2>10. Sound(e)
    BY <2>3, <2>6, <2>9 DEF Sound, EntrySequence, Concerns, Opens, Closes
  <2>11. Adjoins(record[Len(record)], e)
    BY <1>1, <2>2, <2>3, <2>6, <2>9 DEF Adjoins
  <2> QED BY <2>1, <2>8, <2>9, <2>10, <2>11, RecordGrows
<1> QED BY <1>3, <1>4

\* Where a read begins: at the first entry that is not before the sequence asked for.
LEMMA SearchAt ==
  ASSUME NEW es, RecordInv(es), NEW p \in 0..Len(es), NEW s \in Nat,
         p > 0 => EntrySequence(es[p]) < s,
         p < Len(es) => EntrySequence(es[p + 1]) >= s
  PROVE  LowerBound(es, s) = p
<1>1. PICK n \in Nat : n = Len(es)
  BY DEF RecordInv
<1>2. /\ \A k \in 1..n : EntrySequence(es[k]) \in Int
      /\ \A j, k \in 1..n : j < k => EntrySequence(es[j]) <= EntrySequence(es[k])
  <2>1. \A k \in 1..n : EntrySequence(es[k]) \in Int
    BY <1>1, EntryFields DEF RecordInv, Sound
  <2> QED BY <1>1, <2>1 DEF RecordInv, Precedes
<1>3. PICK q \in 0..n : q = LowerBound(es, s) /\ \A k \in 1..n : EntrySequence(es[k]) < s <=> k <= q
  <2>1. s \in Int
    OBVIOUS
  <2> QED BY <1>1, <1>2, <2>1, SearchSplits
<1>4. ~(q < p)
  BY <1>1, <1>3
<1>5. ~(q > p)
  <2>1. SUFFICES ASSUME q > p PROVE FALSE
    OBVIOUS
  <2>2. p + 1 \in 1..n /\ EntrySequence(es[p + 1]) < s
    BY <1>1, <1>3, <2>1
  <2>3. EntrySequence(es[p + 1]) \in Int
    BY <1>2, <2>2
  <2> QED BY <1>1, <2>2, <2>3
<1> QED BY <1>1, <1>3, <1>4, <1>5

\* A read from the sequence expected at a place begins just past the place.
LEMMA ReadsFromPlace ==
  ASSUME NEW es, RecordInv(es), NEW p \in 0..Len(es), NEW s,
         s = IF p = 0 THEN 1 ELSE NextAfter(es[p])
  PROVE  s \in Nat \ {0} /\ LowerBound(es, s) = p
<1>1. PICK n \in Nat : n = Len(es) /\ (n # 0 => es # <<>>)
  BY DEF RecordInv
<1>2. \A k \in 1..n : Sound(es[k]) /\ es[k] \in Entry
  BY <1>1 DEF RecordInv, Sound
<1>3. CASE p = 0
  <2>1. p < n => EntrySequence(es[p + 1]) >= s
    BY <1>1, <1>2, <1>3, EntryFields DEF RecordInv, EntrySequence
  <2> QED BY <1>1, <1>3, <2>1, SearchAt
<1>4. CASE p > 0
  <2>1. p \in 1..n /\ es[p] \in Entry /\ Sound(es[p])
    BY <1>1, <1>2, <1>4
  <2>2. s \in Nat /\ s > 0 /\ EntrySequence(es[p]) < s
    BY <1>4, <2>1, EntryFields DEF NextAfter, Sound, EntrySequence, Concerns
  <2>3. ASSUME p < n PROVE EntrySequence(es[p + 1]) >= s
    <3>1. p + 1 \in 1..n /\ p + 1 > 1 /\ (p + 1) - 1 = p
      BY <2>1, <2>3
    <3>2. Adjoins(es[p], es[p + 1]) /\ es[p + 1] \in Entry
      BY <1>1, <1>2, <3>1 DEF RecordInv
    <3> QED
      BY <1>4, <2>1, <3>2, EntryFields DEF Adjoins, NextAfter, EntrySequence
  <2> QED BY <1>1, <2>2, <2>3, SearchAt
<1> QED BY <1>3, <1>4

\* What a read returns.
LEMMA ReadReturns ==
  ASSUME NEW es, RecordInv(es), NEW p \in 0..Len(es), NEW s,
         s = IF p = 0 THEN 1 ELSE NextAfter(es[p])
  PROVE  \/ ReadRecord(es, s, ReadLimit) = <<>>
         \/ \E k \in 1..ReadLimit : p + k <= Len(es) /\ ReadRecord(es, s, ReadLimit) = SubSeq(es, p + 1, p + k)
<1>1. PICK n \in Nat : n = Len(es) /\ es \in Seq(Entry)
  BY DEF RecordInv
<1>2. PICK limit \in Nat : limit = ReadLimit /\ limit > 0
  BY FollowerAssumption
<1>3. PICK m \in 0..n : m = IF p + limit <= n THEN p + limit ELSE n
  BY <1>1, <1>2
<1>4. ReadRecord(es, s, ReadLimit) = SubSeq(es, p + 1, m)
  <2>1. LowerBound(es, s) = p
    BY ReadsFromPlace
  <2> QED BY <1>1, <1>2, <1>3, <2>1 DEF ReadRecord, Slice
<1>5. CASE m = p
  BY <1>1, <1>4, <1>5
<1>6. CASE m > p
  <2>1. PICK k \in 1..limit : m = p + k /\ p + k <= n
    BY <1>1, <1>2, <1>3, <1>6
  <2> QED BY <1>1, <1>2, <1>4, <2>1
<1> QED BY <1>1, <1>2, <1>3, <1>5, <1>6

-----------------------------------------------------------------------------
(* Applying a batch *)

\* An entry that is taken extends the retained ticks,
LEMMA HistoryApplied ==
  ASSUME NEW es, RecordInv(es), NEW p \in Nat, p + 1 \in 1..Len(es), NEW h, HistoryFits(h, es, p)
  PROVE  HistoryFits(IF es[p + 1].kind = "tick" THEN Append(h, es[p + 1].tick) ELSE h, es, p + 1)
<1>1. /\ \A k \in 1..(p + 1) : es[k] \in Entry /\ Sound(es[k])
      /\ \A j \in 1..p : Precedes(es[j], es[p + 1])
  BY DEF RecordInv, Sound
<1>2. h \in Seq(TickType) /\ \A k \in 1..p : k \in 1..(p + 1)
  BY DEF HistoryFits
<1>3. PICK m \in Nat : m = Len(h) /\ DOMAIN h = 1..m /\ (m = 0 <=> h = <<>>)
  BY <1>2
<1>4. CASE es[p + 1].kind # "tick"
  <2>1. ASSUME NEW k \in 1..(p + 1), es[k].kind = "tick" PROVE k \in 1..p
    BY <1>4, <2>1
  <2>2. HistoryFits(h, es, p + 1)
    BY <1>2, <2>1 DEF HistoryFits
  <2> QED BY <1>4, <2>2
<1>5. CASE es[p + 1].kind = "tick"
  <2>1. PICK t : t = es[p + 1].tick /\ t \in TickType
    BY <1>1, <1>5, EntryFields
  <2>2. PICK g : g = Append(h, t)
    OBVIOUS
  <2>3. /\ g \in Seq(TickType) /\ Len(g) = m + 1 /\ g # <<>> /\ g[m + 1] = t
        /\ \A i \in 1..m : g[i] = h[i] /\ h[i] \in TickType
    BY <1>2, <1>3, <2>1, <2>2
  <2>4. ASSUME NEW k \in 1..p, es[k].kind = "tick" PROVE es[k].tick.sequence < t.sequence
    <3>1. Precedes(es[k], es[p + 1])
      BY <1>1
    <3> QED BY <1>5, <2>1, <2>4, <3>1 DEF Precedes, EntrySequence
  <2>5. ASSUME NEW i \in 1..m PROVE h[i].sequence < t.sequence
    <3>1. PICK k \in 1..p : es[k].kind = "tick" /\ es[k].tick = h[i]
      BY <1>3 DEF HistoryFits
    <3> QED BY <2>4, <3>1
  <2>6. ASSUME NEW i \in 1..(m + 1), NEW j \in 1..(m + 1), i < j PROVE g[i].sequence < g[j].sequence
    <3>1. i \in 1..m /\ g[i] = h[i]
      BY <2>3, <2>6
    <3>2. CASE j = m + 1
      BY <2>3, <2>5, <3>1, <3>2
    <3>3. CASE j \in 1..m
      <4>1. h[i].sequence < h[j].sequence
        BY <1>3, <2>6, <3>1, <3>3 DEF HistoryFits
      <4> QED BY <2>3, <3>1, <3>3, <4>1
    <3> QED BY <3>2, <3>3
  <2>7. ASSUME NEW i \in 1..(m + 1)
        PROVE  \E k \in 1..(p + 1) : es[k].kind = "tick" /\ es[k].tick = g[i]
    <3>1. CASE i = m + 1
      <4>1. p + 1 \in 1..(p + 1)
        OBVIOUS
      <4> QED BY <1>5, <2>1, <2>3, <3>1, <4>1
    <3>2. CASE i \in 1..m
      <4>1. PICK k \in 1..p : es[k].kind = "tick" /\ es[k].tick = h[i]
        BY <1>3, <3>2 DEF HistoryFits
      <4> QED BY <1>2, <2>3, <3>2, <4>1
    <3> QED BY <3>1, <3>2
  <2>8. ASSUME NEW k \in 1..(p + 1), es[k].kind = "tick", es[k].tick.sequence >= g[1].sequence
        PROVE  \E i \in 1..(m + 1) : g[i] = es[k].tick
    <3>1. CASE k = p + 1
      <4>1. m + 1 \in 1..(m + 1)
        OBVIOUS
      <4> QED BY <2>1, <2>3, <3>1, <4>1
    <3>2. CASE k \in 1..p
      <4>1. h # <<>>
        BY <2>8, <3>2 DEF HistoryFits
      <4>2. m > 0 /\ 1 \in 1..m /\ g[1] = h[1]
        BY <1>3, <2>3, <4>1
      <4>3. PICK i \in 1..m : h[i] = es[k].tick
        BY <1>3, <2>8, <3>2, <4>2 DEF HistoryFits
      <4>4. i \in 1..(m + 1) /\ g[i] = h[i]
        BY <2>3
      <4> QED BY <4>3, <4>4
    <3> QED BY <3>1, <3>2
  <2>9. HistoryFits(g, es, p + 1)
    BY <2>3, <2>6, <2>7, <2>8 DEF HistoryFits
  <2> QED BY <1>5, <2>1, <2>2, <2>9
<1> QED BY <1>4, <1>5

\* and the retained entries.
LEMMA EntriesApplied ==
  ASSUME NEW es, RecordInv(es), NEW p \in Nat, p + 1 \in 1..Len(es), NEW h, HistoryFits(h, es, p),
         NEW entries, EntriesFit(entries, h, es, p)
  PROVE  EntriesFit(Append(entries, es[p + 1]),
                    IF es[p + 1].kind = "tick" THEN Append(h, es[p + 1].tick) ELSE h, es, p + 1)
<1>1. PICK d \in 0..p : /\ entries = SubSeq(es, d + 1, p)
                        /\ \A k \in 1..d : h # <<>> /\ Concerns(es[k]) < h[1].sequence
  BY DEF EntriesFit
<1>2. PICK g : g = IF es[p + 1].kind = "tick" THEN Append(h, es[p + 1].tick) ELSE h
  OBVIOUS
<1>3. h # <<>> => g # <<>> /\ g[1] = h[1]
  <2>1. SUFFICES ASSUME h # <<>> PROVE g # <<>> /\ g[1] = h[1]
    OBVIOUS
  <2>2. h \in Seq(TickType)
    BY DEF HistoryFits
  <2>3. CASE es[p + 1].kind = "tick"
    <3>1. es[p + 1].tick \in TickType
      BY <2>3, EntryFields DEF RecordInv, Sound
    <3>2. g = Append(h, es[p + 1].tick)
      BY <1>2, <2>3
    <3> QED BY <2>1, <2>2, <3>1, <3>2
  <2> QED BY <1>2, <2>1, <2>3
<1>4. Append(entries, es[p + 1]) = SubSeq(es, d + 1, p + 1)
  <2>1. es \in Seq(Entry)
    BY DEF RecordInv
  <2>2. PICK n \in Nat : n = Len(es) /\ p + 1 <= n
    BY <2>1
  <2>3. PICK c \in Nat : c = p - d /\ c + 1 = p + 1 - d
    OBVIOUS
  <2>4. /\ Len(entries) = c /\ \A i \in 1..c : entries[i] = es[d + i]
        /\ entries \in Seq(Entry)
    BY <1>1, <2>1, <2>2, <2>3
  <2>5. PICK new : new = SubSeq(es, d + 1, p + 1)
    OBVIOUS
  <2>6. new \in Seq(Entry) /\ Len(new) = c + 1 /\ \A i \in 1..(c + 1) : new[i] = es[d + i]
    BY <2>1, <2>2, <2>3, <2>5
  <2>7. PICK old : old = Append(entries, es[p + 1])
    OBVIOUS
  <2>8. es[p + 1] \in Entry /\ d + (c + 1) = p + 1
    BY <2>1, <2>2, <2>3
  <2>9. /\ old \in Seq(Entry) /\ Len(old) = c + 1
        /\ \A i \in 1..(c + 1) : old[i] = es[d + i]
    BY <2>4, <2>7, <2>8
  <2>10. old = new
    <3>1. Len(old) = Len(new) /\ \A i \in 1..Len(old) : old[i] = new[i]
      BY <2>6, <2>9
    <3>2. old \in Seq(Entry) /\ new \in Seq(Entry)
      BY <2>6, <2>9
    <3> QED BY <3>1, <3>2, SameSequence
  <2> QED BY <2>5, <2>7, <2>10
<1>5. d \in 0..(p + 1)
  OBVIOUS
<1>6. EntriesFit(Append(entries, es[p + 1]), g, es, p + 1)
  BY <1>1, <1>3, <1>4, <1>5 DEF EntriesFit
<1> QED BY <1>2, <1>6

\* A follower takes the entry after its place, and is at the next place then.
LEMMA EntryApplied ==
  ASSUME NEW es, RecordInv(es), NEW p \in Nat, p + 1 \in 1..Len(es), NEW x, Fits(x, es, p)
  PROVE  Continues(x, es[p + 1]) /\ Fits(Applied(x, es[p + 1]), es, p + 1)
<1>1. PICK e : e = es[p + 1] /\ e \in Entry /\ Sound(e)
  BY DEF RecordInv, Sound
<1>2. p > 0 => p \in 1..Len(es) /\ es[p] \in Entry /\ Adjoins(es[p], e)
  <2>1. p > 0 => p \in 1..Len(es) /\ p + 1 > 1 /\ (p + 1) - 1 = p
    BY DEF RecordInv
  <2> QED BY <1>1, <2>1 DEF RecordInv, Sound
<1>3. p = 0 => e.kind = "tick"
  BY <1>1 DEF RecordInv
<1>4. /\ x.head = IF p = 0 THEN 0 ELSE HeadAfter(es[p])
      /\ x.expectNext = IF p = 0 THEN 0 ELSE NextAfter(es[p])
  BY DEF Fits
<1>5. Continues(x, e)
  BY <1>1, <1>2, <1>3, <1>4, EntryFields DEF Continues, Adjoins, HeadAfter
<1>6. PICK y : y = Applied(x, e)
  OBVIOUS
<1>7. /\ y.entries = Append(x.entries, e)
      /\ y.history = IF e.kind = "tick" THEN Append(x.history, e.tick) ELSE x.history
      /\ y.head = IF e.kind = "tick" THEN e.tick.sequence ELSE x.head
      /\ y.expectNext = NextAfter(e)
      /\ y.seams = IF e.kind = "seam" THEN x.seams \cup {e.seam} ELSE x.seams
      /\ y = [entries |-> y.entries, history |-> y.history, head |-> y.head,
              expectNext |-> y.expectNext, seams |-> y.seams]
  BY <1>6 DEF Applied
<1>8. p + 1 # 0 /\ HistoryFits(y.history, es, p + 1) /\ EntriesFit(y.entries, y.history, es, p + 1)
  <2>1. HistoryFits(x.history, es, p) /\ EntriesFit(x.entries, x.history, es, p)
    BY DEF Fits
  <2> QED BY <1>1, <1>7, <2>1, HistoryApplied, EntriesApplied
<1>9. y.head = HeadAfter(es[p + 1]) /\ y.expectNext = NextAfter(es[p + 1])
  BY <1>1, <1>2, <1>3, <1>4, <1>7, EntryFields DEF HeadAfter, Adjoins
<1>10. y \in [entries : Seq(Entry), history : Seq(TickType), head : Nat, expectNext : Nat,
              seams : SUBSET SeamType]
  <2>1. x.entries \in Seq(Entry) /\ x.seams \in SUBSET SeamType /\ x.head \in Nat
    BY DEF Fits
  <2>2. y.history \in Seq(TickType)
    BY <1>8 DEF HistoryFits
  <2>3. y.entries \in Seq(Entry)
    BY <1>1, <1>7, <2>1
  <2>4. y.head \in Nat /\ y.expectNext \in Nat
    BY <1>1, <1>9, EntryFields
  <2>5. y.seams \in SUBSET SeamType
    BY <1>1, <1>7, <2>1, EntryFields
  <2> QED BY <1>7, <2>2, <2>3, <2>4, <2>5
<1>11. ASSUME NEW k \in 1..(p + 1), es[k].kind = "seam" PROVE es[k].seam \in y.seams
  <2>1. CASE k = p + 1
    BY <1>1, <1>7, <1>11, <2>1
  <2>2. CASE k \in 1..p
    BY <1>7, <1>11, <2>2 DEF Fits
  <2> QED BY <2>1, <2>2
<1>12. ASSUME NEW seam \in y.seams PROVE \E k \in 1..(p + 1) : es[k].kind = "seam" /\ es[k].seam = seam
  <2>1. CASE seam \in x.seams
    <3>1. PICK k \in 1..p : es[k].kind = "seam" /\ es[k].seam = seam
      BY <2>1 DEF Fits
    <3>2. k \in 1..(p + 1)
      OBVIOUS
    <3> QED BY <3>1, <3>2
  <2>2. CASE seam \notin x.seams
    <3>1. e.kind = "seam" /\ seam = e.seam /\ p + 1 \in 1..(p + 1)
      BY <1>7, <1>12, <2>2
    <3> QED BY <1>1, <3>1
  <2> QED BY <2>1, <2>2
<1>13. Fits(y, es, p + 1)
  BY <1>8, <1>9, <1>10, <1>11, <1>12 DEF Fits
<1> QED BY <1>1, <1>5, <1>6, <1>13

\* g holds the follower after each entry of a batch of n.
Staging(x, batch, n, g) == g = [k \in 0..n |-> IF k = 0 THEN x ELSE Applied(g[k - 1], batch[k])]

\* There is such a function.
LEMMA StagingEnds ==
  ASSUME NEW x, NEW batch, NEW n \in Nat
  PROVE  \E g : Staging(x, batch, n, g)
<1> DEFINE Body(g, k) == IF k = 0 THEN x ELSE Applied(g[k - 1], batch[k])
           T == {d \in Nat : \E g : /\ g = [k \in 0..n |-> g[k]]
                                    /\ \A k \in 0..n : k <= d => g[k] = Body(g, k)}
<1>0. ASSUME NEW g, NEW h, NEW k \in 0..n, k # 0 => g[k - 1] = h[k - 1] PROVE Body(g, k) = Body(h, k)
  BY <1>0
<1>1. 0 \in T
  <2> DEFINE g == [k \in 0..n |-> x]
  <2>1. g = [k \in 0..n |-> g[k]] /\ \A k \in 0..n : k <= 0 => g[k] = Body(g, k)
    OBVIOUS
  <2> HIDE DEF g, Body
  <2> QED BY <2>1
<1>2. ASSUME NEW d \in Nat, d \in T PROVE d + 1 \in T
  <2>1. PICK g : g = [k \in 0..n |-> g[k]] /\ \A k \in 0..n : k <= d => g[k] = Body(g, k)
    BY <1>2
  <2> DEFINE h == [k \in 0..n |-> IF k <= d THEN g[k] ELSE Body(g, k)]
  <2>2. h = [k \in 0..n |-> h[k]]
    OBVIOUS
  <2>3. ASSUME NEW k \in 0..n, k <= d + 1 PROVE h[k] = Body(h, k)
    <3>1. h[k] = Body(g, k)
      <4> HIDE DEF Body
      <4> QED BY <2>1
    <3>2. k # 0 => k - 1 \in 0..n /\ k - 1 <= d
      BY <2>3
    <3>3. k # 0 => h[k - 1] = g[k - 1]
      <4> HIDE DEF Body
      <4> QED BY <3>2
    <3> HIDE DEF Body, h
    <3> QED BY <1>0, <3>1, <3>3
  <2> HIDE DEF h, Body
  <2> QED BY <2>2, <2>3
<1>3. n \in T
  <2> HIDE DEF T
  <2> QED BY <1>1, <1>2, Induction
<1>4. PICK g : g = [k \in 0..n |-> g[k]] /\ \A k \in 0..n : k <= n => g[k] = Body(g, k)
  BY <1>3
<1>5. g = [k \in 0..n |-> Body(g, k)]
  <2> HIDE DEF Body
  <2> QED BY <1>4
<1> QED BY <1>5 DEF Staging

\* So each stage is the one before it with an entry applied.
LEMMA StageIsNext ==
  ASSUME NEW x, NEW batch, NEW n \in Nat, n = Len(batch)
  PROVE  /\ Stages(x, batch)[0] = x
         /\ \A k \in 0..(n - 1) : Stages(x, batch)[k + 1] = Applied(Stages(x, batch)[k], batch[k + 1])
<1> DEFINE g == CHOOSE after : Staging(x, batch, n, after)
<1>1. Stages(x, batch) = g
  BY DEF Stages, Staging
<1>2. Staging(x, batch, n, g)
  BY StagingEnds
<1> HIDE DEF g
<1>3. g[0] = x
  <2>1. 0 \in 0..n
    OBVIOUS
  <2> QED BY <1>2, <2>1 DEF Staging
<1>4. ASSUME NEW k \in 0..(n - 1) PROVE g[k + 1] = Applied(g[k], batch[k + 1])
  <2>1. PICK i \in 0..n : i = k + 1 /\ i # 0 /\ i - 1 = k
    OBVIOUS
  <2>2. g[i] = Applied(g[i - 1], batch[i])
    BY <1>2, <2>1 DEF Staging
  <2> QED BY <2>1, <2>2
<1> QED BY <1>1, <1>3, <1>4

\* A batch read at a follower's place is applied whole.
LEMMA BatchApplied ==
  ASSUME NEW es, RecordInv(es), NEW p \in 0..Len(es), NEW n \in Nat, p + n <= Len(es),
         NEW batch, n = Len(batch), \A k \in 1..n : batch[k] = es[p + k], NEW x, Fits(x, es, p)
  PROVE  AcceptedOf(x, batch) = n /\ Fits(Stages(x, batch)[n], es, p + n)
<1>1. Len(batch) = n /\ \A k \in 1..n : batch[k] = es[p + k]
  OBVIOUS
<1> DEFINE stage == Stages(x, batch)
<1>2. /\ stage[0] = x
      /\ \A k \in 0..(n - 1) : stage[k + 1] = Applied(stage[k], batch[k + 1])
  <2>1. n \in Nat /\ n = Len(batch)
    BY <1>1
  <2> HIDE DEF stage
  <2>2. /\ Stages(x, batch)[0] = x
        /\ \A k \in 0..(n - 1) : Stages(x, batch)[k + 1] = Applied(Stages(x, batch)[k], batch[k + 1])
    <3>1. Stages(x, batch)[0] = x
      BY <2>1, StageIsNext
    <3>2. \A k \in 0..(n - 1) : Stages(x, batch)[k + 1] = Applied(Stages(x, batch)[k], batch[k + 1])
      BY <2>1, StageIsNext
    <3> QED BY <3>1, <3>2
  <2> QED BY <2>2 DEF stage
<1> HIDE DEF stage
<1> DEFINE T == {k \in Nat : k <= n => Fits(stage[k], es, p + k)}
<1>3. Nat \subseteq T
  <2>1. 0 \in T
    <3>1. p + 0 = p
      OBVIOUS
    <3> QED BY <1>2, <3>1
  <2>2. ASSUME NEW k \in Nat, k \in T PROVE k + 1 \in T
    <3>1. SUFFICES ASSUME k + 1 <= n PROVE Fits(stage[k + 1], es, p + (k + 1))
      OBVIOUS
    <3>2. PICK i \in Nat : i = p + k /\ i + 1 = p + (k + 1) /\ i + 1 \in 1..Len(es)
      BY <3>1 DEF RecordInv
    <3>3. Fits(stage[k], es, i)
      BY <2>2, <3>1, <3>2
    <3>4. Fits(Applied(stage[k], es[i + 1]), es, i + 1)
      BY <3>2, <3>3, EntryApplied
    <3>5. k \in 0..(n - 1) /\ k + 1 \in 1..n
      BY <3>1
    <3>6. stage[k + 1] = Applied(stage[k], es[i + 1])
      BY <1>1, <1>2, <3>2, <3>5
    <3> QED BY <3>2, <3>4, <3>6
  <2> HIDE DEF T
  <2> QED BY <2>1, <2>2, Induction
<1>4. ASSUME NEW k \in 0..(n - 1) PROVE Continues(stage[k], batch[k + 1])
  <2>1. PICK i \in Nat : i = p + k /\ i + 1 = p + (k + 1) /\ i + 1 \in 1..Len(es)
    BY DEF RecordInv
  <2>2. k \in Nat /\ k <= n /\ k + 1 \in 1..n
    OBVIOUS
  <2>3. Fits(stage[k], es, i)
    BY <1>3, <2>1, <2>2
  <2>4. Continues(stage[k], es[i + 1])
    BY <2>1, <2>3, EntryApplied
  <2> QED BY <1>1, <2>1, <2>2, <2>4
<1> DEFINE Accepts(k) == /\ \A j \in 1..k : Continues(stage[j - 1], batch[j])
                         /\ k < Len(batch) => ~Continues(stage[k], batch[k + 1])
<1>5. Accepts(n)
  <2>1. ASSUME NEW j \in 1..n PROVE Continues(stage[j - 1], batch[j])
    <3>1. PICK k \in 0..(n - 1) : k = j - 1 /\ k + 1 = j
      OBVIOUS
    <3> QED BY <1>4, <3>1
  <2> QED BY <1>1, <2>1
<1>6. ASSUME NEW k \in 0..n, Accepts(k) PROVE k = n
  <2>1. CASE k < n
    <3>1. k \in 0..(n - 1)
      BY <2>1
    <3> QED BY <1>1, <1>4, <1>6, <2>1, <3>1
  <2> QED BY <2>1
<1>7. AcceptedOf(x, batch) = CHOOSE k \in 0..n : Accepts(k)
  BY <1>1 DEF AcceptedOf, stage
<1>8. AcceptedOf(x, batch) = n
  <2> HIDE DEF Accepts
  <2>1. n \in 0..n
    OBVIOUS
  <2> QED BY <1>5, <1>6, <1>7, <2>1
<1>9. Fits(Stages(x, batch)[n], es, p + n)
  <2>1. Fits(stage[n], es, p + n)
    BY <1>3
  <2> QED BY <2>1 DEF stage
<1> QED BY <1>1, <1>8, <1>9

\* Eviction leaves a follower at its place, within its window.
LEMMA EvictionFits ==
  ASSUME NEW es, RecordInv(es), NEW p \in 0..Len(es), NEW x, Fits(x, es, p)
  PROVE  Fits(Evicted(x), es, p) /\ Len(Evicted(x).history) <= RetainTicks
<1>1. PICK size \in Nat : size = RetainTicks /\ size > 0
  BY FollowerAssumption
<1>2. PICK h \in Seq(TickType) : h = x.history /\ HistoryFits(h, es, p)
  BY DEF Fits, HistoryFits
<1>3. PICK m \in Nat : m = Len(h)
  BY <1>2
<1>4. CASE m <= size
  BY <1>1, <1>2, <1>3, <1>4 DEF Evicted, EvictedTo
<1>5. CASE m > size
  <2>1. PICK c \in Nat : c = m - size /\ c + 1 = m - size + 1 /\ c + 1 \in 1..m /\ c + size = m
    BY <1>1, <1>5
  <2>2. PICK newest : newest = SubSeq(h, m - size + 1, m)
    OBVIOUS
  <2>3. /\ newest \in Seq(TickType) /\ Len(newest) = size /\ newest # <<>>
        /\ \A i \in 1..size : newest[i] = h[c + i] /\ c + i \in 1..m
    <3>1. newest = SubSeq(h, c + 1, m) /\ m - c = size /\ c <= m
      BY <2>1, <2>2
    <3>2. /\ newest \in Seq(TickType) /\ Len(newest) = size
          /\ \A i \in 1..size : newest[i] = h[c + i] /\ c + i \in 1..m
      <4>1. h \in Seq(TickType) /\ c \in Nat /\ m \in Nat /\ c <= m /\ m <= Len(h) /\ Len(h) = m
        BY <1>3, <3>1
      <4>2. /\ SubSeq(h, c + 1, m) \in Seq(TickType) /\ Len(SubSeq(h, c + 1, m)) = m - c
            /\ \A i \in 1..(m - c) : SubSeq(h, c + 1, m)[i] = h[c + i] /\ c + i \in 1..Len(h)
        BY <4>1, Segment
      <4> QED BY <3>1, <4>1, <4>2
    <3>3. newest # <<>>
      BY <1>1, <3>2
    <3> QED BY <3>2, <3>3
  <2>4. newest[1] = h[c + 1] /\ 1 \in 1..m /\ h[1].sequence <= newest[1].sequence
        /\ h[1].sequence \in Nat /\ newest[1].sequence \in Nat
    <3>1. newest[1] = h[c + 1] /\ 1 \in 1..m
      BY <1>1, <2>1, <2>3
    <3>2. h[1] \in TickType /\ h[c + 1] \in TickType
      BY <1>2, <1>3, <2>1, <3>1
    <3>3. c + 1 = 1 \/ 1 < c + 1
      OBVIOUS
    <3>4. 1 < c + 1 => h[1].sequence < h[c + 1].sequence
      BY <1>2, <1>3, <2>1, <3>1 DEF HistoryFits
    <3> QED BY <3>1, <3>2, <3>3, <3>4 DEF TickType
  <2>5. HistoryFits(newest, es, p)
    <3>1. ASSUME NEW i \in 1..size, NEW j \in 1..size, i < j PROVE newest[i].sequence < newest[j].sequence
      <4>1. c + i \in 1..m /\ c + j \in 1..m /\ c + i < c + j
        BY <2>3, <3>1
      <4>2. h[c + i].sequence < h[c + j].sequence
        BY <1>2, <1>3, <4>1 DEF HistoryFits
      <4> QED BY <2>3, <4>2
    <3>2. ASSUME NEW i \in 1..size
          PROVE  \E k \in 1..p : es[k].kind = "tick" /\ es[k].tick = newest[i]
      <4>1. newest[i] = h[c + i] /\ c + i \in 1..m
        BY <2>3
      <4> QED BY <1>2, <1>3, <4>1 DEF HistoryFits
    <3>3. ASSUME NEW k \in 1..p, es[k].kind = "tick", es[k].tick.sequence >= newest[1].sequence
          PROVE  \E i \in 1..size : newest[i] = es[k].tick
      <4>1. es[k].tick.sequence \in Nat
        <5>1. es[k] \in Entry
          BY DEF RecordInv
        <5> QED BY <3>3, <5>1, EntryFields
      <4>2. es[k].tick.sequence >= h[1].sequence
        BY <2>4, <3>3, <4>1
      <4>3. PICK i \in 1..m : h[i] = es[k].tick
        BY <1>2, <1>3, <3>3, <4>2 DEF HistoryFits
      <4>4. ~(i < c + 1)
        <5>1. i < c + 1 => h[i].sequence < h[c + 1].sequence
          BY <1>2, <1>3, <2>1 DEF HistoryFits
        <5> QED BY <2>4, <3>3, <4>1, <4>3, <5>1
      <4>5. PICK j \in 1..size : i = c + j
        <5>1. i - c \in 1..size /\ i = c + (i - c)
          BY <2>1, <4>4
        <5> QED BY <5>1
      <4> QED BY <2>3, <4>3, <4>5
    <3> QED BY <2>3, <3>1, <3>2, <3>3 DEF HistoryFits
  <2>6. PICK d \in 0..p : /\ x.entries = SubSeq(es, d + 1, p)
                          /\ \A k \in 1..d : h # <<>> /\ Concerns(es[k]) < h[1].sequence
    BY <1>2 DEF Fits, EntriesFit
  <2>7. PICK l \in Nat : l = p - d /\ l = Len(x.entries) /\ \A k \in 1..l : x.entries[k] = es[d + k]
    <3>1. es \in Seq(Entry) /\ d <= p /\ p <= Len(es) /\ d \in Nat /\ p \in Nat
      BY DEF RecordInv
    <3>2. p - d \in Nat
      OBVIOUS
    <3>3. Len(x.entries) = p - d /\ \A k \in 1..(p - d) : x.entries[k] = es[d + k]
      BY <2>6, <3>1, Segment
    <3> QED BY <3>2, <3>3
  <2> DEFINE gone(e) == Obsolete(e, newest[1].sequence)
             Drops(k) == /\ \A j \in 1..k : gone(x.entries[j])
                         /\ k < l => ~gone(x.entries[k + 1])
             drop == CHOOSE k \in 0..l : Drops(k)
  <2> HIDE DEF gone
  <2>8. \E k \in 0..l : Drops(k)
    <3> DEFINE P == {k \in 0..l : k = l \/ ~gone(x.entries[k + 1])}
    <3>1. PICK q \in P : \A k \in P : q <= k
      <4>1. l \in P /\ P \subseteq Nat
        OBVIOUS
      <4> HIDE DEF P
      <4> QED BY <4>1, LeastNatural
    <3>2. ASSUME NEW j \in 1..q PROVE gone(x.entries[j])
      <4>1. PICK k \in 0..l : k = j - 1 /\ k + 1 = j /\ k < l /\ k < q
        BY <3>1
      <4>2. k \notin P
        <5> HIDE DEF P
        <5>1. q \in Int /\ \A i \in P : q <= i
          BY <3>1 DEF P
        <5> QED BY <4>1, <5>1
      <4> QED BY <4>1, <4>2
    <3> QED BY <3>1, <3>2
  <2>9. drop \in 0..l /\ Drops(drop)
    <3> HIDE DEF Drops
    <3> QED BY <2>8
  <2>10. PICK b \in 0..l : b = drop /\ \A j \in 1..b : gone(x.entries[j])
    BY <2>9
  <2>11. Evicted(x) = [x EXCEPT !.history = newest, !.entries = SubSeq(@, b + 1, Len(@))]
    <3>1. ~(Len(x.history) <= RetainTicks)
      BY <1>1, <1>2, <1>3, <1>5
    <3> QED BY <1>1, <1>2, <1>3, <2>2, <2>7, <2>10, <3>1 DEF Evicted, EvictedTo, gone
  <2>12. PICK y : y = Evicted(x)
    OBVIOUS
  <2>13. /\ y.history = newest /\ y.entries = SubSeq(x.entries, b + 1, l)
         /\ y.head = x.head /\ y.expectNext = x.expectNext /\ y.seams = x.seams
         /\ y = [entries |-> y.entries, history |-> y.history, head |-> y.head,
                 expectNext |-> y.expectNext, seams |-> y.seams]
    <3>1. x = [entries |-> x.entries, history |-> x.history, head |-> x.head,
               expectNext |-> x.expectNext, seams |-> x.seams]
      BY DEF Fits
    <3>2. y = [entries |-> SubSeq(x.entries, b + 1, l), history |-> newest, head |-> x.head,
               expectNext |-> x.expectNext, seams |-> x.seams]
      BY <2>7, <2>11, <2>12, <3>1
    <3> QED BY <3>2
  <2>14. EntriesFit(y.entries, newest, es, p)
    <3>1. d + b \in 0..p
      BY <2>7
    <3>2. y.entries = SubSeq(es, d + b + 1, p)
      <4>1. es \in Seq(Entry) /\ d + b <= p /\ p <= Len(es) /\ d \in Nat /\ p \in Nat /\ b \in Nat
        BY <3>1 DEF RecordInv
      <4>2. SubSeq(SubSeq(es, d + 1, p), b + 1, p - d) = SubSeq(es, d + b + 1, p)
        BY <4>1, SegmentOfSegment
      <4> QED BY <2>6, <2>7, <2>13, <4>2
    <3>3. ASSUME NEW k \in 1..(d + b) PROVE Concerns(es[k]) < newest[1].sequence
      <4>1. es[k] \in Entry
        BY <3>1 DEF RecordInv
      <4>2. Concerns(es[k]) \in Nat
        BY <4>1, EntryFields
      <4>3. CASE k <= d
        BY <2>4, <2>6, <4>2, <4>3
      <4>4. CASE k > d
        <5>1. PICK j \in 1..b : k = d + j /\ j \in 1..l
          <6>1. k - d \in 1..b /\ k = d + (k - d)
            BY <4>4
          <6> QED BY <6>1
        <5> QED BY <2>7, <2>10, <5>1 DEF gone, Obsolete
      <4> QED BY <4>3, <4>4
    <3> QED BY <2>3, <3>1, <3>2, <3>3 DEF EntriesFit
  <2>15. y \in [entries : Seq(Entry), history : Seq(TickType), head : Nat, expectNext : Nat,
                seams : SUBSET SeamType]
    <3>1. x.entries \in Seq(Entry) /\ x.head \in Nat /\ x.expectNext \in Nat /\ x.seams \in SUBSET SeamType
      BY DEF Fits
    <3>2. y.entries \in Seq(Entry)
      <4>1. b \in Nat /\ b <= l /\ l = Len(x.entries)
        BY <2>7
      <4>2. SubSeq(x.entries, b + 1, l) \in Seq(Entry)
        BY <3>1, <4>1, Segment
      <4> QED BY <2>13, <4>2
    <3> QED BY <2>3, <2>13, <3>1, <3>2
  <2>16. Fits(y, es, p)
    BY <2>5, <2>13, <2>14, <2>15 DEF Fits
  <2> QED BY <1>1, <2>3, <2>12, <2>13, <2>16
<1> QED BY <1>4, <1>5

-----------------------------------------------------------------------------
(* The steps *)

\* What a follower fits in a record, it fits when the record grows.
LEMMA FitsInMore ==
  ASSUME NEW es, RecordInv(es), NEW e \in Entry, NEW p \in 0..Len(es)
  PROVE  /\ p \in 0..Len(Append(es, e))
         /\ SubSeq(Append(es, e), 1, p) = SubSeq(es, 1, p)
         /\ \A x : Fits(x, es, p) => Fits(x, Append(es, e), p)
         /\ \A batches : ReadingFits(batches, es, p) => ReadingFits(batches, Append(es, e), p)
<1>1. es \in Seq(Entry)
  BY DEF RecordInv
<1>2. PICK n \in Nat : n = Len(es)
  BY <1>1
<1>3. PICK fs : fs = Append(es, e) /\ fs \in Seq(Entry) /\ Len(fs) = n + 1 /\ \A k \in 1..n : fs[k] = es[k]
  <2>1. /\ Append(es, e) \in Seq(Entry) /\ Len(Append(es, e)) = n + 1
        /\ \A k \in 1..n : Append(es, e)[k] = es[k]
    BY <1>1, <1>2
  <2> QED BY <2>1, Zenon
<1>4. ASSUME NEW a \in Nat, NEW b \in Nat, a <= b, b <= n
      PROVE  SubSeq(fs, a + 1, b) = SubSeq(es, a + 1, b)
  <2>1. /\ SubSeq(fs, a + 1, b) \in Seq(Entry) /\ Len(SubSeq(fs, a + 1, b)) = b - a
        /\ \A i \in 1..(b - a) : SubSeq(fs, a + 1, b)[i] = fs[a + i]
    <3>1. b <= Len(fs)
      BY <1>2, <1>3, <1>4
    <3> QED BY <1>3, <1>4, <3>1, Segment
  <2>2. /\ SubSeq(es, a + 1, b) \in Seq(Entry) /\ Len(SubSeq(es, a + 1, b)) = b - a
        /\ \A i \in 1..(b - a) : SubSeq(es, a + 1, b)[i] = es[a + i]
    <3>1. b <= Len(es)
      BY <1>2, <1>4
    <3> QED BY <1>1, <1>4, <3>1, Segment
  <2>3. \A i \in 1..(b - a) : a + i \in 1..n
    BY <1>4
  <2>4. \A i \in 1..(b - a) : SubSeq(fs, a + 1, b)[i] = SubSeq(es, a + 1, b)[i]
    BY <1>3, <2>1, <2>2, <2>3
  <2> QED BY <2>1, <2>2, <2>4, SameSequence
<1>5. p \in 0..Len(fs) /\ \A k \in 1..p : fs[k] = es[k]
  BY <1>2, <1>3
<1>6. SubSeq(fs, 1, p) = SubSeq(es, 1, p)
  <2>1. 0 \in Nat /\ p \in Nat /\ 0 <= p /\ p <= n /\ 0 + 1 = 1
    BY <1>2
  <2> QED BY <1>4, <2>1
<1>7. ASSUME NEW x, Fits(x, es, p) PROVE Fits(x, fs, p)
  <2>0. p = 0 \/ p \in 1..p
    BY <1>2
  <2>1. HistoryFits(x.history, fs, p)
    <3>1. PICK h : h = x.history /\ HistoryFits(h, es, p)
      BY <1>7 DEF Fits
    <3>2. ASSUME NEW i \in 1..Len(h)
          PROVE  \E k \in 1..p : fs[k].kind = "tick" /\ fs[k].tick = h[i]
      <4>1. PICK k \in 1..p : es[k].kind = "tick" /\ es[k].tick = h[i]
        BY <3>1 DEF HistoryFits
      <4> QED BY <1>5, <4>1
    <3>3. ASSUME NEW k \in 1..p, fs[k].kind = "tick"
          PROVE  /\ h # <<>>
                 /\ fs[k].tick.sequence >= h[1].sequence => \E i \in 1..Len(h) : h[i] = fs[k].tick
      <4>1. fs[k] = es[k]
        BY <1>5
      <4> QED BY <3>1, <3>3, <4>1 DEF HistoryFits
    <3>4. HistoryFits(h, fs, p)
      BY <3>1, <3>2, <3>3 DEF HistoryFits
    <3> QED BY <3>1, <3>4
  <2>2. EntriesFit(x.entries, x.history, fs, p)
    <3>1. PICK d \in 0..p : /\ x.entries = SubSeq(es, d + 1, p)
                            /\ \A k \in 1..d : x.history # <<>> /\ Concerns(es[k]) < x.history[1].sequence
      BY <1>7 DEF Fits, EntriesFit
    <3>2. d \in Nat /\ p \in Nat /\ d <= p /\ p <= n
      BY <1>2
    <3>3. SubSeq(fs, d + 1, p) = SubSeq(es, d + 1, p)
      BY <1>4, <3>2
    <3>4. \A k \in 1..d : fs[k] = es[k]
      BY <1>5
    <3> QED BY <3>1, <3>3, <3>4 DEF EntriesFit
  <2>3. /\ x.head = IF p = 0 THEN 0 ELSE HeadAfter(fs[p])
        /\ x.expectNext = IF p = 0 THEN 0 ELSE NextAfter(fs[p])
    BY <1>5, <1>7, <2>0 DEF Fits
  <2>4. /\ x \in [entries : Seq(Entry), history : Seq(TickType), head : Nat, expectNext : Nat,
                  seams : SUBSET SeamType]
        /\ \A k \in 1..p : es[k].kind = "seam" => es[k].seam \in x.seams
        /\ \A seam \in x.seams : \E k \in 1..p : es[k].kind = "seam" /\ es[k].seam = seam
    BY <1>7 DEF Fits
  <2>5. /\ \A k \in 1..p : fs[k].kind = "seam" => fs[k].seam \in x.seams
        /\ \A seam \in x.seams : \E k \in 1..p : fs[k].kind = "seam" /\ fs[k].seam = seam
    BY <1>5, <2>4
  <2> QED BY <2>1, <2>2, <2>3, <2>4, <2>5 DEF Fits
<1>8. ASSUME NEW batches, ReadingFits(batches, es, p) PROVE ReadingFits(batches, fs, p)
  <2>1. CASE batches = <<>>
    BY <2>1 DEF ReadingFits
  <2>2. CASE batches # <<>>
    <3>1. PICK k \in 1..ReadLimit : p + k <= Len(es) /\ batches = <<SubSeq(es, p + 1, p + k)>>
      BY <1>8, <2>2 DEF ReadingFits
    <3>2. p \in Nat /\ k \in Nat /\ p + k \in Nat /\ p <= p + k /\ p + k <= n /\ p + k <= Len(fs)
      BY <1>2, <1>3, <3>1, FollowerAssumption
    <3>3. SubSeq(fs, p + 1, p + k) = SubSeq(es, p + 1, p + k)
      BY <1>4, <3>2
    <3> QED BY <3>1, <3>2, <3>3 DEF ReadingFits
  <2> QED BY <2>1, <2>2
<1> QED
  BY <1>3, <1>5, <1>6, <1>7, <1>8

\* Nobody has taken anything.
LEMMA InitKeeps == Init => IInv
<1> SUFFICES ASSUME Init PROVE IInv
  OBVIOUS
<1>1. record = <<>> /\ Len(record) = 0
  BY DEF Init
<1>2. RecordInv(record)
  BY <1>1 DEF RecordInv
<1>3. ASSUME NEW f \in Followers PROVE FollowerInv(f)
  <2>1. taken[f] = <<>> /\ reading[f] = <<>> /\ follower[f] = NewFollower
    BY DEF Init
  <2>2. 0 \in 0..Len(record) /\ SubSeq(record, 1, 0) = <<>>
    BY <1>1
  <2>3. Fits(NewFollower, record, 0)
    <3>1. HistoryFits(<<>>, record, 0)
      BY DEF HistoryFits
    <3>2. EntriesFit(<<>>, <<>>, record, 0)
      <4>1. 0 \in 0..0 /\ SubSeq(record, 0 + 1, 0) = <<>> /\ 1..0 = {}
        BY <1>1
      <4> QED BY <4>1 DEF EntriesFit
    <3>3. /\ NewFollower.entries = <<>> /\ NewFollower.history = <<>> /\ NewFollower.head = 0
          /\ NewFollower.expectNext = 0 /\ NewFollower.seams = {}
          /\ NewFollower \in [entries : Seq(Entry), history : Seq(TickType), head : Nat,
                              expectNext : Nat, seams : SUBSET SeamType]
      BY DEF NewFollower
    <3> QED BY <3>1, <3>2, <3>3 DEF Fits
  <2>4. Len(NewFollower.history) <= RetainTicks
    BY FollowerAssumption DEF NewFollower
  <2>5. ReadingFits(reading[f], record, 0)
    BY <2>1 DEF ReadingFits
  <2> QED BY <2>1, <2>2, <2>3, <2>4, <2>5 DEF FollowerInv
<1>4. DOMAIN follower = Followers /\ DOMAIN reading = Followers /\ DOMAIN taken = Followers
  BY DEF Init
<1> QED BY <1>2, <1>3, <1>4 DEF IInv, FollowersInv

\* The record grows.
LEMMA WriteKeepsInv ==
  ASSUME Deployed, IInv, WriteTick \/ WriteSeam
  PROVE  IInv'
<1>1. RecordInv(record) /\ FollowersInv
  BY DEF IInv
<1>2. RecordInv(record')
  BY <1>1, WriteKeeps
<1>3. PICK e \in Entry : record' = Append(record, e)
  BY <1>1, WriteKeeps
<1>4. UNCHANGED <<follower, reading, taken>>
  BY DEF WriteTick, WriteSeam
<1>5. ASSUME NEW f \in Followers PROVE FollowerInv(f)'
  <2>1. PICK p \in 0..Len(record) :
          /\ taken[f] = SubSeq(record, 1, p)
          /\ Fits(follower[f], record, p)
          /\ Len(follower[f].history) <= RetainTicks
          /\ ReadingFits(reading[f], record, p)
    BY <1>1 DEF FollowersInv, FollowerInv
  <2>2. /\ p \in 0..Len(record')
        /\ SubSeq(record', 1, p) = SubSeq(record, 1, p)
        /\ Fits(follower[f], record', p)
        /\ ReadingFits(reading[f], record', p)
    BY <1>1, <1>3, <2>1, FitsInMore
  <2>3. /\ taken'[f] = SubSeq(record', 1, p)
        /\ Fits(follower'[f], record', p)
        /\ Len(follower'[f].history) <= RetainTicks
        /\ ReadingFits(reading'[f], record', p)
    BY <1>4, <2>1, <2>2
  <2> QED BY <2>2, <2>3 DEF FollowerInv
<1> QED BY <1>1, <1>2, <1>4, <1>5 DEF IInv, FollowersInv

\* A pull reads what comes after the follower's place.
LEMMA PullKeepsInv ==
  ASSUME Deployed, IInv, NEW f \in Followers, Pull(f)
  PROVE  IInv'
<1>1. RecordInv(record) /\ FollowersInv
  BY DEF IInv
<1>2. PICK p \in 0..Len(record) :
        /\ taken[f] = SubSeq(record, 1, p)
        /\ Fits(follower[f], record, p)
        /\ Len(follower[f].history) <= RetainTicks
        /\ ReadingFits(reading[f], record, p)
  BY <1>1 DEF FollowersInv, FollowerInv
<1>3. PICK from : from = IF p = 0 THEN 1 ELSE NextAfter(record[p])
  OBVIOUS
<1>4. from = IF follower[f].expectNext = 0 THEN 1 ELSE follower[f].expectNext
  <2>1. follower[f].expectNext = IF p = 0 THEN 0 ELSE NextAfter(record[p])
    BY <1>2 DEF Fits
  <2>2. p # 0 => NextAfter(record[p]) # 0
    <3>1. from \in Nat \ {0}
      BY <1>1, <1>3, ReadsFromPlace
    <3> QED BY <1>3, <3>1
  <2> QED BY <1>3, <2>1, <2>2
<1>5. PICK batch : batch = ReadRecord(record, from, ReadLimit)
  OBVIOUS
<1>6. /\ Len(reading[f]) < MaxInFlight /\ batch # <<>>
      /\ reading' = [reading EXCEPT ![f] = Append(@, batch)]
      /\ UNCHANGED <<record, follower, taken>>
  BY <1>4, <1>5 DEF Pull
<1>7. reading[f] = <<>>
  <2>1. reading[f] = <<>> \/ \E b : reading[f] = <<b>>
    BY <1>2 DEF ReadingFits
  <2>2. ASSUME NEW b, reading[f] = <<b>> PROVE FALSE
    BY <1>6, <2>2 DEF Deployed
  <2> QED BY <2>1, <2>2
<1>8. PICK k \in 1..ReadLimit : p + k <= Len(record) /\ batch = SubSeq(record, p + 1, p + k)
  BY <1>1, <1>3, <1>5, <1>6, ReadReturns
<1>9. reading'[f] = <<batch>>
  <2>1. reading'[f] = Append(reading[f], batch)
    BY <1>1, <1>6 DEF FollowersInv
  <2> QED BY <1>7, <2>1
<1>10. ReadingFits(reading'[f], record', p)
  BY <1>6, <1>8, <1>9 DEF ReadingFits
<1>11. FollowerInv(f)'
  BY <1>2, <1>6, <1>10 DEF FollowerInv
<1>12. ASSUME NEW g \in Followers, g # f PROVE FollowerInv(g)'
  <2>1. reading'[g] = reading[g]
    BY <1>1, <1>6, <1>12 DEF FollowersInv
  <2>2. FollowerInv(g)
    BY <1>1 DEF FollowersInv
  <2> QED BY <1>6, <2>1, <2>2 DEF FollowerInv
<1> QED BY <1>1, <1>6, <1>11, <1>12 DEF IInv, FollowersInv

\* What an application does: the whole batch is taken.
LEMMA ApplyTakes ==
  ASSUME Deployed, IInv, NEW f \in Followers, Apply(f)
  PROVE  \E p \in 0..Len(record), n \in 1..ReadLimit :
           /\ p + n \in 0..Len(record)
           /\ taken[f] = SubSeq(record, 1, p)
           /\ Fits(follower'[f], record, p + n)
           /\ Len(follower'[f].history) <= RetainTicks
           /\ reading' = [reading EXCEPT ![f] = <<>>]
           /\ taken' = [taken EXCEPT ![f] = SubSeq(record, 1, p + n)]
           /\ \A g \in Followers \ {f} : follower'[g] = follower[g]
           /\ DOMAIN follower' = Followers
           /\ record' = record
<1>1. RecordInv(record) /\ FollowersInv
  BY DEF IInv
<1>2. PICK p \in 0..Len(record) :
        /\ taken[f] = SubSeq(record, 1, p)
        /\ Fits(follower[f], record, p)
        /\ ReadingFits(reading[f], record, p)
  BY <1>1 DEF FollowersInv, FollowerInv
<1>3. PICK i \in DOMAIN reading[f] :
        LET batch    == reading[f][i]
            accepted == AcceptedOf(follower[f], batch)
            stage    == Stages(follower[f], batch)[accepted]
        IN /\ follower' = [follower EXCEPT ![f] = IF accepted = Len(batch) THEN Evicted(stage) ELSE stage]
           /\ taken' = [taken EXCEPT ![f] = @ \o SubSeq(batch, 1, accepted)]
           /\ reading' = [reading EXCEPT ![f] = RemoveAt(@, i)]
           /\ UNCHANGED record
  BY DEF Apply
<1>4. reading[f] # <<>>
  BY <1>3
<1>5. PICK n \in 1..ReadLimit : p + n <= Len(record) /\ reading[f] = <<SubSeq(record, p + 1, p + n)>>
  BY <1>2, <1>4 DEF ReadingFits
<1>6. PICK batch : batch = SubSeq(record, p + 1, p + n)
  OBVIOUS
<1>7. i = 1 /\ reading[f][i] = batch /\ RemoveAt(reading[f], i) = <<>>
  <2>1. reading[f] = <<batch>>
    BY <1>5, <1>6
  <2>2. i = 1 /\ reading[f][i] = batch
    BY <2>1
  <2>3. RemoveAt(<<batch>>, 1) = <<>>
    BY DEF RemoveAt
  <2> QED BY <2>1, <2>2, <2>3
<1>8. n \in Nat /\ p \in Nat /\ p + n \in Nat /\ p + n \in 0..Len(record) /\ p <= p + n
  BY <1>5, FollowerAssumption DEF RecordInv
<1>9. /\ batch \in Seq(Entry) /\ Len(batch) = n
      /\ \A k \in 1..n : batch[k] = record[p + k] /\ p + k \in 1..Len(record)
  <2>1. record \in Seq(Entry) /\ p + n <= Len(record) /\ (p + n) - p = n
    BY <1>1, <1>5, <1>8 DEF RecordInv
  <2> QED BY <1>6, <1>8, <2>1, Segment
<1>10. /\ AcceptedOf(follower[f], batch) = n
       /\ Fits(Stages(follower[f], batch)[n], record, p + n)
  <2>1. n = Len(batch) /\ p + n <= Len(record)
    BY <1>5, <1>9
  <2> HIDE DEF Fits
  <2> QED BY <1>1, <1>2, <1>8, <1>9, <2>1, BatchApplied
<1>11. PICK stage : stage = Stages(follower[f], batch)[n]
  OBVIOUS
<1>12. Fits(Evicted(stage), record, p + n) /\ Len(Evicted(stage).history) <= RetainTicks
  BY <1>1, <1>8, <1>10, <1>11, EvictionFits
<1>13. /\ follower' = [follower EXCEPT ![f] = Evicted(stage)]
       /\ taken' = [taken EXCEPT ![f] = @ \o SubSeq(batch, 1, n)]
       /\ reading' = [reading EXCEPT ![f] = <<>>]
       /\ record' = record
  BY <1>3, <1>7, <1>9, <1>10, <1>11
<1>14. taken[f] \o SubSeq(batch, 1, n) = SubSeq(record, 1, p + n)
  <2>1. record \in Seq(Entry)
    BY <1>1 DEF RecordInv
  <2>2. PICK old : old = SubSeq(record, 1, p) /\ old \in Seq(Entry) /\ Len(old) = p /\ \A k \in 1..p : old[k] = record[k]
    <3>1. 0 \in Nat /\ 0 <= p /\ p <= Len(record) /\ p - 0 = p /\ 0 + 1 = 1
      BY <1>8
    <3>2. /\ SubSeq(record, 0 + 1, p) \in Seq(Entry) /\ Len(SubSeq(record, 0 + 1, p)) = p - 0
          /\ \A k \in 1..(p - 0) : SubSeq(record, 0 + 1, p)[k] = record[0 + k]
      BY <1>8, <2>1, <3>1, Segment
    <3>3. \A k \in 1..p : 0 + k = k
      BY <1>8
    <3> QED BY <3>1, <3>2, <3>3
  <2>3. PICK new : new = SubSeq(record, 1, p + n) /\ new \in Seq(Entry) /\ Len(new) = p + n /\ \A k \in 1..(p + n) : new[k] = record[k]
    <3>1. 0 \in Nat /\ 0 <= p + n /\ p + n <= Len(record) /\ (p + n) - 0 = p + n /\ 0 + 1 = 1
      BY <1>8
    <3>2. /\ SubSeq(record, 0 + 1, p + n) \in Seq(Entry) /\ Len(SubSeq(record, 0 + 1, p + n)) = (p + n) - 0
          /\ \A k \in 1..((p + n) - 0) : SubSeq(record, 0 + 1, p + n)[k] = record[0 + k]
      BY <1>8, <2>1, <3>1, Segment
    <3>3. \A k \in 1..(p + n) : 0 + k = k
      BY <1>8
    <3> QED BY <3>1, <3>2, <3>3
  <2>4. SubSeq(batch, 1, n) = batch
    BY <1>8, <1>9
  <2>5. PICK both : both = old \o batch /\ both \in Seq(Entry) /\ Len(both) = p + n /\ \A k \in 1..(p + n) : both[k] = IF k <= p THEN old[k] ELSE batch[k - p]
    <3>1. /\ old \o batch \in Seq(Entry) /\ Len(old \o batch) = p + n
          /\ \A k \in 1..(p + n) : (old \o batch)[k] = IF k <= p THEN old[k] ELSE batch[k - p]
      <4>1. old \o batch \in Seq(Entry) /\ Len(old \o batch) = Len(old) + Len(batch)
        BY <1>9, <2>2, Joined
      <4>2. \A k \in 1..(Len(old) + Len(batch)) :
              (old \o batch)[k] = IF k <= Len(old) THEN old[k] ELSE batch[k - Len(old)]
        BY <1>9, <2>2, Joined
      <4> QED BY <1>9, <2>2, <4>1, <4>2
    <3> QED BY <3>1, Zenon
  <2>6. ASSUME NEW k \in 1..(p + n) PROVE both[k] = new[k]
    <3>1. CASE k <= p
      BY <1>8, <2>2, <2>3, <2>5, <3>1
    <3>2. CASE ~(k <= p)
      <4>1. k - p \in 1..n /\ p + (k - p) = k
        BY <1>8, <3>2
      <4> QED BY <1>9, <2>3, <2>5, <3>2, <4>1
    <3> QED BY <3>1, <3>2
  <2>7. both = new
    BY <2>3, <2>5, <2>6, SameSequence
  <2> QED BY <1>2, <2>2, <2>3, <2>4, <2>5, <2>7
<1>15. /\ taken' = [taken EXCEPT ![f] = SubSeq(record, 1, p + n)]
       /\ follower'[f] = Evicted(stage) /\ DOMAIN follower' = Followers
       /\ \A g \in Followers \ {f} : follower'[g] = follower[g]
  BY <1>1, <1>13, <1>14 DEF FollowersInv
<1> QED BY <1>2, <1>5, <1>8, <1>12, <1>13, <1>15

\* Applying moves the follower past the batch.
LEMMA ApplyKeepsInv ==
  ASSUME Deployed, IInv, NEW f \in Followers, Apply(f)
  PROVE  IInv'
<1>1. RecordInv(record) /\ FollowersInv
  BY DEF IInv
<1>2. PICK p \in 0..Len(record), n \in 1..ReadLimit :
           /\ p + n \in 0..Len(record)
           /\ taken[f] = SubSeq(record, 1, p)
           /\ Fits(follower'[f], record, p + n)
           /\ Len(follower'[f].history) <= RetainTicks
           /\ reading' = [reading EXCEPT ![f] = <<>>]
           /\ taken' = [taken EXCEPT ![f] = SubSeq(record, 1, p + n)]
           /\ \A g \in Followers \ {f} : follower'[g] = follower[g]
           /\ DOMAIN follower' = Followers
           /\ record' = record
  BY ApplyTakes
<1>3. FollowerInv(f)'
  <2>1. taken'[f] = SubSeq(record', 1, p + n) /\ reading'[f] = <<>> /\ p + n \in 0..Len(record')
    BY <1>1, <1>2 DEF FollowersInv
  <2>2. ReadingFits(reading'[f], record', p + n)
    BY <2>1 DEF ReadingFits
  <2> QED BY <1>2, <2>1, <2>2 DEF FollowerInv
<1>4. ASSUME NEW g \in Followers, g # f PROVE FollowerInv(g)'
  <2>1. reading'[g] = reading[g] /\ taken'[g] = taken[g] /\ follower'[g] = follower[g]
    BY <1>1, <1>2, <1>4 DEF FollowersInv
  <2>2. FollowerInv(g)
    BY <1>1 DEF FollowersInv
  <2> QED BY <1>2, <2>1, <2>2 DEF FollowerInv
<1> QED BY <1>1, <1>2, <1>3, <1>4 DEF IInv, FollowersInv

\* Every step keeps the invariant.
LEMMA NextKeeps == Deployed /\ IInv /\ [Next]_vars => IInv'
<1> SUFFICES ASSUME Deployed, IInv, [Next]_vars PROVE IInv'
  OBVIOUS
<1>1. CASE WriteTick \/ WriteSeam
  BY <1>1, WriteKeepsInv
<1>2. ASSUME NEW f \in Followers, Pull(f) PROVE IInv'
  BY <1>2, PullKeepsInv
<1>3. ASSUME NEW f \in Followers, Apply(f) PROVE IInv'
  BY <1>3, ApplyKeepsInv
<1>4. CASE UNCHANGED vars
  BY <1>4 DEF vars, IInv, FollowersInv, FollowerInv
<1> QED BY <1>1, <1>2, <1>3, <1>4 DEF Next

\* In every reachable state the record is one market's, and each follower stands
\* at a place in it (follower.ts apply, #evict).
THEOREM Inductive ==
  ASSUME Deployed
  PROVE  Spec => []IInv
<1>1. IInv /\ [Next]_vars => IInv'
  BY NextKeeps
<1> QED BY <1>1, InitKeeps, PTL DEF Spec

\* Every variable has its type.
THEOREM TypeCorrect ==
  ASSUME Deployed
  PROVE  Spec => []TypeOK
<1>1. IInv => TypeOK
  <2>1. SUFFICES ASSUME IInv PROVE TypeOK
    OBVIOUS
  <2>2. ASSUME NEW k \in DOMAIN record PROVE record[k].kind \in {"tick", "seam"}
    <3>1. record[k] \in Entry
      BY <2>1, <2>2 DEF IInv, RecordInv
    <3> QED BY <3>1, EntryFields
  <2>3. ASSUME NEW f \in Followers
        PROVE  /\ follower[f].head \in Nat /\ follower[f].expectNext \in Nat
               /\ Len(follower[f].history) \in 0..RetainTicks
               /\ Len(reading[f]) \in 0..MaxInFlight
               /\ \A i \in DOMAIN reading[f] : Len(reading[f][i]) \in 1..ReadLimit
    <3>1. PICK p \in 0..Len(record) :
            /\ Fits(follower[f], record, p)
            /\ Len(follower[f].history) <= RetainTicks
            /\ ReadingFits(reading[f], record, p)
      BY <2>1 DEF IInv, FollowersInv, FollowerInv
    <3>2. /\ follower[f].head \in Nat /\ follower[f].expectNext \in Nat
          /\ follower[f].history \in Seq(TickType)
      BY <3>1 DEF Fits
    <3>3. Len(follower[f].history) \in 0..RetainTicks
      BY <3>1, <3>2, FollowerAssumption
    <3>4. CASE reading[f] = <<>>
      BY <3>2, <3>3, <3>4 DEF Deployed
    <3>5. CASE reading[f] # <<>>
      <4>1. PICK n \in 1..ReadLimit : p + n <= Len(record) /\ reading[f] = <<SubSeq(record, p + 1, p + n)>>
        BY <3>1, <3>5 DEF ReadingFits
      <4>2. PICK batch : batch = SubSeq(record, p + 1, p + n)
        OBVIOUS
      <4>3. Len(batch) = n
        <5>1. /\ record \in Seq(Entry) /\ p \in Nat /\ p + n \in Nat /\ p <= p + n /\ p + n <= Len(record)
              /\ (p + n) - p = n
          BY <2>1, <4>1, FollowerAssumption DEF IInv, RecordInv
        <5> QED BY <4>2, <5>1, Segment
      <4>4. reading[f] = <<batch>> /\ Len(reading[f]) = 1 /\ DOMAIN reading[f] = {1} /\ reading[f][1] = batch
        <5>1. reading[f] = <<batch>>
          BY <4>1, <4>2
        <5> QED BY <5>1
      <4> QED BY <3>2, <3>3, <4>3, <4>4 DEF Deployed
    <3> QED BY <3>4, <3>5
  <2> QED BY <2>2, <2>3 DEF TypeOK
<1> QED BY <1>1, Inductive, PTL

\* A follower holds a prefix of the record, however it reads and whatever it has
\* evicted (follower.ts pull, apply).
THEOREM Prefix ==
  ASSUME Deployed
  PROVE  Spec => []HoldsAPrefix
<1>1. IInv => HoldsAPrefix
  <2>1. SUFFICES ASSUME IInv, NEW f \in Followers PROVE IsPrefix(taken[f], record)
    BY DEF HoldsAPrefix
  <2>2. PICK p \in 0..Len(record) : taken[f] = SubSeq(record, 1, p)
    BY <2>1 DEF IInv, FollowersInv, FollowerInv
  <2>3. record \in Seq(Entry)
    BY <2>1 DEF IInv, RecordInv
  <2>4. PICK t : t = SubSeq(record, 1, p) /\ t \in Seq(Entry) /\ Len(t) = p
    <3>1. SubSeq(record, 1, p) \in Seq(Entry) /\ Len(SubSeq(record, 1, p)) = p
      BY <2>3
    <3> QED BY <3>1, Zenon
  <2>5. SubSeq(t, 1, p) = t
    BY <2>4
  <2> QED BY <2>2, <2>4, <2>5 DEF IsPrefix
<1> QED BY <1>1, Inductive, PTL

-----------------------------------------------------------------------------
(* The abstract reader *)

\* What a step of the record or of a follower is to RecordReader.
LEMMA StepImplements ==
  ASSUME Deployed, IInv, [Next]_vars
  PROVE  [Reader!Next]_(Reader!readerVars)
<1>1. RecordInv(record) /\ FollowersInv
  BY DEF IInv
<1>2. CASE WriteTick \/ WriteSeam
  <2>1. PICK e \in Entry : record' = Append(record, e)
    BY <1>1, <1>2, WriteKeeps
  <2>2. record \in Seq(Entry) /\ taken' = taken
    BY <1>1, <1>2 DEF RecordInv, WriteTick, WriteSeam
  <2>3. Len(record') > Len(record)
    BY <2>1, <2>2
  <2>4. SubSeq(record', 1, Len(record)) = record
    <3>1. Len(record) \in 0..Len(record)
      BY <2>2
    <3>2. SubSeq(record', 1, Len(record)) = SubSeq(record, 1, Len(record))
      BY <1>1, <2>1, <3>1, FitsInMore
    <3>3. SubSeq(record, 1, Len(record)) = record
      BY <2>2
    <3> QED BY <3>2, <3>3
  <2> QED BY <2>2, <2>3, <2>4 DEF Reader!Next, Reader!Grow
<1>3. ASSUME NEW f \in Followers, Pull(f) PROVE UNCHANGED <<record, taken>>
  BY <1>3 DEF Pull
<1>4. ASSUME NEW f \in Followers, Apply(f) PROVE Reader!Take(f)
  <2>1. PICK p \in 0..Len(record), n \in 1..ReadLimit :
           /\ p + n \in 0..Len(record)
           /\ taken[f] = SubSeq(record, 1, p)
           /\ taken' = [taken EXCEPT ![f] = SubSeq(record, 1, p + n)]
           /\ record' = record
    BY <1>4, ApplyTakes
  <2>2. Len(taken[f]) = p
    BY <1>1, <2>1 DEF RecordInv
  <2>3. p + n \in (Len(taken[f]) + 1)..Len(record)
    BY <2>1, <2>2, FollowerAssumption DEF RecordInv
  <2> QED BY <2>1, <2>3 DEF Reader!Take
<1>5. CASE UNCHANGED vars
  BY <1>5 DEF vars, Reader!readerVars
<1> QED BY <1>2, <1>3, <1>4, <1>5 DEF Next, Reader!Next, Reader!readerVars

\* A follower implements the reader RecordReader.tla promises, but for its
\* fairness: it takes the entries of the record in order, none skipped, none
\* twice, and none the record does not hold (follower.ts pull and apply).
THEOREM ImplementsReader ==
  ASSUME Deployed
  PROVE  Spec => Reader!Init /\ [][Reader!Next]_(Reader!readerVars)
<1>1. Init => Reader!Init
  BY DEF Init, Reader!Init
<1>2. IInv /\ [Next]_vars => [Reader!Next]_(Reader!readerVars)
  BY StepImplements
<1> QED BY <1>1, <1>2, Inductive, PTL DEF Spec

-----------------------------------------------------------------------------
(* Answers *)

\* What a follower serves from a sequence on is what the record holds from it on,
\* up to the follower's place.
LEMMA ServesTheRecord ==
  ASSUME NEW es, RecordInv(es), NEW p \in 0..Len(es), NEW x, Fits(x, es, p),
         NEW from \in Nat \ {0}, NEW head \in Nat \ {0}, Serve(x, from, head).kind = "entries"
  PROVE  Serve(x, from, head).entries = SubSeq(es, LowerBound(es, from) + 1, p)
<1>1. PICK n \in Nat : n = Len(es) /\ es \in Seq(Entry)
  BY DEF RecordInv
<1>2. PICK d \in 0..p : /\ x.entries = SubSeq(es, d + 1, p)
                        /\ \A k \in 1..d : x.history # <<>> /\ Concerns(es[k]) < x.history[1].sequence
  BY DEF Fits, EntriesFit
<1>3. PICK old : old = x.entries
  OBVIOUS
<1>4. PICK l \in Nat : /\ l = p - d /\ old \in Seq(Entry) /\ Len(old) = l
                       /\ \A k \in 1..l : old[k] = es[d + k] /\ d + k \in 1..n
  <2>1. p - d \in Nat /\ d \in Nat /\ p \in Nat /\ d <= p /\ p <= Len(es)
    BY <1>1
  <2>2. /\ SubSeq(es, d + 1, p) \in Seq(Entry) /\ Len(SubSeq(es, d + 1, p)) = p - d
        /\ \A k \in 1..(p - d) : SubSeq(es, d + 1, p)[k] = es[d + k] /\ d + k \in 1..Len(es)
    BY <1>1, <2>1, Segment
  <2> QED BY <1>1, <1>2, <1>3, <2>1, <2>2
<1>5. /\ \A k \in 1..n : EntrySequence(es[k]) \in Int
      /\ \A j, k \in 1..n : j < k => EntrySequence(es[j]) <= EntrySequence(es[k])
  <2>1. \A k \in 1..n : EntrySequence(es[k]) \in Int
    BY <1>1, EntryFields DEF RecordInv, Sound
  <2> QED BY <1>1, <2>1 DEF RecordInv, Precedes
<1>6. PICK q \in 0..n : q = LowerBound(es, from) /\ \A k \in 1..n : EntrySequence(es[k]) < from <=> k <= q
  <2>1. from \in Int
    OBVIOUS
  <2> QED BY <1>1, <1>5, <2>1, SearchSplits
<1>7. PICK r \in 0..l : r = LowerBound(old, from) /\ \A k \in 1..l : EntrySequence(old[k]) < from <=> k <= r
  <2>1. from \in Int
    OBVIOUS
  <2>2. \A k \in 1..l : EntrySequence(old[k]) \in Int
    BY <1>4, <1>5
  <2>3. \A j, k \in 1..l : j < k => EntrySequence(old[j]) <= EntrySequence(old[k])
    <3>1. SUFFICES ASSUME NEW j \in 1..l, NEW k \in 1..l, j < k
                   PROVE  EntrySequence(old[j]) <= EntrySequence(old[k])
      OBVIOUS
    <3>2. d + j < d + k /\ d + j \in 1..n /\ d + k \in 1..n
      BY <1>4, <3>1
    <3> QED BY <1>4, <1>5, <3>2
  <2> QED BY <1>4, <2>1, <2>2, <2>3, SearchSplits
<1>8. /\ from >= OldestRetained(x)
      /\ Serve(x, from, head).entries = Slice(old, r, Len(old))
  <2>1. x.history \in Seq(TickType)
    BY DEF Fits
  <2>2. OldestRetained(x) \in Nat
    <3>1. x.history # <<>> => x.history[1] \in TickType
      BY <2>1
    <3> QED BY <3>1 DEF OldestRetained, TickType
  <2>3. ~(from > head + 1)
    BY DEF Serve
  <2>4. ~(x.head = 0 \/ from > x.head + 1)
    BY <2>3 DEF Serve
  <2>5. ~(from < OldestRetained(x))
    BY <2>3, <2>4 DEF Serve
  <2>6. Serve(x, from, head) = [kind |-> "entries", entries |-> Slice(old, r, Len(old))]
    BY <1>3, <1>7, <2>3, <2>4, <2>5 DEF Serve
  <2> QED BY <2>2, <2>5, <2>6
<1>9. \A k \in 1..d : k <= q
  <2>1. SUFFICES ASSUME NEW k \in 1..d PROVE k <= q
    OBVIOUS
  <2>2. k \in 1..n /\ es[k] \in Entry /\ Sound(es[k])
    BY <1>1 DEF RecordInv
  <2>3. x.history # <<>> /\ Concerns(es[k]) < x.history[1].sequence
    BY <1>2
  <2>4. x.history \in Seq(TickType)
    BY DEF Fits
  <2>5. PICK s \in Nat : s = x.history[1].sequence
    <3>1. x.history[1] \in TickType
      BY <2>3, <2>4
    <3> QED BY <3>1 DEF TickType
  <2>6. Concerns(es[k]) < from
    BY <1>8, <2>2, <2>3, <2>5, EntryFields DEF OldestRetained
  <2>7. EntrySequence(es[k]) <= Concerns(es[k])
    BY <2>2, EntryFields DEF Sound, EntrySequence, Concerns
  <2>8. EntrySequence(es[k]) < from
    BY <2>2, <2>6, <2>7, EntryFields
  <2> QED BY <1>6, <2>2, <2>8
<1>10. d <= q
  <2>1. CASE d = 0
    BY <2>1
  <2>2. CASE d > 0
    BY <1>9, <2>2
  <2> QED BY <2>1, <2>2
<1>11. Slice(old, r, Len(old)) = SubSeq(old, r + 1, l)
  <2>1. CASE r = 0
    BY <1>4, <2>1 DEF Slice
  <2>2. CASE r > 0
    BY <1>4, <2>2 DEF Slice
  <2> QED BY <2>1, <2>2
<1>12. CASE q <= p
  <2>1. r = q - d
    <3>1. ~(r < q - d)
      <4>1. SUFFICES ASSUME r < q - d PROVE FALSE
        OBVIOUS
      <4>2. PICK k \in 1..l : k = r + 1 /\ d + k <= q /\ ~(k <= r)
        BY <1>4, <1>12, <4>1
      <4> QED BY <1>4, <1>6, <1>7, <4>2
    <3>2. ~(r > q - d)
      <4>1. SUFFICES ASSUME r > q - d PROVE FALSE
        OBVIOUS
      <4>2. r \in 1..l /\ ~(d + r <= q) /\ r <= r
        BY <1>10, <4>1
      <4> QED BY <1>4, <1>6, <1>7, <4>2
    <3> QED BY <3>1, <3>2
  <2>2. PICK c \in Nat : c = r /\ q = d + c
    BY <2>1
  <2>3. d + c <= p /\ p <= Len(es) /\ d \in Nat /\ p \in Nat
    BY <1>1, <1>12, <2>2
  <2>4. SubSeq(SubSeq(es, d + 1, p), c + 1, p - d) = SubSeq(es, d + c + 1, p)
    BY <1>1, <2>3, SegmentOfSegment
  <2> QED BY <1>2, <1>3, <1>4, <1>6, <1>8, <1>11, <2>2, <2>4
<1>13. CASE q > p
  <2>1. r = l
    <3>1. SUFFICES ASSUME r < l PROVE FALSE
      OBVIOUS
    <3>2. PICK k \in 1..l : k = r + 1 /\ d + k <= q /\ ~(k <= r)
      BY <1>4, <1>13, <3>1
    <3> QED BY <1>4, <1>6, <1>7, <3>2
  <2>2. SubSeq(old, r + 1, l) = <<>>
    BY <1>4, <2>1
  <2>3. SubSeq(es, q + 1, p) = <<>>
    BY <1>1, <1>13
  <2> QED BY <1>6, <1>8, <1>11, <2>2, <2>3
<1> QED BY <1>12, <1>13

\* The order of the record's ticks is that of their sequences and instants.
LEMMA TicksInOrder ==
  ASSUME NEW es, RecordInv(es), NEW j \in 1..Len(es), NEW k \in 1..Len(es),
         es[j].kind = "tick", es[k].kind = "tick"
  PROVE  /\ es[j].tick \in TickType /\ es[k].tick \in TickType
         /\ j < k => /\ es[j].tick.sequence < es[k].tick.sequence
                     /\ es[j].tick.instant <= es[k].tick.instant
<1>1. es[j].tick \in TickType /\ es[k].tick \in TickType
  <2>1. es[j] \in Entry /\ es[k] \in Entry
    BY DEF RecordInv
  <2> QED BY <2>1, EntryFields
<1>2. ASSUME j < k PROVE /\ es[j].tick.sequence < es[k].tick.sequence
                         /\ es[j].tick.instant <= es[k].tick.instant
  <2>1. Precedes(es[j], es[k])
    BY <1>2 DEF RecordInv
  <2> QED BY <2>1 DEF Precedes, EntrySequence, Opens, Closes
<1> QED BY <1>1, <1>2

\* The price at an instant a follower has passed is the one in force by the
\* record, and there is one unless the instant is inside a gap.
LEMMA PricesAreInForce ==
  ASSUME RecordInv(record), NEW p \in 0..Len(record), NEW x, Fits(x, record, p),
         NEW t \in Answerable(x)
  PROVE  /\ PriceAt(x, t) = InForce(t)
         /\ (\A seam \in x.seams : ~InGap(seam, t)) => PriceAt(x, t) # NoInstant
<1>1. PICK n \in Nat : n = Len(record) /\ DOMAIN record = 1..n /\ \A k \in 1..p : k \in 1..n
  BY DEF RecordInv
<1>2. PICK h : h = x.history /\ h # <<>> /\ HistoryFits(h, record, p)
  BY DEF Fits, Answerable
<1>3. h \in Seq(TickType)
  BY <1>2 DEF HistoryFits
<1>4. PICK m \in Nat \ {0} : m = Len(h) /\ DOMAIN h = 1..m
  BY <1>2, <1>3
<1>5. /\ 1 \in 1..m /\ m \in 1..m /\ h[1] \in TickType /\ h[m] \in TickType
  BY <1>3, <1>4
<1>6. PICK a \in Nat, z \in Nat : a = h[1].instant /\ z = h[m].instant
  BY <1>5 DEF TickType
<1>7. t \in Int /\ a <= t /\ t < z
  <2>1. t \in a..(z - 1)
    BY <1>2, <1>4, <1>6 DEF Answerable, Last
  <2> QED BY <2>1
<1>8. PICK first \in 1..p : record[first].kind = "tick" /\ record[first].tick = h[1]
  BY <1>2, <1>4, <1>5 DEF HistoryFits
<1>9. PICK newest \in 1..p : record[newest].kind = "tick" /\ record[newest].tick = h[m]
  BY <1>2, <1>4, <1>5 DEF HistoryFits
<1> DEFINE before == {k \in DOMAIN record : record[k].kind = "tick" /\ record[k].tick.instant <= t}
           K == CHOOSE k \in before : \A j \in before : j <= k
<1>10. first \in before /\ before \subseteq 1..n
  BY <1>1, <1>6, <1>7, <1>8
<1>11. K \in before /\ \A j \in before : j <= K
  <2>1. before # {}
    BY <1>10
  <2> HIDE DEF before
  <2>2. \E k \in before : \A j \in before : j <= k
    BY <1>10, <2>1, GreatestPlace
  <2> QED BY <2>2
<1>12. PICK k \in 1..n : /\ k = K /\ record[k].kind = "tick" /\ record[k].tick.instant <= t
                         /\ \A j \in 1..n : record[j].kind = "tick" /\ record[j].tick.instant <= t => j <= k
  BY <1>1, <1>11
<1> HIDE DEF K, before
<1>13. record[k].tick \in TickType
  BY <1>1, <1>12, TicksInOrder
<1>14. k < newest /\ k + 1 \in 1..p /\ k + 1 <= newest /\ k < n
  <2>1. ~(newest < k)
    <3>1. newest < k => record[newest].tick.instant <= record[k].tick.instant
      BY <1>1, <1>9, <1>12, TicksInOrder
    <3> QED BY <1>6, <1>7, <1>9, <1>12, <1>13, <3>1 DEF TickType
  <2>2. newest # k
    BY <1>6, <1>7, <1>9, <1>12
  <2> QED BY <1>1, <2>1, <2>2
<1>15. record[k].tick.sequence >= h[1].sequence
  <2>1. first <= k
    BY <1>1, <1>6, <1>7, <1>8, <1>12
  <2>2. first < k => record[first].tick.sequence < record[k].tick.sequence
    BY <1>1, <1>8, <1>12, TicksInOrder
  <2> QED BY <1>5, <1>8, <1>13, <2>1, <2>2 DEF TickType
<1>16. PICK i \in 1..m : h[i] = record[k].tick
  <2>1. k \in 1..p
    BY <1>14
  <2> QED BY <1>2, <1>4, <1>12, <1>15, <2>1 DEF HistoryFits
<1> DEFINE sofar == {j \in DOMAIN x.history : x.history[j].instant <= t}
<1>17. i \in sofar
  BY <1>2, <1>4, <1>12, <1>16
<1>18. ASSUME NEW j \in sofar PROVE j <= i
  <2>1. j \in 1..m /\ h[j].instant <= t
    BY <1>2, <1>4
  <2>2. PICK c \in 1..p : record[c].kind = "tick" /\ record[c].tick = h[j]
    BY <1>2, <1>4, <2>1 DEF HistoryFits
  <2>3. c <= k
    BY <1>1, <1>12, <2>1, <2>2
  <2>4. c < k => h[j].sequence < h[i].sequence
    BY <1>1, <1>12, <1>16, <2>2, TicksInOrder
  <2>5. h[j] \in TickType /\ h[i] \in TickType
    BY <1>3, <1>4, <2>1
  <2>6. i < j => h[i].sequence < h[j].sequence
    BY <1>2, <1>4, <2>1 DEF HistoryFits
  <2>7. c = k => h[j] = h[i]
    BY <1>16, <2>2
  <2> QED BY <2>1, <2>3, <2>4, <2>5, <2>6, <2>7 DEF TickType
<1>19. (CHOOSE l \in sofar : \A j \in sofar : j <= l) = i
  <2>1. \A l \in sofar : l \in Int
    BY <1>2, <1>4
  <2> HIDE DEF sofar
  <2>2. PICK last : last = CHOOSE l \in sofar : \A j \in sofar : j <= l
    OBVIOUS
  <2>3. last \in sofar /\ \A j \in sofar : j <= last
    BY <1>17, <1>18, <2>2
  <2>4. last <= i /\ i <= last /\ last \in Int /\ i \in Int
    BY <1>17, <1>18, <2>1, <2>3
  <2> QED BY <2>2, <2>4
<1> DEFINE inGap == \E seam \in x.seams : InGap(seam, t)
<1>20. PriceAt(x, t) = IF inGap THEN NoInstant ELSE record[k].tick
  <2>1. sofar # {}
    BY <1>17
  <2>2. PriceAt(x, t) = IF sofar = {} \/ inGap THEN NoInstant
                        ELSE x.history[CHOOSE l \in sofar : \A j \in sofar : j <= l]
    BY DEF PriceAt
  <2> HIDE DEF sofar, inGap
  <2> QED BY <1>2, <1>16, <1>19, <2>1, <2>2
<1>21. InForce(t) = IF record[k + 1].kind = "seam" /\ t > record[k].tick.instant
                    THEN NoInstant ELSE record[k].tick
  <2>1. InForce(t) = IF before = {} \/ (K < Len(record) /\ record[K + 1].kind = "seam" /\ t > record[K].tick.instant)
                     THEN NoInstant ELSE record[K].tick
    BY DEF InForce, before, K
  <2>2. before # {}
    BY <1>10
  <2> QED BY <1>1, <1>12, <1>14, <2>1, <2>2
<1>22. ASSUME record[k + 1].kind = "seam", t > record[k].tick.instant PROVE inGap
  <2>1. PICK s : s = record[k + 1].seam /\ s \in x.seams
    BY <1>14, <1>22 DEF Fits
  <2>2. PICK e \in 1..n : e = k + 1 /\ e > 1 /\ e - 1 = k
    BY <1>1, <1>14
  <2>3. Adjoins(record[k], record[e]) /\ record[e] \in Entry
    <3>1. Adjoins(record[e - 1], record[e])
      BY <1>1, <2>2 DEF RecordInv
    <3> QED BY <1>1, <2>2, <3>1 DEF RecordInv
  <2>4. s \in SeamType /\ s.closed = record[k].tick.instant
    BY <1>22, <2>1, <2>2, <2>3, EntryFields DEF Adjoins
  <2>5. e # newest
    BY <1>9, <1>22, <2>2
  <2>6. PICK f \in 1..n : f = e + 1 /\ f > 1 /\ f - 1 = e /\ f <= newest
    BY <1>1, <1>9, <1>14, <2>2, <2>5
  <2>7. Adjoins(record[e], record[f]) /\ record[f] \in Entry
    <3>1. Adjoins(record[f - 1], record[f])
      BY <1>1, <2>6 DEF RecordInv
    <3> QED BY <1>1, <2>6, <3>1 DEF RecordInv
  <2>8. record[f].kind = "tick" /\ record[f].tick.instant = s.opens
    BY <1>22, <2>1, <2>2, <2>7, EntryFields DEF Adjoins
  <2>9. ~(record[f].tick.instant <= t)
    BY <1>12, <2>2, <2>6, <2>8
  <2>10. s.closed # NoInstant /\ s.closed \in Nat /\ s.opens \in Nat
    BY <2>4, FollowerAssumption DEF SeamType
  <2>11. InGap(s, t)
    BY <1>7, <1>22, <2>4, <2>8, <2>9, <2>10 DEF InGap
  <2> QED BY <2>1, <2>11
<1>23. ASSUME inGap PROVE record[k + 1].kind = "seam" /\ t > record[k].tick.instant
  <2>1. PICK s \in x.seams : s.closed # NoInstant /\ t > s.closed /\ t < s.opens
    BY <1>23 DEF InGap
  <2>2. PICK c \in 1..p : record[c].kind = "seam" /\ record[c].seam = s
    BY <2>1 DEF Fits
  <2>3. c \in 1..n /\ record[c] \in Entry /\ c > 1
    BY <1>1, <2>2 DEF RecordInv
  <2>4. PICK b \in 1..n : b = c - 1 /\ b + 1 = c
    BY <1>1, <2>3
  <2>5. Adjoins(record[b], record[c]) /\ record[b] \in Entry
    <3>1. Adjoins(record[c - 1], record[c])
      BY <1>1, <2>3 DEF RecordInv
    <3> QED BY <1>1, <2>4, <3>1 DEF RecordInv
  <2>6. record[b].kind = "tick" /\ record[b].tick.instant = s.closed /\ s \in SeamType
    BY <2>2, <2>3, <2>5, EntryFields DEF Adjoins
  <2>7. b <= k
    BY <1>7, <1>12, <2>1, <2>6 DEF SeamType
  <2>8. k # c
    BY <1>12, <2>2
  <2>9. ~(c < k)
    <3>1. SUFFICES ASSUME c < k PROVE FALSE
      OBVIOUS
    <3>2. Precedes(record[c], record[k])
      BY <1>1, <2>3, <3>1 DEF RecordInv
    <3>3. s.opens <= record[k].tick.instant
      BY <1>12, <2>2, <3>2 DEF Precedes, Opens, Closes
    <3> QED BY <1>7, <1>12, <1>13, <2>1, <2>6, <3>3 DEF TickType, SeamType
  <2>10. k + 1 = c /\ k = b
    BY <2>4, <2>7, <2>8, <2>9
  <2> QED BY <2>1, <2>2, <2>6, <2>10
<1>24. PriceAt(x, t) = InForce(t)
  <2> HIDE DEF inGap
  <2> QED BY <1>20, <1>21, <1>22, <1>23
<1>25. ASSUME \A seam \in x.seams : ~InGap(seam, t) PROVE PriceAt(x, t) # NoInstant
  <2>1. ~inGap
    BY <1>25
  <2>2. PriceAt(x, t) = record[k].tick
    <3> HIDE DEF inGap
    <3> QED BY <1>20, <2>1
  <2> QED BY <1>13, <2>2, FollowerAssumption DEF TickType
<1> QED BY <1>24, <1>25

\* What a follower answers is a function of the record: the entries it serves are
\* the record's own, whatever it has evicted; the price at an instant it has passed is
\* the one in force, and none inside a gap; and a window it reports as clean has a
\* price throughout (follower.ts serve, priceAt and 160-167).
THEOREM AnswersAgree ==
  ASSUME Deployed
  PROVE  Spec => []AnswersAreTheRecord
<1>1. IInv => AnswersAreTheRecord
  <2>1. SUFFICES ASSUME IInv, NEW f \in Followers
        PROVE /\ \A from \in 1..(NextOf(record) + 1), head \in 1..HeadOf(record) :
                   Serve(follower[f], from, head).kind = "entries" =>
                     Serve(follower[f], from, head).entries =
                       SubSeq(record, LowerBound(record, from) + 1, Len(taken[f]))
              /\ \A from, to \in Answerable(follower[f]) :
                   /\ PriceAt(follower[f], from) = InForce(from)
                   /\ from < to /\ ~SpansSeam(follower[f], from, to) =>
                        \A t \in from..to : PriceAt(follower[f], t) # NoInstant
    BY DEF AnswersAreTheRecord
  <2>2. RecordInv(record)
    BY <2>1 DEF IInv
  <2>3. PICK p \in 0..Len(record) : taken[f] = SubSeq(record, 1, p) /\ Fits(follower[f], record, p)
    BY <2>1 DEF IInv, FollowersInv, FollowerInv
  <2>4. PICK x : x = follower[f] /\ Fits(x, record, p)
    BY <2>3
  <2>5. Len(taken[f]) = p
    BY <2>2, <2>3 DEF RecordInv
  <2>6. HeadOf(record) \in Nat /\ NextOf(record) \in Nat
    <3>1. record # <<>> => record[Len(record)] \in Entry
      BY <2>2 DEF RecordInv
    <3> QED BY <3>1, EntryFields DEF HeadOf, NextOf
  <2>7. ASSUME NEW from \in 1..(NextOf(record) + 1), NEW head \in 1..HeadOf(record),
               Serve(x, from, head).kind = "entries"
        PROVE  Serve(x, from, head).entries = SubSeq(record, LowerBound(record, from) + 1, p)
    <3>1. from \in Nat \ {0} /\ head \in Nat \ {0}
      BY <2>6
    <3> QED BY <2>2, <2>4, <2>7, <3>1, ServesTheRecord
  <2>8. ASSUME NEW from \in Answerable(x), NEW to \in Answerable(x), from < to, ~SpansSeam(x, from, to),
               NEW t \in from..to
        PROVE  PriceAt(x, t) # NoInstant
    <3>0. x.history \in Seq(TickType)
      BY <2>4 DEF Fits
    <3>1. x.history # <<>>
      BY <2>8 DEF Answerable
    <3>2. PICK a \in Nat, z \in Nat : a = x.history[1].instant /\ z = x.history[Len(x.history)].instant
      <4>1. x.history[1] \in TickType /\ x.history[Len(x.history)] \in TickType
        BY <3>0, <3>1
      <4> QED BY <4>1 DEF TickType
    <3>3. Answerable(x) = a..(z - 1)
      BY <3>1, <3>2 DEF Answerable, Last
    <3>4. from \in a..(z - 1) /\ to \in a..(z - 1)
      BY <3>3
    <3>5. t \in Answerable(x) /\ t \in Int /\ from \in Int /\ to \in Int /\ from <= t /\ t <= to
      BY <3>3, <3>4
    <3>6. ASSUME NEW seam \in x.seams, InGap(seam, t) PROVE FALSE
      <4>1. seam \in SeamType
        BY <2>4 DEF Fits
      <4>2. seam.closed # NoInstant /\ seam.closed < t /\ t < seam.opens
        BY <3>6 DEF InGap
      <4>3. seam.closed \in Nat /\ seam.opens \in Nat
        BY <4>1 DEF SeamType
      <4>4. from < seam.opens /\ to > seam.closed
        BY <3>5, <4>2, <4>3
      <4> QED BY <2>8, <4>2, <4>4 DEF SpansSeam
    <3> QED BY <2>2, <2>4, <3>5, <3>6, PricesAreInForce
  <2>9. ASSUME NEW from \in Answerable(x) PROVE PriceAt(x, from) = InForce(from)
    BY <2>2, <2>4, PricesAreInForce
  <2> QED BY <2>4, <2>5, <2>7, <2>8, <2>9
<1> QED BY <1>1, Inductive, PTL

-----------------------------------------------------------------------------
(* What a contract is settled with: the invariant behind it *)

(***************************************************************************)
(* What settle() compares counts in one unit because of a fact about the   *)
(* record's writers, not about settle(): the lattice changes only in a     *)
(* release, a release boots the market past its record, and so between two *)
(* lattices there is always a gap of sequences, a seam that declares it    *)
(* and an epoch inside it.  A window from before such a gap to after it    *)
(* reaches into it, and settle() refuses it.                               *)
(***************************************************************************)

\* Ticks in the order of their instants and of their sequences, in one
\* sequence and from one to another.
InOrder(s) == \A i, j \in 1..Len(s) :
  i < j => s[i].instant < s[j].instant /\ s[i].sequence < s[j].sequence
Precede(s, t) == \A i \in 1..Len(s), j \in 1..Len(t) :
  s[i].instant < t[j].instant /\ s[i].sequence < t[j].sequence

Epoch == [fromSequence : Nat, lattice : Lattices]

Types ==
  /\ now \in Instants /\ observed \in Instants /\ asOf \in Instants /\ spoken \in Instants
  /\ up \in BOOLEAN /\ stalled \in BOOLEAN /\ rewinds \in 0..MaxRewinds
  /\ lattice \in Lattices
  /\ held \in Seq(Tick) /\ schedule \in Seq(Tick)
  /\ oldest \in 1..Len(held) + 1
  /\ seams \subseteq Seam
  /\ epochs \in Seq(Epoch)

OrderInv == InOrder(held) /\ InOrder(schedule) /\ Precede(held, schedule)

\* What the open market will print is on its lattice and without a gap, and goes
\* on from the record without one only on the lattice the record ends on.
ScheduleInv ==
  /\ \A j \in 1..Len(schedule) : schedule[j].lattice = lattice
  /\ \A j, k \in 1..Len(schedule) : k = j + 1 => schedule[k].sequence = schedule[j].sequence + 1
  /\ held # <<>> /\ schedule # <<>> /\ schedule[1].sequence = Newest.sequence + 1 =>
       Newest.lattice = lattice

\* Every gap is a seam, and no seam reaches past the record.
SeamsInv ==
  /\ \A i, j \in 1..Len(held) : j = i + 1 => SeamBetween(held[i], held[j]) \subseteq seams
  /\ \A seam \in seams : held # <<>> /\ seam.resumesAtSequence <= Newest.sequence

\* The frame log ends on the lattice the record ends on, and where that changed
\* there is a gap, and a change in the log.
EpochsInv ==
  /\ held = <<>> <=> epochs = <<>>
  /\ held # <<>> => epochs[Len(epochs)].lattice = Newest.lattice
  /\ \A i, j \in 1..Len(held) : j = i + 1 /\ held[i].lattice # held[j].lattice =>
       /\ held[j].sequence # held[i].sequence + 1
       /\ held[j].sequence \in Changes

\* Until the clock is first set back, nothing that was said reaches past it, and
\* nothing is still to be printed at or before what was said.
TimeInv ==
  rewinds = 0 =>
    /\ asOf <= now /\ spoken <= now
    /\ held # <<>> => Newest.instant <= now
    /\ \A j \in 1..Len(schedule) : schedule[j].instant > spoken

SettlementInv == Types /\ OrderInv /\ ScheduleInv /\ SeamsInv /\ EpochsInv /\ TimeInv

-----------------------------------------------------------------------------
(* Numbers *)

\* A bounded set of naturals has a greatest one, and Max is it.
LEMMA MaxFacts ==
  ASSUME NEW S, S \subseteq Nat, S # {}, NEW b \in Nat, \A x \in S : x <= b
  PROVE  Max(S) \in S /\ \A x \in S : x <= Max(S)
<1> DEFINE T == {n \in Nat : \A x \in S : x <= n}
<1>1. PICK m \in T : \A n \in T : m <= n
  <2>1. b \in T /\ T \subseteq Nat
    OBVIOUS
  <2> HIDE DEF T
  <2> QED BY <2>1, LeastNatural
<1>2. m \in S
  <2>1. SUFFICES ASSUME m \notin S PROVE FALSE
    OBVIOUS
  <2>2. m \in Nat /\ \A x \in S : x < m
    BY <2>1
  <2>3. PICK c \in Nat : m = c + 1
    <3>1. PICK x \in S : x \in Nat /\ x < m
      BY <2>2
    <3>2. m \in Nat /\ m - 1 \in Nat /\ m = (m - 1) + 1
      BY <2>2, <3>1
    <3> QED BY <3>2
  <2>4. c \in T
    BY <2>2, <2>3
  <2> QED BY <1>1, <2>3, <2>4
<1>3. \E x \in S : \A y \in S : x >= y
  BY <1>2
<1> QED BY <1>3 DEF Max

\* The last index at which something holds.
LEMMA LastFacts ==
  ASSUME NEW n \in Nat, NEW I, I \subseteq 1..n
  PROVE  LET m == IF I # {} THEN Max(I) ELSE 0
         IN m \in 0..n /\ (I # {} => m \in I) /\ \A i \in I : i <= m
<1> DEFINE m == IF I # {} THEN Max(I) ELSE 0
<1>0. SUFFICES m \in 0..n /\ (I # {} => m \in I) /\ \A i \in I : i <= m
  OBVIOUS
<1>1. CASE I = {}
  BY <1>1
<1>2. CASE I # {}
  <2>1. I \subseteq Nat /\ \A i \in I : i <= n
    OBVIOUS
  <2>2. Max(I) \in I /\ \A i \in I : i <= Max(I)
    BY <1>2, <2>1, MaxFacts
  <2>3. m = Max(I)
    BY <1>2
  <2>4. m \in I /\ \A i \in I : i <= m
    BY <2>2, <2>3
  <2> HIDE DEF m
  <2>5. m \in 0..n
    BY <2>1, <2>4
  <2> QED BY <2>4, <2>5
<1> QED BY <1>1, <1>2

-----------------------------------------------------------------------------
(* A pass that publishes *)

\* What is known of a tick.
LEMMA TickFacts ==
  \A tick \in Tick : /\ tick.instant \in Nat /\ tick.instant <= MaxTime
                      /\ tick.sequence \in Nat /\ tick.lattice \in Lattices
BY SettlementAssumption DEF Tick, Instants

LEMMA TicksOf ==
  ASSUME NEW s \in Seq(Tick)
  PROVE  Len(s) \in Nat /\ \A i \in 1..Len(s) :
           /\ s[i] \in Tick /\ s[i].instant \in Nat /\ s[i].instant <= MaxTime
           /\ s[i].sequence \in Nat /\ s[i].lattice \in Lattices
BY TickFacts

\* It moves the first c ticks of the schedule to the record.
Moves(c) ==
  /\ held' \in Seq(Tick) /\ Len(held') = Len(held) + c
  /\ \A i \in 1..Len(held) : held'[i] = held[i]
  /\ \A j \in 1..c : held'[Len(held) + j] = schedule[j]
  /\ schedule' \in Seq(Tick) /\ Len(schedule') = Len(schedule) - c
  /\ \A j \in 1..Len(schedule') : schedule'[j] = schedule[c + j]
  /\ \A j \in 1..c : schedule[j].instant <= now
  /\ \A j \in 1..Len(schedule) : j > c => schedule[j].instant > now
  /\ seams' = seams \cup UNION {SeamBetween(held'[i], held'[i + 1]) :
                                i \in {j \in Len(held)..Len(held') - 1 : j > 0}}
  /\ c = 0 => held' = held /\ epochs' = epochs
  /\ c > 0 => epochs' = EpochOf(epochs, schedule[1])

LEMMA PublishMoves ==
  ASSUME Types, OrderInv, Publish
  PROVE  \E c \in 0..Len(schedule) : Moves(c)
<1> DEFINE I == {i \in 1..Len(schedule) : schedule[i].instant <= now}
           c == IF I # {} THEN Max(I) ELSE 0
<1>1. c = SelectLastInSeq(schedule, LAMBDA tick : tick.instant <= now)
  BY DEF SelectLastInSeq
<1>2. /\ schedule' = SubSeq(schedule, c + 1, Len(schedule))
      /\ Recorded(SubSeq(schedule, 1, c))
  BY <1>1 DEF Publish
<1>3. Len(schedule) \in Nat /\ schedule \in Seq(Tick) /\ held \in Seq(Tick)
  BY DEF Types
<1>4. c \in 0..Len(schedule) /\ (I # {} => c \in I) /\ \A i \in I : i <= c
  <2> HIDE DEF I
  <2>1. I \subseteq 1..Len(schedule)
    BY DEF I
  <2> QED BY <1>3, <2>1, LastFacts
<1>5. \A j \in 1..c : schedule[j].instant <= now
  <2>1. SUFFICES ASSUME NEW j \in 1..c PROVE schedule[j].instant <= now
    OBVIOUS
  <2>2. c \in I
    BY <1>4, <2>1
  <2>3. c \in 1..Len(schedule) /\ schedule[c].instant <= now
    BY <2>2
  <2>4. j = c \/ schedule[j].instant < schedule[c].instant
    BY <2>1, <2>3 DEF OrderInv, InOrder
  <2> HIDE DEF c
  <2>5. j \in 1..Len(schedule) /\ now \in Int
    BY <2>1, <2>3 DEF Types, Instants
  <2>6. schedule[j].instant \in Int /\ schedule[c].instant \in Int
    BY <1>3, <2>3, <2>5, TicksOf
  <2> QED BY <2>3, <2>4, <2>5, <2>6
<1>6. \A j \in 1..Len(schedule) : j > c => schedule[j].instant > now
  <2>1. SUFFICES ASSUME NEW j \in 1..Len(schedule), j > c PROVE schedule[j].instant > now
    OBVIOUS
  <2>2. j \notin I
    BY <1>4, <2>1
  <2>3. schedule[j].instant \in Int /\ now \in Int
    BY <1>3, <2>1, TicksOf DEF Types, Instants
  <2> QED BY <2>1, <2>2, <2>3
<1> HIDE DEF c
<1>7. /\ schedule' \in Seq(Tick) /\ Len(schedule') = Len(schedule) - c
      /\ \A j \in 1..Len(schedule') : schedule'[j] = schedule[c + j]
  BY <1>2, <1>3, <1>4
<1>8. PICK due : due = SubSeq(schedule, 1, c)
  OBVIOUS
<1>9. due \in Seq(Tick) /\ Len(due) = c /\ \A j \in 1..c : due[j] = schedule[j]
  BY <1>3, <1>4, <1>8
<1>10. held' = held \o due
  BY <1>2, <1>8 DEF Recorded
<1>11. /\ held' \in Seq(Tick) /\ Len(held') = Len(held) + c
       /\ \A i \in 1..Len(held) : held'[i] = held[i]
       /\ \A j \in 1..c : held'[Len(held) + j] = schedule[j]
  <2>1. Len(held) \in Nat /\ Len(due) \in Nat /\ c \in Nat
    BY <1>3, <1>4, <1>9
  <2>2. held' \in Seq(Tick) /\ Len(held') = Len(held) + c
    BY <1>3, <1>9, <1>10, ConcatProperties
  <2>3. \A i \in 1..Len(held) + c :
          held'[i] = IF i <= Len(held) THEN held[i] ELSE due[i - Len(held)]
    BY <1>3, <1>9, <1>10, ConcatProperties
  <2>4. \A i \in 1..Len(held) : held'[i] = held[i]
    BY <2>1, <2>3
  <2>5. \A j \in 1..c : held'[Len(held) + j] = due[j]
    BY <2>1, <2>3
  <2> QED BY <1>9, <2>2, <2>4, <2>5
<1>12. seams' = seams \cup UNION {SeamBetween(held'[i], held'[i + 1]) :
                                i \in {j \in Len(held)..Len(held') - 1 : j > 0}}
  BY <1>2, <1>8, <1>10 DEF Recorded
<1>13. c = 0 => held' = held /\ epochs' = epochs
  <2>1. SUFFICES ASSUME c = 0 PROVE held' = held /\ epochs' = epochs
    OBVIOUS
  <2>2. due = <<>>
    BY <1>9, <2>1
  <2>3. held' = held
    BY <1>3, <1>10, <2>2, ConcatEmptySeq
  <2>4. epochs' = epochs
    BY <1>2, <1>8, <2>2 DEF Recorded
  <2> QED BY <2>3, <2>4
<1>14. c > 0 => epochs' = EpochOf(epochs, schedule[1])
  <2>1. SUFFICES ASSUME c > 0 PROVE epochs' = EpochOf(epochs, schedule[1])
    OBVIOUS
  <2>2. due # <<>> /\ due[1] = schedule[1]
    BY <1>4, <1>9, <2>1
  <2> QED BY <1>2, <1>8, <2>2 DEF Recorded
<1> QED BY <1>4, <1>5, <1>6, <1>7, <1>11, <1>12, <1>13, <1>14 DEF Moves

\* Where a tick of the new record comes from.
LEMMA MovedTick ==
  ASSUME Types, NEW c \in 0..Len(schedule), Moves(c), NEW i \in 1..Len(held')
  PROVE  \/ i \in 1..Len(held) /\ held'[i] = held[i]
         \/ \E j \in 1..c : i = Len(held) + j /\ held'[i] = schedule[j]
<1>1. Len(held) \in Nat /\ Len(schedule) \in Nat /\ Len(held') = Len(held) + c
  BY DEF Types, Moves
<1>2. CASE i <= Len(held)
  BY <1>1, <1>2 DEF Moves
<1>3. CASE i > Len(held)
  <2>1. PICK j \in Int : j = i - Len(held)
    BY <1>1
  <2>2. j \in 1..c /\ i = Len(held) + j
    BY <1>1, <1>3, <2>1
  <2> QED BY <2>2 DEF Moves
<1> QED BY <1>1, <1>2, <1>3

\* What is left to print: ticks of the schedule past those that moved.
LEMMA LeftTick ==
  ASSUME Types, NEW c \in 0..Len(schedule), Moves(c), NEW k \in 1..Len(schedule')
  PROVE  c + k \in 1..Len(schedule) /\ c + k > c /\ schedule'[k] = schedule[c + k]
<1>1. Len(schedule) \in Nat /\ Len(schedule') = Len(schedule) - c
  BY DEF Types, Moves
<1> QED BY <1>1 DEF Moves

LEMMA MovesOrder ==
  ASSUME Types, OrderInv, NEW c \in 0..Len(schedule), Moves(c)
  PROVE  OrderInv'
<1>1. Len(held) \in Nat /\ Len(schedule) \in Nat /\ Len(held') = Len(held) + c
  BY DEF Types, Moves
<1>2. ASSUME NEW i \in 1..Len(held'), NEW j \in 1..Len(held'), i < j
      PROVE  held'[i].instant < held'[j].instant /\ held'[i].sequence < held'[j].sequence
  <2>1. CASE j \in 1..Len(held) /\ held'[j] = held[j]
    <3>1. i \in 1..Len(held) /\ held'[i] = held[i]
      BY <1>1, <1>2, <2>1 DEF Moves
    <3> QED BY <1>2, <2>1, <3>1 DEF OrderInv, InOrder
  <2>2. CASE \E m \in 1..c : j = Len(held) + m /\ held'[j] = schedule[m]
    <3>1. PICK m \in 1..c : j = Len(held) + m /\ held'[j] = schedule[m]
      BY <2>2
    <3>2. m \in 1..Len(schedule)
      BY <1>1
    <3>3. CASE i \in 1..Len(held) /\ held'[i] = held[i]
      BY <3>1, <3>2, <3>3 DEF OrderInv, Precede
    <3>4. CASE \E k \in 1..c : i = Len(held) + k /\ held'[i] = schedule[k]
      <4>1. PICK k \in 1..c : i = Len(held) + k /\ held'[i] = schedule[k]
        BY <3>4
      <4>2. k \in 1..Len(schedule) /\ k < m
        BY <1>1, <1>2, <3>1, <4>1
      <4> QED BY <3>1, <3>2, <4>1, <4>2 DEF OrderInv, InOrder
    <3> QED BY <3>3, <3>4, MovedTick
  <2> QED BY <2>1, <2>2, MovedTick
<1>3. ASSUME NEW i \in 1..Len(schedule'), NEW j \in 1..Len(schedule'), i < j
      PROVE  /\ schedule'[i].instant < schedule'[j].instant
             /\ schedule'[i].sequence < schedule'[j].sequence
  <2>1. /\ c + i \in 1..Len(schedule) /\ schedule'[i] = schedule[c + i]
        /\ c + j \in 1..Len(schedule) /\ schedule'[j] = schedule[c + j]
    BY LeftTick
  <2>2. c + i < c + j
    BY <1>3
  <2> QED BY <2>1, <2>2 DEF OrderInv, InOrder
<1>4. ASSUME NEW i \in 1..Len(held'), NEW j \in 1..Len(schedule')
      PROVE  /\ held'[i].instant < schedule'[j].instant
             /\ held'[i].sequence < schedule'[j].sequence
  <2>1. c + j \in 1..Len(schedule) /\ c + j > c /\ schedule'[j] = schedule[c + j]
    BY LeftTick
  <2>2. CASE i \in 1..Len(held) /\ held'[i] = held[i]
    BY <2>1, <2>2 DEF OrderInv, Precede
  <2>3. CASE \E k \in 1..c : i = Len(held) + k /\ held'[i] = schedule[k]
    <3>1. PICK k \in 1..c : i = Len(held) + k /\ held'[i] = schedule[k]
      BY <2>3
    <3>2. k \in 1..Len(schedule) /\ k < c + j
      BY <1>1, <2>1
    <3> QED BY <2>1, <3>1, <3>2 DEF OrderInv, InOrder
  <2> QED BY <2>2, <2>3, MovedTick
<1> QED BY <1>2, <1>3, <1>4 DEF OrderInv, InOrder, Precede

\* The newest tick of a record that ticks moved to.
LEMMA MovedNewest ==
  ASSUME Types, NEW c \in 0..Len(schedule), Moves(c)
  PROVE  /\ c > 0 => held' # <<>> /\ Newest' = schedule[c]
         /\ c = 0 => held' = held /\ Newest' = Newest
<1>1. Len(held) \in Nat /\ Len(held') = Len(held) + c
  BY DEF Types, Moves
<1>2. ASSUME c > 0 PROVE held' # <<>> /\ Newest' = schedule[c]
  <2>1. c \in 1..c /\ Len(held') > 0
    BY <1>1, <1>2
  <2>2. held'[Len(held')] = schedule[c]
    BY <1>1, <2>1 DEF Moves
  <2> QED BY <2>1, <2>2 DEF Newest
<1>3. ASSUME c = 0 PROVE held' = held /\ Newest' = Newest
  BY <1>3 DEF Moves, Newest
<1> QED BY <1>2, <1>3

LEMMA MovesSchedule ==
  ASSUME Types, ScheduleInv, NEW c \in 0..Len(schedule), Moves(c), lattice' = lattice
  PROVE  ScheduleInv'
<1>1. Len(schedule) \in Nat /\ Len(schedule') = Len(schedule) - c /\ schedule' \in Seq(Tick)
  BY DEF Types, Moves
<1>2. \A j \in 1..Len(schedule') : schedule'[j].lattice = lattice
  BY LeftTick DEF ScheduleInv
<1>3. ASSUME NEW j \in 1..Len(schedule'), NEW k \in 1..Len(schedule'), k = j + 1
      PROVE  schedule'[k].sequence = schedule'[j].sequence + 1
  <2>1. /\ c + k \in 1..Len(schedule) /\ schedule'[k] = schedule[c + k]
        /\ c + j \in 1..Len(schedule) /\ schedule'[j] = schedule[c + j]
    BY LeftTick
  <2>2. c + k = (c + j) + 1
    BY <1>3
  <2> QED BY <2>1, <2>2 DEF ScheduleInv
<1>4. ASSUME held' # <<>>, schedule' # <<>>, schedule'[1].sequence = Newest'.sequence + 1
      PROVE  Newest'.lattice = lattice
  <2>1. CASE c > 0
    BY <2>1, MovedNewest DEF ScheduleInv
  <2>2. CASE c = 0
    <3>1. 1 \in 1..Len(schedule')
      BY <1>1, <1>4
    <3>2. schedule'[1] = schedule[1] /\ schedule # <<>>
      BY <1>1, <2>2, <3>1 DEF Moves
    <3> QED BY <1>4, <2>2, <3>2, MovedNewest DEF ScheduleInv
  <2> QED BY <2>1, <2>2
<1> QED BY <1>2, <1>3, <1>4 DEF ScheduleInv

LEMMA MovesSeams ==
  ASSUME Types, OrderInv, SeamsInv, NEW c \in 0..Len(schedule), Moves(c)
  PROVE  seams' \subseteq Seam /\ SeamsInv'
<1>1. /\ Len(held) \in Nat /\ Len(schedule) \in Nat /\ Len(held') = Len(held) + c
      /\ held' \in Seq(Tick)
  BY DEF Types, Moves
<1>2. ASSUME NEW i \in 1..Len(held'), NEW j \in 1..Len(held'), j = i + 1
      PROVE  SeamBetween(held'[i], held'[j]) \subseteq seams'
  <2>1. CASE j <= Len(held)
    <3>1. i \in 1..Len(held) /\ j \in 1..Len(held)
      BY <1>1, <1>2, <2>1
    <3>2. held'[i] = held[i] /\ held'[j] = held[j]
      BY <3>1 DEF Moves
    <3>3. SeamBetween(held[i], held[j]) \subseteq seams
      BY <1>2, <3>1 DEF SeamsInv
    <3>4. seams \subseteq seams'
      BY DEF Moves
    <3> QED BY <3>2, <3>3, <3>4
  <2>2. CASE j > Len(held)
    <3>1. i \in {k \in Len(held)..Len(held') - 1 : k > 0}
      BY <1>1, <1>2, <2>2
    <3> QED BY <1>2, <3>1 DEF Moves
  <2> QED BY <1>1, <2>1, <2>2
<1>3. ASSUME NEW seam \in seams'
      PROVE  /\ seam \in Seam /\ held' # <<>> /\ seam.resumesAtSequence <= Newest'.sequence
  <2>1. CASE seam \in seams
    <3>1. held # <<>> /\ seam.resumesAtSequence <= Newest.sequence /\ seam \in Seam
      BY <2>1 DEF SeamsInv, Types
    <3>2. Len(held) \in 1..Len(held') /\ Len(held) > 0 /\ Len(held') # 0
      BY <1>1, <3>1 DEF Types
    <3>3. held'[Len(held)] = Newest
      BY <3>2 DEF Moves, Newest
    <3>4. Newest.sequence <= Newest'.sequence
      <4>1. Len(held') \in 1..Len(held')
        BY <1>1, <3>2
      <4>2. Newest' = held'[Len(held')]
        BY DEF Newest
      <4>3. Newest.sequence \in Nat /\ Newest'.sequence \in Nat
        BY <1>1, <3>2, <3>3, <4>1, <4>2, TicksOf
      <4>4. Len(held) = Len(held') \/ Newest.sequence < Newest'.sequence
        BY <1>1, <3>2, <3>3, <4>1, <4>2, MovesOrder DEF OrderInv, InOrder
      <4> QED BY <3>3, <4>2, <4>3, <4>4
    <3>5. Newest.sequence \in Nat /\ Newest'.sequence \in Nat /\ seam.resumesAtSequence \in Nat
      <4>1. Len(held') \in 1..Len(held') /\ Newest' = held'[Len(held')]
        BY <1>1, <3>2 DEF Newest
      <4> QED BY <1>1, <3>1, <3>2, <3>3, <4>1, TicksOf DEF Seam
    <3> QED BY <1>1, <3>1, <3>2, <3>4, <3>5
  <2>2. CASE seam \notin seams
    <3>1. PICK i \in Len(held)..Len(held') - 1 :
            i > 0 /\ seam \in SeamBetween(held'[i], held'[i + 1])
      BY <2>2 DEF Moves
    <3>2. i \in 1..Len(held') /\ i + 1 \in 1..Len(held')
      BY <1>1, <3>1
    <3>3. PICK a \in Tick, b \in Tick : a = held'[i] /\ b = held'[i + 1]
      BY <1>1, <3>2, TicksOf
    <3>4. seam = [lastSequence |-> a.sequence, lastInstant |-> a.instant,
                  resumesAtSequence |-> b.sequence, resumesAtInstant |-> b.instant]
      BY <3>1, <3>3 DEF SeamBetween
    <3>5. seam \in Seam /\ seam.resumesAtSequence = b.sequence
      BY <3>4 DEF Seam, Tick
    <3>6. Len(held') \in 1..Len(held') /\ Newest' = held'[Len(held')] /\ held' # <<>>
      BY <1>1, <3>2 DEF Newest
    <3>7. i + 1 = Len(held') \/ b.sequence < Newest'.sequence
      BY <1>1, <3>2, <3>3, <3>6, MovesOrder DEF OrderInv, InOrder
    <3>8. b.sequence \in Nat /\ Newest'.sequence \in Nat
      BY <1>1, <3>2, <3>3, <3>6, TicksOf
    <3> QED BY <3>3, <3>5, <3>6, <3>7, <3>8
  <2> QED BY <2>1, <2>2
<1> QED BY <1>2, <1>3 DEF SeamsInv

\* The log after an epoch was added to it, or not.
LEMMA EpochAdded ==
  ASSUME NEW log \in Seq(Epoch), NEW tick \in Tick
  PROVE  LET added == EpochOf(log, tick) IN
         /\ added \in Seq(Epoch) /\ Len(added) >= Len(log) /\ Len(added) > 0
         /\ added[Len(added)].lattice = tick.lattice
         /\ \A i \in 1..Len(log) : added[i] = log[i]
         /\ \A i \in 1..Len(added) : i > Len(log) => added[i].fromSequence = tick.sequence
         /\ log # <<>> /\ log[Len(log)].lattice # tick.lattice =>
              Len(added) = Len(log) + 1
<1> DEFINE new == [fromSequence |-> tick.sequence, lattice |-> tick.lattice]
<1>1. new \in Epoch /\ new.lattice = tick.lattice /\ new.fromSequence = tick.sequence
  BY TickFacts DEF Epoch
<1>2. CASE log # <<>> /\ log[Len(log)].lattice = tick.lattice
  <2>1. EpochOf(log, tick) = log
    BY <1>2 DEF EpochOf, Last
  <2> QED BY <1>2, <2>1
<1>3. CASE ~(log # <<>> /\ log[Len(log)].lattice = tick.lattice)
  <2>1. EpochOf(log, tick) = Append(log, new)
    BY <1>3 DEF EpochOf, Last
  <2> HIDE DEF new
  <2>2. PICK added \in Seq(Epoch) : added = Append(log, new)
    BY <1>1, AppendProperties
  <2>3. /\ Len(log) \in Nat /\ Len(added) = Len(log) + 1 /\ added[Len(log) + 1] = new
        /\ \A i \in 1..Len(log) : added[i] = log[i]
    BY <1>1, <2>2
  <2>4. \A i \in 1..Len(added) : i > Len(log) => i = Len(log) + 1
    BY <2>3
  <2> QED BY <1>1, <2>1, <2>2, <2>3, <2>4
<1> QED BY <1>2, <1>3

LEMMA MovesEpochs ==
  ASSUME Types, ScheduleInv, EpochsInv, NEW c \in 0..Len(schedule), Moves(c)
  PROVE  /\ epochs' \in Seq(Epoch) /\ EpochsInv'
         /\ Changes \subseteq Changes'
         /\ c = 0 => Changes' = Changes
         /\ c > 0 => Changes' \subseteq Changes \cup {schedule[1].sequence}
<1>1. /\ Len(held) \in Nat /\ Len(schedule) \in Nat /\ Len(held') = Len(held) + c
      /\ held' \in Seq(Tick) /\ epochs \in Seq(Epoch) /\ Len(epochs) \in Nat
  BY DEF Types, Moves
<1>2. CASE c = 0
  <2>1. held' = held /\ epochs' = epochs /\ Newest' = Newest
    BY <1>2, MovedNewest DEF Moves
  <2> QED BY <1>1, <1>2, <2>1 DEF EpochsInv, Changes
<1>3. CASE c > 0
  <2>1. 1 \in 1..Len(schedule) /\ schedule[1] \in Tick /\ 1 \in 1..c /\ schedule # <<>>
    BY <1>1, <1>3 DEF Types
  <2>2. epochs' = EpochOf(epochs, schedule[1])
    BY <1>3 DEF Moves
  <2>3. /\ epochs' \in Seq(Epoch) /\ Len(epochs') >= Len(epochs) /\ Len(epochs') > 0
        /\ epochs'[Len(epochs')].lattice = schedule[1].lattice
        /\ \A i \in 1..Len(epochs) : epochs'[i] = epochs[i]
        /\ \A i \in 1..Len(epochs') : i > Len(epochs) =>
             epochs'[i].fromSequence = schedule[1].sequence
        /\ epochs # <<>> /\ epochs[Len(epochs)].lattice # schedule[1].lattice =>
             Len(epochs') = Len(epochs) + 1
    BY <1>1, <2>1, <2>2, EpochAdded
  <2>4. Changes \subseteq Changes'
    <3>1. \A i \in 2..Len(epochs) :
            i \in 2..Len(epochs') /\ epochs'[i].fromSequence = epochs[i].fromSequence
      BY <1>1, <2>3
    <3> QED BY <3>1 DEF Changes
  <2>5. Changes' \subseteq Changes \cup {schedule[1].sequence}
    <3>1. SUFFICES ASSUME NEW i \in 2..Len(epochs')
                   PROVE  epochs'[i].fromSequence \in Changes \cup {schedule[1].sequence}
      BY DEF Changes
    <3>2. CASE i <= Len(epochs)
      <4>1. i \in 2..Len(epochs) /\ i \in 1..Len(epochs)
        BY <1>1, <2>3, <3>2
      <4> QED BY <2>3, <4>1 DEF Changes
    <3>3. CASE i > Len(epochs)
      BY <2>3, <3>3
    <3> QED BY <1>1, <2>3, <3>2, <3>3
  <2>6. held' # <<>> /\ epochs' # <<>> /\ Newest' = schedule[c]
    BY <1>3, <2>3, MovedNewest
  <2>7. schedule[c].lattice = lattice /\ schedule[1].lattice = lattice
    BY <1>3, <2>1 DEF ScheduleInv
  <2>8. ASSUME NEW i \in 1..Len(held'), NEW j \in 1..Len(held'), j = i + 1,
               held'[i].lattice # held'[j].lattice
        PROVE  /\ held'[j].sequence # held'[i].sequence + 1
               /\ held'[j].sequence \in Changes'
    <3>1. CASE j \in 1..Len(held) /\ held'[j] = held[j]
      <4>1. i \in 1..Len(held) /\ held'[i] = held[i]
        BY <1>1, <2>8, <3>1 DEF Moves
      <4> QED BY <2>4, <2>8, <3>1, <4>1 DEF EpochsInv
    <3>2. CASE \E m \in 1..c : j = Len(held) + m /\ held'[j] = schedule[m]
      <4>1. PICK m \in 1..c : j = Len(held) + m /\ held'[j] = schedule[m]
        BY <3>2
      <4>2. m \in 1..Len(schedule) /\ held'[j].lattice = lattice
        BY <1>1, <4>1 DEF ScheduleInv
      <4>3. CASE i \in 1..Len(held) /\ held'[i] = held[i]
        <5>1. i = Len(held) /\ m = 1 /\ held # <<>>
          BY <1>1, <2>8, <4>1, <4>3
        <5>2. held'[i] = Newest /\ held'[j] = schedule[1]
          BY <4>1, <4>3, <5>1 DEF Newest
        <5>3. held'[j].sequence # held'[i].sequence + 1
          BY <2>1, <2>8, <4>2, <5>1, <5>2 DEF ScheduleInv
        <5>4. epochs # <<>> /\ epochs[Len(epochs)].lattice # schedule[1].lattice
          BY <2>8, <5>1, <5>2 DEF EpochsInv
        <5>5. Len(epochs') = Len(epochs) + 1 /\ Len(epochs) > 0
          BY <1>1, <2>3, <5>4
        <5>6. /\ Len(epochs') \in 2..Len(epochs')
              /\ epochs'[Len(epochs')].fromSequence = schedule[1].sequence
          BY <1>1, <2>3, <5>5
        <5> QED BY <5>2, <5>3, <5>6 DEF Changes
      <4>4. CASE \E k \in 1..c : i = Len(held) + k /\ held'[i] = schedule[k]
        <5>1. held'[i].lattice = lattice
          BY <1>1, <4>4 DEF ScheduleInv
        <5> QED BY <2>8, <4>2, <5>1
      <4> QED BY <4>3, <4>4, MovedTick
    <3> QED BY <3>1, <3>2, MovedTick
  <2> QED BY <1>3, <2>3, <2>4, <2>5, <2>6, <2>7, <2>8 DEF EpochsInv
<1> QED BY <1>1, <1>2, <1>3

-----------------------------------------------------------------------------
(* A market that opens *)

LEMMA LaterIs ==
  ASSUME NEW a \in Nat, NEW b \in Nat
  PROVE  /\ Later(a, b) \in {a, b} /\ Later(a, b) \in Nat
         /\ Later(a, b) >= a /\ Later(a, b) >= b
BY DEF Later

\* Where each tick is later than the one before it, each is later than any before.
LEMMA AscendsIsInOrder ==
  ASSUME NEW s \in Seq(Tick), Ascends(s)
  PROVE  InOrder(s)
<1>1. Len(s) \in Nat
  OBVIOUS
<1>2. ASSUME NEW i \in 1..Len(s), NEW k \in 1..Len(s), i < k
      PROVE  s[i].instant < s[k].instant /\ s[i].sequence < s[k].sequence
  <2> DEFINE Less(a, b) == s[a].instant < s[b].instant /\ s[a].sequence < s[b].sequence
             T == {j \in 1..Len(s) : i < j /\ ~Less(i, j)}
  <2>1. SUFFICES ASSUME T # {} PROVE FALSE
    BY <1>2
  <2>2. T \subseteq Nat
    OBVIOUS
  <2>3. PICK j \in T : \A l \in T : j <= l
    <3> HIDE DEF T
    <3> QED BY <2>1, <2>2, LeastNatural
  <2>4. j \in 1..Len(s) /\ i < j /\ ~Less(i, j)
    BY <2>3
  <2>5. PICK l \in Nat : j = l + 1
    <3>1. j - 1 \in Nat /\ j = (j - 1) + 1
      BY <2>4
    <3> QED BY <3>1
  <2>6. l \in 1..Len(s) - 1 /\ l \in 1..Len(s) /\ (l = i \/ i < l)
    BY <1>1, <2>4, <2>5
  <2>7. Less(l, j)
    BY <2>5, <2>6 DEF Ascends
  <2>8. l = i \/ Less(i, l)
    <3>1. l \notin T
      BY <2>3, <2>5, <2>6
    <3> QED BY <2>6, <3>1
  <2>9. /\ s[i].instant \in Nat /\ s[l].instant \in Nat /\ s[j].instant \in Nat
        /\ s[i].sequence \in Nat /\ s[l].sequence \in Nat /\ s[j].sequence \in Nat
    BY <1>2, <2>4, <2>6, TicksOf
  <2> QED BY <2>4, <2>7, <2>8, <2>9
<1> QED BY <1>2 DEF InOrder

\* What a market opened past the record will print.
LEMMA OpenedIs ==
  ASSUME Types, OrderInv, NEW start \in Instants, NEW frame \in Lattices,
         held # <<>> => Newest.instant <= start, NEW ticks \in Opened(start, frame)
  PROVE  /\ ticks \in Seq(Tick) /\ InOrder(ticks) /\ Precede(held, ticks)
         /\ \A j \in 1..Len(ticks) : ticks[j].lattice = frame /\ ticks[j].instant > start
         /\ \A j, k \in 1..Len(ticks) : k = j + 1 => ticks[k].sequence = ticks[j].sequence + 1
         /\ held # <<>> /\ ticks # <<>> => ticks[1].sequence # Newest.sequence + 1
<1> DEFINE Drawn == [sequence : FirstSequence..FirstSequence + MaxDrawn - 1,
                     instant : start + 1..MaxTime, price : Prices, lattice : {frame}]
<1>1. PICK n \in 0..MaxDrawn : ticks \in [1..n -> Drawn]
  BY DEF Opened
<1>2. /\ \A i \in 1..Len(ticks) : ticks[i].sequence = FirstSequence + i - 1
      /\ Ascends(ticks)
  BY DEF Opened
<1>3. held # <<>> => /\ Len(held) \in 1..Len(held) /\ Len(held) \in Nat
                     /\ Newest.sequence \in Nat /\ Newest.instant \in Nat
  <2>1. SUFFICES ASSUME held # <<>>
                 PROVE  /\ Len(held) \in 1..Len(held) /\ Len(held) \in Nat
                        /\ Newest.sequence \in Nat /\ Newest.instant \in Nat
    OBVIOUS
  <2>2. Len(held) \in 1..Len(held) /\ Len(held) \in Nat
    BY <2>1 DEF Types
  <2> QED BY <2>2, TicksOf DEF Types, Newest
<1>4. FirstSequence \in Nat /\ (held # <<>> => FirstSequence = Newest.sequence + 2)
  BY <1>3 DEF FirstSequence
<1>5. MaxDrawn \in Nat /\ MaxTime \in Nat /\ start \in Nat /\ n \in Nat
  BY SettlementAssumption DEF Instants
<1>6. Drawn \subseteq Tick
  <2>1. ASSUME NEW t \in Drawn PROVE t \in Tick
    <3>1. /\ t.sequence \in FirstSequence..FirstSequence + MaxDrawn - 1
          /\ t.instant \in start + 1..MaxTime
      OBVIOUS
    <3>2. t.sequence \in Nat /\ t.instant \in Instants
      BY <1>4, <1>5, <3>1 DEF Instants
    <3> QED BY <3>2 DEF Tick
  <2> QED BY <2>1
<1>7. ticks \in Seq(Tick) /\ Len(ticks) = n /\ \A j \in 1..n : ticks[j] \in Drawn
  <2>1. ticks \in [1..n -> Tick]
    BY <1>1, <1>6
  <2>2. ticks \in Seq(Tick)
    BY <1>5, <2>1, SeqDef
  <2> QED BY <1>1, <1>5, <2>2
<1>8. \A j \in 1..n : ticks[j].lattice = frame /\ ticks[j].instant > start
  <2>1. ASSUME NEW j \in 1..n PROVE ticks[j].lattice = frame /\ ticks[j].instant > start
    <3>1. ticks[j] \in Drawn
      BY <1>7
    <3>2. ticks[j].lattice \in {frame} /\ ticks[j].instant \in start + 1..MaxTime
      BY <3>1
    <3> QED BY <1>5, <3>2
  <2> QED BY <2>1
<1> HIDE DEF Drawn
<1>9. InOrder(ticks)
  BY <1>2, <1>7, AscendsIsInOrder
<1>10. ASSUME NEW i \in 1..Len(held), NEW j \in 1..n
       PROVE  /\ held[i].instant < ticks[j].instant
              /\ held[i].sequence < ticks[j].sequence
  <2>1. held # <<>> /\ Len(held) \in 1..Len(held) /\ Len(held) \in Nat
    <3>1. Len(held) \in Nat /\ Len(held) > 0
      BY DEF Types
    <3> QED BY <1>3, <3>1 DEF Types
  <2>2. /\ held[i].instant \in Nat /\ held[i].sequence \in Nat
        /\ ticks[j].instant \in Nat /\ ticks[j].sequence \in Nat
    BY <1>7, TicksOf DEF Types
  <2>3. held[i].instant <= Newest.instant /\ held[i].sequence <= Newest.sequence
    <3>1. i = Len(held) \/ i < Len(held)
      BY <2>1
    <3> QED BY <1>3, <2>1, <2>2, <3>1 DEF OrderInv, InOrder, Newest
  <2>4. ticks[j].sequence > Newest.sequence
    BY <1>2, <1>3, <1>4, <1>7, <2>1
  <2>5. ticks[j].instant > Newest.instant
    BY <1>3, <1>5, <1>8, <2>1, <2>2
  <2> QED BY <1>3, <2>1, <2>2, <2>3, <2>4, <2>5
<1>11. ASSUME NEW j \in 1..n, NEW k \in 1..n, k = j + 1
       PROVE  ticks[k].sequence = ticks[j].sequence + 1
  BY <1>2, <1>4, <1>7, <1>11
<1>12. ASSUME held # <<>>, ticks # <<>> PROVE ticks[1].sequence # Newest.sequence + 1
  <2>1. 1 \in 1..Len(ticks)
    BY <1>5, <1>7, <1>12
  <2>2. ticks[1].sequence = FirstSequence
    BY <1>2, <1>4, <2>1
  <2> QED BY <1>3, <1>4, <1>12, <2>2
<1> QED BY <1>7, <1>8, <1>9, <1>10, <1>11, <1>12 DEF Precede

\* It never opens before the clock, nor before what the record ends with.
LEMMA OpensAtIs ==
  ASSUME Types
  PROVE  /\ OpensAt \in Instants /\ OpensAt >= now
         /\ held # <<>> => Newest.instant <= OpensAt
<1>1. now \in Nat /\ now <= MaxTime
  BY SettlementAssumption DEF Types, Instants
<1>2. CASE held = <<>>
  BY <1>1, <1>2 DEF Types, OpensAt
<1>3. CASE held # <<>>
  <2>1. Len(held) \in 1..Len(held)
    BY <1>3 DEF Types
  <2>2. Newest.instant \in Nat /\ Newest.instant <= MaxTime
    BY <2>1, TicksOf DEF Types, Newest
  <2>3. OpensAt = Later(Newest.instant, now)
    BY <1>3 DEF OpensAt
  <2>4. OpensAt \in {Newest.instant, now} /\ OpensAt >= now /\ OpensAt >= Newest.instant
    BY <1>1, <2>2, <2>3, LaterIs
  <2> QED BY <1>1, <2>2, <2>4, SettlementAssumption DEF Instants
<1> QED BY <1>2, <1>3

-----------------------------------------------------------------------------
(* The invariant is inductive *)

LEMMA SettlementInitInv == SettlementInit => SettlementInv
<1>1. SUFFICES ASSUME SettlementInit PROVE SettlementInv
  OBVIOUS
<1>2. 0 \in Instants /\ 0 \in 0..MaxRewinds
  BY SettlementAssumption DEF Instants
<1>3. Types
  <2>1. /\ now = 0 /\ up = FALSE /\ lattice \in Lattices /\ observed = 0 /\ stalled = FALSE
        /\ asOf = 0 /\ spoken = 0 /\ rewinds = 0 /\ oldest = 1 /\ seams = {}
        /\ held = <<>> /\ schedule = <<>> /\ epochs = <<>>
    BY <1>1 DEF SettlementInit
  <2>2. Len(held) = 0 /\ held \in Seq(Tick) /\ schedule \in Seq(Tick) /\ epochs \in Seq(Epoch)
    BY <2>1
  <2>3. oldest \in 1..Len(held) + 1 /\ seams \subseteq Seam
    BY <2>1, <2>2
  <2> QED BY <1>2, <2>1, <2>2, <2>3 DEF Types
<1>4. OrderInv
  BY <1>1 DEF SettlementInit, OrderInv, InOrder, Precede
<1>5. ScheduleInv /\ SeamsInv
  BY <1>1 DEF SettlementInit, ScheduleInv, SeamsInv
<1>6. EpochsInv /\ TimeInv
  BY <1>1 DEF SettlementInit, EpochsInv, TimeInv
<1> QED BY <1>3, <1>4, <1>5, <1>6 DEF SettlementInv

\* The clock never matters to more than what was said by it.
LEMMA ClockInv ==
  ASSUME SettlementInv, ClockMoves \/ ClockIsSetBack
  PROVE  SettlementInv'
<1>1. now \in Nat /\ now <= MaxTime /\ rewinds \in Nat /\ MaxTime \in Nat /\ MaxRewinds \in Nat
  BY SettlementAssumption DEF SettlementInv, Types, Instants
<1>2. UNCHANGED <<up, lattice, schedule, observed, stalled, asOf, held, oldest, seams, epochs,
                spoken>>
  BY DEF ClockMoves, ClockIsSetBack, venue, kept
<1>3. now' \in Instants /\ rewinds' \in 0..MaxRewinds
  BY <1>1 DEF ClockMoves, ClockIsSetBack, Instants, SettlementInv, Types
<1>4. Types'
  BY <1>2, <1>3 DEF SettlementInv, Types
<1>5. OrderInv' /\ ScheduleInv' /\ SeamsInv' /\ EpochsInv'
  BY <1>2 DEF SettlementInv, OrderInv, InOrder, Precede, ScheduleInv, SeamsInv, EpochsInv,
              Newest, Changes
<1>6. TimeInv'
  <2>1. SUFFICES ASSUME rewinds' = 0
                 PROVE  /\ asOf <= now' /\ spoken <= now'
                        /\ held # <<>> => Newest.instant <= now'
                        /\ \A j \in 1..Len(schedule) : schedule[j].instant > spoken
    BY <1>2 DEF TimeInv, Newest
  <2>2. rewinds = 0 /\ now' = now + 1
    BY <1>1, <2>1 DEF ClockMoves, ClockIsSetBack
  <2>3. asOf \in Nat /\ spoken \in Nat
    BY SettlementAssumption DEF SettlementInv, Types, Instants
  <2>4. held # <<>> => Newest.instant \in Nat
    <3>1. SUFFICES ASSUME held # <<>> PROVE Newest.instant \in Nat
      OBVIOUS
    <3>2. Len(held) \in 1..Len(held) /\ held \in Seq(Tick)
      BY <3>1 DEF SettlementInv, Types
    <3> QED BY <3>2, TicksOf DEF Newest
  <2> QED BY <1>1, <2>2, <2>3, <2>4 DEF SettlementInv, TimeInv
<1> QED BY <1>4, <1>5, <1>6 DEF SettlementInv

\* A market opened at an instant no earlier than the clock and the record.
LEMMA OpeningInv ==
  ASSUME SettlementInv, UNCHANGED <<now, asOf, held, oldest, seams, epochs, spoken, rewinds>>,
         up' \in BOOLEAN, stalled' \in BOOLEAN, observed' \in Instants, lattice' \in Lattices,
         schedule' \in Opened(OpensAt, lattice')
  PROVE  SettlementInv'
<1>1. Types /\ OrderInv /\ held \in Seq(Tick)
  BY DEF SettlementInv, Types
<1>2. OpensAt \in Instants /\ OpensAt >= now /\ (held # <<>> => Newest.instant <= OpensAt)
  BY <1>1, OpensAtIs
<1>3. PICK ticks : ticks = schedule'
  OBVIOUS
<1>4. /\ ticks \in Seq(Tick) /\ InOrder(ticks) /\ Precede(held, ticks)
      /\ \A j \in 1..Len(ticks) : ticks[j].lattice = lattice' /\ ticks[j].instant > OpensAt
      /\ \A j, k \in 1..Len(ticks) : k = j + 1 => ticks[k].sequence = ticks[j].sequence + 1
      /\ held # <<>> /\ ticks # <<>> => ticks[1].sequence # Newest.sequence + 1
  BY <1>1, <1>2, <1>3, OpenedIs
<1>5. Types'
  BY <1>3, <1>4 DEF SettlementInv, Types
<1>6. OrderInv'
  BY <1>1, <1>3, <1>4 DEF OrderInv, InOrder, Precede
<1>7. ScheduleInv'
  BY <1>3, <1>4 DEF ScheduleInv, Newest
<1>8. SeamsInv' /\ EpochsInv'
  BY DEF SettlementInv, SeamsInv, EpochsInv, Newest, Changes
<1>9. TimeInv'
  <2>1. SUFFICES ASSUME rewinds = 0
                 PROVE  /\ asOf <= now /\ spoken <= now
                        /\ held # <<>> => Newest.instant <= now
                        /\ \A j \in 1..Len(ticks) : ticks[j].instant > spoken
    BY <1>3 DEF TimeInv, Newest
  <2>2. /\ asOf <= now /\ spoken <= now
        /\ held # <<>> => Newest.instant <= now
    BY <2>1 DEF SettlementInv, TimeInv
  <2>3. ASSUME NEW j \in 1..Len(ticks) PROVE ticks[j].instant > spoken
    <3>1. ticks[j].instant > OpensAt /\ ticks[j].instant \in Nat
      BY <1>4, TicksOf
    <3>2. now \in Nat /\ spoken \in Nat /\ OpensAt \in Nat
      BY <1>2, SettlementAssumption DEF SettlementInv, Types, Instants
    <3> QED BY <1>2, <2>2, <3>1, <3>2
  <2> QED BY <2>2, <2>3
<1> QED BY <1>5, <1>6, <1>7, <1>8, <1>9 DEF SettlementInv

\* What a pass leaves the price final through is a reading of the clock, until
\* that is set back.
LEMMA FinalIs ==
  ASSUME NEW ticks \in Seq(Tick), NEW clean \in Instants
  PROVE  /\ FinalThrough(ticks, clean) \in Instants
         /\ ticks # <<>> => /\ FinalThrough(ticks, clean) >= ticks[Len(ticks)].instant
                            /\ FinalThrough(ticks, clean) \in {ticks[Len(ticks)].instant, clean}
<1>1. clean \in Nat /\ clean <= MaxTime /\ MaxTime \in Nat
  BY SettlementAssumption DEF Instants
<1>2. CASE ticks = <<>>
  BY <1>1, <1>2 DEF FinalThrough, Instants
<1>3. CASE ticks # <<>>
  <2>1. Len(ticks) \in 1..Len(ticks)
    BY <1>3
  <2>2. ticks[Len(ticks)].instant \in Nat /\ ticks[Len(ticks)].instant <= MaxTime
    BY <2>1, TicksOf
  <2>3. FinalThrough(ticks, clean) = Later(ticks[Len(ticks)].instant, clean)
    BY <1>3 DEF FinalThrough, Last
  <2>4. /\ FinalThrough(ticks, clean) \in {ticks[Len(ticks)].instant, clean}
        /\ FinalThrough(ticks, clean) >= ticks[Len(ticks)].instant
    BY <1>1, <2>2, <2>3, LaterIs
  <2> QED BY <1>1, <2>2, <2>4 DEF Instants
<1> QED BY <1>2, <1>3

LEMMA PublishInv ==
  ASSUME SettlementInv, Publish, UNCHANGED <<now, rewinds>>
  PROVE  SettlementInv'
<1>1. Types /\ OrderInv /\ ScheduleInv /\ SeamsInv /\ EpochsInv /\ TimeInv
  BY DEF SettlementInv
<1>2. PICK c \in 0..Len(schedule) : Moves(c)
  BY <1>1, PublishMoves
<1>3. UNCHANGED <<up, lattice, oldest>> /\ observed' = now
  BY DEF Publish
<1>4. OrderInv' /\ ScheduleInv' /\ SeamsInv' /\ EpochsInv'
  BY <1>1, <1>2, <1>3, MovesOrder, MovesSchedule, MovesSeams, MovesEpochs
<1>5. /\ asOf' \in {asOf, now} /\ spoken' = Later(spoken, FinalThrough(held', asOf'))
      /\ stalled' \in BOOLEAN
  BY DEF Publish
<1>6. /\ now \in Nat /\ now <= MaxTime /\ asOf \in Nat /\ spoken \in Nat /\ spoken <= MaxTime
      /\ MaxTime \in Nat /\ now \in Instants /\ asOf' \in Instants /\ asOf' \in Nat
  BY <1>1, <1>5, SettlementAssumption DEF Types, Instants
<1>7. held' \in Seq(Tick) /\ schedule' \in Seq(Tick) /\ Len(held') >= Len(held)
      /\ Len(held) \in Nat /\ Len(held') \in Nat
  BY <1>1, <1>2 DEF Types, Moves
<1>8. PICK final \in Instants : final = FinalThrough(held', asOf')
  BY <1>6, <1>7, FinalIs
<1>9. final \in Nat /\ final <= MaxTime
  BY <1>6, <1>8 DEF Instants
<1>10. spoken' \in {spoken, final} /\ spoken' \in Instants
  <2>1. spoken' = Later(spoken, final)
    BY <1>5, <1>8
  <2>2. spoken' \in {spoken, final}
    BY <1>6, <1>9, <2>1, LaterIs
  <2>3. spoken \in Instants
    BY <1>1 DEF Types
  <2> QED BY <1>8, <2>2, <2>3
<1>11. Types'
  <2>1. oldest' \in 1..Len(held') + 1
    BY <1>1, <1>3, <1>7 DEF Types
  <2>2. seams' \subseteq Seam /\ epochs' \in Seq(Epoch)
    BY <1>1, <1>2, MovesSeams, MovesEpochs
  <2> QED BY <1>1, <1>3, <1>5, <1>6, <1>7, <1>10, <2>1, <2>2 DEF Types
<1>12. TimeInv'
  <2>1. SUFFICES ASSUME rewinds = 0
                 PROVE  /\ asOf' <= now /\ spoken' <= now
                        /\ held' # <<>> => Newest'.instant <= now
                        /\ \A j \in 1..Len(schedule') : schedule'[j].instant > spoken'
    BY DEF TimeInv
  <2>2. asOf' <= now /\ spoken <= now /\ (held # <<>> => Newest.instant <= now)
    BY <1>1, <1>5, <1>6, <2>1 DEF TimeInv
  <2>3. held' # <<>> => Newest'.instant <= now
    <3>1. CASE c > 0
      <4>1. c \in 1..c
        BY <3>1
      <4> QED BY <1>1, <1>2, <3>1, <4>1, MovedNewest DEF Moves
    <3>2. CASE c = 0
      BY <1>1, <1>2, <2>2, <3>2, MovedNewest
    <3> QED BY <3>1, <3>2
  <2>4. final <= now
    <3>1. CASE held' = <<>>
      BY <1>6, <1>8, <3>1 DEF FinalThrough
    <3>2. CASE held' # <<>>
      <4>1. final \in {held'[Len(held')].instant, asOf'}
        BY <1>6, <1>7, <1>8, <3>2, FinalIs
      <4> QED BY <2>2, <2>3, <3>2, <4>1 DEF Newest
    <3> QED BY <3>1, <3>2
  <2>5. spoken' <= now /\ spoken' \in Nat
    BY <1>6, <1>9, <1>10, <2>2, <2>4
  <2>6. ASSUME NEW j \in 1..Len(schedule') PROVE schedule'[j].instant > spoken'
    <3>1. c + j \in 1..Len(schedule) /\ c + j > c /\ schedule'[j] = schedule[c + j]
      BY <1>1, <1>2, LeftTick
    <3>2. schedule'[j].instant > now
      BY <1>2, <3>1 DEF Moves
    <3>3. schedule'[j].instant \in Nat
      BY <1>7, TicksOf
    <3> QED BY <1>6, <2>5, <3>2, <3>3
  <2> QED BY <2>2, <2>3, <2>5, <2>6
<1> QED BY <1>4, <1>11, <1>12 DEF SettlementInv

\* The process ends, or goes on where it was.
LEMMA KillOrResumeInv ==
  ASSUME SettlementInv, Kill \/ Resume
  PROVE  SettlementInv'
<1>1. /\ UNCHANGED <<now, lattice, schedule, observed, stalled, held, oldest, seams, epochs,
                     spoken, rewinds>>
      /\ up' \in BOOLEAN /\ asOf' \in {0, asOf}
  BY DEF Kill, Resume, kept
<1>2. now \in Nat /\ asOf' \in Instants
  BY <1>1, SettlementAssumption DEF SettlementInv, Types, Instants
<1>3. Types'
  BY <1>1, <1>2 DEF SettlementInv, Types
<1>4. OrderInv' /\ ScheduleInv' /\ SeamsInv' /\ EpochsInv'
  BY <1>1 DEF SettlementInv, OrderInv, InOrder, Precede, ScheduleInv, SeamsInv, EpochsInv,
              Newest, Changes
<1>5. TimeInv'
  BY <1>1, <1>2 DEF SettlementInv, TimeInv, Newest
<1> QED BY <1>3, <1>4, <1>5 DEF SettlementInv

LEMMA TrimInv ==
  ASSUME SettlementInv, Trim
  PROVE  SettlementInv' /\ oldest' > oldest
<1>1. UNCHANGED <<now, up, lattice, schedule, observed, stalled, asOf, held, seams, epochs,
                  spoken, rewinds>>
  BY DEF Trim, venue
<1>2. Len(held) \in Nat /\ oldest \in 1..Len(held) + 1 /\ Keep \in Nat \ {0}
  BY SettlementAssumption DEF SettlementInv, Types
<1>3. oldest' = Len(held) - Keep + 1 /\ Len(held) - oldest + 1 > Keep
  BY DEF Trim
<1>4. oldest' \in 1..Len(held) + 1 /\ oldest' > oldest
  BY <1>2, <1>3
<1>5. Types'
  BY <1>1, <1>4 DEF SettlementInv, Types
<1>6. OrderInv' /\ ScheduleInv' /\ SeamsInv' /\ EpochsInv' /\ TimeInv'
  BY <1>1 DEF SettlementInv, OrderInv, InOrder, Precede, ScheduleInv, SeamsInv, EpochsInv, TimeInv,
              Newest, Changes
<1> QED BY <1>4, <1>5, <1>6 DEF SettlementInv

LEMMA StutterInv ==
  ASSUME SettlementInv, UNCHANGED settlementVars
  PROVE  SettlementInv'
<1>1. UNCHANGED <<now, up, lattice, schedule, observed, stalled, asOf, held, oldest, seams,
                  epochs, spoken, rewinds>>
  BY DEF settlementVars, venue, kept
<1>2. Types'
  BY <1>1 DEF SettlementInv, Types
<1>3. OrderInv' /\ ScheduleInv' /\ SeamsInv' /\ EpochsInv' /\ TimeInv'
  BY <1>1 DEF SettlementInv, OrderInv, InOrder, Precede, ScheduleInv, SeamsInv, EpochsInv, TimeInv,
              Newest, Changes
<1> QED BY <1>2, <1>3 DEF SettlementInv

LEMMA SettlementNextInv ==
  ASSUME SettlementInv, [SettlementNext]_settlementVars
  PROVE  SettlementInv'
<1>1. CASE ClockMoves \/ ClockIsSetBack
  BY <1>1, ClockInv
<1>2. CASE Pass
  <2>1. CASE Reopen
    <3>1. UNCHANGED <<now, up, lattice, asOf, held, oldest, seams, epochs, spoken, rewinds>>
      BY <1>2, <2>1 DEF Pass, Reopen, kept
    <3>2. schedule' \in Opened(OpensAt, lattice') /\ observed' = now /\ stalled' = TRUE
      BY <2>1, <3>1 DEF Reopen
    <3> QED BY <3>1, <3>2, OpeningInv DEF SettlementInv, Types
  <2>2. CASE Publish
    BY <1>2, <2>2, PublishInv DEF Pass
  <2> QED BY <1>2, <2>1, <2>2 DEF Pass
<1>3. CASE Kill \/ Resume
  BY <1>3, KillOrResumeInv
<1>4. CASE Trim
  BY <1>4, TrimInv
<1>5. ASSUME NEW frame \in Lattices, BootPastRecord(frame) PROVE SettlementInv'
  <2>1. UNCHANGED <<now, asOf, held, oldest, seams, epochs, spoken, rewinds>>
    BY <1>5 DEF BootPastRecord, kept
  <2>2. /\ schedule' \in Opened(OpensAt, lattice') /\ lattice' = frame
        /\ observed' = OpensAt /\ up' = TRUE /\ stalled' = FALSE
    BY <1>5 DEF BootPastRecord
  <2>3. OpensAt \in Instants
    BY OpensAtIs DEF SettlementInv
  <2> QED BY <1>5, <2>1, <2>2, <2>3, OpeningInv
<1>6. CASE UNCHANGED settlementVars
  BY <1>6, StutterInv
<1> QED BY <1>1, <1>2, <1>3, <1>4, <1>5, <1>6 DEF SettlementNext

\* In every reachable state every gap of the record is a seam, and every change of
\* lattice an epoch inside one (tickRecord.ts append, resume.ts seamPastRecord).
THEOREM SettlementInductive == SettlementSpec => []SettlementInv
<1>1. SettlementInv /\ [SettlementNext]_settlementVars => SettlementInv'
  BY SettlementNextInv
<1> QED BY SettlementInitInv, <1>1, PTL DEF SettlementSpec

\* What the variables hold, and that what was printed and what will be ascends
\* (tickRecord.ts malformedBatch, hosted.ts advanceTo).
THEOREM SettlementTyped == SettlementSpec => []SettlementTypeOK
<1>1. ASSUME SettlementInv PROVE SettlementTypeOK
  <2>1. Types /\ OrderInv
    BY <1>1 DEF SettlementInv
  <2> DEFINE R == Len(held)
             whole == held \o schedule
  <2>2. /\ R \in Nat /\ whole \in Seq(Tick)
        /\ Len(whole) = R + Len(schedule) /\ Len(schedule) \in Nat
        /\ \A i \in 1..R + Len(schedule) :
             whole[i] = IF i <= R THEN held[i] ELSE schedule[i - R]
    BY <2>1, ConcatProperties DEF Types
  <2>0. R = Len(held) /\ whole = held \o schedule
    OBVIOUS
  <2> HIDE DEF R, whole
  <2>3. ASSUME NEW i \in 1..Len(whole) - 1
        PROVE  /\ whole[i].instant < whole[i + 1].instant
               /\ whole[i].sequence < whole[i + 1].sequence
    <3>1. CASE i < R
      <4>1. i \in 1..R /\ i + 1 \in 1..R /\ i < i + 1
        BY <2>2, <3>1
      <4>2. whole[i] = held[i] /\ whole[i + 1] = held[i + 1]
        BY <2>2, <4>1
      <4> QED BY <2>0, <2>1, <4>1, <4>2 DEF OrderInv, InOrder
    <3>2. CASE i = R
      <4>1. R \in 1..R /\ 1 \in 1..Len(schedule)
        BY <2>2, <2>3, <3>2
      <4>2. whole[i] = held[R] /\ whole[i + 1] = schedule[1]
        BY <2>2, <3>2, <4>1
      <4> QED BY <2>0, <2>1, <4>1, <4>2 DEF OrderInv, Precede
    <3>3. CASE i > R
      <4>1. PICK j \in Nat : j = i - R
        <5>1. i \in Int /\ i - R \in Nat
          BY <2>2, <2>3, <3>3
        <5> QED BY <5>1
      <4>2. /\ j \in 1..Len(schedule) /\ j + 1 \in 1..Len(schedule) /\ j < j + 1
            /\ i + 1 - R = j + 1
        BY <2>2, <3>3, <4>1
      <4>3. whole[i] = schedule[j] /\ whole[i + 1] = schedule[j + 1]
        <5>1. /\ i \in 1..R + Len(schedule) /\ ~(i <= R)
              /\ i + 1 \in 1..R + Len(schedule) /\ ~(i + 1 <= R)
          BY <2>2, <2>3, <3>3
        <5> QED BY <2>2, <4>1, <4>2, <5>1
      <4> QED BY <2>1, <4>2, <4>3 DEF OrderInv, InOrder
    <3> QED BY <2>2, <3>1, <3>2, <3>3
  <2>4. Ascends(held \o schedule)
    BY <2>0, <2>2, <2>3 DEF Ascends
  <2> QED BY <2>1, <2>4 DEF Types, SettlementTypeOK, Epoch
<1> QED BY SettlementInductive, <1>1, PTL

-----------------------------------------------------------------------------
(* What a contract is settled with *)

\* The tick in force at an instant is the last retained one at or before it.
LEMMA TickAtIs ==
  ASSUME Types, NEW at \in Instants
  PROVE  /\ TickAt(at) \in 0..Len(held)
         /\ TickAt(at) # 0 =>
              /\ TickAt(at) \in 1..Len(held) /\ TickAt(at) >= oldest
              /\ held[TickAt(at)].instant <= at
         /\ \A i \in 1..Len(held) :
              i >= oldest /\ held[i].instant <= at => TickAt(at) >= i
<1> DEFINE I == {i \in oldest..Len(held) : held[i].instant <= at}
<1>1. TickAt(at) = IF I # {} THEN Max(I) ELSE 0
  BY DEF TickAt, SelectLastInSubSeq
<1>2. Len(held) \in Nat /\ oldest \in 1..Len(held) + 1
  BY DEF Types
<1>3. I \subseteq 1..Len(held)
  BY <1>2
<1>4. /\ TickAt(at) \in 0..Len(held) /\ (I # {} => TickAt(at) \in I)
      /\ \A i \in I : i <= TickAt(at)
  <2> HIDE DEF I
  <2> QED BY <1>1, <1>2, <1>3, LastFacts
<1>5. ASSUME TickAt(at) # 0
      PROVE  TickAt(at) \in 1..Len(held) /\ TickAt(at) >= oldest
             /\ held[TickAt(at)].instant <= at
  <2>1. I # {}
    BY <1>1, <1>5
  <2>2. PICK m \in I : m = TickAt(at)
    BY <1>4, <2>1
  <2>3. m \in oldest..Len(held) /\ held[m].instant <= at /\ m \in 1..Len(held)
    BY <1>3, <2>2
  <2> QED BY <1>2, <2>2, <2>3
<1>6. ASSUME NEW i \in 1..Len(held), i >= oldest, held[i].instant <= at
      PROVE  TickAt(at) >= i
  <2>1. i \in I
    BY <1>2, <1>6
  <2>2. TickAt(at) \in Nat /\ i <= TickAt(at)
    <3> HIDE DEF I
    <3> QED BY <1>2, <1>4, <2>1
  <2> QED BY <2>2
<1> QED BY <1>4, <1>5, <1>6

\* A lattice that differs at two ticks of a record changes at a tick between.
LEMMA LatticeChanges ==
  ASSUME Types, NEW a \in 1..Len(held), NEW b \in 1..Len(held), a <= b,
         held[a].lattice # held[b].lattice
  PROVE  \E i \in a..b - 1 : held[i].lattice # held[i + 1].lattice
<1> DEFINE T == {k \in a..b : held[k].lattice # held[a].lattice}
<1>1. b \in T /\ T \subseteq Nat
  OBVIOUS
<1>2. PICK k \in T : \A l \in T : k <= l
  <2> HIDE DEF T
  <2> QED BY <1>1, LeastNatural
<1>3. k \in a..b /\ held[k].lattice # held[a].lattice /\ k # a
  BY <1>2
<1>4. PICK i \in Nat : k = i + 1
  <2>1. k - 1 \in Nat /\ k = (k - 1) + 1
    BY <1>3
  <2> QED BY <2>1
<1>5. i \in a..b - 1 /\ i \in a..b /\ ~(k <= i)
  BY <1>3, <1>4
<1>6. i \notin T
  BY <1>2, <1>5
<1>7. held[i].lattice = held[a].lattice
  BY <1>5, <1>6
<1> QED BY <1>3, <1>4, <1>5, <1>7

\* Both ticks of a contract that settle() accepts.
LEMMA SettleableIs ==
  ASSUME Types, NEW entry \in Instants, NEW expiry \in Instants, entry < expiry,
         held # <<>>, Settleable(entry, expiry)
  PROVE  /\ TickAt(entry) \in 1..Len(held) /\ TickAt(expiry) \in 1..Len(held)
         /\ TickAt(entry) <= TickAt(expiry) /\ oldest <= TickAt(entry)
         /\ held[TickAt(entry)].instant <= entry /\ held[TickAt(expiry)].instant <= expiry
<1>1. TickAt(entry) \in 1..Len(held) /\ held[TickAt(entry)].instant <= entry
      /\ TickAt(entry) >= oldest
  BY TickAtIs DEF Settleable
<1>2. held[TickAt(entry)].instant \in Nat /\ entry \in Nat /\ expiry \in Nat
      /\ Len(held) \in Nat /\ oldest \in Nat
  BY <1>1, TicksOf, SettlementAssumption DEF Types, Instants
<1>3. held[TickAt(entry)].instant <= expiry
  BY <1>1, <1>2
<1>4. TickAt(expiry) >= TickAt(entry)
  BY <1>1, <1>2, <1>3, TickAtIs
<1>5. TickAt(expiry) # 0
  BY <1>1, <1>4, TickAtIs
<1>6. TickAt(expiry) \in 1..Len(held) /\ held[TickAt(expiry)].instant <= expiry
  BY <1>5, TickAtIs
<1> QED BY <1>1, <1>2, <1>4, <1>6

\* The integers it compares count in one unit: between two lattices there is a gap
\* with a change of the log inside it, and a window from before it to after it
\* reaches into it.
LEMMA OneLattice ==
  ASSUME SettlementInv, NEW entry \in Instants, NEW expiry \in Instants, entry < expiry,
         held # <<>>, Settleable(entry, expiry)
  PROVE  held[TickAt(entry)].lattice = held[TickAt(expiry)].lattice
<1>1. Types /\ OrderInv /\ SeamsInv /\ EpochsInv /\ held \in Seq(Tick) /\ Len(held) \in Nat
      /\ oldest \in Nat
  BY DEF SettlementInv, Types
<1>2. PICK a \in 1..Len(held), b \in 1..Len(held) :
        /\ a = TickAt(entry) /\ b = TickAt(expiry) /\ a <= b /\ oldest <= a
        /\ held[a].instant <= entry /\ held[b].instant <= expiry
  BY <1>1, SettleableIs
<1>3. SUFFICES ASSUME held[a].lattice # held[b].lattice PROVE FALSE
  BY <1>2
<1>4. PICK i \in a..b - 1 : held[i].lattice # held[i + 1].lattice
  BY <1>1, <1>2, <1>3, LatticeChanges
<1>5. PICK j \in 1..Len(held) : j = i + 1 /\ i \in 1..Len(held) /\ a < j /\ j <= b
  <2>1. /\ i \in Int /\ i + 1 \in 1..Len(held) /\ i \in 1..Len(held)
        /\ a < i + 1 /\ i + 1 <= b
    BY <1>1, <1>2, <1>4
  <2> QED BY <2>1
<1>6. held[j].sequence # held[i].sequence + 1 /\ held[j].sequence \in Changes
  BY <1>1, <1>4, <1>5 DEF EpochsInv
<1>7. PICK seam \in seams :
        seam = [lastSequence |-> held[i].sequence, lastInstant |-> held[i].instant,
                resumesAtSequence |-> held[j].sequence, resumesAtInstant |-> held[j].instant]
  BY <1>1, <1>5, <1>6 DEF SeamsInv, SeamBetween
<1>8. held[i].sequence < held[j].sequence /\ held[i].instant < held[j].instant
  BY <1>1, <1>5 DEF OrderInv, InOrder
<1>9. /\ held[i].sequence \in Nat /\ held[j].sequence \in Nat
      /\ held[i].instant \in Nat /\ held[j].instant \in Nat /\ held[b].instant \in Nat
      /\ entry \in Nat /\ expiry \in Nat
  BY <1>1, <1>5, TicksOf, SettlementAssumption DEF Instants
<1>10. Reframes(seam)
  BY <1>6, <1>7, <1>8, <1>9 DEF Reframes
<1>11. entry < held[j].instant
  <2>1. SUFFICES ASSUME held[j].instant <= entry PROVE FALSE
    BY <1>9
  <2>2. TickAt(entry) >= j
    BY <1>1, <1>2, <1>5, <2>1, TickAtIs
  <2> QED BY <1>2, <1>5, <2>2
<1>12. expiry > held[i].instant
  <2>1. j = b \/ held[j].instant < held[b].instant
    BY <1>1, <1>5 DEF OrderInv, InOrder
  <2> QED BY <1>2, <1>8, <1>9, <2>1
<1>13. Crosses(entry, expiry, seam)
  BY <1>7, <1>11, <1>12 DEF Crosses
<1> QED BY <1>10, <1>13 DEF Settleable

\* What the route says of an instant at or before the newest tick.
LEMMA RouteIs ==
  ASSUME Types, NEW at \in Instants, held # <<>>, at <= Newest.instant, TickAt(at) # 0
  PROVE  PriceRoute(at) = {held[TickAt(at)]}
<1>1. TickAt(at) \in 1..Len(held) /\ AtOrBefore(at) = TickAt(at)
  BY TickAtIs DEF AtOrBefore, TickAt
<1>2. Len(held) \in 1..Len(held) /\ held \in Seq(Tick) /\ DOMAIN held = 1..Len(held)
  BY DEF Types
<1>3. Newest.instant \in Nat /\ at \in Nat
  BY <1>2, TicksOf, SettlementAssumption DEF Newest, Instants
<1>4. PICK final \in Instants : final = FinalThrough(held, asOf) /\ final >= Newest.instant
  BY <1>2, FinalIs DEF Types, Newest
<1>5. at <= FinalThrough(held, asOf)
  BY <1>3, <1>4, SettlementAssumption DEF Instants
<1>6. held[TickAt(at)] \in Range(held)
  BY <1>1, <1>2 DEF Range
<1> QED BY <1>1, <1>5, <1>6 DEF PriceRoute

\* What settle() decides and what the route answered for the same instants are the
\* same, in one unit (settle.ts, market.controller.ts priceAt).
THEOREM RouteAgrees == SettlementSpec => []RouteAgreesWithSettle
<1>1. ASSUME SettlementInv PROVE RouteAgreesWithSettle
  <2>1. SUFFICES ASSUME held # <<>>, NEW w \in ContractWindows, Settleable(w[1], w[2])
                 PROVE  /\ Settled(w[1], w[2])[1].lattice = Settled(w[1], w[2])[2].lattice
                        /\ \A i \in 1..2 : PriceRoute(w[i]) = {Settled(w[1], w[2])[i]}
    BY DEF RouteAgreesWithSettle
  <2>2. PICK entry \in Instants, expiry \in Instants :
          w[1] = entry /\ w[2] = expiry /\ entry < expiry
    BY DEF ContractWindows
  <2>3. Types /\ Settleable(entry, expiry)
    BY <1>1, <2>1, <2>2 DEF SettlementInv
  <2>4. TickAt(entry) # 0 /\ TickAt(expiry) # 0
    <3>1. TickAt(entry) \in 1..Len(held) /\ TickAt(expiry) \in 1..Len(held)
      BY <2>1, <2>2, <2>3, SettleableIs
    <3> QED BY <3>1
  <2>5. expiry <= Newest.instant /\ entry <= Newest.instant
    <3>1. expiry <= Newest.instant
      BY <2>3 DEF Settleable
    <3>2. Len(held) \in 1..Len(held) /\ held \in Seq(Tick)
      BY <2>1, <2>3 DEF Types
    <3>3. Newest.instant \in Nat /\ entry \in Nat /\ expiry \in Nat
      BY <3>2, TicksOf, SettlementAssumption DEF Newest, Instants
    <3> QED BY <2>2, <3>1, <3>3
  <2>6. /\ PriceRoute(entry) = {held[TickAt(entry)]}
        /\ PriceRoute(expiry) = {held[TickAt(expiry)]}
    BY <2>1, <2>3, <2>4, <2>5, RouteIs
  <2>7. held[TickAt(entry)].lattice = held[TickAt(expiry)].lattice
    BY <1>1, <2>1, <2>2, <2>3, OneLattice
  <2>8. /\ Settled(w[1], w[2])[1] = held[TickAt(entry)]
        /\ Settled(w[1], w[2])[2] = held[TickAt(expiry)]
    BY <2>2 DEF Settled
  <2>9. ASSUME NEW i \in 1..2 PROVE PriceRoute(w[i]) = {Settled(w[1], w[2])[i]}
    <3>1. i = 1 \/ i = 2
      OBVIOUS
    <3> QED BY <2>2, <2>6, <2>8, <3>1
  <2> QED BY <2>7, <2>8, <2>9
<1> QED BY SettlementInductive, <1>1, PTL

-----------------------------------------------------------------------------
(* What was answered stands *)

\* What moves to the record is later than everything it held, and, until the
\* clock is first set back, than everything a price was final through.
LEMMA MovedIsLater ==
  ASSUME SettlementInv, NEW c \in 0..Len(schedule), Moves(c), NEW i \in 1..Len(held'), i > Len(held)
  PROVE  /\ held'[i].instant \in Nat
         /\ rewinds = 0 => held'[i].instant > spoken
         /\ held # <<>> => held'[i].instant > Newest.instant
<1>1. Types /\ OrderInv /\ TimeInv /\ Len(held) \in Nat /\ Len(schedule) \in Nat
      /\ held' \in Seq(Tick)
  BY DEF SettlementInv, Types, Moves
<1>2. PICK j \in 1..c : held'[i] = schedule[j]
  BY <1>1, MovedTick
<1>3. j \in 1..Len(schedule)
  BY <1>1
<1>4. held # <<>> => Len(held) \in 1..Len(held)
  BY <1>1
<1> QED BY <1>1, <1>2, <1>3, <1>4, TicksOf DEF TimeInv, OrderInv, Precede, Newest

\* No tick is put at or before what a price was final through.
LEMMA TruthStands ==
  ASSUME SettlementInv, NEW c \in 0..Len(schedule), Moves(c), rewinds = 0, NEW at \in 0..spoken
  PROVE  Truth(held', at) = Truth(held, at)
<1> DEFINE I == {i \in 1..Len(held) : held[i].instant <= at}
           J == {i \in 1..Len(held') : held'[i].instant <= at}
<1>1. /\ Len(held) \in Nat /\ Len(held') = Len(held) + c /\ spoken \in Nat
      /\ c \in Nat /\ Len(schedule) \in Nat
  BY SettlementAssumption DEF SettlementInv, Types, Instants, Moves
<1>2. I \subseteq J
  BY <1>1 DEF Moves
<1>3. J \subseteq I
  <2>1. SUFFICES ASSUME NEW i \in J PROVE i \in I
    OBVIOUS
  <2>2. i \in 1..Len(held') /\ held'[i].instant <= at
    BY <2>1
  <2>3. ~(i > Len(held))
    <3>1. SUFFICES ASSUME i > Len(held) PROVE FALSE
      OBVIOUS
    <3>2. held'[i].instant \in Nat /\ held'[i].instant > spoken
      BY <2>2, <3>1, MovedIsLater
    <3> QED BY <1>1, <2>2, <3>2
  <2>4. i \in 1..Len(held)
    BY <1>1, <2>2, <2>3
  <2> QED BY <2>2, <2>4 DEF Moves
<1>4. I = J
  BY <1>2, <1>3
<1>5. Truth(held, at) = IF I # {} THEN Max(I) ELSE 0
  BY DEF Truth, SelectLastInSeq
<1>6. Truth(held', at) = IF J # {} THEN Max(J) ELSE 0
  BY DEF Truth, SelectLastInSeq
<1> HIDE DEF I, J
<1> QED BY <1>4, <1>5, <1>6

\* The tick in force at an instant the record had reached stays in force.
LEMMA TickAtStands ==
  ASSUME SettlementInv, NEW c \in 0..Len(schedule), Moves(c), oldest' = oldest, held # <<>>,
         NEW at \in Instants, at <= Newest.instant
  PROVE  /\ TickAt(at)' = TickAt(at)
         /\ TickAt(at) # 0 => held'[TickAt(at)] = held[TickAt(at)]
<1> DEFINE I == {i \in oldest..Len(held) : held[i].instant <= at}
           J == {i \in oldest..Len(held') : held'[i].instant <= at}
<1>1. /\ Len(held) \in Nat /\ Len(held') = Len(held) + c /\ at \in Nat
      /\ c \in Nat /\ oldest \in 1..Len(held) + 1 /\ Len(held) \in 1..Len(held)
      /\ held \in Seq(Tick) /\ Types /\ oldest \in Nat
  <2>1. /\ Types /\ held \in Seq(Tick) /\ Len(held) \in Nat /\ Len(schedule) \in Nat
        /\ Len(held') = Len(held) + c /\ oldest \in 1..Len(held) + 1
    BY DEF SettlementInv, Types, Moves
  <2>2. at \in Nat
    BY SettlementAssumption DEF Instants
  <2>3. Len(held) > 0
    BY <2>1
  <2> QED BY <2>1, <2>2, <2>3
<1>2. Newest.instant \in Nat
  BY <1>1, TicksOf DEF Newest
<1>3. I \subseteq J
  <2>1. SUFFICES ASSUME NEW i \in I PROVE i \in J
    OBVIOUS
  <2>2. i \in 1..Len(held) /\ i \in oldest..Len(held') /\ held[i].instant <= at
    BY <1>1, <2>1
  <2> QED BY <2>2 DEF Moves
<1>4. J \subseteq I
  <2>1. SUFFICES ASSUME NEW i \in J PROVE i \in I
    OBVIOUS
  <2>2. i \in 1..Len(held') /\ i >= oldest /\ held'[i].instant <= at
    BY <1>1, <2>1
  <2>3. ~(i > Len(held))
    <3>1. SUFFICES ASSUME i > Len(held) PROVE FALSE
      OBVIOUS
    <3>2. held'[i].instant \in Nat /\ held'[i].instant > Newest.instant
      BY <2>2, <3>1, MovedIsLater
    <3> QED BY <1>1, <1>2, <2>2, <3>2
  <2>4. i \in 1..Len(held) /\ i \in oldest..Len(held)
    BY <1>1, <2>2, <2>3
  <2> QED BY <2>2, <2>4 DEF Moves
<1>5. I = J
  BY <1>3, <1>4
<1>6. TickAt(at) = IF I # {} THEN Max(I) ELSE 0
  BY DEF TickAt, SelectLastInSubSeq
<1>7. TickAt(at)' = IF J # {} THEN Max(J) ELSE 0
  BY DEF TickAt, SelectLastInSubSeq
<1>8. TickAt(at) # 0 => held'[TickAt(at)] = held[TickAt(at)]
  BY <1>1, TickAtIs DEF Moves
<1> HIDE DEF I, J
<1> QED BY <1>5, <1>6, <1>7, <1>8

\* A seam that the record had is across a change of lattice if it was.
LEMMA ReframesStands ==
  ASSUME SettlementInv, NEW c \in 0..Len(schedule), Moves(c), NEW seam \in seams, Reframes(seam)'
  PROVE  Reframes(seam)
<1>1. Types /\ OrderInv /\ ScheduleInv /\ EpochsInv /\ SeamsInv
  BY DEF SettlementInv
<1>2. seam \in Seam /\ held # <<>> /\ seam.resumesAtSequence <= Newest.sequence
  BY <1>1 DEF Types, SeamsInv
<1>3. PICK at \in Changes' : at > seam.lastSequence /\ at <= seam.resumesAtSequence
  BY DEF Reframes
<1>4. CASE at \in Changes
  BY <1>3, <1>4 DEF Reframes
<1>5. CASE at \notin Changes
  <2>1. c > 0 /\ at = schedule[1].sequence
    BY <1>1, <1>3, <1>5, MovesEpochs
  <2>2. 1 \in 1..Len(schedule) /\ Len(held) \in 1..Len(held)
    BY <1>1, <1>2, <2>1 DEF Types
  <2>3. Newest.sequence < at
    BY <1>1, <2>1, <2>2 DEF OrderInv, Precede, Newest
  <2>4. Newest.sequence \in Nat /\ at \in Nat /\ seam.resumesAtSequence \in Nat
    BY <1>1, <1>2, <2>1, <2>2, TicksOf DEF Types, Newest, Seam
  <2> QED BY <1>2, <1>3, <2>3, <2>4
<1> QED BY <1>4, <1>5

\* A seam that the record had not begins where the record ended, or later.
LEMMA NewSeamIsLater ==
  ASSUME SettlementInv, NEW c \in 0..Len(schedule), Moves(c), held # <<>>,
         NEW seam \in seams', seam \notin seams
  PROVE  seam.lastInstant \in Nat /\ seam.lastInstant >= Newest.instant
<1>1. /\ Types /\ Len(held) \in 1..Len(held) /\ Len(held') = Len(held) + c
      /\ held' \in Seq(Tick) /\ held \in Seq(Tick)
  BY DEF SettlementInv, Types, Moves
<1>2. PICK i \in Len(held)..Len(held') - 1 :
        i > 0 /\ seam \in SeamBetween(held'[i], held'[i + 1])
  BY DEF Moves
<1>3. seam.lastInstant = held'[i].instant
  BY <1>2 DEF SeamBetween
<1>4. i \in 1..Len(held')
  BY <1>1, <1>2
<1>5. CASE i = Len(held)
  <2>1. held'[i] = Newest
    BY <1>1, <1>5 DEF Moves, Newest
  <2>2. Newest.instant \in Nat
    BY <1>1, TicksOf DEF Newest
  <2> QED BY <1>3, <2>1, <2>2
<1>6. CASE i > Len(held)
  <2>1. held'[i].instant \in Nat /\ held'[i].instant > Newest.instant
    BY <1>4, <1>6, MovedIsLater
  <2>2. Newest.instant \in Nat
    BY <1>1, TicksOf DEF Newest
  <2> QED BY <1>3, <2>1, <2>2
<1> QED BY <1>1, <1>2, <1>5, <1>6

\* A contract settle() accepts is one it goes on accepting, with the same prices.
LEMMA SettledStands ==
  ASSUME SettlementInv, SettlementInv', NEW c \in 0..Len(schedule), Moves(c), oldest' = oldest,
         held # <<>>, NEW entry \in Instants, NEW expiry \in Instants, entry < expiry,
         Settleable(entry, expiry)
  PROVE  Settleable(entry, expiry)' /\ Settled(entry, expiry)' = Settled(entry, expiry)
<1>1. /\ Types /\ Len(held) \in 1..Len(held) /\ held \in Seq(Tick) /\ Len(held) \in Nat
      /\ Len(held') = Len(held) + c /\ held' \in Seq(Tick) /\ c \in Nat
  BY DEF SettlementInv, Types, Moves
<1>2. /\ TickAt(entry) \in 1..Len(held) /\ TickAt(expiry) \in 1..Len(held)
      /\ TickAt(entry) # 0 /\ TickAt(expiry) # 0
  BY <1>1, SettleableIs
<1>3. Newest.instant \in Nat /\ entry \in Nat /\ expiry \in Nat /\ expiry <= Newest.instant
  BY <1>1, TicksOf, SettlementAssumption DEF Newest, Instants, Settleable
<1>4. entry <= Newest.instant
  BY <1>3
<1>5. /\ TickAt(entry)' = TickAt(entry) /\ held'[TickAt(entry)] = held[TickAt(entry)]
      /\ TickAt(expiry)' = TickAt(expiry) /\ held'[TickAt(expiry)] = held[TickAt(expiry)]
  BY <1>2, <1>3, <1>4, TickAtStands
<1>6. expiry <= Newest'.instant
  <2>1. Len(held') \in 1..Len(held') /\ Newest' = held'[Len(held')]
    BY <1>1 DEF Newest
  <2>2. CASE c = 0
    BY <1>1, <1>3, <2>2, MovedNewest
  <2>3. CASE c > 0
    <3>1. Newest'.instant \in Nat /\ Newest'.instant > Newest.instant
      BY <1>1, <2>1, <2>3, MovedIsLater
    <3> QED BY <1>3, <3>1
  <2> QED BY <1>1, <2>2, <2>3
<1>7. ASSUME NEW seam \in seams', Crosses(entry, expiry, seam) PROVE ~Reframes(seam)'
  <2>1. CASE seam \in seams
    BY <1>7, <2>1, ReframesStands DEF Settleable
  <2>2. CASE seam \notin seams
    <3>1. seam.lastInstant \in Nat /\ seam.lastInstant >= Newest.instant
      BY <2>2, NewSeamIsLater
    <3> QED BY <1>3, <1>7, <3>1 DEF Crosses
  <2> QED BY <2>1, <2>2
<1>8. Settleable(entry, expiry)'
  BY <1>2, <1>5, <1>6, <1>7 DEF Settleable, Crosses
<1>9. Settled(entry, expiry)' = Settled(entry, expiry)
  BY <1>5 DEF Settled
<1> QED BY <1>8, <1>9

\* A step that leaves the record alone, or trims it.
LEMMA RecordKept ==
  ASSUME UNCHANGED <<held, seams, epochs>>
  PROVE  /\ \A at \in 0..spoken : Truth(held', at) = Truth(held, at)
         /\ oldest' = oldest => \A w \in ContractWindows : Settleable(w[1], w[2]) =>
              Settleable(w[1], w[2])' /\ Settled(w[1], w[2])' = Settled(w[1], w[2])
<1>1. \A at \in 0..spoken : Truth(held', at) = Truth(held, at)
  BY DEF Truth
<1>2. ASSUME oldest' = oldest, NEW w \in ContractWindows, Settleable(w[1], w[2])
      PROVE  Settleable(w[1], w[2])' /\ Settled(w[1], w[2])' = Settled(w[1], w[2])
  <2>1. TickAt(w[1])' = TickAt(w[1]) /\ TickAt(w[2])' = TickAt(w[2])
    BY <1>2 DEF TickAt, SelectLastInSubSeq
  <2>2. Settleable(w[1], w[2])'
    BY <1>2, <2>1 DEF Settleable, Newest, Crosses, Reframes, Changes
  <2>3. Settled(w[1], w[2])' = Settled(w[1], w[2])
    BY <2>1 DEF Settled
  <2> QED BY <2>2, <2>3
<1> QED BY <1>1, <1>2

\* Until the host's clock is first set back, a price that was final through an
\* instant is never changed, and a settled outcome stays the outcome
\* (market.controller.ts priceAt, reopen.ts, resume.ts).
THEOREM AnswersAlwaysStand == SettlementSpec => AnswersStand
<1> DEFINE Stands ==
      rewinds' = 0 =>
        /\ \A at \in 0..spoken : Truth(held', at) = Truth(held, at)
        /\ held # <<>> => \A w \in ContractWindows : Settleable(w[1], w[2]) =>
             \/ Settleable(w[1], w[2])' /\ Settled(w[1], w[2])' = Settled(w[1], w[2])
             \/ oldest' > oldest
<1>1. ASSUME SettlementInv, SettlementInv', [SettlementNext]_settlementVars PROVE Stands
  <2>1. CASE Pass /\ Publish
    <3>1. Types /\ OrderInv
      BY <1>1 DEF SettlementInv
    <3>2. PICK c \in 0..Len(schedule) : Moves(c)
      BY <2>1, <3>1, PublishMoves
    <3>3. rewinds' = rewinds /\ oldest' = oldest
      BY <2>1 DEF Pass, Publish
    <3>4. rewinds = 0 => \A at \in 0..spoken : Truth(held', at) = Truth(held, at)
      BY <1>1, <3>2, TruthStands
    <3>5. ASSUME held # <<>>, NEW w \in ContractWindows, Settleable(w[1], w[2])
          PROVE  Settleable(w[1], w[2])' /\ Settled(w[1], w[2])' = Settled(w[1], w[2])
      <4>1. PICK entry \in Instants, expiry \in Instants :
              w[1] = entry /\ w[2] = expiry /\ entry < expiry
        BY DEF ContractWindows
      <4>2. /\ Settleable(entry, expiry)'
            /\ Settled(entry, expiry)' = Settled(entry, expiry)
        BY <1>1, <3>2, <3>3, <3>5, <4>1, SettledStands
      <4> QED BY <4>1, <4>2
    <3> QED BY <3>3, <3>4, <3>5
  <2>2. CASE Trim
    BY <1>1, <2>2, TrimInv, RecordKept DEF Trim
  <2>3. CASE UNCHANGED <<held, oldest, seams, epochs>>
    BY <2>3, RecordKept
  <2>4. (Pass /\ Publish) \/ Trim \/ UNCHANGED <<held, oldest, seams, epochs>>
    BY <1>1 DEF SettlementNext, ClockMoves, ClockIsSetBack, Pass, Reopen, Kill, Resume,
                BootPastRecord,
                settlementVars, kept
  <2> QED BY <2>1, <2>2, <2>3, <2>4
<1>2. Stands <=> (rewinds' = 0 =>
     /\ \A at \in 0..spoken : Truth(held', at) = Truth(held, at)
     /\ held # <<>> => \A w \in ContractWindows : Settleable(w[1], w[2]) =>
          \/ Settleable(w[1], w[2])' /\ Settled(w[1], w[2])' = Settled(w[1], w[2])
          \/ oldest' > oldest)
  OBVIOUS
<1> HIDE DEF Stands
<1> QED BY SettlementInductive, <1>1, <1>2, PTL DEF SettlementSpec, AnswersStand

=============================================================================
