-------------------------- MODULE PublicationProofs --------------------------
(***************************************************************************)
(* What Publication promises for any window, batch and lease, any number   *)
(* of ticks and of departures, and any of the faults.                      *)
(*                                                                         *)
(* The links on disk and those being written are one sequence.  The        *)
(* inductive invariant says how the publisher goes on from its last one,   *)
(* that windows ascend in it and where the ticks of the record are.  A     *)
(* failed write breaks the first, a rolled back record the second, and     *)
(* either the third.                                                       *)
(***************************************************************************)
EXTENDS Publication, Integers, WellFoundedInduction, TLAPS

Positive == Nat \ {0}

-----------------------------------------------------------------------------
(* The parts of the inductive invariant *)

\* Roots are links, and links hold roots: what there is of them is some set.
LinksOn(S) == [from : Positive, to : Positive, prev : S, resumes : Nat]
Pubs(S)    == [open : Seq(Positive), prev : S, next : Nat, tip : Nat, resumes : Nat]
Held(S)    == pub \in Pubs(S) /\ chain \in Seq(LinksOn(S)) /\ writing \in Seq(LinksOn(S))

Types ==
  /\ record \in SUBSET (1..MaxSequence) /\ next \in Positive
  /\ hosted \in BOOLEAN /\ seamed \in BOOLEAN /\ journaled \in BOOLEAN
  /\ pc \in {"down", "fold", "jump", "bind", "up", "stop"}
  /\ runs \in SUBSET (1..MaxSequence)
  /\ crashed \in BOOLEAN /\ rolled \in BOOLEAN /\ failed \in BOOLEAN
  /\ \E S : Held(S)

\* Sequences that follow each other.
IsRun(open) == \A i \in 1..Len(open) : open[i] = open[1] + i - 1

\* The links there are, on disk or on their way to it, and how far they reach.
All == chain \o writing
Through(links) == IF links = <<>> THEN 0 ELSE links[Len(links)].to
Proper(links)  == \A i \in 1..Len(links) : links[i].from <= links[i].to

\* A window is a run; a process holds nothing while it is down and has nothing
\* open when it binds or stops; a link is on disk once its journal is.
Shape ==
  /\ IsRun(pub.open) /\ Proper(All)
  /\ pub.next = 0 => pub.open = <<>>
  /\ pc = "down" => pub = Fresh /\ writing = <<>> /\ runs = {}
  /\ pc \in {"bind", "stop"} => pub.open = <<>>
  /\ pc \notin {"fold", "jump", "bind"} => runs = {}
  /\ \A i \in 1..Len(chain) : <<chain[i].from, chain[i].to>> \in journals
  /\ journaled => writing # <<>> /\ <<writing[1].from, writing[1].to>> \in journals

\* The publisher begins the chain again, or goes on from the last link: with the
\* tick behind it, or with an interval declared from it.
GoesOn(p, links) ==
  \/ p.prev = NoRoot /\ p.resumes = 0 /\ p.tip = 0
  \/ /\ links # <<>>
     /\ p.prev = links[Len(links)] /\ p.tip = p.prev.to
     /\ p.resumes = 0 => IF p.open = <<>> THEN p.next = p.tip + 1 ELSE p.open[1] = p.tip + 1
     /\ p.resumes # 0 => /\ p.resumes = p.tip
                         /\ IF p.open = <<>> THEN p.next = 0 ELSE p.open[1] > p.tip + 1

Goes   == Verifies(All) /\ GoesOn(pub, All)
Linked == failed \/ Goes

\* How far the links and the open window reach.
Edge(p, links) == IF p.open = <<>> THEN Through(links) ELSE p.open[Len(p.open)]

Ascending(links) == \A i, j \in 1..Len(links) : i < j => links[i].to < links[j].from

\* The open window is past the links.
Past(p, links) == p.open # <<>> => Through(links) < p.open[1]

Behind == Ascending(All) /\ Past(pub, All)

\* Windows ascend, and what is to be folded in or generated is past them.
Ascends ==
  rolled \/ /\ Behind
            /\ Edge(pub, All) <= HeadOf(record)
            /\ runs \subseteq record /\ \A s \in runs : Edge(pub, All) < s

\* The market goes on past the record.
Ahead == pc # "down" => next > HeadOf(record)

CoveredBy(links) == {s \in Nat : \E i \in 1..Len(links) : links[i].from <= s /\ s <= links[i].to}
OpenTicks(p) == {p.open[i] : i \in 1..Len(p.open)}

\* Where the ticks of the record are, and that the running market's next one is
\* expected.
Covers ==
  rolled \/ failed \/
    /\ record = published
    /\ pc # "down" => record \subseteq CoveredBy(All) \cup OpenTicks(pub) \cup unreached \cup runs
    /\ pc = "down" => \A s \in record : s <= Through(chain) => s \in CoveredBy(chain) \cup unreached
    /\ ~crashed => /\ unreached = {} /\ runs = {}
                   /\ pc = "down" => record \subseteq CoveredBy(chain)
    /\ ~seamed /\ (pc = "fold" \/ runs # {}) =>
         /\ next = HeadOf(record) + 1
         /\ runs # {} => HeadOf(record) \in runs
    /\ hosted /\ (pc = "up" \/ (pc = "fold" /\ runs = {} /\ ~seamed)) => Expects(pub, next)

IInv == Types /\ Shape /\ Linked /\ Ascends /\ Ahead /\ Covers

-----------------------------------------------------------------------------
(* Numbers *)

\* A set of naturals has a least one.
LEMMA LeastNatural ==
  ASSUME NEW T, T \subseteq Nat, T # {}
  PROVE  \E x \in T : \A y \in T : x <= y
<1> DEFINE R == {ss \in Nat \X Nat : ss[1] < ss[2]}
<1>1. IsWellFoundedOn(R, Nat)
  BY NatLessThanWellFounded DEF OpToRel
<1>2. PICK x \in T : \A y \in T : ~(<<y, x>> \in R)
  <2> HIDE DEF R
  <2> QED BY <1>1, WFMin
<1>3. ASSUME NEW y \in T PROVE x <= y
  <2>1. x \in Nat /\ y \in Nat
    OBVIOUS
  <2>2. ~(<<y, x>> \in R)
    BY <1>2
  <2> QED BY <2>1, <2>2
<1> QED BY <1>3

\* Induction, of a set.
LEMMA Induction ==
  ASSUME NEW T, 0 \in T, \A n \in Nat : n \in T => n + 1 \in T
  PROVE  Nat \subseteq T
<1> SUFFICES ASSUME Nat \ T # {} PROVE FALSE
  OBVIOUS
<1>1. PICK m \in Nat \ T : \A y \in Nat \ T : m <= y
  BY LeastNatural
<1>2. m - 1 \in Nat /\ m - 1 \in T
  BY <1>1
<1> QED BY <1>1, <1>2

\* A bounded set of naturals has a greatest one, and Max is it.
LEMMA MaxFacts ==
  ASSUME NEW S, S \subseteq Nat, S # {}, NEW b \in Nat, \A x \in S : x <= b
  PROVE  Max(S) \in S /\ \A x \in S : x <= Max(S)
<1> DEFINE T == {n \in Nat : \A x \in S : x <= n}
<1>1. PICK m \in T : \A n \in T : m <= n
  <2>1. b \in T /\ T \subseteq Nat
    OBVIOUS
  <2> HIDE DEF T
  <2> QED BY <2>1, LeastNatural
<1>2. m \in S
  <2>1. SUFFICES ASSUME m \notin S PROVE FALSE
    OBVIOUS
  <2>2. m \in Nat /\ \A x \in S : x < m
    BY <2>1
  <2>3. PICK c \in Nat : m = c + 1
    <3>1. PICK x \in S : x \in Nat /\ x < m
      BY <2>2
    <3>2. m \in Nat /\ m - 1 \in Nat /\ m = (m - 1) + 1
      BY <2>2, <3>1
    <3> QED BY <3>2
  <2>4. c \in T
    BY <2>2, <2>3
  <2> QED BY <1>1, <2>3, <2>4
<1>3. \E x \in S : \A y \in S : x >= y
  BY <1>2
<1> QED BY <1>3 DEF Max

-----------------------------------------------------------------------------
(* Closing windows *)

\* What closing the windows of a publisher p leaves: the links continue each
\* other from where p was, and no tick of p's is lost.
Follows(p, q, links) ==
  /\ IsRun(q.open)
  /\ Proper(links) /\ Ascending(links)
  /\ links = <<>> => q = p
  /\ links # <<>> =>
       /\ p.open # <<>>
       /\ links[1].from = p.open[1] /\ links[1].prev = p.prev /\ links[1].resumes = p.resumes
       /\ q.prev = links[Len(links)] /\ q.tip = q.prev.to /\ q.next = q.tip + 1 /\ q.resumes = 0
       /\ q.open # <<>> => q.open[1] = q.tip + 1 /\ q.open[Len(q.open)] = p.open[Len(p.open)]
       /\ q.open = <<>> => q.tip = p.open[Len(p.open)]
  /\ \A i \in 1..Len(links) : i > 1 =>
       links[i].prev = links[i - 1] /\ links[i].from = links[i - 1].to + 1 /\ links[i].resumes = 0
  /\ \A k \in 1..Len(p.open) :
       \/ \E i \in 1..Len(q.open) : p.open[k] = q.open[i]
       \/ \E i \in 1..Len(links) : links[i].from <= p.open[k] /\ p.open[k] <= links[i].to

\* The first WindowTicks open ticks are closed.
CloseOne(q) ==
  Closed(q, Link(SubSeq(q.open, 1, WindowTicks), q.prev, q.resumes),
         SubSeq(q.open, WindowTicks + 1, Len(q.open)))

\* g holds p and what closing its windows one after the other gives.
Closing(p, full, g) == g = [i \in 0..full |-> IF i = 0 THEN p ELSE CloseOne(g[i - 1])]

\* There is such a function.
LEMMA ClosingEnds ==
  ASSUME NEW p, NEW full \in Nat
  PROVE  \E g : Closing(p, full, g)
<1> DEFINE Body(g, i) ==
             IF i = 0 THEN p ELSE CloseOne(g[i - 1])
           T == {d \in Nat : \E g : /\ g = [i \in 0..full |-> g[i]]
                                    /\ \A i \in 0..full : i <= d => g[i] = Body(g, i)}
<1>0. ASSUME NEW g, NEW h, NEW i \in 0..full, i # 0 => g[i - 1] = h[i - 1] PROVE Body(g, i) = Body(h, i)
  BY <1>0
<1>1. 0 \in T
  <2> DEFINE g == [i \in 0..full |-> p]
  <2>1. g = [i \in 0..full |-> g[i]] /\ \A i \in 0..full : i <= 0 => g[i] = Body(g, i)
    OBVIOUS
  <2> HIDE DEF g, Body
  <2> QED BY <2>1
<1>2. ASSUME NEW d \in Nat, d \in T PROVE d + 1 \in T
  <2>1. PICK g : g = [i \in 0..full |-> g[i]] /\ \A i \in 0..full : i <= d => g[i] = Body(g, i)
    BY <1>2
  <2> DEFINE h == [i \in 0..full |-> IF i <= d THEN g[i] ELSE Body(g, i)]
  <2>2. h = [i \in 0..full |-> h[i]]
    OBVIOUS
  <2>3. ASSUME NEW i \in 0..full, i <= d + 1 PROVE h[i] = Body(h, i)
    <3>1. h[i] = Body(g, i)
      <4> HIDE DEF Body
      <4> QED BY <2>1
    <3>2. i # 0 => i - 1 \in 0..full /\ i - 1 <= d
      BY <2>3
    <3>3. i # 0 => h[i - 1] = g[i - 1]
      <4> HIDE DEF Body
      <4> QED BY <3>2
    <3> HIDE DEF Body, h
    <3> QED BY <1>0, <3>1, <3>3
  <2> HIDE DEF h, Body
  <2> QED BY <2>2, <2>3
<1>3. full \in T
  <2> HIDE DEF T
  <2> QED BY <1>1, <1>2, Induction
<1>4. PICK g : g = [i \in 0..full |-> g[i]] /\ \A i \in 0..full : i <= full => g[i] = Body(g, i)
  BY <1>3
<1>5. g = [i \in 0..full |-> Body(g, i)]
  <2> HIDE DEF Body
  <2> QED BY <1>4
<1> QED BY <1>5 DEF Closing

\* Windows that fit.
LEMMA Multiples ==
  ASSUME NEW n \in Nat, NEW w \in Nat \ {0}, NEW f \in Nat, f * w <= n, NEW k \in Nat, k + 1 <= f
  PROVE  k * w \in Nat /\ (k + 1) * w \in Nat /\ (k + 1) * w = k * w + w /\ (k + 1) * w <= n
OBVIOUS

\* What is left beside them.
LEMMA Left ==
  ASSUME NEW N \in Nat, NEW a \in Nat, NEW b \in Nat, NEW w \in Nat, b = a + w, b <= N
  PROVE  N - a \in Nat /\ N - a >= w /\ (N - a) - w = N - b
OBVIOUS

\* r is q without its first window of W ticks, n in all.
Once(q, r, W, n) ==
  /\ r.open \in Seq(Positive) /\ Len(r.open) = n - W
  /\ \A k \in 1..(n - W) : r.open[k] = q.open[W + k]
  /\ q.open[1] \in Positive /\ q.open[W] \in Positive
  /\ r.prev = [from |-> q.open[1], to |-> q.open[W], prev |-> q.prev, resumes |-> q.resumes]
  /\ r.next = q.open[W] + 1 /\ r.tip = q.open[W] /\ r.resumes = 0
  /\ \A S : r.prev \in S => r \in Pubs(S)

\* A window that is closed is the first open ticks, and the others stay open.
LEMMA ClosedOnce ==
  ASSUME NEW S, NEW q \in Pubs(S), NEW W \in Nat \ {0}, W = WindowTicks, NEW n \in Nat, n = Len(q.open), n >= W,
         NEW r, r = CloseOne(q)
  PROVE  Once(q, r, W, n)
<1>1. PICK o \in Seq(Positive) : o = q.open
  BY DEF Pubs
<1> DEFINE window == SubSeq(o, 1, W)
           rest   == SubSeq(o, W + 1, n)
<1>2. /\ Len(o) = n /\ window \in Seq(Positive) /\ Len(window) = W /\ window[1] = o[1] /\ window[W] = o[W]
      /\ o[1] \in Positive /\ o[W] \in Positive
  BY <1>1
<1>3. /\ rest \in Seq(Positive) /\ Len(rest) = n - W /\ \A k \in 1..(n - W) : rest[k] = o[W + k]
  BY <1>1
<1> DEFINE link == [from |-> o[1], to |-> o[W], prev |-> q.prev, resumes |-> q.resumes]
<1> HIDE DEF window, rest
<1>4. Link(window, q.prev, q.resumes) = link
  BY <1>2 DEF Link, Last
<1>5. r = Closed(q, link, rest)
  BY <1>1, <1>4 DEF window, rest, CloseOne
<1>6. r = [open |-> rest, prev |-> link, next |-> o[W] + 1, tip |-> o[W], resumes |-> 0]
  BY <1>5 DEF Closed
<1>7. o[W] \in Nat /\ o[W] + 1 \in Nat
  BY <1>2 DEF Positive
<1> HIDE DEF link
<1>8. /\ r.open = rest /\ r.prev = link /\ r.next = o[W] + 1 /\ r.tip = o[W] /\ r.resumes = 0
      /\ \A S2 : link \in S2 => r \in Pubs(S2)
  BY <1>3, <1>6, <1>7 DEF Pubs
<1> QED BY <1>1, <1>2, <1>3, <1>8 DEF link, Once

\* m holds where each window ends.
Cuts(m, full, W, N) ==
  /\ W \in Nat /\ W > 0 /\ full \in Nat /\ N \in Nat
  /\ m \in [0..full -> Nat] /\ m[0] = 0
  /\ \A i \in 1..full : m[i] = m[i - 1] + W /\ m[i] <= N
  /\ \A i, j \in 0..full : i <= j => m[i] <= m[j]

\* g holds the publisher before the first window of p is closed and after each.
Closings(p, g, m, full, S) ==
  /\ g[0] = p
  /\ \A i \in 0..full :
       /\ g[i] \in Pubs(S)
       /\ Len(g[i].open) = Len(p.open) - m[i]
       /\ \A k \in 1..(Len(p.open) - m[i]) : g[i].open[k] = p.open[m[i] + k]
       /\ i > 0 =>
            /\ g[i].prev = [from |-> p.open[m[i - 1] + 1], to |-> p.open[m[i]],
                            prev |-> g[i - 1].prev, resumes |-> g[i - 1].resumes]
            /\ g[i].next = p.open[m[i]] + 1 /\ g[i].tip = p.open[m[i]] /\ g[i].resumes = 0
            /\ p.open[m[i - 1] + 1] \in Positive /\ p.open[m[i]] \in Positive

Ends(full, W) == [i \in 0..full |-> i * W]

\* g holds what closing one window of p after the other gives.
Closes(p, g, full) ==
  /\ g[0] = p
  /\ \A i \in 1..full : g[i] = CloseOne(g[i - 1])

\* The windows closed lie one behind the other from the first open tick, and
\* what stays open is what they leave.
LEMMA ClosedWindows ==
  ASSUME NEW S, NEW p \in Pubs(S), NEW N \in Nat, N = Len(p.open), NEW W \in Positive, W = WindowTicks,
         NEW full \in Nat, full * W <= N,
         NEW g, Closes(p, g, full)
  PROVE  \E S2 : S \subseteq S2 /\ Closings(p, g, Ends(full, W), full, S2)
<1> DEFINE S2 == S \cup {g[i].prev : i \in 0..full}
           Good(i) ==
             /\ g[i] \in Pubs(S2)
             /\ Len(g[i].open) = N - i * W
             /\ \A k \in 1..(N - i * W) : g[i].open[k] = p.open[i * W + k]
             /\ i > 0 =>
                  /\ g[i].prev = [from |-> p.open[(i - 1) * W + 1], to |-> p.open[i * W],
                                  prev |-> g[i - 1].prev, resumes |-> g[i - 1].resumes]
                  /\ g[i].next = p.open[i * W] + 1 /\ g[i].tip = p.open[i * W] /\ g[i].resumes = 0
                  /\ p.open[(i - 1) * W + 1] \in Positive /\ p.open[i * W] \in Positive
           T == {i \in Nat : i <= full => Good(i)}
<1>1. 0 \in T
  <2>1. g[0] = p
    BY DEF Closes
  <2>2. 0 * W = 0
    BY DEF Positive
  <2>3. p \in Pubs(S2)
    <3> S \subseteq S2
      OBVIOUS
    <3> HIDE DEF S2
    <3> QED BY DEF Pubs
  <2>4. Good(0)
    <3> HIDE DEF S2
    <3> QED BY <2>1, <2>2, <2>3 DEF Pubs
  <2> HIDE DEF Good
  <2> QED BY <2>4
<1>2. ASSUME NEW j \in Nat, j \in T PROVE j + 1 \in T
  <2>1. SUFFICES ASSUME j + 1 <= full PROVE Good(j + 1)
    <3> HIDE DEF Good
    <3> QED OBVIOUS
  <2>2. Good(j)
    <3> HIDE DEF Good
    <3> QED BY <1>2, <2>1
  <2>3. PICK q : q = g[j]
    OBVIOUS
  <2>4. /\ q \in Pubs(S2) /\ Len(q.open) = N - j * W
        /\ \A k \in 1..(N - j * W) : q.open[k] = p.open[j * W + k]
    <3> HIDE DEF S2
    <3> QED BY <2>2, <2>3
  <2>5. PICK a \in Nat, b \in Nat : a = j * W /\ b = (j + 1) * W /\ b = a + W /\ b <= N /\ W >= 1
    <3>1. W \in Nat \ {0}
      BY DEF Positive
    <3>2. j * W \in Nat /\ (j + 1) * W \in Nat /\ (j + 1) * W = j * W + W /\ (j + 1) * W <= N
      BY <2>1, <3>1, Multiples
    <3> QED BY <3>1, <3>2
  <2>6. PICK r : r = CloseOne(q)
    OBVIOUS
  <2>7. g[j + 1] = r /\ (j + 1) - 1 = j /\ j + 1 \in 0..full /\ q = g[j]
    <3>1. j + 1 \in 1..full /\ j + 1 \in 0..full /\ (j + 1) - 1 = j
      BY <2>1
    <3>2. g[j + 1] = CloseOne(q)
      BY <2>3, <3>1 DEF Closes
    <3> QED BY <2>3, <2>6, <3>1, <3>2
  <2>8. PICK n \in Nat : n = N - a /\ n = Len(q.open) /\ n >= W /\ n - W = N - b
    <3>1. N \in Nat /\ a \in Nat /\ b \in Nat /\ W \in Nat /\ b = a + W /\ b <= N
      BY <2>5 DEF Positive
    <3>2. N - a \in Nat /\ N - a >= W /\ (N - a) - W = N - b
      BY <3>1, Left
    <3>3. Len(q.open) = N - a
      BY <2>4, <2>5
    <3> QED BY <3>2, <3>3
  <2>9. /\ r.open \in Seq(Positive) /\ Len(r.open) = n - W
        /\ \A k \in 1..(n - W) : r.open[k] = q.open[W + k]
        /\ q.open[1] \in Positive /\ q.open[W] \in Positive
        /\ r.prev = [from |-> q.open[1], to |-> q.open[W], prev |-> q.prev, resumes |-> q.resumes]
        /\ r.next = q.open[W] + 1 /\ r.tip = q.open[W] /\ r.resumes = 0
        /\ \A S3 : r.prev \in S3 => r \in Pubs(S3)
    <3>1. W \in Nat \ {0}
      BY DEF Positive
    <3>2. q \in Pubs(S2) /\ n = Len(q.open) /\ n >= W
      BY <2>4, <2>8
    <3> HIDE DEF S2
    <3>3. Once(q, r, W, n)
      BY <2>6, <3>1, <3>2, ClosedOnce
    <3> QED BY <3>3 DEF Once
  <2>10. r.prev \in S2
    BY <2>7
  <2> HIDE DEF S2
  <2>11. r \in Pubs(S2)
    BY <2>9, <2>10
  <2>12. \A k \in 1..n : q.open[k] = p.open[a + k]
    BY <2>4, <2>5, <2>8
  <2>13. q.open[1] = p.open[a + 1] /\ q.open[W] = p.open[b]
    <3>1. 1 \in 1..n /\ W \in 1..n
      BY <2>5, <2>8 DEF Positive
    <3> QED BY <2>5, <2>12, <3>1
  <2>14. \A k \in 1..(N - b) : r.open[k] = p.open[b + k]
    <3>1. ASSUME NEW k \in 1..(N - b) PROVE r.open[k] = p.open[b + k]
      <4>1. PICK m \in 1..n : m = W + k /\ a + m = b + k
        BY <2>5, <2>8 DEF Positive
      <4>2. r.open[k] = q.open[m]
        BY <2>8, <2>9, <4>1
      <4> QED BY <2>12, <4>1, <4>2
    <3> QED BY <3>1
  <2> QED BY <2>5, <2>7, <2>8, <2>9, <2>11, <2>13, <2>14
<1>3. Nat \subseteq T
  <2> HIDE DEF T
  <2> QED BY <1>1, <1>2, Induction
<1>4. \A i \in 0..full : Good(i)
  <2> HIDE DEF Good
  <2> QED BY <1>3
<1>5. S \subseteq S2
  OBVIOUS
<1> DEFINE m == [i \in 0..full |-> i * W]
<1>6. ASSUME NEW i \in 0..full
      PROVE  /\ g[i] \in Pubs(S2)
             /\ Len(g[i].open) = Len(p.open) - m[i]
             /\ \A k \in 1..(Len(p.open) - m[i]) : g[i].open[k] = p.open[m[i] + k]
             /\ i > 0 =>
                  /\ g[i].prev = [from |-> p.open[m[i - 1] + 1], to |-> p.open[m[i]],
                                  prev |-> g[i - 1].prev, resumes |-> g[i - 1].resumes]
                  /\ g[i].next = p.open[m[i]] + 1 /\ g[i].tip = p.open[m[i]] /\ g[i].resumes = 0
                  /\ p.open[m[i - 1] + 1] \in Positive /\ p.open[m[i]] \in Positive
  <2>1. m[i] = i * W /\ (i > 0 => m[i - 1] = (i - 1) * W)
    OBVIOUS
  <2>2. Good(i)
    <3> HIDE DEF Good, m
    <3> QED BY <1>4
  <2> HIDE DEF m, S2
  <2> QED BY <2>1, <2>2
<1>7. g[0] = p
  BY DEF Closes
<1> HIDE DEF S2, m
<1>8. Closings(p, g, m, full, S2)
  BY <1>6, <1>7 DEF Closings
<1> QED BY <1>5, <1>8 DEF m, Ends

\* Where two windows end.
LEMMA CutFacts ==
  ASSUME NEW m, NEW full, NEW W, NEW N, Cuts(m, full, W, N), NEW i \in 1..full
  PROVE  /\ full \in Nat /\ i \in Nat /\ i > 0 /\ i <= full
         /\ i \in 0..full /\ i - 1 \in 0..full /\ full \in 0..full /\ full \in 1..full /\ 1 \in 1..full
         /\ W \in Nat /\ W > 0 /\ N \in Nat
         /\ m[i] = m[i - 1] + W /\ m[i] <= N /\ m[i - 1] \in Nat /\ m[i] \in Nat
         /\ m[i - 1] + 1 \in 1..N /\ m[i] \in 1..N /\ 1 \in 1..N /\ N \in 1..N
<1>1. i \in 0..full /\ i - 1 \in 0..full /\ full \in 0..full /\ i > 0 /\ i <= full /\ full \in Nat
  BY DEF Cuts
<1>2. m[i] = m[i - 1] + W /\ m[i] <= N /\ m[i - 1] \in Nat /\ m[i] \in Nat /\ W \in Nat /\ W > 0 /\ N \in Nat
  BY <1>1 DEF Cuts
<1>3. PICK a \in Nat, b \in Nat : a = m[i - 1] /\ b = m[i]
  BY <1>2
<1>4. a + 1 \in 1..N /\ b \in 1..N /\ 1 \in 1..N /\ N \in 1..N
  BY <1>2, <1>3
<1> QED BY <1>1, <1>2, <1>3, <1>4

\* Such windows continue each other, and every open tick is in one of them or
\* stays open.
LEMMA WindowsFollow ==
  ASSUME NEW S, NEW p \in Pubs(S), IsRun(p.open), NEW N, N = Len(p.open), NEW W, NEW full \in Nat, NEW m,
         Cuts(m, full, W, N), NEW g, Closings(p, g, m, full, S),
         NEW links, links = [i \in 1..full |-> g[i].prev]
  PROVE  links \in Seq(LinksOn(S)) /\ Follows(p, g[full], links)
<1>1. PICK o \in Seq(Positive) : o = p.open
  BY DEF Pubs
<1>2. N \in Nat /\ Len(o) = N /\ \A k \in 1..N : o[k] = o[1] + k - 1 /\ o[k] \in Positive /\ o[k] \in Nat
  BY <1>1 DEF IsRun, Positive
<1>3. ASSUME NEW i \in 1..full
      PROVE  /\ links[i] = [from |-> o[m[i - 1] + 1], to |-> o[m[i]], prev |-> g[i - 1].prev,
                            resumes |-> g[i - 1].resumes]
             /\ links[i] = g[i].prev /\ links[i] \in LinksOn(S)
             /\ links[i].from = o[1] + m[i - 1] /\ links[i].to = o[1] + m[i] - 1
             /\ i - 1 \in 0..full /\ m[i] = m[i - 1] + W /\ m[i] <= N /\ m[i - 1] \in Nat /\ m[i] \in Nat
             /\ links[i].prev = g[i - 1].prev /\ links[i].resumes = g[i - 1].resumes
             /\ g[i].resumes = 0 /\ g[i].tip = links[i].to /\ g[i].next = links[i].to + 1
  <2>1. /\ i \in 0..full /\ i - 1 \in 0..full /\ i > 0
        /\ m[i] = m[i - 1] + W /\ m[i] <= N /\ m[i - 1] \in Nat /\ m[i] \in Nat
        /\ m[i - 1] + 1 \in 1..N /\ m[i] \in 1..N /\ 1 \in 1..N
    BY CutFacts
  <2>2. o[m[i - 1] + 1] = o[1] + m[i - 1] /\ o[m[i]] = o[1] + m[i] - 1
    <3>1. PICK a \in Nat, b \in Nat, c \in Nat : a = m[i - 1] + 1 /\ b = m[i] /\ c = m[i - 1]
      BY <2>1
    <3>2. o[a] = o[1] + a - 1 /\ o[b] = o[1] + b - 1 /\ o[1] \in Nat /\ a = c + 1
      BY <1>2, <2>1, <3>1
    <3>3. o[1] + a - 1 = o[1] + c
      BY <3>1, <3>2
    <3> QED BY <3>1, <3>2, <3>3
  <2>3. /\ g[i].prev = [from |-> o[m[i - 1] + 1], to |-> o[m[i]], prev |-> g[i - 1].prev,
                        resumes |-> g[i - 1].resumes]
        /\ g[i].next = o[m[i]] + 1 /\ g[i].tip = o[m[i]] /\ g[i].resumes = 0
        /\ o[m[i - 1] + 1] \in Positive /\ o[m[i]] \in Positive
        /\ g[i - 1] \in Pubs(S)
    BY <1>1, <2>1 DEF Closings
  <2>4. g[i - 1].prev \in S /\ g[i - 1].resumes \in Nat
    BY <2>3 DEF Pubs
  <2>5. links[i] = g[i].prev
    OBVIOUS
  <2>6. links[i] \in LinksOn(S)
    BY <2>3, <2>4, <2>5 DEF LinksOn
  <2>7. links[i].from = o[m[i - 1] + 1] /\ links[i].to = o[m[i]] /\ links[i].prev = g[i - 1].prev
        /\ links[i].resumes = g[i - 1].resumes
    BY <2>3, <2>5
  <2> QED BY <2>1, <2>2, <2>3, <2>5, <2>6, <2>7
<1>4. links \in Seq(LinksOn(S)) /\ Len(links) = full
  <2>1. links \in [1..full -> LinksOn(S)]
    BY <1>3
  <2> QED BY <2>1
<1>5. PICK q : q = g[full]
  OBVIOUS
<1>e. PICK e \in Nat : e = m[full]
  <2>1. full \in 0..full
    OBVIOUS
  <2> QED BY <2>1 DEF Cuts
<1>6. /\ q \in Pubs(S) /\ q.open \in Seq(Positive) /\ Len(q.open) = N - e
      /\ \A k \in 1..(N - e) : q.open[k] = o[e + k]
  <2>1. full \in 0..full
    OBVIOUS
  <2>2. /\ q \in Pubs(S) /\ Len(q.open) = N - e
        /\ \A k \in 1..(N - e) : q.open[k] = o[e + k]
    BY <1>1, <1>5, <1>e, <2>1 DEF Closings
  <2> QED BY <2>2 DEF Pubs
<1>l. PICK l \in Nat : l = Len(q.open) /\ N = e + l
  <2>1. q.open \in Seq(Positive) /\ Len(q.open) = N - e
    BY <1>6
  <2>2. Len(q.open) \in Nat
    BY <2>1
  <2>3. N = e + (N - e)
    BY <1>2
  <2> QED BY <2>1, <2>2, <2>3
<1>7. ASSUME NEW k \in 1..Len(q.open) PROVE q.open[k] = o[1] + e + k - 1 /\ e + k \in 1..N /\ o[1] \in Nat
  <2>1. PICK a \in 1..N : a = e + k
    BY <1>2, <1>6
  <2>2. o[a] = o[1] + a - 1 /\ o[1] \in Nat
    <3>1. 1 \in 1..N
      BY <2>1
    <3> QED BY <1>2, <3>1
  <2>3. q.open[k] = o[a]
    BY <1>6, <2>1
  <2>4. o[1] + a - 1 = o[1] + e + k - 1
    BY <2>1, <2>2
  <2> QED BY <2>1, <2>2, <2>3, <2>4
<1>8. IsRun(q.open)
  <2>1. ASSUME NEW k \in 1..Len(q.open) PROVE q.open[k] = q.open[1] + k - 1
    <3>1. 1 \in 1..Len(q.open)
      OBVIOUS
    <3>2. q.open[k] = o[1] + e + k - 1 /\ q.open[1] = o[1] + e + 1 - 1 /\ o[1] \in Nat
      BY <1>7, <2>1, <3>1
    <3> QED BY <3>2
  <2> QED BY <2>1 DEF IsRun
<1>9. full > 0 => 1 \in 1..N /\ o[1] \in Nat
  <2>1. full > 0 => full \in 1..full
    OBVIOUS
  <2>2. full > 0 => 1 \in 1..N
    BY <2>1, CutFacts
  <2> QED BY <1>2, <2>2
<1>10. Proper(links)
  <2>1. ASSUME NEW i \in 1..Len(links) PROVE links[i].from <= links[i].to
    <3>1. i \in 1..full
      BY <1>4
    <3>2. o[1] \in Nat
      BY <1>9, <3>1
    <3>3. links[i].from = o[1] + m[i - 1] /\ links[i].to = o[1] + m[i] - 1 /\ m[i] = m[i - 1] + W /\ m[i - 1] \in Nat
      BY <1>3, <3>1
    <3>4. W \in Nat /\ W > 0
      BY <3>1, CutFacts
    <3>5. PICK a \in Nat, b \in Nat : a = o[1] + m[i - 1] /\ b = o[1] + m[i] - 1 /\ a <= b
      BY <3>2, <3>3, <3>4
    <3> QED BY <3>3, <3>5
  <2> QED BY <2>1 DEF Proper
<1>11. Ascending(links)
  <2>1. ASSUME NEW i \in 1..Len(links), NEW j \in 1..Len(links), i < j PROVE links[i].to < links[j].from
    <3>1. i \in 1..full /\ j \in 1..full /\ i \in 0..full /\ j - 1 \in 0..full /\ i <= j - 1
      BY <1>4, <2>1
    <3>2. o[1] \in Nat
      BY <1>9, <3>1
    <3>3. m[i] <= m[j - 1] /\ m[i] \in Nat /\ m[j - 1] \in Nat
      BY <3>1 DEF Cuts
    <3>4. links[i].to = o[1] + m[i] - 1 /\ links[j].from = o[1] + m[j - 1]
      BY <1>3, <3>1
    <3> QED BY <3>2, <3>3, <3>4
  <2> QED BY <2>1 DEF Ascending
<1>12. links = <<>> => q = p
  <2>1. g[0] = p
    BY DEF Closings
  <2> QED BY <1>4, <1>5, <2>1
<1>13. ASSUME links # <<>>
       PROVE  /\ p.open # <<>>
              /\ links[1].from = p.open[1] /\ links[1].prev = p.prev /\ links[1].resumes = p.resumes
              /\ q.prev = links[Len(links)] /\ q.tip = q.prev.to /\ q.next = q.tip + 1 /\ q.resumes = 0
              /\ q.open # <<>> => q.open[1] = q.tip + 1 /\ q.open[Len(q.open)] = p.open[Len(p.open)]
              /\ q.open = <<>> => q.tip = p.open[Len(p.open)]
  <2>1. full > 0 /\ 1 \in 1..full /\ full \in 1..full
    BY <1>4, <1>13
  <2>2. 1 \in 1..N /\ o[1] \in Nat /\ N \in 1..N
    BY <1>9, <2>1
  <2>3. p.open # <<>>
    BY <1>1, <1>2, <2>2
  <2>4. 1 - 1 = 0 /\ m[0] = 0 /\ g[0] = p
    BY DEF Cuts, Closings
  <2>5. links[1].from = o[1] /\ links[1].prev = p.prev /\ links[1].resumes = p.resumes
    <3>1. links[1].from = o[1] + m[1 - 1] /\ links[1].prev = g[1 - 1].prev /\ links[1].resumes = g[1 - 1].resumes
      BY <1>3, <2>1
    <3> QED BY <2>2, <2>4, <3>1
  <2>6. /\ links[full] = q.prev /\ links[full].to = o[1] + e - 1 /\ e <= N
        /\ q.resumes = 0 /\ q.tip = links[full].to /\ q.next = links[full].to + 1
    BY <1>3, <1>5, <1>e, <2>1
  <2>7. o[N] = o[1] + N - 1
    BY <1>2, <2>2
  <2>8. ASSUME q.open # <<>> PROVE q.open[1] = q.tip + 1 /\ q.open[Len(q.open)] = o[N]
    <3>1. 1 \in 1..Len(q.open) /\ Len(q.open) \in 1..Len(q.open)
      BY <1>6, <2>8
    <3>3. q.open[1] = o[1] + e + 1 - 1 /\ q.open[l] = o[1] + e + l - 1
      BY <1>7, <1>l, <3>1
    <3>4. o[1] + e + 1 - 1 = (o[1] + e - 1) + 1
      BY <2>2
    <3>6. o[1] + e + l - 1 = o[1] + N - 1
      BY <1>l, <2>2
    <3>5. q.tip = o[1] + e - 1
      BY <2>6
    <3> QED BY <1>l, <2>7, <3>3, <3>4, <3>5, <3>6
  <2>9. ASSUME q.open = <<>> PROVE q.tip = o[N]
    <3>1. N - e = 0
      BY <1>6, <2>9
    <3>2. e = N
      BY <1>2, <3>1
    <3> QED BY <2>6, <2>7, <3>2
  <2> QED BY <1>1, <1>2, <1>4, <2>3, <2>5, <2>6, <2>8, <2>9
<1>14. ASSUME NEW i \in 1..Len(links), i > 1
       PROVE  links[i].prev = links[i - 1] /\ links[i].from = links[i - 1].to + 1 /\ links[i].resumes = 0
  <2>1. i \in 1..full /\ i - 1 \in 1..full
    BY <1>4, <1>14
  <2>2. o[1] \in Nat
    BY <1>9, <2>1
  <2>3. /\ links[i].prev = g[i - 1].prev /\ links[i].resumes = g[i - 1].resumes
        /\ links[i].from = o[1] + m[i - 1] /\ m[i - 1] \in Nat
    BY <1>3, <2>1
  <2>4. links[i - 1] = g[i - 1].prev /\ g[i - 1].resumes = 0 /\ links[i - 1].to = o[1] + m[i - 1] - 1
    BY <1>3, <2>1
  <2>5. (o[1] + m[i - 1] - 1) + 1 = o[1] + m[i - 1]
    BY <2>2, <2>3
  <2> QED BY <2>3, <2>4, <2>5
<1>15. ASSUME NEW k \in 1..Len(p.open)
       PROVE  \/ \E i \in 1..Len(q.open) : p.open[k] = q.open[i]
              \/ \E i \in 1..Len(links) : links[i].from <= p.open[k] /\ p.open[k] <= links[i].to
  <2>1. k \in 1..N /\ o[k] = o[1] + k - 1 /\ o[1] \in Nat
    <3>1. k \in 1..N /\ 1 \in 1..N
      OBVIOUS
    <3> QED BY <1>2, <3>1 DEF Positive
  <2>2. CASE k > e
    <3>1. PICK i \in 1..Len(q.open) : i = k - e
      <4>1. k - e \in 1..l
        BY <1>l, <2>1, <2>2
      <4> QED BY <1>l, <4>1
    <3>2. q.open[i] = o[1] + e + i - 1
      BY <1>7
    <3>3. o[1] + e + i - 1 = o[1] + k - 1
      BY <2>1, <3>1
    <3> QED BY <1>1, <2>1, <3>2, <3>3
  <2>3. CASE k <= e
    <3> DEFINE T == {i \in 0..full : k <= m[i]}
    <3>1. T \subseteq Nat /\ full \in T
      BY <1>e, <2>3
    <3>2. PICK i \in T : \A j \in T : i <= j
      <4> HIDE DEF T
      <4> QED BY <3>1, LeastNatural
    <3>3. m[0] = 0 /\ i \in 0..full /\ k <= m[i] /\ k >= 1
      BY <2>1 DEF Cuts
    <3>4. i \in 1..full
      BY <3>3
    <3>5. i - 1 \in 0..full /\ i - 1 \notin T
      <4>1. i - 1 \in 0..full /\ ~(i <= i - 1)
        BY <3>4
      <4> HIDE DEF T
      <4> QED BY <3>2, <4>1
    <3>6. m[i - 1] \in Nat /\ m[i] \in Nat
      BY <3>4, CutFacts
    <3>7. m[i - 1] < k
      BY <2>1, <3>5, <3>6
    <3>8. links[i].from = o[1] + m[i - 1] /\ links[i].to = o[1] + m[i] - 1
      BY <1>3, <3>4
    <3>9. o[1] + m[i - 1] <= o[1] + k - 1 /\ o[1] + k - 1 <= o[1] + m[i] - 1
      BY <2>1, <3>3, <3>6, <3>7
    <3> QED BY <1>1, <1>4, <2>1, <3>4, <3>8, <3>9
  <2> QED BY <2>1, <2>2, <2>3
<1> QED BY <1>4, <1>5, <1>8, <1>10, <1>11, <1>12, <1>13, <1>14, <1>15 DEF Follows

\* Full windows and what is left of another.
LEMMA Fits ==
  ASSUME NEW n \in Nat, NEW w \in Nat, w > 0
  PROVE  n \div w \in Nat /\ (n \div w) * w <= n /\ n - (n \div w) * w < w
<1>1. n \div w \in Nat /\ (n \div w) * w <= n /\ n < (n \div w) * w + w
  OBVIOUS
<1>2. PICK e \in Nat : e = (n \div w) * w
  BY <1>1
<1> QED BY <1>1, <1>2

\* Multiples of the window grow.
LEMMA Monotone ==
  ASSUME NEW i \in Nat, NEW j \in Nat, NEW w \in Nat, i <= j
  PROVE  i * w \in Nat /\ j * w \in Nat /\ i * w <= j * w /\ (i > 0 => i - 1 \in Nat /\ i * w = (i - 1) * w + w)
OBVIOUS

\* CloseFull is such a function's last value and its links.
LEMMA CloseFullCloses ==
  ASSUME NEW p, NEW full \in Nat, full = Len(p.open) \div WindowTicks
  PROVE  \E g : Closes(p, g, full) /\ CloseFull(p) = [pub |-> g[full], links |-> [i \in 1..full |-> g[i].prev]]
<1> DEFINE f == CHOOSE g : Closing(p, full, g)
<1>1. Closing(p, full, f)
  <2>1. \E g : Closing(p, full, g)
    BY ClosingEnds
  <2> QED BY <2>1
<1>2. CloseFull(p) = [pub |-> f[full], links |-> [i \in 1..full |-> f[i].prev]]
  BY DEF CloseFull, CloseOne, Closing
<1> HIDE DEF f
<1>3. Closes(p, f, full)
  BY <1>1 DEF Closes, Closing
<1> QED BY <1>2, <1>3

\* What CloseFull does, of any publisher whose open window is a run.
LEMMA CloseFullFollows ==
  ASSUME PublicationAssumption, NEW S, NEW p \in Pubs(S), IsRun(p.open), NEW c, c = CloseFull(p)
  PROVE  \E S2 : /\ S \subseteq S2 /\ c.pub \in Pubs(S2) /\ c.links \in Seq(LinksOn(S2))
                 /\ Follows(p, c.pub, c.links) /\ Len(c.pub.open) < WindowTicks
<1>1. PICK W \in Nat : W = WindowTicks /\ W > 0 /\ W \in Positive
  BY DEF PublicationAssumption, Positive
<1>2. PICK N \in Nat : N = Len(p.open)
  BY DEF Pubs
<1>3. PICK full \in Nat : full = N \div W /\ full * W <= N /\ N - full * W < W
  BY <1>1, Fits
<1>4. full = Len(p.open) \div WindowTicks /\ full * W <= N
  BY <1>1, <1>2, <1>3
<1>5. PICK g : Closes(p, g, full) /\ CloseFull(p) = [pub |-> g[full], links |-> [i \in 1..full |-> g[i].prev]]
  BY <1>4, CloseFullCloses
<1> DEFINE m == Ends(full, W)
<1>9. Cuts(m, full, W, N)
  <2>1. ASSUME NEW i \in 0..full, NEW j \in 0..full, i <= j PROVE m[i] \in Nat /\ m[i] <= m[j]
    BY <2>1, Monotone DEF Ends
  <2>2. ASSUME NEW i \in 1..full PROVE m[i] = m[i - 1] + W /\ m[i] <= N
    <3>1. m[i] = i * W /\ m[i - 1] = (i - 1) * W
      BY DEF Ends
    <3>2. i * W \in Nat /\ full * W \in Nat /\ i * W <= full * W /\ i * W = (i - 1) * W + W
      BY Monotone
    <3> QED BY <1>3, <3>1, <3>2
  <2>3. m[0] = 0
    BY DEF Ends
  <2>4. m = [i \in 0..full |-> m[i]] /\ \A i \in 0..full : m[i] \in Nat
    BY <2>1 DEF Ends
  <2> HIDE DEF m
  <2>5. m \in [0..full -> Nat]
    BY <2>4
  <2> QED BY <1>1, <2>1, <2>2, <2>3, <2>5 DEF Cuts
<1>10. PICK S2 : S \subseteq S2 /\ Closings(p, g, m, full, S2)
  <2>1. W \in Positive /\ W = WindowTicks /\ N \in Nat /\ N = Len(p.open) /\ full \in Nat /\ full * W <= N
    BY <1>1, <1>2, <1>3
  <2>2. Closes(p, g, full)
    BY <1>4, <1>5
  <2> QED BY <2>1, <2>2, ClosedWindows
<1>11. PICK links : links = [i \in 1..full |-> g[i].prev]
  OBVIOUS
<1>12. c.pub = g[full] /\ c.links = links
  BY <1>5, <1>11
<1>13. Len(g[full].open) = N - full * W /\ g[full] \in Pubs(S2)
  <2>1. full \in 0..full /\ m[full] = full * W
    BY <1>3 DEF Ends
  <2> HIDE DEF m
  <2> QED BY <1>2, <1>10, <2>1 DEF Closings
<1>14. p \in Pubs(S2)
  BY <1>10 DEF Pubs
<1> HIDE DEF m
<1>15. links \in Seq(LinksOn(S2)) /\ Follows(p, g[full], links)
  BY <1>2, <1>9, <1>10, <1>11, <1>14, WindowsFollow
<1> QED BY <1>1, <1>3, <1>10, <1>12, <1>13, <1>15

-----------------------------------------------------------------------------
(* Links behind links *)

\* What a concatenation holds.
LEMMA Joined ==
  ASSUME NEW L, NEW a \in Seq(L), NEW b \in Seq(L), NEW m \in Nat, m = Len(a), NEW n \in Nat, n = Len(b)
  PROVE  /\ a \o b \in Seq(L) /\ Len(a \o b) = m + n
         /\ \A i \in 1..m : (a \o b)[i] = a[i]
         /\ \A i \in 1..n : (a \o b)[m + i] = b[i]
         /\ b = <<>> => a \o b = a
         /\ a = <<>> => a \o b = b
<1>1. /\ a \o b \in Seq(L) /\ Len(a \o b) = m + n
      /\ \A i \in 1..m : (a \o b)[i] = a[i]
      /\ \A i \in 1..n : (a \o b)[m + i] = b[i]
  OBVIOUS
<1>2. b = <<>> => a \o b = a
  OBVIOUS
<1>3. a = <<>> => a \o b = b
  OBVIOUS
<1> QED BY <1>1, <1>2, <1>3

\* A link of both is the first's or the second's.
LEMMA Parts ==
  ASSUME NEW m \in Nat, NEW n \in Nat, NEW i \in 1..(m + n)
  PROVE  i \in 1..m \/ (i > m /\ \E j \in 1..n : i = m + j)
<1>1. i > m => i - m \in 1..n /\ i = m + (i - m)
  OBVIOUS
<1> QED BY <1>1

\* What a verifier accepts and the publisher goes on from, it accepts with the
\* windows closed, and the publisher goes on from them.
LEMMA VerifiesFollows ==
  ASSUME NEW S, NEW links \in Seq(LinksOn(S)), NEW new \in Seq(LinksOn(S)), NEW q \in Pubs(S), NEW r \in Pubs(S),
         Follows(q, r, new), Verifies(links), GoesOn(q, links)
  PROVE  Verifies(links \o new) /\ GoesOn(r, links \o new)
<1>1. CASE new = <<>>
  <2>1. links \o new = links /\ r = q
    BY <1>1 DEF Follows
  <2> QED BY <2>1
<1>2. CASE new # <<>>
  <2>1. PICK m \in Nat, n \in Nat : m = Len(links) /\ n = Len(new) /\ n > 0
    BY <1>2
  <2>2. PICK both : both = links \o new
    OBVIOUS
  <2>3. /\ both \in Seq(LinksOn(S)) /\ Len(both) = m + n
        /\ \A i \in 1..m : both[i] = links[i]
        /\ \A i \in 1..n : both[m + i] = new[i]
    BY <2>1, <2>2, Joined
  <2>4. /\ q.open # <<>>
        /\ new[1].from = q.open[1] /\ new[1].prev = q.prev /\ new[1].resumes = q.resumes
        /\ r.prev = new[n] /\ r.tip = r.prev.to /\ r.next = r.tip + 1 /\ r.resumes = 0
        /\ r.open # <<>> => r.open[1] = r.tip + 1
    BY <1>2, <2>1 DEF Follows
  <2>5. \A i \in 1..n : i > 1 =>
           new[i].prev = new[i - 1] /\ new[i].from = new[i - 1].to + 1 /\ new[i].resumes = 0
    BY <2>1 DEF Follows
  <2>6. ASSUME m > 0 PROVE Accepts(links[m], new[1])
    <3>1. CASE q.prev = NoRoot /\ q.resumes = 0 /\ q.tip = 0
      BY <2>4, <3>1 DEF Accepts
    <3>2. CASE ~(q.prev = NoRoot /\ q.resumes = 0 /\ q.tip = 0)
      <4>1. /\ q.prev = links[m] /\ q.tip = q.prev.to
            /\ q.resumes = 0 => q.open[1] = q.tip + 1
            /\ q.resumes # 0 => q.resumes = q.tip /\ q.open[1] > q.tip + 1
        BY <2>1, <2>4, <3>2 DEF GoesOn
      <4> QED BY <2>4, <4>1 DEF Accepts
    <3> QED BY <3>1, <3>2
  <2>7. ASSUME m = 0 PROVE new[1].prev = NoRoot /\ new[1].resumes = 0
    <3>1. links = <<>>
      <4>1. Len(links) = 0
        BY <2>1, <2>7
      <4> QED BY <4>1
    <3> QED BY <2>4, <3>1 DEF GoesOn
  <2>8. both[1].prev = NoRoot /\ both[1].resumes = 0
    <3>1. CASE m = 0
      <4>1. both[1] = new[1]
        BY <2>1, <2>3, <3>1
      <4> QED BY <2>7, <3>1, <4>1
    <3>2. CASE m > 0
      <4>1. both[1] = links[1] /\ links # <<>>
        BY <2>1, <2>3, <3>2
      <4> QED BY <4>1 DEF Verifies
    <3> QED BY <2>1, <3>1, <3>2
  <2>9. ASSUME NEW i \in 2..(m + n) PROVE Accepts(both[i - 1], both[i])
    <3>1. CASE i <= m
      <4>1. i - 1 \in 1..m /\ i \in 1..m /\ i \in 2..Len(links)
        BY <2>1, <3>1
      <4>2. both[i - 1] = links[i - 1] /\ both[i] = links[i]
        BY <2>3, <4>1
      <4> QED BY <4>1, <4>2 DEF Verifies
    <3>2. CASE i = m + 1
      <4>1. m > 0 /\ i - 1 \in 1..m /\ i - 1 = m /\ 1 \in 1..n
        BY <2>1, <3>2
      <4>2. both[i - 1] = links[m] /\ both[i] = new[1]
        BY <2>3, <3>2, <4>1
      <4> QED BY <2>6, <4>1, <4>2
    <3>3. CASE i > m + 1
      <4>1. PICK j \in 1..n : i = m + j /\ j > 1 /\ j - 1 \in 1..n /\ i - 1 = m + (j - 1)
        <5>1. i - m \in 1..n /\ i = m + (i - m) /\ i - m > 1 /\ (i - m) - 1 \in 1..n /\ i - 1 = m + ((i - m) - 1)
          BY <2>1, <3>3
        <5> QED BY <5>1
      <4>2. both[i - 1] = new[j - 1] /\ both[i] = new[j]
        BY <2>3, <4>1
      <4>3. new[j].prev = new[j - 1] /\ new[j].from = new[j - 1].to + 1 /\ new[j].resumes = 0
        BY <2>5, <4>1
      <4> QED BY <4>2, <4>3 DEF Accepts
    <3> QED BY <2>1, <3>1, <3>2, <3>3
  <2>10. Verifies(both)
    BY <2>3, <2>8, <2>9 DEF Verifies
  <2>11. both # <<>> /\ both[Len(both)] = new[n]
    BY <2>1, <2>3
  <2>12. GoesOn(r, both)
    BY <2>4, <2>11 DEF GoesOn
  <2> QED BY <2>2, <2>10, <2>12
<1> QED BY <1>1, <1>2

\* Windows that are closed ascend behind those before them.
LEMMA AscendsFollows ==
  ASSUME NEW S, NEW links \in Seq(LinksOn(S)), NEW new \in Seq(LinksOn(S)), NEW q \in Pubs(S), NEW r \in Pubs(S),
         Follows(q, r, new), Proper(links), Ascending(links), Past(q, links)
  PROVE  /\ Proper(links \o new) /\ Ascending(links \o new) /\ Past(r, links \o new)
         /\ Edge(r, links \o new) = Edge(q, links)
<1>1. CASE new = <<>>
  <2>1. links \o new = links /\ r = q
    BY <1>1 DEF Follows
  <2> QED BY <2>1
<1>2. CASE new # <<>>
  <2>1. PICK m \in Nat, n \in Nat : m = Len(links) /\ n = Len(new) /\ n > 0
    BY <1>2
  <2>2. PICK both : both = links \o new
    OBVIOUS
  <2>3. /\ both \in Seq(LinksOn(S)) /\ Len(both) = m + n
        /\ \A i \in 1..m : both[i] = links[i]
        /\ \A i \in 1..n : both[m + i] = new[i]
    BY <2>1, <2>2, Joined
  <2>4. /\ q.open # <<>>
        /\ new[1].from = q.open[1]
        /\ r.prev = new[n] /\ r.tip = r.prev.to
        /\ r.open # <<>> => r.open[1] = r.tip + 1 /\ r.open[Len(r.open)] = q.open[Len(q.open)]
        /\ r.open = <<>> => r.tip = q.open[Len(q.open)]
        /\ Proper(new) /\ Ascending(new)
    BY <1>2, <2>1 DEF Follows
  <2>5. /\ \A i \in 1..m : links[i].from \in Nat /\ links[i].to \in Nat
        /\ \A i \in 1..n : new[i].from \in Nat /\ new[i].to \in Nat
    <3>1. \A i \in 1..m : links[i] \in LinksOn(S)
      BY <2>1
    <3>2. \A i \in 1..n : new[i] \in LinksOn(S)
      BY <2>1
    <3> QED BY <3>1, <3>2 DEF LinksOn, Positive
  <2>6. Proper(both)
    <3>1. ASSUME NEW i \in 1..(m + n) PROVE both[i].from <= both[i].to
      <4>1. CASE i \in 1..m
        BY <2>1, <2>3, <4>1 DEF Proper
      <4>2. CASE i > m
        <5>1. PICK j \in 1..n : i = m + j
          BY <4>2, Parts
        <5> QED BY <2>1, <2>3, <2>4, <5>1 DEF Proper
      <4> QED BY <2>1, <4>1, <4>2
    <3> QED BY <2>3, <3>1 DEF Proper
  <2>7. ASSUME NEW i \in 1..m PROVE links[i].to < new[1].from
    <3>1. links[m].to < new[1].from /\ m \in 1..m
      <4>1. links # <<>> /\ m \in 1..m
        BY <2>1
      <4> QED BY <2>1, <2>4, <4>1 DEF Past, Through
    <3>2. CASE i = m
      BY <3>1, <3>2
    <3>3. CASE i < m
      <4>1. links[i].to < links[m].from /\ links[m].from <= links[m].to
        BY <2>1, <3>1, <3>3 DEF Ascending, Proper
      <4>2. 1 \in 1..n
        BY <2>1
      <4> QED BY <2>5, <3>1, <4>1, <4>2
    <3> QED BY <3>2, <3>3
  <2>8. ASSUME NEW j \in 1..n PROVE new[1].from <= new[j].from
    <3>1. CASE j = 1
      BY <2>5, <3>1
    <3>2. CASE j > 1
      <4>1. 1 \in 1..n /\ 1 < j
        BY <3>2
      <4>2. new[1].from <= new[1].to /\ new[1].to < new[j].from
        BY <2>1, <2>4, <4>1 DEF Proper, Ascending
      <4> QED BY <2>5, <4>1, <4>2
    <3> QED BY <3>1, <3>2
  <2>9. ASSUME NEW i \in 1..(m + n), NEW j \in 1..(m + n), i < j PROVE both[i].to < both[j].from
    <3>1. CASE j \in 1..m
      <4>1. i \in 1..m
        BY <2>9, <3>1
      <4> QED BY <2>1, <2>3, <2>9, <3>1, <4>1 DEF Ascending
    <3>2. CASE i \in 1..m /\ j > m
      <4>1. PICK k \in 1..n : j = m + k
        BY <3>2, Parts
      <4>2. links[i].to < new[1].from /\ new[1].from <= new[k].from /\ 1 \in 1..n
        BY <2>1, <2>7, <2>8, <3>2
      <4>3. both[i] = links[i] /\ both[j] = new[k]
        BY <2>3, <3>2, <4>1
      <4> QED BY <2>5, <3>2, <4>2, <4>3
    <3>3. CASE i > m
      <4>1. PICK k \in 1..n : i = m + k
        BY <3>3, Parts
      <4>2. PICK l \in 1..n : j = m + l
        BY <2>9, <3>3, Parts
      <4>3. k < l
        BY <2>9, <4>1, <4>2
      <4>4. new[k].to < new[l].from
        BY <2>1, <2>4, <4>3 DEF Ascending
      <4> QED BY <2>3, <4>1, <4>2, <4>4
    <3> QED BY <2>1, <2>9, <3>1, <3>2, <3>3
  <2>10. Ascending(both)
    BY <2>3, <2>9 DEF Ascending
  <2>11. both # <<>> /\ both[Len(both)] = new[n] /\ n \in 1..n
    BY <2>1, <2>3
  <2>12. Through(both) = r.tip /\ r.tip \in Nat
    BY <2>4, <2>5, <2>11 DEF Through
  <2>13. Past(r, both)
    BY <2>4, <2>12 DEF Past
  <2>14. Edge(r, both) = Edge(q, links)
    BY <2>4, <2>12 DEF Edge
  <2> QED BY <2>2, <2>6, <2>10, <2>13, <2>14
<1> QED BY <1>1, <1>2

\* Closing windows loses no tick.
LEMMA CoversFollows ==
  ASSUME NEW S, NEW links \in Seq(LinksOn(S)), NEW new \in Seq(LinksOn(S)), NEW q \in Pubs(S), NEW r \in Pubs(S),
         Follows(q, r, new)
  PROVE  /\ CoveredBy(links) \subseteq CoveredBy(links \o new)
         /\ OpenTicks(q) \subseteq CoveredBy(links \o new) \cup OpenTicks(r)
<1>1. PICK m \in Nat, n \in Nat : m = Len(links) /\ n = Len(new)
  OBVIOUS
<1>2. PICK both : both = links \o new
  OBVIOUS
<1>3. /\ both \in Seq(LinksOn(S)) /\ Len(both) = m + n
      /\ \A i \in 1..m : both[i] = links[i]
      /\ \A i \in 1..n : both[m + i] = new[i]
  BY <1>1, <1>2, Joined
<1>4. ASSUME NEW s \in CoveredBy(links) PROVE s \in CoveredBy(both)
  <2>1. PICK i \in 1..m : links[i].from <= s /\ s <= links[i].to
    BY <1>1 DEF CoveredBy
  <2>2. i \in 1..(m + n) /\ both[i] = links[i] /\ s \in Nat
    BY <1>3 DEF CoveredBy
  <2> QED BY <1>3, <2>1, <2>2 DEF CoveredBy
<1>5. ASSUME NEW k \in 1..Len(q.open) PROVE q.open[k] \in CoveredBy(both) \cup OpenTicks(r)
  <2>1. CASE \E i \in 1..Len(r.open) : q.open[k] = r.open[i]
    BY <2>1 DEF OpenTicks
  <2>2. CASE \E i \in 1..Len(new) : new[i].from <= q.open[k] /\ q.open[k] <= new[i].to
    <3>1. PICK i \in 1..n : new[i].from <= q.open[k] /\ q.open[k] <= new[i].to
      BY <1>1, <2>2
    <3>2. m + i \in 1..(m + n) /\ both[m + i] = new[i]
      BY <1>3
    <3>3. q.open[k] \in Nat
      BY DEF Pubs, Positive
    <3> QED BY <1>3, <3>1, <3>2, <3>3 DEF CoveredBy
  <2> QED BY <2>1, <2>2 DEF Follows
<1> QED BY <1>2, <1>4, <1>5 DEF OpenTicks

-----------------------------------------------------------------------------
(* Sealing and observing *)

\* More roots.
LEMMA Wider ==
  ASSUME NEW S, NEW S2, S \subseteq S2
  PROVE  Pubs(S) \subseteq Pubs(S2) /\ LinksOn(S) \subseteq LinksOn(S2) /\ Seq(LinksOn(S)) \subseteq Seq(LinksOn(S2))
<1>1. Pubs(S) \subseteq Pubs(S2)
  BY DEF Pubs
<1>2. LinksOn(S) \subseteq LinksOn(S2)
  BY DEF LinksOn
<1>3. Seq(LinksOn(S)) \subseteq Seq(LinksOn(S2))
  BY <1>2
<1> QED BY <1>1, <1>2, <1>3

\* A sequence of one.
LEMMA Single ==
  ASSUME NEW L, NEW x \in L, NEW s, s = <<x>>
  PROVE  s \in Seq(L) /\ Len(s) = 1 /\ s[1] = x /\ s # <<>>
OBVIOUS

\* What sealChain leaves.
LEMMA SealFollows ==
  ASSUME NEW S, NEW p \in Pubs(S), IsRun(p.open), NEW c, c = Seal(p)
  PROVE  \E S2 : /\ S \subseteq S2 /\ c.pub \in Pubs(S2) /\ c.links \in Seq(LinksOn(S2))
                 /\ Follows(p, c.pub, c.links) /\ c.pub.open = <<>>
<1>1. CASE p.open = <<>>
  <2>1. c.pub = p /\ c.links = <<>>
    BY <1>1 DEF Seal
  <2>2. Follows(p, p, <<>>)
    BY <1>1 DEF Follows, Proper, Ascending
  <2>3. <<>> \in Seq(LinksOn(S))
    OBVIOUS
  <2> QED BY <1>1, <2>1, <2>2, <2>3
<1>2. CASE p.open # <<>>
  <2>1. PICK o \in Seq(Positive) : o = p.open /\ o # <<>>
    BY <1>2 DEF Pubs
  <2>2. PICK n \in Nat : n = Len(o) /\ n >= 1 /\ 1 \in 1..n /\ n \in 1..n
    BY <2>1
  <2>3. o[1] \in Positive /\ o[n] \in Positive /\ \A k \in 1..n : o[k] = o[1] + k - 1
    BY <2>1, <2>2 DEF IsRun
  <2>4. o[1] \in Nat /\ o[n] \in Nat
    BY <2>3 DEF Positive
  <2>5. PICK link : link = Link(o, p.prev, p.resumes)
    OBVIOUS
  <2>6. link = [from |-> o[1], to |-> o[n], prev |-> p.prev, resumes |-> p.resumes]
    BY <2>1, <2>2, <2>5 DEF Link, Last
  <2>7. c.pub = Closed(p, link, <<>>) /\ c.links = <<link>>
    BY <1>2, <2>1, <2>5 DEF Seal
  <2>8. c.pub = [open |-> <<>>, prev |-> link, next |-> o[n] + 1, tip |-> o[n], resumes |-> 0]
    BY <2>6, <2>7 DEF Closed
  <2>9. PICK S2 : S2 = S \cup {link}
    OBVIOUS
  <2>10. link \in LinksOn(S2) /\ link \in S2
    <3>1. p.prev \in S /\ p.resumes \in Nat
      BY DEF Pubs
    <3> QED BY <2>3, <2>6, <2>9, <3>1 DEF LinksOn
  <2>11. c.pub \in Pubs(S2)
    BY <2>4, <2>8, <2>10 DEF Pubs
  <2>12. PICK links : links = <<link>> /\ Len(links) = 1 /\ links[1] = link /\ links \in Seq(LinksOn(S2))
    BY <2>10, Single
  <2>13. Proper(links)
    <3>1. o[1] <= o[n]
      BY <2>2, <2>3, <2>4
    <3> QED BY <2>6, <2>12, <3>1 DEF Proper
  <2>14. Ascending(links)
    BY <2>12 DEF Ascending
  <2>15. IsRun(c.pub.open)
    BY <2>8 DEF IsRun
  <2>16. ASSUME NEW k \in 1..n PROVE o[1] <= o[k] /\ o[k] <= o[n]
    BY <2>2, <2>3, <2>4
  <2>17. /\ links[1].from = o[1] /\ links[1].to = o[n] /\ links[1].prev = p.prev /\ links[1].resumes = p.resumes
         /\ c.pub.prev = links[1] /\ c.pub.tip = o[n] /\ c.pub.next = o[n] + 1 /\ c.pub.resumes = 0 /\ c.pub.open = <<>>
    BY <2>6, <2>8, <2>12
  <2>18. \A k \in 1..Len(p.open) : links[1].from <= p.open[k] /\ p.open[k] <= links[1].to
    BY <2>1, <2>2, <2>16, <2>17
  <2>19. Follows(p, c.pub, links)
    BY <2>1, <2>2, <2>12, <2>13, <2>14, <2>15, <2>17, <2>18 DEF Follows
  <2> QED BY <2>7, <2>9, <2>11, <2>12, <2>17, <2>19
<1> QED BY <1>1, <1>2

\* An interval of sequences, as a batch.
LEMMA IntervalFacts ==
  ASSUME NEW a \in Positive, NEW b \in Positive, a <= b, NEW t, t = Interval(a, b)
  PROVE  /\ t \in Seq(Positive) /\ t # <<>> /\ Len(t) = b - a + 1 /\ Len(t) \in Nat /\ Len(t) > 0
         /\ \A i \in 1..Len(t) : t[i] = a + i - 1
         /\ t[1] = a /\ t[Len(t)] = b /\ Head(t) = a /\ Last(t) = b
<1>1. a \in Nat /\ b \in Nat /\ a > 0
  BY DEF Positive
<1>2. PICK n \in Nat : n = b - a + 1 /\ n > 0
  BY <1>1
<1>3. t = [i \in 1..n |-> a + i - 1]
  BY <1>2 DEF Interval
<1>4. \A i \in 1..n : a + i - 1 \in Positive
  BY <1>1 DEF Positive
<1>5. t \in Seq(Positive) /\ Len(t) = n /\ \A i \in 1..n : t[i] = a + i - 1
  BY <1>3, <1>4
<1>6. t[1] = a /\ t[n] = b /\ t # <<>>
  BY <1>1, <1>2, <1>5
<1> QED BY <1>2, <1>5, <1>6 DEF Last

\* q is the publisher p with the ticks from a to b, before any window closes.
Takes(p, q, a, b) ==
  /\ IsRun(q.open) /\ q.open # <<>> /\ q.open[Len(q.open)] = b /\ q.next # 0
  /\ p.open = <<>> => q.open[1] = a
  /\ p.open # <<>> => q.open[1] = p.open[1] /\ a = p.open[Len(p.open)] + 1
  /\ OpenTicks(p) \subseteq OpenTicks(q) /\ a..b \subseteq OpenTicks(q)
  /\ \/ q.prev = NoRoot /\ q.resumes = 0 /\ q.tip = 0
     \/ /\ q.prev = p.prev /\ q.tip = p.tip
        /\ \/ q.resumes = p.resumes /\ (p.resumes # 0 /\ p.next = 0 => a > p.resumes + 1)
           \/ q.resumes = 0 /\ p.resumes # 0 /\ p.next = 0 /\ a = p.resumes + 1

\* d is the publisher p that decided on the gap it resumes over, at the tick a.
Decides(p, a, d) ==
  /\ d.open = p.open
  /\ p.open # <<>> => d = p
  /\ \/ d.prev = NoRoot /\ d.resumes = 0 /\ d.tip = 0
     \/ /\ d.prev = p.prev /\ d.tip = p.tip
        /\ \/ d.resumes = p.resumes /\ (p.resumes # 0 /\ p.next = 0 => a > p.resumes + 1)
           \/ d.resumes = 0 /\ p.resumes # 0 /\ p.next = 0 /\ a = p.resumes + 1

\* Decided is one.
LEMMA DecidedIs ==
  ASSUME NEW S, NEW p \in Pubs(S), p.next = 0 => p.open = <<>>, NEW a \in Positive, NEW d, d = Decided(p, a)
  PROVE  d \in Pubs(S \cup {NoRoot}) /\ Decides(p, a, d)
<1>0. p \in Pubs(S \cup {NoRoot}) /\ a \in Nat /\ p.resumes \in Nat
  <2>1. p \in Pubs(S \cup {NoRoot})
    BY Wider
  <2> QED BY <2>1 DEF Positive, Pubs
<1>1. CASE p.resumes = 0 \/ p.next # 0
  <2>1. d = p
    BY <1>1 DEF Decided
  <2> QED BY <1>0, <1>1, <2>1 DEF Decides
<1>2. CASE p.resumes # 0 /\ p.next = 0 /\ a <= p.resumes
  <2>1. d = Fresh /\ p.open = <<>>
    BY <1>2 DEF Decided
  <2>2. <<>> \in Seq(Positive) /\ NoRoot \in S \cup {NoRoot} /\ 0 \in Nat
    OBVIOUS
  <2>3. d \in Pubs(S \cup {NoRoot})
    BY <2>1, <2>2 DEF Fresh, Pubs
  <2> QED BY <2>1, <2>3 DEF Fresh, Decides
<1>3. CASE p.resumes # 0 /\ p.next = 0 /\ ~(a <= p.resumes) /\ a = p.resumes + 1
  <2>1. d = [p EXCEPT !.resumes = 0] /\ p.open = <<>>
    BY <1>3 DEF Decided
  <2>2. d \in Pubs(S \cup {NoRoot})
    BY <1>0, <2>1 DEF Pubs
  <2>3. d.prev = p.prev /\ d.tip = p.tip /\ d.resumes = 0 /\ d.open = p.open
    BY <2>1 DEF Pubs
  <2> QED BY <1>3, <2>1, <2>2, <2>3 DEF Decides
<1>4. CASE p.resumes # 0 /\ p.next = 0 /\ ~(a <= p.resumes) /\ a # p.resumes + 1
  <2>1. d = p
    BY <1>4 DEF Decided
  <2>2. a > p.resumes + 1
    BY <1>0, <1>4
  <2> QED BY <1>0, <2>1, <2>2 DEF Decides
<1> QED BY <1>1, <1>2, <1>3, <1>4

\* observe: the publisher takes an expected batch, and closes what fills.
LEMMA ObserveFollows ==
  ASSUME PublicationAssumption, NEW S, NEW p \in Pubs(S), IsRun(p.open), p.next = 0 => p.open = <<>>,
         NEW a \in Positive, NEW b \in Positive, a <= b, Expects(p, a), NEW c, c = Observe(p, Interval(a, b))
  PROVE  \E S2, q : /\ S \subseteq S2 /\ q \in Pubs(S2) /\ c.pub \in Pubs(S2) /\ c.links \in Seq(LinksOn(S2))
                    /\ Takes(p, q, a, b) /\ Follows(q, c.pub, c.links)
<1>1. PICK t : /\ t = Interval(a, b) /\ t \in Seq(Positive) /\ t # <<>> /\ Len(t) = b - a + 1 /\ Len(t) \in Nat /\ Len(t) > 0
               /\ \A i \in 1..Len(t) : t[i] = a + i - 1
               /\ t[1] = a /\ t[Len(t)] = b /\ Head(t) = a /\ Last(t) = b
  BY IntervalFacts
<1>2. PICK d : d = Decided(p, a)
  OBVIOUS
<1>3. d \in Pubs(S \cup {NoRoot}) /\ Decides(p, a, d)
  BY <1>2, DecidedIs
<1>3a. d.open = p.open
  BY <1>3 DEF Decides
<1> DEFINE q == [d EXCEPT !.open = @ \o t, !.next = IF @ = 0 THEN a ELSE @]
<1>4. c = CloseFull(q)
  BY <1>1, <1>2 DEF Observe
<1>5. PICK o \in Seq(Positive), both \in Seq(Positive) : o = p.open /\ both = o \o t
  <2>1. p.open \in Seq(Positive)
    BY DEF Pubs
  <2>2. p.open \o t \in Seq(Positive)
    BY <1>1, <2>1
  <2> QED BY <2>1, <2>2
<1>6. PICK m \in Nat, n \in Nat : m = Len(o) /\ n = Len(t) /\ n > 0
  BY <1>1, <1>5
<1>7. /\ Len(both) = m + n
      /\ \A i \in 1..m : both[i] = o[i]
      /\ \A i \in 1..n : both[m + i] = t[i]
      /\ o = <<>> => both = t
  <2>1. t \in Seq(Positive) /\ o \in Seq(Positive) /\ both = o \o t
    BY <1>1, <1>5
  <2>2. m \in Nat /\ n \in Nat /\ m = Len(o) /\ n = Len(t)
    BY <1>6
  <2>3. /\ Len(o \o t) = m + n
        /\ \A i \in 1..m : (o \o t)[i] = o[i]
        /\ \A i \in 1..n : (o \o t)[m + i] = t[i]
    BY <2>1, <2>2
  <2>4. o = <<>> => o \o t = t
    BY <2>1
  <2> QED BY <2>1, <2>3, <2>4
<1>8. /\ q \in Pubs(S \cup {NoRoot}) /\ q.open = both /\ q.prev = d.prev /\ q.tip = d.tip /\ q.resumes = d.resumes
      /\ q.next # 0
  <2>1. a \in Nat /\ a # 0
    BY DEF Positive
  <2>2. PICK x : x = IF d.next = 0 THEN a ELSE d.next
    OBVIOUS
  <2>3. x \in Nat /\ x # 0
    BY <1>3, <2>1, <2>2 DEF Pubs
  <2>4. q = [d EXCEPT !.open = both, !.next = x]
    BY <1>3, <1>3a, <1>5, <2>2 DEF Pubs
  <2> HIDE DEF q
  <2> QED BY <1>3, <1>3a, <1>5, <2>3, <2>4 DEF Pubs
<1> HIDE DEF q
<1>9. a \in Nat /\ b \in Nat /\ a > 0 /\ n = b - a + 1
  BY <1>1, <1>6 DEF Positive
<1>10. p.open # <<>> => m > 0 /\ a = o[m] + 1 /\ o[m] = o[1] + m - 1 /\ o[1] \in Nat
  <2>1. ASSUME p.open # <<>> PROVE m > 0 /\ a = o[m] + 1 /\ o[m] = o[1] + m - 1 /\ o[1] \in Nat
    <3>1. m > 0 /\ m \in 1..m /\ 1 \in 1..m
      BY <1>5, <1>6, <2>1
    <3>2. a = o[m] + 1
      BY <1>5, <1>6, <2>1 DEF Expects, Last
    <3>3. o[m] = o[1] + m - 1
      BY <1>5, <1>6, <3>1 DEF IsRun
    <3>4. o[1] \in Nat
      BY <1>6, <3>1 DEF Positive
    <3> QED BY <3>1, <3>2, <3>3, <3>4
  <2> QED BY <2>1
<1>11. IsRun(both)
  <2>1. CASE p.open = <<>>
    <3>1. both = t
      BY <1>5, <1>7, <2>1
    <3> QED BY <1>1, <3>1 DEF IsRun
  <2>2. CASE p.open # <<>>
    <3>1. both[1] = o[1]
      BY <1>7, <1>10, <2>2
    <3>2. ASSUME NEW k \in 1..(m + n) PROVE both[k] = o[1] + k - 1
      <4>1. CASE k \in 1..m
        BY <1>5, <1>6, <1>7, <4>1 DEF IsRun
      <4>2. CASE k > m
        <5>1. PICK j \in 1..n : k = m + j
          BY <4>2, Parts
        <5>2. both[k] = a + j - 1
          BY <1>1, <1>6, <1>7, <5>1
        <5>3. a = o[1] + m - 1 + 1 /\ o[1] \in Nat
          BY <1>10, <2>2
        <5>4. a + j - 1 = o[1] + k - 1
          BY <5>1, <5>3
        <5> QED BY <5>2, <5>4
      <4> QED BY <4>1, <4>2, Parts
    <3> QED BY <1>7, <3>1, <3>2 DEF IsRun
  <2> QED BY <2>1, <2>2
<1>12. /\ both # <<>> /\ both[Len(both)] = b
       /\ p.open = <<>> => both[1] = a
       /\ p.open # <<>> => both[1] = o[1]
  <2>1. both[m + n] = b /\ both # <<>>
    <3>1. n \in 1..n
      BY <1>6
    <3> QED BY <1>1, <1>6, <1>7, <3>1
  <2>2. p.open = <<>> => both[1] = a
    BY <1>1, <1>5, <1>7
  <2>3. p.open # <<>> => both[1] = o[1]
    BY <1>7, <1>10
  <2> QED BY <1>7, <2>1, <2>2, <2>3
<1>13. OpenTicks(p) \subseteq OpenTicks(q)
  <2>1. ASSUME NEW k \in 1..m PROVE k \in 1..(m + n) /\ o[k] = both[k]
    BY <1>6, <1>7
  <2> QED BY <1>5, <1>6, <1>7, <1>8, <2>1 DEF OpenTicks
<1>14. a..b \subseteq OpenTicks(q)
  <2>1. ASSUME NEW s \in a..b PROVE s \in OpenTicks(q)
    <3>1. PICK i \in 1..n : i = s - a + 1
      <4>1. s - a + 1 \in 1..n
        BY <1>9
      <4> QED BY <4>1
    <3>2. t[i] = s
      <4>1. t[i] = a + i - 1
        BY <1>1, <1>6
      <4> QED BY <1>9, <3>1, <4>1
    <3>3. m + i \in 1..(m + n) /\ both[m + i] = t[i]
      BY <1>7
    <3> QED BY <1>7, <1>8, <3>2, <3>3 DEF OpenTicks
  <2> QED BY <2>1
<1>15. Takes(p, q, a, b)
  <2>1. p.open # <<>> => q.open[1] = p.open[1] /\ a = p.open[Len(p.open)] + 1
    BY <1>5, <1>6, <1>8, <1>10, <1>12
  <2>2. IsRun(q.open) /\ q.open # <<>> /\ q.open[Len(q.open)] = b /\ q.next # 0 /\ (p.open = <<>> => q.open[1] = a)
    BY <1>8, <1>11, <1>12
  <2>3. \/ q.prev = NoRoot /\ q.resumes = 0 /\ q.tip = 0
        \/ /\ q.prev = p.prev /\ q.tip = p.tip
           /\ \/ q.resumes = p.resumes /\ (p.resumes # 0 /\ p.next = 0 => a > p.resumes + 1)
              \/ q.resumes = 0 /\ p.resumes # 0 /\ p.next = 0 /\ a = p.resumes + 1
    BY <1>3, <1>8 DEF Decides
  <2> QED BY <1>13, <1>14, <2>1, <2>2, <2>3 DEF Takes
<1>16. PICK S2 : /\ S \cup {NoRoot} \subseteq S2 /\ c.pub \in Pubs(S2) /\ c.links \in Seq(LinksOn(S2))
                 /\ Follows(q, c.pub, c.links)
  BY <1>4, <1>8, <1>11, CloseFullFollows
<1>17. q \in Pubs(S2)
  BY <1>8, <1>16, Wider
<1> QED BY <1>15, <1>16, <1>17

\* A publisher that takes what it expects goes on from the same link.
LEMMA TakesGoesOn ==
  ASSUME NEW S, NEW p \in Pubs(S), NEW q \in Pubs(S), NEW links, NEW a \in Nat, NEW b, Takes(p, q, a, b), Expects(p, a),
         p.next = 0 => p.open = <<>>, GoesOn(p, links)
  PROVE  GoesOn(q, links)
<1>1. CASE q.prev = NoRoot /\ q.resumes = 0 /\ q.tip = 0
  BY <1>1 DEF GoesOn
<1>2. CASE /\ q.prev = p.prev /\ q.tip = p.tip
           /\ \/ q.resumes = p.resumes /\ (p.resumes # 0 /\ p.next = 0 => a > p.resumes + 1)
              \/ q.resumes = 0 /\ p.resumes # 0 /\ p.next = 0 /\ a = p.resumes + 1
  <2>1. CASE p.prev = NoRoot /\ p.resumes = 0 /\ p.tip = 0
    BY <1>2, <2>1 DEF GoesOn
  <2>2. CASE ~(p.prev = NoRoot /\ p.resumes = 0 /\ p.tip = 0)
    <3>1. /\ links # <<>>
          /\ p.prev = links[Len(links)] /\ p.tip = p.prev.to
          /\ p.resumes = 0 => IF p.open = <<>> THEN p.next = p.tip + 1 ELSE p.open[1] = p.tip + 1
          /\ p.resumes # 0 => /\ p.resumes = p.tip
                              /\ IF p.open = <<>> THEN p.next = 0 ELSE p.open[1] > p.tip + 1
      BY <2>2 DEF GoesOn
    <3>2. /\ q.open # <<>>
          /\ p.open = <<>> => q.open[1] = a
          /\ p.open # <<>> => q.open[1] = p.open[1]
      BY DEF Takes
    <3>3. p.tip \in Nat /\ p.next \in Nat
      BY DEF Pubs
    <3>4. p.open = <<>> => p.next = 0 \/ p.next = a
      BY DEF Expects
    <3>5. CASE q.resumes = p.resumes /\ (p.resumes # 0 /\ p.next = 0 => a > p.resumes + 1)
      <4>1. q.resumes = 0 => q.open[1] = q.tip + 1
        BY <1>2, <3>1, <3>2, <3>3, <3>4, <3>5
      <4>2. q.resumes # 0 => q.resumes = q.tip /\ q.open[1] > q.tip + 1
        BY <1>2, <3>1, <3>2, <3>3, <3>4, <3>5
      <4> QED BY <1>2, <3>1, <3>2, <4>1, <4>2 DEF GoesOn
    <3>6. CASE q.resumes = 0 /\ p.resumes # 0 /\ p.next = 0 /\ a = p.resumes + 1
      <4>1. q.open[1] = q.tip + 1
        BY <1>2, <3>1, <3>2, <3>6
      <4> QED BY <1>2, <3>1, <3>2, <3>6, <4>1 DEF GoesOn
    <3> QED BY <1>2, <3>5, <3>6
  <2> QED BY <2>1, <2>2
<1> QED BY <1>1, <1>2 DEF Takes

\* What it takes lies past the links.
LEMMA TakesPast ==
  ASSUME NEW S, NEW p \in Pubs(S), NEW q, NEW links, NEW a \in Nat, NEW b, Takes(p, q, a, b),
         Past(p, links), Edge(p, links) < a
  PROVE  Past(q, links) /\ Edge(q, links) = b
<1>1. CASE p.open = <<>>
  BY <1>1 DEF Takes, Past, Edge
<1>2. CASE p.open # <<>>
  BY <1>2 DEF Takes, Past, Edge
<1> QED BY <1>1, <1>2

\* What follows it is expected.
LEMMA TakesExpects ==
  ASSUME NEW S, NEW p, NEW q \in Pubs(S), NEW r \in Pubs(S), NEW new \in Seq(LinksOn(S)), NEW a, NEW b, Takes(p, q, a, b),
         Follows(q, r, new)
  PROVE  Expects(r, b + 1) /\ r.next # 0
<1>1. q.open # <<>> /\ q.open[Len(q.open)] = b /\ q.next # 0
  BY DEF Takes
<1>2. CASE new = <<>>
  <2>1. r = q
    BY <1>2 DEF Follows
  <2> QED BY <1>1, <2>1 DEF Expects, Last
<1>3. CASE new # <<>>
  <2>1. /\ r.next = r.tip + 1
        /\ r.open # <<>> => r.open[Len(r.open)] = b
        /\ r.open = <<>> => r.tip = b
    BY <1>1, <1>3 DEF Follows
  <2>2. r.tip \in Nat
    BY DEF Pubs
  <2> QED BY <2>1, <2>2 DEF Expects, Last
<1> QED BY <1>2, <1>3

\* Links that are in order one by one stay so when joined.
LEMMA ProperJoined ==
  ASSUME NEW L, NEW x \in Seq(L), NEW y \in Seq(L), Proper(x), Proper(y)
  PROVE  Proper(x \o y)
<1>1. PICK m \in Nat, n \in Nat : m = Len(x) /\ n = Len(y)
  OBVIOUS
<1>2. PICK z : z = x \o y
  OBVIOUS
<1>3. Len(z) = m + n /\ (\A i \in 1..m : z[i] = x[i]) /\ (\A i \in 1..n : z[m + i] = y[i])
  BY <1>1, <1>2
<1>4. ASSUME NEW i \in 1..(m + n) PROVE z[i].from <= z[i].to
  <2>1. CASE i \in 1..m
    BY <1>1, <1>3, <2>1 DEF Proper
  <2>2. CASE i > m
    <3>1. PICK j \in 1..n : i = m + j
      BY <2>2, Parts
    <3> QED BY <1>1, <1>3, <3>1 DEF Proper
  <2> QED BY <2>1, <2>2, Parts
<1> QED BY <1>2, <1>3, <1>4 DEF Proper

-----------------------------------------------------------------------------
(* What is left to fold, and the record's head *)

\* A set of naturals has its least one as Min.
LEMMA MinFacts ==
  ASSUME NEW T, T \subseteq Nat, T # {}
  PROVE  Min(T) \in T /\ \A x \in T : Min(T) <= x
<1>1. \E x \in T : \A y \in T : x <= y
  BY LeastNatural
<1> QED BY <1>1 DEF Min

\* The first run of a bounded set of sequences.
LEMMA FirstRunIs ==
  ASSUME NEW N \in Nat, NEW T, T \subseteq 1..N, T # {}
  PROVE  \E a \in T, b \in T : /\ FirstRun(T) = Interval(a, b) /\ a <= b /\ a..b \subseteq T /\ b + 1 \notin T
                               /\ \A s \in T : a <= s
<1>1. PICK a \in T : a = Min(T) /\ \A s \in T : a <= s
  <2>1. T \subseteq Nat
    OBVIOUS
  <2> QED BY <2>1, MinFacts
<1> DEFINE E == {e \in Nat : a <= e /\ e + 1 \notin T}
<1>2. N \in E
  <2>1. N + 1 \notin 1..N /\ a <= N
    BY <1>1
  <2> QED BY <2>1
<1>3. PICK e \in E : \A x \in E : e <= x
  <2>1. E \subseteq Nat /\ E # {}
    BY <1>2
  <2> HIDE DEF E
  <2> QED BY <2>1, LeastNatural
<1>4. ASSUME NEW s \in a..e PROVE s \in T
  <2>1. CASE s = a
    BY <2>1
  <2>2. CASE s # a
    <3>1. a \in Nat /\ e \in Nat
      BY <1>3
    <3>2. s - 1 \in Nat /\ a <= s - 1 /\ s - 1 < e /\ (s - 1) + 1 = s
      BY <2>2, <3>1
    <3>3. s - 1 \notin E
      <4> HIDE DEF E
      <4> QED BY <1>3, <3>1, <3>2
    <3> QED BY <3>2, <3>3
  <2> QED BY <2>1, <2>2
<1>5. e \in T /\ a..e \subseteq T /\ e + 1 \notin T
  <2>1. e \in a..e
    BY <1>3
  <2> QED BY <1>3, <1>4, <2>1
<1>6. PICK b : b = CHOOSE x \in T : a..x \subseteq T /\ x + 1 \notin T
  OBVIOUS
<1>7. b \in T /\ a..b \subseteq T /\ b + 1 \notin T
  BY <1>5, <1>6
<1>8. FirstRun(T) = Interval(a, b)
  BY <1>1, <1>6 DEF FirstRun
<1> QED BY <1>1, <1>7, <1>8

\* The head of a record: its last tick, or 0.
LEMMA HeadFacts ==
  ASSUME NEW N \in Nat, NEW T, T \subseteq 1..N
  PROVE  /\ HeadOf(T) \in Nat /\ HeadOf(T) \in T \cup {0} /\ \A s \in T : s <= HeadOf(T)
         /\ T # {} => HeadOf(T) \in T
<1>1. T \cup {0} \subseteq Nat /\ T \cup {0} # {} /\ \A x \in T \cup {0} : x <= N
  OBVIOUS
<1>2. HeadOf(T) \in T \cup {0} /\ \A s \in T \cup {0} : s <= HeadOf(T)
  BY <1>1, MaxFacts DEF HeadOf
<1>3. ASSUME T # {} PROVE HeadOf(T) # 0
  <2>1. PICK s : s \in T
    BY <1>3
  <2>2. s \in 1..N
    BY <2>1
  <2>3. s <= HeadOf(T)
    BY <1>2, <2>1
  <2> QED BY <2>2, <2>3
<1> QED BY <1>1, <1>2, <1>3

-----------------------------------------------------------------------------
(* What the steps do to the publisher and to the links *)

\* The set the roots of a state are in.
LEMMA HeldNow ==
  ASSUME Types
  PROVE  \E S : pub \in Pubs(S) /\ chain \in Seq(LinksOn(S)) /\ writing \in Seq(LinksOn(S))
BY DEF Types, Held

\* With nothing to write, every link is on disk.
LEMMA AllIsChain ==
  ASSUME NEW L, chain \in Seq(L), writing = <<>>
  PROVE  All = chain
BY DEF All

\* A batch the publisher expects.
LEMMA Observing ==
  ASSUME Types, Shape, writing = <<>>, NEW a \in Positive, NEW b \in Positive, a <= b, Expects(pub, a),
         NEW c, c = Observe(pub, Interval(a, b)), pub' = c.pub, writing' = c.links, chain' = chain
  PROVE  /\ (\E S : Held(S))'
         /\ IsRun(pub.open)' /\ Proper(All)' /\ pub'.next # 0
         /\ Goes => Goes'
         /\ Behind /\ Edge(pub, All) < a => Behind' /\ Edge(pub, All)' = b
         /\ CoveredBy(All) \cup OpenTicks(pub) \cup a..b \subseteq CoveredBy(All)' \cup OpenTicks(pub)'
         /\ Expects(pub, b + 1)'
<1>1. PICK S : pub \in Pubs(S) /\ chain \in Seq(LinksOn(S))
  BY HeldNow
<1>2. IsRun(pub.open) /\ (pub.next = 0 => pub.open = <<>>) /\ Proper(All)
  BY DEF Shape
<1>3. PICK S2, q : /\ S \subseteq S2 /\ q \in Pubs(S2) /\ c.pub \in Pubs(S2) /\ c.links \in Seq(LinksOn(S2))
                   /\ Takes(pub, q, a, b) /\ Follows(q, c.pub, c.links)
  BY <1>1, <1>2, PublicationAssumption, ObserveFollows
<1>4. pub \in Pubs(S2) /\ chain \in Seq(LinksOn(S2))
  BY <1>1, <1>3, Wider
<1>5. PICK r, new : r = c.pub /\ new = c.links
  OBVIOUS
<1>6. /\ pub' = r /\ r \in Pubs(S2) /\ new \in Seq(LinksOn(S2)) /\ Follows(q, r, new)
      /\ All = chain /\ All' = chain \o new /\ writing' = new
  BY <1>3, <1>4, <1>5, AllIsChain DEF All
<1>7. (\E S3 : Held(S3))'
  BY <1>4, <1>6 DEF Held
<1>8. IsRun(r.open) /\ Proper(new)
  BY <1>6 DEF Follows
<1>9. Proper(chain \o new)
  BY <1>2, <1>4, <1>6, <1>8, ProperJoined
<1>10. a \in Nat
  BY DEF Positive
<1>11. Expects(r, b + 1) /\ r.next # 0
  BY <1>3, <1>6, TakesExpects
<1>12. ASSUME Goes PROVE Goes'
  <2>1. Verifies(chain) /\ GoesOn(pub, chain)
    BY <1>6, <1>12 DEF Goes
  <2>2. GoesOn(q, chain)
    BY <1>2, <1>3, <1>4, <1>10, <2>1, TakesGoesOn
  <2>3. Verifies(chain \o new) /\ GoesOn(r, chain \o new)
    BY <1>3, <1>4, <1>6, <2>1, <2>2, VerifiesFollows
  <2> QED BY <1>6, <2>3 DEF Goes
<1>13. ASSUME Behind, Edge(pub, All) < a PROVE Behind' /\ Edge(pub, All)' = b
  <2>1. Ascending(chain) /\ Past(pub, chain) /\ Edge(pub, chain) < a
    BY <1>6, <1>13 DEF Behind
  <2>2. Past(q, chain) /\ Edge(q, chain) = b
    BY <1>3, <1>4, <1>10, <2>1, TakesPast
  <2>3. Proper(chain)
    BY <1>2, <1>6
  <2>4. Ascending(chain \o new) /\ Past(r, chain \o new) /\ Edge(r, chain \o new) = b
    BY <1>3, <1>4, <1>6, <2>1, <2>2, <2>3, AscendsFollows
  <2> QED BY <1>6, <2>4 DEF Behind
<1>14. CoveredBy(chain) \cup OpenTicks(pub) \cup a..b \subseteq CoveredBy(chain \o new) \cup OpenTicks(r)
  <2>1. CoveredBy(chain) \subseteq CoveredBy(chain \o new) /\ OpenTicks(q) \subseteq CoveredBy(chain \o new) \cup OpenTicks(r)
    BY <1>3, <1>4, <1>6, CoversFollows
  <2>2. OpenTicks(pub) \subseteq OpenTicks(q) /\ a..b \subseteq OpenTicks(q)
    BY <1>3 DEF Takes
  <2> QED BY <2>1, <2>2
<1> QED BY <1>6, <1>7, <1>8, <1>9, <1>11, <1>12, <1>13, <1>14

\* What is open is sealed.
LEMMA Sealing ==
  ASSUME Types, Shape, writing = <<>>, SealOpen, chain' = chain
  PROVE  /\ (\E S : Held(S))'
         /\ pub'.open = <<>> /\ Proper(All)'
         /\ Goes => Goes'
         /\ Behind => Behind' /\ Edge(pub, All)' = Edge(pub, All)
         /\ CoveredBy(All) \cup OpenTicks(pub) \subseteq CoveredBy(All)' \cup OpenTicks(pub)'
<1>1. PICK S : pub \in Pubs(S) /\ chain \in Seq(LinksOn(S))
  BY HeldNow
<1>2. IsRun(pub.open) /\ Proper(All)
  BY DEF Shape
<1>3. PICK c : c = Seal(pub) /\ pub' = c.pub /\ writing' = c.links
  BY DEF SealOpen
<1>4. PICK S2 : /\ S \subseteq S2 /\ c.pub \in Pubs(S2) /\ c.links \in Seq(LinksOn(S2))
                /\ Follows(pub, c.pub, c.links) /\ c.pub.open = <<>>
  BY <1>1, <1>2, <1>3, SealFollows
<1>5. pub \in Pubs(S2) /\ chain \in Seq(LinksOn(S2))
  BY <1>1, <1>4, Wider
<1>6. PICK r, new : r = c.pub /\ new = c.links
  OBVIOUS
<1>7. /\ pub' = r /\ r \in Pubs(S2) /\ new \in Seq(LinksOn(S2)) /\ Follows(pub, r, new) /\ r.open = <<>>
      /\ All = chain /\ All' = chain \o new /\ writing' = new
  BY <1>3, <1>4, <1>5, <1>6, AllIsChain DEF All
<1>8. (\E S3 : Held(S3))'
  BY <1>5, <1>7 DEF Held
<1>9. Proper(chain \o new)
  <2>1. Proper(new)
    BY <1>7 DEF Follows
  <2> QED BY <1>2, <1>5, <1>7, <2>1, ProperJoined
<1>10. ASSUME Goes PROVE Goes'
  <2>1. Verifies(chain) /\ GoesOn(pub, chain)
    BY <1>7, <1>10 DEF Goes
  <2>2. Verifies(chain \o new) /\ GoesOn(r, chain \o new)
    BY <1>5, <1>7, <2>1, VerifiesFollows
  <2> QED BY <1>7, <2>2 DEF Goes
<1>11. ASSUME Behind PROVE Behind' /\ Edge(pub, All)' = Edge(pub, All)
  <2>1. Ascending(chain) /\ Past(pub, chain) /\ Proper(chain)
    BY <1>2, <1>7, <1>11 DEF Behind
  <2>2. Ascending(chain \o new) /\ Past(r, chain \o new) /\ Edge(r, chain \o new) = Edge(pub, chain)
    BY <1>5, <1>7, <2>1, AscendsFollows
  <2> QED BY <1>7, <2>2 DEF Behind
<1>12. CoveredBy(chain) \cup OpenTicks(pub) \subseteq CoveredBy(chain \o new) \cup OpenTicks(r)
  BY <1>5, <1>7, CoversFollows
<1> QED BY <1>7, <1>8, <1>9, <1>10, <1>11, <1>12

\* A publisher that begins a chain.
LEMMA FreshIs ==
  Fresh.open = <<>> /\ Fresh.prev = NoRoot /\ Fresh.next = 0 /\ Fresh.tip = 0 /\ Fresh.resumes = 0
BY DEF Fresh

\* Its root is the empty one.
LEMMA FreshHeld ==
  ASSUME NEW S
  PROVE  Fresh \in Pubs(S \cup {NoRoot})
<1>1. <<>> \in Seq(Positive) /\ NoRoot \in S \cup {NoRoot} /\ 0 \in Nat
  OBVIOUS
<1> QED BY <1>1 DEF Fresh, Pubs

\* A publisher bound to its head with an interval declared.
LEMMA SeamIs ==
  ASSUME NEW S, NEW p \in Pubs(S), p.open = <<>>, NEW c, c = Seam(p)
  PROVE  /\ c \in Pubs(S \cup {NoRoot}) /\ c.open = <<>> /\ c.next = 0
         /\ \A L, links : links \in Seq(LinksOn(L)) /\ GoesOn(p, links) => GoesOn(c, links)
<1>1. p.prev \in S /\ p.tip \in Nat
  BY DEF Pubs
<1>2. CASE p.tip = 0
  <2>1. c = Fresh
    BY <1>2 DEF Seam
  <2> QED BY <2>1, FreshIs, FreshHeld DEF GoesOn
<1>3. CASE p.tip # 0
  <2>1. c = [open |-> <<>>, prev |-> p.prev, next |-> 0, tip |-> p.tip, resumes |-> p.tip]
    BY <1>3 DEF Seam
  <2>2. <<>> \in Seq(Positive) /\ p.prev \in S \cup {NoRoot} /\ 0 \in Nat
    BY <1>1
  <2>3. c \in Pubs(S \cup {NoRoot})
    BY <1>1, <2>1, <2>2 DEF Pubs
  <2>4. c.open = <<>> /\ c.next = 0 /\ c.prev = p.prev /\ c.tip = p.tip /\ c.resumes = p.tip
    BY <2>1
  <2>5. ASSUME NEW links, GoesOn(p, links) PROVE GoesOn(c, links)
    <3>1. links # <<>> /\ p.prev = links[Len(links)] /\ p.tip = p.prev.to
      BY <1>3, <2>5 DEF GoesOn
    <3> QED BY <1>3, <2>4, <3>1 DEF GoesOn
  <2> QED BY <2>3, <2>4, <2>5
<1> QED BY <1>2, <1>3

\* The publisher seams once it has sealed.
LEMMA Binding ==
  ASSUME Types, Shape, pub.open = <<>>, pub' = Seam(pub), UNCHANGED <<chain, writing>>
  PROVE  /\ (\E S : Held(S))'
         /\ pub'.open = <<>> /\ pub'.next = 0 /\ All' = All /\ OpenTicks(pub)' = OpenTicks(pub)
         /\ Goes => Goes'
         /\ Behind => Behind'
         /\ Edge(pub, All)' = Edge(pub, All)
<1>1. PICK S : pub \in Pubs(S) /\ chain \in Seq(LinksOn(S)) /\ writing \in Seq(LinksOn(S))
  BY HeldNow
<1>2. PICK c : c = Seam(pub)
  OBVIOUS
<1>3. /\ c \in Pubs(S \cup {NoRoot}) /\ c.open = <<>> /\ c.next = 0
      /\ \A L, links : links \in Seq(LinksOn(L)) /\ GoesOn(pub, links) => GoesOn(c, links)
  BY <1>1, <1>2, SeamIs
<1>4. pub' = c /\ All' = All /\ All \in Seq(LinksOn(S))
  <2>1. All \in Seq(LinksOn(S))
    BY <1>1 DEF All
  <2> QED BY <1>2, <2>1 DEF All
<1>5. chain \in Seq(LinksOn(S \cup {NoRoot})) /\ writing \in Seq(LinksOn(S \cup {NoRoot}))
  BY <1>1, Wider
<1>6. (\E S3 : Held(S3))'
  BY <1>3, <1>4, <1>5 DEF Held
<1>7. Goes => Goes'
  BY <1>3, <1>4 DEF Goes
<1>8. Behind => Behind'
  BY <1>3, <1>4 DEF Behind, Past
<1>9. Edge(pub, All)' = Edge(pub, All) /\ OpenTicks(pub)' = OpenTicks(pub)
  BY <1>3, <1>4 DEF Edge, OpenTicks
<1> QED BY <1>3, <1>4, <1>6, <1>7, <1>8, <1>9

\* A part of the links, from the first on.
LEMMA PrefixIs ==
  ASSUME NEW L, NEW x \in Seq(LinksOn(L)), NEW y \in Seq(LinksOn(L)), Proper(x \o y)
  PROVE  /\ Proper(x)
         /\ Verifies(x \o y) => Verifies(x)
         /\ Ascending(x \o y) => Ascending(x) /\ Through(x) <= Through(x \o y)
         /\ Ascending(x \o y) => \A i \in 1..Len(y) : Through(x) < y[i].from
<1>1. PICK m \in Nat, n \in Nat : m = Len(x) /\ n = Len(y)
  OBVIOUS
<1>2. PICK z : z = x \o y
  OBVIOUS
<1>3. z \in Seq(LinksOn(L)) /\ Len(z) = m + n /\ (\A i \in 1..m : z[i] = x[i]) /\ (\A i \in 1..n : z[m + i] = y[i])
  BY <1>1, <1>2, Joined
<1>4. \A i \in 1..(m + n) : z[i].from \in Nat /\ z[i].to \in Nat /\ z[i].from <= z[i].to
  <2>1. \A i \in 1..(m + n) : z[i] \in LinksOn(L)
    BY <1>3
  <2> QED BY <1>2, <1>3, <2>1 DEF LinksOn, Positive, Proper
<1>5. Proper(x)
  BY <1>1, <1>3, <1>4 DEF Proper
<1>6. ASSUME Verifies(z) PROVE Verifies(x)
  <2>1. ASSUME x # <<>> PROVE x[1].prev = NoRoot /\ x[1].resumes = 0
    <3>1. 1 \in 1..m /\ z # <<>>
      BY <1>1, <1>3, <2>1
    <3> QED BY <1>3, <1>6, <3>1 DEF Verifies
  <2>2. ASSUME NEW i \in 2..m PROVE Accepts(x[i - 1], x[i])
    <3>1. i - 1 \in 1..m /\ i \in 1..m /\ i \in 2..(m + n)
      BY <1>1
    <3>2. z[i - 1] = x[i - 1] /\ z[i] = x[i]
      BY <1>3, <3>1
    <3> QED BY <1>3, <1>6, <3>1, <3>2 DEF Verifies
  <2> QED BY <1>1, <2>1, <2>2 DEF Verifies
<1>7. ASSUME Ascending(z) PROVE Ascending(x)
  BY <1>1, <1>3, <1>7 DEF Ascending
<1>8. x # <<>> => m \in 1..m /\ Through(x) = z[m].to
  BY <1>1, <1>3 DEF Through
<1>9. x = <<>> => Through(x) = 0
  BY DEF Through
<1>10. ASSUME Ascending(z), NEW i \in 1..n PROVE Through(x) < y[i].from /\ Through(x) < y[i].to
  <2>1. m + i \in 1..(m + n) /\ z[m + i] = y[i]
    BY <1>3
  <2>2. z[m + i].from > 0
    <3>1. z[m + i] \in LinksOn(L)
      BY <1>3, <2>1
    <3> QED BY <3>1 DEF LinksOn, Positive
  <2>3. CASE x = <<>>
    BY <1>4, <1>9, <2>1, <2>2, <2>3
  <2>4. CASE x # <<>>
    <3>1. m \in 1..(m + n) /\ m < m + i
      BY <1>8, <2>4
    <3>2. z[m].to < z[m + i].from
      BY <1>3, <1>10, <2>1, <3>1 DEF Ascending
    <3> QED BY <1>4, <1>8, <2>1, <2>4, <3>1, <3>2
  <2> QED BY <2>3, <2>4
<1>11. ASSUME Ascending(z) PROVE Through(x) <= Through(z)
  <2>1. CASE n = 0
    <3>1. y = <<>>
      <4>1. Len(y) = 0
        BY <1>1, <2>1
      <4> QED BY <4>1
    <3>2. z = x
      BY <1>2, <3>1
    <3>3. Through(x) \in Nat
      BY <1>4, <1>8, <1>9
    <3> QED BY <3>2, <3>3
  <2>2. CASE n > 0
    <3>1. n \in 1..n /\ z # <<>> /\ z[m + n] = y[n]
      BY <1>1, <1>3, <2>2
    <3>2. Through(z) = y[n].to
      BY <1>3, <3>1 DEF Through
    <3>3. Through(x) < y[n].to
      BY <1>10, <1>11, <3>1
    <3>4. Through(x) \in Nat /\ y[n].to \in Nat
      <4>1. m + n \in 1..(m + n)
        BY <3>1
      <4> QED BY <1>4, <1>8, <1>9, <3>1, <4>1
    <3> QED BY <3>2, <3>3, <3>4
  <2> QED BY <1>1, <2>1, <2>2
<1> QED BY <1>1, <1>2, <1>5, <1>6, <1>7, <1>10, <1>11

\* Where the links end is a sequence, or 0.
LEMMA ThroughIs ==
  ASSUME NEW L, NEW x \in Seq(LinksOn(L))
  PROVE  Through(x) \in Nat
<1>1. CASE x = <<>>
  BY <1>1 DEF Through
<1>2. CASE x # <<>>
  <2>1. x[Len(x)] \in LinksOn(L)
    BY <1>2
  <2> QED BY <1>2, <2>1 DEF Through, LinksOn, Positive
<1> QED BY <1>1, <1>2

\* So is how far a publisher reaches.
LEMMA EdgeOf ==
  ASSUME NEW L, NEW p \in Pubs(L), NEW x \in Seq(LinksOn(L))
  PROVE  Edge(p, x) \in Nat
<1>1. Through(x) \in Nat
  BY ThroughIs
<1>2. p.open \in Seq(Positive)
  BY DEF Pubs
<1>3. p.open # <<>> => p.open[Len(p.open)] \in Positive
  BY <1>2
<1> QED BY <1>1, <1>3 DEF Edge, Positive

\* So is how far the publisher of a state reaches.
LEMMA EdgeIs ==
  ASSUME Types
  PROVE  Edge(pub, All) \in Nat
<1>1. PICK S : pub \in Pubs(S) /\ chain \in Seq(LinksOn(S)) /\ writing \in Seq(LinksOn(S))
  BY HeldNow
<1>2. All \in Seq(LinksOn(S))
  BY <1>1 DEF All
<1> QED BY <1>1, <1>2, EdgeOf

\* What was to be written is gone, and the publisher stays or is gone too.
LEMMA Dropping ==
  ASSUME Types, Shape, pub' = pub \/ pub' = Fresh, writing' = <<>>, chain' = chain
  PROVE  /\ (\E S : Held(S))'
         /\ IsRun(pub.open)' /\ Proper(All)' /\ All' = chain /\ (pub'.next = 0 => pub'.open = <<>>)
         /\ Behind => Behind' /\ Edge(pub, All)' <= Edge(pub, All)
         /\ Goes /\ pub' = Fresh => Goes'
         /\ Behind => \A s \in CoveredBy(All) \cup OpenTicks(pub) : s <= Through(chain) => s \in CoveredBy(chain)
<1>1. PICK S : pub \in Pubs(S) /\ chain \in Seq(LinksOn(S)) /\ writing \in Seq(LinksOn(S))
  BY HeldNow
<1>2. IsRun(pub.open) /\ (pub.next = 0 => pub.open = <<>>) /\ Proper(All)
  BY DEF Shape
<1>3. All = chain \o writing /\ All' = chain /\ All \in Seq(LinksOn(S))
  BY <1>1 DEF All
<1>4. PICK L : S \subseteq L /\ Fresh \in Pubs(L)
  BY FreshHeld
<1>5. Pubs(S) \subseteq Pubs(L) /\ chain \in Seq(LinksOn(L)) /\ <<>> \in Seq(LinksOn(L)) /\ Fresh \in Pubs(L)
  <2>1. Pubs(S) \subseteq Pubs(L) /\ Seq(LinksOn(S)) \subseteq Seq(LinksOn(L))
    BY <1>4, Wider
  <2>2. <<>> \in Seq(LinksOn(L))
    OBVIOUS
  <2> QED BY <1>1, <1>4, <2>1, <2>2
<1>6. (\E S3 : Held(S3))'
  <2>1. pub' \in Pubs(L) /\ chain' \in Seq(LinksOn(L)) /\ writing' \in Seq(LinksOn(L))
    BY <1>1, <1>5
  <2> QED BY <2>1 DEF Held
<1>7. IsRun(pub.open)' /\ (pub'.next = 0 => pub'.open = <<>>)
  <2>1. IsRun(<<>>)
    BY DEF IsRun
  <2>2. CASE pub' = pub
    BY <1>2, <2>2
  <2>3. CASE pub' = Fresh
    BY <2>1, <2>3, FreshIs
  <2> QED BY <2>2, <2>3
<1>8. /\ Proper(chain)
      /\ Verifies(All) => Verifies(chain)
      /\ Ascending(All) => Ascending(chain) /\ Through(chain) <= Through(All)
      /\ Ascending(All) => \A i \in 1..Len(writing) : Through(chain) < writing[i].from
  BY <1>1, <1>2, <1>3, PrefixIs
<1>9. Goes /\ pub' = Fresh => Goes'
  BY <1>3, <1>8, FreshIs DEF Goes, GoesOn
<1>10. PICK c \in Nat, t \in Nat : c = Through(chain) /\ t = Through(All)
  BY <1>1, <1>3, ThroughIs
<1>11. PICK o \in Seq(Positive), n \in Nat : o = pub.open /\ n = Len(o)
  BY <1>1 DEF Pubs
<1>12. ASSUME NEW k \in 1..n PROVE o[1] <= o[k] /\ o[k] \in Nat /\ o[1] \in Nat
  <2>1. 1 \in 1..n
    OBVIOUS
  <2>2. o[1] \in Nat /\ o[k] = o[1] + k - 1
    BY <1>2, <1>11, <2>1 DEF IsRun, Positive
  <2> QED BY <2>2
<1>13. ASSUME Behind PROVE Behind' /\ Edge(pub, All)' <= Edge(pub, All)
  <2>1. Ascending(chain) /\ c <= t /\ (o # <<>> => t < o[1])
    BY <1>8, <1>10, <1>11, <1>13 DEF Behind, Past
  <2>2. o # <<>> => n \in 1..n /\ c < o[1] /\ c < o[n] /\ o[n] \in Nat
    BY <1>10, <1>11, <1>12, <2>1
  <2>3. CASE pub' = pub
    <3>1. Past(pub, chain)
      BY <1>10, <1>11, <2>2 DEF Past
    <3>2. Edge(pub, chain) <= Edge(pub, All)
      BY <1>10, <1>11, <2>1, <2>2 DEF Edge
    <3> QED BY <1>3, <2>1, <2>3, <3>1, <3>2 DEF Behind
  <2>4. CASE pub' = Fresh
    <3>1. Past(Fresh, chain) /\ Edge(Fresh, chain) = c
      BY <1>10, FreshIs DEF Past, Edge
    <3>2. c <= Edge(pub, All)
      BY <1>10, <1>11, <2>1, <2>2 DEF Edge
    <3> QED BY <1>3, <2>1, <2>4, <3>1, <3>2 DEF Behind
  <2> QED BY <2>3, <2>4
<1>14. ASSUME Behind, NEW s \in CoveredBy(All) \cup OpenTicks(pub), s <= Through(chain) PROVE s \in CoveredBy(chain)
  <2>1. Ascending(All) /\ (o # <<>> => t < o[1]) /\ c <= t /\ \A i \in 1..Len(writing) : c < writing[i].from
    BY <1>8, <1>10, <1>11, <1>14 DEF Behind, Past
  <2>2. CASE s \in OpenTicks(pub)
    <3>1. PICK k \in 1..n : s = o[k]
      BY <1>11, <2>2 DEF OpenTicks
    <3>2. o # <<>> /\ o[1] <= s /\ o[1] \in Nat /\ s \in Nat
      BY <1>11, <1>12, <3>1
    <3> QED BY <1>10, <1>14, <2>1, <3>2
  <2>3. CASE s \in CoveredBy(All)
    <3>1. PICK i \in 1..Len(All) : All[i].from <= s /\ s <= All[i].to /\ s \in Nat
      BY <2>3 DEF CoveredBy
    <3>2. PICK m \in Nat, l \in Nat : m = Len(chain) /\ l = Len(writing) /\ Len(All) = m + l
      BY <1>1, <1>3
    <3>3. CASE i \in 1..m
      <4>1. All[i] = chain[i]
        BY <1>1, <1>3, <3>2, <3>3
      <4> QED BY <3>1, <3>2, <3>3, <4>1 DEF CoveredBy
    <3>4. CASE i > m
      <4>0. i \in 1..(m + l)
        BY <3>2
      <4>1. PICK j \in 1..l : i = m + j
        <5>1. i - m \in 1..l /\ i = m + (i - m)
          BY <3>2, <3>4, <4>0
        <5> QED BY <5>1
      <4>2. All[i] = writing[j]
        BY <1>1, <1>3, <3>2, <4>1
      <4>3. c < writing[j].from
        BY <2>1, <3>2
      <4>4. writing[j].from \in Nat
        <5>1. writing[j] \in LinksOn(S)
          BY <1>1, <3>2
        <5> QED BY <5>1 DEF LinksOn, Positive
      <4> QED BY <1>10, <1>14, <3>1, <4>2, <4>3, <4>4
    <3> QED BY <3>1, <3>2, <3>3, <3>4
  <2> QED BY <1>14, <2>2, <2>3
<1> QED BY <1>3, <1>6, <1>7, <1>8, <1>9, <1>13, <1>14

\* The first of the links to write, and the others.
LEMMA HeadTail ==
  ASSUME NEW L, NEW w \in Seq(L), w # <<>>
  PROVE  Head(w) = w[1] /\ Head(w) \in L /\ Tail(w) \in Seq(L)
OBVIOUS

\* A write moves a link from one to the other.
LEMMA Writing ==
  ASSUME Types, Shape, Write
  PROVE  /\ (\E S : Held(S))'
         /\ All' = All /\ pub' = pub
         /\ (\A i \in 1..Len(chain) : <<chain[i].from, chain[i].to>> \in journals)'
         /\ (journaled => writing # <<>> /\ <<writing[1].from, writing[1].to>> \in journals)'
<1>1. PICK S : pub \in Pubs(S) /\ chain \in Seq(LinksOn(S)) /\ writing \in Seq(LinksOn(S))
  BY HeldNow
<1>2. /\ \A i \in 1..Len(chain) : <<chain[i].from, chain[i].to>> \in journals
      /\ journaled => <<writing[1].from, writing[1].to>> \in journals
      /\ journaled \in BOOLEAN
  BY DEF Shape, Types
<1>3. PICK h, l : h = Head(writing) /\ l = Tail(writing) /\ h = writing[1] /\ h \in LinksOn(S) /\ l \in Seq(LinksOn(S))
  <2>1. writing # <<>>
    BY DEF Write
  <2> QED BY <1>1, <2>1, HeadTail
<1>4. pub' = pub /\ writing # <<>>
  BY DEF Write
<1>5. CASE journaled
  <2>1. chain' = Append(chain, h) /\ writing' = l /\ journals' = journals /\ journaled' = FALSE
    BY <1>2, <1>3, <1>5 DEF Write
  <2>2. Append(chain, h) \in Seq(LinksOn(S))
    BY <1>1, <1>3
  <2>3. Append(chain, h) \o l = chain \o writing
    BY <1>1, <1>3, <1>4
  <2>4. (\A i \in 1..Len(chain) : <<chain[i].from, chain[i].to>> \in journals)'
    <3>1. PICK m \in Nat : m = Len(chain) /\ Len(chain') = m + 1 /\ chain'[m + 1] = h /\ \A i \in 1..m : chain'[i] = chain[i]
      BY <1>1, <1>3, <2>1
    <3>2. ASSUME NEW i \in 1..(m + 1) PROVE <<chain'[i].from, chain'[i].to>> \in journals'
      <4>1. CASE i = m + 1
        BY <1>2, <1>3, <1>5, <2>1, <3>1, <4>1
      <4>2. CASE i \in 1..m
        BY <1>2, <2>1, <3>1, <4>2
      <4> QED BY <4>1, <4>2
    <3> QED BY <3>1, <3>2
  <2> QED BY <1>1, <1>3, <1>4, <2>1, <2>2, <2>3, <2>4 DEF All, Held
<1>6. CASE ~journaled
  <2>1. journals' = journals \cup {<<h.from, h.to>>} /\ chain' = chain /\ writing' = writing
    BY <1>2, <1>3, <1>6 DEF Write
  <2>2. (\A i \in 1..Len(chain) : <<chain[i].from, chain[i].to>> \in journals)'
    BY <1>2, <2>1
  <2>3. (writing # <<>> /\ <<writing[1].from, writing[1].to>> \in journals)'
    BY <1>3, <1>4, <2>1
  <2> QED BY <1>1, <1>4, <2>1, <2>2, <2>3 DEF All, Held
<1> QED BY <1>2, <1>5, <1>6

\* A process that opens on the chain goes on from its last link.
LEMMA Continuing ==
  ASSUME NEW S, chain \in Seq(LinksOn(S)), chain # <<>>, NEW p, p = Continued(Last(chain))
  PROVE  /\ \E L : S \subseteq L /\ p \in Pubs(L)
         /\ p.open = <<>> /\ p.next = Through(chain) + 1 /\ Last(chain).to = Through(chain) /\ p.next # 0
         /\ Through(chain) \in Nat /\ GoesOn(p, chain)
<1>1. PICK l : l = chain[Len(chain)] /\ l = Last(chain) /\ l \in LinksOn(S)
  BY DEF Last
<1>2. l.to \in Nat /\ Through(chain) = l.to
  BY <1>1 DEF LinksOn, Positive, Through
<1>3. p = [open |-> <<>>, prev |-> l, next |-> l.to + 1, tip |-> l.to, resumes |-> 0]
  BY <1>1 DEF Continued
<1>4. p \in Pubs(S \cup {l})
  <2>1. <<>> \in Seq(Positive) /\ l \in S \cup {l} /\ l.to + 1 \in Nat /\ 0 \in Nat
    BY <1>2
  <2> QED BY <1>2, <1>3, <2>1 DEF Pubs
<1>5. GoesOn(p, chain)
  BY <1>1, <1>3 DEF GoesOn
<1> QED BY <1>1, <1>2, <1>3, <1>4, <1>5

-----------------------------------------------------------------------------
(* The steps *)

\* What the assumption says of the constants.
LEMMA ConstantsAre ==
  MaxSequence \in Nat /\ WindowTicks \in Positive /\ SequenceLease \in Positive /\ MaxBatch \in Positive
BY PublicationAssumption DEF PublicationAssumption, Positive

\* Nothing is written, and no journal waits.
LEMMA Idle ==
  ASSUME Types, Shape, writing = <<>>
  PROVE  journaled = FALSE
BY DEF Types, Shape

\* The invariant holds of an empty directory.
LEMMA AtStart ==
  ASSUME Init
  PROVE  IInv
<1>1. Types
  <2>1. pub \in Pubs({NoRoot}) /\ chain \in Seq(LinksOn({NoRoot})) /\ writing \in Seq(LinksOn({NoRoot}))
    BY FreshHeld DEF Init
  <2>2. \E S : Held(S)
    BY <2>1 DEF Held
  <2>3. /\ record \in SUBSET (1..MaxSequence) /\ next \in Positive
        /\ pc \in {"down", "fold", "jump", "bind", "up", "stop"} /\ runs \in SUBSET (1..MaxSequence)
    BY DEF Init, Positive
  <2>5. hosted \in BOOLEAN /\ seamed \in BOOLEAN /\ journaled \in BOOLEAN
    BY DEF Init
  <2>4. crashed \in BOOLEAN /\ rolled \in BOOLEAN /\ failed \in BOOLEAN
    BY DEF Init
  <2> QED BY <2>2, <2>3, <2>4, <2>5 DEF Types
<1>2. All = <<>> /\ chain = <<>> /\ writing = <<>> /\ pub = Fresh
  BY DEF Init, All
<1>3. Shape
  <2>1. IsRun(<<>>) /\ Proper(<<>>)
    BY DEF IsRun, Proper
  <2> QED BY <1>2, <2>1, FreshIs DEF Init, Shape
<1>4. Linked
  BY <1>2, FreshIs DEF Linked, Goes, Verifies, GoesOn
<1>5. HeadOf(record) \in Nat
  <2>1. record \subseteq 1..MaxSequence
    BY <1>1 DEF Types
  <2> QED BY <2>1, ConstantsAre, HeadFacts
<1>6. Ascends
  <2>1. Behind
    BY <1>2, FreshIs DEF Behind, Ascending, Past
  <2>2. Edge(pub, All) = 0
    BY <1>2, FreshIs DEF Edge, Through
  <2> QED BY <1>5, <2>1, <2>2 DEF Ascends, Init
<1>7. Ahead
  BY DEF Ahead, Init
<1>8. Covers
  BY DEF Covers, Init
<1> QED BY <1>1, <1>3, <1>4, <1>6, <1>7, <1>8 DEF IInv

\* A run of what is left is folded in.
LEMMA FoldKeeps ==
  ASSUME IInv, Fold, runs # {}
  PROVE  IInv'
<1>1. Types /\ Shape /\ Linked /\ Ascends /\ Ahead /\ Covers
  BY DEF IInv
<1>2. /\ pc = "fold" /\ writing = <<>> /\ runs \subseteq 1..MaxSequence /\ record \subseteq 1..MaxSequence
      /\ next \in Positive
  BY <1>1 DEF Fold, Types
<1>3. PICK a \in runs, b \in runs : /\ FirstRun(runs) = Interval(a, b) /\ a <= b /\ a..b \subseteq runs
                                    /\ b + 1 \notin runs /\ \A s \in runs : a <= s
  <2>1. MaxSequence \in Nat /\ runs \subseteq 1..MaxSequence /\ runs # {}
    BY <1>2, ConstantsAre
  <2>2. \E a \in runs : \E b \in runs : /\ FirstRun(runs) = Interval(a, b) /\ a <= b /\ a..b \subseteq runs
                                      /\ b + 1 \notin runs /\ \A s \in runs : a <= s
    BY <2>1, FirstRunIs
  <2> QED BY <2>2
<1>4. a \in Positive /\ b \in Positive /\ a \in Nat /\ b \in Nat
  BY <1>2 DEF Positive
<1>5. Head(Interval(a, b)) = a /\ Last(Interval(a, b)) = b
  BY <1>3, <1>4, IntervalFacts
<1>6. PICK c : c = Observe(pub, Interval(a, b))
  OBVIOUS
<1>7. /\ Expects(pub, a) /\ pub' = c.pub /\ writing' = c.links
      /\ runs' = {s \in runs : s > b} /\ pc' = IF runs' = {} THEN "fold" ELSE "jump"
      /\ UNCHANGED <<record, next, hosted, published, journaled, seamed, chain, torn, journals>>
      /\ UNCHANGED <<unreached, crashed, rolled, failed, departures>>
  BY <1>3, <1>5, <1>6 DEF Fold, market, files, history
<1>8. /\ (\E S : Held(S))'
      /\ IsRun(pub.open)' /\ Proper(All)' /\ pub'.next # 0
      /\ Goes => Goes'
      /\ Behind /\ Edge(pub, All) < a => Behind' /\ Edge(pub, All)' = b
      /\ CoveredBy(All) \cup OpenTicks(pub) \cup a..b \subseteq CoveredBy(All)' \cup OpenTicks(pub)'
      /\ Expects(pub, b + 1)'
  BY <1>1, <1>2, <1>3, <1>4, <1>6, <1>7, Observing
<1>9. Types'
  <2>1. runs' \in SUBSET (1..MaxSequence) /\ pc' \in {"fold", "jump"}
    BY <1>2, <1>7
  <2> QED BY <1>1, <1>7, <1>8, <2>1 DEF Types
<1>10. Shape'
  <2>1. journaled' = FALSE /\ pc' \in {"fold", "jump"}
    BY <1>1, <1>2, <1>7, Idle
  <2>2. (\A i \in 1..Len(chain) : <<chain[i].from, chain[i].to>> \in journals)'
    BY <1>1, <1>7 DEF Shape
  <2> QED BY <1>8, <2>1, <2>2 DEF Shape
<1>11. Linked'
  BY <1>1, <1>7, <1>8 DEF Linked
<1>12. HeadOf(record) \in Nat /\ \A s \in record : s <= HeadOf(record)
  BY <1>2, ConstantsAre, HeadFacts
<1>13. Ascends'
  <2>1. CASE rolled
    BY <1>7, <2>1 DEF Ascends
  <2>2. CASE ~rolled
    <3>1. Behind /\ Edge(pub, All) < a /\ runs \subseteq record
      BY <1>1, <2>2 DEF Ascends
    <3>2. Behind' /\ Edge(pub, All)' = b
      BY <1>8, <3>1
    <3>3. b <= HeadOf(record) /\ \A s \in runs' : b < s
      BY <1>4, <1>2, <1>7, <1>12, <3>1
    <3> QED BY <1>7, <3>1, <3>2, <3>3 DEF Ascends
  <2> QED BY <2>1, <2>2
<1>14. Ahead'
  BY <1>1, <1>2, <1>7 DEF Ahead
<1>15. Covers'
  <2>1. CASE rolled \/ failed
    BY <1>7, <2>1 DEF Covers
  <2>2. CASE ~rolled /\ ~failed
    <3>1. /\ record = published
          /\ record \subseteq CoveredBy(All) \cup OpenTicks(pub) \cup unreached \cup runs
          /\ crashed
          /\ ~seamed => next = HeadOf(record) + 1 /\ HeadOf(record) \in runs
      BY <1>1, <1>2, <2>2 DEF Covers
    <3>2. runs \subseteq record
      BY <1>1, <2>2 DEF Ascends
    <3>3. runs \subseteq a..b \cup runs'
      <4>1. ASSUME NEW s \in runs PROVE s \in a..b \/ s > b
        <5>1. s \in 1..MaxSequence /\ a <= s
          BY <1>2, <1>3
        <5> QED BY <1>4, <5>1
      <4> QED BY <1>7, <4>1
    <3>4. record' \subseteq CoveredBy(All)' \cup OpenTicks(pub)' \cup unreached' \cup runs'
      BY <1>7, <1>8, <3>1, <3>3
    <3>5. ASSUME ~seamed, runs' # {} PROVE HeadOf(record) \in runs'
      <4>1. PICK s \in runs : s > b
        BY <1>7, <3>5
      <4>2. s \in Nat /\ s <= HeadOf(record)
        BY <1>2, <1>12, <3>2
      <4> QED BY <1>4, <1>7, <1>12, <3>1, <3>5, <4>1, <4>2
    <3>6. ASSUME ~seamed, runs' = {} PROVE Expects(pub, next)'
      <4>1. HeadOf(record) \in runs /\ ~(HeadOf(record) > b)
        BY <1>7, <3>1, <3>6
      <4>2. b <= HeadOf(record)
        BY <1>12, <3>2
      <4>3. HeadOf(record) = b
        BY <1>4, <1>12, <4>1, <4>2
      <4>4. next' = b + 1
        BY <1>7, <3>1, <3>6, <4>3
      <4> QED BY <1>8, <4>4
    <3>7. pc' \in {"fold", "jump"} /\ (pc' = "jump" => runs' # {})
      BY <1>7
    <3> QED BY <1>7, <3>1, <3>4, <3>5, <3>6, <3>7 DEF Covers
  <2> QED BY <2>1, <2>2
<1> QED BY <1>9, <1>10, <1>11, <1>13, <1>14, <1>15 DEF IInv

\* Nothing is left to fold.
LEMMA FoldedKeeps ==
  ASSUME IInv, Fold, runs = {}
  PROVE  IInv'
<1>1. Types /\ Shape /\ Linked /\ Ascends /\ Ahead /\ Covers
  BY DEF IInv
<1>2. /\ pc = "fold" /\ pc' = (IF seamed THEN "jump" ELSE "up")
      /\ UNCHANGED <<pub, writing, runs>>
      /\ UNCHANGED <<record, next, hosted, published, journaled, seamed, chain, torn, journals>>
      /\ UNCHANGED <<unreached, crashed, rolled, failed, departures>>
  BY DEF Fold, market, files, history
<1>3. All' = All
  BY <1>2 DEF All
<1>4. Types'
  <2>1. (\E S : Held(S))'
    BY <1>1, <1>2 DEF Types, Held
  <2> QED BY <1>1, <1>2, <2>1 DEF Types
<1>5. Shape'
  BY <1>1, <1>2, <1>3 DEF Shape
<1>6. Linked' /\ Ascends'
  BY <1>1, <1>2, <1>3 DEF Linked, Goes, Ascends, Behind, Edge, Past
<1>7. Ahead'
  BY <1>1, <1>2 DEF Ahead
<1>8. Covers'
  <2>1. pc' # "down" /\ pc' # "fold" /\ (pc' = "up" => ~seamed)
    BY <1>2
  <2>2. CASE rolled \/ failed
    BY <1>2, <2>2 DEF Covers
  <2>3. CASE ~rolled /\ ~failed
    <3>1. /\ record = published
          /\ record \subseteq CoveredBy(All) \cup OpenTicks(pub) \cup unreached \cup runs
          /\ ~crashed => unreached = {} /\ runs = {}
          /\ hosted /\ ~seamed => Expects(pub, next)
      BY <1>1, <1>2, <2>3 DEF Covers
    <3>2. hosted' /\ pc' = "up" => Expects(pub, next)'
      BY <1>2, <2>1, <3>1
    <3>3. OpenTicks(pub)' = OpenTicks(pub) /\ CoveredBy(All)' = CoveredBy(All)
      BY <1>2, <1>3
    <3> QED BY <1>2, <2>1, <3>1, <3>2, <3>3 DEF Covers
  <2> QED BY <2>2, <2>3
<1> QED BY <1>4, <1>5, <1>6, <1>7, <1>8 DEF IInv

\* What is open is sealed, at a jump, a reopening or a stop.
LEMMA SealKeeps ==
  ASSUME IInv, writing = <<>>, SealOpen, pc # "down", pc' \in {"bind", "stop"}, pc' = "stop" => runs = {},
         next' \in Positive, next' > HeadOf(record), runs # {} => next' = next,
         UNCHANGED <<record, hosted, published, journaled, runs, seamed, chain, journals>>,
         UNCHANGED <<unreached, crashed, rolled, failed>>
  PROVE  IInv'
<1>1. Types /\ Shape /\ Linked /\ Ascends /\ Ahead /\ Covers
  BY DEF IInv
<1>2. /\ (\E S : Held(S))'
      /\ pub'.open = <<>> /\ Proper(All)'
      /\ Goes => Goes'
      /\ Behind => Behind' /\ Edge(pub, All)' = Edge(pub, All)
      /\ CoveredBy(All) \cup OpenTicks(pub) \subseteq CoveredBy(All)' \cup OpenTicks(pub)'
  BY <1>1, Sealing
<1>3. Types'
  BY <1>1, <1>2 DEF Types
<1>4. Shape'
  <2>1. journaled' = FALSE
    BY <1>1, Idle
  <2>2. (\A i \in 1..Len(chain) : <<chain[i].from, chain[i].to>> \in journals)'
    BY <1>1 DEF Shape
  <2>3. IsRun(pub.open)'
    BY <1>2 DEF IsRun
  <2> QED BY <1>2, <2>1, <2>2, <2>3 DEF Shape
<1>5. Linked'
  BY <1>1, <1>2 DEF Linked
<1>6. Ascends'
  BY <1>1, <1>2 DEF Ascends
<1>7. Ahead'
  BY DEF Ahead
<1>8. Covers'
  <2>1. CASE rolled \/ failed
    BY <2>1 DEF Covers
  <2>2. CASE ~rolled /\ ~failed
    <3>1. /\ record = published
          /\ record \subseteq CoveredBy(All) \cup OpenTicks(pub) \cup unreached \cup runs
          /\ ~crashed => unreached = {} /\ runs = {}
          /\ ~seamed /\ runs # {} => next = HeadOf(record) + 1 /\ HeadOf(record) \in runs
      BY <1>1, <2>2 DEF Covers
    <3> QED BY <1>2, <3>1 DEF Covers
  <2> QED BY <2>1, <2>2
<1> QED BY <1>3, <1>4, <1>5, <1>6, <1>7, <1>8 DEF IInv

\* prime seals before a jump of the record.
LEMMA JumpKeeps ==
  ASSUME IInv, Jump
  PROVE  IInv'
<1>1. /\ pc = "jump" /\ writing = <<>> /\ SealOpen /\ pc' = "bind" /\ next' = next
      /\ UNCHANGED <<record, hosted, published, journaled, runs, seamed, chain, journals>>
      /\ UNCHANGED <<unreached, crashed, rolled, failed>>
  BY DEF Jump, market, files, history
<1>2. next \in Positive /\ next > HeadOf(record)
  BY <1>1 DEF IInv, Types, Ahead
<1> QED BY <1>1, <1>2, SealKeeps

\* The market reopens past a seam.
LEMMA ReopenKeeps ==
  ASSUME IInv, Reopen
  PROVE  IInv'
<1>1. /\ pc = "up" /\ writing = <<>> /\ SealOpen /\ pc' = "bind"
      /\ next' = HeadOf(record) + 1 + SequenceLease
      /\ UNCHANGED <<record, hosted, published, journaled, runs, seamed, chain, journals>>
      /\ UNCHANGED <<unreached, crashed, rolled, failed>>
  BY DEF Reopen, Quiet, files, history
<1>2. runs = {} /\ record \subseteq 1..MaxSequence
  BY <1>1 DEF IInv, Shape, Types
<1>3. HeadOf(record) \in Nat
  BY <1>2, ConstantsAre, HeadFacts
<1>4. next' \in Positive /\ next' > HeadOf(record)
  BY <1>1, <1>3, ConstantsAre DEF Positive
<1> QED BY <1>1, <1>2, <1>4, SealKeeps

\* A process stops.
LEMMA StopKeeps ==
  ASSUME IInv, Stop
  PROVE  IInv'
<1>1. /\ pc = "up" /\ writing = <<>> /\ SealOpen /\ pc' = "stop" /\ next' = next
      /\ UNCHANGED <<record, hosted, published, journaled, runs, seamed, chain, journals>>
      /\ UNCHANGED <<unreached, crashed, rolled, failed>>
  BY DEF Stop, Quiet, market, files
<1>2. next \in Positive /\ next > HeadOf(record) /\ runs = {}
  BY <1>1 DEF IInv, Types, Ahead, Shape
<1> QED BY <1>1, <1>2, SealKeeps

\* The publisher declares the interval from its head.
LEMMA BindKeeps ==
  ASSUME IInv, Bind
  PROVE  IInv'
<1>1. Types /\ Shape /\ Linked /\ Ascends /\ Ahead /\ Covers
  BY DEF IInv
<1>2. /\ pc = "bind" /\ writing = <<>> /\ pub' = Seam(pub) /\ pc' = IF runs = {} THEN "up" ELSE "fold"
      /\ UNCHANGED <<record, next, hosted, published, writing, journaled, runs, seamed, chain, journals>>
      /\ UNCHANGED <<unreached, crashed, rolled, failed>>
  BY DEF Bind, market, files, history
<1>3. pub.open = <<>>
  BY <1>1, <1>2 DEF Shape
<1>4. /\ (\E S : Held(S))'
      /\ pub'.open = <<>> /\ pub'.next = 0 /\ All' = All /\ OpenTicks(pub)' = OpenTicks(pub)
      /\ Goes => Goes'
      /\ Behind => Behind'
      /\ Edge(pub, All)' = Edge(pub, All)
  BY <1>1, <1>2, <1>3, Binding
<1>5. Types'
  BY <1>1, <1>2, <1>4 DEF Types
<1>6. Shape'
  <2>1. journaled' = FALSE
    BY <1>1, <1>2, Idle
  <2>2. (\A i \in 1..Len(chain) : <<chain[i].from, chain[i].to>> \in journals)'
    BY <1>1, <1>2 DEF Shape
  <2>3. IsRun(pub.open)'
    BY <1>4 DEF IsRun
  <2>4. Proper(All)'
    BY <1>1, <1>4 DEF Shape
  <2> QED BY <1>2, <1>4, <2>1, <2>2, <2>3, <2>4 DEF Shape
<1>7. Linked'
  BY <1>1, <1>2, <1>4 DEF Linked
<1>8. Ascends'
  BY <1>1, <1>2, <1>4 DEF Ascends
<1>9. Ahead'
  BY <1>1, <1>2 DEF Ahead
<1>10. Covers'
  <2>1. CASE rolled \/ failed
    BY <1>2, <2>1 DEF Covers
  <2>2. CASE ~rolled /\ ~failed
    <3>1. /\ record = published
          /\ record \subseteq CoveredBy(All) \cup OpenTicks(pub) \cup unreached \cup runs
          /\ ~crashed => unreached = {} /\ runs = {}
          /\ ~seamed /\ runs # {} => next = HeadOf(record) + 1 /\ HeadOf(record) \in runs
      BY <1>1, <1>2, <2>2 DEF Covers
    <3>2. Expects(pub, next)'
      BY <1>4 DEF Expects
    <3>3. CoveredBy(All)' = CoveredBy(All)
      BY <1>4
    <3>4. pc' # "down" /\ (pc' = "fold" => runs # {})
      BY <1>2
    <3> QED BY <1>2, <1>4, <3>1, <3>2, <3>3, <3>4 DEF Covers
  <2> QED BY <2>1, <2>2
<1> QED BY <1>5, <1>6, <1>7, <1>8, <1>9, <1>10 DEF IInv

\* The record's head after a pass.
LEMMA HeadGrows ==
  ASSUME NEW T, T \subseteq 1..MaxSequence, NEW a \in Nat, NEW b \in Nat, HeadOf(T) < a, a <= b, b <= MaxSequence
  PROVE  /\ T \cup a..b \subseteq 1..MaxSequence /\ HeadOf(T \cup a..b) = b
         /\ HeadOf(T) \in Nat /\ \A s \in T : s <= HeadOf(T)
<1>1. HeadOf(T) \in Nat /\ \A s \in T : s <= HeadOf(T)
  BY ConstantsAre, HeadFacts
<1>2. PICK U : U = T \cup a..b
  OBVIOUS
<1>3. U \subseteq 1..MaxSequence /\ b \in U
  <2>1. a > 0 /\ MaxSequence \in Nat
    BY <1>1, ConstantsAre
  <2>2. a..b \subseteq 1..MaxSequence /\ b \in a..b
    BY <2>1
  <2> QED BY <1>2, <2>2
<1>4. HeadOf(U) \in Nat /\ b <= HeadOf(U) /\ HeadOf(U) \in U
  <2>1. /\ HeadOf(U) \in Nat /\ HeadOf(U) \in U \cup {0} /\ \A s \in U : s <= HeadOf(U)
        /\ U # {} => HeadOf(U) \in U
    BY <1>3, ConstantsAre, HeadFacts
  <2> QED BY <1>3, <2>1
<1>5. HeadOf(U) <= b
  BY <1>1, <1>2, <1>4
<1>6. HeadOf(U) = b
  BY <1>4, <1>5
<1> QED BY <1>1, <1>2, <1>3, <1>6

\* A pass: recorded, and observed where it is expected.
LEMMA PassKeeps ==
  ASSUME IInv, NEW n \in 1..MaxBatch, Pass(n)
  PROVE  IInv'
<1>1. Types /\ Shape /\ Linked /\ Ascends /\ Ahead /\ Covers
  BY DEF IInv
<1>2. PICK a \in Positive, b \in Positive : a = next /\ b = next + n - 1 /\ b + 1 = next + n /\ a <= b /\ a \in Nat /\ b \in Nat
  <2>1. next \in Positive /\ n \in Nat /\ n > 0
    BY <1>1, ConstantsAre DEF Types, Positive
  <2>2. next \in Nat /\ next > 0
    BY <2>1 DEF Positive
  <2>3. next + n - 1 \in Nat /\ next + n - 1 > 0 /\ next <= next + n - 1 /\ (next + n - 1) + 1 = next + n
    BY <2>1, <2>2
  <2> QED BY <2>1, <2>2, <2>3 DEF Positive
<1>3. /\ pc = "up" /\ writing = <<>> /\ hosted /\ b <= MaxSequence
      /\ record' = record \cup a..b /\ published' = published \cup a..b /\ next' = b + 1
      /\ UNCHANGED <<pc, journaled, runs, seamed, chain, journals>>
      /\ UNCHANGED <<unreached, crashed, rolled, failed>>
  BY <1>2 DEF Pass, Quiet, files, history
<1>4. runs = {} /\ record \subseteq 1..MaxSequence /\ HeadOf(record) < a
  BY <1>1, <1>2, <1>3 DEF Shape, Types, Ahead
<1>5. /\ record' \subseteq 1..MaxSequence /\ HeadOf(record') = b
      /\ HeadOf(record) \in Nat /\ \A s \in record : s <= HeadOf(record)
  <2>1. /\ record \cup a..b \subseteq 1..MaxSequence /\ HeadOf(record \cup a..b) = b
        /\ HeadOf(record) \in Nat /\ \A s \in record : s <= HeadOf(record)
    <3>1. a \in Nat /\ b \in Nat /\ record \subseteq 1..MaxSequence /\ HeadOf(record) < a /\ a <= b /\ b <= MaxSequence
      BY <1>2, <1>3, <1>4
    <3> QED BY <3>1, HeadGrows
  <2> QED BY <1>3, <2>1
<1>6. next' \in Positive
  BY <1>2, <1>3 DEF Positive
<1>7. Ahead'
  BY <1>2, <1>3, <1>5 DEF Ahead
<1>8. CASE Expects(pub, a)
  <2>1. PICK c : c = Observe(pub, Interval(a, b)) /\ pub' = c.pub /\ writing' = c.links /\ hosted' = hosted
    BY <1>2, <1>8 DEF Pass
  <2>2. /\ (\E S : Held(S))'
        /\ IsRun(pub.open)' /\ Proper(All)' /\ pub'.next # 0
        /\ Goes => Goes'
        /\ Behind /\ Edge(pub, All) < a => Behind' /\ Edge(pub, All)' = b
        /\ CoveredBy(All) \cup OpenTicks(pub) \cup a..b \subseteq CoveredBy(All)' \cup OpenTicks(pub)'
        /\ Expects(pub, b + 1)'
    BY <1>1, <1>2, <1>3, <1>8, <2>1, Observing
  <2>3. Types'
    BY <1>1, <1>3, <1>5, <1>6, <2>1, <2>2 DEF Types
  <2>4. Shape'
    <3>1. journaled' = FALSE
      BY <1>1, <1>3, Idle
    <3>2. (\A i \in 1..Len(chain) : <<chain[i].from, chain[i].to>> \in journals)'
      BY <1>1, <1>3 DEF Shape
    <3> QED BY <1>3, <1>4, <2>2, <3>1, <3>2 DEF Shape
  <2>5. Linked'
    BY <1>1, <1>3, <2>2 DEF Linked
  <2>6. Ascends'
    <3>1. CASE rolled
      BY <1>3, <3>1 DEF Ascends
    <3>2. CASE ~rolled
      <4>1. Behind /\ Edge(pub, All) <= HeadOf(record)
        BY <1>1, <3>2 DEF Ascends
      <4>2. Edge(pub, All) \in Int
        BY <1>1, EdgeIs
      <4>3. Behind' /\ Edge(pub, All)' = b
        BY <1>2, <1>4, <1>5, <2>2, <4>1, <4>2
      <4>4. (Edge(pub, All) <= HeadOf(record))'
        BY <1>2, <1>5, <4>3
      <4>5. runs' = {}
        BY <1>3, <1>4
      <4> QED BY <4>3, <4>4, <4>5 DEF Ascends
    <3> QED BY <3>1, <3>2
  <2>7. Covers'
    <3>1. CASE rolled \/ failed
      BY <1>3, <3>1 DEF Covers
    <3>2. CASE ~rolled /\ ~failed
      <4>1. /\ record = published
            /\ record \subseteq CoveredBy(All) \cup OpenTicks(pub) \cup unreached \cup runs
            /\ ~crashed => unreached = {} /\ runs = {}
        BY <1>1, <1>3, <3>2 DEF Covers
      <4>2. Expects(pub, next)'
        BY <1>3, <2>2
      <4>3. record' \subseteq CoveredBy(All)' \cup OpenTicks(pub)' \cup unreached' \cup runs'
        BY <1>3, <2>2, <4>1
      <4>4. pc' = "up" /\ runs' = {} /\ record' = published'
        BY <1>3, <1>4, <4>1
      <4> QED BY <1>3, <4>1, <4>2, <4>3, <4>4 DEF Covers
    <3> QED BY <3>1, <3>2
  <2> QED BY <1>7, <2>3, <2>4, <2>5, <2>6, <2>7 DEF IInv
<1>9. CASE ~Expects(pub, a)
  <2>1. hosted' = FALSE /\ UNCHANGED <<pub, writing>>
    BY <1>2, <1>9 DEF Pass
  <2>2. All' = All
    BY <1>3, <2>1 DEF All
  <2>3. Types'
    <3>1. (\E S : Held(S))'
      BY <1>1, <1>3, <2>1 DEF Types, Held
    <3> QED BY <1>1, <1>3, <1>5, <1>6, <2>1, <3>1 DEF Types
  <2>4. Shape'
    BY <1>1, <1>3, <2>1, <2>2 DEF Shape
  <2>5. Linked'
    BY <1>1, <1>3, <2>1, <2>2 DEF Linked, Goes
  <2>6. Ascends'
    <3>1. CASE rolled
      BY <1>3, <3>1 DEF Ascends
    <3>2. CASE ~rolled
      <4>1. Behind /\ Edge(pub, All) <= HeadOf(record)
        BY <1>1, <3>2 DEF Ascends
      <4>2. Behind' /\ Edge(pub, All)' = Edge(pub, All)
        BY <1>3, <2>1, <2>2, <4>1 DEF Behind, Past, Edge
      <4>3. Edge(pub, All) \in Int
        BY <1>1, EdgeIs
      <4>4. (Edge(pub, All) <= HeadOf(record))'
        BY <1>2, <1>4, <1>5, <4>1, <4>2, <4>3
      <4>5. runs' = {}
        BY <1>3, <1>4
      <4> QED BY <4>2, <4>4, <4>5 DEF Ascends
    <3> QED BY <3>1, <3>2
  <2>7. Covers'
    <3>1. rolled \/ failed
      BY <1>1, <1>2, <1>3, <1>9 DEF Covers
    <3> QED BY <1>3, <3>1 DEF Covers
  <2> QED BY <1>7, <2>3, <2>4, <2>5, <2>6, <2>7 DEF IInv
<1> QED BY <1>8, <1>9

\* What windows cover lies behind their last one.
LEMMA CoveredThrough ==
  ASSUME NEW L, NEW x \in Seq(LinksOn(L)), Proper(x), Ascending(x), NEW s \in CoveredBy(x)
  PROVE  x # <<>> /\ s <= Through(x) /\ s \in Nat
<1>1. PICK n \in Nat : n = Len(x)
  OBVIOUS
<1>2. PICK i \in 1..n : x[i].from <= s /\ s <= x[i].to /\ s \in Nat
  BY <1>1 DEF CoveredBy
<1>3. x # <<>> /\ n \in 1..n /\ Through(x) = x[n].to
  BY <1>1, <1>2 DEF Through
<1>4. \A j \in 1..n : x[j].from \in Nat /\ x[j].to \in Nat
  <2>1. \A j \in 1..n : x[j] \in LinksOn(L)
    BY <1>1
  <2> QED BY <2>1 DEF LinksOn, Positive
<1>5. CASE i = n
  BY <1>2, <1>3, <1>5
<1>6. CASE i < n
  <2>1. x[i].to < x[n].from /\ x[n].from <= x[n].to
    BY <1>1, <1>3, <1>6 DEF Ascending, Proper
  <2> QED BY <1>2, <1>3, <1>4, <2>1
<1> QED BY <1>2, <1>3, <1>5, <1>6

\* A process opens on what is on disk.
LEMMA BootKeeps ==
  ASSUME IInv, NEW outcome \in {"resumed", "seamed"}, Boot(outcome)
  PROVE  IInv'
<1>1. Types /\ Shape /\ Linked /\ Ascends /\ Ahead /\ Covers
  BY DEF IInv
<1> DEFINE past == {s \in record : chain # <<>> => s > Last(chain).to}
           from == Last(chain).to + 1
<1>2. /\ pc = "down"
      /\ next' = HeadOf(record) + IF outcome = "seamed" THEN 1 + SequenceLease ELSE 1
      /\ hosted' = TRUE
      /\ seamed' = (outcome = "seamed")
      /\ UNCHANGED <<record, published, writing, journaled, chain, journals, crashed, rolled, failed>>
  BY DEF Boot, files
<1>3. IF chain # <<>> /\ from \in record
      THEN pc' = "fold" /\ pub' = Continued(Last(chain)) /\ runs' = past /\ UNCHANGED unreached
      ELSE /\ pc' = "up" /\ pub' = (IF chain = <<>> THEN Fresh ELSE Seam(Continued(Last(chain))))
           /\ runs' = {} /\ unreached' = unreached \cup past
  BY DEF Boot
<1>4. /\ pub = Fresh /\ writing = <<>> /\ record \subseteq 1..MaxSequence /\ past \subseteq record
      /\ (outcome = "seamed") \in BOOLEAN
  BY <1>1, <1>2 DEF Shape, Types
<1> HIDE DEF past, from
<1>5. PICK S : pub \in Pubs(S) /\ chain \in Seq(LinksOn(S)) /\ writing \in Seq(LinksOn(S))
  BY <1>1, HeldNow
<1>6. All = chain /\ All' = chain
  BY <1>2, <1>4, <1>5 DEF All
<1>7. Through(chain) \in Nat
  BY <1>5, ThroughIs
<1>8. chain # <<>> => past = {s \in record : s > Through(chain)} /\ from = Through(chain) + 1
  BY DEF past, from, Last, Through
<1>9. chain = <<>> => past = record
  BY DEF past
<1>10. /\ \E L : S \subseteq L /\ pub' \in Pubs(L)
       /\ pub'.open = <<>>
       /\ pc' = "up" => pub'.next = 0
       /\ pub'.next = 0 => pub'.open = <<>>
       /\ GoesOn(pub', chain)
  <2>1. CASE chain = <<>>
    <3>1. pub' = Fresh
      BY <1>3, <2>1
    <3>2. S \subseteq S \cup {NoRoot} /\ Fresh \in Pubs(S \cup {NoRoot})
      BY FreshHeld
    <3> QED BY <3>1, <3>2, FreshIs DEF GoesOn
  <2>2. CASE chain # <<>>
    <3>1. PICK p : p = Continued(Last(chain))
      OBVIOUS
    <3>2. /\ \E L : S \subseteq L /\ p \in Pubs(L)
          /\ p.open = <<>> /\ p.next = Through(chain) + 1 /\ Last(chain).to = Through(chain) /\ p.next # 0
          /\ Through(chain) \in Nat /\ GoesOn(p, chain)
      BY <1>5, <2>2, <3>1, Continuing
    <3>3. CASE from \in record
      <4>1. pub' = p /\ pc' = "fold"
        BY <1>3, <2>2, <3>1, <3>3
      <4> QED BY <3>2, <4>1
    <3>4. CASE from \notin record
      <4>1. pub' = Seam(p) /\ pc' = "up"
        BY <1>3, <2>2, <3>1, <3>4
      <4>2. PICK L : S \subseteq L /\ p \in Pubs(L)
        BY <3>2
      <4>3. PICK c : c = Seam(p)
        OBVIOUS
      <4>4. /\ c \in Pubs(L \cup {NoRoot}) /\ c.open = <<>> /\ c.next = 0
            /\ \A M, links : links \in Seq(LinksOn(M)) /\ GoesOn(p, links) => GoesOn(c, links)
        BY <3>2, <4>2, <4>3, SeamIs
      <4>5. S \subseteq L \cup {NoRoot}
        BY <4>2
      <4> QED BY <1>5, <3>2, <4>1, <4>3, <4>4, <4>5
    <3> QED BY <3>3, <3>4
  <2> QED BY <2>1, <2>2
<1>11. /\ HeadOf(record) \in Nat /\ (\A s \in record : s <= HeadOf(record))
       /\ record # {} => HeadOf(record) \in record
  BY <1>4, ConstantsAre, HeadFacts
<1>12. /\ next' \in Positive /\ next' > HeadOf(record)
       /\ ~seamed' => next' = HeadOf(record) + 1
  <2>1. PICK h \in Nat : h = HeadOf(record)
    BY <1>11
  <2>2. SequenceLease \in Nat
    BY ConstantsAre DEF Positive
  <2>3. CASE outcome = "seamed"
    <3>1. next' = h + (1 + SequenceLease) /\ seamed'
      BY <1>2, <2>1, <2>3
    <3> QED BY <2>1, <2>2, <3>1 DEF Positive
  <2>4. CASE outcome # "seamed"
    <3>1. next' = h + 1
      BY <1>2, <2>1, <2>4
    <3> QED BY <2>1, <3>1 DEF Positive
  <2> QED BY <2>3, <2>4
<1>13. Types'
  <2>1. (\E L : Held(L))'
    <3>1. PICK L : S \subseteq L /\ pub' \in Pubs(L)
      BY <1>10
    <3>2. chain' \in Seq(LinksOn(L)) /\ writing' \in Seq(LinksOn(L))
      BY <1>2, <1>5, <3>1, Wider
    <3> QED BY <3>1, <3>2 DEF Held
  <2>2. runs' \in SUBSET (1..MaxSequence) /\ pc' \in {"fold", "up"}
    BY <1>3, <1>4
  <2>3. seamed' \in BOOLEAN /\ hosted' \in BOOLEAN /\ next' \in Positive
    BY <1>2, <1>4, <1>12
  <2> QED BY <1>1, <1>2, <2>1, <2>2, <2>3 DEF Types
<1>14. Shape'
  <2>1. IsRun(pub.open)'
    BY <1>10 DEF IsRun
  <2>2. /\ Proper(All)' /\ journaled' = FALSE
        /\ (\A i \in 1..Len(chain) : <<chain[i].from, chain[i].to>> \in journals)'
    BY <1>1, <1>2, <1>4, <1>6, Idle DEF Shape
  <2>3. pc' \in {"fold", "up"} /\ (pc' = "up" => runs' = {})
    BY <1>3
  <2> QED BY <1>10, <2>1, <2>2, <2>3 DEF Shape
<1>15. Linked'
  BY <1>1, <1>2, <1>6, <1>10 DEF Linked, Goes
<1>16. Edge(pub, All)' = Through(chain) /\ Edge(pub, All) = Through(chain)
  BY <1>4, <1>6, <1>10, FreshIs DEF Edge
<1>17. runs' \subseteq record /\ \A s \in runs' : s > Through(chain)
  BY <1>3, <1>4, <1>8
<1>18. Ascends'
  <2>1. CASE rolled
    BY <1>2, <2>1 DEF Ascends
  <2>2. CASE ~rolled
    <3>1. Behind /\ Edge(pub, All) <= HeadOf(record)
      BY <1>1, <2>2 DEF Ascends
    <3>2. Behind'
      BY <1>6, <1>10, <3>1 DEF Behind, Past
    <3>3. \A s \in runs' : Through(chain) < s
      <4>1. ASSUME NEW s \in runs' PROVE Through(chain) < s
        <5>1. s \in Nat /\ s > Through(chain)
          BY <1>4, <1>17
        <5> QED BY <1>7, <5>1
      <4> QED BY <4>1
    <3> QED BY <1>2, <1>16, <1>17, <3>1, <3>2, <3>3 DEF Ascends
  <2> QED BY <2>1, <2>2
<1>19. Ahead'
  BY <1>2, <1>12 DEF Ahead
<1>20. Covers'
  <2>1. CASE rolled \/ failed
    BY <1>2, <2>1 DEF Covers
  <2>2. CASE ~rolled /\ ~failed
    <3>1. /\ record = published
          /\ \A s \in record : s <= Through(chain) => s \in CoveredBy(chain) \cup unreached
          /\ ~crashed => unreached = {} /\ record \subseteq CoveredBy(chain)
      BY <1>1, <1>2, <2>2 DEF Covers
    <3>2. record' \subseteq CoveredBy(All)' \cup OpenTicks(pub)' \cup unreached' \cup runs'
      <4>1. ASSUME NEW s \in record PROVE s \in CoveredBy(chain) \cup unreached' \cup runs'
        <5>1. CASE s \in past
          BY <1>3, <5>1
        <5>2. CASE s \notin past
          <6>1. chain # <<>> /\ ~(s > Through(chain))
            BY <1>8, <1>9, <5>2
          <6>2. s \in Nat /\ s <= Through(chain)
            BY <1>4, <1>7, <6>1
          <6>3. s \in CoveredBy(chain) \cup unreached
            BY <3>1, <6>2
          <6>4. unreached \subseteq unreached'
            BY <1>3
          <6> QED BY <6>3, <6>4
        <5> QED BY <5>1, <5>2
      <4> QED BY <1>2, <1>6, <4>1
    <3>3. ASSUME ~crashed PROVE past = {}
      <4>1. Behind
        BY <1>1, <2>2 DEF Ascends
      <4>2. Proper(chain) /\ Ascending(chain)
        BY <1>1, <1>6, <4>1 DEF Shape, Behind
      <4>3. ASSUME NEW s \in record PROVE chain # <<>> /\ s <= Through(chain) /\ s \in Nat
        <5>1. s \in CoveredBy(chain)
          BY <3>1, <3>3
        <5> QED BY <1>5, <4>2, <5>1, CoveredThrough
      <4>4. \A s \in past : s \in record /\ s > Through(chain)
        BY <1>4, <1>8, <1>9, <4>3
      <4> QED BY <1>7, <4>3, <4>4
    <3>4. ASSUME chain # <<>>, from \in record PROVE from \in past
      <4>1. from > Through(chain)
        BY <1>7, <1>8, <3>4
      <4> QED BY <1>8, <3>4, <4>1
    <3>5. ASSUME ~crashed PROVE unreached' = {} /\ runs' = {}
      BY <1>3, <3>1, <3>3, <3>5
    <3>6. pc' = "fold" => runs' # {}
      BY <1>3, <3>4
    <3>7. ASSUME runs' # {} PROVE HeadOf(record) \in runs'
      <4>1. chain # <<>> /\ from \in record /\ runs' = past
        BY <1>3, <3>7
      <4>2. HeadOf(record) \in record /\ from <= HeadOf(record) /\ from = Through(chain) + 1
        BY <1>8, <1>11, <4>1
      <4>3. HeadOf(record) > Through(chain)
        BY <1>7, <1>11, <4>2
      <4> QED BY <1>8, <4>1, <4>2, <4>3
    <3>8. pc' = "up" => Expects(pub, next)'
      BY <1>10 DEF Expects
    <3>9. pc' \in {"up", "fold"}
      BY <1>3
    <3> QED BY <1>2, <1>12, <3>1, <3>2, <3>5, <3>6, <3>7, <3>8, <3>9 DEF Covers
  <2> QED BY <2>1, <2>2
<1> QED BY <1>13, <1>14, <1>15, <1>18, <1>19, <1>20 DEF IInv

\* A journal or a line is written.
LEMMA WriteKeeps ==
  ASSUME IInv, Write
  PROVE  IInv'
<1>1. Types /\ Shape /\ Linked /\ Ascends /\ Ahead /\ Covers
  BY DEF IInv
<1>2. /\ writing # <<>>
      /\ UNCHANGED <<record, next, hosted, published, pc, pub, runs, seamed>>
      /\ UNCHANGED <<unreached, crashed, rolled, failed>>
      /\ journaled' = ~journaled
  BY DEF Write, market, history
<1>3. /\ (\E S : Held(S))'
      /\ All' = All /\ pub' = pub
      /\ (\A i \in 1..Len(chain) : <<chain[i].from, chain[i].to>> \in journals)'
      /\ (journaled => writing # <<>> /\ <<writing[1].from, writing[1].to>> \in journals)'
  BY <1>1, Writing
<1>4. pc # "down"
  BY <1>1, <1>2 DEF Shape
<1>5. Types'
  BY <1>1, <1>2, <1>3 DEF Types
<1>6. Shape'
  BY <1>1, <1>2, <1>3, <1>4 DEF Shape
<1>7. Linked'
  BY <1>1, <1>2, <1>3 DEF Linked, Goes
<1>8. Ascends'
  BY <1>1, <1>2, <1>3 DEF Ascends, Behind, Past, Edge
<1>9. Ahead'
  BY <1>1, <1>2 DEF Ahead
<1>10. Covers'
  <2>1. CASE rolled \/ failed
    BY <1>2, <2>1 DEF Covers
  <2>2. CASE ~rolled /\ ~failed
    <3>1. /\ record = published
          /\ record \subseteq CoveredBy(All) \cup OpenTicks(pub) \cup unreached \cup runs
          /\ ~crashed => unreached = {} /\ runs = {}
          /\ ~seamed /\ (pc = "fold" \/ runs # {}) =>
               /\ next = HeadOf(record) + 1
               /\ runs # {} => HeadOf(record) \in runs
          /\ hosted /\ (pc = "up" \/ (pc = "fold" /\ runs = {} /\ ~seamed)) => Expects(pub, next)
      BY <1>1, <1>4, <2>2 DEF Covers
    <3>2. CoveredBy(All)' = CoveredBy(All) /\ OpenTicks(pub)' = OpenTicks(pub) /\ Expects(pub, next)' = Expects(pub, next)
      BY <1>2, <1>3
    <3> QED BY <1>2, <1>4, <3>1, <3>2 DEF Covers
  <2> QED BY <2>1, <2>2
<1> QED BY <1>5, <1>6, <1>7, <1>8, <1>9, <1>10 DEF IInv

\* A process that is gone leaves what is on disk.
LEMMA GoneKeeps ==
  ASSUME IInv, Gone, pc # "down",
         UNCHANGED <<record, next, published, chain, journals, unreached, rolled>>,
         hosted' \in BOOLEAN, crashed' \in BOOLEAN, failed' \in BOOLEAN, crashed => crashed', failed => failed',
         crashed' \/ failed' \/ (pc = "stop" /\ writing = <<>>)
  PROVE  IInv'
<1>1. Types /\ Shape /\ Linked /\ Ascends /\ Ahead /\ Covers
  BY DEF IInv
<1>2. /\ pc' = "down" /\ pub' = Fresh /\ writing' = <<>> /\ journaled' = FALSE /\ runs' = {} /\ seamed' = FALSE
      /\ chain' = chain
  BY DEF Gone
<1>3. /\ (\E S : Held(S))'
      /\ IsRun(pub.open)' /\ Proper(All)' /\ All' = chain /\ (pub'.next = 0 => pub'.open = <<>>)
      /\ Behind => Behind' /\ Edge(pub, All)' <= Edge(pub, All)
      /\ Goes /\ pub' = Fresh => Goes'
      /\ Behind => \A s \in CoveredBy(All) \cup OpenTicks(pub) : s <= Through(chain) => s \in CoveredBy(chain)
  BY <1>1, <1>2, Dropping
<1>4. Types'
  <2>1. runs' \in SUBSET (1..MaxSequence) /\ seamed' \in BOOLEAN /\ journaled' \in BOOLEAN
    BY <1>2
  <2> QED BY <1>1, <1>2, <1>3, <2>1 DEF Types
<1>5. Shape'
  <2>1. (\A i \in 1..Len(chain) : <<chain[i].from, chain[i].to>> \in journals)'
    BY <1>1 DEF Shape
  <2> QED BY <1>2, <1>3, <2>1 DEF Shape
<1>6. Linked'
  BY <1>1, <1>2, <1>3 DEF Linked
<1>7. Edge(pub, All)' = Through(chain) /\ Through(chain) \in Nat /\ Edge(pub, All) \in Nat
  <2>1. PICK S : chain \in Seq(LinksOn(S))
    BY <1>1, HeldNow
  <2>2. Edge(pub, All)' = Through(chain)
    BY <1>2, <1>3, FreshIs DEF Edge
  <2> QED BY <1>1, <2>1, <2>2, ThroughIs, EdgeIs
<1>8. HeadOf(record) \in Nat
  <2>1. record \subseteq 1..MaxSequence
    BY <1>1 DEF Types
  <2> QED BY <2>1, ConstantsAre, HeadFacts
<1>9. Ascends'
  <2>1. CASE rolled
    BY <2>1 DEF Ascends
  <2>2. CASE ~rolled
    <3>1. Behind /\ Edge(pub, All) <= HeadOf(record)
      BY <1>1, <2>2 DEF Ascends
    <3>2. Behind' /\ Edge(pub, All)' <= HeadOf(record)
      BY <1>3, <1>7, <1>8, <3>1
    <3> QED BY <1>2, <3>2 DEF Ascends
  <2> QED BY <2>1, <2>2
<1>10. Ahead'
  BY <1>2 DEF Ahead
<1>11. Covers'
  <2>1. CASE rolled \/ failed'
    BY <2>1 DEF Covers
  <2>2. CASE ~rolled /\ ~failed'
    <3>1. /\ record = published
          /\ record \subseteq CoveredBy(All) \cup OpenTicks(pub) \cup unreached \cup runs
          /\ ~crashed => unreached = {} /\ runs = {}
      BY <1>1, <2>2 DEF Covers
    <3>2. Behind /\ \A s \in runs : Edge(pub, All) < s
      BY <1>1, <2>2 DEF Ascends
    <3>3. ASSUME NEW s \in record, s <= Through(chain) PROVE s \in CoveredBy(chain) \cup unreached
      <4>1. s \in Nat
        BY <1>1 DEF Types
      <4>2. s \notin runs
        BY <1>3, <1>7, <3>2, <3>3, <4>1
      <4> QED BY <1>3, <3>1, <3>2, <3>3, <4>2
    <3>4. ASSUME ~crashed' PROVE unreached = {} /\ record \subseteq CoveredBy(chain)
      <4>1. ~crashed /\ pc = "stop" /\ writing = <<>>
        BY <2>2, <3>4
      <4>2. PICK S : chain \in Seq(LinksOn(S))
        BY <1>1, HeldNow
      <4>3. All = chain /\ pub.open = <<>>
        BY <1>1, <4>1, <4>2, AllIsChain DEF Shape
      <4>4. OpenTicks(pub) = {}
        BY <4>3 DEF OpenTicks
      <4> QED BY <3>1, <4>1, <4>3, <4>4
    <3> QED BY <1>2, <3>1, <3>3, <3>4 DEF Covers
  <2> QED BY <2>1, <2>2
<1> QED BY <1>4, <1>5, <1>6, <1>9, <1>10, <1>11 DEF IInv

\* A write fails.
LEMMA WriteFailsKeeps ==
  ASSUME IInv, WriteFails
  PROVE  IInv'
<1>1. Types /\ Shape /\ Linked /\ Ascends /\ Ahead /\ Covers
  BY DEF IInv
<1>2. /\ writing # <<>> /\ failed' = TRUE
      /\ UNCHANGED <<record, next, published, chain, journals, unreached, crashed, rolled>>
      /\ IF pc \in {"fold", "jump"}
         THEN Gone /\ UNCHANGED hosted
         ELSE /\ hosted' = (hosted /\ pc # "up")
              /\ writing' = <<>> /\ journaled' = FALSE
              /\ UNCHANGED <<pc, pub, runs, seamed>>
  BY DEF WriteFails, files
<1>3. CASE pc \in {"fold", "jump"}
  <2>1. /\ hosted' \in BOOLEAN /\ crashed' \in BOOLEAN /\ failed' \in BOOLEAN /\ (crashed => crashed') /\ failed'
        /\ Gone /\ pc # "down"
    BY <1>1, <1>2, <1>3 DEF Types
  <2> QED BY <1>2, <2>1, GoneKeeps
<1>4. CASE pc \notin {"fold", "jump"}
  <2>1. /\ hosted' = (hosted /\ pc # "up") /\ writing' = <<>> /\ journaled' = FALSE
        /\ UNCHANGED <<pc, pub, runs, seamed>>
    BY <1>2, <1>4
  <2>2. /\ (\E S : Held(S))'
        /\ IsRun(pub.open)' /\ Proper(All)' /\ All' = chain /\ (pub'.next = 0 => pub'.open = <<>>)
        /\ Behind => Behind' /\ Edge(pub, All)' <= Edge(pub, All)
    BY <1>1, <1>2, <2>1, Dropping
  <2>3. pc # "down"
    BY <1>1, <1>2 DEF Shape
  <2>4. Types'
    <3>1. hosted' \in BOOLEAN /\ failed' \in BOOLEAN /\ journaled' \in BOOLEAN
      BY <1>1, <1>2, <2>1 DEF Types
    <3> QED BY <1>1, <1>2, <2>1, <2>2, <3>1 DEF Types
  <2>5. Shape'
    <3>1. (\A i \in 1..Len(chain) : <<chain[i].from, chain[i].to>> \in journals)'
      BY <1>1, <1>2 DEF Shape
    <3>2. pc \in {"bind", "stop"} => pub.open = <<>>
      BY <1>1 DEF Shape
    <3>3. pc \notin {"fold", "jump", "bind"} => runs = {}
      BY <1>1 DEF Shape
    <3> QED BY <2>1, <2>2, <2>3, <3>1, <3>2, <3>3 DEF Shape
  <2>6. Linked' /\ Covers'
    BY <1>2 DEF Linked, Covers
  <2>7. Ahead'
    BY <1>1, <1>2, <2>1 DEF Ahead
  <2>8. Ascends'
    <3>1. CASE rolled
      BY <1>2, <3>1 DEF Ascends
    <3>2. CASE ~rolled
      <4>1. Behind /\ Edge(pub, All) <= HeadOf(record) /\ runs \subseteq record /\ \A s \in runs : Edge(pub, All) < s
        BY <1>1, <3>2 DEF Ascends
      <4>2. Edge(pub, All) \in Nat /\ HeadOf(record) \in Nat /\ record \subseteq 1..MaxSequence
        <5>1. record \subseteq 1..MaxSequence
          BY <1>1 DEF Types
        <5> QED BY <1>1, <5>1, ConstantsAre, HeadFacts, EdgeIs
      <4>3. Edge(pub, All)' \in Nat
        <5>1. PICK S : pub \in Pubs(S) /\ chain \in Seq(LinksOn(S))
          BY <1>1, HeldNow
        <5>2. pub' \in Pubs(S) /\ All' \in Seq(LinksOn(S))
          BY <2>1, <2>2, <5>1
        <5>3. Edge(pub', All') \in Nat
          BY <5>2, EdgeOf
        <5> QED BY <5>3 DEF Edge
      <4>4. (Edge(pub, All) <= HeadOf(record))' /\ \A s \in runs : Edge(pub, All)' < s
        BY <1>2, <2>2, <4>1, <4>2, <4>3
      <4> QED BY <1>2, <2>1, <2>2, <4>1, <4>4 DEF Ascends
    <3> QED BY <3>1, <3>2
  <2> QED BY <2>4, <2>5, <2>6, <2>7, <2>8 DEF IInv
<1> QED BY <1>3, <1>4

\* A process ends or is killed.
LEMMA DepartureKeeps ==
  ASSUME IInv, Exit \/ Kill \/ KillMidLine
  PROVE  IInv'
<1>1. Types /\ Shape
  BY DEF IInv
<1>2. crashed \in BOOLEAN /\ failed \in BOOLEAN /\ hosted \in BOOLEAN
  BY <1>1 DEF Types
<1>3. /\ Gone /\ pc # "down"
      /\ UNCHANGED <<record, next, published, chain, journals, unreached, rolled, hosted, failed>>
      /\ (crashed' = TRUE \/ (crashed' = crashed /\ pc = "stop" /\ writing = <<>>))
  <2>1. CASE Exit
    BY <2>1 DEF Exit, market, files, history
  <2>2. CASE Kill
    BY <2>2 DEF Kill, market, files
  <2>3. CASE KillMidLine
    <3>1. pc # "down"
      BY <1>1, <2>3 DEF KillMidLine, Shape
    <3> QED BY <2>3, <3>1 DEF KillMidLine, market
  <2> QED BY <2>1, <2>2, <2>3
<1>4. /\ hosted' \in BOOLEAN /\ crashed' \in BOOLEAN /\ failed' \in BOOLEAN
      /\ (crashed => crashed') /\ (failed => failed')
      /\ (crashed' \/ failed' \/ (pc = "stop" /\ writing = <<>>))
  <2>1. hosted' = hosted /\ failed' = failed
    BY <1>3
  <2>2. CASE crashed' = TRUE
    BY <1>2, <2>1, <2>2
  <2>3. CASE crashed' = crashed /\ pc = "stop" /\ writing = <<>>
    BY <1>2, <2>1, <2>3
  <2> QED BY <1>3, <2>2, <2>3
<1>5. Gone /\ pc # "down" /\ UNCHANGED <<record, next, published, chain, journals, unreached, rolled>>
  BY <1>3
<1> QED BY <1>4, <1>5, GoneKeeps

\* An operator restores the record, beside the chain.
LEMMA RollbackKeeps ==
  ASSUME IInv, Rollback
  PROVE  IInv'
<1>1. Types /\ Shape /\ Linked
  BY DEF IInv
<1>2. /\ pc = "down" /\ rolled' = TRUE /\ record' \subseteq record
      /\ UNCHANGED <<next, hosted, published, pc, pub, writing, journaled, runs, seamed, chain, journals>>
      /\ UNCHANGED <<unreached, crashed, failed>>
  BY DEF Rollback, process, files
<1>3. All' = All
  BY <1>2 DEF All
<1>4. Types'
  <2>1. (\E S : Held(S))'
    BY <1>1, <1>2 DEF Types, Held
  <2>2. record' \in SUBSET (1..MaxSequence)
    BY <1>1, <1>2 DEF Types
  <2> QED BY <1>1, <1>2, <2>1, <2>2 DEF Types
<1>5. Shape' /\ Linked'
  BY <1>1, <1>2, <1>3 DEF Shape, Linked, Goes
<1>6. Ascends' /\ Covers' /\ Ahead'
  BY <1>2 DEF Ascends, Covers, Ahead
<1> QED BY <1>4, <1>5, <1>6 DEF IInv

\* A process serves and records without a publication.
LEMMA UnpublishedKeeps ==
  ASSUME IInv, NEW outcome \in {"resumed", "seamed"}, NEW n \in 1..MaxBatch, RunUnpublished(outcome, n)
  PROVE  IInv'
<1>1. Types /\ Shape /\ Linked /\ Ascends /\ Ahead /\ Covers
  BY DEF IInv
<1>2. PICK a : a = HeadOf(record) + IF outcome = "seamed" THEN 1 + SequenceLease ELSE 1
  OBVIOUS
<1>3. record \subseteq 1..MaxSequence
  BY <1>1 DEF Types
<1>4. HeadOf(record) \in Nat /\ a \in Nat /\ HeadOf(record) < a /\ n \in Nat /\ n > 0
  <2>1. HeadOf(record) \in Nat
    BY <1>3, ConstantsAre, HeadFacts
  <2> QED BY <1>2, <2>1, ConstantsAre DEF Positive
<1>5. PICK b \in Nat : b = a + n - 1 /\ a <= b
  BY <1>4
<1>6. /\ pc = "down" /\ b <= MaxSequence /\ record' = record \cup a..b /\ published' = published \cup a..b
      /\ crashed' = TRUE
      /\ UNCHANGED <<next, hosted, pc, pub, writing, journaled, runs, seamed, chain, journals>>
      /\ UNCHANGED <<unreached, rolled, failed>>
  BY <1>2, <1>5 DEF RunUnpublished, process, files
<1>7. /\ record' \subseteq 1..MaxSequence /\ HeadOf(record') = b
      /\ \A s \in record : s <= HeadOf(record)
  <2>1. /\ record \cup a..b \subseteq 1..MaxSequence /\ HeadOf(record \cup a..b) = b
        /\ HeadOf(record) \in Nat /\ \A s \in record : s <= HeadOf(record)
    <3>1. a \in Nat /\ b \in Nat /\ record \subseteq 1..MaxSequence /\ HeadOf(record) < a /\ a <= b /\ b <= MaxSequence
      BY <1>3, <1>4, <1>5, <1>6
    <3> QED BY <3>1, HeadGrows
  <2> QED BY <1>6, <2>1
<1>8. All' = All
  BY <1>6 DEF All
<1>9. Types'
  <2>1. (\E S : Held(S))'
    BY <1>1, <1>6 DEF Types, Held
  <2> QED BY <1>1, <1>6, <1>7, <2>1 DEF Types
<1>10. Shape' /\ Linked' /\ Ahead'
  BY <1>1, <1>6, <1>8 DEF Shape, Linked, Goes, Ahead
<1>11. runs = {} /\ pub = Fresh /\ writing = <<>>
  BY <1>1, <1>6 DEF Shape
<1>12. Edge(pub, All)' = Edge(pub, All) /\ Edge(pub, All) \in Nat /\ Edge(pub, All) = Through(chain)
  <2>1. PICK S : chain \in Seq(LinksOn(S))
    BY <1>1, HeldNow
  <2>2. All = chain
    BY <1>11, <2>1, AllIsChain
  <2>3. Edge(pub, All) = Through(chain)
    BY <1>11, <2>2, FreshIs DEF Edge
  <2> QED BY <1>1, <1>6, <1>8, <2>3, EdgeIs
<1>13. ASSUME ~rolled PROVE Behind /\ Edge(pub, All) <= HeadOf(record)
  BY <1>1, <1>13 DEF Ascends
<1>14. Ascends'
  <2>1. CASE rolled
    BY <1>6, <2>1 DEF Ascends
  <2>2. CASE ~rolled
    <3>1. Behind' /\ (Edge(pub, All) <= HeadOf(record))'
      BY <1>4, <1>5, <1>6, <1>7, <1>8, <1>12, <1>13, <2>2 DEF Behind, Past
    <3> QED BY <1>6, <1>11, <3>1 DEF Ascends
  <2> QED BY <2>1, <2>2
<1>15. Covers'
  <2>1. CASE rolled \/ failed
    BY <1>6, <2>1 DEF Covers
  <2>2. CASE ~rolled /\ ~failed
    <3>1. record = published /\ \A s \in record : s <= Through(chain) => s \in CoveredBy(chain) \cup unreached
      BY <1>1, <1>6, <2>2 DEF Covers
    <3>2. ASSUME NEW s \in record', s <= Through(chain) PROVE s \in CoveredBy(chain) \cup unreached
      <4>1. CASE s \in record
        BY <3>1, <3>2, <4>1
      <4>2. CASE s \in a..b
        BY <1>4, <1>12, <1>13, <2>2, <3>2, <4>2
      <4> QED BY <1>6, <4>1, <4>2
    <3> QED BY <1>6, <1>11, <3>1, <3>2 DEF Covers
  <2> QED BY <2>1, <2>2
<1> QED BY <1>9, <1>10, <1>14, <1>15 DEF IInv

\* What the invariant does not read may change.
LEMMA StutterKeeps ==
  ASSUME IInv, UNCHANGED <<record, next, hosted, published, pc, pub, writing, journaled, runs, seamed, chain, journals>>,
         UNCHANGED <<unreached, crashed, rolled, failed>>
  PROVE  IInv'
<1>1. Types /\ Shape /\ Linked /\ Ascends /\ Ahead /\ Covers
  BY DEF IInv
<1>2. All' = All
  BY DEF All
<1>3. Types'
  <2>1. (\E S : Held(S))'
    BY <1>1 DEF Types, Held
  <2> QED BY <1>1, <2>1 DEF Types
<1>4. Shape' /\ Linked' /\ Ahead'
  BY <1>1, <1>2 DEF Shape, Linked, Goes, Ahead
<1>5. Ascends'
  BY <1>1, <1>2 DEF Ascends, Behind, Past, Edge
<1>6. CoveredBy(All)' = CoveredBy(All) /\ OpenTicks(pub)' = OpenTicks(pub) /\ Expects(pub, next)' = Expects(pub, next)
  BY <1>2
<1>7. Covers'
  BY <1>1, <1>6 DEF Covers
<1> QED BY <1>3, <1>4, <1>5, <1>7 DEF IInv

-----------------------------------------------------------------------------
(* The theorems *)

\* Every step keeps the invariant.
LEMMA Keeps ==
  ASSUME IInv, [Next]_vars
  PROVE  IInv'
<1>1. ASSUME NEW outcome \in {"resumed", "seamed"}, Boot(outcome) PROVE IInv'
  BY <1>1, BootKeeps
<1>2. ASSUME NEW outcome \in {"resumed", "seamed"}, NEW n \in 1..MaxBatch, RunUnpublished(outcome, n) PROVE IInv'
  BY <1>2, UnpublishedKeeps
<1>3. CASE Fold
  BY <1>3, FoldKeeps, FoldedKeeps
<1>4. CASE Jump
  BY <1>4, JumpKeeps
<1>5. CASE Bind
  BY <1>5, BindKeeps
<1>6. ASSUME NEW n \in 1..MaxBatch, Pass(n) PROVE IInv'
  BY <1>6, PassKeeps
<1>7. CASE Reopen
  BY <1>7, ReopenKeeps
<1>8. CASE Stop
  BY <1>8, StopKeeps
<1>9. CASE Exit \/ Kill \/ KillMidLine
  BY <1>9, DepartureKeeps
<1>10. CASE Write
  BY <1>10, WriteKeeps
<1>11. CASE WriteFails
  BY <1>11, WriteFailsKeeps
<1>12. CASE Truncate
  BY <1>12, StutterKeeps DEF Truncate, market, process, history
<1>13. CASE Rollback
  BY <1>13, RollbackKeeps
<1>14. CASE UNCHANGED vars
  BY <1>14, StutterKeeps DEF vars, market, process, files, history
<1> QED BY <1>1, <1>2, <1>3, <1>4, <1>5, <1>6, <1>7, <1>8, <1>9, <1>10, <1>11, <1>12, <1>13, <1>14 DEF Next

\* The inductive invariant holds throughout.
THEOREM Inductive == Spec => []IInv
<1>1. Init => IInv
  BY AtStart
<1>2. IInv /\ [Next]_vars => IInv'
  BY Keeps
<1> QED BY <1>1, <1>2, PTL DEF Spec

\* Whatever processes were killed in, restarted, seamed and sealed, a verifier
\* accepts the chain on disk.
THEOREM Verified == Spec => []ChainVerifies
<1>1. IInv => ChainVerifies
  <2>1. SUFFICES ASSUME IInv, ~failed PROVE Verifies(chain)
    BY DEF ChainVerifies
  <2>2. PICK S : chain \in Seq(LinksOn(S)) /\ writing \in Seq(LinksOn(S))
    BY <2>1, HeldNow DEF IInv
  <2>3. Proper(chain \o writing) /\ Verifies(chain \o writing)
    BY <2>1 DEF IInv, Shape, Linked, Goes, All
  <2> QED BY <2>2, <2>3, PrefixIs
<1> QED BY <1>1, Inductive, PTL

\* A committed sequence is proved from the archive at every moment.
THEOREM Proved == Spec => []CommittedIsProved
<1>1. IInv => CommittedIsProved
  <2>1. SUFFICES ASSUME IInv, ~rolled, NEW s \in Committed PROVE Proof(s) = "proved"
    BY DEF CommittedIsProved
  <2>2. PICK S, n : chain \in Seq(LinksOn(S)) /\ writing \in Seq(LinksOn(S)) /\ n = Len(chain)
    BY <2>1, HeldNow DEF IInv
  <2>3. Proper(chain) /\ Ascending(chain)
    <3>1. Proper(chain \o writing) /\ Ascending(chain \o writing)
      BY <2>1 DEF IInv, Shape, Ascends, Behind, All
    <3> QED BY <2>2, <3>1, PrefixIs
  <2>4. n \in Nat /\ DOMAIN chain = 1..n /\ \A j \in 1..n : chain[j].from \in Nat /\ chain[j].to \in Nat
    <3>1. n \in Nat /\ DOMAIN chain = 1..n /\ \A j \in 1..n : chain[j] \in LinksOn(S)
      BY <2>2
    <3> QED BY <3>1 DEF LinksOn, Positive
  <2>5. PICK i \in 1..n : s \in chain[i].from..chain[i].to
    BY <2>4 DEF Committed
  <2>6. s \in Int /\ chain[i].from <= s /\ s <= chain[i].to
    BY <2>4, <2>5
  <2> DEFINE reaching == {j \in DOMAIN chain : s <= chain[j].to}
  <2>7. i \in reaching /\ reaching \subseteq Nat /\ reaching \subseteq 1..n
    BY <2>4, <2>6
  <2>8. PICK m : m = Min(reaching) /\ m \in reaching /\ m <= i
    <3> HIDE DEF reaching
    <3> QED BY <2>7, MinFacts
  <2>9. m = i
    <3>1. SUFFICES ASSUME m # i PROVE FALSE
      OBVIOUS
    <3>2. m \in 1..n /\ m < i /\ s <= chain[m].to
      BY <2>7, <2>8, <3>1
    <3>3. chain[m].to < chain[i].from
      BY <2>2, <2>3, <3>2 DEF Ascending
    <3> QED BY <2>4, <2>6, <3>2, <3>3
  <2>10. <<chain[i].from, chain[i].to>> \in journals
    BY <2>1, <2>2 DEF IInv, Shape
  <2>11. reaching # {} /\ Min(reaching) = i /\ ~(s < chain[i].from)
    BY <2>4, <2>6, <2>7, <2>8, <2>9
  <2> QED BY <2>10, <2>11 DEF Proof
<1> QED BY <1>1, Inductive, PTL

\* No tick is left out of the chain, while no record is rolled back and no write
\* fails.
THEOREM Complete == Spec => []NothingIsAbandoned
<1>1. IInv => NothingIsAbandoned
  <2>1. SUFFICES ASSUME IInv, ~rolled, ~failed
                 PROVE  /\ ~crashed => published \subseteq Committed \cup Underway
                        /\ Quiet => record \subseteq Committed \cup Underway \cup unreached
    BY DEF NothingIsAbandoned
  <2>2. PICK S, m, n : /\ chain \in Seq(LinksOn(S)) /\ writing \in Seq(LinksOn(S)) /\ pub \in Pubs(S)
                       /\ m = Len(chain) /\ n = Len(writing)
    BY <2>1, HeldNow DEF IInv
  <2>3. /\ m \in Nat /\ n \in Nat /\ DOMAIN chain = 1..m /\ DOMAIN writing = 1..n
        /\ All \in Seq(LinksOn(S)) /\ Len(All) = m + n
        /\ (\A i \in 1..m : All[i] = chain[i]) /\ (\A i \in 1..n : All[m + i] = writing[i])
    BY <2>2 DEF All
  <2>4. ASSUME NEW s \in CoveredBy(All) PROVE s \in Committed \cup Underway
    <3>1. PICK i \in 1..(m + n) : All[i].from <= s /\ s <= All[i].to /\ s \in Nat
      BY <2>3 DEF CoveredBy
    <3>2. All[i].from \in Nat /\ All[i].to \in Nat
      <4>1. All[i] \in LinksOn(S)
        BY <2>3
      <4> QED BY <4>1 DEF LinksOn, Positive
    <3>3. s \in All[i].from..All[i].to
      BY <3>1, <3>2
    <3>4. CASE i \in 1..m
      BY <2>3, <3>3, <3>4 DEF Committed
    <3>5. CASE i > m
      <4>1. PICK j \in 1..n : i = m + j
        BY <2>3, <3>5, Parts
      <4> QED BY <2>3, <3>3, <4>1 DEF Underway
    <3> QED BY <2>3, <3>4, <3>5
  <2>5. OpenTicks(pub) \subseteq Underway
    <3>1. pub.open \in Seq(Positive)
      BY <2>2 DEF Pubs
    <3>2. OpenTicks(pub) \subseteq ToSet(pub.open)
      BY <3>1 DEF OpenTicks, ToSet
    <3>3. ToSet(pub.open) \subseteq Underway
      BY DEF Underway
    <3> QED BY <3>2, <3>3
  <2>6. /\ record = published
        /\ pc # "down" => record \subseteq CoveredBy(All) \cup OpenTicks(pub) \cup unreached \cup runs
        /\ ~crashed => unreached = {} /\ runs = {} /\ (pc = "down" => record \subseteq CoveredBy(chain))
    BY <2>1 DEF IInv, Covers
  <2>7. CoveredBy(chain) \subseteq Committed
    <3>1. ASSUME NEW s \in CoveredBy(chain) PROVE s \in Committed
      <4>1. PICK i \in 1..m : chain[i].from <= s /\ s <= chain[i].to /\ s \in Nat
        BY <2>2 DEF CoveredBy
      <4>2. chain[i] \in LinksOn(S)
        BY <2>2, <2>3
      <4>3. s \in chain[i].from..chain[i].to
        BY <4>1, <4>2 DEF LinksOn, Positive
      <4> QED BY <2>3, <4>3 DEF Committed
    <3> QED BY <3>1
  <2>8. ASSUME ~crashed PROVE published \subseteq Committed \cup Underway
    BY <2>4, <2>5, <2>6, <2>7, <2>8
  <2>9. ASSUME Quiet PROVE record \subseteq Committed \cup Underway \cup unreached
    <3>1. pc = "up" /\ runs = {}
      BY <2>1, <2>9 DEF Quiet, IInv, Shape
    <3> QED BY <2>4, <2>5, <2>6, <3>1
  <2> QED BY <2>8, <2>9
<1> QED BY <1>1, Inductive, PTL

=============================================================================
