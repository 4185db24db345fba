---------------------------- MODULE StreamProofs ----------------------------
(***************************************************************************)
(* What a broker hears of a market, for every number of clients, every     *)
(* window, socket and budget, and every order of passes, seams, restarts   *)
(* and lost connections: VenueIsNotAccused and NothingIsSkippedUntold are  *)
(* theorems.                                                               *)
(*                                                                         *)
(* Neither is inductive: what a client will make of the next tick depends  *)
(* on the frames still on the way to it.  So every queue of frames is      *)
(* numbered, p[i] being the tick due once i frames were read.  A tick in   *)
(* the queue is the one due there, a beat names a tick before it, a live   *)
(* connection ends where the venue will go on, and the first number is one *)
(* that the client takes: after what it was handed, with everything        *)
(* between told, or named by the gap that the queue begins with.           *)
(***************************************************************************)
EXTENDS Stream, TLAPS

-----------------------------------------------------------------------------
(* What the variables hold *)

MaybeTick == Nat \cup {None}

Frame == [kind : {"gap"}, requested : Nat, resumes : MaybeTick]
           \cup [kind : {"tick", "beat"}, sequence : Nat] \cup [kind : {"close"}]

Connection == [state : {"none", "live", "ended", "lost"}, frames : Seq(Frame), stop : BOOLEAN,
               given : MaybeTick, charge : Int]
Subscription == [state : {"idle", "connecting", "reading", "failed"}, from : MaybeTick,
                 delivered : MaybeTick, anywhere : BOOLEAN, budget : 0..MaxReconnects, calls : Int]
Account == [handed : MaybeTick, hole : SUBSET Nat, expects : MaybeTick, quoted : MaybeTick]

Types ==
  /\ record \in [head : Nat, base : Nat, next : Nat]
  /\ feed \in [from : Int, to : Nat, resumes : MaybeTick]
  /\ inForce \in [tick : MaybeTick, stalled : BOOLEAN]
  /\ conn \in [Clients -> Connection]
  /\ client \in [Clients -> Subscription]
  /\ heard \in [Clients -> Account]

-----------------------------------------------------------------------------
(* The venue *)

\* A record: its last run, empty at first, ends at its head, and it goes on past that.
RecordInv(r) ==
  /\ r \in [head : Nat, base : Nat, next : Nat]
  /\ r.base >= 1 /\ r.base <= r.head + 1 /\ r.head < r.next /\ r.head <= MaxSequence
  /\ r.head # 0 => r.base <= r.head

\* A window ends where the record does, and only while nothing was passed over;
\* a feed with no window says where the record goes on.
FeedInv(f, r) ==
  /\ Empty(f) => IF f.resumes = None THEN r.next = 1 ELSE f.resumes = r.next
  /\ ~Empty(f) => /\ f.to = r.head /\ r.next = r.head + 1 /\ f.resumes = None
                  /\ f.from \in r.base..f.to /\ f.to - f.from < Retain

VenueInv ==
  /\ RecordInv(record) /\ FeedInv(feed, record)
  /\ inForce.tick \in {None, record.head}

-----------------------------------------------------------------------------
(* A client *)

\* Everything from the tick last handed to the one before this was told.
Told(h, before) ==
  h.handed # None => h.handed < before /\ (h.handed + 1)..(before - 1) \subseteq h.hole

\* What a caller was handed and told is the record's.
HeardInv(h, r) ==
  /\ h.handed # None => h.handed <= r.head
  /\ h.quoted # None => h.quoted <= r.head
  /\ h.quoted # None /\ h.handed # None =>
       h.quoted >= h.handed /\ (h.handed + 1)..h.quoted \subseteq h.hole

\* What it asks for, or will after a drop: what follows the last tick handed, or
\* what follows a hole it was told of, where the gap says the stream resumes.
AsksInv(k, h, r) ==
  /\ k.delivered # None => k.delivered < r.next /\ Told(h, k.delivered + 1)
  /\ k.delivered = None /\ h.handed # None => k.from # None /\ Told(h, k.from)
  /\ h.expects # None => k.delivered # None /\ h.expects = k.delivered + 1

\* A client that takes this tick for the next one, and has been told of all
\* before it.
Follows(k, h, n) ==
  /\ k.delivered # None => k.delivered < n /\ (k.anywhere \/ n = k.delivered + 1)
  /\ h.expects # None => n = h.expects
  /\ h.handed # None => /\ h.handed < n
                        /\ \A s \in (h.handed + 1)..(n - 1) : s <= MaxSequence => s \in h.hole

\* The same once it has read the gap that comes first.
FollowsGap(k, h, gap, n) ==
  /\ k.delivered # None => k.delivered < n /\ gap.requested = k.delivered + 1
  /\ h.handed # None => h.handed < n /\ Told(h, gap.requested)
  /\ gap.resumes # None => gap.requested < gap.resumes /\ n = gap.resumes

-----------------------------------------------------------------------------
(* The frames between them *)

\* The tick due after each of the frames.
Due(frames, p) ==
  /\ p \in [0..Len(frames) -> Nat]
  /\ \A i \in 1..Len(frames) :
       /\ frames[i].kind = "tick" => frames[i].sequence = p[i - 1] /\ p[i] = p[i - 1] + 1
       /\ frames[i].kind # "tick" => p[i] = p[i - 1]
  /\ \A i, j \in 0..Len(frames) : i <= j => p[i] <= p[j]

\* A frame where a tick is due, of a queue whose first one due is `start`: a beat
\* after a tick names it.
FrameInv(frame, due, start, h, r) ==
  /\ frame.kind = "tick" => frame.sequence <= r.head
  /\ frame.kind = "beat" => /\ frame.sequence < due /\ frame.sequence <= r.head
                            /\ h.handed # None => h.handed <= frame.sequence
                            /\ due # start => frame.sequence = due - 1

Queued(frames, p, h, r) ==
  \A i \in 1..Len(frames) : /\ frames[i].kind = "gap" => i = 1
                            /\ FrameInv(frames[i], p[i - 1], p[0], h, r)

\* The client goes on with what comes first.
Joins(frames, k, h, n) ==
  IF frames # <<>> /\ frames[1].kind = "gap" THEN FollowsGap(k, h, frames[1], n)
  ELSE Follows(k, h, n)

\* A live connection goes on where the venue does.
LiveInv(x, first, last, r) ==
  x.state = "live" =>
    /\ last = r.next
    /\ IF x.given = None THEN first = last ELSE x.given = r.next - 1

\* A queue so numbered, and the frames that may come after one.
Numbered(frames, p, h, r) == frames \in Seq(Frame) /\ Due(frames, p) /\ Queued(frames, p, h, r)
GoOn(frames, q, start, h, r) ==
  /\ frames \in Seq(Frame) /\ Due(frames, q)
  /\ \A i \in 1..Len(frames) : /\ frames[i].kind # "gap"
                                /\ FrameInv(frames[i], q[i - 1], start, h, r)

\* A queue whose first tick due is n, and the one due after it `last`.
Queue(x, k, h, r, p, n, last) ==
  /\ Numbered(x.frames, p, h, r) /\ p[0] = n /\ p[Len(x.frames)] = last
  /\ n \in Nat /\ last \in Nat /\ n <= last /\ last <= r.next
  /\ Joins(x.frames, k, h, n) /\ LiveInv(x, n, last, r)

QueueInv(x, k, h, r) == \E p, n, last : Queue(x, k, h, r, p, n, last)

ConnInv(x, k, h, r) ==
  /\ x.state = "none" <=> k.state # "reading"
  /\ x.state \in {"none", "lost"} => x.frames = <<>>
  /\ x.state \in {"live", "ended"} => QueueInv(x, k, h, r)

ClientInv(x, k, h, r) ==
  /\ HeardInv(h, r)
  /\ k.state \in {"connecting", "reading"} => AsksInv(k, h, r)
  /\ k.state = "connecting" /\ k.delivered # None => k.from = k.delivered + 1
  /\ ConnInv(x, k, h, r)

IInv ==
  /\ Types /\ VenueInv
  /\ \A c \in Clients : ClientInv(conn[c], client[c], heard[c], record)

-----------------------------------------------------------------------------
(* Sequences of frames *)

\* Two sequences end to end.
LEMMA Joined ==
  ASSUME NEW S, NEW a \in Seq(S), NEW b \in Seq(S), NEW m \in Nat, NEW n \in Nat, m = Len(a), n = Len(b)
  PROVE  /\ a \o b \in Seq(S) /\ Len(a \o b) = m + n
         /\ \A i \in 1..m : (a \o b)[i] = a[i]
         /\ \A i \in 1..n : (a \o b)[m + i] = b[i]
         /\ \A i \in 1..(m + n) : i \in 1..m \/ (i - m \in 1..n /\ (a \o b)[i] = b[i - m])
<1>1. a \o b \in Seq(S) /\ Len(a \o b) = m + n
  OBVIOUS
<1>2. \A i \in 1..m : (a \o b)[i] = a[i]
  OBVIOUS
<1>3. \A i \in 1..n : (a \o b)[m + i] = b[i]
  OBVIOUS
<1>4. ASSUME NEW i \in 1..(m + n), i \notin 1..m PROVE i - m \in 1..n /\ (a \o b)[i] = b[i - m]
  <2>1. i - m \in 1..n /\ m + (i - m) = i
    BY <1>4
  <2> QED BY <1>3, <2>1
<1> QED BY <1>1, <1>2, <1>3, <1>4

\* What is left once the first was taken.
LEMMA TailFacts ==
  ASSUME NEW S, NEW s \in Seq(S), s # <<>>
  PROVE  \E n \in Nat : /\ Len(s) = n + 1 /\ Head(s) = s[1] /\ s[1] \in S
                        /\ Tail(s) \in Seq(S) /\ Len(Tail(s)) = n
                        /\ \A i \in 1..n : Tail(s)[i] = s[i + 1]
<1>1. PICK n \in Nat : n = Len(s) - 1 /\ Len(s) = n + 1
  OBVIOUS
<1>2. Tail(s) \in Seq(S) /\ Len(Tail(s)) = n
  BY <1>1
<1>3. \A i \in 1..n : Tail(s)[i] = s[i + 1]
  BY <1>1
<1>4. Head(s) = s[1] /\ s[1] \in S
  BY <1>1
<1> QED BY <1>1, <1>2, <1>3, <1>4

\* The fields of a frame.
LEMMA FrameFields ==
  ASSUME NEW frame \in Frame
  PROVE  /\ frame.kind \in {"gap", "tick", "beat", "close"}
         /\ frame.kind \in {"tick", "beat"} => frame.sequence \in Nat
         /\ frame.kind = "gap" => frame.requested \in Nat /\ frame.resumes \in MaybeTick
BY DEF Frame

\* Numbers of one queue go on in the next.
LEMMA DueJoined ==
  ASSUME NEW a \in Seq(Frame), NEW b \in Seq(Frame), NEW p, NEW q, Due(a, p), Due(b, q), q[0] = p[Len(a)]
  PROVE  \E s : /\ Due(a \o b, s)
                /\ \A i \in 0..Len(a) : s[i] = p[i]
                /\ \A i \in 0..Len(b) : s[Len(a) + i] = q[i]
<1>1. PICK m \in Nat, n \in Nat : m = Len(a) /\ n = Len(b) /\ Len(a \o b) = m + n
  OBVIOUS
<1> DEFINE s == [i \in 0..(m + n) |-> IF i <= m THEN p[i] ELSE q[i - m]]
<1>2. ASSUME NEW i \in 0..m PROVE s[i] = p[i] /\ p[i] \in Nat
  <2>1. p[i] \in Nat
    BY <1>1 DEF Due
  <2>2. i \in 0..(m + n) /\ i <= m
    OBVIOUS
  <2> QED BY <2>1, <2>2
<1>3. ASSUME NEW i \in 0..n PROVE s[m + i] = q[i] /\ q[i] \in Nat
  <2>1. q[i] \in Nat
    BY <1>1 DEF Due
  <2>2. CASE i = 0
    BY <1>1, <1>2, <2>1, <2>2
  <2>3. CASE i # 0
    <3>1. m + i \in 0..(m + n) /\ ~(m + i <= m) /\ (m + i) - m = i
      BY <2>3
    <3> QED BY <2>1, <3>1
  <2> QED BY <2>2, <2>3
<1>4. s \in [0..(m + n) -> Nat]
  <2> SUFFICES ASSUME NEW i \in 0..(m + n) PROVE s[i] \in Nat
    OBVIOUS
  <2>1. CASE i <= m
    <3>1. i \in 0..m
      BY <2>1
    <3> QED BY <1>2, <3>1
  <2>2. CASE i > m
    <3>1. i - m \in 0..n /\ m + (i - m) = i
      BY <2>2
    <3> QED BY <1>3, <3>1
  <2> QED BY <2>1, <2>2
<1> HIDE DEF s
<1>5. ASSUME NEW i \in 1..(m + n)
      PROVE  /\ (a \o b)[i].kind = "tick" => (a \o b)[i].sequence = s[i - 1] /\ s[i] = s[i - 1] + 1
             /\ (a \o b)[i].kind # "tick" => s[i] = s[i - 1]
  <2>1. CASE i \in 1..m
    <3>1. (a \o b)[i] = a[i]
      BY <1>1, <2>1, Joined
    <3>2. i \in 0..m /\ i - 1 \in 0..m
      BY <2>1
    <3>3. s[i] = p[i] /\ s[i - 1] = p[i - 1]
      BY <1>2, <3>2
    <3> QED BY <1>1, <2>1, <3>1, <3>3 DEF Due
  <2>2. CASE i \notin 1..m
    <3>1. PICK j \in 1..n : j = i - m /\ (a \o b)[i] = b[j] /\ i = m + j
      <4>1. i - m \in 1..n /\ (a \o b)[i] = b[i - m]
        BY <1>1, <2>2, Joined
      <4> QED BY <4>1
    <3>2. j \in 0..n /\ j - 1 \in 0..n /\ m + (j - 1) = i - 1
      BY <3>1
    <3>3. s[i] = q[j] /\ s[i - 1] = q[j - 1]
      BY <1>3, <3>1, <3>2
    <3> QED BY <1>1, <3>1, <3>3 DEF Due
  <2> QED BY <2>1, <2>2
<1>6. ASSUME NEW i \in 0..(m + n), NEW j \in 0..(m + n), i <= j PROVE s[i] <= s[j]
  <2>1. CASE j <= m
    <3>1. i \in 0..m /\ j \in 0..m
      BY <1>6, <2>1
    <3> QED BY <1>1, <1>2, <1>6, <3>1 DEF Due
  <2>2. CASE i >= m
    <3>1. i - m \in 0..n /\ j - m \in 0..n /\ m + (i - m) = i /\ m + (j - m) = j /\ i - m <= j - m
      BY <1>6, <2>2
    <3>2. s[i] = q[i - m] /\ s[j] = q[j - m]
      BY <1>3, <3>1
    <3>3. q[i - m] <= q[j - m]
      BY <1>1, <3>1 DEF Due
    <3> QED BY <3>2, <3>3
  <2>3. CASE i < m /\ m < j
    <3>1. i \in 0..m /\ m \in 0..m /\ i <= m /\ j - m \in 0..n /\ m + (j - m) = j /\ 0 \in 0..n /\ 0 <= j - m
      BY <2>3
    <3>2. s[i] = p[i] /\ p[i] \in Nat /\ p[i] <= p[m]
      BY <1>1, <1>2, <3>1 DEF Due
    <3>3. s[j] = q[j - m] /\ q[j - m] \in Nat /\ q[0] <= q[j - m] /\ q[0] \in Nat
      BY <1>1, <1>3, <3>1 DEF Due
    <3>4. q[0] = p[m]
      BY <1>1
    <3> QED BY <3>2, <3>3, <3>4
  <2> QED BY <2>1, <2>2, <2>3
<1>7. Due(a \o b, s)
  BY <1>1, <1>4, <1>5, <1>6 DEF Due
<1> QED BY <1>1, <1>2, <1>3, <1>7

\* Frames that may come after those of a queue make a queue with them.
LEMMA QueuedJoined ==
  ASSUME NEW a, NEW b, NEW p, NEW q, NEW h, NEW r, Numbered(a, p, h, r), GoOn(b, q, p[0], h, r),
         q[0] = p[Len(a)]
  PROVE  \E s : Numbered(a \o b, s, h, r) /\ s[0] = p[0] /\ s[Len(a \o b)] = q[Len(b)]
<1>0. a \in Seq(Frame) /\ b \in Seq(Frame) /\ Due(a, p) /\ Due(b, q) /\ a \o b \in Seq(Frame)
  BY DEF Numbered, GoOn
<1>1. PICK s : /\ Due(a \o b, s)
               /\ \A i \in 0..Len(a) : s[i] = p[i]
               /\ \A i \in 0..Len(b) : s[Len(a) + i] = q[i]
  BY <1>0, DueJoined
<1>2. PICK m \in Nat, n \in Nat : m = Len(a) /\ n = Len(b) /\ Len(a \o b) = m + n
  BY <1>0
<1>3. s[0] = p[0] /\ s[m + n] = q[n]
  BY <1>1, <1>2
<1>4. ASSUME NEW i \in 1..(m + n)
      PROVE  /\ (a \o b)[i].kind = "gap" => i = 1
             /\ FrameInv((a \o b)[i], s[i - 1], s[0], h, r)
  <2>1. CASE i \in 1..m
    <3>1. (a \o b)[i] = a[i] /\ i - 1 \in 0..m
      BY <1>0, <1>2, <2>1, Joined
    <3>2. (a[i].kind = "gap" => i = 1) /\ FrameInv(a[i], p[i - 1], p[0], h, r)
      BY <1>2, <2>1 DEF Numbered, Queued
    <3>3. s[i - 1] = p[i - 1]
      BY <1>1, <1>2, <3>1
    <3> QED BY <1>3, <3>1, <3>2, <3>3
  <2>2. CASE i \notin 1..m
    <3>1. PICK j \in 1..n : j = i - m /\ (a \o b)[i] = b[j] /\ i = m + j
      <4>1. i - m \in 1..n /\ (a \o b)[i] = b[i - m]
        BY <1>0, <1>2, <2>2, Joined
      <4> QED BY <4>1
    <3>2. j - 1 \in 0..n /\ m + (j - 1) = i - 1
      BY <3>1
    <3>3. s[i - 1] = q[j - 1]
      BY <1>1, <1>2, <3>2
    <3>4. b[j].kind # "gap" /\ FrameInv(b[j], q[j - 1], p[0], h, r)
      BY <1>2, <3>1 DEF GoOn
    <3> QED BY <1>3, <3>1, <3>3, <3>4
  <2> QED BY <2>1, <2>2
<1>5. Numbered(a \o b, s, h, r)
  BY <1>0, <1>1, <1>2, <1>4 DEF Numbered, Queued
<1> QED BY <1>2, <1>3, <1>5

\* A frame that is no tick leaves the one due.
LEMMA DueOne ==
  ASSUME NEW frame \in Frame, frame.kind # "tick", NEW n \in Nat
  PROVE  /\ <<frame>> \in Seq(Frame) /\ Len(<<frame>>) = 1 /\ <<frame>> # <<>> /\ <<frame>>[1] = frame
         /\ \E q : Due(<<frame>>, q) /\ q[0] = n /\ q[1] = n
<1> DEFINE q == [i \in 0..1 |-> n]
<1>1. q \in [0..1 -> Nat] /\ q[0] = n /\ q[1] = n
  OBVIOUS
<1>2. \A i, j \in 0..1 : i <= j => q[i] <= q[j]
  OBVIOUS
<1>3. \A i \in 1..1 : i = 1 /\ i - 1 = 0
  OBVIOUS
<1>4. <<frame>> \in Seq(Frame) /\ Len(<<frame>>) = 1 /\ <<frame>> # <<>> /\ <<frame>>[1] = frame
  OBVIOUS
<1> HIDE DEF q
<1>5. Due(<<frame>>, q)
  BY <1>1, <1>2, <1>3, <1>4 DEF Due
<1> QED BY <1>1, <1>4, <1>5

\* The same frame, after a queue.
LEMMA OneGoesOn ==
  ASSUME NEW frame \in Frame, frame.kind \notin {"tick", "gap"}, NEW n \in Nat, NEW start, NEW h, NEW r,
         FrameInv(frame, n, start, h, r)
  PROVE  \E q : GoOn(<<frame>>, q, start, h, r) /\ q[0] = n /\ q[Len(<<frame>>)] = n
<1>1. <<frame>> \in Seq(Frame) /\ Len(<<frame>>) = 1 /\ <<frame>>[1] = frame
  BY DueOne
<1>2. PICK q : Due(<<frame>>, q) /\ q[0] = n /\ q[1] = n
  BY DueOne
<1>3. ASSUME NEW i \in 1..Len(<<frame>>)
      PROVE  <<frame>>[i].kind # "gap" /\ FrameInv(<<frame>>[i], q[i - 1], start, h, r)
  <2>1. i = 1 /\ i - 1 = 0
    BY <1>1
  <2> QED BY <1>1, <1>2, <2>1
<1>4. GoOn(<<frame>>, q, start, h, r)
  BY <1>1, <1>2, <1>3 DEF GoOn
<1> QED BY <1>1, <1>2, <1>4

\* A run of ticks, one after the other.
LEMMA DueTicks ==
  ASSUME NEW f \in Seq(Frame), NEW a \in Nat, NEW n \in Nat, n = Len(f), \A i \in 1..n : f[i] = Tick(a + i - 1)
  PROVE  \E q : Due(f, q) /\ (\A i \in 0..n : q[i] = a + i)
<1> DEFINE q == [i \in 0..n |-> a + i]
<1>1. q \in [0..n -> Nat] /\ (\A i \in 0..n : q[i] = a + i)
  OBVIOUS
<1>2. \A i, j \in 0..n : i <= j => q[i] <= q[j]
  OBVIOUS
<1> HIDE DEF q
<1>3. ASSUME NEW i \in 1..n
      PROVE f[i].kind = "tick" /\ f[i].sequence = q[i - 1] /\ q[i] = q[i - 1] + 1
  <2>1. i - 1 \in 0..n /\ i \in 0..n /\ a + (i - 1) = a + i - 1 /\ a + i = (a + i - 1) + 1
    OBVIOUS
  <2>2. q[i - 1] = a + i - 1 /\ q[i] = (a + i - 1) + 1
    BY <1>1, <2>1
  <2>3. f[i] = Tick(a + i - 1)
    OBVIOUS
  <2>4. f[i].kind = "tick" /\ f[i].sequence = a + i - 1
    BY <2>3 DEF Tick
  <2> QED BY <2>2, <2>4
<1> QED BY <1>1, <1>2, <1>3 DEF Due

-----------------------------------------------------------------------------
(* What the venue does to a queue *)

\* A record and one that has grown from it.
Grown(r, s) == RecordInv(r) /\ RecordInv(s) /\ r.head <= s.head /\ r.next <= s.next

\* Frames stay what they may be while the record grows.
LEMMA FramesStand ==
  ASSUME NEW f, NEW p, NEW h, NEW r, NEW s, Grown(r, s), Numbered(f, p, h, r)
  PROVE  Numbered(f, p, h, s)
<1> SUFFICES ASSUME NEW i \in 1..Len(f)
             PROVE  (f[i].kind = "gap" => i = 1) /\ FrameInv(f[i], p[i - 1], p[0], h, s)
  BY DEF Numbered, Queued
<1>1. f[i] \in Frame /\ (f[i].kind = "gap" => i = 1) /\ FrameInv(f[i], p[i - 1], p[0], h, r)
  BY DEF Numbered, Queued
<1>2. r.head \in Nat /\ s.head \in Nat /\ r.head <= s.head
  BY DEF Grown, RecordInv
<1>3. f[i].kind \in {"tick", "beat"} => f[i].sequence \in Nat
  BY <1>1, FrameFields
<1> QED BY <1>1, <1>2, <1>3 DEF FrameInv

\* A connection that is not written to stands while the record grows.
LEMMA ConnStands ==
  ASSUME NEW x, NEW y, NEW k, NEW h, NEW r, NEW s, Grown(r, s), ConnInv(x, k, h, r),
         x.state # "live", y.state = x.state, y.frames = x.frames
  PROVE  ConnInv(y, k, h, s)
<1>1. ASSUME x.state \in {"live", "ended"} PROVE QueueInv(y, k, h, s)
  <2>1. PICK p, n, last : Queue(x, k, h, r, p, n, last)
    BY <1>1 DEF ConnInv, QueueInv
  <2>2. Numbered(y.frames, p, h, s)
    BY <2>1, FramesStand DEF Queue
  <2>3. last <= s.next
    BY <2>1 DEF Queue, Grown, RecordInv
  <2>4. Queue(y, k, h, s, p, n, last)
    BY <2>1, <2>2, <2>3 DEF Queue, LiveInv
  <2> QED BY <2>4 DEF QueueInv
<1> QED BY <1>1 DEF ConnInv

\* What a client goes on with is what it went on with.
LEMMA JoinsOn ==
  ASSUME NEW a \in Seq(Frame), NEW b \in Seq(Frame), NEW k, NEW h, NEW n, Joins(a, k, h, n),
         \A i \in 1..Len(b) : b[i].kind # "gap"
  PROVE  Joins(a \o b, k, h, n)
<1>1. CASE a = <<>>
  <2>1. a \o b = b
    BY <1>1
  <2>2. Follows(k, h, n)
    BY <1>1 DEF Joins
  <2>3. b # <<>> => 1 \in 1..Len(b)
    OBVIOUS
  <2> QED BY <2>1, <2>2, <2>3 DEF Joins
<1>2. CASE a # <<>>
  <2>1. a \o b # <<>> /\ (a \o b)[1] = a[1]
    <3>1. PICK m \in Nat, c \in Nat : m = Len(a) /\ c = Len(b)
      OBVIOUS
    <3>2. 1 \in 1..m
      BY <1>2, <3>1
    <3>3. (a \o b)[1] = a[1] /\ Len(a \o b) = m + c
      BY <3>1, <3>2, Joined
    <3>4. Len(a \o b) # 0
      BY <3>2, <3>3
    <3> QED BY <3>3, <3>4
  <2> QED BY <1>2, <2>1 DEF Joins
<1> QED BY <1>1, <1>2

\* What is written after the frames of a queue, for a record that has grown.
LEMMA Extends ==
  ASSUME NEW x, NEW k, NEW h, NEW r, NEW s, Grown(r, s), NEW p, NEW n, NEW m,
         Queue(x, k, h, r, p, n, m), NEW b, NEW q, NEW last \in Nat,
         GoOn(b, q, n, h, s), q[0] = m, q[Len(b)] = last, m <= last, last <= s.next,
         NEW y, y.frames = x.frames \o b, LiveInv(y, n, last, s)
  PROVE  QueueInv(y, k, h, s)
<1>1. Numbered(x.frames, p, h, r) /\ p[0] = n /\ p[Len(x.frames)] = m /\ n \in Nat /\ m \in Nat /\ n <= m
  BY DEF Queue
<1>2. Numbered(x.frames, p, h, s)
  BY <1>1, FramesStand
<1>3. PICK t : Numbered(y.frames, t, h, s) /\ t[0] = n /\ t[Len(y.frames)] = last
  <2>1. PICK a : a = x.frames
    OBVIOUS
  <2>2. Numbered(a, p, h, s) /\ GoOn(b, q, p[0], h, s) /\ q[0] = p[Len(a)]
    BY <1>1, <1>2, <2>1
  <2>3. \E t : Numbered(a \o b, t, h, s) /\ t[0] = p[0] /\ t[Len(a \o b)] = q[Len(b)]
    BY <2>2, QueuedJoined
  <2> QED BY <1>1, <2>1, <2>3
<1>4. Joins(y.frames, k, h, n)
  <2>1. x.frames \in Seq(Frame) /\ b \in Seq(Frame) /\ \A i \in 1..Len(b) : b[i].kind # "gap"
    BY <1>1 DEF Numbered, GoOn
  <2>2. Joins(x.frames, k, h, n)
    BY DEF Queue
  <2> QED BY <2>1, <2>2, JoinsOn
<1>5. n <= last
  BY <1>1
<1>6. Queue(y, k, h, s, t, n, last)
  BY <1>1, <1>3, <1>4, <1>5 DEF Queue
<1> QED BY <1>6 DEF QueueInv

\* A stream that is closed after what it was sent.
LEMMA ClosedStands ==
  ASSUME NEW x, NEW k, NEW h, NEW r, NEW s, Grown(r, s), x.state \in {"live", "ended"},
         ConnInv(x, k, h, r), NEW y, y.frames = x.frames \o <<Close>>, y.state = "ended"
  PROVE  ConnInv(y, k, h, s)
<1>1. Close \in Frame /\ Close.kind \notin {"tick", "gap", "beat"}
  BY DEF Close, Frame
<1>2. PICK p, n, m : Queue(x, k, h, r, p, n, m)
  BY DEF ConnInv, QueueInv
<1>3. m \in Nat /\ m <= s.next /\ m <= m
  BY <1>2 DEF Queue, Grown, RecordInv
<1>4. FrameInv(Close, m, n, h, s)
  BY <1>1 DEF FrameInv
<1>5. PICK q : GoOn(<<Close>>, q, n, h, s) /\ q[0] = m /\ q[Len(<<Close>>)] = m
  BY <1>1, <1>3, <1>4, OneGoesOn
<1>6. LiveInv(y, n, m, s)
  BY DEF LiveInv
<1>7. QueueInv(y, k, h, s)
  BY <1>2, <1>3, <1>5, <1>6, Extends
<1> QED BY <1>7 DEF ConnInv

\* A beat names the newest tick recorded to a stream that was given it or none.
LEMMA BeatStands ==
  ASSUME NEW x, NEW k, NEW h \in Account, NEW r, RecordInv(r), HeardInv(h, r),
         x.state = "live", ConnInv(x, k, h, r), x.given \in {None, r.head},
         NEW y, y.frames = x.frames \o <<Beat(r.head)>>, y.state = x.state, y.given = x.given
  PROVE  ConnInv(y, k, h, r)
<1>1. r.head \in Nat /\ r.next \in Nat /\ r.head < r.next /\ Grown(r, r)
  BY DEF RecordInv, Grown
<1>2. PICK b \in Frame : b = Beat(r.head) /\ b.kind = "beat" /\ b.sequence = r.head
  BY <1>1 DEF Beat, Frame
<1>3. PICK p, n, m : Queue(x, k, h, r, p, n, m)
  BY DEF ConnInv, QueueInv
<1>4. n \in Nat /\ m \in Nat /\ m <= r.next /\ LiveInv(x, n, m, r) /\ m <= m
  BY <1>3 DEF Queue
<1>5. FrameInv(b, m, n, h, r)
  <2>1. m = r.next /\ (IF x.given = None THEN n = m ELSE x.given = r.next - 1)
    BY <1>4 DEF LiveInv
  <2>2. m # n => r.head = m - 1
    BY <2>1
  <2>3. h.handed # None => h.handed <= r.head
    BY DEF HeardInv
  <2> QED BY <1>1, <1>2, <2>1, <2>2, <2>3 DEF FrameInv
<1>6. PICK q : GoOn(<<b>>, q, n, h, r) /\ q[0] = m /\ q[Len(<<b>>)] = m
  BY <1>2, <1>4, <1>5, OneGoesOn
<1>7. LiveInv(y, n, m, r)
  BY <1>4 DEF LiveInv
<1>8. QueueInv(y, k, h, r)
  BY <1>1, <1>2, <1>3, <1>4, <1>6, <1>7, Extends
<1> QED BY <1>8 DEF ConnInv

\* Frames of the n ticks by which a record has grown.
Continues(b, n, r, s) ==
  /\ b \in Seq(Frame) /\ n \in Nat \ {0} /\ n = Len(b) /\ \A i \in 1..n : b[i] = Tick(r.next + i - 1)
  /\ s.head = r.next + n - 1 /\ s.next = r.next + n

\* The ticks of a pass, on a stream that was given all that came before.
LEMMA TicksStand ==
  ASSUME NEW x, NEW k, NEW h, NEW r, NEW s, Grown(r, s), x.state = "live",
         ConnInv(x, k, h, r), NEW b, NEW n, Continues(b, n, r, s),
         NEW y, y.frames = x.frames \o b, y.state = "live", y.given = s.head
  PROVE  ConnInv(y, k, h, s)
<1> USE DEF Continues
<1>0. r.next \in Nat /\ s.next \in Nat /\ s.head \in Nat
  BY DEF Grown, RecordInv
<1>1. PICK p, f, m : Queue(x, k, h, r, p, f, m)
  BY DEF ConnInv, QueueInv
<1>2. m = r.next
  BY <1>1 DEF Queue, LiveInv
<1>3. PICK q : Due(b, q) /\ (\A i \in 0..n : q[i] = r.next + i)
  BY <1>0, DueTicks
<1>4. q[0] = m /\ q[n] = s.next /\ m <= s.next /\ s.next <= s.next
  BY <1>0, <1>2, <1>3
<1>5. ASSUME NEW i \in 1..n PROVE b[i].kind # "gap" /\ FrameInv(b[i], q[i - 1], f, h, s)
  <2>0. b[i] = Tick(r.next + i - 1)
    OBVIOUS
  <2>1. b[i].kind = "tick" /\ b[i].sequence = r.next + i - 1
    BY <2>0 DEF Tick
  <2>2. r.next + i - 1 <= s.head
    BY <1>0
  <2> QED BY <2>1, <2>2 DEF FrameInv
<1>6. GoOn(b, q, f, h, s)
  BY <1>3, <1>5 DEF GoOn
<1>7. LiveInv(y, f, s.next, s)
  <2>1. s.head # None
    BY <1>0, StreamAssumption
  <2>2. s.head = s.next - 1
    BY <1>0
  <2> QED BY <2>1, <2>2 DEF LiveInv
<1>8. QueueInv(y, k, h, s)
  BY <1>0, <1>1, <1>4, <1>6, <1>7, Extends
<1> QED BY <1>8 DEF ConnInv

-----------------------------------------------------------------------------
(* What a client does to a queue *)

\* The numbers of what is left once a frame was read.
LEMMA DueTail ==
  ASSUME NEW f \in Seq(Frame), f # <<>>, NEW p, Due(f, p)
  PROVE  \E q : /\ Due(Tail(f), q) /\ q[0] = p[1] /\ q[Len(Tail(f))] = p[Len(f)]
                /\ \A i \in 0..Len(Tail(f)) : q[i] = p[i + 1]
                /\ p[0] \in Nat /\ p[1] \in Nat /\ p[0] <= p[1] /\ p[1] <= p[Len(f)] /\ p[Len(f)] \in Nat
<1>1. PICK n \in Nat : /\ Len(f) = n + 1 /\ Tail(f) \in Seq(Frame) /\ Len(Tail(f)) = n
                       /\ \A i \in 1..n : Tail(f)[i] = f[i + 1]
  BY TailFacts
<1> DEFINE q == [i \in 0..n |-> p[i + 1]]
<1>2. \A i \in 0..n : i + 1 \in 0..(n + 1) /\ q[i] = p[i + 1] /\ p[i + 1] \in Nat
  <2> SUFFICES ASSUME NEW i \in 0..n PROVE i + 1 \in 0..(n + 1) /\ p[i + 1] \in Nat
    OBVIOUS
  <2>1. i + 1 \in 0..(n + 1)
    OBVIOUS
  <2> QED BY <1>1, <2>1 DEF Due
<1>3. q \in [0..n -> Nat]
  BY <1>2
<1> HIDE DEF q
<1>4. ASSUME NEW i \in 1..n
      PROVE  /\ Tail(f)[i].kind = "tick" => Tail(f)[i].sequence = q[i - 1] /\ q[i] = q[i - 1] + 1
             /\ Tail(f)[i].kind # "tick" => q[i] = q[i - 1]
  <2>1. i + 1 \in 1..(n + 1) /\ (i + 1) - 1 = i /\ i - 1 \in 0..n /\ (i - 1) + 1 = i /\ i \in 0..n
    OBVIOUS
  <2>2. q[i] = p[i + 1] /\ q[i - 1] = p[i]
    BY <1>2, <2>1
  <2>3. /\ f[i + 1].kind = "tick" => f[i + 1].sequence = p[i] /\ p[i + 1] = p[i] + 1
        /\ f[i + 1].kind # "tick" => p[i + 1] = p[i]
    <3>1. /\ f[i + 1].kind = "tick" => f[i + 1].sequence = p[(i + 1) - 1] /\ p[i + 1] = p[(i + 1) - 1] + 1
          /\ f[i + 1].kind # "tick" => p[i + 1] = p[(i + 1) - 1]
      BY <1>1, <2>1 DEF Due
    <3> QED BY <2>1, <3>1
  <2> QED BY <1>1, <2>2, <2>3
<1>5. ASSUME NEW i \in 0..n, NEW j \in 0..n, i <= j PROVE q[i] <= q[j]
  <2>1. i + 1 \in 0..(n + 1) /\ j + 1 \in 0..(n + 1) /\ i + 1 <= j + 1
    BY <1>5
  <2>2. p[i + 1] <= p[j + 1]
    BY <1>1, <2>1 DEF Due
  <2> QED BY <1>2, <2>2
<1>6. Due(Tail(f), q)
  BY <1>1, <1>3, <1>4, <1>5 DEF Due
<1>7. q[0] = p[1] /\ q[n] = p[n + 1]
  BY <1>2
<1>8. p[0] \in Nat /\ p[1] \in Nat /\ p[0] <= p[1] /\ p[1] <= p[n + 1] /\ p[n + 1] \in Nat
  <2>1. 0 \in 0..(n + 1) /\ 1 \in 0..(n + 1) /\ n + 1 \in 0..(n + 1) /\ 0 <= 1 /\ 1 <= n + 1
    OBVIOUS
  <2>2. p \in [0..(n + 1) -> Nat] /\ \A i, j \in 0..(n + 1) : i <= j => p[i] <= p[j]
    BY <1>1 DEF Due
  <2> QED BY <2>1, <2>2
<1> QED BY <1>1, <1>2, <1>6, <1>7, <1>8

\* The rest of a queue after a frame that is no tick, which hands nothing over.
LEMMA RestAfterOther ==
  ASSUME NEW f, f # <<>>, f[1].kind # "tick", NEW p, NEW h, NEW g, g.handed = h.handed, NEW r,
         Numbered(f, p, h, r)
  PROVE  \E q : GoOn(Tail(f), q, p[0], g, r) /\ q[0] = p[0] /\ q[Len(Tail(f))] = p[Len(f)]
<1>0. f \in Seq(Frame) /\ Due(f, p) /\ Queued(f, p, h, r)
  BY DEF Numbered
<1>1. PICK n \in Nat : /\ Len(f) = n + 1 /\ Len(Tail(f)) = n /\ Tail(f) \in Seq(Frame)
                       /\ \A i \in 1..n : Tail(f)[i] = f[i + 1]
  BY <1>0, TailFacts
<1>2. PICK q : /\ Due(Tail(f), q) /\ q[0] = p[1] /\ q[n] = p[n + 1]
               /\ \A i \in 0..n : q[i] = p[i + 1]
               /\ p[0] \in Nat /\ p[n + 1] \in Nat
  BY <1>0, <1>1, DueTail
<1>3. p[1] = p[0]
  <2>1. 1 \in 1..(n + 1) /\ 1 - 1 = 0
    OBVIOUS
  <2>2. p[1] = p[1 - 1]
    BY <1>0, <1>1, <2>1 DEF Due
  <2> QED BY <2>1, <2>2
<1>4. ASSUME NEW i \in 1..n
      PROVE  Tail(f)[i].kind # "gap" /\ FrameInv(Tail(f)[i], q[i - 1], p[0], g, r)
  <2>1. i + 1 \in 1..(n + 1) /\ (i + 1) - 1 = i /\ i - 1 \in 0..n /\ (i - 1) + 1 = i /\ i + 1 # 1
    OBVIOUS
  <2>2. f[i + 1].kind # "gap" /\ FrameInv(f[i + 1], p[i], p[0], h, r)
    <3>1. (f[i + 1].kind = "gap" => i + 1 = 1) /\ FrameInv(f[i + 1], p[(i + 1) - 1], p[0], h, r)
      BY <1>0, <1>1, <2>1 DEF Queued
    <3> QED BY <2>1, <3>1
  <2>3. q[i - 1] = p[i]
    BY <1>2, <2>1
  <2> QED BY <1>1, <2>2, <2>3 DEF FrameInv
<1>5. GoOn(Tail(f), q, p[0], g, r)
  BY <1>1, <1>2, <1>4 DEF GoOn
<1> QED BY <1>1, <1>2, <1>3, <1>5

\* The rest of a queue after a tick: the beats behind it name no tick before it.
LEMMA RestAfterTick ==
  ASSUME NEW f, f # <<>>, f[1].kind = "tick", NEW p, NEW h, NEW g, g.handed = f[1].sequence, NEW r,
         Numbered(f, p, h, r)
  PROVE  /\ f[1].sequence \in Nat /\ f[1].sequence = p[0] /\ f[1].sequence <= r.head
         /\ p[0] + 1 <= p[Len(f)] /\ p[Len(f)] \in Nat
         /\ \E q : GoOn(Tail(f), q, p[0] + 1, g, r) /\ q[0] = p[0] + 1 /\ q[Len(Tail(f))] = p[Len(f)]
<1>0. f \in Seq(Frame) /\ Due(f, p) /\ Queued(f, p, h, r)
  BY DEF Numbered
<1>1. PICK n \in Nat : /\ Len(f) = n + 1 /\ Len(Tail(f)) = n /\ f[1] \in Frame /\ Tail(f) \in Seq(Frame)
                       /\ \A i \in 1..n : Tail(f)[i] = f[i + 1]
  BY <1>0, TailFacts
<1>2. PICK q : /\ Due(Tail(f), q) /\ q[0] = p[1] /\ q[n] = p[n + 1]
               /\ \A i \in 0..n : q[i] = p[i + 1]
               /\ p[0] \in Nat /\ p[1] \in Nat /\ p[1] <= p[n + 1] /\ p[n + 1] \in Nat
  BY <1>0, <1>1, DueTail
<1>3. p[1] = p[0] + 1 /\ f[1].sequence = p[0] /\ f[1].sequence <= r.head
  <2>1. 1 \in 1..(n + 1) /\ 1 - 1 = 0
    OBVIOUS
  <2>2. f[1].sequence = p[1 - 1] /\ p[1] = p[1 - 1] + 1
    BY <1>0, <1>1, <2>1 DEF Due
  <2>3. FrameInv(f[1], p[1 - 1], p[0], h, r)
    BY <1>0, <1>1, <2>1 DEF Queued
  <2> QED BY <2>1, <2>2, <2>3 DEF FrameInv
<1>4. ASSUME NEW i \in 1..n
      PROVE  Tail(f)[i].kind # "gap" /\ FrameInv(Tail(f)[i], q[i - 1], p[0] + 1, g, r)
  <2>1. i + 1 \in 1..(n + 1) /\ (i + 1) - 1 = i /\ i - 1 \in 0..n /\ (i - 1) + 1 = i /\ i + 1 # 1
    OBVIOUS
  <2>2. f[i + 1].kind # "gap" /\ FrameInv(f[i + 1], p[i], p[0], h, r)
    <3>1. (f[i + 1].kind = "gap" => i + 1 = 1) /\ FrameInv(f[i + 1], p[(i + 1) - 1], p[0], h, r)
      BY <1>0, <1>1, <2>1 DEF Queued
    <3> QED BY <2>1, <3>1
  <2>3. q[i - 1] = p[i] /\ p[i] \in Nat /\ p[1] <= p[i]
    <3>1. i \in 0..(n + 1) /\ 1 \in 0..(n + 1) /\ 1 <= i
      OBVIOUS
    <3>2. p[i] \in Nat /\ p[1] <= p[i]
      BY <1>0, <1>1, <3>1 DEF Due
    <3> QED BY <1>2, <2>1, <3>2
  <2>4. p[i] # p[0] /\ g.handed = p[0] /\ p[0] + 1 <= p[i]
    BY <1>2, <1>3, <2>3
  <2> QED BY <1>1, <1>2, <2>2, <2>3, <2>4 DEF FrameInv
<1>5. GoOn(Tail(f), q, p[0] + 1, g, r)
  BY <1>1, <1>2, <1>4 DEF GoOn
<1> QED BY <1>1, <1>2, <1>3, <1>5

\* A connection a frame was read from.
LEMMA ConsumedIs ==
  ASSUME NEW x \in Connection, x.frames # <<>>
  PROVE  /\ Consumed(x) \in Connection /\ Consumed(x).frames = Tail(x.frames)
         /\ Consumed(x).state = x.state /\ Consumed(x).given = x.given
<1>1. x.frames \in Seq(Frame)
  BY DEF Connection
<1>2. Tail(x.frames) \in Seq(Frame)
  BY <1>1, TailFacts
<1>3. PICK rest \in Seq(Frame) : rest = Tail(x.frames)
  BY <1>2
<1>4. CASE rest # <<>>
  <2>1. Consumed(x) = [x EXCEPT !.frames = rest]
    BY <1>3, <1>4 DEF Consumed
  <2> QED BY <1>3, <2>1 DEF Connection
<1>5. CASE rest = <<>>
  <2>1. PICK charge \in Int : charge = IF x.stop \/ x.state = "ended" THEN 0 ELSE x.charge
    <3>1. x.charge \in Int
      BY DEF Connection
    <3> QED BY <3>1
  <2>2. Consumed(x) = [x EXCEPT !.frames = rest, !.stop = FALSE, !.charge = charge]
    <3>1. [x EXCEPT !.frames = rest, !.stop = FALSE, !.charge = IF x.stop \/ x.state = "ended" THEN 0 ELSE @]
            = [x EXCEPT !.frames = rest, !.stop = FALSE, !.charge = charge]
      BY <2>1 DEF Connection
    <3> QED BY <1>3, <1>5, <3>1 DEF Consumed
  <2> QED BY <1>3, <2>1, <2>2 DEF Connection
<1> QED BY <1>4, <1>5

\* What is left of a queue is one, whose first tick due the client goes on with.
LEMMA ConnOfRest ==
  ASSUME NEW x, NEW y, NEW k, NEW g, NEW r, NEW q, NEW n \in Nat, NEW last \in Nat,
         GoOn(y.frames, q, n, g, r), q[0] = n, q[Len(y.frames)] = last, n <= last,
         last <= r.next, LiveInv(x, n, last, r), y.state = x.state, y.given = x.given,
         y.state \in {"live", "ended"}, k.state = "reading", Follows(k, g, n)
  PROVE  ConnInv(y, k, g, r)
<1>1. y.frames \in Seq(Frame) /\ Due(y.frames, q)
      /\ \A i \in 1..Len(y.frames) : /\ y.frames[i].kind # "gap"
                                     /\ FrameInv(y.frames[i], q[i - 1], n, g, r)
  BY DEF GoOn
<1>2. Joins(y.frames, k, g, n)
  <2>1. y.frames # <<>> => 1 \in 1..Len(y.frames)
    BY <1>1
  <2> QED BY <1>1, <2>1 DEF Joins
<1>3. Numbered(y.frames, q, g, r)
  BY <1>1 DEF Numbered, Queued
<1>4. Queue(y, k, g, r, q, n, last)
  BY <1>2, <1>3 DEF Queue, LiveInv
<1>5. QueueInv(y, k, g, r)
  BY <1>4 DEF QueueInv
<1> QED BY <1>5 DEF ConnInv

-----------------------------------------------------------------------------
(* What a client makes of a frame *)

\* A client that is reading, and what it has been sent.
Reading(x, k, h, r) ==
  /\ x \in Connection /\ k \in Subscription /\ h \in Account /\ RecordInv(r)
  /\ ClientInv(x, k, h, r) /\ k.state = "reading" /\ x.frames # <<>>

\* The numbers of its queue.
LEMMA ReadingFacts ==
  ASSUME NEW x, NEW k, NEW h, NEW r, Reading(x, k, h, r)
  PROVE  /\ x.frames \in Seq(Frame) /\ x.frames[1] \in Frame
         /\ x.state \in {"live", "ended"}
         /\ HeardInv(h, r) /\ AsksInv(k, h, r)
         /\ \E p, n, last : Queue(x, k, h, r, p, n, last)
<1>1. x.frames \in Seq(Frame) /\ x.frames # <<>> /\ x.frames[1] \in Frame
  <2>1. x.frames \in Seq(Frame) /\ x.frames # <<>>
    BY DEF Reading, Connection
  <2> QED BY <2>1, TailFacts
<1>2. x.state \in {"live", "ended"}
  <2>1. x.state \in {"none", "live", "ended", "lost"}
    BY DEF Reading, Connection
  <2> QED BY <1>1, <2>1 DEF Reading, ClientInv, ConnInv
<1>3. HeardInv(h, r) /\ AsksInv(k, h, r)
  BY DEF Reading, ClientInv
<1>4. \E p, n, last : Queue(x, k, h, r, p, n, last)
  BY <1>2 DEF Reading, ClientInv, ConnInv, QueueInv
<1> QED BY <1>1, <1>2, <1>3, <1>4

\* A client that goes on with a frame that is no gap.
LEMMA FollowsFirst ==
  ASSUME NEW f, f # <<>>, f[1].kind # "gap", NEW k, NEW h, NEW n, Joins(f, k, h, n)
  PROVE  Follows(k, h, n)
BY DEF Joins

\* A frame that is no tick was read, and the client follows what is left.
LEMMA OtherRead ==
  ASSUME NEW x, NEW k, NEW h, NEW r, Reading(x, k, h, r), x.frames[1].kind # "tick",
         NEW p, NEW n, NEW last, Queue(x, k, h, r, p, n, last),
         NEW l, NEW g, l.state = "reading", g.handed = h.handed, Follows(l, g, n)
  PROVE  ConnInv(Consumed(x), l, g, r)
<1>1. x \in Connection /\ x.frames # <<>> /\ x.state \in {"live", "ended"}
  BY ReadingFacts DEF Reading
<1>2. PICK y : y = Consumed(x) /\ y.frames = Tail(x.frames) /\ y.state = x.state /\ y.given = x.given
  BY <1>1, ConsumedIs
<1>3. /\ Numbered(x.frames, p, h, r) /\ p[0] = n /\ p[Len(x.frames)] = last
      /\ n \in Nat /\ last \in Nat /\ n <= last /\ last <= r.next /\ LiveInv(x, n, last, r)
  BY DEF Queue
<1>4. PICK q : GoOn(Tail(x.frames), q, p[0], g, r) /\ q[0] = p[0] /\ q[Len(Tail(x.frames))] = p[Len(x.frames)]
  BY <1>1, <1>3, RestAfterOther
<1>5. GoOn(y.frames, q, n, g, r) /\ q[0] = n /\ q[Len(y.frames)] = last
  BY <1>2, <1>3, <1>4
<1> QED BY <1>1, <1>2, <1>3, <1>5, ConnOfRest

\* What of an account and of a subscription only grows.
LEMMA ToldMore ==
  ASSUME NEW h, NEW g, NEW b, g.handed = h.handed, h.hole \subseteq g.hole, Told(h, b)
  PROVE  Told(g, b)
BY DEF Told

\* A subscription and an account once a gap was read, and once a tick was.
Passed(k, gap, moves) ==
  [k EXCEPT !.anywhere = @ \/ gap.resumes = None,
            !.delivered = IF moves THEN gap.resumes - 1 ELSE k.delivered]
Holed(h, gap) == [h EXCEPT !.hole = @ \cup HoleOf(gap), !.expects = gap.resumes]
Handed(k, n) == [k EXCEPT !.delivered = n, !.anywhere = FALSE]
Anew(n) == [handed |-> n, hole |-> {}, expects |-> None, quoted |-> None]

\* A gap: the client expects what it names, and nothing of the hole is untold.
LEMMA GapRead ==
  ASSUME NEW x, NEW k, NEW h, NEW r, Reading(x, k, h, r), NEW gap, gap = x.frames[1], gap.kind = "gap",
         NEW l, NEW g, NEW moves, moves = (gap.resumes # None /\ (k.delivered = None \/ gap.resumes - 1 > k.delivered)),
         l = Passed(k, gap, moves), g = Holed(h, gap)
  PROVE  l \in Subscription /\ g \in Account /\ ClientInv(Consumed(x), l, g, r)
<1> USE DEF Passed, Holed
<1>1. k \in Subscription /\ h \in Account /\ r.next \in Nat /\ MaxSequence \in Nat /\ None \notin Int
  BY StreamAssumption DEF Reading, RecordInv
<1>2. gap.requested \in Nat /\ gap.resumes \in MaybeTick
  BY ReadingFacts, FrameFields
<1>3. PICK p, n, last : Queue(x, k, h, r, p, n, last)
  BY ReadingFacts
<1>a. n \in Nat /\ last \in Nat /\ n <= last /\ last <= r.next /\ Joins(x.frames, k, h, n)
  BY <1>3 DEF Queue
<1>4. FollowsGap(k, h, gap, n)
  BY <1>a DEF Joins, Reading
<1>5. HoleOf(gap) \subseteq Nat
  BY <1>1, <1>2 DEF HoleOf, MaybeTick
<1>6. g \in Account /\ g.handed = h.handed /\ g.hole = h.hole \cup HoleOf(gap) /\ g.expects = gap.resumes
      /\ g.quoted = h.quoted
  BY <1>1, <1>2, <1>5 DEF Account
<1>b. HeardInv(g, r)
  BY <1>6, ReadingFacts DEF HeardInv
<1>7. CASE gap.resumes # None
  <2>1. gap.resumes \in Nat /\ gap.requested < gap.resumes /\ n = gap.resumes
    BY <1>2, <1>4, <1>7 DEF FollowsGap, MaybeTick
  <2>2. PICK d \in Nat : d = gap.resumes - 1 /\ d + 1 = n
    BY <1>2, <2>1
  <2>3. k.delivered # None => k.delivered \in Nat /\ gap.requested = k.delivered + 1
    BY <1>1, <1>4 DEF FollowsGap, Subscription, MaybeTick
  <2>4. moves
    <3>1. CASE k.delivered = None
      BY <1>7, <3>1
    <3>2. CASE k.delivered # None
      <4>1. k.delivered \in Nat /\ gap.requested \in Nat /\ gap.requested = k.delivered + 1
        BY <1>2, <2>3, <3>2
      <4>2. gap.resumes - 1 > k.delivered
        BY <2>1, <4>1
      <4> QED BY <1>7, <4>2
    <3> QED BY <3>1, <3>2
  <2>5. /\ l \in Subscription /\ l.delivered = d /\ l.state = "reading" /\ l.from = k.from
        /\ l.anywhere = k.anywhere
    BY <1>1, <1>7, <2>2, <2>4 DEF Subscription, Reading, MaybeTick
  <2>6. HoleOf(gap) = gap.requested..(n - 1)
    BY <1>7, <2>1 DEF HoleOf
  <2>7. h.handed # None => h.handed \in Nat /\ h.handed < n /\ (h.handed + 1)..(n - 1) \subseteq g.hole
    <3> SUFFICES ASSUME h.handed # None
                 PROVE  h.handed \in Nat /\ h.handed < n /\ (h.handed + 1)..(n - 1) \subseteq g.hole
      OBVIOUS
    <3>1. h.handed \in Nat /\ h.handed < n
      BY <1>1, <1>4 DEF Account, FollowsGap, MaybeTick
    <3>2. h.handed < gap.requested /\ (h.handed + 1)..(gap.requested - 1) \subseteq h.hole
      BY <1>4 DEF FollowsGap, Told
    <3>3. ASSUME NEW s \in (h.handed + 1)..(n - 1) PROVE s \in g.hole
      <4>1. CASE s < gap.requested
        <5>1. s \in (h.handed + 1)..(gap.requested - 1)
          BY <1>2, <3>1, <4>1
        <5> QED BY <1>6, <3>2, <5>1
      <4>2. CASE s >= gap.requested
        <5>1. s \in gap.requested..(n - 1)
          BY <1>2, <3>1, <4>2
        <5> QED BY <1>6, <2>6, <5>1
      <4> QED BY <1>2, <3>1, <4>1, <4>2
    <3> QED BY <3>1, <3>3
  <2>8. Told(g, d + 1)
    BY <1>6, <2>2, <2>7 DEF Told
  <2>9. Follows(l, g, n)
    <3>1. l.delivered # None => l.delivered < n /\ n = l.delivered + 1
      BY <2>2, <2>5
    <3>2. g.handed # None => g.handed < n /\ \A s \in (g.handed + 1)..(n - 1) : s \in g.hole
      BY <1>6, <2>7
    <3>3. n = g.expects
      BY <1>6, <2>1
    <3> QED BY <3>1, <3>2, <3>3 DEF Follows
  <2>10. AsksInv(l, g, r)
    <3>1. l.delivered # None /\ l.delivered < r.next
      BY <1>1, <1>a, <2>2, <2>5
    <3>2. g.expects = l.delivered + 1
      BY <1>6, <2>1, <2>2, <2>5
    <3> QED BY <2>5, <2>8, <3>1, <3>2 DEF AsksInv
  <2>11. ConnInv(Consumed(x), l, g, r)
    <3>1. x.frames[1].kind # "tick" /\ l.state = "reading" /\ g.handed = h.handed
      BY <1>6, <2>5
    <3> HIDE DEF Passed, Holed
    <3> QED BY <1>3, <2>9, <3>1, OtherRead
  <2> QED BY <1>6, <1>b, <2>5, <2>10, <2>11 DEF ClientInv
<1>8. CASE gap.resumes = None
  <2>1. /\ l \in Subscription /\ l.delivered = k.delivered /\ l.state = "reading" /\ l.from = k.from
        /\ l.anywhere = TRUE
    BY <1>1, <1>8 DEF Subscription, Reading
  <2>2. HoleOf(gap) = gap.requested..MaxSequence
    BY <1>8 DEF HoleOf
  <2>3. h.handed # None => /\ h.handed < n
                           /\ \A s \in (h.handed + 1)..(n - 1) : s <= MaxSequence => s \in g.hole
    <3> SUFFICES ASSUME h.handed # None
                 PROVE  h.handed < n /\ \A s \in (h.handed + 1)..(n - 1) : s <= MaxSequence => s \in g.hole
      OBVIOUS
    <3>1. h.handed \in Nat /\ h.handed < n
      BY <1>1, <1>4 DEF Account, FollowsGap, MaybeTick
    <3>2. h.handed < gap.requested /\ (h.handed + 1)..(gap.requested - 1) \subseteq h.hole
      BY <1>4 DEF FollowsGap, Told
    <3>3. ASSUME NEW s \in (h.handed + 1)..(n - 1), s <= MaxSequence PROVE s \in g.hole
      <4>1. CASE s < gap.requested
        <5>1. s \in (h.handed + 1)..(gap.requested - 1)
          BY <1>2, <3>1, <4>1
        <5> QED BY <1>6, <3>2, <5>1
      <4>2. CASE s >= gap.requested
        <5>1. s \in gap.requested..MaxSequence
          BY <1>1, <1>2, <3>1, <3>3, <4>2
        <5> QED BY <1>6, <2>2, <5>1
      <4> QED BY <1>2, <3>1, <4>1, <4>2
    <3> QED BY <3>1, <3>3
  <2>4. Follows(l, g, n)
    <3>1. k.delivered # None => k.delivered < n
      BY <1>4 DEF FollowsGap
    <3> QED BY <1>6, <1>8, <2>1, <2>3, <3>1 DEF Follows
  <2>5. AsksInv(l, g, r)
    <3>1. AsksInv(k, h, r)
      BY ReadingFacts
    <3>2. \A b : Told(h, b) => Told(g, b)
      BY <1>6, ToldMore
    <3> QED BY <1>6, <1>8, <2>1, <3>1, <3>2 DEF AsksInv
  <2>6. ConnInv(Consumed(x), l, g, r)
    <3>1. x.frames[1].kind # "tick" /\ l.state = "reading" /\ g.handed = h.handed
      BY <1>6, <2>1
    <3> HIDE DEF Passed, Holed
    <3> QED BY <1>3, <2>4, <3>1, OtherRead
  <2> QED BY <1>6, <1>b, <2>1, <2>5, <2>6 DEF ClientInv
<1> QED BY <1>7, <1>8

\* A tick: it is the one the client goes on with, so it is handed over.
LEMMA TickRead ==
  ASSUME NEW x, NEW k, NEW h, NEW r, Reading(x, k, h, r), NEW n, x.frames[1].kind = "tick",
         n = x.frames[1].sequence,
         NEW l, NEW g, l = Handed(k, n), g = Anew(n)
  PROVE  /\ k.delivered # None => ~(n <= k.delivered) /\ (k.anywhere \/ n = k.delivered + 1)
         /\ h.expects # None => n = h.expects
         /\ h.handed # None => n > h.handed /\ (h.handed + 1)..(n - 1) \subseteq h.hole
         /\ l \in Subscription /\ g \in Account /\ ClientInv(Consumed(x), l, g, r)
<1> USE DEF Handed, Anew
<1>1. /\ k \in Subscription /\ h \in Account /\ r.next \in Nat /\ r.head \in Nat /\ r.head < r.next
      /\ r.head <= MaxSequence /\ MaxSequence \in Nat /\ None \notin Int
  BY StreamAssumption DEF Reading, RecordInv
<1>2. PICK p, m, last : /\ Numbered(x.frames, p, h, r) /\ Joins(x.frames, k, h, m)
                        /\ p[0] = m /\ p[Len(x.frames)] = last /\ m \in Nat /\ last \in Nat /\ m <= last
                        /\ last <= r.next /\ LiveInv(x, m, last, r)
  BY ReadingFacts DEF Queue
<1>3. x \in Connection /\ x.frames \in Seq(Frame) /\ x.frames # <<>> /\ x.state \in {"live", "ended"}
  BY ReadingFacts DEF Reading
<1>4. g.handed = n /\ g.quoted = None /\ g.expects = None /\ g.hole = {}
  OBVIOUS
<1>5. PICK q : /\ GoOn(Tail(x.frames), q, p[0] + 1, g, r)
               /\ q[0] = p[0] + 1 /\ q[Len(Tail(x.frames))] = p[Len(x.frames)]
  BY <1>2, <1>3, <1>4, RestAfterTick
<1>6. n \in Nat /\ n = m /\ n <= r.head /\ m + 1 <= last
  BY <1>2, <1>3, <1>4, RestAfterTick
<1>7. Follows(k, h, n)
  BY <1>2, <1>3, <1>6, FollowsFirst
<1>8. k.delivered # None => ~(n <= k.delivered) /\ (k.anywhere \/ n = k.delivered + 1)
  <2>1. k.delivered # None => k.delivered \in Nat
    BY <1>1 DEF Subscription, MaybeTick
  <2> QED BY <1>6, <1>7, <2>1 DEF Follows
<1>9. h.handed # None => n > h.handed /\ (h.handed + 1)..(n - 1) \subseteq h.hole
  <2>1. h.handed # None => h.handed \in Nat
    BY <1>1 DEF Account, MaybeTick
  <2>2. \A s \in Nat : s <= n - 1 => s <= MaxSequence
    BY <1>1, <1>6
  <2> QED BY <1>6, <1>7, <2>1, <2>2 DEF Follows
<1>10. /\ l \in Subscription /\ l.delivered = n /\ l.anywhere = FALSE /\ l.state = "reading"
       /\ l.from = k.from
  BY <1>1, <1>6 DEF Subscription, MaybeTick, Reading
<1>11. g \in Account
  BY <1>6 DEF Account, MaybeTick
<1>12. Follows(l, g, n + 1)
  BY <1>4, <1>6, <1>10 DEF Follows
<1>13. AsksInv(l, g, r)
  <2>1. l.delivered # None /\ l.delivered < r.next
    BY <1>1, <1>6, <1>10
  <2>2. Told(g, n + 1)
    BY <1>4, <1>6 DEF Told
  <2> QED BY <1>4, <1>10, <2>1, <2>2 DEF AsksInv
<1>14. HeardInv(g, r)
  BY <1>4, <1>6 DEF HeardInv
<1>15. LiveInv(x, n + 1, last, r)
  BY <1>2, <1>6 DEF LiveInv
<1>16. ConnInv(Consumed(x), l, g, r)
  <2>1. PICK y : y = Consumed(x) /\ y.frames = Tail(x.frames) /\ y.state = x.state /\ y.given = x.given
    BY <1>3, ConsumedIs
  <2>2. /\ n + 1 \in Nat /\ n + 1 <= last /\ GoOn(y.frames, q, n + 1, g, r)
        /\ q[0] = n + 1 /\ q[Len(y.frames)] = last
    BY <1>2, <1>5, <1>6, <2>1
  <2> QED BY <1>2, <1>3, <1>10, <1>12, <1>15, <2>1, <2>2, ConnOfRest
<1>17. ClientInv(Consumed(x), l, g, r)
  BY <1>10, <1>13, <1>14, <1>16 DEF ClientInv
<1> QED BY <1>7, <1>8, <1>9, <1>10, <1>11, <1>17 DEF Follows

\* A beat: it names a tick that was handed over, or one in a hole that was told.
LEMMA BeatRead ==
  ASSUME NEW x, NEW k, NEW h, NEW r, Reading(x, k, h, r), NEW b, x.frames[1].kind = "beat",
         b = x.frames[1].sequence, NEW g, g = [h EXCEPT !.quoted = b]
  PROVE  g \in Account /\ ClientInv(Consumed(x), k, g, r)
<1>1. /\ k \in Subscription /\ h \in Account /\ r.next \in Nat /\ r.head \in Nat /\ r.head < r.next
      /\ r.head <= MaxSequence /\ MaxSequence \in Nat /\ None \notin Int
  BY StreamAssumption DEF Reading, RecordInv
<1>a. PICK p, n, last : Queue(x, k, h, r, p, n, last)
  BY ReadingFacts
<1>2. Numbered(x.frames, p, h, r) /\ p[0] = n /\ n \in Nat /\ Joins(x.frames, k, h, n)
  BY <1>a DEF Queue
<1>3. b \in Nat
  BY ReadingFacts, FrameFields
<1>4. g \in Account /\ g.handed = h.handed /\ g.hole = h.hole /\ g.expects = h.expects /\ g.quoted = b
  BY <1>1, <1>3 DEF Account, MaybeTick
<1>5. Follows(k, h, n)
  BY <1>2, FollowsFirst DEF Reading
<1>6. b < n /\ b <= r.head /\ (h.handed # None => h.handed <= b)
  <2>1. PICK m \in Nat : m = Len(x.frames) /\ 1 \in 1..m /\ 1 - 1 = 0
    <3>1. PICK m \in Nat : Len(x.frames) = m + 1
      BY ReadingFacts, TailFacts DEF Reading
    <3> QED BY <3>1
  <2>2. FrameInv(x.frames[1], p[0], p[0], h, r)
    BY <1>2, <2>1 DEF Numbered, Queued
  <2> QED BY <1>2, <2>2 DEF FrameInv
<1>7. h.handed # None => b >= h.handed /\ (h.handed + 1)..b \subseteq h.hole
  <2>1. h.handed # None => h.handed \in Nat
    BY <1>1 DEF Account, MaybeTick
  <2>2. PICK top \in Nat : top = r.head /\ b <= top /\ top <= MaxSequence
    BY <1>1, <1>6
  <2>3. ASSUME NEW s \in Nat, s <= b PROVE s <= n - 1 /\ s <= MaxSequence
    BY <1>1, <1>2, <1>3, <1>6, <2>2, <2>3
  <2> SUFFICES ASSUME h.handed # None PROVE b >= h.handed /\ (h.handed + 1)..b \subseteq h.hole
    OBVIOUS
  <2>4. \A s \in (h.handed + 1)..(n - 1) : s <= MaxSequence => s \in h.hole
    BY <1>5 DEF Follows
  <2>5. \A s \in (h.handed + 1)..b : s \in Nat /\ s \in (h.handed + 1)..(n - 1) /\ s <= MaxSequence
    BY <1>2, <1>3, <2>1, <2>3
  <2> QED BY <1>3, <1>6, <2>1, <2>4, <2>5
<1>8. HeardInv(g, r)
  BY <1>4, <1>6, <1>7, ReadingFacts DEF HeardInv
<1>9. Follows(k, g, n)
  BY <1>4, <1>5 DEF Follows
<1>10. AsksInv(k, g, r)
  BY <1>4, ReadingFacts DEF AsksInv, Told
<1>11. ConnInv(Consumed(x), k, g, r)
  BY <1>a, <1>4, <1>9, OtherRead DEF Reading
<1> QED BY <1>4, <1>8, <1>10, <1>11 DEF ClientInv, Reading

-----------------------------------------------------------------------------
(* What a connection is opened with *)

\* The lesser of two numbers.
LEMMA MinOfTwo ==
  ASSUME NEW a \in Nat, NEW b \in Nat
  PROVE  Min({a, b}) \in Nat /\ Min({a, b}) = IF a <= b THEN a ELSE b
<1>1. CASE a <= b
  <2>1. a \in {a, b} /\ \A y \in {a, b} : a <= y
    BY <1>1
  <2>2. \A x \in {a, b} : (\A y \in {a, b} : x <= y) => x = a
    BY <1>1
  <2> QED BY <1>1, <2>1, <2>2 DEF Min
<1>2. CASE b < a
  <2>1. b \in {a, b} /\ \A y \in {a, b} : b <= y
    BY <1>2
  <2>2. \A x \in {a, b} : (\A y \in {a, b} : x <= y) => x = b
    BY <1>2
  <2> QED BY <1>2, <2>1, <2>2 DEF Min
<1> QED BY <1>1, <1>2

\* The run of sequences from one to another.
LEMMA RunFacts ==
  ASSUME NEW a \in Nat, NEW b \in Nat, a <= b + 1
  PROVE  /\ Run(a, b) \in Seq(Nat) /\ Len(Run(a, b)) = b - a + 1
         /\ \A i \in 1..(b - a + 1) : Run(a, b)[i] = a + i - 1
<1>1. PICK n \in Nat : n = b - a + 1
  OBVIOUS
<1>2. Run(a, b) = [i \in 1..n |-> a + i - 1]
  BY <1>1 DEF Run
<1>3. \A i \in 1..n : a + i - 1 \in Nat
  OBVIOUS
<1> QED BY <1>1, <1>2, <1>3

\* Ticks the record ends with, from a on: none, when it goes on at a.
Suffix(ticks, a, r) ==
  /\ ticks \in Seq(Nat) /\ a \in Nat /\ a + Len(ticks) = r.next
  /\ \A i \in 1..Len(ticks) : ticks[i] = a + i - 1
  /\ ticks # <<>> => r.head = r.next - 1

\* A queue that a connection may be opened with.
Opens(f, k, h, r, n, last) ==
  \E p : Numbered(f, p, h, r) /\ p[0] = n /\ p[Len(f)] = last /\ Joins(f, k, h, n)

\* What a client goes on with first: nothing, or a gap.
Leads(gap, k, h, n) ==
  \/ gap = <<>> /\ Follows(k, h, n)
  \/ \E frame \in Frame : gap = <<frame>> /\ frame.kind = "gap" /\ FollowsGap(k, h, frame, n)

\* Frames of the ticks a record ends with, or of the first of them.
FirstOf(t, m, a, r) ==
  /\ t \in Seq(Frame) /\ Len(t) = m /\ m \in Nat /\ a \in Nat
  /\ \A i \in 1..m : t[i] = Tick(a + i - 1) /\ a + i - 1 <= r.head

\* After what leads, such frames make a queue.
LEMMA FirstFrames ==
  ASSUME NEW r, NEW a, NEW m, NEW gap, NEW k, NEW h, Leads(gap, k, h, a),
         NEW t, FirstOf(t, m, a, r)
  PROVE  Opens(gap \o t, k, h, r, a, a + m)
<1>1. a \in Nat /\ m \in Nat /\ a + m \in Nat /\ t \in Seq(Frame) /\ Len(t) = m
  BY DEF FirstOf
<1>2. PICK q : Due(t, q) /\ (\A i \in 0..m : q[i] = a + i)
  <2>1. \A i \in 1..m : t[i] = Tick(a + i - 1)
    BY DEF FirstOf
  <2> QED BY <1>1, <2>1, DueTicks
<1>3. q[0] = a /\ q[m] = a + m
  BY <1>1, <1>2
<1>4. ASSUME NEW start, NEW i \in 1..m PROVE t[i].kind # "gap" /\ FrameInv(t[i], q[i - 1], start, h, r)
  <2>1. t[i] = Tick(a + i - 1) /\ a + i - 1 <= r.head
    BY DEF FirstOf
  <2>2. t[i].kind = "tick" /\ t[i].sequence = a + i - 1
    BY <2>1 DEF Tick
  <2> QED BY <2>1, <2>2 DEF FrameInv
<1>5. \A start : GoOn(t, q, start, h, r)
  BY <1>1, <1>2, <1>4 DEF GoOn
<1>6. CASE gap = <<>> /\ Follows(k, h, a)
  <2>1. gap \o t = t
    BY <1>1, <1>6
  <2>2. Numbered(t, q, h, r)
    BY <1>1, <1>2, <1>4 DEF Numbered, Queued
  <2>3. Joins(t, k, h, a)
    <3>1. t # <<>> => 1 \in 1..m
      BY <1>1
    <3> QED BY <1>4, <1>6, <3>1 DEF Joins
  <2>4. Opens(t, k, h, r, a, a + m)
    BY <1>1, <1>3, <2>2, <2>3 DEF Opens
  <2> QED BY <2>1, <2>4
<1>7. ASSUME NEW frame \in Frame, gap = <<frame>>, frame.kind = "gap", FollowsGap(k, h, frame, a)
      PROVE  Opens(gap \o t, k, h, r, a, a + m)
  <2>1. gap \in Seq(Frame) /\ Len(gap) = 1 /\ gap[1] = frame /\ gap # <<>>
    BY <1>7
  <2>2. PICK z : Due(gap, z) /\ z[0] = a /\ z[1] = a
    BY <1>1, <1>7, DueOne
  <2>3. Queued(gap, z, h, r)
    <3>1. \A i \in 1..1 : i = 1
      OBVIOUS
    <3> QED BY <1>7, <2>1, <3>1 DEF Queued, FrameInv
  <2>4. Numbered(gap, z, h, r) /\ q[0] = z[Len(gap)] /\ GoOn(t, q, z[0], h, r)
    BY <1>3, <1>5, <2>1, <2>2, <2>3 DEF Numbered
  <2>5. PICK s : Numbered(gap \o t, s, h, r) /\ s[0] = z[0] /\ s[Len(gap \o t)] = q[Len(t)]
    BY <2>4, QueuedJoined
  <2>6. Joins(gap, k, h, a)
    BY <1>7, <2>1 DEF Joins
  <2>7. Joins(gap \o t, k, h, a)
    BY <1>1, <1>4, <2>1, <2>6, JoinsOn
  <2>8. s[0] = a /\ s[Len(gap \o t)] = a + m
    BY <1>1, <1>3, <2>2, <2>5
  <2> QED BY <2>5, <2>7, <2>8 DEF Opens
<1> QED BY <1>6, <1>7 DEF Leads

\* A close after such a queue leaves it one.
LEMMA CloseAfter ==
  ASSUME NEW f, NEW k, NEW h, NEW r, NEW a, NEW last \in Nat, Opens(f, k, h, r, a, last)
  PROVE  Opens(f \o <<Close>>, k, h, r, a, last)
<1>1. Close \in Frame /\ Close.kind \notin {"tick", "gap", "beat"} /\ <<Close>> \in Seq(Frame)
      /\ Len(<<Close>>) = 1 /\ <<Close>>[1] = Close
  BY DEF Close, Frame
<1>2. PICK p : Numbered(f, p, h, r) /\ p[0] = a /\ p[Len(f)] = last /\ Joins(f, k, h, a)
  BY DEF Opens
<1>3. FrameInv(Close, last, a, h, r)
  BY <1>1 DEF FrameInv
<1>4. PICK q : GoOn(<<Close>>, q, a, h, r) /\ q[0] = last /\ q[Len(<<Close>>)] = last
  BY <1>1, <1>3, OneGoesOn
<1>5. PICK b : b = <<Close>>
  OBVIOUS
<1>6. Numbered(f, p, h, r) /\ GoOn(b, q, p[0], h, r) /\ q[0] = p[Len(f)]
  BY <1>2, <1>4, <1>5
<1>7. PICK s : Numbered(f \o b, s, h, r) /\ s[0] = p[0] /\ s[Len(f \o b)] = q[Len(b)]
  BY <1>6, QueuedJoined
<1>8. Joins(f \o <<Close>>, k, h, a)
  <2>1. f \in Seq(Frame)
    BY <1>2 DEF Numbered
  <2>2. \A i \in 1..1 : <<Close>>[i] = Close
    BY <1>1
  <2> QED BY <1>1, <1>2, <2>1, <2>2, JoinsOn
<1>9. Numbered(f \o <<Close>>, s, h, r) /\ s[0] = a /\ s[Len(f \o <<Close>>)] = last
  BY <1>2, <1>4, <1>5, <1>7
<1> QED BY <1>8, <1>9 DEF Opens

\* A connection that such a queue is opened on.
LEMMA OpensIs ==
  ASSUME NEW x, NEW k, NEW h, NEW r, NEW a \in Nat, NEW last \in Nat, a <= last, last <= r.next,
         Opens(x.frames, k, h, r, a, last), LiveInv(x, a, last, r), x.state \in {"live", "ended"},
         NEW l, l.state = "reading", l.delivered = k.delivered, l.anywhere = k.anywhere
  PROVE  ConnInv(x, l, h, r)
<1>1. PICK p : Numbered(x.frames, p, h, r) /\ p[0] = a /\ p[Len(x.frames)] = last /\ Joins(x.frames, k, h, a)
  BY DEF Opens
<1>2. Joins(x.frames, l, h, a)
  BY <1>1 DEF Joins, Follows, FollowsGap
<1>3. Queue(x, l, h, r, p, a, last)
  BY <1>1, <1>2 DEF Queue
<1>4. QueueInv(x, l, h, r)
  BY <1>3 DEF QueueInv
<1> QED BY <1>4 DEF ConnInv

\* Frames end to end.
LEMMA EndToEnd ==
  ASSUME NEW a \in Seq(Frame), NEW b \in Seq(Frame)
  PROVE  a \o b \in Seq(Frame) /\ Len(a \o b) = Len(a) + Len(b) /\ Len(a) \in Nat
OBVIOUS

\* A connection opened with what the client goes on with.
LEMMA OpenedStands ==
  ASSUME NEW r, RecordInv(r), NEW ticks, NEW a, Suffix(ticks, a, r),
         NEW gap, NEW k, NEW h,
         Leads(gap, k, h, a),
         NEW l, l.state = "reading", l.delivered = k.delivered, l.anywhere = k.anywhere
  PROVE  Opened(gap, ticks) \in Connection /\ ConnInv(Opened(gap, ticks), l, h, r)
<1>1. /\ MaxReplay \in Nat /\ HighWater \in Nat \ {0} /\ HighWater <= MaxReplay /\ None \notin Int
      /\ a \in Nat /\ r.next \in Nat /\ ticks \in Seq(Nat)
  BY StreamAssumption DEF Suffix, RecordInv
<1>2. PICK n \in Nat : n = Len(ticks) /\ a + n = r.next
  BY <1>1 DEF Suffix
<1>3. PICK m \in 0..n : m = Min({MaxReplay, n}) /\ (n < MaxReplay => m = n) /\ (n >= MaxReplay => m = MaxReplay)
  <2>1. PICK c \in Nat : c = MaxReplay
    BY <1>1
  <2>2. PICK d \in Nat : d = Min({c, n}) /\ d = IF c <= n THEN c ELSE n
    BY MinOfTwo
  <2>3. d \in 0..n /\ (n < c => d = n) /\ (n >= c => d = c)
    BY <2>2
  <2> QED BY <2>1, <2>2, <2>3
<1>4. PICK sent : /\ sent = SubSeq(ticks, 1, m) /\ sent \in Seq(Nat) /\ Len(sent) = m
                  /\ \A i \in 1..m : sent[i] = ticks[i]
  <2>1. SubSeq(ticks, 1, m) \in Seq(Nat) /\ Len(SubSeq(ticks, 1, m)) = m
    BY <1>1, <1>2
  <2>2. \A i \in 1..m : SubSeq(ticks, 1, m)[i] = ticks[i]
    BY <1>1, <1>2
  <2> QED BY <2>1, <2>2
<1>5. PICK t : t = [i \in DOMAIN sent |-> Tick(sent[i])]
  OBVIOUS
<1>6. t \in Seq(Frame) /\ Len(t) = m /\ \A i \in 1..m : t[i] = Tick(ticks[i])
  <2>1. DOMAIN sent = 1..m /\ \A i \in 1..m : sent[i] \in Nat
    BY <1>4
  <2>2. \A i \in 1..m : Tick(sent[i]) \in Frame
    BY <2>1 DEF Tick, Frame
  <2> QED BY <1>4, <1>5, <2>1, <2>2
<1>7. FirstOf(t, m, a, r)
  <2> SUFFICES ASSUME NEW i \in 1..m PROVE t[i] = Tick(a + i - 1) /\ a + i - 1 <= r.head
    BY <1>1, <1>2, <1>6 DEF FirstOf
  <2>1. i \in 1..n /\ i <= m /\ m <= n
    BY <1>2
  <2>2. ticks # <<>>
    BY <1>2, <2>1, Len(<<>>) = 0
  <2>3. r.head = r.next - 1 /\ ticks[i] = a + i - 1
    BY <1>2, <2>1, <2>2 DEF Suffix
  <2>4. a + i - 1 <= r.head
    BY <1>1, <1>2, <2>1, <2>3
  <2> QED BY <1>6, <2>3, <2>4
<1>8. PICK last \in Nat : last = a + m /\ a <= last /\ last <= r.next
  BY <1>1, <1>2
<1>9. PICK f : f = gap \o t /\ Opens(f, k, h, r, a, last)
  BY <1>7, <1>8, FirstFrames
<1>10. f \in Seq(Frame) /\ gap \in Seq(Frame) /\ Len(f) >= m /\ Opens(f \o <<Close>>, k, h, r, a, last)
  <2>1. gap \in Seq(Frame)
    <3>1. CASE gap = <<>>
      BY <3>1
    <3>2. ASSUME NEW frame \in Frame, gap = <<frame>> PROVE gap \in Seq(Frame)
      BY <3>2
    <3> QED BY <3>1, <3>2 DEF Leads
  <2>2. f \in Seq(Frame) /\ Len(f) = Len(gap) + m /\ Len(gap) \in Nat
    <3>1. f = gap \o t
      BY <1>9
    <3>2. t \in Seq(Frame) /\ Len(t) = m
      BY <1>6
    <3>3. gap \o t \in Seq(Frame) /\ Len(gap \o t) = Len(gap) + Len(t) /\ Len(gap) \in Nat
      BY <2>1, <3>2, EndToEnd
    <3> QED BY <3>1, <3>2, <3>3
  <2>3. Len(f) >= m
    BY <2>2
  <2> QED BY <1>9, <2>1, <2>2, <2>3, CloseAfter
<1>11. f \o <<Close>> \in Seq(Frame) /\ Len(f \o <<Close>>) = Len(f) + 1 /\ Len(f) \in Nat
  <2>1. Close \in Frame
    BY DEF Close, Frame
  <2> QED BY <1>10, <2>1
<1> DEFINE cut == n >= MaxReplay
           frames == IF cut THEN f \o <<Close>> ELSE f
           full == Len(frames) >= HighWater
           given == IF sent = <<>> THEN None ELSE Last(sent)
           y == [state |-> IF full THEN "ended" ELSE "live",
                 frames |-> IF full /\ ~cut THEN frames \o <<Close>> ELSE frames,
                 stop |-> full, given |-> given, charge |-> Len(frames)]
<1>12. Opened(gap, ticks) = y
  <2>1. /\ gap \o t \o <<Close>> = f \o <<Close>>
        /\ gap \o t \o <<>> = f
    BY <1>6, <1>9, <1>10
  <2> QED BY <1>2, <1>3, <1>4, <1>5, <1>9, <2>1 DEF Opened
<1>13. /\ given \in MaybeTick
       /\ sent # <<>> => given = last - 1 /\ given # None
       /\ sent = <<>> => last = a /\ given = None
  <2>1. CASE sent = <<>>
    BY <1>1, <1>4, <1>8, <2>1, Len(<<>>) = 0 DEF MaybeTick
  <2>2. CASE sent # <<>>
    <3>1. m \in 1..m /\ m # 0
      BY <1>4, <2>2
    <3>2. Last(sent) = sent[m] /\ sent[m] = ticks[m] /\ sent[m] \in Nat
      BY <1>4, <3>1 DEF Last
    <3>3. ticks[m] = a + m - 1
      BY <1>2, <1>3, <3>1 DEF Suffix
    <3> QED BY <1>1, <1>8, <2>2, <3>1, <3>2, <3>3 DEF MaybeTick
  <2> QED BY <2>1, <2>2
<1>14. CASE cut
  <2>1. PICK size \in Nat : size = Len(f) /\ size >= m /\ m = MaxReplay
    BY <1>1, <1>3, <1>10, <1>11, <1>14
  <2>2. frames = f \o <<Close>> /\ full
    BY <1>1, <1>11, <1>14, <2>1
  <2>3. y.state = "ended" /\ y.frames = f \o <<Close>> /\ y \in Connection
    BY <1>11, <1>13, <1>14, <2>1, <2>2 DEF Connection
  <2> HIDE DEF y
  <2>4. ConnInv(y, l, h, r)
    BY <1>1, <1>8, <1>10, <2>3, OpensIs DEF LiveInv
  <2> QED BY <1>12, <2>3, <2>4
<1>15. CASE ~cut
  <2>1. frames = f /\ m = n
    BY <1>1, <1>2, <1>3, <1>15
  <2>2. CASE full
    <3>1. y.state = "ended" /\ y.frames = f \o <<Close>> /\ y \in Connection
      BY <1>10, <1>11, <1>13, <1>15, <2>1, <2>2 DEF Connection
    <3> HIDE DEF y
    <3>2. ConnInv(y, l, h, r)
      BY <1>1, <1>8, <1>10, <3>1, OpensIs DEF LiveInv
    <3> QED BY <1>12, <3>1, <3>2
  <2>3. CASE ~full
    <3>1. y.state = "live" /\ y.frames = f /\ y.given = given /\ y \in Connection
      BY <1>10, <1>11, <1>13, <1>15, <2>1, <2>3 DEF Connection
    <3> HIDE DEF y, given
    <3>2. last = r.next
      BY <1>2, <1>8, <2>1
    <3>3. LiveInv(y, a, last, r)
      BY <1>13, <3>1, <3>2 DEF LiveInv
    <3>4. ConnInv(y, l, h, r)
      BY <1>1, <1>8, <1>9, <3>1, <3>3, OpensIs
    <3> QED BY <1>12, <3>1, <3>4
  <2> QED BY <2>2, <2>3
<1> QED BY <1>14, <1>15

-----------------------------------------------------------------------------
(* The steps *)

\* What the feed answers a sequence with is a suffix of the record, or a gap
\* that names where one begins.
LEMMA SinceFacts ==
  ASSUME Types, VenueInv, NEW from \in Nat
  PROVE  \/ Since(from).kind = "unknown"
         \/ Since(from).kind = "ticks" /\ Suffix(Since(from).ticks, from, record)
         \/ /\ Since(from).kind = "evicted" /\ Since(from).oldest \in Nat /\ from < Since(from).oldest
            /\ Suffix(Since(Since(from).oldest).ticks, Since(from).oldest, record)
<1>1. /\ None \notin Int /\ record.next \in Nat /\ record.head \in Nat /\ record.base \in Nat
      /\ record.base >= 1 /\ feed.to \in Nat /\ feed.from \in Int /\ feed.resumes \in MaybeTick
  BY StreamAssumption DEF Types, VenueInv, RecordInv
<1>2. FeedInv(feed, record)
  BY DEF VenueInv
<1>3. \A a : a = record.next => Suffix(<<>>, a, record)
  BY <1>1, Len(<<>>) = 0 DEF Suffix
<1>4. CASE Empty(feed) /\ feed.resumes # None
  <2>1. feed.resumes = record.next
    BY <1>2, <1>4 DEF FeedInv
  <2>2. Since(feed.resumes) = [kind |-> "ticks", ticks |-> <<>>]
    BY <1>1, <1>4, <2>1 DEF Since
  <2>3. CASE from < feed.resumes
    <3>1. Since(from) = [kind |-> "evicted", oldest |-> feed.resumes]
      BY <1>4, <2>3 DEF Since
    <3> QED BY <1>1, <1>3, <2>1, <2>2, <2>3, <3>1
  <2>4. CASE from > feed.resumes
    <3>1. Since(from) = [kind |-> "unknown"]
      BY <1>1, <1>4, <2>1, <2>4 DEF Since
    <3> QED BY <3>1
  <2>5. CASE from = feed.resumes
    BY <1>3, <2>1, <2>2, <2>5
  <2> QED BY <1>1, <2>1, <2>3, <2>4, <2>5
<1>5. CASE Empty(feed) /\ feed.resumes = None
  <2>1. record.next = 1
    BY <1>2, <1>5 DEF FeedInv
  <2>2. CASE from = 1
    <3>1. Since(from) = [kind |-> "ticks", ticks |-> <<>>]
      BY <1>5, <2>2 DEF Since
    <3> QED BY <1>3, <2>1, <2>2, <3>1
  <2>3. CASE from # 1
    <3>1. Since(from) = [kind |-> "unknown"]
      BY <1>5, <2>3 DEF Since
    <3> QED BY <3>1
  <2> QED BY <2>2, <2>3
<1>6. CASE ~Empty(feed)
  <2>1. /\ feed.to = record.head /\ record.next = record.head + 1 /\ feed.from \in record.base..feed.to
        /\ feed.from \in Nat /\ feed.from <= feed.to
    BY <1>1, <1>2, <1>6 DEF FeedInv
  <2>2. ASSUME NEW a \in Nat, a >= feed.from, a <= feed.to + 1
        PROVE  Since(a) = [kind |-> "ticks", ticks |-> Run(a, feed.to)] /\ Suffix(Run(a, feed.to), a, record)
    <3>1. Since(a) = [kind |-> "ticks", ticks |-> Run(a, feed.to)]
      BY <1>1, <1>6, <2>1, <2>2 DEF Since
    <3>2. /\ Run(a, feed.to) \in Seq(Nat) /\ Len(Run(a, feed.to)) = feed.to - a + 1
          /\ \A i \in 1..(feed.to - a + 1) : Run(a, feed.to)[i] = a + i - 1
      BY <1>1, <2>2, RunFacts
    <3>3. a + (feed.to - a + 1) = record.next /\ record.head = record.next - 1
      BY <1>1, <2>1
    <3> QED BY <3>1, <3>2, <3>3 DEF Suffix
  <2>3. CASE from < feed.from
    <3>1. Since(from) = [kind |-> "evicted", oldest |-> feed.from]
      BY <1>6, <2>3 DEF Since
    <3>2. Since(feed.from).ticks = Run(feed.from, feed.to) /\ Suffix(Run(feed.from, feed.to), feed.from, record)
      BY <1>1, <2>1, <2>2
    <3> QED BY <2>1, <2>3, <3>1, <3>2
  <2>4. CASE from > feed.to + 1
    <3>1. Since(from) = [kind |-> "unknown"]
      BY <1>1, <1>6, <2>1, <2>4 DEF Since
    <3> QED BY <3>1
  <2>5. CASE from >= feed.from /\ from <= feed.to + 1
    <3>1. Since(from) = [kind |-> "ticks", ticks |-> Run(from, feed.to)] /\ Suffix(Run(from, feed.to), from, record)
      BY <2>2, <2>5
    <3> QED BY <3>1
  <2> QED BY <1>1, <2>1, <2>3, <2>4, <2>5
<1> QED BY <1>4, <1>5, <1>6

\* What a client asks for is what it has not been told.
LEMMA AsksFrom ==
  ASSUME NEW x, NEW k \in Subscription, NEW h \in Account, NEW r, RecordInv(r), ClientInv(x, k, h, r),
         k.state = "connecting"
  PROVE  /\ k.from = None => k.delivered = None /\ h.handed = None /\ h.expects = None
         /\ k.from # None => /\ k.from \in Nat
                             /\ k.delivered # None => k.from = k.delivered + 1 /\ k.delivered < r.next
                             /\ h.expects # None => h.expects = k.from
                             /\ h.handed # None => Told(h, k.from) /\ h.handed < r.next /\ h.handed < k.from
                             /\ \A s \in (h.handed + 1)..(k.from - 1) : h.handed # None => s \in h.hole
<1>1. AsksInv(k, h, r) /\ HeardInv(h, r) /\ (k.delivered # None => k.from = k.delivered + 1)
  BY DEF ClientInv
<1>2. /\ k.delivered \in MaybeTick /\ k.from \in MaybeTick /\ h.handed \in MaybeTick
      /\ r.head \in Nat /\ r.next \in Nat /\ r.head < r.next /\ None \notin Int
  BY StreamAssumption DEF Subscription, Account, RecordInv
<1>3. k.delivered # None => k.from # None /\ k.from = k.delivered + 1
  BY <1>1, <1>2 DEF MaybeTick
<1>4. k.from = None => k.delivered = None /\ h.handed = None /\ h.expects = None
  BY <1>1, <1>3 DEF AsksInv
<1>5. ASSUME k.from # None, h.handed # None PROVE Told(h, k.from) /\ h.handed < r.next
  BY <1>1, <1>2, <1>3, <1>5 DEF AsksInv, HeardInv, MaybeTick
<1>6. ASSUME k.from # None, h.handed # None
      PROVE  h.handed < k.from /\ \A s \in (h.handed + 1)..(k.from - 1) : s \in h.hole
  BY <1>5, <1>6 DEF Told
<1> QED BY <1>1, <1>2, <1>3, <1>4, <1>5, <1>6 DEF AsksInv, MaybeTick

\* A stream is opened with what its client goes on with, or a gap.
LEMMA AnswerStands ==
  ASSUME Types, VenueInv, NEW x, NEW k \in Subscription, NEW h \in Account, ClientInv(x, k, h, record),
         k.state = "connecting", NEW others,
         NEW l, l.state = "reading", l.delivered = k.delivered, l.anywhere = k.anywhere
  PROVE  /\ Answer(k.from, others) \in Connection
         /\ ConnInv(Answer(k.from, others), l, h, record)
<1>1. RecordInv(record) /\ record.next \in Nat /\ record.head \in Nat /\ None \notin Int
  BY StreamAssumption DEF VenueInv, RecordInv
<1>2. Suffix(<<>>, record.next, record)
  BY <1>1, Len(<<>>) = 0 DEF Suffix
<1>3. CASE k.from = None
  <2>1. Answer(k.from, others) = Opened(<<>>, <<>>)
    BY <1>3 DEF Answer
  <2>2. Leads(<<>>, k, h, record.next)
    BY <1>1, <1>3, AsksFrom DEF Follows, Leads
  <2> QED BY <1>1, <1>2, <2>1, <2>2, OpenedStands
<1>4. CASE k.from # None
  <2>1. k.from \in Nat
    BY <1>1, <1>4, AsksFrom
  <2>2. CASE Answer(k.from, others) = Opened(<<Gap(k.from, None)>>, <<>>)
    <3>1. PICK gap \in Frame : /\ gap = Gap(k.from, None) /\ gap.kind = "gap" /\ gap.requested = k.from
                               /\ gap.resumes = None
      <4>1. None \in MaybeTick
        BY DEF MaybeTick
      <4>2. [kind |-> "gap", requested |-> k.from, resumes |-> None] \in Frame
        BY <2>1, <4>1 DEF Frame
      <4> QED BY <4>2 DEF Gap
    <3>2. FollowsGap(k, h, gap, record.next)
      BY <1>1, <1>4, <3>1, AsksFrom DEF FollowsGap
    <3>3. Leads(<<Gap(k.from, None)>>, k, h, record.next)
      BY <3>1, <3>2 DEF Leads
    <3> QED BY <1>1, <1>2, <2>2, <3>3, OpenedStands
  <2>3. CASE Since(k.from).kind = "unknown"
    <3>1. PICK f : f = Since(k.from) /\ f.kind = "unknown"
      BY <2>3
    <3>2. Answer(k.from, others) = Opened(<<Gap(k.from, None)>>, <<>>)
      BY <1>4, <3>1 DEF Answer
    <3> QED BY <2>2, <3>2
  <2>4. CASE Since(k.from).kind = "ticks" /\ Suffix(Since(k.from).ticks, k.from, record)
    <3>1. \/ Answer(k.from, others) = Opened(<<>>, Since(k.from).ticks)
          \/ Answer(k.from, others) = Opened(<<Gap(k.from, None)>>, <<>>)
      BY <1>4, <2>4 DEF Answer
    <3>2. Leads(<<>>, k, h, k.from)
      <4>1. k.delivered # None => k.from = k.delivered + 1 /\ k.delivered < k.from
        <5>1. k.delivered # None => k.delivered \in Nat
          BY DEF Subscription, MaybeTick
        <5>2. k.delivered # None => k.from = k.delivered + 1
          BY <1>1, <1>4, AsksFrom
        <5> QED BY <5>1, <5>2
      <4>2. h.expects # None => h.expects = k.from
        BY <1>1, <1>4, AsksFrom
      <4>3. h.handed # None => h.handed < k.from /\ \A s \in (h.handed + 1)..(k.from - 1) : s \in h.hole
        BY <1>1, <1>4, AsksFrom
      <4>4. Follows(k, h, k.from)
        BY <4>1, <4>2, <4>3 DEF Follows
      <4> QED BY <4>4 DEF Leads
    <3>3. CASE Answer(k.from, others) = Opened(<<>>, Since(k.from).ticks)
      BY <1>1, <2>4, <3>2, <3>3, OpenedStands
    <3> QED BY <2>2, <3>1, <3>3
  <2>5. CASE /\ Since(k.from).kind = "evicted" /\ Since(k.from).oldest \in Nat /\ k.from < Since(k.from).oldest
             /\ Suffix(Since(Since(k.from).oldest).ticks, Since(k.from).oldest, record)
    <3>1. PICK e \in Nat : e = Since(k.from).oldest /\ k.from < e
      BY <2>5
    <3>2. \/ Answer(k.from, others) = Opened(<<Gap(k.from, e)>>, Since(e).ticks)
          \/ Answer(k.from, others) = Opened(<<Gap(k.from, None)>>, <<>>)
      BY <1>4, <2>5, <3>1 DEF Answer
    <3>3. PICK gap \in Frame : /\ gap = Gap(k.from, e) /\ gap.kind = "gap" /\ gap.requested = k.from
                               /\ gap.resumes = e
      <4>1. e \in MaybeTick
        BY <3>1 DEF MaybeTick
      <4>2. [kind |-> "gap", requested |-> k.from, resumes |-> e] \in Frame
        BY <2>1, <4>1 DEF Frame
      <4> QED BY <4>2 DEF Gap
    <3>4. FollowsGap(k, h, gap, e)
      <4>1. k.delivered # None => k.delivered < e /\ k.from = k.delivered + 1
        <5>1. k.delivered \in MaybeTick
          BY DEF Subscription
        <5>2. k.delivered # None => k.from = k.delivered + 1
          BY <1>1, <1>4, AsksFrom
        <5> QED BY <1>1, <3>1, <5>1, <5>2 DEF MaybeTick
      <4>2. h.handed # None => h.handed < e /\ Told(h, k.from)
        <5>1. h.handed \in MaybeTick
          BY DEF Account
        <5>2. h.handed # None => h.handed < k.from /\ Told(h, k.from)
          BY <1>1, <1>4, AsksFrom
        <5> QED BY <1>1, <2>1, <3>1, <5>1, <5>2 DEF MaybeTick
      <4> QED BY <3>1, <3>3, <4>1, <4>2 DEF FollowsGap
    <3>5. CASE Answer(k.from, others) = Opened(<<Gap(k.from, e)>>, Since(e).ticks)
      <4>1. Leads(<<Gap(k.from, e)>>, k, h, e)
        BY <3>3, <3>4 DEF Leads
      <4>2. Suffix(Since(e).ticks, e, record)
        BY <2>5, <3>1
      <4> QED BY <1>1, <3>5, <4>1, <4>2, OpenedStands
    <3> QED BY <2>2, <3>2, <3>5
  <2> QED BY <2>1, <2>3, <2>4, <2>5, SinceFacts
<1> QED BY <1>3, <1>4

\* Nothing is heard and nothing hangs on a client at first.
LEMMA InitInv == Init => IInv
<1> SUFFICES ASSUME Init PROVE IInv
  OBVIOUS
<1>1. None \notin Int /\ MaxReconnects \in Nat /\ MaxSequence \in Nat
  BY StreamAssumption
<1>2. NoConnection \in Connection
  BY DEF NoConnection, Connection, MaybeTick
<1>3. NotCalled \in Subscription
  BY <1>1 DEF NotCalled, Subscription, MaybeTick
<1>4. [handed |-> None, hole |-> {}, expects |-> None, quoted |-> None] \in Account
  BY DEF Account, MaybeTick
<1>5. conn \in [Clients -> Connection] /\ client \in [Clients -> Subscription] /\ heard \in [Clients -> Account]
  BY <1>2, <1>3, <1>4 DEF Init
<1>6. Types
  <2>1. record \in [head : Nat, base : Nat, next : Nat]
    BY DEF Init
  <2>2. feed \in [from : Int, to : Nat, resumes : MaybeTick]
    BY DEF Init, MaybeTick
  <2>3. inForce \in [tick : MaybeTick, stalled : BOOLEAN]
    BY DEF Init, MaybeTick
  <2> QED BY <1>5, <2>1, <2>2, <2>3 DEF Types
<1>7. VenueInv
  <2>1. RecordInv(record)
    BY <1>1 DEF Init, RecordInv
  <2>2. FeedInv(feed, record)
    BY DEF Init, FeedInv, Empty
  <2> QED BY <2>1, <2>2 DEF Init, VenueInv
<1>8. ASSUME NEW c \in Clients PROVE ClientInv(conn[c], client[c], heard[c], record)
  <2>1. conn[c] = NoConnection /\ client[c] = NotCalled
        /\ heard[c] = [handed |-> None, hole |-> {}, expects |-> None, quoted |-> None]
    BY DEF Init
  <2>2. conn[c].state = "none" /\ conn[c].frames = <<>> /\ client[c].state = "idle"
    BY <2>1 DEF NoConnection, NotCalled
  <2>3. heard[c].handed = None /\ heard[c].quoted = None
    BY <2>1
  <2> QED BY <2>2, <2>3 DEF ClientInv, HeardInv, ConnInv
<1> QED BY <1>6, <1>7, <1>8 DEF IInv

\* A step of one client that leaves the venue and the others alone.
LEMMA OneClient ==
  ASSUME IInv, NEW c \in Clients, NEW x \in Connection, NEW k \in Subscription, NEW h \in Account,
         ClientInv(x, k, h, record), UNCHANGED <<record, feed, inForce>>,
         conn' = [conn EXCEPT ![c] = x], client' = [client EXCEPT ![c] = k],
         heard' = [heard EXCEPT ![c] = h]
  PROVE  IInv'
<1>1. Types /\ VenueInv /\ \A d \in Clients : ClientInv(conn[d], client[d], heard[d], record)
  BY DEF IInv
<1>2. /\ conn' \in [Clients -> Connection] /\ client' \in [Clients -> Subscription]
      /\ heard' \in [Clients -> Account]
  BY <1>1 DEF Types
<1>3. Types'
  BY <1>1, <1>2 DEF Types
<1>4. VenueInv'
  BY <1>1 DEF VenueInv, FeedInv, Empty
<1>5. ASSUME NEW d \in Clients PROVE ClientInv(conn[d], client[d], heard[d], record)'
  <2>1. CASE d = c
    <3>1. conn'[d] = x /\ client'[d] = k /\ heard'[d] = h /\ record' = record
      BY <1>1, <2>1 DEF Types
    <3> QED BY <3>1
  <2>2. CASE d # c
    <3>1. conn'[d] = conn[d] /\ client'[d] = client[d] /\ heard'[d] = heard[d] /\ record' = record
      BY <1>1, <2>2 DEF Types
    <3>2. ClientInv(conn[d], client[d], heard[d], record)
      BY <1>1
    <3> QED BY <3>1, <3>2
  <2> QED BY <2>1, <2>2
<1> QED BY <1>3, <1>4, <1>5 DEF IInv

-----------------------------------------------------------------------------
(* The steps of a client *)

\* What the invariant says of one of them.
LEMMA OfClient ==
  ASSUME IInv, NEW c \in Clients
  PROVE  /\ conn \in [Clients -> Connection] /\ client \in [Clients -> Subscription]
         /\ heard \in [Clients -> Account]
         /\ conn[c] \in Connection /\ client[c] \in Subscription /\ heard[c] \in Account
         /\ conn[c].frames \in Seq(Frame)
         /\ ClientInv(conn[c], client[c], heard[c], record) /\ RecordInv(record)
         /\ HeardInv(heard[c], record) /\ ConnInv(conn[c], client[c], heard[c], record)
<1>1. /\ conn \in [Clients -> Connection] /\ client \in [Clients -> Subscription]
      /\ heard \in [Clients -> Account]
  BY DEF IInv, Types
<1>2. conn[c] \in Connection /\ client[c] \in Subscription /\ heard[c] \in Account
  BY <1>1
<1>3. ClientInv(conn[c], client[c], heard[c], record) /\ RecordInv(record)
  BY DEF IInv, VenueInv
<1>4. conn[c].frames \in Seq(Frame)
  BY <1>2 DEF Connection
<1> QED BY <1>1, <1>2, <1>3, <1>4 DEF ClientInv

\* A connection whose stream is gone.
LEMMA NoneIs ==
  /\ NoConnection \in Connection /\ NoConnection.state = "none" /\ NoConnection.frames = <<>>
  /\ \A x : x.state # "none" => Lost(x) \in Connection /\ Lost(x).state = "lost" /\ Lost(x).frames = <<>>
<1>1. NoConnection \in Connection /\ NoConnection.state = "none" /\ NoConnection.frames = <<>>
  <2>1. <<>> \in Seq(Frame) /\ None \in MaybeTick
    BY DEF MaybeTick
  <2> QED BY <2>1 DEF NoConnection, Connection
<1>2. PICK y : y = [NoConnection EXCEPT !.state = "lost"]
  OBVIOUS
<1>3. y \in Connection /\ y.state = "lost" /\ y.frames = <<>>
  BY <1>1, <1>2 DEF Connection
<1>4. \A x : x.state # "none" => Lost(x) = y
  BY <1>2 DEF Lost
<1> QED BY <1>1, <1>3, <1>4

\* A stream is opened.
LEMMA ConnectInv ==
  ASSUME IInv, NEW c \in Clients, NEW others, Connect(c, others)
  PROVE  IInv'
<1>1. PICK x : x = Answer(client[c].from, others)
  OBVIOUS
<1>2. PICK k : k = [client[c] EXCEPT !.state = "reading"]
  OBVIOUS
<1>3. /\ conn' = [conn EXCEPT ![c] = x] /\ client' = [client EXCEPT ![c] = k]
      /\ heard' = [heard EXCEPT ![c] = heard[c]] /\ client[c].state = "connecting"
      /\ UNCHANGED <<record, feed, inForce>>
  BY <1>1, <1>2, OfClient DEF Connect
<1>4. /\ k \in Subscription /\ k.state = "reading" /\ k.delivered = client[c].delivered
      /\ k.anywhere = client[c].anywhere /\ k.from = client[c].from
  BY <1>2, OfClient DEF Subscription
<1>5. Types /\ VenueInv
  BY DEF IInv
<1>6. x \in Connection /\ ConnInv(x, k, heard[c], record)
  BY <1>1, <1>3, <1>4, <1>5, OfClient, AnswerStands
<1>7. AsksInv(k, heard[c], record)
  <2>1. AsksInv(client[c], heard[c], record)
    BY <1>3, OfClient DEF ClientInv
  <2> QED BY <1>4, <2>1 DEF AsksInv
<1>8. ClientInv(x, k, heard[c], record)
  BY <1>4, <1>6, <1>7, OfClient DEF ClientInv
<1> QED BY <1>3, <1>4, <1>6, <1>8, OfClient, OneClient

\* A beat is written.
LEMMA HeartbeatInv ==
  ASSUME IInv, NEW c \in Clients, Heartbeat(c)
  PROVE  IInv'
<1>1. inForce.tick = record.head /\ record.head \in Nat /\ conn[c].state = "live"
      /\ conn[c].given \in {None, record.head}
  BY DEF IInv, VenueInv, RecordInv, Heartbeat, Owed
<1>2. PICK b : b = <<Beat(record.head)>>
  OBVIOUS
<1>3. b \in Seq(Frame)
  <2>1. Beat(record.head) \in Frame
    BY <1>1 DEF Beat, Frame
  <2> QED BY <1>2, <2>1
<1>4. PICK all \in Seq(Frame) : all = conn[c].frames \o b
  <2>1. PICK f \in Seq(Frame) : f = conn[c].frames
    BY OfClient
  <2>2. f \o b \in Seq(Frame)
    BY <1>3
  <2> QED BY <2>1, <2>2
<1>5. PICK stop \in BOOLEAN : stop = (conn[c].stop \/ Len(all) >= HighWater)
  OBVIOUS
<1>6. PICK x : x = [conn[c] EXCEPT !.frames = all, !.stop = stop]
  OBVIOUS
<1>7. conn[c] \in Connection
  BY OfClient
<1>8. /\ x \in Connection /\ x.frames = all /\ x.state = conn[c].state /\ x.given = conn[c].given
  BY <1>6, <1>7 DEF Connection
<1>9. Written(conn[c], b) = x
  BY <1>4, <1>5, <1>6 DEF Written
<1>10. /\ conn' = [conn EXCEPT ![c] = x] /\ client' = [client EXCEPT ![c] = client[c]]
       /\ heard' = [heard EXCEPT ![c] = heard[c]] /\ UNCHANGED <<record, feed, inForce>>
  BY <1>1, <1>2, <1>9, OfClient DEF Heartbeat
<1>11. ConnInv(x, client[c], heard[c], record)
  BY <1>1, <1>2, <1>4, <1>8, OfClient, BeatStands
<1>12. ClientInv(x, client[c], heard[c], record)
  BY <1>11, OfClient DEF ClientInv
<1> QED BY <1>8, <1>10, <1>12, OfClient, OneClient

\* A connection is lost.
LEMMA DropInv ==
  ASSUME IInv, NEW c \in Clients, Drop(c)
  PROVE  IInv'
<1>1. PICK x : x = Lost(conn[c])
  OBVIOUS
<1>2. conn[c].state \in {"live", "ended"}
  BY DEF Drop
<1>3. x \in Connection /\ x.state = "lost" /\ x.frames = <<>>
  BY <1>1, <1>2, NoneIs
<1>4. /\ conn' = [conn EXCEPT ![c] = x] /\ client' = [client EXCEPT ![c] = client[c]]
      /\ heard' = [heard EXCEPT ![c] = heard[c]] /\ UNCHANGED <<record, feed, inForce>>
  BY <1>1, OfClient DEF Drop
<1>5. ConnInv(x, client[c], heard[c], record)
  <2>1. client[c].state = "reading"
    BY <1>2, OfClient DEF ConnInv
  <2> QED BY <1>3, <2>1 DEF ConnInv
<1>6. ClientInv(x, client[c], heard[c], record)
  BY <1>5, OfClient DEF ClientInv
<1> QED BY <1>3, <1>4, <1>6, OfClient, OneClient

\* A caller subscribes.
LEMMA SubscribeInv ==
  ASSUME IInv, NEW c \in Clients, NEW from \in MaybeTick, Subscribe(c, from)
  PROVE  IInv'
<1>1. client[c].state = "idle" /\ (heard[c].handed # None => from = heard[c].handed + 1)
  BY DEF Subscribe
<1>2. PICK calls \in Int : calls = client[c].calls + 1
  <2>1. client[c].calls \in Int
    BY OfClient DEF Subscription
  <2> QED BY <2>1
<1>3. PICK k : k = [NotCalled EXCEPT !.state = "connecting", !.from = from, !.calls = calls]
  OBVIOUS
<1>4. PICK h : h = [heard[c] EXCEPT !.expects = None]
  OBVIOUS
<1>5. k \in Subscription /\ k.state = "connecting" /\ k.from = from /\ k.delivered = None
  <2>1. NotCalled \in Subscription /\ NotCalled.delivered = None
    BY StreamAssumption DEF NotCalled, Subscription, MaybeTick
  <2> QED BY <1>2, <1>3, <2>1 DEF Subscription
<1>6. /\ h \in Account /\ h.handed = heard[c].handed /\ h.quoted = heard[c].quoted
      /\ h.hole = heard[c].hole /\ h.expects = None
  BY <1>4, OfClient DEF Account, MaybeTick
<1>7. /\ conn' = [conn EXCEPT ![c] = conn[c]] /\ client' = [client EXCEPT ![c] = k]
      /\ heard' = [heard EXCEPT ![c] = h] /\ UNCHANGED <<record, feed, inForce>>
  BY <1>2, <1>3, <1>4, OfClient DEF Subscribe
<1>8. conn[c].state = "none"
  BY <1>1, OfClient DEF ConnInv
<1>9. ConnInv(conn[c], k, h, record)
  BY <1>5, <1>8, OfClient DEF ConnInv
<1>10. AsksInv(k, h, record)
  <2>1. ASSUME h.handed # None PROVE k.from # None /\ Told(h, k.from)
    <3>1. PICK d \in Nat : d = h.handed /\ k.from = d + 1
      BY <1>1, <1>5, <1>6, <2>1 DEF Account, MaybeTick
    <3> QED BY <3>1, StreamAssumption DEF Told
  <2> QED BY <1>5, <1>6, <2>1 DEF AsksInv
<1>11. HeardInv(h, record)
  BY <1>6, OfClient DEF HeardInv
<1>12. ClientInv(conn[c], k, h, record)
  BY <1>5, <1>9, <1>10, <1>11 DEF ClientInv
<1> QED BY <1>5, <1>6, <1>7, <1>12, OfClient, OneClient

\* A client finds its connection gone.
LEMMA LoseInv ==
  ASSUME IInv, NEW c \in Clients, NEW clean \in BOOLEAN, Lose(c, clean)
  PROVE  IInv'
<1>1. client[c].state = "reading" /\ conn[c].state = "lost"
  BY DEF Lose
<1>2. PICK state : state = IF ~clean THEN "failed" ELSE IF client[c].budget = 0 THEN "idle" ELSE "connecting"
  OBVIOUS
<1>3. PICK budget : budget = IF client[c].budget = 0 THEN 0 ELSE client[c].budget - 1
  OBVIOUS
<1>4. PICK from : from = IF client[c].delivered = None THEN client[c].from ELSE client[c].delivered + 1
  OBVIOUS
<1>5. PICK k : k = [client[c] EXCEPT !.state = state, !.budget = budget, !.from = from]
  OBVIOUS
<1>6. state \in {"failed", "idle", "connecting"}
  BY <1>2
<1>7. budget \in 0..MaxReconnects
  <2>1. client[c].budget \in 0..MaxReconnects /\ MaxReconnects \in Nat
    BY OfClient, StreamAssumption DEF Subscription
  <2> QED BY <1>3, <2>1
<1>8. from \in MaybeTick
  <2>1. client[c].from \in MaybeTick /\ client[c].delivered \in MaybeTick
    BY OfClient DEF Subscription
  <2> QED BY <1>4, <2>1 DEF MaybeTick
<1>9. /\ k \in Subscription /\ k.state = state /\ k.from = from /\ k.delivered = client[c].delivered
  BY <1>5, <1>6, <1>7, <1>8, OfClient DEF Subscription
<1>10. client' = [client EXCEPT ![c] = k]
  <2>1. client \in [Clients -> Subscription] /\ client[c] \in Subscription
    BY OfClient
  <2> QED BY <1>2, <1>3, <1>4, <1>5, <2>1 DEF Lose, Subscription
<1>11. /\ conn' = [conn EXCEPT ![c] = NoConnection]
       /\ heard' = [heard EXCEPT ![c] = heard[c]] /\ UNCHANGED <<record, feed, inForce>>
  BY OfClient DEF Lose
<1>12. ConnInv(NoConnection, k, heard[c], record)
  BY <1>6, <1>9, NoneIs DEF ConnInv
<1>13. AsksInv(k, heard[c], record)
  <2>1. AsksInv(client[c], heard[c], record)
    BY <1>1, OfClient DEF ClientInv
  <2> QED BY <1>4, <1>9, <2>1 DEF AsksInv
<1>14. ClientInv(NoConnection, k, heard[c], record)
  BY <1>4, <1>6, <1>9, <1>12, <1>13, OfClient DEF ClientInv
<1> QED BY <1>9, <1>10, <1>11, <1>14, NoneIs, OfClient, OneClient

\* What a client does with the frame it reads.
LEMMA ReadCases ==
  ASSUME IInv, NEW c \in Clients, Read(c)
  PROVE  /\ Reading(conn[c], client[c], heard[c], record)
         /\ UNCHANGED <<record, feed, inForce>>
         /\ \E frame \in Frame :
              /\ frame = conn[c].frames[1]
              /\ \/ /\ frame.kind = "gap" /\ ReadGap(c, frame)
                    /\ conn' = [conn EXCEPT ![c] = Consumed(conn[c])]
                 \/ /\ frame.kind = "tick" /\ ReadTick(c, frame.sequence)
                    /\ conn' = [conn EXCEPT ![c] = Consumed(conn[c])]
                 \/ /\ frame.kind = "beat" /\ heard' = [heard EXCEPT ![c].quoted = frame.sequence]
                    /\ conn' = [conn EXCEPT ![c] = Consumed(conn[c])] /\ UNCHANGED client
                 \/ /\ frame.kind = "close" /\ client' = [client EXCEPT ![c].state = "idle"]
                    /\ conn' = [conn EXCEPT ![c] = NoConnection] /\ UNCHANGED heard
<1>1. client[c].state = "reading" /\ conn[c].frames # <<>> /\ UNCHANGED <<record, feed, inForce>>
  BY DEF Read
<1>2. Reading(conn[c], client[c], heard[c], record)
  BY <1>1, OfClient DEF Reading
<1>3. PICK frame \in Frame : frame = Head(conn[c].frames) /\ frame = conn[c].frames[1]
  <2>1. PICK f \in Seq(Frame) : f = conn[c].frames /\ f # <<>>
    BY <1>1, OfClient
  <2>2. Head(f) = f[1] /\ f[1] \in Frame
    BY <2>1, TailFacts
  <2> QED BY <2>1, <2>2
<1>4. frame.kind \in {"gap", "tick", "beat", "close"}
  BY FrameFields
<1>5. CASE frame.kind = "gap"
  <2>1. ReadGap(c, frame) /\ conn' = [conn EXCEPT ![c] = Consumed(conn[c])]
    BY <1>3, <1>5 DEF Read
  <2> QED BY <1>1, <1>2, <1>3, <1>5, <2>1
<1>6. CASE frame.kind = "tick"
  <2>1. ReadTick(c, frame.sequence) /\ conn' = [conn EXCEPT ![c] = Consumed(conn[c])]
    BY <1>3, <1>6 DEF Read
  <2> QED BY <1>1, <1>2, <1>3, <1>6, <2>1
<1>7. CASE frame.kind = "beat"
  <2>1. heard' = [heard EXCEPT ![c].quoted = frame.sequence]
        /\ conn' = [conn EXCEPT ![c] = Consumed(conn[c])] /\ UNCHANGED client
    BY <1>3, <1>7 DEF Read
  <2> QED BY <1>1, <1>2, <1>3, <1>7, <2>1
<1>8. CASE frame.kind = "close"
  <2>1. client' = [client EXCEPT ![c].state = "idle"]
        /\ conn' = [conn EXCEPT ![c] = NoConnection] /\ UNCHANGED heard
    BY <1>3, <1>8 DEF Read
  <2> QED BY <1>1, <1>2, <1>3, <1>8, <2>1
<1> QED BY <1>4, <1>5, <1>6, <1>7, <1>8

\* The tick a client reads is the one it goes on with, so it is handed over.
LEMMA TickHanded ==
  ASSUME IInv, NEW c \in Clients, NEW n, Reading(conn[c], client[c], heard[c], record),
         conn[c].frames[1].kind = "tick", n = conn[c].frames[1].sequence, ReadTick(c, n)
  PROVE  \E k \in Subscription, h \in Account :
           /\ client' = [client EXCEPT ![c] = k] /\ heard' = [heard EXCEPT ![c] = h]
           /\ ClientInv(Consumed(conn[c]), k, h, record) /\ h.handed = n
           /\ heard[c].expects # None => n = heard[c].expects
           /\ heard[c].handed # None =>
                n > heard[c].handed /\ (heard[c].handed + 1)..(n - 1) \subseteq heard[c].hole
<1>1. PICK k : k = Handed(client[c], n)
  OBVIOUS
<1>2. PICK h : h = Anew(n)
  OBVIOUS
<1>3. /\ client[c].delivered # None => /\ ~(n <= client[c].delivered)
                                       /\ client[c].anywhere \/ n = client[c].delivered + 1
      /\ heard[c].expects # None => n = heard[c].expects
      /\ heard[c].handed # None =>
           n > heard[c].handed /\ (heard[c].handed + 1)..(n - 1) \subseteq heard[c].hole
      /\ k \in Subscription /\ h \in Account /\ ClientInv(Consumed(conn[c]), k, h, record)
  BY <1>1, <1>2, TickRead
<1>4. client' = [client EXCEPT ![c].delivered = n, ![c].anywhere = FALSE]
      /\ heard' = [heard EXCEPT ![c] = h]
  BY <1>2, <1>3 DEF ReadTick, Anew
<1>5. client' = [client EXCEPT ![c] = k]
  <2>1. client \in [Clients -> Subscription] /\ client[c] \in Subscription
    BY OfClient
  <2> QED BY <1>1, <1>4, <2>1 DEF Subscription, Handed
<1>6. h.handed = n
  BY <1>2 DEF Anew
<1> QED BY <1>3, <1>4, <1>5, <1>6

\* The same of a gap.
LEMMA GapTold ==
  ASSUME IInv, NEW c \in Clients, NEW gap, Reading(conn[c], client[c], heard[c], record),
         gap = conn[c].frames[1], gap.kind = "gap", ReadGap(c, gap)
  PROVE  \E k \in Subscription, h \in Account :
           /\ client' = [client EXCEPT ![c] = k] /\ heard' = [heard EXCEPT ![c] = h]
           /\ ClientInv(Consumed(conn[c]), k, h, record) /\ h.handed = heard[c].handed
<1>1. PICK moves : moves = (gap.resumes # None /\ (client[c].delivered = None \/ gap.resumes - 1 > client[c].delivered))
  OBVIOUS
<1>2. PICK k : k = Passed(client[c], gap, moves)
  OBVIOUS
<1>3. PICK h : h = Holed(heard[c], gap)
  OBVIOUS
<1>4. k \in Subscription /\ h \in Account /\ ClientInv(Consumed(conn[c]), k, h, record)
  BY <1>1, <1>2, <1>3, GapRead
<1>5. client' = [client EXCEPT ![c] = k] /\ heard' = [heard EXCEPT ![c] = h]
  <2>1. client \in [Clients -> Subscription] /\ client[c] \in Subscription
        /\ heard \in [Clients -> Account] /\ heard[c] \in Account
    BY OfClient
  <2>2. /\ client' = [client EXCEPT ![c].anywhere = @ \/ gap.resumes = None,
                                    ![c].delivered = IF moves THEN gap.resumes - 1 ELSE client[c].delivered]
        /\ heard' = [heard EXCEPT ![c].hole = @ \cup HoleOf(gap), ![c].expects = gap.resumes]
    BY <1>1 DEF ReadGap
  <2>3. client' = [client EXCEPT ![c] = k]
    BY <1>2, <2>1, <2>2 DEF Subscription, Passed
  <2>4. heard' = [heard EXCEPT ![c] = h]
    BY <1>3, <2>1, <2>2 DEF Account, Holed
  <2> QED BY <2>3, <2>4
<1>6. h.handed = heard[c].handed
  BY <1>3, OfClient DEF Account, Holed
<1> QED BY <1>4, <1>5, <1>6

\* A frame is read: the invariant stands, and whatever is handed over follows.
LEMMA ReadInv ==
  ASSUME IInv, NEW c \in Clients, Read(c)
  PROVE  /\ IInv'
         /\ \E h \in Account :
              /\ heard' = [heard EXCEPT ![c] = h]
              /\ h.handed # heard[c].handed =>
                   /\ heard[c].expects # None => h.handed = heard[c].expects
                   /\ heard[c].handed # None =>
                        /\ h.handed > heard[c].handed
                        /\ (heard[c].handed + 1)..(h.handed - 1) \subseteq heard[c].hole
<1>1. Reading(conn[c], client[c], heard[c], record) /\ UNCHANGED <<record, feed, inForce>>
  BY ReadCases
<1>2. PICK frame \in Frame :
        /\ frame = conn[c].frames[1]
        /\ \/ /\ frame.kind = "gap" /\ ReadGap(c, frame)
              /\ conn' = [conn EXCEPT ![c] = Consumed(conn[c])]
           \/ /\ frame.kind = "tick" /\ ReadTick(c, frame.sequence)
              /\ conn' = [conn EXCEPT ![c] = Consumed(conn[c])]
           \/ /\ frame.kind = "beat" /\ heard' = [heard EXCEPT ![c].quoted = frame.sequence]
              /\ conn' = [conn EXCEPT ![c] = Consumed(conn[c])] /\ UNCHANGED client
           \/ /\ frame.kind = "close" /\ client' = [client EXCEPT ![c].state = "idle"]
              /\ conn' = [conn EXCEPT ![c] = NoConnection] /\ UNCHANGED heard
  BY ReadCases
<1>3. Consumed(conn[c]) \in Connection
  BY <1>1, ConsumedIs DEF Reading
<1>4. CASE frame.kind = "gap" /\ ReadGap(c, frame) /\ conn' = [conn EXCEPT ![c] = Consumed(conn[c])]
  <2>1. PICK k \in Subscription, h \in Account :
          /\ client' = [client EXCEPT ![c] = k] /\ heard' = [heard EXCEPT ![c] = h]
          /\ ClientInv(Consumed(conn[c]), k, h, record) /\ h.handed = heard[c].handed
    BY <1>1, <1>2, <1>4, GapTold
  <2>2. IInv'
    BY <1>1, <1>3, <1>4, <2>1, OneClient
  <2> QED BY <2>1, <2>2
<1>5. CASE frame.kind = "tick" /\ ReadTick(c, frame.sequence) /\ conn' = [conn EXCEPT ![c] = Consumed(conn[c])]
  <2>1. PICK n : n = frame.sequence
    OBVIOUS
  <2>2. PICK k \in Subscription, h \in Account :
          /\ client' = [client EXCEPT ![c] = k] /\ heard' = [heard EXCEPT ![c] = h]
          /\ ClientInv(Consumed(conn[c]), k, h, record) /\ h.handed = n
          /\ heard[c].expects # None => n = heard[c].expects
          /\ heard[c].handed # None =>
               n > heard[c].handed /\ (heard[c].handed + 1)..(n - 1) \subseteq heard[c].hole
    BY <1>1, <1>2, <1>5, <2>1, TickHanded
  <2>3. IInv'
    BY <1>1, <1>3, <1>5, <2>2, OneClient
  <2> QED BY <2>2, <2>3
<1>6. CASE /\ frame.kind = "beat" /\ heard' = [heard EXCEPT ![c].quoted = frame.sequence]
           /\ conn' = [conn EXCEPT ![c] = Consumed(conn[c])] /\ UNCHANGED client
  <2>1. PICK b : b = frame.sequence
    OBVIOUS
  <2>2. PICK h : h = [heard[c] EXCEPT !.quoted = b]
    OBVIOUS
  <2>3. h \in Account /\ ClientInv(Consumed(conn[c]), client[c], h, record)
    BY <1>1, <1>2, <1>6, <2>1, <2>2, BeatRead
  <2>4. heard \in [Clients -> Account] /\ heard[c] \in Account
        /\ client \in [Clients -> Subscription] /\ client[c] \in Subscription
    BY OfClient
  <2>5. heard' = [heard EXCEPT ![c] = h] /\ h.handed = heard[c].handed
    BY <1>6, <2>1, <2>2, <2>4 DEF Account
  <2>6. client' = [client EXCEPT ![c] = client[c]]
    BY <1>6, <2>4
  <2>7. IInv'
    BY <1>1, <1>3, <1>6, <2>3, <2>4, <2>5, <2>6, OneClient
  <2> QED BY <2>3, <2>5, <2>7
<1>7. CASE /\ frame.kind = "close" /\ client' = [client EXCEPT ![c].state = "idle"]
           /\ conn' = [conn EXCEPT ![c] = NoConnection] /\ UNCHANGED heard
  <2>1. PICK k : k = [client[c] EXCEPT !.state = "idle"]
    OBVIOUS
  <2>2. heard \in [Clients -> Account] /\ heard[c] \in Account
        /\ client \in [Clients -> Subscription] /\ client[c] \in Subscription
    BY OfClient
  <2>3. k \in Subscription /\ k.state = "idle"
    BY <2>1, <2>2 DEF Subscription
  <2>4. client' = [client EXCEPT ![c] = k] /\ heard' = [heard EXCEPT ![c] = heard[c]]
    BY <1>7, <2>1, <2>2
  <2>5. ClientInv(NoConnection, k, heard[c], record)
    BY <2>3, NoneIs, OfClient DEF ClientInv, ConnInv
  <2>6. IInv'
    BY <1>1, <1>7, <2>2, <2>3, <2>4, <2>5, NoneIs, OneClient
  <2> QED BY <2>2, <2>4, <2>6
<1> QED BY <1>2, <1>4, <1>5, <1>6, <1>7

-----------------------------------------------------------------------------
(* The steps of the venue *)

\* A step of the venue, which leaves what its clients know alone.
LEMMA Everybody ==
  ASSUME IInv, UNCHANGED <<client, heard>>, Grown(record, record'),
         feed' \in [from : Int, to : Nat, resumes : MaybeTick],
         inForce' \in [tick : MaybeTick, stalled : BOOLEAN],
         inForce'.tick \in {None, record'.head}, FeedInv(feed', record'),
         conn' \in [Clients -> Connection],
         \A c \in Clients : ConnInv(conn'[c], client[c], heard[c], record')
  PROVE  IInv'
<1>1. Types /\ VenueInv /\ \A c \in Clients : ClientInv(conn[c], client[c], heard[c], record)
  BY DEF IInv
<1>2. RecordInv(record') /\ record' \in [head : Nat, base : Nat, next : Nat]
  BY DEF Grown, RecordInv
<1>3. Types'
  BY <1>1, <1>2 DEF Types
<1>4. VenueInv'
  BY <1>2 DEF VenueInv, FeedInv, Empty
<1>5. ASSUME NEW c \in Clients PROVE ClientInv(conn'[c], client'[c], heard'[c], record')
  <2>1. client'[c] = client[c] /\ heard'[c] = heard[c] /\ client[c] \in Subscription /\ heard[c] \in Account
    BY <1>1 DEF Types
  <2>2. /\ record.head \in Nat /\ record.next \in Nat /\ record'.head \in Nat /\ record'.next \in Nat
        /\ record.head <= record'.head /\ record.next <= record'.next
    BY DEF Grown, RecordInv
  <2>3. ClientInv(conn[c], client[c], heard[c], record)
    BY <1>1
  <2>4. HeardInv(heard[c], record')
    <3>1. heard[c].handed \in MaybeTick /\ heard[c].quoted \in MaybeTick
      BY <2>1 DEF Account
    <3>2. HeardInv(heard[c], record)
      BY <2>3 DEF ClientInv
    <3> QED BY <2>2, <3>1, <3>2 DEF HeardInv, MaybeTick
  <2>5. ASSUME client[c].state \in {"connecting", "reading"} PROVE AsksInv(client[c], heard[c], record')
    <3>1. client[c].delivered \in MaybeTick
      BY <2>1 DEF Subscription
    <3>2. AsksInv(client[c], heard[c], record)
      BY <2>3, <2>5 DEF ClientInv
    <3> QED BY <2>2, <3>1, <3>2 DEF AsksInv, MaybeTick
  <2>6. ClientInv(conn'[c], client[c], heard[c], record')
    BY <2>3, <2>4, <2>5 DEF ClientInv
  <2> QED BY <2>1, <2>6
<1> QED BY <1>3, <1>4, <1>5 DEF IInv

\* What is written to a connection, and a close after it.
LEMMA WrittenIs ==
  ASSUME NEW x \in Connection, NEW b \in Seq(Frame)
  PROVE  /\ Written(x, b) \in Connection /\ Written(x, b).frames = x.frames \o b
         /\ Written(x, b).state = x.state /\ Written(x, b).given = x.given
<1>1. PICK f \in Seq(Frame) : f = x.frames
  BY DEF Connection
<1>2. PICK all \in Seq(Frame) : all = f \o b
  <2>1. f \o b \in Seq(Frame)
    OBVIOUS
  <2> QED BY <2>1
<1>3. PICK stop \in BOOLEAN : stop = (x.stop \/ Len(all) >= HighWater)
  OBVIOUS
<1>4. Written(x, b) = [x EXCEPT !.frames = all, !.stop = stop]
  BY <1>1, <1>2, <1>3 DEF Written
<1> QED BY <1>1, <1>2, <1>4 DEF Connection

\* A stream that is closed.
LEMMA ClosedIs ==
  ASSUME NEW x \in Connection
  PROVE  /\ Closed(x) \in Connection /\ Closed(x).frames = x.frames \o <<Close>>
         /\ Closed(x).state = "ended"
<1>1. <<Close>> \in Seq(Frame)
  <2>1. Close \in Frame
    BY DEF Close, Frame
  <2> QED BY <2>1
<1>2. PICK w \in Connection : w = Written(x, <<Close>>) /\ w.frames = x.frames \o <<Close>>
  BY <1>1, WrittenIs
<1>3. Closed(x) = [w EXCEPT !.state = "ended"]
  BY <1>2 DEF Closed
<1> QED BY <1>2, <1>3 DEF Connection

\* A charge is given back.
LEMMA ReleasedIs ==
  ASSUME NEW x \in Connection
  PROVE  /\ [x EXCEPT !.charge = 0] \in Connection /\ [x EXCEPT !.charge = 0].frames = x.frames
         /\ [x EXCEPT !.charge = 0].state = x.state
BY DEF Connection

\* The frames of ticks.
FramesOf(ticks) == [i \in DOMAIN ticks |-> Tick(ticks[i])]

\* A run of n sequences.
Spans(first, n, last) ==
  first \in Nat /\ n \in Nat \ {0} /\ last \in Nat /\ last = first + n - 1

\* The frames of a run.
LEMMA RunFrames ==
  ASSUME NEW first, NEW n, NEW last, Spans(first, n, last)
  PROVE  \E b \in Seq(Frame) :
           /\ b = FramesOf(Run(first, last))
           /\ Len(b) = n /\ \A i \in 1..n : b[i] = Tick(first + i - 1)
           /\ Last(Run(first, last)) = last
<1>1. /\ first \in Nat /\ last \in Nat /\ n \in Nat \ {0}
      /\ first <= last + 1 /\ last - first + 1 = n /\ last = first + n - 1
  BY DEF Spans
<1>2. /\ Run(first, last) \in Seq(Nat) /\ Len(Run(first, last)) = n
      /\ \A i \in 1..n : Run(first, last)[i] = first + i - 1
  <2>1. /\ Run(first, last) \in Seq(Nat) /\ Len(Run(first, last)) = last - first + 1
        /\ \A i \in 1..(last - first + 1) : Run(first, last)[i] = first + i - 1
    BY <1>1, RunFacts
  <2> QED BY <1>1, <2>1
<1>3. PICK ticks \in Seq(Nat) : ticks = Run(first, last)
  BY <1>2
<1>4. DOMAIN ticks = 1..n
  BY <1>2, <1>3
<1>5. PICK b : b = [i \in 1..n |-> Tick(ticks[i])]
  OBVIOUS
<1>6. \A i \in 1..n : b[i] = Tick(first + i - 1) /\ b[i] \in Frame
  <2> SUFFICES ASSUME NEW i \in 1..n PROVE b[i] = Tick(first + i - 1) /\ b[i] \in Frame
    OBVIOUS
  <2>1. first + i - 1 \in Nat
    BY <1>1
  <2>2. b[i] = Tick(first + i - 1)
    BY <1>2, <1>3, <1>5
  <2>3. Tick(first + i - 1) \in Frame
    BY <2>1 DEF Tick, Frame
  <2> QED BY <2>2, <2>3
<1>7. b \in Seq(Frame) /\ Len(b) = n
  BY <1>1, <1>5, <1>6
<1>8. Last(ticks) = last
  <2>1. n \in 1..n /\ Len(ticks) = n
    BY <1>1, <1>2, <1>3
  <2>2. ticks[n] = first + n - 1
    BY <1>2, <1>3, <2>1
  <2> QED BY <1>1, <2>1, <2>2 DEF Last
<1>9. b = FramesOf(Run(first, last))
  BY <1>3, <1>4, <1>5 DEF FramesOf
<1> QED BY <1>3, <1>6, <1>7, <1>8, <1>9

\* The ticks of a pass are delivered, and the stream closed if its socket says stop.
LEMMA DeliverStands ==
  ASSUME NEW x \in Connection, NEW k, NEW h, NEW r, NEW s, Grown(r, s), x.state = "live", ConnInv(x, k, h, r),
         NEW n \in Nat \ {0}, s.head = r.next + n - 1, s.next = r.next + n
  PROVE  Deliver(x, Run(r.next, s.head)) \in Connection
         /\ ConnInv(Deliver(x, Run(r.next, s.head)), k, h, s)
<1>1. r.next \in Nat /\ s.head \in Nat /\ Grown(s, s)
  BY DEF Grown, RecordInv
<1>2. PICK first \in Nat, last \in Nat : first = r.next /\ last = s.head /\ last = first + n - 1
  BY <1>1
<1>3. PICK b \in Seq(Frame) :
        /\ b = FramesOf(Run(first, last))
        /\ Len(b) = n /\ \A i \in 1..n : b[i] = Tick(first + i - 1)
        /\ Last(Run(first, last)) = last
  <2>1. Spans(first, n, last)
    BY <1>2 DEF Spans
  <2> QED BY <2>1, RunFrames
<1>4. PICK v \in Connection : v = Written(x, b) /\ v.frames = x.frames \o b /\ v.state = "live"
  BY WrittenIs
<1>5. PICK w : w = [v EXCEPT !.given = last]
  OBVIOUS
<1>6. w \in Connection /\ w.frames = x.frames \o b /\ w.state = "live" /\ w.given = last
  BY <1>4, <1>5 DEF Connection, MaybeTick
<1>7. ConnInv(w, k, h, s)
  <2>1. w.given = s.head /\ \A i \in 1..n : b[i] = Tick(r.next + i - 1)
    BY <1>2, <1>3, <1>6
  <2>2. Continues(b, n, r, s)
    BY <1>3, <2>1 DEF Continues
  <2> QED BY <1>6, <2>1, <2>2, TicksStand
<1>8. Deliver(x, Run(first, last)) = IF w.stop THEN Closed(w) ELSE w
  BY <1>3, <1>4, <1>5 DEF Deliver, FramesOf
<1>9. Closed(w) \in Connection /\ ConnInv(Closed(w), k, h, s)
  BY <1>1, <1>6, <1>7, ClosedIs, ClosedStands
<1> QED BY <1>2, <1>6, <1>7, <1>8, <1>9

\* A pass that only names the price in force.
LEMMA QuietPassInv ==
  ASSUME IInv, Pass(0)
  PROVE  IInv'
<1>1. inForce' = [inForce EXCEPT !.tick = record.head] /\ UNCHANGED <<record, feed, conn, client, heard>>
  BY DEF Pass
<1>2. Types /\ VenueInv /\ \A c \in Clients : ClientInv(conn[c], client[c], heard[c], record)
  BY DEF IInv
<1>3. inForce' \in [tick : MaybeTick, stalled : BOOLEAN] /\ inForce'.tick = record.head
  <2>1. record.head \in MaybeTick /\ inForce \in [tick : MaybeTick, stalled : BOOLEAN]
    BY <1>2 DEF Types, MaybeTick
  <2> QED BY <1>1, <2>1
<1>4. Grown(record, record') /\ record' = record /\ feed' = feed /\ conn' = conn
  BY <1>1, <1>2 DEF VenueInv, Grown, RecordInv
<1>5. FeedInv(feed', record') /\ feed' \in [from : Int, to : Nat, resumes : MaybeTick]
      /\ conn' \in [Clients -> Connection]
  BY <1>2, <1>4 DEF VenueInv, Types
<1>6. \A c \in Clients : ConnInv(conn'[c], client[c], heard[c], record')
  BY <1>2, <1>4 DEF ClientInv
<1> QED BY <1>1, <1>3, <1>4, <1>5, <1>6, Everybody

\* The larger of two numbers.
LEMMA LargerOf == ASSUME NEW a \in Int, NEW b \in Int
                  PROVE  Larger(a, b) \in Int /\ Larger(a, b) >= a /\ Larger(a, b) >= b /\ Larger(a, b) \in {a, b}
BY DEF Larger

\* A pass with ticks.
LEMMA PassInv ==
  ASSUME IInv, NEW n \in Nat \ {0}, Pass(n)
  PROVE  IInv'
<1>1. Types /\ VenueInv /\ \A c \in Clients : ClientInv(conn[c], client[c], heard[c], record)
  BY DEF IInv
<1>2. PICK first \in Nat, head \in Nat, base \in Nat :
        /\ first = record.next /\ head = record.head /\ base = record.base
        /\ base >= 1 /\ base <= head + 1 /\ (head # 0 => base <= head) /\ head < first
  BY <1>1 DEF VenueInv, RecordInv
<1>3. PICK last \in Nat : last = first + n - 1 /\ last >= first /\ last + 1 = first + n
  BY <1>2
<1>4. PICK run \in Nat : run = (IF first = head + 1 THEN base ELSE first) /\ run >= 1 /\ run <= first
  BY <1>2
<1>5. /\ last <= MaxSequence
      /\ record' = [head |-> last, next |-> last + 1, base |-> run]
      /\ feed' = Extended(feed, first, last)
      /\ conn' = [c \in Clients |-> IF conn[c].state = "live" THEN Deliver(conn[c], Run(first, last)) ELSE conn[c]]
      /\ inForce' = [tick |-> last, stalled |-> FALSE]
      /\ UNCHANGED <<client, heard>>
  BY <1>2, <1>3, <1>4 DEF Pass
<1>6. record'.head = last /\ record'.next = last + 1 /\ record'.base = run
  BY <1>5
<1>7. RecordInv(record')
  BY <1>3, <1>4, <1>5, <1>6 DEF RecordInv
<1>8. Grown(record, record')
  BY <1>1, <1>2, <1>3, <1>6, <1>7 DEF Grown, VenueInv
<1>9. FeedInv(feed', record') /\ feed' \in [from : Int, to : Nat, resumes : MaybeTick]
  <2>1. Retain \in Nat \ {0} /\ feed.from \in Int /\ FeedInv(feed, record)
    BY <1>1, StreamAssumption DEF Types, VenueInv
  <2>2. PICK from \in Int : from = (IF Empty(feed) THEN first ELSE feed.from) /\ from >= run /\ from <= first
    <3>1. CASE Empty(feed)
      BY <1>4, <3>1
    <3>2. CASE ~Empty(feed)
      <4>1. first = head + 1 /\ feed.from \in base..feed.to /\ feed.to = head
        BY <1>2, <2>1, <3>2 DEF FeedInv
      <4> QED BY <1>2, <1>4, <2>1, <3>2, <4>1
    <3> QED BY <3>1, <3>2
  <2>3. PICK start \in Int : /\ start = Larger(from, last - Retain + 1)
                             /\ start >= from /\ start >= last - Retain + 1 /\ start \in {from, last - Retain + 1}
    <3>1. last - Retain + 1 \in Int
      BY <2>1
    <3> QED BY <3>1, LargerOf
  <2>4. feed' = [from |-> start, to |-> last, resumes |-> None]
    BY <1>5, <2>2, <2>3 DEF Extended
  <2>5. start \in run..last /\ last - start < Retain
    BY <1>3, <1>4, <2>1, <2>2, <2>3
  <2>6. ~Empty(feed')
    <3>1. last # 0
      <4>1. first >= 1
        BY <1>2
      <4>2. last >= first /\ last \in Nat /\ first \in Nat
        BY <1>2, <1>3
      <4> QED BY <4>1, <4>2
    <3>2. feed'.to = last
      BY <2>4
    <3> QED BY <3>1, <3>2 DEF Empty
  <2> QED BY <1>6, <2>4, <2>5, <2>6 DEF FeedInv, MaybeTick
<1>10. ASSUME NEW c \in Clients PROVE conn'[c] \in Connection /\ ConnInv(conn'[c], client[c], heard[c], record')
  <2>1. conn[c] \in Connection /\ ConnInv(conn[c], client[c], heard[c], record)
    BY OfClient
  <2>2. CASE conn[c].state = "live"
    <3>1. conn'[c] = Deliver(conn[c], Run(record.next, record'.head))
      BY <1>2, <1>5, <1>6, <2>2
    <3>2. record'.head = record.next + n - 1 /\ record'.next = record.next + n
      BY <1>2, <1>3, <1>6
    <3> QED BY <1>8, <2>1, <2>2, <3>1, <3>2, DeliverStands
  <2>3. CASE conn[c].state # "live"
    <3>1. conn'[c] = conn[c]
      BY <1>5, <2>3
    <3> QED BY <1>8, <2>1, <2>3, <3>1, ConnStands
  <2> QED BY <2>2, <2>3
<1>11. conn' \in [Clients -> Connection]
  BY <1>5, <1>10
<1>12. inForce' \in [tick : MaybeTick, stalled : BOOLEAN] /\ inForce'.tick = record'.head
  BY <1>5, <1>6 DEF MaybeTick
<1> QED BY <1>5, <1>8, <1>9, <1>10, <1>11, <1>12, Everybody

\* A market is reopened past a seam.
LEMMA ReopenInv ==
  ASSUME IInv, Reopen
  PROVE  IInv'
<1>1. Types /\ VenueInv
  BY DEF IInv
<1>2. PICK next \in Nat : next = record.next + Lease /\ next > record.next
  <2>1. Lease \in Nat \ {0} /\ record.next \in Nat
    BY <1>1, StreamAssumption DEF VenueInv, RecordInv
  <2> QED BY <2>1
<1>3. /\ record' = [record EXCEPT !.next = next]
      /\ feed' = [from |-> 1, to |-> 0, resumes |-> next]
      /\ inForce' = [inForce EXCEPT !.stalled = TRUE]
      /\ conn' = [c \in Clients |-> IF conn[c].state = "live" THEN Closed(conn[c]) ELSE conn[c]]
      /\ UNCHANGED <<client, heard>>
  BY <1>2 DEF Reopen, Seamed
<1>4. record'.head = record.head /\ record'.base = record.base /\ record'.next = next
      /\ record' \in [head : Nat, base : Nat, next : Nat]
  BY <1>1, <1>3 DEF VenueInv, RecordInv
<1>5. Grown(record, record')
  BY <1>1, <1>2, <1>4 DEF VenueInv, RecordInv, Grown
<1>6. FeedInv(feed', record') /\ feed' \in [from : Int, to : Nat, resumes : MaybeTick]
  BY <1>3, <1>4, StreamAssumption DEF FeedInv, Empty, MaybeTick
<1>7. inForce' \in [tick : MaybeTick, stalled : BOOLEAN] /\ inForce'.tick \in {None, record'.head}
  <2>1. inForce \in [tick : MaybeTick, stalled : BOOLEAN] /\ inForce.tick \in {None, record.head}
    BY <1>1 DEF Types, VenueInv
  <2> QED BY <1>3, <1>4, <2>1
<1>8. ASSUME NEW c \in Clients PROVE conn'[c] \in Connection /\ ConnInv(conn'[c], client[c], heard[c], record')
  <2>1. conn[c] \in Connection /\ ConnInv(conn[c], client[c], heard[c], record)
    BY OfClient
  <2>2. CASE conn[c].state = "live"
    <3>1. conn'[c] = Closed(conn[c])
      BY <1>3, <2>2
    <3> QED BY <1>5, <2>1, <2>2, <3>1, ClosedIs, ClosedStands
  <2>3. CASE conn[c].state # "live"
    <3>1. conn'[c] = conn[c]
      BY <1>3, <2>3
    <3> QED BY <1>5, <2>1, <2>3, <3>1, ConnStands
  <2> QED BY <2>2, <2>3
<1>9. conn' \in [Clients -> Connection]
  BY <1>3, <1>8
<1> QED BY <1>3, <1>5, <1>6, <1>7, <1>8, <1>9, Everybody

\* The process ends, and another boots.
LEMMA RestartInv ==
  ASSUME IInv, NEW told \in BOOLEAN,
         NEW next \in Further \cup (IF record.next = record.head + 1 THEN {record.next} ELSE {}),
         Restart(told, next)
  PROVE  IInv'
<1>1. Types /\ VenueInv
  BY DEF IInv
<1>2. /\ record.next \in Nat /\ record.head \in Nat /\ record.base \in Nat
      /\ record.head < record.next /\ record.head # 0 /\ record.base <= record.head
      /\ Lease \in Nat \ {0} /\ Retain \in Nat \ {0} /\ None \notin Int
  BY <1>1, StreamAssumption DEF VenueInv, RecordInv, Restart
<1>3. next \in Nat /\ next >= record.next
  BY <1>2 DEF Further
<1>4. /\ record' = [record EXCEPT !.next = next]
      /\ inForce' = [tick |-> None, stalled |-> FALSE]
      /\ UNCHANGED <<client, heard>>
  BY DEF Restart
<1>5. record'.head = record.head /\ record'.base = record.base /\ record'.next = next
      /\ record' \in [head : Nat, base : Nat, next : Nat]
  BY <1>1, <1>3, <1>4 DEF VenueInv, RecordInv
<1>6. Grown(record, record')
  BY <1>1, <1>2, <1>3, <1>5 DEF VenueInv, RecordInv, Grown
<1>7. FeedInv(feed', record') /\ feed' \in [from : Int, to : Nat, resumes : MaybeTick]
  <2>1. CASE next # record.head + 1
    <3>1. feed' = [from |-> 1, to |-> 0, resumes |-> next]
      BY <2>1 DEF Restart, Seamed
    <3> QED BY <1>2, <1>3, <1>5, <3>1 DEF FeedInv, Empty, MaybeTick
  <2>2. CASE next = record.head + 1
    <3>1. PICK head \in Nat, base \in Nat : head = record.head /\ base = record.base /\ head # 0 /\ base <= head
      BY <1>2
    <3>2. PICK start \in Int : /\ start = Larger(base, head - Retain + 1)
                               /\ start >= base /\ start >= head - Retain + 1 /\ start \in {base, head - Retain + 1}
      <4>1. PICK floor \in Int : floor = head - Retain + 1
        BY <1>2
      <4>2. base \in Int
        BY <3>1
      <4> QED BY <4>1, <4>2, LargerOf
    <3>3. feed' = [from |-> start, to |-> head, resumes |-> None]
      BY <2>2, <3>1, <3>2 DEF Restart
    <3>4. start \in base..head /\ head - start < Retain
      BY <1>2, <3>1, <3>2
    <3>5. ~Empty(feed')
      BY <3>1, <3>3 DEF Empty
    <3> QED BY <1>5, <2>2, <3>1, <3>3, <3>4, <3>5 DEF FeedInv, MaybeTick
  <2> QED BY <2>1, <2>2
<1>8. conn' = [c \in Clients |-> IF ~told THEN Lost(conn[c])
                                 ELSE IF conn[c].state = "live" THEN [Closed(conn[c]) EXCEPT !.charge = 0]
                                 ELSE [conn[c] EXCEPT !.charge = 0]]
  BY DEF Restart
<1>9. ASSUME NEW c \in Clients PROVE conn'[c] \in Connection /\ ConnInv(conn'[c], client[c], heard[c], record')
  <2>1. conn[c] \in Connection /\ ConnInv(conn[c], client[c], heard[c], record)
    BY OfClient
  <2>2. CASE ~told /\ conn[c].state = "none"
    <3>1. conn'[c] = conn[c]
      BY <1>8, <2>2 DEF Lost
    <3> QED BY <1>6, <2>1, <2>2, <3>1, ConnStands
  <2>3. CASE ~told /\ conn[c].state # "none"
    <3>1. conn'[c] \in Connection /\ conn'[c].state = "lost" /\ conn'[c].frames = <<>>
      BY <1>8, <2>3, NoneIs
    <3> QED BY <2>1, <2>3, <3>1 DEF ConnInv
  <2>4. CASE told /\ conn[c].state = "live"
    <3>1. PICK w \in Connection : w = Closed(conn[c]) /\ w.frames = conn[c].frames \o <<Close>> /\ w.state = "ended"
      BY <2>1, ClosedIs
    <3>2. PICK y \in Connection : y = [w EXCEPT !.charge = 0] /\ y.frames = w.frames /\ y.state = w.state
      BY ReleasedIs
    <3>3. conn'[c] = y
      BY <1>8, <2>4, <3>1, <3>2
    <3>4. ConnInv(y, client[c], heard[c], record')
      BY <1>6, <2>1, <2>4, <3>1, <3>2, ClosedStands
    <3> QED BY <3>3, <3>4
  <2>5. CASE told /\ conn[c].state # "live"
    <3>1. PICK y \in Connection : y = [conn[c] EXCEPT !.charge = 0] /\ y.frames = conn[c].frames
                                  /\ y.state = conn[c].state
      BY <2>1, ReleasedIs
    <3>2. conn'[c] = y
      BY <1>8, <2>5, <3>1
    <3> QED BY <1>6, <2>1, <2>5, <3>1, <3>2, ConnStands
  <2> QED BY <2>2, <2>3, <2>4, <2>5
<1>10. conn' \in [Clients -> Connection]
  BY <1>8, <1>9
<1>11. inForce' \in [tick : MaybeTick, stalled : BOOLEAN] /\ inForce'.tick \in {None, record'.head}
  BY <1>4 DEF MaybeTick
<1> QED BY <1>4, <1>6, <1>7, <1>9, <1>10, <1>11, Everybody

\* Nothing that the invariant is about changes.
LEMMA StutterInv == ASSUME IInv, UNCHANGED vars PROVE IInv'
<1>1. UNCHANGED <<record, feed, inForce, conn, client, heard>>
  BY DEF vars
<1>2. Types'
  BY <1>1 DEF IInv, Types
<1>3. VenueInv'
  BY <1>1 DEF IInv, VenueInv, FeedInv, Empty
<1>4. \A c \in Clients : ClientInv(conn'[c], client'[c], heard'[c], record')
  BY <1>1 DEF IInv
<1> QED BY <1>2, <1>3, <1>4 DEF IInv

-----------------------------------------------------------------------------
(* The theorems *)

\* Every step keeps the invariant.
LEMMA StepInv == ASSUME IInv, [Next]_vars PROVE IInv'
<1>1. ASSUME NEW k \in 0..MaxBatch, Pass(k) PROVE IInv'
  <2>1. CASE k = 0
    BY <1>1, <2>1, QuietPassInv
  <2>2. CASE k # 0
    <3>1. k \in Nat \ {0}
      BY <2>2
    <3> QED BY <1>1, <3>1, PassInv
  <2> QED BY <2>1, <2>2
<1>2. CASE Reopen
  BY <1>2, ReopenInv
<1>3. ASSUME NEW told \in BOOLEAN,
             NEW next \in Further \cup (IF record.next = record.head + 1 THEN {record.next} ELSE {}),
             Restart(told, next)
      PROVE  IInv'
  BY <1>3, RestartInv
<1>4. ASSUME NEW c \in Clients, NEW from \in {None} \cup 0..(record.next + 1),
             Subscribe(c, from)
      PROVE  IInv'
  <2>1. record.head \in Nat /\ record.next \in Nat
    BY DEF IInv, VenueInv, RecordInv
  <2>2. from \in MaybeTick
    BY <2>1 DEF MaybeTick
  <2> QED BY <1>4, <2>2, SubscribeInv
<1>5. ASSUME NEW c \in Clients, NEW others \in {0, ReplayBudget}, Connect(c, others) PROVE IInv'
  BY <1>5, ConnectInv
<1>6. ASSUME NEW c \in Clients, Heartbeat(c) PROVE IInv'
  BY <1>6, HeartbeatInv
<1>7. ASSUME NEW c \in Clients, Drop(c) PROVE IInv'
  BY <1>7, DropInv
<1>8. ASSUME NEW c \in Clients, Read(c) PROVE IInv'
  BY <1>8, ReadInv
<1>9. ASSUME NEW c \in Clients, NEW clean \in BOOLEAN, Lose(c, clean) PROVE IInv'
  BY <1>9, LoseInv
<1>10. CASE UNCHANGED vars
  BY <1>10, StutterInv
<1> QED BY <1>1, <1>2, <1>3, <1>4, <1>5, <1>6, <1>7, <1>8, <1>9, <1>10 DEF Next

\* The queues between the venue and its clients are numbered as described, for
\* every number of clients and every size of the bounds.
THEOREM Inductive == Spec => []IInv
<1>1. Init => IInv
  BY InitInv
<1>2. IInv /\ [Next]_vars => IInv'
  BY StepInv
<1> QED BY <1>1, <1>2, PTL DEF Spec

\* The record, the window, the connections and the subscriptions keep their types.
THEOREM TypeCorrect == Spec => []TypeOK
<1>1. ASSUME IInv PROVE TypeOK
  <2>1. Types /\ VenueInv /\ \A c \in Clients : ClientInv(conn[c], client[c], heard[c], record)
    BY <1>1 DEF IInv
  <2>2. ASSUME NEW c \in Clients
        PROVE  /\ conn[c].state \in {"none", "live", "ended", "lost"}
               /\ client[c].state \in {"idle", "connecting", "reading", "accusing", "failed"}
               /\ client[c].budget \in 0..MaxReconnects
    <3>1. conn[c] \in Connection /\ client[c] \in Subscription
      BY <2>1 DEF Types
    <3> QED BY <3>1 DEF Connection, Subscription
  <2>3. record.base <= record.head + 1 /\ record.head < record.next
    BY <2>1 DEF VenueInv, RecordInv
  <2>4. ~Empty(feed) => /\ feed.to = record.head /\ feed.resumes = None
                        /\ feed.from \in record.base..feed.to /\ feed.to - feed.from < Retain
    BY <2>1 DEF VenueInv, FeedInv
  <2> QED BY <2>2, <2>3, <2>4 DEF TypeOK
<1>2. IInv => TypeOK
  BY <1>1
<1> QED BY <1>2, Inductive, PTL

\* An honest venue is never taken for one that skips, and a heartbeat moves no
\* caller back nor past what it was told is missing.
THEOREM VenueIsNeverAccused == Spec => []VenueIsNotAccused
<1>1. ASSUME IInv PROVE VenueIsNotAccused
  <2>1. ASSUME NEW c \in Clients
        PROVE  /\ client[c].state # "accusing"
               /\ heard[c].quoted # None /\ heard[c].handed # None =>
                    /\ heard[c].quoted >= heard[c].handed
                    /\ (heard[c].handed + 1)..heard[c].quoted \subseteq heard[c].hole
    <3>1. client[c] \in Subscription /\ ClientInv(conn[c], client[c], heard[c], record)
      BY <1>1 DEF IInv, Types
    <3>2. client[c].state # "accusing"
      BY <3>1 DEF Subscription
    <3> QED BY <3>1, <3>2 DEF ClientInv, HeardInv
  <2> QED BY <2>1 DEF VenueIsNotAccused
<1>2. IInv => VenueIsNotAccused
  BY <1>1
<1> QED BY <1>2, Inductive, PTL

\* A tick handed over follows the one before it, but for what was told.
HandedInOrder ==
  \A c \in Clients :
    heard'[c].handed # heard[c].handed =>
      /\ heard[c].expects # None => heard'[c].handed = heard[c].expects
      /\ heard[c].handed # None =>
           /\ heard'[c].handed > heard[c].handed
           /\ (heard[c].handed + 1)..(heard'[c].handed - 1) \subseteq heard[c].hole

\* Where nothing was handed over there is nothing to say.
LEMMA SameAccounts ==
  ASSUME \A c \in Clients : heard'[c].handed = heard[c].handed
  PROVE  HandedInOrder
BY DEF HandedInOrder

\* Every step hands ticks over in order.
LEMMA StepInOrder == ASSUME IInv, [Next]_vars PROVE HandedInOrder
<1>0. heard \in [Clients -> Account]
  BY DEF IInv, Types
<1>1. ASSUME UNCHANGED heard PROVE HandedInOrder
  BY <1>1, SameAccounts
<1>2. ASSUME NEW c \in Clients, Read(c) PROVE HandedInOrder
  <2>1. PICK h \in Account :
          /\ heard' = [heard EXCEPT ![c] = h]
          /\ h.handed # heard[c].handed =>
               /\ heard[c].expects # None => h.handed = heard[c].expects
               /\ heard[c].handed # None =>
                    /\ h.handed > heard[c].handed
                    /\ (heard[c].handed + 1)..(h.handed - 1) \subseteq heard[c].hole
    BY <1>2, ReadInv
  <2>2. heard'[c] = h /\ \A d \in Clients \ {c} : heard'[d] = heard[d]
    BY <1>0, <2>1
  <2> QED BY <2>1, <2>2 DEF HandedInOrder
<1>3. ASSUME NEW c \in Clients, NEW from, Subscribe(c, from) PROVE HandedInOrder
  <2>1. heard' = [heard EXCEPT ![c].expects = None]
    BY <1>3 DEF Subscribe
  <2>2. \A d \in Clients : heard'[d].handed = heard[d].handed
    BY <1>0, <2>1 DEF Account
  <2> QED BY <2>2, SameAccounts
<1>4. ASSUME NEW k, Pass(k) PROVE UNCHANGED heard
  BY <1>4 DEF Pass
<1>5. ASSUME Reopen PROVE UNCHANGED heard
  BY <1>5 DEF Reopen
<1>6. ASSUME NEW told, NEW next, Restart(told, next) PROVE UNCHANGED heard
  BY <1>6 DEF Restart
<1>7. ASSUME NEW c, NEW others, Connect(c, others) PROVE UNCHANGED heard
  BY <1>7 DEF Connect
<1>8. ASSUME NEW c, Heartbeat(c) PROVE UNCHANGED heard
  BY <1>8 DEF Heartbeat
<1>9. ASSUME NEW c, Drop(c) PROVE UNCHANGED heard
  BY <1>9 DEF Drop
<1>10. ASSUME NEW c, NEW clean, Lose(c, clean) PROVE UNCHANGED heard
  BY <1>10 DEF Lose
<1>11. CASE UNCHANGED vars
  BY <1>1, <1>11 DEF vars
<1> QED BY <1>1, <1>2, <1>3, <1>4, <1>5, <1>6, <1>7, <1>8, <1>9, <1>10, <1>11 DEF Next

\* The order of a stream is the record's: a tick handed to a caller follows the
\* one handed before it, whatever lies between was told as missing, and a hole
\* that was bounded ends exactly where the gap said.
THEOREM NothingIsEverSkipped == Spec => NothingIsSkippedUntold
<1>1. IInv /\ [Next]_vars => HandedInOrder
  BY StepInOrder
<1>2. Spec => [][HandedInOrder]_vars
  BY <1>1, Inductive, PTL DEF Spec
<1> QED BY <1>2, PTL DEF NothingIsSkippedUntold, HandedInOrder
=============================================================================
