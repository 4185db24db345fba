------------------------ MODULE StateDirectoryProofs ------------------------
(***************************************************************************)
(* What StateDirectory promises for any number of processes, any lease and *)
(* any bounds, in every deployment Worlds may name, their combinations     *)
(* included.                                                               *)
(*                                                                         *)
(* Ticks that were served and that a rollback took out of the record are   *)
(* lost.  The inductive invariant says what still keeps them apart from    *)
(* what is generated next: a seam resumes past them, and a resumption      *)
(* either stands past them or draws them again on their own key epoch.     *)
(*                                                                         *)
(* And what WriterLock promises of the lock those processes take, for any  *)
(* hosts, pids and grants: before the first adoption at most one of them   *)
(* is told that it holds the directory.  That is not inductive: a start is *)
(* refused because the lock of the holder is in the file, and it is there  *)
(* because nobody else was let in to replace or remove it, which           *)
(* HolderIsInTheFile says of a holder and of one that is leaving.          *)
(***************************************************************************)
EXTENDS StateDirectory, Integers, WellFoundedInduction, TLAPS

LastOf(m) == IF m.last = NoTick THEN 0 ELSE m.last.sequence

-----------------------------------------------------------------------------
(* The parts of the inductive invariant *)

Locations == Running \cup {"down", "record", "history", "again", "refused", "claim", "start"}
AllHeads  == [checkpoint : Nat, record : Nat, history : Nat]
Markets   == [hosted : BOOLEAN, last : Ticks \cup {NoTick}, next : Nat, epoch : Nat, leased : Nat,
              fed : Nat, bars : Nat]
Copies    == [stage : {"none", "history", "record", "manifest", "done"}, checkpoint : Checkpoints,
              record : SUBSET Ticks, candles : Nat, manifest : AllHeads \cup {NoManifest}]

Types ==
  /\ world \in Worlds
  /\ checkpoint \in Checkpoints /\ record \in SUBSET Ticks /\ candles \in Nat
  /\ manifest \in AllHeads \cup {NoManifest}
  /\ pc \in [Procs -> Locations] /\ seen \in [Procs -> AllHeads] /\ warned \in SUBSET Procs
  /\ market \in [Procs -> Markets]
  /\ epochs \in Nat /\ departures \in Nat
  /\ copy \in Copies
  /\ served \in SUBSET Ticks
  /\ restored \in BOOLEAN /\ outran \in BOOLEAN

\* One value per sequence.
OneValue(ticks) == \A s, t \in ticks : s.sequence = t.sequence => s = t

\* A checkpoint goes on behind its last tick, and reserves a lease from there.
GoesOn(c) == c # NoCheckpoint => Published(c) < c.next /\ c.leased = c.next + SequenceLease

\* Only a running process hosts a market; its next tick is behind its last one,
\* which the record has reached, or it has nothing and the checkpoint says as
\* much as the market.
Markt ==
  \A p \in Procs :
    /\ pc[p] \notin Running => market[p] = NoMarket
    /\ market[p].hosted =>
         /\ LastOf(market[p]) < market[p].next
         /\ record # {} => LastOf(market[p]) <= Top(record)
         /\ record = {} => LastOf(market[p]) = Published(checkpoint)

\* What was served and is in the record no more.
Lost == served \ record

\* A tick that is not to be drawn with another value by whoever is to draw
\* `next` next, on the key epoch.
Apart(t, next, epoch) == t.sequence < next \/ t.epoch = epoch

\* Whatever is lost is reserved by the files and by every market that may write them.
LostIsReserved ==
  outran \/ \A t \in Lost :
    /\ t.sequence <= Reserved(checkpoint, record)
    /\ Resumable => Apart(t, checkpoint.next, checkpoint.epoch)
    /\ \A p \in Procs : market[p].hosted =>
         /\ market[p].last # NoTick
         /\ \/ t.sequence <= market[p].next + SequenceLease
            \/ t.sequence <= Top(record) + SequenceLease
         /\ Apart(t, market[p].next, market[p].epoch)

\* What is about to be served is recorded, and no lost tick has its number.
Recorded   == \A p \in Procs : pc[p] = "publish" => market[p].last \in record
ServedNext == outran \/ \A p \in Procs : pc[p] = "publish" =>
                          \A t \in Lost : t.sequence # market[p].last.sequence

Values ==
  /\ OneValue(record) /\ OneValue(copy.record)
  /\ GoesOn(checkpoint) /\ GoesOn(copy.checkpoint)
  /\ ServedOnce

\* A record behind its checkpoint, which only a rollback leaves, is one no
\* process is past the check of, and every process that has begun will see.
Shut ==
  \A p \in Procs :
    /\ pc[p] \in {"down", "record", "history", "again", "refused"}
    /\ pc[p] \in {"record", "history", "again"} => seen[p].checkpoint = Published(checkpoint)
    /\ pc[p] \in {"history", "again"} => seen[p].record = Top(record)
Reaches == record = {} \/ Published(checkpoint) <= Top(record)

\* Where no power is lost nothing is ahead of the record, in the files, in the
\* copy, in a process or in what a check has read.
NothingAhead ==
  "power" \notin world =>
    /\ Published(checkpoint) <= Top(record) /\ candles <= Top(record)
    /\ copy.stage \in {"history", "record"} => Published(copy.checkpoint) <= Top(record)
    /\ copy.stage = "record" => copy.candles <= Top(record)
    /\ copy.stage \in {"manifest", "done"} =>
         Published(copy.checkpoint) <= Top(copy.record) /\ copy.candles <= Top(copy.record)
    /\ \A p \in Procs :
         /\ pc[p] # "refused"
         /\ market[p].bars <= Top(record)
         /\ pc[p] = "record" => seen[p].checkpoint <= Top(record)
         /\ pc[p] \in {"history", "again"} =>
              seen[p].checkpoint <= seen[p].record /\ seen[p].record <= Top(record)
         /\ pc[p] = "again" => seen[p].history <= Top(record)

\* While nothing was written in a directory that was swapped in, it is what its
\* manifest says, every check reads that, and whoever is past one has warned.
Announced ==
  /\ copy.stage # "none" => "restore" \in world
  /\ copy.stage = "done" => copy.manifest = Heads(copy.checkpoint, copy.record, copy.candles)
  /\ restored =>
       /\ "restore" \in world
       /\ manifest = Heads(checkpoint, record, candles)
       /\ \A p \in Procs :
            /\ pc[p] \in {"record", "history", "again"} => seen[p].checkpoint = manifest.checkpoint
            /\ pc[p] \in {"history", "again"} => seen[p].record = manifest.record
            /\ pc[p] = "again" => seen[p].history = manifest.history
            /\ pc[p] \in {"claim", "start"} \cup Running => p \in warned

-----------------------------------------------------------------------------
(* Sequences of ticks *)

\* A set of naturals has a least one.
LEMMA LeastNatural ==
  ASSUME NEW T, T \subseteq Nat, T # {}
  PROVE  \E x \in T : \A y \in T : x <= y
<1> DEFINE R == {ss \in Nat \X Nat : ss[1] < ss[2]}
<1>1. IsWellFoundedOn(R, Nat)
  BY NatLessThanWellFounded DEF OpToRel
<1>2. PICK x \in T : \A y \in T : ~(<<y, x>> \in R)
  <2> HIDE DEF R
  <2> QED BY <1>1, WFMin
<1>3. ASSUME NEW y \in T PROVE x <= y
  <2>1. x \in Nat /\ y \in Nat
    OBVIOUS
  <2>2. ~(<<y, x>> \in R)
    BY <1>2
  <2> QED BY <2>1, <2>2
<1> QED BY <1>3

\* A bounded set of naturals has a greatest one, and Max is it.
LEMMA MaxFacts ==
  ASSUME NEW S, S \subseteq Nat, S # {}, NEW b \in Nat, \A x \in S : x <= b
  PROVE  Max(S) \in S /\ \A x \in S : x <= Max(S)
<1> DEFINE T == {n \in Nat : \A x \in S : x <= n}
<1>1. PICK m \in T : \A n \in T : m <= n
  <2>1. b \in T /\ T \subseteq Nat
    OBVIOUS
  <2> HIDE DEF T
  <2> QED BY <2>1, LeastNatural
<1>2. m \in S
  <2>1. SUFFICES ASSUME m \notin S PROVE FALSE
    OBVIOUS
  <2>2. m \in Nat /\ \A x \in S : x < m
    BY <2>1
  <2>3. PICK c \in Nat : m = c + 1
    <3>1. PICK x \in S : x \in Nat /\ x < m
      BY <2>2
    <3>2. m \in Nat /\ m - 1 \in Nat /\ m = (m - 1) + 1
      BY <2>2, <3>1
    <3> QED BY <3>2
  <2>4. c \in T
    BY <2>2, <2>3
  <2> QED BY <1>1, <2>3, <2>4
<1>3. \E x \in S : \A y \in S : x >= y
  BY <1>2
<1> QED BY <1>3 DEF Max

\* The head of a record.
LEMMA TopFacts ==
  ASSUME NEW r \in SUBSET Ticks
  PROVE  /\ Top(r) \in Nat
         /\ \A t \in r : t.sequence <= Top(r)
         /\ r # {} => \E t \in r : t.sequence = Top(r)
         /\ r = {} => Top(r) = 0
<1> DEFINE S == {t.sequence : t \in r} \cup {0}
<1>1. S \subseteq Nat /\ S # {} /\ MaxSequence \in Nat /\ \A x \in S : x <= MaxSequence
  BY DirectoryAssumption DEF Ticks
<1>2. Max(S) \in S /\ \A x \in S : x <= Max(S)
  <2> HIDE DEF S
  <2> QED BY <1>1, MaxFacts
<1>3. Top(r) = Max(S)
  BY DEF Top
<1>4. \A t \in r : t.sequence \in S /\ t.sequence >= 1
  BY DEF Ticks
<1>5. ASSUME r # {} PROVE \E t \in r : t.sequence = Top(r)
  <2>1. PICK t \in r : TRUE
    BY <1>5
  <2>2. Max(S) # 0
    <3> HIDE DEF S
    <3>1. t.sequence \in S /\ t.sequence >= 1
      BY <1>4, <2>1
    <3>2. PICK k \in Nat : k = Max(S)
      BY <1>1, <1>2
    <3>3. PICK j \in Nat : j = t.sequence /\ j >= 1
      BY <1>1, <3>1
    <3>4. j <= k
      BY <1>2, <3>1, <3>2, <3>3
    <3> QED BY <3>2, <3>3, <3>4
  <2> QED BY <1>2, <1>3, <2>2
<1> QED BY <1>1, <1>2, <1>3, <1>4, <1>5

\* The head of a record that grew by a tick.
LEMMA TopOfMore ==
  ASSUME NEW r \in SUBSET Ticks, NEW x \in Ticks
  PROVE  Top(r \cup {x}) = IF x.sequence > Top(r) THEN x.sequence ELSE Top(r)
<1> DEFINE q == r \cup {x}
<1>1. q \in SUBSET Ticks
  OBVIOUS
<1>2. /\ Top(q) \in Nat /\ \A t \in q : t.sequence <= Top(q)
      /\ \E t \in q : t.sequence = Top(q)
  BY <1>1, TopFacts
<1>3. /\ Top(r) \in Nat /\ \A t \in r : t.sequence <= Top(r)
      /\ r # {} => \E t \in r : t.sequence = Top(r)
      /\ r = {} => Top(r) = 0
  BY TopFacts
<1>4. PICK a \in Nat, b \in Nat, c \in Nat : a = Top(q) /\ b = Top(r) /\ c = x.sequence /\ c >= 1
  BY <1>2, <1>3 DEF Ticks
<1>5. c <= a /\ b <= a
  <2>1. c <= a
    BY <1>2, <1>4
  <2>2. CASE r = {}
    <3>1. b = 0
      BY <1>3, <1>4, <2>2, Zenon
    <3> QED BY <2>1, <3>1
  <2>3. CASE r # {}
    BY <1>2, <1>3, <1>4, <2>3
  <2> QED BY <2>1, <2>2, <2>3
<1>6. a = c \/ a <= b
  <2>1. PICK t \in q : t.sequence = a
    BY <1>2, <1>4
  <2>2. CASE t = x
    BY <1>4, <2>1, <2>2
  <2>3. CASE t \in r
    BY <1>3, <1>4, <2>1, <2>3
  <2> QED BY <2>2, <2>3
<1> QED BY <1>4, <1>5, <1>6

\* What the files of a directory reserve.
LEMMA ReservedFacts ==
  ASSUME NEW c \in Checkpoints, NEW r \in SUBSET Ticks
  PROVE  /\ Published(c) \in Nat
         /\ Reserved(c, r) \in Nat
         /\ c = NoCheckpoint => Reserved(c, r) = IF r = {} THEN 0 ELSE Top(r) + SequenceLease
         /\ c # NoCheckpoint =>
              /\ c.last = NoTick => Reserved(c, r) = 0
              /\ c.last # NoTick =>
                   /\ Reserved(c, r) \in {c.leased, Top(r) + SequenceLease, Published(c) + SequenceLease}
                   /\ Reserved(c, r) >= c.leased
                   /\ Reserved(c, r) >= Top(r) + SequenceLease
                   /\ Reserved(c, r) >= Published(c) + SequenceLease
<1>1. SequenceLease \in Nat /\ Top(r) \in Nat
  BY DirectoryAssumption, TopFacts
<1>2. Published(c) \in Nat
  BY DEF Published, Checkpoints, Plans, Ticks
<1>3. CASE c = NoCheckpoint
  BY <1>1, <1>2, <1>3 DEF Reserved
<1>4. CASE c # NoCheckpoint
  <2>1. c.leased \in Nat
    BY <1>4 DEF Checkpoints, Plans
  <2> DEFINE S == {c.leased, Top(r) + SequenceLease, Published(c) + SequenceLease}
             b == c.leased + Top(r) + Published(c) + SequenceLease
  <2>2. S \subseteq Nat /\ S # {} /\ b \in Nat /\ \A x \in S : x <= b
    BY <1>1, <1>2, <2>1
  <2>3. Max(S) \in S /\ \A x \in S : x <= Max(S)
    <3> HIDE DEF S, b
    <3> QED BY <2>2, MaxFacts
  <2>4. Reserved(c, r) = IF c.last = NoTick THEN 0 ELSE Max(S)
    BY <1>4 DEF Reserved
  <2> QED BY <1>1, <1>2, <1>4, <2>1, <2>3, <2>4
<1> QED BY <1>3, <1>4

\* The newest tick of a record.
LEMMA NewestFacts ==
  ASSUME NEW r \in SUBSET Ticks
  PROVE  /\ Newest(r) \in Ticks \cup {NoTick}
         /\ r # {} => Newest(r) \in r /\ Newest(r).sequence = Top(r)
         /\ r = {} => Newest(r) = NoTick
<1>1. r # {} => \E t \in r : t.sequence = Top(r)
  BY TopFacts
<1> QED BY <1>1 DEF Newest

-----------------------------------------------------------------------------
(* Types *)

\* What the variables hold initially.
LEMMA TypesInit == Init => Types
<1> SUFFICES ASSUME Init PROVE Types
  OBVIOUS
<1>1. NotSeen \in AllHeads
  BY TopFacts DEF NotSeen, Heads, AllHeads, Published
<1>2. NoMarket \in Markets
  BY DEF NoMarket, Markets
<1>3. NoCopy \in Copies
  BY DEF NoCopy, Copies, Checkpoints
<1>4. "down" \in Locations
  BY DEF Locations
<1> QED BY <1>1, <1>2, <1>3, <1>4 DEF Init, Types, Checkpoints

\* The heads of a directory are numbers.
LEMMA HeadsFacts ==
  ASSUME NEW c \in Checkpoints, NEW r \in SUBSET Ticks, NEW h \in Nat
  PROVE  Heads(c, r, h) \in AllHeads
BY TopFacts, ReservedFacts DEF Heads, AllHeads

\* A process that ends leaves nothing of itself.
LEMMA GoneTypes ==
  ASSUME Types, NEW p \in Procs, Gone(p)
  PROVE  /\ pc' \in [Procs -> Locations] /\ seen' \in [Procs -> AllHeads] /\ warned' \in SUBSET Procs
         /\ market' \in [Procs -> Markets]
         /\ pc' = [pc EXCEPT ![p] = "down"] /\ market' = [market EXCEPT ![p] = NoMarket]
<1>1. NotSeen \in AllHeads
  BY HeadsFacts DEF NotSeen, Checkpoints
<1>2. NoMarket \in Markets
  BY DEF NoMarket, Markets
<1> QED BY <1>1, <1>2 DEF Types, Gone, Goto, Locations

\* A verdict leaves a process somewhere, with nothing read.
LEMMA VerdictTypes ==
  ASSUME Types, NEW p \in Procs, NEW heads, NEW settled, Verdict(p, heads, settled)
  PROVE  /\ pc' \in [Procs -> Locations] /\ seen' \in [Procs -> AllHeads] /\ warned' \in SUBSET Procs
<1>1. NotSeen \in AllHeads
  BY HeadsFacts DEF NotSeen, Checkpoints
<1> QED BY <1>1 DEF Types, Verdict, Goto, Locations

\* Appending: the tick is recorded, and is new or is not, or the market goes.
LEMMA AppendEffect ==
  ASSUME Types, NEW p \in Procs, Append(p)
  PROVE  /\ pc[p] = "idle" /\ market[p].hosted
         /\ UNCHANGED <<world, checkpoint, candles, manifest, seen, warned, epochs, departures, copy,
                        served, outran>>
         /\ \E m \in Markets :
              /\ market' = [market EXCEPT ![p] = m]
              /\ m.bars = market[p].bars
              /\ \/ \E x \in Ticks :
                      /\ x.sequence = market[p].next /\ x.epoch = market[p].epoch
                      /\ x \in record \/ x.sequence > Top(record)
                      /\ m.hosted /\ m.last = x /\ m.next = market[p].next + 1 /\ m.epoch = market[p].epoch
                      /\ record' = record \cup {x}
                      /\ restored' = (restored /\ x \in record)
                      /\ pc' = [pc EXCEPT ![p] = IF x \in record THEN "idle" ELSE "publish"]
                 \/ ~m.hosted /\ UNCHANGED <<record, restored, pc>>
<1> DEFINE x == [sequence |-> market[p].next, epoch |-> market[p].epoch]
<1>0. /\ market[p] \in Markets /\ market[p].next \in Nat /\ market[p].epoch \in Nat
      /\ market \in [Procs -> Markets] /\ record \in SUBSET Ticks /\ Top(record) \in Nat
  BY TopFacts DEF Types, Markets
<1>1. /\ pc[p] = "idle" /\ market[p].hosted /\ market[p].next <= MaxSequence
      /\ UNCHANGED <<world, checkpoint, candles, manifest, seen, warned, epochs, departures, copy,
                     served, outran>>
  BY DEF Append
<1>2. CASE Accepts(x)
  <2> DEFINE m == [market[p] EXCEPT !.last = x, !.next = market[p].next + 1]
  <2>1. x.sequence >= 1
    BY <1>0, <1>2 DEF Accepts, Ticks
  <2>2. x \in Ticks
    BY <1>0, <1>1, <2>1, DirectoryAssumption DEF Ticks
  <2>3. /\ record' = record \cup {x} /\ restored' = (restored /\ x \in record)
        /\ pc' = [pc EXCEPT ![p] = IF x \in record THEN "idle" ELSE "publish"]
        /\ market' = [market EXCEPT ![p].last = x, ![p].next = @ + 1]
    BY <1>2 DEF Append, Goto
  <2>4. PICK y \in Ticks : y = x
    BY <2>2
  <2>5. PICK k \in Nat : k = market[p].next + 1
    BY <1>0
  <2>6. market' = [market EXCEPT ![p] = [[@ EXCEPT !.last = y] EXCEPT !.next = k]]
    <3> HIDE DEF x
    <3> QED BY <1>0, <2>3, <2>4, <2>5
  <2> DEFINE n == [[market[p] EXCEPT !.last = y] EXCEPT !.next = k]
  <2>7. /\ n \in Markets /\ n.bars = market[p].bars /\ n.hosted /\ n.last = y /\ n.next = k
        /\ n.epoch = market[p].epoch
    BY <1>0, <1>1 DEF Markets
  <2>8. market' = [market EXCEPT ![p] = n]
    BY <1>0, <2>6
  <2>9. y.sequence = market[p].next /\ y.epoch = market[p].epoch /\ (y \in record \/ y.sequence > Top(record))
    BY <1>2, <2>4 DEF Accepts
  <2> HIDE DEF n, x, m
  <2> QED BY <1>1, <2>3, <2>4, <2>5, <2>7, <2>8, <2>9
<1>3. CASE ~Accepts(x)
  <2> DEFINE n == [market[p] EXCEPT !.hosted = FALSE]
  <2>1. market' = [market EXCEPT ![p] = n] /\ UNCHANGED <<record, restored, pc>>
    BY <1>0, <1>3 DEF Append
  <2>2. n \in Markets /\ ~n.hosted /\ n.bars = market[p].bars
    BY <1>0 DEF Markets
  <2> HIDE DEF n, x
  <2> QED BY <1>1, <2>1, <2>2
<1> QED BY <1>2, <1>3

\* Publishing: the tick is served, or the market goes.
LEMMA PublishEffect ==
  ASSUME Types, NEW p \in Procs, Publish(p), market[p].last \in record
  PROVE  /\ pc[p] = "publish" /\ pc' = [pc EXCEPT ![p] = "idle"]
         /\ UNCHANGED <<world, files, seen, warned, epochs, departures, copy, restored, outran>>
         /\ \E m \in Markets :
              /\ market' = [market EXCEPT ![p] = m]
              /\ m.last = market[p].last /\ m.next = market[p].next /\ m.epoch = market[p].epoch
              /\ \/ /\ m.hosted = market[p].hosted /\ m.bars = market[p].last.sequence
                    /\ served' = served \cup {market[p].last}
                 \/ ~m.hosted /\ m.bars = market[p].bars /\ served' = served
<1>0. /\ market[p] \in Markets /\ market[p].last \in Ticks /\ market[p].last.sequence \in Nat
      /\ market \in [Procs -> Markets]
  BY DEF Types, Markets, Ticks
<1>1. /\ pc[p] = "publish" /\ pc' = [pc EXCEPT ![p] = "idle"]
      /\ UNCHANGED <<world, files, seen, warned, epochs, departures, copy, restored, outran>>
  BY DEF Publish, Goto
<1>2. PICK k \in Nat : k = market[p].last.sequence
  BY <1>0
<1> DEFINE a == [[market[p] EXCEPT !.fed = k] EXCEPT !.bars = k]
           b == [market[p] EXCEPT !.hosted = FALSE]
<1>3. /\ a \in Markets /\ a.last = market[p].last /\ a.next = market[p].next /\ a.epoch = market[p].epoch
      /\ a.hosted = market[p].hosted /\ a.bars = k
  BY <1>0 DEF Markets
<1>4. /\ b \in Markets /\ b.last = market[p].last /\ b.next = market[p].next /\ b.epoch = market[p].epoch
      /\ ~b.hosted /\ b.bars = market[p].bars
  BY <1>0 DEF Markets
<1>5. \/ /\ served' = served \cup {market[p].last}
         /\ market' = [market EXCEPT ![p].fed = k, ![p].bars = k]
      \/ market' = [market EXCEPT ![p].hosted = FALSE] /\ UNCHANGED served
  BY <1>2 DEF Publish
<1>6. CASE /\ served' = served \cup {market[p].last}
           /\ market' = [market EXCEPT ![p].fed = k, ![p].bars = k]
  <2>1. market' = [market EXCEPT ![p] = a]
    BY <1>0, <1>6
  <2> HIDE DEF a, b
  <2> QED BY <1>1, <1>2, <1>3, <1>6, <2>1
<1>7. CASE market' = [market EXCEPT ![p].hosted = FALSE] /\ UNCHANGED served
  <2>1. market' = [market EXCEPT ![p] = b]
    BY <1>0, <1>7
  <2> HIDE DEF a, b
  <2> QED BY <1>1, <1>4, <1>7, <2>1
<1> QED BY <1>5, <1>6, <1>7

\* Saving: the checkpoint is the market's, with a new lease.
LEMMA SaveEffect ==
  ASSUME Types, NEW p \in Procs, Save(p)
  PROVE  /\ pc[p] = "save" /\ pc' = [pc EXCEPT ![p] = "flush"]
         /\ UNCHANGED <<world, record, candles, manifest, seen, warned, epochs, departures, copy,
                        served, outran>>
         /\ \/ ~market[p].hosted /\ UNCHANGED <<checkpoint, market, restored>>
            \/ \E m \in Markets :
                 /\ market[p].hosted
                 /\ market' = [market EXCEPT ![p] = m]
                 /\ m.hosted /\ m.last = market[p].last /\ m.next = market[p].next
                 /\ m.epoch = market[p].epoch /\ m.bars = market[p].bars
                 /\ checkpoint' \in Plans
                 /\ checkpoint'.last = m.last /\ checkpoint'.next = m.next
                 /\ checkpoint'.epoch = m.epoch /\ checkpoint'.leased = m.next + SequenceLease
                 /\ restored' = FALSE
<1>0. market[p] \in Markets /\ market \in [Procs -> Markets]
  BY DEF Types
<1>1. PICK k \in Nat : k = market[p].next + SequenceLease
  BY <1>0, DirectoryAssumption DEF Markets
<1> DEFINE plan == [last |-> market[p].last, next |-> market[p].next, epoch |-> market[p].epoch,
                    leased |-> k, stale |-> FALSE]
           m == [market[p] EXCEPT !.leased = k]
<1>2. /\ pc[p] = "save" /\ pc' = [pc EXCEPT ![p] = "flush"]
      /\ UNCHANGED <<world, record, candles, manifest, seen, warned, epochs, departures, copy,
                     served, outran>>
  BY DEF Save, Goto
<1>3. \/ ~market[p].hosted /\ UNCHANGED <<checkpoint, market, restored>>
      \/ /\ market[p].hosted /\ checkpoint' = plan /\ restored' = FALSE
         /\ market' = [market EXCEPT ![p].leased = k]
  BY <1>1 DEF Save
<1>4. plan \in Plans /\ plan.last = market[p].last /\ plan.next = market[p].next
      /\ plan.epoch = market[p].epoch /\ plan.leased = k
  BY <1>0 DEF Plans, Markets
<1>5. /\ m \in Markets /\ m.last = market[p].last /\ m.next = market[p].next
      /\ m.epoch = market[p].epoch /\ m.bars = market[p].bars /\ m.hosted = market[p].hosted
  BY <1>0 DEF Markets
<1>6. CASE /\ market[p].hosted /\ checkpoint' = plan /\ restored' = FALSE
           /\ market' = [market EXCEPT ![p].leased = k]
  <2>1. market' = [market EXCEPT ![p] = m]
    BY <1>0, <1>6
  <2> HIDE DEF plan, m
  <2> QED BY <1>1, <1>2, <1>4, <1>5, <1>6, <2>1
<1> QED BY <1>2, <1>3, <1>6

\* Flushing: the bars go as far as the one before the newest.
LEMMA FlushEffect ==
  ASSUME Types, NEW p \in Procs, Flush(p)
  PROVE  /\ pc[p] = "flush" /\ pc' = [pc EXCEPT ![p] = "idle"]
         /\ UNCHANGED <<world, checkpoint, record, manifest, seen, warned, market, epochs, departures,
                        copy, served, outran>>
         /\ candles' \in Nat /\ restored' = (restored /\ candles' = candles)
         /\ candles' = candles \/ candles' <= market[p].bars
<1>1. /\ pc[p] = "flush" /\ pc' = [pc EXCEPT ![p] = "idle"]
      /\ UNCHANGED <<world, checkpoint, record, manifest, seen, warned, market, epochs, departures,
                     copy, served, outran>>
      /\ restored' = (restored /\ candles' = candles)
      /\ candles' = Max({candles, market[p].bars - 1})
  BY DEF Flush, Goto
<1>2. PICK c \in Nat, b \in Nat : c = candles /\ b = market[p].bars
  BY DEF Types, Markets
<1>3. Max({c, b - 1}) = IF c >= b - 1 THEN c ELSE b - 1
  BY DEF Max
<1> QED BY <1>1, <1>2, <1>3

\* A checkpoint, here and in the copy, is as it was but for its age.
LEMMA StaleEffect ==
  ASSUME Types, GoesStale
  PROVE  /\ UNCHANGED <<world, record, candles, manifest, procs, epochs, departures, history>>
         /\ checkpoint \in Plans /\ checkpoint' \in Plans
         /\ checkpoint'.stale /\ checkpoint'.last = checkpoint.last /\ checkpoint'.next = checkpoint.next
         /\ checkpoint'.epoch = checkpoint.epoch /\ checkpoint'.leased = checkpoint.leased
         /\ copy' \in Copies /\ copy'.stage = copy.stage /\ copy'.record = copy.record
         /\ copy'.candles = copy.candles /\ copy'.manifest = copy.manifest
         /\ copy.checkpoint = NoCheckpoint => copy'.checkpoint = NoCheckpoint
         /\ copy.checkpoint # NoCheckpoint =>
              /\ copy'.checkpoint \in Plans
              /\ copy'.checkpoint.last = copy.checkpoint.last /\ copy'.checkpoint.next = copy.checkpoint.next
              /\ copy'.checkpoint.leased = copy.checkpoint.leased
<1>1. /\ UNCHANGED <<world, record, candles, manifest, procs, epochs, departures, history>>
      /\ checkpoint # NoCheckpoint
      /\ checkpoint' = [checkpoint EXCEPT !.stale = TRUE]
      /\ copy' = IF copy.checkpoint = NoCheckpoint THEN copy ELSE [copy EXCEPT !.checkpoint.stale = TRUE]
  BY DEF GoesStale
<1>2. /\ checkpoint \in Plans /\ checkpoint' \in Plans
      /\ checkpoint'.stale /\ checkpoint'.last = checkpoint.last /\ checkpoint'.next = checkpoint.next
      /\ checkpoint'.epoch = checkpoint.epoch /\ checkpoint'.leased = checkpoint.leased
  BY <1>1 DEF Types, Checkpoints, Plans
<1>3. copy \in Copies
  BY DEF Types
<1>4. CASE copy.checkpoint = NoCheckpoint
  BY <1>1, <1>2, <1>3, <1>4
<1>5. CASE copy.checkpoint # NoCheckpoint
  <2>1. copy.checkpoint \in Plans
    BY <1>3, <1>5 DEF Copies, Checkpoints
  <2>2. PICK c \in Plans : /\ c = [copy.checkpoint EXCEPT !.stale = TRUE]
                           /\ c.last = copy.checkpoint.last /\ c.next = copy.checkpoint.next
                           /\ c.leased = copy.checkpoint.leased
    <3>1. PICK d \in Plans : d = copy.checkpoint
      BY <2>1
    <3>2. [d EXCEPT !.stale = TRUE] \in Plans
      BY DEF Plans
    <3>3. /\ [d EXCEPT !.stale = TRUE].last = d.last /\ [d EXCEPT !.stale = TRUE].next = d.next
          /\ [d EXCEPT !.stale = TRUE].leased = d.leased
      BY DEF Plans
    <3> QED BY <3>1, <3>2, <3>3
  <2>3. copy' = [copy EXCEPT !.checkpoint = c]
    BY <1>1, <1>3, <1>5, <2>2 DEF Copies
  <2>4. /\ copy' \in Copies /\ copy'.checkpoint = c /\ copy'.stage = copy.stage
        /\ copy'.record = copy.record /\ copy'.candles = copy.candles /\ copy'.manifest = copy.manifest
    BY <1>3, <2>3 DEF Copies, Checkpoints
  <2> QED BY <1>1, <1>2, <1>5, <2>2, <2>4
<1> QED BY <1>4, <1>5

\* A step keeps what the variables hold, as what is published is recorded.
LEMMA TypesStep == Types /\ Recorded /\ [Next]_vars => Types'
<1> SUFFICES ASSUME Types, Recorded, [Next]_vars PROVE Types'
  OBVIOUS
<1> USE DEF files, procs, history
<1>1. ASSUME NEW p \in Procs, VerifyCheckpoint(p) PROVE Types'
  <2>1. Published(checkpoint) \in Nat
    BY ReservedFacts DEF Types
  <2> QED BY <1>1, <2>1 DEF VerifyCheckpoint, Types, Goto, Locations, AllHeads
<1>2. ASSUME NEW p \in Procs, VerifyRecord(p) PROVE Types'
  <2>1. Top(record) \in Nat
    BY TopFacts DEF Types
  <2> QED BY <1>2, <2>1 DEF VerifyRecord, Types, Goto, Locations, AllHeads
<1>3. ASSUME NEW p \in Procs, VerifyHistory(p) PROVE Types'
  <2> DEFINE heads == [seen[p] EXCEPT !.history = candles]
  <2>1. heads \in AllHeads
    BY DEF Types, AllHeads
  <2>2. CASE Verdict(p, heads, heads.record)
    BY <1>3, <2>2, VerdictTypes DEF VerifyHistory, Types
  <2>3. CASE Goto(p, "again") /\ seen' = [seen EXCEPT ![p] = heads] /\ UNCHANGED warned
    <3> HIDE DEF heads
    <3> QED BY <1>3, <2>1, <2>3 DEF VerifyHistory, Types, Goto, Locations
  <2> QED BY <1>3, <2>2, <2>3 DEF VerifyHistory
<1>4. ASSUME NEW p \in Procs, VerifyAgain(p) PROVE Types'
  BY <1>4, VerdictTypes DEF VerifyAgain, Types
<1>5. ASSUME NEW p \in Procs, GivesUp(p) \/ Kill(p) PROVE Types'
  BY <1>5, GoneTypes DEF GivesUp, Kill, Departs, Types
<1>6. ASSUME NEW p \in Procs, Claim(p) PROVE Types'
  <2>1. CASE Gone(p)
    BY <1>6, <2>1, GoneTypes DEF Claim, Types
  <2>2. CASE Goto(p, "start") /\ UNCHANGED <<seen, warned, market>>
    BY <1>6, <2>2 DEF Claim, Types, Goto, Locations
  <2> QED BY <1>6, <2>1, <2>2 DEF Claim
<1>7. ASSUME NEW p \in Procs, Resume(p) PROVE Types'
  <2> DEFINE m == [hosted |-> TRUE, last |-> checkpoint.last, next |-> checkpoint.next,
                   epoch |-> checkpoint.epoch, leased |-> checkpoint.leased,
                   fed |-> Top(record), bars |-> Top(record)]
  <2>1. m \in Markets
    BY <1>7, TopFacts DEF Resume, Resumable, Types, Checkpoints, Plans, Markets
  <2>2. market' = [market EXCEPT ![p] = m]
    BY <1>7 DEF Resume
  <2> HIDE DEF m
  <2> QED BY <1>7, <2>1, <2>2 DEF Resume, Types, Goto, Locations, Running
<1>8. ASSUME NEW p \in Procs, Seam(p) PROVE Types'
  <2> DEFINE known == Reserved(checkpoint, record)
             m == [hosted |-> TRUE,
                   last |-> IF checkpoint # NoCheckpoint THEN checkpoint.last ELSE Newest(record),
                   next |-> known + 1, epoch |-> epochs + 1, leased |-> known + SequenceLease,
                   fed |-> known, bars |-> Top(record)]
  <2>1. m \in Markets
    <3>1. known \in Nat /\ Top(record) \in Nat /\ Newest(record) \in Ticks \cup {NoTick} /\ epochs \in Nat
          /\ SequenceLease \in Nat
      BY ReservedFacts, TopFacts, NewestFacts, DirectoryAssumption DEF Types
    <3>2. checkpoint # NoCheckpoint => checkpoint.last \in Ticks \cup {NoTick}
      BY DEF Types, Checkpoints, Plans
    <3> HIDE DEF known
    <3> QED BY <3>1, <3>2 DEF Markets
  <2>2. CASE Gone(p) /\ UNCHANGED epochs
    BY <1>8, <2>2, GoneTypes DEF Seam, Types
  <2>3. CASE Opened(p, known)
    <3>1. market' = [market EXCEPT ![p] = m] /\ epochs' = epochs + 1 /\ Goto(p, "idle")
          /\ UNCHANGED <<seen, warned>>
      BY <2>3 DEF Opened
    <3> HIDE DEF m
    <3> QED BY <1>8, <2>1, <3>1 DEF Seam, Types, Goto, Locations, Running
  <2> QED BY <1>8, <2>2, <2>3 DEF Seam
<1>9. ASSUME NEW p \in Procs, Append(p) PROVE Types'
  <2>1. restored' \in BOOLEAN /\ record' \in SUBSET Ticks /\ pc' \in [Procs -> Locations]
        /\ market' \in [Procs -> Markets]
    <3>1. PICK m \in Markets :
            /\ market' = [market EXCEPT ![p] = m]
            /\ \/ \E x \in Ticks :
                    /\ record' = record \cup {x}
                    /\ restored' = (restored /\ x \in record)
                    /\ pc' = [pc EXCEPT ![p] = IF x \in record THEN "idle" ELSE "publish"]
               \/ UNCHANGED <<record, restored, pc>>
      BY <1>9, AppendEffect
    <3>2. market' \in [Procs -> Markets]
      BY <3>1 DEF Types
    <3>3. {"idle", "publish"} \subseteq Locations
      BY DEF Locations, Running
    <3> QED BY <3>1, <3>2, <3>3 DEF Types
  <2> QED BY <1>9, <2>1, AppendEffect DEF Types
<1>10. ASSUME NEW p \in Procs, Publish(p) PROVE Types'
  <2>1. market[p].last \in record
    BY <1>10 DEF Recorded, Publish
  <2>2. market' \in [Procs -> Markets] /\ served' \in SUBSET Ticks
    BY <1>10, <2>1, PublishEffect DEF Types
  <2> QED BY <1>10, <2>1, <2>2, PublishEffect DEF Types, Locations, Running
<1>11. ASSUME NEW p \in Procs, CheckpointDue(p) PROVE Types'
  BY <1>11 DEF CheckpointDue, Types, Goto, Locations, Running
<1>12. ASSUME NEW p \in Procs, Save(p) PROVE Types'
  <2>1. market' \in [Procs -> Markets] /\ checkpoint' \in Checkpoints /\ restored' \in BOOLEAN
    BY <1>12, SaveEffect DEF Types, Checkpoints
  <2> QED BY <1>12, <2>1, SaveEffect DEF Types, Locations, Running
<1>13. ASSUME NEW p \in Procs, Flush(p) PROVE Types'
  BY <1>13, FlushEffect DEF Types, Locations, Running
<1>14. CASE BackupCheckpoint
  BY <1>14 DEF BackupCheckpoint, Types, Copies
<1>15. CASE BackupDatabase
  BY <1>15 DEF BackupDatabase, Types, Copies
<1>16. CASE BackupManifest
  <2>1. Heads(copy.checkpoint, copy.record, copy.candles) \in AllHeads
    BY HeadsFacts DEF Types, Copies
  <2> QED BY <1>16, <2>1 DEF BackupManifest, Types, Copies
<1>17. CASE Restore
  BY <1>17 DEF Restore, RolledBack, Departs, Types, Copies
<1>18. CASE PowerLoss
  <2>1. NotSeen \in AllHeads /\ NoMarket \in Markets
    BY HeadsFacts DEF NotSeen, Checkpoints, NoMarket, Markets
  <2>2. record' \in SUBSET Ticks /\ outran' \in BOOLEAN /\ departures' \in Nat
    BY <1>18 DEF PowerLoss, RolledBack, Departs, Types
  <2> QED BY <1>18, <2>1, <2>2 DEF PowerLoss, Types, Locations
<1>19. CASE GoesStale
  <2>1. checkpoint' \in Checkpoints /\ copy' \in Copies
    BY <1>19, StaleEffect DEF Checkpoints
  <2>2. UNCHANGED <<world, record, candles, manifest, procs, epochs, departures, history>>
    BY <1>19, StaleEffect
  <2> QED BY <2>1, <2>2 DEF Types
<1>20. CASE UNCHANGED vars
  BY <1>20 DEF vars, Types
<1> QED BY <1>1, <1>2, <1>3, <1>4, <1>5, <1>6, <1>7, <1>8, <1>9, <1>10, <1>11, <1>12, <1>13, <1>14, <1>15,
           <1>16, <1>17, <1>18, <1>19, <1>20 DEF Next, Boot, Verify, Run, Backup

-----------------------------------------------------------------------------
(* The kinds of step *)

\* Neither the files that say what was published change nor what a market is at,
\* but for markets that go.
Quiet ==
  /\ UNCHANGED <<checkpoint, record, served, outran>>
  /\ \A q \in Procs :
       \/ /\ market'[q] = market[q]
          /\ pc'[q] \in Running <=> pc[q] \in Running
          /\ pc'[q] = "publish" => pc[q] = "publish"
       \/ market'[q] = NoMarket /\ pc'[q] \notin Running

Opens(p) == Seam(p) /\ Reserved(checkpoint, record) >= Top(record) /\ Opened(p, Reserved(checkpoint, record))

\* A process that moves outside of its market's work, or ends.
LEMMA QuietMove ==
  ASSUME Types, NEW p \in Procs, NEW w, UNCHANGED <<checkpoint, record, served, outran>>,
         \/ Goto(p, w) /\ UNCHANGED market /\ w # "publish" /\ (w \in Running <=> pc[p] \in Running)
         \/ Gone(p)
  PROVE  Quiet
BY DEF Types, Goto, Gone, Quiet, Running

\* Every step is of one of these kinds.
LEMMA Kinds ==
  ASSUME Types, [Next]_vars
  PROVE  \/ Quiet
         \/ \E p \in Procs : Resume(p) \/ Opens(p) \/ Append(p) \/ Publish(p)
         \/ \E p \in Procs : Save(p) /\ market[p].hosted
         \/ Restore \/ PowerLoss \/ GoesStale
<1> USE DEF files, procs, history
<1>1. ASSUME NEW p \in Procs, VerifyCheckpoint(p) PROVE Quiet
  BY <1>1, QuietMove DEF VerifyCheckpoint, Running
<1>2. ASSUME NEW p \in Procs, VerifyRecord(p) PROVE Quiet
  BY <1>2, QuietMove DEF VerifyRecord, Running
<1>3. ASSUME NEW p \in Procs, VerifyHistory(p) PROVE Quiet
  BY <1>3, QuietMove DEF VerifyHistory, Verdict, Running
<1>4. ASSUME NEW p \in Procs, VerifyAgain(p) PROVE Quiet
  BY <1>4, QuietMove DEF VerifyAgain, Verdict, Running
<1>5. ASSUME NEW p \in Procs, GivesUp(p) \/ Kill(p) PROVE Quiet
  BY <1>5, QuietMove DEF GivesUp, Kill
<1>6. ASSUME NEW p \in Procs, Claim(p) PROVE Quiet
  BY <1>6, QuietMove DEF Claim, Running
<1>7. ASSUME NEW p \in Procs, Seam(p) PROVE Quiet \/ Opens(p)
  <2>1. CASE Gone(p) /\ UNCHANGED epochs
    BY <1>7, <2>1, QuietMove DEF Seam
  <2>2. CASE Reserved(checkpoint, record) >= Top(record) /\ Opened(p, Reserved(checkpoint, record))
    BY <1>7, <2>2 DEF Opens
  <2>3. Reserved(checkpoint, record) \in Nat /\ Top(record) \in Nat
    BY ReservedFacts, TopFacts DEF Types
  <2> QED BY <1>7, <2>1, <2>2, <2>3 DEF Seam
<1>8. ASSUME NEW p \in Procs, CheckpointDue(p) PROVE Quiet
  BY <1>8, QuietMove DEF CheckpointDue, Running
<1>9. ASSUME NEW p \in Procs, Save(p), ~market[p].hosted PROVE Quiet
  BY <1>9, SaveEffect DEF Quiet, Types, Running
<1>10. ASSUME NEW p \in Procs, Flush(p) PROVE Quiet
  BY <1>10, FlushEffect DEF Quiet, Types, Running
<1>11. CASE Backup
  BY <1>11 DEF Backup, BackupCheckpoint, BackupDatabase, BackupManifest, Quiet
<1>12. CASE UNCHANGED vars
  BY <1>12 DEF vars, Quiet
<1> QED BY <1>1, <1>2, <1>3, <1>4, <1>5, <1>6, <1>7, <1>8, <1>9, <1>10, <1>11, <1>12
        DEF Next, Boot, Verify, Run

\* Resuming: the market is where the checkpoint says.
LEMMA ResumeEffect ==
  ASSUME Types, NEW p \in Procs, Resume(p)
  PROVE  /\ pc[p] = "start" /\ pc' = [pc EXCEPT ![p] = "idle"]
         /\ Resumable /\ checkpoint \in Plans
         /\ UNCHANGED <<world, files, seen, warned, epochs, departures, copy, history>>
         /\ \E m \in Markets :
              /\ market' = [market EXCEPT ![p] = m]
              /\ m.hosted /\ m.last = checkpoint.last /\ m.next = checkpoint.next
              /\ m.epoch = checkpoint.epoch /\ m.bars = Top(record)
<1> DEFINE m == [hosted |-> TRUE, last |-> checkpoint.last, next |-> checkpoint.next,
                 epoch |-> checkpoint.epoch, leased |-> checkpoint.leased,
                 fed |-> Top(record), bars |-> Top(record)]
<1>1. checkpoint \in Plans
  BY DEF Resume, Resumable, Types, Checkpoints
<1>2. m \in Markets
  BY <1>1, TopFacts DEF Types, Plans, Markets
<1>3. /\ pc[p] = "start" /\ pc' = [pc EXCEPT ![p] = "idle"] /\ Resumable
      /\ UNCHANGED <<world, files, seen, warned, epochs, departures, copy, history>>
      /\ market' = [market EXCEPT ![p] = m]
  BY DEF Resume, Goto
<1> QED BY <1>1, <1>2, <1>3

\* Opening behind a seam: the market goes on past what is reserved.
LEMMA OpenEffect ==
  ASSUME Types, NEW p \in Procs, Opens(p)
  PROVE  /\ pc[p] = "start" /\ pc' = [pc EXCEPT ![p] = "idle"]
         /\ UNCHANGED <<world, files, seen, warned, departures, copy, history>>
         /\ \E m \in Markets :
              /\ market' = [market EXCEPT ![p] = m]
              /\ m.hosted /\ m.next = Reserved(checkpoint, record) + 1 /\ m.bars = Top(record)
              /\ m.last = IF checkpoint # NoCheckpoint THEN checkpoint.last ELSE Newest(record)
<1> DEFINE known == Reserved(checkpoint, record)
           m == [hosted |-> TRUE,
                 last |-> IF checkpoint # NoCheckpoint THEN checkpoint.last ELSE Newest(record),
                 next |-> known + 1, epoch |-> epochs + 1, leased |-> known + SequenceLease,
                 fed |-> known, bars |-> Top(record)]
<1>1. m \in Markets
  <2>1. known \in Nat /\ Top(record) \in Nat /\ Newest(record) \in Ticks \cup {NoTick} /\ epochs \in Nat
        /\ SequenceLease \in Nat
    BY ReservedFacts, TopFacts, NewestFacts, DirectoryAssumption DEF Types
  <2>2. checkpoint # NoCheckpoint => checkpoint.last \in Ticks \cup {NoTick}
    BY DEF Types, Checkpoints, Plans
  <2> HIDE DEF known
  <2> QED BY <2>1, <2>2 DEF Markets
<1>2. /\ pc[p] = "start" /\ pc' = [pc EXCEPT ![p] = "idle"]
      /\ UNCHANGED <<world, files, seen, warned, departures, copy, history>>
      /\ market' = [market EXCEPT ![p] = m]
  BY DEF Opens, Seam, Opened, Goto
<1> QED BY <1>1, <1>2

-----------------------------------------------------------------------------
(* Markets *)

\* What checkpoints and markets say they have published.
LEMMA LastFacts ==
  ASSUME Types
  PROVE  /\ Published(checkpoint) \in Nat /\ Published(NoCheckpoint) = 0
         /\ \A c \in Plans : Published(c) = LastOf(c) /\ Published(c) \in Nat
         /\ \A m \in Markets : LastOf(m) \in Nat
         /\ \A p \in Procs : /\ market[p] \in Markets /\ LastOf(market[p]) \in Nat
                             /\ market[p].next \in Nat /\ market[p].bars \in Nat
         /\ ~NoMarket.hosted /\ NoMarket.bars = 0
<1>1. \A c \in Plans : Published(c) = LastOf(c)
  BY NullAssumption DEF Published, LastOf
<1>2. \A c \in Plans : Published(c) \in Nat
  BY ReservedFacts DEF Checkpoints
<1>3. \A m \in Markets : LastOf(m) \in Nat
  BY DEF LastOf, Markets, Ticks
<1>4. Published(checkpoint) \in Nat
  BY ReservedFacts DEF Types
<1>5. \A p \in Procs : market[p] \in Markets /\ market[p].next \in Nat /\ market[p].bars \in Nat
  BY DEF Types, Markets
<1>6. Published(NoCheckpoint) = 0 /\ ~NoMarket.hosted /\ NoMarket.bars = 0
  BY DEF Published, NoMarket
<1> QED BY <1>1, <1>2, <1>3, <1>4, <1>5, <1>6

\* A market at a place that a step does not change keeps what it says.
LEMMA MarktStep ==
  ASSUME Types, Types', Recorded, Markt, GoesOn(checkpoint), Reaches \/ Shut, [Next]_vars
  PROVE  Markt'
<1> USE DEF files, procs, history
<1>0. /\ record \in SUBSET Ticks /\ record' \in SUBSET Ticks /\ Top(record) \in Nat /\ Top(record') \in Nat
      /\ market \in [Procs -> Markets] /\ pc \in [Procs -> Locations]
      /\ SequenceLease \in Nat
  BY TopFacts, DirectoryAssumption DEF Types
<1>a. /\ Published(checkpoint) \in Nat /\ Published(NoCheckpoint) = 0
      /\ \A c \in Plans : Published(c) = LastOf(c) /\ Published(c) \in Nat
      /\ \A m \in Markets : LastOf(m) \in Nat
      /\ \A p \in Procs : market[p] \in Markets /\ LastOf(market[p]) \in Nat /\ market[p].next \in Nat
      /\ ~NoMarket.hosted
  BY LastFacts
<1>1. CASE Quiet
  BY <1>1, <1>a DEF Quiet, Markt
<1>2. ASSUME NEW p \in Procs, Resume(p) PROVE Markt'
  <2>1. PICK m \in Markets :
          /\ market' = [market EXCEPT ![p] = m]
          /\ m.last = checkpoint.last /\ m.next = checkpoint.next
    BY <1>2, ResumeEffect
  <2>2. /\ pc[p] = "start" /\ pc' = [pc EXCEPT ![p] = "idle"] /\ checkpoint \in Plans
        /\ UNCHANGED <<record, checkpoint>>
    BY <1>2, ResumeEffect
  <2>3. LastOf(m) = Published(checkpoint)
    BY <1>a, <2>1, <2>2 DEF LastOf
  <2>4. Published(checkpoint) < checkpoint.next
    BY <2>2, NullAssumption DEF GoesOn
  <2>5. record # {} => Published(checkpoint) <= Top(record)
    BY <1>2, <2>2 DEF Reaches, Shut
  <2> QED BY <1>0, <1>a, <2>1, <2>2, <2>3, <2>4, <2>5 DEF Markt, Running
<1>3. ASSUME NEW p \in Procs, Opens(p) PROVE Markt'
  <2>1. PICK m \in Markets :
          /\ market' = [market EXCEPT ![p] = m]
          /\ m.next = Reserved(checkpoint, record) + 1
          /\ m.last = IF checkpoint # NoCheckpoint THEN checkpoint.last ELSE Newest(record)
    BY <1>3, OpenEffect
  <2>2. /\ pc[p] = "start" /\ pc' = [pc EXCEPT ![p] = "idle"] /\ UNCHANGED <<record, checkpoint>>
    BY <1>3, OpenEffect
  <2>3. Reserved(checkpoint, record) \in Nat /\ Reserved(checkpoint, record) >= Top(record)
    BY <1>3, ReservedFacts DEF Types, Opens
  <2>4. record # {} => Published(checkpoint) <= Top(record)
    BY <2>2 DEF Reaches, Shut
  <2>5. /\ LastOf(m) <= Reserved(checkpoint, record)
        /\ record # {} => LastOf(m) <= Top(record)
        /\ record = {} => LastOf(m) = Published(checkpoint)
    <3>1. CASE checkpoint = NoCheckpoint
      <4>1. m.last = Newest(record) /\ Published(checkpoint) = 0
        BY <1>a, <2>1, <3>1
      <4>2. CASE record = {}
        <5>1. LastOf(m) = 0
          BY <4>1, <4>2, NewestFacts DEF LastOf
        <5> QED BY <2>3, <4>1, <4>2, <5>1
      <4>3. CASE record # {}
        <5>1. m.last \in record /\ m.last.sequence = Top(record)
          BY <1>0, <4>1, <4>3, NewestFacts
        <5>2. LastOf(m) = Top(record)
          BY <1>0, <5>1, NullAssumption DEF LastOf
        <5> QED BY <1>0, <2>3, <4>3, <5>2
      <4> QED BY <4>2, <4>3
    <3>2. CASE checkpoint # NoCheckpoint
      <4>1. checkpoint \in Plans /\ m.last = checkpoint.last
        BY <2>1, <3>2 DEF Types, Checkpoints
      <4>2. LastOf(m) = Published(checkpoint)
        BY <1>a, <4>1 DEF LastOf
      <4>3. CASE checkpoint.last = NoTick
        <5>1. Published(checkpoint) = 0
          BY <4>3 DEF Published
        <5> QED BY <2>3, <2>4, <4>2, <5>1
      <4>4. CASE checkpoint.last # NoTick
        <5>1. Reserved(checkpoint, record) >= Published(checkpoint) + SequenceLease
          BY <3>2, <4>4, ReservedFacts DEF Types
        <5> QED BY <1>0, <1>a, <2>3, <2>4, <4>2, <5>1
      <4> QED BY <4>3, <4>4
    <3> QED BY <3>1, <3>2
  <2> QED BY <1>0, <1>a, <2>1, <2>2, <2>3, <2>5 DEF Markt, Running
<1>4. ASSUME NEW p \in Procs, Append(p) PROVE Markt'
  <2>1. PICK m \in Markets :
          /\ market' = [market EXCEPT ![p] = m]
          /\ \/ \E x \in Ticks :
                  /\ x.sequence = market[p].next
                  /\ m.last = x /\ m.next = market[p].next + 1
                  /\ record' = record \cup {x}
                  /\ pc' = [pc EXCEPT ![p] = IF x \in record THEN "idle" ELSE "publish"]
             \/ ~m.hosted /\ UNCHANGED <<record, pc>>
    BY <1>4, AppendEffect
  <2>2. pc[p] = "idle" /\ market[p].hosted /\ UNCHANGED checkpoint
    BY <1>4, AppendEffect
  <2>3. ASSUME NEW x \in Ticks,
               x.sequence = market[p].next, m.last = x, m.next = market[p].next + 1,
               record' = record \cup {x},
               pc' = [pc EXCEPT ![p] = IF x \in record THEN "idle" ELSE "publish"]
        PROVE  Markt'
    <3>1. LastOf(m) = market[p].next /\ record' # {}
      BY <2>3, NullAssumption DEF LastOf
    <3>2. market[p].next <= Top(record') /\ Top(record) <= Top(record')
      BY <1>0, <1>a, <2>3, TopOfMore
    <3>3. ASSUME NEW q \in Procs, market[q].hosted PROVE LastOf(market[q]) <= Top(record')
      <4>1. CASE record # {}
        BY <1>0, <1>a, <3>2, <3>3, <4>1 DEF Markt
      <4>2. CASE record = {}
        <5>1. LastOf(market[q]) = LastOf(market[p]) /\ LastOf(market[p]) < market[p].next
          BY <2>2, <3>3, <4>2 DEF Markt
        <5> QED BY <1>0, <1>a, <3>2, <5>1
      <4> QED BY <4>1, <4>2
    <3> QED BY <1>0, <1>a, <2>1, <2>2, <2>3, <3>1, <3>2, <3>3 DEF Markt, Running
  <2>4. CASE ~m.hosted /\ UNCHANGED <<record, pc>>
    BY <1>0, <1>a, <2>1, <2>2, <2>4 DEF Markt, Running
  <2> QED BY <2>1, <2>3, <2>4
<1>5. ASSUME NEW p \in Procs, Publish(p) PROVE Markt'
  <2>0. market[p].last \in record
    BY <1>5 DEF Recorded, Publish
  <2>1. PICK m \in Markets :
          /\ market' = [market EXCEPT ![p] = m]
          /\ m.last = market[p].last /\ m.next = market[p].next
          /\ m.hosted => market[p].hosted
    BY <1>5, <2>0, PublishEffect
  <2>2. pc[p] = "publish" /\ pc' = [pc EXCEPT ![p] = "idle"] /\ UNCHANGED <<record, checkpoint>>
    BY <1>5, <2>0, PublishEffect
  <2>3. LastOf(m) = LastOf(market[p])
    BY <2>1 DEF LastOf
  <2> QED BY <1>0, <1>a, <2>1, <2>2, <2>3 DEF Markt, Running
<1>6. ASSUME NEW p \in Procs, Save(p), market[p].hosted PROVE Markt'
  <2>1. PICK m \in Markets :
          /\ market' = [market EXCEPT ![p] = m]
          /\ m.last = market[p].last /\ m.next = market[p].next
          /\ checkpoint' \in Plans /\ checkpoint'.last = m.last
    BY <1>6, SaveEffect
  <2>2. pc[p] = "save" /\ pc' = [pc EXCEPT ![p] = "flush"] /\ UNCHANGED record
    BY <1>6, SaveEffect
  <2>3. LastOf(m) = LastOf(market[p]) /\ Published(checkpoint') = LastOf(m)
    BY <1>a, <2>1 DEF LastOf
  <2> QED BY <1>0, <1>6, <1>a, <2>1, <2>2, <2>3 DEF Markt, Running
<1>7. CASE Restore
  BY <1>7, <1>a DEF Restore, Markt, Running
<1>8. CASE PowerLoss
  BY <1>8, <1>a DEF PowerLoss, Markt, Running
<1>9. CASE GoesStale
  <2>1. /\ UNCHANGED <<record, procs>> /\ checkpoint \in Plans /\ checkpoint' \in Plans
        /\ checkpoint'.last = checkpoint.last
    BY <1>9, StaleEffect
  <2>2. Published(checkpoint') = Published(checkpoint)
    BY <1>a, <2>1 DEF LastOf
  <2> QED BY <2>1, <2>2 DEF Markt
<1> QED BY Kinds, <1>1, <1>2, <1>3, <1>4, <1>5, <1>6, <1>7, <1>8, <1>9

\* A verdict over heads that are behind the checkpoint refuses.
LEMMA BehindIsRefused ==
  ASSUME Types, NEW p \in Procs, NEW heads, NEW settled, Verdict(p, heads, settled),
         heads.record # 0, heads.record < heads.checkpoint
  PROVE  pc' = [pc EXCEPT ![p] = "refused"]
BY DEF Verdict, Inconsistent, Goto

\* A record is behind its checkpoint only while nobody is past the check of it.
LEMMA ReachStep ==
  ASSUME Types, Types', Recorded, Markt, Reaches \/ Shut, [Next]_vars
  PROVE  (Reaches \/ Shut)'
<1> USE DEF files, procs, history
<1>0. /\ record \in SUBSET Ticks /\ record' \in SUBSET Ticks /\ Top(record) \in Nat /\ Top(record') \in Nat
      /\ market \in [Procs -> Markets] /\ pc \in [Procs -> Locations] /\ seen \in [Procs -> AllHeads]
      /\ record # {} => Top(record) # 0
  <2>1. record # {} => Top(record) # 0
    <3>1. SUFFICES ASSUME record # {} PROVE Top(record) # 0
      OBVIOUS
    <3>2. PICK t \in record : t.sequence = Top(record)
      BY <3>1, TopFacts DEF Types
    <3> QED BY <3>2 DEF Types, Ticks
  <2> QED BY <2>1, TopFacts DEF Types
<1>a. /\ Published(checkpoint) \in Nat
      /\ \A c \in Plans : Published(c) = LastOf(c) /\ Published(c) \in Nat
      /\ \A p \in Procs : market[p] \in Markets /\ LastOf(market[p]) \in Nat /\ market[p].next \in Nat
  BY LastFacts
<1>7. CASE Restore
  BY <1>7 DEF Restore, Shut
<1>8. CASE PowerLoss
  BY <1>8 DEF PowerLoss, Shut
<1>9. CASE GoesStale
  <2>1. /\ UNCHANGED <<record, procs>> /\ checkpoint \in Plans /\ checkpoint' \in Plans
        /\ checkpoint'.last = checkpoint.last
    BY <1>9, StaleEffect
  <2>2. Published(checkpoint') = Published(checkpoint)
    BY <1>a, <2>1 DEF LastOf
  <2> QED BY <2>1, <2>2 DEF Reaches, Shut
<1>1. CASE Reaches
  <2>1. CASE Quiet
    BY <1>1, <2>1 DEF Quiet, Reaches
  <2>2. ASSUME NEW p \in Procs, Resume(p) \/ Opens(p) PROVE Reaches'
    BY <1>1, <2>2, ResumeEffect, OpenEffect DEF Reaches
  <2>3. ASSUME NEW p \in Procs, Append(p) PROVE Reaches'
    <3>1. market[p].hosted /\ UNCHANGED checkpoint
      BY <2>3, AppendEffect
    <3>2. CASE UNCHANGED record
      BY <1>1, <3>1, <3>2 DEF Reaches
    <3>3. ASSUME NEW x \in Ticks, x.sequence = market[p].next, record' = record \cup {x} PROVE Reaches'
      <4>1. market[p].next <= Top(record') /\ Top(record) <= Top(record')
        BY <1>0, <1>a, <3>3, TopOfMore
      <4>2. CASE record = {}
        <5>1. Published(checkpoint) < market[p].next
          BY <3>1, <4>2 DEF Markt
        <5> QED BY <1>0, <1>a, <3>1, <4>1, <5>1 DEF Reaches
      <4>3. CASE record # {}
        BY <1>0, <1>a, <1>1, <3>1, <4>1, <4>3 DEF Reaches
      <4> QED BY <4>2, <4>3
    <3> QED BY <2>3, <3>2, <3>3, AppendEffect
  <2>4. ASSUME NEW p \in Procs, Publish(p) PROVE Reaches'
    <3>1. market[p].last \in record
      BY <2>4 DEF Recorded, Publish
    <3> QED BY <1>1, <2>4, <3>1, PublishEffect DEF Reaches
  <2>5. ASSUME NEW p \in Procs, Save(p), market[p].hosted PROVE Reaches'
    <3>1. /\ checkpoint' \in Plans /\ checkpoint'.last = market[p].last /\ UNCHANGED record
      BY <2>5, SaveEffect
    <3>2. Published(checkpoint') = LastOf(market[p])
      BY <1>a, <3>1 DEF LastOf
    <3>3. record # {} => LastOf(market[p]) <= Top(record)
      BY <2>5 DEF Markt
    <3> QED BY <3>1, <3>2, <3>3 DEF Reaches
  <2> QED BY Kinds, <1>7, <1>8, <1>9, <2>1, <2>2, <2>3, <2>4, <2>5
<1>2. CASE ~Reaches /\ Shut
  <2>0. /\ record # {} /\ Top(record) < Published(checkpoint) /\ Top(record) # 0
        /\ \A q \in Procs : pc[q] \in {"down", "record", "history", "again", "refused"}
    BY <1>0, <1>2, <1>a DEF Reaches, Shut
  <2>1. ASSUME NEW p \in Procs, VerifyCheckpoint(p) PROVE Shut'
    BY <1>0, <1>2, <2>1 DEF VerifyCheckpoint, Shut, Goto, AllHeads
  <2>2. ASSUME NEW p \in Procs, VerifyRecord(p) PROVE Shut'
    BY <1>0, <1>2, <2>2 DEF VerifyRecord, Shut, Goto, AllHeads
  <2>3. ASSUME NEW p \in Procs, VerifyHistory(p) PROVE Shut'
    <3> DEFINE heads == [seen[p] EXCEPT !.history = candles]
    <3>1. /\ heads.checkpoint = Published(checkpoint) /\ heads.record = Top(record)
          /\ pc[p] = "history"
      BY <1>0, <1>2, <2>3 DEF VerifyHistory, Shut, AllHeads
    <3>2. UNCHANGED <<files, market>>
      BY <2>3 DEF VerifyHistory
    <3>3. CASE Verdict(p, heads, heads.record)
      <4>1. pc' = [pc EXCEPT ![p] = "refused"] /\ seen' = [seen EXCEPT ![p] = NotSeen]
        BY <2>0, <3>1, <3>3, BehindIsRefused DEF Verdict
      <4> QED BY <1>0, <1>2, <3>2, <4>1 DEF Shut
    <3>4. CASE Goto(p, "again") /\ seen' = [seen EXCEPT ![p] = heads]
      <4> HIDE DEF heads
      <4> QED BY <1>0, <1>2, <3>1, <3>2, <3>4 DEF Shut, Goto
    <3> QED BY <2>3, <3>3, <3>4 DEF VerifyHistory
  <2>4. ASSUME NEW p \in Procs, VerifyAgain(p) PROVE Shut'
    <3>1. /\ seen[p].checkpoint = Published(checkpoint) /\ seen[p].record = Top(record)
          /\ pc[p] = "again" /\ UNCHANGED files
      BY <1>2, <2>4 DEF VerifyAgain, Shut
    <3>2. pc' = [pc EXCEPT ![p] = "refused"] /\ seen' = [seen EXCEPT ![p] = NotSeen]
      BY <2>0, <2>4, <3>1, BehindIsRefused DEF Verdict, VerifyAgain
    <3> QED BY <1>0, <1>2, <3>1, <3>2 DEF Shut
  <2>5. ASSUME NEW p \in Procs, GivesUp(p) \/ Kill(p) PROVE Shut'
    BY <1>0, <1>2, <2>5 DEF GivesUp, Kill, Gone, Goto, Shut
  <2>6. ASSUME NEW p \in Procs, Claim(p) \/ Resume(p) \/ Seam(p) \/ Run(p) PROVE FALSE
    BY <2>0, <2>6 DEF Claim, Resume, Seam, Run, Append, Publish, CheckpointDue, Save, Flush
  <2>7. CASE Backup \/ UNCHANGED vars
    BY <1>2, <2>7 DEF Backup, BackupCheckpoint, BackupDatabase, BackupManifest, vars, Shut
  <2> QED BY <1>7, <1>8, <1>9, <2>1, <2>2, <2>3, <2>4, <2>5, <2>6, <2>7 DEF Next, Boot, Verify
<1> QED BY <1>1, <1>2

-----------------------------------------------------------------------------
(* Values *)

\* The copy is taken of what the files hold, one file a step.
LEMMA CopyStep ==
  ASSUME Types, [Next]_vars
  PROVE  /\ copy'.record = copy.record \/ copy'.record = record
         /\ copy'.checkpoint = copy.checkpoint \/ copy'.checkpoint = checkpoint \/ GoesStale
<1> USE DEF files, procs, history
<1>0. copy \in Copies
  BY DEF Types
<1>1. CASE BackupCheckpoint \/ BackupDatabase \/ BackupManifest
  BY <1>0, <1>1 DEF BackupCheckpoint, BackupDatabase, BackupManifest, Copies
<1>2. CASE GoesStale
  BY <1>2, StaleEffect
<1>3. CASE Restore \/ PowerLoss \/ UNCHANGED vars
  BY <1>3 DEF Restore, PowerLoss, vars
<1>4. ASSUME NEW p \in Procs, Boot(p) \/ Run(p) \/ Kill(p) PROVE copy' = copy
  <2>1. CASE Boot(p)
    BY <2>1 DEF Boot, Verify, VerifyCheckpoint, VerifyRecord, VerifyHistory, VerifyAgain, GivesUp, Claim,
                Resume, Seam
  <2>2. CASE Run(p) \/ Kill(p)
    BY <2>2 DEF Run, Kill, Append, Publish, CheckpointDue, Save, Flush
  <2> QED BY <1>4, <2>1, <2>2
<1> QED BY <1>1, <1>2, <1>3, <1>4 DEF Next, Backup

\* One value per sequence, in the files and in what was served.
LEMMA ValuesStep ==
  ASSUME Types, Types', Recorded, ServedNext, Markt, Values, [Next]_vars
  PROVE  Values'
<1> USE DEF files, procs, history
<1>0. /\ record \in SUBSET Ticks /\ record' \in SUBSET Ticks /\ Top(record) \in Nat /\ served \in SUBSET Ticks
      /\ \A t \in record : t.sequence <= Top(record) /\ t.sequence \in Nat
  BY TopFacts DEF Types, Ticks
<1>1. OneValue(copy.record)'
  BY CopyStep DEF Values, OneValue
<1>2. ASSUME GoesStale PROVE Values'
  <2>1. /\ UNCHANGED <<record, history>> /\ checkpoint \in Plans /\ checkpoint' \in Plans
        /\ checkpoint'.last = checkpoint.last /\ checkpoint'.next = checkpoint.next
        /\ checkpoint'.leased = checkpoint.leased
    BY <1>2, StaleEffect
  <2>2. Published(checkpoint') = Published(checkpoint) /\ NoCheckpoint \notin Plans
    BY <2>1, LastFacts, NullAssumption DEF LastOf
  <2>3. GoesOn(checkpoint)'
    BY <2>1, <2>2 DEF GoesOn, Values
  <2>4. GoesOn(copy.checkpoint)'
    <3>1. CASE copy.checkpoint = NoCheckpoint
      BY <1>2, <3>1, StaleEffect DEF GoesOn
    <3>2. CASE copy.checkpoint # NoCheckpoint
      <4>1. /\ copy'.checkpoint \in Plans /\ copy.checkpoint \in Plans
            /\ copy'.checkpoint.last = copy.checkpoint.last /\ copy'.checkpoint.next = copy.checkpoint.next
            /\ copy'.checkpoint.leased = copy.checkpoint.leased
        BY <1>2, <3>2, StaleEffect DEF Types, Copies, Checkpoints
      <4>2. Published(copy'.checkpoint) = Published(copy.checkpoint)
        BY <4>1, LastFacts DEF LastOf
      <4> QED BY <3>2, <4>1, <4>2 DEF GoesOn, Values
    <3> QED BY <3>1, <3>2
  <2> QED BY <1>1, <2>1, <2>3, <2>4 DEF Values, OneValue, ServedOnce
<1>3. ~GoesStale => GoesOn(copy.checkpoint)'
  BY CopyStep DEF Values, GoesOn
<1>4. CASE Quiet
  <2>1. UNCHANGED <<checkpoint, record, served, outran>>
    BY <1>4 DEF Quiet
  <2> QED BY <1>1, <1>2, <1>3, <2>1 DEF Values, OneValue, GoesOn, ServedOnce
<1>5. ASSUME NEW p \in Procs, Resume(p) \/ Opens(p) PROVE Values'
  <2>1. UNCHANGED <<checkpoint, record, served, outran>>
    BY <1>5, ResumeEffect, OpenEffect
  <2> QED BY <1>1, <1>2, <1>3, <2>1 DEF Values, OneValue, GoesOn, ServedOnce
<1>6. ASSUME NEW p \in Procs, Append(p) PROVE Values'
  <2>1. UNCHANGED <<checkpoint, served, outran>>
    BY <1>6, AppendEffect
  <2>2. CASE UNCHANGED record
    BY <1>1, <1>2, <1>3, <2>1, <2>2 DEF Values, OneValue, GoesOn, ServedOnce
  <2>3. ASSUME NEW x \in Ticks, x \in record \/ x.sequence > Top(record), record' = record \cup {x} PROVE Values'
    <3>1. \A s \in record : s.sequence = x.sequence => s = x
      <4>1. CASE x \in record
        BY <4>1 DEF Values, OneValue
      <4>2. CASE x.sequence > Top(record)
        <5>1. x.sequence \in Nat
          BY DEF Ticks
        <5> QED BY <1>0, <4>2, <5>1
      <4> QED BY <2>3, <4>1, <4>2
    <3>2. OneValue(record)'
      BY <2>3, <3>1 DEF Values, OneValue
    <3> QED BY <1>1, <1>2, <1>3, <2>1, <3>2 DEF Values, GoesOn, ServedOnce
  <2> QED BY <1>6, <2>2, <2>3, AppendEffect
<1>7. ASSUME NEW p \in Procs, Publish(p) PROVE Values'
  <2>1. market[p].last \in record /\ pc[p] = "publish"
    BY <1>7 DEF Recorded, Publish
  <2>2. /\ UNCHANGED <<checkpoint, record, outran>>
        /\ served' = served \cup {market[p].last} \/ served' = served
    BY <1>7, <2>1, PublishEffect
  <2>3. ASSUME ~outran, NEW t \in served, t.sequence = market[p].last.sequence PROVE t = market[p].last
    <3>1. CASE t \in record
      BY <2>1, <2>3, <3>1 DEF Values, OneValue
    <3>2. CASE t \in Lost
      BY <2>1, <2>3, <3>2 DEF ServedNext
    <3> QED BY <3>1, <3>2 DEF Lost
  <2>4. ServedOnce'
    BY <2>2, <2>3 DEF Values, ServedOnce
  <2> QED BY <1>1, <1>2, <1>3, <2>2, <2>4 DEF Values, OneValue, GoesOn
<1>8. ASSUME NEW p \in Procs, Save(p), market[p].hosted PROVE Values'
  <2>1. /\ UNCHANGED <<record, served, outran>>
        /\ checkpoint' \in Plans /\ checkpoint'.last = market[p].last /\ checkpoint'.next = market[p].next
        /\ checkpoint'.leased = checkpoint'.next + SequenceLease
    BY <1>8, SaveEffect
  <2>2. Published(checkpoint') = LastOf(market[p]) /\ LastOf(market[p]) < market[p].next
    BY <1>8, <2>1, LastFacts DEF LastOf, Markt
  <2>3. GoesOn(checkpoint)'
    BY <2>1, <2>2 DEF GoesOn
  <2> QED BY <1>1, <1>2, <1>3, <2>1, <2>3 DEF Values, OneValue, ServedOnce
<1>9. CASE Restore
  <2>1. /\ checkpoint' = copy.checkpoint /\ record' = copy.record /\ served' = served /\ (outran => outran')
    BY <1>9 DEF Restore, RolledBack
  <2>2. ServedOnce'
    BY <2>1 DEF Values, ServedOnce
  <2>3. GoesOn(checkpoint)' /\ OneValue(record)'
    BY <2>1 DEF Values, GoesOn, OneValue
  <2> QED BY <1>1, <1>2, <1>3, <2>2, <2>3 DEF Values
<1>10. CASE PowerLoss
  <2>1. /\ checkpoint' = checkpoint /\ record' \subseteq record /\ served' = served /\ (outran => outran')
    BY <1>10 DEF PowerLoss, RolledBack
  <2>2. ServedOnce'
    BY <2>1 DEF Values, ServedOnce
  <2>3. GoesOn(checkpoint)' /\ OneValue(record)'
    BY <2>1 DEF Values, GoesOn, OneValue
  <2> QED BY <1>1, <1>2, <1>3, <2>2, <2>3 DEF Values
<1> QED BY Kinds, <1>2, <1>4, <1>5, <1>6, <1>7, <1>8, <1>9, <1>10

-----------------------------------------------------------------------------
(* What was served and is lost *)

\* What is about to be published is recorded.
LEMMA RecordedStep ==
  ASSUME Types, Types', Recorded, [Next]_vars
  PROVE  Recorded'
<1> USE DEF files, procs, history
<1>0. market \in [Procs -> Markets] /\ pc \in [Procs -> Locations]
  BY DEF Types
<1>1. CASE Quiet
  BY <1>1 DEF Quiet, Recorded, Running
<1>2. ASSUME NEW p \in Procs, Resume(p) \/ Opens(p) PROVE Recorded'
  <2>1. PICK m \in Markets : market' = [market EXCEPT ![p] = m]
    BY <1>2, ResumeEffect, OpenEffect
  <2>2. pc' = [pc EXCEPT ![p] = "idle"] /\ record' = record
    BY <1>2, ResumeEffect, OpenEffect
  <2> QED BY <1>0, <2>1, <2>2 DEF Recorded
<1>3. ASSUME NEW p \in Procs, Append(p) PROVE Recorded'
  <2>1. PICK m \in Markets :
          /\ market' = [market EXCEPT ![p] = m]
          /\ \/ \E x \in Ticks :
                  /\ m.last = x /\ record' = record \cup {x}
                  /\ pc' = [pc EXCEPT ![p] = IF x \in record THEN "idle" ELSE "publish"]
             \/ UNCHANGED <<record, pc>>
    BY <1>3, AppendEffect
  <2>2. pc[p] = "idle"
    BY <1>3, AppendEffect
  <2> QED BY <1>0, <2>1, <2>2 DEF Recorded
<1>4. ASSUME NEW p \in Procs, Publish(p) PROVE Recorded'
  <2>1. market[p].last \in record
    BY <1>4 DEF Recorded, Publish
  <2>2. PICK m \in Markets : market' = [market EXCEPT ![p] = m]
    BY <1>4, <2>1, PublishEffect
  <2>3. pc' = [pc EXCEPT ![p] = "idle"] /\ record' = record
    BY <1>4, <2>1, PublishEffect
  <2> QED BY <1>0, <2>2, <2>3 DEF Recorded
<1>5. ASSUME NEW p \in Procs, Save(p), market[p].hosted PROVE Recorded'
  <2>1. PICK m \in Markets : market' = [market EXCEPT ![p] = m]
    BY <1>5, SaveEffect
  <2>2. pc' = [pc EXCEPT ![p] = "flush"] /\ record' = record
    BY <1>5, SaveEffect
  <2> QED BY <1>0, <2>1, <2>2 DEF Recorded
<1>6. CASE Restore \/ PowerLoss
  BY <1>6 DEF Restore, PowerLoss, Recorded
<1>7. CASE GoesStale
  BY <1>7, StaleEffect DEF Recorded
<1> QED BY Kinds, <1>1, <1>2, <1>3, <1>4, <1>5, <1>6, <1>7

\* No lost tick has the number of the one about to be published.
LEMMA ServedNextStep ==
  ASSUME Types, Types', Recorded, LostIsReserved, ServedNext, [Next]_vars
  PROVE  ServedNext'
<1> USE DEF files, procs, history
<1>0. /\ market \in [Procs -> Markets] /\ pc \in [Procs -> Locations] /\ served \in SUBSET Ticks
      /\ \A p \in Procs : market[p].next \in Nat
  BY DEF Types, Markets
<1>1. CASE Quiet
  BY <1>1 DEF Quiet, ServedNext, Running, Lost
<1>2. ASSUME NEW p \in Procs, Resume(p) \/ Opens(p) PROVE ServedNext'
  <2>1. PICK m \in Markets : market' = [market EXCEPT ![p] = m]
    BY <1>2, ResumeEffect, OpenEffect
  <2>2. pc' = [pc EXCEPT ![p] = "idle"] /\ UNCHANGED <<record, served, outran>>
    BY <1>2, ResumeEffect, OpenEffect
  <2> QED BY <1>0, <2>1, <2>2 DEF ServedNext, Lost
<1>3. ASSUME NEW p \in Procs, Append(p) PROVE ServedNext'
  <2>1. PICK m \in Markets :
          /\ market' = [market EXCEPT ![p] = m]
          /\ \/ \E x \in Ticks :
                  /\ x.sequence = market[p].next /\ x.epoch = market[p].epoch
                  /\ m.last = x /\ record' = record \cup {x}
                  /\ pc' = [pc EXCEPT ![p] = IF x \in record THEN "idle" ELSE "publish"]
             \/ UNCHANGED <<record, pc>>
    BY <1>3, AppendEffect
  <2>2. pc[p] = "idle" /\ market[p].hosted /\ UNCHANGED <<served, outran>>
    BY <1>3, AppendEffect
  <2>3. ASSUME NEW x \in Ticks, x.sequence = market[p].next, x.epoch = market[p].epoch, m.last = x,
               record' = record \cup {x}, pc' = [pc EXCEPT ![p] = IF x \in record THEN "idle" ELSE "publish"]
        PROVE  ServedNext'
    <3>1. ASSUME ~outran, NEW t \in Lost, t.sequence = x.sequence PROVE t \in record'
      <4>1. Apart(t, market[p].next, market[p].epoch) /\ t \in Ticks
        BY <2>2, <3>1, <1>0 DEF LostIsReserved, Lost
      <4>2. t.epoch = x.epoch
        BY <1>0, <2>3, <3>1, <4>1 DEF Apart
      <4>3. t = x
        BY <3>1, <4>1, <4>2 DEF Ticks
      <4> QED BY <2>3, <4>3
    <3>2. Lost' \subseteq Lost
      BY <2>2, <2>3 DEF Lost
    <3>3. ASSUME ~outran, NEW t \in Lost', NEW q \in Procs, pc'[q] = "publish"
          PROVE  t.sequence # market'[q].last.sequence
      <4>1. CASE q = p
        <5>1. market'[p].last = x
          BY <1>0, <2>1, <2>3
        <5> QED BY <3>1, <3>2, <3>3, <4>1, <5>1 DEF Lost
      <4>2. CASE q # p
        BY <1>0, <2>1, <2>3, <3>2, <3>3, <4>2 DEF ServedNext
      <4> QED BY <4>1, <4>2
    <3> QED BY <2>2, <3>3 DEF ServedNext
  <2>4. CASE UNCHANGED <<record, pc>>
    BY <1>0, <2>1, <2>2, <2>4 DEF ServedNext, Lost
  <2> QED BY <2>1, <2>3, <2>4
<1>4. ASSUME NEW p \in Procs, Publish(p) PROVE ServedNext'
  <2>1. market[p].last \in record
    BY <1>4 DEF Recorded, Publish
  <2>2. PICK m \in Markets : market' = [market EXCEPT ![p] = m]
    BY <1>4, <2>1, PublishEffect
  <2>3. /\ pc' = [pc EXCEPT ![p] = "idle"] /\ UNCHANGED <<record, outran>>
        /\ served' = served \cup {market[p].last} \/ served' = served
    BY <1>4, <2>1, PublishEffect
  <2>4. Lost' = Lost
    BY <2>1, <2>3 DEF Lost
  <2> QED BY <1>0, <2>2, <2>3, <2>4 DEF ServedNext
<1>5. ASSUME NEW p \in Procs, Save(p), market[p].hosted PROVE ServedNext'
  <2>1. PICK m \in Markets : market' = [market EXCEPT ![p] = m]
    BY <1>5, SaveEffect
  <2>2. pc' = [pc EXCEPT ![p] = "flush"] /\ UNCHANGED <<record, served, outran>>
    BY <1>5, SaveEffect
  <2> QED BY <1>0, <2>1, <2>2 DEF ServedNext, Lost
<1>6. CASE Restore \/ PowerLoss
  BY <1>6 DEF Restore, PowerLoss, ServedNext
<1>7. CASE GoesStale
  BY <1>7, StaleEffect DEF ServedNext, Lost
<1> QED BY Kinds, <1>1, <1>2, <1>3, <1>4, <1>5, <1>6, <1>7

\* A record that grows reserves no less, if it reserves anything.
LEMMA ReservedGrows ==
  ASSUME NEW c \in Checkpoints, NEW r \in SUBSET Ticks, NEW x \in Ticks, Reserved(c, r) > 0
  PROVE  Reserved(c, r \cup {x}) >= Reserved(c, r)
<1> DEFINE q == r \cup {x}
<1>1. q \in SUBSET Ticks /\ Top(r) \in Nat /\ Top(q) \in Nat /\ SequenceLease \in Nat /\ q # {}
  <2>1. q \in SUBSET Ticks /\ q # {}
    OBVIOUS
  <2> HIDE DEF q
  <2> QED BY <2>1, TopFacts, DirectoryAssumption
<1>2. Top(q) >= Top(r)
  <2>1. x.sequence \in Nat
    BY DEF Ticks
  <2> QED BY <1>1, <2>1, TopOfMore
<1>3. CASE c = NoCheckpoint
  <2>1. Reserved(c, r) = Top(r) + SequenceLease
    BY <1>3, ReservedFacts
  <2>2. Reserved(c, q) = Top(q) + SequenceLease
    <3> HIDE DEF q
    <3> QED BY <1>1, <1>3, ReservedFacts
  <2> QED BY <1>1, <1>2, <2>1, <2>2
<1>4. CASE c # NoCheckpoint
  <2>1. c.last # NoTick /\ Published(c) \in Nat /\ c.leased \in Nat
    BY <1>4, ReservedFacts DEF Checkpoints, Plans
  <2>2. Reserved(c, r) \in {c.leased, Top(r) + SequenceLease, Published(c) + SequenceLease}
    BY <1>4, <2>1, ReservedFacts
  <2>3. /\ Reserved(c, q) \in Nat /\ Reserved(c, q) >= c.leased /\ Reserved(c, q) >= Top(q) + SequenceLease
        /\ Reserved(c, q) >= Published(c) + SequenceLease
    <3> HIDE DEF q
    <3> QED BY <1>1, <1>4, <2>1, ReservedFacts
  <2> QED BY <1>1, <1>2, <2>1, <2>2, <2>3
<1> QED BY <1>3, <1>4

\* Of a lost tick: what a market that may write must say of it.
Stands(t, m, r) ==
  /\ m.last # NoTick
  /\ t.sequence <= m.next + SequenceLease \/ t.sequence <= Top(r) + SequenceLease
  /\ Apart(t, m.next, m.epoch)

\* What rolled back leaves is reserved by the files, or they were outrun.
LEMMA RolledBackLeaves ==
  ASSUME Types, Types', RolledBack(checkpoint', record'), served' = served, ~outran',
         \A q \in Procs : ~market'[q].hosted
  PROVE  LostIsReserved'
<1>1. ASSUME NEW t \in Lost'
      PROVE  /\ t.sequence <= Reserved(checkpoint', record')
             /\ checkpoint' # NoCheckpoint /\ ~checkpoint'.stale => t.epoch = checkpoint'.epoch
  <2>1. t \in served \ record' /\ t.sequence \in Nat /\ Reserved(checkpoint', record') \in Nat
    BY <1>1, ReservedFacts DEF Lost, Types, Ticks
  <2>2. /\ ~(t.sequence > Reserved(checkpoint', record'))
        /\ ~(checkpoint' # NoCheckpoint /\ ~checkpoint'.stale /\ t.epoch # checkpoint'.epoch)
    BY <2>1 DEF RolledBack
  <2> QED BY <2>1, <2>2
<1> QED BY <1>1 DEF LostIsReserved, Resumable, Apart

\* Whatever is lost stays reserved.
LEMMA LostStep ==
  ASSUME Types, Types', Recorded, Markt, Values, LostIsReserved, [Next]_vars
  PROVE  LostIsReserved'
<1> USE DEF files, procs, history
<1>0. /\ market \in [Procs -> Markets] /\ served \in SUBSET Ticks /\ record \in SUBSET Ticks
      /\ checkpoint \in Checkpoints /\ SequenceLease \in Nat /\ Top(record) \in Nat
      /\ \A p \in Procs : market[p].next \in Nat
      /\ \A t \in served : t.sequence \in Nat /\ t.sequence >= 1
  BY TopFacts, DirectoryAssumption DEF Types, Markets, Ticks
<1>a. outran => outran'
  <2>1. ASSUME NEW p \in Procs, Publish(p) PROVE outran' = outran
    <3>1. market[p].last \in record
      BY <2>1 DEF Recorded, Publish
    <3> QED BY <2>1, <3>1, PublishEffect
  <2> QED BY Kinds, <2>1, ResumeEffect, OpenEffect, AppendEffect, SaveEffect, StaleEffect
          DEF Quiet, Restore, PowerLoss, RolledBack
<1>b. SUFFICES ASSUME ~outran' PROVE LostIsReserved'
  BY DEF LostIsReserved
<1>c. /\ ~outran
      /\ \A t \in Lost : /\ t.sequence <= Reserved(checkpoint, record)
                         /\ Resumable => Apart(t, checkpoint.next, checkpoint.epoch)
                         /\ \A q \in Procs : market[q].hosted => Stands(t, market[q], record)
  BY <1>a, <1>b DEF LostIsReserved, Stands
<1>d. ASSUME \A t \in Lost' : /\ t.sequence <= Reserved(checkpoint', record')
                              /\ Resumable' => Apart(t, checkpoint'.next, checkpoint'.epoch)
                              /\ \A q \in Procs : market'[q].hosted => Stands(t, market'[q], record')
      PROVE  LostIsReserved'
  BY <1>d DEF LostIsReserved, Stands
<1>1. CASE Quiet
  <2>1. /\ UNCHANGED <<checkpoint, record>> /\ Lost' = Lost
        /\ \A q \in Procs : market'[q].hosted => market'[q] = market[q]
    BY <1>1, LastFacts DEF Quiet, Lost
  <2>2. Resumable' <=> Resumable
    BY <2>1 DEF Resumable
  <2> QED BY <1>c, <1>d, <2>1, <2>2
<1>2. ASSUME NEW p \in Procs, Resume(p) PROVE LostIsReserved'
  <2>1. PICK m \in Markets :
          /\ market' = [market EXCEPT ![p] = m]
          /\ m.last = checkpoint.last /\ m.next = checkpoint.next /\ m.epoch = checkpoint.epoch
    BY <1>2, ResumeEffect
  <2>2. Resumable /\ checkpoint \in Plans /\ UNCHANGED <<record, checkpoint, served>>
    BY <1>2, ResumeEffect
  <2>3. (Resumable' <=> Resumable) /\ Lost' = Lost
    BY <2>2 DEF Resumable, Lost
  <2>4. ASSUME NEW t \in Lost PROVE Stands(t, m, record)
    <3>1. /\ t.sequence \in Nat /\ t.sequence >= 1 /\ t.sequence <= Reserved(checkpoint, record)
          /\ Apart(t, m.next, m.epoch) /\ m.next \in Nat
      BY <1>0, <1>c, <2>1, <2>2, <2>4 DEF Lost, Plans
    <3>2. checkpoint # NoCheckpoint
      BY <2>2, NullAssumption
    <3>3. checkpoint.last # NoTick
      <4>1. checkpoint.last = NoTick => Reserved(checkpoint, record) = 0
        BY <1>0, <3>2, ReservedFacts
      <4> QED BY <3>1, <4>1
    <3>4. /\ Reserved(checkpoint, record) \in
               {checkpoint.leased, Top(record) + SequenceLease, Published(checkpoint) + SequenceLease}
          /\ Published(checkpoint) \in Nat
      BY <1>0, <3>2, <3>3, ReservedFacts
    <3>5. Published(checkpoint) < m.next /\ checkpoint.leased = m.next + SequenceLease
      BY <2>1, <3>2 DEF Values, GoesOn
    <3>6. t.sequence <= m.next + SequenceLease \/ t.sequence <= Top(record) + SequenceLease
      BY <1>0, <3>1, <3>4, <3>5
    <3> QED BY <2>1, <3>1, <3>3, <3>6 DEF Stands
  <2> QED BY <1>0, <1>c, <1>d, <2>1, <2>2, <2>3, <2>4
<1>3. ASSUME NEW p \in Procs, Opens(p) PROVE LostIsReserved'
  <2>1. PICK m \in Markets :
          /\ market' = [market EXCEPT ![p] = m]
          /\ m.next = Reserved(checkpoint, record) + 1
          /\ m.last = IF checkpoint # NoCheckpoint THEN checkpoint.last ELSE Newest(record)
    BY <1>3, OpenEffect
  <2>2. UNCHANGED <<record, checkpoint, served>>
    BY <1>3, OpenEffect
  <2>3. (Resumable' <=> Resumable) /\ Lost' = Lost
    BY <2>2 DEF Resumable, Lost
  <2>4. ASSUME NEW t \in Lost PROVE Stands(t, m, record)
    <3>1. /\ t.sequence \in Nat /\ t.sequence >= 1 /\ t.sequence <= Reserved(checkpoint, record)
          /\ Reserved(checkpoint, record) \in Nat
      BY <1>0, <1>c, <2>4, ReservedFacts DEF Lost
    <3>2. m.last # NoTick
      <4>1. CASE checkpoint = NoCheckpoint
        <5>1. record # {}
          BY <1>0, <3>1, <4>1, ReservedFacts
        <5>2. Newest(record) \in record
          BY <1>0, <5>1, NewestFacts
        <5> QED BY <1>0, <2>1, <4>1, <5>2, NullAssumption
      <4>2. CASE checkpoint # NoCheckpoint
        <5>1. checkpoint.last = NoTick => Reserved(checkpoint, record) = 0
          BY <1>0, <4>2, ReservedFacts
        <5> QED BY <2>1, <3>1, <4>2, <5>1
      <4> QED BY <4>1, <4>2
    <3>3. t.sequence < m.next /\ t.sequence <= m.next + SequenceLease
      BY <1>0, <2>1, <3>1
    <3> QED BY <3>2, <3>3 DEF Stands, Apart
  <2> QED BY <1>0, <1>c, <1>d, <2>1, <2>2, <2>3, <2>4
<1>4. ASSUME NEW p \in Procs, Append(p) PROVE LostIsReserved'
  <2>1. PICK m \in Markets :
          /\ market' = [market EXCEPT ![p] = m]
          /\ \/ \E x \in Ticks :
                  /\ x.sequence = market[p].next
                  /\ m.last = x /\ m.next = market[p].next + 1 /\ m.epoch = market[p].epoch
                  /\ record' = record \cup {x}
             \/ ~m.hosted /\ UNCHANGED record
    BY <1>4, AppendEffect
  <2>2. market[p].hosted /\ UNCHANGED <<checkpoint, served>>
    BY <1>4, AppendEffect
  <2>3. Resumable' <=> Resumable
    BY <2>2 DEF Resumable
  <2>4. CASE ~m.hosted /\ UNCHANGED record
    <3>1. Lost' = Lost
      BY <2>2, <2>4 DEF Lost
    <3> QED BY <1>0, <1>c, <1>d, <2>1, <2>2, <2>3, <2>4, <3>1
  <2>5. ASSUME NEW x \in Ticks, x.sequence = market[p].next, m.last = x, m.next = market[p].next + 1,
               m.epoch = market[p].epoch, record' = record \cup {x}
        PROVE  LostIsReserved'
    <3>1. Lost' \subseteq Lost
      BY <2>2, <2>5 DEF Lost
    <3>2. Top(record') \in Nat /\ Top(record') >= Top(record)
      BY <1>0, <2>5, TopOfMore, TopFacts DEF Ticks
    <3>3. ASSUME NEW t \in Lost PROVE t.sequence <= Reserved(checkpoint', record')
      <4>1. /\ t.sequence \in Nat /\ t.sequence >= 1 /\ t.sequence <= Reserved(checkpoint, record)
            /\ Reserved(checkpoint, record) \in Nat
        BY <1>0, <1>c, <3>3, ReservedFacts DEF Lost
      <4>2. Reserved(checkpoint, record') >= Reserved(checkpoint, record)
        BY <1>0, <2>5, <4>1, ReservedGrows
      <4>3. Reserved(checkpoint, record') \in Nat
        BY <1>0, ReservedFacts DEF Types
      <4> QED BY <2>2, <4>1, <4>2, <4>3
    <3>4. ASSUME NEW t \in Lost PROVE Stands(t, m, record')
      <4>1. Stands(t, market[p], record) /\ t.sequence \in Nat
        BY <1>0, <1>c, <2>2, <3>4 DEF Lost
      <4>2. m.last # NoTick
        BY <2>5, NullAssumption
      <4>3. /\ t.sequence <= m.next + SequenceLease \/ t.sequence <= Top(record') + SequenceLease
            /\ Apart(t, m.next, m.epoch)
        BY <1>0, <2>5, <3>2, <4>1 DEF Stands, Apart
      <4> QED BY <4>2, <4>3 DEF Stands
    <3>5. ASSUME NEW t \in Lost, NEW q \in Procs, market[q].hosted PROVE Stands(t, market[q], record')
      <4>1. Stands(t, market[q], record) /\ t.sequence \in Nat
        BY <1>0, <1>c, <3>5 DEF Lost
      <4> QED BY <1>0, <3>2, <4>1 DEF Stands
    <3> QED BY <1>0, <1>c, <1>d, <2>1, <2>2, <2>3, <3>1, <3>3, <3>4, <3>5
  <2> QED BY <2>1, <2>4, <2>5
<1>5. ASSUME NEW p \in Procs, Publish(p) PROVE LostIsReserved'
  <2>1. market[p].last \in record
    BY <1>5 DEF Recorded, Publish
  <2>2. PICK m \in Markets :
          /\ market' = [market EXCEPT ![p] = m]
          /\ m.last = market[p].last /\ m.next = market[p].next /\ m.epoch = market[p].epoch
          /\ m.hosted => market[p].hosted
    BY <1>5, <2>1, PublishEffect
  <2>3. /\ UNCHANGED <<record, checkpoint>>
        /\ served' = served \cup {market[p].last} \/ served' = served
    BY <1>5, <2>1, PublishEffect
  <2>4. Lost' = Lost /\ (Resumable' <=> Resumable)
    BY <2>1, <2>3 DEF Lost, Resumable
  <2>5. \A t \in Lost : Stands(t, market[p], record) => Stands(t, m, record)
    BY <2>2 DEF Stands
  <2> QED BY <1>0, <1>c, <1>d, <2>2, <2>3, <2>4, <2>5
<1>6. ASSUME NEW p \in Procs, Save(p), market[p].hosted PROVE LostIsReserved'
  <2>1. PICK m \in Markets :
          /\ market' = [market EXCEPT ![p] = m]
          /\ m.last = market[p].last /\ m.next = market[p].next /\ m.epoch = market[p].epoch
          /\ checkpoint' \in Plans
          /\ checkpoint'.last = m.last /\ checkpoint'.next = m.next
          /\ checkpoint'.epoch = m.epoch /\ checkpoint'.leased = m.next + SequenceLease
    BY <1>6, SaveEffect
  <2>2. UNCHANGED <<record, served>>
    BY <1>6, SaveEffect
  <2>3. Lost' = Lost
    BY <2>2 DEF Lost
  <2>4. ASSUME NEW t \in Lost
        PROVE  /\ t.sequence <= Reserved(checkpoint', record') /\ Stands(t, m, record)
               /\ Apart(t, checkpoint'.next, checkpoint'.epoch)
    <3>1. Stands(t, market[p], record) /\ t.sequence \in Nat
      BY <1>0, <1>6, <1>c, <2>4 DEF Lost
    <3>2. Stands(t, m, record)
      BY <2>1, <3>1 DEF Stands
    <3>3. checkpoint' # NoCheckpoint /\ checkpoint' \in Checkpoints /\ checkpoint'.last # NoTick /\ m.next \in Nat
      BY <2>1, <3>2, NullAssumption DEF Stands, Checkpoints, Markets
    <3>4. /\ Reserved(checkpoint', record') >= checkpoint'.leased
          /\ Reserved(checkpoint', record') >= Top(record) + SequenceLease
          /\ Reserved(checkpoint', record') \in Nat
      BY <1>0, <2>2, <3>3, ReservedFacts
    <3>5. t.sequence <= m.next + SequenceLease \/ t.sequence <= Top(record) + SequenceLease
      BY <3>2 DEF Stands
    <3>6. t.sequence <= Reserved(checkpoint', record')
      BY <1>0, <2>1, <3>1, <3>3, <3>4, <3>5
    <3> QED BY <2>1, <3>2, <3>6 DEF Stands
  <2> QED BY <1>0, <1>c, <1>d, <2>1, <2>2, <2>3, <2>4
<1>7. CASE Restore
  <2>1. /\ RolledBack(copy.checkpoint, copy.record) /\ served' = served
        /\ checkpoint' = copy.checkpoint /\ record' = copy.record
        /\ \A q \in Procs : market'[q] = market[q] /\ pc[q] = "down"
    BY <1>7 DEF Restore
  <2>2. \A q \in Procs : ~market'[q].hosted
    <3>1. \A q \in Procs : market[q] = NoMarket
      BY <2>1 DEF Markt, Running
    <3> QED BY <2>1, <3>1, LastFacts
  <2>3. RolledBack(checkpoint', record')
    BY <2>1 DEF RolledBack
  <2> QED BY <1>b, <2>1, <2>2, <2>3, RolledBackLeaves
<1>8. CASE PowerLoss
  <2>1. /\ RolledBack(checkpoint, record') /\ served' = served /\ checkpoint' = checkpoint
        /\ market' = [q \in Procs |-> NoMarket]
    BY <1>8 DEF PowerLoss
  <2>2. RolledBack(checkpoint', record')
    BY <2>1 DEF RolledBack
  <2> QED BY <1>b, <2>1, <2>2, LastFacts, RolledBackLeaves
<1>9. CASE GoesStale
  <2>1. /\ UNCHANGED <<record, market, served>> /\ checkpoint \in Plans /\ checkpoint' \in Plans
        /\ checkpoint'.stale /\ checkpoint'.last = checkpoint.last /\ checkpoint'.leased = checkpoint.leased
    BY <1>9, StaleEffect
  <2>2. Lost' = Lost /\ ~Resumable'
    BY <2>1 DEF Lost, Resumable
  <2>3. Reserved(checkpoint', record') = Reserved(checkpoint, record)
    <3>1. checkpoint # NoCheckpoint /\ checkpoint' # NoCheckpoint
      BY <2>1, NullAssumption
    <3>2. Published(checkpoint') = Published(checkpoint)
      BY <2>1, LastFacts DEF LastOf
    <3> QED BY <2>1, <3>1, <3>2 DEF Reserved
  <2> QED BY <1>c, <1>d, <2>1, <2>2, <2>3
<1> QED BY Kinds, <1>1, <1>2, <1>3, <1>4, <1>5, <1>6, <1>7, <1>8, <1>9

-----------------------------------------------------------------------------
(* Nothing is ahead of the record where no power is lost *)

\* What the files, the copy and a process are ahead of, once the record has
\* grown and the rest is as it was.
LEMMA AheadKept ==
  ASSUME Types, Types', NothingAhead, "power" \notin world,
         UNCHANGED <<world, checkpoint, candles, copy>>, Top(record') >= Top(record)
  PROVE  /\ "power" \notin world'
         /\ Published(checkpoint') <= Top(record') /\ candles' <= Top(record')
         /\ copy'.stage \in {"history", "record"} => Published(copy'.checkpoint) <= Top(record')
         /\ copy'.stage = "record" => copy'.candles <= Top(record')
         /\ copy'.stage \in {"manifest", "done"} =>
              Published(copy'.checkpoint) <= Top(copy'.record) /\ copy'.candles <= Top(copy'.record)
<1>1. /\ Top(record) \in Nat /\ Top(record') \in Nat /\ Published(checkpoint) \in Nat
      /\ candles \in Nat /\ copy.candles \in Nat /\ Published(copy.checkpoint) \in Nat
  BY TopFacts, ReservedFacts DEF Types, Copies
<1> QED BY <1>1 DEF NothingAhead

\* Of a process: it is not ahead of the record.
Behind(q) ==
  /\ pc[q] # "refused"
  /\ market[q].bars <= Top(record)
  /\ pc[q] = "record" => seen[q].checkpoint <= Top(record)
  /\ pc[q] \in {"history", "again"} =>
       seen[q].checkpoint <= seen[q].record /\ seen[q].record <= Top(record)
  /\ pc[q] = "again" => seen[q].history <= Top(record)

\* A process that does not move does not get ahead of a record that grows.
LEMMA BehindKept ==
  ASSUME Types, Types', NEW q \in Procs, Behind(q), Top(record') >= Top(record),
         pc'[q] = pc[q], seen'[q] = seen[q], market'[q].bars = market[q].bars
  PROVE  Behind(q)'
<1>1. /\ Top(record) \in Nat /\ Top(record') \in Nat /\ market[q].bars \in Nat
      /\ seen[q].checkpoint \in Nat /\ seen[q].record \in Nat /\ seen[q].history \in Nat
  BY TopFacts DEF Types, Markets, AllHeads
<1> QED BY <1>1 DEF Behind

\* The files of a directory nobody has lost power in stay within its record.
LEMMA NothingAheadStep ==
  ASSUME Types, Types', Recorded, Markt, NothingAhead, [Next]_vars
  PROVE  NothingAhead'
<1> USE DEF files, procs, history
<1>0. /\ market \in [Procs -> Markets] /\ pc \in [Procs -> Locations] /\ seen \in [Procs -> AllHeads]
      /\ record \in SUBSET Ticks /\ record' \in SUBSET Ticks /\ copy \in Copies /\ candles \in Nat
      /\ Top(record) \in Nat /\ Top(record') \in Nat
      /\ \A h \in AllHeads : h.checkpoint \in Nat /\ h.record \in Nat /\ h.history \in Nat
  BY TopFacts DEF Types, AllHeads
<1>w. world' = world
  <2>1. ASSUME NEW p \in Procs, Boot(p) PROVE world' = world
    BY <2>1 DEF Boot, Verify, VerifyCheckpoint, VerifyRecord, VerifyHistory, VerifyAgain, GivesUp, Claim,
                Resume, Seam
  <2>2. ASSUME NEW p \in Procs, Run(p) \/ Kill(p) PROVE world' = world
    BY <2>2 DEF Run, Kill, Append, Publish, CheckpointDue, Save, Flush
  <2>3. CASE Backup \/ UNCHANGED vars \/ Restore \/ PowerLoss \/ GoesStale
    BY <2>3 DEF Backup, BackupCheckpoint, BackupDatabase, BackupManifest, vars, Restore, PowerLoss, GoesStale
  <2> QED BY <2>1, <2>2, <2>3 DEF Next
<1>b. SUFFICES ASSUME "power" \notin world PROVE NothingAhead'
  BY <1>w DEF NothingAhead
<1>c. /\ Published(checkpoint) <= Top(record) /\ candles <= Top(record)
      /\ copy.stage \in {"history", "record"} => Published(copy.checkpoint) <= Top(record)
      /\ copy.stage = "record" => copy.candles <= Top(record)
      /\ copy.stage \in {"manifest", "done"} =>
           Published(copy.checkpoint) <= Top(copy.record) /\ copy.candles <= Top(copy.record)
      /\ \A q \in Procs : Behind(q)
  BY <1>b DEF NothingAhead, Behind
<1>d. ASSUME UNCHANGED <<checkpoint, candles, copy>>, Top(record') >= Top(record), \A q \in Procs : Behind(q)'
      PROVE  NothingAhead'
  BY <1>b, <1>w, <1>d, AheadKept DEF NothingAhead, Behind
\* One process moves.
<1>e. ASSUME NEW p \in Procs, UNCHANGED <<checkpoint, candles, copy>>, Top(record') >= Top(record),
             \A q \in Procs \ {p} : pc'[q] = pc[q] /\ seen'[q] = seen[q] /\ market'[q] = market[q],
             Behind(p)'
      PROVE  NothingAhead'
  BY <1>c, <1>d, <1>e, BehindKept
<1>f. Published(checkpoint) \in Nat /\ \A q \in Procs : market[q].bars \in Nat
  BY LastFacts
<1>1. ASSUME NEW p \in Procs, VerifyCheckpoint(p) PROVE NothingAhead'
  <2>1. Behind(p)'
    BY <1>0, <1>1, <1>c DEF VerifyCheckpoint, Goto, Behind
  <2> QED BY <1>0, <1>1, <1>e, <2>1 DEF VerifyCheckpoint, Goto
<1>2. ASSUME NEW p \in Procs, VerifyRecord(p) PROVE NothingAhead'
  <2>1. Behind(p)'
    BY <1>0, <1>2, <1>c DEF VerifyRecord, Goto, Behind
  <2> QED BY <1>0, <1>2, <1>e, <2>1 DEF VerifyRecord, Goto
<1>3. ASSUME NEW p \in Procs, VerifyHistory(p) PROVE NothingAhead'
  <2> DEFINE heads == [seen[p] EXCEPT !.history = candles]
  <2>1. /\ heads.checkpoint = seen[p].checkpoint /\ heads.record = seen[p].record /\ heads.history = candles
        /\ heads \in AllHeads
    BY <1>0 DEF AllHeads
  <2>2. pc[p] = "history" /\ seen[p].checkpoint <= seen[p].record /\ seen[p].record <= Top(record)
    BY <1>3, <1>c DEF VerifyHistory, Behind
  <2>3. UNCHANGED <<files, market, copy>>
    BY <1>3 DEF VerifyHistory
  <2>4. CASE /\ heads.record # 0 /\ heads.history > heads.record
             /\ Goto(p, "again") /\ seen' = [seen EXCEPT ![p] = heads] /\ UNCHANGED warned
    <3> HIDE DEF heads
    <3>1. Behind(p)'
      BY <1>0, <1>c, <2>1, <2>2, <2>3, <2>4 DEF Goto, Behind
    <3> QED BY <1>0, <1>e, <2>3, <2>4, <3>1 DEF Goto
  <2>5. CASE ~(heads.record # 0 /\ heads.history > heads.record) /\ Verdict(p, heads, heads.record)
    <3> HIDE DEF heads
    <3>1. ~Inconsistent(heads, heads.record)
      BY <1>0, <2>1, <2>2, <2>5 DEF Inconsistent
    <3>2. pc' = [pc EXCEPT ![p] = "claim"] /\ seen' = [seen EXCEPT ![p] = NotSeen]
      BY <2>5, <3>1 DEF Verdict, Goto
    <3>3. Behind(p)'
      BY <1>0, <1>c, <2>3, <3>2 DEF Behind
    <3> QED BY <1>0, <1>e, <2>3, <3>2, <3>3
  <2> QED BY <1>3, <2>4, <2>5 DEF VerifyHistory
<1>4. ASSUME NEW p \in Procs, VerifyAgain(p) PROVE NothingAhead'
  <2>1. UNCHANGED <<files, market, copy>> /\ Verdict(p, seen[p], Top(record)) /\ pc[p] = "again"
    BY <1>4 DEF VerifyAgain
  <2>2. /\ seen[p].checkpoint <= seen[p].record /\ seen[p].history <= Top(record) /\ seen[p] \in AllHeads
    BY <1>0, <1>c, <2>1 DEF Behind
  <2>3. ~Inconsistent(seen[p], Top(record))
    BY <1>0, <2>2 DEF Inconsistent
  <2>4. pc' = [pc EXCEPT ![p] = "claim"] /\ seen' = [seen EXCEPT ![p] = NotSeen]
    BY <2>1, <2>3 DEF Verdict, Goto
  <2>5. Behind(p)'
    BY <1>0, <1>c, <2>1, <2>4 DEF Behind
  <2> QED BY <1>0, <1>e, <2>1, <2>4, <2>5
<1>5. ASSUME NEW p \in Procs, Gone(p), UNCHANGED <<files, copy>> PROVE NothingAhead'
  <2>1. Behind(p)'
    BY <1>0, <1>5, LastFacts DEF Gone, Goto, Behind
  <2> QED BY <1>0, <1>5, <1>e, <2>1 DEF Gone, Goto
<1>6. ASSUME NEW p \in Procs, Claim(p) PROVE NothingAhead'
  <2>1. CASE Gone(p)
    BY <1>5, <1>6, <2>1 DEF Claim
  <2>2. CASE Goto(p, "start") /\ UNCHANGED <<seen, warned, market>>
    <3>1. UNCHANGED <<files, copy>>
      BY <1>6 DEF Claim
    <3>2. Behind(p)'
      BY <1>0, <1>c, <2>2, <3>1 DEF Goto, Behind
    <3> QED BY <1>0, <1>e, <2>2, <3>1, <3>2 DEF Goto
  <2> QED BY <1>6, <2>1, <2>2 DEF Claim
<1>7. ASSUME NEW p \in Procs, Resume(p) \/ Opens(p) PROVE NothingAhead'
  <2>1. PICK m \in Markets : market' = [market EXCEPT ![p] = m] /\ m.bars = Top(record)
    BY <1>7, ResumeEffect, OpenEffect
  <2>2. pc' = [pc EXCEPT ![p] = "idle"] /\ UNCHANGED <<files, copy, seen>>
    BY <1>7, ResumeEffect, OpenEffect
  <2>3. Behind(p)'
    BY <1>0, <2>1, <2>2 DEF Behind
  <2> QED BY <1>0, <1>e, <2>1, <2>2, <2>3
<1>8. ASSUME NEW p \in Procs, Seam(p) PROVE NothingAhead'
  <2>1. CASE Gone(p)
    BY <1>5, <1>8, <2>1 DEF Seam
  <2>2. CASE Reserved(checkpoint, record) >= Top(record) /\ Opened(p, Reserved(checkpoint, record))
    BY <1>7, <1>8, <2>2 DEF Opens
  <2>3. Reserved(checkpoint, record) \in Nat
    BY ReservedFacts DEF Types
  <2> QED BY <1>0, <1>8, <2>1, <2>2, <2>3 DEF Seam
<1>9. ASSUME NEW p \in Procs, Append(p) PROVE NothingAhead'
  <2>1. PICK m \in Markets :
          /\ market' = [market EXCEPT ![p] = m] /\ m.bars = market[p].bars
          /\ \/ \E x \in Ticks :
                  /\ record' = record \cup {x}
                  /\ pc' = [pc EXCEPT ![p] = IF x \in record THEN "idle" ELSE "publish"]
             \/ UNCHANGED <<record, pc>>
    BY <1>9, AppendEffect
  <2>2. pc[p] = "idle" /\ UNCHANGED <<checkpoint, candles, copy, seen>>
    BY <1>9, AppendEffect
  <2>3. Top(record') >= Top(record)
    BY <1>0, <2>1, TopOfMore DEF Ticks
  <2>4. pc' \in [Procs -> Locations] /\ pc'[p] \in {"idle", "publish"}
        /\ \A q \in Procs \ {p} : pc'[q] = pc[q]
    BY <1>0, <2>1, <2>2 DEF Types
  <2>5. Behind(p)'
    BY <1>0, <1>c, <1>f, <2>1, <2>3, <2>4 DEF Behind
  <2> QED BY <1>0, <1>e, <2>1, <2>2, <2>3, <2>4, <2>5
<1>10. ASSUME NEW p \in Procs, Publish(p) PROVE NothingAhead'
  <2>1. market[p].last \in record
    BY <1>10 DEF Recorded, Publish
  <2>2. PICK m \in Markets :
          /\ market' = [market EXCEPT ![p] = m]
          /\ m.bars = market[p].last.sequence \/ m.bars = market[p].bars
    BY <1>10, <2>1, PublishEffect
  <2>3. pc' = [pc EXCEPT ![p] = "idle"] /\ UNCHANGED <<files, copy, seen>>
    BY <1>10, <2>1, PublishEffect
  <2>4. market[p].last.sequence <= Top(record)
    BY <1>0, <2>1, TopFacts
  <2>5. Behind(p)'
    BY <1>0, <1>c, <2>2, <2>3, <2>4 DEF Behind
  <2> QED BY <1>0, <1>e, <2>2, <2>3, <2>5
<1>11. ASSUME NEW p \in Procs, CheckpointDue(p) PROVE NothingAhead'
  <2>1. Behind(p)'
    BY <1>0, <1>11, <1>c DEF CheckpointDue, Goto, Behind
  <2> QED BY <1>0, <1>11, <1>e, <2>1 DEF CheckpointDue, Goto
<1>12. ASSUME NEW p \in Procs, Save(p) PROVE NothingAhead'
  <2>1. pc[p] = "save" /\ pc' = [pc EXCEPT ![p] = "flush"] /\ UNCHANGED <<record, candles, copy, seen>>
    BY <1>12, SaveEffect
  <2>2. Published(checkpoint') <= Top(record)
    <3>1. CASE checkpoint' = checkpoint
      BY <1>c, <3>1
    <3>2. CASE market[p].hosted /\ checkpoint' \in Plans /\ checkpoint'.last = market[p].last
      <4>1. Published(checkpoint') = LastOf(market[p])
        BY <3>2, LastFacts DEF LastOf
      <4>2. CASE record = {}
        BY <1>c, <3>2, <4>1, <4>2 DEF Markt
      <4>3. CASE record # {}
        BY <3>2, <4>1, <4>3 DEF Markt
      <4> QED BY <4>2, <4>3
    <3> QED BY <1>12, <3>1, <3>2, SaveEffect
  <2>3. /\ market'[p].bars = market[p].bars
        /\ \A q \in Procs \ {p} : market'[q] = market[q]
    BY <1>0, <1>12, SaveEffect
  <2>4. \A q \in Procs : Behind(q)'
    <3>1. Behind(p)'
      BY <1>0, <1>c, <2>1, <2>3 DEF Behind
    <3>2. ASSUME NEW q \in Procs \ {p} PROVE Behind(q)'
      BY <1>0, <1>c, <2>1, <2>3 DEF Behind
    <3> QED BY <3>1, <3>2
  <2> QED BY <1>c, <2>1, <2>2, <2>4 DEF NothingAhead, Behind
<1>13. ASSUME NEW p \in Procs, Flush(p) PROVE NothingAhead'
  <2>1. /\ pc[p] = "flush" /\ pc' = [pc EXCEPT ![p] = "idle"]
        /\ UNCHANGED <<checkpoint, record, market, copy, seen>>
        /\ candles' \in Nat /\ (candles' = candles \/ candles' <= market[p].bars)
    BY <1>13, FlushEffect
  <2>2. candles' <= Top(record)
    BY <1>0, <1>c, <1>f, <2>1 DEF Behind
  <2>3. \A q \in Procs : Behind(q)'
    BY <1>0, <1>c, <2>1 DEF Behind
  <2> QED BY <1>c, <2>1, <2>2, <2>3 DEF NothingAhead, Behind
<1>14. CASE Backup
  <2>1. UNCHANGED <<files, procs>>
    BY <1>14 DEF Backup, BackupCheckpoint, BackupDatabase, BackupManifest
  <2>2. \A q \in Procs : Behind(q)'
    BY <1>c, <2>1 DEF Behind
  <2>3. /\ copy'.stage \in {"history", "record"} => Published(copy'.checkpoint) <= Top(record)
        /\ copy'.stage = "record" => copy'.candles <= Top(record)
        /\ copy'.stage \in {"manifest", "done"} =>
             Published(copy'.checkpoint) <= Top(copy'.record) /\ copy'.candles <= Top(copy'.record)
    <3>1. CASE BackupCheckpoint
      <4>1. /\ copy.stage = "none" /\ copy'.stage = "history" /\ copy'.checkpoint = checkpoint
        BY <1>0, <3>1 DEF BackupCheckpoint, Copies
      <4> QED BY <1>0, <1>c, <4>1
    <3>2. CASE BackupDatabase
      BY <1>0, <1>c, <3>2 DEF BackupDatabase, Copies
    <3>3. CASE BackupManifest
      BY <1>0, <1>c, <3>3 DEF BackupManifest, Copies
    <3> QED BY <1>14, <3>1, <3>2, <3>3 DEF Backup
  <2> QED BY <1>c, <2>1, <2>2, <2>3 DEF NothingAhead, Behind
<1>15. CASE Restore
  <2>1. /\ checkpoint' = copy.checkpoint /\ record' = copy.record /\ candles' = copy.candles
        /\ copy.stage = "done" /\ UNCHANGED <<procs, copy>> /\ \A q \in Procs : pc[q] = "down"
    BY <1>15 DEF Restore
  <2>2. \A q \in Procs : market[q] = NoMarket
    BY <2>1 DEF Markt, Running
  <2>3. \A q \in Procs : Behind(q)'
    BY <1>0, <2>1, <2>2, LastFacts DEF Behind
  <2> QED BY <1>c, <2>1, <2>3 DEF NothingAhead, Behind
<1>16. CASE GoesStale
  <2>1. /\ UNCHANGED <<record, candles, procs>> /\ checkpoint \in Plans /\ checkpoint' \in Plans
        /\ checkpoint'.last = checkpoint.last
        /\ copy'.stage = copy.stage /\ copy'.record = copy.record /\ copy'.candles = copy.candles
    BY <1>16, StaleEffect
  <2>2. Published(checkpoint') = Published(checkpoint)
    BY <2>1, LastFacts DEF LastOf
  <2>3. Published(copy'.checkpoint) = Published(copy.checkpoint)
    <3>1. CASE copy.checkpoint = NoCheckpoint
      BY <1>16, <3>1, StaleEffect
    <3>2. CASE copy.checkpoint # NoCheckpoint
      <4>1. /\ copy'.checkpoint \in Plans /\ copy.checkpoint \in Plans
            /\ copy'.checkpoint.last = copy.checkpoint.last
        BY <1>16, <1>0, <3>2, StaleEffect DEF Copies, Checkpoints
      <4> QED BY <4>1, LastFacts DEF LastOf
    <3> QED BY <3>1, <3>2
  <2>4. \A q \in Procs : Behind(q)'
    BY <1>c, <2>1 DEF Behind
  <2> QED BY <1>c, <2>1, <2>2, <2>3, <2>4 DEF NothingAhead, Behind
<1>17. CASE PowerLoss
  BY <1>17, <1>b DEF PowerLoss
<1>18. CASE UNCHANGED vars
  BY <1>18 DEF vars, NothingAhead
<1>19. ASSUME NEW p \in Procs, GivesUp(p) \/ Kill(p) PROVE NothingAhead'
  BY <1>5, <1>19 DEF GivesUp, Kill
<1> QED BY <1>1, <1>2, <1>3, <1>4, <1>6, <1>7, <1>8, <1>9, <1>10, <1>11, <1>12, <1>13, <1>14, <1>15, <1>16,
           <1>17, <1>18, <1>19 DEF Next, Boot, Verify, Run

-----------------------------------------------------------------------------
(* A backup nothing has run in is announced *)

\* Of a process in a directory that was swapped in and not written since.
Told(q) ==
  /\ pc[q] \in {"record", "history", "again"} => seen[q].checkpoint = manifest.checkpoint
  /\ pc[q] \in {"history", "again"} => seen[q].record = manifest.record
  /\ pc[q] = "again" => seen[q].history = manifest.history
  /\ pc[q] \in {"claim", "start"} \cup Running => q \in warned

\* One process moves, and what it writes is no news to the files.
LEMMA AnnouncedKept ==
  ASSUME Types, Types', Announced, NEW p \in Procs,
         UNCHANGED <<world, manifest, copy>>, restored' => restored,
         restored' => UNCHANGED <<checkpoint, record, candles>>,
         restored' => /\ \A q \in Procs \ {p} : pc'[q] = pc[q] /\ seen'[q] = seen[q]
                                                /\ (q \in warned' <=> q \in warned)
                      /\ Told(p)'
  PROVE  Announced'
<1>1. SUFFICES ASSUME restored' PROVE /\ "restore" \in world' /\ manifest' = Heads(checkpoint', record', candles')
                                      /\ \A q \in Procs : Told(q)'
  BY DEF Announced, Told
<1>2. /\ restored /\ UNCHANGED <<checkpoint, record, candles>> /\ Told(p)'
      /\ \A q \in Procs \ {p} : pc'[q] = pc[q] /\ seen'[q] = seen[q] /\ (q \in warned' <=> q \in warned)
  BY <1>1
<1>3. /\ "restore" \in world /\ manifest = Heads(checkpoint, record, candles)
      /\ \A q \in Procs : Told(q)
  BY <1>2 DEF Announced, Told
<1>4. ASSUME NEW q \in Procs \ {p} PROVE Told(q)'
  BY <1>2, <1>3 DEF Told
<1> QED BY <1>2, <1>3, <1>4

\* While nothing is written, whoever goes past the check of a directory that
\* was swapped in has warned of it; where power may be lost none is swapped in.
LEMMA AnnouncedStep ==
  ASSUME Types, Types', Recorded, Announced, [Next]_vars,
         \A w \in Worlds : ~({"power", "restore"} \subseteq w)
  PROVE  Announced'
<1> USE DEF files, procs, history
<1>0. /\ market \in [Procs -> Markets] /\ pc \in [Procs -> Locations] /\ seen \in [Procs -> AllHeads]
      /\ warned \subseteq Procs /\ copy \in Copies /\ restored \in BOOLEAN
  BY DEF Types
<1>a. ASSUME restored, NEW p \in Procs
      PROVE  /\ manifest = Heads(checkpoint, record, candles) /\ Told(p)
             /\ manifest.checkpoint = Published(checkpoint) /\ manifest.record = Top(record)
             /\ manifest.history = candles
  BY <1>a DEF Announced, Told, Heads
<1>1. ASSUME NEW p \in Procs, VerifyCheckpoint(p) PROVE Announced'
  <2>1. restored => Told(p)'
    BY <1>0, <1>1, <1>a DEF VerifyCheckpoint, Goto, AllHeads, Told, Running
  <2> QED BY <1>0, <1>1, <2>1, AnnouncedKept DEF VerifyCheckpoint, Goto
<1>2. ASSUME NEW p \in Procs, VerifyRecord(p) PROVE Announced'
  <2>1. restored => Told(p)'
    BY <1>0, <1>2, <1>a DEF VerifyRecord, Goto, AllHeads, Told, Running
  <2> QED BY <1>0, <1>2, <2>1, AnnouncedKept DEF VerifyRecord, Goto
<1>v. ASSUME NEW p \in Procs, NEW heads, NEW settled, Verdict(p, heads, settled), restored => heads = manifest,
             UNCHANGED <<world, files, market, epochs, departures, copy, history>>
      PROVE  Announced'
  <2>1. restored => Told(p)'
    BY <1>0, <1>v DEF Verdict, Untouched, Goto, Told, Running
  <2>2. \A q \in Procs \ {p} : pc'[q] = pc[q] /\ seen'[q] = seen[q] /\ (q \in warned' <=> q \in warned)
    BY <1>0, <1>v DEF Verdict, Goto
  <2> QED BY <1>v, <2>1, <2>2, AnnouncedKept
<1>3. ASSUME NEW p \in Procs, VerifyHistory(p) PROVE Announced'
  <2> DEFINE heads == [seen[p] EXCEPT !.history = candles]
  <2>1. pc[p] = "history" /\ UNCHANGED <<world, files, market, epochs, departures, copy, history>>
    BY <1>3 DEF VerifyHistory
  <2>2. /\ heads.checkpoint = seen[p].checkpoint /\ heads.record = seen[p].record /\ heads.history = candles
        /\ heads \in AllHeads
    <3>1. candles \in Nat
      BY DEF Types
    <3> QED BY <1>0, <3>1 DEF AllHeads
  <2>3. restored => heads = manifest
    <3>1. SUFFICES ASSUME restored PROVE heads = manifest
      OBVIOUS
    <3>2. /\ heads.checkpoint = manifest.checkpoint /\ heads.record = manifest.record
          /\ heads.history = manifest.history
      BY <1>a, <2>1, <2>2, <3>1 DEF Told
    <3>3. manifest \in AllHeads
      BY <1>a, <3>1, HeadsFacts DEF Types
    <3> HIDE DEF heads
    <3> QED BY <2>2, <3>2, <3>3 DEF AllHeads
  <2>4. CASE Verdict(p, heads, heads.record)
    <3> HIDE DEF heads
    <3> QED BY <1>v, <2>1, <2>3, <2>4
  <2>5. CASE Goto(p, "again") /\ seen' = [seen EXCEPT ![p] = heads] /\ UNCHANGED warned
    <3> HIDE DEF heads
    <3>1. restored => Told(p)'
      BY <1>0, <2>1, <2>3, <2>5 DEF Goto, Told, Running
    <3> QED BY <1>0, <2>1, <2>5, <3>1, AnnouncedKept DEF Goto
  <2> QED BY <1>3, <2>4, <2>5 DEF VerifyHistory
<1>4. ASSUME NEW p \in Procs, VerifyAgain(p) PROVE Announced'
  <2>1. /\ pc[p] = "again" /\ UNCHANGED <<world, files, market, epochs, departures, copy, history>>
        /\ Verdict(p, seen[p], Top(record))
    BY <1>4 DEF VerifyAgain
  <2>2. restored => seen[p] = manifest
    <3>1. SUFFICES ASSUME restored PROVE seen[p] = manifest
      OBVIOUS
    <3>2. /\ seen[p].checkpoint = manifest.checkpoint /\ seen[p].record = manifest.record
          /\ seen[p].history = manifest.history
      BY <1>a, <2>1, <3>1 DEF Told
    <3>3. manifest \in AllHeads /\ seen[p] \in AllHeads
      BY <1>0, <1>a, <3>1, HeadsFacts DEF Types
    <3> QED BY <3>2, <3>3 DEF AllHeads
  <2> QED BY <1>v, <2>1, <2>2
<1>5. ASSUME NEW p \in Procs, Gone(p), UNCHANGED <<world, files, copy, history>> PROVE Announced'
  <2>1. Told(p)'
    BY <1>0, <1>5 DEF Gone, Goto, Told, Running
  <2> QED BY <1>0, <1>5, <2>1, AnnouncedKept DEF Gone, Goto
<1>6. ASSUME NEW p \in Procs, Claim(p) PROVE Announced'
  <2>1. CASE Gone(p)
    BY <1>5, <1>6, <2>1 DEF Claim
  <2>2. CASE Goto(p, "start") /\ UNCHANGED <<seen, warned, market>>
    <3>1. restored => Told(p)'
      BY <1>0, <1>6, <1>a, <2>2 DEF Claim, Goto, Told, Running
    <3> QED BY <1>0, <1>6, <2>2, <3>1, AnnouncedKept DEF Claim, Goto
  <2> QED BY <1>6, <2>1, <2>2 DEF Claim
\* A process past the check moves.
<1>r. ASSUME NEW p \in Procs, NEW v \in Running, pc[p] \in {"start"} \cup Running, pc' = [pc EXCEPT ![p] = v],
             UNCHANGED <<world, manifest, copy, seen, warned>>, restored' => restored,
             restored' => UNCHANGED <<checkpoint, record, candles>>
      PROVE  Announced'
  <2>1. restored' => Told(p)'
    BY <1>0, <1>a, <1>r DEF Told, Running
  <2> QED BY <1>0, <1>r, <2>1, AnnouncedKept
<1>7. ASSUME NEW p \in Procs, Resume(p) PROVE Announced'
  BY <1>7, <1>r DEF Resume, Goto, Running
<1>8. ASSUME NEW p \in Procs, Seam(p) PROVE Announced'
  <2>1. CASE Gone(p)
    BY <1>5, <1>8, <2>1 DEF Seam
  <2>2. CASE Opened(p, Reserved(checkpoint, record))
    BY <1>8, <1>r, <2>2 DEF Seam, Opened, Goto, Running
  <2> QED BY <1>8, <2>1, <2>2 DEF Seam
<1>9. ASSUME NEW p \in Procs, Append(p) PROVE Announced'
  <2>1. pc[p] = "idle" /\ UNCHANGED <<world, checkpoint, candles, manifest, seen, warned, copy>>
    BY <1>9, AppendEffect
  <2>2. CASE UNCHANGED <<record, restored, pc>>
    BY <1>0, <1>r, <2>1, <2>2 DEF Running
  <2>3. ASSUME NEW x \in Ticks, record' = record \cup {x}, restored' = (restored /\ x \in record),
               pc' = [pc EXCEPT ![p] = IF x \in record THEN "idle" ELSE "publish"]
        PROVE  Announced'
    <3>1. restored' => record' = record
      BY <2>3
    <3>2. PICK v \in Running : pc' = [pc EXCEPT ![p] = v]
      BY <2>3 DEF Running
    <3> QED BY <1>r, <2>1, <2>3, <3>1, <3>2 DEF Running
  <2> QED BY <1>9, <2>2, <2>3, AppendEffect
<1>10. ASSUME NEW p \in Procs, Publish(p) PROVE Announced'
  <2>1. market[p].last \in record
    BY <1>10 DEF Recorded, Publish
  <2>2. pc[p] = "publish" /\ pc' = [pc EXCEPT ![p] = "idle"]
        /\ UNCHANGED <<world, files, seen, warned, copy, restored>>
    BY <1>10, <2>1, PublishEffect
  <2> QED BY <1>r, <2>2 DEF Running
<1>11. ASSUME NEW p \in Procs, CheckpointDue(p) PROVE Announced'
  BY <1>11, <1>r DEF CheckpointDue, Goto, Running
<1>12. ASSUME NEW p \in Procs, Save(p) PROVE Announced'
  <2>1. pc[p] = "save" /\ pc' = [pc EXCEPT ![p] = "flush"]
        /\ UNCHANGED <<world, record, candles, manifest, seen, warned, copy>>
    BY <1>12, SaveEffect
  <2>2. restored' => restored /\ checkpoint' = checkpoint
    BY <1>12, SaveEffect
  <2> QED BY <1>r, <2>1, <2>2 DEF Running
<1>13. ASSUME NEW p \in Procs, Flush(p) PROVE Announced'
  <2>1. pc[p] = "flush" /\ pc' = [pc EXCEPT ![p] = "idle"]
        /\ UNCHANGED <<world, checkpoint, record, manifest, seen, warned, copy>>
        /\ restored' = (restored /\ candles' = candles)
    BY <1>13, FlushEffect
  <2> QED BY <1>r, <2>1 DEF Running
<1>14. CASE Backup
  <2>1. UNCHANGED <<world, files, procs, restored>>
    BY <1>14 DEF Backup, BackupCheckpoint, BackupDatabase, BackupManifest
  <2>2. /\ copy'.stage # "none" => "restore" \in world
        /\ copy'.stage = "done" => copy'.manifest = Heads(copy'.checkpoint, copy'.record, copy'.candles)
    <3>1. CASE BackupCheckpoint
      BY <1>0, <3>1 DEF BackupCheckpoint, Copies
    <3>2. CASE BackupDatabase
      BY <1>0, <3>2 DEF BackupDatabase, Copies, Announced
    <3>3. CASE BackupManifest
      BY <1>0, <3>3 DEF BackupManifest, Copies, Announced
    <3> QED BY <1>14, <3>1, <3>2, <3>3 DEF Backup
  <2> QED BY <2>1, <2>2 DEF Announced
<1>15. CASE Restore
  <2>1. /\ checkpoint' = copy.checkpoint /\ record' = copy.record /\ candles' = copy.candles
        /\ manifest' = copy.manifest
        /\ copy.stage = "done" /\ UNCHANGED <<world, procs, copy>> /\ \A q \in Procs : pc[q] = "down"
    BY <1>15 DEF Restore
  <2> QED BY <2>1 DEF Announced, Running
<1>16. CASE GoesStale
  <2>1. /\ UNCHANGED <<world, record, candles, manifest, procs, restored>>
        /\ checkpoint \in Plans /\ checkpoint' \in Plans /\ checkpoint'.last = checkpoint.last
        /\ copy'.stage = copy.stage /\ copy'.record = copy.record /\ copy'.candles = copy.candles
        /\ copy'.manifest = copy.manifest
    BY <1>16, StaleEffect
  <2>2. Published(checkpoint') = Published(checkpoint)
    BY <2>1, LastFacts DEF LastOf
  <2>3. Published(copy'.checkpoint) = Published(copy.checkpoint)
    <3>1. CASE copy.checkpoint = NoCheckpoint
      BY <1>16, <3>1, StaleEffect
    <3>2. CASE copy.checkpoint # NoCheckpoint
      <4>1. /\ copy'.checkpoint \in Plans /\ copy.checkpoint \in Plans
            /\ copy'.checkpoint.last = copy.checkpoint.last
        BY <1>16, <1>0, <3>2, StaleEffect DEF Copies, Checkpoints
      <4> QED BY <4>1, LastFacts DEF LastOf
    <3> QED BY <3>1, <3>2
  <2> QED BY <2>1, <2>2, <2>3 DEF Announced, Heads
<1>17. CASE PowerLoss
  <2>1. "power" \in world /\ world \in Worlds /\ UNCHANGED <<world, copy, restored>>
    BY <1>17 DEF PowerLoss, Types
  <2>2. "restore" \notin world
    BY <2>1
  <2> QED BY <2>1, <2>2 DEF Announced
<1>18. CASE UNCHANGED vars
  BY <1>18 DEF vars, Announced
<1>19. ASSUME NEW p \in Procs, GivesUp(p) \/ Kill(p) PROVE Announced'
  BY <1>5, <1>19 DEF GivesUp, Kill
<1> QED BY <1>1, <1>2, <1>3, <1>4, <1>6, <1>7, <1>8, <1>9, <1>10, <1>11, <1>12, <1>13, <1>14, <1>15, <1>16,
           <1>17, <1>18, <1>19 DEF Next, Boot, Verify, Run, Backup

-----------------------------------------------------------------------------
(* The theorems *)

\* All of it but the announcement, which not every deployment can promise.
IInv ==
  /\ Types /\ Markt
  /\ Recorded /\ LostIsReserved /\ ServedNext
  /\ Values
  /\ Reaches \/ Shut
  /\ NothingAhead

\* An empty directory satisfies the invariant.
LEMMA InitIInv == Init => IInv
<1> SUFFICES ASSUME Init PROVE IInv
  OBVIOUS
<1>1. Types
  BY TypesInit
<1>2. Top({}) = 0 /\ Published(NoCheckpoint) = 0 /\ ~NoMarket.hosted /\ NoMarket.bars = 0
  BY <1>1, TopFacts, LastFacts
<1>3. /\ checkpoint = NoCheckpoint /\ record = {} /\ candles = 0 /\ copy = NoCopy /\ served = {}
      /\ pc = [p \in Procs |-> "down"] /\ market = [p \in Procs |-> NoMarket]
  BY DEF Init
<1>4. Markt /\ Recorded /\ LostIsReserved /\ ServedNext
  BY <1>2, <1>3 DEF Markt, Recorded, LostIsReserved, ServedNext, Lost, Running
<1>5. Values /\ Reaches
  BY <1>3 DEF Values, OneValue, GoesOn, ServedOnce, NoCopy, Reaches
<1>6. NothingAhead
  BY <1>2, <1>3 DEF NothingAhead, NoCopy
<1> QED BY <1>1, <1>4, <1>5, <1>6 DEF IInv

\* Every step keeps every part, from the parts named with it.
LEMMA StepIInv == IInv /\ [Next]_vars => IInv'
<1> SUFFICES ASSUME IInv, [Next]_vars PROVE IInv'
  OBVIOUS
<1> USE DEF IInv
<1>1. Types'
  BY TypesStep
<1>2. GoesOn(checkpoint)
  BY DEF Values
<1>3. Markt'
  BY <1>1, <1>2, MarktStep
<1>4. Recorded'
  BY <1>1, RecordedStep
<1>5. LostIsReserved'
  BY <1>1, LostStep
<1>6. ServedNext'
  BY <1>1, ServedNextStep
<1>7. Values'
  BY <1>1, ValuesStep
<1>8. (Reaches \/ Shut)'
  BY <1>1, ReachStep
<1>9. NothingAhead'
  BY <1>1, NothingAheadStep
<1> QED BY <1>1, <1>3, <1>4, <1>5, <1>6, <1>7, <1>8, <1>9

\* The inductive invariant holds in every deployment.
THEOREM Inductive == Spec => []IInv
<1>1. Init => IInv
  BY InitIInv
<1>2. IInv /\ [Next]_vars => IInv'
  BY StepIInv
<1> QED BY <1>1, <1>2, PTL DEF Spec

\* stateDirectory.ts, venue.ts: no sequence is ever served with two values,
\* over kills, takeovers, power losses and restores, in any number and in every
\* deployment, while what a rollback took back is inside what the files reserve.
THEOREM ServesOneValue == Spec => []ServedOnce
<1>1. IInv => ServedOnce
  BY DEF IInv, Values
<1> QED BY <1>1, Inductive, PTL

\* stateDirectory.ts, verifyStateDirectory: a directory in which no power was
\* lost is never refused, whatever the writer and the backup do between reads.
THEOREM VerifyNeverRefuses == Spec => []VerifyAcquits
<1>1. IInv => VerifyAcquits
  BY DEF IInv, NothingAhead, VerifyAcquits
<1> QED BY <1>1, Inductive, PTL

\* stateDirectory.ts, main.ts: whoever hosts a market writes to a record that
\* reaches its checkpoint, or to none.
THEOREM RecordReaches == Spec => []RecordReachesCheckpoint
<1>1. IInv => RecordReachesCheckpoint
  <2>1. SUFFICES ASSUME IInv PROVE RecordReachesCheckpoint
    OBVIOUS
  <2>2. CASE Reaches
    <3>1. Published(checkpoint) \in Nat /\ Top(record) \in Nat
      BY <2>1, TopFacts, ReservedFacts DEF IInv, Types
    <3> QED BY <2>2, <3>1 DEF Reaches, RecordReachesCheckpoint
  <2>3. CASE Shut
    BY <2>3 DEF Shut, RecordReachesCheckpoint, Hosting, Running
  <2> QED BY <2>1, <2>2, <2>3 DEF IInv
<1> QED BY <1>1, Inductive, PTL

\* stateDirectory.ts, backupOrigin: whoever runs in a directory that was swapped
\* in and not written since has warned of it, in a deployment that does not lose
\* power as well: a record that was cut short is not what its manifest says.
THEOREM RestoreAnnounced ==
  ASSUME \A w \in Worlds : ~({"power", "restore"} \subseteq w)
  PROVE  Spec => []RestoreIsAnnounced
<1>1. Init => IInv /\ Announced
  BY InitIInv DEF Init, Announced, NoCopy
<1>2. (IInv /\ Announced) /\ [Next]_vars => (IInv /\ Announced)'
  BY StepIInv, AnnouncedStep DEF IInv
<1>3. IInv /\ Announced => RestoreIsAnnounced
  BY DEF Announced, RestoreIsAnnounced, Hosting
<1> QED BY <1>1, <1>2, <1>3, PTL DEF Spec

-----------------------------------------------------------------------------
(* The writer lock *)

\* WriterLock, for the services pointed at the directory: who of them holds it
\* is what `world` says of StateDirectory, and is a subject of its own.
CONSTANTS Remote, ReusesPid, Grants, NoLock, Unclaimed, Stalls
VARIABLES lock, expired, at, grant, lost, stopping, stalls, adopted, leavings

Lock == INSTANCE WriterLock WITH pc <- at, departures <- leavings

\* Before the first adoption nobody has lost the directory, nobody is waiting to
\* confirm a takeover, and the lock in the file is that of every process that
\* holds the directory or is about to give it up.
HolderIsInTheFile ==
  ~adopted =>
    /\ lost = {}
    /\ \A p \in Procs : /\ at[p] # "confirm"
                        /\ at[p] \in Lock!Running \cup Lock!Ending => lock = Lock!Grant(p)

LockInv == Lock!TypeOK /\ HolderIsInTheFile

\* What a process that leaves leaves behind.
LEMMA GoneIsTyped ==
  ASSUME Lock!TypeOK, NEW p \in Procs, Lock!Gone(p)
  PROVE  /\ at' \in [Procs -> Lock!Where]
         /\ grant' \in [Procs -> Grants \cup {Unclaimed}]
         /\ lost' \subseteq Procs
         /\ stopping' \subseteq Procs
         /\ at'[p] = "down"
         /\ \A q \in Procs \ {p} : at'[q] = at[q] /\ grant'[q] = grant[q]
         /\ lost = {} => lost' = {}
BY DEF Lock!TypeOK, Lock!Gone, Lock!Where

\* What a grant leaves: the lock of the process that took it.
LEMMA TakeIsTyped ==
  ASSUME Lock!TypeOK, NEW p \in Procs, NEW g \in Grants, Lock!Take(p, g)
  PROVE  /\ lock' \in [proc : Procs, grant : Grants]
         /\ grant' \in [Procs -> Grants \cup {Unclaimed}]
         /\ expired' \in BOOLEAN
         /\ \A q \in Procs \ {p} : grant'[q] = grant[q]
         /\ lock' = [proc |-> p, grant |-> g]
         /\ grant'[p] = g
BY DEF Lock!TypeOK, Lock!Take

\* The variables hold what TypeOK says in every reachable state.
THEOREM LockIsTyped ==
  ASSUME Lock!LockAssumption
  PROVE  Lock!Spec => []Lock!TypeOK
<1>1. Lock!Init => Lock!TypeOK
  <2> SUFFICES ASSUME Lock!Init PROVE Lock!TypeOK
    OBVIOUS
  <2>1. stalls \in BOOLEAN /\ expired \in BOOLEAN /\ adopted \in BOOLEAN
    BY DEF Lock!Init, Lock!LockAssumption
  <2>2. /\ lock \in {NoLock} \cup [proc : Procs, grant : Grants]
        /\ lost \subseteq Procs
        /\ stopping \subseteq Procs
        /\ leavings \in Nat
    BY DEF Lock!Init
  <2>3. at \in [Procs -> Lock!Where]
    BY DEF Lock!Init, Lock!Where
  <2>4. grant \in [Procs -> Grants \cup {Unclaimed}]
    BY DEF Lock!Init
  <2>5. \A p \in Procs : at[p] \notin {"confirm"} \cup Lock!Running \cup Lock!Ending
    BY DEF Lock!Init, Lock!Running, Lock!Ending
  <2> QED BY <2>1, <2>2, <2>3, <2>4, <2>5 DEF Lock!TypeOK
<1>2. Lock!TypeOK /\ [Lock!Next]_Lock!vars => Lock!TypeOK'
  <2> SUFFICES ASSUME Lock!TypeOK, [Lock!Next]_Lock!vars PROVE Lock!TypeOK'
    OBVIOUS
  <2> USE DEF Lock!TypeOK, Lock!Goto, Lock!Where, Lock!Running, Lock!Ending
  <2>1. ASSUME NEW p \in Procs, Lock!Start(p) PROVE Lock!TypeOK'
    BY <2>1 DEF Lock!Start
  <2>2. ASSUME NEW p \in Procs, Lock!Claim(p) PROVE Lock!TypeOK'
    <3>1. CASE lock = NoLock
      <4>1. PICK g \in Grants : Lock!Take(p, g)
        BY <2>2, <3>1 DEF Lock!Claim, Lock!NewGrant
      <4>2. at' = [at EXCEPT ![p] = "idle"] /\ UNCHANGED <<lost, stopping, stalls, adopted, leavings>>
        BY <2>2, <3>1 DEF Lock!Claim
      <4> HIDE DEF Lock!Where, Lock!Running, Lock!Ending
      <4>3. \A q \in Procs : at'[q] \in {"confirm"} \cup Lock!Running \cup Lock!Ending => grant'[q] \in Grants
        BY <4>1, <4>2, TakeIsTyped
      <4>4. at' \in [Procs -> Lock!Where]
        BY <4>2 DEF Lock!Where, Lock!Running
      <4> QED BY <4>1, <4>2, <4>3, <4>4, TakeIsTyped
    <3>2. CASE lock # NoLock
      BY <2>2, <3>2 DEF Lock!Claim
    <3> QED BY <3>1, <3>2
  <2>3. ASSUME NEW p \in Procs, Lock!Judge(p) PROVE Lock!TypeOK'
    BY <2>3, GoneIsTyped DEF Lock!Judge
  <2>4. ASSUME NEW p \in Procs, Lock!Adopt(p) PROVE Lock!TypeOK'
    <3>1. PICK g \in Grants : Lock!Take(p, g)
      BY <2>4 DEF Lock!Adopt, Lock!NewGrant
    <3> QED BY <2>4, <3>1, TakeIsTyped DEF Lock!Adopt
  <2>5. ASSUME NEW p \in Procs, Lock!Confirm(p) PROVE Lock!TypeOK'
    BY <2>5, GoneIsTyped DEF Lock!Confirm
  <2>6. ASSUME NEW p \in Procs, Lock!CheckpointDue(p) PROVE Lock!TypeOK'
    BY <2>6 DEF Lock!CheckpointDue
  <2>7. ASSUME NEW p \in Procs, Lock!Stop(p) PROVE Lock!TypeOK'
    BY <2>7 DEF Lock!Stop
  <2>8. ASSUME NEW p \in Procs, Lock!Renew(p) PROVE Lock!TypeOK'
    BY <2>8 DEF Lock!Renew, Lock!AfterCheckpoint
  <2>9. ASSUME NEW p \in Procs, Lock!Beat(p) PROVE Lock!TypeOK'
    BY <2>9 DEF Lock!Beat, Lock!Grant
  <2>10. ASSUME NEW p \in Procs, Lock!Write(p) PROVE Lock!TypeOK'
    BY <2>10 DEF Lock!Write, Lock!AfterCheckpoint
  <2>11. ASSUME NEW p \in Procs, Lock!Exit(p) PROVE Lock!TypeOK'
    BY <2>11, GoneIsTyped DEF Lock!Exit
  <2>12. ASSUME NEW p \in Procs, Lock!Unlink(p) PROVE Lock!TypeOK'
    BY <2>12, GoneIsTyped DEF Lock!Unlink
  <2>13. ASSUME NEW p \in Procs, Lock!Kill(p) PROVE Lock!TypeOK'
    BY <2>13, GoneIsTyped DEF Lock!Kill
  <2>14. CASE Lock!TermPasses
    BY <2>14 DEF Lock!TermPasses
  <2>15. CASE UNCHANGED Lock!vars
    BY <2>15 DEF Lock!vars
  <2> QED
    BY <2>1, <2>2, <2>3, <2>4, <2>5, <2>6, <2>7, <2>8, <2>9, <2>10, <2>11, <2>12, <2>13,
       <2>14, <2>15 DEF Lock!Next, Lock!Work, Lock!Acquire, Lock!Heartbeat, Lock!Release
<1> QED BY <1>1, <1>2, PTL DEF Lock!Spec

\* Nobody holds the directory at first.
LEMMA HolderIsInTheFileInit == Lock!Init => HolderIsInTheFile
BY DEF Lock!Init, HolderIsInTheFile, Lock!Running, Lock!Ending

\* No step takes the lock of a holder out of the file before an adoption.
LEMMA HolderIsInTheFileStep ==
  ASSUME Lock!LockAssumption, Lock!TypeOK, HolderIsInTheFile, [Lock!Next]_Lock!vars
  PROVE  HolderIsInTheFile'
<1> SUFFICES ASSUME ~adopted'
             PROVE  /\ lost' = {}
                    /\ \A q \in Procs : /\ at'[q] # "confirm"
                                        /\ at'[q] \in Lock!Running \cup Lock!Ending => lock' = Lock!Grant(q)'
  BY DEF HolderIsInTheFile
<1> USE DEF Lock!Goto, Lock!Running, Lock!Ending
<1>a. ASSUME ~adopted
      PROVE  /\ lost = {}
             /\ \A q \in Procs : /\ at[q] # "confirm"
                                 /\ at[q] \in Lock!Running \cup Lock!Ending => lock = Lock!Grant(q)
  BY <1>a DEF HolderIsInTheFile
<1>b. /\ at \in [Procs -> Lock!Where]
      /\ grant \in [Procs -> Grants \cup {Unclaimed}]
  BY DEF Lock!TypeOK
<1>1. ASSUME NEW p \in Procs, Lock!Start(p) PROVE HolderIsInTheFile'
  BY <1>1, <1>a, <1>b DEF Lock!Start, HolderIsInTheFile, Lock!Grant
<1>2. ASSUME NEW p \in Procs, Lock!Claim(p) PROVE HolderIsInTheFile'
  <2>1. CASE lock = NoLock
    <3>1. PICK g \in Grants : Lock!Take(p, g)
      BY <1>2, <2>1 DEF Lock!Claim, Lock!NewGrant
    <3>2. ~adopted => \A q \in Procs : at[q] \notin Lock!Running \cup Lock!Ending
      BY <1>a, <1>b, <2>1 DEF Lock!Grant, Lock!TypeOK, Lock!LockAssumption
    <3>3. at' = [at EXCEPT ![p] = "idle"] /\ UNCHANGED <<lost, adopted>>
      BY <1>2, <2>1 DEF Lock!Claim
    <3>4. lock' = Lock!Grant(p)'
      BY <3>1, TakeIsTyped DEF Lock!Grant
    <3> QED BY <1>a, <1>b, <3>2, <3>3, <3>4 DEF HolderIsInTheFile
  <2>2. CASE lock # NoLock
    BY <1>2, <2>2, <1>a, <1>b DEF Lock!Claim, HolderIsInTheFile, Lock!Grant
  <2> QED BY <2>1, <2>2
<1>3. ASSUME NEW p \in Procs, Lock!Gone(p), UNCHANGED <<lock, adopted>> PROVE HolderIsInTheFile'
  BY <1>3, <1>a, <1>b, GoneIsTyped DEF HolderIsInTheFile, Lock!Grant
<1>4. ASSUME NEW p \in Procs, Lock!Judge(p) PROVE HolderIsInTheFile'
  BY <1>4, <1>3, <1>a, <1>b DEF Lock!Judge, HolderIsInTheFile, Lock!Grant
<1>5. ASSUME NEW p \in Procs, Lock!Adopt(p) PROVE HolderIsInTheFile'
  BY <1>5 DEF Lock!Adopt, HolderIsInTheFile
<1>6. ASSUME NEW p \in Procs, Lock!Confirm(p) PROVE HolderIsInTheFile'
  BY <1>6, <1>a DEF Lock!Confirm, HolderIsInTheFile
<1>7. ASSUME NEW p \in Procs, Lock!CheckpointDue(p) PROVE HolderIsInTheFile'
  BY <1>7, <1>a, <1>b DEF Lock!CheckpointDue, HolderIsInTheFile, Lock!Grant
<1>8. ASSUME NEW p \in Procs, Lock!Stop(p) PROVE HolderIsInTheFile'
  BY <1>8, <1>a, <1>b DEF Lock!Stop, HolderIsInTheFile, Lock!Grant
<1>9. ASSUME NEW p \in Procs, Lock!Renew(p) PROVE HolderIsInTheFile'
  BY <1>9, <1>a, <1>b DEF Lock!Renew, Lock!SameGrant, Lock!AfterCheckpoint, HolderIsInTheFile, Lock!Grant
<1>10. ASSUME NEW p \in Procs, Lock!Beat(p) PROVE HolderIsInTheFile'
  BY <1>10, <1>a, <1>b DEF Lock!Beat, HolderIsInTheFile, Lock!Grant
<1>11. ASSUME NEW p \in Procs, Lock!Write(p) PROVE HolderIsInTheFile'
  BY <1>11, <1>a, <1>b DEF Lock!Write, Lock!AfterCheckpoint, HolderIsInTheFile, Lock!Grant
<1>12. ASSUME NEW p \in Procs, Lock!Exit(p) PROVE HolderIsInTheFile'
  BY <1>12, <1>3, <1>a, <1>b DEF Lock!Exit, Lock!SameGrant, HolderIsInTheFile, Lock!Grant
<1>13. ASSUME NEW p \in Procs, Lock!Unlink(p) PROVE HolderIsInTheFile'
  <2>1. ~adopted => \A q \in Procs \ {p} : at[q] \notin Lock!Running \cup Lock!Ending
    BY <1>13, <1>a, <1>b DEF Lock!Unlink, Lock!Grant
  <2>2. Lock!Gone(p) /\ UNCHANGED adopted
    BY <1>13 DEF Lock!Unlink
  <2> QED BY <2>1, <2>2, <1>a, GoneIsTyped DEF HolderIsInTheFile
<1>14. ASSUME NEW p \in Procs, Lock!Kill(p) PROVE HolderIsInTheFile'
  BY <1>14, <1>3 DEF Lock!Kill
<1>15. CASE Lock!TermPasses
  BY <1>15, <1>a DEF Lock!TermPasses, HolderIsInTheFile, Lock!Grant
<1>16. CASE UNCHANGED Lock!vars
  BY <1>16, <1>a DEF Lock!vars, HolderIsInTheFile, Lock!Grant
<1> QED
  BY <1>1, <1>2, <1>4, <1>5, <1>6, <1>7, <1>8, <1>9, <1>10, <1>11, <1>12, <1>13, <1>14,
     <1>15, <1>16 DEF Lock!Next, Lock!Work, Lock!Acquire, Lock!Heartbeat, Lock!Release, HolderIsInTheFile

\* The type invariant and the strengthening hold together.
THEOREM LockInductive ==
  ASSUME Lock!LockAssumption
  PROVE  Lock!Spec => []LockInv
<1>1. Lock!Init => HolderIsInTheFile
  BY HolderIsInTheFileInit
<1>2. Lock!TypeOK /\ HolderIsInTheFile /\ [Lock!Next]_Lock!vars => HolderIsInTheFile'
  BY HolderIsInTheFileStep
<1> QED BY <1>1, <1>2, LockIsTyped, PTL DEF Lock!Spec, LockInv

\* Before any lock is adopted, two processes never hold the directory at once.
THEOREM OneHolder ==
  ASSUME Lock!LockAssumption
  PROVE  Lock!Spec => []Lock!OneHolderUntilAdoption
<1>1. LockInv => Lock!OneHolderUntilAdoption
  BY DEF LockInv, HolderIsInTheFile, Lock!OneHolderUntilAdoption, Lock!Holding, Lock!Grant
<1> QED BY <1>1, LockInductive, PTL

\* Before any lock is adopted, a holder finds its own lock in the file.
THEOREM HolderKeepsItsLock ==
  ASSUME Lock!LockAssumption
  PROVE  Lock!Spec => []Lock!LockIsTheHolders
<1>1. LockInv => Lock!LockIsTheHolders
  BY DEF LockInv, HolderIsInTheFile, Lock!LockIsTheHolders, Lock!Holding
<1> QED BY <1>1, LockInductive, PTL

=============================================================================
