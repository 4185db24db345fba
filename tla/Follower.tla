------------------------------ MODULE Follower ------------------------------
(***************************************************************************)
(* The nodes that serve an asset they do not lead: FollowerMarket of       *)
(* packages/runtime/src/follower.ts, reading a record that grows under     *)
(* them.  What the record may become is what CoordinatedStore.tla lets a   *)
(* leader write: runs of consecutive ticks, with seams between them.       *)
(*                                                                         *)
(* A pull is two steps, because the record is read before an await and     *)
(* applied after it; a caller may start another pull in between.           *)
(***************************************************************************)
EXTENDS Replication, SequencesExt, FiniteSetsExt

CONSTANTS
  Followers,
  NoInstant,     \* a seam before the first tick has no lastInstant
  RetainTicks,   \* DEFAULT_FOLLOWER_RETAIN_TICKS
  ReadLimit,     \* the limit of one readRecord
  SeamJumps,     \* how far past the head a seam resumes, in sequences
  SeamWidths,    \* and in instants
  SeamUponSeam,  \* may a leader die between its seam and its first tick
  SeamFirst,     \* may a leader have checkpointed and died before any tick
  MaxInFlight,   \* how many pulls of one follower may overlap
  MaxEntries     \* bound: entries of the record

ASSUME FollowerAssumption ==
  /\ {RetainTicks, ReadLimit, MaxInFlight} \subseteq Nat \ {0}
  /\ SeamJumps \subseteq Nat \ {0, 1}   \* at least one number is leased
  /\ SeamWidths \subseteq Nat
  /\ {SeamUponSeam, SeamFirst} \subseteq BOOLEAN
  /\ NoInstant \notin Nat \cup [sequence : Nat, instant : Nat]
  /\ MaxEntries \in Nat

VARIABLES
  record,    \* the shared record
  follower,  \* each FollowerMarket's own fields
  reading,   \* batches read and not yet applied, per follower
  taken      \* history: every entry a follower ever applied, oldest first

vars == <<record, follower, reading, taken>>

-----------------------------------------------------------------------------
(* The record's writers *)

EndsInSeam == record # <<>> /\ Last(record).kind = "seam"

\* The instant of the newest tick; a seam carries that of the tick before it.
LastInstant == IF record = <<>> THEN NoInstant
               ELSE IF EndsInSeam THEN Last(record).seam.closed ELSE Last(record).tick.instant

\* A leader's next tick: the one the record expects, and at the instant a seam
\* reopened the market at if it is the first after it.
WriteTick ==
  /\ Len(record) < MaxEntries
  /\ LET instant == IF EndsInSeam THEN Last(record).seam.opens
                    ELSE IF record = <<>> THEN 0 ELSE LastInstant + 1
     IN record' = Append(record, TickEntryOf(
          [sequence |-> IF record = <<>> THEN 1 ELSE NextOf(record), instant |-> instant]))
  /\ UNCHANGED <<follower, reading, taken>>

\* A new leader's seam.  Until its first tick is in the record, another leader
\* may find the record ending in a seam, and seam from the same head.  A market
\* that never published is numbered from 1 again.
WriteSeam ==
  /\ Len(record) < MaxEntries
  /\ EndsInSeam => SeamUponSeam
  /\ record = <<>> => SeamFirst
  /\ \E jump \in SeamJumps, width \in SeamWidths :
       record' = Append(record, SeamEntryOf(
         [lastSequence |-> HeadOf(record),
          closed       |-> LastInstant,
          resumesAt    |-> IF HeadOf(record) = 0 THEN 1 ELSE HeadOf(record) + jump,
          opens        |-> IF LastInstant = NoInstant THEN width ELSE LastInstant + width]))
  /\ UNCHANGED <<follower, reading, taken>>

-----------------------------------------------------------------------------
(* FollowerMarket *)

\* The fields, as the constructor leaves them; 0 is null.
NewFollower == [entries |-> <<>>, history |-> <<>>, head |-> 0, expectNext |-> 0, seams |-> {}]

\* apply refuses an entry that does not continue the follower.
Continues(x, e) ==
  IF e.kind = "seam" THEN e.seam.lastSequence = x.head
                     ELSE x.expectNext \in {0, e.tick.sequence}

Applied(x, e) ==
  [entries    |-> Append(x.entries, e),
   history    |-> IF e.kind = "tick" THEN Append(x.history, e.tick) ELSE x.history,
   head       |-> IF e.kind = "tick" THEN e.tick.sequence ELSE x.head,
   expectNext |-> NextAfter(e),
   seams      |-> IF e.kind = "seam" THEN x.seams \cup {e.seam} ELSE x.seams]

\* The follower after each entry of a batch.
Stages(x, batch) ==
  LET after[k \in 0..Len(batch)] == IF k = 0 THEN x ELSE Applied(after[k - 1], batch[k])
  IN after

\* How much of a batch goes in before apply throws, if it does.
AcceptedOf(x, batch) ==
  LET after == Stages(x, batch) IN
  CHOOSE k \in 0..Len(batch) :
    /\ \A j \in 1..k : Continues(after[j - 1], batch[j])
    /\ k < Len(batch) => ~Continues(after[k], batch[k + 1])

\* The last sequence an entry concerns: a seam concerns the tick it resumes at.
Concerns(e) == IF e.kind = "tick" THEN e.tick.sequence ELSE e.seam.resumesAt

\* Mutant: the oldest tick that is kept loses its own entry.
ObsoleteAt(e, oldest) == Concerns(e) <= oldest
Obsolete(e, oldest)   == Concerns(e) < oldest

\* The oldest ticks go, down to `size`, then the entries that concern none of
\* the rest.
EvictedTo(x, size) ==
  IF Len(x.history) <= size THEN x ELSE
  LET kept   == SubSeq(x.history, Len(x.history) - size + 1, Len(x.history))
      gone(e) == Obsolete(e, kept[1].sequence)
      drop   == CHOOSE k \in 0..Len(x.entries) :
                  /\ \A j \in 1..k : gone(x.entries[j])
                  /\ k < Len(x.entries) => ~gone(x.entries[k + 1])
  IN [x EXCEPT !.history = kept, !.entries = SubSeq(@, drop + 1, Len(@))]

\* #evict
Evicted(x) == EvictedTo(x, RetainTicks)

\* Mutant: a pull goes on from the newest tick, whatever a seam said of the next.
PullFromHead(f) ==
  /\ Len(reading[f]) < MaxInFlight
  /\ LET batch == ReadRecord(record, follower[f].head + 1, ReadLimit)
     IN /\ batch # <<>>
        /\ reading' = [reading EXCEPT ![f] = Append(@, batch)]
  /\ UNCHANGED <<record, follower, taken>>

\* pull, up to its await.
Pull(f) ==
  /\ Len(reading[f]) < MaxInFlight
  /\ LET from  == IF follower[f].expectNext = 0 THEN 1 ELSE follower[f].expectNext
         batch == ReadRecord(record, from, ReadLimit)
     IN /\ batch # <<>>
        /\ reading' = [reading EXCEPT ![f] = Append(@, batch)]
  /\ UNCHANGED <<record, follower, taken>>

\* apply: entry by entry, and an entry refused leaves those before it in place.
Apply(f) ==
  \E i \in DOMAIN reading[f] :
    LET batch    == reading[f][i]
        accepted == AcceptedOf(follower[f], batch)
        stage    == Stages(follower[f], batch)[accepted]
    IN /\ follower' = [follower EXCEPT ![f] = IF accepted = Len(batch) THEN Evicted(stage) ELSE stage]
       /\ taken' = [taken EXCEPT ![f] = @ \o SubSeq(batch, 1, accepted)]
       /\ reading' = [reading EXCEPT ![f] = RemoveAt(@, i)]
       /\ UNCHANGED record

Init ==
  /\ record = <<>>
  /\ follower = [f \in Followers |-> NewFollower]
  /\ reading = [f \in Followers |-> <<>>]
  /\ taken = [f \in Followers |-> <<>>]

Next == WriteTick \/ WriteSeam \/ \E f \in Followers : Pull(f) \/ Apply(f)

\* A follower is polled for as long as it runs, and the store answers.
Fairness == \A f \in Followers : WF_vars(Pull(f)) /\ WF_vars(Apply(f))

Spec == Init /\ [][Next]_vars
FairSpec == Spec /\ Fairness

-----------------------------------------------------------------------------
(* What a follower answers *)

OldestRetained(x) == IF x.history = <<>> THEN 0 ELSE x.history[1].sequence

\* serve, for the record head its caller read.
Serve(x, from, recordHead) ==
  IF from > recordHead + 1 THEN [kind |-> "unknown"]
  ELSE IF recordHead = 0 THEN [kind |-> "entries", entries |-> <<>>]
  ELSE IF x.head = 0 \/ from > x.head + 1 THEN [kind |-> "lagging"]
  ELSE IF from < OldestRetained(x) THEN [kind |-> "evicted"]
  ELSE [kind |-> "entries", entries |-> Slice(x.entries, LowerBound(x.entries, from), Len(x.entries))]

\* Mutant: the edge of a gap counted in.
InGapOrBefore(seam, t) == seam.closed # NoInstant /\ t >= seam.closed /\ t < seam.opens
\* The windows in which no node was generating.
InGap(seam, t) == seam.closed # NoInstant /\ t > seam.closed /\ t < seam.opens
SpansSeam(x, from, to) ==
  \E seam \in x.seams : seam.closed # NoInstant /\ from < seam.opens /\ to > seam.closed

\* priceAt: the tick in force, for the price it carries, or NoInstant.
PriceAt(x, t) ==
  LET sofar == {k \in DOMAIN x.history : x.history[k].instant <= t} IN
  IF sofar = {} \/ \E seam \in x.seams : InGap(seam, t) THEN NoInstant
  ELSE x.history[CHOOSE k \in sofar : \A j \in sofar : j <= k]

-----------------------------------------------------------------------------
(* Properties *)

Reader == INSTANCE RecordReader WITH Readers <- Followers

\* Every variable has its type.
TypeOK ==
  /\ \A k \in DOMAIN record : record[k].kind \in {"tick", "seam"}
  /\ \A f \in Followers :
       /\ follower[f].head \in Nat /\ follower[f].expectNext \in Nat
       /\ Len(follower[f].history) \in 0..RetainTicks
       /\ Len(reading[f]) \in 0..MaxInFlight
       /\ \A i \in DOMAIN reading[f] : Len(reading[f][i]) \in 1..ReadLimit

\* A follower is a replica: it takes the record entry by entry, in order, and
\* gets to the end of it, although it reads in bounded batches, keeps only a
\* window, and knows its place by two numbers (follower.ts pull and apply).
ReadsTheRecord == Reader!Spec

\* Each follower holds a prefix of the record (multiNode.test.ts, and
\* MULTI_NODE_AND_OPERATIONS.md 92).
HoldsAPrefix == \A f \in Followers : IsPrefix(taken[f], record)

\* A follower that keeps pulling reaches every tick of the record
\* (follower.test.ts "catches up across several bounded pulls").
CatchesUp ==
  \A f \in Followers, n \in 1..(MaxEntries * (1 + Max(SeamJumps))) :
    HeadOf(record) = n ~> follower[f].head >= n

\* The tick in force at t by the record's ticks alone, or NoInstant when its
\* neighbour is across a seam.
InForce(t) ==
  LET before == {k \in DOMAIN record : record[k].kind = "tick" /\ record[k].tick.instant <= t}
      k      == CHOOSE k \in before : \A j \in before : j <= k
  IN IF before = {} \/ (k < Len(record) /\ record[k + 1].kind = "seam" /\ t > record[k].tick.instant)
     THEN NoInstant ELSE record[k].tick

\* The instants a follower can answer for: it retains the tick before them and
\* holds one after them.
Answerable(x) == IF x.history = <<>> THEN {} ELSE x.history[1].instant..(Last(x.history).instant - 1)

\* Followers agree with the record, so with one another.  What one serves is the
\* record's own entries from the asked sequence to its place, seams included,
\* whatever it has evicted and however old the head its caller read (follower.ts
\* serve, #evict); the price at every instant it has passed is the one in force,
\* and none inside a gap; and a window reported as clean has a price at every
\* instant, so that the two answers never contradict one another at an edge of a
\* gap (follower.ts priceAt, and 160-167).
AnswersAreTheRecord ==
  \A f \in Followers :
    /\ \A from \in 1..(NextOf(record) + 1), head \in 1..HeadOf(record) :
         LET answer == Serve(follower[f], from, head) IN
         answer.kind = "entries" =>
           answer.entries = SubSeq(record, LowerBound(record, from) + 1, Len(taken[f]))
    /\ \A from, to \in Answerable(follower[f]) :
         /\ PriceAt(follower[f], from) = InForce(from)
         /\ from < to /\ ~SpansSeam(follower[f], from, to) =>
              \A t \in from..to : PriceAt(follower[f], t) # NoInstant

\* A reader asking for a sequence that fell inside a gap is given the seam
\* before the ticks that follow (replication.ts 60-66).
GapReadersAreTold ==
  \A k \in DOMAIN record : record[k].kind = "seam" =>
    \A s \in (record[k].seam.lastSequence + 1)..(record[k].seam.resumesAt - 1) :
      ReadRecord(record, s, ReadLimit) = <<>> \/ ReadRecord(record, s, ReadLimit)[1] = record[k]

=============================================================================
