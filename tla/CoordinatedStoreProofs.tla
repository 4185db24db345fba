----------------------- MODULE CoordinatedStoreProofs -----------------------
(***************************************************************************)
(* What CoordinatedStore guarantees for every set of holders, every term,  *)
(* every clock and every bound.                                            *)
(***************************************************************************)
EXTENDS CoordinatedStore, SequenceTheorems, FiniteSetTheorems, WellFoundedInduction, TLAPS

-----------------------------------------------------------------------------
(* Leases *)

LeaseTypes ==
  /\ now \in Nat
  /\ grant \in StoredGrant \cup {NoGrant}
  /\ highWater \in Nat
  /\ issued \in Seq(LeaseGrant)
  /\ author \in 0..Len(issued)

\* The table never holds a grant other than the newest: this is what makes a
\* comparison of two numbers enough.
LeaseInv ==
  /\ LeaseTypes
  /\ Len(issued) = highWater
  /\ \A i \in DOMAIN issued : issued[i].token = i
  /\ grant # NoGrant => grant.token = highWater

LEMMA LeaseInit == Init => LeaseInv
BY BoundAssumption DEF Init, LeaseInv, LeaseTypes, LeaseGrant

\* Dropping an expired grant keeps the invariant.
LEMMA SweepKeepsLeases ==
  ASSUME LeaseInv, grant' \in {grant, NoGrant}, UNCHANGED <<now, highWater, issued, author>>
  PROVE  LeaseInv'
BY DEF LeaseInv, LeaseTypes

LEMMA LeaseStep == LeaseInv /\ [Next]_vars => LeaseInv'
<1> SUFFICES ASSUME LeaseInv, [Next]_vars PROVE LeaseInv'
  OBVIOUS
<1> USE DEF Swept
<1>1. CASE ClockMoves
  BY <1>1, BoundAssumption DEF ClockMoves, LeaseInv, LeaseTypes, leaseVars
<1>2. ASSUME NEW h \in Holders, Acquire(h) PROVE LeaseInv'
  <2> DEFINE new == [holder |-> h, token |-> highWater + 1]
  <2>1. /\ issued' = Append(issued, new)
        /\ highWater' = highWater + 1
        /\ grant' = [holder |-> h, token |-> highWater + 1, expiresAt |-> now + TermMs]
        /\ UNCHANGED <<now, author>>
    BY <1>2 DEF Acquire, NextToken
  <2>2. new \in LeaseGrant /\ grant' \in StoredGrant
    BY <2>1, TermAssumption DEF LeaseInv, LeaseTypes, LeaseGrant, StoredGrant
  <2>3. /\ issued' \in Seq(LeaseGrant)
        /\ Len(issued') = Len(issued) + 1
        /\ \A i \in 1..Len(issued) : issued'[i] = issued[i]
        /\ issued'[Len(issued) + 1] = new
    BY <2>1, <2>2, AppendProperties DEF LeaseInv, LeaseTypes
  <2> QED
    BY <2>1, <2>2, <2>3 DEF LeaseInv, LeaseTypes
<1>3. ASSUME NEW c \in Checkpoints, SaveUnfenced(c) PROVE LeaseInv'
  BY <1>3 DEF SaveUnfenced, LeaseInv, LeaseTypes, leaseVars
<1>4. ASSUME NEW i \in DOMAIN issued, Renew(i) PROVE LeaseInv'
  BY <1>4, TermAssumption
     DEF Renew, Holds, Live, LeaseInv, LeaseTypes, StoredGrant
<1>5. ASSUME NEW i \in DOMAIN issued, Release(i) PROVE LeaseInv'
  BY <1>5, SweepKeepsLeases DEF Release
<1>6. ASSUME NEW i \in DOMAIN issued, FenceRefuses(i) PROVE LeaseInv'
  BY <1>6, SweepKeepsLeases DEF FenceRefuses
<1>7. ASSUME NEW i \in DOMAIN issued,
             \/ \E c \in Checkpoints : SaveFenced(i, c)
             \/ \E batch \in Batches : AppendTicks(i, batch)
             \/ \E seam \in SeamMarker : RecordSeam(i, seam)
      PROVE LeaseInv'
  <2>1. author' = i /\ UNCHANGED <<now, grant, highWater, issued>>
    BY <1>7 DEF SaveFenced, AppendTicks, RecordSeam, leaseVars
  <2> QED
    BY <2>1 DEF LeaseInv, LeaseTypes
<1>8. CASE UNCHANGED vars
  BY <1>8 DEF vars, leaseVars, LeaseInv, LeaseTypes
<1>9. CASE Inspect
  BY <1>9, SweepKeepsLeases DEF Inspect
<1> QED
  BY <1>1, <1>2, <1>3, <1>4, <1>5, <1>6, <1>7, <1>8, <1>9 DEF Next

\* The lease table is consistent in every reachable state.
THEOREM LeasesConsistent == Spec => []LeaseInv
BY LeaseInit, LeaseStep, PTL DEF Spec

\* A token is never issued twice: see TokensNeverReturn.
THEOREM TokensAreUnique == Spec => []TokensNeverReturn
<1>1. LeaseInv => TokensNeverReturn
  BY DEF LeaseInv, LeaseTypes, TokensNeverReturn
<1> QED
  BY <1>1, LeasesConsistent, PTL

\* Writers never interleave: see OnlyTheNewestGrantWrites.  The fence compares
\* the presented token with the table's, and by LeaseInv both the presented
\* grant and the table's grant are then the newest one.
THEOREM WritersAreSerial == Spec => OnlyTheNewestGrantWrites
<1> DEFINE Serial == (recordVars' # recordVars \/ (saved' # saved /\ issued # <<>>))
                        => author' = Len(issued)
<1>1. ASSUME LeaseInv, NEW i \in DOMAIN issued, Passes(i) PROVE i = Len(issued)
  BY <1>1 DEF LeaseInv, LeaseTypes, Passes, Live
<1>2. LeaseInv /\ [Next]_vars => [Serial]_vars
  <2> SUFFICES ASSUME LeaseInv, Next PROVE Serial
    BY DEF vars
  <2>1. ASSUME UNCHANGED <<recordVars, saved>> PROVE Serial
    BY <2>1
  <2>2. ASSUME NEW i \in DOMAIN issued, NEW c \in Checkpoints, SaveFenced(i, c) PROVE Serial
    BY <2>2, <1>1 DEF SaveFenced
  <2>3. ASSUME NEW i \in DOMAIN issued, NEW batch \in Batches, AppendTicks(i, batch) PROVE Serial
    BY <2>3, <1>1 DEF AppendTicks
  <2>4. ASSUME NEW i \in DOMAIN issued, NEW seam \in SeamMarker, RecordSeam(i, seam) PROVE Serial
    BY <2>4, <1>1 DEF RecordSeam
  <2>5. ASSUME NEW c \in Checkpoints, SaveUnfenced(c) PROVE Serial
    BY <2>5 DEF SaveUnfenced
  <2> QED
    BY <2>1, <2>2, <2>3, <2>4, <2>5
       DEF Next, ClockMoves, Inspect, Acquire, Renew, Release, FenceRefuses
<1> QED
  BY <1>2, LeasesConsistent, PTL DEF Spec, OnlyTheNewestGrantWrites

-----------------------------------------------------------------------------
(* The record *)

Entry == TickEntry \cup SeamEntry

RecordTypes ==
  /\ entries \in Seq(Entry)
  /\ head \in 0..MaxSequence
  /\ expectNext \in 0..(MaxSequence + 1)
  /\ saved \in Checkpoints \cup {NoCheckpoint}

\* head and expectNext are what the last entry makes them.
CursorsFollowEntries ==
  /\ head = IF entries = <<>> THEN 0 ELSE HeadAfter(entries[Len(entries)])
  /\ expectNext = IF entries = <<>> THEN 0 ELSE NextAfter(entries[Len(entries)])

\* Entries are in the order of their sequences, and none is past the head but
\* a seam, which sits just after it.
EntriesSorted ==
  /\ \A j, k \in DOMAIN entries : j < k => EntrySequence(entries[j]) <= EntrySequence(entries[k])
  /\ \A k \in DOMAIN entries : EntrySequence(entries[k]) <= head + 1

RecordInv ==
  /\ RecordTypes
  /\ CursorsFollowEntries
  /\ RecordIsContiguous
  /\ EntriesSorted

LEMMA RecordInit == Init => RecordInv
BY BoundAssumption
   DEF Init, RecordInv, RecordTypes, CursorsFollowEntries, RecordIsContiguous, EntriesSorted, Entry

\* What one entry can say.
LEMMA EntryFacts ==
  ASSUME NEW e \in Entry
  PROVE  /\ e.kind = "tick" => e.tick \in Tick /\ e.tick.sequence \in 1..MaxSequence
         /\ e.kind # "tick" => /\ e.kind = "seam"
                               /\ e.seam.lastSequence \in 0..MaxSequence
                               /\ e.seam.resumesAt \in 1..MaxSequence
         /\ HeadAfter(e) \in 0..MaxSequence
         /\ NextAfter(e) \in 1..(MaxSequence + 1)
         /\ EntrySequence(e) \in 1..(MaxSequence + 1)
BY BoundAssumption
   DEF Entry, TickEntry, SeamEntry, Tick, SeamMarker, TickSequence, HeadAfter, NextAfter, EntrySequence

LEMMA RecordUnchanged ==
  ASSUME RecordInv, UNCHANGED recordVars, saved' \in Checkpoints \cup {NoCheckpoint}
  PROVE  RecordInv'
BY DEF RecordInv, RecordTypes, CursorsFollowEntries, RecordIsContiguous, EntriesSorted, recordVars

\* A seam keeps the record readable.
LEMMA SeamStep ==
  ASSUME RecordInv, NEW seam \in SeamMarker, NEW i, RecordSeam(i, seam)
  PROVE  RecordInv'
<1> DEFINE e == [kind |-> "seam", seam |-> seam]
           n == Len(entries)
<1>1. e \in Entry /\ n \in Nat
  BY DEF Entry, SeamEntry, RecordInv, RecordTypes
<1>2. /\ entries' = Append(entries, e)
      /\ head' = head
      /\ expectNext' = seam.resumesAt
      /\ saved' = saved
      /\ seam.lastSequence = head
      /\ seam.resumesAt > head
  BY DEF RecordSeam, Seamable, SeamEntryOf
<1>3. /\ entries' \in Seq(Entry)
      /\ Len(entries') = n + 1
      /\ \A k \in 1..n : entries'[k] = entries[k]
      /\ entries'[n + 1] = e
  BY <1>1, <1>2, AppendProperties DEF RecordInv, RecordTypes
<1>4. entries' # <<>> /\ (entries = <<>> <=> n = 0)
  BY <1>1, <1>3, EmptySeq DEF RecordInv, RecordTypes
<1>5. HeadAfter(e) = head /\ NextAfter(e) = seam.resumesAt /\ EntrySequence(e) = head + 1
  BY <1>2 DEF HeadAfter, NextAfter, EntrySequence
<1>6. RecordTypes'
  BY <1>2, <1>3, BoundAssumption DEF RecordInv, RecordTypes, SeamMarker, TickSequence
<1>7. CursorsFollowEntries'
  BY <1>2, <1>3, <1>4, <1>5 DEF CursorsFollowEntries
<1>8. RecordIsContiguous'
  <2> SUFFICES ASSUME NEW k \in 1..(n + 1) PROVE FollowsPrevious(entries', k)
    BY <1>1, <1>3 DEF RecordIsContiguous, RecordInv, RecordTypes
  <2>1. CASE k \in 1..n
    <3>1. FollowsPrevious(entries, k)
      BY <2>1, <1>1 DEF RecordInv, RecordIsContiguous, RecordTypes
    <3>2. entries'[k] = entries[k] /\ (k > 1 => entries'[k - 1] = entries[k - 1])
      BY <2>1, <1>1, <1>3
    <3> QED
      BY <3>1, <3>2, <2>1, <1>1 DEF FollowsPrevious
  <2>2. CASE k = n + 1
    <3>1. k > 1 => entries'[k - 1] = entries[n] /\ entries # <<>>
      BY <2>2, <1>1, <1>3, <1>4
    <3>2. k = 1 => entries = <<>>
      BY <2>2, <1>1, <1>4
    <3> QED
      BY <2>2, <3>1, <3>2, <1>1, <1>2, <1>3
         DEF RecordInv, CursorsFollowEntries, RecordTypes, FollowsPrevious
  <2> QED
    BY <2>1, <2>2, <1>1
<1>9. EntriesSorted'
  <2>1. \A k \in 1..n : EntrySequence(entries[k]) <= head + 1
    BY <1>1 DEF RecordInv, RecordTypes, EntriesSorted
  <2>2. DOMAIN entries' = 1..(n + 1) /\ DOMAIN entries = 1..n
    BY <1>1, <1>3 DEF RecordInv, RecordTypes
  <2>3. \A j, k \in 1..n : j < k => EntrySequence(entries[j]) <= EntrySequence(entries[k])
    BY <2>2 DEF RecordInv, EntriesSorted
  <2> QED
    BY <1>1, <1>2, <1>3, <1>5, <2>1, <2>2, <2>3 DEF EntriesSorted, RecordInv, RecordTypes
<1> QED
  BY <1>6, <1>7, <1>8, <1>9 DEF RecordInv

\* A batch that splits into a replayed and a fresh part keeps it readable.
LEMMA AppendStep ==
  ASSUME RecordInv, NEW batch \in Seq(Tick), NEW i, AppendTicks(i, batch)
  PROVE  RecordInv'
<1>1. PICK replayed \in 0..Len(batch) :
        /\ Splits(batch, replayed)
        /\ entries' = entries \o TickEntries(Fresh(batch, replayed))
        /\ head' = IF Fresh(batch, replayed) = <<>> THEN head
                   ELSE Fresh(batch, replayed)[Len(Fresh(batch, replayed))].sequence
        /\ expectNext' = IF Fresh(batch, replayed) = <<>> THEN expectNext
                         ELSE Fresh(batch, replayed)[Len(Fresh(batch, replayed))].sequence + 1
        /\ saved' = saved
  BY DEF AppendTicks
<1> DEFINE fresh == Fresh(batch, replayed)
           new   == TickEntries(fresh)
           n     == Len(entries)
           m     == Len(fresh)
<1>2. fresh \in Seq(Tick) /\ n \in Nat /\ m \in Nat /\ DOMAIN fresh = 1..m
  <2>1. Len(batch) \in Nat /\ replayed \in Nat
    OBVIOUS
  <2>2. SubSeq(batch, replayed + 1, Len(batch)) \in Seq(Tick)
    BY <2>1, SubSeqProperties
  <2> QED
    BY <2>2 DEF Fresh, RecordInv, RecordTypes
<1>3. CASE fresh = <<>>
  <2>1. new = <<>>
    <3>1. DOMAIN fresh = {}
      BY <1>3
    <3>2. new = [k \in 1..0 |-> [kind |-> "tick", tick |-> fresh[k]]]
      BY <3>1 DEF TickEntries, TickEntryOf
    <3> QED
      BY <3>2
  <2>2. entries' = entries
    BY <1>1, <2>1, ConcatEmptySeq DEF RecordInv, RecordTypes
  <2> QED
    BY <1>1, <1>3, <2>2, RecordUnchanged DEF recordVars, RecordInv, RecordTypes
<1>4. CASE fresh # <<>>
  <2>1. m > 0
    BY <1>2, <1>4
  <2>2. /\ \A k \in 1..m : fresh[k] \in Tick
        /\ \A k \in 1..m : fresh[k].sequence \in 1..MaxSequence
    <3>1. \A k \in 1..m : fresh[k] \in Tick
      BY <1>2, ElementOfSeq
    <3> QED
      BY <3>1 DEF Tick, TickSequence
  <2>3. /\ new \in Seq(Entry)
        /\ Len(new) = m
        /\ \A k \in 1..m : new[k] = [kind |-> "tick", tick |-> fresh[k]]
    BY <1>2, <2>2 DEF TickEntries, TickEntryOf, Entry, TickEntry
  <2>4. /\ entries' \in Seq(Entry)
        /\ Len(entries') = n + m
        /\ \A k \in 1..n : entries'[k] = entries[k]
        /\ \A k \in 1..m : entries'[n + k] = new[k]
    <3>1. entries' = entries \o new /\ entries \in Seq(Entry)
      BY <1>1 DEF RecordInv, RecordTypes
    <3>. new \in Seq(Entry) /\ n = Len(entries) /\ m = Len(new)
      BY <2>3
    <3> HIDE DEF new, n, m, fresh
    <3>2. \A k \in 1..m : n + k \in (n + 1)..(n + m) /\ n + k - n = k
      BY <1>2
    <3>3. \A k \in 1..(n + m) : entries'[k] = IF k <= n THEN entries[k] ELSE new[k - n]
      BY <3>1, <2>3, ConcatProperties
    <3>4. entries' \in Seq(Entry) /\ Len(entries') = n + m
      BY <3>1, <2>3, ConcatProperties
    <3>5. \A k \in 1..m : entries'[n + k] = new[k]
      BY <3>2, <3>3, <1>2
    <3>6. \A k \in 1..n : entries'[k] = entries[k]
      BY <3>3, <1>2
    <3> QED
      BY <3>4, <3>5, <3>6
  <2>5. /\ head' = fresh[m].sequence
        /\ expectNext' = fresh[m].sequence + 1
        /\ saved' = saved
    BY <1>1, <1>4
  <2>6. \A k \in 1..m : /\ fresh[k].sequence > head
                        /\ fresh[k].sequence =
                             (IF expectNext = 0 THEN fresh[1].sequence ELSE expectNext) + k - 1
    BY <1>1, <1>2 DEF Splits, Continues
  <2>7. \A k \in 1..m : /\ new[k].kind = "tick"
                        /\ new[k].tick = fresh[k]
                        /\ HeadAfter(new[k]) = fresh[k].sequence
                        /\ NextAfter(new[k]) = fresh[k].sequence + 1
                        /\ EntrySequence(new[k]) = fresh[k].sequence
    <3> HIDE DEF new, m, fresh
    <3> SUFFICES ASSUME NEW k \in 1..m
                 PROVE  /\ new[k].kind = "tick"
                        /\ new[k].tick = fresh[k]
                        /\ HeadAfter(new[k]) = fresh[k].sequence
                        /\ NextAfter(new[k]) = fresh[k].sequence + 1
                        /\ EntrySequence(new[k]) = fresh[k].sequence
      OBVIOUS
    <3>1. new[k].kind = "tick" /\ new[k].tick = fresh[k]
      BY <2>3
    <3> QED
      BY <3>1 DEF HeadAfter, NextAfter, EntrySequence
  <2>8. /\ entries' # <<>>
        /\ entries = <<>> <=> n = 0
        /\ DOMAIN entries' = 1..(n + m)
        /\ DOMAIN entries = 1..n
    BY <1>2, <2>1, <2>4, EmptySeq DEF RecordInv, RecordTypes
  <2> HIDE DEF new, fresh, n, m
  <2>9. RecordTypes'
    BY <2>1, <2>2, <2>4, <2>5, <1>2, BoundAssumption DEF RecordInv, RecordTypes
  <2>10. CursorsFollowEntries'
    BY <2>1, <2>4, <2>5, <2>7, <2>8, <1>2 DEF CursorsFollowEntries
  <2>11. RecordIsContiguous'
    <3> SUFFICES ASSUME NEW k \in 1..(n + m) PROVE FollowsPrevious(entries', k)
      BY <2>8 DEF RecordIsContiguous
    <3>1. CASE k \in 1..n
      <4>1. FollowsPrevious(entries, k)
        BY <3>1, <2>8 DEF RecordInv, RecordIsContiguous
      <4>2. entries'[k] = entries[k] /\ (k > 1 => entries'[k - 1] = entries[k - 1])
        BY <3>1, <2>4, <1>2
      <4> QED
        BY <4>1, <4>2, <3>1, <1>2 DEF FollowsPrevious
    <3>2. CASE k = n + 1
      <4>1. entries'[k].kind = "tick" /\ entries'[k].tick = fresh[1]
        BY <3>2, <2>1, <2>4, <2>7, <1>2
      <4>2. k > 1 => entries'[k - 1] = entries[n] /\ expectNext = NextAfter(entries[n])
        BY <3>2, <2>4, <2>8, <1>2 DEF RecordInv, CursorsFollowEntries
      <4>3. k > 1 => expectNext # 0
        <5>1. k > 1 => entries[n] \in Entry
          BY <3>2, <2>8, <1>2, ElementOfSeq DEF RecordInv, RecordTypes, n
        <5> QED
          BY <5>1, <4>2, EntryFacts, BoundAssumption
      <4>4. k > 1 => fresh[1].sequence = expectNext
        BY <4>3, <2>1, <2>6, <1>2, <2>2 DEF RecordInv, RecordTypes
      <4> QED
        BY <4>1, <4>2, <4>4 DEF FollowsPrevious
    <3>3. CASE k > n + 1
      <4> DEFINE j == k - n
      <4>1. j \in 1..m /\ j - 1 \in 1..m /\ k = n + j /\ k - 1 = n + (j - 1)
        BY <3>3, <1>2
      <4>2. /\ entries'[k].kind = "tick" /\ entries'[k].tick = fresh[j]
            /\ NextAfter(entries'[k - 1]) = fresh[j - 1].sequence + 1
        BY <4>1, <2>4, <2>7
      <4>3. fresh[j].sequence = fresh[j - 1].sequence + 1
        <5> DEFINE base == IF expectNext = 0 THEN fresh[1].sequence ELSE expectNext
        <5>1. base \in Int
          BY <2>1, <2>2, <1>2 DEF RecordInv, RecordTypes
        <5>2. fresh[j].sequence = base + j - 1 /\ fresh[j - 1].sequence = base + (j - 1) - 1
          BY <4>1, <2>6
        <5> HIDE DEF base
        <5> QED
          BY <5>1, <5>2, <1>2
      <4> QED
        BY <4>2, <4>3 DEF FollowsPrevious
    <3> QED
      BY <3>1, <3>2, <3>3, <1>2
  <2>12. EntriesSorted'
    <3>1. \A k \in 1..n : EntrySequence(entries[k]) \in Nat /\ EntrySequence(entries[k]) <= head + 1
      <4>1. \A k \in 1..n : entries[k] \in Entry
        BY <2>8, ElementOfSeq DEF RecordInv, RecordTypes, n
      <4> QED
        BY <4>1, <2>8, EntryFacts, BoundAssumption DEF RecordInv, EntriesSorted
    <3>2. \A k \in 1..m : fresh[k].sequence >= head + 1 /\ fresh[k].sequence <= fresh[m].sequence
      <4> TAKE k \in 1..m
      <4> DEFINE base == IF expectNext = 0 THEN fresh[1].sequence ELSE expectNext
      <4>1. base \in Int
        BY <2>1, <2>2, <1>2 DEF RecordInv, RecordTypes
      <4>2. /\ fresh[k].sequence = base + k - 1 /\ fresh[m].sequence = base + m - 1
            /\ fresh[k].sequence > head
        BY <2>1, <2>6, <1>2
      <4> HIDE DEF base
      <4> QED
        BY <4>1, <4>2, <2>2, <1>2 DEF RecordInv, RecordTypes
    <3>3. \A j, k \in 1..m : j < k => fresh[j].sequence <= fresh[k].sequence
      <4> TAKE j, k \in 1..m
      <4> DEFINE base == IF expectNext = 0 THEN fresh[1].sequence ELSE expectNext
      <4>1. base \in Int
        BY <2>1, <2>2, <1>2 DEF RecordInv, RecordTypes
      <4>2. fresh[j].sequence = base + j - 1 /\ fresh[k].sequence = base + k - 1
        BY <2>6
      <4> HIDE DEF base
      <4> QED
        BY <4>1, <4>2, <1>2
    <3>4. \A k \in 1..n : EntrySequence(entries'[k]) = EntrySequence(entries[k])
      BY <2>4
    <3>5. \A k \in 1..m : EntrySequence(entries'[n + k]) = fresh[k].sequence
      BY <2>4, <2>7
    <3>6. \A k \in (n + 1)..(n + m) : k - n \in 1..m /\ k = n + (k - n)
      BY <1>2
    <3>7. \A k \in 1..(n + m) : EntrySequence(entries'[k]) <= head' + 1
      <4> TAKE k \in 1..(n + m)
      <4>1. CASE k \in 1..n
        <5>1. head + 1 <= fresh[m].sequence /\ head' = fresh[m].sequence /\ head \in Int
          BY <3>2, <2>1, <2>5, <1>2 DEF RecordInv, RecordTypes
        <5>2. EntrySequence(entries'[k]) \in Nat /\ EntrySequence(entries'[k]) <= head + 1
          BY <4>1, <3>1, <3>4
        <5> QED
          BY <5>1, <5>2, <2>1, <2>2, <1>2
      <4>2. CASE k \in (n + 1)..(n + m)
        <5>1. k - n \in 1..m /\ k = n + (k - n)
          BY <4>2, <3>6
        <5>2. /\ EntrySequence(entries'[k]) = fresh[k - n].sequence
              /\ fresh[k - n].sequence <= fresh[m].sequence
          BY <5>1, <3>2, <3>5
        <5>3. fresh[k - n].sequence \in Int /\ fresh[m].sequence \in Int
          BY <5>1, <2>1, <2>2, <1>2
        <5> QED
          BY <5>2, <5>3, <2>5
      <4> QED
        BY <4>1, <4>2, <1>2
    <3>8. \A j, k \in 1..(n + m) : j < k => EntrySequence(entries'[j]) <= EntrySequence(entries'[k])
      <4> SUFFICES ASSUME NEW j \in 1..(n + m), NEW k \in 1..(n + m), j < k
                   PROVE  EntrySequence(entries'[j]) <= EntrySequence(entries'[k])
        OBVIOUS
      <4>1. CASE k \in 1..n
        <5>1. j \in 1..n
          BY <4>1, <1>2
        <5>2. EntrySequence(entries[j]) <= EntrySequence(entries[k])
          BY <4>1, <5>1, <2>8 DEF RecordInv, EntriesSorted
        <5>3. /\ EntrySequence(entries'[j]) = EntrySequence(entries[j])
              /\ EntrySequence(entries'[k]) = EntrySequence(entries[k])
          BY <4>1, <5>1, <3>4
        <5> QED
          BY <4>1, <5>1, <5>2, <5>3, <3>1
      <4>2. CASE j \in 1..n /\ k \in (n + 1)..(n + m)
        <5>1. k - n \in 1..m /\ k = n + (k - n)
          BY <4>2, <3>6
        <5>2. /\ EntrySequence(entries'[j]) = EntrySequence(entries[j])
              /\ EntrySequence(entries[j]) \in Nat
              /\ EntrySequence(entries[j]) <= head + 1
          BY <4>2, <3>1, <3>4
        <5>3. /\ EntrySequence(entries'[k]) = fresh[k - n].sequence
              /\ fresh[k - n].sequence >= head + 1
          BY <5>1, <3>2, <3>5
        <5>4. fresh[k - n].sequence \in Int /\ head \in Int
          BY <5>1, <2>2 DEF RecordInv, RecordTypes
        <5> QED
          BY <5>2, <5>3, <5>4
      <4>3. CASE j \in (n + 1)..(n + m) /\ k \in (n + 1)..(n + m)
        <5>1. /\ j - n \in 1..m /\ j = n + (j - n)
              /\ k - n \in 1..m /\ k = n + (k - n)
          BY <4>3, <3>6
        <5>2. j - n < k - n
          BY <1>2
        <5>3. fresh[j - n].sequence <= fresh[k - n].sequence
          BY <5>1, <5>2, <3>3
        <5> QED
          BY <5>1, <5>3, <3>5
      <4> QED
        BY <4>1, <4>2, <4>3, <1>2
    <3> QED
      BY <3>7, <3>8, <2>8 DEF EntriesSorted
  <2> QED
    BY <2>9, <2>10, <2>11, <2>12 DEF RecordInv
<1> QED
  BY <1>3, <1>4

LEMMA RecordStep == RecordInv /\ [Next]_vars => RecordInv'
<1> SUFFICES ASSUME RecordInv, [Next]_vars PROVE RecordInv'
  OBVIOUS
<1>1. CASE UNCHANGED <<recordVars, saved>>
  BY <1>1, RecordUnchanged DEF RecordInv, RecordTypes
<1>2. ASSUME NEW i \in DOMAIN issued, NEW c \in Checkpoints, SaveFenced(i, c)
      PROVE  RecordInv'
  BY <1>2, RecordUnchanged DEF SaveFenced
<1>3. ASSUME NEW c \in Checkpoints, SaveUnfenced(c) PROVE RecordInv'
  BY <1>3, RecordUnchanged DEF SaveUnfenced
<1>4. ASSUME NEW i \in DOMAIN issued, NEW batch \in Batches, AppendTicks(i, batch)
      PROVE  RecordInv'
  <2>1. batch \in Seq(Tick)
    BY BoundAssumption DEF Batches
  <2> QED
    BY <1>4, <2>1, AppendStep
<1>5. ASSUME NEW i \in DOMAIN issued, NEW seam \in SeamMarker, RecordSeam(i, seam)
      PROVE  RecordInv'
  BY <1>5, SeamStep
<1> QED
  BY <1>1, <1>2, <1>3, <1>4, <1>5
     DEF Next, ClockMoves, Inspect, Acquire, Renew, Release, FenceRefuses, vars

\* head, expectNext and the entries agree, in every reachable state.
THEOREM RecordConsistent == Spec => []RecordInv
BY RecordInit, RecordStep, PTL DEF Spec

\* Every variable has its type: see TypeOK.
THEOREM TypeCorrect == Spec => []TypeOK
<1>1. LeaseInv /\ RecordInv => TypeOK
  BY DEF LeaseInv, LeaseTypes, RecordInv, RecordTypes, TypeOK, Entry
<1> QED
  BY <1>1, LeasesConsistent, RecordConsistent, PTL

\* The record reads as one market with declared breaks: see RecordIsContiguous.
THEOREM RecordReadsAsOneMarket == Spec => []RecordIsContiguous
<1>1. RecordInv => RecordIsContiguous
  BY DEF RecordInv
<1> QED
  BY <1>1, RecordConsistent, PTL

\* The binary search of replication.ts may assume what it needs: the entries
\* are ordered by sequence, seams included.
THEOREM RecordIsSorted == Spec => []EntriesSorted
<1>1. RecordInv => EntriesSorted
  BY DEF RecordInv
<1> QED
  BY <1>1, RecordConsistent, PTL

-----------------------------------------------------------------------------
(* The binary search of replication.ts                                     *)

\* A set of naturals has a least one.
LEMMA LeastNatural ==
  ASSUME NEW T, T \subseteq Nat, T # {}
  PROVE  \E x \in T : \A y \in T : x <= y
<1> DEFINE R == {ss \in Nat \X Nat : ss[1] < ss[2]}
<1>1. IsWellFoundedOn(R, Nat)
  BY NatLessThanWellFounded DEF OpToRel
<1>2. PICK x \in T : \A y \in T : ~(<<y, x>> \in R)
  <2> HIDE DEF R
  <2> QED BY <1>1, WFMin
<1>3. ASSUME NEW y \in T PROVE x <= y
  <2>1. x \in Nat /\ y \in Nat
    OBVIOUS
  <2>2. ~(<<y, x>> \in R)
    BY <1>2
  <2> QED BY <2>1, <2>2
<1> QED BY <1>3

\* Induction, of a set.
LEMMA Induction ==
  ASSUME NEW T, 0 \in T, \A n \in Nat : n \in T => n + 1 \in T
  PROVE  Nat \subseteq T
<1> SUFFICES ASSUME Nat \ T # {} PROVE FALSE
  OBVIOUS
<1>1. PICK m \in Nat \ T : \A y \in Nat \ T : m <= y
  BY LeastNatural
<1>2. m - 1 \in Nat /\ m - 1 \in T
  BY <1>1
<1> QED BY <1>1, <1>2

\* The halves of a window lie in it and are narrower.
LEMMA Halves ==
  ASSUME NEW N \in Nat, NEW low \in 0..N, NEW high \in 0..N, low < high,
         NEW m, m = (low + high) \div 2
  PROVE  m \in 0..N /\ m + 1 \in 0..N /\ low <= m /\ m < high
OBVIOUS

\* The search LowerBound defines is a function: each window's value is that of a
\* narrower one.
LEMMA SearchEnds ==
  ASSUME NEW es, NEW s, NEW N \in Nat, N = Len(es)
  PROVE  \E g : g = [w \in Windows(es) |->
            IF w.low >= w.high THEN w.low
            ELSE LET middle == (w.low + w.high) \div 2 IN
                 IF EntrySequence(es[middle + 1]) < s
                   THEN g[[low |-> middle + 1, high |-> w.high]]
                   ELSE g[[low |-> w.low, high |-> middle]]]
<1> DEFINE W == [low : 0..N, high : 0..N]
           Low(w, m)  == [low |-> w.low, high |-> m]
           High(w, m) == [low |-> m + 1, high |-> w.high]
           Half(w) == (w.low + w.high) \div 2
           Body(g, w) == IF w.low >= w.high THEN w.low
                         ELSE IF EntrySequence(es[Half(w) + 1]) < s
                              THEN g[High(w, Half(w))] ELSE g[Low(w, Half(w))]
           T == {d \in Nat : \E g \in [W -> Int] :
                   \A w \in W : w.high - w.low <= d => g[w] = Body(g, w)}
<1>0. W = Windows(es)
  BY DEF Windows
<1>h. ASSUME NEW w \in W, ~(w.low >= w.high)
      PROVE  /\ Low(w, Half(w)) \in W /\ High(w, Half(w)) \in W
             /\ Low(w, Half(w)).high - Low(w, Half(w)).low < w.high - w.low
             /\ High(w, Half(w)).high - High(w, Half(w)).low < w.high - w.low
  <2>1. PICK l \in 0..N, h \in 0..N : w = [low |-> l, high |-> h]
    OBVIOUS
  <2>2. PICK m \in 0..N : m = (l + h) \div 2 /\ m + 1 \in 0..N /\ l <= m /\ m < h
    BY <1>h, <2>1, Halves
  <2>3. Low(w, Half(w)) = [low |-> l, high |-> m] /\ High(w, Half(w)) = [low |-> m + 1, high |-> h]
    BY <2>1, <2>2
  <2> QED BY <2>1, <2>2, <2>3
<1>1. 0 \in T
  <2> DEFINE g == [w \in W |-> w.low]
  <2>1. g \in [W -> Int]
    OBVIOUS
  <2>2. ASSUME NEW w \in W, w.high - w.low <= 0 PROVE g[w] = Body(g, w)
    <3>1. w.low >= w.high
      BY <2>2
    <3> QED BY <3>1
  <2> HIDE DEF g, Body, W
  <2> QED BY <2>1, <2>2
<1>2. ASSUME NEW d \in Nat, d \in T PROVE d + 1 \in T
  <2>1. PICK g \in [W -> Int] : \A w \in W : w.high - w.low <= d => g[w] = Body(g, w)
    BY <1>2
  <2> DEFINE h == [w \in W |-> IF w.high - w.low <= d THEN g[w] ELSE Body(g, w)]
  <2>2. ASSUME NEW w \in W PROVE Body(g, w) \in Int
    <3>1. CASE w.low >= w.high
      BY <3>1
    <3>2. CASE ~(w.low >= w.high)
      <4>1. g[Low(w, Half(w))] \in Int /\ g[High(w, Half(w))] \in Int
        <5> HIDE DEF W, Low, High, Half
        <5> QED BY <1>h, <3>2
      <4> HIDE DEF W, Low, High, Half
      <4> QED BY <3>2, <4>1
    <3> QED BY <3>1, <3>2
  <2>3. h \in [W -> Int]
    <3> HIDE DEF W, Body
    <3> QED BY <2>2
  <2>4. ASSUME NEW w \in W, w.high - w.low <= d + 1 PROVE h[w] = Body(h, w)
    <3>0. h[w] = Body(g, w)
      <4> HIDE DEF W, Body
      <4> QED BY <2>1
    <3>1. CASE w.low >= w.high
      BY <3>0, <3>1
    <3>2. CASE ~(w.low >= w.high)
      <4> DEFINE lo == Low(w, Half(w))
                 hi == High(w, Half(w))
      <4>1. lo \in W /\ hi \in W /\ lo.high - lo.low < w.high - w.low /\ hi.high - hi.low < w.high - w.low
        <5> HIDE DEF W, Low, High, Half
        <5> QED BY <1>h, <3>2
      <4>2. w.high \in Int /\ w.low \in Int /\ lo.high \in Int /\ lo.low \in Int /\ hi.high \in Int /\ hi.low \in Int
        <5> HIDE DEF lo, hi
        <5> QED BY <4>1
      <4>3. lo.high - lo.low <= d /\ hi.high - hi.low <= d
        <5> HIDE DEF lo, hi
        <5> QED BY <4>1, <4>2, <2>4
      <4>4. h[lo] = g[lo] /\ h[hi] = g[hi]
        <5> HIDE DEF lo, hi, W, Body
        <5> QED BY <4>1, <4>3
      <4> HIDE DEF h, W, Low, High, Half
      <4> QED BY <3>0, <3>2, <4>4
    <3> QED BY <3>1, <3>2
  <2> HIDE DEF h, Body, W
  <2> QED BY <2>3, <2>4
<1>3. N \in T
  <2> HIDE DEF T
  <2> QED BY <1>1, <1>2, Induction
<1>4. PICK g \in [W -> Int] : \A w \in W : w.high - w.low <= N => g[w] = Body(g, w)
  BY <1>3
<1>5. \A w \in W : w.high - w.low <= N
  OBVIOUS
<1>6. g = [w \in W |-> Body(g, w)]
  <2> HIDE DEF W, Body
  <2> QED BY <1>4, <1>5
<1> QED BY <1>0, <1>6

\* What the search returns splits a record whose entries are in order: those
\* before s, and the rest.
LEMMA SearchSplits ==
  ASSUME NEW es, NEW N \in Nat, N = Len(es), NEW s \in Int,
         \A k \in 1..N : EntrySequence(es[k]) \in Int,
         \A j, k \in 1..N : j < k => EntrySequence(es[j]) <= EntrySequence(es[k])
  PROVE  /\ LowerBound(es, s) \in 0..N
         /\ \A k \in 1..N : EntrySequence(es[k]) < s <=> k <= LowerBound(es, s)
<1> DEFINE W == Windows(es)
           f == CHOOSE g : g = [w \in W |->
                  IF w.low >= w.high THEN w.low
                  ELSE LET middle == (w.low + w.high) \div 2 IN
                       IF EntrySequence(es[middle + 1]) < s
                         THEN g[[low |-> middle + 1, high |-> w.high]]
                         ELSE g[[low |-> w.low, high |-> middle]]]
           before(k) == EntrySequence(es[k]) < s
           P == {k \in 0..N : k = N \/ ~before(k + 1)}
<1>1. f = [w \in W |->
             IF w.low >= w.high THEN w.low
             ELSE LET middle == (w.low + w.high) \div 2 IN
                  IF EntrySequence(es[middle + 1]) < s
                    THEN f[[low |-> middle + 1, high |-> w.high]]
                    ELSE f[[low |-> w.low, high |-> middle]]]
  BY SearchEnds, Zenon
<1>2. LowerBound(es, s) = f[[low |-> 0, high |-> Len(es)]]
  BY DEF LowerBound
<1>3. PICK p \in P : \A k \in P : p <= k
  <2>1. N \in P /\ P \subseteq Nat
    OBVIOUS
  <2> HIDE DEF P
  <2> QED BY <2>1, LeastNatural
<1>4. ASSUME NEW k \in 1..N PROVE before(k) <=> k <= p
  <2>1. CASE k <= p
    <3>1. PICK c \in 0..N : c = k - 1 /\ c + 1 = k /\ c < N /\ c < p
      BY <1>3, <2>1
    <3>2. c \notin P
      <4> HIDE DEF P
      <4>1. p \in Int /\ \A d \in P : p <= d
        BY <1>3 DEF P
      <4> QED BY <3>1, <4>1
    <3> QED BY <3>1, <3>2
  <2>2. CASE k > p
    <3>1. p + 1 \in 1..N /\ ~before(p + 1)
      BY <1>3, <2>2
    <3> QED BY <3>1, <2>2
  <2> QED BY <1>3, <2>1, <2>2
<1>5. ASSUME NEW low \in 0..N, NEW high \in 0..N, NEW m \in 0..N, m = (low + high) \div 2
      PROVE  f[[low |-> low, high |-> high]] =
               IF low >= high THEN low
               ELSE IF before(m + 1) THEN f[[low |-> m + 1, high |-> high]]
                                     ELSE f[[low |-> low, high |-> m]]
  <2>1. PICK w \in W : w = [low |-> low, high |-> high]
    BY DEF Windows
  <2>2. w.low = low /\ w.high = high
    BY <2>1
  <2> HIDE DEF f, W
  <2> QED BY <1>1, <1>5, <2>1, <2>2
<1> DEFINE Finds(low, high) == f[[low |-> low, high |-> high]] = p
           T == {d \in Nat : \E low, high \in 0..N :
                   d = high - low /\ low <= p /\ p <= high /\ ~Finds(low, high)}
<1> HIDE DEF f, W, before
<1>6. T = {}
  <2>1. SUFFICES ASSUME T # {} PROVE FALSE
    OBVIOUS
  <2>2. PICK d \in T : \A c \in T : d <= c
    <3> T \subseteq Nat
      OBVIOUS
    <3> HIDE DEF T
    <3> QED BY <2>1, LeastNatural
  <2>3. PICK low \in 0..N, high \in 0..N : d = high - low /\ low <= p /\ p <= high /\ ~Finds(low, high)
    BY <2>2
  <2>4. ASSUME NEW l \in 0..N, NEW h \in 0..N, l <= p, p <= h, h - l < d PROVE Finds(l, h)
    <3>1. PICK c \in Nat : c = h - l /\ c < d
      BY <1>3, <2>4
    <3>2. c \notin T
      <4> HIDE DEF T
      <4>1. d \in Nat
        BY DEF T
      <4> QED BY <2>2, <3>1, <4>1
    <3> QED BY <2>4, <3>1, <3>2
  <2>5. CASE low >= high
    <3>1. low = p
      BY <1>3, <2>3, <2>5
    <3>2. PICK m \in 0..N : m = (low + high) \div 2
      OBVIOUS
    <3>3. f[[low |-> low, high |-> high]] = low
      BY <1>5, <2>5, <3>2
    <3> QED BY <2>3, <3>1, <3>3
  <2>6. CASE low < high
    <3>1. PICK m \in 0..N : m = (low + high) \div 2 /\ m + 1 \in 1..N /\ low <= m /\ m < high
      BY <2>6, Halves
    <3>4. f[[low |-> low, high |-> high]] = IF before(m + 1) THEN f[[low |-> m + 1, high |-> high]]
                                                             ELSE f[[low |-> low, high |-> m]]
      <4>1. ~(low >= high)
        BY <2>6
      <4>2. \A mid \in 0..N : mid = (low + high) \div 2 =>
              f[[low |-> low, high |-> high]] =
                IF low >= high THEN low
                ELSE IF before(mid + 1) THEN f[[low |-> mid + 1, high |-> high]]
                                        ELSE f[[low |-> low, high |-> mid]]
        BY <1>5
      <4> QED BY <3>1, <4>1, <4>2, Zenon
    <3>2. CASE before(m + 1)
      <4>1. m + 1 <= p
        BY <1>4, <3>1, <3>2
      <4>2. Finds(m + 1, high)
        BY <2>3, <2>4, <3>1, <4>1
      <4>3. f[[low |-> low, high |-> high]] = f[[low |-> m + 1, high |-> high]]
        BY <3>2, <3>4, Zenon
      <4> QED BY <2>3, <4>2, <4>3
    <3>3. CASE ~before(m + 1)
      <4>1. p <= m
        BY <1>3, <1>4, <3>1, <3>3
      <4>2. Finds(low, m)
        BY <2>3, <2>4, <3>1, <4>1
      <4>3. f[[low |-> low, high |-> high]] = f[[low |-> low, high |-> m]]
        BY <3>3, <3>4, Zenon
      <4> QED BY <2>3, <4>2, <4>3
    <3> QED BY <3>2, <3>3
  <2> QED BY <2>3, <2>5, <2>6
<1>7. Finds(0, N)
  <2>1. N = N - 0 /\ 0 \in 0..N /\ N \in 0..N /\ 0 <= p /\ p <= N
    BY <1>3
  <2>2. N \notin T
    <3> HIDE DEF T
    <3> QED BY <1>6
  <2> QED BY <2>1, <2>2
<1>8. LowerBound(es, s) = p
  BY <1>2, <1>7
<1> QED BY <1>3, <1>4, <1>8 DEF before

\* So it returns how many there are before s.
LEMMA SearchCounts ==
  ASSUME NEW es, NEW N \in Nat, N = Len(es), DOMAIN es = 1..N, NEW s \in Int,
         \A k \in 1..N : EntrySequence(es[k]) \in Int,
         \A j, k \in 1..N : j < k => EntrySequence(es[j]) <= EntrySequence(es[k])
  PROVE  LowerBound(es, s) = Cardinality({k \in DOMAIN es : EntrySequence(es[k]) < s})
<1>1. PICK p \in 0..N : p = LowerBound(es, s) /\ \A k \in 1..N : EntrySequence(es[k]) < s <=> k <= p
  BY SearchSplits
<1>2. {k \in DOMAIN es : EntrySequence(es[k]) < s} = 1..p
  BY <1>1
<1>3. Cardinality(1..p) = p
  BY FS_Interval
<1> QED BY <1>1, <1>2, <1>3

\* A read misses nothing and repeats nothing: the search finds exactly the
\* entries at or after the sequence asked for (replication.ts 202-211), whatever
\* appends, replays and seams made the record.
THEOREM ReadsMissNothing == Spec => []ReadsAreComplete
<1>1. RecordInv => ReadsAreComplete
  <2>1. SUFFICES ASSUME RecordInv, NEW s \in 1..(MaxSequence + 1)
                 PROVE  LowerBound(entries, s) =
                          Cardinality({k \in DOMAIN entries : EntrySequence(entries[k]) < s})
    BY DEF ReadsAreComplete
  <2>2. entries \in Seq(Entry) /\ EntriesSorted
    BY <2>1 DEF RecordInv, RecordTypes
  <2>3. PICK n \in Nat : n = Len(entries) /\ DOMAIN entries = 1..n
    BY <2>2
  <2>4. \A k \in 1..n : EntrySequence(entries[k]) \in Int
    <3>1. SUFFICES ASSUME NEW k \in 1..n PROVE EntrySequence(entries[k]) \in Int
      OBVIOUS
    <3>2. entries[k] \in Entry
      BY <2>2, <2>3
    <3>3. EntrySequence(entries[k]) \in 1..(MaxSequence + 1)
      BY <3>2, EntryFacts
    <3> QED BY <3>3, BoundAssumption
  <2>5. \A j, k \in 1..n : j < k => EntrySequence(entries[j]) <= EntrySequence(entries[k])
    BY <2>2, <2>3 DEF EntriesSorted
  <2>6. s \in Int
    BY BoundAssumption
  <2> QED BY <2>3, <2>4, <2>5, <2>6, SearchCounts
<1> QED BY <1>1, RecordConsistent, PTL

=============================================================================
