---------------------------- MODULE Replication -----------------------------
(***************************************************************************)
(* The published record of one asset as every node reads it: ticks, and    *)
(* the seams that declare where the market broke off.  The entry helpers   *)
(* of packages/runtime/src/replication.ts, without state.                  *)
(***************************************************************************)
EXTENDS Integers, Sequences

TickEntryOf(tick) == [kind |-> "tick", tick |-> tick]
SeamEntryOf(seam) == [kind |-> "seam", seam |-> seam]
TickEntries(ticks) == [k \in DOMAIN ticks |-> TickEntryOf(ticks[k])]

\* malformedBatch: one writer produces one ordered stream.
Ordered(batch) == \A i, j \in DOMAIN batch :
                    i < j => batch[i].sequence < batch[j].sequence

\* The head after entry e, and the sequence it makes the record expect next.
HeadAfter(e) == IF e.kind = "tick" THEN e.tick.sequence ELSE e.seam.lastSequence
NextAfter(e) == IF e.kind = "tick" THEN e.tick.sequence + 1 ELSE e.seam.resumesAt

\* Both over a whole record; 0 is null.
HeadOf(es) == IF es = <<>> THEN 0 ELSE HeadAfter(es[Len(es)])
NextOf(es) == IF es = <<>> THEN 0 ELSE NextAfter(es[Len(es)])

\* entrySequence: a seam sits just after the tick it follows.
EntrySequence(e) == IF e.kind = "tick" THEN e.tick.sequence
                                       ELSE e.seam.lastSequence + 1

\* What the search has still to look at: the entries from low on, below high.
Windows(es) == [low : 0..Len(es), high : 0..Len(es)]

\* Mutant: the search passes over the entries it is asked for.
UpperBound(es, s) ==
  LET search[w \in Windows(es)] ==
        IF w.low >= w.high THEN w.low
        ELSE LET middle == (w.low + w.high) \div 2 IN
             IF EntrySequence(es[middle + 1]) <= s
               THEN search[[low |-> middle + 1, high |-> w.high]]
               ELSE search[[low |-> w.low, high |-> middle]]
  IN search[[low |-> 0, high |-> Len(es)]]

\* lowerBound: how many entries a read from s skips, by binary search.
LowerBound(es, s) ==
  LET search[w \in Windows(es)] ==
        IF w.low >= w.high THEN w.low
        ELSE LET middle == (w.low + w.high) \div 2 IN
             IF EntrySequence(es[middle + 1]) < s
               THEN search[[low |-> middle + 1, high |-> w.high]]
               ELSE search[[low |-> w.low, high |-> middle]]
  IN search[[low |-> 0, high |-> Len(es)]]

\* slice: the entries after the first `from`, at most `limit` of them.
Slice(es, from, limit) ==
  SubSeq(es, from + 1, IF from + limit <= Len(es) THEN from + limit ELSE Len(es))

\* readRecord, for an s the record does not start after.
ReadRecord(es, s, limit) == Slice(es, LowerBound(es, s), limit)

=============================================================================
