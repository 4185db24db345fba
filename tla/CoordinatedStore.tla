-------------------------- MODULE CoordinatedStore --------------------------
(***************************************************************************)
(* The store that grants leadership of one asset and takes its published   *)
(* record and its checkpoint, every write checked against the grant in the *)
(* same critical section: MemoryCoordinatedStore of                        *)
(* packages/runtime/src/lease.ts and SqliteCoordinatedStore of             *)
(* packages/runtime/src/sqliteStore.ts, over the entry helpers of          *)
(* packages/runtime/src/replication.ts.                                    *)
(*                                                                         *)
(* In memory a method reads and writes without an await, in SQLite inside  *)
(* one immediate transaction, so each is one action.                       *)
(* The store keeps one such state per asset and no method touches two, so  *)
(* the module is about one asset.  A client may present any grant it was   *)
(* ever issued, at any time: that is what a stranded leader does.  The     *)
(* store's clock is whatever the host gives it, and may even step back.    *)
(***************************************************************************)
EXTENDS Replication, FiniteSets

CONSTANTS
  Holders,        \* the processes that ask for leadership
  Values,         \* what a tick says: its price and its instant
  SeamNotes,      \* what a seam says besides its sequences: instants, reason
  Checkpoints,    \* the market states a checkpoint may hold
  NoGrant,        \* no entry in the grant table
  NoCheckpoint,   \* nothing saved yet
  TermMs,         \* DEFAULT_LEASE_TERM_MS, in units of the model's clock
  MaxTime,        \* bound: the largest reading of the store's clock
  MaxToken,       \* bound: grants issued in a behaviour
  MaxSequence,    \* bound: the largest tick sequence offered
  MaxEntries,     \* bound: entries in the record
  MaxBatch        \* bound: ticks in one append

ASSUME TermAssumption == TermMs \in Nat \ {0}
ASSUME BoundAssumption ==
  /\ MaxTime \in Nat
  /\ MaxToken \in Nat
  /\ MaxSequence \in Nat
  /\ MaxEntries \in Nat
  /\ MaxBatch \in Nat

VARIABLES
  now,         \* the store's clock
  grant,       \* #grants: the stored grant, expired or not, or NoGrant
  highWater,   \* #highWater: the highest token ever issued, 0 for none
  entries,     \* RecordState.entries
  head,        \* RecordState.head, 0 for null
  expectNext,  \* RecordState.expectNext, 0 for null
  saved,       \* #records: the checkpoint, or NoCheckpoint
  issued,      \* history: every grant handed out, oldest first
  author       \* history: which of them made the last accepted write, 0 none

leaseVars  == <<grant, highWater, issued>>
recordVars == <<entries, head, expectNext>>
vars       == <<now, leaseVars, recordVars, saved, author>>

-----------------------------------------------------------------------------
(* Types *)

TickSequence == 1..MaxSequence
Tick       == [sequence : TickSequence, value : Values]
SeamMarker == [lastSequence : 0..MaxSequence, resumesAt : TickSequence, says : SeamNotes]
TickEntry  == [kind : {"tick"}, tick : Tick]
SeamEntry  == [kind : {"seam"}, seam : SeamMarker]
LeaseGrant == [holder : Holders, token : Nat]
StoredGrant == [holder : Holders, token : Nat, expiresAt : Nat]

-----------------------------------------------------------------------------
(* Grants *)

\* #live: there is a grant and the store's clock has not reached its expiry.
Live == grant # NoGrant /\ now < grant.expiresAt

\* What reading through #live leaves in the table: an expired grant is dropped.
Swept == IF Live THEN grant ELSE NoGrant

\* The caller of the i-th grant holds the lease: same token, same holder.
Holds(i) == /\ Live
            /\ grant.token = issued[i].token
            /\ grant.holder = issued[i].holder

\* Mutant: a fence that asks no more than that somebody leads.
PassesWhileLed(i) == i \in DOMAIN issued /\ Live

\* #fenceRefusal returns null: the write's token is the live grant's.  The
\* holder is not part of the check.
Passes(i) == Live /\ grant.token = issued[i].token

\* Mutant: the token after the one in the table.
NextTokenInTable == IF grant = NoGrant THEN 1 ELSE grant.token + 1

NextToken == highWater + 1

-----------------------------------------------------------------------------
(* The record *)

\* A tick at or below the head must be the very tick recorded there.
Recorded(tick) == /\ tick.sequence <= head
                  /\ \E k \in DOMAIN entries : entries[k] = TickEntryOf(tick)

\* Mutant: consecutive ticks, wherever they start.
ContinuesAnywhere(fresh) ==
  \A k \in DOMAIN fresh : fresh[k].sequence > head /\ fresh[k].sequence = fresh[1].sequence + k - 1

\* Ticks above the head leave no gap, and the first fills the expected place.
Continues(fresh) ==
  \A k \in DOMAIN fresh :
    /\ fresh[k].sequence > head
    /\ fresh[k].sequence =
         (IF expectNext = 0 THEN fresh[1].sequence ELSE expectNext) + k - 1

\* A batch the record takes: a replayed part, possibly empty, then a fresh one.
Fresh(batch, replayed) == SubSeq(batch, replayed + 1, Len(batch))
Splits(batch, replayed) == /\ Ordered(batch)
                           /\ \A k \in 1..replayed : Recorded(batch[k])
                           /\ Continues(Fresh(batch, replayed))

Seamable(seam) == seam.lastSequence = head /\ seam.resumesAt >= 1 /\ seam.resumesAt > head

-----------------------------------------------------------------------------
(* Operations *)

Init ==
  /\ now = 0
  /\ grant = NoGrant
  /\ highWater = 0
  /\ entries = <<>>
  /\ head = 0
  /\ expectNext = 0
  /\ saved = NoCheckpoint
  /\ issued = <<>>
  /\ author = 0

\* The store's clock is read, never advanced, by the store.
ClockMoves ==
  /\ now' \in 0..MaxTime \ {now}
  /\ UNCHANGED <<leaseVars, recordVars, saved, author>>

\* acquire: a live grant declines the caller and changes nothing; otherwise
\* the token is above the high-water mark, whatever the table holds.
Acquire(h) ==
  /\ ~Live
  /\ highWater < MaxToken
  /\ highWater' = NextToken
  /\ grant' = [holder |-> h, token |-> NextToken, expiresAt |-> now + TermMs]
  /\ issued' = Append(issued, [holder |-> h, token |-> NextToken])
  /\ UNCHANGED <<now, recordVars, saved, author>>

\* renew: the token is kept and the term starts again; a grant that is not the
\* live one is told it is lost.
Renew(i) ==
  /\ grant' = IF Holds(i) THEN [grant EXCEPT !.expiresAt = now + TermMs] ELSE Swept
  /\ UNCHANGED <<now, highWater, issued, recordVars, saved, author>>

\* release: a no-op unless the grant is the live one.
Release(i) ==
  /\ grant' = IF Holds(i) THEN NoGrant ELSE Swept
  /\ UNCHANGED <<now, highWater, issued, recordVars, saved, author>>

\* inspect: only looks, but a look drops an expired grant.
Inspect ==
  /\ grant' = Swept
  /\ UNCHANGED <<now, highWater, issued, recordVars, saved, author>>

\* saveFenced
SaveFenced(i, checkpoint) ==
  /\ Passes(i)
  /\ saved' = checkpoint
  /\ author' = i
  /\ UNCHANGED <<now, leaseVars, recordVars>>

\* appendTicks, accepted: the fresh ticks enter the record, all of them.
AppendTicks(i, batch) ==
  /\ Passes(i)
  /\ \E replayed \in 0..Len(batch) :
       LET fresh == Fresh(batch, replayed) IN
       /\ Splits(batch, replayed)
       /\ Len(entries) + Len(fresh) <= MaxEntries
       /\ entries' = entries \o TickEntries(fresh)
       /\ head' = IF fresh = <<>> THEN head ELSE fresh[Len(fresh)].sequence
       /\ expectNext' = IF fresh = <<>> THEN expectNext
                                        ELSE fresh[Len(fresh)].sequence + 1
  /\ author' = i
  /\ UNCHANGED <<now, leaseVars, saved>>

\* recordSeam, accepted: the head stays, the next expected tick moves.
RecordSeam(i, seam) ==
  /\ Passes(i)
  /\ Seamable(seam)
  /\ Len(entries) < MaxEntries
  /\ entries' = Append(entries, SeamEntryOf(seam))
  /\ expectNext' = seam.resumesAt
  /\ author' = i
  /\ UNCHANGED <<now, leaseVars, head, saved>>

\* A fenced write that is refused changes nothing but an expired grant, which
\* is dropped from memory; SQLite's refusal rolls that back as well.
FenceRefuses(i) ==
  /\ ~Passes(i)
  /\ grant' \in {grant, Swept}
  /\ UNCHANGED <<now, highWater, issued, recordVars, saved, author>>

\* save: unfenced, for the paths that write before any lease exists.
SaveUnfenced(checkpoint) ==
  /\ issued = <<>>
  /\ saved' = checkpoint
  /\ UNCHANGED <<now, leaseVars, recordVars, author>>

Batches == UNION {[1..n -> Tick] : n \in 1..MaxBatch}

Next ==
  \/ ClockMoves
  \/ Inspect
  \/ \E h \in Holders : Acquire(h)
  \/ \E c \in Checkpoints : SaveUnfenced(c)
  \/ \E i \in DOMAIN issued :
       \/ Renew(i)
       \/ Release(i)
       \/ FenceRefuses(i)
       \/ \E c \in Checkpoints : SaveFenced(i, c)
       \/ \E batch \in Batches : AppendTicks(i, batch)
       \/ \E seam \in SeamMarker : RecordSeam(i, seam)

Spec == Init /\ [][Next]_vars

-----------------------------------------------------------------------------
(* Properties *)

\* Every variable has its type.
TypeOK ==
  /\ now \in Nat
  /\ grant \in StoredGrant \cup {NoGrant}
  /\ highWater \in Nat
  /\ entries \in Seq(TickEntry \cup SeamEntry)
  /\ head \in 0..MaxSequence
  /\ expectNext \in 0..(MaxSequence + 1)
  /\ saved \in Checkpoints \cup {NoCheckpoint}
  /\ issued \in Seq(LeaseGrant)
  /\ author \in 0..Len(issued)

\* Two writers never interleave: whatever is accepted is the write of the
\* newest grant ever issued.  A leader that lost its lease to expiry, release
\* or a successor cannot touch the record or the checkpoint again, although
\* the fence compares nothing but a number and the grant it was compared with
\* is deleted when it expires (lease.ts acquire, #fenceRefusal).
OnlyTheNewestGrantWrites ==
  [][recordVars' # recordVars \/ (saved' # saved /\ issued # <<>>)
       => author' = Len(issued)]_vars

\* A token names one grant for ever: released, expired and superseded grants
\* never see their number again (lease.ts 219-222).
TokensNeverReturn ==
  \A i, j \in DOMAIN issued : i < j => issued[i].token < issued[j].token

\* Entry k takes up where the entry before it leaves off.
FollowsPrevious(es, k) ==
  IF es[k].kind = "seam"
  THEN /\ es[k].seam.lastSequence = IF k = 1 THEN 0 ELSE HeadAfter(es[k - 1])
       /\ es[k].seam.resumesAt > es[k].seam.lastSequence
  ELSE k > 1 => es[k].tick.sequence = NextAfter(es[k - 1])

\* The record reads as one market with declared breaks: between neighbouring
\* entries the sequence goes up by one, or a seam says where it resumes and
\* names the tick before it (lease.ts appendTicks, recordSeam).
RecordIsContiguous == \A k \in DOMAIN entries : FollowsPrevious(entries, k)

\* The binary search every reader depends on finds exactly the entries at or
\* after the asked sequence, seams at equal sequences included
\* (replication.ts 202-211).
ReadsAreComplete ==
  \A s \in 1..(MaxSequence + 1) :
    LowerBound(entries, s) = Cardinality({k \in DOMAIN entries : EntrySequence(entries[k]) < s})

=============================================================================
