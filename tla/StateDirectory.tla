--------------------------- MODULE StateDirectory ---------------------------
(***************************************************************************)
(* The files of one state directory across boots: the check made before    *)
(* the writer lock is taken (verifyStateDirectory of                       *)
(* packages/runtime/src/stateDirectory.ts, called by apps/api/src/main.ts), *)
(* the resume, the writes of a pass and of the checkpoint cadence, and the *)
(* backup, the restore and the power loss that can roll the files back.    *)
(*                                                                         *)
(* The directory holds one asset.  Who may write is WriterLock's; here the *)
(* lock admits one process, or, in a contended deployment, any, as in the  *)
(* window WriterLock leaves after an adoption.  A tick is its sequence and *)
(* the key epoch that drew its value.                                      *)
(***************************************************************************)
EXTENDS Naturals, FiniteSets, FiniteSetsExt

CONSTANTS
  Procs,          \* the services pointed at the directory, restarted for ever
  NoTick, NoCheckpoint, NoManifest,
  Worlds,         \* the deployments: what may happen besides kills and stops
  SequenceLease,  \* DEFAULT_SEQUENCE_LEASE
  MaxSequence,    \* bound: ticks generated
  MaxDepartures   \* bound: kills, stops, power losses and restores

ASSUME DirectoryAssumption ==
  /\ Worlds \subseteq SUBSET {"contended", "power", "restore"}
  /\ SequenceLease \in Nat \ {0}
  /\ MaxSequence \in Nat /\ MaxDepartures \in Nat

VARIABLES
  world,
  checkpoint, record, candles, manifest,   \* the files
  pc, seen, warned, market,                \* the processes
  epochs, departures,
  copy,        \* the backup being taken, or the last one taken
  served,      \* history: every tick a client was ever sent
  restored,    \* history: a backup was swapped in and nothing was written since
  outran       \* history: a rollback took back more than the files still reserve

files == <<checkpoint, record, candles, manifest>>
procs == <<pc, seen, warned, market>>
history == <<served, restored, outran>>
vars == <<world, files, procs, epochs, departures, copy, history>>

-----------------------------------------------------------------------------

Ticks == [sequence : 1..MaxSequence, epoch : Nat]
Plans == [last : Ticks \cup {NoTick}, next : Nat, epoch : Nat, leased : Nat, stale : BOOLEAN]
Checkpoints == Plans \cup {NoCheckpoint}

\* What null is not.
ASSUME NullAssumption == NoTick \notin Ticks /\ NoCheckpoint \notin Plans

Top(ticks) == Max({t.sequence : t \in ticks} \cup {0})
\* The last published sequence of a checkpoint; 0 is none.
Published(c) == IF c = NoCheckpoint \/ c.last = NoTick THEN 0 ELSE c.last.sequence
Heads(c, r, h) == [checkpoint |-> Published(c), record |-> Top(r), history |-> h]
NotSeen == Heads(NoCheckpoint, {}, 0)

\* Mutant: the checkpoint is not held against the record.
BehindHistory(heads, settled) == heads.record # 0 /\ heads.history > settled
\* The problems that refuse a boot: ticks the checkpoint published are not in
\* the record, or bars were folded from ticks it does not hold.  The record is
\* asked a second time before its history is accused.
Inconsistent(heads, settled) ==
  /\ heads.record # 0
  /\ \/ heads.record < heads.checkpoint
     \/ heads.history > settled

\* backupOrigin: the directory is what the manifest says the copy was.
Untouched(heads) == manifest = heads

Running    == {"idle", "publish", "save", "flush"}
Hosting(p) == pc[p] \in Running

Goto(p, where) == pc' = [pc EXCEPT ![p] = where]

NoMarket == [hosted |-> FALSE, last |-> NoTick, next |-> 0, epoch |-> 0, leased |-> 0,
             fed |-> 0, bars |-> 0]

Gone(p) ==
  /\ Goto(p, "down")
  /\ seen' = [seen EXCEPT ![p] = NotSeen]
  /\ warned' = warned \ {p}
  /\ market' = [market EXCEPT ![p] = NoMarket]

-----------------------------------------------------------------------------
(* The check of a boot, one read of a file a step *)

VerifyCheckpoint(p) ==
  /\ pc[p] = "down"
  /\ Goto(p, "record")
  /\ seen' = [seen EXCEPT ![p].checkpoint = Published(checkpoint)]
  /\ UNCHANGED <<world, files, warned, market, epochs, departures, copy, history>>

VerifyRecord(p) ==
  /\ pc[p] = "record"
  /\ Goto(p, "history")
  /\ seen' = [seen EXCEPT ![p].record = Top(record)]
  /\ UNCHANGED <<world, files, warned, market, epochs, departures, copy, history>>

\* stateRefusal ends the process; a backup nothing has run in is announced.
Verdict(p, heads, settled) ==
  /\ seen' = [seen EXCEPT ![p] = NotSeen]
  /\ IF Inconsistent(heads, settled)
     THEN Goto(p, "refused") /\ UNCHANGED warned
     ELSE /\ Goto(p, "claim")
          /\ warned' = IF Untouched(heads) THEN warned \cup {p} ELSE warned

\* Mutant: the history is held against the record read before it.
VerifyHistoryAtOnce(p) ==
  /\ pc[p] = "history"
  /\ LET heads == [seen[p] EXCEPT !.history = candles] IN Verdict(p, heads, heads.record)
  /\ UNCHANGED <<world, files, market, epochs, departures, copy, history>>
VerifyHistory(p) ==
  /\ pc[p] = "history"
  /\ LET heads == [seen[p] EXCEPT !.history = candles] IN
       IF heads.record # 0 /\ heads.history > heads.record
       THEN Goto(p, "again") /\ seen' = [seen EXCEPT ![p] = heads] /\ UNCHANGED warned
       ELSE Verdict(p, heads, heads.record)
  /\ UNCHANGED <<world, files, market, epochs, departures, copy, history>>

VerifyAgain(p) ==
  /\ pc[p] = "again"
  /\ Verdict(p, seen[p], Top(record))
  /\ UNCHANGED <<world, files, market, epochs, departures, copy, history>>

GivesUp(p) ==
  /\ pc[p] = "refused"
  /\ Gone(p)
  /\ UNCHANGED <<world, files, epochs, departures, copy, history>>

\* The writer lock: refused while another process holds it.
Claim(p) ==
  /\ pc[p] = "claim"
  /\ IF "contended" \in world \/ \A q \in Procs : pc[q] \notin Running \cup {"start"}
     THEN Goto(p, "start") /\ UNCHANGED <<seen, warned, market>>
     ELSE Gone(p)
  /\ UNCHANGED <<world, files, epochs, departures, copy, history>>

-----------------------------------------------------------------------------
(* VenueService.start: resume the checkpoint, or seam past it *)

\* A checkpoint is resumed unless it is stale, or its pending tick does not
\* follow its last one: that of a market that had not published since its seam.
Resumable ==
  /\ checkpoint # NoCheckpoint
  /\ ~checkpoint.stale
  /\ checkpoint.next = Published(checkpoint) + 1

Newest(r) == IF r = {} THEN NoTick ELSE CHOOSE t \in r : t.sequence = Top(r)

\* Where a seam resumes: past all that the checkpoint and the record are known
\* to have reached, and past all a checkpoint interval may have published since.
Reserved(c, r) ==
  CASE c = NoCheckpoint -> IF r = {} THEN 0 ELSE Top(r) + SequenceLease
    [] c # NoCheckpoint -> IF c.last = NoTick THEN 0
                           ELSE Max({c.leased, Top(r) + SequenceLease, Published(c) + SequenceLease})

Resume(p) ==
  /\ pc[p] = "start"
  /\ Resumable
  /\ Goto(p, "idle")
  /\ market' = [market EXCEPT ![p] =
       [hosted |-> TRUE, last |-> checkpoint.last, next |-> checkpoint.next,
        epoch |-> checkpoint.epoch, leased |-> checkpoint.leased,
        fed |-> Top(record), bars |-> Top(record)]]
  /\ UNCHANGED <<world, files, seen, warned, epochs, departures, copy, history>>

Opened(p, known) ==
  /\ Goto(p, "idle")
  /\ epochs' = epochs + 1
  /\ market' = [market EXCEPT ![p] =
       [hosted |-> TRUE,
        last |-> IF checkpoint # NoCheckpoint THEN checkpoint.last ELSE Newest(record),
        next |-> known + 1, epoch |-> epochs + 1, leased |-> known + SequenceLease,
        fed |-> known, bars |-> Top(record)]]
  /\ UNCHANGED <<seen, warned>>

\* A seam behind the record is refused by the feed, and fails the boot.
Seam(p) ==
  /\ pc[p] = "start"
  /\ ~Resumable
  /\ LET known == Reserved(checkpoint, record) IN
       IF known < Top(record) THEN Gone(p) /\ UNCHANGED epochs ELSE Opened(p, known)
  /\ UNCHANGED <<world, files, departures, copy, history>>

-----------------------------------------------------------------------------
(* The writer *)

\* Mutant: whatever is offered is taken.
AcceptsAny(tick) == TRUE
\* append: a tick at or below the head must be the one recorded there.
Accepts(tick) == tick \in record \/ tick.sequence > Top(record)

\* A due tick is offered to the record first; a market it refuses is unhosted.
\* The lease outlasts the ticks of a checkpoint interval.
Append(p) ==
  LET m    == market[p]
      tick == [sequence |-> m.next, epoch |-> m.epoch]
  IN /\ pc[p] = "idle"
     /\ m.hosted
     /\ m.next <= MaxSequence /\ m.next <= m.leased
     /\ IF Accepts(tick)
        THEN /\ record' = record \cup {tick}
             /\ restored' = (restored /\ tick \in record)
             /\ Goto(p, IF tick \in record THEN "idle" ELSE "publish")
             /\ market' = [market EXCEPT ![p].last = tick, ![p].next = @ + 1]
        ELSE /\ market' = [market EXCEPT ![p].hosted = FALSE]
             /\ UNCHANGED <<record, restored, pc>>
  /\ UNCHANGED <<world, checkpoint, candles, manifest, seen, warned, epochs, departures, copy,
                 served, outran>>

\* What the record found new goes to the feed and the candles; a feed whose
\* window it does not continue refuses it, and the market is unhosted.
Publish(p) ==
  LET m         == market[p]
      offerable == m.fed = 0 \/ m.last.sequence = m.fed + 1
  IN /\ pc[p] = "publish"
     /\ Goto(p, "idle")
     /\ IF offerable
        THEN /\ served' = served \cup {m.last}
             /\ market' = [market EXCEPT ![p].fed = m.last.sequence, ![p].bars = m.last.sequence]
        ELSE market' = [market EXCEPT ![p].hosted = FALSE] /\ UNCHANGED served
     /\ UNCHANGED <<world, files, seen, warned, epochs, departures, copy, restored, outran>>

\* The cadence comes due: the checkpoint of a hosted market is on its way.
CheckpointDue(p) ==
  /\ pc[p] = "idle"
  /\ Goto(p, "save")
  /\ UNCHANGED <<world, files, seen, warned, market, epochs, departures, copy, history>>

Save(p) ==
  LET m == market[p]
      plan == [last |-> m.last, next |-> m.next, epoch |-> m.epoch,
               leased |-> m.next + SequenceLease, stale |-> FALSE]
  IN /\ pc[p] = "save"
     /\ Goto(p, "flush")
     /\ IF m.hosted
        THEN /\ checkpoint' = plan
             /\ market' = [market EXCEPT ![p].leased = plan.leased]
             /\ restored' = FALSE
        ELSE UNCHANGED <<checkpoint, market, restored>>
     /\ UNCHANGED <<world, record, candles, manifest, seen, warned, epochs, departures, copy,
                    served, outran>>

\* The bars that closed: those of the ticks before the newest.
Flush(p) ==
  /\ pc[p] = "flush"
  /\ Goto(p, "idle")
  /\ candles' = Max({candles, market[p].bars - 1})
  /\ restored' = (restored /\ candles' = candles)
  /\ UNCHANGED <<world, checkpoint, record, manifest, seen, warned, market, epochs, departures,
                 copy, served, outran>>

-----------------------------------------------------------------------------
(* backupStateDirectory, one file a step, while the venue may be running *)

NoCopy == [stage |-> "none", checkpoint |-> NoCheckpoint, record |-> {}, candles |-> 0,
           manifest |-> NoManifest]

BackupCheckpoint ==
  /\ copy.stage = "none"
  /\ "restore" \in world
  /\ copy' = [copy EXCEPT !.stage = "history", !.checkpoint = checkpoint]
  /\ UNCHANGED <<world, files, procs, epochs, departures, history>>

BackupDatabase ==
  /\ copy.stage \in {"history", "record"}
  /\ copy' = IF copy.stage = "history"
             THEN [copy EXCEPT !.stage = "record", !.candles = candles]
             ELSE [copy EXCEPT !.stage = "manifest", !.record = record]
  /\ UNCHANGED <<world, files, procs, epochs, departures, history>>

\* Mutant: the manifest describes the directory that was copied.
ManifestOfSource ==
  /\ copy.stage = "manifest"
  /\ copy' = [copy EXCEPT !.stage = "done", !.manifest = Heads(checkpoint, record, candles)]
  /\ UNCHANGED <<world, files, procs, epochs, departures, history>>
\* The manifest describes the copy.
BackupManifest ==
  /\ copy.stage = "manifest"
  /\ copy' = [copy EXCEPT !.stage = "done",
                          !.manifest = Heads(copy.checkpoint, copy.record, copy.candles)]
  /\ UNCHANGED <<world, files, procs, epochs, departures, history>>

-----------------------------------------------------------------------------
(* The world *)

Departs == departures < MaxDepartures /\ departures' = departures + 1

\* History: what the files no longer hold is reserved by them, on an epoch that
\* is not the one to be resumed, or it is not.
RolledBack(c, r) ==
  outran' = (outran \/ \E t \in served \ r :
    \/ t.sequence > Reserved(c, r)
    \/ c # NoCheckpoint /\ ~c.stale /\ t.epoch # c.epoch)

\* A restore: the copy is swapped in, with the service stopped.
Restore ==
  /\ copy.stage = "done"
  /\ \A p \in Procs : pc[p] = "down"
  /\ Departs
  /\ checkpoint' = copy.checkpoint
  /\ record' = copy.record
  /\ candles' = copy.candles
  /\ manifest' = copy.manifest
  /\ RolledBack(copy.checkpoint, copy.record)
  /\ restored' = TRUE
  /\ UNCHANGED <<world, procs, epochs, copy, served>>

Kill(p) ==
  /\ pc[p] # "down"
  /\ Departs
  /\ Gone(p)
  /\ UNCHANGED <<world, files, epochs, copy, history>>

\* The record is written with synchronous = NORMAL: its newest commits may go.
PowerLoss ==
  /\ "power" \in world
  /\ Departs
  /\ \E kept \in 0..Top(record) : record' = {t \in record : t.sequence <= kept}
  /\ RolledBack(checkpoint, record')
  /\ pc' = [p \in Procs |-> "down"]
  /\ seen' = [p \in Procs |-> NotSeen]
  /\ warned' = {}
  /\ market' = [p \in Procs |-> NoMarket]
  /\ UNCHANGED <<world, checkpoint, candles, manifest, epochs, copy, served, restored>>

\* A checkpoint, and an older one in a copy, passes the catch-up bound.
GoesStale ==
  /\ checkpoint # NoCheckpoint
  /\ checkpoint' = [checkpoint EXCEPT !.stale = TRUE]
  /\ copy' = IF copy.checkpoint = NoCheckpoint THEN copy
             ELSE [copy EXCEPT !.checkpoint.stale = TRUE]
  /\ UNCHANGED <<world, record, candles, manifest, procs, epochs, departures, history>>

Init ==
  /\ world \in Worlds
  /\ checkpoint = NoCheckpoint /\ record = {} /\ candles = 0 /\ manifest = NoManifest
  /\ pc = [p \in Procs |-> "down"]
  /\ seen = [p \in Procs |-> NotSeen]
  /\ warned = {}
  /\ market = [p \in Procs |-> NoMarket]
  /\ epochs = 0 /\ departures = 0
  /\ copy = NoCopy
  /\ served = {}
  /\ restored = FALSE /\ outran = FALSE

Verify(p) == VerifyCheckpoint(p) \/ VerifyRecord(p) \/ VerifyHistory(p) \/ VerifyAgain(p)
Boot(p)   == Verify(p) \/ GivesUp(p) \/ Claim(p) \/ Resume(p) \/ Seam(p)
Run(p)    == Append(p) \/ Publish(p) \/ CheckpointDue(p) \/ Save(p) \/ Flush(p)
Backup    == BackupCheckpoint \/ BackupDatabase \/ BackupManifest

Next ==
  \/ \E p \in Procs : Boot(p) \/ Run(p) \/ Kill(p)
  \/ Backup \/ Restore \/ PowerLoss \/ GoesStale

Spec == Init /\ [][Next]_vars

-----------------------------------------------------------------------------
(* Properties *)

\* What the variables hold.
TypeOK ==
  /\ world \in Worlds
  /\ {checkpoint, copy.checkpoint} \subseteq Checkpoints
  /\ record \cup copy.record \cup served \subseteq Ticks
  /\ candles \in 0..MaxSequence
  /\ pc \in [Procs -> Running \cup {"down", "record", "history", "again", "refused", "claim", "start"}]
  /\ warned \subseteq Procs
  /\ \A p \in Procs : market[p].last \in Ticks \cup {NoTick}
  /\ restored \in BOOLEAN /\ outran \in BOOLEAN

\* No sequence is ever served with two values, by however many processes and
\* over however many kills, takeovers, power losses and restores, as long as
\* what a rollback took back is inside the numbers the files still reserve: the
\* comparing append, the seam's lease and the boot's refusal of a record behind
\* its checkpoint together.
ServedOnce == outran \/ \A s, t \in served : s.sequence = t.sequence => s = t

\* A directory that processes have only written, been killed in and been
\* restored to, from a backup copied while the venue wrote, is never refused at
\* boot, whatever moved between the reads of the check, which is made before the
\* lock is taken.
VerifyAcquits == "power" \notin world => \A p \in Procs : pc[p] # "refused"

\* Whoever runs, the record reaches what the checkpoint has published, or there
\* is none: a record a power loss left behind its checkpoint refuses the boot.
RecordReachesCheckpoint ==
  \A p \in Procs : Hosting(p) => record = {} \/ Top(record) >= Published(checkpoint)

\* Whoever runs in a directory that was swapped in and in which nothing has been
\* written since has said so.
RestoreIsAnnounced == restored => \A p \in Procs : Hosting(p) => p \in warned

\* main.ts, of a boot from a backup: "Markets reopen past what this record holds
\* and on a new key epoch, so nothing is published twice under one sequence."
NothingPublishedTwice == \A s, t \in served : s.sequence = t.sequence => s = t

=============================================================================
