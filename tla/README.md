# TLA+ models of the OTC venue

This directory specifies and checks the parts of the repository that decide
*who may publish a market, what is recorded of it, what third parties read of
that record, and how all of it goes on after a crash, a stall, a restore or a
change of leader*. Every definition is translated from the TypeScript under
`src/`; `PROJECT.json` names, for each one, the file and the lines it stands
for.

    tlc -config MCFailover.cfg MCFailover        # one run
    tlapm CoordinatedStoreProofs.tla             # the proofs

## 1. The system

A venue hosts synthetic markets. A market is a deterministic stream of ticks
drawn from a keystream; whoever holds the key, the key epoch and the position
regenerates the same ticks. Observers must never be shown two prices at one
sequence, so everything turns on *who* draws, *from where* and *what was
already published*.

| Component | State it keeps | Operations | Correct when |
| --- | --- | --- | --- |
| Coordinated store (`lease.ts`, `sqliteStore.ts`, `replication.ts`, `fence.ts`) | grant and high-water token, record of ticks and seams, checkpoint; per asset | acquire, renew, release, inspect, saveFenced, appendTicks, recordSeam, readRecord | one writer at a time, tokens never reused, no silent hole in the record |
| Published market (`hosted.ts`, `resume.ts`, `reopen.ts`, `genesis.ts`; numbering of `engine.ts`) | the last tick drawn and whether it is published, floor, last advance | advance, prime, observedUntil, checkpoint; open fresh, resumed, seamed, past a record, reopened | resuming repeats what was published; a seam never repeats a number or a key epoch |
| Leader session (`failover.ts`) | lease, market, unrecorded ticks, failure count, owed seam, last checkpoint | takeOver, advance, checkpoint, release | observers, record and checkpoint agree through crashes, lost leases and a busy store |
| Follower market (`follower.ts`) | retained entries and ticks, head, next expected sequence, seams | pull, apply, evict, serve, priceAt, spansSeam | it is a prefix of the record and answers as the record would |
| Venue service (`venue.service.ts`, `venue.ts`, `main.ts`) | hosted markets, stalls, reopenings, quotes, timer, pass in flight, checkpoint cadence | start, pass, reopen, checkpoint, wake, host, retire, stop | the deployed process survives being killed anywhere without contradicting itself; one loop of passes |
| Writer lock (`directoryLock.ts`, `atomicFile.ts`) | the lock file | acquire, adopt, renew, release | one writing process per directory, and a directory that reopens |
| State directory (`stateDirectory.ts`, `fileStore.ts`) | record, checkpoint, history, manifest | verify at boot, write, backup, restore | what was served is never served otherwise; an intact directory is never refused |
| Tick record (`tickRecord.ts`) | ticks, seam rows and frames in SQLite | append, tail, head, since, trim, atOrBefore | replay is idempotent, a fork is refused |
| Tick feed (`feed.ts`), stream route (`market.controller.ts`), broker client (`client/src`) | retained window, declared seam, sockets, position | seam, publish, since, subscribe, forget; replay, heartbeat; reconnect | a broker misses nothing it is not told of, and accuses no honest venue |
| Publication (`publisher.ts`, `publicationWriter.ts`, `commitmentsFile.ts`, `journalFile.ts`) | open window, chain and journal files | observe, seal, seam, prime, prove | the chain covers what was published, once, and every commitment can be proved |
| Chain verification (`signing.ts`, `rotation.ts`, `anchor.ts`) | a chain, a rotation log, an anchor | verify whole, verify by line, extend an anchor | both verifiers agree; an anchor means growth |
| Candle history (`history.ts`, `sqliteHistory.ts`, `backfill.ts`, `history.service.ts`) | open bar, minute and hour series | observe, flush, prime, backfill, read | a bar is every tick of its bucket, or is withheld |
| Registration (`registry.ts`, `registration.service.ts`) | catalogue overlay | register, retire | a restart hosts what the operator left |
| Trading terms (`trading/src/*`) | contracts, exposure | settle, limit | one outcome per contract, from integers in one unit |
| Laboratory (`apps/api/src/lab`) | scripts of signs and arrivals, biases, pushes, positions, session | push, close, scenario, bias, release, open | what it announces is what the market prints |
| Entropy cursors, lattice declaration, retention, time, price model, statistics, web | | | see `PROJECT.json` |

**How they interact.** The deployed process (`apps/api`) checks its directory,
takes the writer lock, boots each market from its checkpoint and the tick
record, primes candles and commitments from that record, and then runs
*passes*: advance every market, append to the record, publish on the feed,
observe for the chain and the candles, checkpoint on a cadence. The multi-node
topology (ADR-0012) replaces the local record by a coordinated store: leaders
write through a fenced lease, followers read. Calls are promises on one
JavaScript thread, so a component is interrupted exactly at its awaits;
processes and hosts interleave freely.

**What is hard.** Writes of a leader that does not know yet that it was
replaced; a call that took effect and was not heard of; kills between any two
of the half dozen files a tick ends up in; the two ways a market may go on
(resume, which repeats, and seam, which skips) meeting in a second crash; a host
starved past the catch-up bound at any point of a pass; sequences that jump on
purpose, read by clients, followers, verifiers and recorders that only know two
numbers; handlers that read before they wait for the pass and act after it.
`PROJECT.json` lists each hazard at its line, with the properties that would
catch it.

## 2. Modules

| Module | Stands for | Composes |
| --- | --- | --- |
| `Replication` | record entries, their order, the binary search and slices of `readRecord` | |
| `CoordinatedStore` | both stores: leases, fence, record, checkpoint | extends `Replication` |
| `CoordinatedStoreProofs` | its theorems | extends `CoordinatedStore` |
| `HostedMarket` | one market and the ways it opens, as operators | |
| `Failover` | nodes leading an asset in turn | extends `HostedMarket`, instantiates `CoordinatedStore` |
| `FailoverProofs` | its theorems | extends `Failover` |
| `RecordReader` | abstract: a reader takes the record in order, all of it | |
| `Follower` | followers pulling a growing record | extends `Replication`, implements `RecordReader` |
| `FollowerProofs` | its theorems, and those of `Settlement` | extends `Follower`, `Settlement` |
| `VenuePass` | the deployed process for one market, its record, feed and a client | extends `HostedMarket` |
| `VenuePassProofs` | its theorems | extends `VenuePass` |
| `WriterLock` | starters, holders and the lock file | |
| `StateDirectory` | the files of one directory across boots, backups, restores and power losses | |
| `StateDirectoryProofs` | its theorems, and those of the lock | extends `StateDirectory`, instantiates `WriterLock` |
| `Publication` | the commitment chain, its two files, its verifier and its proofs | |
| `PublicationProofs` | its theorems | extends `Publication` |
| `ChainAudit` | the two verifiers, rotations and anchors over every small chain | |
| `CandleHistory` | recorder, rollup, backfill and the bars served | |
| `Stream` | feed, HTTP stream and client, with sockets that fill and drop | |
| `StreamProofs` | its theorems | extends `Stream` |
| `Lifecycle` | the scheduler of passes and the handlers that run between them | |
| `LifecycleProofs` | its theorems | extends `Lifecycle` |
| `Settlement` | the price route and `settle()` over a living record | |
| `Laboratory` | what the laboratory does to a market, and says of it | |
| `MCReaders` | one run of `ChainAudit` and `CandleHistory`, which share nothing | both |
| `MCContracts` | one run of `Settlement` and `Laboratory`, likewise | both |
| `MC*` | model-checking instances | |

Each module with state also has a type invariant, `TypeOK` (`SettlementTypeOK` in
`Settlement`, whose names differ from `Follower`'s so that one module can extend both).
Those of `CoordinatedStore`, `WriterLock`, `Lifecycle`, `Follower`, `Stream` and
`Settlement` are proved; the inductive invariants of `Failover`, `StateDirectory`,
`Publication` and `VenuePass` have a conjunct of their own for it, `Types` or
`TypeInv`. The others hold on the same instances but are in no run's list.

### Replication and CoordinatedStore

An entry is a tick or a seam. A tick is its sequence and a `value` (price and
instant, told apart only by equality); a seam has the two sequences around it
and a `says` (instants, reason). Variables are the fields of
`MemoryCoordinatedStore` for one asset (`grant`, `highWater`, `entries`,
`head`, `expectNext`, `saved`), the store's clock `now`, and two history
variables: every grant ever `issued`, and the `author` of the last accepted
write. Zero stands for `null` sequences.

Each method is one action since it has no await inside (memory) or runs in one
immediate transaction (SQLite). The caller presents *any grant it was ever
issued*, at any time, which is what a stranded leader does. The two stores
differ in one respect that shows: a refused write drops an expired grant from
memory, and SQLite's `ROLLBACK` puts it back; `FenceRefuses` allows both.
`ClockMoves` lets the clock jump anywhere, backwards too.

### HostedMarket

The engine's stream is a function of key epoch and position. A tick is
identified with `(sequence, instant, epoch)`, and two ticks are the same price
exactly when these agree, which is what deterministic replay promises and what
a changed epoch denies. Intervals are constants: `Gap` inside a stream,
`GenesisGap` and `SeamGap` to the first tick after an opening. The code's
intervals are at least one millisecond; a value of 0 means "within the
same unit of model time". `SequenceLease` and `EpochSpan` are the reserved
numbers and the spacing of epochs. Price carried over a seam, latent state and
stream cursors are left out.

### Failover

One action per stretch between two awaits of `takeOver`, `advance` and
`checkpoint`; `pc` names the await a node is at:

    out -> resuming -> idle -> renewed -> [head -> seam ->] append -> [save ->] idle
                                                    \-> release -> out

`session` is the `LeaderSession` with the locals of the call in progress. A call
returns or throws in `Return`/`Throw`: only a *returned* tick reaches the node's
observers, and those are collected in the history variable `published`. `Crash`
may happen anywhere; `WriteUnheard` is an append that took effect in a process
that died before hearing; `StoreBusy` rejects one call. `known` is what the
caller passes as `options.published`.

### Follower and RecordReader

The record's writer is the abstraction of what `CoordinatedStore` accepts: ticks
in order, seams from the head. A pull is two steps since the record is read
before an await and applied after it. `taken` is a history variable: all entries
ever applied. `RecordReader` says what a replica promises, and the property
`ReadsTheRecord` is its specification, liveness included, under the refinement
mapping of `Reader`.

### VenuePass

One asset of `VenueService`: `pc` runs `down -> booting -> idle -> record ->
[save ->] finish -> idle`. `record` is the tick record, `saved` the checkpoint
file; both survive `Crash`. `feed` and `venue` are memory. `client` is a reader
of the feed: where it will ask from, whether it is connected, and whether it was
told that the sequence it asks for cannot exist (`accused`). `quoted` is a
history variable: the price last put in force, remembered past the death of the
process that quoted it. `calm`, chosen at the start from `Calms`, names the
regimes in which the host does not starve the process: `passes` (no time between
an advance and its publication), `stops` (no ticks overdue at a stop), `seams`
(no market falls past its catch-up bound while it waits for its first tick after a
seam), `genesis` (no checkpoint, written or being written, goes stale before its
market's first tick). `MarketStaysHosted`,
`ResumptionReplaysTheRecord` and `ClientsAreNotAccused` are guarded by
`HostKeepsUp`, that `calm` covers `Promised`; `BreaksAreSeams` and `QuotesStand`
hold on any host.

### WriterLock

Each access to the lock file is a step: `link`, the read and judgement of a
refused start, the rename that adopts, the read-back, the heartbeat's read and
its replacement, the unlink of an exit. Liveness of a holder is judged as the
code does, by pid on one host and by age elsewhere. Processes are killed or
stalled between any two steps, and a pid may be given to another process
(`ReusesPid`).

### StateDirectory

Record, checkpoint and history of one asset, the reads of
`verifyStateDirectory` one by one and before the lock, the boot's resume or
seam, the writes of a pass and of the cadence, a backup that copies the files
one after the other while the venue writes, the manifest that says so, a restore
and a power loss. `world` chooses which faults a behaviour has: a second writer
(`contended`, the window `WriterLock` leaves), `power`, `restore`. `served` is a
history variable; `outran` says that a rollback took back more numbers than the
lease reserves, after which `ServedOnce` promises nothing.

### Publication and ChainAudit

`Publication` has one step per file write: the journal of a window, its line in
the chain; a process dies between any two, or one write fails (`disk`), the
record is rolled back (`rollback`) or publication is off for one process's life
(`off`). A root is the link it was computed over. `Verifies` and `Proof` are the
repository's own verifier and archive proof. `ChainAudit` grows arbitrary chains
link by link, rotations and a second chain, and holds the two verifiers and the
anchor's extension test against each other: it says nothing of how chains come
about, which is the other module's matter.

### Stream

The feed's window, the route's replay and live subscription, a socket with a
high-water mark and a client that reconnects. What a socket holds and what the
network carries are one queue; a drop cuts it at any place. `heard` is a history
variable: the last tick handed to the caller, the hole it was told of, the next
sequence it was promised, and the last heartbeat.

### Lifecycle

`timer`, `inFlight` and the await a checkpoint leaves open, with the handlers that
get in there: register, retire, steer, stop. The three writers of checkpoints
each plan first and write file by file. A seam here only moves the market past
its record. The module covers more than one market, which `VenuePass` does not.

### CandleHistory

Time is counted in minutes, a tick has the minute it falls in, and a bar is the
set of sequences folded into it. The recorder, the append of minutes, the hours
rolled up from what is *stored*, the bars a chart is served, priming from the
record, a new market's backfill and the join with it, an append that fails after
the recorder was drained, kills in any stage of `KilledIn`.

### Settlement

A broker's two sources: the price route, which answers once an instant is final,
and `settle()`, which decides from published ticks and recorded seams. The venue
beside it publishes, stalls, reopens, is killed, seams, changes its lattice in a
release, trims, and has its clock set back. `schedule` is what the open market
will print; regenerating after a restart repeats it.

### Laboratory

One market under the laboratory's hands. `market` is the hosted market with the
drawn tick, the two scripts the engine plays and the sustained bias; the
keystream is a sequence of interval, size and sign, so that a fork (`Fork`,
`Walk`) plays exactly what the market would. `saving` is a pass that awaits its
checkpoint, and `waiting` the requests behind it: what each read on arrival
travels with it (`running`, `at`), they act one after the other, and only then
does each note its landing or its target (`Told`), as continuations of promises
do. `desk` is what the controller keeps. `touched` and `exposed` are history: they
mark announcements another act has overtaken, and entries a push may rewrite.
The selection of signs is any choice; a close aims at where the choice lands.
The first interval of an anchored push is exact here, where `anchoredFirstDraw`
bisects the draw to within a millisecond: a push whose own interval is no longer
than that could put its first tick on the instant of the request itself, which
`EntriesStand` does not see.
A bias plays runs of `BiasRun` ticks for its direction and one against.

## 3. Runs

Passing runs. Every property has at least one mutant, a plausible bug in a mapped
definition under which the run fails. States and times are those of two workers.

| Run | Checks | Bounds, and why they are enough |
| --- | --- | --- |
| `store` | tokens never return; the record is contiguous; reads are complete; only the newest grant writes | 2 processes, 3 grants, clock 0..3 with term 2: expiry, takeover and a stranded leader of two generations; 3 entries of sequences up to 4, batches of 2: replayed, overlapping and gapped appends before and after a seam |
| `failover` | one tick per sequence; the record leads the checkpoint; discontinuities are recorded | 2 nodes, 3 sessions, clock 0..5, term and catch-up bound both 2 (the code's are equal, 15 s): a session may outlive its lease, a successor may resume or seam, and a third seam from the checkpoint the second seamed from (3.1 million states, 90 s); a caller may checkpoint a session it has not advanced yet, which the theorems of section 4 exclude |
| `failover_busy` | refused ticks are resolved | up to 3 refusals (at which a session steps aside), 2 sessions, under fairness (60 s) |
| `follower` | refines `RecordReader`; serve, priceAt and spansSeam agree with the record | 2 followers, 6 entries, batches of 2, 2 ticks retained: eviction across ticks and seams |
| `venue` | the market stays hosted; resumptions replay the record; clients are not accused; breaks are seams; quotes stand | 3 starts; clock 0..8 on a calm host, 0..7 on any; bound 2: a crash in each of two lives and a reopening (5.7 million, 100 s) |
| `writer_lock` | one holder until an adoption; two holders end; the directory reopens | 3 processes, one of them on another host, 4 grants, 2 departures: an adopter meets a starter and the holder that was thought dead |
| `directory` | one value per sequence served; the check acquits; the record reaches the checkpoint; a restore is announced | 2 processes, 3 sequences, lease 1, 2 departures, each fault by itself (3.8 million, 60 s) |
| `publication` | the chain verifies; nothing is abandoned; what is committed is proved | windows of 2, 7 sequences, batches of 3, 3 departures, three faults: a window begun in one life, journaled in the next and sealed in the third (1.3 million) |
| `readers` | verdicts agree while bound; anchors hold for growth; minutes are kept; bars are exact | chains of 3 links, 2 keys, one rotation or an anchor; candles: 5 minutes in hours of 2, 5 ticks, 2 kills or failed appends, with backfill or record or neither (3.3 million, 150 s) |
| `stream` | nothing is skipped untold; the venue is not accused and heartbeats are accounted for | 1 client that calls twice, first from any sequence up to one past the next; 5 sequences, a window of 4 against a socket and a replay of 3, so that the cap cuts a replay short; 2 drops, 2 seams, one reconnection (5.0 million, 65 s) |
| `lifecycle` | one loop; a seal is the last; what printed is known; stop returns | a shipped market that is steered and a registered one that is retired, windows of 2 |
| `contracts` | the route agrees with `settle()`; answers stand; acts land as announced; entries stand; expiries recorded are expiries | record of 4 ticks of one price and 2 lattices (no step reads a price, and two ticks differ by their sequences), 2 kept, clock 0..5, one rewind; laboratory: 3 ticks, 3 requests of which 2 may wait, clock 0..4, pushes of up to 2, a bias of 2 (2.5 million, 155 s) |

**Deadlock** is checked in `lifecycle` and `contracts`; elsewhere the bounds stop
the clock, the record or the processes.

**Fairness.** `Failover!FairSpec` gives each node weak fairness on its own code
(the store answers) and strong fairness on `Renew`: the caller's loop calls
`advance` again and again, whatever calls to `checkpoint` come between. No
fairness is given to `Tick`, `Crash`, `StoreBusy` or `TakeOver`. `Follower!FairSpec`
gives each follower weak fairness on pulling and applying: it is polled.
`WriterLock!FairSpec` gives each process weak fairness on its own code and its
restart (`Restart=always`), strong fairness on the heartbeat (the cadence comes
again and again) and weak fairness on a term passing; none on kills, stops or
stalls, and the two liveness properties are about behaviours without stalls. `Lifecycle` asks only that a process that may take its next step takes it.

### Statements the code does not keep

Each line is a sentence of the repository, stated as a property, and the instance
in which TLC finds it violated. They are outside the passing runs. Some have a
configuration in this directory; for the others, replace the properties of the
run's configuration by the one named and set the constants given. Where nothing
is said of the constants, they are those of the run.

| Property | Sentence | Instance | What happens |
| --- | --- | --- | --- |
| `ObserversMissNothing` | `failover.ts:30` "one such refusal is not a discontinuity" | `MCFailoverBusy`, `Spec`, `MaxBusy = 1`, `MaxToken = 1`, `StallMidAdvance = TRUE` | a checkpoint refused as busy makes `advance` throw away the ticks it just recorded |
| `RefusedTicksAreResolved` | `failover.ts:122` "kept and retried first" | `MCFailoverWedged.cfg` | past the catch-up bound, `advance` throws before the retry, for ever |
| `OneTickPerSequence` | `resume.ts:562` "no number is ever published twice" | `MCFailover`: `MaxCatchUp = 3`, `MaxTime = 6`, `RecordConsulted = FALSE` | `takeOver` without the newest recorded tick: two seams from one checkpoint share numbers |
| `OneTickPerSequence` | the same | `MCFailover`: `GenesisGap = 1`, `SeamGap = 1`, `MaxCatchUp = 3`, `TermMs = 3`, `MaxToken = 2`, `Premature = {"unpublished"}` | a checkpoint taken before the first tick forgets the numbers used since |
| `OneTickPerSequence` | the same | `MCFailoverBusy`: `MaxBusy = 1`, `MaxTime = 5`, `MaxToken = 3`, `SeamGap = 0`, `StallMidAdvance = TRUE` | ticks the store refused are shown to observers, then renumbered by a successor |
| `LeadersAreNotWedged` | `failover.ts:128` "The record leads the checkpoint, always", and so no wedge passes on | `MCFailover` | a session opened by a seam is checkpointed before it advanced: the engine is past what was published and nothing is pending, `assertUsableRecord` accepts it, and the successor resumes owing no seam, so its first append is a gap the record refuses; a wedge that the next session inherits |
| `CatchesUp` | a follower reads the record | `MCFollowerWedged.cfg` | a second seam from one head is never read; the follower is stuck |
| `HoldsAPrefix` | the same | `SeamUponSeam = TRUE`, `SeamJumps = {2}`, `SeamWidths = {2, 3}`, `MaxEntries = 5` | the second seam is skipped in silence when it resumes where the first did |
| `HoldsAPrefix` | `follower.ts:188` | `MaxInFlight = 2`, `ReadLimit = 1`, `SeamJumps = {2}`, `SeamWidths = {2}`, `MaxEntries = 5` | two overlapping pulls apply one seam twice |
| `HoldsAPrefix` | the same | `SeamFirst = TRUE` | a market checkpointed and taken over before its first tick resumes at 1, the number its seam is found at: a follower that pulls between that seam and the first tick reads the seam again, and takes it twice |
| `GapReadersAreTold` | `replication.ts:60` | `SeamJumps = {3}`, `SeamWidths = {2}`, `MaxEntries = 4` | a reader inside a gap is given ticks without the seam |
| `ResumptionReplaysTheRecord` | `venue.service.ts:1802` "a claim that this market was here at this instant" | `MCVenuePass`: `Calms` and `Promised` without `"passes"`, `MaxBoots = 2`, times 9; or without `"stops"` | a checkpoint stamped later than the market it describes is resumed, and resumed wrong |
| `ClientsAreNotAccused` | `venue.service.ts:745` | the same without `"seams"`, times 9 | a boot seam reopened before its first tick goes below what the feed declared |
| `MarketStaysHosted` | `resume.ts:562` | without `"seams"`, times 12; without `"genesis"`, `GenesisGap = 1`, `MaxBoots = 2`, times 7 | recorded numbers are used again, the record refuses them, and the market is unhosted or the boot fails |
| `DirectoryReopens` | `directoryLock.ts:52` "no process could ever open again" | `MCWriterLockPid.cfg` | the pid of a killed holder was given to another process, which is taken for it |
| `NothingPublishedTwice` | `main.ts` "nothing is published twice under one sequence" | `Worlds <- MCPowered`; `MCStateDirectoryRestored.cfg` | a power loss takes the record's newest commits below a fresh checkpoint; a restored backup is older than the lease reaches |
| `ChainStaysOne` | `publicationWriter.ts` "The chain stays one chain" | `MCPublicationDisk.cfg` | the write of a window fails after the chain moved on in memory; the window `stop()` closes is bound to a line that was never written |
| `IntervalsAreUnpublished` | `publicationWriter.ts` "the interval nobody published" | `Faults = {}` | a process is killed before the first window behind a seam is written; the next one resumes the chain past those ticks and declares them unpublished |
| `SameVerdicts` | `commitmentsFile.ts` "with the same verdicts" | `MCReaders` | on a chain whose second link begins it again, one verifier accepts and the other does not |
| `HeartbeatsAreHanded` | `venueClient.ts` "never names a tick this subscription has not been handed" | `MCStream`, `MaxSequence = 4` | a reconnection told of a gap without its end is sent a heartbeat for a tick inside it, never handed over |
| `DropsAreResumed` | `venueClient.ts` "reopened from the last delivered sequence plus one" | the same | a call that named no sequence and was dropped before its first tick has nothing to resume from, and fails |
| `CaughtUpOwesNothing` | `market.controller.ts`, the charge of undrained bytes | the same | the gap frame written on connection is still charged when the client has read it |
| `RetirementIsFinal` | `market.controller.ts:727` "Retirement is final" | `MCLifecycleRetirement.cfg` | the process dies between the venue's retirement and the registry's |
| `SteeredTicksAreNotRegenerated` | `lab.module.ts:36` "A restart seams instead of regenerating" | `MCLifecycle` | a pushed tick is published, and no checkpoint says yet that the market was steered |
| `NothingIsSpliced` | `history.service.ts:201` | `MCReaders`: `"joining"` added to `KilledIn` | a kill between the flush that ends a catch-up and its checkpoint stalls the market at the next start |
| `ServedAreWhole` | `history.ts:553` "No partial bar is ever labelled whole" | `MCReaders` | a hole at the edge of a bucket lies outside the window read |
| `AnswersStand` without its premise on `rewinds` | `market.controller.ts` "a price that will never change" | `MCContracts`: `MaxTicks = 3`, `MaxTime = 4`, `Lattices = {coarse}` | the host's clock is set back |
| `AnswersCanBeRecomputed` | `settle.ts` "can recompute any outcome" | `MCContracts`: `MaxTicks = 3`, `MaxRewinds = 0` | a contract ends inside a gap at whose far side the lattice changes: both prices are final and on one lattice, and `settle()` refuses them |
| `EveryEntryStands` | `positions.ts:99` | `MCContracts` | a push that extends another, subtracts from one, or waited for a pass, is not anchored at the present and puts a tick at or before an entry already shown |
| `PushesArePlayed` | `lab.controller.ts:1249` "cannot describe a market playing a push" | `MCContracts` | a close or scenario asked before a push, and acting after it, arms over it while the panel shows the push running |
| `UndonePushesAreForgotten` | `lab.controller.ts:866` "Nothing survives" | `MCContracts` | two pushes wait for one pass; the second takes both back, and then the first notes its landing |
| `SupersededIsNotMissed` | `lab.controller.ts:744` "a close the operator superseded is not a close that failed" | `MCContracts` | the last tick of the close is drawn and unpublished: nothing is armed, the push retracts it, and the close is reported as missed |
| `ExpiriesAreKept` | `lab.controller.ts:1191` "would swallow its expiry" | `MCContracts` | said of turning a bias off; setting a new one over a bias that ran out swallows it |

One limit is part of a property that holds: `MinutesAreKept` excepts `Unvouched`
minutes, the one a backfill ended in, the one the record then begins in, and one
that opens behind a seam. A restarted recorder withholds those, as its comments
say.

Two limits of `BreaksAreSeams` are about the deployment, and section 4 needs them
as hypotheses. With a lease as short as what a market may publish before it is
checkpointed (`MCVenuePass`: `SequenceLease = 2`, `MaxCatchUp = 1`,
`CheckpointEvery = 1`, `MinReopen = 2`, `MaxTime = 9`, `Calms = {{}}`), a seam from
the checkpoint lands on the number the record expects next, and the break does not
show. With `SeamGap = 0` a stream's first tick after a seam may fall on the instant
of the tick before it. The code's lease is 100 000 numbers, its catch-up bound 15 s
and its checkpoint cadence 5 s (`venue.service.ts:262`); an interval is at least one
millisecond. A reader who changes one of the four has this inequality to keep:
cadence and four catch-up bounds, in ticks, stay below the lease.

The shipped deployment is single-node: `LeaderSession` and `FollowerMarket` are
exercised by tests and tools only, so what is said of them concerns the
multi-node topology the repository prepares.

## 4. Proofs

Each proof module extends its component and proves its theorems for every value
of the constants that the component's assumptions allow; no instance is bounded
beyond the bounds that are constants themselves. The pattern is the same
everywhere: an inductive invariant `IInv` of named parts, one lemma per action
that says it keeps them, and the properties as consequences. The
`IInv` of `Failover`, `StateDirectory`, `Publication`, `Lifecycle`, `Follower`,
`VenuePass` and `Stream` were checked by TLC first, as invariants of the instances of
their runs (3.9, 3.8, 1.3, 0.4, 0.08, 5.7 and 4.2 million states).

**`CoordinatedStoreProofs`** (`TermAssumption`: the term is positive;
`BoundAssumption`: the bounds are naturals).

* `LeasesConsistent`: the invariant `LeaseInv`, that grant *i* has token *i* and
  the table holds the newest grant or none. Without it the fence, which compares a
  number, says nothing about order. `TokensAreUnique` and `WritersAreSerial`
  follow from it.
* `RecordConsistent`: the invariant `RecordInv`. `RecordIsContiguous` is not
  inductive alone: an append is compared with `head` and `expectNext`, so
  `CursorsFollowEntries` ties those to the last entry, and `EntriesSorted` is what
  makes a replayed tick's place unique. `TypeCorrect`, `RecordReadsAsOneMarket`
  and `RecordIsSorted` follow.
* `ReadsMissNothing`: what the binary search returns for every sorted record. The
  search is a recursive function over windows; what it returns is shown by
  induction on the width of the window, as the absence of a narrowest window on
  which it errs (`LeastNatural`).

**`LifecycleProofs`**, for any markets, catalogue, window and bounds.

* `LoopIsOne`, `SealsAreLast`, `PrintsAreKnown`, `TypeCorrect`. None of the three
  properties is inductive. That the loop is one needs that only an up process has
  a timer and that `stop()` plans its checkpoint with no pass in flight
  (`Scheduler`). That what printed is known needs that whatever is hosted was
  stored first (`Known`). That a seal is at the last tick needs both, that nothing
  on disk or planned is ahead of the record (`NothingIsAhead`), and that a market
  between its registry file and its hosting has neither record nor seal
  (`Requests`): those are the handlers that act after they waited for a pass.

**`FailoverProofs`**, for any nodes, sessions, clock, term, catch-up bound and
gaps, and a store that rejects any number of calls.

* `Inductive`: two streams meet in the record, the one it ends in and the one the
  session with the newest grant is about to write; every older session is shut out
  by the fence, whatever it still holds. Either the session's first unrecorded tick
  is what the record expects (`Continues`: the record repeats the stream that far,
  or ends in a seam to it), or the session owes a seam and everything it will write
  is ahead of the record in sequence, time and key epoch (`Ahead`). A checkpoint
  from which a takeover may still resume is of the stream the record ends in
  (`Resumable` in `Checkpointed`), and no recorded key epoch is past the one the
  next seam opens (`EpochBound`).
* `RecordLeads`, `DiscontinuitiesAreRecorded`, and `NoLeaderIsWedged`: the record
  takes the seam or the ticks a session has to write, so that the first append of
  a successor is never the gap that would be refused for ever.
* `NumbersNameOneTick`, while the store rejected no call (`busy = 0`). A rejected
  append is shown to observers and may be renumbered by a successor: section 3
  lists that instance, so the premise cannot go.
* The hypothesis `Deployed` of these theorems is what their instances in section 3
  show to be needed: `takeOver` is given the newest recorded tick
  (`RecordConsulted`), no caller checkpoints a market before it published or before
  this session advanced it (`Premature = {}`), and the market's genesis lies before
  the clock starts.

**`StateDirectoryProofs`**, for any processes, lease and bounds, and any set of
deployments, those included that combine a second writer, power losses and
restores, which the run checks one by one.

* `ServesOneValue`. Ticks that were served and that a rollback took out of the
  record are *lost*; what keeps them from being served otherwise is that a seam
  resumes past them and a resumption either stands past them or draws them again
  on their own key epoch. `LostIsReserved` says so of the files and of every market
  that may still write them, `OneValue` of everything recorded, copied and served.
* `VerifyNeverRefuses`: without power loss nothing in the files, in a copy, in a
  process or in what a check has read so far is ahead of the record
  (`NothingAhead`); the reads of the check are separate steps, and a writer, a
  backup or a restore may come between any two.
* `RecordReaches`: a record behind its checkpoint, which only a rollback leaves, is
  one that no process is past the check of (`Shut`), so nobody writes to it.
* `RestoreAnnounced`, under a hypothesis: no deployment loses power *and* restores.
  A backup restored and then cut short by a power loss is not what its manifest
  says, and the check takes it for a directory that has gone on (TLC shows it with
  `Worlds` both faults at once, `MaxSequence = 2` and `MaxDepartures = 3`).
* Of the lock, for any processes, hosts, pids and grants: the module instantiates
  `WriterLock` beside the directory, with variables of its own, and its assumption is
  a hypothesis of the theorems. `LockIsTyped` is its type invariant. `OneHolder`: until
  an adoption, at most one process is told that it holds the directory. That a starter
  is refused depends on the holder's lock being in the file, and that on nobody else
  having been let in to remove it. `HolderIsInTheFile` is that strengthening: before
  the first adoption no process is confirming one, none is lost, and the file holds
  the lock of every process that runs or is leaving (`LockInductive`).
  `HolderKeepsItsLock`: a holder finds its own lock in the file.

**`PublicationProofs`**, for any window, batch and lease, any number of ticks and
departures, and any faults.

* `Inductive`: the links on disk and those being written are one sequence (`All`).
  The publisher goes on from the last of them or begins the chain again (`Linked`),
  which a failed write alone breaks; windows ascend (`Ascends`), which a record
  rolled back alone breaks; and the ticks of the record are in a window, in the open
  one, still to be folded in, or known to be unreachable (`Covers`).
* `Verified`, `Complete` and `Proved` follow. A link is on disk only once its
  journal is, so a kill between the two files, or within a line, leaves a chain whose
  every commitment can be proved.
* `CloseFull` is a recursive function: that it exists, how many windows it closes and
  what is in each is shown by the same induction over a set of naturals.

**`FollowerProofs`**, for any followers, window, limit of a read, seam and length of
the record.

* `Inductive`: each field of a follower is a function of its place in the record and
  of how much was evicted (`Fits`), and a batch not yet applied begins just past the
  place (`ReadingFits`). That a read from `expectNext` does begin there rests on the
  record's entries being numbered in strict order, seams included (`Precedes`), and
  on what the binary search then returns (`SearchSplits`).
* `ImplementsReader`: every step is a step of `RecordReader` or a stutter, which is
  `ReadsTheRecord` without its fairness. `Prefix` and `TypeCorrect` follow from the
  invariant.
* `AnswersAgree`: what is served, priced and reported clean is what the record
  alone would say. Eviction drops only entries that concern no retained tick, so a
  request it does not refuse starts past them; and the seam behind the tick in force
  is the only one whose gap an instant can be in.
* The hypothesis `Deployed` is, again, what section 3 shows to be needed: one seam
  per head (`~SeamUponSeam`), none before the first tick (`~SeamFirst`), and one
  pull at a time (`MaxInFlight = 1`).

The same module holds the theorems of `Settlement`, the brokers who read a record;
the two share no state. They hold for any prices, lattices, catch-up bound,
retention (at least one tick) and length of the record.

* `SettlementInductive`. The record ascends into what the market will print
  (`OrderInv`); every gap of sequences is a seam (`SeamsInv`); the lattice changes only
  across a gap, and the frame log has that change at the tick after it (`EpochsInv`).
  The last is why a change of lattice can never hide: it takes a boot past the
  record, which leaves at least one number out (`OpenedIs`), and a market goes on without
  a gap only on the lattice the record ends on (`ScheduleInv`).
* `RouteAgrees`. Were the two ticks of a contract on two lattices, the lattice would
  change at some tick between them (`LatticeChanges`); the seam there is one the window
  reaches into (`OneLattice`), for the tick in force at its entry is the last at or
  before it; and `settle()` refuses that window. The route looks up the same ticks,
  and an instant at or before the newest tick is final.
* `AnswersAlwaysStand`, an action property. Until the clock is first set back nothing
  said reaches past it, and what the market has still to print is later than all that
  was said (`TimeInv`), so what a pass records is (`MovedIsLater`). A window that was
  settled meets no new seam, since one begins where the record ended
  (`NewSeamIsLater`), and no new change inside an old one (`ReframesStands`). That the
  clock is not set back is the property's own premise: with it the property is false,
  as section 3 says. `SettlementTyped` is the type invariant.

**`VenuePassProofs`**, for any bounds, cadences, catch-up bound, lease and number of
starts. The first four theorems hold on any host: nothing is assumed of when it
stalls the process or kills it. The last three are promises to a host that keeps up,
and each names what it has to keep up with.

* `Inductive`. A market's next tick stands to the record in one of three ways
  (`Forward`): it *leads* it, is *lost*, passed by and never recorded, or *replays*
  it, is in it and so is all that its stream drew since. `RecordInv` is the shape of
  the record; `SavedInv`, `OpenInv` and `BatchFits` say that the checkpoint, the
  market and the batch between an advance and its record are each forward, or too
  late to be caught up with. What makes it inductive is `Near`: a tick known to a
  checkpoint is one the record goes on from for less than a lease, or has passed by
  more than one, so that a seam a lease past it never lands where the record ends.
  That needs a bound on how far a market runs past its last checkpoint, `LagInv`,
  which a stalled pass disturbs: it moves the checkpoint's clock without writing
  one. `PassInv` carries the pass across its awaits.
* `QuotesAlwaysStand`. A price is in force at the instant the market was advanced
  to; what a later process records is after it, or in the record already (`After`).
* `SeamsWhereTheClockLeads` and `BreaksAreAlwaysSeams`. Numbers, instants and streams
  follow from `IInv`. Key epochs do not: a start at an instant takes the instant's
  own epoch or one past the checkpoint's, and an instant has `EpochSpan` epochs, so
  enough starts at one instant could push a checkpoint's epoch ahead of the clock,
  and a later seam that does not read the checkpoint would step back (`EpochInv`).
  The first theorem has that it does not, whenever a process starts, as its premise
  (`ClockLeads`); the second discharges it where the starts are no more than
  `EpochSpan` (1 024 in `packages/runtime/src/genesis.ts:16`: within one
  millisecond).
* `ResumptionAlwaysReplays`, for a host that keeps up with `passes` and `stops`
  (`Prompt`), rests on `CalmInv`. An advance is recorded at the instant it was made
  for (`PunctualInv`), so a checkpoint is of a market at an instant it was watched and
  before its next tick (`WatchedInv`): a market past its catch-up bound, which alone
  takes a seam in place, has left no checkpoint to resume. Hence whatever a
  resumable checkpoint and the market beside it publish is one stream (`StreamInv`),
  and the record runs along it from the checkpoint's last tick (`RunInv`).
* `MarketStaysAlwaysHosted`, for a host that keeps up with all four (`Steady`), adds
  `KeptInv`. No checkpoint of an unpublished market goes stale (`FirstInv`), which
  would restart the numbers. A market whose next tick does not follow its last waits
  past a seam, in time, beyond the record's head (`SeamInv`), so it is never reopened
  a second time from the same last tick, at the same number. What is published next is
  in the record up to its head, or past it (`WholeInv`), so the record accepts it; and
  the feed's window ends where the record does and is empty before a jump
  (`WindowInv`), so the feed does.
* `ClientsAreNeverAccused`, for the same host, adds `ServedInv`: a declared seam
  resumes at the very number its market publishes next, which no process that boots
  later goes below (`DeclaredInv`, `Far`), and a client never asks past `Furthest`,
  what the present feed, or while the process is down the next one, goes on with
  (`ClientInv`). The step that carries it is the death of the process, where the feed's
  word is lost and the checkpoint's takes its place: a checkpoint taken past a seam is
  not resumable before the market's first tick, and the seam that follows it is no
  earlier (`PlanIsFurther`); and time only moves a boot from resuming to a seam, never
  back (`FarAges`).
* `Deployed`, the hypothesis, is what section 3 shows to be needed: a stream's first
  tick comes after its seam, and a lease is longer than what may be published
  before a checkpoint is written. So is each kind of starvation the last three
  exclude: section 3 lists what goes wrong without it.

**`StreamProofs`**, for any number of clients, any window, socket, replay cap and budget,
and any number of passes, seams, restarts, lost connections and heartbeats
(`StreamAssumption`: the sizes are naturals, window, socket and lease positive, and
a socket holds no more than a replay may).

* `Inductive`. What a client makes of its next tick depends on the frames still on
  the way to it, which neither property mentions. So a queue of frames is *numbered*:
  `p[i]` is the tick due once `i` frames were read (`Due`). A tick is the one due where
  it stands; a gap comes first or not at all; a heartbeat names a tick before the one
  due, and right before it if a tick came earlier in the queue (`FrameInv`). A live
  connection ends where the venue goes on and was given the tick before that, or
  nothing (`LiveInv`), which is what lets a pass append to it and a heartbeat be owed.
  The first tick due is one that the client takes (`Follows`), or that the gap it
  reads first makes it take (`FollowsGap`). What it asks for after a drop follows what
  it was handed or told of (`AsksInv`).
* The steps that write need only that queues can be joined (`QueuedJoined`,
  `Extends`), those that read that one can be cut (`RestAfterTick`, `RestAfterOther`),
  and `AnswerStands` that whatever the feed answers, in its window, before it, past it
  or past the budget, begins a queue the client goes on with.
* `VenueIsNeverAccused` follows from the invariant. `NothingIsEverSkipped` is an action
  property: the tick read is the first one due (`TickRead`), and every other step
  hands over nothing. `TypeCorrect` is the type invariant.

**Only model-checked.** Liveness, and refinement with fairness (`ReadsTheRecord`),
which are outside TLAPS. Of
`ChainAudit`, `CandleHistory` and `Laboratory`, everything: no
invariant of theirs has been proved. Two limits of the proofs themselves: time is an integer in
them as in the models, never milliseconds of a float, and what a hash, a keystream
or a price is stays the abstraction of section 2.

## 5. Not modelled

The price process and its statistics (floating point); the content of hashes,
signatures and keystreams; HTTP parsing, rate limits and authentication; the web
panel; conversion of prices between lattices (`Settlement` models *that* a
lattice changes, and that integers of two are not compared); the multiplexed
stream; the exposure limiter and payouts; offline retention; integrity checks of
damaged database files and migrations; of the laboratory, pushes by distance,
sided closes, the session's export and replay. `VenuePass` and `StateDirectory`
hold one asset. Time units are coarse everywhere: what matters is the order of
instants and bounds, not their length. `PROJECT.json` says why, component by
component.

## 6. Plan

Done: the core and the components above. Next:

1. Proofs: the invariants of `CandleHistory`, and of `Laboratory`.
2. The exposure limiter and contract lifecycle of `packages/trading`.
3. The multiplexed stream of `market.controller.ts`: one socket, many markets.
4. The cursor lease of `core/src/entropy/lease.ts`: no keystream position drawn
   twice across crashes.
5. Lattice declaration and the conversion of prices between frames, as operators
   checked against exact rationals.
6. Several assets in one `StateDirectory`, and the retention tool beside a venue
   that writes.
