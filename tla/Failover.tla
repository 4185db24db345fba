------------------------------ MODULE Failover ------------------------------
(***************************************************************************)
(* Nodes taking turns at leading one asset: LeaderSession of               *)
(* packages/runtime/src/failover.ts over the coordinated store of          *)
(* CoordinatedStore.tla and the markets of HostedMarket.tla.               *)
(*                                                                         *)
(* Every await of takeOver, advance and checkpoint is a point where the    *)
(* other nodes, the clock and the store move, so each stretch between two  *)
(* awaits is one action.  A node may crash in any of them, losing its      *)
(* session and leaving its lease to run out; the store may be busy for one *)
(* call, which rejects and changes nothing.                                *)
(***************************************************************************)
EXTENDS HostedMarket, FiniteSets

CONSTANTS
  Nodes,
  NoGrant,
  NoSession,
  GenesisInstant,      \* options.genesisInstant
  TermMs,              \* DEFAULT_LEASE_TERM_MS
  CheckpointInterval,  \* DEFAULT_CHECKPOINT_INTERVAL_MS
  MaxFailures,         \* MAX_CONSECUTIVE_APPEND_FAILURES
  StallMidAdvance,     \* may time pass between a renewal and the advance after it
  RecordConsulted,     \* is takeOver given the newest recorded tick
  Premature,           \* what a caller may checkpoint too early: a market that never
                       \* published ("unpublished"), one it has not advanced ("unadvanced")
  MaxTime,             \* bound: the clock
  MaxToken,            \* bound: sessions in a behaviour
  MaxBusy,             \* bound: calls the store rejects as busy
  MaxEntries           \* bound: entries in the record

ASSUME FailoverAssumption ==
  /\ GenesisInstant \in Int
  /\ {CheckpointInterval, MaxFailures} \subseteq Nat \ {0}
  /\ {StallMidAdvance, RecordConsulted} \subseteq BOOLEAN
  /\ Premature \subseteq {"unpublished", "unadvanced"}
  /\ MaxBusy \in Nat

VARIABLES
  now, grant, highWater, entries, head, expectNext, saved, issued, author,
  pc,        \* where each node is, by the await it is at
  session,   \* its LeaderSession, or NoSession
  known,     \* options.published of each takeOver in progress
  busy,      \* how many calls the store has rejected
  published  \* history: every tick an advance handed to its node's observers

storeVars == <<grant, highWater, entries, head, expectNext, saved, issued, author>>
nodeVars  == <<pc, session, known>>
vars      == <<now, storeVars, nodeVars, busy, published>>

-----------------------------------------------------------------------------
(* Types *)

MaxSequence  == (MaxToken + 1) * (SequenceLease + MaxTime + 1)
Instants     == -Gap..(MaxTime + Gap + SeamGap)
TickStates   == [sequence : 0..MaxSequence,
                 value : [instant : Instants, epoch : 0..(EpochSpan * (MaxTime + 1))]]
CheckpointStates == [savedAt : 0..MaxTime, drawn : TickStates, pending : BOOLEAN,
                     last : TickStates \cup {NoTick}, leased : 0..MaxSequence]
SeamInstants == [from : Instants \cup {NoTick}, to : Instants]

\* The same without their bounds, and what null is not.
AnyTick       == [sequence : Int, value : [instant : Int, epoch : Int]]
AnyCheckpoint == [savedAt : Int, drawn : AnyTick, pending : BOOLEAN, last : AnyTick \cup {NoTick},
                  leased : Int]

ASSUME NullAssumption == NoTick \notin AnyTick /\ NoCheckpoint \notin AnyCheckpoint

Locations == {"out", "resuming", "idle", "renewed", "head", "seam", "append", "save", "release"}

Store == INSTANCE CoordinatedStore WITH
           Holders <- Nodes,
           Values <- [instant : Instants, epoch : 0..(EpochSpan * (MaxTime + 1))],
           SeamNotes <- SeamInstants,
           Checkpoints <- CheckpointStates,
           MaxBatch <- MaxTime

-----------------------------------------------------------------------------
(* Sessions *)

\* The session as the LeaderSession constructor leaves it.
NewSession(i, market, owed) ==
  [grant        |-> i,        \* which of `issued` its AssetLease holds
   market       |-> market,
   owed         |-> owed,     \* #pendingSeam is not null
   unrecorded   |-> <<>>,     \* #unrecorded
   failures     |-> 0,        \* #consecutiveAppendFailures
   checkpointAt |-> Never,    \* #lastCheckpointAt
   told         |-> market.last, \* the last tick its observers were handed
   asOf         |-> Never,    \* the `now` of the call in progress
   onDemand     |-> FALSE,    \* the call is checkpoint(), not advance()
   answer       |-> <<>>,     \* the ticks the call will return
   seam         |-> NoTick]   \* the marker being written

s(n) == session[n]

\* The node goes on to `where` with its session become x.
Goto(n, where, x) ==
  /\ pc' = [pc EXCEPT ![n] = where]
  /\ session' = [session EXCEPT ![n] = x]
  /\ UNCHANGED published

\* A call that is over leaves nothing of itself behind.
Over(x) == [x EXCEPT !.asOf = Never, !.onDemand = FALSE, !.answer = <<>>, !.seam = NoTick]

\* The call throws, or returns and its caller hands the ticks to the node's
\* observers.
Throw(n, x)  == Goto(n, "idle", Over(x))
Return(n, x) ==
  /\ pc' = [pc EXCEPT ![n] = "idle"]
  /\ session' = [session EXCEPT ![n] =
                   [Over(x) EXCEPT !.told = IF x.answer = <<>> THEN @ ELSE x.answer[Len(x.answer)]]]
  /\ published' = published \cup {x.answer[k] : k \in DOMAIN x.answer}

Proceed(n, where, x) == IF where = "idle" THEN Return(n, x) ELSE Goto(n, where, x)

\* The call ends with LeadershipLostError or the process dies: nobody drives
\* the session again.
Drop(n) == /\ pc' = [pc EXCEPT ![n] = "out"]
           /\ session' = [session EXCEPT ![n] = NoSession]
           /\ known' = [known EXCEPT ![n] = NoTick]
           /\ UNCHANGED published

\* Where a call goes once the record holds everything: to a checkpoint when it
\* was asked for one or one is due, back to its caller otherwise.
CheckpointDue(x) == \/ x.onDemand
                    \/ x.checkpointAt = Never
                    \/ x.asOf - x.checkpointAt >= CheckpointInterval
AfterRecording(x) == IF CheckpointDue(x) THEN "save" ELSE "idle"

\* Mutant: a due checkpoint goes before the record.
CheckpointFirst(x) ==
  IF x.unrecorded = <<>> \/ CheckpointDue(x) THEN AfterRecording(x)
  ELSE IF x.owed THEN "head" ELSE "append"

\* Where a call with ticks in hand goes: the seam it owes, then the append.
BeforeRecording(x) ==
  IF x.unrecorded = <<>> THEN AfterRecording(x) ELSE IF x.owed THEN "head" ELSE "append"

\* #consecutiveAppendFailures, which nothing reads above the bound.
Failed(x) == [x EXCEPT !.failures = IF @ < MaxFailures THEN @ + 1 ELSE @]

-----------------------------------------------------------------------------
(* takeOver *)

\* The newest tick of the record, as a caller may pass it to takeOver.
NewestTick ==
  LET at == {k \in DOMAIN entries : entries[k].kind = "tick" /\ entries[k].tick.sequence = head}
  IN IF at = {} THEN NoTick ELSE entries[CHOOSE k \in at : TRUE].tick

\* AssetLease.acquire; a held lease declines and nothing changes.
TakeOver(n) ==
  /\ pc[n] = "out"
  /\ Store!Acquire(n)
  /\ Goto(n, "resuming", NoSession)
  /\ known' = [known EXCEPT ![n] = IF RecordConsulted THEN NewestTick ELSE NoTick]
  /\ UNCHANGED busy

\* resumeMarket, then the constructor.
MyGrant(n) == CHOOSE i \in DOMAIN issued :
                /\ issued[i].holder = n
                /\ \A j \in DOMAIN issued : issued[j].holder = n => j <= i

Resume(n) ==
  /\ pc[n] = "resuming"
  /\ LET opening == Opening(saved, known[n], now, GenesisInstant) IN
       Goto(n, "idle", NewSession(MyGrant(n), opening.market, opening.kind = "seam"))
  /\ known' = [known EXCEPT ![n] = NoTick]
  /\ UNCHANGED <<now, storeVars, busy>>

-----------------------------------------------------------------------------
(* advance *)

\* renew, first: a session that is not renewed throws LeadershipLostError.
Renew(n) ==
  /\ pc[n] = "idle"
  /\ Store!Renew(s(n).grant)
  /\ IF Store!Holds(s(n).grant)
     THEN /\ Goto(n, "renewed", [s(n) EXCEPT !.asOf = now])
          /\ UNCHANGED known
     ELSE Drop(n)
  /\ UNCHANGED busy

\* Mutant: an advance that published nothing returns at once.
GenerateOnlyNew(n) ==
  /\ pc[n] = "renewed"
  /\ ~CatchUpTooLarge(s(n).market, now)
  /\ LET new == Published(s(n).market, now)
         x   == [s(n) EXCEPT !.market = Advanced(s(n).market, now), !.unrecorded = @ \o new,
                             !.answer = new]
     IN Proceed(n, IF new = <<>> THEN "idle" ELSE BeforeRecording(x), x)
  /\ UNCHANGED <<now, storeVars, known, busy>>

\* market.advance: what it publishes joins what the record does not hold yet.
\* A market past its catch-up bound throws, and the session is as it was.
Generate(n) ==
  /\ pc[n] = "renewed"
  /\ ~CatchUpTooLarge(s(n).market, now)
  /\ LET new == Published(s(n).market, now)
         x   == [s(n) EXCEPT !.market = Advanced(s(n).market, now), !.unrecorded = @ \o new,
                             !.answer = new]
     IN Proceed(n, BeforeRecording(x), x)
  /\ UNCHANGED <<now, storeVars, known, busy>>

RefuseToCatchUp(n) ==
  /\ pc[n] = "renewed"
  /\ CatchUpTooLarge(s(n).market, now)
  /\ Throw(n, s(n))
  /\ UNCHANGED <<now, storeVars, known, busy>>

-----------------------------------------------------------------------------
(* Recording: #recordPendingSeam, appendTicks, #recordRefused *)

\* recordHead and #lastRecordedInstant
ReadHead(n) ==
  /\ pc[n] = "head"
  /\ LET first == s(n).unrecorded[1]
         from  == IF NewestTick = NoTick THEN NoTick ELSE NewestTick.value.instant
     IN Goto(n, "seam", [s(n) EXCEPT !.seam =
          [lastSequence |-> head, resumesAt |-> first.sequence,
           says |-> [from |-> from, to |-> first.value.instant]]])
  /\ UNCHANGED <<now, storeVars, known, busy>>

\* recordSeam
WriteSeam(n) ==
  /\ pc[n] = "seam"
  /\ Store!RecordSeam(s(n).grant, s(n).seam)
  /\ Goto(n, "append", [s(n) EXCEPT !.owed = FALSE, !.seam = NoTick])
  /\ UNCHANGED <<known, busy>>

\* appendTicks
WriteTicks(n) ==
  /\ pc[n] = "append"
  /\ Store!AppendTicks(s(n).grant, s(n).unrecorded)
  /\ LET x == [s(n) EXCEPT !.unrecorded = <<>>, !.failures = 0]
     IN Proceed(n, AfterRecording(x), x)
  /\ UNCHANGED <<known, busy>>

\* The store took the ticks, and the process died before it heard of it: no
\* observer was told.
WriteUnheard(n) ==
  /\ pc[n] = "append"
  /\ Store!AppendTicks(s(n).grant, s(n).unrecorded)
  /\ Drop(n)
  /\ UNCHANGED busy

\* A stale fence: advance gives the lease up, checkpoint only throws.
FenceRefusesRecord(n) ==
  /\ pc[n] \in {"seam", "append"}
  /\ Store!FenceRefuses(s(n).grant)
  /\ IF s(n).onDemand
     THEN Throw(n, Failed(s(n)))
     ELSE Goto(n, "release", s(n))
  /\ UNCHANGED <<known, busy>>

\* Any other refusal is counted and the ticks are kept; at the bound advance
\* gives the lease up.
Refused(n) ==
  /\ LET x == Failed(s(n)) IN
       IF ~s(n).onDemand /\ x.failures >= MaxFailures
       THEN Goto(n, "release", x)
       ELSE Return(n, x)
  /\ UNCHANGED <<now, storeVars, known>>

\* The record refuses: the seam or the ticks do not continue it.
RecordRefuses(n) ==
  /\ \/ pc[n] = "seam" /\ ~Store!Seamable(s(n).seam)
     \/ pc[n] = "append" /\ ~\E k \in 0..Len(s(n).unrecorded) : Store!Splits(s(n).unrecorded, k)
  /\ Store!Passes(s(n).grant)
  /\ Refused(n)
  /\ UNCHANGED busy

\* The store is busy: the call rejects without having done anything.  Only
\* what was to be recorded is kept and counted; a checkpoint that rejects
\* throws out of the call.
StoreBusy(n) ==
  /\ busy < MaxBusy
  /\ busy' = busy + 1
  /\ \/ /\ pc[n] \in {"head", "seam", "append"}
        /\ Refused(n)
     \/ /\ pc[n] = "save"
        /\ Throw(n, s(n))
        /\ UNCHANGED <<now, storeVars, known>>

\* lease.release, from #recordRefused
StepAside(n) ==
  /\ pc[n] = "release"
  /\ Store!Release(s(n).grant)
  /\ Drop(n)
  /\ UNCHANGED busy

-----------------------------------------------------------------------------
(* Checkpointing *)

\* saveFenced, then lastCheckpointAt.
Save(n) ==
  /\ pc[n] = "save"
  /\ Store!SaveFenced(s(n).grant, CheckpointMarket(s(n).market, s(n).asOf))
  /\ Return(n, [s(n) EXCEPT !.checkpointAt = s(n).asOf])
  /\ UNCHANGED <<known, busy>>

\* A refused checkpoint throws out of the call, and nothing is counted.
FenceRefusesSave(n) ==
  /\ pc[n] = "save"
  /\ Store!FenceRefuses(s(n).grant)
  /\ Throw(n, s(n))
  /\ UNCHANGED <<known, busy>>

\* checkpoint(): records what is outstanding first.
CheckpointNow(n) ==
  /\ pc[n] = "idle"
  /\ s(n).market.last = NoTick => "unpublished" \in Premature
  /\ ~s(n).market.pending => "unadvanced" \in Premature
  /\ LET x == [s(n) EXCEPT !.asOf = now, !.onDemand = TRUE]
     IN Proceed(n, BeforeRecording(x), x)
  /\ UNCHANGED <<now, storeVars, known, busy>>

\* release(): leadership handed over between two calls.
HandOver(n) ==
  /\ pc[n] = "idle"
  /\ Goto(n, "release", s(n))
  /\ UNCHANGED <<now, storeVars, known, busy>>

-----------------------------------------------------------------------------
(* The world *)

\* The process dies; its lease stays in the store until it expires.
Crash(n) ==
  /\ pc[n] # "out"
  /\ Drop(n)
  /\ UNCHANGED <<now, storeVars, busy>>

Tick ==
  /\ now < MaxTime
  /\ StallMidAdvance \/ \A n \in Nodes : pc[n] # "renewed"
  /\ now' = now + 1
  /\ UNCHANGED <<storeVars, nodeVars, busy, published>>

Init ==
  /\ Store!Init
  /\ pc = [n \in Nodes |-> "out"]
  /\ session = [n \in Nodes |-> NoSession]
  /\ known = [n \in Nodes |-> NoTick]
  /\ busy = 0
  /\ published = {}

\* One stretch of a session's own code.
Step(n) ==
  \/ Resume(n)
  \/ Renew(n)
  \/ Generate(n)
  \/ RefuseToCatchUp(n)
  \/ ReadHead(n)
  \/ WriteSeam(n)
  \/ WriteTicks(n)
  \/ FenceRefusesRecord(n)
  \/ RecordRefuses(n)
  \/ StepAside(n)
  \/ Save(n)
  \/ FenceRefusesSave(n)

Next ==
  \/ Tick
  \/ \E n \in Nodes :
       \/ TakeOver(n)
       \/ Step(n)
       \/ StoreBusy(n)
       \/ CheckpointNow(n)
       \/ HandOver(n)
       \/ WriteUnheard(n)
       \/ Crash(n)

\* The store answers, and the caller's loop keeps calling advance: a call to
\* checkpoint() now and then does not keep it from doing so.
Fairness == \A n \in Nodes : WF_vars(Step(n)) /\ SF_vars(Renew(n))

Spec == Init /\ [][Next]_vars
FairSpec == Spec /\ Fairness

-----------------------------------------------------------------------------
(* Properties *)

\* Every variable has its type.
TypeOK ==
  /\ now \in 0..MaxTime
  /\ saved \in CheckpointStates \cup {NoCheckpoint}
  /\ pc \in [Nodes -> Locations]
  /\ \A n \in Nodes : pc[n] \notin {"out", "resuming"} =>
       /\ s(n).grant \in DOMAIN issued
       /\ s(n).market.drawn \in TickStates
       /\ s(n).failures \in 0..MaxFailures
  /\ known \in [Nodes -> TickStates \cup {NoTick}]
  /\ busy \in 0..MaxBusy
  /\ published \subseteq TickStates

\* No number stands for two ticks under one asset id: whatever two leaders hand
\* to their observers or write to the record at one sequence is one tick, ticks
\* that were recorded and never announced included (resume.ts 549-562,
\* failover.test.ts "never lets the record hold two ticks at one sequence").
OneTickPerSequence ==
  LET recorded == {entries[k].tick : k \in {k \in DOMAIN entries : entries[k].kind = "tick"}}
  IN \A t, u \in published \cup recorded : t.sequence = u.sequence => t = u

\* The record leads the checkpoint, always: what a checkpoint says was
\* published is in the record (failover.ts 125-128).
RecordLeadsCheckpoint ==
  saved # NoCheckpoint /\ saved.last # NoTick =>
    \E k \in DOMAIN entries : entries[k] = [kind |-> "tick", tick |-> saved.last]

\* A discontinuity is recorded, never inferred: without a seam between them
\* two recorded ticks are consecutive ticks of one stream.  With one, time and
\* key epoch still only move forward.
DiscontinuityIsRecorded ==
  \A j, k \in DOMAIN entries :
    j < k /\ entries[j].kind = "tick" /\ entries[k].kind = "tick" =>
      /\ k = j + 1 => entries[k].tick = Later(entries[j].tick, 1)
      /\ entries[j].tick.value.instant <= entries[k].tick.value.instant
      /\ entries[j].tick.value.epoch <= entries[k].tick.value.epoch

\* One refusal of a busy store is not a discontinuity (failover.ts 30-32): a
\* session that still leads has handed its observers every tick its market
\* published.
ObserversMissNothing ==
  \A n \in Nodes : pc[n] = "idle" /\ Store!Passes(s(n).grant) => s(n).told = s(n).market.last

\* No leader is wedged: a session that leads has nothing to append that the
\* record refuses, however its predecessors ended (failover.ts 125-128: "a
\* checkpoint ahead of the record would make its first append a gap, and the wedge
\* would pass from one leader to the next").
LeadersAreNotWedged ==
  \A n \in Nodes : pc[n] \in {"seam", "append"} /\ Store!Passes(s(n).grant) =>
    IF pc[n] = "seam" THEN Store!Seamable(s(n).seam)
    ELSE \E k \in 0..Len(s(n).unrecorded) : Store!Splits(s(n).unrecorded, k)

\* Ticks the store refused are appended before long, or the session steps
\* aside: a busy store does not wedge a leader (failover.ts 115-123).
RefusedTicksAreResolved ==
  \A n \in Nodes : (pc[n] = "idle" /\ s(n).unrecorded # <<>>)
                     ~> (pc[n] = "out" \/ (pc[n] = "idle" /\ s(n).unrecorded = <<>>))

=============================================================================
