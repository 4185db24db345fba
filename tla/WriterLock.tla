----------------------------- MODULE WriterLock -----------------------------
(***************************************************************************)
(* The writer lock of a state directory: StateDirectoryLock of             *)
(* packages/runtime/src/directoryLock.ts, taken by the boot of             *)
(* apps/api/src/main.ts, renewed by VenueService on its checkpoint cadence *)
(* and released by an exit handler.                                        *)
(*                                                                         *)
(* Each access to the lock file is a step of its own: between two of them  *)
(* another process may act, and the process itself may be killed or        *)
(* stalled.  Time is left out: a heartbeat is fresh, or a term old.        *)
(***************************************************************************)
EXTENDS Naturals

CONSTANTS
  Procs,       \* the services pointed at the directory, restarted for ever
  Remote,      \* those on a host of their own; the others share one
  ReusesPid,   \* those whose every start has the same pid (pid 1 of a container)
  Grants,      \* what tells two grants apart: holder, pid, host and acquiredAt
  NoLock,
  Unclaimed,   \* the grant of a process that has not claimed the directory
  Stalls,      \* the values of stalls
  MaxDepartures   \* bound: kills and stops

ASSUME LockAssumption ==
  /\ Remote \subseteq Procs
  /\ ReusesPid \subseteq Procs
  /\ NoLock \notin [proc : Procs, grant : Grants]
  /\ Unclaimed \notin Grants
  /\ Stalls \subseteq BOOLEAN
  /\ MaxDepartures \in Nat

VARIABLES
  lock,        \* venue.lock: the grant written there and whose it is
  expired,     \* its heartbeat is a full term old
  pc,          \* where each process is
  grant,       \* the grant each process claimed the directory with
  lost,        \* the processes that know they lost it
  stopping,    \* the processes asked to stop
  stalls,      \* whether a live holder may be stalled for a term
  adopted,     \* history: some process has taken a lock over
  departures

vars == <<lock, expired, pc, grant, lost, stopping, stalls, adopted, departures>>

-----------------------------------------------------------------------------

\* Holding: told that it holds the directory, and not yet that it lost it.
Running    == {"idle", "renew", "beat", "write"}
Holding(p) == pc[p] \in Running /\ p \notin lost

SameHost(p, q) == p = q \/ (p \notin Remote /\ q \notin Remote)

\* processLiveness: a pid can be looked up on its own host only, and is alive
\* there if any process has it.
Liveness(held, p) ==
  IF ~SameHost(held.proc, p) THEN "unknown"
  ELSE IF /\ pc[held.proc] # "down"
          /\ held.proc \in ReusesPid \/ grant[held.proc] = held.grant
       THEN "alive"
       ELSE "gone"

\* Mutant: a lock is only ever given up by its holder.
NeverAbandoned(held, p) == FALSE
\* A lock is abandoned if its holder is gone, or cannot be judged and let a
\* term pass.
Abandoned(held, p) ==
  \/ Liveness(held, p) = "gone"
  \/ Liveness(held, p) = "unknown" /\ expired

Grant(p) == [proc |-> p, grant |-> grant[p]]

\* Mutant: any lock is as good as its own.
SameGrantAny(held, p) == held # NoLock
\* sameGrant
SameGrant(held, p) == held = Grant(p)

\* acquiredAt: a grant no process still knows.
NewGrant(g) ==
  /\ g \in Grants
  /\ \A q \in Procs : grant[q] # g
  /\ lock # NoLock => lock.grant # g

Take(p, g) ==
  /\ grant' = [grant EXCEPT ![p] = g]
  /\ lock' = [proc |-> p, grant |-> g]
  /\ expired' = FALSE

\* The process is gone; one that is refused, or ends, is as if it had never been.
Gone(p) ==
  /\ pc' = [pc EXCEPT ![p] = "down"]
  /\ grant' = [grant EXCEPT ![p] = Unclaimed]
  /\ lost' = lost \ {p}
  /\ stopping' = stopping \ {p}

Goto(p, where) == pc' = [pc EXCEPT ![p] = where]

-----------------------------------------------------------------------------
(* acquire *)

Start(p) ==
  /\ pc[p] = "down"
  /\ Goto(p, "claim")
  /\ UNCHANGED <<lock, expired, grant, lost, stopping, stalls, adopted, departures>>

\* Mutant: the lock file is renamed into place.
ClaimByRename(p) ==
  /\ pc[p] = "claim"
  /\ \E g \in Grants : NewGrant(g) /\ Take(p, g)
  /\ Goto(p, "idle")
  /\ UNCHANGED <<lost, stopping, stalls, adopted, departures>>
\* createFileExclusively: link fails if there is a lock file.
Claim(p) ==
  /\ pc[p] = "claim"
  /\ IF lock = NoLock
     THEN (\E g \in Grants : NewGrant(g) /\ Take(p, g)) /\ Goto(p, "idle")
     ELSE Goto(p, "judge") /\ UNCHANGED <<lock, expired, grant>>
  /\ UNCHANGED <<lost, stopping, stalls, adopted, departures>>

\* The lock there is read and judged; one that has gone meanwhile refuses too.
Judge(p) ==
  /\ pc[p] = "judge"
  /\ IF lock # NoLock /\ Abandoned(lock, p)
     THEN Goto(p, "adopt") /\ UNCHANGED <<grant, lost, stopping>>
     ELSE Gone(p)
  /\ UNCHANGED <<lock, expired, stalls, adopted, departures>>

\* replaceFileAtomically: whatever the lock has become.
Adopt(p) ==
  /\ pc[p] = "adopt"
  /\ \E g \in Grants : NewGrant(g) /\ Take(p, g)
  /\ Goto(p, "confirm")
  /\ adopted' = TRUE
  /\ UNCHANGED <<lost, stopping, stalls, departures>>

\* The confirming read.
Confirm(p) ==
  /\ pc[p] = "confirm"
  /\ IF SameGrant(lock, p)
     THEN Goto(p, "idle") /\ UNCHANGED <<grant, lost, stopping>>
     ELSE Gone(p)
  /\ UNCHANGED <<lock, expired, stalls, adopted, departures>>

-----------------------------------------------------------------------------
(* The holder *)

\* The checkpoint cadence comes due, at the end of a pass.  Unless processes
\* stall, the write of a heartbeat does not wait a whole interval after its read.
CheckpointDue(p) ==
  /\ pc[p] = "idle"
  /\ ~stalls => \A q \in Procs : pc[q] # "beat"
  /\ p \notin lost
  /\ Goto(p, "renew")
  /\ UNCHANGED <<lock, expired, grant, lost, stopping, stalls, adopted, departures>>

\* stop: one last checkpoint.
Stop(p) ==
  /\ pc[p] = "idle"
  /\ departures < MaxDepartures
  /\ departures' = departures + 1
  /\ stopping' = stopping \cup {p}
  /\ Goto(p, "renew")
  /\ UNCHANGED <<lock, expired, grant, lost, stalls, adopted>>

AfterCheckpoint(p) == IF p \in stopping THEN "exit" ELSE "idle"

\* renew: a holder whose grant is not in the file has lost it for good.
Renew(p) ==
  /\ pc[p] = "renew"
  /\ IF p \notin lost /\ SameGrant(lock, p)
     THEN Goto(p, "beat") /\ UNCHANGED lost
     ELSE Goto(p, AfterCheckpoint(p)) /\ lost' = lost \cup {p}
  /\ UNCHANGED <<lock, expired, grant, stopping, stalls, adopted, departures>>

\* The heartbeat replaces the file, whatever it has become since it was read.
Beat(p) ==
  /\ pc[p] = "beat"
  /\ lock' = Grant(p)
  /\ expired' = FALSE
  /\ Goto(p, "write")
  /\ UNCHANGED <<grant, lost, stopping, stalls, adopted, departures>>

\* The checkpoints, the trim and the bars.
Write(p) ==
  /\ pc[p] = "write"
  /\ Goto(p, AfterCheckpoint(p))
  /\ UNCHANGED <<lock, expired, grant, lost, stopping, stalls, adopted, departures>>

\* releaseSync: the lock is read, and unlinked if it is this grant.
Exit(p) ==
  /\ pc[p] = "exit"
  /\ IF p \notin lost /\ SameGrant(lock, p)
     THEN Goto(p, "unlink") /\ UNCHANGED <<grant, lost, stopping>>
     ELSE Gone(p)
  /\ UNCHANGED <<lock, expired, stalls, adopted, departures>>

Unlink(p) ==
  /\ pc[p] = "unlink"
  /\ lock' = NoLock
  /\ Gone(p)
  /\ UNCHANGED <<expired, stalls, adopted, departures>>

-----------------------------------------------------------------------------
(* The world *)

Kill(p) ==
  /\ pc[p] # "down"
  /\ departures < MaxDepartures
  /\ departures' = departures + 1
  /\ Gone(p)
  /\ UNCHANGED <<lock, expired, stalls, adopted>>

\* A term passes without a heartbeat: the process that took the lock is gone, or
\* is stalled.
TermPasses ==
  /\ lock # NoLock
  /\ ~expired
  /\ stalls \/ ~SameGrant(lock, lock.proc)
  /\ expired' = TRUE
  /\ UNCHANGED <<lock, pc, grant, lost, stopping, stalls, adopted, departures>>

Init ==
  /\ lock = NoLock
  /\ expired = FALSE
  /\ pc = [p \in Procs |-> "down"]
  /\ grant = [p \in Procs |-> Unclaimed]
  /\ lost = {} /\ stopping = {}
  /\ stalls \in Stalls
  /\ adopted = FALSE
  /\ departures = 0

Acquire(p) == Start(p) \/ Claim(p) \/ Judge(p) \/ Adopt(p) \/ Confirm(p)
Release(p) == Exit(p) \/ Unlink(p)
Heartbeat(p) == Renew(p) \/ Beat(p) \/ Write(p)
Work(p) == Acquire(p) \/ Heartbeat(p) \/ Release(p)

Next ==
  \/ \E p \in Procs : Work(p) \/ CheckpointDue(p) \/ Stop(p) \/ Kill(p)
  \/ TermPasses

\* A process that runs goes on, its service manager restarts it whenever it has
\* exited, its scheduler comes to its cadence again and again, and terms end.
Fairness ==
  /\ \A p \in Procs : WF_vars(Work(p)) /\ SF_vars(CheckpointDue(p))
  /\ WF_vars(TermPasses)

Spec == Init /\ [][Next]_vars
FairSpec == Spec /\ Fairness

-----------------------------------------------------------------------------
(* Properties *)

Ending == {"exit", "unlink"}
Where == {"down", "claim", "judge", "adopt", "confirm"} \cup Running \cup Ending

\* What the variables hold.
TypeOK ==
  /\ lock \in {NoLock} \cup [proc : Procs, grant : Grants]
  /\ pc \in [Procs -> Where]
  /\ grant \in [Procs -> Grants \cup {Unclaimed}]
  /\ \A p \in Procs : pc[p] \in {"confirm"} \cup Running \cup Ending => grant[p] \in Grants
  /\ lost \subseteq Procs
  /\ stopping \subseteq Procs
  /\ stalls \in BOOLEAN /\ expired \in BOOLEAN /\ adopted \in BOOLEAN
  /\ departures \in Nat

\* Until some process has judged a lock abandoned and adopted it, no two
\* processes are told that they hold the directory, however they start, renew,
\* stop and are killed: a second start is refused by link and by the judgement
\* of a live holder.
OneHolderUntilAdoption ==
  ~adopted => \A p, q \in Procs : Holding(p) /\ Holding(q) => p = q

\* With no adoption, a holder that has not been told otherwise finds its
\* lock in the file: nobody removes or replaces the lock of a live process.
LockIsTheHolders ==
  ~adopted => \A p \in Procs : Holding(p) => lock = Grant(p)

\* Two holders do not last: where no process stalls, a heartbeat of one of them
\* finds the other's grant.
TwoHolders == \E p, q \in Procs : p # q /\ Holding(p) /\ Holding(q)
TwoHoldersEnd == (TwoHolders /\ ~stalls) ~> ~TwoHolders

\* directoryLock.ts, of the takeover: "otherwise a SIGKILL under Restart=always
\* would leave a directory no process could ever open again".
DirectoryReopens == ~stalls => []<>(\E p \in Procs : Holding(p))

=============================================================================
