------------------------------ MODULE Lifecycle ------------------------------
(***************************************************************************)
(* How one venue process schedules its publish passes, and what an         *)
(* operator may ask of it while they run: registering a market, retiring   *)
(* one, steering one from the laboratory, stopping the process.            *)
(*                                                                         *)
(* A pass runs without a pause from its timer to its checkpoint: the       *)
(* advance, the record, the feed and the chain are one turn of the event   *)
(* loop.  Only a due checkpoint is awaited, file by file, and that is      *)
(* where every other handler gets in.  Three handlers write checkpoints    *)
(* (the pass, stop() and retire()), each from a plan made beforehand.      *)
(*                                                                         *)
(* The writer lock is WriterLock's subject and the seam's arithmetic       *)
(* HostedMarket's; here a seam only moves the market past its record.      *)
(***************************************************************************)
EXTENDS Naturals, Sequences, FiniteSets

CONSTANTS
  Assets,      \* the markets that may ever exist
  Catalogue,   \* those the deployment ships with
  Retirable,   \* those an operator may retire
  Steered,     \* those the laboratory may push
  Window,      \* ticks in a full commitment window
  MaxTicks,    \* bound: ticks in each market's record
  None         \* no plan, no request

ASSUME LifecycleAssumption ==
  /\ Catalogue \subseteq Assets /\ Retirable \subseteq Assets /\ Steered \subseteq Assets
  /\ Window \in Nat \ {0} /\ MaxTicks \in [Assets -> Nat]
  /\ None \notin Assets /\ {"pass", "stop"} \cap Assets = {}

VARIABLES
  process,     \* "down", "up", "stopping" or "stopped"
  timers,      \* timeouts pending for the scheduler
  plan,        \* the checkpoint each writer is putting on disk, or None
  task,        \* how far the operator's request about a market has come
  lab,         \* the market whose push waits between advances, or None
  hosted,      \* the venue's markets
  retired,     \* the markets this process knows to be retired
  refused,     \* markets the record refused a regenerated tick of
  position,    \* the last sequence each engine has generated
  armed,       \* markets with a script still to play
  mark,        \* markets marked as controlled since their checkpoint
  record,      \* on disk: per tick, whether its sign was chosen
  covered,     \* the sequence the open commitment window starts after
  checkpoint,  \* on disk: the market's state record, or None
  registered,  \* on disk: the registry's files
  overlay,     \* on disk: the markets stored as retired
  everRetired  \* history: every market retire() has dropped

memory == <<process, timers, plan, task, lab, hosted, retired, refused, position, armed, mark>>
disk == <<record, covered, checkpoint, registered, overlay>>
vars == <<memory, disk, everRetired>>

Writers == {"pass", "stop"} \cup Assets
StateRecord == [sequence : Nat, controlled : BOOLEAN]
Plans == [says : UNION {[markets -> StateRecord] : markets \in SUBSET Assets}, left : SUBSET Assets]

ASSUME NoneIsNoPlan == None \notin Plans

PlanTyped(p) ==
  /\ p.left \subseteq DOMAIN p.says /\ DOMAIN p.says \subseteq Assets
  /\ \A a \in DOMAIN p.says : p.says[a] \in StateRecord /\ p.says[a].sequence <= Len(record[a])

TypeOK ==
  /\ process \in {"down", "up", "stopping", "stopped"}
  /\ timers \in 0..1
  /\ \A w \in Writers : plan[w] = None \/ PlanTyped(plan[w])
  /\ task \in [Assets -> {"idle", "retiring", "checkpointing", "storing", "hosting"}]
  /\ lab \in Steered \cup {None}
  /\ hosted \subseteq Assets /\ registered \subseteq Assets
  /\ refused \cap hosted = {} /\ retired \cap hosted = {}
  /\ armed \subseteq mark
  /\ \A a \in Assets :
       /\ record[a] \in Seq(BOOLEAN) /\ Len(record[a]) <= MaxTicks[a]
       /\ position[a] <= Len(record[a]) /\ covered[a] <= Len(record[a])
       /\ checkpoint[a] = None \/
            (checkpoint[a] \in StateRecord /\ checkpoint[a].sequence <= Len(record[a]))
  /\ overlay \subseteq everRetired

-----------------------------------------------------------------------------
(* What the handlers share                                                 *)

Last(a) == Len(record[a])
Running == process \in {"up", "stopping", "stopped"}
InFlight == plan["pass"] # None

\* #planCheckpoint: what every hosted market's checkpoint will say.
PlanOf(markets, at, marked) ==
  [says |-> [a \in markets |-> [sequence |-> at[a], controlled |-> a \in marked]],
   left |-> markets]
PlanNow == PlanOf(hosted, position, mark)

\* checkpointTaken: a mark is cleared unless its script still runs.
Unmarked(w) == mark \ (DOMAIN plan[w].says \ armed)

\* schedule(): a timer unless the process is stopping.
Scheduled(pending) == IF process = "up" THEN pending + 1 ELSE pending

\* Continuations of a finished pass run before the next timer does.
Waiting ==
  \/ lab # None
  \/ \E a \in Assets : task[a] = "retiring"
  \/ process = "stopping" /\ plan["stop"] = None

Done(w) == plan[w] # None /\ plan[w].left = {}

-----------------------------------------------------------------------------
(* Boot, exit and death                                                    *)

Init ==
  /\ process = "down" /\ timers = 0
  /\ plan = [w \in Writers |-> None]
  /\ task = [a \in Assets |-> "idle"]
  /\ lab = None
  /\ hosted = {} /\ retired = {} /\ refused = {} /\ armed = {} /\ mark = {}
  /\ position = [a \in Assets |-> 0]
  /\ record = [a \in Assets |-> <<>>]
  /\ covered = [a \in Assets |-> 0]
  /\ checkpoint = [a \in Assets |-> None]
  /\ registered = {} /\ overlay = {} /\ everRetired = {}

\* resumeMarket continues from a checkpoint, or moves past the record.
MovesPast(a, stale) ==
  \/ stale
  \/ checkpoint[a] = None
  \/ checkpoint[a].controlled

\* applyOverlays, then start(): resume every market not retired.
Boot(stale) ==
  LET markets == (Catalogue \cup registered) \ overlay IN
  /\ process = "down"
  /\ process' = "up" /\ timers' = 1
  /\ hosted' = markets /\ retired' = overlay
  /\ position' = [a \in Assets |->
       IF a \notin markets \/ MovesPast(a, stale) THEN Last(a) ELSE checkpoint[a].sequence]
  /\ covered' = [a \in Assets |->
       IF a \in markets /\ MovesPast(a, stale) THEN Last(a) ELSE covered[a]]
  /\ UNCHANGED <<plan, task, lab, refused, armed, mark, record, checkpoint, registered, overlay,
                 everRetired>>

Gone ==
  /\ process' = "down" /\ timers' = 0
  /\ plan' = [w \in Writers |-> None]
  /\ task' = [a \in Assets |-> "idle"]
  /\ lab' = None
  /\ hosted' = {} /\ retired' = {} /\ refused' = {} /\ armed' = {} /\ mark' = {}
  /\ position' = [a \in Assets |-> Last(a)]

Kill ==
  /\ Running /\ Gone
  /\ UNCHANGED <<disk, everRetired>>

\* The server closes once its requests are answered.
Exit ==
  /\ process = "stopped"
  /\ lab = None /\ \A a \in Assets : task[a] = "idle"
  /\ Gone
  /\ UNCHANGED <<disk, everRetired>>

-----------------------------------------------------------------------------
(* The scheduler and its pass                                              *)

Behind(a) == position[a] < Last(a)

\* A regenerated tick carries the keystream's sign: one whose sign was chosen
\* does not come back, and the comparing append refuses it.
Refuses(a) == \E s \in position[a] + 1 .. Last(a) : record[a][s]

\* #pass, from the advance to the chain: replay what the record holds, or
\* publish one tick in each of the markets where one is due.
Publishes(due) ==
  LET losing == {a \in hosted : Refuses(a)}
      newly == {a \in due : ~Behind(a)}
  IN
  /\ record' = [a \in Assets |->
       IF a \in newly THEN Append(record[a], a \in armed) ELSE record[a]]
  /\ position' = [a \in Assets |-> Len(record'[a])]
  /\ covered' = [a \in Assets |->
       IF a \in newly THEN Len(record'[a]) - ((Len(record'[a]) - covered[a]) % Window) ELSE covered[a]]
  /\ hosted' = hosted \ losing
  /\ refused' = refused \cup losing
  /\ armed' = armed \ newly

\* The timer fires: a pass, and its checkpoint when one is due.
Pass(due, checkpointing) ==
  /\ timers > 0 /\ ~Waiting
  /\ \A a \in due : Behind(a) \/ Last(a) < MaxTicks[a]
  /\ Publishes(due)
  /\ IF checkpointing
     THEN /\ plan' = [plan EXCEPT !["pass"] = PlanOf(hosted', position', mark)]
          /\ timers' = timers - 1
     ELSE /\ timers' = Scheduled(timers - 1)
          /\ UNCHANGED plan
  /\ UNCHANGED <<process, task, lab, retired, mark, checkpoint, registered, overlay, everRetired>>

\* One file of a checkpoint replaces the one before it.
Land(w, a) ==
  /\ plan[w] # None /\ a \in plan[w].left
  /\ checkpoint' = [checkpoint EXCEPT ![a] = plan[w].says[a]]
  /\ plan' = [plan EXCEPT ![w].left = @ \ {a}]
  /\ UNCHANGED <<process, timers, task, lab, hosted, retired, refused, position, armed, mark,
                 record, covered, registered, overlay, everRetired>>

PassEnds ==
  /\ Done("pass")
  /\ mark' = Unmarked("pass")
  /\ plan' = [plan EXCEPT !["pass"] = None]
  /\ timers' = Scheduled(timers)
  /\ UNCHANGED <<process, task, lab, hosted, retired, refused, position, armed, disk, everRetired>>

\* A checkpoint that cannot be written: the pass is counted as failed and the
\* chain of passes continues; a retirement is refused; stop() rejects.
WriteFails(w) ==
  /\ plan[w] # None
  /\ IF w = "stop" THEN Gone
     ELSE /\ plan' = [plan EXCEPT ![w] = None]
          /\ timers' = IF w = "pass" THEN Scheduled(timers) ELSE timers
          /\ task' = IF w = "pass" THEN task ELSE [task EXCEPT ![w] = "idle"]
          /\ UNCHANGED <<process, lab, hosted, retired, refused, position, armed, mark>>
  /\ UNCHANGED <<disk, everRetired>>

-----------------------------------------------------------------------------
(* stop()                                                                  *)

\* stopping = true, and nothing to wait for: plan at once.
Stop ==
  /\ process = "up"
  /\ process' = "stopping"
  /\ IF InFlight THEN UNCHANGED <<timers, plan>>
     ELSE timers' = 0 /\ plan' = [plan EXCEPT !["stop"] = PlanNow]
  /\ UNCHANGED <<task, lab, hosted, retired, refused, position, armed, mark, disk, everRetired>>

\* Mutant: stop() waits for the next pass instead of the one in flight.
StopAfterNext ==
  /\ process = "stopping" /\ plan["stop"] = None /\ timers > 0
  /\ timers' = 0
  /\ plan' = [plan EXCEPT !["stop"] = PlanNow]
  /\ UNCHANGED <<process, task, lab, hosted, retired, refused, position, armed, mark, disk,
                 everRetired>>

\* The pass in flight has ended: clear the timer, then checkpoint.
StopPlans ==
  /\ process = "stopping" /\ plan["stop"] = None /\ ~InFlight
  /\ timers' = 0
  /\ plan' = [plan EXCEPT !["stop"] = PlanNow]
  /\ UNCHANGED <<process, task, lab, hosted, retired, refused, position, armed, mark, disk,
                 everRetired>>

\* sealAll: every open window closes short.
StopEnds ==
  /\ process = "stopping" /\ Done("stop")
  /\ process' = "stopped"
  /\ mark' = Unmarked("stop")
  /\ plan' = [plan EXCEPT !["stop"] = None]
  /\ covered' = [a \in Assets |-> IF a \in hosted THEN Last(a) ELSE covered[a]]
  /\ UNCHANGED <<timers, task, lab, hosted, retired, refused, position, armed, record, checkpoint,
                 registered, overlay, everRetired>>

-----------------------------------------------------------------------------
(* Retiring a market                                                       *)

RetireAsked(a) ==
  /\ process = "up" /\ a \in hosted /\ task[a] = "idle"
  /\ task' = [task EXCEPT ![a] = "retiring"]
  /\ UNCHANGED <<process, timers, plan, lab, hosted, retired, refused, position, armed, mark, disk,
                 everRetired>>

RetirePlans(a) ==
  /\ task[a] = "retiring" /\ ~InFlight
  /\ task' = [task EXCEPT ![a] = "checkpointing"]
  /\ plan' = [plan EXCEPT ![a] = PlanNow]
  /\ UNCHANGED <<process, timers, lab, hosted, retired, refused, position, armed, mark, disk,
                 everRetired>>

\* Mutant: retire() seals through what its checkpoint says.
RetireSealsToCheckpoint(a) ==
  /\ task[a] = "checkpointing" /\ Done(a)
  /\ mark' = Unmarked(a)
  /\ covered' = [covered EXCEPT ![a] =
       IF a \in DOMAIN plan[a].says THEN plan[a].says[a].sequence ELSE @]
  /\ plan' = [plan EXCEPT ![a] = None]
  /\ hosted' = hosted \ {a}
  /\ IF a \in hosted
     THEN /\ retired' = retired \cup {a} /\ everRetired' = everRetired \cup {a}
          /\ task' = [task EXCEPT ![a] = "storing"]
     ELSE /\ task' = [task EXCEPT ![a] = "idle"]
          /\ UNCHANGED <<retired, everRetired>>
  /\ UNCHANGED <<process, timers, lab, refused, position, armed, record, checkpoint, registered,
                 overlay>>

\* Sealed, then unhosted and forgotten; the record may have dropped it first.
RetireEnds(a) ==
  /\ task[a] = "checkpointing" /\ Done(a)
  /\ mark' = Unmarked(a)
  /\ plan' = [plan EXCEPT ![a] = None]
  /\ covered' = [covered EXCEPT ![a] = Last(a)]
  /\ hosted' = hosted \ {a}
  /\ IF a \in hosted
     THEN /\ retired' = retired \cup {a} /\ everRetired' = everRetired \cup {a}
          /\ task' = [task EXCEPT ![a] = "storing"]
     ELSE /\ task' = [task EXCEPT ![a] = "idle"]
          /\ UNCHANGED <<retired, everRetired>>
  /\ UNCHANGED <<process, timers, lab, refused, position, armed, record, checkpoint, registered,
                 overlay>>

\* The controller stores the overlay once the venue has dropped the market.
StoreRetirement(a) ==
  /\ task[a] = "storing"
  /\ overlay' = overlay \cup {a}
  /\ task' = [task EXCEPT ![a] = "idle"]
  /\ UNCHANGED <<process, timers, plan, lab, hosted, retired, refused, position, armed, mark,
                 record, covered, checkpoint, registered, everRetired>>

-----------------------------------------------------------------------------
(* Registering a market, and steering one                                  *)

\* Mutant: The venue hosts a new market before the registry has stored it.
HostBeforeStoring(a) ==
  /\ process = "up" /\ a \notin Catalogue \cup registered \cup hosted
  /\ hosted' = hosted \cup {a}
  /\ UNCHANGED <<process, timers, plan, task, lab, retired, refused, position, armed, mark, disk,
                 everRetired>>

\* The registry first: an exclusive file, then the venue.
Register(a) ==
  /\ process = "up" /\ a \notin Catalogue \cup registered
  /\ registered' = registered \cup {a}
  /\ task' = [task EXCEPT ![a] = "hosting"]
  /\ UNCHANGED <<process, timers, plan, lab, hosted, retired, refused, position, armed, mark,
                 record, covered, checkpoint, overlay, everRetired>>

\* host(): its awaits are over; a pass may be in flight by now.
Host(a) ==
  /\ task[a] = "hosting"
  /\ hosted' = hosted \cup {a}
  /\ task' = [task EXCEPT ![a] = "idle"]
  /\ UNCHANGED <<process, timers, plan, lab, retired, refused, position, armed, mark, disk,
                 everRetired>>

SteerAsked(a) ==
  /\ process = "up" /\ lab = None /\ a \in hosted /\ ~Behind(a)
  /\ lab' = a
  /\ UNCHANGED <<process, timers, plan, task, hosted, retired, refused, position, armed, mark, disk,
                 everRetired>>

\* Mutant: wake() without betweenAdvances: a push does not wait for the pass.
SteerAtOnce ==
  /\ lab # None
  /\ lab' = None
  /\ armed' = armed \cup ({lab} \cap hosted) /\ mark' = mark \cup ({lab} \cap hosted)
  /\ timers' = IF timers > 0 THEN timers ELSE Scheduled(0)
  /\ UNCHANGED <<process, plan, task, hosted, retired, refused, position, disk, everRetired>>

\* betweenAdvances: arm with no pass in flight, and wake the scheduler, whose
\* timer is replaced by one for now.
SteerNow ==
  /\ lab # None /\ ~InFlight
  /\ lab' = None
  /\ IF lab \in hosted
     THEN armed' = armed \cup {lab} /\ mark' = mark \cup {lab}
     ELSE UNCHANGED <<armed, mark>>
  /\ timers' = IF timers > 0 THEN timers ELSE Scheduled(0)
  /\ UNCHANGED <<process, plan, task, hosted, retired, refused, position, disk, everRetired>>

-----------------------------------------------------------------------------
Answer(a) ==
  \/ RetirePlans(a) \/ RetireEnds(a) \/ StoreRetirement(a) \/ Host(a)

Next ==
  \/ \E stale \in BOOLEAN : Boot(stale)
  \/ Kill \/ Exit
  \/ \E due \in SUBSET hosted, checkpointing \in BOOLEAN : Pass(due, checkpointing)
  \/ \E w \in Writers, a \in Assets : Land(w, a)
  \/ \E w \in Writers : WriteFails(w)
  \/ PassEnds
  \/ Stop \/ StopPlans \/ StopEnds
  \/ \E a \in Retirable : RetireAsked(a)
  \/ \E a \in Assets : Answer(a) \/ Register(a)
  \/ \E a \in Steered : SteerAsked(a)
  \/ SteerNow

\* The event loop: a file write settles, and a settled promise continues.
Continues ==
  \/ \E w \in Writers, a \in Assets : Land(w, a)
  \/ PassEnds \/ StopPlans \/ StopEnds \/ SteerNow
  \/ \E a \in Assets : Answer(a)

Spec == Init /\ [][Next]_vars /\ WF_vars(Continues)

-----------------------------------------------------------------------------
(* Properties                                                              *)

\* One loop of passes while the process is up: either a timer is pending or a
\* pass is in flight, never neither (nothing would publish again) and never
\* both (two passes would advance the same markets).  wake(), a failed pass
\* and a handler that waits between advances all keep it so.
OneLoop ==
  process = "up" => timers + (IF InFlight THEN 1 ELSE 0) = 1

\* Nothing is published behind a seal: the chain of a retired market ends at its
\* last tick whatever passed between the request's awaits, and once stop()
\* returns that of every market does, with no timer left to add a tick behind it.
SealedAtTheLastTick ==
  /\ \A a \in retired : covered[a] = Last(a)
  /\ process = "stopped" => timers = 0 /\ ~InFlight /\ \A a \in hosted : covered[a] = Last(a)

\* A market that has printed a price is one the next process will know, so
\* no death between storing and hosting loses a market that has a record.
PrintedIsKnown ==
  \A a \in Assets : Last(a) > 0 => a \in Catalogue \cup registered

\* A request to stop ends, or the process is gone: no handler still waiting
\* for its turn, and no timer the last pass set, keeps stop() from returning.
StopReturns ==
  process = "stopping" ~> process \in {"stopped", "down"}

\* "Retirement is final": a market retire() dropped is never hosted again.
RetirementIsFinal ==
  everRetired \cap hosted = {}

\* "A restart seams instead of regenerating ticks the keystream would sign
\* differently": the record never refuses a steered market's regenerated tick.
SteeredTicksAreNotRegenerated ==
  refused = {}
=============================================================================
