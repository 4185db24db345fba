--------------------------- MODULE LifecycleProofs ---------------------------
(***************************************************************************)
(* What Lifecycle promises for any set of markets, any catalogue, any      *)
(* window and any bound on the record.                                     *)
(*                                                                         *)
(* None of the three properties is inductive.  OneLoop needs to know that  *)
(* only an up process has a timer and that stop() plans with no pass in    *)
(* flight (Scheduler); PrintedIsKnown that whatever is hosted was stored   *)
(* first (Known); SealedAtTheLastTick both, and that a market between its  *)
(* registry file and its hosting has no record and no seal (Requests).     *)
(***************************************************************************)
EXTENDS Lifecycle, TLAPS

PlanShaped(p) ==
  /\ p = [says |-> p.says, left |-> p.left]
  /\ p.says = [a \in DOMAIN p.says |-> p.says[a]]
  /\ DOMAIN p.says \subseteq Assets /\ p.left \subseteq DOMAIN p.says
  /\ \A a \in DOMAIN p.says : p.says[a] \in StateRecord

Types ==
  /\ process \in {"down", "up", "stopping", "stopped"}
  /\ timers \in Nat
  /\ plan = [w \in Writers |-> plan[w]]
  /\ \A w \in Writers : plan[w] = None \/ PlanShaped(plan[w])
  /\ task \in [Assets -> {"idle", "retiring", "checkpointing", "storing", "hosting"}]
  /\ lab \in Steered \cup {None}
  /\ hosted \subseteq Assets /\ retired \subseteq Assets /\ refused \subseteq Assets
  /\ position \in [Assets -> Nat]
  /\ record \in [Assets -> Seq(BOOLEAN)]
  /\ covered \in [Assets -> Nat]
  /\ checkpoint \in [Assets -> StateRecord \cup {None}]
  /\ registered \subseteq Assets /\ overlay \subseteq Assets

\* Nothing in memory or on disk is ahead of the record it was taken from, and a
\* checkpoint being written says so of every market it holds.
NothingIsAhead ==
  /\ \A a \in Assets :
       /\ position[a] <= Last(a) /\ covered[a] <= Last(a) /\ Last(a) <= MaxTicks[a]
       /\ checkpoint[a] # None => checkpoint[a].sequence <= Last(a)
  /\ \A w \in Writers : plan[w] # None =>
       \A a \in DOMAIN plan[w].says : plan[w].says[a].sequence <= Last(a)

\* Where the one loop of passes is: a process that is not up has no timer left,
\* and stop() plans its checkpoint with no pass in flight.
Scheduler ==
  /\ OneLoop
  /\ process # "up" => timers = 0
  /\ process \in {"down", "stopped"} => ~InFlight
  /\ plan["stop"] # None => process = "stopping" /\ ~InFlight

\* The registry has stored every market before the venue hosts it, and a market
\* it has not stored has left nothing anywhere.
Known ==
  /\ hosted \cup retired \cup refused \cup everRetired \subseteq Catalogue \cup registered
  /\ \A a \in Assets \ (Catalogue \cup registered) : Last(a) = 0 /\ task[a] = "idle"

\* How far each request has come: a market that is still to be hosted is nowhere
\* in the process and has no record, one whose retirement is being stored was
\* dropped, and exactly the retirement that checkpoints has a plan.
Requests ==
  /\ \A a \in Assets : plan[a] # None => task[a] = "checkpointing"
  /\ \A a \in Assets : task[a] = "storing" => a \in retired
  /\ \A a \in Assets : task[a] = "hosting" =>
       a \notin hosted \cup retired \cup refused \cup overlay \cup Catalogue /\ Last(a) = 0
  /\ overlay \subseteq everRetired /\ retired \subseteq everRetired
  /\ process # "down" => overlay \subseteq retired
  /\ retired \cap hosted = {} /\ refused \cap hosted = {}
  /\ armed \subseteq mark
  /\ process = "down" =>
       /\ plan = [w \in Writers |-> None] /\ task = [a \in Assets |-> "idle"] /\ lab = None
       /\ hosted = {} /\ retired = {} /\ refused = {} /\ armed = {}

\* SealedAtTheLastTick, of the retired markets the process is down with too.
Sealed ==
  /\ \A a \in retired \cup overlay : covered[a] = Last(a)
  /\ process = "stopped" => \A a \in hosted : covered[a] = Last(a)

IInv == Types /\ NothingIsAhead /\ Scheduler /\ Known /\ Requests /\ Sealed

-----------------------------------------------------------------------------
(* Plans, and what a pass does to a record *)

\* What a checkpoint plan says: of the markets it was made for, where they stood.
LEMMA PlanFacts ==
  ASSUME NEW markets \in SUBSET Assets, NEW at \in [Assets -> Nat], NEW marked
  PROVE  /\ PlanShaped(PlanOf(markets, at, marked))
         /\ PlanOf(markets, at, marked) # None
         /\ DOMAIN PlanOf(markets, at, marked).says = markets
         /\ \A a \in markets : PlanOf(markets, at, marked).says[a].sequence = at[a]
<1> DEFINE says == [a \in markets |-> [sequence |-> at[a], controlled |-> a \in marked]]
<1>1. \A a \in markets : says[a] \in StateRecord /\ says[a].sequence = at[a]
  <2> SUFFICES ASSUME NEW a \in markets PROVE says[a] \in StateRecord /\ says[a].sequence = at[a]
    OBVIOUS
  <2>1. says[a] = [sequence |-> at[a], controlled |-> a \in marked]
    OBVIOUS
  <2>2. at[a] \in Nat /\ (a \in marked) \in BOOLEAN
    OBVIOUS
  <2> QED BY <2>1, <2>2 DEF StateRecord
<1>2. PlanOf(markets, at, marked) = [says |-> says, left |-> markets]
  BY DEF PlanOf
<1>3. DOMAIN says = markets /\ says \in [markets -> StateRecord]
  BY <1>1
<1> HIDE DEF says
<1>4. [says |-> says, left |-> markets] \in Plans
  BY <1>3 DEF Plans
<1> QED BY <1>1, <1>2, <1>3, <1>4, NoneIsNoPlan DEF PlanShaped

\* A remainder is no larger than what it remains of.
LEMMA RemainderFacts ==
  ASSUME NEW x \in Nat, NEW w \in Nat \ {0}
  PROVE  x % w \in Nat /\ x % w <= x
<1>1. x % w \in Nat /\ x \div w \in Nat /\ x = w * (x \div w) + (x % w)
  OBVIOUS
<1>2. w * (x \div w) \in Nat
  BY <1>1
<1> QED BY <1>1, <1>2

\* Appending a flag gives a sequence of flags, longer by one.
LEMMA AppendFacts ==
  ASSUME NEW r \in Seq(BOOLEAN), NEW b \in BOOLEAN
  PROVE  Append(r, b) \in Seq(BOOLEAN) /\ Len(Append(r, b)) = Len(r) + 1
OBVIOUS

\* A pass adds at most a tick to the record of a hosted market within its bound,
\* and leaves every market where its record ends.
LEMMA PublishFacts ==
  ASSUME Types, NothingIsAhead, NEW due \in SUBSET hosted, Publishes(due),
         \A a \in due : Behind(a) \/ Last(a) < MaxTicks[a]
  PROVE  /\ record' \in [Assets -> Seq(BOOLEAN)]
         /\ position' = [a \in Assets |-> Last(a)'] /\ position' \in [Assets -> Nat]
         /\ covered' \in [Assets -> Nat]
         /\ \A a \in Assets : /\ Last(a) \in Nat /\ Last(a)' \in Nat
                              /\ Last(a) <= Last(a)' /\ Last(a)' <= MaxTicks[a]
                              /\ covered[a]' <= Last(a)'
         /\ \A a \in Assets \ hosted : record'[a] = record[a] /\ covered'[a] = covered[a]
         /\ hosted' \subseteq hosted /\ refused' \subseteq refused \cup hosted
         /\ refused \cap hosted = {} => refused' \cap hosted' = {}
         /\ armed' \subseteq armed
<1> DEFINE newly == {a \in due : ~Behind(a)}
<1>1. /\ record' = [a \in Assets |->
           IF a \in newly THEN Append(record[a], a \in armed) ELSE record[a]]
      /\ position' = [a \in Assets |-> Len(record'[a])]
      /\ covered' = [a \in Assets |->
           IF a \in newly THEN Len(record'[a]) - ((Len(record'[a]) - covered[a]) % Window)
           ELSE covered[a]]
      /\ hosted' \subseteq hosted /\ refused' \subseteq refused \cup hosted
      /\ refused \cap hosted = {} => refused' \cap hosted' = {}
      /\ armed' \subseteq armed
  BY DEF Publishes
<1>2. newly \subseteq Assets /\ newly \subseteq hosted
  BY DEF Types
<1>3. ASSUME NEW a \in Assets
      PROVE  /\ record'[a] \in Seq(BOOLEAN)
             /\ Len(record'[a]) = IF a \in newly THEN Len(record[a]) + 1 ELSE Len(record[a])
             /\ record[a] \in Seq(BOOLEAN) /\ Len(record[a]) \in Nat
  <2>1. record[a] \in Seq(BOOLEAN) /\ Len(record[a]) \in Nat
    BY DEF Types
  <2>2. (a \in armed) \in BOOLEAN
    OBVIOUS
  <2>3. record'[a] = IF a \in newly THEN Append(record[a], a \in armed) ELSE record[a]
    BY <1>1
  <2>4. CASE a \in newly
    <3>1. record'[a] = Append(record[a], a \in armed)
      BY <2>3, <2>4
    <3> QED BY <3>1, <2>1, <2>2, <2>4, AppendFacts
  <2>5. CASE a \notin newly
    BY <2>1, <2>3, <2>5
  <2> QED BY <2>4, <2>5
<1>4. ASSUME NEW a \in Assets
      PROVE  /\ Last(a) \in Nat /\ Last(a)' \in Nat
             /\ Last(a) <= Last(a)' /\ Last(a)' <= MaxTicks[a]
             /\ covered'[a] \in Nat /\ covered'[a] <= Last(a)'
  <2>1. /\ covered[a] \in Nat /\ covered[a] <= Len(record[a]) /\ Len(record[a]) <= MaxTicks[a]
        /\ position[a] \in Nat /\ position[a] <= Len(record[a]) /\ MaxTicks[a] \in Nat
    BY LifecycleAssumption DEF Types, NothingIsAhead, Last
  <2>2. CASE a \in newly
    <3>1. Len(record[a]) < MaxTicks[a]
      BY <2>2 DEF Last
    <3>2. Len(record'[a]) = Len(record[a]) + 1
      BY <1>3, <2>2
    <3> DEFINE x == Len(record'[a]) - covered[a]
    <3>3. x \in Nat /\ Len(record[a]) \in Nat
      BY <3>2, <2>1, <1>3
    <3>4. x % Window \in Nat /\ x % Window <= x
      BY <3>3, RemainderFacts, LifecycleAssumption
    <3>5. covered'[a] = Len(record'[a]) - (x % Window)
      BY <1>1, <2>2
    <3> HIDE DEF newly
    <3> QED BY <3>1, <3>2, <3>3, <3>4, <3>5, <2>1 DEF Last
  <2>3. CASE a \notin newly
    BY <1>1, <1>3, <2>1, <2>3 DEF Last
  <2> QED BY <2>2, <2>3
<1>5. record' \in [Assets -> Seq(BOOLEAN)]
  BY <1>1, <1>3
<1>6. covered' \in [Assets -> Nat]
  BY <1>1, <1>4
<1>7. position' = [a \in Assets |-> Last(a)'] /\ position' \in [Assets -> Nat]
  BY <1>1, <1>4 DEF Last
<1>8. \A a \in Assets \ hosted : record'[a] = record[a] /\ covered'[a] = covered[a]
  BY <1>1, <1>2
<1> QED BY <1>1, <1>4, <1>5, <1>6, <1>7, <1>8

-----------------------------------------------------------------------------
(* Types and what is ahead of what *)

\* The invariant of the disk and of what is written to it.
Data == Types /\ NothingIsAhead

\* The data invariant holds at the start.
LEMMA DataInit == Init => Data
<1> SUFFICES ASSUME Init PROVE Data
  OBVIOUS
<1>1. Types
  BY DEF Init, Types
<1>2. NothingIsAhead
  BY LifecycleAssumption DEF Init, NothingIsAhead, Last
<1> QED BY <1>1, <1>2 DEF Data

\* A writer's plan is made or dropped, and the others' stay.
LEMMA PlanReplaced ==
  ASSUME Types, NEW w \in Writers, NEW x, plan' = [plan EXCEPT ![w] = x]
  PROVE  /\ plan' = [v \in Writers |-> plan'[v]]
         /\ plan'[w] = x
         /\ \A v \in Writers \ {w} : plan'[v] = plan[v]
BY DEF Types

\* The files hold what they held; the record stays where it is.
LEMMA DataKept ==
  ASSUME Data, UNCHANGED <<record, covered, checkpoint>>,
         process' \in {"down", "up", "stopping", "stopped"}, timers' \in Nat,
         task' \in [Assets -> {"idle", "retiring", "checkpointing", "storing", "hosting"}],
         lab' \in Steered \cup {None},
         hosted' \subseteq Assets, retired' \subseteq Assets, refused' \subseteq Assets,
         registered' \subseteq Assets, overlay' \subseteq Assets,
         position' \in [Assets -> Nat], \A a \in Assets : position'[a] <= Last(a),
         plan' = [w \in Writers |-> plan'[w]],
         \A w \in Writers : plan'[w] = None \/ plan'[w] = plan[w]
                            \/ \E markets \in SUBSET Assets : plan'[w] = PlanOf(markets, position, mark)
  PROVE  Data'
<1>1. Types'
  <2>1. ASSUME NEW w \in Writers PROVE plan'[w] = None \/ PlanShaped(plan'[w])
    <3>1. CASE plan'[w] = None \/ plan'[w] = plan[w]
      BY <3>1 DEF Data, Types
    <3>2. ASSUME NEW markets \in SUBSET Assets, plan'[w] = PlanOf(markets, position, mark)
          PROVE  PlanShaped(plan'[w])
      <4>1. PlanShaped(PlanOf(markets, position, mark))
        BY PlanFacts DEF Data, Types
      <4> QED BY <3>2, <4>1
    <3> QED BY <3>1, <3>2
  <2>2. \A w \in Writers : plan'[w] = None \/ PlanShaped(plan'[w])
    BY <2>1
  <2> QED BY <2>2 DEF Data, Types
<1>2. NothingIsAhead'
  <2>1. \A w \in Writers : plan'[w] # None =>
          \A a \in DOMAIN plan'[w].says : plan'[w].says[a].sequence <= Last(a)
    <3> SUFFICES ASSUME NEW w \in Writers, plan'[w] # None, NEW a \in DOMAIN plan'[w].says
                 PROVE  plan'[w].says[a].sequence <= Last(a)
      OBVIOUS
    <3>1. CASE plan'[w] = plan[w]
      BY <3>1 DEF Data, NothingIsAhead
    <3>2. ASSUME NEW markets \in SUBSET Assets, plan'[w] = PlanOf(markets, position, mark)
          PROVE  plan'[w].says[a].sequence <= Last(a)
      <4>1. /\ DOMAIN PlanOf(markets, position, mark).says = markets
            /\ \A b \in markets : PlanOf(markets, position, mark).says[b].sequence = position[b]
        BY PlanFacts DEF Data, Types
      <4>2. a \in markets /\ plan'[w].says[a].sequence = position[a]
        BY <3>2, <4>1
      <4> QED BY <4>2 DEF Data, NothingIsAhead
    <3> QED BY <3>1, <3>2
  <2> QED BY <2>1 DEF Data, NothingIsAhead, Last
<1> QED BY <1>1, <1>2 DEF Data

\* Every step keeps the types and the clock.
LEMMA DataStep == Data /\ [Next]_vars => Data'
<1> SUFFICES ASSUME Data, [Next]_vars PROVE Data'
  OBVIOUS
<1>t. Types /\ NothingIsAhead
  BY DEF Data
<1>l. /\ \A a \in Assets : Last(a) \in Nat
      /\ [a \in Assets |-> Last(a)] \in [Assets -> Nat]
      /\ \A a \in Assets : Last(a) <= Last(a) /\ position[a] <= Last(a)
  BY <1>t DEF Types, NothingIsAhead, Last
<1>w. Assets \subseteq Writers /\ "pass" \in Writers /\ "stop" \in Writers
  BY DEF Writers
<1>p. plan' = plan => plan' = [w \in Writers |-> plan'[w]] /\ \A w \in Writers : plan'[w] = plan[w]
  BY <1>t DEF Types
<1>g. ASSUME Gone, UNCHANGED <<disk, everRetired>> PROVE Data'
  <2>1. /\ position' = [a \in Assets |-> Last(a)]
        /\ UNCHANGED <<record, covered, checkpoint, registered, overlay>>
    BY <1>g DEF Gone, disk
  <2>2. plan' = [w \in Writers |-> None] /\ \A w \in Writers : plan'[w] = None
    BY <1>g DEF Gone
  <2>3. \A a \in Assets : position'[a] <= Last(a)
    BY <2>1, <1>l
  <2> QED BY <1>g, <1>t, <1>l, <2>1, <2>2, <2>3, DataKept DEF Gone, Types
<1>1. ASSUME NEW stale \in BOOLEAN, Boot(stale) PROVE Data'
  <2>1. /\ \A a \in Assets : position'[a] \in Nat /\ position'[a] <= Last(a)
        /\ \A a \in Assets : covered'[a] \in Nat /\ covered'[a] <= Last(a)
    BY <1>1, <1>t, <1>l DEF Boot, Types, NothingIsAhead, MovesPast, StateRecord
  <2>2. /\ DOMAIN position' = Assets /\ position' = [a \in Assets |-> position'[a]]
        /\ covered' = [a \in Assets |-> covered'[a]]
    BY <1>1 DEF Boot
  <2>3. position' \in [Assets -> Nat] /\ covered' \in [Assets -> Nat]
    BY <2>1, <2>2
  <2>4. /\ process' = "up" /\ timers' = 1 /\ hosted' \subseteq Assets /\ retired' \subseteq Assets
        /\ UNCHANGED <<plan, task, lab, refused, record, checkpoint, registered, overlay>>
    BY <1>1, <1>t, LifecycleAssumption DEF Boot, Types
  <2>5. Types'
    BY <1>t, <2>3, <2>4 DEF Types
  <2>6. NothingIsAhead'
    BY <1>t, <2>1, <2>4 DEF NothingIsAhead, Last
  <2> QED BY <2>5, <2>6 DEF Data
<1>2. ASSUME Kill PROVE Data'
  BY <1>2, <1>g DEF Kill
<1>3. ASSUME Exit PROVE Data'
  BY <1>3, <1>g DEF Exit
<1>4. ASSUME NEW due \in SUBSET hosted, NEW checkpointing \in BOOLEAN, Pass(due, checkpointing)
      PROVE  Data'
  <2>1. /\ Publishes(due)
        /\ \A a \in due : Behind(a) \/ Last(a) < MaxTicks[a]
        /\ UNCHANGED <<process, task, lab, retired, checkpoint, registered, overlay>>
    BY <1>4 DEF Pass
  <2>2. timers' \in Nat
    BY <1>4, <1>t DEF Pass, Scheduled, Types
  <2>3. /\ record' \in [Assets -> Seq(BOOLEAN)]
        /\ position' \in [Assets -> Nat] /\ covered' \in [Assets -> Nat]
        /\ \A a \in Assets : /\ Last(a) <= Last(a)' /\ Last(a)' <= MaxTicks[a] /\ Last(a)' \in Nat
                             /\ position'[a] = Last(a)' /\ covered'[a] <= Last(a)'
        /\ hosted' \subseteq Assets /\ refused' \subseteq Assets
    BY <1>t, <2>1, PublishFacts DEF Types
  <2>4. /\ plan' = [w \in Writers |-> plan'[w]]
        /\ \A w \in Writers : \/ plan'[w] = plan[w]
                              \/ plan'[w] = PlanOf(hosted', position', mark)
    BY <1>4, <1>t, <1>w DEF Pass, Types
  <2>p. /\ PlanShaped(PlanOf(hosted', position', mark))
        /\ DOMAIN PlanOf(hosted', position', mark).says = hosted'
        /\ \A a \in hosted' : PlanOf(hosted', position', mark).says[a].sequence = position'[a]
    <3>1. hosted' \in SUBSET Assets /\ position' \in [Assets -> Nat]
      BY <2>3
    <3> QED BY <3>1, PlanFacts, Zenon
  <2>5. \A w \in Writers : plan'[w] = None \/ PlanShaped(plan'[w])
    BY <1>t, <2>4, <2>p DEF Types
  <2>6. \A w \in Writers : plan'[w] # None =>
          \A a \in DOMAIN plan'[w].says : plan'[w].says[a].sequence <= Last(a)'
    <3> SUFFICES ASSUME NEW w \in Writers, plan'[w] # None, NEW a \in DOMAIN plan'[w].says
                 PROVE  plan'[w].says[a].sequence <= Last(a)'
      OBVIOUS
    <3>1. CASE plan'[w] = plan[w]
      <4>1. a \in Assets /\ plan[w].says[a].sequence \in Nat /\ plan[w].says[a].sequence <= Last(a)
        BY <3>1, <1>t DEF Types, PlanShaped, StateRecord, NothingIsAhead
      <4> QED BY <4>1, <3>1, <1>l, <2>3
    <3>2. CASE plan'[w] = PlanOf(hosted', position', mark)
      <4>1. a \in hosted' /\ plan'[w].says[a].sequence = position'[a]
        BY <3>2, <2>p
      <4>2. a \in Assets /\ position'[a] = Last(a)' /\ Last(a)' \in Nat
        BY <4>1, <2>3
      <4> QED BY <4>1, <4>2
    <3> QED BY <3>1, <3>2, <2>4
  <2>7. \A a \in Assets : checkpoint[a] # None =>
          checkpoint[a].sequence \in Nat /\ checkpoint[a].sequence <= Last(a)'
    <3> SUFFICES ASSUME NEW a \in Assets, checkpoint[a] # None
                 PROVE  checkpoint[a].sequence \in Nat /\ checkpoint[a].sequence <= Last(a)'
      OBVIOUS
    <3>1. checkpoint[a].sequence \in Nat /\ checkpoint[a].sequence <= Last(a)
      BY <1>t DEF Types, NothingIsAhead, StateRecord
    <3> QED BY <3>1, <1>l, <2>3
  <2>8. Types'
    BY <1>t, <2>1, <2>2, <2>3, <2>4, <2>5 DEF Types
  <2>9. NothingIsAhead'
    BY <2>1, <2>3, <2>6, <2>7 DEF NothingIsAhead
  <2> QED BY <2>8, <2>9 DEF Data
<1>5. ASSUME NEW w \in Writers, NEW a \in Assets, Land(w, a) PROVE Data'
  <2>1. /\ plan[w] # None /\ a \in plan[w].left
        /\ plan' = [plan EXCEPT ![w].left = @ \ {a}]
        /\ checkpoint' = [checkpoint EXCEPT ![a] = plan[w].says[a]]
        /\ UNCHANGED <<process, timers, task, lab, hosted, retired, refused, position, record, covered,
                       registered, overlay>>
    BY <1>5 DEF Land
  <2>2. PlanShaped(plan[w]) /\ plan = [v \in Writers |-> plan[v]]
    BY <2>1, <1>t DEF Types
  <2>3. /\ plan'[w] = [says |-> plan[w].says, left |-> plan[w].left \ {a}]
        /\ \A v \in Writers \ {w} : plan'[v] = plan[v]
        /\ plan' = [v \in Writers |-> plan'[v]]
    BY <2>1, <2>2 DEF PlanShaped
  <2>4. /\ checkpoint' \in [Assets -> StateRecord \cup {None}]
        /\ \A b \in Assets : checkpoint'[b] # None => checkpoint'[b].sequence <= Last(b)
    BY <1>t, <2>1, <2>2 DEF Types, PlanShaped, NothingIsAhead
  <2>5. PlanShaped(plan'[w]) /\ plan'[w].says = plan[w].says
    BY <2>2, <2>3 DEF PlanShaped
  <2>6. \A v \in Writers : plan'[v] = None \/ PlanShaped(plan'[v])
    BY <2>3, <2>5, <1>t DEF Types
  <2>7. Types'
    BY <1>t, <2>1, <2>3, <2>4, <2>6 DEF Types
  <2>8. \A v \in Writers : plan'[v] # None =>
          \A b \in DOMAIN plan'[v].says : plan'[v].says[b].sequence <= Last(b)
    BY <1>t, <2>1, <2>3, <2>5 DEF NothingIsAhead
  <2>9. NothingIsAhead'
    BY <1>t, <2>1, <2>4, <2>8 DEF NothingIsAhead, Last
  <2> QED BY <2>7, <2>9 DEF Data
<1>6. ASSUME NEW w \in Writers, WriteFails(w) PROVE Data'
  <2>1. CASE w = "stop"
    BY <1>6, <2>1, <1>g DEF WriteFails
  <2>2. CASE w # "stop"
    <3>1. /\ plan' = [plan EXCEPT ![w] = None]
          /\ timers' \in {timers, timers + 1}
          /\ task' = task \/ (w \in Assets /\ task' = [task EXCEPT ![w] = "idle"])
          /\ UNCHANGED <<process, lab, hosted, retired, refused, position, record, covered, checkpoint,
                         registered, overlay>>
      BY <1>6, <2>2 DEF WriteFails, Scheduled, Writers, disk
    <3>2. /\ timers' \in Nat
          /\ task' \in [Assets -> {"idle", "retiring", "checkpointing", "storing", "hosting"}]
      <4>1. timers \in Nat /\ task \in [Assets -> {"idle", "retiring", "checkpointing", "storing", "hosting"}]
        BY <1>t DEF Types
      <4>2. timers' \in Nat
        BY <3>1, <4>1
      <4>3. CASE task' = task
        BY <4>1, <4>2, <4>3
      <4>4. CASE w \in Assets /\ task' = [task EXCEPT ![w] = "idle"]
        BY <4>1, <4>2, <4>4
      <4> QED BY <3>1, <4>3, <4>4
    <3>3. plan' = [v \in Writers |-> plan'[v]] /\ \A v \in Writers : plan'[v] = None \/ plan'[v] = plan[v]
      BY <3>1, <1>t, PlanReplaced
    <3> QED BY <3>1, <3>2, <3>3, <1>t, <1>l, DataKept DEF Types
  <2> QED BY <2>1, <2>2
<1>7. CASE PassEnds
  <2>1. /\ plan' = [plan EXCEPT !["pass"] = None]
        /\ timers' \in {timers, timers + 1}
        /\ UNCHANGED <<process, task, lab, hosted, retired, refused, position, disk>>
    BY <1>7 DEF PassEnds, Scheduled
  <2>2. plan' = [v \in Writers |-> plan'[v]] /\ \A v \in Writers : plan'[v] = None \/ plan'[v] = plan[v]
    BY <2>1, <1>t, <1>w, PlanReplaced
  <2>3. timers' \in Nat
    BY <2>1, <1>t DEF Types
  <2> QED BY <2>1, <2>2, <2>3, <1>t, <1>l, DataKept DEF Types, disk
<1>8. CASE Stop
  BY <1>8, <1>t, <1>l, <1>w, <1>p, PlanReplaced, DataKept DEF Stop, Types, PlanNow, disk
<1>9. CASE StopPlans
  BY <1>9, <1>t, <1>l, <1>w, <1>p, PlanReplaced, DataKept DEF StopPlans, Types, PlanNow, disk
<1>10. ASSUME NEW a \in Retirable, RetireAsked(a) PROVE Data'
  BY <1>10, <1>t, <1>l, LifecycleAssumption, DataKept DEF RetireAsked, Types, disk
<1>11. ASSUME NEW a \in Assets, RetirePlans(a) PROVE Data'
  BY <1>11, <1>t, <1>l, <1>w, <1>p, PlanReplaced, DataKept DEF RetirePlans, Types, PlanNow, disk
<1>12. ASSUME NEW a \in Assets, StoreRetirement(a) PROVE Data'
  BY <1>12, <1>t, <1>l, <1>p, DataKept DEF StoreRetirement, Types
<1>13. ASSUME NEW a \in Assets, Host(a) PROVE Data'
  BY <1>13, <1>t, <1>l, <1>p, DataKept DEF Host, Types, disk
<1>14. ASSUME NEW a \in Assets, Register(a) PROVE Data'
  BY <1>14, <1>t, <1>l, <1>p, DataKept DEF Register, Types
<1>15. ASSUME NEW a \in Steered, SteerAsked(a) PROVE Data'
  BY <1>15, <1>t, <1>l, <1>p, DataKept DEF SteerAsked, Types, disk
<1>16. CASE SteerNow
  BY <1>16, <1>t, <1>l, <1>p, DataKept DEF SteerNow, Types, Scheduled, disk
<1>17. ASSUME NEW covers, covered' = covers, covers \in [Assets -> Nat],
              \A a \in Assets : covers[a] <= Last(a),
              UNCHANGED <<timers, lab, refused, position, record, checkpoint, registered, overlay>>,
              process' \in {"down", "up", "stopping", "stopped"},
              task' \in [Assets -> {"idle", "retiring", "checkpointing", "storing", "hosting"}],
              hosted' \subseteq Assets, retired' \subseteq Assets,
              NEW w \in Writers, plan' = [plan EXCEPT ![w] = None]
       PROVE  Data'
  <2>1. /\ plan' = [v \in Writers |-> plan'[v]]
        /\ \A v \in Writers : plan'[v] = None \/ plan'[v] = plan[v]
    BY <1>17, <1>t DEF Types
  <2>2. Types'
    BY <1>17, <1>t, <2>1 DEF Types
  <2>3. NothingIsAhead'
    BY <1>17, <1>t, <2>1 DEF NothingIsAhead, Last
  <2> QED BY <2>2, <2>3 DEF Data
<1>18. CASE StopEnds
  <2> DEFINE covers == [a \in Assets |-> IF a \in hosted THEN Last(a) ELSE covered[a]]
  <2>1. covers \in [Assets -> Nat] /\ \A a \in Assets : covers[a] <= Last(a)
    BY <1>t, <1>l DEF Types, NothingIsAhead
  <2>2. /\ covered' = covers /\ process' = "stopped"
        /\ plan' = [plan EXCEPT !["stop"] = None]
        /\ UNCHANGED <<timers, lab, refused, position, record, checkpoint, registered, overlay,
                       task, hosted, retired>>
    BY <1>18 DEF StopEnds
  <2> HIDE DEF covers
  <2> QED BY <2>1, <2>2, <1>t, <1>w, <1>17 DEF Types
<1>19. ASSUME NEW a \in Assets, RetireEnds(a) PROVE Data'
  <2> DEFINE covers == [covered EXCEPT ![a] = Last(a)]
  <2>1. covers \in [Assets -> Nat] /\ \A b \in Assets : covers[b] <= Last(b)
    BY <1>t, <1>l DEF Types, NothingIsAhead
  <2>2. /\ covered' = covers
        /\ plan' = [plan EXCEPT ![a] = None]
        /\ hosted' \subseteq Assets /\ retired' \subseteq Assets
        /\ task' \in [Assets -> {"idle", "retiring", "checkpointing", "storing", "hosting"}]
        /\ UNCHANGED <<process, timers, lab, refused, position, record, checkpoint, registered, overlay>>
    BY <1>19, <1>t DEF RetireEnds, Types
  <2> HIDE DEF covers
  <2> QED BY <2>1, <2>2, <1>t, <1>w, <1>17 DEF Types
<1>20. CASE UNCHANGED vars
  BY <1>20, <1>t, <1>l, <1>p, DataKept DEF vars, memory, disk, Types
<1> QED
  BY <1>1, <1>2, <1>3, <1>4, <1>5, <1>6, <1>7, <1>8, <1>9, <1>10, <1>11, <1>12, <1>13, <1>14,
     <1>15, <1>16, <1>18, <1>19, <1>20 DEF Next, Answer

-----------------------------------------------------------------------------
(* One loop of passes *)

\* A file landing leaves its plan a plan.
LEMMA LandKeepsPlans ==
  ASSUME Types, NEW w \in Writers, NEW a \in Assets, Land(w, a)
  PROVE  \A v \in Writers : plan'[v] # None <=> plan[v] # None
<1>1. /\ plan[w] # None /\ PlanShaped(plan[w]) /\ plan = [v \in Writers |-> plan[v]]
      /\ plan' = [plan EXCEPT ![w].left = @ \ {a}]
  BY DEF Land, Types
<1>2. /\ plan'[w] = [says |-> plan[w].says, left |-> plan[w].left \ {a}]
      /\ \A v \in Writers \ {w} : plan'[v] = plan[v]
  BY <1>1 DEF PlanShaped
<1>3. plan'[w] \in Plans
  <2> DEFINE says == plan[w].says  left == plan[w].left \ {a}
  <2>1. /\ DOMAIN says \subseteq Assets /\ left \subseteq Assets
        /\ says = [b \in DOMAIN says |-> says[b]] /\ \A b \in DOMAIN says : says[b] \in StateRecord
    BY <1>1 DEF PlanShaped
  <2>2. says \in [DOMAIN says -> StateRecord]
    BY <2>1
  <2> HIDE DEF says, left
  <2>3. [says |-> says, left |-> left] \in Plans
    BY <2>1, <2>2 DEF Plans
  <2> QED BY <1>2, <2>3 DEF says, left
<1> QED BY <1>1, <1>2, <1>3, NoneIsNoPlan

\* Every step keeps the loop and its timer one.
LEMMA SchedulerStep == Data /\ Scheduler /\ [Next]_vars => Scheduler'
<1> SUFFICES ASSUME Data, Scheduler, [Next]_vars PROVE Scheduler'
  OBVIOUS
<1>t. /\ Types /\ timers \in Nat /\ plan = [w \in Writers |-> plan[w]]
      /\ hosted \in SUBSET Assets /\ position \in [Assets -> Nat]
      /\ process \in {"down", "up", "stopping", "stopped"}
  BY DEF Data, Types
<1>w. /\ Assets \subseteq Writers /\ "pass" \in Writers /\ "stop" \in Writers
      /\ \A a \in Assets : a # "pass" /\ a # "stop"
  BY LifecycleAssumption DEF Writers
<1>s. /\ process = "up" => timers + (IF InFlight THEN 1 ELSE 0) = 1
      /\ process # "up" => timers = 0
      /\ process \in {"down", "stopped"} => ~InFlight
      /\ plan["stop"] # None => process = "stopping" /\ ~InFlight
  BY DEF Scheduler, OneLoop
<1>n. PlanNow # None
  BY <1>t, PlanFacts DEF PlanNow
<1>k. ASSUME process' = process, timers' = timers, plan'["pass"] # None <=> plan["pass"] # None,
             plan'["stop"] # None <=> plan["stop"] # None
      PROVE  Scheduler'
  BY <1>k, <1>s DEF Scheduler, OneLoop, InFlight
<1>g. ASSUME Gone PROVE Scheduler'
  <2>1. process' = "down" /\ timers' = 0 /\ plan'["pass"] = None /\ plan'["stop"] = None
    BY <1>g, <1>w DEF Gone
  <2> QED BY <2>1 DEF Scheduler, OneLoop, InFlight
<1>1. ASSUME NEW stale \in BOOLEAN, Boot(stale) PROVE Scheduler'
  <2>1. process = "down" /\ process' = "up" /\ timers' = 1 /\ plan' = plan
    BY <1>1 DEF Boot
  <2> QED BY <2>1, <1>s DEF Scheduler, OneLoop, InFlight
<1>2. CASE Kill
  BY <1>2, <1>g DEF Kill
<1>3. CASE Exit
  BY <1>3, <1>g DEF Exit
<1>4. ASSUME NEW due \in SUBSET hosted, NEW checkpointing \in BOOLEAN, Pass(due, checkpointing)
      PROVE  Scheduler'
  <2>1. timers = 1 /\ process = "up" /\ ~InFlight /\ plan["stop"] = None /\ process' = "up"
    BY <1>4, <1>s, <1>t DEF Pass
  <2>2. CASE checkpointing
    <3>1. plan' = [plan EXCEPT !["pass"] = PlanOf(hosted', position', mark)] /\ timers' = 0
      BY <1>4, <2>1, <2>2 DEF Pass
    <3>2. hosted' \in SUBSET Assets /\ position' \in [Assets -> Nat]
      <4>1. Publishes(due) /\ \A a \in due : Behind(a) \/ Last(a) < MaxTicks[a]
        BY <1>4 DEF Pass
      <4> QED BY <4>1, PublishFacts DEF Data, Types
    <3>3. PlanOf(hosted', position', mark) # None
      BY <3>2, PlanFacts, Zenon
    <3>4. plan'["pass"] # None /\ plan'["stop"] = None
      BY <3>1, <3>3, <2>1, <1>t, <1>w
    <3> QED BY <2>1, <3>1, <3>4 DEF Scheduler, OneLoop, InFlight
  <2>3. CASE ~checkpointing
    <3>1. plan' = plan /\ timers' = 1
      BY <1>4, <2>1, <2>3 DEF Pass, Scheduled
    <3> QED BY <3>1, <2>1 DEF Scheduler, OneLoop, InFlight
  <2> QED BY <2>2, <2>3
<1>5. ASSUME NEW w \in Writers, NEW a \in Assets, Land(w, a) PROVE Scheduler'
  <2>1. process' = process /\ timers' = timers
    BY <1>5 DEF Land
  <2> QED BY <2>1, <1>5, <1>t, <1>w, <1>k, LandKeepsPlans
<1>6. ASSUME plan["pass"] # None, plan' = [plan EXCEPT !["pass"] = None], timers' = Scheduled(timers),
             process' = process
      PROVE  Scheduler'
  <2>1. plan'["pass"] = None /\ plan'["stop"] = plan["stop"] /\ plan["stop"] = None
    BY <1>6, <1>s, <1>t, <1>w DEF InFlight
  <2>2. timers = 0
    BY <1>6, <1>s, <1>t DEF InFlight
  <2>3. timers' = IF process = "up" THEN 1 ELSE 0
    BY <1>6, <2>2 DEF Scheduled
  <2> QED BY <1>6, <2>1, <2>3 DEF Scheduler, OneLoop, InFlight
<1>7. CASE PassEnds
  BY <1>7, <1>6 DEF PassEnds, Done
<1>8. ASSUME NEW w \in Writers, WriteFails(w) PROVE Scheduler'
  <2>1. CASE w = "stop"
    BY <1>8, <2>1, <1>g DEF WriteFails
  <2>2. CASE w = "pass"
    BY <1>8, <2>2, <1>6 DEF WriteFails
  <2>3. CASE w \in Assets
    <3>1. process' = process /\ timers' = timers /\ plan' = [plan EXCEPT ![w] = None]
      BY <1>8, <2>3, <1>w DEF WriteFails
    <3> QED BY <3>1, <2>3, <1>t, <1>w, <1>k
  <2> QED BY <2>1, <2>2, <2>3 DEF Writers
<1>9. ASSUME process = "stopping" \/ process = "up", process' = "stopping", ~InFlight, timers' = 0,
             plan' = [plan EXCEPT !["stop"] = PlanNow]
      PROVE  Scheduler'
  <2>1. plan'["pass"] = None
    BY <1>9, <1>t, <1>w DEF InFlight
  <2> QED BY <1>9, <2>1 DEF Scheduler, OneLoop, InFlight
<1>10. CASE Stop
  <2>1. CASE ~InFlight
    BY <1>10, <2>1, <1>9 DEF Stop
  <2>2. CASE InFlight
    <3>1. timers' = 0 /\ plan' = plan /\ process' = "stopping"
      BY <1>10, <2>2, <1>s, <1>t DEF Stop
    <3> QED BY <3>1, <2>2, <1>s DEF Scheduler, OneLoop, InFlight
  <2> QED BY <2>1, <2>2
<1>11. CASE StopPlans
  BY <1>11, <1>9 DEF StopPlans
<1>12. CASE StopEnds
  <2>1. ~InFlight /\ process = "stopping" /\ process' = "stopped" /\ timers' = timers
    BY <1>12, <1>s DEF StopEnds, Done
  <2>2. plan'["pass"] = None /\ plan'["stop"] = None
    BY <1>12, <2>1, <1>t, <1>w DEF StopEnds, InFlight
  <2> QED BY <2>1, <2>2, <1>s DEF Scheduler, OneLoop, InFlight
<1>13. ASSUME NEW a \in Assets, RetirePlans(a) PROVE Scheduler'
  BY <1>13, <1>t, <1>w, <1>k DEF RetirePlans
<1>14. ASSUME NEW a \in Assets, RetireEnds(a) PROVE Scheduler'
  <2>1. process' = process /\ timers' = timers /\ plan' = [plan EXCEPT ![a] = None]
    BY <1>14 DEF RetireEnds
  <2> QED BY <2>1, <1>t, <1>w, <1>k
<1>15. ASSUME NEW a \in Assets, StoreRetirement(a) \/ Host(a) \/ Register(a) PROVE Scheduler'
  BY <1>15, <1>k DEF StoreRetirement, Host, Register
<1>16. ASSUME NEW a \in Assets, RetireAsked(a) \/ SteerAsked(a) PROVE Scheduler'
  BY <1>16, <1>k DEF RetireAsked, SteerAsked
<1>17. CASE SteerNow
  <2>1. process' = process /\ plan' = plan /\ ~InFlight
    BY <1>17 DEF SteerNow
  <2>2. timers' = timers
    BY <1>17, <2>1, <1>s, <1>t DEF SteerNow, Scheduled
  <2> QED BY <2>1, <2>2, <1>k
<1>18. CASE UNCHANGED vars
  BY <1>18, <1>k DEF vars, memory
<1> QED
  BY <1>1, <1>2, <1>3, <1>4, <1>5, <1>7, <1>8, <1>10, <1>11, <1>12, <1>13, <1>14, <1>15, <1>16,
     <1>17, <1>18, LifecycleAssumption DEF Next, Answer

-----------------------------------------------------------------------------
(* The markets the registry knows, and the requests about them *)

\* Every step keeps every market of the process in the registry.
LEMMA KnownStep == Data /\ Scheduler /\ Known /\ Requests /\ [Next]_vars => Known'
<1> SUFFICES ASSUME Data, Scheduler, Known, Requests, [Next]_vars PROVE Known'
  OBVIOUS
<1>t. /\ Types /\ NothingIsAhead /\ timers \in Nat /\ hosted \subseteq Assets
      /\ task \in [Assets -> {"idle", "retiring", "checkpointing", "storing", "hosting"}]
  BY DEF Data, Types
<1>k. /\ hosted \cup retired \cup refused \cup everRetired \subseteq Catalogue \cup registered
      /\ \A a \in Assets \ (Catalogue \cup registered) : Last(a) = 0 /\ task[a] = "idle"
      /\ overlay \subseteq everRetired
  BY DEF Known, Requests
<1>u. ASSUME record' = record, registered' = registered,
             hosted' \subseteq Catalogue \cup registered, retired' \subseteq Catalogue \cup registered,
             refused' \subseteq refused, everRetired' \subseteq Catalogue \cup registered,
             \A a \in Assets \ (Catalogue \cup registered) : task'[a] = "idle"
      PROVE  Known'
  BY <1>u, <1>k DEF Known, Last
<1>g. ASSUME Gone, UNCHANGED <<disk, everRetired>> PROVE Known'
  <2>1. \A a \in Assets : task'[a] = "idle"
    BY <1>g DEF Gone
  <2> QED BY <2>1, <1>g, <1>k, <1>u DEF Gone, disk
<1>1. ASSUME NEW stale \in BOOLEAN, Boot(stale) PROVE Known'
  BY <1>1, <1>k, <1>u DEF Boot
<1>2. CASE Kill
  BY <1>2, <1>g DEF Kill
<1>3. CASE Exit
  BY <1>3, <1>g DEF Exit
<1>4. ASSUME NEW due \in SUBSET hosted, NEW checkpointing \in BOOLEAN, Pass(due, checkpointing)
      PROVE  Known'
  <2>1. /\ Publishes(due) /\ \A a \in due : Behind(a) \/ Last(a) < MaxTicks[a]
        /\ UNCHANGED <<task, retired, registered, everRetired>>
    BY <1>4 DEF Pass
  <2>2. /\ \A a \in Assets \ hosted : record'[a] = record[a]
        /\ hosted' \subseteq hosted /\ refused' \subseteq refused \cup hosted
    BY <1>t, <2>1, PublishFacts
  <2>3. \A a \in Assets \ (Catalogue \cup registered) : record'[a] = record[a]
    BY <2>2, <1>k
  <2> QED BY <2>1, <2>2, <2>3, <1>k DEF Known, Last
<1>5. ASSUME NEW w \in Writers, NEW a \in Assets, Land(w, a) PROVE Known'
  BY <1>5, <1>k, <1>u DEF Land
<1>6. ASSUME NEW w \in Writers, WriteFails(w) PROVE Known'
  <2>1. CASE w = "stop"
    BY <1>6, <2>1, <1>g DEF WriteFails
  <2>2. CASE w # "stop"
    <3>1. /\ task' = task \/ task' = [task EXCEPT ![w] = "idle"]
          /\ UNCHANGED <<hosted, retired, refused, record, registered, everRetired>>
      BY <1>6, <2>2 DEF WriteFails, disk
    <3>2. \A a \in Assets \ (Catalogue \cup registered) : task'[a] = "idle"
      BY <3>1, <1>k, <1>t
    <3> QED BY <3>1, <3>2, <1>k, <1>u
  <2> QED BY <2>1, <2>2
<1>7. CASE PassEnds \/ Stop \/ StopPlans \/ StopEnds \/ SteerNow
  <2>1. UNCHANGED <<task, hosted, retired, refused, record, registered, everRetired>>
    BY <1>7 DEF PassEnds, Stop, StopPlans, StopEnds, SteerNow, disk
  <2> QED BY <2>1, <1>k, <1>u
<1>8. ASSUME NEW a \in Assets, a \in Catalogue \cup registered, NEW x, task' = [task EXCEPT ![a] = x],
             UNCHANGED <<record, registered, refused>>, hosted' \subseteq hosted \cup {a},
             retired' \subseteq retired \cup {a}, everRetired' \subseteq everRetired \cup {a}
      PROVE  Known'
  BY <1>8, <1>k, <1>t, <1>u
<1>9. ASSUME NEW a \in Assets, RetireAsked(a) PROVE Known'
  BY <1>9, <1>k, <1>8 DEF RetireAsked, disk
<1>10. ASSUME NEW a \in Assets, task[a] # "idle" PROVE a \in Catalogue \cup registered
  BY <1>10, <1>k
<1>11. ASSUME NEW a \in Assets, RetirePlans(a) PROVE Known'
  BY <1>11, <1>10, <1>8 DEF RetirePlans, disk
<1>12. ASSUME NEW a \in Assets, RetireEnds(a) PROVE Known'
  <2>1. /\ task[a] # "idle" /\ \E x : task' = [task EXCEPT ![a] = x]
        /\ UNCHANGED <<record, registered, refused>> /\ hosted' \subseteq hosted \cup {a}
        /\ retired' \subseteq retired \cup {a} /\ everRetired' \subseteq everRetired \cup {a}
    BY <1>12 DEF RetireEnds
  <2> QED BY <2>1, <1>10, <1>8
<1>13. ASSUME NEW a \in Assets, StoreRetirement(a) PROVE Known'
  BY <1>13, <1>10, <1>8 DEF StoreRetirement
<1>14. ASSUME NEW a \in Assets, Host(a) PROVE Known'
  BY <1>14, <1>10, <1>8 DEF Host, disk
<1>15. ASSUME NEW a \in Assets, Register(a) PROVE Known'
  <2>1. /\ UNCHANGED <<record, hosted, retired, refused, everRetired>>
        /\ registered' = registered \cup {a} /\ task' = [task EXCEPT ![a] = "hosting"]
    BY <1>15 DEF Register
  <2>2. \A b \in Assets \ (Catalogue \cup registered') : task'[b] = task[b]
    BY <2>1, <1>t
  <2> QED BY <2>1, <2>2, <1>k DEF Known, Last
<1>16. ASSUME NEW a \in Assets, SteerAsked(a) PROVE Known'
  BY <1>16, <1>k, <1>u DEF SteerAsked, disk
<1>17. CASE UNCHANGED vars
  BY <1>17, <1>k, <1>u DEF vars, memory, disk
<1> QED
  BY <1>1, <1>2, <1>3, <1>4, <1>5, <1>6, <1>7, <1>9, <1>11, <1>12, <1>13, <1>14, <1>15, <1>16,
     <1>17, LifecycleAssumption DEF Next, Answer

\* Every step keeps each request where it has come to.
LEMMA RequestsStep == Data /\ Scheduler /\ Known /\ Requests /\ [Next]_vars => Requests'
<1> SUFFICES ASSUME Data, Scheduler, Known, Requests, [Next]_vars PROVE Requests'
  OBVIOUS
<1>t. /\ Types /\ NothingIsAhead /\ timers \in Nat /\ hosted \subseteq Assets
      /\ task \in [Assets -> {"idle", "retiring", "checkpointing", "storing", "hosting"}]
      /\ plan = [w \in Writers |-> plan[w]]
  BY DEF Data, Types
<1>w. /\ Assets \subseteq Writers /\ "pass" \in Writers /\ "stop" \in Writers
      /\ \A a \in Assets : a # "pass" /\ a # "stop"
  BY LifecycleAssumption DEF Writers
<1>d. process = "down" => /\ \A w \in Writers : plan[w] = None
                          /\ \A a \in Assets : task[a] = "idle"
                          /\ lab = None /\ timers = 0
  BY DEF Requests, Scheduler
\* What stays when no market changes its place and no plan or task is made.
<1>u. ASSUME process # "down", process' # "down", UNCHANGED <<retired, overlay, everRetired>>,
             hosted' \subseteq hosted, refused' \subseteq refused \cup hosted, refused' \cap hosted' = {},
             armed' \subseteq mark',
             \A a \in Assets \ hosted : record'[a] = record[a],
             \A a \in Assets : plan'[a] # None => task'[a] = "checkpointing",
             \A a \in Assets : task'[a] \in {"storing", "hosting"} => task'[a] = task[a]
      PROVE  Requests'
  <2>1. ASSUME NEW a \in Assets, task'[a] = "hosting"
        PROVE  a \notin hosted' \cup retired' \cup refused' \cup overlay' \cup Catalogue /\ Last(a)' = 0
    <3>1. a \notin hosted \cup retired \cup refused \cup overlay \cup Catalogue /\ Last(a) = 0
      BY <1>u, <2>1 DEF Requests
    <3> QED BY <1>u, <3>1 DEF Last
  <2> QED BY <1>u, <2>1 DEF Requests
<1>g. ASSUME Gone, UNCHANGED <<disk, everRetired>> PROVE Requests'
  <2>1. /\ process' = "down" /\ plan' = [w \in Writers |-> None]
        /\ task' = [a \in Assets |-> "idle"] /\ lab' = None
        /\ hosted' = {} /\ retired' = {} /\ refused' = {} /\ armed' = {} /\ mark' = {}
        /\ overlay' = overlay /\ everRetired' = everRetired
    BY <1>g DEF Gone, disk
  <2>2. \A a \in Assets : plan'[a] = None /\ task'[a] = "idle"
    BY <2>1, <1>w
  <2> QED BY <2>1, <2>2 DEF Requests
<1>1. ASSUME NEW stale \in BOOLEAN, Boot(stale) PROVE Requests'
  <2>1. /\ process = "down" /\ process' = "up"
        /\ hosted' = (Catalogue \cup registered) \ overlay /\ retired' = overlay
        /\ UNCHANGED <<plan, task, lab, refused, armed, mark, overlay, everRetired>>
    BY <1>1 DEF Boot
  <2>2. refused = {}
    BY <2>1 DEF Requests
  <2> QED BY <2>1, <2>2, <1>d, <1>w DEF Requests
<1>2. CASE Kill
  BY <1>2, <1>g DEF Kill
<1>3. CASE Exit
  BY <1>3, <1>g DEF Exit
<1>4. ASSUME NEW due \in SUBSET hosted, NEW checkpointing \in BOOLEAN, Pass(due, checkpointing)
      PROVE  Requests'
  <2>1. /\ Publishes(due) /\ \A a \in due : Behind(a) \/ Last(a) < MaxTicks[a]
        /\ UNCHANGED <<process, task, lab, retired, mark, overlay, everRetired>>
        /\ process # "down"
    BY <1>4, <1>d DEF Pass
  <2>2. /\ \A a \in Assets \ hosted : record'[a] = record[a]
        /\ hosted' \subseteq hosted /\ refused' \subseteq refused \cup hosted
        /\ refused' \cap hosted' = {} /\ armed' \subseteq armed
    BY <1>t, <2>1, PublishFacts DEF Requests
  <2>3. \A a \in Assets : plan'[a] = plan[a]
    BY <1>4, <1>t, <1>w DEF Pass
  <2>4. armed' \subseteq mark'
    BY <2>1, <2>2 DEF Requests
  <2>5. \A a \in Assets : plan'[a] # None => task'[a] = "checkpointing"
    BY <2>1, <2>3 DEF Requests
  <2> QED BY <2>1, <2>2, <2>4, <2>5, <1>u
\* The rest of the handlers run in a process that is not down, and leave the record alone.
<1>v. ASSUME process # "down", process' # "down",
             UNCHANGED <<retired, overlay, everRetired, hosted, refused, record>>, armed' \subseteq mark',
             \A a \in Assets : plan'[a] # None => task'[a] = "checkpointing",
             \A a \in Assets : task'[a] \in {"storing", "hosting"} => task'[a] = task[a]
      PROVE  Requests'
  BY <1>v, <1>u DEF Requests
<1>5. ASSUME NEW w \in Writers, NEW a \in Assets, Land(w, a) PROVE Requests'
  <2>1. /\ plan[w] # None
        /\ UNCHANGED <<process, task, retired, overlay, everRetired, hosted, refused, record, armed, mark>>
    BY <1>5 DEF Land
  <2>2. \A b \in Assets : plan'[b] # None => plan[b] # None
    BY <1>5, <1>t, <1>w, LandKeepsPlans
  <2>3. armed' \subseteq mark' /\ \A b \in Assets : plan'[b] # None => task'[b] = "checkpointing"
    BY <2>1, <2>2 DEF Requests
  <2> QED BY <2>1, <2>3, <1>d, <1>v
<1>6. ASSUME NEW w \in Writers, WriteFails(w) PROVE Requests'
  <2>1. CASE w = "stop"
    BY <1>6, <2>1, <1>g DEF WriteFails
  <2>2. CASE w # "stop"
    <3>1. /\ plan[w] # None /\ plan' = [plan EXCEPT ![w] = None]
          /\ task' = IF w = "pass" THEN task ELSE [task EXCEPT ![w] = "idle"]
          /\ UNCHANGED <<process, retired, overlay, everRetired, hosted, refused, record, armed, mark>>
      BY <1>6, <2>2 DEF WriteFails, disk
    <3>2. \A b \in Assets : /\ b # w => plan'[b] = plan[b] /\ task'[b] = task[b]
                           /\ b = w => plan'[b] = None /\ task'[b] = "idle"
      BY <3>1, <1>t, <1>w
    <3>3. /\ \A b \in Assets : plan'[b] # None => task'[b] = "checkpointing"
          /\ \A b \in Assets : task'[b] \in {"storing", "hosting"} => task'[b] = task[b]
          /\ armed' \subseteq mark'
      BY <3>1, <3>2 DEF Requests
    <3> QED BY <3>1, <3>3, <1>d, <1>v
  <2> QED BY <2>1, <2>2
<1>7. CASE PassEnds \/ Stop \/ StopPlans \/ StopEnds
  <2>1. /\ UNCHANGED <<task, retired, overlay, everRetired, hosted, refused, record, armed>>
        /\ process' \in {process, "stopping", "stopped"}
    BY <1>7 DEF PassEnds, Stop, StopPlans, StopEnds, disk
  <2>2. process # "down"
    BY <1>7, <1>d, <1>w DEF PassEnds, Stop, StopPlans, StopEnds, Done
  <2>3. armed' \subseteq mark'
    BY <1>7, <2>1 DEF PassEnds, Stop, StopPlans, StopEnds, Unmarked, Requests
  <2>4. \A a \in Assets : plan'[a] = plan[a]
    BY <1>7, <1>t, <1>w DEF PassEnds, Stop, StopPlans, StopEnds
  <2>5. \A a \in Assets : plan'[a] # None => task'[a] = "checkpointing"
    BY <2>1, <2>4 DEF Requests
  <2> QED BY <2>1, <2>2, <2>3, <2>5, <1>v
<1>8. CASE SteerNow
  <2>1. /\ UNCHANGED <<process, plan, task, retired, overlay, everRetired, hosted, refused, record>>
        /\ lab # None /\ armed' \subseteq mark'
    BY <1>8 DEF SteerNow, Requests, disk
  <2>2. \A a \in Assets : plan'[a] # None => task'[a] = "checkpointing"
    BY <2>1 DEF Requests
  <2> QED BY <2>1, <2>2, <1>d, <1>v
<1>9. ASSUME NEW a \in Assets, RetireAsked(a) PROVE Requests'
  <2>1. /\ UNCHANGED <<process, plan, retired, overlay, everRetired, hosted, refused, record, armed, mark>>
        /\ process = "up" /\ task[a] = "idle" /\ task' = [task EXCEPT ![a] = "retiring"]
    BY <1>9 DEF RetireAsked, disk
  <2>2. /\ \A b \in Assets : plan'[b] # None => task'[b] = "checkpointing"
        /\ \A b \in Assets : task'[b] \in {"storing", "hosting"} => task'[b] = task[b]
        /\ armed' \subseteq mark'
    BY <2>1, <1>t DEF Requests
  <2> QED BY <2>1, <2>2, <1>v
<1>10. ASSUME NEW a \in Assets, RetirePlans(a) PROVE Requests'
  <2>1. /\ UNCHANGED <<process, retired, overlay, everRetired, hosted, refused, record, armed, mark>>
        /\ task[a] = "retiring" /\ task' = [task EXCEPT ![a] = "checkpointing"]
        /\ \A b \in Assets \ {a} : plan'[b] = plan[b]
    BY <1>10, <1>t, <1>w DEF RetirePlans, disk
  <2>2. /\ \A b \in Assets : plan'[b] # None => task'[b] = "checkpointing"
        /\ \A b \in Assets : task'[b] \in {"storing", "hosting"} => task'[b] = task[b]
        /\ armed' \subseteq mark'
    BY <2>1, <1>t DEF Requests
  <2> QED BY <2>1, <2>2, <1>d, <1>v
<1>11. ASSUME NEW a \in Assets, RetireEnds(a) PROVE Requests'
  <2>1. /\ UNCHANGED <<process, overlay, refused, record, armed>>
        /\ task[a] = "checkpointing" /\ mark' = Unmarked(a) /\ hosted' = hosted \ {a}
        /\ plan' = [plan EXCEPT ![a] = None]
        /\ \/ /\ retired' = retired \cup {a} /\ everRetired' = everRetired \cup {a}
              /\ task' = [task EXCEPT ![a] = "storing"]
           \/ /\ retired' = retired /\ everRetired' = everRetired
              /\ task' = [task EXCEPT ![a] = "idle"]
    BY <1>11 DEF RetireEnds
  <2>2. /\ process # "down" /\ armed' \subseteq mark'
        /\ plan'[a] = None /\ \A b \in Assets \ {a} : plan'[b] = plan[b]
    BY <2>1, <1>d, <1>t, <1>w DEF Unmarked, Requests
  <2>3. /\ \A b \in Assets \ {a} : task'[b] = task[b]
        /\ task'[a] = "idle" \/ (task'[a] = "storing" /\ a \in retired')
    <3>1. CASE task' = [task EXCEPT ![a] = "storing"] /\ retired' = retired \cup {a}
      BY <3>1, <1>t
    <3>2. CASE task' = [task EXCEPT ![a] = "idle"]
      <4>1. DOMAIN task = Assets
        BY <1>t
      <4>2. task'[a] = "idle" /\ \A b \in Assets \ {a} : task'[b] = task[b]
        BY <3>2, <4>1
      <4> QED BY <4>2
    <3> QED BY <2>1, <3>1, <3>2
  <2>4. \A b \in Assets : plan'[b] # None => task'[b] = "checkpointing"
    BY <2>2, <2>3 DEF Requests
  <2>5. \A b \in Assets : task'[b] = "storing" => b \in retired'
    BY <2>1, <2>3 DEF Requests
  <2>6. ASSUME NEW b \in Assets, task'[b] = "hosting"
        PROVE  b \notin hosted' \cup retired' \cup refused' \cup overlay' \cup Catalogue /\ Last(b)' = 0
    <3>1. b # a /\ task[b] = "hosting"
      BY <2>3, <2>6
    <3>2. b \notin hosted \cup retired \cup refused \cup overlay \cup Catalogue /\ Last(b) = 0
      BY <3>1 DEF Requests
    <3> QED BY <3>1, <3>2, <2>1 DEF Last
  <2> QED BY <2>1, <2>2, <2>4, <2>5, <2>6 DEF Requests
<1>12. ASSUME NEW a \in Assets, StoreRetirement(a) PROVE Requests'
  <2>1. /\ UNCHANGED <<process, plan, retired, everRetired, hosted, refused, record, armed, mark>>
        /\ task[a] = "storing" /\ overlay' = overlay \cup {a} /\ task' = [task EXCEPT ![a] = "idle"]
    BY <1>12 DEF StoreRetirement
  <2>2. a \in retired /\ process # "down" /\ plan[a] = None
    BY <2>1, <1>d DEF Requests
  <2>3. /\ \A b \in Assets : plan'[b] # None => task'[b] = "checkpointing"
        /\ \A b \in Assets : task'[b] = "storing" => b \in retired'
        /\ \A b \in Assets : task'[b] = "hosting" => b # a /\ task[b] = "hosting"
    BY <2>1, <2>2, <1>t DEF Requests
  <2> QED BY <2>1, <2>2, <2>3 DEF Requests, Last
<1>13. ASSUME NEW a \in Assets, Host(a) PROVE Requests'
  <2>1. /\ UNCHANGED <<process, plan, retired, overlay, everRetired, refused, record, armed, mark>>
        /\ task[a] = "hosting" /\ hosted' = hosted \cup {a} /\ task' = [task EXCEPT ![a] = "idle"]
    BY <1>13 DEF Host, disk
  <2>2. a \notin retired \cup refused /\ process # "down" /\ plan[a] = None
    BY <2>1, <1>d DEF Requests
  <2>3. /\ \A b \in Assets : plan'[b] # None => task'[b] = "checkpointing"
        /\ \A b \in Assets : task'[b] = "storing" => b \in retired'
        /\ \A b \in Assets : task'[b] = "hosting" => b # a /\ task[b] = "hosting"
    BY <2>1, <2>2, <1>t DEF Requests
  <2> QED BY <2>1, <2>2, <2>3 DEF Requests, Last
<1>14. ASSUME NEW a \in Assets, Register(a) PROVE Requests'
  <2>1. /\ UNCHANGED <<process, plan, retired, overlay, everRetired, hosted, refused, record, armed, mark>>
        /\ process = "up" /\ a \notin Catalogue \cup registered
        /\ task' = [task EXCEPT ![a] = "hosting"]
    BY <1>14 DEF Register
  <2>2. /\ a \notin hosted \cup retired \cup refused \cup overlay \cup Catalogue /\ Last(a) = 0
        /\ task[a] = "idle" /\ plan[a] = None
    BY <2>1 DEF Known, Requests
  <2>3. /\ \A b \in Assets : plan'[b] # None => task'[b] = "checkpointing"
        /\ \A b \in Assets : task'[b] = "storing" => b \in retired'
        /\ \A b \in Assets : task'[b] = "hosting" => b = a \/ task[b] = "hosting"
    BY <2>1, <2>2, <1>t DEF Requests
  <2> QED BY <2>1, <2>2, <2>3 DEF Requests, Last
<1>15. ASSUME NEW a \in Assets, SteerAsked(a) PROVE Requests'
  <2>1. /\ process = "up"
        /\ UNCHANGED <<process, plan, task, retired, overlay, everRetired, hosted, refused, record, armed, mark>>
    BY <1>15 DEF SteerAsked, disk
  <2>2. armed' \subseteq mark' /\ \A b \in Assets : plan'[b] # None => task'[b] = "checkpointing"
    BY <2>1 DEF Requests
  <2> QED BY <2>1, <2>2, <1>v
<1>16. CASE UNCHANGED vars
  BY <1>16 DEF vars, memory, disk, Requests, Last
<1> QED
  BY <1>1, <1>2, <1>3, <1>4, <1>5, <1>6, <1>7, <1>8, <1>9, <1>10, <1>11, <1>12, <1>13, <1>14, <1>15,
     <1>16, LifecycleAssumption DEF Next, Answer

-----------------------------------------------------------------------------
(* The seals *)

\* Every step keeps a sealed market at its last tick.
LEMMA SealedStep == Data /\ Scheduler /\ Known /\ Requests /\ Sealed /\ [Next]_vars => Sealed'
<1> SUFFICES ASSUME Data, Scheduler, Known, Requests, Sealed, [Next]_vars PROVE Sealed'
  OBVIOUS
<1>t. /\ Types /\ NothingIsAhead /\ timers \in Nat
      /\ hosted \subseteq Assets /\ retired \subseteq Assets /\ overlay \subseteq Assets
      /\ covered \in [Assets -> Nat] /\ \A a \in Assets : covered[a] <= Last(a) /\ Last(a) \in Nat
  BY DEF Data, Types, NothingIsAhead, Last
<1>r. /\ retired \cap hosted = {}
      /\ process # "down" => overlay \cap hosted = {} /\ overlay \subseteq retired
      /\ process = "down" => timers = 0 /\ \A a \in Assets : task[a] = "idle"
  BY DEF Requests, Scheduler
<1>k. ASSUME UNCHANGED <<record, covered>>, retired' \cup overlay' \subseteq retired \cup overlay,
             process' = "stopped" => process = "stopped" /\ hosted' \subseteq hosted
      PROVE  Sealed'
  BY <1>k DEF Sealed, Last
<1>1. ASSUME NEW stale \in BOOLEAN, Boot(stale) PROVE Sealed'
  <2>1. /\ \A a \in overlay : covered'[a] = covered[a]
        /\ process' = "up" /\ retired' = overlay /\ UNCHANGED <<record, overlay>>
    BY <1>1, <1>t DEF Boot
  <2> QED BY <2>1 DEF Sealed, Last
<1>2. ASSUME Gone, UNCHANGED <<disk, everRetired>> PROVE Sealed'
  BY <1>2, <1>k DEF Gone, disk
<1>3. CASE Kill \/ Exit
  BY <1>3, <1>2 DEF Kill, Exit
<1>4. ASSUME NEW due \in SUBSET hosted, NEW checkpointing \in BOOLEAN, Pass(due, checkpointing)
      PROVE  Sealed'
  <2>1. /\ Publishes(due) /\ \A a \in due : Behind(a) \/ Last(a) < MaxTicks[a]
        /\ process = "up" /\ UNCHANGED <<process, retired, overlay>>
    BY <1>4, <1>t DEF Pass, Scheduler
  <2>2. \A a \in Assets \ hosted : record'[a] = record[a] /\ covered'[a] = covered[a]
    BY <1>t, <2>1, PublishFacts
  <2> QED BY <2>1, <2>2, <1>t, <1>r DEF Sealed, Last
<1>5. ASSUME NEW w \in Writers, NEW a \in Assets, Land(w, a) PROVE Sealed'
  BY <1>5, <1>k DEF Land
<1>6. ASSUME NEW w \in Writers, WriteFails(w) PROVE Sealed'
  <2>1. CASE w = "stop"
    BY <1>6, <2>1, <1>2 DEF WriteFails
  <2>2. CASE w # "stop"
    BY <1>6, <2>2, <1>k DEF WriteFails, disk
  <2> QED BY <2>1, <2>2
<1>7. CASE PassEnds \/ Stop \/ StopPlans \/ SteerNow
  BY <1>7, <1>k DEF PassEnds, Stop, StopPlans, SteerNow, disk
<1>8. CASE StopEnds
  <2>1. /\ covered' = [a \in Assets |-> IF a \in hosted THEN Last(a) ELSE covered[a]]
        /\ UNCHANGED <<record, hosted, retired, overlay>> /\ process # "down"
    BY <1>8 DEF StopEnds
  <2>2. \A a \in hosted : covered'[a] = Last(a)
    BY <2>1, <1>t
  <2>3. \A a \in retired \cup overlay : covered'[a] = covered[a]
    BY <2>1, <1>t, <1>r
  <2> QED BY <2>1, <2>2, <2>3 DEF Sealed, Last
<1>9. ASSUME NEW a \in Assets, RetireEnds(a) PROVE Sealed'
  <2>1. /\ covered' = [covered EXCEPT ![a] = Last(a)] /\ hosted' \subseteq hosted
        /\ UNCHANGED <<process, record, overlay>> /\ retired' \subseteq retired \cup {a}
    BY <1>9 DEF RetireEnds
  <2>2. \A b \in Assets : covered'[b] = IF b = a THEN Last(b) ELSE covered[b]
    BY <2>1, <1>t
  <2> QED BY <2>1, <2>2, <1>t DEF Sealed, Last
<1>10. ASSUME NEW a \in Assets, StoreRetirement(a) PROVE Sealed'
  <2>1. a \in retired
    BY <1>10 DEF StoreRetirement, Requests
  <2> QED BY <1>10, <2>1, <1>k DEF StoreRetirement
<1>11. ASSUME NEW a \in Assets, Host(a) PROVE Sealed'
  <2>1. covered[a] = Last(a)
    <3>1. Last(a) = 0
      BY <1>11 DEF Host, Requests
    <3> QED BY <3>1, <1>t
  <2>2. hosted' = hosted \cup {a} /\ UNCHANGED <<process, retired, overlay, record, covered>>
    BY <1>11 DEF Host, disk
  <2> QED BY <2>1, <2>2 DEF Sealed, Last
<1>12. ASSUME NEW a \in Assets, RetireAsked(a) \/ RetirePlans(a) \/ Register(a) \/ SteerAsked(a)
       PROVE  Sealed'
  BY <1>12, <1>k DEF RetireAsked, RetirePlans, Register, SteerAsked, disk
<1>13. CASE UNCHANGED vars
  BY <1>13, <1>k DEF vars, memory, disk
<1> QED
  BY <1>1, <1>3, <1>4, <1>5, <1>6, <1>7, <1>8, <1>9, <1>10, <1>11, <1>12, <1>13, LifecycleAssumption
  DEF Next, Answer

-----------------------------------------------------------------------------
(* The theorems *)

\* The invariant holds of every reachable state, whatever the handlers interleave.
THEOREM Inductive == Spec => []IInv
<1>1. Init => IInv
  <2> SUFFICES ASSUME Init PROVE IInv
    OBVIOUS
  <2>1. Types /\ NothingIsAhead
    BY DataInit DEF Data
  <2>2. /\ \A w \in Writers : plan[w] = None
        /\ \A a \in Assets : plan[a] = None /\ task[a] = "idle" /\ Last(a) = 0 /\ covered[a] = 0
    BY DEF Init, Writers, Last
  <2>3. Scheduler
    BY <2>2 DEF Init, Scheduler, OneLoop, InFlight, Writers
  <2>4. Known
    BY <2>2 DEF Init, Known
  <2>5. Requests
    BY <2>2 DEF Init, Requests
  <2>6. Sealed
    BY <2>2 DEF Init, Sealed
  <2> QED BY <2>1, <2>3, <2>4, <2>5, <2>6 DEF IInv
<1>2. IInv /\ [Next]_vars => IInv'
  BY DataStep, SchedulerStep, KnownStep, RequestsStep, SealedStep DEF IInv, Data
<1> QED BY <1>1, <1>2, PTL DEF Spec

\* Every variable keeps its type, nothing is ahead of the record it was taken
\* from, and no market is hosted and retired, or hosted and refused, at once.
THEOREM TypeCorrect == Spec => []TypeOK
<1>1. IInv => TypeOK
  <2> SUFFICES ASSUME IInv PROVE TypeOK
    OBVIOUS
  <2>1. timers \in 0..1
    BY DEF IInv, Types, Scheduler, OneLoop
  <2>2. \A w \in Writers : plan[w] = None \/ PlanTyped(plan[w])
    BY DEF IInv, Types, NothingIsAhead, PlanShaped, PlanTyped, Last
  <2>3. \A a \in Assets :
          /\ record[a] \in Seq(BOOLEAN) /\ Len(record[a]) <= MaxTicks[a]
          /\ position[a] <= Len(record[a]) /\ covered[a] <= Len(record[a])
          /\ checkpoint[a] = None \/
               (checkpoint[a] \in StateRecord /\ checkpoint[a].sequence <= Len(record[a]))
    BY DEF IInv, Types, NothingIsAhead, Last
  <2> QED BY <2>1, <2>2, <2>3 DEF IInv, Types, Requests, TypeOK
<1> QED BY <1>1, Inductive, PTL

\* A process that is up has either a timer pending or a pass in flight, never
\* both and never neither: schedule(), wake(), a failed pass and every handler
\* that waits between advances keep the one loop of passes going.
THEOREM LoopIsOne == Spec => []OneLoop
<1>1. IInv => OneLoop
  BY DEF IInv, Scheduler
<1> QED BY <1>1, Inductive, PTL

\* A retired market's chain ends at its last tick, and once stop() has returned
\* that of every market does with nothing left to add a tick: retire() and
\* sealAll() seal after the awaits other handlers get in at.
THEOREM SealsAreLast == Spec => []SealedAtTheLastTick
<1>1. IInv => SealedAtTheLastTick
  BY DEF IInv, Scheduler, Sealed, SealedAtTheLastTick
<1> QED BY <1>1, Inductive, PTL

\* A market with a tick in its record is in the catalogue or the registry, so a
\* process that dies between storing a market and hosting it loses no record.
THEOREM PrintsAreKnown == Spec => []PrintedIsKnown
<1>1. IInv => PrintedIsKnown
  <2> SUFFICES ASSUME IInv, NEW a \in Assets, Last(a) > 0 PROVE a \in Catalogue \cup registered
    BY DEF PrintedIsKnown
  <2> QED BY DEF IInv, Known
<1> QED BY <1>1, Inductive, PTL

=============================================================================
