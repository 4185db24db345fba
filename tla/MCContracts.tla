---------------------------- MODULE MCContracts ----------------------------
(***************************************************************************)
(* Two keepers of prices that contracts rest on, which share nothing: the  *)
(* venue's record, which a broker settles against and asks for a price     *)
(* (Settlement), and the laboratory's session, which steers a market with  *)
(* positions open on it (Laboratory).  A behaviour follows one of them.    *)
(***************************************************************************)
EXTENDS Settlement

CONSTANTS
  None, Streams, Paces, BiasTerm, BiasRun, MaxPush, ScenarioWindow, LabTime, MaxActs, MaxWaiting,
  MaxPositions

VARIABLES
  subject, \* the keeper the behaviour follows
  clock, stream, market, saving, waiting, desk, acts

session == <<clock, stream, market, saving, waiting, desk, acts>>

T(gap, size, sign) == [gap |-> gap, size |-> size, sign |-> sign]

\* A keystream with a wide tick of each sign between narrow ones.
MCStreams == {<<T(1, 1, 1), T(2, 2, -1), T(1, 1, 1)>>}

Lab == INSTANCE Laboratory WITH now <- clock, MaxTime <- LabTime

InitContracts ==
  /\ SettlementInit /\ Lab!Init
  /\ subject \in {"broker", "session"}
  /\ subject = "broker" => stream = CHOOSE s \in Streams : TRUE
  /\ subject = "session" => lattice = CHOOSE l \in Lattices : TRUE

NextContracts ==
  \/ subject = "broker" /\ SettlementNext /\ UNCHANGED subject /\ UNCHANGED session
  \/ subject = "session" /\ Lab!Next /\ UNCHANGED subject /\ UNCHANGED settlementVars

SpecContracts == InitContracts /\ [][NextContracts]_<<subject, settlementVars, session>>

\* What a push or a close announced is what the market prints (lab.controller.ts).
ActsLandAsAnnounced == subject = "session" => Lab!ActsLandAsAnnounced

\* A position settles from the entry price it was shown (positions.ts).
EntriesStand == subject = "session" => Lab!EntriesStand

\* A bias is recorded as expired when it ran out, and once (lab.controller.ts).
OnlyExpiriesAreRecorded == subject = "session" => Lab!OnlyExpiriesAreRecorded

\* Stated by the code without the exceptions, and not kept by it.
EveryEntryStands == subject = "session" => Lab!EveryEntryStands
PushesArePlayed == subject = "session" => Lab!PushesArePlayed
UndonePushesAreForgotten == subject = "session" => Lab!UndonePushesAreForgotten
SupersededIsNotMissed == subject = "session" => Lab!SupersededIsNotMissed
ExpiriesAreKept == Lab!ExpiriesAreKept
=============================================================================
