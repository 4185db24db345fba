---------------------------- MODULE Publication ----------------------------
(***************************************************************************)
(* The commitment chain of one market, across processes: the publisher and *)
(* the writer of packages/distribution/src (publisher.ts,                  *)
(* publicationWriter.ts), primed from the tick record at boot by           *)
(* apps/api/src/publication.service.ts and read back by the verifier and   *)
(* the proof of commitmentsFile.ts and journalFile.ts.                     *)
(*                                                                         *)
(* Each file write is a step, and a process is killed between any two.  A  *)
(* tick is its sequence: what a sequence was served as is StateDirectory's *)
(* matter.  A root is the link it was computed over, as a hash without     *)
(* collisions.                                                             *)
(***************************************************************************)
EXTENDS Naturals, Sequences, FiniteSets, FiniteSetsExt, SequencesExt

CONSTANTS
  NoRoot,          \* the empty root a genesis link follows
  WindowTicks,     \* ticks per commitment window
  SequenceLease,   \* how far a seam jumps
  Faults,          \* which of "disk" (a write fails), "rollback" (a restored record) and
                   \* "off" (OTC_PUBLICATION_DIR is not set) occur
  MaxSequence,     \* bound: ticks published
  MaxBatch,        \* bound: ticks of one pass
  MaxDepartures    \* bound: kills, stops, failures, rollbacks and unpublished runs

ASSUME PublicationAssumption ==
  /\ {WindowTicks, SequenceLease, MaxBatch} \subseteq Nat \ {0}
  /\ Faults \subseteq {"disk", "rollback", "off"}
  /\ MaxSequence \in Nat /\ MaxDepartures \in Nat

VARIABLES
  record,      \* the tick record
  next,        \* the sequence of the market's next tick
  hosted,      \* the market has not been refused by a publication
  pc,          \* where the process is
  pub,         \* its publisher
  writing,     \* windows closed and not written yet
  journaled,   \* the first of them has its journal
  runs,        \* what of the record is left to fold in
  seamed,      \* the market opened with a seam at this boot
  chain,       \* commitments.ndjson
  torn,        \* it ends in an unfinished line
  journals,    \* the ranges whose journal was written
  published,   \* history: every sequence ever published
  unreached,   \* history: what a boot found in the record and could not fold
  crashed,     \* history: a process was killed, or did not publish its record
  rolled,      \* history: the record was rolled back
  failed,      \* history: a write failed
  departures

market == <<record, next, hosted, published>>
process == <<pc, pub, writing, journaled, runs, seamed>>
files == <<chain, torn, journals>>
history == <<unreached, crashed, rolled, failed, departures>>
vars == <<market, process, files, history>>

-----------------------------------------------------------------------------
(* The publisher; 0 is null *)

Fresh == [open |-> <<>>, prev |-> NoRoot, next |-> 0, tip |-> 0, resumes |-> 0]
Continued(link) == [open |-> <<>>, prev |-> link, next |-> link.to + 1, tip |-> link.to,
                    resumes |-> 0]

\* The first tick a resuming publisher sees says whether there is a gap at all,
\* and starts the chain again when it lies at or behind the head.
Decided(p, first) ==
  IF p.resumes = 0 \/ p.next # 0 THEN p
  ELSE IF first <= p.resumes THEN Fresh
  ELSE IF first = p.resumes + 1 THEN [p EXCEPT !.resumes = 0]
  ELSE p

Link(window, prev, resumes) ==
  [from |-> Head(window), to |-> Last(window), prev |-> prev, resumes |-> resumes]

\* Mutant: the declaration is kept for the windows after the first.
ClosedStillResuming(p, link, rest) == [p EXCEPT !.open = rest, !.prev = link,
                                                !.next = link.to + 1, !.tip = link.to]
Closed(p, link, rest) ==
  [open |-> rest, prev |-> link, next |-> link.to + 1, tip |-> link.to, resumes |-> 0]

\* Every window that fills is closed on the one before it.
CloseFull(p) ==
  LET full == Len(p.open) \div WindowTicks
      state[i \in 0..full] ==
        IF i = 0 THEN p
        ELSE LET q == state[i - 1]
                 link == Link(SubSeq(q.open, 1, WindowTicks), q.prev, q.resumes)
             IN Closed(q, link, SubSeq(q.open, WindowTicks + 1, Len(q.open)))
  IN [pub |-> state[full], links |-> [i \in 1..full |-> state[i].prev]]

\* observe: a gap is refused.
Expects(p, first) ==
  IF p.open # <<>> THEN first = Last(p.open) + 1 ELSE p.next \in {0, first}
Observe(p, batch) ==
  LET q == Decided(p, Head(batch))
  IN CloseFull([q EXCEPT !.open = @ \o batch, !.next = IF @ = 0 THEN Head(batch) ELSE @])

\* sealChain: the open window, however short.
Seal(p) ==
  IF p.open = <<>> THEN [pub |-> p, links |-> <<>>]
  ELSE LET link == Link(p.open, p.prev, p.resumes)
       IN [pub |-> Closed(p, link, <<>>), links |-> <<link>>]

\* seamChain, once sealed: the next window binds the head and declares the gap.
Seam(p) ==
  IF p.tip = 0 THEN Fresh
  ELSE [open |-> <<>>, prev |-> p.prev, next |-> 0, tip |-> p.tip, resumes |-> p.tip]

-----------------------------------------------------------------------------
(* The boot *)

Departs == departures < MaxDepartures /\ departures' = departures + 1

HeadOf(r) == Max(r \cup {0})

Interval(a, b) == [i \in 1..(b - a + 1) |-> a + i - 1]
\* The run a set of sequences begins with: those before its first jump.
FirstRun(sequences) ==
  LET first == Min(sequences)
  IN Interval(first, CHOOSE e \in sequences : first..e \subseteq sequences /\ e + 1 \notin sequences)

Quiet == pc = "up" /\ writing = <<>>

\* register, the market's resume or seam, and the first look of prime: a chain
\* that was never begun folds nothing, one the record does not continue is seamed.
Boot(outcome) ==
  LET past == {s \in record : chain # <<>> => s > Last(chain).to}
      from == Last(chain).to + 1
  IN /\ pc = "down"
     /\ ~torn
     /\ outcome = "seamed" => record # {}
     /\ next' = HeadOf(record) + IF outcome = "seamed" THEN 1 + SequenceLease ELSE 1
     /\ hosted' = TRUE
     /\ seamed' = (outcome = "seamed")
     /\ IF chain # <<>> /\ from \in record
        THEN /\ pc' = "fold"
             /\ pub' = Continued(Last(chain))
             /\ runs' = past
             /\ UNCHANGED unreached
        ELSE /\ pc' = "up"
             /\ pub' = IF chain = <<>> THEN Fresh ELSE Seam(Continued(Last(chain)))
             /\ runs' = {}
             /\ unreached' = unreached \cup past
     /\ UNCHANGED <<record, published, writing, journaled, files, crashed, rolled, failed, departures>>

\* prime folds the record in, run by run.
Fold ==
  /\ pc = "fold"
  /\ writing = <<>>
  /\ IF runs = {}
     THEN pc' = (IF seamed THEN "jump" ELSE "up") /\ UNCHANGED <<pub, writing, runs>>
     ELSE LET run == FirstRun(runs) IN
          /\ Expects(pub, Head(run))
          /\ LET seen == Observe(pub, run) IN pub' = seen.pub /\ writing' = seen.links
          /\ runs' = {s \in runs : s > Last(run)}
          /\ pc' = IF runs' = {} THEN "fold" ELSE "jump"
  /\ UNCHANGED <<market, journaled, seamed, files, history>>

SealOpen == LET sealed == Seal(pub) IN pub' = sealed.pub /\ writing' = sealed.links

\* A jump, in the record or at the first live tick: what is open is sealed.
Jump ==
  /\ pc = "jump"
  /\ writing = <<>>
  /\ SealOpen
  /\ pc' = "bind"
  /\ UNCHANGED <<market, journaled, runs, seamed, files, history>>

\* Mutant: what follows the first jump is not folded.
BindOnce ==
  /\ pc = "bind"
  /\ writing = <<>>
  /\ pub' = Seam(pub)
  /\ pc' = "up"
  /\ runs' = {}
  /\ UNCHANGED <<market, writing, journaled, seamed, files, history>>
Bind ==
  /\ pc = "bind"
  /\ writing = <<>>
  /\ pub' = Seam(pub)
  /\ pc' = IF runs = {} THEN "up" ELSE "fold"
  /\ UNCHANGED <<market, writing, journaled, runs, seamed, files, history>>

-----------------------------------------------------------------------------
(* The running market *)

\* A pass: the ticks are recorded, offered to the feed, and observed.  A chain
\* they do not continue refuses them, and the market is unhosted.
Pass(n) ==
  /\ Quiet
  /\ hosted
  /\ next + n - 1 <= MaxSequence
  /\ record' = record \cup next..(next + n - 1)
  /\ published' = published \cup next..(next + n - 1)
  /\ next' = next + n
  /\ IF Expects(pub, next)
     THEN LET seen == Observe(pub, Interval(next, next + n - 1))
          IN pub' = seen.pub /\ writing' = seen.links /\ UNCHANGED hosted
     ELSE hosted' = FALSE /\ UNCHANGED <<pub, writing>>
  /\ UNCHANGED <<pc, journaled, runs, seamed, files, history>>

\* #reopen: the market starved, and reopens past a seam.
Reopen ==
  /\ Quiet
  /\ hosted
  /\ record # {}
  /\ next' = HeadOf(record) + 1 + SequenceLease
  /\ SealOpen
  /\ pc' = "bind"
  /\ UNCHANGED <<record, hosted, published, journaled, runs, seamed, files, history>>

\* stop: every open window is sealed.
Stop ==
  /\ Quiet
  /\ Departs
  /\ SealOpen
  /\ pc' = "stop"
  /\ UNCHANGED <<market, journaled, runs, seamed, files, unreached, crashed, rolled, failed>>

-----------------------------------------------------------------------------
(* The files *)

\* Mutant: the line is appended before its journal is written.
WriteJournalLast ==
  /\ writing # <<>>
  /\ IF journaled
     THEN /\ journals' = journals \cup {<<Head(writing).from, Head(writing).to>>}
          /\ writing' = Tail(writing)
          /\ UNCHANGED chain
     ELSE chain' = Append(chain, Head(writing)) /\ UNCHANGED <<journals, writing>>
  /\ journaled' = ~journaled
  /\ UNCHANGED <<market, pc, pub, runs, seamed, torn, history>>
\* #write: the journal of a window, then its line.
Write ==
  /\ writing # <<>>
  /\ IF journaled
     THEN /\ chain' = Append(chain, Head(writing))
          /\ writing' = Tail(writing)
          /\ UNCHANGED journals
     ELSE /\ journals' = journals \cup {<<Head(writing).from, Head(writing).to>>}
          /\ UNCHANGED <<chain, writing>>
  /\ journaled' = ~journaled
  /\ UNCHANGED <<market, pc, pub, runs, seamed, torn, history>>

Gone ==
  /\ pc' = "down"
  /\ pub' = Fresh
  /\ writing' = <<>> /\ journaled' = FALSE
  /\ runs' = {} /\ seamed' = FALSE

\* A write fails: an observe passes that on, which unhosts the market or fails
\* the boot; a seal logs it and goes on.
WriteFails ==
  /\ "disk" \in Faults
  /\ writing # <<>>
  /\ Departs
  /\ IF pc \in {"fold", "jump"}
     THEN Gone /\ UNCHANGED hosted
     ELSE /\ hosted' = (hosted /\ pc # "up")
          /\ writing' = <<>> /\ journaled' = FALSE
          /\ UNCHANGED <<pc, pub, runs, seamed>>
  /\ failed' = TRUE
  /\ UNCHANGED <<record, next, published, files, unreached, crashed, rolled>>

Exit ==
  /\ pc = "stop"
  /\ writing = <<>>
  /\ Gone
  /\ UNCHANGED <<market, files, history>>

Kill ==
  /\ pc # "down"
  /\ Departs
  /\ Gone
  /\ crashed' = TRUE
  /\ UNCHANGED <<market, files, unreached, rolled, failed>>

\* A host that goes down while a line is appended leaves a part of it.
KillMidLine ==
  /\ journaled
  /\ Departs
  /\ Gone
  /\ torn' = TRUE
  /\ crashed' = TRUE
  /\ UNCHANGED <<market, chain, journals, unreached, rolled, failed>>

\* No boot continues a file cut mid-append until an operator truncates it.
Truncate ==
  /\ torn
  /\ torn' = FALSE
  /\ UNCHANGED <<market, process, chain, journals, history>>

\* A record restored from a backup, beside a chain kept elsewhere.
Rollback ==
  /\ "rollback" \in Faults
  /\ pc = "down"
  /\ Departs
  /\ \E kept \in record : record' = {s \in record : s <= kept}
  /\ rolled' = TRUE
  /\ UNCHANGED <<next, hosted, published, process, files, unreached, crashed, failed>>

\* A process that does not publish serves and records as one that does.
RunUnpublished(outcome, n) ==
  /\ "off" \in Faults
  /\ pc = "down"
  /\ Departs
  /\ outcome = "seamed" => record # {}
  /\ LET first == HeadOf(record) + IF outcome = "seamed" THEN 1 + SequenceLease ELSE 1
         run == first..(first + n - 1)
     IN /\ first + n - 1 <= MaxSequence
        /\ record' = record \cup run
        /\ published' = published \cup run
  /\ crashed' = TRUE
  /\ UNCHANGED <<next, hosted, process, files, unreached, rolled, failed>>

Init ==
  /\ record = {} /\ next = 1 /\ hosted = TRUE
  /\ pc = "down" /\ pub = Fresh
  /\ writing = <<>> /\ journaled = FALSE
  /\ runs = {} /\ seamed = FALSE
  /\ chain = <<>> /\ torn = FALSE /\ journals = {}
  /\ published = {} /\ unreached = {}
  /\ crashed = FALSE /\ rolled = FALSE /\ failed = FALSE
  /\ departures = 0

Next ==
  \/ \E outcome \in {"resumed", "seamed"} :
       Boot(outcome) \/ \E n \in 1..MaxBatch : RunUnpublished(outcome, n)
  \/ Fold \/ Jump \/ Bind
  \/ \E n \in 1..MaxBatch : Pass(n)
  \/ Reopen \/ Stop \/ Exit
  \/ Write \/ WriteFails
  \/ Kill \/ KillMidLine \/ Truncate \/ Rollback

Spec == Init /\ [][Next]_vars

-----------------------------------------------------------------------------
(* What a counterparty reads *)

\* accept: whether the verifier takes a link after the one before it.
Accepts(previous, link) ==
  \/ link.prev = NoRoot /\ link.resumes = 0
  \/ /\ link.prev = previous
     /\ IF link.resumes = 0 THEN link.from = previous.to + 1
        ELSE link.resumes = previous.to /\ link.from > previous.to + 1
Verifies(links) ==
  /\ links # <<>> => links[1].prev = NoRoot /\ links[1].resumes = 0
  /\ \A i \in 2..Len(links) : Accepts(links[i - 1], links[i])

\* proveFromPublication: the first window in the file that reaches a sequence
\* has it, or it lies in an interval no window covers.
Proof(s) ==
  LET reaching == {i \in DOMAIN chain : s <= chain[i].to}
  IN IF reaching = {} THEN "uncommitted"
     ELSE LET link == chain[Min(reaching)]
          IN IF s < link.from THEN "uncommitted"
             ELSE IF <<link.from, link.to>> \in journals THEN "proved" ELSE "error"

-----------------------------------------------------------------------------
(* Properties *)

Committed == UNION {chain[i].from..chain[i].to : i \in DOMAIN chain}
Underway  == (UNION {writing[i].from..writing[i].to : i \in DOMAIN writing}) \cup ToSet(pub.open)

\* What the variables hold; the open window is short of a full one, and its
\* ticks follow each other.
TypeOK ==
  /\ record \cup published \cup unreached \subseteq 1..MaxSequence
  /\ pc \in {"down", "fold", "jump", "bind", "up", "stop"}
  /\ Len(pub.open) < WindowTicks
  /\ \A i \in 2..Len(pub.open) : pub.open[i] = pub.open[i - 1] + 1
  /\ pub.next \in Nat /\ pub.tip \in 0..MaxSequence /\ pub.resumes \in 0..MaxSequence
  /\ \A i \in DOMAIN chain : chain[i].from <= chain[i].to
  /\ journals \subseteq (1..MaxSequence) \X (1..MaxSequence)
  /\ journaled => writing # <<>>

\* Whatever processes were killed in, between the files or within a line,
\* restarted, seamed and sealed, a verifier accepts the chain on disk: each link
\* binds the one before it or begins the chain again.
ChainVerifies == failed \/ Verifies(chain)

\* No tick is left out of the chain: while no process is killed, each published
\* one is committed, or in a window that is open or being written, and after a
\* kill a boot brings back every tick the record still holds from the chain's
\* head on; only what it found out of reach of the head is never committed.
NothingIsAbandoned ==
  ~rolled /\ ~failed =>
    /\ ~crashed => published \subseteq Committed \cup Underway
    /\ Quiet => record \subseteq Committed \cup Underway \cup unreached

\* A committed sequence is proved from the archive at every moment, also after
\* a kill or a failure between a journal and its line, unless a rolled back record had the
\* chain begin again.
CommittedIsProved == ~rolled => \A s \in Committed : Proof(s) = "proved"

\* publicationWriter.ts, of a chain sealed at a seam: "The chain stays one chain".
\* No process leaves behind a chain that a verifier refuses.
ChainStaysOne == Verifies(chain)

\* publicationWriter.ts: "the interval nobody published is stated by a signed
\* link": no published sequence lies in the interval a link declares.
IntervalsAreUnpublished ==
  \A i \in DOMAIN chain : chain[i].resumes # 0 =>
    \A s \in (chain[i].resumes + 1)..(chain[i].from - 1) : s \notin published

=============================================================================
