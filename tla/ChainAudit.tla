----------------------------- MODULE ChainAudit -----------------------------
(***************************************************************************)
(* What a counterparty checks of a published commitment chain              *)
(* (packages/distribution/src): verifySignedChain of signing.ts over a     *)
(* chain in memory, IncrementalChainVerifier of commitmentsFile.ts over a  *)
(* file a line at a time, the key rotations both read (rotation.ts), and   *)
(* the anchors taken of it (anchor.ts).                                    *)
(*                                                                         *)
(* The chain, the rotation log and a second chain held against an earlier  *)
(* anchor grow link by link, over all the links that could come next.  A   *)
(* root is the link it was computed over, signatures are sound, and there  *)
(* is one asset.                                                           *)
(***************************************************************************)
EXTENDS Naturals, Sequences, FiniteSets, SequencesExt

CONSTANTS
  NoRoot,        \* the empty root
  Elsewhere,     \* the root of a window this chain does not hold
  NoHead,        \* a rotation that names no head for this asset
  NoAnchor,
  Keys, Genesis, \* the signing keys, and the one a verifier is told
  MaxSequence, MaxLinks, MaxRotations   \* bounds

ASSUME AuditAssumption ==
  /\ Genesis \in Keys
  /\ MaxSequence \in Nat /\ MaxLinks \in Nat /\ MaxRotations \in Nat

VARIABLES
  chain,      \* the links presented
  rotations,  \* the rotation log
  anchor,     \* the anchor taken of an earlier chain
  anchored    \* history: that chain

vars == <<chain, rotations, anchor, anchored>>

-----------------------------------------------------------------------------
(* The keys: authorisedKeys *)

KeysOf(log) == <<Genesis>> \o [i \in DOMAIN log |-> log[i].to]
Authorised(log) ==
  /\ \A i \in DOMAIN log : log[i].epoch = i /\ log[i].from = KeysOf(log)[i]
  /\ IsInjective(KeysOf(log))

\* Whether a link is signed by a key that had its turn, and which turn.
Known(link) == \E i \in DOMAIN KeysOf(rotations) : KeysOf(rotations)[i] = link.key
EpochOf(link) == (CHOOSE i \in DOMAIN KeysOf(rotations) : KeysOf(rotations)[i] = link.key) - 1

RootOf(link) == [from |-> link.from, to |-> link.to, prev |-> link.prev, resumes |-> link.resumes]

-----------------------------------------------------------------------------
(* verifyChain and verifySignedChain *)

\* Whether a link follows the one before it: it binds its root, and either
\* tiles with it or declares where it ended.
Follows(previous, link) ==
  /\ link.prev = RootOf(previous)
  /\ IF link.resumes = 0 THEN link.from = previous.to + 1
     ELSE link.resumes = previous.to /\ link.from > previous.to + 1

First(link) == link.prev = NoRoot => link.resumes = 0

VerifyChain(links) ==
  /\ links # <<>>
  /\ First(links[1])
  /\ \A i \in 2..Len(links) : Follows(links[i - 1], links[i])

\* The rotations whose head lies before a link: its key must be at least theirs.
Required(links, i) ==
  {r \in DOMAIN rotations :
     rotations[r].head = NoHead \/ \E j \in 1..(i - 1) : RootOf(links[j]) = rotations[r].head}

VerifySignedChain(links) ==
  /\ VerifyChain(links)
  /\ Authorised(rotations)
  /\ \A r \in DOMAIN rotations :
       rotations[r].head = NoHead \/ \E j \in DOMAIN links : RootOf(links[j]) = rotations[r].head
  /\ \A i \in DOMAIN links :
       /\ Known(links[i])
       /\ i > 1 => EpochOf(links[i]) >= EpochOf(links[i - 1])
       /\ \A r \in Required(links, i) : EpochOf(links[i]) >= r

-----------------------------------------------------------------------------
(* IncrementalChainVerifier *)

Larger(a, b) == IF a > b THEN a ELSE b
Largest(S) == CHOOSE m \in S \cup {0} : \A n \in S : n <= m

\* Nothing is accepted yet; the heads to wait for are known from the first link on.
Verifier == [ok |-> TRUE, previous |-> NoRoot, epoch |-> 0, pending |-> {}, required |-> 0]

Begun(v) ==
  [v EXCEPT !.pending = {r \in DOMAIN rotations : rotations[r].head # NoHead},
            !.required = Largest({r \in DOMAIN rotations : rotations[r].head = NoHead})]

\* Mutant: the head a link brings floors the link itself.
AcceptEarly(v, link) ==
  LET started == IF v.previous = NoRoot THEN Begun(v) ELSE v
      due == {r \in started.pending : rotations[r].head = RootOf(link)}
      required == Larger(started.required, Largest(due))
      structural == IF v.previous = NoRoot \/ link.prev = NoRoot THEN First(link)
                    ELSE Follows(v.previous, link)
  IN IF /\ v.ok /\ structural /\ Known(link)
        /\ EpochOf(link) >= v.epoch /\ EpochOf(link) >= required
     THEN [ok |-> TRUE, previous |-> link, epoch |-> EpochOf(link),
           pending |-> started.pending \ due, required |-> required]
     ELSE [v EXCEPT !.ok = FALSE]
\* accept: an unbound link begins the chain again; the rotation whose head this
\* is floors the keys of the links after it.
Accept(v, link) ==
  LET started == IF v.previous = NoRoot THEN Begun(v) ELSE v
      due == {r \in started.pending : rotations[r].head = RootOf(link)}
      structural == IF v.previous = NoRoot \/ link.prev = NoRoot THEN First(link)
                    ELSE Follows(v.previous, link)
  IN IF /\ v.ok /\ structural /\ Known(link)
        /\ EpochOf(link) >= v.epoch /\ EpochOf(link) >= started.required
     THEN [ok |-> TRUE, previous |-> link, epoch |-> EpochOf(link),
           pending |-> started.pending \ due,
           required |-> Larger(started.required, Largest(due))]
     ELSE [v EXCEPT !.ok = FALSE]

After(links) ==
  LET v[i \in 0..Len(links)] == IF i = 0 THEN Verifier ELSE Accept(v[i - 1], links[i])
  IN v[Len(links)]

\* finish: something was accepted and no head is outstanding.
VerifyFile(links) ==
  Authorised(rotations) /\ links # <<>> /\ After(links).ok /\ After(links).pending = {}

-----------------------------------------------------------------------------
(* Anchors *)

Unbound(links) == {i \in 2..Len(links) : links[i].prev = NoRoot}
Breaks(links) ==
  LET at == SetToSortSeq(Unbound(links) \cup {i \in 2..Len(links) : links[i].resumes # 0}, <)
  IN [k \in DOMAIN at |-> [after |-> links[at[k] - 1].to, from |-> links[at[k]].from,
                           bound |-> at[k] \notin Unbound(links)]]

\* summarise refuses a run that is no chain, and an unbound one that covers
\* again what a run before it did.
Summarisable(links) ==
  /\ links # <<>>
  /\ First(links[1])
  /\ \A i \in 2..Len(links) :
       IF i \in Unbound(links) THEN First(links[i]) /\ links[i].from > links[i - 1].to
       ELSE Follows(links[i - 1], links[i])

Summary(links) ==
  [from |-> links[1].from, to |-> Last(links).to, links |-> Len(links), breaks |-> Breaks(links),
   head |-> RootOf(Last(links)), key |-> Last(links).key]

\* Mutant: the window the anchor ended at is not looked up again.
ExtendsByRange(earlier, links) ==
  /\ links[1].from = earlier.from
  /\ Last(links).to >= earlier.to
  /\ IsPrefix(earlier.breaks, Breaks(links))
  /\ Len(links) >= earlier.links
\* extendsAnchor
ExtendsAnchor(earlier, links) ==
  /\ links[1].from = earlier.from
  /\ Last(links).to >= earlier.to
  /\ IsPrefix(earlier.breaks, Breaks(links))
  /\ Len(links) >= earlier.links
  /\ \E i \in DOMAIN links :
       /\ links[i].to = earlier.to
       /\ \A j \in 1..(i - 1) : links[j].to # earlier.to
       /\ RootOf(links[i]) = earlier.head

-----------------------------------------------------------------------------
(* The chains and the logs there may be *)

\* Any window that could be written next, whatever it binds and declares; a
\* chain is not pursued past a link its verifier refused.
Links ==
  LET prevs == IF chain = <<>> THEN {NoRoot, Elsewhere} ELSE {NoRoot, Elsewhere, RootOf(Last(chain))}
  IN UNION {[from : {a}, to : a..MaxSequence, key : Keys, prev : prevs, resumes : 0..(a - 1)] :
              a \in 1..MaxSequence}

Present(link) ==
  /\ Len(chain) < MaxLinks
  /\ chain # <<>> => After(chain).ok
  /\ chain' = Append(chain, link)
  /\ UNCHANGED <<rotations, anchor, anchored>>

\* A rotation names the newest window of the chain, an earlier one, or none.
Rotate(rotation) ==
  /\ Len(rotations) < MaxRotations
  /\ Authorised(rotations)
  /\ rotations' = Append(rotations, rotation)
  /\ UNCHANGED <<chain, anchor, anchored>>

\* An anchor is taken, and a chain is presented beside it later, grown or not.
TakeAnchor(kept) ==
  /\ anchor = NoAnchor
  /\ Summarisable(chain)
  /\ anchor' = Summary(chain)
  /\ anchored' = chain
  /\ chain' = SubSeq(chain, 1, kept)
  /\ UNCHANGED rotations

Init ==
  /\ chain = <<>> /\ rotations = <<>>
  /\ anchor = NoAnchor /\ anchored = <<>>

Next ==
  \/ \E link \in Links : Present(link)
  \/ \E rotation \in [from : Keys, to : Keys, epoch : 1..MaxRotations,
                      head : {NoHead, Elsewhere} \cup {RootOf(chain[i]) : i \in DOMAIN chain}] :
       rotation.from # rotation.to /\ Rotate(rotation)
  \/ \E kept \in 0..Len(chain) : TakeAnchor(kept)

Spec == Init /\ [][Next]_vars

-----------------------------------------------------------------------------
(* Properties *)

\* What the variables hold; a head the accepted links brought is not waited for.
TypeOK ==
  /\ Len(chain) <= MaxLinks /\ Len(rotations) <= MaxRotations
  /\ \A i \in DOMAIN chain : chain[i].from <= chain[i].to /\ chain[i].key \in Keys
  /\ anchor = NoAnchor <=> anchored = <<>>
  /\ LET v == After(chain)
     IN /\ v.required \in 0..MaxRotations
        /\ v.ok => \A r \in v.pending, i \in DOMAIN chain : rotations[r].head # RootOf(chain[i])

\* commitmentsFile.ts: "`verifySignedChain`, one link at a time and with the same
\* verdicts."
SameVerdicts == chain # <<>> => (VerifySignedChain(chain) <=> VerifyFile(chain))

\* The two verifiers agree on every chain that does not begin again, whatever
\* the rotations name and wherever their heads lie in it.
SameVerdictsWhileBound == Unbound(chain) = {} => SameVerdicts

\* An anchor means growth and nothing else: a later chain that extends it holds,
\* window for window, what the anchored one held since it last began again, and
\* a venue that only appended is never told that its record went back.
AnchorsHoldForGrowth ==
  anchor # NoAnchor /\ chain # <<>> /\ Summarisable(chain) =>
    LET last == Largest(Unbound(anchored) \cup {1})
        tail == SubSeq(anchored, last, Len(anchored))
    IN /\ ExtendsAnchor(anchor, chain) =>
            \E i \in 0..(Len(chain) - Len(tail)) :
              \A j \in DOMAIN tail : RootOf(chain[i + j]) = RootOf(tail[j])
       /\ IsPrefix(anchored, chain) => ExtendsAnchor(anchor, chain)

=============================================================================
