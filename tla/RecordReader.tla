---------------------------- MODULE RecordReader ----------------------------
(***************************************************************************)
(* What a replica of a published record promises, whatever it stores and   *)
(* however it reads: it takes the record's entries one after another from  *)
(* the first, none skipped, none twice, none that the record does not      *)
(* hold, and every entry in the end.                                       *)
(***************************************************************************)
EXTENDS Sequences, Naturals

CONSTANT Readers

VARIABLES
  record,  \* the published record, which only grows
  taken    \* what each reader has taken of it

readerVars == <<record, taken>>

Init == record = <<>> /\ taken = [r \in Readers |-> <<>>]

Grow == /\ Len(record') > Len(record)
        /\ SubSeq(record', 1, Len(record)) = record
        /\ UNCHANGED taken

Take(r) == \E upTo \in (Len(taken[r]) + 1)..Len(record) :
             /\ taken' = [taken EXCEPT ![r] = SubSeq(record, 1, upTo)]
             /\ UNCHANGED record

Next == Grow \/ \E r \in Readers : Take(r)

Spec == Init /\ [][Next]_readerVars /\ \A r \in Readers : WF_readerVars(Take(r))

=============================================================================
