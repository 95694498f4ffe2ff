------------------------------- MODULE Lists -------------------------------
(***************************************************************************)
(* A list filtered by a set: what a loop that copies or keeps some of the  *)
(* entries of a list leaves of it.  Unlike SelectSeq, its definition is    *)
(* open to proofs (module ListLemmas).                                     *)
(***************************************************************************)
EXTENDS Naturals, Sequences

(* The elements of list that are in kept, in their order *)
Sublist(list, kept) ==
  LET upto[i \in 0..Len(list)] ==
        IF i = 0 THEN <<>>
        ELSE IF list[i] \in kept THEN Append(upto[i - 1], list[i])
        ELSE upto[i - 1]
  IN upto[Len(list)]
=============================================================================
