------------------------------ MODULE SeqFilter ------------------------------
(***************************************************************************)
(* The members of a sequence that belong to a set, in their order.         *)
(* SelectSeq with the set in place of the test, written as a recursive     *)
(* function: the provers know neither SelectSeq nor an operator they would *)
(* have to quantify over.                                                  *)
(***************************************************************************)
EXTENDS Naturals, Sequences

Kept(s, K) ==
  LET kept[i \in 0..Len(s)] ==
        IF i = 0 THEN <<>>
        ELSE IF s[i] \in K THEN Append(kept[i - 1], s[i]) ELSE kept[i - 1]
  IN  kept[Len(s)]
=============================================================================
