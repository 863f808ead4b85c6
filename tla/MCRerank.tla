------------------------------ MODULE MCRerank ------------------------------
(***************************************************************************)
(* Small instances of Rerank for TLC: vectors of the plane at multiples of *)
(* 60 degrees, whose cosines are the halves -2/2, -1/2, 1/2 and 2/2, and   *)
(* the zero vector.                                                        *)
(***************************************************************************)
EXTENDS Rerank

\* Cosines below, at and above those of the other directions, in halves.
MCScore == {-1, 1, 2}

MCSim == [v \in Vector |-> [w \in Vector |->
    IF Zero \in {v, w} THEN 0
    ELSE LET turn == (v - w) % 6
         IN  CASE turn = 0 -> 2 [] turn \in {1, 5} -> 1
               [] turn \in {2, 4} -> -1 [] turn = 3 -> -2]]

=============================================================================
