----------------------------- MODULE MCLifespan -----------------------------
(***************************************************************************)
(* A small deployment of Lifespan for TLC: two pods.                       *)
(***************************************************************************)
EXTENDS Lifespan, MCRepository

\* One collection is there from before; another is created and dropped while
\* pods come and go.
LifespanWorkload ==
    [r \in Request |-> {IF r = c1 THEN Create(Alice, 1, None) ELSE Drop(Alice)}]

OldCollections == {physical_name(Alice, "chemistry")}

=============================================================================
