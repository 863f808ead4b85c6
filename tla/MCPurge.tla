------------------------------ MODULE MCPurge ------------------------------
(***************************************************************************)
(* Small instances of Purge for TLC, with the calls of MCRepository.       *)
(***************************************************************************)
EXTENDS Purge, MCRepository

PurgeByAlice == [s \in Purge |-> Alice]

In(collection, c) == [c EXCEPT !.collection = collection]

\* Alice's two collections, another Alice's, and late writers of hers.
PurgeWorkload ==
    [r \in Request |->
        CASE r = c1 -> {Create(Alice, 1, None)}
          [] r = c2 -> {In("chemistry", Create(Alice, 1, None)), Create(Alice2, 1, None)}
          [] OTHER -> {Create(Alice, 1, None), Drop(Alice),
                       Update(Alice, c1, None, None, TRUE), OnOne(Alice, "delete", c1)}]

\* A store still creating indexes, and one other request, while a purge is under
\* way.
EndsWorkload ==
    [r \in Request |->
        CASE r = c1 -> {Create(Alice, 1, None)}
          [] OTHER -> {Create(Alice, 1, None), In("chemistry", Create(Alice, 1, None)),
                       Drop(Alice), Bulk(Alice, {}, None, TRUE),
                       Update(Alice, c1, None, None, TRUE), OnOne(Alice, "delete", c1)}]

=============================================================================
