----------------------------- MODULE MCListing -----------------------------
(***************************************************************************)
(* Small instances of Listing for TLC, with the calls of MCRepository.     *)
(***************************************************************************)
EXTENDS Listing, MCRepository

WalkByAlice == [w \in Walk |-> Alice]

Alphabetical == [s \in SlugText |->
    CASE s = "biology" -> 1 [] s = "chemistry" -> 2 [] OTHER -> 3]

In(collection, c) == [c EXCEPT !.collection = collection]
Store(collection) == In(collection, Create(Alice, 1, None))

\* Three collections of Alice, one perhaps of another Alice, created and dropped
\* while she walks over hers.
ListingWorkload ==
    [r \in Request |->
        CASE r = c1 -> {Store("biology"), In("biology", Create(Alice2, 1, None))}
          [] r = c2 -> {Store("chemistry")}
          [] r = c3 -> {Store("physics"), Drop(Alice)}
          [] OTHER -> {Drop(Alice), In("physics", Drop(Alice)), Store("biology"),
                       Bulk(Alice, {c1}, None, FALSE)}]

=============================================================================
