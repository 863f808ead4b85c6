--------------------------- MODULE ListingProofs ---------------------------
(***************************************************************************)
(* Theorems about Listing for every value of its constants: what goes      *)
(* wrong on a walk over the pages goes wrong only because the owner's      *)
(* collections changed meanwhile, and in a place the theorems name.        *)
(* Whoever is still to come stays at or after the offset, as long as       *)
(* nobody before it is dropped, and whoever was given stays before it, as  *)
(* long as nobody before it is created.                                    *)
(***************************************************************************)
EXTENDS Listing, RepositoryProofs

\* The state of the walks, as far as the proofs need it.
WalksOK ==
    /\ walk \in [Walk -> {"idle", "list", "stats", "200", "500"}]
    /\ offset \in [Walk -> Nat]
    /\ next \in [Walk -> Nat \union {None}]
    /\ page \in [Walk -> SUBSET PhysicalName]
    /\ seen \in [Walk -> Seq(SUBSET PhysicalName)]
    /\ start \in [Walk -> SUBSET PhysicalName]
    /\ gone \in [Walk -> SUBSET PhysicalName]
    /\ came \in [Walk -> SUBSET PhysicalName]
    /\ torn \in [Walk -> SUBSET PhysicalName]
    /\ faulted \in SUBSET Walk

\* A walk begins at offset 0 with nothing given, and its next page follows on.
Paged(w) ==
    /\ walk[w] = "idle" => offset[w] = 0 /\ seen[w] = << >>
    /\ walk[w] = "stats" => next[w] \in {None, offset[w] + PageSize}

\* A collection of the page is the owner's, and there unless it was dropped
\* since the page was listed; a page refused though no call failed lacks one.
PageKept(w) ==
    /\ walk[w] = "stats" => page[w] \subseteq names_now(w) \union torn[w]
    /\ walk[w] = "500" /\ w \notin faulted => page[w] \intersect torn[w] # {}

\* Those the client is owed: there from the start, not given yet, and nobody
\* before them was dropped.
Due(w) ==
    {n \in (start[w] \ gone[w]) \ Listed(w) : \A m \in gone[w] : ~Before(m, n)}

\* They are there, at the offset or after it; when a page is being filled, after
\* that page, and then there is a next one.
Ahead(w) ==
    /\ Walking(w) => start[w] \ gone[w] \subseteq names_now(w)
    /\ walk[w] = "list" => \A n \in Due(w) : Place(names_now(w), n) >= offset[w]
    /\ walk[w] = "stats" => \A n \in Due(w) \ page[w] :
            next[w] # None /\ Place(names_now(w), n) >= next[w]
    /\ walk[w] = "200" => Due(w) = {}

\* The names before which nobody was created.
Settled(w) == {n \in PhysicalName : \A m \in came[w] : ~Before(m, n)}

\* Those of them that were given lie before the offset, and are given once.
Behind(w) ==
    /\ Walking(w) => \A n \in Settled(w) \intersect Listed(w) :
            Place(names_now(w), n) < offset[w]
    /\ walk[w] = "stats" => \A n \in Settled(w) \intersect page[w] :
            n \notin Listed(w) /\ Place(names_now(w), n) < offset[w] + PageSize
    /\ \A i, j \in DOMAIN seen[w] :
            i # j => Settled(w) \intersect seen[w][i] \intersect seen[w][j] = {}

WalkInv(w) == Paged(w) /\ PageKept(w) /\ Ahead(w) /\ Behind(w)

LInv == IInv /\ WalksOK /\ \A w \in Walk : WalkInv(w)

-----------------------------------------------------------------------------
(* Places in a sorted list *)

\* An owner has finitely many collections.
OwnedFew ==
    \A w \in Walk : /\ owned_collections(db, w) \subseteq PhysicalName
                    /\ IsFiniteSet(owned_collections(db, w))

\* The repository's invariant implies it, before a step and after it.
LEMMA OwnedFinite == (IInv => OwnedFew) /\ (IInv' => OwnedFew')
<1>1. IInv => OwnedFew
  <2> SUFFICES ASSUME IInv, NEW w \in Walk
               PROVE  /\ owned_collections(db, w) \subseteq PhysicalName
                      /\ IsFiniteSet(owned_collections(db, w))
    BY DEF OwnedFew
  <2>1. owned_collections(db, w) \subseteq get_collections(db)
    BY DEF owned_collections
  <2>2. get_collections(db) \subseteq PhysicalName
    BY DEF get_collections, IInv, TypeOK
  <2> QED
    BY <2>1, <2>2, FewCollections, FS_Subset
<1> QED
  BY <1>1, PTL

\* The place of a name grows when nobody before it leaves the list.
LEMMA PlaceGrows ==
    ASSUME NEW names, NEW others, IsFiniteSet(names), IsFiniteSet(others), NEW n,
           \A m \in names : Before(m, n) => m \in others
    PROVE  /\ Place(names, n) \in Nat /\ Place(others, n) \in Nat
           /\ Place(names, n) =< Place(others, n)
<1> DEFINE few == {m \in names : Before(m, n)}
           many == {m \in others : Before(m, n)}
<1>1. IsFiniteSet(few) /\ IsFiniteSet(many)
  BY FS_Subset
<1>2. few \subseteq many
  OBVIOUS
<1>3. Place(names, n) = Cardinality(few) /\ Place(others, n) = Cardinality(many)
  BY DEF Place
<1> HIDE DEF few, many
<1> QED
  BY <1>1, <1>2, <1>3, FS_Subset, FS_CardinalityType

\* A name of the list has a place in it.
LEMMA PlaceInside ==
    ASSUME NEW names \in SUBSET PhysicalName, IsFiniteSet(names), NEW n \in names
    PROVE  /\ Place(names, n) \in Nat /\ Cardinality(names) \in Nat
           /\ Place(names, n) < Cardinality(names)
<1> DEFINE few == {m \in names : Before(m, n)}
<1>1. ~Before(n, n)
  BY ListingAssumption DEF Before, PhysicalName
<1>2. IsFiniteSet(few) /\ few \subseteq names /\ n \notin few
  BY <1>1, FS_Subset
<1>3. Place(names, n) = Cardinality(few)
  BY DEF Place
<1> HIDE DEF few
<1>4. Cardinality(few) =< Cardinality(names) /\ Cardinality(few) # Cardinality(names)
  BY <1>2, FS_Subset
<1> QED
  BY <1>2, <1>3, <1>4, FS_CardinalityType

-----------------------------------------------------------------------------
(* Steps *)

\* The step leaves the walk as it is.
StandsStill(w) ==
    /\ walk'[w] = walk[w] /\ offset'[w] = offset[w] /\ next'[w] = next[w]
    /\ page'[w] = page[w] /\ seen'[w] = seen[w] /\ start'[w] = start[w]
    /\ (w \in faulted') = (w \in faulted)

\* A walk that stands still keeps its invariant while the collections stay.
LEMMA StillWalks ==
    ASSUME NEW w \in Walk, WalkInv(w), StandsStill(w), UNCHANGED db,
           gone'[w] = gone[w], came'[w] = came[w], torn'[w] = torn[w]
    PROVE  WalkInv(w)'
BY DEF WalkInv, StandsStill, Paged, PageKept, Ahead, Behind, Due, Settled, Listed,
   Walking, names_now

\* A request's step keeps the invariant of a walk under way: what it drops and
\* what it creates is written down.
LEMMA BesideWalking ==
    ASSUME LInv, NEW r \in Request, Beside(r), IInv', NEW w \in Walk, Walking(w)
    PROVE  WalkInv(w)'
<1> DEFINE now == owned_collections(db, w)
           new == owned_collections(db', w)
<1>1. /\ StandsStill(w)
      /\ gone'[w] = gone[w] \union (now \ new)
      /\ torn'[w] = torn[w] \union (now \ new)
      /\ came'[w] = came[w] \union (new \ now)
  BY DEF Beside, StandsStill, Lost, Found
<1>2. /\ now \subseteq PhysicalName /\ IsFiniteSet(now)
      /\ new \subseteq PhysicalName /\ IsFiniteSet(new)
  BY OwnedFinite DEF OwnedFew, LInv
<1>3. names_now(w) = now /\ names_now(w)' = new
  BY DEF names_now
<1> HIDE DEF now, new
<1>4. Walking(w)' /\ Listed(w)' = Listed(w) /\ walk[w] \in {"list", "stats"}
  BY <1>1 DEF Walking, Listed, StandsStill
<1>5. Paged(w)' /\ PageKept(w)'
  BY <1>1, <1>3, <1>4 DEF LInv, WalkInv, Paged, PageKept, StandsStill
<1>6. Ahead(w)'
  <2>1. Due(w)' \subseteq Due(w)
    BY <1>1, <1>4 DEF Due, StandsStill
  <2>2. \A n \in Due(w)' : /\ Place(now, n) \in Nat /\ Place(new, n) \in Nat
                            /\ Place(now, n) =< Place(new, n)
    <3> SUFFICES ASSUME NEW n \in Due(w)'
                 PROVE  \A m \in now : Before(m, n) => m \in new
      BY <1>2, PlaceGrows
    <3> QED
      BY <1>1 DEF Due
  <2>3. start'[w] \ gone'[w] \subseteq new
    BY <1>1, <1>3 DEF LInv, WalkInv, Ahead, StandsStill
  <2>4. Ahead(w)
    BY DEF LInv, WalkInv
  <2>5. ASSUME walk[w] = "list", NEW n \in Due(w)' PROVE Place(new, n) >= offset'[w]
    BY <1>1, <1>3, <2>1, <2>2, <2>4, <2>5 DEF Ahead, StandsStill, LInv, WalksOK
  <2>6. ASSUME walk[w] = "stats", NEW n \in Due(w)' \ page'[w]
        PROVE  next'[w] # None /\ Place(new, n) >= next'[w]
    BY <1>1, <1>3, <2>1, <2>2, <2>4, <2>6 DEF Ahead, StandsStill, LInv, WalksOK
  <2> QED
    BY <1>1, <1>3, <1>4, <2>3, <2>5, <2>6 DEF Ahead, StandsStill
<1>7. Behind(w)'
  <2>1. Settled(w)' \subseteq Settled(w)
    BY <1>1 DEF Settled
  <2>2. \A n \in Settled(w)' : /\ Place(now, n) \in Nat /\ Place(new, n) \in Nat
                                /\ Place(new, n) =< Place(now, n)
    <3> SUFFICES ASSUME NEW n \in Settled(w)'
                 PROVE  \A m \in new : Before(m, n) => m \in now
      BY <1>2, PlaceGrows
    <3> QED
      BY <1>1 DEF Settled
  <2>3. Behind(w)
    BY DEF LInv, WalkInv
  <2>4. ASSUME NEW n \in Settled(w)', n \in Listed(w)
        PROVE  Place(new, n) < offset'[w]
    BY <1>1, <1>3, <2>1, <2>2, <2>3, <2>4 DEF Behind, StandsStill, LInv, WalksOK
  <2>5. ASSUME walk[w] = "stats", NEW n \in Settled(w)', n \in page'[w]
        PROVE  n \notin Listed(w) /\ Place(new, n) < offset'[w] + PageSize
    BY <1>1, <1>3, <2>1, <2>2, <2>3, <2>5, ListingAssumption
    DEF Behind, StandsStill, LInv, WalksOK
  <2>6. \A i, j \in DOMAIN seen'[w] :
            i # j => Settled(w)' \intersect seen'[w][i] \intersect seen'[w][j] = {}
    BY <1>1, <2>1, <2>3 DEF Behind, StandsStill
  <2> QED
    BY <1>1, <1>3, <1>4, <2>4, <2>5, <2>6 DEF Behind, StandsStill
<1> QED
  BY <1>5, <1>6, <1>7 DEF WalkInv

\* A walk that is not under way does not notice a request's step.
LEMMA BesideResting ==
    ASSUME LInv, NEW r \in Request, Beside(r), NEW w \in Walk, ~Walking(w)
    PROVE  WalkInv(w)'
<1>1. /\ StandsStill(w) /\ gone'[w] = gone[w] /\ came'[w] = came[w]
      /\ torn'[w] = torn[w]
  BY DEF Beside, StandsStill, LInv, WalksOK
<1>2. walk[w] \notin {"list", "stats"} /\ Listed(w)' = Listed(w)
  BY <1>1 DEF Walking, Listed, StandsStill
<1>3. Due(w)' = Due(w) /\ Settled(w)' = Settled(w)
  BY <1>1, <1>2 DEF Due, Settled, StandsStill
<1> QED
  BY <1>1, <1>2, <1>3 DEF LInv, WalkInv, StandsStill, Paged, PageKept, Ahead,
     Behind, Walking

\* A page is given: the walk goes on after it, or ends.
LEMMA GivenWalks ==
    ASSUME LInv, NEW w \in Walk, NEW names \in SUBSET PhysicalName,
           NEW following \in {None, offset[w] + PageSize}, Given(w, names, following),
           UNCHANGED <<db, start, gone, came>>, Walking(w),
           \A n \in Due(w) \ names :
                following # None /\ Place(names_now(w), n) >= offset[w] + PageSize,
           \A n \in Settled(w) \intersect names :
                n \notin Listed(w) /\ Place(names_now(w), n) < offset[w] + PageSize
    PROVE  WalkInv(w)'
<1> DEFINE now == names_now(w)
<1>1. names_now(w)' = now
  BY DEF names_now
<1>2. /\ seen'[w] = Append(seen[w], names)
      /\ walk'[w] = IF following = None THEN "200" ELSE "list"
      /\ offset'[w] = IF following = None THEN offset[w] ELSE following
      /\ offset[w] \in Nat /\ offset[w] + PageSize \in Nat
      /\ seen[w] \in Seq(SUBSET PhysicalName)
      /\ None \notin Nat
  BY ListingAssumption DEF Given, LInv, WalksOK
<1>3. \A n \in PhysicalName : Place(now, n) \in Nat
  BY PlaceGrows, OwnedFinite DEF OwnedFew, LInv, names_now
<1> HIDE DEF now
<1>4. Listed(w)' = Listed(w) \union names
  <2>1. \A i \in DOMAIN seen'[w] :
            seen'[w][i] = IF i \in DOMAIN seen[w] THEN seen[w][i] ELSE names
    BY <1>2
  <2>2. DOMAIN seen'[w] = DOMAIN seen[w] \union {Len(seen[w]) + 1}
        /\ Len(seen[w]) + 1 \notin DOMAIN seen[w]
    BY <1>2
  <2> QED
    BY <2>1, <2>2 DEF Listed
<1>5. Due(w)' = Due(w) \ names /\ Settled(w)' = Settled(w)
  BY <1>4 DEF Due, Settled
<1>6. Paged(w)' /\ PageKept(w)'
  BY <1>2 DEF Paged, PageKept
<1>7. Ahead(w)'
  <2>1. start[w] \ gone[w] \subseteq now
    BY DEF LInv, WalkInv, Ahead, now
  <2>2. following = None => Due(w)' = {}
    BY <1>5
  <2>3. ASSUME following # None, NEW n \in Due(w)' PROVE Place(now, n) >= offset'[w]
    BY <1>2, <1>5, <2>3 DEF now
  <2> QED
    BY <1>1, <1>2, <2>1, <2>2, <2>3 DEF Ahead, Walking
<1>8. Behind(w)'
  <2>1. Behind(w)
    BY DEF LInv, WalkInv
  <2>2. ASSUME following # None, NEW n \in Settled(w), n \in Listed(w) \union names
        PROVE  Place(now, n) < offset'[w]
    <3>1. Place(now, n) \in Nat
      BY <1>3 DEF Settled
    <3> QED
      BY <1>2, <2>1, <2>2, <3>1, ListingAssumption DEF Behind, now
  <2>3. ASSUME NEW i \in DOMAIN seen'[w], NEW j \in DOMAIN seen'[w], i # j
        PROVE  Settled(w) \intersect seen'[w][i] \intersect seen'[w][j] = {}
    <3>1. CASE i \in DOMAIN seen[w] /\ j \in DOMAIN seen[w]
      BY <1>2, <2>1, <2>3, <3>1 DEF Behind
    <3>2. ASSUME NEW k \in DOMAIN seen[w]
          PROVE  Settled(w) \intersect seen'[w][k] \intersect names = {}
      <4>1. seen'[w][k] = seen[w][k] /\ seen[w][k] \subseteq Listed(w)
        BY <1>2 DEF Listed
      <4> QED
        BY <4>1
    <3>3. CASE i \notin DOMAIN seen[w]
      <4>1. seen'[w][i] = names /\ j \in DOMAIN seen[w]
        BY <1>2, <2>3, <3>3
      <4> QED
        BY <3>2, <4>1
    <3>4. CASE j \notin DOMAIN seen[w]
      <4>1. seen'[w][j] = names /\ i \in DOMAIN seen[w]
        BY <1>2, <2>3, <3>4
      <4> QED
        BY <3>2, <4>1
    <3> QED
      BY <3>1, <3>3, <3>4
  <2> QED
    BY <1>1, <1>2, <1>4, <1>5, <2>2, <2>3 DEF Behind, Walking
<1> QED
  BY <1>6, <1>7, <1>8 DEF WalkInv

\* What the slice of a page leaves out is before the page or after it, and if
\* there is anything after it there is a next page.
LEMMA SliceSplits ==
    ASSUME LInv, NEW w \in Walk, walk[w] = "list"
    PROVE  LET now == names_now(w)
               following == next_offset(now, w)
           IN  /\ following \in {None, offset[w] + PageSize}
               /\ Slice(now, w) \subseteq now
               /\ \A n \in Due(w) \ Slice(now, w) :
                    following # None /\ Place(now, n) >= offset[w] + PageSize
               /\ \A n \in Settled(w) \intersect Slice(now, w) :
                    n \notin Listed(w) /\ Place(now, n) < offset[w] + PageSize
<1> DEFINE now == names_now(w)
           following == next_offset(now, w)
<1>1. now \subseteq PhysicalName /\ IsFiniteSet(now)
  BY OwnedFinite DEF OwnedFew, names_now, LInv
<1>2. \A n \in now : /\ Place(now, n) \in Nat /\ Cardinality(now) \in Nat
                      /\ Place(now, n) < Cardinality(now)
  <2> HIDE DEF now
  <2> QED
    BY <1>1, PlaceInside
<1>3. Walking(w) /\ Ahead(w) /\ Behind(w)
  BY DEF LInv, WalkInv, Walking
<1>4. Due(w) \subseteq now /\ \A n \in Due(w) : Place(now, n) >= offset[w]
  BY <1>3 DEF Ahead, Due
<1>5. /\ following = IF offset[w] + PageSize < Cardinality(now)
                     THEN offset[w] + PageSize ELSE None
      /\ \A n : n \in Slice(now, w) <=>
            n \in now /\ offset[w] =< Place(now, n) /\ Place(now, n) < offset[w] + PageSize
  BY DEF next_offset, Slice
<1>6. \A n \in Settled(w) \intersect Listed(w) : Place(now, n) < offset[w]
  BY <1>3 DEF Behind
<1>7. offset[w] \in Nat /\ PageSize \in Nat /\ None \notin Nat
  BY ListingAssumption DEF LInv, WalksOK
<1> HIDE DEF now, following
<1>8. \A n \in Due(w) \ Slice(now, w) :
        following # None /\ Place(now, n) >= offset[w] + PageSize
  BY <1>2, <1>4, <1>5, <1>7
<1>9. \A n \in Settled(w) \intersect Slice(now, w) :
        n \notin Listed(w) /\ Place(now, n) < offset[w] + PageSize
  BY <1>2, <1>5, <1>6, <1>7
<1> QED
  BY <1>5, <1>8, <1>9 DEF now, following

\* A walk begins where the owner's collections are what it starts with.
LEMMA BeginWalks ==
    ASSUME LInv, NEW w \in Walk, Begin(w)
    PROVE  WalkInv(w)'
<1>1. /\ walk'[w] = "list" /\ start'[w] = names_now(w) /\ UNCHANGED <<db, gone, came>>
      /\ offset'[w] = 0 /\ seen'[w] = << >>
  BY DEF Begin, vars, names_now, LInv, WalksOK, WalkInv, Paged
<1>2. names_now(w)' = names_now(w)
  BY <1>1 DEF names_now
<1>3. names_now(w) \subseteq PhysicalName /\ IsFiniteSet(names_now(w))
  BY OwnedFinite DEF OwnedFew, names_now, LInv
<1>4. \A n : Place(names_now(w), n) \in Nat
  BY <1>3, PlaceGrows
<1>5. Listed(w)' = {}
  BY <1>1 DEF Listed
<1>6. Due(w)' \subseteq start'[w]
  BY DEF Due
<1> QED
  BY <1>1, <1>2, <1>4, <1>5, <1>6 DEF WalkInv, Paged, PageKept, Ahead, Behind, Walking

\* The list is read and cut: the page is filled, or an empty one given.
LEMMA ListWalks ==
    ASSUME LInv, NEW w \in Walk, list_user_collections(w)
    PROVE  WalkInv(w)'
<1> DEFINE now == names_now(w)
           following == next_offset(now, w)
           slice == Slice(now, w)
<1>1. walk[w] = "list" /\ Walking(w) /\ UNCHANGED <<db, start, gone, came>>
  BY DEF list_user_collections, vars, Walking
<1>2. /\ following \in {None, offset[w] + PageSize} /\ slice \subseteq now
      /\ \A n \in Due(w) \ slice :
            following # None /\ Place(now, n) >= offset[w] + PageSize
      /\ \A n \in Settled(w) \intersect slice :
            n \notin Listed(w) /\ Place(now, n) < offset[w] + PageSize
  BY <1>1, SliceSplits
<1>3. now \subseteq PhysicalName
  BY OwnedFinite DEF OwnedFew, names_now, LInv
<1>4. CASE slice = {}
  <2>1. Given(w, {}, following)
    BY <1>4 DEF list_user_collections
  <2>2. \A n \in Due(w) \ {} :
            following # None /\ Place(names_now(w), n) >= offset[w] + PageSize
    BY <1>2, <1>4
  <2> HIDE DEF now, following, slice
  <2> QED
    BY <1>1, <1>2, <2>1, <2>2, GivenWalks
<1>5. CASE slice # {}
  <2>1. /\ walk'[w] = "stats" /\ page'[w] = slice /\ next'[w] = following
        /\ offset'[w] = offset[w] /\ seen'[w] = seen[w] /\ torn'[w] = {}
    BY <1>5 DEF list_user_collections, LInv, WalksOK
  <2>2. names_now(w)' = now
    BY <1>1 DEF names_now
  <2>3. Listed(w)' = Listed(w) /\ Due(w)' = Due(w) /\ Settled(w)' = Settled(w)
    BY <1>1, <2>1 DEF Listed, Due, Settled
  <2>4. Ahead(w) /\ Behind(w)
    BY DEF LInv, WalkInv
  <2>5. following # None => following = offset[w] + PageSize
    BY <1>2
  <2> HIDE DEF now, following, slice
  <2>6. Paged(w)' /\ PageKept(w)'
    BY <1>2, <2>1, <2>2 DEF Paged, PageKept
  <2>7. Ahead(w)'
    BY <1>1, <1>2, <2>1, <2>2, <2>3, <2>4, <2>5 DEF Ahead, Walking, now
  <2>8. Behind(w)'
    BY <1>1, <1>2, <2>1, <2>2, <2>3, <2>4 DEF Behind, Walking, now
  <2> QED
    BY <2>6, <2>7, <2>8 DEF WalkInv
<1> QED
  BY <1>4, <1>5

\* A call that fails ends the walk, which is excused.
LEMMA FaultWalks ==
    ASSUME LInv, NEW w \in Walk, Walking(w), call_fails(w),
           UNCHANGED <<came, seen>>
    PROVE  WalkInv(w)'
<1>1. walk'[w] = "500" /\ w \in faulted'
  BY DEF call_fails, Raised, LInv, WalksOK
<1>2. Behind(w) /\ Settled(w)' = Settled(w)
  BY DEF LInv, WalkInv, Settled
<1> QED
  BY <1>1, <1>2 DEF WalkInv, Paged, PageKept, Ahead, Behind, Walking

\* A call about a collection of the page returns, fails, or raises because the
\* collection is gone.
LEMMA StatsWalks ==
    ASSUME LInv, NEW w \in Walk, stats_for(w)
    PROVE  WalkInv(w)'
<1>1. /\ walk[w] = "stats" /\ UNCHANGED <<db, offset, next, page, seen, start,
                                          gone, came, torn>>
      /\ \/ UNCHANGED <<walk, faulted>>
         \/ walk'[w] = "500" /\ \E n \in page[w] : ~Present(db, n)
         \/ call_fails(w)
  BY DEF stats_for, Raised, vars, LInv, WalksOK
<1>2. CASE UNCHANGED <<walk, faulted>>
  BY <1>1, <1>2, StillWalks DEF LInv, StandsStill
<1>3. CASE walk'[w] = "500" /\ \E n \in page[w] : ~Present(db, n)
  <2>1. page[w] \intersect torn[w] # {}
    BY <1>1, <1>3 DEF LInv, WalkInv, PageKept, names_now, owned_collections,
       get_collections
  <2>2. Behind(w) /\ Settled(w)' = Settled(w)
    BY <1>1 DEF LInv, WalkInv, Settled
  <2> QED
    BY <1>1, <1>3, <2>1, <2>2 DEF WalkInv, Paged, PageKept, Ahead, Behind, Walking
<1>4. CASE call_fails(w)
  BY <1>1, <1>4, FaultWalks DEF Walking
<1> QED
  BY <1>1, <1>2, <1>3, <1>4

\* The page is complete.
LEMMA GatheredWalks ==
    ASSUME LInv, NEW w \in Walk, gathered(w)
    PROVE  WalkInv(w)'
<1>1. /\ walk[w] = "stats" /\ Walking(w) /\ Given(w, page[w], next[w])
      /\ UNCHANGED <<db, start, gone, came, torn>>
  BY DEF gathered, vars, Walking
<1>2. /\ next[w] \in {None, offset[w] + PageSize} /\ page[w] \in SUBSET PhysicalName
      /\ Ahead(w) /\ Behind(w)
  BY <1>1 DEF LInv, WalkInv, WalksOK, Paged
<1>3. \A n \in Due(w) \ page[w] :
        next[w] # None /\ Place(names_now(w), n) >= offset[w] + PageSize
  BY <1>1, <1>2 DEF Ahead
<1>4. \A n \in Settled(w) \intersect page[w] :
        n \notin Listed(w) /\ Place(names_now(w), n) < offset[w] + PageSize
  BY <1>1, <1>2 DEF Behind
<1> QED
  BY <1>1, <1>2, <1>3, <1>4, GivenWalks

-----------------------------------------------------------------------------
(* The invariant *)

\* The initial state satisfies the invariant.
LEMMA ListingInitInv == ListingInit => LInv
<1> SUFFICES ASSUME ListingInit PROVE LInv
  OBVIOUS
<1>1. IInv
  BY InitInv DEF ListingInit
<1>2. WalksOK
  BY ListingAssumption DEF ListingInit, WalksOK
<1>3. ASSUME NEW w \in Walk PROVE WalkInv(w)
  BY DEF ListingInit, WalkInv, Paged, PageKept, Ahead, Behind, Walking
<1> QED
  BY <1>1, <1>2, <1>3 DEF LInv

\* Every step keeps the types of the walks.
LEMMA WalksTyped ==
    ASSUME LInv, [ListingNext]_list_vars, IInv'
    PROVE  WalksOK'
<1> USE DEF LInv, WalksOK
<1>1. CASE UNCHANGED list_vars
  BY <1>1 DEF list_vars, walk_vars
<1>2. ASSUME NEW r \in Request, Beside(r) PROVE WalksOK'
  <2>1. \A w \in Walk : /\ owned_collections(db, w) \subseteq PhysicalName
                         /\ owned_collections(db', w) \subseteq PhysicalName
    BY OwnedFinite DEF OwnedFew
  <2>2. \A w \in Walk : Lost(w) \subseteq PhysicalName /\ Found(w) \subseteq PhysicalName
    BY <2>1 DEF Lost, Found
  <2> QED
    BY <1>2, <2>2 DEF Beside
<1>3. ASSUME NEW w \in Walk, Begin(w) PROVE WalksOK'
  BY <1>3, OwnedFinite DEF OwnedFew, Begin
<1>4. ASSUME NEW w \in Walk, NEW names \in SUBSET PhysicalName,
             NEW following \in Nat \union {None}, Given(w, names, following)
      PROVE  /\ seen' \in [Walk -> Seq(SUBSET PhysicalName)]
             /\ walk' \in [Walk -> {"idle", "list", "stats", "200", "500"}]
             /\ offset' \in [Walk -> Nat]
  BY <1>4 DEF Given
<1>5. ASSUME NEW w \in Walk, list_user_collections(w) PROVE WalksOK'
  <2> DEFINE now == names_now(w)
             following == next_offset(now, w)
             slice == Slice(now, w)
  <2>1. slice \in SUBSET PhysicalName /\ {} \in SUBSET PhysicalName
    BY OwnedFinite DEF OwnedFew, names_now, Slice
  <2>2. following \in Nat \union {None}
    BY ListingAssumption DEF next_offset
  <2>3. /\ next' = [next EXCEPT ![w] = following] /\ page' = [page EXCEPT ![w] = slice]
        /\ torn' = [torn EXCEPT ![w] = {}] /\ UNCHANGED <<start, gone, came, faulted>>
        /\ \/ Given(w, {}, following)
           \/ walk' = [walk EXCEPT ![w] = "stats"] /\ UNCHANGED <<seen, offset>>
    BY <1>5 DEF list_user_collections
  <2> HIDE DEF now, following, slice
  <2> QED
    BY <1>4, <2>1, <2>2, <2>3
<1>6. ASSUME NEW w \in Walk, stats_for(w) PROVE WalksOK'
  BY <1>6 DEF stats_for, call_fails, Raised
<1>7. ASSUME NEW w \in Walk, gathered(w) PROVE WalksOK'
  BY <1>4, <1>7 DEF gathered
<1>8. ASSUME NEW w \in Walk, list_fails(w) PROVE WalksOK'
  BY <1>8 DEF list_fails, call_fails, Raised
<1> QED
  BY <1>1, <1>2, <1>3, <1>5, <1>6, <1>7, <1>8 DEF ListingNext, ListingQuiet, WalkStep

\* Every step keeps the invariant.
LEMMA ListingNextInv == LInv /\ [ListingNext]_list_vars => LInv'
<1> SUFFICES ASSUME LInv, [ListingNext]_list_vars PROVE LInv'
  OBVIOUS
<1>1. IInv'
  <2>1. UNCHANGED vars \/ \E r \in Request : Receive(r) \/ Step(r) \/ Fail(r)
    BY DEF ListingNext, ListingQuiet, Beside, Begin, WalkStep, list_user_collections,
       list_fails, stats_for, gathered, list_vars
  <2> QED
    BY <2>1, NextInv DEF LInv, Next
<1>2. WalksOK'
  BY <1>1, WalksTyped
<1>3. ASSUME NEW w \in Walk PROVE WalkInv(w)'
  <2>1. CASE UNCHANGED list_vars
    BY <2>1, StillWalks DEF LInv, list_vars, walk_vars, vars, StandsStill
  <2>2. ASSUME NEW r \in Request, Beside(r) PROVE WalkInv(w)'
    BY <1>1, <2>2, BesideWalking, BesideResting
  <2>3. ASSUME NEW t \in Walk, t # w, Begin(t) \/ WalkStep(t) PROVE WalkInv(w)'
    <3>1. /\ StandsStill(w) /\ UNCHANGED <<db, gone, came>> /\ torn'[w] = torn[w]
      BY <2>3 DEF Begin, WalkStep, list_user_collections, list_fails, stats_for,
         gathered, Given, call_fails, Raised, vars, StandsStill, LInv, WalksOK
    <3> QED
      BY <3>1, StillWalks DEF LInv
  <2>4. ASSUME Begin(w) \/ WalkStep(w) PROVE WalkInv(w)'
    <3>1. ASSUME list_fails(w) PROVE WalkInv(w)'
      BY <3>1, FaultWalks DEF list_fails, Walking
    <3> QED
      BY <2>4, <3>1, BeginWalks, ListWalks, StatsWalks, GatheredWalks DEF WalkStep
  <2> QED
    BY <2>1, <2>2, <2>3, <2>4 DEF ListingNext, ListingQuiet
<1> QED
  BY <1>1, <1>2, <1>3 DEF LInv

\* Every reachable state satisfies the invariant.
THEOREM ListingInvariance == ListingSpec => []LInv
BY ListingInitInv, ListingNextInv, PTL DEF ListingSpec

-----------------------------------------------------------------------------
(* The properties *)

\* A walk that ends skips a collection that was always there only where one
\* before it was dropped.
THEOREM Skips == ListingSpec => []SkipsNeedADrop
<1>1. LInv => SkipsNeedADrop
  BY DEF LInv, WalkInv, Ahead, Due, SkipsNeedADrop
<1> QED
  BY <1>1, ListingInvariance, PTL

\* A walk is given a collection twice only where one before it was created.
THEOREM Repeats == ListingSpec => []RepeatsNeedACreation
<1>1. LInv => RepeatsNeedACreation
  <2> SUFFICES ASSUME LInv, NEW w \in Walk, NEW i \in DOMAIN seen[w],
                      NEW j \in DOMAIN seen[w], i # j,
                      NEW n \in seen[w][i] \intersect seen[w][j]
               PROVE  n \notin Settled(w) /\ n \in PhysicalName
    BY DEF RepeatsNeedACreation, Settled
  <2> QED
    BY DEF LInv, WalkInv, WalksOK, Behind
<1> QED
  BY <1>1, ListingInvariance, PTL

\* Unless a call of it failed, a page is refused only if one of its collections
\* was dropped while it was being filled.
THEOREM Errs == ListingSpec => []ErrsNeedADrop
<1>1. LInv => ErrsNeedADrop
  BY DEF LInv, WalkInv, PageKept, ErrsNeedADrop
<1> QED
  BY <1>1, ListingInvariance, PTL

=============================================================================
