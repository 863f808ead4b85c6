------------------------------ MODULE Listing ------------------------------
(***************************************************************************)
(* GET /v1/collections (src/app/db/repository.py: list_user_collections)   *)
(* beside the requests of Repository: a client walks over the pages of its *)
(* collections, and each page is cut by offset from a list that is read    *)
(* anew.  The statistics of a page's collections take several calls each,  *)
(* which are gathered; one that raises makes the whole page a 500, and so  *)
(* does the call for the list.  Any of them raises when it times out, and  *)
(* those of a collection when it is gone.  The calls only read, so the     *)
(* order the semaphore gives them is left open, and those still under way  *)
(* after one has raised are left out.                                      *)
(***************************************************************************)
EXTENDS RepositoryProps

CONSTANTS
    Walk,           \* walks of clients over their collections
    WalkOwner,      \* walk -> owner
    PageSize,       \* limit
    Rank,           \* the order of slugs
    StatsCalls      \* calls per collection: 2 for detail=basic, 4 for full

ASSUME ListingAssumption ==
    /\ None \notin Nat
    /\ WalkOwner \in [Walk -> Owner]
    /\ PageSize \in Nat \ {0} /\ StatsCalls \in Nat \ {0}
    /\ Rank \in [SlugText -> Nat]
    /\ \A a, b \in SlugText : Rank[a] = Rank[b] => a = b

VARIABLES
    walk,       \* walk -> idle, list, stats, or the status it ended with
    offset,     \* walk -> the offset of the page it asks for
    next,       \* walk -> the next_offset of that page
    page,       \* walk -> the collections of that page
    todo,       \* walk -> collection of the page -> calls still to make
    seen,       \* walk -> the pages it was given
    start,      \* history: the owner's collections when the walk began
    gone, came, \* history: those dropped and those created since
    torn,       \* history: those dropped since the last page was listed
    faulted     \* history: the walks a call of which failed or timed out

walk_vars ==
    <<walk, offset, next, page, todo, seen, start, gone, came, torn, faulted>>
list_vars == <<vars, walk_vars>>

ListingInit ==
    /\ Init
    /\ walk = [w \in Walk |-> "idle"]
    /\ offset = [w \in Walk |-> 0]
    /\ next = [w \in Walk |-> None]
    /\ page = [w \in Walk |-> {}]
    /\ todo = [w \in Walk |-> [n \in PhysicalName |-> 0]]
    /\ seen = [w \in Walk |-> << >>]
    /\ start = [w \in Walk |-> {}]
    /\ gone = [w \in Walk |-> {}]
    /\ came = [w \in Walk |-> {}]
    /\ torn = [w \in Walk |-> {}]
    /\ faulted = {}

-----------------------------------------------------------------------------
owned_collections(d, w) == {n \in get_collections(d) : owns(WalkOwner[w], n)}

Before(m, n) == Rank[m.slug] < Rank[n.slug]

\* The place of a name in the sorted list, counted from 0.
Place(names, n) == Cardinality({m \in names : Before(m, n)})

\* The slice of a page; the mutants are off by one at either end.
Slice_short(names, w) ==
    {n \in names : offset[w] < Place(names, n) /\ Place(names, n) < offset[w] + PageSize}
Slice_long(names, w) ==
    {n \in names : offset[w] =< Place(names, n) /\ Place(names, n) =< offset[w] + PageSize}
Slice(names, w) ==
    {n \in names : offset[w] =< Place(names, n) /\ Place(names, n) < offset[w] + PageSize}

next_offset(names, w) ==
    IF offset[w] + PageSize < Cardinality(names) THEN offset[w] + PageSize ELSE None

Begin(w) ==
    /\ walk[w] = "idle"
    /\ walk' = [walk EXCEPT ![w] = "list"]
    /\ start' = [start EXCEPT ![w] = owned_collections(db, w)]
    /\ UNCHANGED <<vars, offset, next, page, todo, seen, gone, came, torn, faulted>>

\* The page is given to the client, which asks for the next one if there is one.
Given(w, names, following) ==
    /\ seen' = [seen EXCEPT ![w] = Append(@, names)]
    /\ walk' = [walk EXCEPT ![w] = IF following = None THEN "200" ELSE "list"]
    /\ offset' = [offset EXCEPT ![w] = IF following = None THEN @ ELSE following]

\* The list is read anew for each page; the mutant keeps the first one.
names_cached(w) == start[w]
names_now(w) == owned_collections(db, w)

\* An exception of a call, which no handler catches, ends the walk.
Raised(w) == walk' = [walk EXCEPT ![w] = "500"]

\* The call fails, or is not answered in time, wherever its collection is.
call_fails(w) == Raised(w) /\ faulted' = faulted \union {w}

list_user_collections(w) ==
    LET names == names_now(w)
    IN  /\ walk[w] = "list"
        /\ next' = [next EXCEPT ![w] = next_offset(names, w)]
        /\ page' = [page EXCEPT ![w] = Slice(names, w)]
        /\ IF Slice(names, w) = {}
           THEN Given(w, {}, next_offset(names, w)) /\ UNCHANGED todo
           ELSE /\ walk' = [walk EXCEPT ![w] = "stats"]
                /\ todo' = [todo EXCEPT ![w] = [n \in PhysicalName |->
                                IF n \in Slice(names, w) THEN StatsCalls ELSE 0]]
                /\ UNCHANGED <<seen, offset>>
        /\ torn' = [torn EXCEPT ![w] = {}]
        /\ UNCHANGED <<vars, start, gone, came, faulted>>

\* The list of the collections cannot be read.
list_fails(w) ==
    /\ walk[w] = "list" /\ call_fails(w)
    /\ UNCHANGED <<vars, offset, next, page, todo, seen, start, gone, came, torn>>

\* One more call about one of the collections; each raises if it is gone.  A
\* facet and the scrolls that stand in for it when it raises are one call here:
\* whether it raises is settled by the last of them.
stats_for(w) ==
    /\ walk[w] = "stats"
    /\ \E n \in page[w] :
        /\ todo[w][n] > 0
        /\ \/ /\ Present(db, n)
              /\ todo' = [todo EXCEPT ![w][n] = @ - 1] /\ UNCHANGED <<walk, faulted>>
           \/ ~Present(db, n) /\ Raised(w) /\ UNCHANGED <<todo, faulted>>
           \/ call_fails(w) /\ UNCHANGED todo
    /\ UNCHANGED <<vars, offset, next, page, seen, start, gone, came, torn>>

gathered(w) ==
    /\ walk[w] = "stats" /\ \A n \in page[w] : todo[w][n] = 0
    /\ Given(w, page[w], next[w])
    /\ UNCHANGED <<vars, next, page, todo, start, gone, came, torn, faulted>>

WalkStep(w) ==
    list_user_collections(w) \/ list_fails(w) \/ stats_for(w) \/ gathered(w)

-----------------------------------------------------------------------------
Walking(w) == walk[w] \in {"list", "stats"}

\* The owner's collections that a step drops or creates.
Lost(w) == owned_collections(db, w) \ owned_collections(db', w)
Found(w) == owned_collections(db', w) \ owned_collections(db, w)

\* A request's step, and what walks under way might notice of it.
Beside(r) ==
    /\ Receive(r) \/ Step(r) \/ Fail(r)
    /\ gone' = [w \in Walk |-> gone[w] \union IF Walking(w) THEN Lost(w) ELSE {}]
    /\ torn' = [w \in Walk |-> torn[w] \union IF Walking(w) THEN Lost(w) ELSE {}]
    /\ came' = [w \in Walk |-> came[w] \union IF Walking(w) THEN Found(w) ELSE {}]
    /\ UNCHANGED <<walk, offset, next, page, todo, seen, start, faulted>>

ListingQuiet ==
    InFlight = {} /\ (\A w \in Walk : ~Walking(w)) /\ UNCHANGED list_vars

ListingNext ==
    \/ \E r \in Request : Beside(r)
    \/ \E w \in Walk : Begin(w) \/ WalkStep(w)
    \/ ListingQuiet

ListingSpec == ListingInit /\ [][ListingNext]_list_vars

-----------------------------------------------------------------------------
(* Properties *)

Listed(w) == UNION {seen[w][i] : i \in DOMAIN seen[w]}

\* A walk that ends leaves out a collection that was there all the time only if
\* a collection before it was dropped meanwhile (list_user_collections).
SkipsNeedADrop ==
    \A w \in Walk : walk[w] = "200" =>
        \A n \in (start[w] \ gone[w]) \ Listed(w) :
            \E m \in gone[w] : Before(m, n)

\* A walk is given the same collection twice only if a collection before it was
\* created meanwhile (list_user_collections).
RepeatsNeedACreation ==
    \A w \in Walk : \A i, j \in DOMAIN seen[w] :
        \A n \in seen[w][i] \intersect seen[w][j] :
            i # j => \E m \in came[w] : Before(m, n)

\* Unless a call of it failed or timed out, a page is refused with an internal
\* error only if one of its collections was dropped after the page was listed;
\* one dropped before that, even since the walk began, does no harm
\* (list_user_collections).
ErrsNeedADrop ==
    \A w \in Walk \ faulted :
        walk[w] = "500" => page[w] \intersect torn[w] # {}

=============================================================================
