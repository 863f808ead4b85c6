-------------------------- MODULE EmbeddingService --------------------------
(***************************************************************************)
(* What the service promises a client that has it to itself: every request *)
(* takes effect and is answered in one step.  Each owner has collections   *)
(* of points, all of one width, and no request reaches another owner's.    *)
(* There is no database, no filter and no payload index here.  A request   *)
(* that fails (500) may have done part of its work.                        *)
(*                                                                         *)
(* Translated from the answers the handlers of src/app/api/v1 document and *)
(* give; module Sequential shows that the repository implements it.        *)
(***************************************************************************)
EXTENDS FiniteSets, Naturals

CONSTANTS
    Request, Owner,
    Slug, SlugText,     \* what clients write, and what it names
    DropEmpty,
    Workload,           \* the calls each request may turn out to be
    Failing,            \* the requests that may fail
    None, Absent

VARIABLES
    held,       \* owner and slug -> Absent or a width and points
    asked,      \* request -> its call, once it is answered
    answer      \* request -> its answer

serviceVars == <<held, asked, answer>>

Place == [owner : Owner, slug : SlugText]

Init ==
    /\ held = [place \in Place |-> Absent]
    /\ asked = [r \in Request |-> None]
    /\ answer = [r \in Request |-> None]

-----------------------------------------------------------------------------
(* What a request makes of the collection it names: `old` is Absent or a   *)
(* width and points, and `new` is what it has become.                      *)

Held(old) == {id \in Request : old.points[id] # None}
Has(c, old) == old # Absent /\ c.id \in Held(old)

Empty(dim) == [dim |-> dim, points |-> [id \in Request |-> None]]
With(old, id, point) ==
    [dim |-> old.dim, points |-> [old.points EXCEPT ![id] = point]]
Without(old, ids) ==
    [dim |-> old.dim,
     points |-> [id \in Request |-> IF id \in ids THEN None ELSE old.points[id]]]

NewPoint(r, c) ==
    [vector  |-> c.dim,
     payload |-> [user_id |-> c.owner.username, topic |-> c.topic,
                  metadata |-> c.metadata, chunks |-> r, vector_dim |-> c.dim,
                  created_at |-> r, updated_at |-> r]]

\* The fields an update names, and no other.
Changed(r, c, point) ==
    LET Field(new, old) == IF new = None THEN old ELSE new
    IN  [vector |-> Field(c.dim, point.vector),
         payload |-> [point.payload EXCEPT
            !.topic = Field(c.topic, @), !.metadata = Field(c.metadata, @),
            !.chunks = IF c.chunks THEN r ELSE @,
            !.vector_dim = Field(c.dim, @), !.updated_at = r]]

\* The first store of a collection fixes its width.
StoreFirst(r, c, old, new) ==
    old = Absent /\ new = With(Empty(c.dim), r, NewPoint(r, c))

StoreNext(r, c, old, new) ==
    old # Absent /\ old.dim = c.dim /\ new = With(old, r, NewPoint(r, c))

Update(r, c, old, new) ==
    /\ Has(c, old) /\ c.dim \in {None, old.dim}
    /\ new = With(old, c.id, Changed(r, c, old.points[c.id]))

Delete(c, old, new) == Has(c, old) /\ new = Without(old, {c.id})

\* What a predicate of a client selects.
Selects(c, point) ==
    /\ c.topic \in {None, point.payload.topic}
    /\ \A k \in DOMAIN c.filter :
        /\ k \in DOMAIN point.payload.metadata
        /\ point.payload.metadata[k] \in c.filter[k]

Found(c, old) == {id \in Held(old) : Selects(c, old.points[id])}

ToDelete(c, old) == IF c.all THEN Held(old)
                    ELSE IF c.ids # {} THEN Held(old) \intersect c.ids
                    ELSE Found(c, old)

\* A collection that a bulk delete empties goes with its points.
Empties(c, old) ==
    DropEmpty /\ ToDelete(c, old) # {} /\ ToDelete(c, old) = Held(old)

BulkDelete(c, old, new) ==
    /\ old # Absent
    /\ new = IF Empties(c, old) THEN Absent ELSE Without(old, ToDelete(c, old))

DeleteCollection(old, new) ==
    old # Absent /\ new = IF DropEmpty THEN Absent ELSE Without(old, Held(old))

Changes(r, c, old, new) ==
    \/ c.kind = "create" /\ (StoreFirst(r, c, old, new) \/ StoreNext(r, c, old, new))
    \/ c.kind = "update" /\ Update(r, c, old, new)
    \/ c.kind = "delete" /\ Delete(c, old, new)
    \/ c.kind = "bulk_delete" /\ BulkDelete(c, old, new)
    \/ c.kind = "delete_collection" /\ DeleteCollection(old, new)

\* Half done: an empty collection, or one that was emptied and not dropped.
ChangesHalf(c, old, new) ==
    \/ c.kind = "create" /\ old = Absent /\ new = Empty(c.dim)
    \/ c.kind = "bulk_delete" /\ old # Absent /\ new = Without(old, ToDelete(c, old))

-----------------------------------------------------------------------------
(* What it answers *)

Removes(deleted, dropped) ==
    [status |-> 200, deleted |-> deleted, dropped |-> dropped, hits |-> {}]
Shown(status, hits) ==
    [status |-> status, deleted |-> 0, dropped |-> FALSE, hits |-> hits]

Reports(r, c, old, given) ==
    \/ c.kind = "create" /\ given = Shown(201, {r})
    \/ c.kind = "update" /\ given = Shown(200, {c.id})
    \/ c.kind = "delete" /\ given = Removes(1, FALSE)
    \/ /\ c.kind = "bulk_delete"
       /\ given = Removes(Cardinality(ToDelete(c, old)), Empties(c, old))
    \/ /\ c.kind = "delete_collection"
       /\ given = Removes(Cardinality(Held(old)), DropEmpty)

Succeeds(r, c, old, new, given) ==
    Changes(r, c, old, new) /\ Reports(r, c, old, given)

\* All that is found, or as much of it as was asked for.
Reads(c, old, given) ==
    \/ c.kind = "get" /\ Has(c, old) /\ given = Shown(200, {c.id})
    \/ /\ c.kind \in {"search", "page"} /\ old # Absent
       /\ c.kind = "search" => c.dim = old.dim
       /\ \E hits \in SUBSET Found(c, old) :
            /\ given = Shown(200, hits)
            /\ IF Cardinality(Found(c, old)) =< c.limit THEN hits = Found(c, old)
               ELSE Cardinality(hits) = c.limit

\* A collection or point that is not there, and a vector of another width, are
\* refused; a query of another width is an internal error.
Refused(c, old, given) ==
    \/ c.kind # "create" /\ old = Absent /\ given = Shown(404, {})
    \/ c.kind \in {"get", "update", "delete"} /\ ~Has(c, old) /\ given = Shown(404, {})
    \/ c.kind = "create" /\ old # Absent /\ old.dim # c.dim /\ given = Shown(409, {})
    \/ /\ c.kind = "update" /\ Has(c, old) /\ c.dim \notin {None, old.dim}
       /\ given = Shown(409, {})
    \/ c.kind = "search" /\ old # Absent /\ c.dim # old.dim /\ given = Shown(500, {})

\* A failed request did all, half or nothing of its work.
Fails(r, c, old, new, given) ==
    /\ r \in Failing /\ given = Shown(500, {})
    /\ new = old \/ Changes(r, c, old, new) \/ ChangesHalf(c, old, new)

Serves(r, c, old, new, given) ==
    \/ Succeeds(r, c, old, new, given)
    \/ new = old /\ (Reads(c, old, given) \/ Refused(c, old, given))
    \/ Fails(r, c, old, new, given)

\* A name of which slugify leaves nothing names no collection.
Unnamed(r, given) == given = Shown(422, {}) \/ (r \in Failing /\ given = Shown(500, {}))

-----------------------------------------------------------------------------
Serve(r, c) ==
    LET place == [owner |-> c.owner, slug |-> Slug[c.collection]]
    IN  IF place.slug = None THEN UNCHANGED held /\ Unnamed(r, answer'[r])
        ELSE /\ held' = [held EXCEPT ![place] = held'[place]]
             /\ Serves(r, c, held[place], held'[place], answer'[r])

Next ==
    \E r \in Request : \E c \in Workload[r] :
        /\ answer[r] = None
        /\ asked' = [asked EXCEPT ![r] = c]
        /\ answer' = [answer EXCEPT ![r] = answer'[r]]
        /\ Serve(r, c)

Spec == Init /\ [][Next]_serviceVars

=============================================================================
