-------------------------- MODULE RepositoryProps --------------------------
(***************************************************************************)
(* What the storage operations of Repository owe their callers, under      *)
(* every interleaving of their Qdrant calls and under failures, and what   *)
(* they owe when requests come one at a time.                              *)
(***************************************************************************)
EXTENDS Repository

\* Type correctness: the shape of the database and of every request's state.
TypeOK ==
    /\ db \in [PhysicalName -> StoredCollection \union {Absent}]
    /\ pc \in [Request -> Label]
    /\ call \in [Request -> Call \union {None}]
    /\ local \in [Request -> Locals]
    /\ reply \in [Request -> Reply]
    /\ before \in [Request -> SUBSET Request]
    /\ removed \in [Request -> SUBSET Id]

-----------------------------------------------------------------------------
PointAt(d, name, id) == IF d[name] = Absent THEN None ELSE d[name].points[id]

HoldsPoint(name, id) == PointAt(db, name, id) # None

\* The requests that take the current step.
Moved(r) == pc'[r] # pc[r] \/ local'[r] # local[r]

Kind(r) == IF pc[r] = "idle" THEN "none" ELSE call[r].kind
Stores(r) == Kind(r) = "create"
Deletes(r) == Kind(r) \in {"delete", "bulk_delete", "delete_collection"}
OnPoint(r) == Kind(r) \in {"get", "update", "delete"}

Acknowledged(r) == pc[r] = "done" /\ reply[r].status \in {200, 201}

-----------------------------------------------------------------------------
(* Tenancy *)

\* A stored point was written by its owner's store, into the collection that
\* store named, under that owner's name, and keeps its creation time through
\* every update, even one that brings a deleted point back
\* (create_embedding, update_embedding).
StoredForItsOwner ==
    \A name \in PhysicalName, id \in Id :
        HoldsPoint(name, id) =>
            LET payload == db[name].points[id].payload
            IN  /\ Stores(id) /\ Name(id) = name
                /\ payload.user_id = call[id].owner.username
                /\ payload.created_at = id

\* Only a request of the owner who stored a point ever changes or removes it,
\* and any two users are told apart, those of two tenants who share a username
\* included (physical_name, and the drop in _maybe_drop_empty).
OnlyOwnersTouchPoints ==
    [][\A name \in PhysicalName, id \in Id :
            PointAt(db, name, id) # PointAt(db', name, id) =>
                \E r \in Request : Moved(r) /\ call[r].owner = call[id].owner]_vars

\* No answer ever shows a caller a point that another owner stored
\* (_owned_point, retrieve_embeddings, list_collection_embeddings).
AnswersStayInTenancy ==
    \A r \in Request : \A id \in reply[r].hits :
        Stores(id) /\ call[id].owner = call[r].owner

\* A 409 only ever reflects the caller's own earlier choice of dimension: some
\* store of the same owner gave the collection another width
\* (_assert_dimension_matches).
MismatchIsOwnChoice ==
    \A r \in Request : reply[r].status = 409 =>
        \E q \in Request \ {r} :
            /\ Stores(q) /\ call[q].owner = call[r].owner
            /\ Name(q) = Name(r) /\ call[q].dim # call[r].dim

-----------------------------------------------------------------------------
(* Integrity *)

\* Every vector of a collection has the collection's width, and its payload
\* says so, although the check and the write are two calls and the collection
\* may be dropped and created again with another width in between.
UniformWidth ==
    \A name \in PhysicalName, id \in Id :
        HoldsPoint(name, id) =>
            /\ db[name].points[id].vector = db[name].dim
            /\ db[name].points[id].payload.vector_dim = db[name].dim

\* A request that looks for a point in its collection and does not find it:
\* a 404, or a listing that is not full and leaves it out.
Misses(r, id) ==
    \/ OnPoint(r) /\ call[r].id = id /\ reply[r].status = 404
    \/ /\ Kind(r) = "page" /\ call[r].topic = None /\ DOMAIN call[r].filter = {}
       /\ \/ reply[r].status = 404
          \/ /\ reply[r].status = 200 /\ id \notin reply[r].hits
             /\ Cardinality(reply[r].hits) < call[r].limit

\* A store that was acknowledged before a request arrived is found by it,
\* unless some deletion really removed the point: concurrent first stores, a
\* collection dropped and created again, and failures lose nothing else.
AcknowledgedIsVisible ==
    \A r, id \in Request :
        /\ id \in before[r] /\ Stores(id) /\ reply[id].status = 201
        /\ Kind(r) # "none" /\ Name(r) = Name(id) /\ Misses(r, id)
        => \E q \in Request : id \in removed[q]

-----------------------------------------------------------------------------
(* Deletion *)

\* What a deletion asks for, as its caller sees it.
AsksFor(r, id) ==
    CASE Kind(r) = "delete" -> call[r].id = id
      [] Kind(r) = "delete_collection" -> TRUE
      [] Kind(r) = "bulk_delete" ->
            \/ call[r].all \/ id \in call[r].ids
            \/ /\ id \in Selected(db, Name(r), selector(r))
               /\ call[r].ids = {}
      [] OTHER -> FALSE

\* A point leaves its collection only by a deletion that asks for it
\* (bulk_delete_embeddings: "Delete many of the caller's points").
OnlyAskedForIsRemoved ==
    [][\A name \in PhysicalName, id \in Id :
            (HoldsPoint(name, id) /\ PointAt(db', name, id) = None) =>
                \E r \in Request :
                    Moved(r) /\ Name(r) = name /\ AsksFor(r, id)]_vars

\* A bulk delete by ids takes another point along, with the collection it found
\* empty, only when that point was still being written: one whose store was
\* acknowledged before the delete arrived, and that no update was rewriting,
\* stays (_maybe_drop_empty).
LossNeedsARace ==
    \A r \in Request, id \in Id :
        /\ Kind(r) = "bulk_delete" /\ call[r].ids # {} /\ id \in removed[r]
        /\ id \in before[r] /\ id \notin call[r].ids
        => \E u \in Request \ before[r] : Kind(u) = "update" /\ call[u].id = id

\* q was served at the same time as r, or may have been.
Overlaps(q, r) == q # r /\ pc[q] # "idle" /\ q \notin before[r] /\ r \notin before[q]

\* A deletion that nothing overlaps on its collection reports what it removed,
\* whatever happened to the collection before it came; one that misreports does
\* so because of a store, an update or another deletion that was under way
\* (bulk_delete_embeddings and delete_user_collection count, then delete).
MiscountNeedsARace ==
    \A r \in Request :
        /\ reply[r].status = 200 /\ Kind(r) \in {"bulk_delete", "delete_collection"}
        /\ reply[r].deleted # Cardinality(removed[r])
        => \E q \in Request :
            /\ Overlaps(q, r) /\ Name(q) = Name(r)
            /\ Stores(q) \/ Deletes(q) \/ Kind(q) = "update"

\* A point that was stored before a deletion of it arrived is there after the
\* deletion was acknowledged only if an update of that point overlapped the
\* deletion, and wrote back what it had read (update_embedding).
ReturnNeedsAnUpdate ==
    \A r, id \in Request :
        /\ Acknowledged(r)
        /\ \/ Kind(r) = "delete" /\ call[r].id = id
           \/ Kind(r) = "bulk_delete" /\ (call[r].all \/ id \in call[r].ids)
           \/ Kind(r) = "delete_collection"
        /\ id \in before[r] /\ HoldsPoint(Name(r), id)
        => \E u \in Request :
            Overlaps(u, r) /\ Kind(u) = "update" /\ call[u].id = id

\* Why a collection may be there with nothing in it: a store of its width is on
\* its way to write into it, a deletion that emptied it is on its way to drop it,
\* a fault ended one of them before it did, or what emptied it drops none.
Explains(q, name) ==
    /\ pc[q] # "idle" /\ Name(q) = name
    /\ \/ /\ Stores(q) /\ call[q].dim = db[name].dim
          /\ pc[q] \in {"create_payload_index", "get_collection", "upsert"}
       \/ removed[q] # {} /\ pc[q] \in {"count_left", "drop"}
       \/ /\ Stores(q) \/ removed[q] # {}
          /\ q \in Failing /\ reply[q].status = 500
       \/ removed[q] # {} /\ (Kind(q) = "delete" \/ ~DropEmpty)

\* No collection stays behind empty, listed and holding the owner to its width,
\* but for a fault, a deletion by id or the setting; whoever creates or empties
\* one fills or drops it, whatever others do to it between the calls
\* (ensure_collection, create_embedding, _maybe_drop_empty).
EmptyIsExplained ==
    \A name \in get_collections(db) :
        Stored(db, name) = {} => \E q \in Request : Explains(q, name)

\* Dropping a collection that answers 200 means there was something to delete
\* (delete_user_collection, and the comment in its handler).
DropDeletesSomething ==
    \A r \in Request :
        (Kind(r) = "delete_collection" /\ reply[r].status = 200) =>
            reply[r].deleted > 0

-----------------------------------------------------------------------------
(* Updates and creation *)

\* A store that no fault hits is answered with an internal error only when
\* another request that creates or removes its collection overlaps it: the
\* second of two first stores, or one whose collection is dropped before its
\* point is written (ensure_collection, create_embedding).
StoreErrNeedsARace ==
    \A r \in Request \ Failing :
        Stores(r) /\ reply[r].status = 500 =>
            \E q \in Request :
                /\ Overlaps(q, r) /\ Name(q) = Name(r)
                /\ Kind(q) \in {"create", "bulk_delete", "delete_collection"}

-----------------------------------------------------------------------------
(* Progress *)

\* Every request is answered, whatever the others do to the collection it works
\* on: no step waits for another request, and a payload index that cannot be
\* created is passed over (_create_payload_indexes).
EveryRequestIsAnswered ==
    \A r \in Request : pc[r] # "idle" ~> pc[r] = "done"

=============================================================================
