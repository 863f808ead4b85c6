------------------------------- MODULE Qdrant -------------------------------
(***************************************************************************)
(* The part of Qdrant the service relies on, modelled from the calls that  *)
(* src/app/db/repository.py makes.  A database maps every physical name to *)
(* Absent or to a collection; a collection fixes its vector width when it  *)
(* is created and maps ids to points or None.  One call is atomic; nothing *)
(* makes two of them atomic together.  Each effect is an operator from the *)
(* database before to the database after; what makes a call raise is left  *)
(* to the caller (Present and, for upsert, FitsWidth).                     *)
(***************************************************************************)
EXTENDS Filters, FiniteSets, Naturals

CONSTANT Absent   \* the collection does not exist

Present(db, name) == db[name] # Absent

get_collections(db) == {name \in DOMAIN db : Present(db, name)}

FitsWidth(db, name, point) == point.vector = db[name].dim

stored_collection(size, indexes, points) ==
    [dim |-> size, indexes |-> indexes, points |-> points]

create_collection(db, name, size, ids) ==
    [db EXCEPT ![name] = stored_collection(size, {}, [id \in ids |-> None])]

create_payload_index(db, name, field) ==
    [db EXCEPT ![name] =
        stored_collection(@.dim, @.indexes \union {field}, @.points)]

delete_collection(db, name) == [db EXCEPT ![name] = Absent]

upsert(db, name, id, point) ==
    [db EXCEPT ![name] =
        stored_collection(@.dim, @.indexes, [@.points EXCEPT ![id] = point])]

\* The ids a collection holds, and those of them a filter selects.
Stored(db, name) ==
    {id \in DOMAIN db[name].points : db[name].points[id] # None}

Selected(db, name, filter) ==
    {id \in Stored(db, name) :
        Matches(filter, id, db[name].points[id].payload)}

count(db, name, filter) == Cardinality(Selected(db, name, filter))

delete(db, name, filter) ==
    [db EXCEPT ![name] =
        stored_collection(@.dim, @.indexes,
            [id \in DOMAIN @.points |->
                IF id \in Selected(db, name, filter) THEN None ELSE @.points[id]])]

\* A search or a page: as many of the selected points as the limit allows.
\* Which ones (scores, cursor) is left open.
Answers(db, name, filter, limit) ==
    LET found == Selected(db, name, filter)
    IN  {hits \in SUBSET found :
            \/ hits = found /\ Cardinality(hits) =< limit
            \/ Cardinality(found) > limit /\ Cardinality(hits) = limit}

=============================================================================
