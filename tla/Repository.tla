----------------------------- MODULE Repository -----------------------------
(***************************************************************************)
(* src/app/db/repository.py: the storage operations behind the HTTP API.   *)
(* Every request runs as its own coroutine, possibly in another pod, over  *)
(* one shared Qdrant; it may be preempted at each `await client...`.  So a *)
(* request is a state machine whose label pc[r] is the Qdrant call it is   *)
(* about to make, and each action below makes that call and runs the code  *)
(* up to the next one.  No call is retried: a call that raises ends the    *)
(* request with a 500.                                                     *)
(*                                                                         *)
(* A request is issued at most once, and a store uses its request as the   *)
(* fresh uuid of the point it creates and as its time stamp; `chunks`      *)
(* stands for every payload field no filter looks at, and holds the        *)
(* request that wrote it.                                                  *)
(***************************************************************************)
EXTENDS Qdrant, Sequences

CONSTANTS
    Request,        \* requests, and so the ids of points
    Tenant, Username,
    Collection,     \* names as clients write them
    Slug,           \* slugify, restricted to Collection; None if nothing is left
    SlugText,       \* what slugify yields
    Dim, Topic, MetaKey, MetaValue,
    Limit,          \* top_k, fetch_k or page sizes
    IndexField, IndexFields,    \* payload indexes of a new collection, in order
    DropEmpty,      \* settings.drop_empty_collections
    Workload,       \* the calls each request may turn out to be
    MaxInFlight,    \* requests served at the same time
    Failing         \* the requests that a fault may end

Id == Request
Owner == [tenant_id : Tenant, username : Username]
Metadata == [MetaKey -> MetaValue]
MetadataFilter == UNION {[keys -> SUBSET MetaValue] : keys \in SUBSET MetaKey}

-----------------------------------------------------------------------------
(* Naming: src/app/db/naming.py *)

\* Mutant: a digest of the username alone.
namespace_of_username(owner) == <<owner.username>>

\* The digest covers tenant and username, so this is one-to-one.
namespace(owner) == <<owner.tenant_id, owner.username>>

physical_name(owner, collection) ==
    [namespace |-> namespace(owner), slug |-> Slug[collection]]

owns(owner, name) == name.namespace = namespace(owner)

PhysicalName == [namespace : {namespace(o) : o \in Owner}, slug : SlugText]

-----------------------------------------------------------------------------
(* Requests: the handlers of src/app/api/v1 and the bodies they validate *)

CreateCall ==
    [kind : {"create"}, owner : Owner, collection : Collection, dim : Dim,
     topic : Topic \union {None}, metadata : Metadata]

PointCall ==
    [kind : {"get", "delete"}, owner : Owner, collection : Collection, id : Id]

\* At least one field must be provided.
UpdateCall ==
    {c \in [kind : {"update"}, owner : Owner, collection : Collection, id : Id,
            dim : Dim \union {None}, topic : Topic \union {None},
            metadata : Metadata \union {None}, chunks : BOOLEAN] :
        c.dim # None \/ c.topic # None \/ c.metadata # None \/ c.chunks}

\* Exactly one selector: all, ids, or a topic/metadata predicate.
check_selector(c) ==
    LET has_predicate == c.topic # None \/ DOMAIN c.filter # {}
    IN  IF c.all THEN c.ids = {} /\ ~has_predicate
        ELSE (c.ids # {}) # has_predicate

BulkCall ==
    {c \in [kind : {"bulk_delete"}, owner : Owner, collection : Collection,
            ids : SUBSET Id, topic : Topic \union {None},
            filter : MetadataFilter, all : BOOLEAN] : check_selector(c)}

DropCall == [kind : {"delete_collection"}, owner : Owner, collection : Collection]

ReadCall ==
    [kind : {"search", "page"}, owner : Owner, collection : Collection,
     dim : Dim, topic : Topic \union {None}, filter : MetadataFilter,
     limit : Limit]

Call == CreateCall \union PointCall \union UpdateCall \union BulkCall
            \union DropCall \union ReadCall

(***************************************************************************)
(* What is stored.                                                         *)
(***************************************************************************)
Payload ==
    [user_id : Username, topic : Topic \union {None}, metadata : Metadata,
     chunks : Request, vector_dim : Dim, created_at : Request,
     updated_at : Request]

Point == [vector : Dim, payload : Payload]

StoredCollection ==
    [dim : Dim, indexes : SUBSET IndexField,
     points : [Id -> Point \union {None}]]

ASSUME RepositoryAssumption ==
    /\ IsFiniteSet(Request)
    /\ Slug \in [Collection -> SlugText \union {None}]
    /\ None \notin SlugText /\ None \notin Dim /\ None \notin Topic
    /\ None \notin Metadata /\ None \notin Point /\ None \notin Call
    /\ Absent \notin StoredCollection
    /\ Limit \subseteq Nat
    /\ IndexFields \in Seq(IndexField)
    /\ DropEmpty \in BOOLEAN
    /\ Workload \in [Request -> SUBSET Call]
    /\ MaxInFlight \in Nat
    /\ Failing \subseteq Request

-----------------------------------------------------------------------------
VARIABLES
    db,         \* Qdrant: physical name -> collection
    pc,         \* request -> the Qdrant call it makes next
    call,       \* request -> its validated arguments
    local,      \* request -> the local variables it keeps across an await
    reply,      \* request -> the answer it will give or gave
    before,     \* history: the requests answered when this one arrived
    removed     \* history: the points whose removal this request caused

vars == <<db, pc, call, local, reply, before, removed>>

Label == {"idle", "collection_exists", "create_collection",
          "create_payload_index", "get_collection", "retrieve", "upsert",
          "count", "delete", "count_left", "drop", "query", "scroll",
          "respond", "done"}

\* What a request keeps across an await: the point it read, the number of
\* points it counted, or the number of indexes it tried to create.
Locals == [point : Point \union {None}, matched : Nat, indexed : Nat]
Read(point) == [point |-> point, matched |-> 0, indexed |-> 0]
Counted(n) == [point |-> None, matched |-> n, indexed |-> 0]
Indexed(n) == [point |-> None, matched |-> 0, indexed |-> n]

\* status 0 is "no answer yet".
Reply == [status : {0, 200, 201, 404, 409, 422, 500}, deleted : Nat,
          dropped : BOOLEAN, hits : SUBSET Id]

Shows(code, ids) == [status |-> code, deleted |-> 0, dropped |-> FALSE, hits |-> ids]
Status(code) == Shows(code, {})
Deleted(n, dropped) ==
    [status |-> 200, deleted |-> n, dropped |-> dropped, hits |-> {}]

Init ==
    /\ db = [name \in PhysicalName |-> Absent]
    /\ pc = [r \in Request |-> "idle"]
    /\ call = [r \in Request |-> None]
    /\ local = [r \in Request |-> Read(None)]
    /\ reply = [r \in Request |-> Status(0)]
    /\ before = [r \in Request |-> {}]
    /\ removed = [r \in Request |-> {}]

-----------------------------------------------------------------------------
Name(r) == physical_name(call[r].owner, call[r].collection)
User(r) == call[r].owner.username

Goto(r, label) == pc' = [pc EXCEPT ![r] = label] /\ UNCHANGED reply

Answer(r, answer) ==
    /\ pc' = [pc EXCEPT ![r] = "respond"]
    /\ reply' = [reply EXCEPT ![r] = answer]

\* An exception no handler catches: FastAPI answers 500.
Raise(r) == Answer(r, Status(500))

At(r, label) == pc[r] = label /\ UNCHANGED <<call, before>>
Reads == UNCHANGED <<db, removed>>

InFlight == {r \in Request : pc[r] \notin {"idle", "done"}}

\* A request arrives with a valid token and body.  A collection name that
\* slugifies to nothing is refused before any call is made.
Receive(r) ==
    /\ pc[r] = "idle"
    /\ Cardinality(InFlight) < MaxInFlight
    /\ \E c \in Workload[r] :
        /\ call' = [call EXCEPT ![r] = c]
        /\ IF Slug[c.collection] = None THEN Answer(r, Status(422))
                                        ELSE Goto(r, "collection_exists")
    /\ before' = [before EXCEPT ![r] = {q \in Request : pc[q] = "done"}]
    /\ UNCHANGED <<db, local, removed>>

FirstCall ==
    [create |-> "get_collection", get |-> "retrieve", update |-> "retrieve",
     delete |-> "retrieve", bulk_delete |-> "count",
     delete_collection |-> "count", search |-> "query", page |-> "scroll"]

\* Mutant: a store does not look whether the collection is there.
collection_exists_unasked(r) ==
    /\ At(r, "collection_exists")
    /\ IF call[r].kind = "create" THEN Goto(r, "create_collection")
       ELSE IF Name(r) \in get_collections(db) THEN Goto(r, FirstCall[call[r].kind])
       ELSE Answer(r, Status(404))
    /\ Reads /\ UNCHANGED local

collection_exists(r) ==
    /\ At(r, "collection_exists")
    /\ IF Name(r) \in get_collections(db) THEN Goto(r, FirstCall[call[r].kind])
       ELSE IF call[r].kind = "create" THEN Goto(r, "create_collection")
       ELSE Answer(r, Status(404))
    /\ Reads /\ UNCHANGED local

\* Mutant: recreate_collection, which replaces a collection that is there.
recreate_collection_call(r) ==
    /\ At(r, "create_collection")
    /\ db' = create_collection(db, Name(r), call[r].dim, Id)
    /\ Goto(r, IF IndexFields = <<>> THEN "get_collection"
               ELSE "create_payload_index")
    /\ UNCHANGED <<local, removed>>

\* Two first stores can both find the collection missing; Qdrant refuses the
\* second create.
create_collection_call(r) ==
    /\ At(r, "create_collection")
    /\ IF Present(db, Name(r)) THEN Raise(r) /\ UNCHANGED db
       ELSE /\ db' = create_collection(db, Name(r), call[r].dim, Id)
            /\ Goto(r, IF IndexFields = <<>> THEN "get_collection"
                       ELSE "create_payload_index")
    /\ UNCHANGED <<local, removed>>

\* Mutant: an index that cannot be created is tried again.
create_payload_indexes_retried(r) ==
    LET i == local[r].indexed + 1
    IN  /\ At(r, "create_payload_index")
        /\ IF ~Present(db, Name(r)) THEN UNCHANGED <<db, local, pc, reply>>
           ELSE /\ db' = create_payload_index(db, Name(r), IndexFields[i])
                /\ local' = [local EXCEPT ![r] = Indexed(i)]
                /\ Goto(r, IF i = Len(IndexFields) THEN "get_collection"
                           ELSE "create_payload_index")
        /\ UNCHANGED removed

\* One index after the other; whatever a call raises is swallowed.
create_payload_indexes(r) ==
    LET i == local[r].indexed + 1
    IN  /\ At(r, "create_payload_index")
        /\ \/ /\ Present(db, Name(r))
              /\ db' = create_payload_index(db, Name(r), IndexFields[i])
           \/ UNCHANGED db
        /\ local' = [local EXCEPT ![r] = Indexed(i)]
        /\ Goto(r, IF i = Len(IndexFields) THEN "get_collection"
                   ELSE "create_payload_index")
        /\ UNCHANGED removed

assert_dimension_matches(r) ==
    /\ At(r, "get_collection")
    /\ IF ~Present(db, Name(r)) THEN Raise(r)
       ELSE IF db[Name(r)].dim # call[r].dim THEN Answer(r, Status(409))
       ELSE Goto(r, "upsert")
    /\ Reads /\ UNCHANGED local

\* The point only if the caller owns it; what follows depends on the handler.
owned_point(r) ==
    LET point == db[Name(r)].points[call[r].id]
        kind  == call[r].kind
    IN  /\ At(r, "retrieve")
        /\ IF ~Present(db, Name(r)) THEN Raise(r) /\ UNCHANGED local
           ELSE IF point = None \/ point.payload.user_id # User(r)
                THEN Answer(r, Status(404)) /\ UNCHANGED local
           ELSE /\ local' = [local EXCEPT ![r] = Read(point)]
                /\ \/ kind = "get" /\ Answer(r, Shows(200, {call[r].id}))
                   \/ kind = "delete" /\ Goto(r, "delete")
                   \/ /\ kind = "update"
                      /\ Goto(r, IF call[r].dim = None THEN "upsert"
                                 ELSE "get_collection")
        /\ Reads

\* The point a store writes; the mutant leaves its user_id out.
user_id_missing(r) == None
user_id(r) == User(r)

new_point(r) ==
    [vector  |-> call[r].dim,
     payload |-> [user_id |-> user_id(r), topic |-> call[r].topic,
                  metadata |-> call[r].metadata, chunks |-> r,
                  vector_dim |-> call[r].dim, created_at |-> r,
                  updated_at |-> r]]

\* The point an update writes: all of it, rebuilt from what was read earlier.
\* The mutants date it anew, or keep the width read.
current(r) == local[r].point
Or(new, old) == IF new = None THEN old ELSE new

created_now(r) == r
created_at(r) == current(r).payload.created_at

vector_dim_read(r) == current(r).payload.vector_dim
vector_dim(r) == Or(call[r].dim, current(r).vector)

chunks(r) == IF call[r].chunks THEN r ELSE current(r).payload.chunks

updated_point(r) ==
    [vector  |-> Or(call[r].dim, current(r).vector),
     payload |-> [user_id |-> User(r),
                  topic |-> Or(call[r].topic, current(r).payload.topic),
                  metadata |-> Or(call[r].metadata, current(r).payload.metadata),
                  chunks |-> chunks(r), vector_dim |-> vector_dim(r),
                  created_at |-> created_at(r), updated_at |-> r]]

upsert_call(r) ==
    LET create == call[r].kind = "create"
        id     == IF create THEN r ELSE call[r].id
        point  == IF create THEN new_point(r) ELSE updated_point(r)
    IN  /\ At(r, "upsert")
        /\ IF Present(db, Name(r)) /\ FitsWidth(db, Name(r), point)
           THEN /\ db' = upsert(db, Name(r), id, point)
                /\ Answer(r, Shows(IF create THEN 201 ELSE 200, {id}))
           ELSE Raise(r) /\ UNCHANGED db
        /\ UNCHANGED <<local, removed>>

\* Mutant: ids are accepted but not passed on.
selector_without_ids(r) ==
    LET c == call[r]
    IN  IF c.kind = "bulk_delete" /\ c.topic # None
        THEN scoped(User(r), c.topic, c.filter) ELSE owned_by(User(r))

\* What a deletion selects; always with the owner's condition in it.
selector(r) ==
    LET c == call[r]
    IN  IF c.kind = "delete" THEN scoped_ids(User(r), {c.id})
        ELSE IF c.kind = "delete_collection" \/ c.all THEN owned_by(User(r))
        ELSE IF c.ids # {} THEN scoped_ids(User(r), c.ids)
        ELSE scoped(User(r), c.topic, c.filter)

\* Bulk deletes and drops count what they select before they remove it; the
\* mutant counts everything the caller holds.
matching_owner(r) == count(db, Name(r), owned_by(User(r)))
matching(r) == count(db, Name(r), selector(r))

count_selected(r) ==
    /\ At(r, "count")
    /\ IF ~Present(db, Name(r)) THEN Raise(r) /\ UNCHANGED local
       ELSE /\ local' = [local EXCEPT ![r] = Counted(matching(r))]
            /\ IF call[r].kind = "bulk_delete" /\ matching(r) = 0
               THEN Answer(r, Deleted(0, FALSE))
               ELSE Goto(r, IF call[r].kind = "delete_collection" /\ DropEmpty
                            THEN "drop" ELSE "delete")
    /\ Reads

delete_selected(r) ==
    LET kind  == call[r].kind
        check == kind = "bulk_delete" /\ DropEmpty /\ owns(call[r].owner, Name(r))
    IN  /\ At(r, "delete")
        /\ IF ~Present(db, Name(r)) THEN Raise(r) /\ UNCHANGED <<db, removed>>
           ELSE /\ db' = delete(db, Name(r), selector(r))
                /\ removed' = [removed EXCEPT ![r] =
                                 Selected(db, Name(r), selector(r))]
                /\ \/ kind = "delete" /\ Answer(r, Deleted(1, FALSE))
                   \/ check /\ Goto(r, "count_left")
                   \/ /\ kind # "delete" /\ ~check
                      /\ Answer(r, Deleted(local[r].matched, FALSE))
        /\ UNCHANGED local

\* _maybe_drop_empty counts everything that is left, of whatever user; the
\* mutants count what the deletion selected, or before it has taken effect ...
left_selected(r) == Selected(db, Name(r), selector(r))
left_and_removed(r) == Stored(db, Name(r)) \union removed[r]
left(r) == Stored(db, Name(r))

count_left(r) ==
    /\ At(r, "count_left")
    /\ IF ~Present(db, Name(r)) THEN Raise(r)
       ELSE IF left(r) # {} THEN Answer(r, Deleted(local[r].matched, FALSE))
       ELSE Goto(r, "drop")
    /\ Reads /\ UNCHANGED local

\* ... and drop the collection, in a second call.  Dropping a collection that
\* is already gone is no error.
drop(r) ==
    /\ At(r, "drop")
    /\ db' = delete_collection(db, Name(r))
    /\ removed' = [removed EXCEPT ![r] =
                     @ \union IF Present(db, Name(r)) THEN Stored(db, Name(r)) ELSE {}]
    /\ Answer(r, Deleted(local[r].matched, TRUE))
    /\ UNCHANGED local

Finds(r) ==
    LET c == call[r]
    IN  \E hits \in Answers(db, Name(r), scoped(User(r), c.topic, c.filter), c.limit) :
            Answer(r, Shows(200, hits))

\* A search, for its own sake or for the candidates of a reranker.  Qdrant
\* refuses a query vector of the wrong width.
query(r) ==
    /\ At(r, "query")
    /\ IF Present(db, Name(r)) /\ call[r].dim = db[Name(r)].dim THEN Finds(r)
                                                              ELSE Raise(r)
    /\ Reads /\ UNCHANGED local

\* The first page of a listing; the cursor for those after it is left out.
scroll(r) ==
    /\ At(r, "scroll")
    /\ IF Present(db, Name(r)) THEN Finds(r) ELSE Raise(r)
    /\ Reads /\ UNCHANGED local

respond(r) ==
    /\ At(r, "respond")
    /\ pc' = [pc EXCEPT ![r] = "done"]
    /\ Reads /\ UNCHANGED <<local, reply>>

\* A call times out or the connection drops, or the pod goes down: the request
\* ends with an error wherever it is, keeping the effects it already had.
Fail(r) ==
    /\ r \in Failing /\ pc[r] \notin {"idle", "done"}
    /\ pc' = [pc EXCEPT ![r] = "done"]
    /\ reply' = [reply EXCEPT ![r] = Status(500)]
    /\ UNCHANGED <<db, call, local, before, removed>>

Step(r) ==
    \/ collection_exists(r)
    \/ create_collection_call(r) \/ create_payload_indexes(r)
    \/ assert_dimension_matches(r) \/ owned_point(r) \/ upsert_call(r)
    \/ count_selected(r) \/ delete_selected(r) \/ count_left(r) \/ drop(r)
    \/ query(r) \/ scroll(r) \/ respond(r)

\* Nothing to serve.
Quiet == InFlight = {} /\ UNCHANGED vars

Next == Quiet \/ \E r \in Request : Receive(r) \/ Step(r) \/ Fail(r)

\* A pod's event loop runs every coroutine it accepted, and a Qdrant call
\* returns or raises within the client's timeout.
Fairness == \A r \in Request : WF_vars(Step(r))

Spec == Init /\ [][Next]_vars /\ Fairness


=============================================================================
