-------------------------- MODULE RepositoryProofs --------------------------
(***************************************************************************)
(* Theorems about Repository for every value of its constants.  The        *)
(* invariant IInv strengthens the type invariant and the tenancy           *)
(* properties of RepositoryProps with what a request knows at each of its  *)
(* labels: which calls lead there, and that the point an update is about   *)
(* to write back is one its own owner stored.  HistoryOK adds what the     *)
(* history variables record, and the theorems about requests that overlap  *)
(* rest on both.  Base and Recorded are the parts of them that also hold   *)
(* where points appear that no request stored.                             *)
(***************************************************************************)
EXTENDS RepositoryProps, FiniteSetTheorems, TLAPS

\* The labels each kind of request passes through while it makes calls.
Path ==
    [create |-> {"collection_exists", "create_collection",
                 "create_payload_index", "get_collection", "upsert"},
     get    |-> {"collection_exists", "retrieve"},
     update |-> {"collection_exists", "retrieve", "get_collection", "upsert"},
     delete |-> {"collection_exists", "retrieve", "delete"},
     bulk_delete |-> {"collection_exists", "count", "delete", "count_left",
                      "drop"},
     delete_collection |-> {"collection_exists", "count", "delete", "drop"},
     search |-> {"collection_exists", "query"},
     page   |-> {"collection_exists", "scroll"}]

Calling(r) == pc[r] \notin {"idle", "respond", "done"}

\* How many payload indexes a store has tried to create at a label.
IndexedAt(label, n) ==
    /\ label \in {"idle", "collection_exists", "create_collection"} => n = 0
    /\ label = "create_payload_index" => n < Len(IndexFields)

\* A request that has arrived has validated arguments, addresses a physical
\* collection of its owner, and follows the path of its kind.
CallsOK ==
    \A r \in Request :
        /\ IF pc[r] = "idle" THEN reply[r] = Status(0) ELSE call[r] \in Call
        /\ Calling(r) => /\ Slug[call[r].collection] # None
                         /\ pc[r] \in Path[call[r].kind]
        /\ IndexedAt(pc[r], local[r].indexed)

\* An update that is past its read holds a point that a store of its own owner
\* made in the collection it addresses.
UpdateReady(r, label, point) ==
    /\ point # None
    /\ label = "get_collection" => call[r].dim # None
    /\ Stores(call[r].id) /\ Name(call[r].id) = Name(r)
    /\ point.payload.created_at = call[r].id

UpdatesOK ==
    \A r \in Request :
        (pc[r] \in {"get_collection", "upsert"} /\ call[r].kind = "update") =>
            UpdateReady(r, pc[r], local[r].point)

\* A collection owes its width to a store of its owner.
WidthsOK ==
    \A name \in PhysicalName : db[name] # Absent =>
        \E q \in Request :
            Stores(q) /\ Name(q) = name /\ call[q].dim = db[name].dim

IInv == /\ TypeOK /\ CallsOK /\ UpdatesOK /\ WidthsOK
        /\ StoredForItsOwner /\ AnswersStayInTenancy /\ UniformWidth
        /\ MismatchIsOwnChoice

(***************************************************************************)
(* Base is the part of IInv that is only about the requests.  It also      *)
(* holds beside a script that puts points of its own into the database, so *)
(* what follows from Base holds there too.                                 *)
(***************************************************************************)
UpdatesHold ==
    \A r \in Request :
        (pc[r] \in {"get_collection", "upsert"} /\ call[r].kind = "update") =>
            /\ local[r].point # None
            /\ pc[r] = "get_collection" => call[r].dim # None

Base == TypeOK /\ CallsOK /\ UpdatesHold

\* The invariant implies its part about the requests.
LEMMA BaseHolds == IInv => Base
BY DEF IInv, Base, UpdatesOK, UpdateReady, UpdatesHold

-----------------------------------------------------------------------------
(* Calls and names *)

\* What a validated call holds, whatever its kind.
LEMMA CallFacts ==
    ASSUME NEW c \in Call
    PROVE  /\ c.owner \in Owner /\ c.collection \in Collection
           /\ c.kind \in DOMAIN Path
           /\ c.kind = "create" =>
                /\ c.dim \in Dim /\ c.topic \in Topic \union {None}
                /\ c.metadata \in Metadata
           /\ c.kind \in {"get", "update", "delete"} => c.id \in Id
           /\ c.kind = "update" =>
                /\ c.dim \in Dim \union {None} /\ c.topic \in Topic \union {None}
                /\ c.metadata \in Metadata \union {None} /\ c.chunks \in BOOLEAN
<1>1. CASE c \in CreateCall
  BY <1>1 DEF CreateCall, Path
<1>2. CASE c \in PointCall
  BY <1>2 DEF PointCall, Path
<1>3. CASE c \in UpdateCall
  BY <1>3 DEF UpdateCall, Path
<1>4. CASE c \in BulkCall
  BY <1>4 DEF BulkCall, Path
<1>5. CASE c \in DropCall
  BY <1>5 DEF DropCall, Path
<1>6. CASE c \in ReadCall
  BY <1>6 DEF ReadCall, Path
<1> QED
  BY <1>1, <1>2, <1>3, <1>4, <1>5, <1>6 DEF Call

\* A call whose name survives slugify addresses a physical collection.
LEMMA NameType ==
    ASSUME NEW r \in Request, call[r] \in Call, Slug[call[r].collection] # None
    PROVE  Name(r) \in PhysicalName
<1>1. call[r].owner \in Owner /\ call[r].collection \in Collection
  BY CallFacts
<1>2. Slug[call[r].collection] \in SlugText
  BY <1>1, RepositoryAssumption
<1> QED
  BY <1>1, <1>2 DEF Name, physical_name, PhysicalName

\* Two calls on the same physical collection are of the same owner.
LEMMA SameNameSameOwner ==
    ASSUME NEW q \in Request, NEW r \in Request,
           call[q] \in Call, call[r] \in Call, Name(q) = Name(r)
    PROVE  call[q].owner = call[r].owner
<1>1. call[q].owner \in Owner /\ call[r].owner \in Owner
  BY CallFacts
<1>2. namespace(call[q].owner) = namespace(call[r].owner)
  BY DEF Name, physical_name
<1>3. /\ call[q].owner.tenant_id = call[r].owner.tenant_id
      /\ call[q].owner.username = call[r].owner.username
  BY <1>2 DEF namespace
<1> QED
  BY <1>1, <1>3 DEF Owner

\* There are finitely many collections, since a store created each of them.
LEMMA FewCollections == IInv => IsFiniteSet(get_collections(db))
<1> SUFFICES ASSUME IInv PROVE IsFiniteSet(get_collections(db))
  OBVIOUS
<1> DEFINE named == [q \in Request |-> Name(q)]
           names == {named[q] : q \in Request}
<1>1. get_collections(db) \subseteq names
  BY DEF get_collections, Present, IInv, TypeOK, WidthsOK
<1>2. named \in Surjection(Request, names)
  BY DEF Surjection
<1>3. IsFiniteSet(names)
  BY <1>2, FS_Surjection, RepositoryAssumption
<1> HIDE DEF names
<1> QED
  BY <1>1, <1>3, FS_Subset

-----------------------------------------------------------------------------
(* What every step keeps *)

\* A request that has arrived keeps its arguments and stays arrived.
Persist == \A q \in Request :
    pc[q] # "idle" => pc'[q] # "idle" /\ call'[q] = call[q]

\* The initial state satisfies the invariant.
LEMMA InitInv == Init => IInv
<1> SUFFICES ASSUME Init PROVE IInv
  OBVIOUS
<1> USE DEF Init
<1>1. TypeOK
  BY DEF TypeOK, Label, Locals, Read, Reply, Status, Shows
<1>2. CallsOK /\ UpdatesOK
  BY DEF CallsOK, UpdatesOK, Calling, IndexedAt, Read
<1>3. WidthsOK /\ StoredForItsOwner /\ UniformWidth
  BY DEF WidthsOK, StoredForItsOwner, UniformWidth, HoldsPoint, PointAt
<1>4. AnswersStayInTenancy /\ MismatchIsOwnChoice
  BY DEF AnswersStayInTenancy, MismatchIsOwnChoice, Status, Shows
<1> QED
  BY <1>1, <1>2, <1>3, <1>4 DEF IInv

\* A step that moves r alone, once it has arrived, keeps every call.
LEMMA MoveKeepsCalls ==
    ASSUME TypeOK, NEW r \in Request, NEW label \in Label,
           label # "idle", UNCHANGED call, pc' = [pc EXCEPT ![r] = label]
    PROVE  Persist
BY DEF Persist, TypeOK

\* Arrived stores stay, with their names.
LEMMA StoresPersist ==
    ASSUME Persist, NEW q \in Request, Stores(q)
    PROVE  Stores(q)' /\ Name(q)' = Name(q) /\ call'[q] = call[q]
BY DEF Persist, Stores, Kind, Name

\* What the invariant says of the database survives a step that leaves the
\* database alone.
LEMMA DatabaseKept ==
    ASSUME Persist, UNCHANGED db, WidthsOK, StoredForItsOwner, UniformWidth
    PROVE  WidthsOK' /\ StoredForItsOwner' /\ UniformWidth'
<1>1. WidthsOK'
  BY StoresPersist DEF WidthsOK
<1>2. StoredForItsOwner'
  BY StoresPersist DEF StoredForItsOwner, HoldsPoint, PointAt, Id
<1>3. UniformWidth'
  BY DEF UniformWidth, HoldsPoint, PointAt
<1> QED
  BY <1>1, <1>2, <1>3

\* ... and so it does a step that at most drops collections and removes points.
LEMMA DatabaseShrinks ==
    ASSUME Persist, WidthsOK, StoredForItsOwner, UniformWidth,
           \A name \in PhysicalName : db'[name] # Absent =>
                /\ db[name] # Absent /\ db'[name].dim = db[name].dim
                /\ \A id \in Id : \/ db'[name].points[id] = None
                                  \/ db'[name].points[id] = db[name].points[id]
    PROVE  WidthsOK' /\ StoredForItsOwner' /\ UniformWidth'
<1>1. WidthsOK'
  BY StoresPersist DEF WidthsOK
<1>2. ASSUME NEW name \in PhysicalName, NEW id \in Id, HoldsPoint(name, id)'
      PROVE  /\ HoldsPoint(name, id) /\ db'[name].dim = db[name].dim
             /\ db'[name].points[id] = db[name].points[id]
  BY <1>2 DEF HoldsPoint, PointAt
<1>3. StoredForItsOwner'
  BY <1>2, StoresPersist DEF StoredForItsOwner, Id
<1>4. UniformWidth'
  BY <1>2 DEF UniformWidth
<1> QED
  BY <1>1, <1>3, <1>4

\* What a request may carry to its next label, and what it may answer.
Follows(r, label, here) ==
    label \notin {"respond", "done"} =>
        /\ IndexedAt(label, here.indexed)
        /\ Slug[call[r].collection] # None
        /\ label \in Path[call[r].kind]
        /\ (label \in {"get_collection", "upsert"} /\ call[r].kind = "update") =>
                UpdateReady(r, label, here.point)

Sound(r, answer) ==
    \/ answer = reply[r]
    \/ /\ \A id \in answer.hits : Stores(id) /\ call[id].owner = call[r].owner
       /\ answer.status = 409 =>
            \E q \in Request \ {r} :
                /\ Stores(q) /\ call[q].owner = call[r].owner
                /\ Name(q) = Name(r) /\ call[q].dim # call[r].dim

\* Everything but the database, after a step that moves one request on.
LEMMA Move ==
    ASSUME IInv, NEW r \in Request, pc[r] # "idle",
           NEW label \in Label, label # "idle", NEW here \in Locals,
           NEW answer \in Reply,
           pc' = [pc EXCEPT ![r] = label], local' = [local EXCEPT ![r] = here],
           reply' = [reply EXCEPT ![r] = answer], UNCHANGED <<call, before>>,
           removed' \in [Request -> SUBSET Id],
           Follows(r, label, here), Sound(r, answer)
    PROVE  /\ Persist /\ CallsOK' /\ UpdatesOK'
           /\ AnswersStayInTenancy' /\ MismatchIsOwnChoice'
           /\ db' \in [PhysicalName -> StoredCollection \union {Absent}] => TypeOK'
<1> USE DEF IInv
<1>1. Persist
  BY MoveKeepsCalls
<1>2. CallsOK'
  BY DEF CallsOK, Calling, Follows, TypeOK, IndexedAt
<1>3. UpdatesOK'
  <2> SUFFICES ASSUME NEW q \in Request, call[q].kind = "update",
                      pc'[q] \in {"get_collection", "upsert"}
               PROVE  UpdateReady(q, pc[q], local[q].point)'
    BY DEF UpdatesOK
  <2>1. UpdateReady(q, pc'[q], local'[q].point)
    BY DEF UpdatesOK, Follows, TypeOK
  <2>2. call[q].id \in Request
    BY <2>1, CallFacts DEF CallsOK, Follows, TypeOK, Id
  <2>3. Stores(call[q].id)' /\ Name(call[q].id)' = Name(call[q].id)
    BY <1>1, <2>1, <2>2, StoresPersist DEF UpdateReady
  <2> QED
    BY <2>1, <2>3 DEF UpdateReady, Name
<1>4. AnswersStayInTenancy'
  <2> SUFFICES ASSUME NEW q \in Request, NEW id \in reply'[q].hits
               PROVE  Stores(id)' /\ call'[id].owner = call'[q].owner
    BY DEF AnswersStayInTenancy
  <2>1. id \in Request /\ Stores(id) /\ call[id].owner = call[q].owner
    BY DEF AnswersStayInTenancy, Sound, TypeOK, Reply, Id
  <2> QED
    BY <1>1, <2>1, StoresPersist
<1>5. MismatchIsOwnChoice'
  <2> SUFFICES ASSUME NEW q \in Request, reply'[q].status = 409
               PROVE  \E p \in Request \ {q} :
                        /\ Stores(p)' /\ call'[p].owner = call'[q].owner
                        /\ Name(p)' = Name(q)' /\ call'[p].dim # call'[q].dim
    BY DEF MismatchIsOwnChoice
  <2>1. PICK p \in Request \ {q} :
            /\ Stores(p) /\ call[p].owner = call[q].owner
            /\ Name(p) = Name(q) /\ call[p].dim # call[q].dim
    BY DEF MismatchIsOwnChoice, Sound, TypeOK
  <2>2. Stores(p)' /\ Name(p)' = Name(p)
    BY <1>1, <2>1, StoresPersist
  <2> QED
    BY <2>1, <2>2 DEF Name
<1>6. db' \in [PhysicalName -> StoredCollection \union {Absent}] => TypeOK'
  BY DEF TypeOK
<1> QED
  BY <1>1, <1>2, <1>3, <1>4, <1>5, <1>6

\* A step that leaves the database alone keeps the whole invariant.
LEMMA MoveReading ==
    ASSUME IInv, NEW r \in Request, pc[r] # "idle",
           NEW label \in Label, label # "idle", NEW here \in Locals,
           NEW answer \in Reply,
           pc' = [pc EXCEPT ![r] = label], local' = [local EXCEPT ![r] = here],
           reply' = [reply EXCEPT ![r] = answer], UNCHANGED <<call, before>>,
           UNCHANGED <<db, removed>>,
           Follows(r, label, here), Sound(r, answer)
    PROVE  IInv'
<1>1. /\ removed' \in [Request -> SUBSET Id]
      /\ db' \in [PhysicalName -> StoredCollection \union {Absent}]
  BY DEF IInv, TypeOK
<1>2. /\ Persist /\ CallsOK' /\ UpdatesOK' /\ TypeOK'
      /\ AnswersStayInTenancy' /\ MismatchIsOwnChoice'
  BY <1>1, Move
<1>3. WidthsOK' /\ StoredForItsOwner' /\ UniformWidth'
  BY <1>2, DatabaseKept DEF IInv
<1> QED
  BY <1>2, <1>3 DEF IInv

-----------------------------------------------------------------------------
(* The handlers, one lemma per action *)

\* A label of a call is a label of the path of its request's kind.
LEMMA AtCall ==
    ASSUME Base, NEW r \in Request, Calling(r)
    PROVE  /\ call[r] \in Call /\ Slug[call[r].collection] # None
           /\ pc[r] \in Path[call[r].kind] /\ Name(r) \in PhysicalName
           /\ IndexedAt(pc[r], local[r].indexed)
           /\ pc[r] # "idle" /\ local[r] \in Locals /\ reply[r] \in Reply
           /\ local = [local EXCEPT ![r] = local[r]]
           /\ reply = [reply EXCEPT ![r] = reply[r]]
<1>1. /\ pc[r] # "idle" /\ call[r] \in Call /\ Slug[call[r].collection] # None
      /\ pc[r] \in Path[call[r].kind] /\ IndexedAt(pc[r], local[r].indexed)
  BY DEF Base, CallsOK, Calling
<1>2. Name(r) \in PhysicalName
  BY <1>1, NameType
<1>3. local[r] \in Locals /\ reply[r] \in Reply
  BY DEF Base, TypeOK
<1>4. /\ local = [local EXCEPT ![r] = local[r]]
      /\ reply = [reply EXCEPT ![r] = reply[r]]
  BY DEF Base, TypeOK
<1> QED
  BY <1>1, <1>2, <1>3, <1>4

\* The same under the whole invariant.
LEMMA AtLabel ==
    ASSUME IInv, NEW r \in Request, Calling(r)
    PROVE  /\ call[r] \in Call /\ Slug[call[r].collection] # None
           /\ pc[r] \in Path[call[r].kind] /\ Name(r) \in PhysicalName
           /\ IndexedAt(pc[r], local[r].indexed)
           /\ pc[r] # "idle" /\ local[r] \in Locals /\ reply[r] \in Reply
           /\ local = [local EXCEPT ![r] = local[r]]
           /\ reply = [reply EXCEPT ![r] = reply[r]]
BY BaseHolds, AtCall

\* Answers without hits and other than 409 are always sound.
LEMMA PlainStatus ==
    ASSUME NEW r \in Request, NEW code \in {404, 422, 500}
    PROVE  Status(code) \in Reply /\ Sound(r, Status(code))
BY DEF Status, Shows, Reply, Sound

\* Answers that report a number of deleted points are always sound.
LEMMA PlainDeleted ==
    ASSUME NEW r \in Request, NEW n \in Nat, NEW dropped \in BOOLEAN
    PROVE  Deleted(n, dropped) \in Reply /\ Sound(r, Deleted(n, dropped))
BY DEF Deleted, Reply, Sound

\* A step that sends a request on, with what it just read in hand, keeps the
\* invariant.
LEMMA Going ==
    ASSUME IInv, NEW r \in Request, pc[r] # "idle",
           NEW label \in Label, label # "idle", NEW here \in Locals,
           Goto(r, label), local' = [local EXCEPT ![r] = here],
           UNCHANGED <<call, before>>, UNCHANGED <<db, removed>>,
           Follows(r, label, here)
    PROVE  IInv'
<1>1. pc' = [pc EXCEPT ![r] = label] /\ reply' = reply
  BY DEF Goto
<1>2. reply[r] \in Reply /\ reply' = [reply EXCEPT ![r] = reply[r]]
  BY <1>1 DEF IInv, TypeOK
<1>3. Sound(r, reply[r])
  BY DEF Sound
<1> QED
  BY <1>1, <1>2, <1>3, MoveReading

\* A step that answers a request, with what it just read in hand, keeps it too.
LEMMA AnsweringHere ==
    ASSUME IInv, NEW r \in Request, pc[r] # "idle", NEW here \in Locals,
           NEW answer \in Reply, Sound(r, answer), Answer(r, answer),
           local' = [local EXCEPT ![r] = here],
           UNCHANGED <<call, before>>, UNCHANGED <<db, removed>>
    PROVE  IInv'
<1>1. Follows(r, "respond", here)
  BY DEF Follows
<1>2. /\ pc' = [pc EXCEPT ![r] = "respond"]
      /\ reply' = [reply EXCEPT ![r] = answer]
  BY DEF Answer
<1>3. "respond" \in Label
  BY DEF Label
<1> QED
  BY <1>1, <1>2, <1>3, MoveReading

\* A step that answers, without touching the database, keeps the invariant.
LEMMA Answering ==
    ASSUME IInv, NEW r \in Request, pc[r] # "idle",
           NEW answer \in Reply, Sound(r, answer), Answer(r, answer),
           UNCHANGED <<call, before, local>>, UNCHANGED <<db, removed>>
    PROVE  IInv'
<1>1. local[r] \in Locals /\ local' = [local EXCEPT ![r] = local[r]]
  BY DEF IInv, TypeOK
<1> QED
  BY <1>1, AnsweringHere

\* ... and so does one that refuses the request.
LEMMA Refusing ==
    ASSUME IInv, NEW r \in Request, pc[r] # "idle", NEW code \in {404, 422, 500},
           Answer(r, Status(code)),
           UNCHANGED <<call, before, local>>, UNCHANGED <<db, removed>>
    PROVE  IInv'
BY PlainStatus, Answering

\* collection_exists keeps the invariant.
LEMMA CollectionExistsStep ==
    ASSUME IInv, NEW r \in Request, collection_exists(r)
    PROVE  IInv'
<1> USE DEF collection_exists, At, Reads
<1>1. Calling(r)
  BY DEF Calling
<1>2. CASE Name(r) \in get_collections(db)
  <2> DEFINE next == FirstCall[call[r].kind]
  <2>1. next \in Label /\ next # "idle" /\ Follows(r, next, local[r])
    BY <1>1, AtLabel, CallFacts DEF FirstCall, Path, Label, Follows, IndexedAt
  <2> QED
    BY <1>1, <1>2, <2>1, AtLabel, MoveReading DEF Goto, Sound
<1>3. CASE Name(r) \notin get_collections(db) /\ call[r].kind = "create"
  <2>1. Follows(r, "create_collection", local[r])
    BY <1>1, <1>3, AtLabel DEF Path, Follows, IndexedAt
  <2> QED
    BY <1>1, <1>3, <2>1, AtLabel, MoveReading DEF Goto, Sound, Label
<1>4. CASE Name(r) \notin get_collections(db) /\ call[r].kind # "create"
  <2>1. Follows(r, "respond", local[r])
    BY DEF Follows
  <2> QED
    BY <1>1, <1>4, <2>1, AtLabel, PlainStatus, MoveReading DEF Answer, Label
<1> QED
  BY <1>2, <1>3, <1>4

\* An arriving request keeps the invariant.
LEMMA ReceiveStep ==
    ASSUME IInv, NEW r \in Request, Receive(r)
    PROVE  IInv'
<1> USE DEF IInv
<1>1. PICK c \in Workload[r] :
        /\ call' = [call EXCEPT ![r] = c]
        /\ IF Slug[c.collection] = None THEN Answer(r, Status(422))
                                        ELSE Goto(r, "collection_exists")
  BY DEF Receive
<1>2. c \in Call
  BY RepositoryAssumption
<1>3. pc[r] = "idle" /\ UNCHANGED <<db, local, removed>>
  BY DEF Receive
<1>4. /\ pc' \in [Request -> Label] /\ reply' \in [Request -> Reply]
      /\ pc'[r] \in {"collection_exists", "respond"} /\ call'[r] = c
      /\ reply'[r].hits = {} /\ reply'[r].status # 409
      /\ \A q \in Request \ {r} : /\ pc'[q] = pc[q] /\ reply'[q] = reply[q]
                                  /\ call'[q] = call[q]
  <2>1. reply[r] = Status(0) /\ call'[r] = c
    BY <1>1, <1>3 DEF CallsOK, TypeOK
  <2>2. CASE Slug[c.collection] = None
    <3>1. /\ pc' = [pc EXCEPT ![r] = "respond"]
          /\ reply' = [reply EXCEPT ![r] = Status(422)]
      BY <1>1, <2>2 DEF Answer
    <3>2. Status(422) \in Reply /\ Status(422).hits = {} /\ Status(422).status = 422
      BY DEF Status, Shows, Reply
    <3> QED
      BY <1>1, <2>1, <3>1, <3>2 DEF TypeOK, Label
  <2>3. CASE Slug[c.collection] # None
    BY <1>1, <2>1, <2>3 DEF Goto, TypeOK, Label, Status, Shows
  <2> QED
    BY <2>2, <2>3
<1>5. Persist
  BY <1>3, <1>4 DEF Persist
<1>6. TypeOK'
  <2>1. call' \in [Request -> Call \union {None}]
    BY <1>1, <1>2 DEF TypeOK
  <2>2. before' \in [Request -> SUBSET Request]
    BY DEF TypeOK, Receive
  <2> QED
    BY <1>3, <1>4, <2>1, <2>2 DEF TypeOK
<1>7. CallsOK'
  <2>1. Calling(r)' => Slug[c.collection] # None /\ pc'[r] \in Path[c.kind]
    BY <1>1, <1>2, CallFacts DEF Calling, Answer, Goto, TypeOK, Path
  <2> QED
    BY <1>2, <1>3, <1>4, <2>1 DEF CallsOK, Calling, IndexedAt
<1>8. UpdatesOK'
  <2> SUFFICES ASSUME NEW q \in Request, call'[q].kind = "update",
                      pc'[q] \in {"get_collection", "upsert"}
               PROVE  UpdateReady(q, pc[q], local[q].point)'
    BY DEF UpdatesOK
  <2>1. q # r
    BY <1>1 DEF Answer, Goto, TypeOK
  <2>2. UpdateReady(q, pc[q], local[q].point) /\ call[q].id \in Request
    BY <1>4, <2>1, CallFacts DEF UpdatesOK, CallsOK, Id
  <2> QED
    BY <1>3, <1>4, <1>5, <2>1, <2>2, StoresPersist DEF UpdateReady, Name
<1>9. WidthsOK' /\ StoredForItsOwner' /\ UniformWidth'
  BY <1>3, <1>5, DatabaseKept
<1>10. AnswersStayInTenancy'
  <2> SUFFICES ASSUME NEW q \in Request, NEW id \in reply'[q].hits
               PROVE  Stores(id)' /\ call'[id].owner = call'[q].owner
    BY DEF AnswersStayInTenancy
  <2>1. q # r /\ id \in reply[q].hits /\ id \in Request
    BY <1>4 DEF TypeOK, Reply, Id
  <2>2. Stores(id) /\ call[id].owner = call[q].owner
    BY <2>1 DEF AnswersStayInTenancy
  <2> QED
    BY <1>4, <1>5, <2>1, <2>2, StoresPersist
<1>11. MismatchIsOwnChoice'
  <2> SUFFICES ASSUME NEW q \in Request, reply'[q].status = 409
               PROVE  \E p \in Request \ {q} :
                        /\ Stores(p)' /\ call'[p].owner = call'[q].owner
                        /\ Name(p)' = Name(q)' /\ call'[p].dim # call'[q].dim
    BY DEF MismatchIsOwnChoice
  <2>1. q # r
    BY <1>4
  <2>2. PICK p \in Request \ {q} :
            /\ Stores(p) /\ call[p].owner = call[q].owner
            /\ Name(p) = Name(q) /\ call[p].dim # call[q].dim
    BY <1>4, <2>1 DEF MismatchIsOwnChoice
  <2> QED
    BY <1>4, <1>5, <2>1, <2>2, StoresPersist DEF Name
<1> QED
  BY <1>6, <1>7, <1>8, <1>9, <1>10, <1>11

\* create_collection_call keeps the invariant.
LEMMA CreateCollectionStep ==
    ASSUME IInv, NEW r \in Request, create_collection_call(r)
    PROVE  IInv'
<1> DEFINE name == Name(r)
<1> USE DEF create_collection_call, At
<1>1. Calling(r) /\ call[r].kind = "create"
  <2>1. Calling(r)
    BY DEF Calling
  <2> QED
    BY <2>1, AtLabel, CallFacts DEF Path
<1>2. CASE Present(db, name)
  <2>1. Follows(r, "respond", local[r])
    BY DEF Follows
  <2> QED
    BY <1>1, <1>2, <2>1, AtLabel, PlainStatus, MoveReading DEF Raise, Answer, Label
<1>3. CASE ~Present(db, name)
  <2> DEFINE next == IF IndexFields = <<>> THEN "get_collection"
                     ELSE "create_payload_index"
             new == stored_collection(call[r].dim, {}, [id \in Id |-> None])
  <2>1. Follows(r, next, local[r]) /\ next \in Label /\ next # "idle"
    BY <1>1, AtLabel, RepositoryAssumption DEF Follows, Path, Label, IndexedAt
  <2>2. db' = [db EXCEPT ![name] = new]
    BY <1>3 DEF create_collection
  <2>3. name \in PhysicalName /\ new \in StoredCollection
    BY <1>1, AtLabel, CallFacts DEF StoredCollection, stored_collection
  <2>4. /\ db \in [PhysicalName -> StoredCollection \union {Absent}]
        /\ db' \in [PhysicalName -> StoredCollection \union {Absent}]
    BY <2>2, <2>3 DEF IInv, TypeOK
  <2>5. removed' \in [Request -> SUBSET Id]
    BY DEF IInv, TypeOK
  <2>6. /\ Persist /\ CallsOK' /\ UpdatesOK' /\ TypeOK'
        /\ AnswersStayInTenancy' /\ MismatchIsOwnChoice'
    BY <1>1, <1>3, <2>1, <2>4, <2>5, AtLabel, Move DEF Goto, Sound
  <2>7. WidthsOK'
    <3> SUFFICES ASSUME NEW n \in PhysicalName, db'[n] # Absent
                 PROVE  \E q \in Request : Stores(q)' /\ Name(q)' = n
                                           /\ call'[q].dim = db'[n].dim
      BY DEF WidthsOK
    <3>1. CASE n = name
      <4>1. Stores(r)
        BY <1>1, AtLabel DEF Stores, Kind
      <4> QED
        BY <2>2, <2>3, <2>4, <2>6, <3>1, <4>1, StoresPersist
        DEF stored_collection
    <3>2. CASE n # name
      BY <2>2, <2>4, <2>6, <3>2, StoresPersist DEF WidthsOK, IInv
    <3> QED
      BY <3>1, <3>2
  <2>8. ASSUME NEW n \in PhysicalName, NEW id \in Id, HoldsPoint(n, id)'
        PROVE  n # name /\ HoldsPoint(n, id) /\ db'[n] = db[n]
    BY <2>2, <2>3, <2>4, <2>8 DEF HoldsPoint, PointAt, stored_collection
  <2>9. StoredForItsOwner' /\ UniformWidth'
    BY <2>6, <2>8, StoresPersist DEF StoredForItsOwner, UniformWidth, IInv, Id
  <2> QED
    BY <2>6, <2>7, <2>9 DEF IInv
<1> QED
  BY <1>2, <1>3

\* An index leaves every width and every point as it is.
LEMMA IndexEffect ==
    ASSUME Base, NEW r \in Request, create_payload_indexes(r)
    PROVE  /\ db' \in [PhysicalName -> StoredCollection \union {Absent}]
           /\ \A n \in PhysicalName : db'[n] # Absent <=> db[n] # Absent
           /\ \A n \in PhysicalName : db'[n] # Absent =>
                /\ db'[n].dim = db[n].dim /\ db'[n].points = db[n].points
<1> DEFINE i == local[r].indexed + 1
           name == Name(r)
<1>1. pc[r] = "create_payload_index" /\ Calling(r)
  BY DEF create_payload_indexes, At, Calling
<1>2. name \in PhysicalName /\ i \in 1 .. Len(IndexFields)
  BY <1>1, AtCall, RepositoryAssumption DEF IndexedAt, Base, TypeOK, Locals
<1>3. CASE UNCHANGED db
  BY <1>3 DEF Base, TypeOK
<1>4. CASE /\ Present(db, name)
           /\ db' = create_payload_index(db, name, IndexFields[i])
  <2> DEFINE new == stored_collection(db[name].dim,
                        db[name].indexes \union {IndexFields[i]}, db[name].points)
  <2>1. db' = [db EXCEPT ![name] = new]
    BY <1>4 DEF create_payload_index
  <2>2. db[name] \in StoredCollection
    BY <1>2, <1>4 DEF Base, TypeOK, Present
  <2>3. IndexFields[i] \in IndexField
    BY <1>2, RepositoryAssumption
  <2>4. /\ new \in StoredCollection /\ new.dim = db[name].dim
        /\ new.points = db[name].points /\ new # Absent
    BY <2>2, <2>3, RepositoryAssumption DEF StoredCollection, stored_collection
  <2> HIDE DEF new
  <2> QED
    BY <1>2, <1>4, <2>1, <2>4 DEF Base, TypeOK, Present
<1> QED
  BY <1>3, <1>4 DEF create_payload_indexes

\* create_payload_indexes keeps the invariant.
LEMMA CreatePayloadIndexesStep ==
    ASSUME IInv, NEW r \in Request, create_payload_indexes(r)
    PROVE  IInv'
<1> DEFINE i == local[r].indexed + 1
           next == IF i = Len(IndexFields) THEN "get_collection"
                   ELSE "create_payload_index"
           here == Indexed(i)
           name == Name(r)
<1> USE DEF create_payload_indexes, At
<1>1. Calling(r) /\ call[r].kind = "create"
  <2>1. Calling(r)
    BY DEF Calling
  <2> QED
    BY <2>1, AtLabel, CallFacts DEF Path
<1>2. here \in Locals /\ i \in 1 .. Len(IndexFields)
  BY <1>1, AtLabel, RepositoryAssumption DEF Locals, Indexed, IndexedAt
<1>3. local' = [local EXCEPT ![r] = here]
  OBVIOUS
<1>4. Follows(r, next, here) /\ next \in Label /\ next # "idle"
  BY <1>1, <1>2, AtLabel, RepositoryAssumption
  DEF Follows, Path, Label, IndexedAt, Indexed
<1>5. removed' \in [Request -> SUBSET Id]
  BY DEF IInv, TypeOK
<1>6. /\ db' \in [PhysicalName -> StoredCollection \union {Absent}]
      /\ \A n \in PhysicalName : db'[n] # Absent =>
            /\ db[n] # Absent /\ db'[n].dim = db[n].dim
            /\ db'[n].points = db[n].points
  BY BaseHolds, IndexEffect
<1>7. /\ Persist /\ CallsOK' /\ UpdatesOK' /\ TypeOK'
      /\ AnswersStayInTenancy' /\ MismatchIsOwnChoice'
  <2>1. /\ pc' = [pc EXCEPT ![r] = next]
        /\ reply' = [reply EXCEPT ![r] = reply[r]]
        /\ Sound(r, reply[r]) /\ pc[r] # "idle" /\ reply[r] \in Reply
    BY <1>1, AtLabel DEF Goto, Sound
  <2> HIDE DEF next, here
  <2> QED
    BY <1>2, <1>3, <1>4, <1>5, <1>6, <2>1, Move
<1>8. WidthsOK' /\ StoredForItsOwner' /\ UniformWidth'
  BY <1>6, <1>7, DatabaseShrinks DEF IInv
<1> QED
  BY <1>7, <1>8 DEF IInv

\* assert_dimension_matches keeps the invariant: a refused width is one that a
\* store of the same owner fixed.
LEMMA AssertDimensionMatchesStep ==
    ASSUME IInv, NEW r \in Request, assert_dimension_matches(r)
    PROVE  IInv'
<1> DEFINE name == Name(r)
<1> USE DEF assert_dimension_matches, At, Reads
<1>1. Calling(r) /\ call[r].kind \in {"create", "update"}
  <2>1. Calling(r)
    BY DEF Calling
  <2> QED
    BY <2>1, AtLabel, CallFacts DEF Path
<1>2. pc[r] # "idle"
  BY <1>1, AtLabel
<1>3. CASE ~Present(db, name)
  BY <1>1, <1>2, <1>3, Refusing DEF Raise
<1>4. CASE Present(db, name) /\ db[name].dim # call[r].dim
  <2>1. PICK q \in Request :
          Stores(q) /\ Name(q) = name /\ call[q].dim = db[name].dim
    BY <1>1, <1>4, AtLabel DEF WidthsOK, IInv, Present
  <2>2. call[q] \in Call
    BY <2>1 DEF Stores, Kind, IInv, CallsOK
  <2>3. q # r /\ call[q].owner = call[r].owner
    BY <1>1, <1>4, <2>1, <2>2, AtLabel, SameNameSameOwner
  <2>4. Status(409) \in Reply /\ Sound(r, Status(409))
    BY <1>4, <2>1, <2>3 DEF Sound, Status, Shows, Reply
  <2> QED
    BY <1>1, <1>2, <1>4, <2>4, Answering
<1>5. CASE Present(db, name) /\ db[name].dim = call[r].dim
  <2>1. Follows(r, "upsert", local[r])
    BY <1>1, AtLabel DEF Follows, Path, UpdateReady, IInv, UpdatesOK, IndexedAt
  <2> QED
    BY <1>1, <1>5, <2>1, AtLabel, MoveReading DEF Goto, Sound, Label
<1> QED
  BY <1>3, <1>4, <1>5

\* A point found in a request's collection was stored by the request's owner.
LEMMA FoundIsOwn ==
    ASSUME IInv, NEW r \in Request, Calling(r), NEW id \in Id,
           HoldsPoint(Name(r), id)
    PROVE  /\ Stores(id) /\ Name(id) = Name(r)
           /\ call[id].owner = call[r].owner
           /\ db[Name(r)] \in StoredCollection
           /\ db[Name(r)].points[id] \in Point
           /\ db[Name(r)].points[id].payload.created_at = id
<1>1. Name(r) \in PhysicalName /\ call[r] \in Call
  BY AtLabel
<1>2. /\ Stores(id) /\ Name(id) = Name(r)
      /\ db[Name(r)].points[id].payload.created_at = id
  BY <1>1 DEF IInv, StoredForItsOwner
<1>3. call[id] \in Call /\ id \in Request
  BY <1>2 DEF Stores, Kind, IInv, CallsOK, Id
<1>4. /\ db[Name(r)] \in StoredCollection
      /\ db[Name(r)].points[id] \in Point
  BY <1>1 DEF HoldsPoint, PointAt, IInv, TypeOK, StoredCollection
<1> QED
  BY <1>1, <1>2, <1>3, <1>4, SameNameSameOwner

\* Answering with points of the request's own collection is sound.
LEMMA OwnHits ==
    ASSUME IInv, NEW r \in Request, Calling(r), NEW code \in {200, 201},
           NEW hits \in SUBSET Id,
           \A id \in hits : Stores(id) /\ call[id].owner = call[r].owner
    PROVE  Shows(code, hits) \in Reply /\ Sound(r, Shows(code, hits))
BY DEF Shows, Reply, Sound

\* owned_point keeps the invariant.
LEMMA OwnedPointStep ==
    ASSUME IInv, NEW r \in Request, owned_point(r)
    PROVE  IInv'
<1> DEFINE name == Name(r)
           id == call[r].id
           point == db[name].points[id]
<1>0. pc[r] = "retrieve" /\ UNCHANGED <<call, before, db, removed>>
  BY DEF owned_point, At, Reads
<1>1. /\ Calling(r) /\ pc[r] # "idle"
      /\ call[r].kind \in {"get", "update", "delete"} /\ id \in Id
  <2>1. Calling(r) /\ pc[r] # "idle"
    BY <1>0 DEF Calling
  <2> QED
    BY <1>0, <2>1, AtLabel, CallFacts DEF Path
<1>2. /\ local[r] \in Locals /\ reply[r] \in Reply
      /\ local = [local EXCEPT ![r] = local[r]]
      /\ reply = [reply EXCEPT ![r] = reply[r]]
  BY <1>1, AtLabel
<1>3. ASSUME NEW code \in {404, 500}, Answer(r, Status(code)), UNCHANGED local
      PROVE  IInv'
  BY <1>0, <1>1, <1>3, Refusing
<1>4. CASE ~(Present(db, name) /\ point # None /\ point.payload.user_id = User(r))
  BY <1>3, <1>4 DEF owned_point, Raise
<1>5. CASE Present(db, name) /\ point # None /\ point.payload.user_id = User(r)
  <2> DEFINE here == Read(point)
  <2>1. HoldsPoint(name, id)
    BY <1>5 DEF HoldsPoint, PointAt, Present
  <2>2. local' = [local EXCEPT ![r] = here]
    BY <1>5 DEF owned_point
  <2>3. /\ Stores(id) /\ Name(id) = Name(r) /\ call[id].owner = call[r].owner
        /\ point \in Point /\ point.payload.created_at = id
    BY <1>1, <2>1, FoundIsOwn
  <2>4. here \in Locals /\ here.point = point /\ here.indexed = 0
    BY <2>3 DEF Locals, Read
  <2>5. \/ call[r].kind = "get" /\ Answer(r, Shows(200, {id}))
        \/ call[r].kind = "delete" /\ Goto(r, "delete")
        \/ call[r].kind = "update" /\ Goto(r, "upsert")
        \/ /\ call[r].kind = "update" /\ call[r].dim # None
           /\ Goto(r, "get_collection")
    BY <1>5 DEF owned_point
  <2> HIDE DEF here, point, name, id
  <2>6. CASE call[r].kind = "get" /\ Answer(r, Shows(200, {id}))
    <3>1. Shows(200, {id}) \in Reply /\ Sound(r, Shows(200, {id}))
      BY <1>1, <2>3, OwnHits
    <3> QED
      BY <1>0, <1>1, <2>2, <2>4, <2>6, <3>1, AnsweringHere
  <2>7. ASSUME NEW next \in {"delete", "upsert", "get_collection"},
               next \in Path[call[r].kind],
               next = "get_collection" => call[r].dim # None, Goto(r, next)
        PROVE  IInv'
    <3>1. Slug[call[r].collection] # None
      BY <1>1, AtLabel
    <3>2. UpdateReady(r, next, here.point)
      BY <2>3, <2>4, <2>7, RepositoryAssumption DEF UpdateReady, id
    <3>3. Follows(r, next, here)
      BY <2>4, <2>7, <3>1, <3>2 DEF Follows, IndexedAt
    <3>4. next \in Label /\ next # "idle"
      BY <2>7 DEF Label
    <3> QED
      BY <1>0, <1>1, <2>2, <2>4, <2>7, <3>3, <3>4, Going
  <2>8. CASE call[r].kind = "delete" /\ Goto(r, "delete")
    BY <2>7, <2>8 DEF Path
  <2>9. CASE call[r].kind = "update" /\ Goto(r, "upsert")
    BY <2>7, <2>9 DEF Path
  <2>10. CASE /\ call[r].kind = "update" /\ call[r].dim # None
              /\ Goto(r, "get_collection")
    BY <2>7, <2>10 DEF Path
  <2> QED
    BY <2>5, <2>6, <2>8, <2>9, <2>10
<1> QED
  BY <1>4, <1>5

\* What an upsert writes is a point, under the name of the request's user and
\* dated by the request.
LEMMA WrittenType ==
    ASSUME Base, NEW r \in Request, pc[r] = "upsert", NEW id, NEW point,
           id = IF call[r].kind = "create" THEN r ELSE call[r].id,
           point = IF call[r].kind = "create" THEN new_point(r)
                   ELSE updated_point(r)
    PROVE  /\ id \in Id /\ point \in Point
           /\ point.payload.user_id = User(r) /\ point.payload.updated_at = r
           /\ Kind(r) \in {"create", "update"}
<1>1. Calling(r) /\ call[r].kind \in {"create", "update"} /\ call[r] \in Call
  <2>1. Calling(r)
    BY DEF Calling
  <2> QED
    BY <2>1, AtCall, CallFacts DEF Path
<1>2. User(r) \in Username
  BY <1>1, CallFacts DEF User, Owner
<1>3. CASE call[r].kind = "create"
  <2>1. /\ call[r].dim \in Dim /\ call[r].topic \in Topic \union {None}
        /\ call[r].metadata \in Metadata
    BY <1>1, <1>3, CallFacts
  <2>2. id = r /\ point = new_point(r)
    BY <1>3
  <2> QED
    BY <1>2, <1>3, <2>1, <2>2 DEF new_point, user_id, Kind, Id, Point, Payload
<1>4. CASE call[r].kind = "update"
  <2>1. /\ call[r].dim \in Dim \union {None}
        /\ call[r].topic \in Topic \union {None}
        /\ call[r].metadata \in Metadata \union {None} /\ call[r].id \in Id
    BY <1>1, <1>4, CallFacts
  <2>2. id = call[r].id /\ point = updated_point(r)
    BY <1>4
  <2>3. current(r) \in Point
    BY <1>4 DEF Base, UpdatesHold, current, TypeOK, Locals
  <2>4. updated_point(r) \in Point
    BY <1>2, <2>1, <2>3
    DEF updated_point, Or, chunks, vector_dim, created_at, Id, Point, Payload
  <2>5. /\ updated_point(r).payload.user_id = User(r)
        /\ updated_point(r).payload.updated_at = r
    BY DEF updated_point
  <2> QED
    BY <1>4, <2>1, <2>2, <2>4, <2>5 DEF Kind
<1> QED
  BY <1>1, <1>3, <1>4

\* The point an upsert writes carries the name of the owner who stored its id,
\* the creation time of that store, and its own width.
LEMMA WrittenPoint ==
    ASSUME IInv, NEW r \in Request, pc[r] = "upsert", NEW id, NEW point,
           id = IF call[r].kind = "create" THEN r ELSE call[r].id,
           point = IF call[r].kind = "create" THEN new_point(r)
                   ELSE updated_point(r)
    PROVE  /\ id \in Id /\ point \in Point
           /\ Stores(id) /\ Name(id) = Name(r)
           /\ call[id].owner = call[r].owner
           /\ point.payload.user_id = call[id].owner.username
           /\ point.payload.created_at = id
           /\ point.payload.vector_dim = point.vector
<1>1. Calling(r) /\ call[r].kind \in {"create", "update"} /\ call[r] \in Call
  <2>1. Calling(r)
    BY DEF Calling
  <2> QED
    BY <2>1, AtLabel, CallFacts DEF Path
<1>2. User(r) \in Username
  BY <1>1, CallFacts DEF User, Owner
<1>3. CASE call[r].kind = "create"
  <2>1. /\ call[r].dim \in Dim /\ call[r].topic \in Topic \union {None}
        /\ call[r].metadata \in Metadata
    BY <1>1, <1>3, CallFacts
  <2>2. id = r /\ point = new_point(r)
    BY <1>3
  <2> QED
    BY <1>2, <1>3, <2>1, <2>2
    DEF new_point, user_id, User, Stores, Kind, Id, Point, Payload
<1>4. CASE call[r].kind = "update"
  <2>1. /\ call[r].dim \in Dim \union {None}
        /\ call[r].topic \in Topic \union {None}
        /\ call[r].metadata \in Metadata \union {None} /\ call[r].id \in Id
    BY <1>1, <1>4, CallFacts
  <2>2. id = call[r].id /\ point = updated_point(r)
    BY <1>4
  <2>3. UpdateReady(r, "upsert", local[r].point)
    BY <1>4 DEF IInv, UpdatesOK
  <2>4. Stores(id) /\ Name(id) = Name(r) /\ call[id] \in Call
    BY <2>1, <2>2, <2>3 DEF UpdateReady, Stores, Kind, Id, IInv, CallsOK
  <2>5. call[id].owner = call[r].owner
    BY <1>1, <2>1, <2>2, <2>4, SameNameSameOwner DEF Id
  <2>6. current(r) \in Point /\ current(r).payload.created_at = id
    BY <2>2, <2>3 DEF UpdateReady, current, IInv, TypeOK, Locals
  <2>7. updated_point(r) \in Point
    BY <1>2, <2>1, <2>6
    DEF updated_point, Or, chunks, vector_dim, created_at, Id, Point, Payload
  <2>8. /\ updated_point(r).payload.user_id = User(r)
        /\ updated_point(r).payload.created_at = id
        /\ updated_point(r).payload.vector_dim = updated_point(r).vector
    BY <2>6 DEF updated_point, vector_dim, created_at
  <2> QED
    BY <2>1, <2>2, <2>4, <2>5, <2>7, <2>8 DEF User
<1> QED
  BY <1>1, <1>3, <1>4

\* An upsert that Qdrant accepts changes one point and no width.
LEMMA UpsertEffect ==
    ASSUME TypeOK, NEW name \in PhysicalName, Present(db, name),
           NEW id \in Id, NEW point \in Point, db' = upsert(db, name, id, point)
    PROVE  /\ db' \in [PhysicalName -> StoredCollection \union {Absent}]
           /\ \A n \in PhysicalName : db'[n] # Absent <=> db[n] # Absent
           /\ \A n \in PhysicalName : db'[n] # Absent =>
                /\ db'[n].dim = db[n].dim
                /\ \A i \in Id : db'[n].points[i] =
                      IF n = name /\ i = id THEN point ELSE db[n].points[i]
<1> DEFINE new == stored_collection(db[name].dim, db[name].indexes,
                      [db[name].points EXCEPT ![id] = point])
<1>1. db' = [db EXCEPT ![name] = new]
  BY DEF upsert
<1>2. db[name] \in StoredCollection
  BY DEF TypeOK, Present
<1>3. /\ new \in StoredCollection /\ new.dim = db[name].dim
      /\ new.points = [db[name].points EXCEPT ![id] = point] /\ new # Absent
  BY <1>2, RepositoryAssumption DEF StoredCollection, stored_collection
<1> HIDE DEF new
<1>4. db' \in [PhysicalName -> StoredCollection \union {Absent}]
  BY <1>1, <1>3 DEF TypeOK
<1>5. \A n \in PhysicalName : db'[n] # Absent <=> db[n] # Absent
  BY <1>1, <1>3 DEF TypeOK, Present
<1>6. ASSUME NEW n \in PhysicalName, db'[n] # Absent
      PROVE  /\ db'[n].dim = db[n].dim
             /\ \A i \in Id : db'[n].points[i] =
                   IF n = name /\ i = id THEN point ELSE db[n].points[i]
  <2>1. CASE n = name
    <3>1. db[name].points \in [Id -> Point \union {None}]
      BY <1>2 DEF StoredCollection
    <3> QED
      BY <1>1, <1>3, <2>1, <3>1 DEF TypeOK
  <2>2. CASE n # name
    BY <1>1, <2>2 DEF TypeOK
  <2> QED
    BY <2>1, <2>2
<1> QED
  BY <1>4, <1>5, <1>6

\* upsert_call keeps the invariant.
LEMMA UpsertStep ==
    ASSUME IInv, NEW r \in Request, upsert_call(r)
    PROVE  IInv'
<1> DEFINE name == Name(r)
           id == IF call[r].kind = "create" THEN r ELSE call[r].id
           point == IF call[r].kind = "create" THEN new_point(r)
                    ELSE updated_point(r)
           code == IF call[r].kind = "create" THEN 201 ELSE 200
<1>0. pc[r] = "upsert" /\ UNCHANGED <<call, before, local, removed>>
  BY DEF upsert_call, At
<1>1. Calling(r) /\ pc[r] # "idle" /\ name \in PhysicalName
  <2>1. Calling(r)
    BY <1>0 DEF Calling
  <2> QED
    BY <1>0, <2>1, AtLabel
<1>2. CASE ~(Present(db, name) /\ FitsWidth(db, name, point))
  BY <1>0, <1>1, <1>2, Refusing DEF upsert_call, Raise
<1>3. CASE Present(db, name) /\ FitsWidth(db, name, point)
  <2>1. /\ db' = upsert(db, name, id, point)
        /\ Answer(r, Shows(code, {id}))
    BY <1>3 DEF upsert_call
  <2>2. /\ id \in Id /\ point \in Point
        /\ Stores(id) /\ Name(id) = name
        /\ call[id].owner = call[r].owner
        /\ point.payload.user_id = call[id].owner.username
        /\ point.payload.created_at = id
        /\ point.payload.vector_dim = point.vector
    BY <1>0, WrittenPoint
  <2>3. point.vector = db[name].dim
    BY <1>3 DEF FitsWidth
  <2>4. code \in {200, 201}
    OBVIOUS
  <2> HIDE DEF id, point, code, name
  <2>5. /\ db' \in [PhysicalName -> StoredCollection \union {Absent}]
        /\ \A n \in PhysicalName : db'[n] # Absent <=> db[n] # Absent
        /\ \A n \in PhysicalName : db'[n] # Absent =>
                /\ db'[n].dim = db[n].dim
                /\ \A i \in Id : db'[n].points[i] =
                      IF n = name /\ i = id THEN point ELSE db[n].points[i]
    BY <1>1, <1>3, <2>1, <2>2, UpsertEffect DEF IInv
  <2>6. Shows(code, {id}) \in Reply /\ Sound(r, Shows(code, {id}))
    BY <1>1, <2>2, <2>4, OwnHits
  <2>7. /\ Persist /\ CallsOK' /\ UpdatesOK' /\ TypeOK'
        /\ AnswersStayInTenancy' /\ MismatchIsOwnChoice'
    <3>1. Follows(r, "respond", local[r])
      BY DEF Follows
    <3>2. /\ pc' = [pc EXCEPT ![r] = "respond"]
          /\ reply' = [reply EXCEPT ![r] = Shows(code, {id})]
      BY <2>1 DEF Answer
    <3>3. /\ local[r] \in Locals /\ local' = [local EXCEPT ![r] = local[r]]
          /\ removed' \in [Request -> SUBSET Id] /\ "respond" \in Label
      BY <1>0 DEF IInv, TypeOK, Label
    <3> QED
      BY <1>0, <1>1, <2>5, <2>6, <3>1, <3>2, <3>3, Move
  <2>8. WidthsOK'
    BY <2>7, <2>5, StoresPersist DEF WidthsOK, IInv
  <2>9. ASSUME NEW n \in PhysicalName, NEW i \in Id, HoldsPoint(n, i)'
         PROVE  /\ db'[n].dim = db[n].dim
                /\ \/ n = name /\ i = id /\ db'[n].points[i] = point
                   \/ HoldsPoint(n, i) /\ db'[n].points[i] = db[n].points[i]
    BY <2>5, <2>9 DEF HoldsPoint, PointAt
  <2>10. StoredForItsOwner'
    <3> SUFFICES ASSUME NEW n \in PhysicalName, NEW i \in Id, HoldsPoint(n, i)'
                 PROVE  /\ Stores(i)' /\ Name(i)' = n
                        /\ db'[n].points[i].payload.user_id = call'[i].owner.username
                        /\ db'[n].points[i].payload.created_at = i
      BY DEF StoredForItsOwner
    <3>1. /\ Stores(i) /\ Name(i) = n
          /\ db'[n].points[i].payload.user_id = call[i].owner.username
          /\ db'[n].points[i].payload.created_at = i
      BY <2>2, <2>9 DEF StoredForItsOwner, IInv, name
    <3> QED
      BY <2>7, <3>1, StoresPersist DEF Id
  <2>11. UniformWidth'
    BY <2>2, <2>3, <2>9 DEF UniformWidth, IInv
  <2> QED
    BY <2>7, <2>8, <2>10, <2>11 DEF IInv
<1> QED
  BY <1>2, <1>3

\* count_selected keeps the invariant; the count is a number because there are
\* finitely many points.
LEMMA CountSelectedStep ==
    ASSUME IInv, NEW r \in Request, count_selected(r)
    PROVE  IInv'
<1> DEFINE name == Name(r)
           here == Counted(matching(r))
<1>0. pc[r] = "count" /\ UNCHANGED <<call, before, db, removed>>
  BY DEF count_selected, At, Reads
<1>1. /\ Calling(r) /\ pc[r] # "idle" /\ name \in PhysicalName
      /\ call[r].kind \in {"bulk_delete", "delete_collection"}
      /\ Slug[call[r].collection] # None
  <2>1. Calling(r)
    BY <1>0 DEF Calling
  <2> QED
    BY <1>0, <2>1, AtLabel, CallFacts DEF Path
<1>2. CASE ~Present(db, name)
  BY <1>0, <1>1, <1>2, Refusing DEF count_selected, Raise
<1>3. CASE Present(db, name)
  <2>1. matching(r) \in Nat
    <3>1. Selected(db, name, selector(r)) \subseteq Request
      BY <1>1, <1>3 DEF Selected, Stored, IInv, TypeOK, Present,
                        StoredCollection, Id
    <3>2. IsFiniteSet(Selected(db, name, selector(r)))
      BY <3>1, FS_Subset, RepositoryAssumption
    <3> QED
      BY <3>2, FS_CardinalityType DEF matching, count
  <2>2. here \in Locals /\ here.indexed = 0
    BY <2>1 DEF Counted, Locals
  <2>3. local' = [local EXCEPT ![r] = here]
    BY <1>3 DEF count_selected
  <2>4. \/ Answer(r, Deleted(0, FALSE))
        \/ call[r].kind = "delete_collection" /\ Goto(r, "drop")
        \/ Goto(r, "delete")
    BY <1>3 DEF count_selected
  <2> HIDE DEF here
  <2>5. ASSUME NEW next \in {"delete", "drop"}, Goto(r, next),
               next \in Path[call[r].kind]
        PROVE  IInv'
    <3>1. Follows(r, next, here)
      BY <1>1, <2>2, <2>5 DEF Follows, IndexedAt
    <3>2. next \in Label /\ next # "idle"
      BY <2>5 DEF Label
    <3> QED
      BY <1>0, <1>1, <2>2, <2>3, <2>5, <3>1, <3>2, Going
  <2>6. CASE Answer(r, Deleted(0, FALSE))
    <3>1. Deleted(0, FALSE) \in Reply /\ Sound(r, Deleted(0, FALSE))
      BY PlainDeleted
    <3> QED
      BY <1>0, <1>1, <2>2, <2>3, <2>6, <3>1, AnsweringHere
  <2>7. CASE call[r].kind = "delete_collection" /\ Goto(r, "drop")
    BY <2>5, <2>7 DEF Path
  <2>8. CASE Goto(r, "delete")
    BY <1>1, <2>5, <2>8 DEF Path
  <2> QED
    BY <2>4, <2>6, <2>7, <2>8
<1> QED
  BY <1>2, <1>3

\* What a filter selects are points the collection holds.
LEMMA SelectedAreHeld ==
    ASSUME TypeOK, NEW name \in PhysicalName, Present(db, name), NEW filter
    PROVE  /\ Stored(db, name) \in SUBSET Id
           /\ Selected(db, name, filter) \subseteq Stored(db, name)
           /\ \A id \in Stored(db, name) : HoldsPoint(name, id)
<1>1. db[name] \in StoredCollection
  BY DEF TypeOK, Present
<1>2. DOMAIN db[name].points = Id
  BY <1>1 DEF StoredCollection
<1> QED
  BY <1>2 DEF Stored, Selected, HoldsPoint, PointAt, Present

\* One point of the caller's, under each filter a handler builds.
LEMMA Matching ==
    ASSUME NEW user, NEW id, NEW payload, payload.user_id = user
    PROVE  /\ Matches(owned_by(user), id, payload)
           /\ \A ids : Matches(scoped_ids(user, ids), id, payload) <=> id \in ids
           /\ \A topic, filter :
                Matches(scoped(user, topic, filter), id, payload) <=>
                    /\ topic \in {None, payload.topic}
                    /\ \A k \in DOMAIN filter :
                        k \in DOMAIN payload.metadata /\ payload.metadata[k] \in filter[k]
<1>1. \A any : \A k : Holds([field |-> "user_id", key |-> k, any |-> any], id, payload)
                        <=> user \in any
  BY DEF Holds
<1>2. \A any : \A k : Holds([field |-> "id", key |-> k, any |-> any], id, payload)
                        <=> id \in any
  BY DEF Holds
<1>3. \A any : \A k : Holds([field |-> "topic", key |-> k, any |-> any], id, payload)
                        <=> payload.topic \in any
  BY DEF Holds
<1>4. \A any : \A k : Holds([field |-> "metadata", key |-> k, any |-> any], id, payload)
                        <=> k \in DOMAIN payload.metadata /\ payload.metadata[k] \in any
  BY DEF Holds
<1>5. Matches(owned_by(user), id, payload)
  BY <1>1 DEF Matches, owned_by, owner_condition
<1>6. ASSUME NEW ids
      PROVE  Matches(scoped_ids(user, ids), id, payload) <=> id \in ids
  <2>1. Matches(scoped_ids(user, ids), id, payload) <=>
            /\ Matches(owned_by(user), id, payload)
            /\ Holds([field |-> "id", key |-> None, any |-> ids], id, payload)
    BY DEF Matches, scoped_ids
  <2> QED
    BY <1>2, <1>5, <2>1
<1>7. ASSUME NEW topic
      PROVE  Matches(topic_conditions(topic), id, payload) <=> topic \in {None, payload.topic}
  <2>1. CASE topic = None
    BY <2>1 DEF Matches, topic_conditions
  <2>2. CASE topic # None
    <3>1. Matches(topic_conditions(topic), id, payload) <=>
            Holds([field |-> "topic", key |-> None, any |-> {topic}], id, payload)
      BY <2>2 DEF Matches, topic_conditions
    <3> QED
      BY <1>3, <2>2, <3>1
  <2> QED
    BY <2>1, <2>2
<1>8. ASSUME NEW filter
      PROVE  Matches(metadata_conditions(filter), id, payload) <=>
                \A k \in DOMAIN filter :
                    k \in DOMAIN payload.metadata /\ payload.metadata[k] \in filter[k]
  <2>1. Matches(metadata_conditions(filter), id, payload) <=>
            \A k \in DOMAIN filter :
                Holds([field |-> "metadata", key |-> k, any |-> filter[k]], id, payload)
    BY DEF Matches, metadata_conditions
  <2> QED
    BY <1>4, <2>1
<1>9. ASSUME NEW topic, NEW filter
      PROVE  Matches(scoped(user, topic, filter), id, payload) <=>
                /\ topic \in {None, payload.topic}
                /\ \A k \in DOMAIN filter :
                    k \in DOMAIN payload.metadata /\ payload.metadata[k] \in filter[k]
  <2>1. Matches(scoped(user, topic, filter), id, payload) <=>
            /\ Matches(owned_by(user), id, payload)
            /\ Matches(topic_conditions(topic), id, payload)
            /\ Matches(metadata_conditions(filter), id, payload)
    BY DEF Matches, scoped
  <2> QED
    BY <1>5, <1>7, <1>8, <2>1
<1> QED
  BY <1>5, <1>6, <1>9

\* A delete call only empties ids; a drop only takes the collection.
LEMMA DeleteShrinks ==
    ASSUME TypeOK, NEW name \in PhysicalName, Present(db, name), NEW filter,
           db' = delete(db, name, filter)
    PROVE  /\ db' \in [PhysicalName -> StoredCollection \union {Absent}]
           /\ \A n \in PhysicalName : db'[n] # Absent <=> db[n] # Absent
           /\ \A n \in PhysicalName : db'[n] # Absent =>
                /\ db[n] # Absent /\ db'[n].dim = db[n].dim
                /\ \A id \in Id :
                     db'[n].points[id] =
                        IF n = name /\ id \in Selected(db, name, filter)
                        THEN None ELSE db[n].points[id]
<1> DEFINE points == [id \in DOMAIN db[name].points |->
                        IF id \in Selected(db, name, filter) THEN None
                        ELSE db[name].points[id]]
           new == stored_collection(db[name].dim, db[name].indexes, points)
<1>1. db' = [db EXCEPT ![name] = new]
  BY DEF delete
<1>2. db[name] \in StoredCollection
  BY DEF TypeOK, Present
<1>3. /\ points \in [Id -> Point \union {None}]
      /\ \A id \in Id : points[id] =
            IF id \in Selected(db, name, filter) THEN None
            ELSE db[name].points[id]
  BY <1>2 DEF StoredCollection
<1> HIDE DEF points
<1>4. /\ new \in StoredCollection /\ new.dim = db[name].dim
      /\ new.points = points /\ new # Absent
  BY <1>2, <1>3, RepositoryAssumption DEF StoredCollection, stored_collection
<1> HIDE DEF new
<1>5. db' \in [PhysicalName -> StoredCollection \union {Absent}]
  BY <1>1, <1>4 DEF TypeOK
<1>6. ASSUME NEW n \in PhysicalName, db'[n] # Absent
      PROVE  /\ db[n] # Absent /\ db'[n].dim = db[n].dim
             /\ \A id \in Id :
                  db'[n].points[id] =
                     IF n = name /\ id \in Selected(db, name, filter)
                     THEN None ELSE db[n].points[id]
  <2>1. CASE n = name
    BY <1>1, <1>3, <1>4, <2>1 DEF TypeOK, Present
  <2>2. CASE n # name
    BY <1>1, <1>6, <2>2 DEF TypeOK
  <2> QED
    BY <2>1, <2>2
<1>7. \A n \in PhysicalName : db'[n] # Absent <=> db[n] # Absent
  BY <1>1, <1>4 DEF TypeOK, Present
<1> QED
  BY <1>5, <1>6, <1>7

\* delete_selected keeps the invariant.
LEMMA DeleteSelectedStep ==
    ASSUME IInv, NEW r \in Request, delete_selected(r)
    PROVE  IInv'
<1> DEFINE name == Name(r)
           gone == Selected(db, name, selector(r))
<1>0. pc[r] = "delete" /\ UNCHANGED <<call, before, local>>
  BY DEF delete_selected, At
<1>1. /\ Calling(r) /\ pc[r] # "idle" /\ name \in PhysicalName
      /\ Slug[call[r].collection] # None
      /\ local[r] \in Locals /\ local' = [local EXCEPT ![r] = local[r]]
  <2>1. Calling(r)
    BY <1>0 DEF Calling
  <2> QED
    BY <1>0, <2>1, AtLabel
<1>2. CASE ~Present(db, name)
  BY <1>0, <1>1, <1>2, Refusing DEF delete_selected, Raise
<1>3. CASE Present(db, name)
  <2>1. /\ db' = delete(db, name, selector(r))
        /\ removed' = [removed EXCEPT ![r] = gone]
    BY <1>3 DEF delete_selected
  <2>2. \/ Answer(r, Deleted(1, FALSE))
        \/ call[r].kind = "bulk_delete" /\ Goto(r, "count_left")
        \/ Answer(r, Deleted(local[r].matched, FALSE))
    BY <1>3 DEF delete_selected
  <2>3. gone \in SUBSET Id
    BY <1>1, <1>3, SelectedAreHeld DEF IInv
  <2>4. removed' \in [Request -> SUBSET Id]
    BY <2>1, <2>3 DEF IInv, TypeOK
  <2>5. /\ db' \in [PhysicalName -> StoredCollection \union {Absent}]
        /\ \A n \in PhysicalName : db'[n] # Absent =>
              /\ db[n] # Absent /\ db'[n].dim = db[n].dim
              /\ \A id \in Id : \/ db'[n].points[id] = None
                                \/ db'[n].points[id] = db[n].points[id]
    BY <1>1, <1>3, <2>1, DeleteShrinks DEF IInv
  <2>6. PICK label \in Label, answer \in Reply :
          /\ pc' = [pc EXCEPT ![r] = label] /\ label # "idle"
          /\ reply' = [reply EXCEPT ![r] = answer]
          /\ Follows(r, label, local[r]) /\ Sound(r, answer)
    <3>1. ASSUME NEW n \in Nat, Answer(r, Deleted(n, FALSE))
          PROVE  \E label \in Label, answer \in Reply :
                    /\ pc' = [pc EXCEPT ![r] = label] /\ label # "idle"
                    /\ reply' = [reply EXCEPT ![r] = answer]
                    /\ Follows(r, label, local[r]) /\ Sound(r, answer)
      <4>1. Deleted(n, FALSE) \in Reply /\ Sound(r, Deleted(n, FALSE))
        BY PlainDeleted
      <4>2. Follows(r, "respond", local[r]) /\ "respond" \in Label
        BY DEF Follows, Label
      <4> QED
        BY <3>1, <4>1, <4>2 DEF Answer
    <3>2. CASE call[r].kind = "bulk_delete" /\ Goto(r, "count_left")
      <4>1. /\ reply[r] \in Reply /\ Sound(r, reply[r])
            /\ reply' = [reply EXCEPT ![r] = reply[r]]
        BY <3>2 DEF IInv, TypeOK, Goto, Sound
      <4>2. Follows(r, "count_left", local[r]) /\ "count_left" \in Label
        BY <1>1, <3>2 DEF Follows, Label, IndexedAt, Path
      <4> QED
        BY <3>2, <4>1, <4>2 DEF Goto
    <3>3. local[r].matched \in Nat
      BY <1>1 DEF Locals
    <3> QED
      BY <2>2, <3>1, <3>2, <3>3
  <2>7. /\ Persist /\ CallsOK' /\ UpdatesOK' /\ TypeOK'
        /\ AnswersStayInTenancy' /\ MismatchIsOwnChoice'
    BY <1>0, <1>1, <2>4, <2>5, <2>6, Move
  <2>8. WidthsOK' /\ StoredForItsOwner' /\ UniformWidth'
    BY <2>5, <2>7, DatabaseShrinks DEF IInv
  <2> QED
    BY <2>7, <2>8 DEF IInv
<1> QED
  BY <1>2, <1>3

\* count_left keeps the invariant.
LEMMA CountLeftStep ==
    ASSUME IInv, NEW r \in Request, count_left(r)
    PROVE  IInv'
<1>0. pc[r] = "count_left" /\ UNCHANGED <<call, before, local, db, removed>>
  BY DEF count_left, At, Reads
<1>1. /\ pc[r] # "idle" /\ call[r].kind = "bulk_delete"
      /\ Slug[call[r].collection] # None
      /\ local[r] \in Locals /\ local' = [local EXCEPT ![r] = local[r]]
      /\ reply[r] \in Reply /\ reply = [reply EXCEPT ![r] = reply[r]]
  <2>1. Calling(r)
    BY <1>0 DEF Calling
  <2> QED
    BY <1>0, <2>1, AtLabel, CallFacts DEF Path
<1>2. CASE Raise(r)
  BY <1>0, <1>1, <1>2, Refusing DEF Raise
<1>3. CASE Answer(r, Deleted(local[r].matched, FALSE))
  <2>1. local[r].matched \in Nat
    BY <1>1 DEF Locals
  <2> QED
    BY <1>0, <1>1, <1>3, <2>1, PlainDeleted, Answering
<1>4. CASE Goto(r, "drop")
  <2>1. Follows(r, "drop", local[r])
    BY <1>1 DEF Follows, IndexedAt, Path
  <2>2. "drop" \in Label
    BY DEF Label
  <2> QED
    BY <1>0, <1>1, <1>4, <2>1, <2>2, Going
<1> QED
  BY <1>2, <1>3, <1>4 DEF count_left

\* drop keeps the invariant.
LEMMA DropStep ==
    ASSUME IInv, NEW r \in Request, drop(r)
    PROVE  IInv'
<1> DEFINE name == Name(r)
           gone == IF Present(db, name) THEN Stored(db, name) ELSE {}
           answer == Deleted(local[r].matched, TRUE)
<1>0. /\ pc[r] = "drop" /\ UNCHANGED <<call, before, local>>
      /\ db' = [db EXCEPT ![name] = Absent]
      /\ removed' = [removed EXCEPT ![r] = @ \union gone]
      /\ pc' = [pc EXCEPT ![r] = "respond"]
      /\ reply' = [reply EXCEPT ![r] = answer]
  BY DEF drop, At, Answer, delete_collection
<1>1. /\ pc[r] # "idle" /\ name \in PhysicalName
      /\ local[r] \in Locals /\ local' = [local EXCEPT ![r] = local[r]]
  <2>1. Calling(r)
    BY <1>0 DEF Calling
  <2> QED
    BY <1>0, <2>1, AtLabel
<1>2. gone \in SUBSET Id
  BY <1>1, SelectedAreHeld DEF IInv
<1> HIDE DEF gone
<1>3. /\ removed' \in [Request -> SUBSET Id]
      /\ db' \in [PhysicalName -> StoredCollection \union {Absent}]
  BY <1>0, <1>2 DEF IInv, TypeOK
<1>4. /\ answer \in Reply /\ Sound(r, answer)
      /\ Follows(r, "respond", local[r]) /\ "respond" \in Label
  BY <1>1, PlainDeleted DEF Locals, Follows, Label
<1> HIDE DEF answer, name
<1>5. /\ Persist /\ CallsOK' /\ UpdatesOK' /\ TypeOK'
      /\ AnswersStayInTenancy' /\ MismatchIsOwnChoice'
  BY <1>0, <1>1, <1>3, <1>4, Move
<1>6. \A n \in PhysicalName : db'[n] # Absent => db'[n] = db[n]
  BY <1>0 DEF IInv, TypeOK
<1>7. WidthsOK' /\ StoredForItsOwner' /\ UniformWidth'
  BY <1>5, <1>6, DatabaseShrinks DEF IInv
<1> QED
  BY <1>5, <1>7 DEF IInv

\* A search and a page keep the invariant: whatever Qdrant answers is in the collection of
\* the caller, and so the caller's own.
LEMMA QueryStep ==
    ASSUME IInv, NEW r \in Request, query(r) \/ scroll(r)
    PROVE  IInv'
<1> DEFINE name == Name(r)
           filter == scoped(User(r), call[r].topic, call[r].filter)
<1>0. pc[r] \in {"query", "scroll"} /\ UNCHANGED <<call, before, local, db, removed>>
  BY DEF query, scroll, At, Reads
<1>1. Calling(r) /\ pc[r] # "idle" /\ name \in PhysicalName
  <2>1. Calling(r)
    BY <1>0 DEF Calling
  <2> QED
    BY <1>0, <2>1, AtLabel
<1>2. CASE Raise(r)
  BY <1>0, <1>1, <1>2, Refusing DEF Raise
<1>3. CASE Present(db, name) /\ ~Raise(r)
  <2>1. PICK hits \in Answers(db, name, filter, call[r].limit) :
          Answer(r, Shows(200, hits))
    BY <1>3 DEF query, scroll, Finds
  <2>2. hits \subseteq Selected(db, name, filter)
    BY DEF Answers
  <2>3. \A id \in hits : id \in Id /\ HoldsPoint(name, id)
    BY <1>1, <1>3, <2>2, SelectedAreHeld DEF IInv
  <2>4. \A id \in hits : Stores(id) /\ call[id].owner = call[r].owner
    BY <1>1, <2>3, FoundIsOwn
  <2>5. Shows(200, hits) \in Reply /\ Sound(r, Shows(200, hits))
    BY <1>1, <2>3, <2>4, OwnHits
  <2> QED
    BY <1>0, <1>1, <2>1, <2>5, Answering
<1> QED
  BY <1>2, <1>3 DEF query, scroll

\* A request that ends, with its answer or by a fault, keeps the invariant.
LEMMA EndStep ==
    ASSUME IInv, NEW r \in Request, respond(r) \/ Fail(r)
    PROVE  IInv'
<1>1. /\ pc[r] # "idle" /\ pc' = [pc EXCEPT ![r] = "done"]
      /\ UNCHANGED <<call, before, local, db, removed>>
  BY DEF respond, Fail, At, Reads
<1>2. PICK answer \in Reply :
        reply' = [reply EXCEPT ![r] = answer] /\ Sound(r, answer)
  <2>1. CASE respond(r)
    BY <2>1 DEF respond, Sound, IInv, TypeOK
  <2>2. CASE Fail(r)
    <3>1. reply' = [reply EXCEPT ![r] = Status(500)]
      BY <2>2 DEF Fail
    <3>2. Status(500) \in Reply /\ Sound(r, Status(500))
      BY PlainStatus
    <3> QED
      BY <3>1, <3>2
  <2> QED
    BY <2>1, <2>2
<1>3. /\ Follows(r, "done", local[r]) /\ local[r] \in Locals
      /\ local' = [local EXCEPT ![r] = local[r]] /\ "done" \in Label
  BY <1>1 DEF Follows, IInv, TypeOK, Label
<1> QED
  BY <1>1, <1>2, <1>3, MoveReading

\* Every step keeps the invariant.
LEMMA NextInv == IInv /\ [Next]_vars => IInv'
<1> SUFFICES ASSUME IInv, [Next]_vars PROVE IInv'
  OBVIOUS
<1>1. CASE UNCHANGED vars
  BY <1>1 DEF vars, IInv, TypeOK, CallsOK, UpdatesOK, WidthsOK,
     StoredForItsOwner, AnswersStayInTenancy, UniformWidth, MismatchIsOwnChoice,
     Calling, UpdateReady, HoldsPoint, PointAt, Stores, Kind, Name
<1>2. ASSUME NEW r \in Request, Receive(r) \/ Step(r) \/ Fail(r)
      PROVE  IInv'
  BY <1>2, ReceiveStep, CollectionExistsStep, CreateCollectionStep,
     CreatePayloadIndexesStep, AssertDimensionMatchesStep, OwnedPointStep,
     UpsertStep, CountSelectedStep, DeleteSelectedStep, CountLeftStep, DropStep,
     QueryStep, EndStep DEF Step
<1> QED
  BY <1>1, <1>2 DEF Next, Quiet

\* Every reachable state satisfies the invariant.
THEOREM Invariance == Spec => []IInv
BY InitInv, NextInv, PTL DEF Spec

-----------------------------------------------------------------------------
(* The properties *)

\* Every variable always has its type.
THEOREM TypeCorrect == Spec => []TypeOK
<1>1. IInv => TypeOK
  BY DEF IInv
<1> QED
  BY <1>1, Invariance, PTL

\* A stored point is always its owner's: stored by that owner, in the collection
\* the owner named, under the owner's name.
THEOREM Tenancy == Spec => []StoredForItsOwner
<1>1. IInv => StoredForItsOwner
  BY DEF IInv
<1> QED
  BY <1>1, Invariance, PTL

\* No answer shows a point of another owner.
THEOREM Confidentiality == Spec => []AnswersStayInTenancy
<1>1. IInv => AnswersStayInTenancy
  BY DEF IInv
<1> QED
  BY <1>1, Invariance, PTL

\* A 409 reflects an earlier choice of the same owner.
THEOREM Mismatch == Spec => []MismatchIsOwnChoice
<1>1. IInv => MismatchIsOwnChoice
  BY DEF IInv
<1> QED
  BY <1>1, Invariance, PTL

\* A collection never holds vectors of two widths.
THEOREM Width == Spec => []UniformWidth
<1>1. IInv => UniformWidth
  BY DEF IInv
<1> QED
  BY <1>1, Invariance, PTL

-----------------------------------------------------------------------------
(* What every step keeps of the requests alone *)

\* What a request that makes further calls brings to its next label.
Carries(r, label, here) ==
    label \notin {"respond", "done"} =>
        /\ IndexedAt(label, here.indexed)
        /\ Slug[call[r].collection] # None
        /\ label \in Path[call[r].kind]
        /\ (label \in {"get_collection", "upsert"} /\ call[r].kind = "update") =>
                /\ here.point # None
                /\ label = "get_collection" => call[r].dim # None

\* The request moves to a label, and nothing else changes of the requests.
MovesTo(r, label, here, answer) ==
    /\ pc[r] # "idle" /\ label # "idle" /\ Carries(r, label, here)
    /\ pc' = [pc EXCEPT ![r] = label] /\ local' = [local EXCEPT ![r] = here]
    /\ reply' = [reply EXCEPT ![r] = answer] /\ UNCHANGED <<call, before>>

MovesOn(r) ==
    \E label \in Label, here \in Locals, answer \in Reply :
        MovesTo(r, label, here, answer)

\* A request that moves to a label keeps what Base says.
LEMMA MovingOn ==
    ASSUME Base, NEW r \in Request, MovesOn(r),
           removed' \in [Request -> SUBSET Id],
           db' \in [PhysicalName -> StoredCollection \union {Absent}]
    PROVE  Base'
<1>1. PICK label \in Label, here \in Locals, answer \in Reply :
        MovesTo(r, label, here, answer)
  BY DEF MovesOn
<1>2. TypeOK'
  BY <1>1 DEF MovesTo, Base, TypeOK
<1>3. CallsOK'
  BY <1>1 DEF MovesTo, Base, TypeOK, CallsOK, Calling, Carries, IndexedAt
<1>4. UpdatesHold'
  <2> SUFFICES ASSUME NEW q \in Request, call[q].kind = "update",
                      pc'[q] \in {"get_collection", "upsert"}
               PROVE  /\ local'[q].point # None
                      /\ pc'[q] = "get_collection" => call[q].dim # None
    BY <1>1 DEF UpdatesHold, MovesTo
  <2>1. CASE q = r
    BY <1>1, <2>1 DEF MovesTo, Carries, Base, TypeOK
  <2>2. CASE q # r
    BY <1>1, <2>2 DEF MovesTo, UpdatesHold, Base, TypeOK
  <2> QED
    BY <2>1, <2>2
<1> QED
  BY <1>2, <1>3, <1>4 DEF Base

\* A request that answers moves on, whatever it has just read.
LEMMA AnswersOn ==
    ASSUME Base, NEW r \in Request, pc[r] # "idle", NEW here \in Locals,
           NEW answer \in Reply, Answer(r, answer),
           local' = [local EXCEPT ![r] = here], UNCHANGED <<call, before>>
    PROVE  MovesOn(r)
<1>1. MovesTo(r, "respond", here, answer) /\ "respond" \in Label
  BY DEF MovesTo, Carries, Answer, Label
<1> QED
  BY <1>1 DEF MovesOn

\* ... and so does one that makes another call.
LEMMA GoesOn ==
    ASSUME Base, NEW r \in Request, pc[r] # "idle", NEW label \in Label,
           label # "idle", NEW here \in Locals, Goto(r, label),
           local' = [local EXCEPT ![r] = here], UNCHANGED <<call, before>>,
           Carries(r, label, here)
    PROVE  MovesOn(r)
<1>1. reply[r] \in Reply /\ reply' = [reply EXCEPT ![r] = reply[r]]
  BY DEF Base, TypeOK, Goto
<1>2. MovesTo(r, label, here, reply[r])
  BY <1>1 DEF MovesTo, Goto
<1> QED
  BY <1>1, <1>2 DEF MovesOn

\* Both for a request that keeps what it holds.
LEMMA KeepsOn ==
    ASSUME Base, NEW r \in Request, pc[r] # "idle", UNCHANGED <<call, before, local>>,
           \/ \E answer \in Reply : Answer(r, answer)
           \/ \E label \in Label \ {"idle"} :
                Goto(r, label) /\ Carries(r, label, local[r])
    PROVE  MovesOn(r)
<1>1. local[r] \in Locals /\ local' = [local EXCEPT ![r] = local[r]]
  BY DEF Base, TypeOK
<1> QED
  BY <1>1, AnswersOn, GoesOn

\* The answers that carry no points.
LEMMA AnswerTypes ==
    /\ \A code \in {404, 409, 422, 500} : Status(code) \in Reply
    /\ \A n \in Nat, dropped \in BOOLEAN : Deleted(n, dropped) \in Reply
    /\ \A code \in {200, 201}, ids \in SUBSET Id : Shows(code, ids) \in Reply
BY DEF Status, Shows, Deleted, Reply

\* What a deletion answers with, when it deleted one point or n.
LEMMA DeletedTypes ==
    /\ Status(500) \in Reply /\ Deleted(1, FALSE) \in Reply
    /\ \A n \in Nat : Deleted(n, FALSE) \in Reply /\ Deleted(n, TRUE) \in Reply
<1>1. \A n \in Nat, dropped \in BOOLEAN : Deleted(n, dropped) \in Reply
  BY AnswerTypes
<1>2. Status(500) \in Reply
  BY AnswerTypes
<1> QED
  BY <1>1, <1>2

\* A collection holds finitely many points.
LEMMA CountType ==
    ASSUME TypeOK, NEW name \in PhysicalName, Present(db, name), NEW filter
    PROVE  count(db, name, filter) \in Nat
<1>1. Selected(db, name, filter) \subseteq Request
  BY SelectedAreHeld DEF Id
<1>2. IsFiniteSet(Selected(db, name, filter))
  BY <1>1, FS_Subset, RepositoryAssumption
<1> QED
  BY <1>2, FS_CardinalityType DEF count

\* Every step of a request that has arrived moves it on, the calls that store ...
LEMMA StoreMovesOn ==
    ASSUME Base, NEW r \in Request,
           \/ collection_exists(r) \/ create_collection_call(r)
           \/ create_payload_indexes(r) \/ assert_dimension_matches(r)
           \/ upsert_call(r)
    PROVE  MovesOn(r)
<1>1. Calling(r)
  BY DEF collection_exists, create_collection_call, create_payload_indexes,
     assert_dimension_matches, upsert_call, At, Calling
<1>2. /\ call[r] \in Call /\ Slug[call[r].collection] # None /\ pc[r] # "idle"
      /\ pc[r] \in Path[call[r].kind] /\ call[r].kind \in DOMAIN Path
      /\ IndexedAt(pc[r], local[r].indexed) /\ local[r] \in Locals
  BY <1>1, AtCall, CallFacts
<1>3. CASE collection_exists(r)
  <2> DEFINE next == FirstCall[call[r].kind]
  <2>1. pc[r] = "collection_exists" /\ UNCHANGED <<call, before, local>>
    BY <1>3 DEF collection_exists, At
  <2>2. next \in Label \ {"idle"} /\ Carries(r, next, local[r])
    BY <1>2, <2>1 DEF FirstCall, Path, Label, Carries, IndexedAt
  <2>3. call[r].kind = "create" => Carries(r, "create_collection", local[r])
    BY <1>2, <2>1 DEF Path, Carries, IndexedAt
  <2>4. \/ Goto(r, next) \/ Answer(r, Status(404))
        \/ call[r].kind = "create" /\ Goto(r, "create_collection")
    BY <1>3 DEF collection_exists
  <2>5. "create_collection" \in Label \ {"idle"}
    BY DEF Label
  <2> HIDE DEF next
  <2> QED
    BY <1>2, <2>1, <2>2, <2>3, <2>4, <2>5, AnswerTypes, KeepsOn
<1>4. CASE create_collection_call(r)
  <2> DEFINE next == IF IndexFields = <<>> THEN "get_collection"
                     ELSE "create_payload_index"
  <2>1. pc[r] = "create_collection" /\ UNCHANGED <<call, before, local>>
    BY <1>4 DEF create_collection_call, At
  <2>2. call[r].kind = "create"
    BY <1>2, <2>1 DEF Path
  <2>3. next \in Label \ {"idle"} /\ Carries(r, next, local[r])
    BY <1>2, <2>1, <2>2, RepositoryAssumption DEF Path, Label, Carries, IndexedAt
  <2>4. Goto(r, next) \/ Answer(r, Status(500))
    BY <1>4 DEF create_collection_call, Raise
  <2> HIDE DEF next
  <2> QED
    BY <1>2, <2>1, <2>3, <2>4, AnswerTypes, KeepsOn
<1>5. CASE create_payload_indexes(r)
  <2> DEFINE i == local[r].indexed + 1
             next == IF i = Len(IndexFields) THEN "get_collection"
                     ELSE "create_payload_index"
             here == Indexed(i)
  <2>1. /\ pc[r] = "create_payload_index" /\ UNCHANGED <<call, before>>
        /\ local' = [local EXCEPT ![r] = here] /\ Goto(r, next)
    BY <1>5 DEF create_payload_indexes, At
  <2>2. here \in Locals /\ i \in 1 .. Len(IndexFields)
    BY <1>2, <2>1, RepositoryAssumption DEF Locals, Indexed, IndexedAt
  <2>3. call[r].kind = "create"
    BY <1>2, <2>1 DEF Path
  <2>4. next \in Label /\ next # "idle" /\ Carries(r, next, here)
    BY <1>2, <2>2, <2>3, RepositoryAssumption
    DEF Path, Label, Carries, IndexedAt, Indexed
  <2> HIDE DEF next, here
  <2> QED
    BY <1>2, <2>1, <2>2, <2>4, GoesOn
<1>6. CASE assert_dimension_matches(r)
  <2>1. /\ pc[r] = "get_collection" /\ UNCHANGED <<call, before, local>>
        /\ \/ Answer(r, Status(500)) \/ Answer(r, Status(409)) \/ Goto(r, "upsert")
    BY <1>6 DEF assert_dimension_matches, At, Raise
  <2>2. Carries(r, "upsert", local[r]) /\ "upsert" \in Label \ {"idle"}
    BY <1>2, <2>1 DEF Carries, Path, Label, IndexedAt, Base, UpdatesHold
  <2> QED
    BY <1>2, <2>1, <2>2, AnswerTypes, KeepsOn
<1>7. CASE upsert_call(r)
  <2> DEFINE id == IF call[r].kind = "create" THEN r ELSE call[r].id
             code == IF call[r].kind = "create" THEN 201 ELSE 200
  <2>1. /\ pc[r] = "upsert" /\ UNCHANGED <<call, before, local>>
        /\ Answer(r, Status(500)) \/ Answer(r, Shows(code, {id}))
    BY <1>7 DEF upsert_call, At, Raise
  <2>2. id \in Id /\ code \in {200, 201}
    BY <2>1, WrittenType
  <2> HIDE DEF id, code
  <2> QED
    BY <1>2, <2>1, <2>2, AnswerTypes, KeepsOn
<1> QED
  BY <1>3, <1>4, <1>5, <1>6, <1>7

\* ... those that delete ...
LEMMA DeleteMovesOn ==
    ASSUME Base, NEW r \in Request,
           \/ count_selected(r) \/ delete_selected(r) \/ count_left(r) \/ drop(r)
    PROVE  MovesOn(r)
<1>1. Calling(r) /\ UNCHANGED <<call, before>>
  BY DEF count_selected, delete_selected, count_left, drop, At, Calling
<1>2. /\ call[r] \in Call /\ Slug[call[r].collection] # None /\ pc[r] # "idle"
      /\ pc[r] \in Path[call[r].kind] /\ call[r].kind \in DOMAIN Path
      /\ local[r] \in Locals /\ local[r].matched \in Nat
      /\ Name(r) \in PhysicalName
  BY <1>1, AtCall, CallFacts DEF Locals
<1>3. \A label \in {"drop", "delete", "count_left"}, here \in Locals :
        label \in Path[call[r].kind] =>
            label \in Label \ {"idle"} /\ Carries(r, label, here)
  BY <1>2 DEF Carries, Label, IndexedAt
<1>8. ASSUME UNCHANGED local, NEW answer \in Reply, Answer(r, answer)
      PROVE  MovesOn(r)
  BY <1>1, <1>2, <1>8, KeepsOn
<1>9. ASSUME UNCHANGED local, NEW label \in {"drop", "delete", "count_left"},
             label \in Path[call[r].kind], Goto(r, label)
      PROVE  MovesOn(r)
  <2>1. label \in Label \ {"idle"} /\ Carries(r, label, local[r])
    BY <1>2, <1>3, <1>9
  <2> QED
    BY <1>1, <1>2, <1>9, <2>1, KeepsOn
<1>10. /\ Status(500) \in Reply /\ Deleted(1, FALSE) \in Reply
       /\ Deleted(local[r].matched, FALSE) \in Reply
       /\ Deleted(local[r].matched, TRUE) \in Reply
  BY <1>2, DeletedTypes
<1>4. CASE count_selected(r)
  <2> DEFINE here == Counted(matching(r))
  <2>1. pc[r] = "count" /\ call[r].kind \in {"bulk_delete", "delete_collection"}
    BY <1>2, <1>4 DEF count_selected, At, Path
  <2>2. CASE ~Present(db, Name(r))
    BY <1>4, <1>8, <1>10, <2>2 DEF count_selected, Raise
  <2>3. CASE Present(db, Name(r))
    <3>1. matching(r) \in Nat
      BY <1>2, <2>3, CountType DEF matching, Base
    <3>2. here \in Locals
      BY <3>1 DEF Counted, Locals
    <3>3. local' = [local EXCEPT ![r] = here]
      BY <1>4, <2>3 DEF count_selected
    <3>4. \/ Answer(r, Deleted(0, FALSE)) \/ Goto(r, "delete")
          \/ call[r].kind = "delete_collection" /\ Goto(r, "drop")
      BY <1>4, <2>3 DEF count_selected
    <3>5. /\ "delete" \in Path[call[r].kind]
          /\ call[r].kind = "delete_collection" => "drop" \in Path[call[r].kind]
      BY <2>1 DEF Path
    <3> HIDE DEF here
    <3> QED
      <4>1. CASE Answer(r, Deleted(0, FALSE))
        <5>1. Deleted(0, FALSE) \in Reply
          BY DeletedTypes
        <5> QED
          BY <1>1, <1>2, <3>2, <3>3, <4>1, <5>1, AnswersOn
      <4>2. ASSUME NEW label \in {"delete", "drop"}, label \in Path[call[r].kind],
                   Goto(r, label)
            PROVE  MovesOn(r)
        <5>1. label \in Label \ {"idle"} /\ Carries(r, label, here)
          BY <1>3, <3>2, <4>2
        <5> QED
          BY <1>1, <1>2, <3>2, <3>3, <4>2, <5>1, GoesOn
      <4> QED
        BY <3>4, <3>5, <4>1, <4>2
  <2> QED
    BY <2>2, <2>3
<1>5. CASE delete_selected(r)
  <2>1. /\ UNCHANGED local
        /\ \/ Answer(r, Status(500)) \/ Answer(r, Deleted(1, FALSE))
           \/ Answer(r, Deleted(local[r].matched, FALSE))
           \/ call[r].kind = "bulk_delete" /\ Goto(r, "count_left")
    BY <1>5 DEF delete_selected, Raise
  <2>2. call[r].kind = "bulk_delete" => "count_left" \in Path[call[r].kind]
    BY DEF Path
  <2> QED
    BY <1>8, <1>9, <1>10, <2>1, <2>2
<1>6. CASE count_left(r)
  <2>1. /\ UNCHANGED local /\ pc[r] = "count_left"
        /\ \/ Answer(r, Status(500)) \/ Goto(r, "drop")
           \/ Answer(r, Deleted(local[r].matched, FALSE))
    BY <1>6 DEF count_left, Raise, At
  <2>2. "drop" \in Path[call[r].kind]
    BY <1>2, <2>1 DEF Path
  <2> QED
    BY <1>8, <1>9, <1>10, <2>1, <2>2
<1>7. CASE drop(r)
  BY <1>7, <1>8, <1>10 DEF drop
<1> QED
  BY <1>4, <1>5, <1>6, <1>7

\* ... and those that read or end.
LEMMA ReadMovesOn ==
    ASSUME Base, NEW r \in Request,
           owned_point(r) \/ query(r) \/ scroll(r) \/ respond(r) \/ Fail(r)
    PROVE  MovesOn(r)
<1>1. CASE owned_point(r)
  <2> DEFINE name == Name(r)
             id == call[r].id
             point == db[name].points[id]
             here == Read(point)
  <2>1. pc[r] = "retrieve" /\ Calling(r) /\ UNCHANGED <<call, before>>
    BY <1>1 DEF owned_point, At, Calling
  <2>2. /\ call[r] \in Call /\ Slug[call[r].collection] # None /\ pc[r] # "idle"
        /\ pc[r] \in Path[call[r].kind] /\ name \in PhysicalName
    BY <2>1, AtCall
  <2>3. call[r].kind \in {"get", "update", "delete"} /\ id \in Id
    BY <2>1, <2>2, CallFacts DEF Path
  <2>4. CASE ~(Present(db, name) /\ point # None /\ point.payload.user_id = User(r))
    <3>1. /\ UNCHANGED local
          /\ Answer(r, Status(500)) \/ Answer(r, Status(404))
      BY <1>1, <2>4 DEF owned_point, Raise
    <3> QED
      BY <2>1, <2>2, <3>1, AnswerTypes, KeepsOn
  <2>5. CASE Present(db, name) /\ point # None /\ point.payload.user_id = User(r)
    <3>1. point \in Point
      BY <2>2, <2>3, <2>5 DEF Base, TypeOK, Present, StoredCollection
    <3>2. here \in Locals /\ here.indexed = 0 /\ here.point # None
      BY <2>5, <3>1 DEF Locals, Read
    <3>3. local' = [local EXCEPT ![r] = here]
      BY <1>1, <2>5 DEF owned_point
    <3>4. \/ Answer(r, Shows(200, {id}))
          \/ call[r].kind = "delete" /\ Goto(r, "delete")
          \/ /\ call[r].kind = "update"
             /\ Goto(r, IF call[r].dim = None THEN "upsert" ELSE "get_collection")
      BY <1>1, <2>5 DEF owned_point
    <3>5. \A label \in {"delete", "upsert", "get_collection"} :
            /\ label \in Path[call[r].kind]
            /\ label = "get_collection" => call[r].dim # None
            => label \in Label /\ label # "idle" /\ Carries(r, label, here)
      BY <2>2, <3>2 DEF Carries, Label, IndexedAt
    <3>6. CASE Answer(r, Shows(200, {id}))
      <4>1. Shows(200, {id}) \in Reply
        BY <2>3, AnswerTypes
      <4> HIDE DEF here, id
      <4> QED
        BY <2>1, <2>2, <3>2, <3>3, <3>6, <4>1, AnswersOn
    <3>7. CASE call[r].kind = "delete" /\ Goto(r, "delete")
      <4>1. "delete" \in Path[call[r].kind]
        BY <3>7 DEF Path
      <4> HIDE DEF here
      <4> QED
        BY <2>1, <2>2, <3>2, <3>3, <3>5, <3>7, <4>1, GoesOn
    <3>8. CASE /\ call[r].kind = "update"
               /\ Goto(r, IF call[r].dim = None THEN "upsert" ELSE "get_collection")
      <4>1. {"upsert", "get_collection"} \subseteq Path[call[r].kind]
        BY <3>8 DEF Path
      <4> HIDE DEF here
      <4> QED
        BY <2>1, <2>2, <3>2, <3>3, <3>5, <3>8, <4>1, GoesOn
    <3> QED
      BY <3>4, <3>6, <3>7, <3>8
  <2> QED
    BY <2>4, <2>5
<1>2. CASE query(r) \/ scroll(r)
  <2>1. Calling(r) /\ UNCHANGED <<call, before, local>>
    BY <1>2 DEF query, scroll, At, Calling
  <2>2. pc[r] # "idle" /\ Name(r) \in PhysicalName
    BY <2>1, AtCall
  <2>3. Raise(r) \/ (Present(db, Name(r)) /\ Finds(r))
    BY <1>2 DEF query, scroll
  <2>4. ASSUME Present(db, Name(r)), Finds(r)
        PROVE  \E answer \in Reply : Answer(r, answer)
    <3>1. PICK hits : /\ hits \subseteq Stored(db, Name(r))
                      /\ Answer(r, Shows(200, hits))
      BY <2>4 DEF Finds, Answers, Selected
    <3>2. hits \in SUBSET Id
      BY <2>2, <2>4, <3>1, SelectedAreHeld DEF Base
    <3> QED
      BY <3>1, <3>2, AnswerTypes
  <2> QED
    BY <2>1, <2>2, <2>3, <2>4, AnswerTypes, KeepsOn DEF Raise
<1>3. CASE respond(r) \/ Fail(r)
  <2>1. /\ pc[r] # "idle" /\ pc' = [pc EXCEPT ![r] = "done"]
        /\ UNCHANGED <<call, before, local>>
        /\ reply' = reply \/ reply' = [reply EXCEPT ![r] = Status(500)]
    BY <1>3 DEF respond, Fail, At, Reads
  <2>2. PICK answer \in Reply : reply' = [reply EXCEPT ![r] = answer]
    BY <2>1, AnswerTypes DEF Base, TypeOK
  <2>3. /\ local[r] \in Locals /\ local' = [local EXCEPT ![r] = local[r]]
        /\ "done" \in Label
    BY <2>1 DEF Base, TypeOK, Label
  <2>4. MovesTo(r, "done", local[r], answer)
    BY <2>1, <2>2, <2>3 DEF MovesTo, Carries
  <2> QED
    BY <2>2, <2>3, <2>4 DEF MovesOn
<1> QED
  BY <1>1, <1>2, <1>3

\* Every step leaves the database and the history of removals well typed.
LEMMA StepTypes ==
    ASSUME Base, NEW r \in Request, Step(r) \/ Fail(r)
    PROVE  /\ db' \in [PhysicalName -> StoredCollection \union {Absent}]
           /\ removed' \in [Request -> SUBSET Id]
<1> USE DEF Base, TypeOK
<1>1. CASE create_collection_call(r)
  <2> DEFINE new == stored_collection(call[r].dim, {}, [id \in Id |-> None])
  <2>1. Calling(r) /\ pc[r] = "create_collection"
    BY <1>1 DEF create_collection_call, At, Calling
  <2>2. call[r].dim \in Dim
    BY <2>1, AtCall, CallFacts DEF Path
  <2>3. new \in StoredCollection
    BY <2>2 DEF StoredCollection, stored_collection
  <2>4. removed' = removed /\ (db' = db \/ db' = [db EXCEPT ![Name(r)] = new])
    BY <1>1 DEF create_collection_call, create_collection
  <2> HIDE DEF new
  <2> QED
    BY <2>3, <2>4
<1>2. CASE create_payload_indexes(r)
  BY <1>2, IndexEffect DEF create_payload_indexes
<1>3. CASE upsert_call(r)
  <2> DEFINE id == IF call[r].kind = "create" THEN r ELSE call[r].id
             point == IF call[r].kind = "create" THEN new_point(r)
                      ELSE updated_point(r)
  <2>1. pc[r] = "upsert" /\ Calling(r) /\ removed' = removed
    BY <1>3 DEF upsert_call, At, Calling
  <2>2. \/ db' = db
        \/ Present(db, Name(r)) /\ db' = upsert(db, Name(r), id, point)
    BY <1>3 DEF upsert_call
  <2>3. id \in Id /\ point \in Point /\ Name(r) \in PhysicalName
    BY <2>1, WrittenType, AtCall
  <2> HIDE DEF id, point
  <2> QED
    BY <2>1, <2>2, <2>3, UpsertEffect
<1>4. CASE delete_selected(r)
  <2>1. Calling(r)
    BY <1>4 DEF delete_selected, At, Calling
  <2>2. Name(r) \in PhysicalName
    BY <2>1, AtCall
  <2>3. \/ db' = db /\ removed' = removed
        \/ /\ Present(db, Name(r)) /\ db' = delete(db, Name(r), selector(r))
           /\ removed' = [removed EXCEPT ![r] = Selected(db, Name(r), selector(r))]
    BY <1>4 DEF delete_selected
  <2>4. Present(db, Name(r)) => Selected(db, Name(r), selector(r)) \in SUBSET Id
    BY <2>2, SelectedAreHeld
  <2> QED
    BY <2>2, <2>3, <2>4, DeleteShrinks
<1>5. CASE drop(r)
  <2> DEFINE gone == IF Present(db, Name(r)) THEN Stored(db, Name(r)) ELSE {}
  <2>1. Calling(r)
    BY <1>5 DEF drop, At, Calling
  <2>2. Name(r) \in PhysicalName
    BY <2>1, AtCall
  <2>3. gone \in SUBSET Id
    BY <2>2, SelectedAreHeld
  <2>4. /\ db' = [db EXCEPT ![Name(r)] = Absent]
        /\ removed' = [removed EXCEPT ![r] = @ \union gone]
    BY <1>5 DEF drop, delete_collection
  <2> HIDE DEF gone
  <2> QED
    BY <2>3, <2>4
<1>6. CASE \/ collection_exists(r) \/ assert_dimension_matches(r) \/ owned_point(r)
           \/ count_selected(r) \/ count_left(r) \/ query(r) \/ scroll(r)
           \/ respond(r) \/ Fail(r)
  <2>1. UNCHANGED <<db, removed>>
    BY <1>6, Zenon DEF collection_exists, assert_dimension_matches, owned_point,
       count_selected, count_left, query, scroll, respond, Fail, Reads
  <2> QED
    BY <2>1
<1> QED
  BY <1>1, <1>2, <1>3, <1>4, <1>5, <1>6 DEF Step

\* An arriving request keeps what Base says.
LEMMA BaseArrives ==
    ASSUME Base, NEW r \in Request, Receive(r)
    PROVE  Base'
<1> USE DEF Base
<1>1. PICK c \in Workload[r] :
        /\ call' = [call EXCEPT ![r] = c]
        /\ IF Slug[c.collection] = None THEN Answer(r, Status(422))
                                        ELSE Goto(r, "collection_exists")
  BY DEF Receive
<1>2. c \in Call
  BY RepositoryAssumption
<1>3. pc[r] = "idle" /\ UNCHANGED <<db, local, removed>>
  BY DEF Receive
<1>4. /\ pc' \in [Request -> Label] /\ reply' \in [Request -> Reply]
      /\ pc'[r] \in {"collection_exists", "respond"} /\ call'[r] = c
      /\ Slug[c.collection] = None => pc'[r] = "respond"
      /\ \A q \in Request \ {r} : /\ pc'[q] = pc[q] /\ reply'[q] = reply[q]
                                  /\ call'[q] = call[q]
  BY <1>1, <1>3, AnswerTypes DEF Answer, Goto, TypeOK, Label
<1>5. TypeOK'
  <2>1. call' \in [Request -> Call \union {None}]
    BY <1>1, <1>2 DEF TypeOK
  <2>2. before' \in [Request -> SUBSET Request]
    BY DEF TypeOK, Receive
  <2> QED
    BY <1>3, <1>4, <2>1, <2>2 DEF TypeOK
<1>6. CallsOK'
  <2>1. "collection_exists" \in Path[c.kind]
    BY <1>2, CallFacts DEF Path
  <2> QED
    BY <1>2, <1>3, <1>4, <2>1 DEF CallsOK, Calling, IndexedAt
<1>7. UpdatesHold'
  BY <1>3, <1>4 DEF UpdatesHold
<1> QED
  BY <1>5, <1>6, <1>7

\* Every step keeps what Base says, whoever else writes points between the
\* steps.
LEMMA BaseStep ==
    ASSUME Base, NEW r \in Request, Receive(r) \/ Step(r) \/ Fail(r)
    PROVE  Base'
<1>1. CASE Receive(r)
  BY <1>1, BaseArrives
<1>2. CASE Step(r) \/ Fail(r)
  <2>1. MovesOn(r)
    BY <1>2, StoreMovesOn, DeleteMovesOn, ReadMovesOn DEF Step
  <2> QED
    BY <1>2, <2>1, StepTypes, MovingOn
<1> QED
  BY <1>1, <1>2

-----------------------------------------------------------------------------
(* One request moves at a time *)

\* The step is q's: nobody else's variables change, and once it has arrived q
\* keeps its arguments.
MoveOf(q) ==
    /\ pc[q] # "done" /\ pc'[q] # "idle"
    /\ \A p \in Request \ {q} :
        /\ pc'[p] = pc[p] /\ call'[p] = call[p] /\ local'[p] = local[p]
        /\ reply'[p] = reply[p] /\ before'[p] = before[p]
        /\ removed'[p] = removed[p]
    /\ pc[q] # "idle" => call'[q] = call[q] /\ before'[q] = before[q]

\* A step of the next-state relation is a step of one request.
LEMMA MovesAlone ==
    ASSUME Base, NEW q \in Request, Receive(q) \/ Step(q) \/ Fail(q)
    PROVE  MoveOf(q)
<1> USE DEF Base, TypeOK, MoveOf
<1>1. CASE Receive(q)
  BY <1>1 DEF Receive, Answer, Goto
<1>2. CASE Fail(q)
  BY <1>2 DEF Fail
<1>3. CASE collection_exists(q)
  <2>1. Calling(q)
    BY <1>3 DEF collection_exists, At, Calling
  <2>2. FirstCall[call[q].kind] # "idle"
    BY <2>1, AtCall, CallFacts DEF FirstCall, Path
  <2> QED
    BY <1>3, <2>2 DEF collection_exists, At, Reads, Goto, Answer
<1>8. CASE assert_dimension_matches(q)
  BY <1>8 DEF assert_dimension_matches, At, Reads, Goto, Answer, Raise
<1>12. CASE owned_point(q)
  BY <1>12 DEF owned_point, At, Reads, Goto, Answer, Raise
<1>9. CASE count_selected(q)
  <2>1. pc[q] = "count" /\ UNCHANGED <<call, before, removed>>
    BY <1>9 DEF count_selected, At, Reads
  <2>2. \A p \in Request \ {q} : local'[p] = local[p]
    BY <1>9 DEF count_selected
  <2>3. (\E answer : Answer(q, answer)) \/ Goto(q, "drop") \/ Goto(q, "delete")
    BY <1>9 DEF count_selected, Raise
  <2>4. /\ pc'[q] # "idle"
        /\ \A p \in Request \ {q} : pc'[p] = pc[p] /\ reply'[p] = reply[p]
    BY <2>3 DEF Answer, Goto
  <2> QED
    BY <2>1, <2>2, <2>4
<1>13. CASE respond(q)
  BY <1>13 DEF respond, At, Reads
<1>4. CASE create_collection_call(q) \/ create_payload_indexes(q)
  BY <1>4 DEF create_collection_call, create_payload_indexes, At, Goto, Answer, Raise
<1>5. CASE upsert_call(q)
  BY <1>5 DEF upsert_call, At, Answer, Raise
<1>6. CASE delete_selected(q)
  <2>1. pc[q] = "delete" /\ UNCHANGED <<call, before, local>>
    BY <1>6 DEF delete_selected, At
  <2>2. \A p \in Request \ {q} : removed'[p] = removed[p]
    BY <1>6 DEF delete_selected
  <2>3. /\ pc'[q] # "idle"
        /\ \A p \in Request \ {q} : pc'[p] = pc[p] /\ reply'[p] = reply[p]
    <3>1. \/ \E answer : Answer(q, answer)
          \/ Goto(q, "count_left")
      BY <1>6 DEF delete_selected, Raise
    <3> QED
      BY <3>1 DEF Answer, Goto
  <2> QED
    BY <2>1, <2>2, <2>3
<1>10. CASE drop(q)
  BY <1>10 DEF drop, At, Answer
<1>11. CASE count_left(q)
  <2>1. pc[q] = "count_left" /\ UNCHANGED <<call, before, removed, local>>
    BY <1>11 DEF count_left, At, Reads
  <2>2. (\E answer : Answer(q, answer)) \/ Goto(q, "drop")
    BY <1>11 DEF count_left, Raise
  <2>3. /\ pc'[q] # "idle"
        /\ \A p \in Request \ {q} : pc'[p] = pc[p] /\ reply'[p] = reply[p]
    BY <2>2 DEF Answer, Goto
  <2> QED
    BY <2>1, <2>3
<1>7. CASE query(q) \/ scroll(q)
  BY <1>7 DEF query, scroll, Finds, At, Reads, Answer, Raise
<1> QED
  BY <1>1, <1>2, <1>3, <1>4, <1>5, <1>6, <1>7, <1>8, <1>9, <1>10,
     <1>11, <1>12, <1>13 DEF Step

\* The same under the whole invariant.
LEMMA OneMoves ==
    ASSUME IInv, NEW q \in Request, Receive(q) \/ Step(q) \/ Fail(q)
    PROVE  MoveOf(q)
BY BaseHolds, MovesAlone

\* Only a request that is being served takes a step of the service.
LEMMA StepServes ==
    ASSUME NEW q \in Request, Step(q) \/ Fail(q)
    PROVE  pc[q] \notin {"idle", "done"}
BY DEF Step, Fail, collection_exists, create_collection_call,
   create_payload_indexes, assert_dimension_matches, owned_point, upsert_call,
   count_selected, delete_selected, count_left, drop, query, scroll, respond, At

\* A request that has arrived stays what it is.
LEMMA ArrivedStays ==
    ASSUME NEW q \in Request, MoveOf(q), NEW p \in Request, pc[p] # "idle"
    PROVE  /\ pc'[p] # "idle" /\ call'[p] = call[p] /\ before'[p] = before[p]
           /\ Name(p)' = Name(p) /\ Kind(p)' = Kind(p) /\ User(p)' = User(p)
           /\ selector(p)' = selector(p)
<1>1. pc'[p] # "idle" /\ call'[p] = call[p] /\ before'[p] = before[p]
  BY DEF MoveOf
<1>2. Name(p)' = Name(p) /\ Kind(p)' = Kind(p) /\ User(p)' = User(p)
  BY <1>1 DEF Name, Kind, User
<1>3. selector(p)' = selector(p)
  BY <1>1, <1>2 DEF selector
<1> QED
  BY <1>1, <1>2, <1>3

-----------------------------------------------------------------------------
(* What a step does to a collection *)

Writers == {"create", "update", "delete", "bulk_delete", "delete_collection"}

\* A step that changes a collection is the call of a writer that addresses it.
LEMMA OwnCollection ==
    ASSUME Base, NEW q \in Request, Receive(q) \/ Step(q) \/ Fail(q),
           NEW n \in PhysicalName, db'[n] # db[n]
    PROVE  /\ Calling(q) /\ n = Name(q) /\ Kind(q) \in Writers
           /\ \/ create_collection_call(q) \/ create_payload_indexes(q)
              \/ upsert_call(q) \/ delete_selected(q) \/ drop(q)
<1>1. \/ create_collection_call(q) \/ create_payload_indexes(q)
      \/ upsert_call(q) \/ delete_selected(q) \/ drop(q)
  BY DEF Receive, Step, Fail, collection_exists, assert_dimension_matches,
     owned_point, count_selected, count_left, query, scroll, respond, Reads
<1>2. /\ Calling(q)
      /\ pc[q] \in {"create_collection", "create_payload_index", "upsert",
                    "delete", "drop"}
  BY <1>1 DEF create_collection_call, create_payload_indexes, upsert_call,
     delete_selected, drop, At, Calling
<1>3. n = Name(q)
  BY <1>1 DEF create_collection_call, create_payload_indexes, upsert_call,
     delete_selected, drop, create_collection, create_payload_index, upsert,
     delete, delete_collection, Base, TypeOK
<1>4. Kind(q) \in Writers
  BY <1>2, AtCall, CallFacts DEF Path, Writers, Kind
<1> QED
  BY <1>1, <1>2, <1>3, <1>4

\* A collection is there, with its width, until a request that creates or drops
\* collections comes along.
LEMMA ShapeChanges ==
    ASSUME IInv, NEW q \in Request, Receive(q) \/ Step(q) \/ Fail(q),
           NEW n \in PhysicalName,
           \/ Present(db, n) # Present(db', n)
           \/ Present(db, n) /\ db'[n].dim # db[n].dim
    PROVE  /\ Calling(q) /\ n = Name(q)
           /\ Kind(q) \in {"create", "bulk_delete", "delete_collection"}
<1>1. /\ Calling(q) /\ n = Name(q)
      /\ \/ create_collection_call(q) \/ create_payload_indexes(q)
         \/ upsert_call(q) \/ delete_selected(q) \/ drop(q)
  BY BaseHolds, OwnCollection DEF Present
<1>2. CASE create_collection_call(q)
  <2>1. pc[q] = "create_collection"
    BY <1>2 DEF create_collection_call, At
  <2> QED
    BY <1>1, <2>1, AtLabel, CallFacts DEF Path, Kind
<1>3. CASE create_payload_indexes(q)
  BY <1>3, BaseHolds, IndexEffect DEF Present
<1>4. CASE upsert_call(q)
  <2>1. pc[q] = "upsert" /\ db' # db
    BY <1>4 DEF upsert_call, At, Present
  <2> DEFINE id == IF call[q].kind = "create" THEN q ELSE call[q].id
             point == IF call[q].kind = "create" THEN new_point(q)
                      ELSE updated_point(q)
  <2>2. Present(db, Name(q)) /\ db' = upsert(db, Name(q), id, point)
    BY <1>4, <2>1 DEF upsert_call
  <2>3. id \in Id /\ point \in Point
    BY <2>1, WrittenPoint
  <2> HIDE DEF id, point
  <2> QED
    BY <1>1, <2>2, <2>3, UpsertEffect DEF IInv, Present
<1>5. CASE delete_selected(q)
  <2>1. Present(db, Name(q)) /\ db' = delete(db, Name(q), selector(q))
    BY <1>1, <1>5 DEF delete_selected, Present
  <2> QED
    BY <1>1, <2>1, DeleteShrinks DEF IInv, Present
<1>6. CASE drop(q)
  <2>1. pc[q] = "drop"
    BY <1>6 DEF drop, At
  <2> QED
    BY <1>1, <2>1, AtLabel, CallFacts DEF Path, Kind
<1> QED
  BY <1>1, <1>2, <1>3, <1>4, <1>5, <1>6

\* Whatever is stored in a request's own collection is its owner's, so the
\* owner's condition selects all of it.
LEMMA OwnSelected ==
    ASSUME IInv, NEW r \in Request, Calling(r), Present(db, Name(r))
    PROVE  /\ \A id \in Stored(db, Name(r)) :
                db[Name(r)].points[id].payload.user_id = User(r)
           /\ Selected(db, Name(r), owned_by(User(r))) = Stored(db, Name(r))
           /\ \A ids : Selected(db, Name(r), scoped_ids(User(r), ids)) =
                            Stored(db, Name(r)) \intersect ids
<1>1. Name(r) \in PhysicalName
  BY AtLabel
<1>2. ASSUME NEW id \in Stored(db, Name(r))
      PROVE  db[Name(r)].points[id].payload.user_id = User(r)
  <2>1. id \in Id /\ HoldsPoint(Name(r), id)
    BY <1>1, <1>2, SelectedAreHeld DEF IInv
  <2>2. call[id].owner = call[r].owner
    BY <2>1, FoundIsOwn
  <2> QED
    BY <1>1, <2>1, <2>2 DEF IInv, StoredForItsOwner, User
<1>3. Selected(db, Name(r), owned_by(User(r))) = Stored(db, Name(r))
  BY <1>2, Matching DEF Selected
<1>4. ASSUME NEW ids
      PROVE  Selected(db, Name(r), scoped_ids(User(r), ids)) =
                Stored(db, Name(r)) \intersect ids
  BY <1>2, Matching DEF Selected
<1> QED
  BY <1>2, <1>3, <1>4

-----------------------------------------------------------------------------
(* What a step does to a point *)

\* The request writes the point: it is its store, or an update of it.
WritesPoint(q, id) ==
    /\ pc[q] = "upsert"
    /\ \/ Kind(q) = "create" /\ id = q
       \/ Kind(q) = "update" /\ id = call[q].id

\* A point appears in a collection only by an upsert of that point, and leaves
\* it only by a request that then counts it among those it removed.
LEMMA PointChanges ==
    ASSUME Base, NEW q \in Request, Receive(q) \/ Step(q) \/ Fail(q),
           NEW n \in PhysicalName, NEW id \in Id
    PROVE  /\ ~HoldsPoint(n, id) /\ PointAt(db', n, id) # None =>
                n = Name(q) /\ WritesPoint(q, id)
           /\ HoldsPoint(n, id) /\ PointAt(db', n, id) = None =>
                n = Name(q) /\ id \in removed'[q]
<1> USE DEF HoldsPoint, PointAt
<1> SUFFICES ASSUME PointAt(db, n, id) # PointAt(db', n, id)
             PROVE  /\ ~HoldsPoint(n, id) /\ PointAt(db', n, id) # None =>
                        n = Name(q) /\ WritesPoint(q, id)
                    /\ HoldsPoint(n, id) /\ PointAt(db', n, id) = None =>
                        n = Name(q) /\ id \in removed'[q]
  OBVIOUS
<1>1. /\ Calling(q) /\ n = Name(q) /\ Kind(q) \in Writers
      /\ \/ create_collection_call(q) \/ create_payload_indexes(q)
         \/ upsert_call(q) \/ delete_selected(q) \/ drop(q)
  BY OwnCollection
<1>2. CASE create_collection_call(q) /\ ~Present(db, n)
  <2> DEFINE new == stored_collection(call[q].dim, {}, [i \in Id |-> None])
  <2>1. db' = [db EXCEPT ![n] = new]
    BY <1>1, <1>2 DEF create_collection_call, create_collection
  <2>2. new.points = [i \in Id |-> None]
    BY DEF stored_collection
  <2> HIDE DEF new
  <2> QED
    BY <1>2, <2>1, <2>2 DEF Present, Base, TypeOK
<1>3. CASE create_collection_call(q) /\ Present(db, n)
  BY <1>1, <1>3 DEF create_collection_call
<1>4. CASE create_payload_indexes(q)
  BY <1>4, IndexEffect
<1>5. CASE upsert_call(q)
  <2> DEFINE i == IF call[q].kind = "create" THEN q ELSE call[q].id
             point == IF call[q].kind = "create" THEN new_point(q)
                      ELSE updated_point(q)
  <2>1. pc[q] = "upsert" /\ Kind(q) \in {"create", "update"}
    <3>1. pc[q] = "upsert"
      BY <1>5 DEF upsert_call, At
    <3> QED
      BY <1>1, <3>1, AtCall, CallFacts DEF Path, Kind
  <2>2. Present(db, Name(q)) /\ db' = upsert(db, Name(q), i, point)
    BY <1>5 DEF upsert_call
  <2>3. i \in Id /\ point \in Point /\ point # None
    BY <2>1, WrittenType, RepositoryAssumption
  <2>4. i = id => WritesPoint(q, id)
    BY <2>1 DEF WritesPoint, Kind
  <2> HIDE DEF i, point
  <2> QED
    BY <1>1, <2>2, <2>3, <2>4, UpsertEffect DEF Base
<1>6. CASE delete_selected(q)
  <2>1. /\ Present(db, n) /\ db' = delete(db, n, selector(q))
        /\ removed' = [removed EXCEPT ![q] = Selected(db, n, selector(q))]
    BY <1>1, <1>6 DEF delete_selected
  <2>2. removed'[q] = Selected(db, n, selector(q))
    BY <2>1 DEF Base, TypeOK
  <2> QED
    BY <1>1, <2>1, <2>2, DeleteShrinks DEF Base, Present
<1>7. CASE drop(q)
  <2>1. /\ db' = [db EXCEPT ![n] = Absent]
        /\ removed'[q] = removed[q] \union
                IF Present(db, n) THEN Stored(db, n) ELSE {}
    BY <1>1, <1>7 DEF drop, delete_collection, Base, TypeOK
  <2>2. HoldsPoint(n, id) => Present(db, n) /\ id \in Stored(db, n)
    BY DEF Present, Stored, Base, TypeOK, StoredCollection
  <2> QED
    BY <1>1, <2>1, <2>2 DEF Base, TypeOK
<1> QED
  BY <1>1, <1>2, <1>3, <1>4, <1>5, <1>6, <1>7

\* A point is where it was, or gone, or of the user of the request that wrote
\* it and dated by that request.
LEMMA PointSource ==
    ASSUME Base, NEW q \in Request, Receive(q) \/ Step(q) \/ Fail(q),
           NEW n \in PhysicalName, NEW id \in Id
    PROVE  \/ PointAt(db', n, id) \in {None, PointAt(db, n, id)}
           \/ /\ n = Name(q) /\ WritesPoint(q, id)
              /\ PointAt(db', n, id).payload.user_id = User(q)
              /\ PointAt(db', n, id).payload.updated_at = q
<1> SUFFICES ASSUME PointAt(db', n, id) # None,
                    PointAt(db, n, id) # PointAt(db', n, id)
             PROVE  /\ n = Name(q) /\ WritesPoint(q, id)
                    /\ PointAt(db', n, id).payload.user_id = User(q)
                    /\ PointAt(db', n, id).payload.updated_at = q
  OBVIOUS
<1> USE DEF PointAt
<1>1. /\ Calling(q) /\ n = Name(q) /\ Kind(q) \in Writers
      /\ \/ create_collection_call(q) \/ create_payload_indexes(q)
         \/ upsert_call(q) \/ delete_selected(q) \/ drop(q)
  BY OwnCollection
<1>2. CASE create_collection_call(q)
  <2> DEFINE new == stored_collection(call[q].dim, {}, [i \in Id |-> None])
  <2>1. db' = [db EXCEPT ![n] = new] \/ db' = db
    BY <1>1, <1>2 DEF create_collection_call, create_collection
  <2>2. new.points = [i \in Id |-> None]
    BY DEF stored_collection
  <2> HIDE DEF new
  <2> QED
    BY <2>1, <2>2 DEF Base, TypeOK
<1>3. CASE create_payload_indexes(q)
  BY <1>3, IndexEffect
<1>4. CASE upsert_call(q)
  <2> DEFINE i == IF call[q].kind = "create" THEN q ELSE call[q].id
             point == IF call[q].kind = "create" THEN new_point(q)
                      ELSE updated_point(q)
  <2>1. pc[q] = "upsert"
    BY <1>4 DEF upsert_call, At
  <2>2. Present(db, Name(q)) /\ db' = upsert(db, Name(q), i, point)
    BY <1>4 DEF upsert_call
  <2>3. /\ i \in Id /\ point \in Point /\ Kind(q) \in {"create", "update"}
        /\ point.payload.user_id = User(q) /\ point.payload.updated_at = q
    BY <2>1, WrittenType
  <2>4. i = id => WritesPoint(q, id)
    BY <2>1, <2>3 DEF WritesPoint, Kind
  <2> HIDE DEF i, point
  <2> QED
    BY <1>1, <2>2, <2>3, <2>4, UpsertEffect DEF Base
<1>5. CASE delete_selected(q)
  <2>1. CASE ~Present(db, Name(q))
    BY <1>5, <2>1 DEF delete_selected
  <2>2. CASE Present(db, Name(q))
    <3>1. db' = delete(db, Name(q), selector(q))
      BY <1>5, <2>2 DEF delete_selected
    <3> QED
      BY <1>1, <2>2, <3>1, DeleteShrinks DEF Base, Present
  <2> QED
    BY <2>1, <2>2
<1>6. CASE drop(q)
  BY <1>1, <1>6 DEF drop, delete_collection, Base, TypeOK
<1> QED
  BY <1>1, <1>2, <1>3, <1>4, <1>5, <1>6

-----------------------------------------------------------------------------
(* Ownership *)

\* The points a step changes belong to the owner of the request that moves.
LEMMA OwnTouch ==
    ASSUME IInv, NEW q \in Request, Receive(q) \/ Step(q) \/ Fail(q),
           NEW n \in PhysicalName, NEW id \in Id,
           PointAt(db, n, id) # PointAt(db', n, id)
    PROVE  Moved(q) /\ call[q].owner = call[id].owner
<1>1. /\ Calling(q) /\ n = Name(q)
      /\ \/ create_collection_call(q) \/ create_payload_indexes(q)
         \/ upsert_call(q) \/ delete_selected(q) \/ drop(q)
  BY BaseHolds, OwnCollection DEF PointAt
<1>2. ~create_payload_indexes(q)
  BY BaseHolds, IndexEffect DEF PointAt
<1>3. Moved(q)
  BY <1>1, <1>2 DEF create_collection_call, upsert_call, delete_selected, drop,
     At, Goto, Answer, Raise, Moved, IInv, TypeOK
<1>4. CASE HoldsPoint(n, id)
  BY <1>1, <1>3, <1>4, FoundIsOwn
<1>5. CASE ~HoldsPoint(n, id)
  <2>1. WritesPoint(q, id)
    BY <1>5, BaseHolds, PointChanges DEF HoldsPoint
  <2>2. /\ pc[q] = "upsert"
        /\ id = IF call[q].kind = "create" THEN q ELSE call[q].id
    BY <2>1 DEF WritesPoint, Kind
  <2> QED
    BY <1>3, <2>2, WrittenPoint
<1> QED
  BY <1>4, <1>5

\* Only the owner of a point ever changes or removes it.
THEOREM Ownership == Spec => OnlyOwnersTouchPoints
<1>1. IInv /\ [Next]_vars =>
        [\A name \in PhysicalName, id \in Id :
            PointAt(db, name, id) # PointAt(db', name, id) =>
                \E r \in Request : Moved(r) /\ call[r].owner = call[id].owner]_vars
  BY OwnTouch DEF Next, Quiet
<1> QED
  BY <1>1, Invariance, PTL DEF Spec, OnlyOwnersTouchPoints

-----------------------------------------------------------------------------
(* Histories *)

(***************************************************************************)
(* The rest is about a request and those it overlaps: what goes wrong goes *)
(* wrong only because of a race, and the races that can be to blame are    *)
(* named.  Each property has an invariant of its own, which says what the  *)
(* request still knows at each label unless a request to blame has turned  *)
(* up; all of them rest on IInv and on HistoryOK, which says what the two  *)
(* history variables record.                                               *)
(***************************************************************************)

\* Whoever was answered when a request arrived has long ended; a request that
\* still makes calls has no answer, and has removed nothing before its delete.
HistoryOK ==
    \A r \in Request :
        /\ \A q \in before[r] : pc[q] = "done"
        /\ pc[r] = "idle" => before[r] = {}
        /\ Calling(r) => reply[r] = Status(0)
        /\ pc[r] \notin {"count_left", "drop", "respond", "done"} => removed[r] = {}
        /\ (pc[r] = "drop" /\ Kind(r) = "delete_collection") => removed[r] = {}

HInv == IInv /\ HistoryOK

\* As much of it as is about the requests alone.
Recorded == Base /\ HistoryOK

\* The invariant implies that part.
LEMMA RecordedHolds == HInv => Recorded
BY BaseHolds DEF HInv, Recorded

-----------------------------------------------------------------------------
(* Overlapping requests *)

\* Requests that overlap keep overlapping.
LEMMA OverlapStays ==
    ASSUME NEW m \in Request, MoveOf(m), NEW q \in Request, NEW r \in Request,
           Overlaps(q, r), pc[r] # "idle"
    PROVE  Overlaps(q, r)'
BY ArrivedStays DEF Overlaps

\* Two requests that are both being served overlap.
LEMMA ServedTogether ==
    ASSUME HistoryOK, NEW q \in Request, NEW r \in Request, q # r,
           pc[q] \notin {"idle", "done"}, pc[r] \notin {"idle", "done"}
    PROVE  Overlaps(q, r)
BY DEF HistoryOK, Overlaps

\* A request that moves once it has arrived overlaps those being served.
LEMMA MoverOverlaps ==
    ASSUME HistoryOK, NEW q \in Request, MoveOf(q), Calling(q),
           NEW r \in Request, q # r, pc[r] \notin {"idle", "done"}
    PROVE  Overlaps(q, r)'
<1>1. Overlaps(q, r)
  BY ServedTogether DEF MoveOf, Calling
<1> QED
  BY <1>1, OverlapStays

-----------------------------------------------------------------------------
(* The history invariant *)

\* What a step records of the request that moves: it goes on without an answer
\* or stops making calls, and it removes points in its delete and its drop only.
Records(q) ==
    /\ Calling(q)' => reply'[q] = reply[q] /\ pc[q] \notin {"respond", "done"}
    /\ \/ removed'[q] = removed[q]
       \/ pc[q] \in {"delete", "drop"} /\ pc'[q] \in {"count_left", "respond"}
    /\ pc[q] \in {"count_left", "drop", "respond"} =>
            pc'[q] \in {"drop", "respond", "done"}
    /\ pc'[q] = "drop" => pc[q] \in {"count", "count_left"}

\* Every action records no more than that.
LEMMA StepRecords ==
    ASSUME Base, NEW q \in Request, Receive(q) \/ Step(q) \/ Fail(q)
    PROVE  Records(q)
<1> USE DEF Base, TypeOK, Records, Calling
<1>1. CASE Receive(q)
  BY <1>1 DEF Receive, Answer, Goto
<1>2. CASE Fail(q) \/ respond(q)
  BY <1>2 DEF Fail, respond, At, Reads
<1>3. CASE collection_exists(q)
  <2>1. Calling(q)
    BY <1>3 DEF collection_exists, At
  <2>2. FirstCall[call[q].kind] # "drop"
    BY <2>1, AtCall, CallFacts DEF FirstCall, Path
  <2> QED
    BY <1>3, <2>2 DEF collection_exists, At, Reads, Goto, Answer
<1>4. CASE create_collection_call(q) \/ create_payload_indexes(q)
  BY <1>4 DEF create_collection_call, create_payload_indexes, At, Goto, Answer, Raise
<1>5. CASE assert_dimension_matches(q) \/ owned_point(q)
  BY <1>5 DEF assert_dimension_matches, owned_point, At, Reads, Goto, Answer, Raise
<1>6. CASE upsert_call(q)
  BY <1>6 DEF upsert_call, At, Answer, Raise
<1>7. CASE count_selected(q) \/ count_left(q)
  BY <1>7 DEF count_selected, count_left, At, Reads, Goto, Answer, Raise
<1>8. CASE delete_selected(q) \/ drop(q)
  BY <1>8 DEF delete_selected, drop, At, Answer, Raise, Goto
<1>9. CASE query(q) \/ scroll(q)
  BY <1>9 DEF query, scroll, Finds, At, Reads, Answer, Raise
<1> QED
  BY <1>1, <1>2, <1>3, <1>4, <1>5, <1>6, <1>7, <1>8, <1>9 DEF Step

\* The history invariant holds initially.
LEMMA InitHistory == Init => HistoryOK
BY DEF Init, HistoryOK, Calling

\* Every step keeps the history invariant.
LEMMA HistoryStep ==
    ASSUME Recorded, NEW q \in Request, Receive(q) \/ Step(q) \/ Fail(q)
    PROVE  HistoryOK'
<1>1. MoveOf(q) /\ Records(q)
  BY MovesAlone, StepRecords DEF Recorded
<1>2. ASSUME NEW r \in Request
      PROVE  \A p \in before'[r] : pc'[p] = "done"
  <2>1. \A p \in before[r] : p \in Request /\ p # q /\ pc'[p] = "done"
    BY <1>1 DEF Recorded, Base, TypeOK, HistoryOK, MoveOf
  <2>2. CASE r # q \/ pc[q] # "idle"
    BY <1>1, <2>1, <2>2 DEF MoveOf
  <2>3. CASE r = q /\ pc[q] = "idle"
    <3>1. before' = [before EXCEPT ![q] = {p \in Request : pc[p] = "done"}]
      BY <2>3, StepServes DEF Receive
    <3>2. before'[q] = {p \in Request : pc[p] = "done"}
      BY <3>1 DEF Recorded, Base, TypeOK
    <3> QED
      BY <1>1, <2>3, <3>2 DEF MoveOf
  <2> QED
    BY <2>2, <2>3
<1>3. ASSUME NEW r \in Request
      PROVE  /\ pc'[r] = "idle" => before'[r] = {}
             /\ Calling(r)' => reply'[r] = Status(0)
  BY <1>1 DEF MoveOf, Records, Recorded, Base, CallsOK, HistoryOK, Calling
<1>4. ASSUME NEW r \in Request,
             pc'[r] \notin {"count_left", "drop", "respond", "done"}
      PROVE  removed'[r] = {}
  BY <1>1, <1>4 DEF MoveOf, Records, Recorded, HistoryOK
<1>5. ASSUME NEW r \in Request, pc'[r] = "drop", Kind(r)' = "delete_collection"
      PROVE  removed'[r] = {}
  <2>1. CASE r # q
    BY <1>1, <1>5, <2>1 DEF MoveOf, Recorded, HistoryOK, Kind
  <2>2. CASE r = q
    <3>1. pc[q] \in {"count", "count_left"} /\ removed'[q] = removed[q]
      BY <1>1, <1>5, <2>2 DEF Records
    <3>2. call[q].kind = "delete_collection"
      BY <1>1, <1>5, <2>2, <3>1, ArrivedStays DEF Kind
    <3>3. pc[q] = "count"
      BY <3>1, <3>2, AtCall DEF Calling, Path, Recorded
    <3> QED
      BY <2>2, <3>1, <3>3 DEF Recorded, HistoryOK
  <2> QED
    BY <2>1, <2>2
<1> QED
  BY <1>2, <1>3, <1>4, <1>5 DEF HistoryOK

\* Every step keeps both invariants.
LEMMA NextHistory == HInv /\ [Next]_vars => HInv'
<1>1. ASSUME HInv, UNCHANGED vars
      PROVE  HistoryOK'
  BY <1>1 DEF HInv, HistoryOK, vars, Calling, Kind
<1>2. HInv /\ [Next]_vars => HistoryOK'
  BY <1>1, RecordedHolds, HistoryStep DEF Next, Quiet
<1> QED
  BY <1>2, NextInv DEF HInv

\* Every reachable state satisfies both.
LEMMA History == Spec => []HInv
<1>1. Init => HInv
  BY InitInv, InitHistory DEF HInv
<1> QED
  BY <1>1, NextHistory, PTL DEF Spec

\* A request never takes back what it removed.
LEMMA RemovedStays ==
    ASSUME Recorded, NEW q \in Request, Receive(q) \/ Step(q) \/ Fail(q),
           NEW p \in Request
    PROVE  removed[p] \subseteq removed'[p]
<1>1. MoveOf(q) /\ Records(q)
  BY MovesAlone, StepRecords DEF Recorded
<1>2. CASE p # q \/ removed'[q] = removed[q]
  BY <1>1, <1>2 DEF MoveOf
<1>3. CASE p = q /\ pc[q] = "delete"
  BY <1>3 DEF Recorded, HistoryOK
<1>4. CASE p = q /\ pc[q] = "drop" /\ removed'[q] # removed[q]
  <2>1. drop(q)
    BY <1>4 DEF Receive, Step, Fail, collection_exists, create_collection_call,
       create_payload_indexes, assert_dimension_matches, owned_point,
       upsert_call, count_selected, delete_selected, count_left, query,
       scroll, respond, At, Reads
  <2> QED
    BY <1>4, <2>1 DEF drop, Recorded, Base, TypeOK
<1> QED
  BY <1>1, <1>2, <1>3, <1>4 DEF Records

-----------------------------------------------------------------------------
(* Stores: an internal error needs a race *)

\* q creates or drops the collection r stores into, and overlaps r.
Disturbs(q, r) ==
    /\ Overlaps(q, r) /\ Name(q) = Name(r)
    /\ Kind(q) \in {"create", "bulk_delete", "delete_collection"}

\* What a store knows of its collection before each of its calls.
StoreKnows(r) ==
    /\ pc[r] = "create_collection" => ~Present(db, Name(r))
    /\ pc[r] \in {"create_payload_index", "get_collection", "upsert"} =>
            Present(db, Name(r))
    /\ pc[r] = "upsert" => db[Name(r)].dim = call[r].dim
    /\ reply[r].status # 500

\* It knows so unless it was disturbed.
StoresUndisturbed ==
    \A r \in Request \ Failing : Stores(r) =>
        StoreKnows(r) \/ \E q \in Request : Disturbs(q, r)

\* A store that was disturbed stays so.
LEMMA DisturbedStays ==
    ASSUME NEW m \in Request, MoveOf(m), NEW r \in Request, pc[r] # "idle",
           \E q \in Request : Disturbs(q, r)
    PROVE  \E q \in Request : Disturbs(q, r)'
<1>1. PICK q \in Request : Disturbs(q, r)
  OBVIOUS
<1>2. Overlaps(q, r)' /\ pc[q] # "idle"
  BY <1>1, OverlapStays DEF Disturbs, Overlaps
<1>3. Disturbs(q, r)'
  BY <1>1, <1>2, ArrivedStays DEF Disturbs
<1> QED
  BY <1>3

\* Another request's step leaves a store what it knows, or disturbs it.
LEMMA StoreBeside ==
    ASSUME HInv, NEW q \in Request, Receive(q) \/ Step(q) \/ Fail(q),
           NEW r \in Request, r # q, Stores(r), StoreKnows(r)
    PROVE  StoreKnows(r)' \/ Disturbs(q, r)'
<1>1. MoveOf(q) /\ pc[r] # "idle"
  BY OneMoves DEF HInv, Stores, Kind
<1>2. /\ pc'[r] = pc[r] /\ reply'[r] = reply[r] /\ call'[r] = call[r]
      /\ Name(r)' = Name(r)
  BY <1>1, ArrivedStays DEF MoveOf
<1>3. CASE ~Calling(r)
  BY <1>2, <1>3 DEF StoreKnows, Calling
<1>4. CASE Calling(r)
  <2>1. Name(r) \in PhysicalName
    BY <1>4, AtLabel DEF HInv
  <2>2. CASE \/ Present(db, Name(r)) # Present(db', Name(r))
             \/ Present(db, Name(r)) /\ db'[Name(r)].dim # db[Name(r)].dim
    <3>1. /\ Calling(q) /\ Name(r) = Name(q)
          /\ Kind(q) \in {"create", "bulk_delete", "delete_collection"}
      BY <2>1, <2>2, ShapeChanges DEF HInv
    <3>2. Overlaps(q, r)'
      BY <1>1, <1>4, <3>1, MoverOverlaps DEF Calling, HInv
    <3>3. Name(q)' = Name(q) /\ Kind(q)' = Kind(q)
      BY <1>1, <3>1, ArrivedStays DEF Calling
    <3> QED
      BY <1>2, <3>1, <3>2, <3>3 DEF Disturbs
  <2>3. CASE /\ Present(db, Name(r)) = Present(db', Name(r))
             /\ Present(db, Name(r)) => db'[Name(r)].dim = db[Name(r)].dim
    BY <1>2, <2>3 DEF StoreKnows
  <2> QED
    BY <2>2, <2>3
<1> QED
  BY <1>3, <1>4

\* A store that no fault hits knows after its own step what it then needs: it
\* raises nothing when what it knew before was true.
LEMMA StoreMoves ==
    ASSUME HInv, NEW r \in Request \ Failing, Stores(r), StoreKnows(r), Step(r)
    PROVE  StoreKnows(r)'
<1> USE DEF HInv, IInv, TypeOK, StoreKnows
<1>1. /\ pc[r] # "idle" /\ call[r].kind = "create" /\ MoveOf(r)
      /\ Name(r)' = Name(r) /\ call'[r] = call[r]
  BY OneMoves, ArrivedStays DEF Stores, Kind
<1>2. Calling(r) => /\ pc[r] \in Path["create"] /\ Name(r) \in PhysicalName
                    /\ reply[r] = Status(0)
  BY <1>1, AtLabel DEF HistoryOK
<1>3. \A code : Status(code).status = code
  BY DEF Status, Shows
<1>4. CASE collection_exists(r)
  <2>1. Calling(r) /\ UNCHANGED db
    BY <1>4 DEF collection_exists, At, Reads, Calling
  <2>2. /\ reply' = reply
        /\ pc' = [pc EXCEPT ![r] = IF Present(db, Name(r)) THEN "get_collection"
                                   ELSE "create_collection"]
    BY <1>1, <1>2, <1>4, <2>1
    DEF collection_exists, Goto, FirstCall, get_collections
  <2> QED
    BY <1>1, <2>1, <2>2
<1>5. CASE create_collection_call(r)
  <2>1. /\ Calling(r) /\ ~Present(db, Name(r)) /\ reply' = reply
        /\ pc'[r] \in {"get_collection", "create_payload_index"}
        /\ db' = create_collection(db, Name(r), call[r].dim, Id)
    BY <1>5 DEF create_collection_call, At, Goto, Calling
  <2>2. db'[Name(r)] = stored_collection(call[r].dim, {}, [i \in Id |-> None])
    BY <1>2, <2>1 DEF create_collection
  <2>3. db'[Name(r)] \in StoredCollection
    BY <1>1, <1>2, <2>1, <2>2, AtLabel, CallFacts
    DEF stored_collection, StoredCollection
  <2>4. Present(db', Name(r))
    BY <2>3, RepositoryAssumption DEF Present
  <2> QED
    BY <1>1, <2>1, <2>4
<1>6. CASE create_payload_indexes(r)
  <2>1. /\ Calling(r) /\ reply' = reply /\ Present(db, Name(r))
        /\ pc'[r] \in {"get_collection", "create_payload_index"}
    BY <1>6 DEF create_payload_indexes, At, Goto, Calling
  <2>2. Present(db', Name(r))
    BY <1>2, <1>6, <2>1, BaseHolds, IndexEffect DEF Present
  <2> QED
    BY <1>1, <2>1, <2>2
<1>7. CASE assert_dimension_matches(r)
  BY <1>1, <1>3, <1>7 DEF assert_dimension_matches, At, Reads, Goto, Answer
<1>8. CASE upsert_call(r)
  <2>1. Present(db, Name(r)) /\ FitsWidth(db, Name(r), new_point(r))
    BY <1>1, <1>8 DEF upsert_call, At, FitsWidth, new_point
  <2>2. /\ pc' = [pc EXCEPT ![r] = "respond"]
        /\ reply' = [reply EXCEPT ![r] = Shows(201, {r})]
    BY <1>1, <1>8, <2>1 DEF upsert_call, Answer
  <2> QED
    BY <1>1, <2>2 DEF Shows
<1>9. CASE respond(r)
  BY <1>1, <1>9 DEF respond, At
<1>10. CASE \/ owned_point(r) \/ count_selected(r) \/ delete_selected(r)
            \/ count_left(r) \/ drop(r) \/ query(r) \/ scroll(r)
  <2>1. /\ Calling(r)
        /\ pc[r] \in {"retrieve", "count", "delete", "count_left", "drop",
                      "query", "scroll"}
    BY <1>10 DEF owned_point, count_selected, delete_selected, count_left,
       drop, query, scroll, At, Calling
  <2> QED
    BY <1>2, <2>1 DEF Path
<1> QED
  BY <1>4, <1>5, <1>6, <1>7, <1>8, <1>9, <1>10 DEF Step

\* A store that arrives knows nothing yet, and needs nothing.
LEMMA StoreArrives ==
    ASSUME HInv, NEW r \in Request, Receive(r)
    PROVE  StoreKnows(r)'
<1>1. reply[r] = Status(0)
  BY DEF HInv, IInv, CallsOK, Receive
<1>2. /\ pc'[r] \in {"collection_exists", "respond"}
      /\ reply'[r] \in {Status(0), Status(422)}
  BY <1>1 DEF Receive, Answer, Goto, HInv, IInv, TypeOK
<1> QED
  BY <1>2 DEF StoreKnows, Status, Shows

\* Every step keeps the stores' invariant.
LEMMA StoresStep == HInv /\ StoresUndisturbed /\ [Next]_vars => StoresUndisturbed'
<1>1. ASSUME StoresUndisturbed, UNCHANGED vars
      PROVE  StoresUndisturbed'
  BY <1>1 DEF StoresUndisturbed, vars, Stores, StoreKnows, Disturbs, Overlaps,
     Kind, Name
<1>2. ASSUME HInv, StoresUndisturbed, NEW q \in Request,
             Receive(q) \/ Step(q) \/ Fail(q)
      PROVE  StoresUndisturbed'
  <2> SUFFICES ASSUME NEW r \in Request \ Failing, Stores(r)'
               PROVE  StoreKnows(r)' \/ \E p \in Request : Disturbs(p, r)'
    BY DEF StoresUndisturbed
  <2>1. MoveOf(q)
    BY <1>2, OneMoves DEF HInv
  <2>2. CASE r = q /\ Receive(q)
    BY <1>2, <2>2, StoreArrives
  <2>3. CASE r # q \/ ~Receive(q)
    <3>1. pc[r] # "idle"
      BY <1>2, <2>1, <2>3, StepServes DEF MoveOf, Stores, Kind
    <3>2. Stores(r)
      BY <2>1, <3>1, ArrivedStays DEF Stores
    <3>3. CASE \E p \in Request : Disturbs(p, r)
      BY <2>1, <3>1, <3>3, DisturbedStays
    <3>4. CASE StoreKnows(r)
      BY <1>2, <2>3, <3>2, <3>4, StoreBeside, StoreMoves DEF Fail
    <3> QED
      BY <1>2, <3>2, <3>3, <3>4 DEF StoresUndisturbed
  <2> QED
    BY <2>2, <2>3
<1> QED
  BY <1>1, <1>2 DEF Next, Quiet

\* A store that no fault hits is answered with an internal error only when
\* another request that creates or removes its collection overlaps it.
THEOREM StoresFailByRace == Spec => []StoreErrNeedsARace
<1>1. Init => StoresUndisturbed
  BY DEF Init, StoresUndisturbed, Stores, Kind
<1>2. StoresUndisturbed => StoreErrNeedsARace
  BY DEF StoresUndisturbed, StoreErrNeedsARace, StoreKnows, Disturbs
<1> QED
  BY <1>1, <1>2, StoresStep, History, PTL DEF Spec

-----------------------------------------------------------------------------
(* Deletions: what is reported is what was removed, but for a race *)

\* q writes to the collection r deletes from, and overlaps r.
Writes(q, r) ==
    /\ Overlaps(q, r) /\ Name(q) = Name(r)
    /\ Stores(q) \/ Deletes(q) \/ Kind(q) = "update"

\* What a bulk delete or the deletion of a collection knows once it counted.
CountKnows(r) ==
    /\ pc[r] = "delete" =>
        /\ Present(db, Name(r))
        /\ local[r].matched = Cardinality(Selected(db, Name(r), selector(r)))
    /\ pc[r] = "count_left" => local[r].matched = Cardinality(removed[r])
    /\ (pc[r] = "drop" /\ call[r].kind = "bulk_delete") =>
        /\ Present(db, Name(r)) => Stored(db, Name(r)) = {}
        /\ local[r].matched = Cardinality(removed[r])
    /\ (pc[r] = "drop" /\ call[r].kind = "delete_collection") =>
        /\ Present(db, Name(r))
        /\ local[r].matched = Cardinality(Stored(db, Name(r)))
    /\ reply[r].status = 200 => reply[r].deleted = Cardinality(removed[r])

Counts(r) == Kind(r) \in {"bulk_delete", "delete_collection"}

\* It knows so unless somebody wrote meanwhile.
CountsUndisturbed ==
    \A r \in Request : Counts(r) =>
        CountKnows(r) \/ \E q \in Request : Writes(q, r)

\* A deletion beside which somebody wrote stays one.
LEMMA WritesStays ==
    ASSUME NEW m \in Request, MoveOf(m), NEW r \in Request, pc[r] # "idle",
           \E q \in Request : Writes(q, r)
    PROVE  \E q \in Request : Writes(q, r)'
<1>1. PICK q \in Request : Writes(q, r)
  OBVIOUS
<1>2. Overlaps(q, r)' /\ pc[q] # "idle"
  BY <1>1, OverlapStays DEF Writes, Overlaps
<1>3. Writes(q, r)'
  BY <1>1, <1>2, ArrivedStays DEF Writes, Stores, Deletes
<1> QED
  BY <1>3

\* Another request's step leaves a deletion what it knows, or writes to its
\* collection.
LEMMA CountBeside ==
    ASSUME HInv, NEW q \in Request, Receive(q) \/ Step(q) \/ Fail(q),
           NEW r \in Request, r # q, Counts(r), CountKnows(r)
    PROVE  CountKnows(r)' \/ Writes(q, r)'
<1>1. MoveOf(q) /\ pc[r] # "idle"
  BY OneMoves DEF HInv, Counts, Kind
<1>2. /\ pc'[r] = pc[r] /\ reply'[r] = reply[r] /\ call'[r] = call[r]
      /\ local'[r] = local[r] /\ removed'[r] = removed[r]
      /\ Name(r)' = Name(r) /\ selector(r)' = selector(r)
  BY <1>1, ArrivedStays DEF MoveOf
<1>3. CASE ~Calling(r)
  BY <1>2, <1>3 DEF CountKnows, Calling
<1>4. CASE Calling(r) /\ db'[Name(r)] = db[Name(r)]
  <2>1. /\ Present(db', Name(r)) = Present(db, Name(r))
        /\ Stored(db', Name(r)) = Stored(db, Name(r))
    BY <1>4 DEF Present, Stored
  <2>2. Selected(db', Name(r), selector(r)) = Selected(db, Name(r), selector(r))
    BY <1>4, <2>1 DEF Selected
  <2> QED
    BY <1>2, <2>1, <2>2 DEF CountKnows
<1>5. CASE Calling(r) /\ db'[Name(r)] # db[Name(r)]
  <2>1. Calling(q) /\ Name(q) = Name(r) /\ Kind(q) \in Writers
    BY <1>5, BaseHolds, AtLabel, OwnCollection DEF HInv
  <2>2. Overlaps(q, r)'
    BY <1>1, <1>5, <2>1, MoverOverlaps DEF Calling, HInv
  <2>3. Name(q)' = Name(q) /\ Kind(q)' = Kind(q)
    BY <1>1, <2>1, ArrivedStays DEF Calling
  <2> QED
    BY <1>2, <2>1, <2>2, <2>3 DEF Writes, Stores, Deletes, Writers
<1> QED
  BY <1>3, <1>4, <1>5

\* A deletion that answers with the number of points it removed is right.
LEMMA CountAnswered ==
    ASSUME NEW r \in Request, NEW n, NEW dropped \in BOOLEAN,
           pc'[r] = "respond", reply'[r] = Deleted(n, dropped),
           n = Cardinality(removed'[r])
    PROVE  CountKnows(r)'
<1>1. reply'[r].deleted = n
  BY DEF Deleted
<1> QED
  BY <1>1 DEF CountKnows

\* A deletion without an answer knows all it has to once its counts are right.
LEMMA CountGoesOn ==
    ASSUME NEW r \in Request, reply'[r] = Status(0),
           Name(r)' = Name(r), selector(r)' = selector(r),
           \/ /\ pc'[r] = "delete" /\ Present(db', Name(r))
              /\ local'[r].matched = Cardinality(Selected(db', Name(r), selector(r)))
           \/ pc'[r] = "count_left" /\ local'[r].matched = Cardinality(removed'[r])
           \/ /\ pc'[r] = "drop" /\ call'[r].kind = "bulk_delete"
              /\ Present(db', Name(r)) => Stored(db', Name(r)) = {}
              /\ local'[r].matched = Cardinality(removed'[r])
           \/ /\ pc'[r] = "drop" /\ call'[r].kind = "delete_collection"
              /\ Present(db', Name(r))
              /\ local'[r].matched = Cardinality(Stored(db', Name(r)))
    PROVE  CountKnows(r)'
<1>1. reply'[r].status = 0
  BY DEF Status, Shows
<1> QED
  BY <1>1 DEF CountKnows

\* A bulk delete or the deletion of a collection that nobody disturbed reports
\* after its own step what it removed.
LEMMA CountMoves ==
    ASSUME HInv, NEW r \in Request, Counts(r), CountKnows(r), Step(r) \/ Fail(r)
    PROVE  CountKnows(r)'
<1> USE DEF HInv, IInv, TypeOK, CountKnows
<1>1. /\ pc[r] # "idle" /\ call[r].kind \in {"bulk_delete", "delete_collection"}
      /\ MoveOf(r) /\ Name(r)' = Name(r) /\ call'[r] = call[r]
      /\ selector(r)' = selector(r)
  BY OneMoves, ArrivedStays DEF Counts, Kind
<1>2. /\ Calling(r) => /\ pc[r] \in Path[call[r].kind] /\ Name(r) \in PhysicalName
                       /\ reply[r] = Status(0) /\ local[r].matched \in Nat
      /\ Status(0).status = 0
  BY <1>1, AtLabel DEF HistoryOK, Locals, Status, Shows
<1>3. \A code : Status(code).status = code
  BY DEF Status, Shows
<1>5. CASE collection_exists(r)
  <2>1. Calling(r) /\ UNCHANGED local
    BY <1>5 DEF collection_exists, At, Calling
  <2>2. FirstCall[call[r].kind] = "count"
    BY <1>1 DEF FirstCall
  <2>3. \/ pc' = [pc EXCEPT ![r] = "count"] /\ reply' = reply
        \/ /\ pc' = [pc EXCEPT ![r] = "respond"]
           /\ reply' = [reply EXCEPT ![r] = Status(404)]
    BY <1>1, <1>5, <2>2 DEF collection_exists, Goto, Answer
  <2> QED
    BY <1>2, <1>3, <2>1, <2>3
<1>6. CASE count_selected(r)
  <2>1. Calling(r) /\ pc[r] = "count" /\ UNCHANGED <<db, removed>>
    BY <1>6 DEF count_selected, At, Reads, Calling
  <2>2. removed[r] = {}
    BY <2>1 DEF HistoryOK
  <2>3. CASE ~Present(db, Name(r))
    BY <1>3, <1>6, <2>3 DEF count_selected, Raise, Answer
  <2>4. CASE Present(db, Name(r))
    <3> DEFINE n == matching(r)
    <3>1. n = Cardinality(Selected(db, Name(r), selector(r)))
      BY DEF matching, count
    <3>2. local' = [local EXCEPT ![r] = Counted(n)] /\ Counted(n).matched = n
      BY <1>6, <2>4 DEF count_selected, Counted
    <3>3. CASE Answer(r, Deleted(0, FALSE)) /\ n = 0
      <4>1. /\ pc'[r] = "respond" /\ reply'[r] = Deleted(0, FALSE)
            /\ removed'[r] = {}
        BY <2>1, <2>2, <3>3 DEF Answer
      <4>2. 0 = Cardinality(removed'[r])
        BY <4>1, FS_EmptySet
      <4>3. FALSE \in BOOLEAN
        OBVIOUS
      <4> HIDE DEF n
      <4> QED
        BY <4>1, <4>2, <4>3, CountAnswered, Zenon
    <3>4. CASE Goto(r, "delete")
      <4>1. /\ pc'[r] = "delete" /\ reply'[r] = Status(0)
            /\ local'[r].matched = n /\ db' = db
        BY <1>2, <2>1, <3>2, <3>4 DEF Goto
      <4>2. local'[r].matched = Cardinality(Selected(db', Name(r), selector(r)))
        BY <3>1, <4>1
      <4> QED
        BY <1>1, <2>4, <4>1, <4>2, CountGoesOn
    <3>5. CASE Goto(r, "drop") /\ call[r].kind = "delete_collection"
      <4>1. /\ pc'[r] = "drop" /\ reply'[r] = Status(0)
            /\ local'[r].matched = n /\ db' = db
        BY <1>2, <2>1, <3>2, <3>5 DEF Goto
      <4>2. n = Cardinality(Stored(db, Name(r)))
        BY <2>1, <2>4, <3>1, <3>5, OwnSelected DEF selector
      <4> QED
        BY <1>1, <2>4, <3>5, <4>1, <4>2, CountGoesOn
    <3> QED
      BY <1>6, <2>4, <3>3, <3>4, <3>5 DEF count_selected
  <2> QED
    BY <2>3, <2>4
<1>7. CASE delete_selected(r)
  <2> DEFINE n == local[r].matched
  <2>1. /\ Calling(r) /\ Present(db, Name(r)) /\ UNCHANGED local
        /\ n = Cardinality(Selected(db, Name(r), selector(r)))
        /\ removed' = [removed EXCEPT ![r] = Selected(db, Name(r), selector(r))]
    BY <1>7 DEF delete_selected, At, Calling
  <2>2. n = Cardinality(removed'[r])
    BY <2>1
  <2>3. local'[r].matched = n
    BY <2>1
  <2>4. \/ pc'[r] = "count_left" /\ reply'[r] = Status(0)
        \/ pc'[r] = "respond" /\ reply'[r] = Deleted(n, FALSE)
    BY <1>1, <1>2, <1>7, <2>1 DEF delete_selected, Goto, Answer
  <2> HIDE DEF n
  <2>5. CASE pc'[r] = "count_left" /\ reply'[r] = Status(0)
    BY <1>1, <2>2, <2>3, <2>5, CountGoesOn
  <2>6. CASE pc'[r] = "respond" /\ reply'[r] = Deleted(n, FALSE)
    <3>1. FALSE \in BOOLEAN
      OBVIOUS
    <3> QED
      BY <2>2, <2>6, <3>1, CountAnswered, Zenon
  <2> QED
    BY <2>4, <2>5, <2>6
<1>8. CASE count_left(r)
  <2> DEFINE n == local[r].matched
  <2>1. /\ Calling(r) /\ call[r].kind = "bulk_delete"
        /\ UNCHANGED <<local, db, removed>> /\ n = Cardinality(removed[r])
    BY <1>1, <1>2, <1>8 DEF count_left, At, Reads, Calling, Path
  <2>2. CASE Raise(r)
    BY <1>3, <2>2 DEF Raise, Answer
  <2>3. n = Cardinality(removed'[r]) /\ local'[r].matched = n /\ db' = db
    BY <2>1
  <2>4. CASE Answer(r, Deleted(n, FALSE))
    <3>1. pc'[r] = "respond" /\ reply'[r] = Deleted(n, FALSE)
      BY <2>4 DEF Answer
    <3> QED
      BY <2>3, <3>1, CountAnswered
  <2>5. CASE Goto(r, "drop") /\ Stored(db, Name(r)) = {}
    <3>1. pc'[r] = "drop" /\ reply'[r] = Status(0)
      BY <1>2, <2>1, <2>5 DEF Goto
    <3> QED
      BY <1>1, <2>1, <2>3, <2>5, <3>1, CountGoesOn
  <2> QED
    BY <1>8, <2>2, <2>4, <2>5 DEF count_left, left
<1>9. CASE drop(r)
  <2> DEFINE gone == IF Present(db, Name(r)) THEN Stored(db, Name(r)) ELSE {}
             n == local[r].matched
  <2>1. /\ pc[r] = "drop" /\ Calling(r)
        /\ removed' = [removed EXCEPT ![r] = @ \union gone]
        /\ pc'[r] = "respond" /\ reply'[r] = Deleted(n, TRUE)
    BY <1>9 DEF drop, At, Answer, Calling
  <2>2. removed'[r] = removed[r] \union gone
    BY <2>1
  <2>3. n = Cardinality(removed[r] \union gone)
    <3>1. CASE call[r].kind = "bulk_delete"
      <4>1. gone = {} /\ n = Cardinality(removed[r])
        BY <2>1, <3>1
      <4>2. removed[r] \union gone = removed[r]
        BY <4>1
      <4> QED
        BY <4>1, <4>2
    <3>2. CASE call[r].kind = "delete_collection"
      <4>1. removed[r] = {}
        BY <1>1, <2>1, <3>2 DEF HistoryOK, Kind
      <4>2. gone = Stored(db, Name(r)) /\ n = Cardinality(Stored(db, Name(r)))
        BY <2>1, <3>2
      <4>3. removed[r] \union gone = Stored(db, Name(r))
        BY <4>1, <4>2
      <4> QED
        BY <4>2, <4>3
    <3> QED
      BY <1>1, <3>1, <3>2
  <2>4. n = Cardinality(removed'[r])
    BY <2>2, <2>3
  <2> HIDE DEF gone, n
  <2> QED
    BY <2>1, <2>4, CountAnswered
<1>10. CASE respond(r)
  BY <1>1, <1>10 DEF respond, At, Reads
<1>11. CASE Fail(r)
  BY <1>1, <1>3, <1>11 DEF Fail
<1>12. CASE \/ create_collection_call(r) \/ create_payload_indexes(r)
            \/ assert_dimension_matches(r) \/ owned_point(r) \/ upsert_call(r)
            \/ query(r) \/ scroll(r)
  <2>1. /\ Calling(r)
        /\ pc[r] \in {"create_collection", "create_payload_index",
                      "get_collection", "retrieve", "upsert", "query", "scroll"}
    BY <1>12 DEF create_collection_call, create_payload_indexes,
       assert_dimension_matches, owned_point, upsert_call, query, scroll, At, Calling
  <2> QED
    BY <1>1, <1>2, <2>1 DEF Path
<1> QED
  BY <1>5, <1>6, <1>7, <1>8, <1>9, <1>10, <1>11, <1>12 DEF Step

\* A deletion that arrives has counted nothing.
LEMMA CountArrives ==
    ASSUME HInv, NEW r \in Request, Receive(r)
    PROVE  CountKnows(r)'
<1>1. reply[r] = Status(0)
  BY DEF HInv, IInv, CallsOK, Receive
<1>2. /\ pc'[r] \in {"collection_exists", "respond"}
      /\ reply'[r] \in {Status(0), Status(422)}
  BY <1>1 DEF Receive, Answer, Goto, HInv, IInv, TypeOK
<1> QED
  BY <1>2 DEF CountKnows, Status, Shows

\* Every step keeps the deletions' invariant.
LEMMA CountsStep == HInv /\ CountsUndisturbed /\ [Next]_vars => CountsUndisturbed'
<1>1. ASSUME CountsUndisturbed, UNCHANGED vars
      PROVE  CountsUndisturbed'
  <2>1. \A r \in Request : Counts(r)' = Counts(r) /\ selector(r)' = selector(r)
    BY <1>1 DEF vars, Counts, Kind, selector, User
  <2>2. \A r \in Request : \A q \in Request : Writes(q, r)' = Writes(q, r)
    BY <1>1 DEF vars, Writes, Overlaps, Stores, Deletes, Kind, Name
  <2>3. \A r \in Request : CountKnows(r)' = CountKnows(r)
    BY <1>1, <2>1 DEF vars, CountKnows, Name
  <2> QED
    BY <1>1, <2>1, <2>2, <2>3 DEF CountsUndisturbed
<1>2. ASSUME HInv, CountsUndisturbed, NEW q \in Request,
             Receive(q) \/ Step(q) \/ Fail(q)
      PROVE  CountsUndisturbed'
  <2> SUFFICES ASSUME NEW r \in Request, Counts(r)'
               PROVE  CountKnows(r)' \/ \E p \in Request : Writes(p, r)'
    BY DEF CountsUndisturbed
  <2>1. MoveOf(q)
    BY <1>2, OneMoves DEF HInv
  <2>2. CASE r = q /\ Receive(q)
    BY <1>2, <2>2, CountArrives
  <2>3. CASE r # q \/ ~Receive(q)
    <3>1. pc[r] # "idle"
      BY <1>2, <2>1, <2>3, StepServes DEF MoveOf, Counts, Kind
    <3>2. Counts(r)
      BY <2>1, <3>1, ArrivedStays DEF Counts
    <3>3. CASE \E p \in Request : Writes(p, r)
      BY <2>1, <3>1, <3>3, WritesStays
    <3>4. CASE CountKnows(r)
      BY <1>2, <2>3, <3>2, <3>4, CountBeside, CountMoves
    <3> QED
      BY <1>2, <3>2, <3>3, <3>4 DEF CountsUndisturbed
  <2> QED
    BY <2>2, <2>3
<1> QED
  BY <1>1, <1>2 DEF Next, Quiet

\* A deletion reports what it removed unless somebody wrote to its collection
\* meanwhile.
THEOREM MiscountsByRace == Spec => []MiscountNeedsARace
<1>1. Init => CountsUndisturbed
  BY DEF Init, CountsUndisturbed, Counts, Kind
<1>2. CountsUndisturbed => MiscountNeedsARace
  BY DEF CountsUndisturbed, MiscountNeedsARace, CountKnows, Counts, Writes
<1> QED
  BY <1>1, <1>2, CountsStep, History, PTL DEF Spec

-----------------------------------------------------------------------------
(* Visibility: an acknowledged point is found unless it was removed *)

\* The point of an acknowledged store is where the store put it, or some
\* request removed it.
HeldOrRemoved ==
    \A id \in Request : Stores(id) /\ reply[id].status = 201 =>
        /\ Name(id) \in PhysicalName
        /\ HoldsPoint(Name(id), id) \/ \E q \in Request : id \in removed[q]

VInv == HeldOrRemoved /\ AcknowledgedIsVisible

\* What a step removes was held in the collection of the request that moves,
\* and is not any more.
LEMMA RemovedHere ==
    ASSUME Recorded, NEW q \in Request, Receive(q) \/ Step(q) \/ Fail(q),
           NEW id \in removed'[q], id \notin removed[q]
    PROVE  /\ Calling(q) /\ id \in Id /\ Name(q) \in PhysicalName
           /\ HoldsPoint(Name(q), id) /\ PointAt(db', Name(q), id) = None
<1> USE DEF Recorded, Base, TypeOK
<1>1. delete_selected(q) \/ drop(q)
  <2>1. removed' # removed
    OBVIOUS
  <2> QED
    BY <2>1 DEF Receive, Step, Fail, collection_exists, create_collection_call,
       create_payload_indexes, assert_dimension_matches, owned_point, upsert_call,
       count_selected, count_left, query, scroll, respond, Reads
<1>2. Calling(q)
  BY <1>1 DEF delete_selected, drop, At, Calling
<1>3. Name(q) \in PhysicalName
  BY <1>2, AtCall
<1>4. CASE delete_selected(q)
  <2>1. /\ Present(db, Name(q)) /\ db' = delete(db, Name(q), selector(q))
        /\ id \in Selected(db, Name(q), selector(q))
    BY <1>4 DEF delete_selected
  <2>2. id \in Id /\ HoldsPoint(Name(q), id)
    BY <1>3, <2>1, SelectedAreHeld
  <2> QED
    BY <1>2, <1>3, <2>1, <2>2, DeleteShrinks DEF PointAt
<1>5. CASE drop(q)
  <2>1. /\ db' = [db EXCEPT ![Name(q)] = Absent]
        /\ Present(db, Name(q)) /\ id \in Stored(db, Name(q))
    BY <1>5 DEF drop, delete_collection
  <2>2. id \in Id /\ HoldsPoint(Name(q), id)
    BY <1>3, <2>1, SelectedAreHeld
  <2> QED
    BY <1>2, <1>3, <2>1, <2>2 DEF PointAt
<1> QED
  BY <1>1, <1>4, <1>5

\* What was removed stays removed.
LEMMA GoneStays ==
    ASSUME Recorded, NEW q \in Request, Receive(q) \/ Step(q) \/ Fail(q),
           NEW id, \E p \in Request : id \in removed[p]
    PROVE  \E p \in Request : id \in removed'[p]
BY RemovedStays

\* Nothing but its upsert acknowledges a store, and then the point is there.
LEMMA CreatedIsHeld ==
    ASSUME HInv, NEW q \in Request, Step(q) \/ Fail(q), Stores(q),
           reply'[q].status = 201, reply[q].status # 201
    PROVE  Name(q) \in PhysicalName /\ HoldsPoint(Name(q), q)'
<1> USE DEF HInv, IInv, TypeOK
<1>1. pc[q] # "idle" /\ call[q].kind = "create"
  BY DEF Stores, Kind
<1>2. \A code : Status(code).status = code
  BY DEF Status, Shows
<1>3. CASE upsert_call(q)
  <2>1. Calling(q) /\ pc[q] = "upsert"
    BY <1>3 DEF upsert_call, At, Calling
  <2>2. Name(q) \in PhysicalName
    BY <2>1, AtLabel
  <2>3. Present(db, Name(q)) /\ db' = upsert(db, Name(q), q, new_point(q))
    BY <1>1, <1>2, <1>3 DEF upsert_call, Raise, Answer
  <2>4. new_point(q) \in Point /\ new_point(q) # None
    BY <1>1, <2>1, WrittenPoint, RepositoryAssumption
  <2>5. db'[Name(q)] # Absent /\ db'[Name(q)].points[q] = new_point(q)
    BY <2>2, <2>3, <2>4, UpsertEffect DEF Present, Id
  <2>6. Name(q)' = Name(q)
    BY <1>3 DEF upsert_call, At, Name
  <2> QED
    BY <2>2, <2>4, <2>5, <2>6 DEF HoldsPoint, PointAt
<1>4. CASE \/ collection_exists(q) \/ create_collection_call(q)
           \/ create_payload_indexes(q) \/ assert_dimension_matches(q)
           \/ respond(q) \/ Fail(q)
  BY <1>2, <1>4 DEF collection_exists, create_collection_call,
     create_payload_indexes, assert_dimension_matches, respond, Fail, At, Reads,
     Goto, Answer, Raise
<1>5. CASE \/ owned_point(q) \/ count_selected(q) \/ delete_selected(q)
           \/ count_left(q) \/ drop(q) \/ query(q) \/ scroll(q)
  <2>1. /\ Calling(q)
        /\ pc[q] \in {"retrieve", "count", "delete", "count_left", "drop",
                      "query", "scroll"}
    BY <1>5 DEF owned_point, count_selected, delete_selected, count_left,
       drop, query, scroll, At, Calling
  <2> QED
    BY <1>1, <2>1, AtLabel DEF Path
<1> QED
  BY <1>3, <1>4, <1>5 DEF Step

\* The arrival of a request gives no answer but a refusal.
LEMMA ArrivalAnswers ==
    ASSUME Base, NEW q \in Request, Receive(q)
    PROVE  reply'[q].status \in {0, 422} /\ pc'[q] \in {"collection_exists", "respond"}
<1>1. reply[q] = Status(0)
  BY DEF Base, CallsOK, Receive
<1>2. /\ reply'[q] \in {Status(0), Status(422)}
      /\ pc'[q] \in {"collection_exists", "respond"}
  BY <1>1 DEF Receive, Answer, Goto, Base, TypeOK
<1> QED
  BY <1>2 DEF Status, Shows

\* Every step leaves the point of an acknowledged store, or removes it.
LEMMA HeldStep ==
    ASSUME HInv, HeldOrRemoved, NEW q \in Request, Receive(q) \/ Step(q) \/ Fail(q)
    PROVE  HeldOrRemoved'
<1> SUFFICES ASSUME NEW id \in Request, Stores(id)', reply'[id].status = 201
             PROVE  /\ Name(id)' \in PhysicalName
                    /\ \/ HoldsPoint(Name(id), id)'
                       \/ \E p \in Request : id \in removed'[p]
  BY DEF HeldOrRemoved
<1>1. MoveOf(q)
  BY OneMoves DEF HInv
<1>2. pc[id] # "idle" /\ (id = q => Step(q) \/ Fail(q))
  <2>1. CASE id # q
    BY <1>1, <2>1 DEF MoveOf, Stores, Kind
  <2>2. CASE id = q
    BY <2>2, BaseHolds, ArrivalAnswers, StepServes DEF HInv
  <2> QED
    BY <2>1, <2>2
<1>3. Stores(id) /\ Name(id)' = Name(id)
  BY <1>1, <1>2, ArrivedStays DEF Stores
<1>4. CASE reply[id].status = 201
  <2>1. Name(id) \in PhysicalName /\ id \in Id
    BY <1>3, <1>4 DEF HeldOrRemoved, Id
  <2>2. HoldsPoint(Name(id), id)' <=> PointAt(db', Name(id), id) # None
    BY <1>3 DEF HoldsPoint
  <2>3. CASE HoldsPoint(Name(id), id)
    BY <1>3, <2>1, <2>2, <2>3, BaseHolds, PointChanges DEF HInv
  <2>4. CASE \E p \in Request : id \in removed[p]
    BY <1>3, <2>1, <2>4, RecordedHolds, GoneStays
  <2> QED
    BY <1>3, <1>4, <2>3, <2>4 DEF HeldOrRemoved
<1>5. CASE reply[id].status # 201
  <2>1. id = q
    BY <1>1, <1>5 DEF MoveOf
  <2> QED
    BY <1>2, <1>3, <1>5, <2>1, CreatedIsHeld
<1> QED
  BY <1>4, <1>5

\* A listing without predicate that is not full shows all its collection holds.
LEMMA PageShowsAll ==
    ASSUME HInv, NEW r \in Request, scroll(r), call[r].kind = "page",
           call[r].topic = None, DOMAIN call[r].filter = {},
           Cardinality(reply'[r].hits) < call[r].limit,
           NEW id \in Id, HoldsPoint(Name(r), id)
    PROVE  id \in reply'[r].hits
<1> USE DEF HInv
<1> DEFINE filter == scoped(User(r), call[r].topic, call[r].filter)
<1>1. Calling(r)
  BY DEF scroll, At, Calling
<1>2. Present(db, Name(r)) /\ Name(r) \in PhysicalName /\ call[r] \in Call
  BY <1>1, AtLabel DEF HoldsPoint, PointAt, Present
<1>3. PICK hits \in Answers(db, Name(r), filter, call[r].limit) :
        Answer(r, Shows(200, hits))
  BY <1>2 DEF scroll, Finds
<1>4. reply'[r].hits = hits
  BY <1>3 DEF Answer, Shows, IInv, TypeOK
<1>5. hits = Selected(db, Name(r), filter) \/ Cardinality(hits) = call[r].limit
  BY <1>3 DEF Answers
<1>6. call[r].limit \in Nat
  <2>1. call[r] \in ReadCall
    BY <1>2 DEF Call, CreateCall, PointCall, UpdateCall, BulkCall, DropCall
  <2> QED
    BY <2>1, RepositoryAssumption DEF ReadCall
<1>7. id \in Stored(db, Name(r))
  BY <1>2 DEF Stored, HoldsPoint, PointAt, IInv, TypeOK, Present, StoredCollection
<1>8. Matches(filter, id, db[Name(r)].points[id].payload)
  <2> DEFINE payload == db[Name(r)].points[id].payload
  <2>1. payload.user_id = User(r)
    BY <1>1, <1>2, <1>7, OwnSelected
  <2> DEFINE c == call[r]
  <2>2. c.topic = None /\ DOMAIN c.filter = {}
    OBVIOUS
  <2> HIDE DEF payload, c
  <2>3. Matches(scoped(User(r), c.topic, c.filter), id, payload)
    BY <2>1, <2>2, Matching
  <2> QED
    BY <2>3 DEF payload, c
<1> HIDE DEF filter
<1>9. id \in Selected(db, Name(r), filter)
  BY <1>7, <1>8 DEF Selected
<1> QED
  BY <1>4, <1>5, <1>6, <1>9

\* A request does not miss, by its own step, what its collection holds.
LEMMA SeesWhatIsHeld ==
    ASSUME HInv, NEW r \in Request, Step(r) \/ Fail(r),
           NEW id \in Id, HoldsPoint(Name(r), id), Misses(r, id)'
    PROVE  Misses(r, id)
<1> USE DEF HInv
<1>1. /\ pc[r] # "idle" /\ MoveOf(r) /\ call'[r] = call[r]
      /\ Kind(r)' = call[r].kind /\ Kind(r) = call[r].kind
  BY StepServes, OneMoves, ArrivedStays DEF Kind
<1>2. \A code : Status(code).status = code
  BY DEF Status, Shows
<1>3. CASE respond(r)
  BY <1>1, <1>3 DEF respond, Misses, OnPoint
<1>4. CASE Fail(r)
  <2>1. reply'[r].status = 500
    BY <1>2, <1>4 DEF Fail, IInv, TypeOK
  <2> QED
    BY <2>1 DEF Misses
<1>5. CASE Calling(r) /\ Step(r)
  <2>1. /\ Name(r) \in PhysicalName /\ pc[r] \in Path[call[r].kind]
        /\ call[r] \in Call /\ reply[r] = Status(0)
        /\ Present(db, Name(r)) /\ id \in Stored(db, Name(r))
    BY <1>5, AtLabel
    DEF HistoryOK, HoldsPoint, PointAt, IInv, TypeOK, Present, Stored,
        StoredCollection
  <2>2. CASE collection_exists(r)
    <3>1. reply'[r] = Status(0)
      BY <2>1, <2>2 DEF collection_exists, Goto, get_collections, IInv, TypeOK
    <3> QED
      BY <1>2, <3>1 DEF Misses
  <2>3. CASE owned_point(r)
    <3>1. call[r].kind \in {"get", "update", "delete"}
      BY <2>1, <2>3, CallFacts DEF owned_point, At, Path
    <3>2. call[r].id = id /\ reply'[r].status = 404
      BY <1>1, <3>1 DEF Misses, OnPoint
    <3>3. db[Name(r)].points[id].payload.user_id = User(r)
      BY <1>5, <2>1, OwnSelected
    <3>4. db[Name(r)].points[id] # None
      BY <2>1 DEF Stored
    <3>5. reply'[r] \in {Status(0), Shows(200, {id})}
      BY <2>1, <2>3, <3>2, <3>3, <3>4
      DEF owned_point, Answer, Goto, IInv, TypeOK
    <3> QED
      BY <1>2, <3>2, <3>5 DEF Shows
  <2>4. CASE scroll(r)
    <3>1. call[r].kind = "page"
      BY <2>1, <2>4, CallFacts DEF scroll, At, Path
    <3>2. reply'[r].status = 200
      BY <2>1, <2>4 DEF scroll, Finds, Answer, Shows, IInv, TypeOK
    <3> QED
      BY <1>1, <2>4, <3>1, <3>2, PageShowsAll DEF Misses, OnPoint
  <2>5. CASE \/ create_collection_call(r) \/ create_payload_indexes(r)
             \/ count_selected(r) \/ count_left(r) \/ drop(r) \/ query(r)
    <3>1. pc[r] \in {"create_collection", "create_payload_index", "count",
                     "count_left", "drop", "query"}
      BY <2>5 DEF create_collection_call, create_payload_indexes,
         count_selected, count_left, drop, query, At
    <3> QED
      BY <1>1, <2>1, <3>1, CallFacts DEF Path, Misses, OnPoint
  <2>6. CASE \/ assert_dimension_matches(r) \/ upsert_call(r) \/ delete_selected(r)
    <3>1. pc[r] \in {"get_collection", "upsert", "delete"}
      BY <2>6 DEF assert_dimension_matches, upsert_call, delete_selected, At
    <3>2. call[r].kind # "page"
      BY <2>1, <3>1 DEF Path
    <3>3. reply'[r].status \in {0, 200, 201, 409, 500}
      BY <1>2, <2>1, <2>6
      DEF assert_dimension_matches, upsert_call, delete_selected, Raise, Answer,
          Goto, Shows, Deleted, IInv, TypeOK
    <3> QED
      BY <1>1, <3>2, <3>3 DEF Misses, OnPoint
  <2> QED
    BY <1>3, <1>5, <2>2, <2>3, <2>4, <2>5, <2>6 DEF Step
<1>6. Calling(r) \/ pc[r] = "respond"
  BY StepServes DEF Calling
<1>7. CASE pc[r] = "respond" /\ Step(r)
  BY <1>3, <1>7 DEF Step, collection_exists, create_collection_call,
     create_payload_indexes, assert_dimension_matches, owned_point, upsert_call,
     count_selected, delete_selected, count_left, drop, query, scroll, At
<1> QED
  BY <1>4, <1>5, <1>6, <1>7

\* Every step keeps what was acknowledged visible, or removes it.
LEMMA VisibleStep ==
    ASSUME HInv, VInv, NEW q \in Request, Receive(q) \/ Step(q) \/ Fail(q)
    PROVE  AcknowledgedIsVisible'
<1> SUFFICES ASSUME NEW r \in Request, NEW id \in Request,
                    id \in before'[r], Stores(id)', reply'[id].status = 201,
                    Kind(r)' # "none", Name(r)' = Name(id)', Misses(r, id)'
             PROVE  \E p \in Request : id \in removed'[p]
  BY DEF AcknowledgedIsVisible
<1>1. MoveOf(q) /\ (r = q => Step(q) \/ Fail(q)) /\ HInv'
  <2>1. r = q => Step(q) \/ Fail(q)
    BY BaseHolds, ArrivalAnswers DEF HInv, Misses
  <2>2. HInv'
    BY NextHistory DEF Next
  <2> QED
    BY <2>1, <2>2, OneMoves DEF HInv
<1>2. pc[r] # "idle"
  BY <1>1, StepServes DEF MoveOf, Kind
<1>3. /\ id \in before[r] /\ pc[id] = "done" /\ id # q
      /\ Name(r)' = Name(r) /\ Kind(r)' = Kind(r) /\ call'[r] = call[r]
  <2>1. /\ Name(r)' = Name(r) /\ Kind(r)' = Kind(r) /\ call'[r] = call[r]
        /\ before'[r] = before[r]
    BY <1>1, <1>2, ArrivedStays
  <2>2. pc[id] = "done"
    BY <1>2, <2>1 DEF HInv, HistoryOK
  <2> QED
    BY <1>1, <2>1, <2>2 DEF MoveOf
<1>4. /\ Stores(id) /\ reply[id].status = 201 /\ Name(id)' = Name(id)
  <2>1. Name(id)' = Name(id) /\ Kind(id)' = Kind(id)
    BY <1>1, <1>3, ArrivedStays
  <2>2. reply'[id] = reply[id]
    BY <1>1, <1>3 DEF MoveOf
  <2> QED
    BY <2>1, <2>2 DEF Stores
<1>5. CASE Misses(r, id)
  <2>1. Kind(r) # "none" /\ Name(r) = Name(id)
    BY <1>3, <1>4
  <2>2. \E p \in Request : id \in removed[p]
    <3>1. \A s, i \in Request :
            /\ i \in before[s] /\ Stores(i) /\ reply[i].status = 201
            /\ Kind(s) # "none" /\ Name(s) = Name(i) /\ Misses(s, i)
            => \E p \in Request : i \in removed[p]
      BY DEF VInv, AcknowledgedIsVisible
    <3> QED
      BY <1>3, <1>4, <1>5, <2>1, <3>1
  <2> QED
    BY <2>2, RecordedHolds, GoneStays
<1>6. CASE ~Misses(r, id)
  <2>1. r = q
    BY <1>1, <1>3, <1>6 DEF MoveOf, Misses, OnPoint
  <2>2. ~HoldsPoint(Name(r), id)
    BY <1>1, <1>6, <2>1, SeesWhatIsHeld DEF Id
  <2>3. Name(r) = Name(id)
    BY <1>3, <1>4
  <2>4. ~HoldsPoint(Name(id), id)
    BY <2>2, <2>3
  <2>5. \E p \in Request : id \in removed[p]
    BY <1>4, <2>4 DEF VInv, HeldOrRemoved
  <2> QED
    BY <2>5, RecordedHolds, GoneStays
<1> QED
  BY <1>5, <1>6

\* Every step keeps the visibility invariant.
LEMMA VStep == HInv /\ VInv /\ [Next]_vars => VInv'
<1>1. ASSUME VInv, UNCHANGED vars
      PROVE  VInv'
  BY <1>1 DEF VInv, HeldOrRemoved, AcknowledgedIsVisible, Misses, OnPoint,
     HoldsPoint, PointAt, Stores, Kind, Name, vars
<1> QED
  BY <1>1, HeldStep, VisibleStep DEF VInv, Next, Quiet

\* A store that was acknowledged before a request arrived is found by it,
\* unless some deletion really removed the point.
THEOREM Visibility == Spec => []AcknowledgedIsVisible
<1>1. Init => VInv
  BY DEF Init, VInv, HeldOrRemoved, AcknowledgedIsVisible, Stores, Kind
<1>2. VInv => AcknowledgedIsVisible
  BY DEF VInv
<1> QED
  BY <1>1, <1>2, VStep, History, PTL DEF Spec

-----------------------------------------------------------------------------
(* Deleted points: only an update brings one back *)

\* The deletion r covers the point, whatever else it covers.
Erases(r, id) ==
    \/ Kind(r) = "delete" /\ call[r].id = id
    \/ Kind(r) = "bulk_delete" /\ (call[r].all \/ id \in call[r].ids)
    \/ Kind(r) = "delete_collection"

\* It has been carried out, and was answered or will be.
Erased(r) ==
    \/ pc[r] = "count_left"
    \/ pc[r] = "drop" /\ Kind(r) = "bulk_delete"
    \/ pc[r] \in {"respond", "done"} /\ reply[r].status \in {200, 201}

\* u is an update of the point, past the read it writes back.
HasRead(u, id) ==
    /\ Kind(u) = "update" /\ call[u].id = id
    /\ pc[u] \in {"get_collection", "upsert"}

\* The point is gone, and nobody is about to write it back.
StaysAway(r, id) ==
    /\ ~HoldsPoint(Name(r), id)
    /\ \A u \in Request : HasRead(u, id) => Name(u) # Name(r)

Rewrites(u, r, id) == Overlaps(u, r) /\ Kind(u) = "update" /\ call[u].id = id

ErasedStaysAway ==
    \A r, id \in Request :
        Erases(r, id) /\ id \in before[r] /\ Erased(r) =>
            /\ Name(r) \in PhysicalName
            /\ StaysAway(r, id) \/ \E u \in Request : Rewrites(u, r, id)

\* The selector a deletion sends to Qdrant covers the points it is to erase.
LEMMA SelectorCovers ==
    ASSUME HInv, NEW r \in Request, Calling(r), Present(db, Name(r)),
           NEW id \in Stored(db, Name(r)), Erases(r, id)
    PROVE  id \in Selected(db, Name(r), selector(r))
<1>1. /\ Selected(db, Name(r), owned_by(User(r))) = Stored(db, Name(r))
      /\ \A ids : Selected(db, Name(r), scoped_ids(User(r), ids)) =
                    Stored(db, Name(r)) \intersect ids
  BY OwnSelected DEF HInv
<1>2. call[r].kind = Kind(r)
  BY DEF Kind, Calling
<1>3. CASE Kind(r) = "delete"
  BY <1>1, <1>2, <1>3 DEF Erases, selector
<1>4. CASE Kind(r) = "delete_collection"
  BY <1>1, <1>2, <1>4 DEF selector
<1>5. CASE Kind(r) = "bulk_delete" /\ call[r].all
  BY <1>1, <1>2, <1>5 DEF selector
<1>6. CASE Kind(r) = "bulk_delete" /\ ~call[r].all
  BY <1>1, <1>2, <1>6 DEF Erases, selector
<1> QED
  BY <1>3, <1>4, <1>5, <1>6 DEF Erases

\* The step that carries a deletion out leaves the point out of the collection.
LEMMA ErasesNow ==
    ASSUME HInv, NEW r \in Request, Step(r) \/ Fail(r), NEW id \in Id,
           Erases(r, id), ~Erased(r), Erased(r)'
    PROVE  /\ Calling(r) /\ Name(r) \in PhysicalName
           /\ PointAt(db', Name(r), id) = None
<1> USE DEF HInv
<1>1. /\ MoveOf(r) /\ call[r].kind \in {"delete", "bulk_delete", "delete_collection"}
      /\ Kind(r) = call[r].kind /\ Kind(r)' = Kind(r)
  BY StepServes, OneMoves, ArrivedStays DEF Kind, Erases
<1>2. \A code : Status(code).status = code
  BY DEF Status, Shows
<1>3. ~Raise(r)
  <2>1. Raise(r) => reply'[r].status = 500 /\ pc'[r] = "respond"
    BY <1>2 DEF Raise, Answer, IInv, TypeOK
  <2> QED
    BY <2>1 DEF Erased
<1>4. CASE Calling(r)
  <2>1. /\ Name(r) \in PhysicalName /\ pc[r] \in Path[call[r].kind]
        /\ reply[r].status = 0
    BY <1>2, <1>4, AtLabel DEF HistoryOK
  <2>2. Present(db, Name(r)) => (id \in Stored(db, Name(r)) <=> HoldsPoint(Name(r), id))
    BY <2>1 DEF HoldsPoint, PointAt, IInv, TypeOK, Present, Stored, StoredCollection
  <2>3. CASE count_selected(r)
    <3>1. Present(db, Name(r)) /\ matching(r) = 0 /\ db' = db
      <4>1. Present(db, Name(r)) /\ db' = db
        BY <1>3, <2>3 DEF count_selected, Reads
      <4>2. \A label \in {"drop", "delete"} : Goto(r, label) =>
                pc'[r] = label /\ reply'[r].status = 0
        BY <2>1 DEF Goto, IInv, TypeOK
      <4>3. ~Goto(r, "delete")
        BY <4>2 DEF Erased
      <4>4. call[r].kind = "delete_collection" => ~Goto(r, "drop")
        BY <1>1, <4>2 DEF Erased
      <4> QED
        BY <2>3, <4>1, <4>3, <4>4 DEF count_selected
    <3>2. Selected(db, Name(r), selector(r)) \subseteq Request
      BY <2>1, <3>1, SelectedAreHeld DEF IInv, Id
    <3>3. IsFiniteSet(Selected(db, Name(r), selector(r)))
      BY <3>2, RepositoryAssumption, FS_Subset
    <3>4. Selected(db, Name(r), selector(r)) = {}
      BY <3>1, <3>3, FS_EmptySet DEF matching, count
    <3>5. ~HoldsPoint(Name(r), id)
      BY <1>4, <2>2, <3>1, <3>4, SelectorCovers
    <3> QED
      BY <1>4, <2>1, <3>1, <3>5 DEF HoldsPoint
  <2>4. CASE delete_selected(r)
    <3>1. Present(db, Name(r)) /\ db' = delete(db, Name(r), selector(r))
      BY <1>3, <2>4 DEF delete_selected
    <3>2. id \in Selected(db, Name(r), selector(r)) \/ ~HoldsPoint(Name(r), id)
      BY <1>4, <2>2, <3>1, SelectorCovers
    <3> QED
      BY <1>4, <2>1, <3>1, <3>2, DeleteShrinks DEF HoldsPoint, PointAt, IInv
  <2>5. CASE drop(r)
    BY <1>4, <2>1, <2>5 DEF drop, delete_collection, PointAt, IInv, TypeOK
  <2>6. CASE collection_exists(r)
    <3>1. FirstCall[call[r].kind] \in {"retrieve", "count"}
      BY <1>1 DEF FirstCall
    <3>2. /\ pc'[r] \in {"retrieve", "count", "respond"}
          /\ reply'[r].status \in {0, 404}
      BY <1>1, <1>2, <2>1, <2>6, <3>1
      DEF collection_exists, Goto, Answer, IInv, TypeOK
    <3> QED
      BY <3>2 DEF Erased
  <2>7. CASE owned_point(r)
    <3>1. call[r].kind = "delete"
      BY <1>1, <2>1, <2>7 DEF owned_point, At, Path
    <3>2. pc'[r] \in {"delete", "respond"} /\ reply'[r].status \in {0, 404, 500}
      BY <1>2, <2>1, <2>7, <3>1
      DEF owned_point, Goto, Answer, Raise, IInv, TypeOK
    <3> QED
      BY <3>2 DEF Erased
  <2>8. CASE count_left(r)
    BY <2>8 DEF count_left, At, Erased
  <2>10. CASE Fail(r)
    <3>1. pc'[r] = "done" /\ reply'[r].status = 500
      BY <1>2, <2>10 DEF Fail, IInv, TypeOK
    <3> QED
      BY <3>1 DEF Erased
  <2>9. CASE \/ create_collection_call(r) \/ create_payload_indexes(r)
             \/ assert_dimension_matches(r) \/ upsert_call(r) \/ query(r)
             \/ scroll(r) \/ respond(r)
    <3>1. pc[r] \in {"create_collection", "create_payload_index",
                     "get_collection", "upsert", "query", "scroll", "respond"}
      BY <2>9 DEF create_collection_call, create_payload_indexes,
         assert_dimension_matches, upsert_call, query, scroll, respond, At
    <3> QED
      BY <1>1, <1>4, <2>1, <3>1 DEF Path, Calling
  <2> QED
    BY <2>3, <2>4, <2>5, <2>6, <2>7, <2>8, <2>9, <2>10 DEF Step
<1>5. CASE ~Calling(r)
  <2>1. pc[r] = "respond"
    BY <1>5, StepServes DEF Calling
  <2>2. respond(r) \/ Fail(r)
    BY <2>1 DEF Step, collection_exists, create_collection_call,
       create_payload_indexes, assert_dimension_matches, owned_point,
       upsert_call, count_selected, delete_selected, count_left, drop, query,
       scroll, At
  <2>3. pc'[r] = "done" /\ reply'[r].status \in {reply[r].status, 500}
    BY <1>2, <2>2 DEF respond, Fail, At, IInv, TypeOK
  <2> QED
    BY <2>1, <2>3 DEF Erased
<1> QED
  BY <1>4, <1>5

\* An update reads the point it is to write back in its own collection.
LEMMA ReadsWhatIsHeld ==
    ASSUME Base, NEW q \in Request, Receive(q) \/ Step(q) \/ Fail(q),
           NEW id, HasRead(q, id)'
    PROVE  \/ HasRead(q, id) /\ Name(q)' = Name(q)
           \/ /\ HoldsPoint(Name(q), id) /\ Name(q)' = Name(q)
              /\ Name(q) \in PhysicalName
<1>1. MoveOf(q) /\ ~Receive(q)
  BY MovesAlone, ArrivalAnswers DEF HasRead
<1>2. /\ pc[q] \notin {"idle", "done"} /\ call'[q] = call[q] /\ Name(q)' = Name(q)
      /\ call[q].kind = "update" /\ call[q].id = id
  BY <1>1, StepServes, ArrivedStays DEF HasRead, Kind
<1>3. CASE pc[q] \in {"get_collection", "upsert"}
  BY <1>2, <1>3 DEF HasRead, Kind
<1>4. CASE owned_point(q)
  <2>1. Present(db, Name(q)) /\ db[Name(q)].points[id] # None
    BY <1>2, <1>4 DEF owned_point, HasRead, Answer, Raise, Base, TypeOK
  <2>2. Calling(q)
    BY <1>4 DEF owned_point, At, Calling
  <2>3. Name(q) \in PhysicalName
    BY <2>2, AtCall
  <2> QED
    BY <1>2, <2>1, <2>3 DEF HoldsPoint, PointAt, Present
<1>5. CASE collection_exists(q)
  <2>1. pc'[q] \in {"retrieve", "respond"}
    BY <1>2, <1>5 DEF collection_exists, FirstCall, Goto, Answer, Base, TypeOK
  <2> QED
    BY <2>1 DEF HasRead
<1>6. CASE \/ create_collection_call(q) \/ create_payload_indexes(q)
           \/ count_selected(q) \/ delete_selected(q) \/ count_left(q)
           \/ drop(q) \/ query(q) \/ scroll(q)
  <2>1. /\ Calling(q)
        /\ pc[q] \in {"create_collection", "create_payload_index", "count",
                      "delete", "count_left", "drop", "query", "scroll"}
    BY <1>6 DEF create_collection_call, create_payload_indexes, count_selected,
       delete_selected, count_left, drop, query, scroll, At, Calling
  <2> QED
    BY <1>2, <2>1, AtCall DEF Path
<1>7. CASE respond(q) \/ Fail(q)
  BY <1>7 DEF respond, Fail, HasRead, Base, TypeOK
<1> QED
  BY <1>1, <1>3, <1>4, <1>5, <1>6, <1>7
  DEF Step, assert_dimension_matches, upsert_call, At

\* A point that is gone, and that nobody is about to write back, stays away.
LEMMA AwayStays ==
    ASSUME Base, NEW q \in Request, Receive(q) \/ Step(q) \/ Fail(q),
           NEW r \in Request, pc[r] # "idle", Name(r) \in PhysicalName,
           NEW id \in Request, pc[id] \in {"idle", "done"}, StaysAway(r, id)
    PROVE  StaysAway(r, id)'
<1>1. MoveOf(q) /\ Name(r)' = Name(r)
  BY MovesAlone, ArrivedStays
<1>2. PointAt(db', Name(r), id) = None
  <2>1. ~(Name(r) = Name(q) /\ WritesPoint(q, id))
    BY <1>1 DEF WritesPoint, MoveOf, StaysAway, HasRead
  <2> QED
    BY <2>1, PointChanges DEF StaysAway, HoldsPoint, Id
<1>3. ASSUME NEW u \in Request, HasRead(u, id)'
      PROVE  Name(u)' # Name(r)
  <2>1. CASE u # q
    <3>1. HasRead(u, id) /\ pc[u] # "idle"
      BY <1>1, <1>3, <2>1 DEF HasRead, MoveOf, Kind
    <3> QED
      BY <1>1, <3>1, ArrivedStays DEF StaysAway
  <2>2. CASE u = q
    BY <1>3, <2>2, ReadsWhatIsHeld DEF StaysAway
  <2> QED
    BY <2>1, <2>2
<1> QED
  BY <1>1, <1>2, <1>3 DEF StaysAway, HoldsPoint

\* Every step keeps what was erased away, or an overlapping update is to blame.
LEMMA ErasedStep == HInv /\ ErasedStaysAway /\ [Next]_vars => ErasedStaysAway'
<1>1. ASSUME ErasedStaysAway, UNCHANGED vars
      PROVE  ErasedStaysAway'
  BY <1>1 DEF ErasedStaysAway, Erases, Erased, StaysAway, Rewrites, HasRead,
     Overlaps, HoldsPoint, PointAt, Kind, Name, vars
<1>2. ASSUME HInv, ErasedStaysAway, NEW q \in Request,
             Receive(q) \/ Step(q) \/ Fail(q)
      PROVE  ErasedStaysAway'
  <2> SUFFICES ASSUME NEW r \in Request, NEW id \in Request,
                      Erases(r, id)', id \in before'[r], Erased(r)'
               PROVE  /\ Name(r)' \in PhysicalName
                      /\ \/ StaysAway(r, id)'
                         \/ \E u \in Request : Rewrites(u, r, id)'
    BY DEF ErasedStaysAway
  <2>1. MoveOf(q) /\ (r = q => Step(q) \/ Fail(q))
    BY <1>2, BaseHolds, OneMoves, ArrivalAnswers DEF HInv, Erased
  <2>2. pc[r] # "idle"
    BY <2>1, StepServes DEF MoveOf, Erases, Kind
  <2>3. /\ Name(r)' = Name(r) /\ Kind(r)' = Kind(r) /\ call'[r] = call[r]
        /\ id \in before[r]
    BY <2>1, <2>2, ArrivedStays
  <2>4. Erases(r, id)
    BY <2>3 DEF Erases
  <2>5. CASE Erased(r)
    <3>1. /\ Name(r) \in PhysicalName
          /\ StaysAway(r, id) \/ \E u \in Request : Rewrites(u, r, id)
      BY <1>2, <2>3, <2>4, <2>5 DEF ErasedStaysAway
    <3>2. ASSUME NEW u \in Request, Rewrites(u, r, id)
          PROVE  Rewrites(u, r, id)'
      <4>1. Overlaps(u, r)' /\ pc[u] # "idle"
        BY <2>1, <2>2, <3>2, OverlapStays DEF Rewrites, Overlaps
      <4> QED
        BY <2>1, <3>2, <4>1, ArrivedStays DEF Rewrites
    <3> QED
      BY <1>2, <2>2, <2>3, <3>1, <3>2, BaseHolds, AwayStays DEF HInv, HistoryOK
  <2>6. CASE ~Erased(r)
    <3>1. r = q
      BY <2>1, <2>3, <2>6 DEF Erased, MoveOf
    <3>2. /\ Calling(r) /\ Name(r) \in PhysicalName
          /\ PointAt(db', Name(r), id) = None
      BY <1>2, <2>1, <2>4, <2>6, <3>1, ErasesNow DEF Id
    <3>3. CASE \E u \in Request \ {r} : HasRead(u, id)
      <4>1. PICK u \in Request \ {r} : HasRead(u, id)
        BY <3>3
      <4>2. pc[u] \notin {"idle", "done"} /\ pc[r] \notin {"idle", "done"}
        BY <3>2, <4>1 DEF HasRead, Calling
      <4>3. Overlaps(u, r)'
        BY <1>2, <2>1, <4>2, ServedTogether, OverlapStays DEF HInv
      <4>4. Rewrites(u, r, id)'
        BY <2>1, <4>1, <4>2, <4>3, ArrivedStays DEF Rewrites, HasRead
      <4> QED
        BY <2>3, <3>2, <4>4
    <3>4. CASE \A u \in Request \ {r} : ~HasRead(u, id)
      <4>1. \A u \in Request : ~HasRead(u, id)'
        BY <2>1, <2>3, <2>4, <3>1, <3>4 DEF HasRead, Erases, MoveOf, Kind
      <4> QED
        BY <2>3, <3>2, <4>1 DEF StaysAway, HoldsPoint
    <3> QED
      BY <3>3, <3>4
  <2> QED
    BY <2>5, <2>6
<1> QED
  BY <1>1, <1>2 DEF Next, Quiet

\* A point that a deletion erased is back after the deletion was acknowledged
\* only if an update of it overlapped the deletion.
THEOREM ReturnsByUpdate == Spec => []ReturnNeedsAnUpdate
<1>1. Init => ErasedStaysAway
  BY DEF Init, ErasedStaysAway, Erases, Kind
<1>2. ErasedStaysAway => ReturnNeedsAnUpdate
  BY DEF ErasedStaysAway, ReturnNeedsAnUpdate, Acknowledged, Erased, Erases,
     StaysAway, Rewrites
<1> QED
  BY <1>1, <1>2, ErasedStep, History, PTL DEF Spec

-----------------------------------------------------------------------------
(* Bulk deletes by ids: what they take along was being written *)

\* r has removed the point, or is about to drop it with its collection.
Threatens(r, id) ==
    id \in removed[r] \/ (pc[r] = "drop" /\ HoldsPoint(Name(r), id))

\* r is a bulk delete by ids, and the point an old one that it does not name.
Spares(r, id) ==
    /\ Kind(r) = "bulk_delete" /\ call[r].ids # {}
    /\ id \in before[r] /\ id \notin call[r].ids

UpdatesSince(r, id) ==
    \E u \in Request \ before[r] : Kind(u) = "update" /\ call[u].id = id

SparedUnlessUpdated ==
    \A r \in Request, id \in Id :
        Spares(r, id) /\ Threatens(r, id) => UpdatesSince(r, id)

\* A bulk delete by ids selects no other points.
LEMMA SelectsIds ==
    ASSUME IInv, NEW r \in Request, Calling(r), Kind(r) = "bulk_delete",
           call[r].ids # {}, Present(db, Name(r))
    PROVE  Selected(db, Name(r), selector(r)) \subseteq call[r].ids
<1>1. call[r] \in Call /\ call[r].kind = "bulk_delete"
  BY AtLabel DEF Kind, Calling
<1>2. call[r] \in BulkCall
  BY <1>1 DEF Call, CreateCall, PointCall, UpdateCall, DropCall, ReadCall
<1>3. ~call[r].all
  BY <1>2 DEF BulkCall, check_selector
<1> QED
  BY <1>1, <1>3, OwnSelected DEF selector

\* A bulk delete by ids does not, by its own step, come to threaten a point it
\* does not name.
LEMMA SparesAlone ==
    ASSUME HInv, NEW r \in Request, Step(r) \/ Fail(r), NEW id \in Id,
           Spares(r, id), ~Threatens(r, id)
    PROVE  ~Threatens(r, id)'
<1> USE DEF HInv
<1>1. /\ MoveOf(r) /\ Records(r) /\ pc[r] \notin {"idle", "done"}
      /\ call[r].kind = "bulk_delete" /\ Name(r)' = Name(r)
  BY BaseHolds, OneMoves, StepRecords, StepServes, ArrivedStays DEF Spares, Kind
<1>2. id \notin removed'[r]
  <2>1. CASE delete_selected(r)
    <3>1. Calling(r)
      BY <2>1 DEF delete_selected, At, Calling
    <3>2. \/ removed'[r] = removed[r]
          \/ /\ Present(db, Name(r))
             /\ removed'[r] = Selected(db, Name(r), selector(r))
      BY <2>1 DEF delete_selected, IInv, TypeOK
    <3> QED
      BY <3>1, <3>2, SelectsIds DEF Spares, Threatens
  <2>2. CASE drop(r)
    <3>1. pc[r] = "drop" /\ Calling(r)
      BY <2>2 DEF drop, At, Calling
    <3>2. removed'[r] = removed[r] \union
            IF Present(db, Name(r)) THEN Stored(db, Name(r)) ELSE {}
      BY <2>2 DEF drop, IInv, TypeOK
    <3>3. Present(db, Name(r)) =>
            \A i \in Stored(db, Name(r)) : HoldsPoint(Name(r), i)
      BY <3>1, AtLabel, SelectedAreHeld DEF IInv
    <3> QED
      BY <3>1, <3>2, <3>3 DEF Threatens
  <2>3. CASE ~delete_selected(r) /\ ~drop(r)
    <3>1. removed' = removed
      BY <2>3 DEF Step, Fail, collection_exists, create_collection_call,
         create_payload_indexes, assert_dimension_matches, owned_point,
         upsert_call, count_selected, count_left, query, scroll, respond, Reads
    <3> QED
      BY <3>1 DEF Threatens
  <2> QED
    BY <2>1, <2>2, <2>3
<1>3. ASSUME pc'[r] = "drop"
      PROVE  PointAt(db', Name(r), id) = None
  <2>1. pc[r] \in {"count", "count_left"} /\ Step(r)
    BY <1>1, <1>3 DEF Records, Fail, IInv, TypeOK
  <2>2. count_selected(r) \/ count_left(r)
    BY <2>1 DEF Step, collection_exists, create_collection_call,
       create_payload_indexes, assert_dimension_matches, owned_point,
       upsert_call, delete_selected, drop, query, scroll, respond, At
  <2>3. count_left(r)
    BY <1>1, <1>3, <2>2
    DEF count_selected, Goto, Answer, Raise, IInv, TypeOK
  <2>4. Present(db, Name(r)) /\ Stored(db, Name(r)) = {} /\ db' = db
    BY <1>1, <1>3, <2>3
    DEF count_left, left, Reads, Goto, Answer, Raise, IInv, TypeOK
  <2>5. Calling(r)
    BY <2>1 DEF Calling
  <2> QED
    BY <2>4, <2>5, AtLabel
    DEF PointAt, Present, Stored, IInv, TypeOK, StoredCollection
<1> QED
  BY <1>1, <1>2, <1>3 DEF Threatens, HoldsPoint

\* Another request's step makes it threaten one only by an update of it.
LEMMA SparesBeside ==
    ASSUME HInv, NEW q \in Request, Receive(q) \/ Step(q) \/ Fail(q),
           NEW r \in Request, r # q, NEW id \in Id,
           Spares(r, id), ~Threatens(r, id), Threatens(r, id)'
    PROVE  UpdatesSince(r, id)'
<1> USE DEF HInv
<1>1. MoveOf(q) /\ pc[r] # "idle" /\ pc[id] = "done" /\ id # q
  BY OneMoves DEF Spares, Kind, HistoryOK, MoveOf
<1>2. /\ pc'[r] = pc[r] /\ removed'[r] = removed[r] /\ Name(r)' = Name(r)
      /\ before'[r] = before[r]
  BY <1>1, ArrivedStays DEF MoveOf
<1>3. /\ pc[r] = "drop" /\ ~HoldsPoint(Name(r), id)
      /\ PointAt(db', Name(r), id) # None
  BY <1>2 DEF Threatens, HoldsPoint
<1>4. Name(r) \in PhysicalName
  BY <1>3, AtLabel DEF Calling
<1>5. WritesPoint(q, id)
  BY <1>3, <1>4, BaseHolds, PointChanges
<1>6. pc[q] = "upsert" /\ Kind(q) = "update" /\ call[q].id = id
  BY <1>1, <1>5 DEF WritesPoint
<1>7. q \notin before[r] /\ Kind(q)' = "update" /\ call'[q].id = id
  BY <1>1, <1>6, ArrivedStays DEF HistoryOK
<1> QED
  BY <1>2, <1>7 DEF UpdatesSince

\* Every step keeps the bulk deletes' invariant.
LEMMA SparesStep == HInv /\ SparedUnlessUpdated /\ [Next]_vars => SparedUnlessUpdated'
<1>1. ASSUME SparedUnlessUpdated, UNCHANGED vars
      PROVE  SparedUnlessUpdated'
  BY <1>1 DEF SparedUnlessUpdated, Spares, Threatens, UpdatesSince, HoldsPoint,
     PointAt, Kind, Name, vars
<1>2. ASSUME HInv, SparedUnlessUpdated, NEW q \in Request,
             Receive(q) \/ Step(q) \/ Fail(q)
      PROVE  SparedUnlessUpdated'
  <2> SUFFICES ASSUME NEW r \in Request, NEW id \in Id,
                      Spares(r, id)', Threatens(r, id)'
               PROVE  UpdatesSince(r, id)'
    BY DEF SparedUnlessUpdated
  <2>1. MoveOf(q) /\ HInv'
    BY <1>2, OneMoves, NextHistory DEF HInv, Next
  <2>2. CASE r = q /\ Receive(q)
    <3>1. pc'[r] \in {"collection_exists", "respond"}
      BY <1>2, <2>2, BaseHolds, ArrivalAnswers DEF HInv
    <3>2. removed'[r] = {}
      BY <1>2, <2>2 DEF Receive, HInv, HistoryOK
    <3> QED
      BY <3>1, <3>2 DEF Threatens
  <2>3. CASE r # q \/ ~Receive(q)
    <3>1. pc[r] # "idle"
      BY <1>2, <2>1, <2>3, StepServes DEF MoveOf, Spares, Kind
    <3>2. Spares(r, id) /\ before'[r] = before[r]
      BY <2>1, <3>1, ArrivedStays DEF Spares
    <3>3. CASE ~Threatens(r, id)
      BY <1>2, <2>3, <3>2, <3>3, SparesAlone, SparesBeside
    <3>4. CASE Threatens(r, id)
      <4>1. PICK u \in Request \ before[r] : Kind(u) = "update" /\ call[u].id = id
        BY <1>2, <3>2, <3>4 DEF SparedUnlessUpdated, UpdatesSince
      <4>2. Kind(u)' = "update" /\ call'[u].id = id
        BY <2>1, <4>1, ArrivedStays DEF Kind
      <4> QED
        BY <3>2, <4>1, <4>2 DEF UpdatesSince
    <3> QED
      BY <3>3, <3>4
  <2> QED
    BY <2>2, <2>3
<1> QED
  BY <1>1, <1>2 DEF Next, Quiet

\* A bulk delete by ids takes another, old point along only when an update was
\* rewriting it.
THEOREM LossesByRace == Spec => []LossNeedsARace
<1>1. Init => SparedUnlessUpdated
  BY DEF Init, SparedUnlessUpdated, Spares, Kind
<1>2. SparedUnlessUpdated => LossNeedsARace
  BY DEF SparedUnlessUpdated, LossNeedsARace, Spares, Threatens, UpdatesSince
<1> QED
  BY <1>1, <1>2, SparesStep, History, PTL DEF Spec

-----------------------------------------------------------------------------
(* No collection stays behind empty *)

\* The deletion of a collection deletes points only where it does not drop.
DropsAtOnce ==
    \A r \in Request :
        pc[r] = "delete" /\ Kind(r) = "delete_collection" => ~DropEmpty

EInv == EmptyIsExplained /\ DropsAtOnce

\* What is stored is what is at some id.
LEMMA StoredPoints ==
    ASSUME NEW d \in [PhysicalName -> StoredCollection \union {Absent}],
           NEW n \in PhysicalName, Present(d, n)
    PROVE  Stored(d, n) = {id \in Id : PointAt(d, n, id) # None}
<1>1. d[n] \in StoredCollection
  BY DEF Present
<1>2. DOMAIN d[n].points = Id
  BY <1>1 DEF StoredCollection
<1> QED
  BY <1>2 DEF Stored, PointAt, Present

\* A collection that is there before and after a step keeps its width.
LEMMA WidthStays ==
    ASSUME IInv, NEW q \in Request, Receive(q) \/ Step(q) \/ Fail(q),
           NEW n \in PhysicalName, Present(db, n), Present(db', n)
    PROVE  db'[n].dim = db[n].dim
<1> SUFFICES ASSUME db'[n] # db[n] PROVE db'[n].dim = db[n].dim
  OBVIOUS
<1>1. /\ Calling(q) /\ n = Name(q)
      /\ \/ create_collection_call(q) \/ create_payload_indexes(q)
         \/ upsert_call(q) \/ delete_selected(q) \/ drop(q)
  BY BaseHolds, OwnCollection
<1>2. CASE create_collection_call(q)
  BY <1>1, <1>2 DEF create_collection_call
<1>3. CASE create_payload_indexes(q)
  BY <1>3, BaseHolds, IndexEffect DEF Present
<1>4. CASE upsert_call(q)
  <2>1. pc[q] = "upsert" /\ db' # db
    BY <1>4 DEF upsert_call, At
  <2> DEFINE id == IF call[q].kind = "create" THEN q ELSE call[q].id
             point == IF call[q].kind = "create" THEN new_point(q)
                      ELSE updated_point(q)
  <2>2. db' = upsert(db, Name(q), id, point)
    BY <1>4, <2>1 DEF upsert_call
  <2>3. id \in Id /\ point \in Point
    BY <2>1, WrittenPoint
  <2> HIDE DEF id, point
  <2> QED
    BY <1>1, <2>2, <2>3, UpsertEffect DEF IInv, Present
<1>5. CASE delete_selected(q)
  <2>1. db' = delete(db, Name(q), selector(q))
    BY <1>1, <1>5 DEF delete_selected
  <2> QED
    BY <1>1, <2>1, DeleteShrinks DEF IInv, Present
<1>6. CASE drop(q)
  BY <1>1, <1>6 DEF drop, delete_collection, IInv, TypeOK, Present
<1> QED
  BY <1>1, <1>2, <1>3, <1>4, <1>5, <1>6

\* Who creates a collection is on the way to write into it.
LEMMA CreatorExplains ==
    ASSUME IInv, NEW q \in Request, Receive(q) \/ Step(q) \/ Fail(q),
           NEW n \in PhysicalName, ~Present(db, n), Present(db', n)
    PROVE  Explains(q, n)'
<1>1. /\ Calling(q) /\ n = Name(q)
      /\ \/ create_collection_call(q) \/ create_payload_indexes(q)
         \/ upsert_call(q) \/ delete_selected(q) \/ drop(q)
  BY BaseHolds, OwnCollection DEF Present
<1>2. CASE create_collection_call(q)
  <2>1. /\ pc[q] = "create_collection" /\ UNCHANGED call
        /\ db' = create_collection(db, n, call[q].dim, Id)
        /\ pc'[q] \in {"create_payload_index", "get_collection"}
    BY <1>1, <1>2 DEF create_collection_call, At, Goto, IInv, TypeOK
  <2>2. db'[n].dim = call[q].dim
    BY <2>1 DEF create_collection, stored_collection, IInv, TypeOK
  <2>3. call[q].kind = "create"
    BY <1>1, <2>1, AtLabel, CallFacts DEF Path
  <2>4. Stores(q)' /\ Name(q)' = n /\ pc'[q] # "idle"
    BY <1>1, <2>1, <2>3 DEF Stores, Kind, Name
  <2> QED
    BY <2>1, <2>2, <2>4 DEF Explains
<1>3. CASE create_payload_indexes(q)
  BY <1>3, BaseHolds, IndexEffect DEF Present
<1>4. CASE upsert_call(q) \/ delete_selected(q)
  <2>1. UNCHANGED db
    BY <1>1, <1>4 DEF upsert_call, delete_selected
  <2> QED
    BY <2>1
<1>5. CASE drop(q)
  BY <1>1, <1>5 DEF drop, delete_collection, IInv, TypeOK, Present
<1> QED
  BY <1>1, <1>2, <1>3, <1>4, <1>5

\* Who takes the last point out of a collection drops it next, or never drops.
LEMMA ClearerExplains ==
    ASSUME HInv, DropsAtOnce, NEW q \in Request, Receive(q) \/ Step(q) \/ Fail(q),
           NEW n \in PhysicalName, Present(db, n), Present(db', n),
           NEW id \in Id, HoldsPoint(n, id), PointAt(db', n, id) = None
    PROVE  Explains(q, n)'
<1>1. n = Name(q) /\ id \in removed'[q] /\ IInv /\ Base
  BY BaseHolds, PointChanges DEF HInv
<1>2. db'[n] # db[n]
  BY DEF HoldsPoint, PointAt
<1>3. /\ Calling(q)
      /\ \/ create_collection_call(q) \/ create_payload_indexes(q)
         \/ upsert_call(q) \/ delete_selected(q) \/ drop(q)
  BY <1>1, <1>2, OwnCollection
<1>4. ~drop(q)
  BY <1>1 DEF drop, delete_collection, IInv, TypeOK, Present
<1>5. ~create_collection_call(q)
  BY <1>1, <1>2 DEF create_collection_call
<1>6. ~create_payload_indexes(q)
  BY <1>1, BaseHolds, IndexEffect DEF HoldsPoint, PointAt, Present
<1>7. ~upsert_call(q)
  <2> SUFFICES ASSUME upsert_call(q) PROVE FALSE
    OBVIOUS
  <2>1. pc[q] = "upsert"
    BY DEF upsert_call, At
  <2>2. removed[q] = {} /\ removed'[q] = {}
    BY <2>1 DEF upsert_call, HInv, HistoryOK
  <2> QED
    BY <1>1, <2>2
<1>8. delete_selected(q)
  BY <1>3, <1>4, <1>5, <1>6, <1>7
<1>9. /\ pc[q] = "delete" /\ UNCHANGED call /\ pc[q] # "idle"
       /\ Kind(q) = call[q].kind
  BY <1>8 DEF delete_selected, At, Kind
<1>10. call[q].kind \in {"delete", "bulk_delete", "delete_collection"}
       /\ owns(call[q].owner, n)
  BY <1>1, <1>3, <1>9, AtLabel, CallFacts DEF Path, owns, Name, physical_name
<1>11. MoveOf(q)
  BY <1>1, OneMoves
<1>12. Name(q)' = n /\ Kind(q)' = Kind(q) /\ pc'[q] # "idle"
  BY <1>1, <1>9, <1>11, ArrivedStays
<1>13. CASE call[q].kind = "delete" \/ ~DropEmpty
  BY <1>1, <1>9, <1>12, <1>13 DEF Explains
<1>14. CASE call[q].kind = "bulk_delete" /\ DropEmpty
  <2>1. pc'[q] = "count_left"
    BY <1>1, <1>8, <1>10, <1>14 DEF delete_selected, Goto, IInv, TypeOK
  <2> QED
    BY <1>1, <1>12, <2>1 DEF Explains
<1>15. CASE call[q].kind = "delete_collection" /\ DropEmpty
  BY <1>9, <1>15 DEF DropsAtOnce
<1> QED
  BY <1>10, <1>13, <1>14, <1>15

\* Who is on the way to write into an empty collection, or to drop it, goes on,
\* unless a fault ends it; and what has ended stays.
LEMMA ExplainerGoesOn ==
    ASSUME HInv, NEW q \in Request, Receive(q) \/ Step(q) \/ Fail(q),
           NEW n \in PhysicalName, Present(db, n), Present(db', n),
           Stored(db, n) = {}, Stored(db', n) = {}, Explains(q, n)
    PROVE  Explains(q, n)'
<1> USE DEF HInv, IInv, TypeOK
<1>1. /\ MoveOf(q) /\ pc[q] # "idle" /\ Name(q) = n /\ ~Receive(q)
      /\ removed[q] \subseteq removed'[q]
  BY OneMoves, RemovedStays, RecordedHolds DEF Explains, Receive
<1>2. /\ pc'[q] # "idle" /\ call'[q] = call[q] /\ Name(q)' = n
      /\ Kind(q)' = Kind(q) /\ (Stores(q)' <=> Stores(q))
  BY <1>1, ArrivedStays DEF Stores
<1>3. CASE Fail(q)
  <2>1. q \in Failing /\ reply'[q].status = 500
    BY <1>3 DEF Fail, Status, Shows
  <2> QED
    BY <1>1, <1>2, <2>1 DEF Explains
<1>4. CASE removed[q] # {} /\ (Kind(q) = "delete" \/ ~DropEmpty)
  BY <1>1, <1>2, <1>4 DEF Explains
<1>5. CASE Step(q) /\ q \in Failing /\ reply[q].status = 500 /\ (Stores(q) \/ removed[q] # {})
  <2>1. ~Calling(q)
    BY <1>5 DEF HistoryOK, Status, Shows
  <2>2. respond(q)
    BY <1>5, <2>1 DEF Step, collection_exists, create_collection_call,
       create_payload_indexes, assert_dimension_matches, owned_point, upsert_call,
       count_selected, delete_selected, count_left, drop, query, scroll, At, Calling
  <2>3. reply' = reply
    BY <2>2 DEF respond
  <2> QED
    BY <1>1, <1>2, <1>5, <2>3 DEF Explains
<1>6. CASE Step(q) /\ removed[q] # {} /\ pc[q] \in {"count_left", "drop"}
  <2>1. count_left(q) \/ drop(q)
    BY <1>6 DEF Step, collection_exists, create_collection_call,
       create_payload_indexes, assert_dimension_matches, owned_point, upsert_call,
       count_selected, delete_selected, query, scroll, respond, At
  <2>2. ~drop(q)
    BY <1>1 DEF drop, delete_collection, Present
  <2>3. pc'[q] = "drop"
    BY <1>1, <2>1, <2>2 DEF count_left, left, Goto
  <2> QED
    BY <1>1, <1>2, <1>6, <2>3 DEF Explains
<1>7. CASE /\ Step(q) /\ Stores(q) /\ call[q].dim = db[n].dim
           /\ pc[q] \in {"create_payload_index", "get_collection", "upsert"}
  <2>1. db'[n].dim = db[n].dim
    BY <1>1, WidthStays
  <2>2. \/ create_payload_indexes(q) \/ assert_dimension_matches(q) \/ upsert_call(q)
    BY <1>7 DEF Step, collection_exists, create_collection_call, owned_point,
       count_selected, delete_selected, count_left, drop, query, scroll, respond, At
  <2>3. CASE create_payload_indexes(q)
    <3>1. pc'[q] \in {"create_payload_index", "get_collection"}
      BY <2>3 DEF create_payload_indexes, Goto
    <3> QED
      BY <1>2, <1>7, <2>1, <3>1 DEF Explains
  <2>4. CASE assert_dimension_matches(q)
    <3>1. pc'[q] = "upsert"
      BY <1>1, <1>7, <2>4 DEF assert_dimension_matches, Goto
    <3> QED
      BY <1>2, <1>7, <2>1, <3>1 DEF Explains
  <2>5. CASE upsert_call(q)
    <3>1. call[q].kind = "create" /\ pc[q] = "upsert"
      BY <1>1, <1>7, <2>5 DEF Stores, Kind, upsert_call, At
    <3>2. FitsWidth(db, n, new_point(q))
      BY <1>7 DEF FitsWidth, new_point
    <3>3. db' = upsert(db, n, q, new_point(q))
      BY <1>1, <2>5, <3>1, <3>2 DEF upsert_call
    <3>4. new_point(q) \in Point /\ new_point(q) # None /\ q \in Id
      BY <3>1, WrittenPoint, RepositoryAssumption DEF Id
    <3>5. db'[n].points[q] = new_point(q) /\ db'[n] # Absent
          /\ db' \in [PhysicalName -> StoredCollection \union {Absent}]
      BY <3>3, <3>4, UpsertEffect DEF Present
    <3>6. q \in Stored(db', n)
      BY <3>4, <3>5, StoredPoints DEF PointAt
    <3> QED
      BY <3>6
  <2> QED
    BY <2>2, <2>3, <2>4, <2>5
<1> QED
  BY <1>1, <1>3, <1>4, <1>5, <1>6, <1>7 DEF Explains

\* Every step keeps the invariant.
LEMMA EmptyStep == HInv /\ EInv /\ [Next]_vars => EInv'
<1>1. ASSUME EInv, UNCHANGED vars
      PROVE  EInv'
  BY <1>1 DEF EInv, EmptyIsExplained, DropsAtOnce, Explains, vars, Stores, Kind, Name
<1>2. ASSUME HInv, EInv, NEW q \in Request, Receive(q) \/ Step(q) \/ Fail(q)
      PROVE  EInv'
  <2>1. MoveOf(q) /\ Base /\ IInv /\ IInv'
    BY <1>2, OneMoves, BaseHolds, NextInv DEF HInv, Next
  <2>2. DropsAtOnce'
    <3> SUFFICES ASSUME NEW r \in Request, pc'[r] = "delete",
                        Kind(r)' = "delete_collection"
                 PROVE  ~DropEmpty
      BY DEF DropsAtOnce
    <3>1. CASE r # q
      BY <1>2, <2>1, <3>1 DEF MoveOf, EInv, DropsAtOnce, Kind
    <3>2. CASE r = q
      <4>1. pc[q] # "idle"
        BY <1>2, <2>1, <3>2, ArrivalAnswers, StepServes
      <4>2. call[q].kind = "delete_collection"
        BY <2>1, <3>2, <4>1, ArrivedStays DEF Kind
      <4>3. pc[q] \in {"collection_exists", "count", "delete", "drop", "respond", "done"}
        BY <2>1, <4>1, <4>2, AtLabel DEF Calling, Path
      <4>4. ~Receive(q) /\ ~Fail(q)
        BY <2>1, <3>2, <4>1 DEF Receive, Fail, Raise, Answer, IInv, TypeOK
      <4>5. ~collection_exists(q)
        BY <2>1, <3>2, <4>2 DEF collection_exists, FirstCall, Goto, Answer, IInv, TypeOK
      <4>6. ~delete_selected(q)
        BY <2>1, <3>2 DEF delete_selected, Goto, Raise, Answer, IInv, TypeOK
      <4>7. ~count_left(q) /\ ~drop(q) /\ ~respond(q)
        BY <2>1, <3>2 DEF count_left, drop, respond, Goto, Raise, Answer, IInv, TypeOK
      <4>8. count_selected(q)
        BY <1>2, <4>3, <4>4, <4>5, <4>6, <4>7 DEF Step, create_collection_call,
           create_payload_indexes, assert_dimension_matches, owned_point, upsert_call,
           query, scroll, At
      <4> QED
        BY <2>1, <3>2, <4>2, <4>8 DEF count_selected, Goto, Answer, Raise, IInv, TypeOK
    <3> QED
      BY <3>1, <3>2
  <2>3. EmptyIsExplained'
    <3> SUFFICES ASSUME NEW n \in PhysicalName, Present(db', n), Stored(db', n) = {}
                 PROVE  \E p \in Request : Explains(p, n)'
      BY <2>1 DEF EmptyIsExplained, get_collections, IInv, TypeOK
    <3>1. CASE ~Present(db, n)
      BY <1>2, <2>1, <3>1, CreatorExplains
    <3>2. CASE Present(db, n) /\ Stored(db, n) # {}
      <4>1. PICK id \in Id : HoldsPoint(n, id)
        BY <2>1, <3>2, StoredPoints DEF IInv, TypeOK, HoldsPoint
      <4>2. PointAt(db', n, id) = None
        BY <2>1, StoredPoints DEF IInv, TypeOK
      <4> QED
        BY <1>2, <3>2, <4>1, <4>2, ClearerExplains DEF EInv
    <3>3. CASE Present(db, n) /\ Stored(db, n) = {}
      <4>1. PICK p \in Request : Explains(p, n)
        BY <1>2, <2>1, <3>3 DEF EInv, EmptyIsExplained, get_collections, IInv, TypeOK
      <4>2. CASE p = q
        BY <1>2, <3>3, <4>1, <4>2, ExplainerGoesOn
      <4>3. CASE p # q
        <5>1. pc'[p] = pc[p] /\ call'[p] = call[p] /\ reply'[p] = reply[p]
              /\ removed'[p] = removed[p]
          BY <2>1, <4>3 DEF MoveOf
        <5>2. Name(p)' = Name(p) /\ Kind(p)' = Kind(p) /\ (Stores(p)' <=> Stores(p))
          BY <5>1 DEF Name, Kind, Stores
        <5>3. db'[n].dim = db[n].dim
          BY <1>2, <2>1, <3>3, WidthStays
        <5> QED
          BY <4>1, <5>1, <5>2, <5>3 DEF Explains
      <4> QED
        BY <4>2, <4>3
    <3> QED
      BY <3>1, <3>2, <3>3
  <2> QED
    BY <2>2, <2>3 DEF EInv
<1> QED
  BY <1>1, <1>2 DEF Next, Quiet

\* A collection is there with nothing in it only while a store is on its way to
\* write into it or a deletion on its way to drop it, after a fault ended one of
\* them, or where what emptied it never drops.
THEOREM EmptiesAreExplained == Spec => []EmptyIsExplained
<1>1. Init => EInv
  BY DEF Init, EInv, EmptyIsExplained, DropsAtOnce, get_collections, Present
<1>2. EInv => EmptyIsExplained
  BY DEF EInv
<1> QED
  BY <1>1, <1>2, EmptyStep, History, PTL DEF Spec

=============================================================================
