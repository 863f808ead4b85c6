-------------------------- MODULE SequentialProofs --------------------------
(***************************************************************************)
(* Requests that come one at a time are served as EmbeddingService         *)
(* promises: the refinement that the run one_at_a_time checks, for any     *)
(* requests, owners, widths, workloads and failures, and either value of   *)
(* DropEmpty.                                                              *)
(***************************************************************************)
EXTENDS Sequential, RepositoryProofs

\* What the abstract service sees of r's collection: when r came, and now.
Then(r) == Content(settled[Name(r)])
Now(r) == Content(db[Name(r)])

-----------------------------------------------------------------------------
(* What a request knows of its collection on its way *)

\* A store has found the collection or made it.
Made(c, old, new) ==
    \/ old # Absent /\ new = old
    \/ old = Absent /\ new = Service!Empty(c.dim)

\* What an update read is what is there.
Current(c, here, old, new) ==
    new = old /\ Service!Has(c, old) /\ here.point = old.points[c.id]

\* A deletion has counted what it removes.
HasCounted(c, here, old) ==
    /\ old # Absent
    /\ c.kind = "bulk_delete" =>
        /\ Service!ToDelete(c, old) # {}
        /\ here.matched = Cardinality(Service!ToDelete(c, old))
    /\ c.kind = "delete_collection" => here.matched = Cardinality(Service!Held(old))

Emptied(c, old, new) == new = Service!Without(old, Service!ToDelete(c, old))

\* At each label: what has become of the collection so far, and what is known
\* of it.  Before it answers, the request has been served.
Knows(label, r, c, here, given, old, new) ==
    /\ label \in {"collection_exists", "create_collection", "retrieve", "count",
                  "query", "scroll", "delete"} => new = old
    /\ label \in {"retrieve", "count", "query", "scroll"} => old # Absent
    /\ label = "create_collection" => old = Absent
    /\ label \in {"create_payload_index", "get_collection", "upsert"} =>
            IF c.kind = "create" THEN Made(c, old, new) ELSE Current(c, here, old, new)
    /\ label = "upsert" =>
            IF c.kind = "create" THEN new.dim = c.dim ELSE c.dim \in {None, new.dim}
    /\ label \in {"delete", "count_left", "drop"} => HasCounted(c, here, old)
    /\ label = "delete" => /\ c.kind = "delete" => Service!Has(c, old)
                           /\ c.kind = "delete_collection" => ~DropEmpty
    /\ label = "count_left" => DropEmpty /\ Emptied(c, old, new)
    /\ label = "drop" =>
        /\ DropEmpty
        /\ IF c.kind = "bulk_delete"
           THEN Emptied(c, old, new) /\ Service!ToDelete(c, old) = Service!Held(old)
           ELSE new = old
    /\ label = "respond" =>
        IF Slug[c.collection] = None THEN given = Status(422)
        ELSE Service!Serves(r, c, old, new, given)

\* Nothing else has changed since r came.
OnlyItsOwn(r) ==
    \A name \in PhysicalName : name # Name(r) => Content(db[name]) = Content(settled[name])

SInv ==
    /\ IInv
    /\ settled \in [PhysicalName -> StoredCollection \union {Absent}]
    /\ \A r \in Request : pc[r] # "idle" => call[r] \in Workload[r]
    /\ \A q, r \in InFlight : q = r
    /\ InFlight = {} => settled = db
    /\ \A r \in InFlight :
        OnlyItsOwn(r) /\ Knows(pc[r], r, call[r], local[r], reply[r], Then(r), Now(r))

-----------------------------------------------------------------------------
(* What is there *)

\* Content hides no width and no point.
LEMMA ContentFacts ==
    ASSUME NEW collection \in StoredCollection \union {Absent}
    PROVE  /\ Content(collection) = Absent <=> collection = Absent
           /\ collection # Absent =>
                /\ Content(collection) \in [dim : Dim, points : [Id -> Point \union {None}]]
                /\ Content(collection).dim = collection.dim
                /\ Content(collection).points = collection.points
<1>1. CASE collection = Absent
  BY <1>1 DEF Content
<1>2. CASE collection # Absent
  <2>1. collection \in StoredCollection
    BY <1>2
  <2>2. /\ collection.dim \in Dim /\ collection.points \in [Id -> Point \union {None}]
    BY <2>1 DEF StoredCollection
  <2>3. Content(collection) = [dim |-> collection.dim, points |-> collection.points]
    BY <1>2 DEF Content
  <2> QED
    BY <1>2, <2>2, <2>3, SequentialAssumption
<1> QED
  BY <1>1, <1>2

\* A request that makes calls, its collection, and what it knows of it.
LEMMA Context ==
    ASSUME SInv, NEW r \in Request, Calling(r)
    PROVE  /\ r \in InFlight /\ call[r] \in Call /\ Name(r) \in PhysicalName
           /\ Slug[call[r].collection] # None
           /\ call[r].kind \in DOMAIN Path /\ pc[r] \in Path[call[r].kind]
           /\ Knows(pc[r], r, call[r], local[r], reply[r], Then(r), Now(r))
           /\ Present(db, Name(r)) <=> Now(r) # Absent
           /\ Now(r) # Absent =>
                /\ Now(r) \in [dim : Dim, points : [Request -> Point \union {None}]]
                /\ Now(r).dim = db[Name(r)].dim /\ Now(r).points = db[Name(r)].points
                /\ Service!Held(Now(r)) = Stored(db, Name(r))
<1>1. /\ call[r] \in Call /\ Name(r) \in PhysicalName
      /\ Slug[call[r].collection] # None /\ pc[r] \in Path[call[r].kind]
  BY AtLabel DEF SInv
<1>2. r \in InFlight /\ call[r].kind \in DOMAIN Path
  BY <1>1, CallFacts DEF InFlight, Calling
<1>3. Knows(pc[r], r, call[r], local[r], reply[r], Then(r), Now(r))
  BY <1>2 DEF SInv
<1>4. db[Name(r)] \in StoredCollection \union {Absent}
  BY <1>1 DEF SInv, IInv, TypeOK
<1>5. Present(db, Name(r)) <=> Now(r) # Absent
  BY <1>4, ContentFacts DEF Present, Now
<1>6. ASSUME Now(r) # Absent
      PROVE  /\ Now(r) \in [dim : Dim, points : [Request -> Point \union {None}]]
             /\ Now(r).dim = db[Name(r)].dim /\ Now(r).points = db[Name(r)].points
             /\ Service!Held(Now(r)) = Stored(db, Name(r))
  <2>1. /\ Now(r) \in [dim : Dim, points : [Request -> Point \union {None}]]
        /\ Now(r).dim = db[Name(r)].dim /\ Now(r).points = db[Name(r)].points
    BY <1>4, <1>5, <1>6, ContentFacts DEF Present, Now, Id
  <2>2. DOMAIN db[Name(r)].points = Request
    BY <2>1
  <2> QED
    BY <2>1, <2>2 DEF Service!Held, Stored
<1> QED
  BY <1>1, <1>2, <1>3, <1>5, <1>6

\* Every point of a request's collection carries its owner's name and the
\* width of the collection.
LEMMA OwnPoints ==
    ASSUME SInv, NEW r \in Request, Calling(r), Now(r) # Absent,
           NEW id \in Service!Held(Now(r))
    PROVE  /\ id \in Request /\ Now(r).points[id] \in Point
           /\ Now(r).points[id].payload.user_id = User(r)
           /\ Now(r).points[id].vector = Now(r).dim
           /\ Now(r).points[id].payload.vector_dim = Now(r).dim
<1>1. /\ id \in Request /\ Present(db, Name(r)) /\ Name(r) \in PhysicalName
      /\ Now(r).points[id] # None
      /\ Now(r).dim = db[Name(r)].dim /\ Now(r).points = db[Name(r)].points
  BY Context DEF Service!Held
<1>2. HoldsPoint(Name(r), id)
  BY <1>1 DEF HoldsPoint, PointAt, Present
<1>3. /\ call[id].owner = call[r].owner /\ db[Name(r)].points[id] \in Point
  BY <1>1, <1>2, FoundIsOwn DEF SInv, Id
<1>4. /\ db[Name(r)].points[id].payload.user_id = call[id].owner.username
      /\ db[Name(r)].points[id].vector = db[Name(r)].dim
      /\ db[Name(r)].points[id].payload.vector_dim = db[Name(r)].dim
  BY <1>1, <1>2 DEF SInv, IInv, StoredForItsOwner, UniformWidth, Id
<1> QED
  BY <1>1, <1>3, <1>4 DEF User

-----------------------------------------------------------------------------
(* What filters select *)

\* A client's predicate selects in Qdrant what the service promises.
LEMMA FoundIsSelected ==
    ASSUME SInv, NEW r \in Request, Calling(r), Now(r) # Absent
    PROVE  Selected(db, Name(r), scoped(User(r), call[r].topic, call[r].filter))
            = Service!Found(call[r], Now(r))
<1>1. /\ Service!Held(Now(r)) = Stored(db, Name(r))
      /\ Now(r).points = db[Name(r)].points
  BY Context
<1>2. ASSUME NEW id \in Stored(db, Name(r))
      PROVE  Matches(scoped(User(r), call[r].topic, call[r].filter), id,
                     db[Name(r)].points[id].payload)
                <=> Service!Selects(call[r], Now(r).points[id])
  <2> DEFINE payload == db[Name(r)].points[id].payload
             c == call[r]
  <2>1. payload.user_id = User(r)
    BY <1>1, OwnPoints
  <2>2. Service!Selects(c, Now(r).points[id]) <=>
            /\ c.topic \in {None, payload.topic}
            /\ \A k \in DOMAIN c.filter :
                k \in DOMAIN payload.metadata /\ payload.metadata[k] \in c.filter[k]
    BY <1>1 DEF Service!Selects
  <2> HIDE DEF payload, c
  <2>3. Matches(scoped(User(r), c.topic, c.filter), id, payload) <=>
            /\ c.topic \in {None, payload.topic}
            /\ \A k \in DOMAIN c.filter :
                k \in DOMAIN payload.metadata /\ payload.metadata[k] \in c.filter[k]
    BY <2>1, Matching
  <2> QED
    BY <2>2, <2>3 DEF payload, c
<1> QED
  BY <1>1, <1>2 DEF Selected, Service!Found

\* ... and so does what a deletion selects.
LEMMA SelectorSelects ==
    ASSUME SInv, NEW r \in Request, Calling(r), Now(r) # Absent
    PROVE  /\ call[r].kind = "delete" =>
                Selected(db, Name(r), selector(r)) = Service!Held(Now(r)) \intersect {call[r].id}
           /\ call[r].kind = "delete_collection" =>
                Selected(db, Name(r), selector(r)) = Service!Held(Now(r))
           /\ call[r].kind = "bulk_delete" =>
                Selected(db, Name(r), selector(r)) = Service!ToDelete(call[r], Now(r))
<1>1. /\ Service!Held(Now(r)) = Stored(db, Name(r))
      /\ Now(r).points = db[Name(r)].points
  BY Context
<1>2. ASSUME NEW id \in Stored(db, Name(r))
      PROVE  db[Name(r)].points[id].payload.user_id = User(r)
  BY <1>1, OwnPoints
<1>3. Selected(db, Name(r), owned_by(User(r))) = Service!Held(Now(r))
  <2>1. ASSUME NEW id \in Stored(db, Name(r))
        PROVE  Matches(owned_by(User(r)), id, db[Name(r)].points[id].payload)
    BY <1>2, Matching
  <2> QED
    BY <1>1, <2>1 DEF Selected
<1>4. ASSUME NEW ids
      PROVE  Selected(db, Name(r), scoped_ids(User(r), ids))
                = Service!Held(Now(r)) \intersect ids
  <2>1. ASSUME NEW id \in Stored(db, Name(r))
        PROVE  Matches(scoped_ids(User(r), ids), id, db[Name(r)].points[id].payload)
                    <=> id \in ids
    BY <1>2, Matching
  <2> QED
    BY <1>1, <2>1 DEF Selected
<1>5. CASE call[r].kind = "delete"
  BY <1>4, <1>5 DEF selector
<1>6. CASE call[r].kind = "delete_collection"
  BY <1>3, <1>6 DEF selector
<1>7. CASE call[r].kind = "bulk_delete"
  BY <1>3, <1>4, <1>7, FoundIsSelected DEF selector, Service!ToDelete
<1> QED
  BY <1>5, <1>6, <1>7

-----------------------------------------------------------------------------
(* The steps of a request that does not answer yet, and those that answer *)

\* r goes on, or has been served and is about to answer.
Advances(r) ==
    /\ pc'[r] \notin {"idle", "done"} /\ UNCHANGED call
    /\ \A q \in Request \ {r} : pc'[q] = pc[q] /\ reply'[q] = reply[q]
    /\ \A name \in PhysicalName : name # Name(r) => Content(db'[name]) = Content(db[name])
    /\ Knows(pc'[r], r, call[r], local'[r], reply'[r], Then(r), Content(db'[Name(r)]))

\* What a step makes of r's collection, and of no other.
LEMMA OneCollection ==
    ASSUME SInv, NEW r \in Request, Calling(r),
           NEW collection, db' = [db EXCEPT ![Name(r)] = collection]
    PROVE  /\ \A name \in PhysicalName :
                name # Name(r) => Content(db'[name]) = Content(db[name])
           /\ Content(db'[Name(r)]) = Content(collection)
BY Context DEF SInv, IInv, TypeOK

\* A request that makes another call, and what it must know by then.
LEMMA CallsAgain ==
    ASSUME SInv, NEW r \in Request, NEW label \in Label \ {"idle", "done"},
           Goto(r, label), UNCHANGED call,
           \A name \in PhysicalName : name # Name(r) => Content(db'[name]) = Content(db[name]),
           Knows(label, r, call[r], local'[r], reply'[r], Then(r), Content(db'[Name(r)]))
    PROVE  Advances(r)
BY DEF Advances, Goto, SInv, IInv, TypeOK

\* A request that is about to answer, and what the service must promise.
LEMMA IsServed ==
    ASSUME SInv, NEW r \in Request, NEW given, Answer(r, given), UNCHANGED call,
           \A name \in PhysicalName : name # Name(r) => Content(db'[name]) = Content(db[name]),
           Slug[call[r].collection] # None,
           Service!Serves(r, call[r], Then(r), Content(db'[Name(r)]), given)
    PROVE  Advances(r)
<1>1. pc'[r] = "respond" /\ reply'[r] = given
  BY DEF Answer, SInv, IInv, TypeOK
<1>2. Knows("respond", r, call[r], local'[r], given, Then(r), Content(db'[Name(r)]))
  BY DEF Knows
<1> QED
  BY <1>1, <1>2 DEF Advances, Answer, SInv, IInv, TypeOK

\* ... when the step only reads.
LEMMA IsAnswered ==
    ASSUME SInv, NEW r \in Request, Calling(r), NEW given, Answer(r, given),
           UNCHANGED <<call, db>>, Now(r) = Then(r),
           Service!Reads(call[r], Then(r), given) \/ Service!Refused(call[r], Then(r), given)
    PROVE  Advances(r)
<1>1. Content(db'[Name(r)]) = Now(r) /\ Slug[call[r].collection] # None
  BY Context DEF Now
<1>2. Service!Serves(r, call[r], Then(r), Content(db'[Name(r)]), given)
  BY <1>1 DEF Service!Serves
<1> QED
  BY <1>1, <1>2, IsServed

\* A collection that is not there is created by a store, and is a 404 otherwise.
LEMMA CollectionExistsAdvances ==
    ASSUME SInv, NEW r \in Request, collection_exists(r)
    PROVE  Advances(r)
<1> DEFINE next == IF Name(r) \in get_collections(db) THEN FirstCall[call[r].kind]
                   ELSE "create_collection"
<1>1. /\ pc[r] = "collection_exists" /\ Calling(r)
      /\ UNCHANGED <<call, db, local>>
  BY DEF collection_exists, At, Reads, Calling
<1>2. /\ Now(r) = Then(r) /\ call[r].kind \in DOMAIN Path
      /\ Name(r) \in get_collections(db) <=> Then(r) # Absent
  <2>1. Now(r) = Then(r)
    BY <1>1, Context DEF Knows
  <2> QED
    BY <1>1, <2>1, Context DEF get_collections, SInv, IInv, TypeOK
<1>3. Content(db'[Name(r)]) = Now(r)
  BY <1>1 DEF Now
<1>4. CASE Then(r) # Absent \/ call[r].kind = "create"
  <2>1. Goto(r, next)
    BY <1>2, <1>4 DEF collection_exists
  <2>2. /\ next \in Label \ {"idle", "done"}
        /\ Knows(next, r, call[r], local'[r], reply'[r], Then(r), Now(r))
    BY <1>2, <1>4 DEF FirstCall, Path, Label, Knows, Made
  <2> HIDE DEF next
  <2> QED
    BY <1>1, <1>3, <2>1, <2>2, CallsAgain
<1>5. CASE Then(r) = Absent /\ call[r].kind # "create"
  <2>1. Answer(r, Status(404))
    BY <1>2, <1>5 DEF collection_exists
  <2>2. Service!Refused(call[r], Then(r), Status(404))
    BY <1>5 DEF Service!Refused, Status, Shows, Service!Shown
  <2> QED
    BY <1>1, <1>2, <2>1, <2>2, IsAnswered
<1> QED
  BY <1>4, <1>5

\* A collection that is made has the width asked for and no points.
LEMMA CreateCollectionAdvances ==
    ASSUME SInv, NEW r \in Request, create_collection_call(r)
    PROVE  Advances(r)
<1> DEFINE made == stored_collection(call[r].dim, {}, [id \in Id |-> None])
           next == IF IndexFields = << >> THEN "get_collection" ELSE "create_payload_index"
<1>1. pc[r] = "create_collection" /\ Calling(r) /\ UNCHANGED <<call, local>>
  BY DEF create_collection_call, At, Calling
<1>2. /\ Then(r) = Absent /\ ~Present(db, Name(r)) /\ call[r].kind = "create"
      /\ call[r] \in Call
  BY <1>1, Context DEF Knows, Path
<1>3. db' = [db EXCEPT ![Name(r)] = made] /\ Goto(r, next)
  BY <1>2 DEF create_collection_call, create_collection
<1>4. Content(made) = Service!Empty(call[r].dim)
  <2>1. made \in StoredCollection
    BY <1>2, CallFacts DEF made, stored_collection, StoredCollection
  <2>2. made # Absent
    BY <2>1, RepositoryAssumption
  <2> QED
    BY <2>2 DEF Content, made, stored_collection, Service!Empty, Id
<1> HIDE DEF made
<1>5. /\ \A name \in PhysicalName :
            name # Name(r) => Content(db'[name]) = Content(db[name])
      /\ Content(db'[Name(r)]) = Service!Empty(call[r].dim)
  BY <1>1, <1>3, <1>4, OneCollection
<1>6. Knows(next, r, call[r], local'[r], reply'[r], Then(r), Service!Empty(call[r].dim))
  BY <1>2 DEF Knows, Made
<1>7. next \in Label \ {"idle", "done"}
  BY DEF Label
<1> HIDE DEF next
<1> QED
  BY <1>1, <1>3, <1>5, <1>6, <1>7, CallsAgain

\* The service does not see payload indexes.
LEMMA CreatePayloadIndexesAdvances ==
    ASSUME SInv, NEW r \in Request, create_payload_indexes(r)
    PROVE  Advances(r)
<1> DEFINE next == IF local[r].indexed + 1 = Len(IndexFields) THEN "get_collection"
                   ELSE "create_payload_index"
<1>1. pc[r] = "create_payload_index" /\ Calling(r) /\ UNCHANGED call
  BY DEF create_payload_indexes, At, Calling
<1>2. Made(call[r], Then(r), Now(r)) /\ call[r].kind = "create"
  BY <1>1, Context DEF Knows, Path
<1>3. ASSUME NEW name \in PhysicalName
      PROVE  Content(db'[name]) = Content(db[name])
  BY BaseHolds, IndexEffect DEF Content, SInv
<1>4. Content(db'[Name(r)]) = Now(r)
  BY <1>1, <1>3, Context DEF Now
<1>5. Goto(r, next)
  BY DEF create_payload_indexes
<1>6. next \in Label \ {"idle", "done"}
  BY DEF Label
<1>7. Knows(next, r, call[r], local'[r], reply'[r], Then(r), Now(r))
  BY <1>2 DEF Knows
<1> HIDE DEF next
<1> QED
  BY <1>1, <1>3, <1>4, <1>5, <1>6, <1>7, CallsAgain

\* A vector of another width is refused where the service refuses it.
LEMMA AssertDimensionMatchesAdvances ==
    ASSUME SInv, NEW r \in Request, assert_dimension_matches(r)
    PROVE  Advances(r)
<1> DEFINE c == call[r]
<1>1. pc[r] = "get_collection" /\ Calling(r) /\ UNCHANGED <<call, db, local>>
  BY DEF assert_dimension_matches, At, Reads, Calling
<1>2. /\ c.kind \in {"create", "update"}
      /\ c.kind = "update" => c.dim # None
      /\ IF c.kind = "create" THEN Made(c, Then(r), Now(r))
                              ELSE Current(c, local[r], Then(r), Now(r))
  <2>1. c.kind \in {"create", "update"} /\ Knows(pc[r], r, c, local[r], reply[r], Then(r), Now(r))
    BY <1>1, Context DEF Path
  <2>2. c.kind = "update" => c.dim # None
    BY <1>1 DEF SInv, IInv, UpdatesOK, UpdateReady
  <2> QED
    BY <1>1, <2>1, <2>2 DEF Knows
<1>3. Now(r) # Absent /\ Present(db, Name(r)) /\ db[Name(r)].dim = Now(r).dim
  <2>1. Now(r) # Absent
    <3>1. CASE c.kind = "create" /\ Then(r) = Absent
      <4>1. c.dim \in Dim
        BY <1>1, <3>1, Context, CallFacts
      <4>2. Now(r) \in [dim : Dim, points : [Id -> Point \union {None}]]
        BY <1>2, <3>1, <4>1 DEF Made, Service!Empty, Id
      <4> QED
        BY <4>2, SequentialAssumption
    <3>2. CASE ~(c.kind = "create" /\ Then(r) = Absent)
      BY <1>2, <3>2 DEF Made, Current, Service!Has
    <3> QED
      BY <3>1, <3>2
  <2> QED
    BY <1>1, <2>1, Context
<1>4. Content(db'[Name(r)]) = Now(r)
  BY <1>1 DEF Now
<1>5. CASE Now(r).dim # c.dim
  <2>1. Answer(r, Status(409))
    BY <1>3, <1>5 DEF assert_dimension_matches
  <2>2. Now(r) = Then(r) /\ Then(r) # Absent
    BY <1>2, <1>3, <1>5 DEF Made, Current, Service!Empty
  <2>3. Status(409) = Service!Shown(409, {})
    BY DEF Status, Shows, Service!Shown
  <2> HIDE DEF c
  <2>4. c.kind = "update" => Service!Has(c, Then(r)) /\ c.dim \notin {None, Then(r).dim}
    BY <1>2, <1>5, <2>2 DEF Current
  <2>5. Service!Refused(c, Then(r), Status(409))
    BY <1>2, <1>5, <2>2, <2>3, <2>4 DEF Service!Refused
  <2> QED
    BY <1>1, <2>1, <2>2, <2>5, IsAnswered DEF c
<1>6. CASE Now(r).dim = c.dim
  <2>1. Goto(r, "upsert")
    BY <1>3, <1>6 DEF assert_dimension_matches
  <2>2. Knows("upsert", r, c, local'[r], reply'[r], Then(r), Now(r))
    BY <1>1, <1>2, <1>6 DEF Knows
  <2>3. "upsert" \in Label \ {"idle", "done"}
    BY DEF Label
  <2> QED
    BY <1>1, <1>4, <2>1, <2>2, <2>3, CallsAgain
<1> QED
  BY <1>5, <1>6

\* A point that is there is the caller's, so that owned_point never hides one.
LEMMA OwnedPointAdvances ==
    ASSUME SInv, NEW r \in Request, owned_point(r)
    PROVE  Advances(r)
<1> DEFINE c == call[r]
           point == db[Name(r)].points[c.id]
<1>1. pc[r] = "retrieve" /\ Calling(r) /\ UNCHANGED <<call, db>>
  BY DEF owned_point, At, Reads, Calling
<1>2. /\ Now(r) = Then(r) /\ Then(r) # Absent /\ Present(db, Name(r))
      /\ Content(db'[Name(r)]) = Now(r) /\ point = Then(r).points[c.id]
      /\ c.kind \in {"get", "update", "delete"} /\ c.id \in Request
  <2>1. Now(r) = Then(r) /\ Then(r) # Absent
    BY <1>1, Context DEF Knows
  <2>2. c.kind \in {"get", "update", "delete"} /\ c.id \in Request
    BY <1>1, Context, CallFacts DEF Path, Id
  <2>3. Present(db, Name(r)) /\ Now(r).points = db[Name(r)].points
    BY <1>1, <2>1, Context
  <2> QED
    BY <1>1, <2>1, <2>2, <2>3 DEF Now
<1>3. Service!Has(c, Then(r)) <=> point # None
  BY <1>2 DEF Service!Has, Service!Held
<1>4. CASE point = None
  <2>1. Answer(r, Status(404))
    BY <1>2, <1>4 DEF owned_point
  <2>2. Service!Refused(c, Then(r), Status(404))
    BY <1>2, <1>3, <1>4 DEF Service!Refused, Status, Shows, Service!Shown
  <2> QED
    BY <1>1, <1>2, <2>1, <2>2, IsAnswered
<1>5. CASE point # None
  <2>1. point.payload.user_id = User(r)
    BY <1>1, <1>2, <1>3, <1>5, OwnPoints DEF Service!Has
  <2>2. /\ local' = [local EXCEPT ![r] = Read(point)]
        /\ \/ c.kind = "get" /\ Answer(r, Shows(200, {c.id}))
           \/ c.kind = "delete" /\ Goto(r, "delete")
           \/ c.kind = "update" /\ Goto(r, IF c.dim = None THEN "upsert"
                                           ELSE "get_collection")
    BY <1>2, <1>5, <2>1 DEF owned_point
  <2>3. local'[r].point = Then(r).points[c.id]
    BY <1>2, <2>2 DEF SInv, IInv, TypeOK, Read
  <2>4. CASE c.kind = "get" /\ Answer(r, Shows(200, {c.id}))
    <3>1. Service!Reads(c, Then(r), Shows(200, {c.id}))
      BY <1>3, <1>5, <2>4 DEF Service!Reads, Shows, Service!Shown
    <3> QED
      BY <1>1, <1>2, <2>4, <3>1, IsAnswered
  <2>5. ASSUME NEW next \in {"delete", "upsert", "get_collection"}, Goto(r, next),
               next = "delete" <=> c.kind = "delete",
               next = "upsert" => c.dim = None, c.kind # "get"
        PROVE  Advances(r)
    <3>1. Current(c, local'[r], Then(r), Now(r)) /\ Service!Has(c, Then(r))
      BY <1>2, <1>3, <1>5, <2>3 DEF Current
    <3>2. Knows(next, r, c, local'[r], reply'[r], Then(r), Now(r))
      BY <1>2, <2>5, <3>1 DEF Knows, HasCounted
    <3>3. next \in Label \ {"idle", "done"}
      BY DEF Label
    <3> QED
      BY <1>1, <1>2, <2>5, <3>2, <3>3, CallsAgain
  <2>6. CASE c.kind = "delete" /\ Goto(r, "delete")
    BY <2>5, <2>6
  <2>7. CASE c.kind = "update" /\ c.dim = None /\ Goto(r, "upsert")
    BY <2>5, <2>7
  <2>8. CASE c.kind = "update" /\ c.dim # None /\ Goto(r, "get_collection")
    BY <2>5, <2>8
  <2> QED
    BY <2>2, <2>4, <2>6, <2>7, <2>8
<1> QED
  BY <1>4, <1>5

\* Payload indexes are hidden, and nothing else.
LEMMA StoredContent ==
    ASSUME NEW dim \in Dim, NEW indexes \in SUBSET IndexField,
           NEW points \in [Id -> Point \union {None}]
    PROVE  Content(stored_collection(dim, indexes, points)) = [dim |-> dim, points |-> points]
<1>1. stored_collection(dim, indexes, points) \in StoredCollection
  BY DEF stored_collection, StoredCollection
<1>2. stored_collection(dim, indexes, points) # Absent
  BY <1>1, RepositoryAssumption
<1> QED
  BY <1>2 DEF Content, stored_collection

\* What Qdrant makes of a collection that takes a point.
LEMMA ContentWithPoint ==
    ASSUME SInv, NEW r \in Request, Calling(r), Now(r) # Absent,
           NEW id \in Id, NEW point \in Point, db' = upsert(db, Name(r), id, point)
    PROVE  /\ \A name \in PhysicalName :
                name # Name(r) => Content(db'[name]) = Content(db[name])
           /\ Content(db'[Name(r)]) = Service!With(Now(r), id, point)
<1> DEFINE old == db[Name(r)]
           points == [old.points EXCEPT ![id] = point]
           stored == stored_collection(old.dim, old.indexes, points)
<1>1. db' = [db EXCEPT ![Name(r)] = stored]
  BY DEF upsert
<1>2. /\ \A name \in PhysicalName :
            name # Name(r) => Content(db'[name]) = Content(db[name])
      /\ Content(db'[Name(r)]) = Content(stored)
  BY <1>1, OneCollection
<1>3. /\ Now(r).dim = old.dim /\ Now(r).points = old.points
      /\ old \in StoredCollection
  BY Context DEF Present, SInv, IInv, TypeOK
<1>4. old.dim \in Dim /\ old.indexes \in SUBSET IndexField /\ points \in [Id -> Point \union {None}]
  BY <1>3 DEF StoredCollection
<1>5. [dim |-> old.dim, points |-> points] = Service!With(Now(r), id, point)
  BY <1>3 DEF Service!With
<1> HIDE DEF points, old
<1>6. Content(stored) = [dim |-> old.dim, points |-> points]
  BY <1>4, StoredContent
<1> QED
  BY <1>2, <1>5, <1>6

\* A store writes the point the service promises.
LEMMA StoreAdvances ==
    ASSUME SInv, NEW r \in Request, upsert_call(r), call[r].kind = "create"
    PROVE  Advances(r)
<1> DEFINE c == call[r]
           new == Content(db'[Name(r)])
<1>1. pc[r] = "upsert" /\ Calling(r) /\ UNCHANGED call
  BY DEF upsert_call, At, Calling
<1>2. /\ Made(c, Then(r), Now(r)) /\ Now(r).dim = c.dim
      /\ new_point(r) \in Point /\ r \in Id
  BY <1>1, Context, WrittenPoint DEF Knows, SInv
<1>3. Now(r) # Absent
  <2>1. CASE Then(r) = Absent
    <3>1. c.dim \in Dim
      BY <1>1, Context, CallFacts
    <3>2. Now(r) \in [dim : Dim, points : [Id -> Point \union {None}]]
      BY <1>2, <2>1, <3>1 DEF Made, Service!Empty, Id
    <3> QED
      BY <3>2, SequentialAssumption
  <2> QED
    BY <1>2, <2>1 DEF Made
<1>4. Present(db, Name(r)) /\ FitsWidth(db, Name(r), new_point(r))
  BY <1>1, <1>2, <1>3, Context DEF FitsWidth, new_point
<1>5. db' = upsert(db, Name(r), r, new_point(r)) /\ Answer(r, Shows(201, {r}))
  BY <1>4 DEF upsert_call
<1>6. /\ \A name \in PhysicalName :
            name # Name(r) => Content(db'[name]) = Content(db[name])
      /\ new = Service!With(Now(r), r, new_point(r))
  BY <1>1, <1>2, <1>3, <1>5, ContentWithPoint
<1>7. new_point(r) = Service!NewPoint(r, c)
  BY DEF new_point, user_id, User, Service!NewPoint
<1>8. Service!StoreFirst(r, c, Then(r), new) \/ Service!StoreNext(r, c, Then(r), new)
  BY <1>2, <1>6, <1>7 DEF Made, Service!StoreFirst, Service!StoreNext
<1>9. Service!Serves(r, c, Then(r), new, Shows(201, {r}))
  BY <1>8 DEF Service!Serves, Service!Succeeds, Service!Changes, Service!Reports,
              Service!Shown, Shows
<1>10. Slug[c.collection] # None
  BY <1>1, Context
<1> QED
  BY <1>1, <1>5, <1>6, <1>9, <1>10, IsServed

\* An update writes the point the service promises: it changes the fields it
\* names, although it writes all of them.
LEMMA UpdateAdvances ==
    ASSUME SInv, NEW r \in Request, upsert_call(r), call[r].kind = "update"
    PROVE  Advances(r)
<1> DEFINE c == call[r]
           new == Content(db'[Name(r)])
           point == Then(r).points[c.id]
<1>1. pc[r] = "upsert" /\ Calling(r) /\ UNCHANGED call
  BY DEF upsert_call, At, Calling
<1>2. /\ Now(r) = Then(r) /\ Service!Has(c, Then(r)) /\ current(r) = point
      /\ c.dim \in {None, Then(r).dim}
  BY <1>1, Context DEF Knows, Current, current
<1>3. /\ updated_point(r) \in Point /\ c.id \in Id
      /\ Slug[c.collection] # None
  BY <1>1, Context, WrittenPoint DEF SInv
<1>4. /\ point \in Point /\ point.payload.user_id = User(r)
      /\ point.vector = Then(r).dim /\ point.payload.vector_dim = Then(r).dim
  BY <1>1, <1>2, OwnPoints DEF Service!Has
<1>5. updated_point(r) = Service!Changed(r, c, point)
  <2>1. point.payload \in Payload /\ point.vector \in Dim
    BY <1>4 DEF Point
  <2> HIDE DEF point
  <2>2. Service!Changed(r, c, point).payload =
            [user_id |-> point.payload.user_id,
             topic |-> Or(c.topic, point.payload.topic),
             metadata |-> Or(c.metadata, point.payload.metadata),
             chunks |-> IF c.chunks THEN r ELSE point.payload.chunks,
             vector_dim |-> Or(c.dim, point.payload.vector_dim),
             created_at |-> point.payload.created_at, updated_at |-> r]
    BY <2>1 DEF Service!Changed, Payload, Or
  <2>3. /\ Service!Changed(r, c, point).vector = Or(c.dim, point.vector)
        /\ Service!Changed(r, c, point) =
                [vector |-> Service!Changed(r, c, point).vector,
                 payload |-> Service!Changed(r, c, point).payload]
    BY DEF Service!Changed, Or
  <2>4. updated_point(r) =
            [vector |-> Or(c.dim, point.vector),
             payload |-> [user_id |-> point.payload.user_id,
                topic |-> Or(c.topic, point.payload.topic),
                metadata |-> Or(c.metadata, point.payload.metadata),
                chunks |-> IF c.chunks THEN r ELSE point.payload.chunks,
                vector_dim |-> Or(c.dim, point.payload.vector_dim),
                created_at |-> point.payload.created_at, updated_at |-> r]]
    BY <1>2, <1>4 DEF updated_point, chunks, vector_dim, created_at
  <2> HIDE DEF c
  <2> QED
    BY <2>2, <2>3, <2>4
<1>6. Now(r) # Absent /\ Present(db, Name(r)) /\ FitsWidth(db, Name(r), updated_point(r))
  <2>1. Now(r) # Absent
    BY <1>2 DEF Service!Has
  <2>2. updated_point(r).vector = Now(r).dim
    BY <1>2, <1>4 DEF updated_point, Or
  <2> QED
    BY <1>1, <2>1, <2>2, Context DEF FitsWidth
<1>7. db' = upsert(db, Name(r), c.id, updated_point(r)) /\ Answer(r, Shows(200, {c.id}))
  BY <1>6 DEF upsert_call
<1>8. /\ \A name \in PhysicalName :
            name # Name(r) => Content(db'[name]) = Content(db[name])
      /\ new = Service!With(Now(r), c.id, updated_point(r))
  BY <1>1, <1>3, <1>6, <1>7, ContentWithPoint
<1>9. Service!Update(r, c, Then(r), new)
  BY <1>2, <1>5, <1>8 DEF Service!Update
<1>10. Service!Serves(r, c, Then(r), new, Shows(200, {c.id}))
  BY <1>9 DEF Service!Serves, Service!Succeeds, Service!Changes, Service!Reports,
              Service!Shown, Shows
<1> QED
  BY <1>1, <1>3, <1>7, <1>8, <1>10, IsServed

-----------------------------------------------------------------------------
(* Deletions *)

\* What Qdrant makes of a collection that loses what a filter selects.
LEMMA ContentWithout ==
    ASSUME SInv, NEW r \in Request, Calling(r), Now(r) # Absent,
           NEW filter, db' = delete(db, Name(r), filter)
    PROVE  /\ \A name \in PhysicalName :
                name # Name(r) => Content(db'[name]) = Content(db[name])
           /\ Content(db'[Name(r)]) =
                Service!Without(Now(r), Selected(db, Name(r), filter))
<1> DEFINE old == db[Name(r)]
           gone == Selected(db, Name(r), filter)
           points == [id \in DOMAIN old.points |-> IF id \in gone THEN None ELSE old.points[id]]
           stored == stored_collection(old.dim, old.indexes, points)
<1>1. db' = [db EXCEPT ![Name(r)] = stored]
  BY DEF delete
<1>2. /\ \A name \in PhysicalName :
            name # Name(r) => Content(db'[name]) = Content(db[name])
      /\ Content(db'[Name(r)]) = Content(stored)
  BY <1>1, OneCollection
<1>3. /\ Now(r).dim = old.dim /\ Now(r).points = old.points
      /\ old \in StoredCollection /\ DOMAIN old.points = Request
  BY Context DEF Present, SInv, IInv, TypeOK
<1>4. old.dim \in Dim /\ old.indexes \in SUBSET IndexField /\ points \in [Id -> Point \union {None}]
  BY <1>3 DEF StoredCollection
<1>5. [dim |-> old.dim, points |-> points] = Service!Without(Now(r), gone)
  BY <1>3 DEF Service!Without
<1> HIDE DEF points, old, gone
<1>6. Content(stored) = [dim |-> old.dim, points |-> points]
  BY <1>4, StoredContent
<1> QED
  BY <1>2, <1>5, <1>6 DEF gone

\* Both modules count alike.
LEMMA SameCardinality == \A S : Service!Cardinality(S) = Cardinality(S)
BY DEF Service!Cardinality, Cardinality, Service!IsFiniteSet, IsFiniteSet

\* What was there when r came.
LEMMA ThenFacts ==
    ASSUME SInv, NEW r \in Request, Calling(r), Then(r) # Absent
    PROVE  /\ Then(r) \in [dim : Dim, points : [Request -> Point \union {None}]]
           /\ Service!Held(Then(r)) \subseteq Request
           /\ Service!ToDelete(call[r], Then(r)) \subseteq Service!Held(Then(r))
           /\ IsFiniteSet(Service!Held(Then(r)))
           /\ IsFiniteSet(Service!ToDelete(call[r], Then(r)))
<1>1. settled[Name(r)] \in StoredCollection \union {Absent}
  BY Context DEF SInv
<1>2. Then(r) \in [dim : Dim, points : [Request -> Point \union {None}]]
  BY <1>1, ContentFacts DEF Then, Id
<1>3. Service!Held(Then(r)) \subseteq Request
  BY DEF Service!Held
<1>4. Service!ToDelete(call[r], Then(r)) \subseteq Service!Held(Then(r))
  BY DEF Service!ToDelete, Service!Found
<1> QED
  BY <1>2, <1>3, <1>4, FS_Subset, RepositoryAssumption

\* Removing some points leaves the others, and the collection.
LEMMA WithoutFacts ==
    ASSUME NEW old \in [dim : Dim, points : [Request -> Point \union {None}]], NEW ids
    PROVE  /\ Service!Without(old, ids) # Absent
           /\ Service!Held(Service!Without(old, ids)) = Service!Held(old) \ ids
           /\ Service!Without(old, {}) = old
<1> DEFINE new == Service!Without(old, ids)
<1>1. /\ new.dim = old.dim
      /\ new.points = [id \in Request |-> IF id \in ids THEN None ELSE old.points[id]]
      /\ new = [dim |-> new.dim, points |-> new.points]
  BY DEF Service!Without
<1>2. new.points \in [Request -> Point \union {None}] /\ new.dim \in Dim
  BY <1>1
<1>3. Service!Held(new) = Service!Held(old) \ ids
  BY <1>1 DEF Service!Held
<1>4. new # Absent
  BY <1>1, <1>2, SequentialAssumption DEF Id
<1>5. Service!Without(old, {}) = old
  <2>1. [id \in Request |-> IF id \in {} THEN None ELSE old.points[id]] = old.points
    OBVIOUS
  <2> QED
    BY <2>1 DEF Service!Without
<1> QED
  BY <1>3, <1>4, <1>5

\* A count finds as many points as the service would delete.
LEMMA CountSelectedAdvances ==
    ASSUME SInv, NEW r \in Request, count_selected(r)
    PROVE  Advances(r)
<1> DEFINE c == call[r]
           old == Then(r)
<1>1. pc[r] = "count" /\ Calling(r) /\ UNCHANGED <<call, db>>
  BY DEF count_selected, At, Reads, Calling
<1>2. /\ Now(r) = old /\ old # Absent /\ c.kind \in {"bulk_delete", "delete_collection"}
      /\ Present(db, Name(r)) /\ Slug[c.collection] # None
      /\ Content(db'[Name(r)]) = old
  BY <1>1, Context DEF Knows, Path, Now
<1>3. /\ local' = [local EXCEPT ![r] = Counted(matching(r))]
      /\ IF c.kind = "bulk_delete" /\ matching(r) = 0 THEN Answer(r, Deleted(0, FALSE))
         ELSE Goto(r, IF c.kind = "delete_collection" /\ DropEmpty THEN "drop" ELSE "delete")
  BY <1>2 DEF count_selected
<1>4. local'[r].matched = matching(r)
  BY <1>3 DEF Counted, SInv, IInv, TypeOK
<1>5. matching(r) = IF c.kind = "bulk_delete" THEN Cardinality(Service!ToDelete(c, old))
                                              ELSE Cardinality(Service!Held(old))
  BY <1>1, <1>2, SelectorSelects DEF matching, count
<1>6. ~(c.kind = "bulk_delete" /\ matching(r) = 0) => HasCounted(c, local'[r], old)
  BY <1>2, <1>4, <1>5, FS_EmptySet DEF HasCounted
<1>7. CASE c.kind = "bulk_delete" /\ matching(r) = 0
  <2>1. Service!ToDelete(c, old) = {}
    BY <1>1, <1>2, <1>5, <1>7, ThenFacts, FS_EmptySet
  <2>2. Service!BulkDelete(c, old, old)
    BY <1>1, <1>2, <2>1, ThenFacts, WithoutFacts DEF Service!BulkDelete, Service!Empties
  <2>3. Deleted(0, FALSE) = Service!Removes(Service!Cardinality(Service!ToDelete(c, old)),
                                            Service!Empties(c, old))
    BY <2>1, FS_EmptySet, SameCardinality DEF Deleted, Service!Removes, Service!Empties
  <2>4. Service!Serves(r, c, old, old, Deleted(0, FALSE))
    BY <1>7, <2>2, <2>3
    DEF Service!Serves, Service!Succeeds, Service!Changes, Service!Reports
  <2> QED
    BY <1>1, <1>2, <1>3, <1>7, <2>4, IsServed
<1>8. ASSUME ~(c.kind = "bulk_delete" /\ matching(r) = 0),
             NEW next \in {"drop", "delete"}, Goto(r, next),
             next = "drop" <=> c.kind = "delete_collection" /\ DropEmpty
      PROVE  Advances(r)
  <2>1. Knows(next, r, c, local'[r], reply'[r], old, old)
    BY <1>2, <1>6, <1>8 DEF Knows
  <2>2. next \in Label \ {"idle", "done"}
    BY DEF Label
  <2> QED
    BY <1>1, <1>2, <1>8, <2>1, <2>2, CallsAgain
<1> QED
  BY <1>3, <1>7, <1>8

\* A deletion by filter removes what the service promises.
LEMMA DeleteSelectedAdvances ==
    ASSUME SInv, NEW r \in Request, delete_selected(r)
    PROVE  Advances(r)
<1> DEFINE c == call[r]
           old == Then(r)
           gone == Selected(db, Name(r), selector(r))
           new == Content(db'[Name(r)])
<1>1. pc[r] = "delete" /\ Calling(r) /\ UNCHANGED <<call, local>>
  BY DEF delete_selected, At, Calling
<1>2. /\ Now(r) = old /\ old # Absent /\ Present(db, Name(r))
      /\ c.kind \in {"delete", "bulk_delete", "delete_collection"}
      /\ HasCounted(c, local[r], old)
      /\ c.kind = "delete" => Service!Has(c, old)
      /\ c.kind = "delete_collection" => ~DropEmpty
      /\ Slug[c.collection] # None
  <2>1. /\ Knows(pc[r], r, c, local[r], reply[r], old, Now(r))
        /\ c.kind \in {"delete", "bulk_delete", "delete_collection"}
        /\ Slug[c.collection] # None
    BY <1>1, Context DEF Path
  <2>2. /\ Now(r) = old /\ HasCounted(c, local[r], old)
        /\ c.kind = "delete" => Service!Has(c, old)
        /\ c.kind = "delete_collection" => ~DropEmpty
    BY <1>1, <2>1 DEF Knows
  <2>3. old # Absent
    BY <2>2 DEF HasCounted
  <2> QED
    BY <1>1, <2>1, <2>2, <2>3, Context
<1>3. /\ \A name \in PhysicalName :
            name # Name(r) => Content(db'[name]) = Content(db[name])
      /\ new = Service!Without(old, gone)
  <2>1. db' = delete(db, Name(r), selector(r))
    BY <1>2 DEF delete_selected
  <2> QED
    BY <1>1, <1>2, <2>1, ContentWithout
<1>4. /\ c.kind = "delete" => gone = {c.id}
      /\ c.kind = "delete_collection" => gone = Service!Held(old)
      /\ c.kind = "bulk_delete" => gone = Service!ToDelete(c, old)
  BY <1>1, <1>2, SelectorSelects DEF Service!Has
<1>5. owns(c.owner, Name(r))
  BY DEF owns, Name, physical_name
<1>6. \/ c.kind = "delete" /\ Answer(r, Deleted(1, FALSE))
      \/ c.kind = "bulk_delete" /\ DropEmpty /\ Goto(r, "count_left")
      \/ c.kind = "bulk_delete" /\ ~DropEmpty /\ Answer(r, Deleted(local[r].matched, FALSE))
      \/ c.kind = "delete_collection" /\ Answer(r, Deleted(local[r].matched, FALSE))
  BY <1>2, <1>5 DEF delete_selected
<1>7. CASE c.kind = "delete" /\ Answer(r, Deleted(1, FALSE))
  <2>1. Service!Delete(c, old, new)
    BY <1>2, <1>3, <1>4, <1>7 DEF Service!Delete
  <2>2. Service!Serves(r, c, old, new, Deleted(1, FALSE))
    BY <1>7, <2>1 DEF Service!Serves, Service!Succeeds, Service!Changes, Service!Reports,
                      Service!Removes, Deleted
  <2> QED
    BY <1>1, <1>2, <1>3, <1>7, <2>2, IsServed
<1>8. CASE c.kind = "bulk_delete" /\ DropEmpty /\ Goto(r, "count_left")
  <2>1. Emptied(c, old, new)
    BY <1>3, <1>4, <1>8 DEF Emptied
  <2>2. Knows("count_left", r, c, local'[r], reply'[r], old, new)
    BY <1>1, <1>2, <1>8, <2>1 DEF Knows
  <2>3. "count_left" \in Label \ {"idle", "done"}
    BY DEF Label
  <2> QED
    BY <1>1, <1>3, <1>8, <2>2, <2>3, CallsAgain
<1>9. CASE c.kind = "bulk_delete" /\ ~DropEmpty /\ Answer(r, Deleted(local[r].matched, FALSE))
  <2>1. Service!BulkDelete(c, old, new)
    BY <1>2, <1>3, <1>4, <1>9 DEF Service!BulkDelete, Service!Empties
  <2>2. Deleted(local[r].matched, FALSE) =
            Service!Removes(Service!Cardinality(Service!ToDelete(c, old)),
                            Service!Empties(c, old))
    BY <1>2, <1>9, SameCardinality
    DEF HasCounted, Deleted, Service!Removes, Service!Empties
  <2>3. Service!Serves(r, c, old, new, Deleted(local[r].matched, FALSE))
    BY <1>9, <2>1, <2>2
    DEF Service!Serves, Service!Succeeds, Service!Changes, Service!Reports
  <2> QED
    BY <1>1, <1>2, <1>3, <1>9, <2>3, IsServed
<1>10. CASE c.kind = "delete_collection" /\ Answer(r, Deleted(local[r].matched, FALSE))
  <2>1. Service!DeleteCollection(old, new)
    BY <1>2, <1>3, <1>4, <1>10 DEF Service!DeleteCollection
  <2>2. Deleted(local[r].matched, FALSE) =
            Service!Removes(Service!Cardinality(Service!Held(old)), DropEmpty)
    <3>1. DropEmpty = FALSE
      BY <1>2, <1>10, RepositoryAssumption
    <3> QED
      BY <1>2, <1>10, <3>1, SameCardinality DEF HasCounted, Deleted, Service!Removes
  <2>3. Service!Serves(r, c, old, new, Deleted(local[r].matched, FALSE))
    BY <1>10, <2>1, <2>2
    DEF Service!Serves, Service!Succeeds, Service!Changes, Service!Reports
  <2> QED
    BY <1>1, <1>2, <1>3, <1>10, <2>3, IsServed
<1> QED
  BY <1>6, <1>7, <1>8, <1>9, <1>10

\* What a bulk delete has emptied, when everything was removed and otherwise.
LEMMA CountLeftAdvances ==
    ASSUME SInv, NEW r \in Request, count_left(r)
    PROVE  Advances(r)
<1> DEFINE c == call[r]
           old == Then(r)
<1>1. pc[r] = "count_left" /\ Calling(r) /\ UNCHANGED <<call, db, local>>
  BY DEF count_left, At, Reads, Calling
<1>2. /\ c.kind = "bulk_delete" /\ Slug[c.collection] # None /\ DropEmpty
      /\ old # Absent /\ HasCounted(c, local[r], old) /\ Emptied(c, old, Now(r))
  <2>1. /\ Knows(pc[r], r, c, local[r], reply[r], old, Now(r))
        /\ c.kind = "bulk_delete" /\ Slug[c.collection] # None
    BY <1>1, Context DEF Path
  <2> QED
    BY <1>1, <2>1 DEF Knows, HasCounted
<1>3. /\ Now(r) # Absent
      /\ Service!Held(Now(r)) = Service!Held(old) \ Service!ToDelete(c, old)
      /\ Service!ToDelete(c, old) \subseteq Service!Held(old)
  BY <1>1, <1>2, ThenFacts, WithoutFacts DEF Emptied
<1>4. /\ Present(db, Name(r)) /\ left(r) = Service!Held(Now(r))
      /\ Content(db'[Name(r)]) = Now(r)
  BY <1>1, <1>3, Context DEF left, Now
<1>5. CASE left(r) = {}
  <2>1. Goto(r, "drop") /\ Service!ToDelete(c, old) = Service!Held(old)
    BY <1>3, <1>4, <1>5 DEF count_left
  <2>2. Knows("drop", r, c, local'[r], reply'[r], old, Now(r))
    BY <1>1, <1>2, <2>1 DEF Knows
  <2>3. "drop" \in Label \ {"idle", "done"}
    BY DEF Label
  <2> QED
    BY <1>1, <1>4, <2>1, <2>2, <2>3, CallsAgain
<1>6. CASE left(r) # {}
  <2>1. /\ Answer(r, Deleted(local[r].matched, FALSE))
        /\ Service!ToDelete(c, old) # Service!Held(old)
    BY <1>3, <1>4, <1>6 DEF count_left
  <2>2. Service!BulkDelete(c, old, Now(r))
    BY <1>2, <2>1 DEF Service!BulkDelete, Service!Empties, Emptied
  <2>3. Deleted(local[r].matched, FALSE) =
            Service!Removes(Service!Cardinality(Service!ToDelete(c, old)),
                            Service!Empties(c, old))
    BY <1>2, <2>1, SameCardinality
    DEF HasCounted, Deleted, Service!Removes, Service!Empties
  <2>4. Service!Serves(r, c, old, Now(r), Deleted(local[r].matched, FALSE))
    BY <1>2, <2>2, <2>3
    DEF Service!Serves, Service!Succeeds, Service!Changes, Service!Reports
  <2> QED
    BY <1>1, <1>2, <1>4, <2>1, <2>4, IsServed
<1> QED
  BY <1>5, <1>6

\* A drop takes a collection with nothing else in it than was asked for.
LEMMA DropAdvances ==
    ASSUME SInv, NEW r \in Request, drop(r)
    PROVE  Advances(r)
<1> DEFINE c == call[r]
           old == Then(r)
           given == Deleted(local[r].matched, TRUE)
<1>1. /\ pc[r] = "drop" /\ Calling(r) /\ UNCHANGED call /\ Answer(r, given)
      /\ db' = [db EXCEPT ![Name(r)] = Absent]
  BY DEF drop, At, Calling, delete_collection
<1>2. /\ c.kind \in {"bulk_delete", "delete_collection"} /\ Slug[c.collection] # None
      /\ DropEmpty /\ old # Absent /\ HasCounted(c, local[r], old)
      /\ c.kind = "bulk_delete" => Service!ToDelete(c, old) = Service!Held(old)
  <2>1. /\ Knows(pc[r], r, c, local[r], reply[r], old, Now(r))
        /\ c.kind \in {"bulk_delete", "delete_collection"} /\ Slug[c.collection] # None
    BY <1>1, Context DEF Path
  <2> QED
    BY <1>1, <2>1 DEF Knows, HasCounted
<1>3. /\ \A name \in PhysicalName :
            name # Name(r) => Content(db'[name]) = Content(db[name])
      /\ Content(db'[Name(r)]) = Absent
  BY <1>1, OneCollection DEF Content
<1>4. Service!Serves(r, c, old, Absent, given)
  <2>1. CASE c.kind = "bulk_delete"
    <3>1. Service!Empties(c, old)
      BY <1>2, <2>1 DEF Service!Empties, HasCounted
    <3>2. Service!BulkDelete(c, old, Absent)
      BY <1>2, <3>1 DEF Service!BulkDelete
    <3>3. given = Service!Removes(Service!Cardinality(Service!ToDelete(c, old)),
                                  Service!Empties(c, old))
      <4>1. Service!Empties(c, old) = TRUE
        BY <3>1 DEF Service!Empties
      <4> QED
        BY <1>2, <2>1, <4>1, SameCardinality DEF HasCounted, Deleted, Service!Removes
    <3> QED
      BY <2>1, <3>2, <3>3
      DEF Service!Serves, Service!Succeeds, Service!Changes, Service!Reports
  <2>2. CASE c.kind = "delete_collection"
    <3>1. Service!DeleteCollection(old, Absent)
      BY <1>2 DEF Service!DeleteCollection
    <3>2. given = Service!Removes(Service!Cardinality(Service!Held(old)), DropEmpty)
      <4>1. DropEmpty = TRUE
        BY <1>2, RepositoryAssumption
      <4> QED
        BY <1>2, <2>2, <4>1, SameCardinality DEF HasCounted, Deleted, Service!Removes
    <3> QED
      BY <2>2, <3>1, <3>2
      DEF Service!Serves, Service!Succeeds, Service!Changes, Service!Reports
  <2> QED
    BY <1>2, <2>1, <2>2
<1> QED
  BY <1>1, <1>2, <1>3, <1>4, IsServed

-----------------------------------------------------------------------------
(* Reads *)

\* What Qdrant answers is what the service promises.
LEMMA QueryAdvances ==
    ASSUME SInv, NEW r \in Request, query(r) \/ scroll(r)
    PROVE  Advances(r)
<1> DEFINE c == call[r]
           old == Then(r)
           found == Service!Found(c, old)
<1>1. /\ pc[r] \in {"query", "scroll"} /\ Calling(r) /\ UNCHANGED <<call, db>>
      /\ query(r) => pc[r] = "query"
      /\ scroll(r) => pc[r] = "scroll"
  BY DEF query, scroll, At, Reads, Calling
<1>2. /\ Now(r) = old /\ old # Absent /\ c \in Call
      /\ c.kind = IF pc[r] = "query" THEN "search" ELSE "page"
  <2>1. Knows(pc[r], r, c, local[r], reply[r], old, Now(r)) /\ c \in Call
    BY <1>1, Context
  <2>2. c.kind = IF pc[r] = "query" THEN "search" ELSE "page"
    BY <1>1, Context DEF Path
  <2> QED
    BY <1>1, <2>1, <2>2 DEF Knows
<1>3. Present(db, Name(r)) /\ db[Name(r)].dim = old.dim
  BY <1>1, <1>2, Context
<1>4. c.limit \in Nat
  <2>1. c \in ReadCall
    BY <1>2 DEF Call, CreateCall, PointCall, UpdateCall, BulkCall, DropCall
  <2> QED
    BY <2>1, RepositoryAssumption DEF ReadCall
<1>5. found \subseteq Request /\ Cardinality(found) \in Nat
  <2>1. found \subseteq Request
    BY DEF Service!Found, Service!Held
  <2> QED
    BY <2>1, FS_Subset, FS_CardinalityType, RepositoryAssumption
<1>6. CASE Finds(r) /\ (c.kind = "search" => c.dim = old.dim)
  <2>1. PICK hits \in Answers(db, Name(r), scoped(User(r), c.topic, c.filter), c.limit) :
          Answer(r, Shows(200, hits))
    BY <1>6 DEF Finds
  <2>2. Selected(db, Name(r), scoped(User(r), c.topic, c.filter)) = found
    BY <1>1, <1>2, FoundIsSelected
  <2> HIDE DEF found
  <2>3. /\ hits \subseteq found
        /\ \/ hits = found /\ Cardinality(hits) =< c.limit
           \/ Cardinality(found) > c.limit /\ Cardinality(hits) = c.limit
    BY <2>1, <2>2 DEF Answers
  <2>4. IF Cardinality(found) =< c.limit THEN hits = found ELSE Cardinality(hits) = c.limit
    <3> HIDE DEF c
    <3> QED
      BY <1>4, <1>5, <2>3
  <2>5. Service!Reads(c, old, Shows(200, hits))
    <3>1. /\ hits \in SUBSET Service!Found(c, old)
          /\ Shows(200, hits) = Service!Shown(200, hits)
          /\ IF Service!Cardinality(Service!Found(c, old)) =< c.limit
             THEN hits = Service!Found(c, old)
             ELSE Service!Cardinality(hits) = c.limit
      BY <2>3, <2>4, SameCardinality DEF found, Shows, Service!Shown
    <3> QED
      BY <1>2, <1>6, <3>1 DEF Service!Reads
  <2> QED
    BY <1>1, <1>2, <2>1, <2>5, IsAnswered
<1>7. CASE Raise(r) /\ c.kind = "search" /\ c.dim # old.dim
  <2>1. Service!Refused(c, old, Status(500))
    BY <1>2, <1>7 DEF Service!Refused, Status, Shows, Service!Shown
  <2> QED
    BY <1>1, <1>2, <1>7, <2>1, IsAnswered DEF Raise
<1> QED
  BY <1>1, <1>2, <1>3, <1>6, <1>7 DEF query, scroll

-----------------------------------------------------------------------------
(* Every step is hidden from the service, or serves *)

\* Every Qdrant call but the answer advances its request, one case per action.
LEMMA StepAdvances ==
    ASSUME SInv, NEW r \in Request, Step(r), ~respond(r)
    PROVE  Advances(r)
<1>1. ASSUME upsert_call(r)
      PROVE  Advances(r)
  <2>1. pc[r] = "upsert" /\ Calling(r)
    BY <1>1 DEF upsert_call, At, Calling
  <2>2. call[r].kind \in {"create", "update"}
    BY <2>1, Context DEF Path
  <2> QED
    BY <1>1, <2>2, StoreAdvances, UpdateAdvances
<1> QED
  BY <1>1, CollectionExistsAdvances, CreateCollectionAdvances,
     CreatePayloadIndexesAdvances, AssertDimensionMatchesAdvances, OwnedPointAdvances,
     CountSelectedAdvances, DeleteSelectedAdvances, CountLeftAdvances, DropAdvances,
     QueryAdvances DEF Step

\* How the new value of the history variable depends on what is in flight.
Settles == settled' = IF InFlight' = {} THEN db' ELSE settled

\* A client sees nothing of a request before its answer.
LEMMA AdvanceIsHidden ==
    ASSUME SInv, IInv', NEW r \in InFlight, Advances(r), Settles
    PROVE  SInv' /\ UNCHANGED <<held, asked, answer>>
<1>1. /\ r \in Request /\ pc[r] \notin {"idle", "done"}
      /\ pc'[r] \notin {"idle", "done"} /\ UNCHANGED call
      /\ \A q \in Request \ {r} : pc'[q] = pc[q] /\ reply'[q] = reply[q]
      /\ \A name \in PhysicalName : name # Name(r) => Content(db'[name]) = Content(db[name])
      /\ Knows(pc'[r], r, call[r], local'[r], reply'[r], Then(r), Content(db'[Name(r)]))
  BY DEF Advances, InFlight
<1>2. InFlight' = {r} /\ InFlight = {r}
  <2>1. InFlight = {r}
    BY DEF SInv
  <2> QED
    BY <1>1, <2>1 DEF InFlight
<1>3. UNCHANGED settled
  BY <1>2 DEF Settles
<1>4. /\ OnlyItsOwn(r)'
      /\ Knows(pc'[r], r, call'[r], local'[r], reply'[r], Then(r)', Now(r)')
  <2>1. Name(r)' = Name(r)
    BY <1>1 DEF Name
  <2>2. Then(r)' = Then(r) /\ Now(r)' = Content(db'[Name(r)])
    BY <1>3, <2>1 DEF Then, Now
  <2>3. OnlyItsOwn(r)'
    <3>1. OnlyItsOwn(r)
      BY DEF SInv
    <3> QED
      BY <1>1, <1>3, <2>1, <3>1 DEF OnlyItsOwn
  <2> QED
    BY <1>1, <2>2, <2>3
<1>5. \A q \in Request : pc'[q] # "idle" => call'[q] \in Workload[q]
  BY <1>1 DEF SInv
<1>6. settled' \in [PhysicalName -> StoredCollection \union {Absent}]
  BY <1>3 DEF SInv
<1>7. SInv'
  BY <1>2, <1>4, <1>5, <1>6 DEF SInv
<1>8. \A q \in Request : Given(q, call[q])' = Given(q, call[q]) /\ Given(q, reply[q])' = Given(q, reply[q])
  BY <1>1 DEF Given
<1> QED
  BY <1>3, <1>7, <1>8 DEF held, asked, answer

\* A request that comes when nothing is in flight finds the settled database.
LEMMA ReceiveIsHidden ==
    ASSUME SInv, IInv', NEW r \in Request, Receive(r), Settles
    PROVE  SInv' /\ UNCHANGED <<held, asked, answer>>
<1>1. InFlight = {}
  <2>1. IsFiniteSet(InFlight)
    BY FS_Subset, RepositoryAssumption DEF InFlight
  <2>2. Cardinality(InFlight) < 1
    BY SequentialAssumption DEF Receive
  <2>3. Cardinality(InFlight) = 0
    BY <2>1, <2>2, FS_CardinalityType
  <2> QED
    BY <2>1, <2>3, FS_EmptySet
<1>2. PICK c \in Workload[r] :
        /\ call' = [call EXCEPT ![r] = c]
        /\ IF Slug[c.collection] = None THEN Answer(r, Status(422))
                                        ELSE Goto(r, "collection_exists")
  BY DEF Receive
<1>3. /\ pc[r] = "idle" /\ UNCHANGED <<db, local>> /\ settled = db /\ call'[r] = c
      /\ \A q \in Request \ {r} : /\ pc'[q] = pc[q] /\ call'[q] = call[q]
                                  /\ reply'[q] = reply[q]
      /\ IF Slug[c.collection] = None THEN pc'[r] = "respond" /\ reply'[r] = Status(422)
                                      ELSE pc'[r] = "collection_exists"
  BY <1>1, <1>2 DEF Receive, Answer, Goto, SInv, IInv, TypeOK
<1>4. InFlight' = {r}
  BY <1>1, <1>3 DEF InFlight
<1>5. UNCHANGED settled
  BY <1>4 DEF Settles
<1>6. Knows(pc'[r], r, call'[r], local'[r], reply'[r], Then(r)', Now(r)')
  <2>1. Then(r)' = Now(r)'
    BY <1>3, <1>5 DEF Then, Now
  <2> QED
    BY <1>3, <2>1 DEF Knows
<1>7. OnlyItsOwn(r)'
  BY <1>3, <1>5 DEF OnlyItsOwn
<1>8. /\ \A q \in Request : pc'[q] # "idle" => call'[q] \in Workload[q]
      /\ settled' \in [PhysicalName -> StoredCollection \union {Absent}]
  BY <1>3, <1>5 DEF SInv
<1>9. SInv'
  BY <1>4, <1>6, <1>7, <1>8 DEF SInv
<1>10. \A q \in Request : Given(q, call[q])' = Given(q, call[q]) /\ Given(q, reply[q])' = Given(q, reply[q])
  BY <1>3 DEF Given
<1> QED
  BY <1>5, <1>9, <1>10 DEF held, asked, answer

\* Where a request may fail, it has done all, half or nothing of its work.
LEMMA PartlyDone ==
    ASSUME SInv, NEW r \in Request, r \in InFlight, Slug[call[r].collection] # None
    PROVE  \/ Now(r) = Then(r)
           \/ Service!Changes(r, call[r], Then(r), Now(r))
           \/ Service!ChangesHalf(call[r], Then(r), Now(r))
<1> DEFINE c == call[r]
           old == Then(r)
           new == Now(r)
<1>1. Knows(pc[r], r, c, local[r], reply[r], old, new)
  BY DEF SInv
<1>2. CASE pc[r] = "respond"
  <2>1. Service!Serves(r, c, old, new, reply[r])
    BY <1>1, <1>2 DEF Knows
  <2> QED
    BY <2>1 DEF Service!Serves, Service!Succeeds, Service!Fails
<1>3. CASE pc[r] # "respond"
  <2>1. Calling(r)
    BY <1>3 DEF InFlight, Calling
  <2>2. CASE pc[r] \in {"create_payload_index", "get_collection", "upsert"}
    BY <1>1, <2>2 DEF Knows, Made, Current, Service!ChangesHalf
  <2>3. CASE pc[r] = "count_left"
    <3>1. c.kind = "bulk_delete"
      BY <2>1, <2>3, Context DEF Path
    <3> QED
      BY <1>1, <2>3, <3>1 DEF Knows, Emptied, HasCounted, Service!ChangesHalf
  <2>4. CASE pc[r] = "drop"
    BY <1>1, <2>4 DEF Knows, Emptied, HasCounted, Service!ChangesHalf
  <2>5. pc[r] \in Label \ {"idle", "respond", "done"}
    BY <2>1 DEF Calling, SInv, IInv, TypeOK
  <2> QED
    BY <1>1, <2>2, <2>3, <2>4, <2>5 DEF Knows, Label
<1> QED
  BY <1>2, <1>3

\* The step that ends a request is the one in which the service serves it.
LEMMA EndServes ==
    ASSUME SInv, IInv', NEW r \in Request, respond(r) \/ Fail(r), Settles
    PROVE  SInv' /\ Service!Next
<1> DEFINE c == call[r]
           place == [owner |-> c.owner, slug |-> Slug[c.collection]]
<1>1. /\ pc[r] \notin {"idle", "done"} /\ pc' = [pc EXCEPT ![r] = "done"]
      /\ UNCHANGED <<call, db>>
      /\ \A q \in Request \ {r} : reply'[q] = reply[q]
  BY DEF respond, Fail, At, Reads, SInv, IInv, TypeOK
<1>2. r \in InFlight /\ InFlight' = {} /\ settled' = db /\ pc'[r] = "done"
  BY <1>1 DEF InFlight, Settles, SInv, IInv, TypeOK
<1>3. SInv'
  <2>1. /\ \A q \in Request : pc'[q] # "idle" => call'[q] \in Workload[q]
        /\ settled' \in [PhysicalName -> StoredCollection \union {Absent}]
    BY <1>1, <1>2 DEF SInv, IInv, TypeOK
  <2> QED
    BY <1>1, <1>2, <2>1 DEF SInv
<1>4. /\ c \in Call /\ c \in Workload[r] /\ c.owner \in Owner /\ c.collection \in Collection
  <2>1. c \in Call
    BY <1>1 DEF SInv, IInv, CallsOK
  <2> QED
    BY <1>1, <2>1, CallFacts DEF SInv
<1>5. /\ answer[r] = None /\ answer'[r] = reply'[r]
      /\ asked' = [asked EXCEPT ![r] = c] /\ answer' = [answer EXCEPT ![r] = answer'[r]]
  <2>1. \A q \in Request : /\ Given(q, call[q])' = IF q = r THEN c ELSE Given(q, call[q])
                           /\ Given(q, reply[q])' = IF q = r THEN reply'[r] ELSE Given(q, reply[q])
    BY <1>1, <1>2 DEF Given, SInv, IInv, TypeOK
  <2>2. Given(r, reply[r]) = None
    BY <1>1 DEF Given
  <2> QED
    BY <2>1, <2>2 DEF answer, asked
<1>6. /\ OnlyItsOwn(r)
      /\ Knows(pc[r], r, c, local[r], reply[r], Then(r), Now(r))
  BY <1>2 DEF SInv
<1>7. \A name \in PhysicalName : name # Name(r) => Content(settled'[name]) = Content(settled[name])
  BY <1>2, <1>6 DEF OnlyItsOwn
<1>8. \A p \in [owner : Owner, slug : SlugText] :
        PhysicalOf(p) \in PhysicalName /\ (PhysicalOf(p) = Name(r) => p = place)
  <2> SUFFICES ASSUME NEW p \in [owner : Owner, slug : SlugText]
               PROVE  PhysicalOf(p) \in PhysicalName /\ (PhysicalOf(p) = Name(r) => p = place)
    OBVIOUS
  <2>1. PhysicalOf(p) \in PhysicalName
    BY DEF PhysicalOf, PhysicalName
  <2>2. ASSUME PhysicalOf(p) = Name(r)
        PROVE  p = place
    <3>1. namespace(p.owner) = namespace(c.owner) /\ p.slug = Slug[c.collection]
      BY <2>2 DEF PhysicalOf, Name, physical_name
    <3>2. p.owner.tenant_id = c.owner.tenant_id /\ p.owner.username = c.owner.username
      BY <3>1 DEF namespace
    <3>3. p.owner = c.owner
      BY <1>4, <3>2 DEF Owner
    <3> QED
      BY <3>1, <3>3
  <2> QED
    BY <2>1, <2>2
<1>9. Service!Serve(r, c)
  <2>1. CASE place.slug = None
    <3>1. UNCHANGED held
      <4>1. \A p \in [owner : Owner, slug : SlugText] : PhysicalOf(p) # Name(r)
        BY <1>8, <2>1, RepositoryAssumption
      <4> QED
        BY <1>7, <1>8, <4>1 DEF held
    <3>2. Service!Unnamed(r, reply'[r])
      <4>1. CASE respond(r)
        <5>1. pc[r] = "respond" /\ reply'[r] = reply[r]
          BY <4>1 DEF respond, At
        <5>2. reply[r] = Status(422)
          BY <1>6, <2>1, <5>1 DEF Knows
        <5> QED
          BY <5>1, <5>2 DEF Service!Unnamed, Status, Shows, Service!Shown
      <4>2. CASE Fail(r)
        <5>1. r \in Failing /\ reply'[r] = Status(500)
          BY <4>2 DEF Fail, SInv, IInv, TypeOK
        <5> QED
          BY <5>1 DEF Service!Unnamed, Status, Shows, Service!Shown
      <4> QED
        BY <4>1, <4>2
    <3> QED
      BY <1>5, <2>1, <3>1, <3>2 DEF Service!Serve
  <2>2. CASE place.slug # None
    <3>1. place \in [owner : Owner, slug : SlugText] /\ PhysicalOf(place) = Name(r)
      BY <1>4, <2>2, RepositoryAssumption DEF PhysicalOf, Name, physical_name
    <3>2. held[place] = Then(r) /\ held'[place] = Now(r)
      BY <1>2, <3>1 DEF held, Then, Now
    <3>3. held' = [held EXCEPT ![place] = held'[place]]
      <4>1. \A p \in [owner : Owner, slug : SlugText] :
                p # place => Content(settled'[PhysicalOf(p)]) = Content(settled[PhysicalOf(p)])
        BY <1>7, <1>8
      <4>2. PhysicalOf(place)' = PhysicalOf(place)
        BY <1>1 DEF PhysicalOf
      <4> HIDE DEF place
      <4> QED
        BY <3>1, <4>1 DEF held
    <3>4. Service!Serves(r, c, Then(r), Now(r), reply'[r])
      <4>1. CASE respond(r)
        <5>1. pc[r] = "respond" /\ reply'[r] = reply[r]
          BY <4>1 DEF respond, At
        <5> QED
          BY <1>6, <2>2, <5>1 DEF Knows
      <4>2. CASE Fail(r)
        <5>1. r \in Failing /\ reply'[r] = Service!Shown(500, {})
          BY <4>2 DEF Fail, SInv, IInv, TypeOK, Status, Shows, Service!Shown
        <5>2. \/ Now(r) = Then(r)
              \/ Service!Changes(r, c, Then(r), Now(r))
              \/ Service!ChangesHalf(c, Then(r), Now(r))
          BY <1>2, <2>2, PartlyDone
        <5> QED
          BY <5>1, <5>2 DEF Service!Serves, Service!Fails
      <4> QED
        BY <4>1, <4>2
    <3> QED
      BY <1>5, <2>2, <3>2, <3>3, <3>4 DEF Service!Serve
  <2> QED
    BY <2>1, <2>2
<1> QED
  BY <1>3, <1>4, <1>5, <1>9 DEF Service!Next

-----------------------------------------------------------------------------
(* The refinement *)

\* Both begin with nothing stored and nothing asked.
LEMMA InitServes == SequentialInit => SInv /\ Service!Init
<1> SUFFICES ASSUME SequentialInit PROVE SInv /\ Service!Init
  OBVIOUS
<1>1. /\ Init /\ settled = db /\ IInv /\ InFlight = {}
  BY InitInv DEF SequentialInit, Init, InFlight
<1>2. SInv
  BY <1>1 DEF SInv, IInv, TypeOK, Init
<1>3. \A place \in [owner : Owner, slug : SlugText] : Content(settled[PhysicalOf(place)]) = Absent
  BY <1>1 DEF PhysicalOf, PhysicalName, Init, Content
<1>4. \A r \in Request : pc[r] # "done"
  BY <1>1 DEF Init
<1> QED
  BY <1>2, <1>3, <1>4 DEF Service!Init, Service!Place, held, asked, answer, Given

\* Every step is one of the service's or stutters there: the answer and the
\* failure of a request are the steps that serve it.
LEMMA NextServes ==
    SInv /\ [SequentialNext]_sequentialVars => SInv' /\ [Service!Next]_(Service!serviceVars)
<1> SUFFICES ASSUME SInv, [SequentialNext]_sequentialVars
             PROVE  SInv' /\ [Service!Next]_(Service!serviceVars)
  OBVIOUS
<1>1. IInv'
  BY NextInv DEF SInv, SequentialNext, sequentialVars, vars
<1>2. CASE UNCHANGED vars /\ UNCHANGED settled
  BY <1>1, <1>2 DEF vars, SInv, InFlight, OnlyItsOwn, Name, Then, Now, Service!serviceVars,
     held, asked, answer, Given
<1>3. CASE Quiet /\ Settles
  <2>1. UNCHANGED vars /\ UNCHANGED settled
    BY <1>3 DEF Quiet, Settles, SInv, vars, InFlight
  <2> QED
    BY <1>2, <2>1
<1>4. ASSUME NEW r \in Request, Receive(r) \/ Step(r) \/ Fail(r), Settles
      PROVE  SInv' /\ [Service!Next]_(Service!serviceVars)
  <2>1. CASE Receive(r)
    BY <1>1, <1>4, <2>1, ReceiveIsHidden DEF Service!serviceVars
  <2>2. CASE Step(r) /\ ~respond(r)
    <3>1. Advances(r)
      BY <2>2, StepAdvances
    <3>2. r \in InFlight
      BY <2>2 DEF InFlight, Step, At, collection_exists, create_collection_call,
         create_payload_indexes, assert_dimension_matches, owned_point, upsert_call,
         count_selected, delete_selected, count_left, drop, query, scroll
    <3> QED
      BY <1>1, <1>4, <3>1, <3>2, AdvanceIsHidden DEF Service!serviceVars
  <2>3. CASE respond(r) \/ Fail(r)
    BY <1>1, <1>4, <2>3, EndServes
  <2> QED
    BY <1>4, <2>1, <2>2, <2>3
<1> QED
  BY <1>2, <1>3, <1>4 DEF SequentialNext, sequentialVars, Next, Settles

\* Requests that come one at a time are served as if each took effect at once,
\* in the step that answers it, exactly as EmbeddingService promises.
THEOREM Refinement == SequentialSpec => ServedAtOnce
BY InitServes, NextServes, PTL DEF SequentialSpec, ServedAtOnce, Service!Spec

=============================================================================
