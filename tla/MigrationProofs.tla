-------------------------- MODULE MigrationProofs --------------------------
(***************************************************************************)
(* Theorems about Migration for every value of its constants: any number   *)
(* of legacy collections and points, of runs, and of requests beside them. *)
(*                                                                         *)
(* A legacy point was stored by no request, so IInv does not hold beside   *)
(* the script.  What follows from Base and HistoryOK does, and is all that *)
(* is used here of the service.  MInv adds how far the script has come,    *)
(* and what that says of the points it is done with (Copied) and, in its   *)
(* first run, of those it has yet to come to (FirstRun).                   *)
(***************************************************************************)
EXTENDS Migration, RepositoryProofs

\* What the script knows at each of its calls.
ScriptOK ==
    /\ at \in Running \union {"idle", "done", "failed"} /\ apply \in BOOLEAN
    /\ atName \in Nat /\ atUser \in Nat /\ start \in Nat /\ runs \in Nat
    /\ at \in Writing \union {"read_points"} => atName \in DOMAIN LegacyNames
    /\ at = "read_points" => atUser = 0
    /\ at \in Writing => /\ apply /\ Legacy[Name0].dim # None
                         /\ atUser \in DOMAIN SortedUsers
    /\ at = "upsert" => Slug[Name0] # None
    /\ runs = 0 <=> at = "idle"
    /\ (runs =< 1 /\ at \in {"idle", "get_collections"}) => atName = 0
    /\ at = "done" => \A k \in DOMAIN LegacyNames : k < atName

\* The points of no request: their ids never arrive.
Dormant ==
    \A legacy \in LegacyName : \A i \in Positions(legacy) :
        pc[P(legacy, i).id] = "idle"

\* Where a legacy point belongs.
Owned(legacy, i) == Legacy[legacy].dim # None /\ P(legacy, i).payload.user_id # None
Home(legacy, i) == target(legacy, P(legacy, i).payload.user_id)
Goes(legacy, i, name) == Owned(legacy, i) /\ name = Home(legacy, i)

\* A legacy point is at home, and is read, shown and removed there only.
Lives(legacy, i) ==
    LET id == P(legacy, i).id
    IN  /\ \A name \in PhysicalName : HoldsPoint(name, id) =>
            /\ Goes(legacy, i, name)
            /\ db[name].points[id].payload.user_id = P(legacy, i).payload.user_id
        /\ \A u \in Request : HasRead(u, id) => Goes(legacy, i, Name(u))
        /\ \A r \in Request : id \in removed[r] =>
            pc[r] # "idle" /\ Name(r) \in PhysicalName /\ Goes(legacy, i, Name(r))
        /\ \A r \in Request : id \in reply[r].hits =>
            pc[r] # "idle" /\ Goes(legacy, i, Name(r))

AtHome == \A legacy \in LegacyName : \A i \in Positions(legacy) : Lives(legacy, i)

\* The script, in its current run, is past the collection, past the user, or
\* past the batch of a point.
PastUser(legacy, i) ==
    \E j \in DOMAIN SortedUsers :
        /\ SortedUsers[j] = P(legacy, i).payload.user_id
        /\ \/ j < atUser
           \/ j = atUser /\ Place(by_user(legacy, SortedUsers[j]), i) < start

Behind(legacy, i) ==
    \E k \in DOMAIN LegacyNames :
        /\ LegacyNames[k] = legacy
        /\ k < atName \/ (k = atName /\ PastUser(legacy, i))

\* What is behind the script was copied.
Arrived(legacy, i) ==
    LET id == P(legacy, i).id
    IN  /\ Home(legacy, i) \in PhysicalName
        /\ HoldsPoint(Home(legacy, i), id) \/ \E q \in Request : id \in removed[q]

Copied ==
    (at \in {"read_points", "done"} \union Writing /\ apply) =>
        \A legacy \in LegacyName : \A i \in Positions(legacy) :
            Owned(legacy, i) /\ Behind(legacy, i) => Arrived(legacy, i)

\* u is an update of the point that succeeded.
Updated(u, id) ==
    /\ Kind(u) = "update" /\ call[u].id = id
    /\ pc[u] \in {"respond", "done"} /\ reply[u].status \in {200, 201}

\* Nobody has seen the point.
Untouched(id) ==
    /\ \A name \in PhysicalName : ~HoldsPoint(name, id)
    /\ \A u \in Request : ~HasRead(u, id) /\ ~Updated(u, id) /\ id \notin removed[u]

\* In the first run what the script has yet to copy is untouched; so it never
\* writes over a later version, nor after a removal.
CopiedOnce(legacy, i) ==
    LET id == P(legacy, i).id
    IN  /\ Behind(legacy, i) \/ Untouched(id)
        /\ \A name \in PhysicalName :
            HoldsPoint(name, id) /\ db[name].points[id].payload.updated_at = id
                => \A u \in Request : ~Updated(u, id)
        /\ \A r \in Request : id \in removed[r] =>
            StaysAway(r, id) \/ \E u \in Request : Rewrites(u, r, id)

FirstRun ==
    runs =< 1 => \A legacy \in LegacyName : \A i \in Positions(legacy) :
                    CopiedOnce(legacy, i)

MInv == Recorded /\ ScriptOK /\ Dormant /\ AtHome /\ Copied /\ FirstRun

-----------------------------------------------------------------------------
(* The legacy collections *)

\* What the assumptions say of one legacy point.
LEMMA LegacyFacts ==
    ASSUME NEW legacy \in LegacyName, NEW i \in Positions(legacy)
    PROVE  /\ legacy \in Collection /\ P(legacy, i) \in LegacyPoint
           /\ P(legacy, i).id \in Request /\ P(legacy, i).id \in Id
           /\ Workload[P(legacy, i).id] = {}
           /\ P(legacy, i).payload.updated_at = P(legacy, i).id
           /\ P(legacy, i).payload.user_id # None =>
                \E j \in DOMAIN SortedUsers :
                    SortedUsers[j] = P(legacy, i).payload.user_id
<1>1. legacy \in Collection
  BY MigrationAssumption DEF LegacyName
<1>2. P(legacy, i) \in LegacyPoint
  <2>1. Legacy[legacy].points \in Seq(LegacyPoint)
    BY MigrationAssumption
  <2> QED
    BY <2>1 DEF P, Positions
<1>3. P(legacy, i).id \in Id
  BY <1>2 DEF LegacyPoint
<1> QED
  BY <1>1, <1>2, <1>3, MigrationAssumption DEF Id

\* Ids tell legacy points apart.
LEMMA SameId ==
    ASSUME NEW legacy \in LegacyName, NEW i \in Positions(legacy),
           NEW other \in LegacyName, NEW j \in Positions(other),
           P(other, j).id = P(legacy, i).id
    PROVE  other = legacy /\ j = i
BY MigrationAssumption

\* Positions are those of two sequences.
LEMMA Domains ==
    /\ Len(LegacyNames) \in Nat /\ DOMAIN LegacyNames = 1 .. Len(LegacyNames)
    /\ Len(SortedUsers) \in Nat /\ DOMAIN SortedUsers = 1 .. Len(SortedUsers)
    /\ SCROLL_PAGE \in Nat \ {0}
BY MigrationAssumption

\* A user's points in a legacy collection are finitely many, and the place of
\* one of them among them is below their number.
LEMMA PlaceBelow ==
    ASSUME NEW legacy \in LegacyName, NEW username
    PROVE  /\ Cardinality(by_user(legacy, username)) \in Nat
           /\ \A i \in by_user(legacy, username) :
                /\ Place(by_user(legacy, username), i) \in Nat
                /\ Place(by_user(legacy, username), i)
                        < Cardinality(by_user(legacy, username))
<1> DEFINE group == by_user(legacy, username)
<1>1. IsFiniteSet(group) /\ group \subseteq Nat
  <2>1. Legacy[legacy].points \in Seq(LegacyPoint)
    BY MigrationAssumption
  <2>2. /\ Len(Legacy[legacy].points) \in Nat
        /\ Positions(legacy) = 1 .. Len(Legacy[legacy].points)
    BY <2>1 DEF Positions
  <2>3. group \subseteq 1 .. Len(Legacy[legacy].points)
    BY <2>2 DEF by_user
  <2>4. IsFiniteSet(1 .. Len(Legacy[legacy].points))
    BY <2>2, FS_Interval
  <2> HIDE DEF group
  <2>5. IsFiniteSet(group)
    BY <2>3, <2>4, FS_Subset
  <2> QED
    BY <2>2, <2>3, <2>5
<1> HIDE DEF group
<1>2. Cardinality(group) \in Nat
  BY <1>1, FS_CardinalityType
<1>3. ASSUME NEW i \in group
      PROVE  Place(group, i) \in Nat /\ Place(group, i) < Cardinality(group)
  <2> DEFINE earlier == {j \in group : j < i}
             others == group \ {i}
  <2>1. IsFiniteSet(others) /\ Cardinality(others) = Cardinality(group) - 1
    BY <1>1, FS_RemoveElement
  <2>2. earlier \subseteq others
    BY <1>1
  <2>3. Place(group, i) = Cardinality(earlier)
    BY DEF Place
  <2> HIDE DEF earlier, others
  <2>4. IsFiniteSet(earlier) /\ Cardinality(earlier) =< Cardinality(others)
    BY <2>1, <2>2, FS_Subset
  <2>5. Cardinality(earlier) \in Nat
    BY <2>4, FS_CardinalityType
  <2> QED
    BY <1>2, <2>1, <2>3, <2>4, <2>5
<1> QED
  BY <1>2, <1>3 DEF group

\* Where the script writes, and what.
LEMMA TargetFacts ==
    ASSUME ScriptOK, at \in Writing
    PROVE  /\ Name0 \in LegacyName /\ Legacy[Name0].dim \in Dim
           /\ SortedUsers[atUser] \in Username /\ SortedUsers[atUser] # None
           /\ atName \in DOMAIN LegacyNames /\ atUser \in DOMAIN SortedUsers
           /\ Slug[Name0] # None <=> Target0 \in PhysicalName
           /\ \A i \in Points0 :
                /\ i \in Positions(Name0) /\ Owned(Name0, i)
                /\ Home(Name0, i) = Target0
                /\ P(Name0, i).payload.user_id = SortedUsers[atUser]
<1>1. /\ atName \in DOMAIN LegacyNames /\ atUser \in DOMAIN SortedUsers
      /\ Legacy[Name0].dim # None
  BY DEF ScriptOK
<1>2. Name0 \in LegacyName /\ Name0 \in Collection
  BY <1>1, MigrationAssumption DEF Name0, LegacyName
<1>3. Legacy[Name0].dim \in Dim
  BY <1>1, <1>2, MigrationAssumption
<1>4. SortedUsers[atUser] \in Username /\ SortedUsers[atUser] # None
  BY <1>1, MigrationAssumption
<1>5. Slug[Name0] # None <=> Target0 \in PhysicalName
  <2> DEFINE owner == [tenant_id |-> MigrationTenant, username |-> SortedUsers[atUser]]
  <2>1. owner \in Owner
    BY <1>4, MigrationAssumption DEF Owner
  <2>2. Target0 = [namespace |-> namespace(owner), slug |-> Slug[Name0]]
    BY DEF Target0, target, physical_name
  <2>3. Slug[Name0] \in SlugText \union {None} /\ None \notin SlugText
    BY <1>2, RepositoryAssumption
  <2> HIDE DEF owner
  <2>4. Slug[Name0] # None => Target0 \in PhysicalName
    BY <2>1, <2>2, <2>3 DEF PhysicalName
  <2>5. Target0 \in PhysicalName => Slug[Name0] \in SlugText
    BY <2>2 DEF PhysicalName
  <2> QED
    BY <2>3, <2>4, <2>5
<1>6. \A i \in Points0 :
        /\ i \in Positions(Name0) /\ Owned(Name0, i) /\ Home(Name0, i) = Target0
        /\ P(Name0, i).payload.user_id = SortedUsers[atUser]
  BY <1>1, <1>4 DEF Points0, by_user, Owned, Home, Target0
<1> QED
  BY <1>1, <1>2, <1>3, <1>4, <1>5, <1>6

-----------------------------------------------------------------------------
(* A request beside the script *)

\* Who works on a collection's name works under its user's name.
LEMMA HomeUser ==
    ASSUME NEW legacy, NEW i, NEW u \in Request, Goes(legacy, i, Name(u))
    PROVE  User(u) = P(legacy, i).payload.user_id
<1>1. Name(u) = Home(legacy, i)
  BY DEF Goes
<1>2. namespace(call[u].owner) =
        namespace([tenant_id |-> MigrationTenant,
                   username |-> P(legacy, i).payload.user_id])
  BY <1>1 DEF Home, target, Name, physical_name
<1> QED
  BY <1>2 DEF namespace, User

\* An update succeeds by writing the point it read, dated by itself.
LEMMA UpdateAnswered ==
    ASSUME Recorded, NEW q \in Request, Receive(q) \/ Step(q) \/ Fail(q),
           NEW id, Updated(q, id)', ~Updated(q, id)
    PROVE  /\ HasRead(q, id) /\ Name(q) \in PhysicalName /\ id \in Id
           /\ PointAt(db', Name(q), id) # None
           /\ PointAt(db', Name(q), id).payload.updated_at = q
<1> USE DEF Recorded, Base, TypeOK
<1>1. MoveOf(q) /\ ~Receive(q)
  BY MovesAlone, ArrivalAnswers DEF Updated
<1>2. /\ pc[q] \notin {"idle", "done"} /\ call'[q] = call[q]
      /\ call[q].kind = "update" /\ call[q].id = id /\ Kind(q) = "update"
  BY <1>1, StepServes, ArrivedStays DEF Updated, Kind
<1>3. \A code : Status(code).status = code
  BY DEF Status, Shows
<1>4. CASE upsert_call(q)
  <2> DEFINE point == updated_point(q)
  <2>1. pc[q] = "upsert" /\ Calling(q)
    BY <1>4 DEF upsert_call, At, Calling
  <2>2. /\ Present(db, Name(q)) /\ db' = upsert(db, Name(q), id, point)
    BY <1>2, <1>3, <1>4 DEF upsert_call, Raise, Answer, Updated
  <2>3. /\ id \in Id /\ point \in Point /\ point.payload.updated_at = q
        /\ Name(q) \in PhysicalName
    BY <1>2, <2>1, WrittenType, AtCall
  <2>4. point # None
    BY <2>3, RepositoryAssumption
  <2> HIDE DEF point
  <2>5. PointAt(db', Name(q), id) = point
    BY <2>2, <2>3, UpsertEffect DEF PointAt, Present
  <2> QED
    BY <1>2, <2>1, <2>3, <2>4, <2>5 DEF HasRead
<1>5. CASE Fail(q)
  BY <1>3, <1>5 DEF Fail, Updated
<1>6. CASE respond(q)
  BY <1>2, <1>6 DEF respond, At, Updated
<1>7. CASE Step(q) /\ Calling(q) /\ ~upsert_call(q)
  <2>1. pc[q] \in {"collection_exists", "retrieve", "get_collection", "upsert"}
    BY <1>2, <1>7, AtCall DEF Path
  <2>2. collection_exists(q) \/ owned_point(q) \/ assert_dimension_matches(q)
    BY <1>7, <2>1
    DEF Step, create_collection_call, create_payload_indexes, count_selected,
        delete_selected, count_left, drop, query, scroll, respond, At
  <2>3. reply[q].status = 0
    BY <1>3, <1>7 DEF HistoryOK
  <2>4. collection_exists(q) => reply'[q].status \in {0, 404}
    BY <1>3, <2>3 DEF collection_exists, Goto, Answer
  <2>5. owned_point(q) => reply'[q].status \in {0, 404, 500}
    BY <1>2, <1>3, <2>3 DEF owned_point, Goto, Answer, Raise
  <2>6. assert_dimension_matches(q) => reply'[q].status \in {0, 409, 500}
    BY <1>3, <2>3 DEF assert_dimension_matches, Goto, Answer, Raise
  <2> QED
    BY <2>2, <2>4, <2>5, <2>6 DEF Updated
<1>8. Step(q) => Calling(q) \/ respond(q)
  BY <1>2
  DEF Step, collection_exists, create_collection_call, create_payload_indexes,
      assert_dimension_matches, owned_point, upsert_call, count_selected,
      delete_selected, count_left, drop, query, scroll, At, Calling
<1> QED
  BY <1>1, <1>4, <1>5, <1>6, <1>7, <1>8

\* No request has the id of a legacy point.
LEMMA DormantStays ==
    ASSUME Dormant, NEW q \in Request, MoveOf(q), Receive(q) \/ Step(q) \/ Fail(q)
    PROVE  Dormant'
<1> SUFFICES ASSUME NEW legacy \in LegacyName, NEW i \in Positions(legacy)
             PROVE  pc'[P(legacy, i).id] = "idle"
  BY DEF Dormant
<1>1. pc[P(legacy, i).id] = "idle" /\ P(legacy, i).id \in Request
  BY LegacyFacts DEF Dormant
<1>2. P(legacy, i).id # q
  BY <1>1, StepServes, LegacyFacts DEF Receive
<1> QED
  BY <1>1, <1>2 DEF MoveOf

\* A request writes a legacy point only by an update that has read it.
LEMMA WrittenOver ==
    ASSUME Recorded, Dormant, NEW q \in Request, Receive(q) \/ Step(q) \/ Fail(q),
           NEW legacy \in LegacyName, NEW i \in Positions(legacy),
           NEW name \in PhysicalName
    PROVE  LET id == P(legacy, i).id
           IN  \/ PointAt(db', name, id) \in {None, PointAt(db, name, id)}
               \/ /\ name = Name(q) /\ HasRead(q, id)
                  /\ PointAt(db', name, id).payload.user_id = User(q)
                  /\ PointAt(db', name, id).payload.updated_at = q
                  /\ q # id
<1> DEFINE id == P(legacy, i).id
<1>1. id \in Id /\ pc[id] = "idle"
  BY LegacyFacts DEF Dormant
<1> HIDE DEF id
<1>2. CASE PointAt(db', name, id) \notin {None, PointAt(db, name, id)}
  <2>1. /\ name = Name(q) /\ WritesPoint(q, id)
        /\ PointAt(db', name, id).payload.user_id = User(q)
        /\ PointAt(db', name, id).payload.updated_at = q
    BY <1>1, <1>2, PointSource DEF Recorded
  <2>2. HasRead(q, id) /\ q # id
    BY <1>1, <2>1 DEF WritesPoint, HasRead
  <2> QED
    BY <2>1, <2>2 DEF id
<1> QED
  BY <1>2 DEF id

\* A request shows a point that is in its collection, that it has just written,
\* or that it has read before it wrote it.
LEMMA ShownHere ==
    ASSUME Recorded, NEW q \in Request, Receive(q) \/ Step(q) \/ Fail(q),
           NEW id \in reply'[q].hits, id \notin reply[q].hits
    PROVE  /\ Calling(q) /\ Name(q) \in PhysicalName
           /\ HoldsPoint(Name(q), id) \/ HasRead(q, id) \/ (id = q /\ Stores(q))
<1> USE DEF Recorded, Base, TypeOK
<1>1. /\ \A code : Status(code).hits = {}
      /\ \A n, dropped : Deleted(n, dropped).hits = {}
      /\ \A code, ids : Shows(code, ids).hits = ids
  BY DEF Status, Deleted, Shows
<1>2. \A answer : Answer(q, answer) => reply'[q] = answer
  BY DEF Answer
<1>3. \A label : ~Goto(q, label)
  BY DEF Goto
<1>4. ~Receive(q) /\ ~Fail(q)
  BY <1>1, <1>2, <1>3 DEF Receive, Fail
<1>5. /\ ~collection_exists(q) /\ ~create_collection_call(q)
      /\ ~create_payload_indexes(q) /\ ~assert_dimension_matches(q)
  BY <1>1, <1>2, <1>3
  DEF collection_exists, create_collection_call, create_payload_indexes,
      assert_dimension_matches, Raise
<1>0. ~Raise(q) /\ \A n, dropped : ~Answer(q, Deleted(n, dropped))
  BY <1>1, <1>2 DEF Raise
<1>6. ~count_selected(q) /\ ~delete_selected(q) /\ ~count_left(q) /\ ~drop(q)
  <2>1. count_selected(q) => \/ Raise(q) \/ Answer(q, Deleted(0, FALSE))
                             \/ \E label : Goto(q, label)
    BY DEF count_selected
  <2>2. delete_selected(q) => \/ Raise(q) \/ \E n : Answer(q, Deleted(n, FALSE))
                              \/ Goto(q, "count_left")
    BY DEF delete_selected
  <2>3. ~count_left(q)
    BY <1>0, <1>3 DEF count_left
  <2>4. ~drop(q)
    BY <1>0 DEF drop
  <2> QED
    BY <1>0, <1>3, <2>1, <2>2, <2>3, <2>4
<1>7. ~respond(q)
  BY DEF respond
<1>8. owned_point(q) \/ upsert_call(q) \/ query(q) \/ scroll(q)
  BY <1>4, <1>5, <1>6, <1>7 DEF Step
<1>9. Calling(q) /\ Name(q) \in PhysicalName
  <2>1. Calling(q)
    BY <1>8 DEF owned_point, upsert_call, query, scroll, At, Calling
  <2> QED
    BY <2>1, AtCall
<1>10. CASE owned_point(q)
  <2>1. /\ Present(db, Name(q)) /\ db[Name(q)].points[call[q].id] # None
        /\ Answer(q, Shows(200, {call[q].id}))
    BY <1>1, <1>2, <1>3, <1>10 DEF owned_point, Raise
  <2>2. id = call[q].id
    BY <1>1, <1>2, <2>1
  <2> QED
    BY <1>9, <2>1, <2>2 DEF HoldsPoint, PointAt, Present
<1>11. CASE upsert_call(q)
  <2> DEFINE written == IF call[q].kind = "create" THEN q ELSE call[q].id
  <2>1. \E code : Answer(q, Shows(code, {written}))
    BY <1>1, <1>2, <1>11 DEF upsert_call, Raise
  <2>2. id = written
    BY <1>1, <1>2, <2>1
  <2>3. pc[q] = "upsert" /\ call[q].kind \in {"create", "update"}
    BY <1>9, <1>11, AtCall, CallFacts DEF upsert_call, At, Path
  <2> QED
    BY <1>9, <2>2, <2>3 DEF HasRead, Stores, Kind, Calling
<1>12. CASE query(q) \/ scroll(q)
  <2> DEFINE filter == scoped(User(q), call[q].topic, call[q].filter)
  <2>1. Present(db, Name(q)) /\ Finds(q)
    BY <1>1, <1>2, <1>12 DEF query, scroll, Raise
  <2>2. PICK hits \in Answers(db, Name(q), filter, call[q].limit) :
            Answer(q, Shows(200, hits))
    BY <2>1 DEF Finds
  <2> HIDE DEF filter
  <2>3. hits \subseteq Stored(db, Name(q))
    BY <2>2 DEF Answers, Selected
  <2>4. id \in hits
    BY <1>1, <1>2, <2>2
  <2> QED
    BY <1>9, <2>1, <2>3, <2>4 DEF Stored, HoldsPoint, PointAt, Present
<1> QED
  BY <1>8, <1>10, <1>11, <1>12

\* A step of a request leaves a legacy point at home.
LEMMA LivesOn ==
    ASSUME Recorded, Dormant, NEW q \in Request, Receive(q) \/ Step(q) \/ Fail(q),
           NEW legacy \in LegacyName, NEW i \in Positions(legacy), Lives(legacy, i)
    PROVE  Lives(legacy, i)'
<1> DEFINE id == P(legacy, i).id
<1>1. MoveOf(q) /\ id \in Id
  BY MovesAlone, LegacyFacts DEF Recorded
<1>2. ASSUME NEW name \in PhysicalName, HoldsPoint(name, id)'
      PROVE  /\ Goes(legacy, i, name)
             /\ db'[name].points[id].payload.user_id = P(legacy, i).payload.user_id
  <2>1. PointAt(db', name, id) # None /\ PointAt(db', name, id) = db'[name].points[id]
    BY <1>2 DEF HoldsPoint, PointAt
  <2>2. CASE PointAt(db', name, id) = PointAt(db, name, id)
    BY <2>1, <2>2 DEF Lives, HoldsPoint, PointAt
  <2>3. CASE /\ name = Name(q) /\ HasRead(q, id)
             /\ PointAt(db', name, id).payload.user_id = User(q)
    <3>1. Goes(legacy, i, Name(q))
      BY <2>3 DEF Lives
    <3> QED
      BY <2>1, <2>3, <3>1, HomeUser
  <2> QED
    BY <2>1, <2>2, <2>3, WrittenOver
<1>3. ASSUME NEW u \in Request, HasRead(u, id)'
      PROVE  Goes(legacy, i, Name(u)')
  <2>1. CASE u # q
    <3>1. HasRead(u, id) /\ pc[u] # "idle"
      BY <1>1, <1>3, <2>1 DEF HasRead, MoveOf, Kind
    <3> QED
      BY <1>1, <3>1, ArrivedStays DEF Lives
  <2>2. CASE u = q
    <3>1. /\ Name(q)' = Name(q)
          /\ \/ HasRead(q, id)
             \/ HoldsPoint(Name(q), id) /\ Name(q) \in PhysicalName
      BY <1>3, <2>2, ReadsWhatIsHeld DEF Recorded
    <3>2. Goes(legacy, i, Name(q))
      BY <3>1 DEF Lives
    <3> QED
      BY <2>2, <3>1, <3>2
  <2> QED
    BY <2>1, <2>2
<1>4. ASSUME NEW r \in Request, id \in removed'[r]
      PROVE  /\ pc'[r] # "idle" /\ Name(r)' \in PhysicalName
             /\ Goes(legacy, i, Name(r)')
  <2>1. /\ pc[r] # "idle" /\ Name(r) \in PhysicalName /\ Goes(legacy, i, Name(r))
    <3>1. CASE id \in removed[r]
      BY <3>1 DEF Lives
    <3>2. CASE id \notin removed[r]
      <4>1. r = q
        BY <1>1, <1>4, <3>2 DEF MoveOf
      <4> QED
        BY <1>4, <3>2, <4>1, RemovedHere DEF Lives, Calling
    <3> QED
      BY <3>1, <3>2
  <2> QED
    BY <1>1, <2>1, ArrivedStays
<1>5. ASSUME NEW r \in Request, id \in reply'[r].hits
      PROVE  pc'[r] # "idle" /\ Goes(legacy, i, Name(r)')
  <2>1. pc[r] # "idle" /\ Goes(legacy, i, Name(r))
    <3>1. CASE id \in reply[r].hits
      BY <3>1 DEF Lives
    <3>2. CASE id \notin reply[r].hits
      <4>1. r = q
        BY <1>1, <1>5, <3>2 DEF MoveOf
      <4>2. /\ Calling(q) /\ Name(q) \in PhysicalName
            /\ HoldsPoint(Name(q), id) \/ HasRead(q, id) \/ (id = q /\ Stores(q))
        BY <1>5, <3>2, <4>1, ShownHere
      <4>3. id # q
        BY <4>2 DEF Dormant, Calling
      <4> QED
        BY <4>1, <4>2, <4>3 DEF Lives, Calling
    <3> QED
      BY <3>1, <3>2
  <2> QED
    BY <1>1, <2>1, ArrivedStays
<1> QED
  BY <1>2, <1>3, <1>4, <1>5 DEF Lives, Goes, Owned, Home

\* A step of a request leaves what was copied where it is, or removes it.
LEMMA StaysArrived ==
    ASSUME Recorded, NEW q \in Request, Receive(q) \/ Step(q) \/ Fail(q),
           NEW legacy \in LegacyName, NEW i \in Positions(legacy), Arrived(legacy, i)
    PROVE  Arrived(legacy, i)'
<1> DEFINE id == P(legacy, i).id
           name == Home(legacy, i)
<1>1. id \in Id /\ name \in PhysicalName
  BY LegacyFacts DEF Arrived
<1>2. name' = name /\ P(legacy, i)' = P(legacy, i)
  BY DEF Home, P, target
<1>3. CASE HoldsPoint(name, id)
  <2>1. HoldsPoint(name, id)' \/ \E p \in Request : id \in removed'[p]
    BY <1>1, <1>3, PointChanges DEF HoldsPoint, Recorded
  <2> QED
    BY <1>1, <1>2, <2>1 DEF Arrived
<1>4. CASE \E p \in Request : id \in removed[p]
  <2>1. \E p \in Request : id \in removed'[p]
    BY <1>4, GoneStays
  <2> QED
    BY <1>1, <1>2, <2>1 DEF Arrived
<1> QED
  BY <1>3, <1>4 DEF Arrived

\* What nobody has seen, no step of a request shows to anybody.
LEMMA StaysUntouched ==
    ASSUME Recorded, Dormant, NEW q \in Request, Receive(q) \/ Step(q) \/ Fail(q),
           NEW legacy \in LegacyName, NEW i \in Positions(legacy),
           Untouched(P(legacy, i).id)
    PROVE  Untouched(P(legacy, i).id)'
<1> DEFINE id == P(legacy, i).id
<1>1. MoveOf(q)
  BY MovesAlone DEF Recorded
<1>2. ASSUME NEW name \in PhysicalName
      PROVE  ~HoldsPoint(name, id)'
  <2>1. ~HoldsPoint(name, id) /\ ~HasRead(q, id)
    BY DEF Untouched
  <2>2. PointAt(db', name, id) = None
    BY <2>1, WrittenOver DEF HoldsPoint
  <2> QED
    BY <2>2 DEF HoldsPoint
<1>3. ASSUME NEW u \in Request
      PROVE  ~HasRead(u, id)' /\ ~Updated(u, id)' /\ id \notin removed'[u]
  <2>1. ~HasRead(u, id) /\ ~Updated(u, id) /\ id \notin removed[u]
    BY DEF Untouched
  <2>2. CASE u # q
    BY <1>1, <2>1, <2>2 DEF MoveOf, HasRead, Updated, Kind
  <2>3. CASE u = q
    <3>1. ~HasRead(q, id)'
      BY <2>1, <2>3, ReadsWhatIsHeld DEF Untouched, Recorded
    <3>2. ~Updated(q, id)'
      BY <2>1, <2>3, UpdateAnswered
    <3>3. id \notin removed'[q]
      BY <2>1, <2>3, RemovedHere DEF Untouched
    <3> QED
      BY <2>3, <3>1, <3>2, <3>3
  <2> QED
    BY <2>2, <2>3
<1> QED
  BY <1>2, <1>3 DEF Untouched


\* In the first run a step of a request writes no point that has yet to be
\* copied, and brings back a removed one only by an update.
LEMMA CopiedOnceOn ==
    ASSUME Recorded, Dormant, NEW q \in Request, Receive(q) \/ Step(q) \/ Fail(q),
           NEW legacy \in LegacyName, NEW i \in Positions(legacy),
           Lives(legacy, i), CopiedOnce(legacy, i),
           Behind(legacy, i)' <=> Behind(legacy, i)
    PROVE  CopiedOnce(legacy, i)'
<1> DEFINE id == P(legacy, i).id
<1>1. /\ MoveOf(q) /\ Records(q) /\ id \in Id /\ id \in Request /\ pc[id] = "idle"
      /\ \A name \in PhysicalName : HoldsPoint(name, id) => Goes(legacy, i, name)
      /\ \A u \in Request : HasRead(u, id) => Goes(legacy, i, Name(u))
  BY MovesAlone, StepRecords, LegacyFacts DEF Recorded, Dormant, Lives
<1>2. Behind(legacy, i)' \/ Untouched(id)'
  BY StaysUntouched DEF CopiedOnce
<1>3. ASSUME NEW name \in PhysicalName, HoldsPoint(name, id)',
             db'[name].points[id].payload.updated_at = id,
             NEW u \in Request, Updated(u, id)'
      PROVE  FALSE
  <2>1. PointAt(db', name, id) # None /\ PointAt(db', name, id) = db'[name].points[id]
    BY <1>3 DEF HoldsPoint, PointAt
  <2>2. PointAt(db', name, id) = PointAt(db, name, id)
    BY <1>3, <2>1, WrittenOver
  <2>3. HoldsPoint(name, id) /\ db[name].points[id].payload.updated_at = id
    BY <1>3, <2>1, <2>2 DEF HoldsPoint, PointAt
  <2>4. ~Updated(u, id)
    BY <2>3 DEF CopiedOnce
  <2>5. u = q
    BY <1>1, <1>3, <2>4 DEF MoveOf, Updated, Kind
  <2>6. /\ HasRead(q, id) /\ PointAt(db', Name(q), id) # None
        /\ PointAt(db', Name(q), id).payload.updated_at = q
    BY <1>3, <2>4, <2>5, UpdateAnswered
  <2>7. Name(q) = name /\ q # id
    BY <1>1, <2>3, <2>6 DEF Goes, HasRead
  <2> QED
    BY <1>3, <2>1, <2>6, <2>7
<1>4. ASSUME NEW r \in Request, id \in removed'[r]
      PROVE  StaysAway(r, id)' \/ \E u \in Request : Rewrites(u, r, id)'
  <2>1. CASE id \in removed[r]
    <3>1. pc[r] # "idle" /\ Name(r) \in PhysicalName
      BY <2>1 DEF Lives
    <3>2. StaysAway(r, id) => StaysAway(r, id)'
      BY <1>1, <3>1, AwayStays DEF Recorded
    <3>3. ASSUME NEW u \in Request, Rewrites(u, r, id)
          PROVE  Rewrites(u, r, id)'
      <4>1. Overlaps(u, r)'
        BY <1>1, <3>1, <3>3, OverlapStays DEF Rewrites
      <4>2. Kind(u)' = Kind(u) /\ call'[u] = call[u]
        BY <1>1, <3>3, ArrivedStays DEF Rewrites, Overlaps
      <4> QED
        BY <3>3, <4>1, <4>2 DEF Rewrites
    <3> QED
      BY <2>1, <3>2, <3>3 DEF CopiedOnce
  <2>2. CASE id \notin removed[r]
    <3>1. r = q /\ removed'[q] # removed[q]
      BY <1>1, <1>4, <2>2 DEF MoveOf
    <3>2. /\ Calling(q) /\ Name(q) \in PhysicalName
          /\ PointAt(db', Name(q), id) = None
      BY <1>4, <2>2, <3>1, RemovedHere
    <3>3. pc[q] \notin {"idle", "done"} /\ Name(q)' = Name(q)
      BY <1>1, <3>2, ArrivedStays DEF Calling
    <3>4. CASE \E u \in Request \ {q} : HasRead(u, id)
      <4>1. PICK u \in Request \ {q} : HasRead(u, id)
        BY <3>4
      <4>2. pc[u] \notin {"idle", "done"} /\ Kind(u) = "update" /\ call[u].id = id
        BY <4>1 DEF HasRead
      <4>3. Overlaps(u, q)
        BY <3>3, <4>1, <4>2, ServedTogether DEF Recorded
      <4>4. Overlaps(u, q)'
        BY <1>1, <3>3, <4>3, OverlapStays
      <4>5. Kind(u)' = Kind(u) /\ call'[u] = call[u]
        BY <1>1, <4>2, ArrivedStays
      <4>6. Rewrites(u, q, id)'
        BY <4>2, <4>4, <4>5 DEF Rewrites
      <4> QED
        BY <3>1, <4>6
    <3>5. CASE \A u \in Request \ {q} : ~HasRead(u, id)
      <4>1. \A u \in Request \ {q} : ~HasRead(u, id)'
        BY <1>1, <3>5 DEF MoveOf, HasRead, Kind
      <4>2. ~HasRead(q, id)'
        BY <1>1, <3>1 DEF Records, HasRead
      <4>3. ~HoldsPoint(Name(q), id)'
        BY <3>2, <3>3 DEF HoldsPoint
      <4> QED
        BY <3>1, <4>1, <4>2, <4>3 DEF StaysAway
    <3> QED
      BY <3>4, <3>5
  <2> QED
    BY <2>1, <2>2
<1>5. P(legacy, i)' = P(legacy, i)
  BY DEF P
<1> QED
  BY <1>2, <1>3, <1>4, <1>5 DEF CopiedOnce

\* Where the script is depends on its own variables alone.
LEMMA BehindSame ==
    ASSUME UNCHANGED <<atName, atUser, start>>, NEW legacy, NEW i
    PROVE  Behind(legacy, i)' <=> Behind(legacy, i)
BY DEF Behind, PastUser, Place, by_user, P, Positions

\* A step of a request keeps the invariant.
LEMMA RequestStep ==
    ASSUME MInv, NEW q \in Request, Receive(q) \/ Step(q) \/ Fail(q),
           UNCHANGED scriptVars
    PROVE  MInv'
<1> USE DEF MInv
<1>1. UNCHANGED <<at, apply, atName, atUser, start, runs>>
  BY DEF scriptVars
<1>2. Recorded'
  BY BaseStep, HistoryStep DEF Recorded
<1>3. ScriptOK'
  BY <1>1 DEF ScriptOK, Name0
<1>4. Dormant'
  BY MovesAlone, DormantStays DEF Recorded
<1>5. AtHome'
  BY LivesOn DEF AtHome
<1>6. Copied'
  <2> SUFFICES ASSUME at' \in {"read_points", "done"} \union Writing, apply',
                      NEW legacy \in LegacyName, NEW i \in Positions(legacy),
                      Owned(legacy, i), Behind(legacy, i)'
               PROVE  Arrived(legacy, i)'
    BY DEF Copied, Owned, P, Positions
  <2>1. Behind(legacy, i)
    BY <1>1, BehindSame
  <2>2. Arrived(legacy, i)
    BY <1>1, <2>1 DEF Copied
  <2> QED
    BY <2>2, StaysArrived
<1>7. FirstRun'
  <2> SUFFICES ASSUME runs' =< 1, NEW legacy \in LegacyName, NEW i \in Positions(legacy)
               PROVE  CopiedOnce(legacy, i)'
    BY DEF FirstRun, Positions
  <2>1. CopiedOnce(legacy, i) /\ Lives(legacy, i)
    BY <1>1 DEF FirstRun, AtHome
  <2>2. Behind(legacy, i)' <=> Behind(legacy, i)
    BY <1>1, BehindSame
  <2> QED
    BY <2>1, <2>2, CopiedOnceOn
<1> QED
  BY <1>2, <1>3, <1>4, <1>5, <1>6, <1>7

-----------------------------------------------------------------------------
(* The script beside the requests *)

serviceVars == <<pc, call, local, reply, before, removed>>

\* The script writes no variable of a request, and well-typed collections.
LEMMA RecordedKept ==
    ASSUME Recorded, UNCHANGED serviceVars,
           db' \in [PhysicalName -> StoredCollection \union {Absent}]
    PROVE  Recorded'
<1> USE DEF Recorded, serviceVars
<1>1. TypeOK'
  BY DEF Base, TypeOK
<1>2. CallsOK'
  BY DEF Base, CallsOK, Calling
<1>3. UpdatesHold'
  BY DEF Base, UpdatesHold
<1>4. HistoryOK'
  BY DEF HistoryOK, Calling, Kind
<1> QED
  BY <1>1, <1>2, <1>3, <1>4 DEF Base

\* What is said of the requests stays true while none of them moves.
LEMMA ServiceSame ==
    ASSUME UNCHANGED serviceVars, NEW u, NEW id
    PROVE  /\ Name(u)' = Name(u)
           /\ HasRead(u, id)' <=> HasRead(u, id)
           /\ Updated(u, id)' <=> Updated(u, id)
           /\ \A r : Rewrites(u, r, id)' <=> Rewrites(u, r, id)
BY DEF serviceVars, Name, HasRead, Updated, Rewrites, Overlaps, Kind

\* The id of a legacy point stays that of no request.
LEMMA DormantKept ==
    ASSUME Dormant, UNCHANGED serviceVars
    PROVE  Dormant'
BY DEF Dormant, serviceVars, P, Positions

\* The point is where it was, or where it was not, with the content it had.
SamePoint(id) ==
    \A name \in PhysicalName : PointAt(db', name, id) = PointAt(db, name, id)

\* Such a point stays at home,
LEMMA LivesKept ==
    ASSUME NEW legacy, NEW i, Lives(legacy, i), UNCHANGED serviceVars,
           SamePoint(P(legacy, i).id)
    PROVE  Lives(legacy, i)'
<1> DEFINE id == P(legacy, i).id
<1>1. \A name : Goes(legacy, i, name)' <=> Goes(legacy, i, name)
  BY DEF Goes, Owned, Home, P, target
<1>2. P(legacy, i)' = P(legacy, i)
  BY DEF P
<1>3. ASSUME NEW name \in PhysicalName, HoldsPoint(name, id)'
      PROVE  HoldsPoint(name, id) /\ db'[name].points[id] = db[name].points[id]
  BY <1>3 DEF SamePoint, HoldsPoint, PointAt
<1>4. \A u \in Request : HasRead(u, id)' => Goes(legacy, i, Name(u)')
  BY ServiceSame DEF Lives
<1>5. \A r \in Request : id \in removed'[r] =>
        pc'[r] # "idle" /\ Name(r)' \in PhysicalName /\ Goes(legacy, i, Name(r)')
  BY ServiceSame DEF Lives, serviceVars
<1>6. \A r \in Request : id \in reply'[r].hits =>
        pc'[r] # "idle" /\ Goes(legacy, i, Name(r)')
  BY ServiceSame DEF Lives, serviceVars
<1> QED
  BY <1>1, <1>2, <1>3, <1>4, <1>5, <1>6 DEF Lives, Goes, Owned, Home

\* stays copied,
LEMMA ArrivedKept ==
    ASSUME NEW legacy, NEW i, Arrived(legacy, i), UNCHANGED serviceVars,
           SamePoint(P(legacy, i).id)
    PROVE  Arrived(legacy, i)'
BY DEF Arrived, SamePoint, HoldsPoint, Home, P, target, serviceVars

\* and has been copied once at most, as before.
LEMMA CopiedOnceKept ==
    ASSUME NEW legacy, NEW i, CopiedOnce(legacy, i), Lives(legacy, i),
           UNCHANGED serviceVars, SamePoint(P(legacy, i).id),
           Behind(legacy, i) => Behind(legacy, i)'
    PROVE  CopiedOnce(legacy, i)'
<1> DEFINE id == P(legacy, i).id
<1>1. \A name \in PhysicalName : HoldsPoint(name, id)' <=> HoldsPoint(name, id)
  BY DEF SamePoint, HoldsPoint
<1>2. Untouched(id) => Untouched(id)'
  BY <1>1, ServiceSame DEF Untouched, serviceVars
<1>3. ASSUME NEW name \in PhysicalName, HoldsPoint(name, id)',
             db'[name].points[id].payload.updated_at = id, NEW u \in Request
      PROVE  ~Updated(u, id)'
  <2>1. HoldsPoint(name, id) /\ db[name].points[id] = db'[name].points[id]
    BY <1>3 DEF SamePoint, HoldsPoint, PointAt
  <2> QED
    BY <1>3, <2>1, ServiceSame DEF CopiedOnce
<1>4. ASSUME NEW r \in Request, id \in removed'[r]
      PROVE  StaysAway(r, id)' \/ \E u \in Request : Rewrites(u, r, id)'
  <2>1. id \in removed[r] /\ Name(r) \in PhysicalName /\ Name(r)' = Name(r)
    BY <1>4, ServiceSame DEF serviceVars, Lives
  <2>2. StaysAway(r, id) => StaysAway(r, id)'
    BY <1>1, <2>1, ServiceSame DEF StaysAway
  <2> QED
    BY <2>1, <2>2, ServiceSame DEF CopiedOnce
<1>5. P(legacy, i)' = P(legacy, i)
  BY DEF P
<1> QED
  BY <1>2, <1>3, <1>4, <1>5 DEF CopiedOnce

\* Nothing is written by a step that leaves the database as it is, nor by one
\* that makes an empty collection.
LEMMA Kept ==
    ASSUME MInv, UNCHANGED serviceVars,
           db' \in [PhysicalName -> StoredCollection \union {Absent}],
           \A id \in Id : SamePoint(id),
           runs' =< 1 => /\ runs =< 1
                         /\ \A legacy, i : Behind(legacy, i) => Behind(legacy, i)'
    PROVE  Recorded' /\ Dormant' /\ AtHome' /\ FirstRun'
<1> USE DEF MInv
<1>1. Recorded' /\ Dormant'
  BY RecordedKept, DormantKept
<1>2. ASSUME NEW legacy \in LegacyName, NEW i \in Positions(legacy)
      PROVE  /\ Lives(legacy, i)'
             /\ runs' =< 1 => CopiedOnce(legacy, i)'
  <2>1. SamePoint(P(legacy, i).id) /\ Lives(legacy, i)
    BY LegacyFacts DEF AtHome
  <2>2. Lives(legacy, i)'
    BY <2>1, LivesKept
  <2>3. ASSUME runs' =< 1
        PROVE  CopiedOnce(legacy, i)'
    BY <2>1, <2>3, CopiedOnceKept DEF FirstRun
  <2> QED
    BY <2>2, <2>3
<1>3. AtHome' /\ FirstRun'
  BY <1>2 DEF AtHome, FirstRun, Positions
<1> QED
  BY <1>1, <1>3

-----------------------------------------------------------------------------
(* How the script goes on *)

\* The script is past a collection before the k-th.
PastName(legacy, k) ==
    \E l \in DOMAIN LegacyNames : LegacyNames[l] = legacy /\ l < k

\* At a collection's start the script is past no user of it.
LEMMA NextNameCovers ==
    ASSUME NEW k \in Nat, NextName(k), NEW legacy, NEW i
    PROVE  Behind(legacy, i)' <=> PastName(legacy, k)
BY Domains DEF NextName, Behind, PastUser, PastName

\* Going on to the next user that has points here passes those who have none,
\* and going on to the next collection passes all users of this one.
LEMMA NextUserCovers ==
    ASSUME NEW j \in Nat, NextUser(j), atName \in DOMAIN LegacyNames,
           Name0 \in LegacyName, NEW legacy \in LegacyName,
           NEW i \in Positions(legacy), Owned(legacy, i), Behind(legacy, i)'
    PROVE  \/ PastName(legacy, atName)
           \/ /\ legacy = Name0
              /\ \E l \in DOMAIN SortedUsers :
                    l < j /\ SortedUsers[l] = P(legacy, i).payload.user_id
<1>1. atName \in Nat /\ Name0 = LegacyNames[atName]
  BY Domains DEF Name0
<1>2. \A l \in DOMAIN SortedUsers :
        SortedUsers[l] = P(legacy, i).payload.user_id =>
            i \in by_user(legacy, SortedUsers[l])
  BY DEF by_user
<1>3. ASSUME atUser' \in {l \in DOMAIN SortedUsers : j =< l},
             \A l \in j .. (atUser' - 1) : by_user(Name0, SortedUsers[l]) = {},
             start' = 0, UNCHANGED atName
      PROVE  \/ PastName(legacy, atName)
             \/ /\ legacy = Name0
                /\ \E l \in DOMAIN SortedUsers :
                        l < j /\ SortedUsers[l] = P(legacy, i).payload.user_id
  <2> SUFFICES ASSUME ~PastName(legacy, atName)
               PROVE  /\ legacy = Name0
                      /\ \E l \in DOMAIN SortedUsers :
                            l < j /\ SortedUsers[l] = P(legacy, i).payload.user_id
    OBVIOUS
  <2>1. legacy = Name0 /\ PastUser(legacy, i)'
    BY <1>1, <1>3 DEF Behind, PastName
  <2>2. PICK l \in DOMAIN SortedUsers :
            /\ SortedUsers[l] = P(legacy, i).payload.user_id
            /\ \/ l < atUser'
               \/ l = atUser' /\ Place(by_user(legacy, SortedUsers[l]), i) < 0
    BY <1>3, <2>1 DEF PastUser, P, Place, by_user, Positions
  <2>3. i \in by_user(legacy, SortedUsers[l])
    BY <1>2, <2>2
  <2>4. ~(Place(by_user(legacy, SortedUsers[l]), i) < 0)
    BY <2>3, PlaceBelow
  <2>5. l \notin j .. (atUser' - 1)
    BY <1>3, <2>1, <2>3
  <2>6. l \in Nat /\ atUser' \in Nat
    BY <1>3, Domains
  <2> QED
    BY <2>1, <2>2, <2>4, <2>5, <2>6
<1>4. ASSUME \A l \in j .. Len(SortedUsers) : by_user(Name0, SortedUsers[l]) = {},
             NextName(atName + 1)
      PROVE  \/ PastName(legacy, atName)
             \/ /\ legacy = Name0
                /\ \E l \in DOMAIN SortedUsers :
                        l < j /\ SortedUsers[l] = P(legacy, i).payload.user_id
  <2>1. PastName(legacy, atName + 1)
    BY <1>1, <1>4, NextNameCovers
  <2>2. PastName(legacy, atName) \/ legacy = Name0
    BY <1>1, <2>1, Domains DEF PastName
  <2>3. PICK l \in DOMAIN SortedUsers : SortedUsers[l] = P(legacy, i).payload.user_id
    BY LegacyFacts DEF Owned
  <2>4. legacy = Name0 => l \notin j .. Len(SortedUsers)
    BY <1>2, <1>4, <2>3
  <2>5. l \in 1 .. Len(SortedUsers) /\ Len(SortedUsers) \in Nat
    BY Domains
  <2>6. legacy = Name0 => l < j
    BY <2>4, <2>5
  <2> QED
    BY <2>2, <2>3, <2>6
<1> QED
  BY <1>3, <1>4 DEF NextUser

\* It goes on to no earlier collection or user.
LEMMA NextUserKeeps ==
    ASSUME NEW j \in Nat, atUser < j, atUser \in Nat, NextUser(j),
           atName \in DOMAIN LegacyNames, NEW legacy, NEW i, Behind(legacy, i)
    PROVE  Behind(legacy, i)'
<1>1. CASE NextName(atName + 1)
  <2>1. PastName(legacy, atName + 1)
    BY Domains DEF Behind, PastName
  <2> QED
    BY <1>1, <2>1, NextNameCovers, Domains
<1>2. CASE atUser' \in {l \in DOMAIN SortedUsers : j =< l} /\ UNCHANGED atName
  <2>1. PICK k \in DOMAIN LegacyNames :
            LegacyNames[k] = legacy /\ (k < atName \/ (k = atName /\ PastUser(legacy, i)))
    BY DEF Behind
  <2>2. PastUser(legacy, i) => PastUser(legacy, i)'
    BY <1>2, Domains DEF PastUser, P
  <2> QED
    BY <1>2, <2>1, <2>2 DEF Behind
<1> QED
  BY <1>1, <1>2 DEF NextUser

\* Where the next collection is read, or the end, nothing is written.
LEMMA NextNameOK ==
    ASSUME ScriptOK, at \in Running, NEW k \in Nat \ {0}, NextName(k),
           UNCHANGED <<apply, runs>>
    PROVE  ScriptOK'
<1>1. /\ atName' = k /\ atUser' = 0 /\ start' = 0 /\ apply' = apply /\ runs' = runs
      /\ at' = IF k \in DOMAIN LegacyNames THEN "read_points" ELSE "done"
  BY DEF NextName
<1>2. at' = "done" => \A l \in DOMAIN LegacyNames : l < k
  BY <1>1, Domains
<1>3. runs # 0
  BY DEF ScriptOK, Running, Writing
<1> QED
  BY <1>1, <1>2, <1>3 DEF ScriptOK, Running, Writing

\* Where the next user's points are copied, the script knows whose and to where.
LEMMA NextUserOK ==
    ASSUME ScriptOK, at \in {"read_points", "upsert"}, apply, Legacy[Name0].dim # None,
           NEW j \in Nat, NextUser(j), UNCHANGED <<apply, runs>>
    PROVE  ScriptOK'
<1>1. atName \in DOMAIN LegacyNames /\ atName \in Nat /\ runs # 0
  BY DEF ScriptOK, Writing
<1>2. CASE NextName(atName + 1)
  BY <1>1, <1>2, NextNameOK DEF Running, Writing
<1>3. CASE /\ atUser' \in {l \in DOMAIN SortedUsers : j =< l}
           /\ start' = 0 /\ at' = "ensure_target" /\ UNCHANGED atName
  <2>1. atUser' \in DOMAIN SortedUsers /\ atUser' \in Nat /\ Name0' = Name0
    BY <1>3, Domains DEF Name0
  <2> QED
    BY <1>1, <1>3, <2>1 DEF ScriptOK, Running, Writing
<1> QED
  BY <1>2, <1>3 DEF NextUser

-----------------------------------------------------------------------------
(* Every step of the script keeps the invariant *)

\* A step that leaves the database alone keeps what Kept says.
LEMMA KeptDb ==
    ASSUME MInv, UNCHANGED vars,
           runs' =< 1 => /\ runs =< 1
                         /\ \A legacy, i : Behind(legacy, i) => Behind(legacy, i)'
    PROVE  Recorded' /\ Dormant' /\ AtHome' /\ FirstRun'
<1>1. UNCHANGED serviceVars /\ db' = db
  BY DEF vars, serviceVars
<1>2. db' \in [PhysicalName -> StoredCollection \union {Absent}]
  BY <1>1 DEF MInv, Recorded, Base, TypeOK
<1>3. \A id \in Id : SamePoint(id)
  BY <1>1 DEF SamePoint
<1> QED
  BY <1>1, <1>2, <1>3, Kept

\* main begins a run; only the first one begins at the beginning.
LEMMA MainStep ==
    ASSUME MInv, main
    PROVE  MInv'
<1>1. /\ at \notin Running /\ apply' \in BOOLEAN /\ at' = "get_collections"
      /\ runs' = runs + 1 /\ UNCHANGED vars
      /\ UNCHANGED <<atName, atUser, start>>
  BY DEF main
<1>2. ScriptOK
  BY DEF MInv
<1>3. runs' =< 1 => runs = 0 /\ at = "idle"
  BY <1>1, <1>2 DEF ScriptOK
<1>4. ScriptOK'
  BY <1>1, <1>2, <1>3 DEF ScriptOK, Running, Writing
<1>5. Recorded' /\ Dormant' /\ AtHome' /\ FirstRun'
  BY <1>1, <1>3, BehindSame, KeptDb
<1>6. Copied'
  BY <1>1 DEF Copied, Writing
<1> QED
  BY <1>4, <1>5, <1>6 DEF MInv

\* find_legacy begins the first collection.
LEMMA FindLegacyStep ==
    ASSUME MInv, find_legacy
    PROVE  MInv'
<1>1. at = "get_collections" /\ NextName(1) /\ UNCHANGED vars /\ UNCHANGED <<apply, runs>>
  BY DEF find_legacy
<1>2. ScriptOK
  BY DEF MInv
<1>3. ScriptOK'
  BY <1>1, <1>2, NextNameOK DEF Running
<1>4. runs =< 1 => \A legacy, i : ~Behind(legacy, i)
  <2>1. runs =< 1 => atName = 0
    BY <1>1, <1>2 DEF ScriptOK
  <2> QED
    BY <2>1, Domains DEF Behind
<1>5. Recorded' /\ Dormant' /\ AtHome' /\ FirstRun'
  BY <1>1, <1>4, KeptDb
<1>6. \A legacy, i : ~Behind(legacy, i)'
  BY <1>1, NextNameCovers, Domains DEF PastName
<1>7. Copied'
  BY <1>6 DEF Copied, Behind, PastUser
<1> QED
  BY <1>3, <1>5, <1>7 DEF MInv

\* What was copied before stays copied while the database is as it is.
LEMMA CopiedKept ==
    ASSUME Copied, at \in {"read_points", "done"} \union Writing, apply,
           UNCHANGED vars, NEW legacy \in LegacyName, NEW i \in Positions(legacy),
           Owned(legacy, i), Behind(legacy, i)
    PROVE  Arrived(legacy, i)'
<1>1. SamePoint(P(legacy, i).id) /\ UNCHANGED serviceVars
  BY DEF SamePoint, vars, serviceVars
<1>2. Arrived(legacy, i)
  BY DEF Copied
<1> QED
  BY <1>1, <1>2, ArrivedKept

\* read_points passes collections it need not or must not copy.
LEMMA ReadPointsStep ==
    ASSUME MInv, read_points
    PROVE  MInv'
<1>1. /\ at = "read_points" /\ UNCHANGED vars /\ UNCHANGED <<apply, runs>>
      /\ \/ (Legacy[Name0].dim = None \/ ~apply) /\ NextName(atName + 1)
         \/ (Legacy[Name0].dim # None /\ apply) /\ NextUser(1)
  BY DEF read_points
<1>2. /\ ScriptOK /\ atName \in DOMAIN LegacyNames /\ atName \in Nat /\ atUser = 0
      /\ Name0 \in LegacyName
  BY <1>1 DEF MInv, ScriptOK, LegacyName, Name0
<1>3. ScriptOK'
  BY <1>1, <1>2, NextNameOK, NextUserOK DEF Running
<1>4. \A legacy, i : Behind(legacy, i) => Behind(legacy, i)'
  <2>1. CASE NextUser(1)
    BY <1>2, <2>1, NextUserKeeps
  <2>2. CASE NextName(atName + 1)
    BY <1>2, <2>2, NextNameCovers, Domains DEF Behind, PastName
  <2> QED
    BY <1>1, <2>1, <2>2
<1>5. Recorded' /\ Dormant' /\ AtHome' /\ FirstRun'
  BY <1>1, <1>4, KeptDb
<1>6. Copied'
  <2> SUFFICES ASSUME apply, NEW legacy \in LegacyName, NEW i \in Positions(legacy),
                      Owned(legacy, i), Behind(legacy, i)'
               PROVE  Arrived(legacy, i)'
    BY <1>1 DEF Copied, Owned, P, Positions
  <2>1. PastName(legacy, atName)
    <3>1. CASE NextUser(1)
      BY <1>2, <3>1, NextUserCovers, Domains
    <3>2. CASE Legacy[Name0].dim = None /\ NextName(atName + 1)
      <4>1. PastName(legacy, atName + 1) /\ legacy # Name0
        BY <1>2, <3>2, NextNameCovers DEF Owned
      <4> QED
        BY <1>2, <4>1, Domains DEF PastName, Name0
    <3> QED
      BY <1>1, <3>1, <3>2
  <2>2. Behind(legacy, i)
    BY <2>1 DEF PastName, Behind
  <2> QED
    BY <1>1, <2>2, CopiedKept DEF MInv
<1> QED
  BY <1>3, <1>5, <1>6 DEF MInv

\* A run that ends early owes nothing.
LEMMA AbortStep ==
    ASSUME MInv, at \in Running, Abort, UNCHANGED serviceVars, UNCHANGED <<apply, runs>>
    PROVE  MInv'
<1>1. /\ at' = "failed" /\ UNCHANGED vars /\ UNCHANGED <<atName, atUser, start>>
      /\ UNCHANGED <<apply, runs>>
  BY DEF Abort, vars, serviceVars
<1>2. ScriptOK'
  BY <1>1 DEF MInv, ScriptOK, Running, Writing
<1>3. Recorded' /\ Dormant' /\ AtHome' /\ FirstRun'
  BY <1>1, BehindSame, KeptDb
<1>4. Copied'
  BY <1>1 DEF Copied, Writing
<1> QED
  BY <1>2, <1>3, <1>4 DEF MInv

\* ensure_target only reads.
LEMMA EnsureTargetStep ==
    ASSUME MInv, ensure_target
    PROVE  MInv'
<1>1. /\ at = "ensure_target" /\ UNCHANGED vars
      /\ UNCHANGED <<apply, atName, atUser, start, runs>>
      /\ at' = IF Target0 \in get_collections(db) THEN "upsert" ELSE "create"
  BY DEF ensure_target
<1>2. ScriptOK'
  <2>1. Target0 \in get_collections(db) => Slug[Name0] # None
    BY <1>1, TargetFacts DEF MInv, Writing, get_collections, Recorded, Base, TypeOK
  <2> QED
    BY <1>1, <2>1 DEF MInv, ScriptOK, Running, Writing, Name0
<1>3. Recorded' /\ Dormant' /\ AtHome' /\ FirstRun'
  BY <1>1, BehindSame, KeptDb
<1>4. Copied'
  <2> SUFFICES ASSUME apply, NEW legacy \in LegacyName, NEW i \in Positions(legacy),
                      Owned(legacy, i), Behind(legacy, i)'
               PROVE  Arrived(legacy, i)'
    BY <1>1 DEF Copied, Owned, P, Positions
  <2>1. Behind(legacy, i)
    BY <1>1, BehindSame
  <2> QED
    BY <1>1, <2>1, CopiedKept DEF MInv, Writing
<1> QED
  BY <1>2, <1>3, <1>4 DEF MInv

\* A new, empty collection holds no point more and none less.
LEMMA CreatesEmpty ==
    ASSUME MInv, at = "create", Slug[Name0] # None, Target0 \notin get_collections(db),
           db' = create_collection(db, Target0, Legacy[Name0].dim, Id)
    PROVE  /\ db' \in [PhysicalName -> StoredCollection \union {Absent}]
           /\ \A id \in Id : SamePoint(id)
<1> DEFINE new == stored_collection(Legacy[Name0].dim, {}, [id \in Id |-> None])
<1>1. /\ db \in [PhysicalName -> StoredCollection \union {Absent}]
      /\ Target0 \in PhysicalName /\ Legacy[Name0].dim \in Dim
  BY TargetFacts DEF MInv, Writing, Recorded, Base, TypeOK
<1>2. new \in StoredCollection /\ \A id \in Id : new.points[id] = None
  BY <1>1 DEF StoredCollection, stored_collection
<1>3. db' = [db EXCEPT ![Target0] = new] /\ db[Target0] = Absent
  BY <1>1 DEF create_collection, get_collections, Present
<1> HIDE DEF new
<1>4. db' \in [PhysicalName -> StoredCollection \union {Absent}]
  BY <1>1, <1>2, <1>3
<1>5. ASSUME NEW id \in Id
      PROVE  SamePoint(id)
  BY <1>1, <1>2, <1>3 DEF SamePoint, PointAt
<1> QED
  BY <1>4, <1>5

\* create_target aborts, or makes such a collection.
LEMMA CreateTargetStep ==
    ASSUME MInv, create_target
    PROVE  MInv'
<1>1. at = "create" /\ UNCHANGED serviceVars /\ UNCHANGED <<apply, runs>>
  BY DEF create_target, serviceVars
<1>2. CASE Abort
  BY <1>1, <1>2, AbortStep DEF Running, Writing
<1>3. CASE /\ Slug[Name0] # None /\ Target0 \notin get_collections(db)
           /\ db' = create_collection(db, Target0, Legacy[Name0].dim, Id)
           /\ at' = "upsert" /\ UNCHANGED <<atName, atUser, start>>
  <2>1. /\ db' \in [PhysicalName -> StoredCollection \union {Absent}]
        /\ \A id \in Id : SamePoint(id)
    BY <1>1, <1>3, CreatesEmpty
  <2>2. Recorded' /\ Dormant' /\ AtHome' /\ FirstRun'
    BY <1>1, <1>3, <2>1, BehindSame, Kept
  <2>3. ScriptOK'
    BY <1>1, <1>3 DEF MInv, ScriptOK, Running, Writing, Name0
  <2>4. Copied'
    <3> SUFFICES ASSUME apply, NEW legacy \in LegacyName, NEW i \in Positions(legacy),
                        Owned(legacy, i), Behind(legacy, i)'
                 PROVE  Arrived(legacy, i)'
      BY <1>1 DEF Copied, Owned, P, Positions
    <3>1. Behind(legacy, i)
      BY <1>3, BehindSame
    <3>2. Arrived(legacy, i)
      BY <1>1, <3>1 DEF MInv, Copied, Writing
    <3> QED
      BY <1>1, <2>1, <3>2, LegacyFacts, ArrivedKept
  <2> QED
    BY <2>2, <2>3, <2>4 DEF MInv
<1> QED
  BY <1>2, <1>3 DEF create_target

-----------------------------------------------------------------------------
(* A batch *)

\* What has the id of a point of the batch is overwritten with that point, and
\* nothing else is.
LEMMA BatchWrites ==
    ASSUME TypeOK, ScriptOK, at = "upsert", Present(db, Target0),
           db[Target0].dim = Legacy[Name0].dim,
           db' = [db EXCEPT ![Target0] =
                    stored_collection(@.dim, @.indexes, Overwritten(@.points, batch))]
    PROVE  /\ db' \in [PhysicalName -> StoredCollection \union {Absent}]
           /\ \A i \in batch :
                /\ PointAt(db', Target0, P(Name0, i).id) # None
                /\ PointAt(db', Target0, P(Name0, i).id).payload = P(Name0, i).payload
           /\ \A name \in PhysicalName, id \in Id :
                \/ PointAt(db', name, id) = PointAt(db, name, id)
                \/ name = Target0 /\ \E i \in batch : P(Name0, i).id = id
<1> DEFINE points == Overwritten(db[Target0].points, batch)
           new == stored_collection(db[Target0].dim, db[Target0].indexes, points)
           Sent(i) == [vector |-> P(Name0, i).vector, payload |-> P(Name0, i).payload]
<1>1. /\ Target0 \in PhysicalName /\ Name0 \in LegacyName
      /\ \A i \in Points0 : /\ i \in Positions(Name0)
                            /\ P(Name0, i).payload.user_id \in Username
  BY TargetFacts DEF ScriptOK, Writing
<1>2. batch \subseteq Points0
  BY DEF batch, Slice
<1>3. db[Target0] \in StoredCollection /\ db[Target0].points \in [Id -> Point \union {None}]
  BY <1>1 DEF TypeOK, Present, StoredCollection
<1>4. ASSUME NEW i \in batch
      PROVE  Sent(i) \in Point /\ P(Name0, i).id \in Id
  <2>1. P(Name0, i) \in LegacyPoint /\ P(Name0, i).payload.user_id \in Username
    BY <1>1, <1>2, LegacyFacts
  <2>2. P(Name0, i).payload \in Payload
    BY <2>1 DEF LegacyPoint, Payload
  <2> QED
    BY <2>1, <2>2 DEF LegacyPoint, Point
<1> HIDE DEF Sent
<1>5. ASSUME NEW i \in batch
      PROVE  points[P(Name0, i).id] = Sent(i)
  <2> DEFINE chosen == CHOOSE j \in batch : P(Name0, j).id = P(Name0, i).id
  <2>1. chosen \in batch /\ P(Name0, chosen).id = P(Name0, i).id
    OBVIOUS
  <2> HIDE DEF chosen
  <2>2. chosen = i
    BY <1>1, <1>2, <2>1, SameId
  <2>3. points[P(Name0, i).id] = Sent(chosen)
    BY <1>4 DEF Overwritten, chosen, Sent
  <2> QED
    BY <2>2, <2>3
<1>6. ASSUME NEW id \in Id, ~\E i \in batch : P(Name0, i).id = id
      PROVE  points[id] = db[Target0].points[id]
  BY <1>6 DEF Overwritten
<1>7. points \in [Id -> Point \union {None}]
  <2>1. \A id \in Id : points[id] \in Point \union {None}
    BY <1>3, <1>4, <1>5, <1>6
  <2>2. points = [id \in Id |-> points[id]]
    BY DEF Overwritten
  <2> HIDE DEF points
  <2> QED
    BY <2>1, <2>2
<1>8. db' = [db EXCEPT ![Target0] = new]
  OBVIOUS
<1> HIDE DEF points
<1>9. new \in StoredCollection /\ new.points = points /\ new # Absent
  BY <1>3, <1>7, RepositoryAssumption DEF StoredCollection, stored_collection
<1> HIDE DEF new
<1>10. db' \in [PhysicalName -> StoredCollection \union {Absent}]
  BY <1>8, <1>9 DEF TypeOK
<1>11. /\ db'[Target0] = new
       /\ \A name \in PhysicalName : name # Target0 => db'[name] = db[name]
  BY <1>1, <1>8 DEF TypeOK
<1>12. ASSUME NEW i \in batch
       PROVE  /\ PointAt(db', Target0, P(Name0, i).id) # None
              /\ PointAt(db', Target0, P(Name0, i).id).payload = P(Name0, i).payload
  <2>1. PointAt(db', Target0, P(Name0, i).id) = Sent(i)
    BY <1>5, <1>9, <1>11 DEF PointAt
  <2>2. Sent(i) # None
    BY <1>4, RepositoryAssumption
  <2>3. Sent(i).payload = P(Name0, i).payload
    BY DEF Sent
  <2> QED
    BY <2>1, <2>2, <2>3
<1>13. ASSUME NEW name \in PhysicalName, NEW id \in Id,
              ~(name = Target0 /\ \E i \in batch : P(Name0, i).id = id)
       PROVE  PointAt(db', name, id) = PointAt(db, name, id)
  <2>1. CASE name # Target0
    BY <1>11, <2>1 DEF PointAt
  <2>2. CASE name = Target0
    BY <1>6, <1>9, <1>11, <1>13, <2>2 DEF PointAt, Present
  <2> QED
    BY <2>1, <2>2
<1> QED
  BY <1>10, <1>12, <1>13

\* After a batch comes the user's next one, or the next user.
GoesOnAfterBatch ==
    IF start + SCROLL_PAGE < Cardinality(Points0)
    THEN start' = start + SCROLL_PAGE /\ UNCHANGED <<at, atName, atUser>>
    ELSE NextUser(atUser + 1)

\* The points of a batch are the user's, in their places.
LEMMA BatchFacts ==
    ASSUME ScriptOK, at = "upsert"
    PROVE  /\ atName \in DOMAIN LegacyNames /\ atName \in Nat /\ Name0 \in LegacyName
           /\ atUser \in DOMAIN SortedUsers /\ atUser \in Nat /\ start \in Nat
           /\ Cardinality(Points0) \in Nat
           /\ \A i \in Points0 : /\ Place(Points0, i) \in Nat
                                 /\ Place(Points0, i) < Cardinality(Points0)
           /\ \A i \in batch :
                /\ i \in Points0 /\ start =< Place(Points0, i)
                /\ Place(Points0, i) < start + SCROLL_PAGE
BY TargetFacts, PlaceBelow DEF ScriptOK, Writing, Points0, batch, Slice

\* A batch leaves behind no other points than its own,
LEMMA BatchCovers ==
    ASSUME ScriptOK, at = "upsert", GoesOnAfterBatch,
           NEW legacy \in LegacyName, NEW i \in Positions(legacy), Owned(legacy, i),
           Behind(legacy, i)'
    PROVE  Behind(legacy, i) \/ (legacy = Name0 /\ i \in batch)
<1> DEFINE mine == SortedUsers[atUser] = P(legacy, i).payload.user_id
<1>1. legacy = Name0 /\ mine =>
        /\ i \in Points0 /\ Place(Points0, i) \in Nat
        /\ Place(Points0, i) < Cardinality(Points0)
  BY BatchFacts DEF Points0, by_user
<1>2. legacy = Name0 /\ mine /\ Place(Points0, i) < start => Behind(legacy, i)
  BY BatchFacts DEF Behind, PastUser, Points0, Name0
<1>3. ASSUME legacy = Name0, NEW l \in DOMAIN SortedUsers, l < atUser,
             SortedUsers[l] = P(legacy, i).payload.user_id
      PROVE  Behind(legacy, i)
  BY <1>3, BatchFacts DEF Behind, PastUser, Name0
<1>4. CASE start + SCROLL_PAGE < Cardinality(Points0)
  <2>1. start' = start + SCROLL_PAGE /\ UNCHANGED <<at, atName, atUser>>
    BY <1>4 DEF GoesOnAfterBatch
  <2>2. PICK k \in DOMAIN LegacyNames :
            LegacyNames[k] = legacy /\ (k < atName \/ (k = atName /\ PastUser(legacy, i)'))
    BY <2>1 DEF Behind
  <2>3. CASE k < atName
    BY <2>2, <2>3 DEF Behind
  <2>4. CASE k = atName /\ PastUser(legacy, i)'
    <3>1. PICK l \in DOMAIN SortedUsers :
            /\ SortedUsers[l] = P(legacy, i).payload.user_id
            /\ \/ l < atUser
               \/ l = atUser /\ Place(by_user(legacy, SortedUsers[l]), i)
                                    < start + SCROLL_PAGE
      BY <2>1, <2>4 DEF PastUser, P, Place, by_user, Positions
    <3>2. legacy = Name0
      BY <2>2, <2>4 DEF Name0
    <3>3. CASE l < atUser
      BY <1>3, <3>1, <3>2, <3>3
    <3>4. CASE l = atUser /\ Place(Points0, i) < start + SCROLL_PAGE
      <4>1. i \in Points0 /\ Place(Points0, i) \in Nat
        BY <1>1, <3>1, <3>2, <3>4
      <4>2. start =< Place(Points0, i) => i \in batch
        BY <3>4, <4>1 DEF batch, Slice
      <4> QED
        BY <1>2, <3>1, <3>2, <3>4, <4>1, <4>2, BatchFacts
    <3> QED
      BY <3>1, <3>2, <3>3, <3>4 DEF Points0
  <2> QED
    BY <2>2, <2>3, <2>4
<1>5. CASE ~(start + SCROLL_PAGE < Cardinality(Points0))
  <2>1. NextUser(atUser + 1)
    BY <1>5 DEF GoesOnAfterBatch
  <2>2. \/ PastName(legacy, atName)
        \/ /\ legacy = Name0
           /\ \E l \in DOMAIN SortedUsers :
                l < atUser + 1 /\ SortedUsers[l] = P(legacy, i).payload.user_id
    BY <2>1, BatchFacts, NextUserCovers
  <2>3. PastName(legacy, atName) => Behind(legacy, i)
    BY DEF PastName, Behind
  <2>4. CASE legacy = Name0 /\ mine
    <3>1. /\ i \in Points0 /\ Place(Points0, i) \in Nat
          /\ Place(Points0, i) < start + SCROLL_PAGE
      BY <1>1, <1>5, <2>4, BatchFacts, Domains
    <3>2. start =< Place(Points0, i) => i \in batch
      BY <3>1 DEF batch, Slice
    <3> QED
      BY <1>2, <2>4, <3>1, <3>2, BatchFacts
  <2>5. ASSUME legacy = Name0, NEW l \in DOMAIN SortedUsers, l < atUser + 1,
               SortedUsers[l] = P(legacy, i).payload.user_id, ~mine
        PROVE  Behind(legacy, i)
    <3>1. l < atUser
      BY <2>5, BatchFacts, Domains
    <3> QED
      BY <1>3, <2>5, <3>1
  <2> QED
    BY <2>2, <2>3, <2>4, <2>5
<1> QED
  BY <1>4, <1>5

\* and its own were ahead of it,
LEMMA BatchAhead ==
    ASSUME ScriptOK, at = "upsert", NEW i \in batch
    PROVE  ~Behind(Name0, i)
<1>1. P(Name0, i).payload.user_id = SortedUsers[atUser]
  BY BatchFacts DEF Points0, by_user
<1>2. \A l \in DOMAIN SortedUsers :
        SortedUsers[l] = P(Name0, i).payload.user_id => l = atUser
  BY <1>1, BatchFacts, MigrationAssumption
<1>3. ~PastUser(Name0, i)
  BY <1>2, BatchFacts DEF PastUser, Points0
<1>4. \A k \in DOMAIN LegacyNames : LegacyNames[k] = Name0 => k = atName
  BY BatchFacts, MigrationAssumption DEF Name0
<1> QED
  BY <1>3, <1>4, BatchFacts DEF Behind

\* and are behind it now,
LEMMA BatchBehind ==
    ASSUME ScriptOK, at = "upsert", GoesOnAfterBatch, NEW legacy, legacy = Name0,
           NEW i \in batch
    PROVE  Behind(legacy, i)'
<1>1. /\ legacy = LegacyNames[atName] /\ i \in by_user(legacy, SortedUsers[atUser])
      /\ SortedUsers[atUser] = P(legacy, i).payload.user_id
      /\ Place(by_user(legacy, SortedUsers[atUser]), i) < start + SCROLL_PAGE
  BY BatchFacts DEF Points0, Name0, by_user
<1>2. CASE NextName(atName + 1)
  <2>1. PastName(legacy, atName + 1)
    BY <1>1, BatchFacts DEF PastName
  <2> QED
    BY <1>2, <2>1, BatchFacts, NextNameCovers
<1>3. CASE UNCHANGED atName /\ atUser' \in DOMAIN SortedUsers /\ atUser < atUser'
  <2>1. PastUser(legacy, i)'
    BY <1>1, <1>3, BatchFacts DEF PastUser, P
  <2> QED
    BY <1>1, <1>3, <2>1, BatchFacts DEF Behind
<1>4. CASE start' = start + SCROLL_PAGE /\ UNCHANGED <<at, atName, atUser>>
  <2>1. PastUser(legacy, i)'
    BY <1>1, <1>4, BatchFacts DEF PastUser, by_user, P, Place, Positions
  <2> QED
    BY <1>1, <1>4, <2>1, BatchFacts DEF Behind
<1>5. NextUser(atUser + 1) => \/ NextName(atName + 1)
                              \/ /\ UNCHANGED atName /\ atUser' \in DOMAIN SortedUsers
                                 /\ atUser < atUser'
  BY BatchFacts, Domains DEF NextUser
<1> QED
  BY <1>2, <1>3, <1>4, <1>5 DEF GoesOnAfterBatch

\* as is what was.
LEMMA BatchKeeps ==
    ASSUME ScriptOK, at = "upsert", GoesOnAfterBatch, NEW legacy \in LegacyName,
           NEW i \in Positions(legacy), Behind(legacy, i)
    PROVE  Behind(legacy, i)'
<1>1. CASE NextUser(atUser + 1)
  BY <1>1, BatchFacts, NextUserKeeps
<1>2. CASE start' = start + SCROLL_PAGE /\ UNCHANGED <<at, atName, atUser>>
  <2>1. PICK k \in DOMAIN LegacyNames :
            LegacyNames[k] = legacy /\ (k < atName \/ (k = atName /\ PastUser(legacy, i)))
    BY DEF Behind
  <2>2. PastUser(legacy, i) => PastUser(legacy, i)'
    <3> SUFFICES ASSUME NEW l \in DOMAIN SortedUsers,
                        SortedUsers[l] = P(legacy, i).payload.user_id,
                        \/ l < atUser
                        \/ l = atUser /\ Place(by_user(legacy, SortedUsers[l]), i) < start
                 PROVE  PastUser(legacy, i)'
      BY DEF PastUser
    <3>1. i \in by_user(legacy, SortedUsers[l])
      BY DEF by_user
    <3>2. \/ l < atUser
          \/ /\ l = atUser
             /\ Place(by_user(legacy, SortedUsers[l]), i) < start + SCROLL_PAGE
      BY <3>1, BatchFacts, PlaceBelow, Domains
    <3> QED
      BY <1>2, <3>2 DEF PastUser, by_user, P, Place, Positions
  <2> QED
    BY <1>2, <2>1, <2>2 DEF Behind
<1> QED
  BY <1>1, <1>2 DEF GoesOnAfterBatch

\* A batch arrives at home, all that was copied earlier stays, and in the first
\* run nobody had seen what it writes.
LEMMA UpsertBatchStep ==
    ASSUME MInv, upsert_batch
    PROVE  MInv'
<1>1. at = "upsert" /\ UNCHANGED serviceVars /\ UNCHANGED <<apply, runs>>
  BY DEF upsert_batch, serviceVars
<1>2. CASE Abort
  BY <1>1, <1>2, AbortStep DEF Running, Writing
<1>3. CASE /\ Present(db, Target0) /\ db[Target0].dim = Legacy[Name0].dim
           /\ db' = [db EXCEPT ![Target0] =
                        stored_collection(@.dim, @.indexes, Overwritten(@.points, batch))]
           /\ GoesOnAfterBatch
  <2>1. TypeOK /\ ScriptOK /\ apply /\ Legacy[Name0].dim # None
    BY <1>1 DEF MInv, Recorded, Base, ScriptOK, Writing
  <2>2. /\ db' \in [PhysicalName -> StoredCollection \union {Absent}]
        /\ \A i \in batch :
            /\ PointAt(db', Target0, P(Name0, i).id) # None
            /\ PointAt(db', Target0, P(Name0, i).id).payload = P(Name0, i).payload
        /\ \A name \in PhysicalName, id \in Id :
            \/ PointAt(db', name, id) = PointAt(db, name, id)
            \/ name = Target0 /\ \E i \in batch : P(Name0, i).id = id
    BY <1>1, <1>3, <2>1, BatchWrites
  <2>3. /\ Target0 \in PhysicalName /\ Name0 \in LegacyName
        /\ \A i \in batch :
            /\ i \in Positions(Name0) /\ Owned(Name0, i) /\ Home(Name0, i) = Target0
    BY <1>1, <2>1, TargetFacts, BatchFacts DEF ScriptOK, Writing
  <2>4. ScriptOK'
    <3>1. CASE NextUser(atUser + 1)
      BY <1>1, <2>1, <3>1, BatchFacts, NextUserOK
    <3>2. CASE start' = start + SCROLL_PAGE /\ UNCHANGED <<at, atName, atUser>>
      BY <1>1, <2>1, <3>2, BatchFacts, Domains DEF ScriptOK, Running, Writing, Name0
    <3> QED
      BY <1>3, <3>1, <3>2 DEF GoesOnAfterBatch
  <2>5. Recorded' /\ Dormant'
    BY <1>1, <2>2, RecordedKept, DormantKept DEF MInv
  <2>6. ASSUME NEW legacy \in LegacyName, NEW i \in Positions(legacy),
               ~(legacy = Name0 /\ i \in batch)
        PROVE  SamePoint(P(legacy, i).id)
    <3>1. P(legacy, i).id \in Id
      BY LegacyFacts
    <3>2. \A j \in batch : P(Name0, j).id # P(legacy, i).id
      BY <2>3, <2>6, SameId
    <3> QED
      BY <2>2, <3>1, <3>2 DEF SamePoint
  <2>7. ASSUME NEW legacy \in LegacyName, NEW i \in Positions(legacy),
               legacy = Name0, i \in batch
        PROVE  /\ Lives(legacy, i)' /\ Arrived(legacy, i)'
               /\ runs' =< 1 => CopiedOnce(legacy, i)'
    <3> DEFINE id == P(legacy, i).id
    <3>1. /\ Lives(legacy, i) /\ id \in Id
          /\ Goes(legacy, i, Target0) /\ Home(legacy, i) = Target0
      BY <2>3, <2>7, LegacyFacts DEF MInv, AtHome, Goes
    <3>2. ASSUME NEW name \in PhysicalName, HoldsPoint(name, id)'
          PROVE  /\ Goes(legacy, i, name)
                 /\ db'[name].points[id].payload.user_id = P(legacy, i).payload.user_id
      <4>1. CASE name = Target0
        BY <2>2, <2>7, <3>1, <3>2, <4>1 DEF HoldsPoint, PointAt
      <4>2. CASE name # Target0
        <5>1. PointAt(db', name, id) = PointAt(db, name, id)
          BY <2>2, <3>1, <4>2
        <5>2. HoldsPoint(name, id)
          BY <3>2, <5>1 DEF HoldsPoint
        <5> QED
          BY <3>1, <4>2, <5>2 DEF Lives, Goes
      <4> QED
        BY <4>1, <4>2
    <3>3. /\ Goes(legacy, i, Target0)' <=> Goes(legacy, i, Target0')
          /\ \A name : (Owned(legacy, i)' /\ name = Home(legacy, i)')
                            <=> Goes(legacy, i, name)
      BY DEF Goes, Owned, Home, P, target
    <3>4. P(legacy, i)' = P(legacy, i) /\ Home(legacy, i)' = Home(legacy, i)
      BY DEF P, Home, target
    <3>5. Lives(legacy, i)'
      <4>1. \A u \in Request : HasRead(u, id)' => Goes(legacy, i, Name(u)')
        BY <1>1, <3>1, ServiceSame DEF Lives
      <4>2. \A r \in Request : id \in removed'[r] =>
                /\ pc'[r] # "idle" /\ Name(r)' \in PhysicalName
                /\ Goes(legacy, i, Name(r)')
        BY <1>1, <3>1, ServiceSame DEF Lives, serviceVars
      <4>3. \A r \in Request : id \in reply'[r].hits =>
                pc'[r] # "idle" /\ Goes(legacy, i, Name(r)')
        BY <1>1, <3>1, ServiceSame DEF Lives, serviceVars
      <4> QED
        BY <3>2, <3>3, <3>4, <4>1, <4>2, <4>3 DEF Lives, Goes
    <3>6. Arrived(legacy, i)'
      BY <2>2, <2>3, <2>7, <3>1, <3>4 DEF Arrived, HoldsPoint
    <3>7. ASSUME runs' =< 1
          PROVE  CopiedOnce(legacy, i)'
      <4>1. ~Behind(legacy, i) /\ CopiedOnce(legacy, i)
        BY <1>1, <2>1, <2>7, <3>7, BatchAhead DEF MInv, FirstRun
      <4>2. \A u \in Request : ~Updated(u, id)' /\ id \notin removed'[u]
        BY <1>1, <4>1, ServiceSame DEF CopiedOnce, Untouched, serviceVars
      <4>3. Behind(legacy, i)'
        BY <1>1, <1>3, <2>1, <2>7, BatchBehind
      <4> QED
        BY <3>4, <4>2, <4>3 DEF CopiedOnce
    <3> QED
      BY <3>5, <3>6, <3>7
  <2>8. ASSUME NEW legacy \in LegacyName, NEW i \in Positions(legacy)
        PROVE  /\ Lives(legacy, i)'
               /\ runs' =< 1 => CopiedOnce(legacy, i)'
               /\ Owned(legacy, i) /\ Behind(legacy, i)' => Arrived(legacy, i)'
    <3>1. CASE legacy = Name0 /\ i \in batch
      BY <2>7, <3>1
    <3>2. CASE ~(legacy = Name0 /\ i \in batch)
      <4>1. SamePoint(P(legacy, i).id) /\ Lives(legacy, i)
        BY <2>6, <3>2 DEF MInv, AtHome
      <4>2. Lives(legacy, i)'
        BY <1>1, <4>1, LivesKept
      <4>3. ASSUME runs' =< 1
            PROVE  CopiedOnce(legacy, i)'
        <5>1. CopiedOnce(legacy, i)
          BY <1>1, <4>3 DEF MInv, FirstRun
        <5>2. Behind(legacy, i) => Behind(legacy, i)'
          BY <1>1, <1>3, <2>1, BatchKeeps
        <5> QED
          BY <1>1, <4>1, <5>1, <5>2, CopiedOnceKept
      <4>4. ASSUME Owned(legacy, i), Behind(legacy, i)'
            PROVE  Arrived(legacy, i)'
        <5>1. Behind(legacy, i)
          BY <1>1, <1>3, <2>1, <3>2, <4>4, BatchCovers
        <5>2. Arrived(legacy, i)
          BY <1>1, <2>1, <4>4, <5>1 DEF MInv, Copied, Writing
        <5> QED
          BY <1>1, <4>1, <5>2, ArrivedKept
      <4> QED
        BY <4>2, <4>3, <4>4
    <3> QED
      BY <3>1, <3>2
  <2>9. AtHome' /\ FirstRun' /\ Copied'
    BY <2>8 DEF AtHome, FirstRun, Copied, Owned, P, Positions
  <2> QED
    BY <2>4, <2>5, <2>9 DEF MInv
<1> QED
  BY <1>2, <1>3 DEF upsert_batch, GoesOnAfterBatch

\* The script may fail or be stopped at any call.
LEMMA InterruptedStep ==
    ASSUME MInv, Interrupted
    PROVE  MInv'
BY AbortStep DEF Interrupted, serviceVars

-----------------------------------------------------------------------------
(* The theorems *)

\* Nothing is migrated and nobody served before the first step.
LEMMA MigrationStarts == MigrationInit => MInv
<1> SUFFICES ASSUME MigrationInit
             PROVE  MInv
  OBVIOUS
<1>1. /\ Init /\ at = "idle" /\ apply = FALSE
      /\ atName = 0 /\ atUser = 0 /\ start = 0 /\ runs = 0
  BY DEF MigrationInit
<1>2. Recorded
  BY <1>1, InitInv, InitHistory, BaseHolds DEF Recorded
<1>3. ScriptOK
  BY <1>1 DEF ScriptOK, Running, Writing
<1>4. Dormant
  BY <1>1, LegacyFacts DEF Dormant, Init
<1>5. \A id : \A name \in PhysicalName : ~HoldsPoint(name, id)
  BY <1>1 DEF Init, HoldsPoint, PointAt
<1>6. \A id : \A u \in Request : ~HasRead(u, id) /\ ~Updated(u, id) /\ id \notin removed[u]
  BY <1>1 DEF Init, HasRead, Updated, Kind
<1>7. AtHome
  <2>1. \A r \in Request : reply[r].hits = {}
    BY <1>1 DEF Init, Status, Shows
  <2> QED
    BY <1>5, <1>6, <2>1 DEF AtHome, Lives
<1>8. Copied
  BY <1>1 DEF Copied, Writing
<1>9. FirstRun
  BY <1>5, <1>6 DEF FirstRun, CopiedOnce, Untouched
<1> QED
  BY <1>2, <1>3, <1>4, <1>7, <1>8, <1>9 DEF MInv

\* Where nothing changes, the invariant does not either.
LEMMA MigrationStutters ==
    ASSUME MInv, UNCHANGED migrationVars
    PROVE  MInv'
<1>1. UNCHANGED vars /\ UNCHANGED <<at, apply, atName, atUser, start, runs>>
  BY DEF migrationVars, scriptVars
<1>2. ScriptOK'
  BY <1>1 DEF MInv, ScriptOK, Name0
<1>3. Recorded' /\ Dormant' /\ AtHome' /\ FirstRun'
  BY <1>1, BehindSame, KeptDb
<1>4. Copied'
  <2> SUFFICES ASSUME at \in {"read_points", "done"} \union Writing, apply,
                      NEW legacy \in LegacyName, NEW i \in Positions(legacy),
                      Owned(legacy, i), Behind(legacy, i)'
               PROVE  Arrived(legacy, i)'
    BY <1>1 DEF Copied, Owned, P, Positions
  <2>1. Behind(legacy, i)
    BY <1>1, BehindSame
  <2> QED
    BY <1>1, <2>1, CopiedKept DEF MInv
<1> QED
  BY <1>2, <1>3, <1>4 DEF MInv

\* Every step, of the script or of a request, keeps the invariant.
LEMMA MigrationNext == MInv /\ [Script \/ Served]_migrationVars => MInv'
<1> SUFFICES ASSUME MInv, [Script \/ Served]_migrationVars
             PROVE  MInv'
  OBVIOUS
<1>1. CASE Script
  BY <1>1, MainStep, FindLegacyStep, ReadPointsStep, EnsureTargetStep,
     CreateTargetStep, UpsertBatchStep, InterruptedStep DEF Script
<1>2. CASE Served
  <2>1. UNCHANGED scriptVars /\ Next
    BY <1>2 DEF Served
  <2>2. CASE Quiet
    BY <2>1, <2>2, MigrationStutters DEF Quiet, migrationVars
  <2>3. ASSUME NEW q \in Request, Receive(q) \/ Step(q) \/ Fail(q)
        PROVE  MInv'
    BY <2>1, <2>3, RequestStep
  <2> QED
    BY <2>1, <2>2, <2>3 DEF Next
<1>3. CASE UNCHANGED migrationVars
  BY <1>3, MigrationStutters
<1> QED
  BY <1>1, <1>2, <1>3

\* Every reachable state of the service and the script satisfies the invariant.
THEOREM MigrationInvariance == MigrationSpec => []MInv
BY MigrationStarts, MigrationNext, PTL DEF MigrationSpec

\* The requests' state has its type beside the script too, although points
\* appear that no request stored.
THEOREM TypesBeside == MigrationSpec => []TypeOK
<1>1. MInv => TypeOK
  BY DEF MInv, Recorded, Base
<1> QED
  BY <1>1, MigrationInvariance, PTL

\* Migrated points are where their users look for them, and nobody else is shown
\* them (migrate, physical_name).
THEOREM NobodyGetsAnothersPoints == MigrationSpec => []MigratedGoHome
<1>1. MInv => MigratedGoHome
  <2> SUFFICES ASSUME MInv, NEW legacy \in LegacyName, NEW i \in Positions(legacy)
               PROVE  LET p == P(legacy, i)
                          user == p.payload.user_id
                      IN  /\ \A name \in PhysicalName : HoldsPoint(name, p.id) =>
                                /\ Legacy[legacy].dim # None /\ user # None
                                /\ name = target(legacy, user)
                                /\ db[name].points[p.id].payload.user_id = user
                          /\ \A r \in Request : p.id \in reply[r].hits =>
                                /\ user # None
                                /\ call[r].owner = [tenant_id |-> MigrationTenant,
                                                    username |-> user]
    BY DEF MigratedGoHome
  <2>1. Lives(legacy, i)
    BY DEF MInv, AtHome
  <2>2. ASSUME NEW r \in Request, P(legacy, i).id \in reply[r].hits
        PROVE  /\ P(legacy, i).payload.user_id # None
               /\ call[r].owner = [tenant_id |-> MigrationTenant,
                                   username |-> P(legacy, i).payload.user_id]
    <3>1. pc[r] # "idle" /\ Goes(legacy, i, Name(r))
      BY <2>1, <2>2 DEF Lives
    <3>2. call[r].owner \in Owner
      BY <3>1, CallFacts DEF MInv, Recorded, Base, CallsOK
    <3>3. namespace(call[r].owner) =
            namespace([tenant_id |-> MigrationTenant,
                       username |-> P(legacy, i).payload.user_id])
      BY <3>1 DEF Goes, Home, target, Name, physical_name
    <3> QED
      BY <3>1, <3>2, <3>3 DEF Goes, Owned, namespace, Owner
  <2> QED
    BY <2>1, <2>2 DEF Lives, Goes, Owned, Home
<1> QED
  BY <1>1, MigrationInvariance, PTL

\* A run that ends well has copied everything, whatever earlier runs did: it is
\* past all collections, and what is behind it was copied or removed (migrate).
THEOREM RunsCopyAll == MigrationSpec => []RunCopiesAll
<1>1. MInv => RunCopiesAll
  <2> SUFFICES ASSUME MInv, at = "done", apply,
                      NEW legacy \in LegacyName, NEW i \in Positions(legacy),
                      Owned(legacy, i)
               PROVE  \/ HoldsPoint(Home(legacy, i), P(legacy, i).id)
                      \/ \E q \in Request : P(legacy, i).id \in removed[q]
    BY DEF RunCopiesAll, Owned, Home
  <2>1. Behind(legacy, i)
    BY DEF MInv, ScriptOK, Behind, LegacyName
  <2> QED
    BY <2>1 DEF MInv, Copied, Arrived
<1> QED
  BY <1>1, MigrationInvariance, PTL

\* One run beside a live service undoes no acknowledged update and no deletion:
\* what it writes nobody had seen before (migrate, update_embedding).
THEOREM OneRunUndoesNothing == MigrationSpec => []RestoredNeedsRerun
<1>1. MInv => RestoredNeedsRerun
  <2> SUFFICES ASSUME MInv, NEW legacy \in LegacyName, NEW i \in Positions(legacy),
                      NEW name \in PhysicalName, NEW r \in Request,
                      runs =< 1, HoldsPoint(name, P(legacy, i).id)
               PROVE  LET p == P(legacy, i)
                      IN  /\ (/\ Acknowledged(r) /\ Kind(r) = "update"
                              /\ call[r].id = p.id) =>
                                db[name].points[p.id].payload # p.payload
                          /\ p.id \in removed[r] =>
                                \E u \in Request : Rewrites(u, r, p.id)
    BY DEF RestoredNeedsRerun, Rewrites
  <2> DEFINE id == P(legacy, i).id
  <2>1. /\ CopiedOnce(legacy, i) /\ Lives(legacy, i)
        /\ P(legacy, i).payload.updated_at = id
    BY LegacyFacts DEF MInv, FirstRun, AtHome
  <2>2. ASSUME Acknowledged(r), Kind(r) = "update", call[r].id = id
        PROVE  db[name].points[id].payload # P(legacy, i).payload
    <3>1. Updated(r, id)
      BY <2>2 DEF Updated, Acknowledged
    <3> QED
      BY <2>1, <3>1 DEF CopiedOnce
  <2>3. ASSUME id \in removed[r]
        PROVE  \E u \in Request : Rewrites(u, r, id)
    <3>1. Name(r) = name
      BY <2>1, <2>3 DEF Lives, Goes
    <3> QED
      BY <2>1, <2>3, <3>1 DEF CopiedOnce, StaysAway
  <2> QED
    BY <2>2, <2>3
<1> QED
  BY <1>1, MigrationInvariance, PTL

-----------------------------------------------------------------------------
(* The points of the requests, beside the script *)

\* No legacy point has this id.
OfRequest(id) ==
    \A legacy \in LegacyName : \A i \in Positions(legacy) : P(legacy, i).id # id

\* A point of a request is where its store put it, under its owner's name, and is
\* read and shown there only.
AtStore(id) ==
    /\ \A name \in PhysicalName : HoldsPoint(name, id) =>
        /\ Stores(id) /\ name = Name(id)
        /\ db[name].points[id].payload.user_id = User(id)
    /\ \A u \in Request : HasRead(u, id) => Stores(id) /\ Name(u) = Name(id)
    /\ \A r \in Request : id \in reply[r].hits =>
        Stores(id) /\ pc[r] # "idle" /\ Name(r) = Name(id)

SInv == MInv /\ \A id \in Request : OfRequest(id) => AtStore(id)

\* Two requests on one physical collection have users of one name.
LEMMA SameNameSameUser ==
    ASSUME NEW q \in Request, NEW r \in Request, Name(q) = Name(r)
    PROVE  User(q) = User(r)
BY DEF Name, physical_name, namespace, User

\* A step of a request leaves every other one's point there.
LEMMA AtStoreOn ==
    ASSUME Recorded, NEW q \in Request, Receive(q) \/ Step(q) \/ Fail(q),
           NEW id \in Request, AtStore(id)
    PROVE  AtStore(id)'
<1>1. MoveOf(q) /\ id \in Id
  BY MovesAlone DEF Recorded, Id
<1>2. Stores(id) => Stores(id)' /\ Name(id)' = Name(id) /\ User(id)' = User(id)
  BY <1>1, ArrivedStays DEF Stores, Kind
<1>3. Calling(q) => Name(q)' = Name(q) /\ pc'[q] # "idle"
  BY <1>1, ArrivedStays DEF Calling
<1>4. ASSUME NEW name \in PhysicalName, HoldsPoint(name, id)'
      PROVE  /\ Stores(id) /\ name = Name(id)
             /\ db'[name].points[id].payload.user_id = User(id)
  <2>1. PointAt(db', name, id) # None /\ PointAt(db', name, id) = db'[name].points[id]
    BY <1>4 DEF HoldsPoint, PointAt
  <2>2. CASE PointAt(db', name, id) = PointAt(db, name, id)
    BY <2>1, <2>2 DEF AtStore, HoldsPoint, PointAt
  <2>3. CASE /\ name = Name(q) /\ WritesPoint(q, id)
             /\ PointAt(db', name, id).payload.user_id = User(q)
    <3>1. (Kind(q) = "create" /\ id = q) \/ HasRead(q, id)
      BY <2>3 DEF WritesPoint, HasRead
    <3>2. Stores(id) /\ Name(q) = Name(id)
      BY <3>1 DEF AtStore, Stores
    <3> QED
      BY <2>1, <2>3, <3>2, SameNameSameUser
  <2> QED
    BY <1>1, <2>1, <2>2, <2>3, PointSource DEF Recorded
<1>5. ASSUME NEW u \in Request, HasRead(u, id)'
      PROVE  Stores(id) /\ Name(u)' = Name(id)
  <2>1. CASE u # q
    <3>1. HasRead(u, id) /\ pc[u] # "idle"
      BY <1>1, <1>5, <2>1 DEF HasRead, MoveOf, Kind
    <3> QED
      BY <1>1, <3>1, ArrivedStays DEF AtStore
  <2>2. CASE u = q
    <3>1. /\ Name(q)' = Name(q)
          /\ \/ HasRead(q, id)
             \/ HoldsPoint(Name(q), id) /\ Name(q) \in PhysicalName
      BY <1>5, <2>2, ReadsWhatIsHeld DEF Recorded
    <3> QED
      BY <2>2, <3>1 DEF AtStore
  <2> QED
    BY <2>1, <2>2
<1>6. ASSUME NEW r \in Request, id \in reply'[r].hits
      PROVE  Stores(id) /\ pc'[r] # "idle" /\ Name(r)' = Name(id)
  <2>1. Stores(id) /\ pc[r] # "idle" /\ Name(r) = Name(id)
    <3>1. CASE id \in reply[r].hits
      BY <3>1 DEF AtStore
    <3>2. CASE id \notin reply[r].hits
      <4>1. r = q
        BY <1>1, <1>6, <3>2 DEF MoveOf
      <4>2. /\ Calling(q) /\ Name(q) \in PhysicalName
            /\ HoldsPoint(Name(q), id) \/ HasRead(q, id) \/ (id = q /\ Stores(q))
        BY <1>6, <3>2, <4>1, ShownHere
      <4> QED
        BY <4>1, <4>2 DEF AtStore, Calling
    <3> QED
      BY <3>1, <3>2
  <2> QED
    BY <1>1, <2>1, ArrivedStays
<1> QED
  BY <1>2, <1>4, <1>5, <1>6 DEF AtStore

\* A step that does not touch the point leaves it there.
LEMMA AtStoreKept ==
    ASSUME NEW id, AtStore(id), UNCHANGED serviceVars, SamePoint(id)
    PROVE  AtStore(id)'
<1>1. /\ Stores(id)' <=> Stores(id)
      /\ \A u : Name(u)' = Name(u) /\ User(u)' = User(u)
  BY DEF serviceVars, Stores, Kind, Name, User
<1>2. \A u : HasRead(u, id)' <=> HasRead(u, id)
  BY ServiceSame
<1>3. ASSUME NEW name \in PhysicalName, HoldsPoint(name, id)'
      PROVE  HoldsPoint(name, id) /\ db'[name].points[id] = db[name].points[id]
  BY <1>3 DEF SamePoint, HoldsPoint, PointAt
<1> QED
  BY <1>1, <1>2, <1>3 DEF AtStore, serviceVars

\* The script touches no point of a request.
LEMMA ScriptSpares ==
    ASSUME MInv, Script, NEW id \in Request, OfRequest(id)
    PROVE  UNCHANGED serviceVars /\ SamePoint(id)
<1>1. ASSUME db' = db
      PROVE  SamePoint(id)
  BY <1>1 DEF SamePoint
<1>2. CASE main \/ find_legacy \/ read_points \/ ensure_target
  BY <1>1, <1>2 DEF main, find_legacy, read_points, ensure_target, vars, serviceVars
<1>3. CASE Interrupted
  BY <1>1, <1>3 DEF Interrupted, Abort, serviceVars
<1>4. CASE create_target
  BY <1>1, <1>4, CreatesEmpty DEF create_target, Abort, serviceVars, Id
<1>5. CASE upsert_batch
  <2>1. at = "upsert" /\ UNCHANGED serviceVars
    BY <1>5 DEF upsert_batch, serviceVars
  <2>2. CASE Abort
    BY <1>1, <2>1, <2>2 DEF Abort
  <2>3. CASE ~Abort
    <3>1. \A name \in PhysicalName, other \in Id :
            \/ PointAt(db', name, other) = PointAt(db, name, other)
            \/ name = Target0 /\ \E i \in batch : P(Name0, i).id = other
      BY <1>5, <2>3, BatchWrites DEF upsert_batch, MInv, Recorded, Base
    <3>2. \A i \in batch : P(Name0, i).id # id
      BY <2>1, BatchFacts DEF OfRequest, MInv, Points0, by_user
    <3> QED
      BY <2>1, <3>1, <3>2 DEF SamePoint, Id
  <2> QED
    BY <2>2, <2>3
<1> QED
  BY <1>2, <1>3, <1>4, <1>5 DEF Script

\* A stored point was written by its owner's store in the collection that store
\* named, and no answer shows a caller a point that another owner stored, beside
\* the script as well: of the points that are not migrated ones, for which
\* MigratedGoHome says so (create_embedding, update_embedding, _owned_point,
\* retrieve_embeddings, list_collection_embeddings).
TenancyBesideScript ==
    \A id \in Request : OfRequest(id) =>
        /\ \A name \in PhysicalName : HoldsPoint(name, id) =>
            /\ Stores(id) /\ Name(id) = name
            /\ db[name].points[id].payload.user_id = call[id].owner.username
        /\ \A r \in Request : id \in reply[r].hits =>
            Stores(id) /\ call[id].owner = call[r].owner

\* The service keeps its tenants apart while the script runs, however often it
\* is run and wherever it is interrupted.
THEOREM TenantsApartBeside == MigrationSpec => []TenancyBesideScript
<1>1. MigrationInit => SInv
  <2> SUFFICES ASSUME MigrationInit, NEW id \in Request
               PROVE  AtStore(id)
    BY MigrationStarts DEF SInv
  <2>1. Init
    BY DEF MigrationInit
  <2> QED
    BY <2>1 DEF Init, AtStore, HoldsPoint, PointAt, HasRead, Kind, Status, Shows
<1>2. SInv /\ [Script \/ Served]_migrationVars => SInv'
  <2> SUFFICES ASSUME SInv, [Script \/ Served]_migrationVars,
                      NEW id \in Request, OfRequest(id)'
               PROVE  AtStore(id)'
    BY MigrationNext DEF SInv
  <2>1. OfRequest(id) /\ AtStore(id) /\ MInv
    BY DEF SInv, OfRequest, P, Positions
  <2>2. CASE Script
    BY <2>1, <2>2, ScriptSpares, AtStoreKept
  <2>3. ASSUME UNCHANGED vars
        PROVE  AtStore(id)'
    BY <2>1, <2>3, AtStoreKept DEF vars, serviceVars, SamePoint
  <2>4. CASE Served
    <3>1. Next
      BY <2>4 DEF Served
    <3>2. ASSUME NEW q \in Request, Receive(q) \/ Step(q) \/ Fail(q)
          PROVE  AtStore(id)'
      BY <2>1, <3>2, AtStoreOn DEF MInv
    <3> QED
      BY <2>3, <3>1, <3>2 DEF Next, Quiet
  <2> QED
    BY <2>2, <2>3, <2>4 DEF migrationVars
<1>3. SInv => TenancyBesideScript
  <2> SUFFICES ASSUME SInv, NEW id \in Request, OfRequest(id)
               PROVE  /\ \A name \in PhysicalName : HoldsPoint(name, id) =>
                            /\ Stores(id) /\ Name(id) = name
                            /\ db[name].points[id].payload.user_id = User(id)
                      /\ \A r \in Request : id \in reply[r].hits =>
                            Stores(id) /\ call[id].owner = call[r].owner
    BY DEF TenancyBesideScript, User
  <2>1. AtStore(id) /\ CallsOK
    BY DEF SInv, MInv, Recorded, Base
  <2>2. ASSUME NEW r \in Request, id \in reply[r].hits
        PROVE  Stores(id) /\ call[id].owner = call[r].owner
    <3>1. Stores(id) /\ pc[r] # "idle" /\ Name(r) = Name(id)
      BY <2>1, <2>2 DEF AtStore
    <3>2. call[r] \in Call /\ call[id] \in Call
      BY <2>1, <3>1 DEF CallsOK, Stores, Kind
    <3> QED
      BY <3>1, <3>2, SameNameSameOwner
  <2> QED
    BY <2>1, <2>2 DEF AtStore
<1> QED
  BY <1>1, <1>2, <1>3, PTL DEF MigrationSpec
=============================================================================
