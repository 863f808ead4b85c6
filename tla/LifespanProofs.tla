--------------------------- MODULE LifespanProofs ---------------------------
(***************************************************************************)
(* No collection is left without a payload index that nobody owes it, for  *)
(* any number of pods, starts, requests, collections and indexes.          *)
(***************************************************************************)
EXTENDS Lifespan, TLAPS

\* A request has tried no index before it created its collection.
RequestsOK ==
    /\ db = [name \in PhysicalName |-> db[name]]
    /\ pc = [r \in Request |-> pc[r]]
    /\ call = [r \in Request |-> call[r]]
    /\ local = [r \in Request |-> local[r]]
    /\ \A r \in Request :
        /\ pc[r] \in {"idle", "collection_exists", "create_collection"} =>
                local[r].indexed = 0
        /\ pc[r] = "create_payload_index" => local[r].indexed \in Nat

\* Only a pod that indexes is at a collection.
PodsOK ==
    /\ phase \in [Pod -> Phase]
    /\ todo = [p \in Pod |-> todo[p]]
    /\ doing = [p \in Pod |-> doing[p]]
    /\ \A p \in Pod :
        /\ doing[p].indexed \in Nat
        /\ phase[p] # "indexing" => doing[p] = Nowhere

LInv == RequestsOK /\ PodsOK /\ MissingIndexIsOwed

\* The payload indexes are a sequence that is not empty.
LEMMA Fields ==
    /\ IndexFields \in Seq(IndexField) /\ Len(IndexFields) \in Nat
    /\ DOMAIN IndexFields = 1..Len(IndexFields) /\ IndexFields # << >>
BY RepositoryAssumption, LifespanAssumption

\* At first only older collections lack indexes, and every pod that is down
\* owes them to its next start.
LEMMA InitOwed == LifespanInit => LInv
<1> SUFFICES ASSUME LifespanInit PROVE LInv
  OBVIOUS
<1> USE DEF LifespanInit
<1>1. RequestsOK /\ PodsOK
  BY DEF RequestsOK, PodsOK, Phase, Read, Nowhere
<1>2. MissingIndexIsOwed
  <2> SUFFICES ASSUME NEW name \in PhysicalName, NEW i \in DOMAIN IndexFields,
                      Lacks(name, i)
               PROVE  name \in bare \/ Owed(name, i)
    BY DEF MissingIndexIsOwed
  <2>1. PICK p \in Pod : TRUE
    BY LifespanAssumption
  <2> QED
    BY <2>1 DEF Owed, OwedByPod
<1> QED
  BY <1>1, <1>2 DEF LInv

-----------------------------------------------------------------------------
(* Requests *)

\* What a step of r makes of r's collection: it creates it, with all of its
\* indexes to come; or creates the next index, or fails to; or leaves the
\* indexes alone.
LEMMA StepEffect ==
    ASSUME RequestsOK, NEW r \in Request, Step(r),
           NEW name \in PhysicalName, NEW i \in DOMAIN IndexFields, Lacks(name, i)'
    PROVE  \/ Lacks(name, i)
           \/ pc[r] = "create_collection" /\ OwedByRequest(r, name, i)'
<1> DEFINE n == Name(r)
<1>0. r \in DOMAIN pc /\ r \in DOMAIN local /\ name \in DOMAIN db
  BY DEF RequestsOK
<1>1. CASE UNCHANGED db
  BY <1>1 DEF Lacks, Present
<1>2. CASE create_collection_call(r) /\ db' # db
  <2>1. /\ db' = create_collection(db, n, call[r].dim, Id)
        /\ pc' = [pc EXCEPT ![r] = "create_payload_index"]
        /\ pc[r] = "create_collection" /\ UNCHANGED <<local, call>>
    BY <1>2, Fields DEF create_collection_call, Goto, At
  <2>2. CASE name = n
    <3>1. local[r].indexed = 0 /\ i \in 1..Len(IndexFields)
      BY <2>1, Fields DEF RequestsOK
    <3>2. pc'[r] = "create_payload_index" /\ Name(r)' = name
      BY <1>0, <2>1, <2>2 DEF Name
    <3> QED
      BY <2>1, <3>1, <3>2, Fields DEF OwedByRequest
  <2>3. CASE name # n
    BY <1>0, <2>1, <2>3 DEF create_collection, Lacks, Present
  <2> QED
    BY <2>2, <2>3
<1>3. CASE create_payload_indexes(r) /\ db' # db
  <2>1. Present(db, n) /\ \E f : db' = create_payload_index(db, n, f)
    BY <1>3 DEF create_payload_indexes
  <2> QED
    BY <1>0, <2>1 DEF create_payload_index, stored_collection, Lacks, Present
<1>4. CASE upsert_call(r) /\ db' # db
  <2>1. Present(db, n) /\ \E id, point : db' = upsert(db, n, id, point)
    BY <1>4 DEF upsert_call
  <2> QED
    BY <1>0, <2>1 DEF upsert, stored_collection, Lacks, Present
<1>5. CASE delete_selected(r) /\ db' # db
  <2>1. Present(db, n) /\ db' = delete(db, n, selector(r))
    BY <1>5 DEF delete_selected
  <2> QED
    BY <1>0, <2>1 DEF delete, stored_collection, Lacks, Present
<1>6. CASE drop(r)
  <2>1. db' = delete_collection(db, n)
    BY <1>6 DEF drop
  <2> QED
    BY <1>0, <2>1 DEF delete_collection, Lacks, Present
<1> QED
  BY <1>1, <1>2, <1>3, <1>4, <1>5, <1>6
  DEF Step, collection_exists, assert_dimension_matches, owned_point,
      count_selected, count_left, query, scroll, respond, Reads

\* A request that owes the i-th index and makes a step either still owes it or
\* has just tried to create it.
LEMMA StepOwes ==
    ASSUME RequestsOK, NEW r \in Request, Step(r),
           NEW name \in PhysicalName, NEW i \in DOMAIN IndexFields,
           OwedByRequest(r, name, i), Lacks(name, i), Lacks(name, i)'
    PROVE  \/ OwedByRequest(r, name, i)'
           \/ i = local[r].indexed + 1 /\ db'[name] = db[name]
<1> DEFINE k == local[r].indexed + 1
<1>1. /\ pc[r] = "create_payload_index" /\ Name(r) = name /\ local[r].indexed < i
      /\ local[r].indexed \in Nat
  BY DEF OwedByRequest, RequestsOK
<1>2. create_payload_indexes(r)
  BY <1>1 DEF Step, collection_exists, create_collection_call, assert_dimension_matches,
      owned_point, upsert_call, count_selected, delete_selected, count_left, drop,
      query, scroll, respond, At
<1>3. /\ local' = [local EXCEPT ![r] = Indexed(k)] /\ UNCHANGED call
      /\ pc' = [pc EXCEPT ![r] = IF k = Len(IndexFields) THEN "get_collection"
                                                       ELSE "create_payload_index"]
      /\ db' = db \/ db' = create_payload_index(db, name, IndexFields[k])
  BY <1>1, <1>2 DEF create_payload_indexes, At, Goto
<1>4. CASE i = k
  <2>1. db' # create_payload_index(db, name, IndexFields[k])
    BY <1>4 DEF RequestsOK, Lacks, create_payload_index, stored_collection
  <2> QED
    BY <1>3, <1>4, <2>1
<1>5. CASE i # k
  <2>1. k < i /\ k # Len(IndexFields)
    BY <1>1, <1>5, Fields
  <2>2. local'[r].indexed = k /\ pc'[r] = "create_payload_index" /\ Name(r)' = name
    BY <1>1, <1>3, <2>1 DEF RequestsOK, Indexed, Name
  <2> QED
    BY <2>1, <2>2 DEF OwedByRequest
<1> QED
  BY <1>4, <1>5

\* A step moves its own request alone, and a request has tried no index before
\* it created its collection.
Goes(r, label, here) ==
    /\ pc' = [pc EXCEPT ![r] = label] /\ local' = [local EXCEPT ![r] = here]
    /\ label \in {"idle", "collection_exists", "create_collection"} => here.indexed = 0
    /\ label = "create_payload_index" => here.indexed \in Nat

\* A request's step moves that request alone, and changes no call.
LEMMA StepMoves ==
    ASSUME RequestsOK, NEW r \in Request, Step(r)
    PROVE  UNCHANGED call /\ \E label, here : Goes(r, label, here)
<1>1. \E label, here : Goes(r, label, here)
  <2>1. local = [local EXCEPT ![r] = local[r]]
    BY DEF RequestsOK
  <2>2. CASE collection_exists(r) \/ create_collection_call(r)
    <3>1. PICK label : pc' = [pc EXCEPT ![r] = label]
      BY <2>2 DEF collection_exists, create_collection_call, Goto, Raise, Answer
    <3>2. UNCHANGED local /\ local[r].indexed = 0
      BY <2>2 DEF collection_exists, create_collection_call, At, RequestsOK
    <3>3. Goes(r, label, local[r])
      BY <2>1, <3>1, <3>2 DEF Goes
    <3> QED
      BY <3>3
  <2>3. CASE create_payload_indexes(r)
    <3>1. PICK label \in {"get_collection", "create_payload_index"} :
            pc' = [pc EXCEPT ![r] = label]
      BY <2>3 DEF create_payload_indexes, Goto
    <3>2. local' = [local EXCEPT ![r] = Indexed(local[r].indexed + 1)]
          /\ local[r].indexed \in Nat
      BY <2>3 DEF create_payload_indexes, At, RequestsOK
    <3>3. Goes(r, label, Indexed(local[r].indexed + 1))
      BY <3>1, <3>2 DEF Indexed, Goes
    <3> QED
      BY <3>3
  <2>4. CASE ~(collection_exists(r) \/ create_collection_call(r) \/ create_payload_indexes(r))
    <3>1. PICK label \in {"get_collection", "upsert", "delete", "count_left", "drop",
                         "respond", "done"} : pc' = [pc EXCEPT ![r] = label]
      BY <2>4 DEF Step, assert_dimension_matches, owned_point, upsert_call, count_selected,
          delete_selected, count_left, drop, query, scroll, respond, Goto, Raise, Answer, Finds
    <3>2. PICK here : local' = [local EXCEPT ![r] = here]
      BY <2>1, <2>4 DEF Step, assert_dimension_matches, owned_point, upsert_call,
          count_selected, delete_selected, count_left, drop, query, scroll, respond
    <3>3. Goes(r, label, here)
      BY <3>1, <3>2 DEF Goes
    <3> QED
      BY <3>3
  <2> QED
    BY <2>2, <2>3, <2>4
<1>2. UNCHANGED call
  BY DEF Step, collection_exists, create_collection_call, create_payload_indexes,
      assert_dimension_matches, owned_point, upsert_call, count_selected, delete_selected,
      count_left, drop, query, scroll, respond, At
<1> QED
  BY <1>1, <1>2

\* A request that creates indexes has its place among them (create_collection,
\* _create_payload_indexes).
LEMMA StepRequests ==
    ASSUME RequestsOK, NEW r \in Request, Step(r)
    PROVE  RequestsOK'
<1>1. PICK label : \E here : Goes(r, label, here)
  BY StepMoves
<1>2. PICK here : Goes(r, label, here)
  BY <1>1
<1>3. db' = db \/ \E name, value : db' = [db EXCEPT ![name] = value]
  BY DEF Step, collection_exists, create_collection_call, create_payload_indexes,
      assert_dimension_matches, owned_point, upsert_call, count_selected, delete_selected,
      count_left, drop, query, scroll, respond, Reads, create_collection,
      create_payload_index, upsert, delete, delete_collection
<1> QED
  BY <1>2, <1>3, StepMoves DEF RequestsOK, Goes

-----------------------------------------------------------------------------
(* Steps of the deployment *)

\* A pod's call on a collection, and what comes after it.
LEMMA IndexStep ==
    ASSUME LInv, NEW p \in Pod, index(p)
    PROVE  LInv'
<1>1. PICK name \in IF doing[p] = Nowhere THEN todo[p] ELSE {doing[p].name} :
        index_call(name, doing[p].indexed + 1) /\ Advance(p, name, doing[p].indexed + 1)
  BY DEF index
<1> DEFINE k == doing[p].indexed + 1
<1>2. /\ UNCHANGED <<pc, call, local>> /\ phase[p] = "indexing"
      /\ doing[p].indexed \in Nat
  BY DEF index, LInv, PodsOK
<1>3. RequestsOK'
  BY <1>1, <1>2 DEF LInv, RequestsOK, index_call, create_payload_index
<1>4. PodsOK'
  BY <1>1, <1>2, Fields DEF LInv, PodsOK, Advance, Enter, Nowhere, Phase
<1>5. MissingIndexIsOwed'
  <2> SUFFICES ASSUME NEW n \in PhysicalName, NEW i \in DOMAIN IndexFields, Lacks(n, i)'
               PROVE  (n \in bare \/ Owed(n, i))'
    BY DEF MissingIndexIsOwed
  <2>1. Lacks(n, i)
    BY <1>1, <1>3 DEF index_call, create_payload_index, stored_collection, Lacks,
        Present, LInv, RequestsOK
  <2>2. bare \subseteq bare' /\ (n \in bare \/ Owed(n, i))
    BY <1>1, <2>1 DEF index_call, LInv, MissingIndexIsOwed
  <2>3. CASE \E r \in Request : OwedByRequest(r, n, i)
    BY <1>2, <2>3 DEF Owed, OwedByRequest, Name
  <2>4. CASE \E q \in Pod \ {p} : OwedByPod(q, n, i)
    <3>1. PICK q \in Pod \ {p} : OwedByPod(q, n, i)
      BY <2>4
    <3>2. phase'[q] = phase[q] /\ todo'[q] = todo[q] /\ doing'[q] = doing[q]
      BY <1>1, <3>1 DEF Advance, Enter, LInv, PodsOK
    <3> QED
      BY <3>1, <3>2 DEF Owed, OwedByPod
  <2>5. CASE OwedByPod(p, n, i)
    <3>1. n \in todo[p] /\ (doing[p].name = n => doing[p].indexed < i)
      BY <1>2, <2>5 DEF OwedByPod
    <3>2. CASE n # name
      BY <1>1, <3>1, <3>2, LifespanAssumption
      DEF Owed, OwedByPod, Advance, Enter, LInv, PodsOK, Nowhere
    <3>3. CASE n = name /\ i = k
      BY <1>1, <2>1, <3>3 DEF index_call, create_payload_index, stored_collection, Lacks,
          LInv, RequestsOK
    <3>4. CASE n = name /\ i # k
      <4>1. doing[p].indexed < i
        BY <1>1, <1>2, <3>1, <3>4, Fields DEF Nowhere
      <4>2. k < i /\ k < Len(IndexFields)
        BY <1>2, <3>4, <4>1, Fields
      <4>3. todo'[p] = todo[p] /\ doing'[p].indexed = k
        BY <1>1, <4>2 DEF Advance, LInv, PodsOK
      <4> QED
        BY <3>1, <4>2, <4>3 DEF Owed, OwedByPod
    <3> QED
      BY <3>2, <3>3, <3>4
  <2> QED
    BY <2>2, <2>3, <2>4, <2>5 DEF Owed
<1> QED
  BY <1>3, <1>4, <1>5 DEF LInv

\* A pod that starts, or lists the collections.
LEMMA StartStep ==
    ASSUME LInv, NEW p \in Pod, connect(p) \/ backfill_payload_indexes(p)
    PROVE  LInv'
<1>1. UNCHANGED vars /\ UNCHANGED doing /\ phase[p] \in {"down", "listing"}
  BY DEF connect, backfill_payload_indexes
<1>2. RequestsOK'
  BY <1>1 DEF LInv, RequestsOK, vars
<1>3. PodsOK'
  BY <1>1 DEF LInv, PodsOK, connect, backfill_payload_indexes, Enter, Phase
<1>4. MissingIndexIsOwed'
  <2> SUFFICES ASSUME NEW n \in PhysicalName, NEW i \in DOMAIN IndexFields, Lacks(n, i)'
               PROVE  (n \in bare \/ Owed(n, i))'
    BY DEF MissingIndexIsOwed
  <2>1. Lacks(n, i) /\ n \in get_collections(db)
    BY <1>1 DEF Lacks, Present, vars, get_collections, LInv, RequestsOK
  <2>2. CASE connect(p)
    <3>1. phase'[p] \in {"down", "listing"}
      BY <2>2 DEF connect, Enter, LInv, PodsOK
    <3> QED
      BY <3>1 DEF Owed, OwedByPod
  <2>3. CASE backfill_payload_indexes(p) /\ bare' = get_collections(db)
    BY <2>1, <2>3
  <2>4. CASE backfill_payload_indexes(p) /\ todo' = [todo EXCEPT ![p] = get_collections(db)]
    <3>1. n \in todo'[p] /\ doing'[p] = Nowhere
      BY <1>1, <2>1, <2>4 DEF LInv, PodsOK
    <3>2. doing'[p].name # n
      BY <3>1, LifespanAssumption DEF Nowhere
    <3> QED
      BY <3>1, <3>2 DEF Owed, OwedByPod
  <2> QED
    BY <2>2, <2>3, <2>4 DEF backfill_payload_indexes
<1> QED
  BY <1>2, <1>3, <1>4 DEF LInv

\* A pod that preloads has no index left to create, and one whose start is ended
\* owes them to its next.
LEMMA PreloadStep ==
    ASSUME LInv, NEW p \in Pod, preload(p)
    PROVE  LInv'
<1>1. /\ UNCHANGED <<vars, todo, doing, bare>> /\ phase[p] = "preloading"
      /\ \E new \in {"serving", "down"} : phase' = [phase EXCEPT ![p] = new]
  BY DEF preload, Enter
<1>2. RequestsOK' /\ PodsOK'
  BY <1>1 DEF LInv, RequestsOK, PodsOK, vars, Phase
<1>3. ASSUME NEW name, NEW i, Owed(name, i) PROVE Owed(name, i)'
  <2>1. CASE \E r \in Request : OwedByRequest(r, name, i)
    BY <1>1, <2>1 DEF Owed, OwedByRequest, Name, vars
  <2>2. ASSUME NEW q \in Pod, OwedByPod(q, name, i) PROVE OwedByPod(q, name, i)'
    BY <1>1, <2>2 DEF OwedByPod, LInv, PodsOK
  <2> QED
    BY <1>3, <2>1, <2>2 DEF Owed
<1>4. MissingIndexIsOwed'
  BY <1>1, <1>3 DEF LInv, MissingIndexIsOwed, Lacks, Present, vars
<1> QED
  BY <1>2, <1>4 DEF LInv

\* A pod that goes down owes everything again, as soon as it is started.
LEMMA DownStep ==
    ASSUME LInv, NEW p \in Pod, Crash(p) \/ close_client(p)
    PROVE  LInv'
<1>1. GoDown(p) /\ UNCHANGED <<db, call, local>> /\ phase' = [phase EXCEPT ![p] = "down"]
  BY DEF Crash, close_client, GoDown, Enter
<1>2. \/ UNCHANGED pc
      \/ \E Lost : pc' = [r \in Request |-> IF r \in Lost THEN "done" ELSE pc[r]]
  BY DEF Crash, close_client
<1>3. RequestsOK'
  BY <1>1, <1>2 DEF LInv, RequestsOK
<1>4. PodsOK'
  BY <1>1 DEF LInv, PodsOK, GoDown, Phase, Nowhere
<1>5. phase'[p] = "down"
  BY <1>1 DEF LInv, PodsOK
<1>6. MissingIndexIsOwed'
  BY <1>5 DEF MissingIndexIsOwed, Owed, OwedByPod
<1> QED
  BY <1>3, <1>4, <1>6 DEF LInv

\* A request that arrives owes nothing.
LEMMA AcceptStep ==
    ASSUME LInv, NEW r \in Request, Accept(r)
    PROVE  LInv'
<1>1. /\ UNCHANGED <<db, local, phase, todo, doing, bare>> /\ pc[r] = "idle"
      /\ \E label \in {"respond", "collection_exists"} : pc' = [pc EXCEPT ![r] = label]
      /\ \E c : call' = [call EXCEPT ![r] = c]
  BY DEF Accept, Receive, podVars, Goto, Answer
<1>2. RequestsOK'
  BY <1>1 DEF LInv, RequestsOK
<1>3. PodsOK'
  BY <1>1 DEF LInv, PodsOK
<1>4. ASSUME NEW name, NEW i, NEW q \in Request, OwedByRequest(q, name, i)
      PROVE  OwedByRequest(q, name, i)'
  BY <1>1, <1>4 DEF LInv, RequestsOK, OwedByRequest, Name
<1>5. MissingIndexIsOwed'
  BY <1>1, <1>4 DEF LInv, MissingIndexIsOwed, Owed, OwedByPod, Lacks, Present
<1> QED
  BY <1>2, <1>3, <1>5 DEF LInv

\* A request's step.
LEMMA RequestLInv ==
    ASSUME LInv, NEW r \in Request, RequestStep(r)
    PROVE  LInv'
<1>1. Step(r) /\ UNCHANGED <<phase, todo, doing>>
  BY DEF RequestStep, podVars
<1>2. RequestsOK'
  BY <1>1, StepRequests DEF LInv
<1>3. PodsOK'
  BY <1>1 DEF LInv, PodsOK
<1>4. ASSUME NEW q \in Request \ {r}, NEW name, NEW i, OwedByRequest(q, name, i)
      PROVE  OwedByRequest(q, name, i)'
  <2>1. pc'[q] = pc[q] /\ local'[q] = local[q] /\ call' = call
    BY <1>1, StepMoves DEF Goes, LInv, RequestsOK
  <2> QED
    BY <1>4, <2>1 DEF OwedByRequest, Name
<1>5. MissingIndexIsOwed'
  <2> SUFFICES ASSUME NEW n \in PhysicalName, NEW i \in DOMAIN IndexFields, Lacks(n, i)'
               PROVE  (n \in bare \/ Owed(n, i))'
    BY DEF MissingIndexIsOwed
  <2>1. CASE ~Lacks(n, i)
    BY <1>1, <2>1, StepEffect DEF LInv, Owed
  <2>2. CASE Lacks(n, i) /\ n \in bare
    BY <2>2 DEF RequestStep, Lacks
  <2>3. CASE Lacks(n, i) /\ \E p \in Pod : OwedByPod(p, n, i)
    BY <1>1, <2>3 DEF Owed, OwedByPod
  <2>4. CASE Lacks(n, i) /\ \E q \in Request \ {r} : OwedByRequest(q, n, i)
    BY <1>4, <2>4 DEF Owed
  <2>5. CASE Lacks(n, i) /\ OwedByRequest(r, n, i)
    <3>1. CASE OwedByRequest(r, n, i)'
      BY <3>1 DEF Owed
    <3>2. CASE i = local[r].indexed + 1 /\ db'[n] = db[n]
      BY <2>5, <3>2 DEF RequestStep, OwedByRequest
    <3> QED
      BY <1>1, <2>5, <3>1, <3>2, StepOwes DEF LInv
  <2> QED
    BY <2>1, <2>2, <2>3, <2>4, <2>5 DEF LInv, MissingIndexIsOwed, Owed
<1> QED
  BY <1>2, <1>3, <1>5 DEF LInv

\* A request that fails leaves its collection bare.
LEMMA FailLInv ==
    ASSUME LInv, NEW r \in Request, RequestFails(r)
    PROVE  LInv'
<1>1. /\ UNCHANGED <<db, call, local, phase, todo, doing>>
      /\ pc' = [pc EXCEPT ![r] = "done"]
      /\ bare' = bare \union IF EndsEarly(r) THEN {Name(r)} ELSE {}
  BY DEF RequestFails, Fail, podVars
<1>2. RequestsOK' /\ PodsOK'
  BY <1>1 DEF LInv, RequestsOK, PodsOK
<1>3. MissingIndexIsOwed'
  <2> SUFFICES ASSUME NEW n \in PhysicalName, NEW i \in DOMAIN IndexFields, Lacks(n, i)'
               PROVE  (n \in bare \/ Owed(n, i))'
    BY DEF MissingIndexIsOwed
  <2>1. Lacks(n, i) /\ Present(db, n)
    BY <1>1 DEF Lacks, Present
  <2>2. CASE OwedByRequest(r, n, i)
    BY <1>1, <2>1, <2>2 DEF OwedByRequest, EndsEarly
  <2>3. CASE \E q \in Request \ {r} : OwedByRequest(q, n, i)
    BY <1>1, <2>3 DEF LInv, RequestsOK, Owed, OwedByRequest, Name
  <2> QED
    BY <1>1, <2>1, <2>2, <2>3 DEF LInv, MissingIndexIsOwed, Owed, OwedByPod
<1> QED
  BY <1>2, <1>3 DEF LInv

\* Every step keeps the invariant: of a request, of a pod, a crash or an idle one.
LEMMA LifespanInv == LInv /\ [LifespanStep \/ AllServe]_lifespanVars => LInv'
<1> SUFFICES ASSUME LInv, [LifespanStep \/ AllServe]_lifespanVars PROVE LInv'
  OBVIOUS
<1>1. CASE LifespanStep
  BY <1>1, IndexStep, StartStep, PreloadStep, DownStep, AcceptStep, RequestLInv, FailLInv
  DEF LifespanStep, Startup
<1>2. CASE UNCHANGED lifespanVars
  BY <1>2 DEF lifespanVars, podVars, vars, LInv, RequestsOK, PodsOK, MissingIndexIsOwed,
      Owed, OwedByRequest, OwedByPod, Lacks, Present, Name
<1> QED
  BY <1>1, <1>2 DEF AllServe

\* Every payload index that a collection lacks is still owed by a request or a
\* pod, or a call for it failed, however many pods start, crash and serve
\* (ensure_collection, backfill_payload_indexes, lifespan).
THEOREM NothingForgotten == LifespanSpec => []MissingIndexIsOwed
<1>1. LInv => MissingIndexIsOwed
  BY DEF LInv
<1> QED
  BY <1>1, InitOwed, LifespanInv, PTL DEF LifespanSpec

=============================================================================
