------------------------------ MODULE Lifespan ------------------------------
(***************************************************************************)
(* The pods that serve the requests of Repository: the lifespan of         *)
(* src/app/main.py, which finds Qdrant or exits, creates missing payload   *)
(* indexes on every collection (backfill_payload_indexes), preloads the    *)
(* reranker and then serves; and the platform, which starts a pod that is  *)
(* down.  A pod that starts runs beside others that serve, so collections  *)
(* come and go under its backfill.  A crash ends the requests the pod had  *)
(* accepted.  What the preload does to the cache of models is in module    *)
(* ModelCache; here it ends, or ends the start.                            *)
(***************************************************************************)
EXTENDS RepositoryProps

CONSTANTS
    Pod,
    Old,            \* collections from before there were payload indexes
    MaxStarts       \* bound: starts of pods altogether

ASSUME LifespanAssumption ==
    /\ None \notin Pod /\ Pod # {}
    /\ None \notin PhysicalName
    /\ IndexFields # << >>
    /\ Old \subseteq PhysicalName
    /\ MaxStarts \in Nat

VARIABLES
    phase,      \* pod -> what it is doing
    todo,       \* pod -> the collections its backfill has not finished
    doing,      \* pod -> the one it is at, and how many indexes it tried there
    starts,     \* how often a pod was started
    on,         \* request -> the pod that accepted it
    bare        \* history: collections left without an index since a pod last
                \* listed them: a call failed, or its request ended early

podVars == <<phase, todo, doing, starts>>
lifespanVars == <<vars, podVars, on, bare>>

Phase == {"down", "listing", "indexing", "preloading", "serving"}

Nowhere == [name |-> None, indexed |-> 0]

LifespanInit ==
    /\ \E size \in Dim :
        db = [name \in PhysicalName |->
                IF name \in Old
                THEN stored_collection(size, {}, [id \in Id |-> None])
                ELSE Absent]
    /\ pc = [r \in Request |-> "idle"]
    /\ call = [r \in Request |-> None]
    /\ local = [r \in Request |-> Read(None)]
    /\ reply = [r \in Request |-> Status(0)]
    /\ before = [r \in Request |-> {}]
    /\ removed = [r \in Request |-> {}]
    /\ phase = [p \in Pod |-> "down"]
    /\ todo = [p \in Pod |-> {}]
    /\ doing = [p \in Pod |-> Nowhere]
    /\ starts = 0
    /\ on = [r \in Request |-> None]
    /\ bare = {}

Enter(p, new_phase) == phase' = [phase EXCEPT ![p] = new_phase]

\* A start fails, or a pod goes down, only while the bound leaves every pod that
\* is down then one more start, which the platform owes it.
MayFail == starts + Cardinality({p \in Pod : phase[p] = "down"}) < MaxStarts

-----------------------------------------------------------------------------
(* The startup *)

\* The platform starts a pod; its lifespan finds Qdrant, or the process exits.
connect(p) ==
    /\ phase[p] = "down" /\ starts < MaxStarts
    /\ starts' = starts + 1
    /\ Enter(p, "listing") \/ (MayFail /\ UNCHANGED phase)
    /\ UNCHANGED <<vars, todo, doing, on, bare>>

\* Mutant: the backfill is left out.
backfill_left_out(p) ==
    /\ phase[p] = "listing"
    /\ Enter(p, "preloading")
    /\ UNCHANGED <<vars, todo, doing, starts, on, bare>>

\* backfill_payload_indexes reads the names once.  If that raises, the start
\* goes on without it.
backfill_payload_indexes(p) ==
    /\ phase[p] = "listing"
    /\ \/ /\ todo' = [todo EXCEPT ![p] = get_collections(db)]
          /\ Enter(p, IF get_collections(db) = {} THEN "preloading" ELSE "indexing")
          /\ bare' = {}
       \/ /\ Enter(p, "preloading")
          /\ bare' = get_collections(db)
          /\ UNCHANGED todo
    /\ UNCHANGED <<vars, doing, starts, on>>

Lacks(name, i) == Present(db, name) /\ IndexFields[i] \notin db[name].indexes

\* One create_payload_index call on `name` for the i-th field, by anybody: it
\* raises if the collection is gone, and may raise anyway.
index_call(name, i) ==
    \/ /\ Present(db, name)
       /\ db' = create_payload_index(db, name, IndexFields[i])
       /\ UNCHANGED bare
    \/ /\ UNCHANGED db
       /\ bare' = bare \union IF Lacks(name, i) THEN {name} ELSE {}

\* What comes after a call: the next field, the next collection, or the preload.
Advance(p, name, i) ==
    IF i < Len(IndexFields)
    THEN /\ doing' = [doing EXCEPT ![p] = [name |-> name, indexed |-> i]]
         /\ UNCHANGED <<todo, phase>>
    ELSE /\ doing' = [doing EXCEPT ![p] = Nowhere]
         /\ todo' = [todo EXCEPT ![p] = @ \ {name}]
         /\ Enter(p, IF todo[p] = {name} THEN "preloading" ELSE "indexing")

\* Mutants: a call that raises ends the whole backfill, or is made again.
index_or_give_up(p) ==
    /\ phase[p] = "indexing"
    /\ \E name \in IF doing[p] = Nowhere THEN todo[p] ELSE {doing[p].name} :
        LET i == doing[p].indexed + 1
        IN  IF Present(db, name)
            THEN index_call(name, i) /\ Advance(p, name, i)
            ELSE /\ Enter(p, "preloading")
                 /\ todo' = [todo EXCEPT ![p] = {}]
                 /\ doing' = [doing EXCEPT ![p] = Nowhere]
                 /\ UNCHANGED <<db, bare>>
    /\ UNCHANGED <<pc, call, local, reply, before, removed, starts, on>>

index_until_done(p) ==
    /\ phase[p] = "indexing"
    /\ \E name \in IF doing[p] = Nowhere THEN todo[p] ELSE {doing[p].name} :
        LET i == doing[p].indexed + 1
        IN  /\ index_call(name, i)
            /\ IF Present(db, name) THEN Advance(p, name, i)
                                    ELSE UNCHANGED <<phase, todo, doing>>
    /\ UNCHANGED <<pc, call, local, reply, before, removed, starts, on>>

\* The backfill makes its calls one after the other, field by field, and
\* whatever a call raises is swallowed (_create_payload_indexes).
index(p) ==
    /\ phase[p] = "indexing"
    /\ \E name \in IF doing[p] = Nowhere THEN todo[p] ELSE {doing[p].name} :
        LET i == doing[p].indexed + 1
        IN  index_call(name, i) /\ Advance(p, name, i)
    /\ UNCHANGED <<pc, call, local, reply, before, removed, starts, on>>

\* The last part of a start, if it is configured.  What it raises is not caught
\* and ends the start.
preload(p) ==
    /\ phase[p] = "preloading"
    /\ Enter(p, "serving") \/ (MayFail /\ Enter(p, "down"))
    /\ UNCHANGED <<vars, todo, doing, starts, on, bare>>

-----------------------------------------------------------------------------
(* Serving *)

\* A request arrives at a pod that serves.
Accept(r) ==
    /\ Receive(r)
    /\ \E p \in Pod : phase[p] = "serving" /\ on' = [on EXCEPT ![r] = p]
    /\ UNCHANGED <<podVars, bare>>

\* A request's own step; its index calls leave a collection bare as the
\* backfill's do, and a collection that is gone is bare no longer.
RequestStep(r) ==
    /\ Step(r)
    /\ LET name == Name(r)
           i    == local[r].indexed + 1
       IN  bare' = {n \in bare : Present(db', n)} \union
                   IF /\ pc[r] = "create_payload_index" /\ Lacks(name, i)
                      /\ db'[name] = db[name]
                   THEN {name} ELSE {}
    /\ UNCHANGED <<podVars, on>>

EndsEarly(r) == pc[r] = "create_payload_index" /\ Present(db, Name(r))

RequestFails(r) ==
    /\ Fail(r)
    /\ bare' = bare \union IF EndsEarly(r) THEN {Name(r)} ELSE {}
    /\ UNCHANGED <<podVars, on>>

\* A process ends: the requests it had accepted get no answer but an error, and
\* what they did so far stays.
GoDown(p) ==
    /\ Enter(p, "down")
    /\ todo' = [todo EXCEPT ![p] = {}]
    /\ doing' = [doing EXCEPT ![p] = Nowhere]
    /\ UNCHANGED <<db, call, local, before, removed, starts, on, bare>>

Crash(p) ==
    /\ phase[p] # "down" /\ MayFail
    /\ GoDown(p)
    /\ LET Lost == {r \in InFlight : on[r] = p}
       IN  /\ pc' = [r \in Request |-> IF r \in Lost THEN "done" ELSE pc[r]]
           /\ reply' = [r \in Request |-> IF r \in Lost THEN Status(500) ELSE reply[r]]

\* A shutdown lets the accepted requests end, then closes the client.
close_client(p) ==
    /\ phase[p] = "serving" /\ MayFail
    /\ \A r \in InFlight : on[r] # p
    /\ GoDown(p)
    /\ UNCHANGED <<pc, reply>>

-----------------------------------------------------------------------------
Startup(p) ==
    connect(p) \/ backfill_payload_indexes(p) \/ index(p) \/ preload(p)

LifespanStep ==
    \/ \E p \in Pod : Startup(p) \/ Crash(p) \/ close_client(p)
    \/ \E r \in Request : Accept(r) \/ RequestStep(r) \/ RequestFails(r)

\* Nothing to serve, and every pod is up.
AllServe ==
    /\ InFlight = {} /\ \A p \in Pod : phase[p] = "serving"
    /\ UNCHANGED lifespanVars

\* The platform starts what is down, and an event loop runs every coroutine.
LifespanFairness ==
    /\ \A p \in Pod : WF_lifespanVars(Startup(p))
    /\ \A r \in Request : WF_lifespanVars(RequestStep(r))

LifespanSpec ==
    LifespanInit /\ [][LifespanStep \/ AllServe]_lifespanVars /\ LifespanFairness

-----------------------------------------------------------------------------
(* What pods owe the collections *)

\* Somebody still has to create the i-th index of the collection: the request
\* that created it, or a pod that has yet to list it or to come to it.
OwedByRequest(r, name, i) ==
    pc[r] = "create_payload_index" /\ Name(r) = name /\ local[r].indexed < i

OwedByPod(p, name, i) ==
    \/ phase[p] \in {"down", "listing"}
    \/ name \in todo[p] /\ (doing[p].name = name => doing[p].indexed < i)

Owed(name, i) ==
    (\E r \in Request : OwedByRequest(r, name, i)) \/ (\E p \in Pod : OwedByPod(p, name, i))

\* A collection lacks a payload index only while somebody still owes it, or
\* because a call for it failed since a pod last listed the collections: no
\* crash, and no drop or creation beside a backfill, leaves one without an
\* index for good (ensure_collection, backfill_payload_indexes, lifespan).
MissingIndexIsOwed ==
    \A name \in PhysicalName, i \in DOMAIN IndexFields :
        Lacks(name, i) => name \in bare \/ Owed(name, i)

\* Again and again every pod serves, whatever becomes of the collections it
\* listed: no index call that raises holds a pod up, and a start that Qdrant or
\* the preload ended is made again (lifespan, _create_payload_indexes).
EveryPodServes == []<>(\A p \in Pod : phase[p] = "serving")

\* Again and again every collection has all its indexes, but for those a call
\* failed for: old collections, and new ones whose creator went down, get theirs
\* without anybody asking (lifespan: "this just converges on startup").
IndexesConverge ==
    []<>(\A name \in PhysicalName, i \in DOMAIN IndexFields :
            Lacks(name, i) => name \in bare)

=============================================================================
