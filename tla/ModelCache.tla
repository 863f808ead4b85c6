----------------------------- MODULE ModelCache -----------------------------
(***************************************************************************)
(* src/app/reranking/cross_encoder.py: the cache of cross-encoders of one  *)
(* pod, with the handler of POST /v1/rerank that leads to it and the       *)
(* preload at startup.                                                     *)
(*                                                                         *)
(* A request for a cross-encoder is a coroutine until it has candidates,   *)
(* and then a job of the worker pool (asyncio.to_thread).  Jobs look the   *)
(* model up without the lock, and load it under the lock.  Loading takes   *)
(* seconds and may fail.  The pod may be restarted at any moment, and then *)
(* starts with no model loaded.                                            *)
(***************************************************************************)
EXTENDS Naturals, FiniteSets

CONSTANTS
    None,
    Request,        \* rerank requests with method "cross_encoder"
    Preloader,      \* the job of preload()
    Model,
    Default,        \* settings.rerank_model
    Allowed,        \* settings.rerank_allowed_models
    Preload,        \* settings.rerank_preload
    Workers,        \* threads of the pool
    MaxRestarts     \* bound: restarts of the pod

Job == Request \union {Preloader}

ASSUME ModelCacheAssumption ==
    /\ IsFiniteSet(Request) /\ Preloader \notin Request
    /\ None \notin Job /\ None \notin Model
    /\ Default \in Model /\ Allowed \subseteq Model
    /\ Preload \in BOOLEAN
    /\ Workers \in Nat \ {0} /\ MaxRestarts \in Nat

VARIABLES
    installed,      \* the image has the optional dependencies
    phase,          \* of the pod: starting, serving, down
    pc,             \* job -> what it does next
    asked,          \* job -> the model it resolved to
    held,           \* job -> the loaded model _load returned to it
    status,         \* job -> its HTTP status, 0 while it has none
    models,         \* _models: name -> loaded model, named by the job that loaded it
    lock,           \* _load_lock: the job that holds it
    loads,          \* history: times each model was loaded by this process
    restarts

vars == <<installed, phase, pc, asked, held, status, models, lock, loads, restarts>>

Label == {"idle", "fetch", "queued", "lookup", "acquire", "recheck", "load",
          "release", "predict", "done"}

Working == {"lookup", "acquire", "recheck", "load", "release", "predict"}

\* The lifespan preloads only if it is told to and the dependencies are there.
PreloadsAtStart == Preload /\ installed

Init ==
    /\ installed \in BOOLEAN
    /\ phase = "starting"
    /\ pc = [j \in Job |-> IF j = Preloader /\ PreloadsAtStart THEN "queued"
                           ELSE IF j = Preloader THEN "done" ELSE "idle"]
    /\ asked = [j \in Job |-> Default]
    /\ held = [j \in Job |-> None]
    /\ status = [j \in Job |-> 0]
    /\ models = [m \in Model |-> None]
    /\ lock = None
    /\ loads = [m \in Model |-> 0]
    /\ restarts = 0

-----------------------------------------------------------------------------
Goto(j, label) == pc' = [pc EXCEPT ![j] = label]

End(j, code) == Goto(j, "done") /\ status' = [status EXCEPT ![j] = code]

Pod == <<installed, phase, restarts>>
Cache == <<models, lock, loads>>

\* The lifespan awaits the preload before it yields; an exception of it ends
\* the process.
serve ==
    /\ phase = "starting" /\ pc[Preloader] = "done"
    /\ phase' = IF status[Preloader] = 0 THEN "serving" ELSE "down"
    /\ UNCHANGED <<installed, restarts, pc, asked, held, status, Cache>>

\* What a request's model can resolve to: one of the list, or the default if it
\* names none.  The mutant leaves the default to be filled in later.
resolve_model_none == Allowed \union {None}
resolve_model == Allowed \union {Default}

\* The model is resolved before anything else; a name that is not on the list is
\* refused.
Arrive(r) ==
    /\ phase = "serving" /\ pc[r] = "idle"
    /\ \/ End(r, 400) /\ UNCHANGED asked
       \/ /\ \E m \in resolve_model : asked' = [asked EXCEPT ![r] = m]
          /\ Goto(r, "fetch") /\ UNCHANGED status
    /\ UNCHANGED <<Pod, held, Cache>>

\* The search may fail; without candidates no model is needed.
fetch_candidates(r) ==
    /\ pc[r] = "fetch"
    /\ \/ \E code \in {200, 404, 422, 500} : End(r, code)
       \/ Goto(r, "queued") /\ UNCHANGED status
    /\ UNCHANGED <<Pod, asked, held, Cache>>

\* A worker takes the job up.
to_thread(j) ==
    /\ pc[j] = "queued"
    /\ Cardinality({k \in Job : pc[k] \in Working}) < Workers
    /\ Goto(j, "lookup")
    /\ UNCHANGED <<Pod, asked, held, status, Cache>>

\* What a job does once _load has returned.
Loaded(j) == Goto(j, IF j = Preloader THEN "done" ELSE "predict")

lookup(j) ==
    /\ pc[j] = "lookup"
    /\ IF models[asked[j]] # None
       THEN held' = [held EXCEPT ![j] = models[asked[j]]] /\ Loaded(j)
       ELSE Goto(j, "acquire") /\ UNCHANGED held
    /\ UNCHANGED <<Pod, asked, status, Cache>>

\* Mutant: no lock.
acquire_none(j) ==
    /\ pc[j] = "acquire"
    /\ lock' = j
    /\ Goto(j, "recheck")
    /\ UNCHANGED <<Pod, asked, held, status, models, loads>>

acquire(j) ==
    /\ pc[j] = "acquire" /\ lock = None
    /\ lock' = j
    /\ Goto(j, "recheck")
    /\ UNCHANGED <<Pod, asked, held, status, models, loads>>

\* Mutant: no second look.
recheck_none(j) ==
    /\ pc[j] = "recheck"
    /\ IF ~installed
       THEN Goto(j, "release") /\ status' = [status EXCEPT ![j] = 503]
       ELSE Goto(j, "load") /\ UNCHANGED status
    /\ UNCHANGED <<Pod, asked, held, Cache>>

\* Another job may have loaded the model while this one waited.
recheck(j) ==
    /\ pc[j] = "recheck"
    /\ IF models[asked[j]] # None
       THEN /\ held' = [held EXCEPT ![j] = models[asked[j]]]
            /\ Goto(j, "release") /\ UNCHANGED status
       ELSE IF ~installed
       THEN /\ Goto(j, "release") /\ status' = [status EXCEPT ![j] = 503]
            /\ UNCHANGED held
       ELSE Goto(j, "load") /\ UNCHANGED <<held, status>>
    /\ UNCHANGED <<Pod, asked, Cache>>

\* Mutant: the model is cached under the default name.
cache_key_default(j) == Default
cache_key(j) == asked[j]

load(j) ==
    /\ pc[j] = "load"
    /\ \/ /\ models' = [models EXCEPT ![cache_key(j)] = j]
          /\ loads' = [loads EXCEPT ![asked[j]] = @ + 1]
          /\ held' = [held EXCEPT ![j] = j]
          /\ UNCHANGED status
       \/ status' = [status EXCEPT ![j] = 500] /\ UNCHANGED <<models, loads, held>>
    /\ Goto(j, "release")
    /\ UNCHANGED <<Pod, asked, lock>>

\* Mutant: a load that failed is tried again.
release_retry(j) ==
    /\ pc[j] = "release"
    /\ lock' = None
    /\ IF held[j] = None THEN Goto(j, "lookup") ELSE Loaded(j)
    /\ UNCHANGED <<Pod, asked, held, status, models, loads>>

\* The lock is released on every way out; a job that raised is over.
release(j) ==
    /\ pc[j] = "release"
    /\ lock' = None
    /\ IF held[j] = None THEN Goto(j, "done") ELSE Loaded(j)
    /\ UNCHANGED <<Pod, asked, held, status, models, loads>>

predict(j) ==
    /\ pc[j] = "predict"
    /\ \E code \in {200, 500} : End(j, code)
    /\ UNCHANGED <<Pod, asked, held, Cache>>

\* The process dies, requests without an answer get none, and a new one starts.
Restart ==
    /\ restarts < MaxRestarts
    /\ restarts' = restarts + 1
    /\ phase' = "starting"
    /\ pc' = [j \in Job |-> IF j = Preloader /\ PreloadsAtStart THEN "queued"
                            ELSE IF pc[j] = "idle" THEN "idle" ELSE "done"]
    /\ held' = [j \in Job |-> None]
    /\ status' = [status EXCEPT ![Preloader] = 0]
    /\ models' = [m \in Model |-> None]
    /\ lock' = None
    /\ loads' = [m \in Model |-> 0]
    /\ UNCHANGED <<installed, asked>>

Work(j) == to_thread(j) \/ lookup(j) \/ acquire(j) \/ recheck(j) \/ load(j)
           \/ release(j) \/ predict(j)

Step(r) == fetch_candidates(r) \/ Work(r)

\* Nothing to serve, or nobody to serve it.
Quiet ==
    /\ phase # "starting" /\ \A j \in Job : pc[j] \in {"idle", "done"}
    /\ UNCHANGED vars

Next ==
    \/ serve \/ Restart \/ Quiet \/ Work(Preloader)
    \/ \E r \in Request : Arrive(r) \/ Step(r)

\* The event loop and the pool run what they accepted.  A free lock that several
\* jobs wait for goes to any of them.
Fairness ==
    /\ WF_vars(serve) /\ WF_vars(Work(Preloader))
    /\ \A r \in Request : WF_vars(Step(r))

Spec == Init /\ [][Next]_vars /\ Fairness

-----------------------------------------------------------------------------
(* Properties *)

\* Type correctness.
TypeOK ==
    /\ installed \in BOOLEAN
    /\ phase \in {"starting", "serving", "down"}
    /\ pc \in [Job -> Label]
    /\ asked \in [Job -> Model]
    /\ held \in [Job -> Job \union {None}]
    /\ status \in [Job -> {0, 200, 400, 404, 422, 500, 503}]
    /\ models \in [Model -> Job \union {None}]
    /\ lock \in Job \union {None}
    /\ loads \in [Model -> Nat]
    /\ restarts \in Nat

\* No two jobs load at the same time, whatever models they load, and so loading
\* need not be thread-safe (_load_lock).
OneLoadAtATime ==
    \A j, k \in Job : pc[j] = "load" /\ pc[k] = "load" => j = k

\* A model is loaded at most once per process, however many first requests for
\* it overlap and however many loads of it fail (_models).
LoadedAtMostOnce == \A m \in Model : loads[m] =< 1

\* Every request scores with the model it asked for, and all requests for a
\* model with the same loaded one (_load).
OneInstance ==
    \A j \in Job : pc[j] = "predict" => held[j] # None /\ held[j] = models[asked[j]]

\* A pod that is told to preload serves nothing before the default model is
\* there, after a restart as well (lifespan, preload).
WarmWhenServing ==
    phase = "serving" /\ PreloadsAtStart => models[Default] # None

\* Every rerank ends: jobs that wait for the lock hold workers of the pool, but
\* the one that loads always has its own, and a load that fails gives the lock
\* back.
EveryRerankEnds ==
    \A r \in Request : pc[r] # "idle" ~> pc[r] = "done"

=============================================================================
