-------------------------- MODULE ModelCacheProofs --------------------------
(***************************************************************************)
(* Theorems about ModelCache for every set of requests and models, every   *)
(* size of the worker pool and any number of restarts.  The inductive      *)
(* invariant adds who holds the lock, and what a job knows of the cache    *)
(* while it does.                                                          *)
(***************************************************************************)
EXTENDS ModelCache, TLAPS

Critical == {"recheck", "load", "release"}

\* The lock is held by the job that is between its acquire and its release.
LockHeld == \A j \in Job : pc[j] \in Critical <=> lock = j

\* A load is under way only for a model that is not there, and what is there has
\* been loaded once.
LoadsCounted ==
    /\ \A j \in Job : pc[j] = "load" => models[asked[j]] = None
    /\ \A m \in Model : loads[m] = IF models[m] = None THEN 0 ELSE 1

\* What a job holds is what the cache holds for the model it asked for; a job
\* that has not looked yet holds nothing.
HeldIsCached ==
    \A j \in Job :
        /\ pc[j] \notin {"release", "predict", "done"} => held[j] = None
        /\ pc[j] = "predict" => held[j] # None
        /\ held[j] # None => held[j] = models[asked[j]]

\* The preload asks for the default model, never has it and an error, and is
\* over with one or the other before the pod serves.
PreloadFirst ==
    /\ asked[Preloader] = Default
    /\ pc[Preloader] \notin {"idle", "fetch", "predict"}
    /\ pc[Preloader] \in {"release", "done"} /\ PreloadsAtStart
         /\ status[Preloader] = 0 => held[Preloader] # None
    /\ phase = "serving" => pc[Preloader] = "done" /\ status[Preloader] = 0

IInv == TypeOK /\ LockHeld /\ LoadsCounted /\ HeldIsCached /\ PreloadFirst

-----------------------------------------------------------------------------
\* The initial states satisfy the invariant.
LEMMA InitInv == Init => IInv
BY ModelCacheAssumption
DEF Init, IInv, TypeOK, LockHeld, LoadsCounted, HeldIsCached, PreloadFirst,
    Critical, Label, Job, PreloadsAtStart

\* A step of the pod itself keeps the invariant.
LEMMA PodStep ==
    ASSUME IInv, serve \/ Restart \/ UNCHANGED vars
    PROVE  IInv'
<1> USE ModelCacheAssumption
    DEF IInv, TypeOK, LockHeld, LoadsCounted, HeldIsCached, PreloadFirst,
        Critical, Label, Job, PreloadsAtStart
<1>1. CASE serve
  BY <1>1 DEF serve, Cache
<1>2. CASE Restart
  BY <1>2 DEF Restart
<1>3. CASE UNCHANGED vars
  BY <1>3 DEF vars
<1> QED
  BY <1>1, <1>2, <1>3

\* A step of a handler keeps the invariant.
LEMMA HandlerStep ==
    ASSUME IInv, NEW r \in Request, Arrive(r) \/ fetch_candidates(r)
    PROVE  IInv'
<1> USE ModelCacheAssumption
    DEF IInv, TypeOK, LockHeld, LoadsCounted, HeldIsCached, PreloadFirst,
        Critical, Label, Job, PreloadsAtStart, Goto, End, Pod, Cache
<1>1. CASE Arrive(r)
  BY <1>1 DEF Arrive, resolve_model
<1>2. CASE fetch_candidates(r)
  BY <1>2 DEF fetch_candidates
<1> QED
  BY <1>1, <1>2

\* A step of a job keeps the invariant.
LEMMA WorkStep ==
    ASSUME IInv, NEW j \in Job, Work(j)
    PROVE  IInv'
<1> USE ModelCacheAssumption
    DEF IInv, TypeOK, LockHeld, LoadsCounted, HeldIsCached, PreloadFirst,
        Critical, Label, Job, PreloadsAtStart, Goto, End, Pod, Cache, Loaded
<1>1. CASE to_thread(j)
  BY <1>1 DEF to_thread
<1>2. CASE lookup(j)
  BY <1>2 DEF lookup
<1>3. CASE acquire(j)
  BY <1>3 DEF acquire
<1>4. CASE recheck(j)
  BY <1>4 DEF recheck
<1>5. CASE load(j)
  BY <1>5 DEF load, cache_key
<1>6. CASE release(j)
  BY <1>6 DEF release
<1>7. CASE predict(j)
  BY <1>7 DEF predict
<1> QED
  BY <1>1, <1>2, <1>3, <1>4, <1>5, <1>6, <1>7 DEF Work

\* Every step keeps the invariant.
LEMMA NextInv == IInv /\ [Next]_vars => IInv'
BY PodStep, HandlerStep, WorkStep DEF Next, Step, Quiet, Job

\* Every reachable state satisfies the invariant.
THEOREM Invariance == Spec => []IInv
BY InitInv, NextInv, PTL DEF Spec

-----------------------------------------------------------------------------
\* Every variable keeps its type; a request never waits with a model unresolved.
THEOREM CacheTypes == Spec => []TypeOK
<1>1. IInv => TypeOK
  BY DEF IInv
<1> QED
  BY <1>1, Invariance, PTL

\* Jobs never load at the same time.
THEOREM MutualExclusion == Spec => []OneLoadAtATime
<1>1. IInv => OneLoadAtATime
  BY DEF IInv, LockHeld, OneLoadAtATime, Critical
<1> QED
  BY <1>1, Invariance, PTL

\* No model is loaded twice by one process.
THEOREM LoadOnce == Spec => []LoadedAtMostOnce
<1>1. IInv => LoadedAtMostOnce
  BY DEF IInv, LoadsCounted, LoadedAtMostOnce
<1> QED
  BY <1>1, Invariance, PTL

\* Whoever scores, scores with the one loaded model it asked for.
THEOREM SharedInstance == Spec => []OneInstance
<1>1. IInv => OneInstance
  BY DEF IInv, HeldIsCached, OneInstance
<1> QED
  BY <1>1, Invariance, PTL

\* A pod that preloads serves only with the default model loaded.
THEOREM WarmStart == Spec => []WarmWhenServing
<1>1. IInv => WarmWhenServing
  BY DEF IInv, PreloadFirst, HeldIsCached, WarmWhenServing, Job
<1> QED
  BY <1>1, Invariance, PTL

=============================================================================
