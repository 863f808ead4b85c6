------------------------------- MODULE Purge -------------------------------
(***************************************************************************)
(* DELETE /v1/collections (src/app/db/repository.py: purge_user_data)      *)
(* beside the requests of Repository.  A purge lists its owner's           *)
(* collections once and then runs one task per collection, a few at a time *)
(* (asyncio.gather over a semaphore).  gather raises with the first task   *)
(* that does and leaves the others running, so a purge that was answered   *)
(* with a 500 goes on.                                                     *)
(***************************************************************************)
EXTENDS RepositoryProps

CONSTANTS
    Purge,              \* purge requests
    PurgeOwner,         \* purge -> the owner its token names
    ListConcurrency,    \* _LIST_CONCURRENCY
    FailingPurge        \* the purges that a fault may hit

ASSUME PurgeAssumption ==
    /\ IsFiniteSet(Purge)
    /\ PurgeOwner \in [Purge -> Owner]
    /\ ListConcurrency \in Nat \ {0}
    /\ FailingPurge \subseteq Purge

VARIABLES
    at,         \* purge -> where its coroutine is
    task,       \* purge -> physical name -> what purge_one does next
    matched,    \* purge -> physical name -> the points it counted
    answer,     \* purge -> its answer
    swept,      \* history: the points whose removal this purge caused
    knows,      \* history: the requests answered when this purge arrived
    after       \* history: the purges answered when this request arrived

purge_vars == <<at, task, matched, answer, swept, knows, after>>
all_vars == <<vars, purge_vars>>

\* A task that is late gave up on its removal, which may yet be carried out.
TaskLabel == {"none", "waiting", "remove", "ended", "raised", "late"}

PurgeReply == [status : {0, 200, 400, 500}, deleted : Nat,
               affected : SUBSET PhysicalName, dropped : SUBSET PhysicalName]

PurgeStatus(code) ==
    [status |-> code, deleted |-> 0, affected |-> {}, dropped |-> {}]

PurgeInit ==
    /\ Init
    /\ at = [s \in Purge |-> "idle"]
    /\ task = [s \in Purge |-> [n \in PhysicalName |-> "none"]]
    /\ matched = [s \in Purge |-> [n \in PhysicalName |-> 0]]
    /\ answer = [s \in Purge |-> PurgeStatus(0)]
    /\ swept = [s \in Purge |-> {}]
    /\ knows = [s \in Purge |-> {}]
    /\ after = [r \in Request |-> {}]

-----------------------------------------------------------------------------
Tasks(s, labels) == {n \in PhysicalName : task[s][n] \in labels}

Becomes(s, n, label) == task' = [task EXCEPT ![s][n] = label]

AnswerPurge(s, reply_to) ==
    /\ at' = [at EXCEPT ![s] = "done"]
    /\ answer' = [answer EXCEPT ![s] = reply_to]

\* Requests take no part in a purge's own steps.
Apart == UNCHANGED <<pc, call, local, reply, before, removed, after>>

\* Without confirm=true nothing happens.
purge_all(s) ==
    /\ at[s] = "idle"
    /\ knows' = [knows EXCEPT ![s] = {r \in Request : pc[r] = "done"}]
    /\ \/ AnswerPurge(s, PurgeStatus(400))
       \/ at' = [at EXCEPT ![s] = "list"] /\ UNCHANGED answer
    /\ Apart /\ UNCHANGED <<db, task, matched, swept>>

owned(s) == {n \in get_collections(db) : owns(PurgeOwner[s], n)}

owned_collections(s) ==
    /\ at[s] = "list"
    /\ IF owned(s) = {} THEN AnswerPurge(s, PurgeStatus(200)) /\ UNCHANGED task
       ELSE /\ task' = [task EXCEPT ![s] = [n \in PhysicalName |->
                            IF n \in owned(s) THEN "waiting" ELSE "none"]]
            /\ at' = [at EXCEPT ![s] = "gather"] /\ UNCHANGED answer
    /\ Apart /\ UNCHANGED <<db, matched, swept, knows>>

scope(s) == owned_by(PurgeOwner[s].username)

\* The tasks inside the semaphore; the mutant forgets to leave it on an error.
limiter_kept(s) == Tasks(s, {"remove", "raised", "late"})
limiter(s) == Tasks(s, {"remove"})

\* A task enters the semaphore when it makes its first call, the count.
Enters(s, n) ==
    task[s][n] = "waiting" /\ Cardinality(limiter(s)) < ListConcurrency

count_owned(s, n) ==
    /\ Enters(s, n)
    /\ IF ~Present(db, n) THEN Becomes(s, n, "raised") /\ UNCHANGED matched
       ELSE /\ matched' = [matched EXCEPT ![s][n] = count(db, n, scope(s))]
            /\ Becomes(s, n, "remove")
    /\ Apart /\ UNCHANGED <<db, at, answer, swept, knows>>

\* The removal itself: the whole collection, or every point of it.
Sweeps(s, n) ==
    /\ db' = IF DropEmpty THEN delete_collection(db, n) ELSE delete(db, n, scope(s))
    /\ swept' = [swept EXCEPT ![s] = @ \union
                    IF ~Present(db, n) THEN {}
                    ELSE IF DropEmpty THEN Stored(db, n)
                    ELSE Selected(db, n, scope(s))]

\* Deleting points raises when the collection is gone; dropping it does not.
remove_owned(s, n) ==
    /\ task[s][n] = "remove"
    /\ IF Present(db, n) \/ DropEmpty THEN Sweeps(s, n) /\ Becomes(s, n, "ended")
       ELSE Becomes(s, n, "raised") /\ UNCHANGED <<db, swept>>
    /\ Apart /\ UNCHANGED <<at, matched, answer, knows>>

\* What the ended tasks counted: a pair for each point, so that there are as many
\* pairs as the counts sum up to.
counts(s) == UNION {{n} \X (1..matched[s][n]) : n \in Tasks(s, {"ended"})}

\* What the purge reports; the mutants report nothing, and the collections.
total_missing(s) == None
total_collections(s) == Cardinality(Tasks(s, {"ended"}))
total(s) == Cardinality(counts(s))

Outcomes(s) ==
    LET ended == Tasks(s, {"ended"})
    IN  [status |-> 200, deleted |-> total(s), affected |-> ended,
         dropped |-> IF DropEmpty THEN ended ELSE {}]

\* Mutant: return_exceptions, and what raised is passed over.
gather_tolerant(s) ==
    /\ at[s] = "gather" /\ Tasks(s, {"waiting", "remove"}) = {}
    /\ AnswerPurge(s, Outcomes(s))
    /\ Apart /\ UNCHANGED <<db, task, matched, swept, knows>>

\* Mutant: the tasks are left to themselves once the first has ended.
gather_early(s) ==
    /\ at[s] = "gather" /\ Tasks(s, {"ended"}) # {}
    /\ AnswerPurge(s, Outcomes(s))
    /\ Apart /\ UNCHANGED <<db, task, matched, swept, knows>>

\* The first exception is raised at once, and no task is cancelled.
gather(s) ==
    /\ at[s] = "gather"
    /\ \/ Tasks(s, {"raised", "late"}) # {} /\ AnswerPurge(s, PurgeStatus(500))
       \/ /\ Tasks(s, {"waiting", "remove", "raised", "late"}) = {}
          /\ AnswerPurge(s, Outcomes(s))
    /\ Apart /\ UNCHANGED <<db, task, matched, swept, knows>>

-----------------------------------------------------------------------------
(* Faults *)

\* A count fails or times out; a removal fails, or is given up after the
\* timeout and may yet take place.
TaskFails(s, n) ==
    /\ s \in FailingPurge
    /\ \/ (Enters(s, n) \/ task[s][n] = "remove") /\ Becomes(s, n, "raised")
       \/ task[s][n] = "remove" /\ Becomes(s, n, "late")
    /\ Apart /\ UNCHANGED <<db, at, matched, answer, swept, knows>>

LateRemoval(s, n) ==
    /\ task[s][n] = "late" /\ Present(db, n)
    /\ Sweeps(s, n) /\ Becomes(s, n, "raised")
    /\ Apart /\ UNCHANGED <<at, matched, answer, knows>>

\* The pod goes down, with every task of the purge.
PodDown(s) ==
    /\ s \in FailingPurge /\ at[s] \notin {"idle", "done"}
    /\ AnswerPurge(s, PurgeStatus(500))
    /\ task' = [task EXCEPT ![s] = [n \in PhysicalName |->
                    IF @[n] \in {"waiting", "remove"} THEN "raised" ELSE @[n]]]
    /\ Apart /\ UNCHANGED <<db, matched, swept, knows>>

-----------------------------------------------------------------------------
PurgeStep(s) ==
    \/ owned_collections(s) \/ gather(s)
    \/ \E n \in PhysicalName : count_owned(s, n) \/ remove_owned(s, n)

PurgeFault(s) ==
    PodDown(s) \/ \E n \in PhysicalName : TaskFails(s, n) \/ LateRemoval(s, n)

Arrives(r) ==
    /\ Receive(r)
    /\ after' = [after EXCEPT ![r] = {s \in Purge : at[s] = "done"}]
    /\ UNCHANGED <<at, task, matched, answer, swept, knows>>

Ended(s) ==
    at[s] \in {"idle", "done"} /\ Tasks(s, {"waiting", "remove"}) = {}

PurgeQuiet == InFlight = {} /\ (\A s \in Purge : Ended(s)) /\ UNCHANGED all_vars

PurgeNext ==
    \/ \E r \in Request : Arrives(r)
    \/ \E r \in Request : (Step(r) \/ Fail(r)) /\ UNCHANGED purge_vars
    \/ \E s \in Purge : purge_all(s) \/ PurgeStep(s) \/ PurgeFault(s)
    \/ PurgeQuiet

\* The event loop runs the tasks of a purge whether or not it was answered.
PurgeFairness ==
    /\ \A r \in Request : WF_all_vars(Step(r) /\ UNCHANGED purge_vars)
    /\ \A s \in Purge : WF_all_vars(PurgeStep(s))

PurgeSpec == PurgeInit /\ [][PurgeNext]_all_vars /\ PurgeFairness

-----------------------------------------------------------------------------
(* Properties *)

\* Type correctness of the purges' part of the state.
PurgeTypeOK ==
    /\ at \in [Purge -> {"idle", "list", "gather", "done"}]
    /\ task \in [Purge -> [PhysicalName -> TaskLabel]]
    /\ matched \in [Purge -> [PhysicalName -> Nat]]
    /\ answer \in [Purge -> PurgeReply]
    /\ swept \in [Purge -> SUBSET Id]
    /\ knows \in [Purge -> SUBSET Request]
    /\ after \in [Request -> SUBSET Purge]

\* A purge removes points of its own owner and of nobody else, although it drops
\* collections outright and long after it listed them (purge_user_data).
SweepsOwnPoints ==
    \A s \in Purge : \A id \in swept[s] :
        Stores(id) /\ call[id].owner = PurgeOwner[s]

\* After a purge was answered with a 200 no point of its owner is there that was
\* last written by a request answered before the purge arrived, whatever was
\* dropped, created again or updated meanwhile (purge_user_data: "Delete
\* everything the caller owns").
NothingOldSurvives ==
    \A s \in Purge : answer[s].status = 200 =>
        \A n \in get_collections(db) : \A id \in Stored(db, n) :
            (call[id].owner = PurgeOwner[s]) =>
                db[n].points[id].payload.updated_at \notin knows[s]

\* A purge that was answered with a 200 is over: what is stored later is never
\* touched by it.  After a 500 its tasks, and calls it gave up on, may go on.
OnlyFailedPurgesLinger ==
    \A s \in Purge : \A id \in swept[s] :
        s \in after[id] => answer[s].status = 500

\* No request or purge of the same owner ran beside this one.
Alone(s) ==
    /\ \A r \in Request : \/ pc[r] = "idle" \/ call[r].owner # PurgeOwner[s]
                          \/ r \in knows[s] \/ s \in after[r]
    /\ \A t \in Purge \ {s} : at[t] = "idle" \/ PurgeOwner[t] # PurgeOwner[s]

\* A purge that succeeds with nothing of its owner beside it reports the number
\* of points it removed, over all of its tasks; other owners may do what they
\* like meanwhile (purge_user_data).
PurgeReportsAll ==
    \A s \in Purge : answer[s].status = 200 /\ Alone(s) =>
        answer[s].deleted = Cardinality(swept[s])

\* Every purge is answered and every task of it ends: a task that raises leaves
\* the semaphore to those that wait for it.
EveryPurgeEnds ==
    \A s \in Purge : at[s] # "idle" ~> at[s] = "done" /\ Ended(s)

=============================================================================
