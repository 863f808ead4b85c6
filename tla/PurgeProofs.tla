---------------------------- MODULE PurgeProofs ----------------------------
(***************************************************************************)
(* Theorems about Purge for every value of its constants.  Purges keep the *)
(* invariant of Repository, so everything proved of requests holds beside  *)
(* them; and an invariant of their own says what their tasks may still do. *)
(***************************************************************************)
EXTENDS Purge, RepositoryProofs

\* The state of the purges, as far as the proofs need it.
Shape ==
    /\ at \in [Purge -> {"idle", "list", "gather", "done"}]
    /\ task \in [Purge -> [PhysicalName -> TaskLabel]]
    /\ DOMAIN answer = Purge
    /\ swept \in [Purge -> SUBSET Id]
    /\ after \in [Request -> SUBSET Purge]

\* A purge has tasks for collections of its owner only, none before it has
\* listed them, and none that could go on once it was answered with other than
\* a 500.
TasksOK ==
    \A s \in Purge : \A n \in PhysicalName :
        task[s][n] # "none" =>
            /\ owns(PurgeOwner[s], n)
            /\ at[s] \in {"gather", "done"}
            /\ at[s] = "done" =>
                    task[s][n] \in {"ended", "raised"} \/ answer[s].status = 500

AfterOK == \A r \in Request : \A s \in after[r] : at[s] = "done"

PInv == IInv /\ Shape /\ TasksOK /\ AfterOK /\ SweepsOwnPoints
             /\ OnlyFailedPurgesLinger

-----------------------------------------------------------------------------
(* What is in a collection belongs to the owner of its namespace *)

\* The points of a collection that an owner holds are stores of that owner.
LEMMA HeldByOwner ==
    ASSUME IInv, NEW owner \in Owner, NEW n \in PhysicalName, owns(owner, n),
           Present(db, n), NEW id \in Stored(db, n)
    PROVE  id \in Request /\ Stores(id) /\ call[id].owner = owner
<1>1. id \in Id /\ HoldsPoint(n, id)
  BY SelectedAreHeld DEF IInv
<1>2. id \in Request /\ Stores(id) /\ Name(id) = n
  BY <1>1 DEF IInv, StoredForItsOwner, Id
<1>3. call[id] \in Call
  BY <1>2 DEF IInv, CallsOK, Stores, Kind
<1>4. call[id].owner \in Owner
  BY <1>3, CallFacts
<1>5. namespace(call[id].owner) = namespace(owner)
  BY <1>2 DEF Name, physical_name, owns
<1> QED
  BY <1>2, <1>4, <1>5 DEF namespace, Owner

\* What the owner's filter selects in a collection of the owner's is all of it.
LEMMA AllSelected ==
    ASSUME IInv, NEW s \in Purge, NEW n \in PhysicalName,
           owns(PurgeOwner[s], n), Present(db, n)
    PROVE  Selected(db, n, scope(s)) = Stored(db, n)
<1>1. ASSUME NEW id \in Stored(db, n)
      PROVE  id \in Selected(db, n, scope(s))
  <2>1. id \in Id /\ HoldsPoint(n, id)
    BY SelectedAreHeld DEF IInv
  <2>2. call[id].owner = PurgeOwner[s]
    BY HeldByOwner, PurgeAssumption
  <2>3. db[n].points[id].payload.user_id = PurgeOwner[s].username
    BY <2>1, <2>2 DEF IInv, StoredForItsOwner
  <2> QED
    BY <2>3, Matching DEF Selected, scope
<1> QED
  BY <1>1 DEF Selected

\* A purge's removal keeps the invariant of Repository, and takes points of its
\* owner alone.
LEMMA SweepsEffect ==
    ASSUME IInv, Apart, NEW s \in Purge, NEW n \in PhysicalName,
           owns(PurgeOwner[s], n), Sweeps(s, n), Present(db, n) \/ DropEmpty,
           swept \in [Purge -> SUBSET Id]
    PROVE  /\ IInv'
           /\ swept' \in [Purge -> SUBSET Id]
           /\ \A t \in Purge \ {s} : swept'[t] = swept[t]
           /\ \A id \in swept'[s] \ swept[s] :
                Stores(id) /\ call[id].owner = PurgeOwner[s]
<1> USE DEF IInv
<1> DEFINE taken == IF ~Present(db, n) THEN {}
                    ELSE IF DropEmpty THEN Stored(db, n)
                    ELSE Selected(db, n, scope(s))
<1>1. swept' = [swept EXCEPT ![s] = @ \union taken]
  BY DEF Sweeps
<1>2. PurgeOwner[s] \in Owner
  BY PurgeAssumption
<1>3. taken \subseteq Id /\ (Present(db, n) => taken \subseteq Stored(db, n))
  BY SelectedAreHeld
<1>4. \A id \in taken : Stores(id) /\ call[id].owner = PurgeOwner[s]
  <2>1. taken # {} => Present(db, n)
    OBVIOUS
  <2> HIDE DEF taken
  <2> QED
    BY <1>2, <1>3, <2>1, HeldByOwner
<1> HIDE DEF taken
<1>5. /\ swept' \in [Purge -> SUBSET Id]
      /\ \A t \in Purge \ {s} : swept'[t] = swept[t]
      /\ swept'[s] \ swept[s] \subseteq taken
  BY <1>1, <1>3
<1>6. /\ db' \in [PhysicalName -> StoredCollection \union {Absent}]
      /\ \A name \in PhysicalName : db'[name] # Absent =>
            /\ db[name] # Absent /\ db'[name].dim = db[name].dim
            /\ \A id \in Id : \/ db'[name].points[id] = None
                              \/ db'[name].points[id] = db[name].points[id]
  <2>1. CASE DropEmpty
    <3>1. db' = [db EXCEPT ![n] = Absent]
      BY <2>1 DEF Sweeps, delete_collection
    <3> QED
      BY <3>1 DEF TypeOK
  <2>2. CASE ~DropEmpty
    <3>1. Present(db, n) /\ db' = delete(db, n, scope(s))
      BY <2>2 DEF Sweeps
    <3> QED
      BY <3>1, DeleteShrinks
  <2> QED
    BY <2>1, <2>2
<1>7. Persist
  BY DEF Persist, Apart
<1>8. WidthsOK' /\ StoredForItsOwner' /\ UniformWidth'
  BY <1>6, <1>7, DatabaseShrinks
<1>9. /\ TypeOK' /\ CallsOK' /\ UpdatesOK' /\ AnswersStayInTenancy'
      /\ MismatchIsOwnChoice'
  BY <1>6 DEF Apart, TypeOK, CallsOK, UpdatesOK, AnswersStayInTenancy,
     MismatchIsOwnChoice, Calling, UpdateReady, Stores, Kind, Name
<1> QED
  BY <1>4, <1>5, <1>8, <1>9

\* A purge's step that leaves the database alone keeps the invariant too.
LEMMA ApartKeeps ==
    ASSUME IInv, Apart, UNCHANGED db
    PROVE  IInv'
<1>1. vars' = vars
  BY DEF Apart, vars
<1> QED
  BY <1>1, NextInv

-----------------------------------------------------------------------------
(* Initial states and steps *)

\* The initial state satisfies the invariant.
LEMMA PurgeInitInv == PurgeInit => PInv
<1> SUFFICES ASSUME PurgeInit PROVE PInv
  OBVIOUS
<1>1. IInv
  BY InitInv DEF PurgeInit
<1>2. Shape /\ TasksOK /\ AfterOK /\ SweepsOwnPoints /\ OnlyFailedPurgesLinger
  BY DEF PurgeInit, Shape, TaskLabel, TasksOK, AfterOK, SweepsOwnPoints,
     OnlyFailedPurgesLinger
<1> QED
  BY <1>1, <1>2 DEF PInv

\* What is said of the purges survives a step of a request.
LEMMA RequestKeeps ==
    ASSUME PInv, NEW r \in Request, \/ Arrives(r)
                                    \/ (Step(r) \/ Fail(r)) /\ UNCHANGED purge_vars
    PROVE  PInv'
<1> USE DEF PInv
<1>1. IInv'
  BY NextInv DEF Next, Arrives
<1>2. UNCHANGED <<at, task, answer, swept>>
  BY DEF Arrives, purge_vars
<1>3. /\ after' \in [Request -> SUBSET Purge] /\ \A q \in Request \ {r} : after'[q] = after[q]
      /\ \A s \in after'[r] : at[s] = "done"
      /\ pc[r] # "idle" => after'[r] = after[r]
  BY DEF Arrives, Receive, purge_vars, Shape, AfterOK
<1>4. \A q \in Request : pc[q] # "idle" => pc'[q] # "idle" /\ call'[q] = call[q]
  <2>1. CASE Arrives(r)
    BY <2>1 DEF Arrives, Receive, Answer, Goto, IInv, TypeOK
  <2>2. CASE Step(r) \/ Fail(r)
    BY <2>2, OneMoves, ArrivedStays
  <2> QED
    BY <2>1, <2>2
<1>5. Shape' /\ TasksOK' /\ AfterOK'
  BY <1>2, <1>3 DEF Shape, TasksOK, AfterOK
<1>6. SweepsOwnPoints'
  BY <1>2, <1>4 DEF SweepsOwnPoints, Stores, Kind, Shape, Id
<1>7. OnlyFailedPurgesLinger'
  BY <1>2, <1>3 DEF OnlyFailedPurgesLinger, SweepsOwnPoints, Stores, Kind, Shape, Id
<1> QED
  BY <1>1, <1>5, <1>6, <1>7

\* A task that moves on keeps the types of all of them.
LEMMA BecomesTyped ==
    ASSUME task \in [Purge -> [PhysicalName -> TaskLabel]], NEW s \in Purge,
           NEW n \in PhysicalName, NEW label \in TaskLabel, Becomes(s, n, label)
    PROVE  /\ task' \in [Purge -> [PhysicalName -> TaskLabel]]
           /\ task'[s][n] = label
           /\ \A t \in Purge, m \in PhysicalName :
                t # s \/ m # n => task'[t][m] = task[t][m]
BY DEF Becomes

\* A purge's step that removes nothing.
LEMMA PurgeMoves ==
    ASSUME PInv, NEW s \in Purge, Apart, UNCHANGED <<db, swept>>,
           \/ purge_all(s) \/ owned_collections(s) \/ gather(s) \/ PodDown(s)
           \/ \E n \in PhysicalName :
                count_owned(s, n) \/ remove_owned(s, n) \/ TaskFails(s, n)
    PROVE  PInv'
<1> USE DEF PInv
<1>1. IInv'
  BY ApartKeeps
<1>2. UNCHANGED after
  BY DEF Apart
<1>3. Shape' /\ \A t \in Purge :
            at[t] = "done" => at'[t] = "done" /\ answer'[t] = answer[t]
  <2>1. CASE purge_all(s)
    BY <1>2, <2>1 DEF purge_all, AnswerPurge, Shape
  <2>2. CASE owned_collections(s)
    <3>1. CASE owned(s) = {}
      BY <1>2, <2>2, <3>1 DEF owned_collections, AnswerPurge, Shape
    <3>2. CASE owned(s) # {}
      <4> DEFINE fresh == [n \in PhysicalName |->
                            IF n \in owned(s) THEN "waiting" ELSE "none"]
      <4>1. fresh \in [PhysicalName -> TaskLabel]
        BY DEF TaskLabel
      <4> HIDE DEF fresh
      <4>2. task' = [task EXCEPT ![s] = fresh] /\ at' = [at EXCEPT ![s] = "gather"]
            /\ UNCHANGED answer /\ at[s] = "list"
        BY <2>2, <3>2 DEF owned_collections, fresh
      <4> QED
        BY <1>2, <4>1, <4>2 DEF Shape
    <3> QED
      BY <3>1, <3>2
  <2>3. CASE gather(s)
    BY <1>2, <2>3 DEF gather, AnswerPurge, Shape
  <2>4. CASE \E n \in PhysicalName :
                count_owned(s, n) \/ remove_owned(s, n) \/ TaskFails(s, n)
    BY <1>2, <2>4, BecomesTyped DEF count_owned, remove_owned, TaskFails, Shape,
       TaskLabel
  <2>5. CASE PodDown(s)
    BY <1>2, <2>5 DEF PodDown, AnswerPurge, Shape, TaskLabel
  <2> QED
    BY <2>1, <2>2, <2>3, <2>4, <2>5
<1>4. TasksOK'
  <2>1. CASE purge_all(s)
    BY <2>1 DEF purge_all, AnswerPurge, TasksOK, Shape
  <2>2. CASE owned_collections(s)
    <3>1. CASE owned(s) = {}
      BY <2>2, <3>1 DEF owned_collections, AnswerPurge, TasksOK, Shape
    <3>2. CASE owned(s) # {}
      <4>1. /\ at[s] = "list" /\ at' = [at EXCEPT ![s] = "gather"]
            /\ UNCHANGED answer
            /\ \A n \in PhysicalName : task'[s][n] # "none" => n \in owned(s)
            /\ \A t \in Purge \ {s} : task'[t] = task[t]
        BY <2>2, <3>2 DEF owned_collections, Shape
      <4> QED
        BY <4>1 DEF owned, TasksOK, Shape
    <3> QED
      BY <3>1, <3>2
  <2>3. CASE gather(s)
    BY <2>3 DEF gather, AnswerPurge, PurgeStatus, Tasks, TasksOK, Shape, TaskLabel
  <2>4. CASE \E n \in PhysicalName :
                count_owned(s, n) \/ remove_owned(s, n) \/ TaskFails(s, n)
    <3>1. PICK n \in PhysicalName :
            count_owned(s, n) \/ remove_owned(s, n) \/ TaskFails(s, n)
      BY <2>4
    <3>2. /\ task[s][n] # "none" /\ UNCHANGED <<at, answer>>
          /\ \/ Becomes(s, n, "raised") \/ Becomes(s, n, "ended")
             \/ Becomes(s, n, "remove") /\ task[s][n] = "waiting"
             \/ Becomes(s, n, "late") /\ task[s][n] = "remove"
      BY <3>1 DEF count_owned, remove_owned, TaskFails, Enters
    <3>3. PICK label \in TaskLabel :
            /\ Becomes(s, n, label)
            /\ \/ label \in {"raised", "ended"}
               \/ task[s][n] \in {"waiting", "remove"}
      BY <3>2 DEF TaskLabel
    <3>4. /\ task'[s][n] = label
          /\ \A t \in Purge, m \in PhysicalName :
                t # s \/ m # n => task'[t][m] = task[t][m]
      BY <3>3, BecomesTyped DEF Shape
    <3> QED
      BY <3>2, <3>3, <3>4 DEF TasksOK
  <2>5. CASE PodDown(s)
    BY <2>5 DEF PodDown, AnswerPurge, PurgeStatus, TasksOK, Shape
  <2> QED
    BY <2>1, <2>2, <2>3, <2>4, <2>5
<1>5. AfterOK'
  BY <1>2, <1>3 DEF AfterOK, Shape
<1>6. SweepsOwnPoints'
  BY DEF SweepsOwnPoints, Apart, Stores, Kind
<1>7. OnlyFailedPurgesLinger'
  BY <1>2, <1>3 DEF OnlyFailedPurgesLinger, AfterOK, Shape, Id
<1> QED
  BY <1>1, <1>3, <1>4, <1>5, <1>6, <1>7

\* A purge's step that removes points.
LEMMA PurgeSweeps ==
    ASSUME PInv, NEW s \in Purge, NEW n \in PhysicalName, Apart, Sweeps(s, n),
           \/ task[s][n] = "remove" /\ Becomes(s, n, "ended")
           \/ task[s][n] = "late" /\ Becomes(s, n, "raised"),
           Present(db, n) \/ DropEmpty, UNCHANGED <<at, answer>>
    PROVE  PInv'
<1> USE DEF PInv
<1>1. owns(PurgeOwner[s], n) /\ (at[s] = "done" => answer[s].status = 500)
  BY DEF TasksOK
<1>2. /\ IInv' /\ swept' \in [Purge -> SUBSET Id]
      /\ \A t \in Purge \ {s} : swept'[t] = swept[t]
      /\ \A id \in swept'[s] \ swept[s] :
            Stores(id) /\ call[id].owner = PurgeOwner[s]
  BY <1>1, SweepsEffect DEF Shape
<1>3. UNCHANGED <<pc, call, after>>
  BY DEF Apart
<1>4. PICK label \in {"ended", "raised"} : Becomes(s, n, label)
  OBVIOUS
<1>5. /\ task' \in [Purge -> [PhysicalName -> TaskLabel]]
      /\ task'[s][n] = label
      /\ \A t \in Purge, m \in PhysicalName :
            t # s \/ m # n => task'[t][m] = task[t][m]
  <2>1. label \in TaskLabel
    BY DEF TaskLabel
  <2> QED
    BY <1>4, <2>1, BecomesTyped DEF Shape
<1>6. task[s][n] # "none"
  OBVIOUS
<1>7. Shape' /\ AfterOK'
  BY <1>2, <1>3, <1>5 DEF Shape, AfterOK
<1>8. TasksOK'
  BY <1>5, <1>6 DEF TasksOK
<1>9. SweepsOwnPoints'
  BY <1>2, <1>3 DEF SweepsOwnPoints, Stores, Kind
<1>10. OnlyFailedPurgesLinger'
  BY <1>1, <1>2, <1>3 DEF OnlyFailedPurgesLinger, AfterOK, Shape, Id
<1> QED
  BY <1>2, <1>7, <1>8, <1>9, <1>10

\* Every step keeps the invariant.
LEMMA PurgeNextInv == PInv /\ [PurgeNext]_all_vars => PInv'
<1> SUFFICES ASSUME PInv, [PurgeNext]_all_vars PROVE PInv'
  OBVIOUS
<1>1. CASE UNCHANGED all_vars
  <2>1. Apart /\ UNCHANGED db /\ UNCHANGED vars /\ UNCHANGED purge_vars
    BY <1>1 DEF all_vars, vars, purge_vars, Apart
  <2>2. IInv'
    BY <2>1, ApartKeeps DEF PInv
  <2> QED
    BY <2>1, <2>2 DEF PInv, purge_vars, vars, Shape, TasksOK, AfterOK,
       SweepsOwnPoints, OnlyFailedPurgesLinger, Stores, Kind
<1>2. ASSUME NEW r \in Request,
             Arrives(r) \/ ((Step(r) \/ Fail(r)) /\ UNCHANGED purge_vars)
      PROVE  PInv'
  BY <1>2, RequestKeeps
<1>3. ASSUME NEW s \in Purge, purge_all(s) \/ owned_collections(s) \/ gather(s)
                              \/ PodDown(s)
      PROVE  PInv'
  <2>1. Apart /\ UNCHANGED <<db, swept>>
    BY <1>3 DEF purge_all, owned_collections, gather, PodDown
  <2> QED
    BY <1>3, <2>1, PurgeMoves
<1>4. ASSUME NEW s \in Purge, NEW n \in PhysicalName,
             count_owned(s, n) \/ remove_owned(s, n) \/ TaskFails(s, n)
             \/ LateRemoval(s, n)
      PROVE  PInv'
  <2>1. Apart
    BY <1>4 DEF count_owned, remove_owned, TaskFails, LateRemoval
  <2>2. CASE UNCHANGED <<db, swept>> /\ ~LateRemoval(s, n)
    BY <1>4, <2>1, <2>2, PurgeMoves
  <2>3. CASE LateRemoval(s, n)
    BY <2>1, <2>3, PurgeSweeps DEF LateRemoval
  <2>4. CASE remove_owned(s, n) /\ (Present(db, n) \/ DropEmpty)
    BY <2>1, <2>4, PurgeSweeps DEF remove_owned
  <2> QED
    BY <1>4, <2>2, <2>3, <2>4 DEF count_owned, remove_owned, TaskFails
<1> QED
  BY <1>1, <1>2, <1>3, <1>4 DEF PurgeNext, PurgeStep, PurgeFault, PurgeQuiet

\* Every reachable state satisfies the invariant.
THEOREM PurgeInvariance == PurgeSpec => []PInv
BY PurgeInitInv, PurgeNextInv, PTL DEF PurgeSpec

-----------------------------------------------------------------------------
(* What a purge that succeeds leaves behind *)

\* The point was last written by a request answered before the purge arrived.
Old(s, n, id) ==
    /\ HoldsPoint(n, id)
    /\ db[n].points[id].payload.updated_at \in knows[s]

\* The purge has listed the collections, and no task of it has failed it yet.
Listed(s) == at[s] = "gather" \/ answer[s].status = 200

\* Whoever a purge knows was answered; a purge answered with a 200 has no task
\* left that has not ended.
Succeeded ==
    \A s \in Purge :
        /\ knows[s] \subseteq {r \in Request : pc[r] = "done"}
        /\ answer[s].status = 200 =>
            /\ at[s] = "done"
            /\ \A n \in PhysicalName : task[s][n] \in {"none", "ended"}

\* Nothing old is left where a listed purge has no task, or one that has ended.
Clean ==
    \A s \in Purge : Listed(s) =>
        \A n \in PhysicalName :
            owns(PurgeOwner[s], n) /\ task[s][n] \in {"none", "ended"} =>
                \A id \in Id : ~Old(s, n, id)

CInv == PInv /\ Succeeded /\ Clean

\* A step after which no point is old that was not old before.
NoneAges(s) ==
    \A n \in PhysicalName, id \in Id : Old(s, n, id)' => Old(s, n, id)

\* The purge's own tasks and answers stay as they are.
StandsStill(s) ==
    at'[s] = at[s] /\ task'[s] = task[s] /\ answer'[s] = answer[s]

\* A request that writes a point dates it by itself, and no purge knows it yet.
LEMMA RequestAgesNone ==
    ASSUME PInv, Succeeded, UNCHANGED knows,
           NEW q \in Request, Receive(q) \/ Step(q) \/ Fail(q), NEW s \in Purge
    PROVE  /\ NoneAges(s)
           /\ knows[s] \subseteq {r \in Request : pc'[r] = "done"}
<1>1. MoveOf(q)
  BY OneMoves DEF PInv
<1>2. q \notin knows[s]
  BY <1>1 DEF Succeeded, MoveOf
<1>3. ASSUME NEW n \in PhysicalName, NEW id \in Id, Old(s, n, id)'
      PROVE  Old(s, n, id)
  <2>1. /\ PointAt(db', n, id) # None
        /\ PointAt(db', n, id) = db'[n].points[id]
        /\ db'[n].points[id].payload.updated_at \in knows[s]
    BY <1>3 DEF Old, HoldsPoint, PointAt
  <2>2. PointAt(db', n, id) = PointAt(db, n, id)
    BY <1>2, <2>1, BaseHolds, PointSource DEF PInv
  <2> QED
    BY <2>1, <2>2 DEF Old, HoldsPoint, PointAt
<1> QED
  BY <1>1, <1>2, <1>3 DEF NoneAges, Succeeded, MoveOf

\* A removal leaves a point of its collection where it is, or takes it; of the
\* owner's points it takes all.
LEMMA SweepsAll ==
    ASSUME PInv, NEW s \in Purge, NEW n \in PhysicalName,
           owns(PurgeOwner[s], n), Sweeps(s, n), Present(db, n) \/ DropEmpty
    PROVE  /\ \A m \in PhysicalName, id \in Id :
                PointAt(db', m, id) \in {None, PointAt(db, m, id)}
           /\ \A id \in Id : PointAt(db', n, id) = None
<1> USE DEF PointAt
<1>1. CASE DropEmpty
  <2>1. db' = [db EXCEPT ![n] = Absent]
    BY <1>1 DEF Sweeps, delete_collection
  <2> QED
    BY <2>1 DEF PInv, IInv, TypeOK
<1>2. CASE ~DropEmpty
  <2>1. Present(db, n) /\ db' = delete(db, n, scope(s))
    BY <1>2 DEF Sweeps
  <2>2. Selected(db, n, scope(s)) = Stored(db, n)
    BY <2>1, AllSelected DEF PInv
  <2>3. \A id \in Id : db[n].points[id] # None => id \in Stored(db, n)
    BY <2>1 DEF Stored, Present, PInv, IInv, TypeOK, StoredCollection
  <2> QED
    BY <2>1, <2>2, <2>3, DeleteShrinks DEF PInv, IInv, Present
<1> QED
  BY <1>1, <1>2

\* Points that are gone or unchanged are not old if they were not.
LEMMA ShrinkAgesNone ==
    ASSUME NEW s \in Purge, knows'[s] = knows[s],
           \A m \in PhysicalName, id \in Id :
                PointAt(db', m, id) \in {None, PointAt(db, m, id)}
    PROVE  NoneAges(s)
BY DEF NoneAges, Old, HoldsPoint, PointAt

\* A purge that stands still stays clean when no point turns old.
LEMMA StillClean ==
    ASSUME Clean, NEW s \in Purge, NoneAges(s), StandsStill(s)
    PROVE  Listed(s)' =>
                \A n \in PhysicalName :
                    owns(PurgeOwner[s], n) /\ task'[s][n] \in {"none", "ended"} =>
                        \A id \in Id : ~Old(s, n, id)'
BY DEF Clean, NoneAges, StandsStill, Listed

\* A request leaves every purge as it is, and ages no point of its owner's.
LEMMA RequestKeepsClean ==
    ASSUME CInv, NEW r \in Request, Receive(r) \/ Step(r) \/ Fail(r),
           UNCHANGED <<at, task, answer, knows>>
    PROVE  Succeeded' /\ Clean'
<1> USE DEF CInv
<1>1. \A s \in Purge : StandsStill(s) /\ NoneAges(s)
  BY RequestAgesNone DEF StandsStill
<1>2. Succeeded'
  BY RequestAgesNone DEF Succeeded
<1>3. Clean'
  BY <1>1, StillClean DEF Clean
<1> QED
  BY <1>2, <1>3

\* The other purges do not notice a purge's step that ages no point.
LEMMA OthersKeepClean ==
    ASSUME CInv, NEW s \in Purge, Apart, \A t \in Purge : t = s \/ StandsStill(t),
           \A t \in Purge : knows'[t] = knows[t] \/ (t = s /\ ~Listed(s)'),
           \A m \in PhysicalName, id \in Id :
                PointAt(db', m, id) \in {None, PointAt(db, m, id)},
           knows'[s] \subseteq {r \in Request : pc[r] = "done"},
           answer'[s].status = 200 =>
                /\ at'[s] = "done"
                /\ \A n \in PhysicalName : task'[s][n] \in {"none", "ended"},
           Listed(s)' =>
                \A n \in PhysicalName :
                    owns(PurgeOwner[s], n) /\ task'[s][n] \in {"none", "ended"} =>
                        \A id \in Id : ~Old(s, n, id)'
    PROVE  Succeeded' /\ Clean'
<1> USE DEF CInv
<1>1. \A t \in Purge : t # s => knows'[t] = knows[t] /\ NoneAges(t) /\ StandsStill(t)
  BY ShrinkAgesNone
<1>2. Succeeded'
  BY <1>1 DEF Succeeded, StandsStill, Apart
<1>3. Clean'
  BY <1>1, StillClean DEF Clean
<1> QED
  BY <1>2, <1>3

\* A task that moves on without having removed anything leaves its purge clean.
LEMMA TaskKeepsClean ==
    ASSUME CInv, NEW s \in Purge, NEW n \in PhysicalName, Apart,
           NEW label \in {"remove", "raised", "late"}, Becomes(s, n, label),
           task[s][n] \in {"waiting", "remove", "late"},
           UNCHANGED <<db, at, answer, knows>>
    PROVE  Succeeded' /\ Clean'
<1> USE DEF CInv
<1>1. label \in TaskLabel
  BY DEF TaskLabel
<1>2. /\ task'[s][n] = label
      /\ \A t \in Purge, m \in PhysicalName :
            t # s \/ m # n => task'[t][m] = task[t][m]
      /\ \A t \in Purge : t # s => task'[t] = task[t]
  BY <1>1, BecomesTyped DEF PInv, Shape, Becomes
<1>3. \A t \in Purge : t = s \/ StandsStill(t)
  BY <1>2 DEF StandsStill
<1>4. answer[s].status # 200
  BY DEF Succeeded
<1>5. Listed(s)' =>
        \A m \in PhysicalName :
            owns(PurgeOwner[s], m) /\ task'[s][m] \in {"none", "ended"} =>
                \A id \in Id : ~Old(s, m, id)'
  BY <1>2, <1>4 DEF Clean, Listed, Old, HoldsPoint
<1>6. knows'[s] \subseteq {r \in Request : pc[r] = "done"}
  BY DEF Succeeded
<1> QED
  BY <1>3, <1>4, <1>5, <1>6, OthersKeepClean DEF Listed, Old, HoldsPoint

\* A removal leaves its purge clean: it took all of its collection.
LEMMA SweepKeepsClean ==
    ASSUME CInv, NEW s \in Purge, NEW n \in PhysicalName, Apart, Sweeps(s, n),
           task[s][n] \in {"remove", "late"}, Present(db, n) \/ DropEmpty,
           NEW label \in {"ended", "raised"}, Becomes(s, n, label),
           UNCHANGED <<at, answer, knows>>
    PROVE  Succeeded' /\ Clean'
<1> USE DEF CInv
<1>1. label \in TaskLabel
  BY DEF TaskLabel
<1>2. /\ task'[s][n] = label
      /\ \A t \in Purge, m \in PhysicalName :
            t # s \/ m # n => task'[t][m] = task[t][m]
      /\ \A t \in Purge : t # s => task'[t] = task[t]
  BY <1>1, BecomesTyped DEF PInv, Shape, Becomes
<1>3. \A t \in Purge : t = s \/ StandsStill(t)
  BY <1>2 DEF StandsStill
<1>4. answer[s].status # 200
  BY DEF Succeeded
<1>5. /\ \A m \in PhysicalName, id \in Id :
            PointAt(db', m, id) \in {None, PointAt(db, m, id)}
      /\ \A id \in Id : PointAt(db', n, id) = None
  <2>1. owns(PurgeOwner[s], n)
    BY DEF PInv, TasksOK
  <2> QED
    BY <2>1, SweepsAll
<1>6. NoneAges(s)
  BY <1>5, ShrinkAgesNone
<1>7. Listed(s)' =>
        \A m \in PhysicalName :
            owns(PurgeOwner[s], m) /\ task'[s][m] \in {"none", "ended"} =>
                \A id \in Id : ~Old(s, m, id)'
  <2>1. \A id \in Id : ~Old(s, n, id)'
    BY <1>5 DEF Old, HoldsPoint
  <2> QED
    BY <1>2, <1>4, <1>6, <2>1 DEF Clean, Listed, NoneAges
<1>8. knows'[s] \subseteq {r \in Request : pc[r] = "done"}
  BY DEF Succeeded
<1> QED
  BY <1>3, <1>4, <1>5, <1>7, <1>8, OthersKeepClean DEF Listed, Old, HoldsPoint

\* The steps of a purge itself.
LEMMA PurgeKeepsClean ==
    ASSUME CInv, NEW s \in Purge,
           purge_all(s) \/ owned_collections(s) \/ gather(s) \/ PodDown(s)
    PROVE  Succeeded' /\ Clean'
<1> USE DEF CInv
<1>1. Apart /\ UNCHANGED db
  BY DEF purge_all, owned_collections, gather, PodDown
<1>2. \A t \in Purge : t = s \/ StandsStill(t)
  BY DEF purge_all, owned_collections, gather, PodDown, AnswerPurge, StandsStill,
     PInv, Shape
<1>3. \A m \in PhysicalName, id \in Id :
        PointAt(db', m, id) \in {None, PointAt(db, m, id)}
  BY <1>1
<1>4. at[s] # "done" /\ answer[s].status # 200
  BY DEF purge_all, owned_collections, gather, PodDown, Succeeded
<1>5. CASE purge_all(s)
  <2>1. answer'[s].status # 200 /\ at'[s] # "gather"
    BY <1>4, <1>5 DEF purge_all, AnswerPurge, PurgeStatus, PInv, Shape
  <2>2. /\ knows'[s] \subseteq {r \in Request : pc[r] = "done"}
        /\ \A t \in Purge : t # s => knows'[t] = knows[t]
    BY <1>5 DEF purge_all, Succeeded
  <2> QED
    BY <1>1, <1>2, <1>3, <2>1, <2>2, OthersKeepClean DEF Listed
<1>6. CASE owned_collections(s)
  <2>1. \A n \in PhysicalName : task[s][n] = "none"
    BY <1>6 DEF owned_collections, PInv, TasksOK
  <2>2. \A n \in PhysicalName :
            /\ task'[s][n] \in {"none", "ended"} => task'[s][n] = "none"
            /\ owns(PurgeOwner[s], n) /\ task'[s][n] = "none" => ~Present(db, n)
    <3>1. DOMAIN db = PhysicalName
      BY DEF PInv, IInv, TypeOK
    <3>2. CASE owned(s) = {}
      BY <1>6, <2>1, <3>1, <3>2 DEF owned_collections, owned, get_collections
    <3>3. CASE owned(s) # {}
      <4> DEFINE fresh == [n \in PhysicalName |->
                            IF n \in owned(s) THEN "waiting" ELSE "none"]
      <4>1. task' = [task EXCEPT ![s] = fresh]
        BY <1>6, <3>3 DEF owned_collections
      <4> HIDE DEF fresh
      <4>2. task'[s] = fresh
        BY <4>1 DEF PInv, Shape
      <4> QED
        BY <3>1, <4>2 DEF fresh, owned, get_collections
    <3> QED
      BY <3>2, <3>3
  <2>3. \A n \in PhysicalName :
            owns(PurgeOwner[s], n) /\ task'[s][n] \in {"none", "ended"} =>
                \A id \in Id : ~Old(s, n, id)'
    BY <1>1, <2>2 DEF Old, HoldsPoint, PointAt, Present
  <2>4. answer'[s].status = 200 =>
            /\ at'[s] = "done"
            /\ \A n \in PhysicalName : task'[s][n] \in {"none", "ended"}
    BY <1>4, <1>6, <2>1 DEF owned_collections, AnswerPurge, PInv, Shape
  <2>5. UNCHANGED knows /\ knows[s] \subseteq {r \in Request : pc[r] = "done"}
    BY <1>6 DEF owned_collections, Succeeded
  <2>6. \A t \in Purge : knows'[t] = knows[t] \/ (t = s /\ ~Listed(s)')
    BY <2>5
  <2>7. knows'[s] \subseteq {r \in Request : pc[r] = "done"}
    BY <2>5
  <2> QED
    BY <1>1, <1>2, <1>3, <2>3, <2>4, <2>6, <2>7, OthersKeepClean
    DEF Listed, Old, HoldsPoint
<1>7. CASE gather(s)
  <2>1. UNCHANGED <<task, knows>> /\ at[s] = "gather"
    BY <1>7 DEF gather
  <2>2. answer'[s].status = 200 =>
            /\ at'[s] = "done"
            /\ \A n \in PhysicalName : task'[s][n] \in {"none", "ended"}
    BY <1>7 DEF gather, AnswerPurge, PurgeStatus, Tasks, PInv, Shape, TaskLabel
  <2>3. \A n \in PhysicalName :
            owns(PurgeOwner[s], n) /\ task'[s][n] \in {"none", "ended"} =>
                \A id \in Id : ~Old(s, n, id)'
    BY <1>1, <2>1 DEF Clean, Listed, Old, HoldsPoint
  <2>4. knows'[s] \subseteq {r \in Request : pc[r] = "done"}
    BY <2>1 DEF Succeeded
  <2>5. \A t \in Purge : knows'[t] = knows[t] \/ (t = s /\ ~Listed(s)')
    BY <2>1
  <2> QED
    BY <1>1, <1>2, <1>3, <2>2, <2>3, <2>4, <2>5, OthersKeepClean
    DEF Listed, Old, HoldsPoint
<1>8. CASE PodDown(s)
  <2>1. answer'[s].status # 200 /\ at'[s] = "done" /\ UNCHANGED knows
    BY <1>8 DEF PodDown, AnswerPurge, PurgeStatus, PInv, Shape
  <2>2. knows'[s] \subseteq {r \in Request : pc[r] = "done"}
    BY <2>1 DEF Succeeded
  <2> QED
    BY <1>1, <1>2, <1>3, <2>1, <2>2, OthersKeepClean DEF Listed
<1> QED
  BY <1>5, <1>6, <1>7, <1>8

\* Every step keeps the invariant.
LEMMA CleanNextInv == CInv /\ [PurgeNext]_all_vars => CInv'
<1> SUFFICES ASSUME CInv, [PurgeNext]_all_vars PROVE Succeeded' /\ Clean'
  BY PurgeNextInv DEF CInv
<1>1. CASE UNCHANGED all_vars
  BY <1>1 DEF all_vars, vars, purge_vars, CInv, Succeeded, Clean, Listed, Old,
     HoldsPoint
<1>2. ASSUME NEW r \in Request,
             Arrives(r) \/ ((Step(r) \/ Fail(r)) /\ UNCHANGED purge_vars)
      PROVE  Succeeded' /\ Clean'
  BY <1>2, RequestKeepsClean DEF Arrives, purge_vars
<1>3. ASSUME NEW s \in Purge, NEW n \in PhysicalName,
             count_owned(s, n) \/ remove_owned(s, n) \/ TaskFails(s, n)
             \/ LateRemoval(s, n)
      PROVE  Succeeded' /\ Clean'
  <2>1. Apart /\ UNCHANGED <<at, answer, knows>>
    BY <1>3 DEF count_owned, remove_owned, TaskFails, LateRemoval
  <2>2. CASE count_owned(s, n) \/ TaskFails(s, n)
    BY <2>1, <2>2, TaskKeepsClean DEF count_owned, TaskFails, Enters
  <2>3. CASE remove_owned(s, n)
    BY <2>1, <2>3, TaskKeepsClean, SweepKeepsClean DEF remove_owned
  <2>4. CASE LateRemoval(s, n)
    BY <2>1, <2>4, SweepKeepsClean DEF LateRemoval
  <2> QED
    BY <1>3, <2>2, <2>3, <2>4
<1> QED
  BY <1>1, <1>2, <1>3, PurgeKeepsClean
  DEF PurgeNext, PurgeStep, PurgeFault, PurgeQuiet

-----------------------------------------------------------------------------
(* The properties *)

\* Requests keep everything that RepositoryProofs proves of them when purges run
\* beside them.
THEOREM PurgeKeepsTenancy ==
    PurgeSpec => [](TypeOK /\ StoredForItsOwner /\ AnswersStayInTenancy
                    /\ UniformWidth /\ MismatchIsOwnChoice)
<1>1. PInv => TypeOK /\ StoredForItsOwner /\ AnswersStayInTenancy
              /\ UniformWidth /\ MismatchIsOwnChoice
  BY DEF PInv, IInv
<1> QED
  BY <1>1, PurgeInvariance, PTL

\* A purge removes points of its own owner only.
THEOREM PurgeOwnership == PurgeSpec => []SweepsOwnPoints
<1>1. PInv => SweepsOwnPoints
  BY DEF PInv
<1> QED
  BY <1>1, PurgeInvariance, PTL

\* Only a purge that was answered with a 500 removes what was stored after its
\* answer.
THEOREM PurgeLinger == PurgeSpec => []OnlyFailedPurgesLinger
<1>1. PInv => OnlyFailedPurgesLinger
  BY DEF PInv
<1> QED
  BY <1>1, PurgeInvariance, PTL

\* Once a purge was answered with a 200, nothing that its owner had written
\* before it is there any more, whatever ran beside it.
THEOREM PurgeErases == PurgeSpec => []NothingOldSurvives
<1>1. PurgeInit => Succeeded /\ Clean
  BY DEF PurgeInit, PurgeStatus, Succeeded, Clean, Listed
<1>2. CInv => NothingOldSurvives
  <2> SUFFICES ASSUME CInv, NEW s \in Purge, answer[s].status = 200,
                      NEW n \in get_collections(db), NEW id \in Stored(db, n),
                      call[id].owner = PurgeOwner[s]
               PROVE  db[n].points[id].payload.updated_at \notin knows[s]
    BY DEF NothingOldSurvives
  <2>1. n \in PhysicalName /\ Present(db, n)
    BY DEF get_collections, CInv, PInv, IInv, TypeOK
  <2>2. id \in Id /\ HoldsPoint(n, id)
    BY <2>1, SelectedAreHeld DEF CInv, PInv, IInv
  <2>3. owns(PurgeOwner[s], n)
    BY <2>1, <2>2 DEF CInv, PInv, IInv, StoredForItsOwner, Name, physical_name, owns
  <2> QED
    BY <2>1, <2>2, <2>3 DEF CInv, Succeeded, Clean, Listed, Old
<1> QED
  BY <1>1, <1>2, PurgeInitInv, CleanNextInv, PTL DEF PurgeSpec, CInv

-----------------------------------------------------------------------------
(* What a purge counts is what it removes *)

\* The collections for which a purge has a task.
Begun(s) == {n \in PhysicalName : task[s][n] # "none"}

\* They are finitely many, since a purge lists them once.
FewTasks == \A s \in Purge : IsFiniteSet(Begun(s))

\* Every step keeps them finitely many.
LEMMA FewTasksKept == CInv /\ FewTasks /\ [PurgeNext]_all_vars => FewTasks'
<1> SUFFICES ASSUME CInv, FewTasks, [PurgeNext]_all_vars, NEW s \in Purge
             PROVE  IsFiniteSet(Begun(s)')
  BY DEF FewTasks
<1> USE DEF CInv, PInv, Shape
<1>1. ASSUME \A n \in PhysicalName : task'[s][n] # "none" => task[s][n] # "none"
      PROVE  IsFiniteSet(Begun(s)')
  <2>1. Begun(s)' \subseteq Begun(s)
    BY <1>1 DEF Begun
  <2> QED
    BY <2>1, FS_Subset DEF FewTasks
<1>2. CASE UNCHANGED task
  BY <1>1, <1>2
<1>3. ASSUME NEW t \in Purge, owned_collections(t), ~UNCHANGED task
      PROVE  IsFiniteSet(Begun(s)')
  <2>1. task' = [task EXCEPT ![t] = [n \in PhysicalName |->
                    IF n \in owned(t) THEN "waiting" ELSE "none"]]
    BY <1>3 DEF owned_collections
  <2>2. CASE s = t
    <3>1. Begun(s)' \subseteq get_collections(db)
      BY <2>1, <2>2 DEF Begun, owned
    <3> QED
      BY <3>1, FewCollections, FS_Subset
  <2>3. CASE s # t
    BY <1>1, <2>1, <2>3
  <2> QED
    BY <2>2, <2>3
<1>4. ASSUME NEW t \in Purge, PodDown(t)
      PROVE  IsFiniteSet(Begun(s)')
  BY <1>1, <1>4 DEF PodDown
<1>5. ASSUME NEW t \in Purge, NEW n \in PhysicalName,
             count_owned(t, n) \/ remove_owned(t, n) \/ TaskFails(t, n)
             \/ LateRemoval(t, n)
      PROVE  IsFiniteSet(Begun(s)')
  <2>1. task[t][n] # "none"
    BY <1>5 DEF count_owned, remove_owned, TaskFails, LateRemoval, Enters
  <2>2. PICK label \in TaskLabel : Becomes(t, n, label)
    BY <1>5 DEF count_owned, remove_owned, TaskFails, LateRemoval, TaskLabel
  <2>3. \A u \in Purge, m \in PhysicalName :
            u # t \/ m # n => task'[u][m] = task[u][m]
    BY <2>2, BecomesTyped
  <2> QED
    BY <1>1, <2>1, <2>3
<1> QED
  BY <1>2, <1>3, <1>4, <1>5
  DEF PurgeNext, PurgeStep, PurgeFault, PurgeQuiet, Arrives, purge_all, gather,
      all_vars, purge_vars

\* So are those whose task has ended.
LEMMA TasksFinite ==
    ASSUME FewTasks, NEW s \in Purge
    PROVE  IsFiniteSet(Tasks(s, {"ended"}))
<1>1. Tasks(s, {"ended"}) \subseteq Begun(s)
  BY DEF Tasks, Begun
<1> QED
  BY <1>1, FS_Subset DEF FewTasks

\* As many pairs as the numbers sum up to, and they are finitely many.
LEMMA PairsFinite ==
    ASSUME NEW N, IsFiniteSet(N), NEW c, \A n \in N : c[n] \in Nat
    PROVE  IsFiniteSet(UNION {{n} \X (1..c[n]) : n \in N})
<1> DEFINE pair == [n \in N |-> {n} \X (1..c[n])]
           pairs == {pair[n] : n \in N}
<1>1. pair \in Surjection(N, pairs)
  BY DEF Surjection
<1>2. IsFiniteSet(pairs)
  BY <1>1, FS_Surjection
<1>3. ASSUME NEW n \in N
      PROVE  IsFiniteSet(pair[n])
  <2>1. IsFiniteSet({n})
    BY FS_Singleton
  <2>2. IsFiniteSet(1..c[n])
    BY FS_Interval
  <2> QED
    BY <2>1, <2>2, FS_Product
<1>4. \A T \in pairs : IsFiniteSet(T)
  BY <1>3
<1>5. IsFiniteSet(UNION pairs)
  <2> HIDE DEF pairs
  <2> QED
    BY <1>2, <1>4, FS_UNION
<1>6. pairs = {{n} \X (1..c[n]) : n \in N}
  OBVIOUS
<1> QED
  BY <1>5, <1>6

\* S is cut into a part for each member of N, c holds their sizes, and pairs has a
\* pair for each element of a part.
Cut(S, N, part, c, pairs) ==
    /\ IsFiniteSet(S)
    /\ \A n \in N : part[n] \subseteq S /\ c[n] = Cardinality(part[n])
    /\ \A x \in S : \E n \in N : x \in part[n]
    /\ \A m, n \in N : part[m] \cap part[n] # {} => m = n
    /\ \A p \in pairs : p[1] \in N /\ p[2] \in 1..c[p[1]] /\ p = <<p[1], p[2]>>
    /\ \A n \in N : \A i \in 1..c[n] : <<n, i>> \in pairs

\* A finite set cut into parts has as many elements as their sizes sum up to.
LEMMA SumOfParts ==
    ASSUME NEW S, NEW N, NEW part, NEW c, NEW pairs, Cut(S, N, part, c, pairs)
    PROVE  Cardinality(pairs) = Cardinality(S)
<1> USE DEF Cut
<1> DEFINE number == [n \in N |-> CHOOSE f : f \in Bijection(1..c[n], part[n])]
           g == [p \in pairs |-> number[p[1]][p[2]]]
<1>1. ASSUME NEW n \in N
      PROVE  number[n] \in Bijection(1..c[n], part[n])
  <2>1. IsFiniteSet(part[n])
    BY FS_Subset
  <2>2. ExistsBijection(1..c[n], part[n])
    BY <2>1, FS_CardinalityType
  <2> QED
    BY <2>2 DEF ExistsBijection
<1> HIDE DEF number
<1>2. \A n \in N :
        /\ number[n] \in [1..c[n] -> part[n]]
        /\ \A i, j \in 1..c[n] : number[n][i] = number[n][j] => i = j
  <2> SUFFICES ASSUME NEW n \in N
               PROVE  /\ number[n] \in [1..c[n] -> part[n]]
                      /\ \A i, j \in 1..c[n] : number[n][i] = number[n][j] => i = j
    OBVIOUS
  <2> DEFINE f == number[n]
             I == 1..c[n]
  <2>1. f \in Bijection(I, part[n])
    BY <1>1
  <2> HIDE DEF f, I
  <2>2. f \in [I -> part[n]] /\ \A i, j \in I : f[i] = f[j] => i = j
    BY <2>1 DEF Bijection, Injection, IsInjective
  <2> QED
    BY <2>2 DEF f, I
<1>3. \A p \in pairs : g[p] \in part[p[1]]
  <2> SUFFICES ASSUME NEW p \in pairs PROVE number[p[1]][p[2]] \in part[p[1]]
    OBVIOUS
  <2> DEFINE n == p[1]
  <2>1. n \in N /\ p[2] \in 1..c[n]
    OBVIOUS
  <2> HIDE DEF n
  <2>2. number[n][p[2]] \in part[n]
    BY <1>2, <2>1
  <2> QED
    BY <2>2 DEF n
<1>4. g \in [pairs -> S]
  <2> SUFFICES ASSUME NEW p \in pairs PROVE g[p] \in S
    OBVIOUS
  <2>1. p[1] \in N /\ g[p] \in part[p[1]]
    BY <1>3
  <2> QED
    BY <2>1
<1>5. ASSUME NEW p \in pairs, NEW q \in pairs, g[p] = g[q]
      PROVE  p = q
  <2>1. p[1] = q[1]
    BY <1>3, <1>5
  <2>2. p[2] = q[2]
    BY <1>2, <1>5, <2>1
  <2> QED
    BY <2>1, <2>2
<1>6. ASSUME NEW x \in S
      PROVE  \E p \in pairs : g[p] = x
  <2>1. PICK n \in N : x \in part[n]
    OBVIOUS
  <2>2. PICK i \in 1..c[n] : number[n][i] = x
    BY <1>1, <2>1 DEF Bijection, Surjection
  <2>3. <<n, i>> \in pairs /\ g[<<n, i>>] = x
    BY <2>2
  <2> QED
    BY <2>3
<1>7. g \in Injection(pairs, S) /\ g \in Surjection(pairs, S)
  BY <1>4, <1>5, <1>6 DEF Injection, IsInjective, Surjection
<1> HIDE DEF g
<1> QED
  BY <1>7, FS_Injection

\* The points that a purge took from one collection.
Taken(s, n) == {id \in swept[s] : Name(id) = n}

\* The types that the purge's report needs.
ReportTyped ==
    /\ matched \in [Purge -> [PhysicalName -> Nat]]
    /\ answer \in [Purge -> PurgeReply]
    /\ knows \in [Purge -> SUBSET Request]

\* What was removed was removed by a task that is over.
SweptOnce(s) ==
    \A id \in swept[s] :
        Name(id) \in PhysicalName /\ task[s][Name(id)] \in {"ended", "raised"}

\* With nothing of its owner beside it, a purge that was not answered with a 500
\* has counted what is there, or what was there when the task removed it.
CountsHold(s) ==
    (Alone(s) /\ answer[s].status # 500) =>
        \A n \in PhysicalName :
            /\ task[s][n] = "remove" =>
                    Present(db, n) /\ matched[s][n] = Cardinality(Stored(db, n))
            /\ task[s][n] = "ended" => matched[s][n] = Cardinality(Taken(s, n))

\* A purge that succeeded has reported what its tasks counted; one that is not
\* over has reported no error.
Reported(s) ==
    /\ answer[s].status = 200 => answer[s].deleted = total(s)
    /\ at[s] # "done" => answer[s].status # 500

Right(s) == SweptOnce(s) /\ CountsHold(s) /\ Reported(s)

RInv == CInv /\ ReportTyped /\ FewTasks /\ \A s \in Purge : Right(s)

\* The invariant implies the property: the tasks' parts make up what was removed.
LEMMA ReportsAll == RInv => PurgeReportsAll
<1> SUFFICES ASSUME RInv, NEW s \in Purge, answer[s].status = 200, Alone(s)
             PROVE  answer[s].deleted = Cardinality(swept[s])
  BY DEF PurgeReportsAll
<1> DEFINE N == Tasks(s, {"ended"})
           part == [n \in N |-> Taken(s, n)]
           c == matched[s]
<1>1. N \subseteq PhysicalName /\ \A n \in N : task[s][n] = "ended"
  BY DEF Tasks
<1>2. IsFiniteSet(swept[s])
  BY FS_Subset, RepositoryAssumption DEF RInv, CInv, PInv, Shape, Id
<1>3. \A n \in N : part[n] \subseteq swept[s] /\ c[n] = Cardinality(part[n])
  BY <1>1 DEF RInv, Right, CountsHold, Taken
<1>4. \A id \in swept[s] : \E n \in N : id \in part[n]
  <2> SUFFICES ASSUME NEW id \in swept[s] PROVE \E n \in N : id \in part[n]
    OBVIOUS
  <2>1. Name(id) \in N
    BY DEF RInv, CInv, Right, SweptOnce, Succeeded, Tasks
  <2> QED
    BY <2>1 DEF Taken
<1>5. \A m, n \in N : part[m] \cap part[n] # {} => m = n
  BY DEF Taken
<1>6. /\ \A p \in counts(s) :
            p[1] \in N /\ p[2] \in 1..c[p[1]] /\ p = <<p[1], p[2]>>
      /\ \A n \in N : \A i \in 1..c[n] : <<n, i>> \in counts(s)
  BY DEF counts
<1>7. Cut(swept[s], N, part, c, counts(s))
  BY <1>2, <1>3, <1>4, <1>5, <1>6 DEF Cut
<1> HIDE DEF N, part, c
<1>8. Cardinality(counts(s)) = Cardinality(swept[s])
  BY <1>7, SumOfParts
<1> QED
  BY <1>8 DEF RInv, Right, Reported, total

\* The number a purge reports is a number.
LEMMA TotalIsNat ==
    ASSUME FewTasks, ReportTyped, NEW s \in Purge
    PROVE  total(s) \in Nat
<1> DEFINE N == Tasks(s, {"ended"})
           c == matched[s]
<1>1. IsFiniteSet(N)
  BY TasksFinite
<1>2. \A n \in N : c[n] \in Nat
  BY DEF Tasks, ReportTyped
<1>3. IsFiniteSet(UNION {{n} \X (1..c[n]) : n \in N})
  <2> HIDE DEF N, c
  <2> QED
    BY <1>1, <1>2, PairsFinite
<1>4. IsFiniteSet(counts(s))
  BY <1>3 DEF counts
<1> QED
  BY <1>4, FS_CardinalityType DEF total

\* A purge whose own variables stand still stays right, as long as nobody of its
\* owner turns up and its collections are left alone.
LEMMA StaysRight ==
    ASSUME NEW s \in Purge, Right(s), StandsStill(s), matched'[s] = matched[s],
           swept'[s] = swept[s], \A id \in swept[s] : Name(id)' = Name(id),
           Alone(s)' => Alone(s),
           Alone(s)' /\ answer[s].status # 500 =>
                \A n \in PhysicalName : task[s][n] = "remove" => db'[n] = db[n]
    PROVE  Right(s)'
<1> USE DEF StandsStill
<1>1. SweptOnce(s)'
  BY DEF Right, SweptOnce
<1>2. \A n : Taken(s, n)' = Taken(s, n)
  BY DEF Taken
<1>3. \A n : db'[n] = db[n] =>
            /\ Stored(db', n) = Stored(db, n)
            /\ Present(db', n) = Present(db, n)
  BY DEF Stored, Present
<1>4. CountsHold(s)'
  BY <1>2, <1>3 DEF Right, CountsHold
<1>5. total(s)' = total(s)
  BY DEF total, counts, Tasks
<1>6. Reported(s)'
  BY <1>5 DEF Right, Reported
<1> QED
  BY <1>1, <1>4, <1>6 DEF Right

\* Requests of other owners do not disturb a purge, nor do those that it knows
\* or that arrive after it.
LEMMA RequestKeepsRight ==
    ASSUME RInv, NEW q \in Request, Receive(q) \/ Step(q) \/ Fail(q),
           UNCHANGED <<at, task, matched, answer, swept, knows>>,
           \A r \in Request : pc[r] # "idle" => after'[r] = after[r],
           NEW s \in Purge
    PROVE  Right(s)'
<1> USE DEF RInv, CInv, PInv
<1>1. MoveOf(q)
  BY OneMoves
<1>2. \A r \in Request : pc[r] # "idle" =>
        pc'[r] # "idle" /\ call'[r] = call[r] /\ Name(r)' = Name(r)
  BY <1>1, ArrivedStays
<1>3. \A id \in swept[s] : Name(id)' = Name(id)
  BY <1>2 DEF SweepsOwnPoints, Stores, Kind, Shape, Id
<1>4. Alone(s)' => Alone(s)
  <2> SUFFICES ASSUME Alone(s)', NEW r \in Request, pc[r] # "idle"
               PROVE  \/ call[r].owner # PurgeOwner[s]
                      \/ r \in knows[s] \/ s \in after[r]
    BY DEF Alone
  <2> QED
    BY <1>2 DEF Alone
<1>5. ASSUME Alone(s), answer[s].status # 500, NEW n \in PhysicalName,
             task[s][n] = "remove", db'[n] # db[n]
      PROVE  FALSE
  <2>1. Calling(q) /\ n = Name(q)
    BY <1>5, BaseHolds, OwnCollection
  <2>2. pc[q] \notin {"idle", "done"} /\ call[q] \in Call
    BY <2>1, AtLabel DEF Calling, CallsOK, IInv
  <2>3. owns(PurgeOwner[s], n) /\ at[s] # "done"
    BY <1>5 DEF TasksOK
  <2>4. call[q].owner = PurgeOwner[s]
    <3>1. call[q].owner \in Owner /\ PurgeOwner[s] \in Owner
      BY <2>2, CallFacts, PurgeAssumption
    <3> QED
      BY <2>1, <2>3, <3>1 DEF owns, Name, physical_name, namespace, Owner
  <2>5. q \notin knows[s]
    BY <2>2 DEF Succeeded
  <2>6. s \notin after[q]
    BY <2>3 DEF AfterOK
  <2> QED
    BY <1>5, <2>2, <2>4, <2>5, <2>6 DEF Alone
<1> QED
  BY <1>3, <1>4, <1>5, StaysRight DEF StandsStill

\* A step of a purge, or of one of its tasks.
PurgeActs(t) == purge_all(t) \/ PurgeStep(t) \/ PurgeFault(t)

\* A purge moves nobody's variables but its own, and touches collections of its
\* owner only.
LEMMA ActsAlone ==
    ASSUME PInv, ReportTyped, NEW t \in Purge, PurgeActs(t)
    PROVE  /\ Apart /\ at'[t] # "idle"
           /\ \A s \in Purge : s # t =>
                /\ StandsStill(s) /\ matched'[s] = matched[s]
                /\ swept'[s] = swept[s] /\ knows'[s] = knows[s]
           /\ \A n \in PhysicalName : ~owns(PurgeOwner[t], n) => db'[n] = db[n]
<1> USE DEF PInv, Shape, ReportTyped, StandsStill
<1>1. CASE purge_all(t)
  BY <1>1 DEF purge_all, AnswerPurge
<1>2. CASE owned_collections(t)
  BY <1>2 DEF owned_collections, AnswerPurge
<1>3. CASE gather(t) \/ PodDown(t)
  BY <1>3 DEF gather, PodDown, AnswerPurge
<1>4. ASSUME NEW m \in PhysicalName,
             count_owned(t, m) \/ remove_owned(t, m) \/ TaskFails(t, m)
             \/ LateRemoval(t, m)
      PROVE  /\ Apart /\ at'[t] # "idle"
             /\ \A s \in Purge : s # t =>
                    /\ StandsStill(s) /\ matched'[s] = matched[s]
                    /\ swept'[s] = swept[s] /\ knows'[s] = knows[s]
             /\ \A n \in PhysicalName : ~owns(PurgeOwner[t], n) => db'[n] = db[n]
  <2>1. task[t][m] # "none" /\ UNCHANGED <<at, answer, knows>> /\ Apart
    BY <1>4 DEF count_owned, remove_owned, TaskFails, LateRemoval, Enters
  <2>2. owns(PurgeOwner[t], m) /\ at[t] # "idle"
    BY <2>1 DEF TasksOK
  <2>3. \A s \in Purge : s # t => task'[s] = task[s]
    BY <1>4 DEF count_owned, remove_owned, TaskFails, LateRemoval, Becomes
  <2>4. \A s \in Purge : s # t => matched'[s] = matched[s]
    BY <1>4 DEF count_owned, remove_owned, TaskFails, LateRemoval
  <2>5. \A s \in Purge : s # t => swept'[s] = swept[s]
    BY <1>4 DEF count_owned, remove_owned, TaskFails, LateRemoval, Sweeps
  <2>6. \A n \in PhysicalName : n # m => db'[n] = db[n]
    BY <1>4 DEF count_owned, remove_owned, TaskFails, LateRemoval, Sweeps,
       delete, delete_collection, IInv, TypeOK
  <2> QED
    BY <2>1, <2>2, <2>3, <2>4, <2>5, <2>6
<1> QED
  BY <1>1, <1>2, <1>3, <1>4 DEF PurgeActs, PurgeStep, PurgeFault

\* Whoever stood beside a purge before the step still does.
LEMMA AloneBefore ==
    ASSUME PInv, ReportTyped, NEW t \in Purge, PurgeActs(t), NEW s \in Purge,
           knows'[s] = knows[s], Alone(s)'
    PROVE  Alone(s) /\ (t # s => PurgeOwner[t] # PurgeOwner[s])
<1>1. /\ UNCHANGED <<pc, call, after>> /\ at'[t] # "idle"
      /\ \A p \in Purge : p # t => at'[p] = at[p]
  BY ActsAlone DEF Apart, StandsStill
<1>2. \A p \in Purge \ {s} : at'[p] = "idle" \/ PurgeOwner[p] # PurgeOwner[s]
  BY DEF Alone
<1>3. \A p \in Purge \ {s} : at[p] = "idle" \/ PurgeOwner[p] # PurgeOwner[s]
  BY <1>1, <1>2
<1>4. \A r \in Request : \/ pc[r] = "idle" \/ call[r].owner # PurgeOwner[s]
                         \/ r \in knows[s] \/ s \in after[r]
  BY <1>1 DEF Alone
<1> QED
  BY <1>1, <1>2, <1>3, <1>4 DEF Alone

\* The names of the points a purge removed do not change while no request moves.
LEMMA NamesStay == Apart => \A id : Name(id)' = Name(id)
BY DEF Apart, Name

\* A purge of another owner does not disturb a purge.
LEMMA OthersKeepRight ==
    ASSUME RInv, NEW t \in Purge, PurgeActs(t), NEW s \in Purge, s # t
    PROVE  Right(s)'
<1> USE DEF RInv, CInv
<1>1. /\ Apart /\ StandsStill(s) /\ matched'[s] = matched[s]
      /\ swept'[s] = swept[s] /\ knows'[s] = knows[s]
      /\ \A n \in PhysicalName : ~owns(PurgeOwner[t], n) => db'[n] = db[n]
  BY ActsAlone
<1>2. Alone(s)' => Alone(s) /\ PurgeOwner[t] # PurgeOwner[s]
  BY <1>1, AloneBefore
<1>3. ASSUME PurgeOwner[t] # PurgeOwner[s], NEW n \in PhysicalName,
             task[s][n] = "remove"
      PROVE  db'[n] = db[n]
  <2>1. owns(PurgeOwner[s], n)
    BY <1>3 DEF PInv, TasksOK
  <2>2. PurgeOwner[s] \in Owner /\ PurgeOwner[t] \in Owner
    BY PurgeAssumption
  <2>3. ~owns(PurgeOwner[t], n)
    BY <1>3, <2>1, <2>2 DEF owns, namespace, Owner
  <2> QED
    BY <1>1, <2>3
<1>4. \A id \in swept[s] : Name(id)' = Name(id)
  BY <1>1, NamesStay
<1> QED
  BY <1>1, <1>2, <1>3, <1>4, StaysRight

\* A purge's steps outside its tasks.
LEMMA PurgeKeepsRight ==
    ASSUME RInv, NEW s \in Purge,
           purge_all(s) \/ owned_collections(s) \/ gather(s) \/ PodDown(s)
    PROVE  Right(s)'
<1> USE DEF RInv, CInv, PInv
<1>1. Apart /\ UNCHANGED <<db, matched, swept>> /\ PurgeActs(s)
  BY DEF purge_all, owned_collections, gather, PodDown, PurgeActs, PurgeStep, PurgeFault
<1>2. \A id : Name(id)' = Name(id)
  BY <1>1, NamesStay
<1>3. \A n : Taken(s, n)' = Taken(s, n)
  BY <1>1, <1>2 DEF Taken
<1>4. CASE at[s] \in {"idle", "list"} /\ answer[s].status # 200
             /\ (purge_all(s) \/ owned_collections(s))
  <2>1. \A n \in PhysicalName : task[s][n] = "none"
    BY <1>4 DEF TasksOK
  <2>2. swept[s] = {}
    BY <2>1 DEF Right, SweptOnce
  <2>3. \A n \in PhysicalName : task'[s][n] \in {"none", "waiting"}
    <3>1. CASE UNCHANGED task
      BY <2>1, <3>1
    <3>2. CASE owned_collections(s) /\ owned(s) # {}
      <4> DEFINE fresh == [n \in PhysicalName |->
                            IF n \in owned(s) THEN "waiting" ELSE "none"]
      <4>1. task' = [task EXCEPT ![s] = fresh]
        BY <3>2 DEF owned_collections
      <4> HIDE DEF fresh
      <4>2. task'[s] = fresh
        BY <4>1 DEF Shape
      <4> QED
        BY <4>2 DEF fresh
    <3> QED
      BY <1>4, <3>1, <3>2 DEF purge_all, owned_collections
  <2>4. CountsHold(s)' /\ SweptOnce(s)'
    BY <1>1, <2>2, <2>3 DEF CountsHold, SweptOnce
  <2>5. answer'[s] \in {answer[s], PurgeStatus(400), PurgeStatus(200)}
    BY <1>4 DEF purge_all, owned_collections, AnswerPurge, Shape
  <2>6. total(s)' = 0
    <3>1. counts(s)' = {}
      BY <2>3 DEF counts, Tasks
    <3> QED
      BY <3>1, FS_EmptySet DEF total
  <2>7. Reported(s)'
    BY <1>4, <2>5, <2>6 DEF Right, Reported, PurgeStatus
  <2> QED
    BY <2>4, <2>7 DEF Right
<1>5. CASE gather(s)
  <2>1. UNCHANGED <<task, knows>> /\ answer[s].status # 200
    BY <1>5 DEF gather, Succeeded
  <2>2. answer'[s] \in {PurgeStatus(500), Outcomes(s)}
    BY <1>5 DEF gather, AnswerPurge, Shape
  <2>3. SweptOnce(s)'
    BY <1>1, <1>2, <2>1 DEF Right, SweptOnce
  <2>4. Alone(s)' => Alone(s)
    BY <1>1, <2>1, AloneBefore
  <2>5. answer'[s].status # 500 => answer[s].status # 500
    BY <1>5 DEF gather, Right, Reported
  <2>6. CountsHold(s)'
    BY <1>1, <1>3, <2>1, <2>4, <2>5 DEF Right, CountsHold
  <2>7. total(s)' = total(s)
    BY <1>1, <2>1 DEF total, counts, Tasks
  <2>8. Reported(s)'
    BY <1>5, <2>2, <2>7 DEF gather, AnswerPurge, Shape, Reported, Outcomes,
       PurgeStatus
  <2> QED
    BY <2>3, <2>6, <2>8 DEF Right
<1>6. CASE PodDown(s)
  <2>1. answer'[s].status = 500 /\ at'[s] = "done"
    BY <1>6 DEF PodDown, AnswerPurge, PurgeStatus, Shape
  <2>2. \A n \in PhysicalName :
            task[s][n] \in {"ended", "raised"} => task'[s][n] = task[s][n]
    BY <1>6 DEF PodDown, Shape
  <2>3. SweptOnce(s)'
    BY <1>1, <1>2, <2>2 DEF Right, SweptOnce
  <2> QED
    BY <2>1, <2>3 DEF Right, CountsHold, Reported
<1>7. purge_all(s) \/ owned_collections(s) =>
            at[s] \in {"idle", "list"} /\ answer[s].status # 200
  BY DEF purge_all, owned_collections, Succeeded
<1> QED
  BY <1>4, <1>5, <1>6, <1>7

\* What a task is about to do.
Acts(s, n) ==
    count_owned(s, n) \/ remove_owned(s, n) \/ TaskFails(s, n) \/ LateRemoval(s, n)

\* A task that moves on leaves the other tasks of its purge, and its answer, as
\* they are.
LEMMA TaskActs ==
    ASSUME PInv, ReportTyped, NEW s \in Purge, NEW n \in PhysicalName, Acts(s, n)
    PROVE  /\ Apart /\ UNCHANGED <<at, answer, knows>> /\ PurgeActs(s)
           /\ owns(PurgeOwner[s], n) /\ task[s][n] \in {"waiting", "remove", "late"}
           /\ \A m \in PhysicalName : m # n =>
                /\ task'[s][m] = task[s][m] /\ matched'[s][m] = matched[s][m]
                /\ db'[m] = db[m]
<1> USE DEF PInv, Shape, ReportTyped, Acts
<1>1. Apart /\ UNCHANGED <<at, answer, knows>> /\ PurgeActs(s)
  BY DEF count_owned, remove_owned, TaskFails, LateRemoval, PurgeActs, PurgeStep,
     PurgeFault
<1>2. task[s][n] \in {"waiting", "remove", "late"}
  BY DEF count_owned, remove_owned, TaskFails, LateRemoval, Enters
<1>3. \A m \in PhysicalName : m # n =>
        task'[s][m] = task[s][m] /\ matched'[s][m] = matched[s][m]
  BY DEF count_owned, remove_owned, TaskFails, LateRemoval, Becomes
<1>4. \A m \in PhysicalName : m # n => db'[m] = db[m]
  BY DEF count_owned, remove_owned, TaskFails, LateRemoval, Sweeps, delete,
     delete_collection, IInv, TypeOK
<1> QED
  BY <1>1, <1>2, <1>3, <1>4 DEF TasksOK

\* With nothing of its owner beside it, a task removes what it counted.
LEMMA SweptIsCounted ==
    ASSUME RInv, NEW s \in Purge, NEW n \in PhysicalName,
           remove_owned(s, n), Present(db, n)
    PROVE  Taken(s, n)' = Stored(db, n)
<1> USE DEF RInv, CInv
<1>1. Apart /\ task[s][n] = "remove" /\ Sweeps(s, n) /\ owns(PurgeOwner[s], n)
  BY DEF remove_owned, PInv, TasksOK
<1>2. \A id : Name(id)' = Name(id)
  BY <1>1, NamesStay
<1>3. Taken(s, n) = {}
  BY <1>1 DEF Right, SweptOnce, Taken
<1>4. \A id \in Stored(db, n) : Name(id) = n
  BY SelectedAreHeld DEF PInv, IInv, StoredForItsOwner
<1>5. Selected(db, n, scope(s)) = Stored(db, n)
  BY <1>1, AllSelected DEF PInv
<1>6. swept'[s] = swept[s] \union Stored(db, n)
  BY <1>1, <1>5 DEF Sweeps, PInv, Shape
<1> QED
  BY <1>2, <1>3, <1>4, <1>6 DEF Taken

\* A purge's tasks keep it right.
LEMMA TaskKeepsRight ==
    ASSUME RInv, NEW s \in Purge, NEW n \in PhysicalName, Acts(s, n)
    PROVE  Right(s)'
<1> USE DEF RInv, CInv
<1>1. /\ Apart /\ UNCHANGED <<at, answer, knows>> /\ PurgeActs(s)
      /\ owns(PurgeOwner[s], n) /\ task[s][n] \in {"waiting", "remove", "late"}
      /\ \A m \in PhysicalName : m # n =>
            /\ task'[s][m] = task[s][m] /\ matched'[s][m] = matched[s][m]
            /\ db'[m] = db[m]
  BY TaskActs
<1>2. \A id : Name(id)' = Name(id)
  BY <1>1, NamesStay
<1>3. \A id \in swept'[s] \ swept[s] :
        Name(id) = n /\ task'[s][n] \in {"ended", "raised"}
  <2>1. CASE UNCHANGED swept
    BY <2>1
  <2>2. CASE Sweeps(s, n) /\ (Becomes(s, n, "ended") \/ Becomes(s, n, "raised"))
    <3>1. task'[s][n] \in {"ended", "raised"}
      BY <2>2 DEF Becomes, PInv, Shape
    <3>2. ASSUME NEW id \in swept'[s], id \notin swept[s]
          PROVE  Name(id) = n
      <4>1. Present(db, n) /\ id \in Stored(db, n)
        BY <2>2, <3>2 DEF Sweeps, Selected, PInv, Shape
      <4>2. id \in Id /\ HoldsPoint(n, id)
        BY <4>1, SelectedAreHeld DEF PInv, IInv
      <4> QED
        BY <4>2 DEF PInv, IInv, StoredForItsOwner
    <3> QED
      BY <3>1, <3>2
  <2> QED
    BY <2>1, <2>2
    DEF Acts, count_owned, remove_owned, TaskFails, LateRemoval
<1>4. swept[s] \subseteq swept'[s]
  BY DEF Acts, count_owned, remove_owned, TaskFails, LateRemoval, Sweeps, PInv, Shape
<1>5. SweptOnce(s)'
  <2> SUFFICES ASSUME NEW id \in swept'[s]
               PROVE  /\ Name(id) \in PhysicalName
                      /\ task'[s][Name(id)] \in {"ended", "raised"}
    BY <1>2 DEF SweptOnce
  <2>1. CASE id \in swept[s]
    <3>1. Name(id) \in PhysicalName /\ task[s][Name(id)] \in {"ended", "raised"}
      BY <2>1 DEF Right, SweptOnce
    <3> QED
      BY <1>1, <3>1
  <2> QED
    BY <1>3, <2>1
<1>6. \A m \in PhysicalName : m # n => Taken(s, m)' = Taken(s, m)
  BY <1>2, <1>3, <1>4 DEF Taken
<1>7. ASSUME Alone(s), answer[s].status # 500
      PROVE  /\ task'[s][n] = "remove" => /\ Present(db', n)
                                          /\ matched'[s][n] = Cardinality(Stored(db', n))
             /\ task'[s][n] = "ended" => matched'[s][n] = Cardinality(Taken(s, n)')
  <2>1. CASE count_owned(s, n)
    <3>1. UNCHANGED db
      BY <2>1 DEF count_owned
    <3>2. CASE ~Present(db, n)
      <4>1. Becomes(s, n, "raised")
        BY <2>1, <3>2 DEF count_owned
      <4> QED
        BY <4>1 DEF Becomes, PInv, Shape
    <3>3. CASE Present(db, n)
      <4>1. task'[s][n] = "remove" /\ matched'[s][n] = count(db, n, scope(s))
        BY <2>1, <3>3 DEF count_owned, Becomes, PInv, Shape, ReportTyped
      <4>2. Selected(db, n, scope(s)) = Stored(db, n)
        BY <1>1, <3>3, AllSelected DEF PInv
      <4> QED
        BY <3>1, <3>3, <4>1, <4>2 DEF count
    <3> QED
      BY <3>2, <3>3
  <2>2. CASE remove_owned(s, n)
    <3>1. Present(db, n) /\ matched[s][n] = Cardinality(Stored(db, n))
      BY <1>7, <2>2 DEF Right, CountsHold, remove_owned
    <3>2. task'[s][n] = "ended" /\ matched' = matched
      BY <2>2, <3>1 DEF remove_owned, Becomes, PInv, Shape
    <3> QED
      BY <2>2, <3>1, <3>2, SweptIsCounted
  <2>3. CASE TaskFails(s, n) \/ LateRemoval(s, n)
    BY <2>3 DEF TaskFails, LateRemoval, Becomes, PInv, Shape
  <2> QED
    BY <2>1, <2>2, <2>3 DEF Acts
<1>8. Alone(s)' => Alone(s)
  BY <1>1, AloneBefore
<1>9. CountsHold(s)'
  <2> SUFFICES ASSUME Alone(s), answer[s].status # 500, NEW m \in PhysicalName
               PROVE  /\ task'[s][m] = "remove" =>
                            /\ Present(db', m)
                            /\ matched'[s][m] = Cardinality(Stored(db', m))
                      /\ task'[s][m] = "ended" =>
                            matched'[s][m] = Cardinality(Taken(s, m)')
    BY <1>1, <1>8 DEF CountsHold
  <2>1. CASE m = n
    BY <1>7, <2>1
  <2>2. CASE m # n
    <3>1. Present(db', m) = Present(db, m) /\ Stored(db', m) = Stored(db, m)
      BY <1>1, <2>2 DEF Present, Stored
    <3> QED
      BY <1>1, <1>6, <2>2, <3>1 DEF Right, CountsHold
  <2> QED
    BY <2>1, <2>2
<1>10. Reported(s)'
  BY <1>1 DEF Right, Reported, Succeeded
<1> QED
  BY <1>5, <1>9, <1>10 DEF Right

\* The purges' numbers and answers keep their types.
LEMMA ReportTypeKept ==
    ASSUME RInv, [PurgeNext]_all_vars
    PROVE  ReportTyped'
<1> USE DEF RInv, CInv
<1> DEFINE Kept == UNCHANGED <<matched, answer, knows>>
<1>1. CASE UNCHANGED all_vars
  BY <1>1 DEF all_vars, purge_vars, ReportTyped
<1>2. ASSUME NEW r \in Request,
             Arrives(r) \/ ((Step(r) \/ Fail(r)) /\ UNCHANGED purge_vars)
      PROVE  ReportTyped'
  BY <1>2 DEF Arrives, purge_vars, ReportTyped
<1>3. \A code \in {0, 200, 400, 500} : PurgeStatus(code) \in PurgeReply
  BY DEF PurgeStatus, PurgeReply
<1>4. ASSUME NEW s \in Purge,
             purge_all(s) \/ owned_collections(s) \/ gather(s) \/ PodDown(s)
      PROVE  ReportTyped'
  <2>1. Outcomes(s) \in PurgeReply
    <3>1. total(s) \in Nat
      BY TotalIsNat
    <3> QED
      BY <3>1 DEF Outcomes, PurgeReply, Tasks
  <2>2. UNCHANGED matched /\ knows' \in [Purge -> SUBSET Request]
    BY <1>4 DEF purge_all, owned_collections, gather, PodDown, ReportTyped
  <2>3. \/ UNCHANGED answer
        \/ \E new \in {PurgeStatus(400), PurgeStatus(200), PurgeStatus(500),
                       Outcomes(s)} : answer' = [answer EXCEPT ![s] = new]
    BY <1>4 DEF purge_all, owned_collections, gather, PodDown, AnswerPurge
  <2> QED
    BY <1>3, <2>1, <2>2, <2>3 DEF ReportTyped
<1>5. ASSUME NEW s \in Purge, NEW n \in PhysicalName, Acts(s, n)
      PROVE  ReportTyped'
  <2>1. UNCHANGED <<answer, knows>>
    BY <1>5, TaskActs
  <2>2. matched' = matched \/
            /\ Present(db, n)
            /\ matched' = [matched EXCEPT ![s][n] = count(db, n, scope(s))]
    BY <1>5 DEF Acts, count_owned, remove_owned, TaskFails, LateRemoval
  <2>3. Present(db, n) => count(db, n, scope(s)) \in Nat
    <3> SUFFICES ASSUME Present(db, n) PROVE count(db, n, scope(s)) \in Nat
      OBVIOUS
    <3>1. Selected(db, n, scope(s)) \in SUBSET Request
      BY SelectedAreHeld DEF PInv, IInv, Id
    <3>2. IsFiniteSet(Selected(db, n, scope(s)))
      BY <3>1, FS_Subset, RepositoryAssumption
    <3> QED
      BY <3>2, FS_CardinalityType DEF count
  <2>4. matched' \in [Purge -> [PhysicalName -> Nat]]
    <3> DEFINE k == count(db, n, scope(s))
    <3> HIDE DEF k
    <3>1. matched' = matched \/ (k \in Nat /\ matched' = [matched EXCEPT ![s][n] = k])
      BY <2>2, <2>3 DEF k
    <3>2. matched \in [Purge -> [PhysicalName -> Nat]]
      BY DEF ReportTyped
    <3>3. CASE k \in Nat /\ matched' = [matched EXCEPT ![s] = [@ EXCEPT ![n] = k]]
      <4>1. [matched[s] EXCEPT ![n] = k] \in [PhysicalName -> Nat]
        BY <3>2, <3>3
      <4> QED
        BY <3>2, <3>3, <4>1
    <3> QED
      BY <3>1, <3>2, <3>3
  <2> QED
    BY <2>1, <2>4 DEF ReportTyped
<1> QED
  BY <1>1, <1>2, <1>4, <1>5 DEF PurgeNext, PurgeStep, PurgeFault, PurgeQuiet, Acts

\* Every step keeps the invariant.
LEMMA RightNextInv == RInv /\ [PurgeNext]_all_vars => RInv'
<1> SUFFICES ASSUME RInv, [PurgeNext]_all_vars, NEW s \in Purge PROVE Right(s)'
  BY CleanNextInv, ReportTypeKept, FewTasksKept DEF RInv
<1>1. CASE UNCHANGED all_vars
  <2>1. Right(s)
    BY DEF RInv
  <2>2. UNCHANGED <<db, pc, call, at, task, matched, answer, swept, knows, after>>
    BY <1>1 DEF all_vars, vars, purge_vars
  <2>3. StandsStill(s) /\ Alone(s)' = Alone(s) /\ \A id : Name(id)' = Name(id)
    BY <2>2 DEF StandsStill, Alone, Name
  <2> QED
    BY <2>1, <2>2, <2>3, StaysRight
<1>2. ASSUME NEW r \in Request,
             Arrives(r) \/ ((Step(r) \/ Fail(r)) /\ UNCHANGED purge_vars)
      PROVE  Right(s)'
  <2>1. /\ Receive(r) \/ Step(r) \/ Fail(r)
        /\ UNCHANGED <<at, task, matched, answer, swept, knows>>
    BY <1>2 DEF Arrives, purge_vars
  <2>2. \A q \in Request : pc[q] # "idle" => after'[q] = after[q]
    BY <1>2 DEF Arrives, Receive, purge_vars, RInv, CInv, PInv, Shape
  <2> QED
    BY <2>1, <2>2, RequestKeepsRight
<1>3. ASSUME NEW t \in Purge, PurgeActs(t)
      PROVE  Right(s)'
  <2>1. CASE s # t
    BY <1>3, <2>1, OthersKeepRight
  <2>2. CASE s = t
    BY <1>3, <2>2, PurgeKeepsRight, TaskKeepsRight
    DEF PurgeActs, PurgeStep, PurgeFault, Acts
  <2> QED
    BY <2>1, <2>2
<1> QED
  BY <1>1, <1>2, <1>3 DEF PurgeNext, PurgeQuiet, PurgeActs

\* Every reachable state satisfies the invariant.
THEOREM ReportInvariance == PurgeSpec => []RInv
<1>1. PurgeInit => CInv
  BY PurgeInitInv DEF PurgeInit, PurgeStatus, Succeeded, Clean, Listed, CInv
<1>2. PurgeInit => ReportTyped
  BY DEF PurgeInit, PurgeStatus, PurgeReply, ReportTyped
<1>3. PurgeInit => FewTasks
  <2> SUFFICES ASSUME PurgeInit, NEW s \in Purge PROVE IsFiniteSet(Begun(s))
    BY DEF FewTasks
  <2>1. Begun(s) = {}
    BY DEF PurgeInit, Begun
  <2> QED
    BY <2>1, FS_EmptySet
<1>4. PurgeInit => \A s \in Purge : Right(s)
  BY DEF PurgeInit, PurgeStatus, Right, SweptOnce, CountsHold, Reported
<1> QED
  BY <1>1, <1>2, <1>3, <1>4, RightNextInv, PTL DEF PurgeSpec, RInv

\* The purges' part of the state has its types.
THEOREM PurgeTypes == PurgeSpec => []PurgeTypeOK
<1>1. RInv => PurgeTypeOK
  BY DEF RInv, CInv, PInv, Shape, ReportTyped, PurgeTypeOK
<1> QED
  BY <1>1, ReportInvariance, PTL

\* A purge that succeeds alone among its owner's requests reports as many points
\* as it removed, over all its tasks.
THEOREM PurgeCounts == PurgeSpec => []PurgeReportsAll
BY ReportsAll, ReportInvariance, PTL

=============================================================================
