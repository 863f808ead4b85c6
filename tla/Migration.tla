----------------------------- MODULE Migration -----------------------------
(***************************************************************************)
(* src/scripts/migrate_to_per_user_collections.py beside the live service: *)
(* it splits each legacy collection, shared by all users, into their own   *)
(* collections.  Nothing else touches the legacy collections, so they are  *)
(* a constant, and the groups it makes of their points are operators.  An  *)
(* operator may run the script again after it ended, failed or was         *)
(* interrupted.  Legacy points are named by requests that never arrive,    *)
(* which are also the time stamps they carry.                              *)
(***************************************************************************)
EXTENDS RepositoryProps

CONSTANTS
    LegacyNames,        \* is_legacy, sorted: the names without a separator
    Legacy,             \* name -> its width, None if named, and its points
    SortedUsers,        \* the usernames in order
    MigrationTenant,    \* --tenant
    SCROLL_PAGE,
    MaxRuns             \* bound: how often the script is run

LegacyName == {LegacyNames[k] : k \in DOMAIN LegacyNames}

\* The points of a legacy collection, in the order a scroll yields them.
Positions(name) == DOMAIN Legacy[name].points
P(name, i) == Legacy[name].points[i]

LegacyPoint ==
    [id : Id, vector : Dim,
     payload : [user_id : Username \union {None}, topic : Topic \union {None},
                metadata : Metadata, chunks : Request, vector_dim : Dim,
                created_at : Request, updated_at : Request]]

\* Names and usernames occur once, and ids, which are uuids, differ.
ASSUME MigrationAssumption ==
    /\ LegacyNames \in Seq(Collection) /\ SortedUsers \in Seq(Username)
    /\ \A k, l \in DOMAIN LegacyNames : LegacyNames[k] = LegacyNames[l] => k = l
    /\ \A j, l \in DOMAIN SortedUsers : SortedUsers[j] = SortedUsers[l] => j = l
    /\ None \notin Username
    /\ \A name \in LegacyName :
        Legacy[name] \in [dim : Dim \union {None}, points : Seq(LegacyPoint)]
    /\ \A name \in LegacyName : \A i \in Positions(name) :
        /\ Workload[P(name, i).id] = {}
        /\ P(name, i).payload.updated_at = P(name, i).id
        /\ P(name, i).payload.user_id # None =>
            \E j \in DOMAIN SortedUsers : SortedUsers[j] = P(name, i).payload.user_id
        /\ \A other \in LegacyName : \A j \in Positions(other) :
            P(other, j).id = P(name, i).id => other = name /\ j = i
    /\ MigrationTenant \in Tenant
    /\ SCROLL_PAGE \in Nat \ {0}
    /\ MaxRuns \in Nat

VARIABLES
    at,         \* the call the script makes next
    apply,      \* --apply
    atName,     \* the position of the legacy collection it works on
    atUser,     \* the position of the user whose points it copies
    start,      \* how many of them it has copied
    runs        \* how often it was run

scriptVars == <<at, apply, atName, atUser, start, runs>>
migrationVars == <<vars, scriptVars>>

Writing == {"ensure_target", "create", "upsert"}
Running == {"get_collections", "read_points"} \union Writing

MigrationInit ==
    /\ Init
    /\ at = "idle" /\ apply = FALSE
    /\ atName = 0 /\ atUser = 0 /\ start = 0 /\ runs = 0

-----------------------------------------------------------------------------
(* The groups *)

\* Mutant: a point without a user_id falls to whoever is at hand.
by_user_or_none(name, username) ==
    {i \in Positions(name) : P(name, i).payload.user_id \in {username, None}}

\* A point without a user_id is in no group and stays behind.
by_user(name, username) ==
    {i \in Positions(name) : P(name, i).payload.user_id = username}

target(name, username) ==
    physical_name([tenant_id |-> MigrationTenant, username |-> username], name)

Name0 == LegacyNames[atName]
Points0 == by_user(Name0, SortedUsers[atUser])
Target0 == target(Name0, SortedUsers[atUser])

\* The index of a point in its user's list.
Place(group, i) == Cardinality({j \in group : j < i})

\* points[first : last], which Python cuts at the end.
Slice(first, last) ==
    {i \in Points0 : first =< Place(Points0, i) /\ Place(Points0, i) < last}

\* Mutants: the last batch, which is not full, is left out; batches overlap.
batch_if_full ==
    IF start + SCROLL_PAGE =< Cardinality(Points0)
    THEN Slice(start, start + SCROLL_PAGE) ELSE {}
batch_from_last == Slice(IF start = 0 THEN 0 ELSE start - 1, start + SCROLL_PAGE)

batch == Slice(start, start + SCROLL_PAGE)

-----------------------------------------------------------------------------
(* The script *)

\* main; without --apply the script only reads.
main ==
    /\ at \notin Running /\ runs < MaxRuns
    /\ apply' \in BOOLEAN
    /\ at' = "get_collections" /\ runs' = runs + 1
    /\ UNCHANGED <<vars, atName, atUser, start>>

\* The k-th legacy collection, or the end.
NextName(k) ==
    /\ atName' = k /\ atUser' = 0 /\ start' = 0
    /\ at' = IF k \in DOMAIN LegacyNames THEN "read_points" ELSE "done"

find_legacy ==
    /\ at = "get_collections"
    /\ NextName(1)
    /\ UNCHANGED <<vars, apply, runs>>

\* The first user from the j-th on who has points here, or the next collection.
NextUser(j) ==
    \/ /\ atUser' \in {l \in DOMAIN SortedUsers : j =< l}
       /\ by_user(Name0, SortedUsers[atUser']) # {}
       /\ \A l \in j..(atUser' - 1) : by_user(Name0, SortedUsers[l]) = {}
       /\ start' = 0 /\ at' = "ensure_target" /\ UNCHANGED atName
    \/ /\ \A l \in j..Len(SortedUsers) : by_user(Name0, SortedUsers[l]) = {}
       /\ NextName(atName + 1)

\* A collection of named vectors is skipped; so is writing in a dry run.
read_points ==
    /\ at = "read_points"
    /\ IF Legacy[Name0].dim = None \/ ~apply THEN NextName(atName + 1)
                                             ELSE NextUser(1)
    /\ UNCHANGED <<vars, apply, runs>>

ensure_target ==
    /\ at = "ensure_target"
    /\ at' = IF Target0 \in get_collections(db) THEN "upsert" ELSE "create"
    /\ UNCHANGED <<vars, apply, atName, atUser, start, runs>>

\* Nothing is caught: a call that raises ends the script.
Abort == at' = "failed" /\ UNCHANGED <<db, atName, atUser, start>>

\* A name that slugifies to nothing has no target; a collection that another
\* process created meanwhile is refused.  The new one gets no payload indexes.
create_target ==
    /\ at = "create"
    /\ IF Slug[Name0] = None \/ Target0 \in get_collections(db) THEN Abort
       ELSE /\ db' = create_collection(db, Target0, Legacy[Name0].dim, Id)
            /\ at' = "upsert"
            /\ UNCHANGED <<atName, atUser, start>>
    /\ UNCHANGED <<pc, call, local, reply, before, removed, apply, runs>>

\* What is stored once the points at some positions were sent: what has the id
\* of one of them is overwritten.
Overwritten(points, sent) ==
    [id \in Id |->
        IF \E i \in sent : P(Name0, i).id = id
        THEN LET p == P(Name0, CHOOSE i \in sent : P(Name0, i).id = id)
             IN  [vector |-> p.vector, payload |-> p.payload]
        ELSE points[id]]

\* One batch; then the next, of this user or of another.
upsert_batch ==
    /\ at = "upsert"
    /\ IF ~Present(db, Target0) \/ db[Target0].dim # Legacy[Name0].dim THEN Abort
       ELSE /\ db' = [db EXCEPT ![Target0] =
                        stored_collection(@.dim, @.indexes, Overwritten(@.points, batch))]
            /\ IF start + SCROLL_PAGE < Cardinality(Points0)
               THEN start' = start + SCROLL_PAGE /\ UNCHANGED <<at, atName, atUser>>
               ELSE NextUser(atUser + 1)
    /\ UNCHANGED <<pc, call, local, reply, before, removed, apply, runs>>

\* A call fails or times out, or the script is interrupted.
Interrupted ==
    /\ at \in Running
    /\ Abort
    /\ UNCHANGED <<pc, call, local, reply, before, removed, apply, runs>>

Script ==
    \/ main \/ find_legacy \/ read_points \/ ensure_target \/ create_target
    \/ upsert_batch \/ Interrupted

Served == Next /\ UNCHANGED scriptVars

MigrationSpec == MigrationInit /\ [][Script \/ Served]_migrationVars

-----------------------------------------------------------------------------
(* What the script owes the users *)

\* A legacy point ends up nowhere but in the collection of the user it belongs
\* to that has the name of the one it comes from, and under that user's name,
\* and is shown to nobody else, whatever failed and however often the script was
\* run (migrate).
MigratedGoHome ==
    \A legacy \in LegacyName : \A i \in Positions(legacy) :
        LET p == P(legacy, i)
            user == p.payload.user_id
        IN  /\ \A name \in PhysicalName : HoldsPoint(name, p.id) =>
                /\ Legacy[legacy].dim # None /\ user # None
                /\ name = target(legacy, user)
                /\ db[name].points[p.id].payload.user_id = user
            /\ \A r \in Request : p.id \in reply[r].hits =>
                /\ user # None
                /\ call[r].owner = [tenant_id |-> MigrationTenant, username |-> user]

\* A run that ends well has brought every point that has a user to its new
\* place, but for what a user deleted meanwhile, and although earlier runs may
\* have been interrupted anywhere ("A run interrupted halfway can simply be
\* repeated", migrate).
RunCopiesAll ==
    (at = "done" /\ apply) =>
        \A legacy \in LegacyName : \A i \in Positions(legacy) :
            LET p == P(legacy, i)
            IN  (Legacy[legacy].dim # None /\ p.payload.user_id # None) =>
                    \/ HoldsPoint(target(legacy, p.payload.user_id), p.id)
                    \/ \E q \in Request : p.id \in removed[q]

\* What a user wrote over a migrated point, or that it is deleted, is undone by
\* no single run beside a live service: the point has its old content only while
\* no update of it was acknowledged, and is there in spite of a deletion that
\* removed it only if an update that overlaps the deletion wrote it back
\* (migrate: the batches of one run; "a second run overwrites").
RestoredNeedsRerun ==
    \A legacy \in LegacyName : \A i \in Positions(legacy) :
        \A name \in PhysicalName, r \in Request :
            LET p == P(legacy, i)
            IN  (runs =< 1 /\ HoldsPoint(name, p.id)) =>
                /\ (Acknowledged(r) /\ Kind(r) = "update" /\ call[r].id = p.id) =>
                        db[name].points[p.id].payload # p.payload
                /\ p.id \in removed[r] =>
                        \E u \in Request :
                            Overlaps(u, r) /\ Kind(u) = "update" /\ call[u].id = p.id

=============================================================================
