----------------------------- MODULE Sequential -----------------------------
(***************************************************************************)
(* Repository as a client sees it that waits for each answer before it     *)
(* asks again: the database as it was when nothing was in flight, and the  *)
(* answers given.  This implements EmbeddingService, although each request *)
(* is several Qdrant calls and may fail at each.                           *)
(***************************************************************************)
EXTENDS RepositoryProps

\* One request at a time; and Absent is told apart from what EmbeddingService
\* sees of a collection.
ASSUME SequentialAssumption ==
    /\ MaxInFlight = 1
    /\ Absent \notin [dim : Dim, points : [Id -> Point \union {None}]]

VARIABLE settled    \* history: the database when nothing was last in flight

sequentialVars == <<vars, settled>>

SequentialInit == Init /\ settled = db

SequentialNext ==
    /\ Next
    /\ settled' = IF InFlight' = {} THEN db' ELSE settled

SequentialSpec == SequentialInit /\ [][SequentialNext]_sequentialVars

\* Physical names and payload indexes are hidden.
Content(collection) ==
    IF collection = Absent THEN Absent
    ELSE [dim |-> collection.dim, points |-> collection.points]

PhysicalOf(place) == [namespace |-> namespace(place.owner), slug |-> place.slug]

held == [place \in [owner : Owner, slug : SlugText] |->
            Content(settled[PhysicalOf(place)])]

Given(r, what) == IF pc[r] = "done" THEN what ELSE None

asked == [r \in Request |-> Given(r, call[r])]
answer == [r \in Request |-> Given(r, reply[r])]

Service == INSTANCE EmbeddingService WITH held <- held, asked <- asked, answer <- answer

\* Requests that come one at a time are served as if each took effect at once:
\* every answer is the one the service promises for what was there when the
\* request came, and what is there afterwards is what it promises, but for a
\* request that failed, which may be done in part (every handler).
ServedAtOnce == Service!Spec

=============================================================================
