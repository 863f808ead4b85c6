# A verification of the ICICLE vector service

TLA+ models of the ICICLE vector service, the TLC configurations that check
them on small instances, and theorems about them checked by TLAPS. The code
stays the reference: every definition that stands for code is listed, with its
lines, under `map` in `PROJECT.json`.

The service is a FastAPI application in front of one Qdrant database. Clients
send embeddings they computed themselves; the service stores them, searches
them, lists and deletes them, and reranks search results. What makes it hard is
not any single handler. Handlers are coroutines, run by several pods over one
database, and each of them makes several Qdrant calls with nothing that makes
two of those calls atomic.

## The system

Paths are relative to `src/app/` of the repository unless said otherwise; in
`PROJECT.json` the repository itself is the directory `src/`.

| Component | State it keeps | Operations | Talks to |
|---|---|---|---|
| storage operations, `db/repository.py` | none between requests; within a request, the point it read, the number of points it counted, the index it creates next | `ensure_collection`, `create_embedding`, `get_embedding`, `update_embedding`, `delete_embedding`, `bulk_delete_embeddings`, `delete_user_collection`, `purge_user_data`, `retrieve_embeddings`, `fetch_candidates`, `list_*`, `backfill_payload_indexes` | Qdrant, naming, filters |
| Qdrant, `db/client.py` and an external server | collections with a vector width, payload indexes and points | one call each: create, drop and list collections, upsert, retrieve, count, delete, query, scroll | called only by the repository |
| tenancy filters, `db/filters.py` | none | `owner_condition`, `scoped`, `scoped_ids`, `owned_by` | repository |
| physical naming, `db/naming.py` | none | `slugify`, `Owner.namespace`, `physical_name`, `owns`, `logical_name`, `is_legacy` | repository, migration |
| HTTP handlers, `api/v1/*.py`, and bodies, `schemas/*.py` | none | validate the body, call the repository, shape the answer | repository, reranking, security |
| model cache, `reranking/cross_encoder.py` | loaded cross-encoders by name, behind a thread lock | `resolve_model`, `_load`, `cross_encoder_rerank`, `preload` | worker threads, model hub |
| vector reranking, `reranking/vector.py` | none | cosine scores, greedy MMR | search API |
| authentication, `core/security.py` | none | order of the checks on a token, the `Owner` it yields | JWT library |
| startup and shutdown, `main.py` | the shared client | reach Qdrant or exit, backfill indexes, preload the model, close the client | repository, reranking |
| migration, `scripts/migrate_to_per_user_collections.py` | none; legacy collections are its input and stay | find legacy collections, group points by user, create targets, copy points in batches | Qdrant, naming |
| settings, `core/settings.py` | the environment, read once | `DROP_EMPTY_COLLECTIONS` changes what deletions do | all |

`PROJECT.json` also lists the OpenAPI export and the benchmarks, which keep no
state of the service and are not modelled.

### What is hard, and what makes each component correct

* **Storage operations.** A request may be preempted at every `await` of a
  Qdrant call, and another request, possibly in another pod, may do anything to
  the same collection meanwhile: create it, drop it, create it again with
  another width, delete or rewrite the point. A call may raise or time out, and
  the request then ends with a 500, keeping the effects it already had. Correct
  means: no owner sees, changes, removes or is refused by what another owner
  stored; widths stay uniform; what was acknowledged is found until somebody
  deletes it; deletions remove what they were asked to remove and report it;
  partial updates keep the fields they do not name; every request is answered.
* **Naming and filters.** Two users of different tenants may share a username.
  The `user_id` condition in every filter does not tell them apart; only the
  namespace of the physical name does. Correct means that two owners never share
  a physical collection and that every filter carries the owner's condition.
* **Account operations** (`purge_user_data`, `list_user_collections`). Purge
  gathers one task per collection and fails as a whole when one fails, while the
  others go on; the list is paged by offset over a list read anew per page.
* **Model cache.** Worker threads look a model up without the lock and again
  under it. Correct means that each model is loaded once, and that a failing
  load neither blocks nor poisons later ones.
* **Vector reranking.** Correct means that greedy MMR returns what its
  definition says, and that ordering and truncation keep what clients were told.
* **Startup.** The backfill runs beside pods that serve, and a pod may go down
  between creating a collection and creating its indexes. Correct means that
  every missing index is owed by somebody, that no failing index call keeps a pod
  from serving, and that in the end nothing is missing.
* **Migration.** It may be run twice, be interrupted, or run beside a live
  service. Correct means that it copies every point to its own user, that a run
  repeated after an interruption leaves none behind, and that only a repetition
  undoes what users did since.

The individual hazards, each at its line, are under `hazards` in `PROJECT.json`,
with the properties that cover them or the reason why none does.

## The modules

| Module | Models | Depends on |
|---|---|---|
| `Filters` | `db/filters.py`, and how Qdrant matches a filter | |
| `Qdrant` | the calls the repository makes, as effects on a database value (external) | `Filters` |
| `Repository` | `db/repository.py`, `db/naming.py` and the handlers of `api/v1/embeddings.py`, `collections.py`, `search.py` | `Qdrant` |
| `RepositoryProps` | the properties of `Repository` | `Repository` |
| `MCRepository` | workloads and constants for TLC | `RepositoryProps` |
| `RepositoryProofs` | the inductive invariant and the theorems that follow from it, then those about requests that overlap | `RepositoryProps` |
| `Purge` | `purge_user_data` and its handler, composed with the requests of `Repository` | `RepositoryProps` |
| `MCPurge`, `PurgeProofs` | its instances and theorems | `MCRepository`, `RepositoryProofs` |
| `Listing` | `list_user_collections`, its handler and a client that follows `next_offset`, composed with the requests of `Repository` | `RepositoryProps` |
| `MCListing`, `ListingProofs` | its instances and theorems | `MCRepository`, `RepositoryProofs` |
| `EmbeddingService` | the abstract specification: what a client that has the service to itself is promised, each request in one step | |
| `Sequential` | `Repository` with the refinement mapping to `EmbeddingService` | `RepositoryProps`, `EmbeddingService` |
| `MCSequential`, `SequentialProofs` | its instance, and the proof of the refinement | `MCRepository`, `RepositoryProofs` |
| `Lifespan` | `lifespan` in `main.py`, `backfill_payload_indexes`, pods that crash and restart, composed with the requests of `Repository` | `RepositoryProps` |
| `MCLifespan`, `LifespanProofs` | its instance and theorem | `MCRepository`, `Lifespan` |
| `Migration` | `scripts/migrate_to_per_user_collections.py`, composed with the requests of `Repository` | `RepositoryProps` |
| `MCMigration`, `MigrationProofs` | its instance and theorems | `MCRepository`, `RepositoryProofs` |
| `Rerank` | `reranking/vector.py`, the dispatch in `reranking/__init__.py`, the cut of `cross_encoder.py` | |
| `MCRerank`, `RerankProofs` | its instance and theorems | `Rerank` |
| `ModelCache` | `reranking/cross_encoder.py`, with the parts of `search.py` and `main.py` that lead to it | |
| `MCModelCache`, `ModelCacheProofs` | its instances and theorems | `ModelCache` |

### How `Repository` corresponds to the code

| Variable | Stands for |
|---|---|
| `db` | Qdrant's collections, from physical name to width, indexes and points |
| `pc[r]` | the Qdrant call that the coroutine of request `r` makes next |
| `call[r]` | the handler's validated arguments and the owner from the token |
| `local[r]` | the locals used after a later `await`: `point`, `matched`, the index counter |
| `reply[r]` | status, deleted count, dropped flag and ids of the answer |
| `before[r]`, `removed[r]` | history, read by no action: what was answered when `r` arrived, and the points whose removal `r` caused |

Each action is one Qdrant call together with all the code up to the next one:

| Action | Code |
|---|---|
| `Receive` | the handlers and their bodies; a collection name that slugifies to nothing is a 422 |
| `collection_exists` | `collection_exists` and the 404 of its callers |
| `create_collection_call`, `create_payload_indexes` | `ensure_collection`, `_create_payload_indexes` (failures swallowed) |
| `assert_dimension_matches` | `_assert_dimension_matches` |
| `owned_point` | `_owned_point`, then what get, update and delete do with it |
| `upsert_call` | the upserts of `create_embedding` and `update_embedding` |
| `count_selected`, `delete_selected` | `delete_embedding`, `bulk_delete_embeddings`, `delete_user_collection` |
| `count_left`, `drop` | `_maybe_drop_empty`, and the drop of `delete_user_collection` |
| `query`, `scroll` | `retrieve_embeddings` and `fetch_candidates`; `list_collection_embeddings` |
| `respond` | the answer reaching the client |
| `Fail` | a raising or timed-out call, or a pod going down, at any point |

Abstractions:

* The digest in a namespace is taken as one-to-one, so a physical name is the
  pair of an owner and a slug. `Slug` is a constant function, and two clients'
  spellings may share a slug.
* A vector is its width. Texts, page contents and model names are one field,
  `chunks`, that holds the request which wrote it.
* A request is issued once and is its own uuid and time stamp.
* Which of the selected points a search returns when there are more than the
  limit is left open; scores are not modelled.
* Of the points of a collection a client lists the first page; the cursor
  (`offset` of `list_collection_embeddings`) that asks for the next is left out.
* `Fail` ends a request before or after a call's effect. An effect that arrives
  after the error was sent is modelled for purges only (`LateRemoval`).

### How `Purge` and `Listing` correspond to the code

`Purge` adds to `Repository` the coroutine of each purge (`at`) and one task per
collection it listed (`task`), which `asyncio.gather` runs under a semaphore of
`_LIST_CONCURRENCY` slots. `count_owned` is a task's entry into the semaphore with
its first call, `remove_owned` its second. `gather` answers as soon as one task
has raised, and cancels none: the others stay in the state and go on after the
answer. `TaskFails` lets a call fail or time out; a removal that timed out is
`late`, and `LateRemoval` may still carry it out. `PodDown` ends the coroutine
and its tasks. The names and counts of the answer are kept; the order of names
is not. The sum of the counts (`total`) is written as the number of `counts`, a
pair for each point counted, which needs no recursion.

`Listing` adds walks: a client that asks for a page, gets it with its
`next_offset`, and asks for the next. `list_user_collections` reads the names
anew and cuts the slice; `stats_for` is one of the calls about one collection of
the page, in any order (the semaphore bounds how many run at once, and they only
read); `gathered` gives the page to the client. The facet call and the scroll it
falls back to count as one call. Any call may fail or time out (`list_fails`, and
`call_fails` in `stats_for`), and a statistics call raises when its collection is
gone; either ends the walk with a 500. Calls of the same page that are still under
way then only read, and are left out. `gone`, `came`, `torn` and `faulted`, the walks
of which a call failed, are history.

Both are composed by interleaving: a step is one of `Repository`'s, with the
new variables unchanged but for history, or one of the new coroutines'.

### `EmbeddingService`, and how `Sequential` maps to it

`EmbeddingService` knows nothing of Qdrant. Its state is `held`, the collection
of each owner under each slug, and the calls and answers so far. What a request
does is a relation of its call `c`, its collection before and after (`old`, `new`)
and its answer (`given`): `Succeeds`, `Reads`, `Refused`, or `Fails`, which does
all, half (`ChangesHalf`) or nothing of the work and answers 500. `Serve` makes
it one step.

`Sequential` adds to `Repository` the history variable `settled`, the database
when nothing was last in flight, and maps

| Abstract | Concrete |
|---|---|
| `held[place]` | width and points of `settled[PhysicalOf(place)]`; names and payload indexes are hidden |
| `asked[r]`, `answer[r]` | `call[r]` and `reply[r]` once `pc[r] = "done"`, `None` before |

so that all the Qdrant calls of a request but the last step stutter, and the
step that answers it is the abstract one. `ServedAtOnce` is `Service!Spec` under
this mapping. It holds with one request at a time (`SequentialAssumption`), is
checked by `one_at_a_time` and proved in `SequentialProofs`; how far requests
that overlap stay from it is what the properties named `...NeedsARace` and
`ReturnNeedsAnUpdate` bound.

### How `Lifespan` corresponds to the code

| Variable | Stands for |
|---|---|
| `phase[p]` | where the lifespan of pod `p` is: down, listing the collections, indexing them, preloading the model, serving |
| `todo[p]`, `doing[p]` | the rest of the loop of `backfill_payload_indexes`, and of the loop of `_create_payload_indexes` within it |
| `on[r]` | the pod that accepted the request |
| `starts`, `bare` | a bound, and history: collections for which an index call failed since a pod last listed them |

`connect` is the probe of Qdrant that makes the process exit when it fails;
`backfill_payload_indexes` the listing, whose exception is logged and swallowed;
`index` one `create_payload_index` call, whose exception is swallowed as well.
`Crash` ends every request the pod had accepted, at whatever call it was;
`close_client` is an orderly shutdown. The backfill takes its collections in the
order Qdrant lists them, which the model leaves open. `preload` ends the start: the
pod serves, or an exception, which nothing catches here, ends the process and the
platform starts it again. What the preload does to the cache is in `ModelCache`.

### How `Migration` corresponds to the code

The legacy collections are a constant, since neither the service nor the script
changes them. `at` is the call the script makes next; `atName`, `atUser` and
`start` are how far its three loops have come: over legacy collections, over the
users of one, over batches of `SCROLL_PAGE` points. The dictionary `by_user` of the
script is an operator that gives a user's points as a set of positions; a point's
index in the user's list is the number of positions before its own (`Place`), and
`batch` is a slice by places. Users without points in a collection are passed over
(`NextUser`). `read_points` skips a collection of named vectors and one without
users, and goes on from there in a dry run. `create_target` and
`upsert_batch` abort the script when Qdrant refuses, as an exception that nothing
catches does: a legacy name without a slug, a target created or dropped by a
user meanwhile, a target of another width. `Interrupted` is any failing call or
a killed script, and `main` runs it again. The script reads legacy points in
pages; as nobody writes them, that is one step.

The script creates its targets without payload indexes; they get them from the
backfill of the next start, which is `Lifespan`'s old collection.

### How `Rerank` corresponds to the code

A candidate is its position in what `fetch_candidates` returned. `mmr_pick` is one
round of the loop of `mmr_rerank`: `available` and `best_sim` are the masks it
keeps, `objective` what it maximises, `argmax` the first of the greatest.
`cosine_rescore`, `cross_encoder_rerank` and `mmr_fallback` sort once and are a
step each; Python's sort is stable, also in reverse, and `sorted` says so by
places: a candidate's place is the number of those that precede it. Arithmetic is exact, on
integers of which `One` is 1.0: float32 rounding, which may swap candidates
whose scores differ by less than it, is left out. Which scores a cross-encoder
gives is left open.

### How `ModelCache` corresponds to the code

| Variable | Stands for |
|---|---|
| `models`, `lock` | `_models`, each loaded model named by the job that loaded it, and `_load_lock` |
| `pc[j]` | the line of the handler, of `_load` or of `_score_sync` a job is at; the jobs are the rerank requests and the preload |
| `asked[j]`, `held[j]`, `status[j]` | the resolved model name, what `_load` returned, the HTTP status |
| `phase`, `installed`, `restarts` | the pod's lifespan, whether the optional dependencies are in the image, the restarts so far |
| `loads` | history: how often this process loaded each model |

`lookup`, `acquire`, `recheck`, `load` and `release` are the lines of `_load`, each
atomic as it is under Python's interpreter lock. `release` stands for every way out of the
`with` block, exceptions included.

Some definitions have a neighbour marked as a mutant. It is used by no action; it
is the plausible mistake against which a property has been tried out (`mutants` in
`PROJECT.json`).

## What is checked

`Workload` gives each request the calls it may turn out to be, so that a run
explores every choice of calls, order and interleaving. `MaxInFlight` bounds the
requests served at once, and `Failing` names the requests a fault may end.

| Run | Instance | Shows |
|---|---|---|
| `tenancy` | 3 requests in flight at once; three owners, two of whom share a username; about 100 000 states | `TypeOK`, `StoredForItsOwner`, `AnswersStayInTenancy`, `MismatchIsOwnChoice`, `OnlyOwnersTouchPoints` under every operation on collections and points of the same name |
| `stores_and_deletes` | 4 requests, 3 at once, two widths, one request that may fail; about 1 700 000 states | `UniformWidth`, `AcknowledgedIsVisible`, and what goes wrong only in a race: `LossNeedsARace`, `MiscountNeedsARace`, `ReturnNeedsAnUpdate`, `StoreErrNeedsARace`; and `EmptyIsExplained` |
| `one_at_a_time` (`MCSequential`) | 4 requests, one after the other, of every kind, one of which may fail; about 1 080 000 states | `ServedAtOnce`: counts are exact, deleted points stay deleted, a partial update keeps the other fields, a deletion takes nothing else, and every status is the one its handler gives. On an emptied collection that is a 200 where the docs promise a 404, which `drop_of_empty` reports |
| `purge` | a purge of two collections with one slot, 3 requests, 2 at once, calls that fail or come late, two owners of one name; about 1 680 000 states | `PurgeTypeOK`, `SweepsOwnPoints`, `NothingOldSurvives`, `OnlyFailedPurgesLinger`, `PurgeReportsAll` |
| `ends` | a store with two payload indexes to create, one other request of six kinds, and a purge with failing calls and one slot; about 129 000 states | `EveryRequestIsAnswered` and `EveryPurgeEnds`, under fairness |
| `listing` | a walk in pages of one over up to three collections, 4 requests that create and drop, calls that fail; about 255 000 states | `SkipsNeedADrop`, `RepeatsNeedACreation`, `ErrsNeedADrop` |
| `model_cache` | three requests for two models, a preload, two workers, a restart; about 90 000 states | `TypeOK`, `OneLoadAtATime`, `LoadedAtMostOnce`, `OneInstance`, and under fairness `EveryRerankEnds`: the lock and the pool never wait for each other |
| `rerank` | every list of up to four candidates with directions among 0°, 60°, 180° and none, three scores, three values of lambda, two of `top_k`; about 1 200 000 states | `RerankTypeOK`, `FollowsMMR`, `ScoresFall`, `LambdaEnds` (`PureRelevance` and `PureDiversity`), `FullAnswer` (`CutDropsLeastSimilar` and `ShortOnlyIfAll`), `TiesKeepOrder` |
| `startup` | two pods, three starts, a request that creates a collection and one that drops it, an older collection without indexes, two payload indexes, index calls and preloads that fail; about 385 000 states | `MissingIndexIsOwed`, and under fairness `EveryPodServes`, `IndexesConverge` |
| `migration` | two runs over three legacy collections, one of them with more points than a batch, beside two requests: stores, an update, deletions or a drop by the owner, or a listing by another user; about 248 000 states | `MigratedGoHome`, `RunCopiesAll`, `RestoredNeedsRerun` |

Two promises fail. These runs show how, each with its shortest behaviour, and
`findings` in `PROJECT.json` quotes the lines they disagree with:

| Run | Property violated | What happens |
|---|---|---|
| `drop_window` | `OnlyAskedForIsRemoved` | a store lands between the recount of an emptied collection and its drop, and is lost although acknowledged |
| `drop_of_empty` | `DropDeletesSomething` | no race needed: after the last point was deleted by id, the empty collection is still there, and deleting it answers 200 with `deleted=0` where the comment and the docs promise a 404 |

The other differences between requests that overlap and requests that do not
are bounded by properties that pass:

* Two bulk deletes that both count before either deletes report the same points
  twice. `MiscountNeedsARace`: a wrong count takes an overlapping request that
  writes to the same collection.
* An update that read a point before its deletion writes it back afterwards.
  `ReturnNeedsAnUpdate`: nothing else brings a point back.
* The second of two first stores is refused by Qdrant and ends in a 500, and so
  does a store whose collection is dropped under it. `StoreErrNeedsARace`: no
  store errs otherwise.
* A bulk delete by ids takes a point it was not asked for. `LossNeedsARace`:
  only one that was still being stored or updated.
* A store that fails between creating its collection and writing to it leaves a
  collection that is listed, holds nothing and refuses every other width, until a
  store of that width fills it or a drop removes it. `EmptyIsExplained`: only a
  fault, or a deletion by id, which never drops, leaves an empty collection behind.
* One failing call, or one collection dropped in time, ends a page of the collection
  list in a 500. `ErrsNeedADrop`: a page whose calls do not fail takes a drop.
* Of two concurrent updates of different fields the later one writes back the
  old value of the other's field. `ServedAtOnce` shows that this takes
  concurrency.
* A purge answers 500 because another purge or a drop removed a collection
  between its listing and its count; `OnlyFailedPurgesLinger` and
  `NothingOldSurvives` say what a purge that answers 200 may be relied on for.
* A second run of the migration undoes what users changed or deleted since the
  first. `RestoredNeedsRerun`: one run undoes no update that was acknowledged, even
  beside a live service, and a point a user deleted is there again only if an
  update that overlaps the deletion wrote it back.

### Bounds

Every hazard listed involves at most three requests besides the store that
creates the point: a point to lose, the request that loses it, one that
interferes and one that observes. So three or four requests cover them, with all
but one in flight together. Two widths make a mismatch and its repair possible;
a third would only repeat the second. Two tenants and two usernames give owners
that differ in each part alone. `tenancy` creates one
payload index and `ends` two, so that a collection can go between the first and
the second. The other runs create none: an index call changes nothing their
properties see, and the window between creating a collection and writing to it is
already open at the dimension check. A page limit above the number of points lets
`AcknowledgedIsVisible` conclude from a page that is not full.

A purge needs two collections and one slot for a task to wait while another one
runs or has failed, and three requests: one to store what is old, one beside the
purge, one after it. A walk needs pages smaller than the list, so that there is
a page before and a page after a change; requests come one at a time in
`listing`, since a walk notices only the creation and the drop of a collection,
each a single call. In `model_cache` three jobs are one that loads, one that
waits for the lock and one that looks the model up without it. There are fewer
workers than requests, so that the pool is full while its jobs wait for the lock.
A second restart would repeat the first. No run reduces by symmetry.

In `startup`, three starts of two pods let each pod start once and one of them
start again; `MayFail` keeps a failure from using up the last start a pod is
owed, so that the bound never is what stops a pod. Two indexes leave room for a
crash between them, and the old collection makes the backfill have work beside
what the requests create. `SCROLL_PAGE` is 2 in `migration`: one of Alice's
collections has three points, a full batch and one that is not, Bob's has one,
one point has no user, one collection has named vectors and another one another
width. Two runs are one and its repetition. In `rerank`, multiples of 60 degrees have
similarities that are whole halves, and the directions taken contain a copy, an
opposite, a neighbour and a zero vector; MMR needs three picks before a running
maximum differs from the latest similarity, so four candidates leave a choice at
the third pick. `MaxCandidates` is below the number of candidates.

The runs set `DropEmpty` to its default, `TRUE`. What holds for `FALSE` as well is
what is proved below.

### Fairness

`Fairness` is weak fairness of `Step(r)` for each request that has arrived. The
event loop runs every coroutine whose call has returned, and every call returns
or raises within the client's 30-second timeout (`db/client.py`). `Receive`
(clients need not call) and `Fail` have none. `Quiet` lets a system with nothing
in flight stay so, so that TLC's deadlock check, on in every run, finds only
requests that are stuck.

`PurgeFairness` is weak fairness of each purge's own steps, its tasks' included,
since the event loop runs them whether or not the purge was answered; faults and
late removals have none. `ModelCache` asks for weak fairness of each accepted
job and of the startup. Weak fairness suffices for the lock although jobs compete
for it, because a job takes it at most once, so that only finitely many can get
ahead of one that waits. Walks have no fairness: nothing is claimed of their end. `LifespanFairness` is weak
fairness of each pod's startup, which includes that the platform starts a pod
that is down, and of each request's own steps; crashes and failing calls have
none. The two liveness properties of `startup` say that something holds again and
again, since a pod may always go down once more within the bound. The script of
`Migration` and the handler of `Rerank` have no fairness: their properties are of
safety.

## What is proved

`RepositoryProofs` proves, for every finite set of requests and every value of
the other constants, either value of `DropEmpty` included:

| Theorem | States |
|---|---|
| `Invariance` | the inductive invariant `IInv` always holds |
| `TypeCorrect` | `[]TypeOK` |
| `Tenancy` | `[]StoredForItsOwner` |
| `Confidentiality` | `[]AnswersStayInTenancy` |
| `Mismatch` | `[]MismatchIsOwnChoice` |
| `Width` | `[]UniformWidth` |
| `Ownership` | the action property `OnlyOwnersTouchPoints` |

The only assumption is `RepositoryAssumption`, on the constants: there are
finitely many requests, the special values are no ordinary ones, `Slug` maps
names to slugs or to `None`. It holds in every run.

The argument. None of the properties is inductive alone, because an update
writes a whole point from what it read several steps earlier. `IInv` adds what a
request knows at each label:

* `CallsOK`: a request that makes calls addresses a physical collection, and its
  label is on the path of its kind (`Path`). So an upsert, for instance, is
  always of a store or an update.
* `UpdatesOK`: an update past its read holds a point that a store of its own
  owner made in the collection it addresses, even when that collection has been
  dropped or replaced since. So writing it back, which may resurrect it, puts it
  where it belongs.
* `WidthsOK`: a collection owes its width to some store that addresses it. Two
  requests that address the same physical collection are of the same owner
  (`SameNameSameOwner`), so a 409 reflects the owner's own choice.

`UniformWidth` needs no such strengthening. Qdrant itself refuses an upsert of
the wrong width (`FitsWidth`), which closes the window after the code's check;
and an update writes the width of the vector it writes.

Two lemmas carry most steps: `Move` (a step that moves one request along its
path keeps every part of `IInv` that is not about the database) and
`DatabaseShrinks` (a step that only drops collections and removes points keeps
the rest). The handlers follow, one lemma per action, and `NextInv` combines
them. For `Ownership`, each action that writes is shown to touch only points of
the collection of the request that moves, and `FoundIsOwn` says whose they are.

### Requests that overlap

The second half of `RepositoryProofs` proves, from the same assumption and for
requests in any number and interleaving, that what goes wrong between requests of one owner goes wrong only
in a race:

| Theorem | States | Invariant |
|---|---|---|
| `StoresFailByRace` | `[]StoreErrNeedsARace` | `StoresUndisturbed` |
| `MiscountsByRace` | `[]MiscountNeedsARace` | `CountsUndisturbed` |
| `Visibility` | `[]AcknowledgedIsVisible` | `HeldOrRemoved`, with the property |
| `ReturnsByUpdate` | `[]ReturnNeedsAnUpdate` | `ErasedStaysAway` |
| `LossesByRace` | `[]LossNeedsARace` | `SparedUnlessUpdated` |
| `EmptiesAreExplained` | `[]EmptyIsExplained` | `EInv` |

All of them rest on `HInv`, which is `IInv` and `HistoryOK`: whoever `before` names is
answered, and a request that still makes calls has no answer and has removed
nothing before its deletion. Lemmas that need no more of `IInv` than its part about
the requests themselves (`Base`: types, `CallsOK`, and that an update past its read
holds a point) are stated under `Base`, or under `Recorded`, which is `Base` and
`HistoryOK`. Both are inductive on their own (`BaseStep`, `HistoryStep`), and hold
where points appear that no request stored.

Three of the invariants have one shape: a request knows something of its
collection at each of its labels, unless another request of a harmful kind
overlaps it. A store knows that the collection is missing when it creates it,
and there, with its own width, when it writes (`StoreKnows`); a deletion knows
that what it counted is what is there, and then what it removed (`CountKnows`); a
deletion that was carried out knows that the point is gone and that nobody holds
a copy of it to write back (`StaysAway`). The request's own step leads from what
it knows at one label to what it knows at the next (`StoreMoves`, `CountMoves`,
`ErasesNow`). A step of another request leaves it what it knows, or is of a kind
that harms, and then the two overlap, because both are in flight
(`MoverOverlaps`); and an overlap is there to stay (`OverlapStays`).

`AcknowledgedIsVisible` has a fact that needs no exception: the point of an
acknowledged store is where the store put it, or some request has its removal on
record (`HeldOrRemoved`). Every step that takes a point away records it, and a
step that writes one takes none away (`HeldStep`). What a request sees when it
looks follows for a point (`SeesWhatIsHeld`) and for a page that is not full
(`PageShowsAll`). For `LossNeedsARace`, a bulk delete by ids goes on to the drop
only when it found the collection empty (`SparesAlone`); an old point that is there
again was written by an update, which was not answered when the delete arrived
(`SparesBeside`).

`EmptyIsExplained` is almost inductive. `EInv` adds that the deletion of a whole
collection deletes points only where it does not drop (`DropsAtOnce`). Whoever
creates a collection is on the way to write into it (`CreatorExplains`); whoever
takes its last point drops it next, or never drops (`ClearerExplains`); and whoever
explains an empty collection still does so one step later, unless that step filled or
dropped it (`ExplainerGoesOn`). A store's explanation needs the collection's width,
which does not change while the collection is there (`WidthStays`).

### Account operations

`PurgeProofs` proves, for any purges, owners and number of slots, from
`PurgeAssumption`: purges are finitely many, each has an owner, and there is a slot.

| Theorem | States |
|---|---|
| `PurgeInvariance`, `ReportInvariance` | the inductive invariants `PInv` and `RInv` |
| `PurgeKeepsTenancy` | `TypeOK`, `StoredForItsOwner`, `AnswersStayInTenancy`, `UniformWidth` and `MismatchIsOwnChoice` hold beside purges as well |
| `PurgeOwnership` | `[]SweepsOwnPoints` |
| `PurgeLinger` | `[]OnlyFailedPurgesLinger` |
| `PurgeErases` | `[]NothingOldSurvives` |
| `PurgeTypes` | `[]PurgeTypeOK` |
| `PurgeCounts` | `[]PurgeReportsAll` |

`PInv` is `IInv` with what tasks may do: `TasksOK` says that a task's collection is
in its owner's namespace, and that a purge answered with other than a 500 has no
task that could go on. By `HeldByOwner` whatever such a collection holds, now or
after it was created again, is its owner's. A request's step keeps `IInv` by
`NextInv`; a purge's step does because it only shrinks the database
(`DatabaseShrinks`).

`PurgeErases` calls a point old when it was last written by a request answered
before the purge arrived. Its invariant `CInv` adds that nothing old is left in a
collection of the owner for which the purge has no task, or one that has ended
(`Clean`). No step makes a point old (`NoneAges`): who writes one is in flight,
and so was not answered when the purge arrived. A removal clears its collection
because the `user_id` condition excludes nothing there (`AllSelected`).

`PurgeCounts` is about a sum. `RInv` adds that what a purge removed was removed
by a task that is over (`SweptOnce`), and that with nothing of its owner beside it
each task's count is the number of points in its collection until the task has
removed them, and of the points it took afterwards (`CountsHold`). The points
removed are then cut into one part for each ended task, and `SumOfParts` says
that a set has as many elements as its parts together, by a bijection with
`counts`; so no induction over the tasks is needed. Tasks are finitely many,
because a purge lists its collections once (`FewTasks`). `RequestKeepsRight` and
`OthersKeepRight` say that other owners' requests and purges disturb none of it.

### The model cache

`ModelCacheProofs` proves, for any requests, models, workers and restarts,
`TypeOK` (`CacheTypes`), `OneLoadAtATime` (`MutualExclusion`), `LoadedAtMostOnce`
(`LoadOnce`) and `OneInstance` (`SharedInstance`); and, what no run checks, that a
pod told to preload serves only with its default model there, `WarmWhenServing`
(`WarmStart`), which follows from the order of the lifespan.
Its invariant says that a job between `acquire` and `release` holds the lock, that
a job at `load` found no model under the lock, and that a model was loaded once if
it is there and never if it is not.

### The refinement

`SequentialProofs` proves `Refinement == SequentialSpec => ServedAtOnce`: for any
requests, owners, widths, workloads and failures, and either value of
`DropEmpty`, requests that come one at a time are served as `EmbeddingService`
promises. It assumes `MaxInFlight = 1` and that `Absent` is no collection
(`SequentialAssumption`), besides `RepositoryAssumption`.

The invariant `SInv` is `IInv` with two more facts. Nothing but the collection of
the request in flight has changed since it came (`OnlyItsOwn`). And the request
`Knows`, at each of its labels, what that collection was when it came (`Then`)
and what it is now (`Now`): at `"upsert"`, for instance, a store's collection is
what it was or was made empty, and what an update read is still what is there; at
`"drop"`, a bulk delete has removed everything. At `"respond"` it knows that
`Serves` relates what was, what is and its answer.

Each action has a lemma that it `Advances`: the request knows at its next label
what it must, and no other collection changes. `AdvanceIsHidden` turns that into
a stutter of the service, `EndServes` turns `respond` and `Fail` into the step that
serves the request (`PartlyDone` says of a failure at any label that it is one of
those `Fails` allows), and `NextServes` puts them together. Three facts carry
the data. By `IInv`, what a collection holds carries its owner's name and its
width (`OwnPoints`), so the `user_id` condition of a filter excludes nothing.
`FoundIsSelected` and `SelectorSelects` then say that the filters of `filters.py`
select what the service promises. `WithoutFacts` says that an equal count, taken
before a deletion, means that all was selected.

### Startup

`LifespanProofs` proves `NothingForgotten == LifespanSpec => []MissingIndexIsOwed`
for any number of pods, starts, requests, collections and payload indexes, from
`LifespanAssumption` (there is a pod and an index; the special values are no pods
and no names). The invariant adds little: a request has tried no index before it
created its collection (`RequestsOK`), and only a pod that indexes is at a
collection (`PodsOK`). `StepEffect` says what a request's step may do to a
collection's indexes: add, or start anew with the creator owing all of them.
`StepOwes` says that a request which owed an index owes it still or has tried it.
A crash hands what was owed to the next start of that pod, which lists all
collections before it serves.

### Reranking

`RerankProofs` proves, for any vectors, similarities, scores, `lambda` and
`top_k` that `RerankAssumption` admits (a vector is as similar to itself, and to
nothing else, as `One`; the zero vector to nothing):

| Theorem | States |
|---|---|
| `RerankInvariance`, `ResultsInvariance` | the invariants `LoopInv` and `RInv` |
| `MMRByDefinition` | `[]FollowsMMR` |
| `ResultsFall` | `[]ScoresFall`, for every method |
| `LambdaAtItsEnds` | `[]LambdaEnds`, `PureRelevance` with embeddings and without |
| `RerankTypes` | `[]RerankTypeOK` |
| `AnswersAreFull` | `[]FullAnswer`, its part `CutDropsLeastSimilar` by `CutKeepsMostSimilar` |
| `SortsAreStable` | `[]TiesKeepOrder`, for every sort |

`LoopInv` says that after every pick `best_sim` holds, for each candidate, the
greatest similarity to anything picked (`MaximaOK`), so what `objective` maximises
is the definition's worth of the candidate (`Worth`). Scores fall because a
maximum over more picks is no smaller, so a candidate is never worth more in a later
round than in the one that passed it over (`FallsByMaxima`).

`RInv` adds what the methods that sort in one step leave behind (`ResultsOK`). Who
precedes whom is a strict total order, so places tell candidates apart, and a
finite set with distinct places below its size fills all of them: `sorted` is a
permutation in which an earlier place means a score no lower. Scores that fall
already are left as they are, which gives `PureRelevance` for the fallback of MMR;
and since the search answers the most similar first, whoever has a greater score
than a candidate stands before it, which gives `CutDropsLeastSimilar`. The permutation
lists every candidate (`SortLists`), so what is beyond `top_k` comes after all results
(`TopPrefers`), which gives `TiesKeepOrder`. For `ShortOnlyIfAll`, a sort lists as many as
there are or as are asked for; and a loop of MMR that has made as many different picks
as there are candidates has picked them all (`DistinctPicksCover`).

### The collection list

`ListingProofs` proves, for any walks, page size and requests:

| Theorem | States |
|---|---|
| `ListingInvariance` | the inductive invariant `LInv` |
| `Skips` | `[]SkipsNeedADrop` |
| `Repeats` | `[]RepeatsNeedACreation` |
| `Errs` | `[]ErrsNeedADrop` |

from `ListingAssumption`, which says among others that slugs are ranked without
ties and that `None` is no offset. A name's `Place` is the number of the owner's
names before it; they are finitely many, since a store created each of them
(`FewCollections`). `Ahead`: as long as nobody before it was dropped,
a collection that is owed to the client has a place at the offset or after it.
`Behind`: as long as nobody before it was created, one that was given has a place
before the offset. A place can shrink only when a name before it goes
(`PlaceGrows`), and a page takes those from the offset up to the next one.
`PageKept` says that a collection of the page which is not there any more was
dropped since it was listed; so a statistics call that raises, if it did not fail, is
about a collection dropped since (`ErrsNeedADrop` is about walks not in `faulted`).

### The migration script

`MigrationProofs` proves, for any number of legacy collections, points, users and
runs, any batch size, and any requests beside the script:

| Theorem | States |
|---|---|
| `MigrationInvariance` | the inductive invariant `MInv` |
| `NobodyGetsAnothersPoints` | `[]MigratedGoHome` |
| `RunsCopyAll` | `[]RunCopiesAll` |
| `OneRunUndoesNothing` | `[]RestoredNeedsRerun` |
| `TypesBeside` | `[]TypeOK` beside the script |
| `TenantsApartBeside` | `[]TenancyBesideScript`: what `Tenancy` and `Confidentiality` say of owners, of the points of requests beside the script |

It assumes `RepositoryAssumption` and `MigrationAssumption`: the list of legacy names
and the list of users have no repetition, ids (uuids) tell legacy points apart and
belong to no request, and every user a point names is in the list. Nothing is assumed
of the points' widths, of legacy names without a slug, or of two legacy names that
share one.

`IInv` does not hold beside the script, since a migrated point was stored by no
request. What is used of the service is `Recorded`, and what its steps do to single
points (`PointSource`, `PointChanges`, `RemovedHere`, `ReadsWhatIsHeld`, `AwayStays`),
which need no more. `MInv` adds:

* `ScriptOK`: what the script knows at each call; a run that is done is past all
  collections, and only the first run finds the script at its beginning.
* `Dormant`: no request has the id of a legacy point.
* `AtHome`: a legacy point is held only where it belongs, with its user's name, and
  is read, shown and removed only by requests that address that collection
  (`Lives`). This carries `MigratedGoHome`: a request writes a legacy point only by an
  update that has read it (`WrittenOver`), so it writes it where it was, and the
  script writes only to its user's target (`TargetFacts`).
* `Copied`: while a run that writes goes on, every point that belongs to somebody and
  is `Behind` the script has `Arrived`, or some request has its removal on record.
  This is inductive because every step that takes a point away records it, and it
  gives `RunCopiesAll`, since a run that is done has everything behind it. The part
  about loops is that going on passes nobody by: `NextUserCovers` for users, and
  `BatchCovers` for a batch, the last of which takes in all that is left, because the
  place of a point is below the number of points (`PlaceBelow`).
* `FirstRun`: in the first run, what is not behind the script is `Untouched`: held
  nowhere, read, updated or removed by nobody. What a batch writes was not behind it
  before (`BatchAhead`) and is behind it now (`BatchBehind`), so it writes over
  nothing a user saw. And once a point was copied, an update that succeeds leaves its
  own time stamp on it (`UpdateAnswered`), and a removal leaves it away unless an
  overlapping update holds a copy (`CopiedOnce`). A second run begins before what the
  first one copied, which is where the invariant ends.

A step of the service keeps `MInv` by `RequestStep`; each action of the script has a
lemma of its own, and `MigrationNext` combines them.

`TenantsApartBeside` is about all other points. Its invariant `SInv` adds that a
request's point is held, read and shown where its store put it (`AtStore`), which a
request's step keeps for the reasons it keeps legacy points at home, and a step of
the script because it touches legacy ids only (`ScriptSpares`). No run checks this
property; it was tried out on the instance of `migration` before it was proved.

### Only model-checked

Liveness under fairness is out of the prover's reach: `EveryRequestIsAnswered`,
`EveryPurgeEnds`, `EveryRerankEnds`, `EveryPodServes` and `IndexesConverge` stay with
TLC. Every invariant, every action property and the refinement that a passing run
checks are proved.

## Not modelled

* **Authentication** (`core/security.py`). One pure check of a token per request:
  the JWT library verifies it, and the code turns its claims into an `Owner` or a
  401. It keeps no state and meets no other component but in the `Owner`, from
  which every module here starts.
* **Characters of names** (`db/naming.py`). `slugify`, the truncation to 40
  characters and the digest work on single characters. The models take what the
  rest of the code relies on: a slug is a function of the text or nothing, and
  owners have different namespaces.
* **Statistics** of a single collection (topics, sampled fields, truncation flags).
  They only read, in one request; `Listing` models their calls within a list.
* **Health check, middleware, list of rerank methods, settings**: no effects.
* **Numbers.** Cosine similarity in float32, and which scores a cross-encoder
  gives; `Rerank` computes exactly.
* **Late effects of requests.** A call that timed out may take effect after the
  500 was sent. This is modelled for purges (`LateRemoval`) and not for the other
  requests.
* **OpenAPI export and benchmarks** keep no state of the service.

## What is left

1. **TenantStore**: what one owner can observe, with everybody else's requests as
   stuttering, and `Repository` shown to implement it for any interleaving.
2. Late effects of requests, as for purges.
3. Widths beside the script: Qdrant refuses a vector of another width, but nothing
   says that the `vector_dim` in a legacy payload is the width of its vector.

## Running it

    tlc -workers 4 -config tenancy.cfg MCRepository
    tlapm RepositoryProofs.tla

Each configuration is named after its run. `purge` and `ends` go with `MCPurge`,
`listing` with `MCListing`, `one_at_a_time` with `MCSequential`, `startup` with
`MCLifespan`, `migration` with `MCMigration`, `rerank` with `MCRerank`, `model_cache`
with `MCModelCache`, the others with `MCRepository`. The proof modules are
`RepositoryProofs`, `SequentialProofs`, `PurgeProofs`, `ListingProofs`,
`LifespanProofs`, `MigrationProofs`, `RerankProofs` and `ModelCacheProofs`.
