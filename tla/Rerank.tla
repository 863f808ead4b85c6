------------------------------- MODULE Rerank -------------------------------
(***************************************************************************)
(* POST /v1/rerank: the candidates a search fetched are put into a new     *)
(* order by one of three methods and cut to top_k                          *)
(* (src/app/reranking, and the handler in src/app/api/v1/search.py).  Maximal*)
(* Marginal Relevance is modelled pick by pick, as the loop of mmr_rerank; *)
(* a sort is one step, and so is the scoring by a cross-encoder, whose     *)
(* scores may be anything.  Which model scores, and how it is loaded, is   *)
(* module ModelCache.                                                      *)
(*                                                                         *)
(* A candidate is a position in the list that Qdrant returned.  Arithmetic *)
(* is exact: similarities, scores and lambda are integers, in units of     *)
(* which One is the cosine of a vector with itself and the weight 1.       *)
(***************************************************************************)
EXTENDS Integers, Sequences, FiniteSets, SequencesExt

CONSTANTS
    None,
    Vector, Zero,       \* directions, and the vector that has none
    Sim,                \* cosine_sim, zero when either vector is Zero
    One,
    Score,              \* similarities to the query, as Qdrant reports them
    Lambda,             \* values of lambda, from 0 to One
    TopK, FetchK,       \* values of top_k and fetch_k
    Relevance,          \* what a cross-encoder may answer
    MaxCandidates       \* settings.rerank_max_candidates

ASSUME RerankAssumption ==
    /\ Zero \in Vector /\ None \notin Vector /\ None \notin Int
    /\ One \in Nat \ {0}
    /\ Sim \in [Vector -> [Vector -> Int]]
    /\ \A v, w \in Vector \ {Zero} : Sim[v][w] =< One /\ (Sim[v][w] = One <=> v = w)
    /\ \A v \in Vector : Sim[v][Zero] = 0 /\ Sim[Zero][v] = 0
    /\ Score \subseteq Int /\ Relevance \subseteq Int
    /\ Lambda \subseteq 0..One
    /\ TopK \subseteq Nat \ {0} /\ FetchK \subseteq Nat
    /\ MaxCandidates \in Nat \ {0}

Method == {"mmr", "cosine_rescore", "cross_encoder"}

RerankRequest ==
    [method : Method, query : Vector, top_k : TopK, fetch_k : FetchK,
     lambda : Lambda]

\* A hit of the search; embedding is None if the vectors got lost.
Hit == [embedding : Vector \union {None}, score : Score]

VARIABLES
    pc,             \* what the handler does next
    request,        \* the validated body
    candidates,     \* the hits, in the order Qdrant returned them
    available,      \* mmr: the candidates not yet picked
    best_sim,       \* mmr: per candidate, its likeness to the picks; None is -inf
    ranking         \* the results: candidates with their rerank_score

vars == <<pc, request, candidates, available, best_sim, ranking>>

Ranked == [index : Nat \ {0}, rerank_score : Int]
entry(i, score) == [index |-> i, rerank_score |-> score]

score_of(i) == candidates[i].score
embedding(i) == candidates[i].embedding

Init ==
    /\ pc = "fetch"
    /\ request \in RerankRequest
    /\ candidates = << >>
    /\ available = {}
    /\ best_sim = << >>
    /\ ranking = << >>

Descending(hits) ==
    \A i, j \in DOMAIN hits : i < j => hits[i].score >= hits[j].score

\* Qdrant returns the closest points first, with their vectors or without.
fetch_candidates ==
    /\ pc = "fetch"
    /\ \E n \in 0..request.fetch_k : \E hits \in [1..n -> Hit] :
        /\ Descending(hits)
        /\ \/ \A i \in 1..n : hits[i].embedding # None
           \/ \A i \in 1..n : hits[i].embedding = None
        /\ candidates' = hits
        /\ available' = 1..n
        /\ best_sim' = [i \in 1..n |-> None]
        /\ pc' = IF n = 0 THEN "done" ELSE request.method
    /\ UNCHANGED <<request, ranking>>

\* There are embeddings to compare.
Embedded == candidates # << >> /\ embedding(1) # None

-----------------------------------------------------------------------------
(* Orders: sorted() and list.sort() keep the order of equal keys *)

\* Mutant: sorted upwards and turned round.
Precedes_reversed(score, i, j) ==
    score[i] > score[j] \/ (score[i] = score[j] /\ i > j)

Precedes(score, i, j) ==
    score[i] > score[j] \/ (score[i] = score[j] /\ i < j)

\* A candidate's place is the number of those that precede it.
place(score, i) == Cardinality({j \in DOMAIN score : Precedes(score, j, i)})

sorted(score) ==
    [k \in 1..Cardinality(DOMAIN score) |->
        CHOOSE i \in DOMAIN score : place(score, i) = k - 1]

\* The best of the candidates that have a score, at most top_k of them.
top(score) ==
    LET order == sorted(score)
        size  == IF request.top_k < Len(order) THEN request.top_k ELSE Len(order)
    IN  [k \in 1..size |-> entry(order[k], score[order[k]])]

Finish(results) ==
    /\ ranking' = results
    /\ pc' = "done"
    /\ UNCHANGED <<request, candidates, available, best_sim>>

stored_scores == [i \in DOMAIN candidates |-> score_of(i)]

-----------------------------------------------------------------------------
(* Maximal Marginal Relevance *)

mmr_fallback ==
    /\ pc = "mmr" /\ ~Embedded
    /\ Finish(top(stored_scores))

wanted ==
    IF request.top_k < Len(candidates) THEN request.top_k ELSE Len(candidates)

\* Scaled by One in every round; the first has no diversity to subtract.  The
\* mutant swaps the two weights.
objective_swapped(i) ==
    IF ranking = << >> THEN One * score_of(i)
    ELSE (One - request.lambda) * score_of(i) - request.lambda * best_sim[i]

objective(i) ==
    IF ranking = << >> THEN One * score_of(i)
    ELSE request.lambda * score_of(i) - (One - request.lambda) * best_sim[i]

\* np.maximum; the mutant keeps the likeness to the latest pick only.
latest(old, new) == new
maximum(old, new) == IF old = None \/ new > old THEN new ELSE old

\* np.argmax: the first of the largest.
argmax(pick) ==
    /\ pick \in available
    /\ \A i \in available :
        objective(i) < objective(pick) \/ (objective(i) = objective(pick) /\ pick =< i)

\* Mutant: a pick stays available.
still_available(pick) == available
without(pick) == available \ {pick}

mmr_pick ==
    /\ pc = "mmr" /\ Embedded
    /\ \E pick \in available :
        /\ argmax(pick)
        /\ ranking' = Append(ranking, entry(pick, objective(pick)))
        /\ available' = without(pick)
        /\ best_sim' = [i \in DOMAIN candidates |->
                          maximum(best_sim[i], Sim[embedding(i)][embedding(pick)])]
        /\ pc' = IF Len(ranking) + 1 >= wanted THEN "done" ELSE "mmr"
    /\ UNCHANGED <<request, candidates>>

-----------------------------------------------------------------------------
(* The methods that sort *)

cosine_scores ==
    IF Embedded /\ request.query # Zero
    THEN [i \in DOMAIN candidates |-> Sim[embedding(i)][request.query]]
    ELSE stored_scores

cosine_rescore ==
    /\ pc = "cosine_rescore"
    /\ Finish(top(cosine_scores))

\* Only so many candidates are scored; the mutant keeps the wrong end.
cut_front ==
    {i \in DOMAIN candidates : i > Len(candidates) - MaxCandidates}
cut == {i \in DOMAIN candidates : i =< MaxCandidates}

cross_encoder_rerank ==
    /\ pc = "cross_encoder"
    /\ \E scores \in [cut -> Relevance] : Finish(top(scores))

Done == pc = "done" /\ UNCHANGED vars

Next ==
    \/ fetch_candidates \/ mmr_fallback \/ mmr_pick
    \/ cosine_rescore \/ cross_encoder_rerank \/ Done

Spec == Init /\ [][Next]_vars

-----------------------------------------------------------------------------
(* What the results promise *)

Picked == {ranking[k].index : k \in DOMAIN ranking}
PickedBefore(k) == {ranking[j].index : j \in 1..(k - 1)}

\* Type correctness; what is picked is no longer available, and nothing is
\* picked twice.
RerankTypeOK ==
    /\ pc \in Method \union {"fetch", "done"}
    /\ request \in RerankRequest
    /\ candidates \in Seq(Hit)
    /\ available \subseteq DOMAIN candidates
    /\ best_sim \in [DOMAIN candidates -> Int \union {None}]
    /\ ranking \in Seq(Ranked)
    /\ Picked \subseteq DOMAIN candidates
    /\ request.method = "mmr" /\ Embedded => available = DOMAIN candidates \ Picked

\* The definition of MMR: what the candidate i is worth as the k-th result,
\* given the results before it.
Likeness(i, earlier) == Max({Sim[embedding(i)][embedding(j)] : j \in earlier})

Worth(i, k) ==
    IF k = 1 THEN One * score_of(i)
    ELSE request.lambda * score_of(i)
            - (One - request.lambda) * Likeness(i, PickedBefore(k))

Diversifies == request.method = "mmr" /\ Embedded

\* Each result carries its MMR value, and no candidate that was left was worth
\* more, nor an earlier one as much: the running maximum that the loop keeps is
\* the maximum over all results picked so far (mmr_rerank).
FollowsMMR ==
    Diversifies =>
        \A k \in DOMAIN ranking :
            LET result == ranking[k]
            IN  /\ result.rerank_score = Worth(result.index, k)
                /\ \A i \in DOMAIN candidates \ PickedBefore(k) :
                    \/ Worth(i, k) < result.rerank_score
                    \/ Worth(i, k) = result.rerank_score /\ result.index =< i

\* rerank_score never increases down the list, "what the ordering is actually
\* based on" (RerankedItem); MMR's first score is on another scale than the
\* others, which alone fall from the second result on.
ScoresFall ==
    \A j, k \in DOMAIN ranking :
        j < k /\ (Diversifies => j > 1)
            => ranking[j].rerank_score >= ranking[k].rerank_score

\* With lambda = 1 the results are the incoming ranking, ties included, with
\* embeddings or without ("pure relevance", mmr_rerank and _mmr_fallback).
PureRelevance ==
    request.method = "mmr" /\ request.lambda = One =>
        \A k \in DOMAIN ranking : ranking[k].index = k

\* With lambda = 0 a copy of an earlier result comes only when nothing but
\* copies is left ("pure diversity", mmr_rerank).
Copies(i, earlier) ==
    \E j \in earlier : embedding(i) = embedding(j) /\ embedding(i) # Zero

PureDiversity ==
    Diversifies /\ request.lambda = 0 =>
        \A k \in DOMAIN ranking :
            Copies(ranking[k].index, PickedBefore(k)) =>
                \A i \in DOMAIN candidates \ PickedBefore(k) :
                    Copies(i, PickedBefore(k))

\* At the ends of lambda one term of the objective vanishes and the order is that
\* of the other alone (mmr_rerank).
LambdaEnds == PureRelevance /\ PureDiversity

\* A cross-encoder only ranks candidates that the vector search ranked among
\* the first MaxCandidates ("the tail we drop is the least similar",
\* cross_encoder_rerank).
CutDropsLeastSimilar ==
    request.method = "cross_encoder" =>
        \A i \in Picked :
            Cardinality({j \in DOMAIN candidates : score_of(j) > score_of(i)})
                < MaxCandidates

\* An answer is no longer than top_k, and shorter only when it lists every
\* candidate there is, or that a cross-encoder scores: the cut to
\* rerank_max_candidates may leave less than top_k, and nothing else does
\* (cross_encoder_rerank, and wanted in mmr_rerank).
ShortOnlyIfAll ==
    pc = "done" =>
        /\ Len(ranking) =< request.top_k
        /\ Len(ranking) < request.top_k =>
            \A i \in DOMAIN candidates \ Picked :
                request.method = "cross_encoder" /\ i > MaxCandidates

\* An answer is as long as it can be, and what the cut keeps out of it is what
\* the vector search found least similar (mmr_rerank, cross_encoder_rerank).
FullAnswer == CutDropsLeastSimilar /\ ShortOnlyIfAll

\* Where a method sorts, results of equal score come in the order of the vector
\* search; and what a rescoring leaves out is worth less than every result, or
\* as much and was found later (the sorts of vector.py and cross_encoder.py).
TiesKeepOrder ==
    ~Diversifies =>
        /\ \A j, k \in DOMAIN ranking :
            j < k /\ ranking[j].rerank_score = ranking[k].rerank_score
                => ranking[j].index < ranking[k].index
        /\ request.method = "cosine_rescore" =>
            \A k \in DOMAIN ranking, i \in DOMAIN candidates \ Picked :
                \/ cosine_scores[i] < ranking[k].rerank_score
                \/ /\ cosine_scores[i] = ranking[k].rerank_score
                   /\ ranking[k].index < i

=============================================================================
