---------------------------- MODULE RerankProofs ----------------------------
(***************************************************************************)
(* Maximal Marginal Relevance as mmr_rerank computes it is MMR as it is    *)
(* defined, for any vectors, similarities, scores, lambda and top_k; and   *)
(* what the docs say of its scores and of lambda = 0 and 1 follows.  The   *)
(* methods that sort are stable sorts of any scores, so the places of the  *)
(* candidates number them from 0.                                          *)
(***************************************************************************)
EXTENDS Rerank, FiniteSetTheorems, TLAPS

\* The candidates keep the order of the search, and the handler runs the
\* method it was asked for.
CandidatesOK ==
    /\ request \in RerankRequest
    /\ candidates \in Seq(Hit)
    /\ Descending(candidates)
    /\ pc \in Method => pc = request.method
    /\ pc = "fetch" => candidates = << >> /\ ranking = << >>
    /\ Embedded => \A i \in DOMAIN candidates : embedding(i) \in Vector

PicksOK ==
    /\ ranking \in Seq(Ranked)
    /\ Picked \subseteq DOMAIN candidates
    /\ available = DOMAIN candidates \ Picked
    /\ \A j, k \in DOMAIN ranking : j # k => ranking[j].index # ranking[k].index

\* m is the largest similarity of i to an earlier pick.
Peak(m, i, earlier) ==
    /\ \E j \in earlier : m = Sim[embedding(i)][embedding(j)]
    /\ \A j \in earlier : m >= Sim[embedding(i)][embedding(j)]

\* The running maximum, and that there was a maximum in every earlier round.
MaximaOK ==
    /\ ranking = << >> => best_sim = [i \in DOMAIN candidates |-> None]
    /\ ranking # << >> =>
        /\ best_sim \in [DOMAIN candidates -> Int]
        /\ \A i \in DOMAIN candidates : Peak(best_sim[i], i, Picked)
    /\ \A k \in DOMAIN ranking : k > 1 =>
        \A i \in DOMAIN candidates : \E m \in Int : Peak(m, i, PickedBefore(k))

InOrder == request.lambda = One => \A k \in DOMAIN ranking : ranking[k].index = k

LoopInv == CandidatesOK /\ (Diversifies => PicksOK /\ MaximaOK /\ FollowsMMR /\ InOrder)

\* The types, and what the results of a sort are: none before it, candidates
\* with falling scores after it, in their old order for a pure relevance, and
\* from the front of the list for a cross-encoder; and while the handler goes
\* on, there are results left to find.
ResultsOK ==
    /\ pc \in Method \union {"fetch", "done"}
    /\ available \subseteq DOMAIN candidates
    /\ best_sim \in [DOMAIN candidates -> Int \union {None}]
    /\ ranking \in Seq(Ranked) /\ Picked \subseteq DOMAIN candidates
    /\ ~Diversifies =>
        /\ \A j, k \in DOMAIN ranking :
            j < k => ranking[j].rerank_score >= ranking[k].rerank_score
        /\ request.method = "mmr" => InOrder
    /\ request.method = "cross_encoder" => \A i \in Picked : i =< MaxCandidates
    /\ pc \in Method => Len(ranking) < wanted
    /\ ShortOnlyIfAll /\ TiesKeepOrder

RInv == LoopInv /\ ResultsOK

-----------------------------------------------------------------------------
(* Maxima *)

\* The value a running maximum holds is the greatest similarity to what was picked.
LEMMA PeakIsMax ==
    ASSUME NEW i, NEW earlier, NEW m \in Int, Peak(m, i, earlier),
           \A j \in earlier : Sim[embedding(i)][embedding(j)] \in Int
    PROVE  Likeness(i, earlier) = m
<1> DEFINE S == {Sim[embedding(i)][embedding(j)] : j \in earlier}
<1>1. m \in S /\ \A y \in S : y \in Int /\ m >= y
  BY DEF Peak
<1> HIDE DEF S
<1>2. ASSUME NEW x \in S, \A y \in S : x >= y
      PROVE  x = m
  <2>1. x >= m /\ m >= x /\ x \in Int
    BY <1>1, <1>2
  <2> QED
    BY <2>1
<1>3. Max(S) = m
  BY <1>1, <1>2 DEF Max
<1> QED
  BY <1>3 DEF Likeness, S

\* The lesser of two numbers.
LEMMA Lesser ==
    ASSUME NEW a \in Nat, NEW b \in Nat, NEW m, m = IF a < b THEN a ELSE b
    PROVE  m \in Nat /\ m =< a /\ m =< b /\ (m < a => m = b /\ ~(a < b))
<1>1. CASE a < b
  BY <1>1
<1>2. CASE ~(a < b)
  BY <1>2
<1> QED
  BY <1>1, <1>2

\* A weight keeps the order of what it weighs.
LEMMA Weighted ==
    ASSUME NEW w \in Nat, NEW x \in Int, NEW y \in Int, x =< y
    PROVE  w * x =< w * y
  OBVIOUS

\* What the similarities, scores and weights of an embedded list are.
LEMMA Numbers ==
    ASSUME CandidatesOK, Embedded
    PROVE  /\ candidates \in Seq(Hit)
           /\ \A i \in DOMAIN candidates :
                /\ i \in Nat \ {0} /\ score_of(i) \in Int
                /\ \A j \in DOMAIN candidates : Sim[embedding(i)][embedding(j)] \in Int
           /\ request.lambda \in Nat /\ One - request.lambda \in Nat
           /\ One \in Nat \ {0}
<1>1. request.lambda \in 0..One /\ One \in Nat \ {0}
  BY RerankAssumption DEF CandidatesOK, RerankRequest
<1>2. candidates \in Seq(Hit) /\ \A i \in DOMAIN candidates : embedding(i) \in Vector
  BY DEF CandidatesOK
<1>3. ASSUME NEW i \in DOMAIN candidates
      PROVE  i \in Nat \ {0} /\ score_of(i) \in Int
  <2>1. candidates[i] \in Hit /\ i \in Nat \ {0}
    BY <1>2
  <2> QED
    BY <2>1, RerankAssumption DEF Hit, score_of
<1>4. \A i, j \in DOMAIN candidates : Sim[embedding(i)][embedding(j)] \in Int
  BY <1>2, RerankAssumption
<1>5. request.lambda \in Nat /\ One - request.lambda \in Nat
  BY <1>1
<1> QED
  BY <1>1, <1>2, <1>3, <1>4, <1>5

\* With the loop's invariant, the loop's objective is the worth of the next
\* result.
LEMMA ObjectiveIsWorth ==
    ASSUME LoopInv, Diversifies, NEW i \in DOMAIN candidates
    PROVE  /\ objective(i) = Worth(i, Len(ranking) + 1)
           /\ objective(i) \in Int
<1>1. CandidatesOK /\ Embedded /\ PicksOK /\ MaximaOK
  BY DEF LoopInv, Diversifies
<1>2. score_of(i) \in Int /\ request.lambda \in Int /\ One \in Int
  BY <1>1, Numbers
<1>3. PickedBefore(Len(ranking) + 1) = Picked /\ Len(ranking) \in Nat
  BY <1>1 DEF PicksOK, PickedBefore, Picked
<1>4. CASE ranking = << >>
  BY <1>2, <1>4 DEF objective, Worth
<1>5. CASE ranking # << >>
  <2>1. best_sim[i] \in Int /\ Peak(best_sim[i], i, Picked)
    BY <1>1, <1>5 DEF MaximaOK
  <2>2. Likeness(i, Picked) = best_sim[i]
    <3>1. \A j \in Picked : Sim[embedding(i)][embedding(j)] \in Int
      BY <1>1, Numbers DEF PicksOK
    <3> QED
      BY <2>1, <3>1, PeakIsMax
  <2>3. Len(ranking) + 1 # 1
    BY <1>1, <1>5 DEF PicksOK
  <2> QED
    BY <1>2, <1>3, <1>5, <2>1, <2>2, <2>3 DEF objective, Worth
<1> QED
  BY <1>4, <1>5

-----------------------------------------------------------------------------
(* The stable sort *)

\* The keys of the n candidates a method sorts.
Keys(score, n) == n \in Nat /\ score \in [1..n -> Int]

\* Of two candidates one precedes the other, and has the smaller place.
LEMMA PlaceOrders ==
    ASSUME NEW score, NEW n, Keys(score, n), NEW i \in 1..n
    PROVE  /\ place(score, i) \in 0..(n - 1)
           /\ \A j \in 1..n :
                Precedes(score, i, j) => place(score, i) < place(score, j)
           /\ \A j \in 1..n : i = j \/ Precedes(score, i, j) \/ Precedes(score, j, i)
<1> DEFINE before(j) == {m \in 1..n : Precedes(score, m, j)}
<1>1. IsFiniteSet(1..n) /\ Cardinality(1..n) = n /\ DOMAIN score = 1..n
  BY FS_Interval DEF Keys
<1>2. ASSUME NEW j \in 1..n
      PROVE  /\ before(j) \subseteq 1..n /\ j \notin before(j)
             /\ IsFiniteSet(before(j)) /\ Cardinality(before(j)) \in 0..(n - 1)
             /\ place(score, j) = Cardinality(before(j))
  <2>1. before(j) \subseteq 1..n /\ j \notin before(j)
    BY DEF Precedes, Keys
  <2>2. place(score, j) = Cardinality(before(j))
    BY <1>1 DEF place
  <2> HIDE DEF before
  <2>3. /\ IsFiniteSet(before(j)) /\ Cardinality(before(j)) =< Cardinality(1..n)
        /\ Cardinality(1..n) = Cardinality(before(j)) => 1..n = before(j)
    BY <1>1, <2>1, FS_Subset
  <2>4. Cardinality(before(j)) \in Nat
    BY <2>3, FS_CardinalityType
  <2> QED
    BY <1>1, <2>1, <2>2, <2>3, <2>4 DEF Keys
<1>3. ASSUME NEW j \in 1..n, Precedes(score, i, j)
      PROVE  place(score, i) < place(score, j)
  <2>1. before(i) \subseteq before(j) /\ i \in before(j)
    BY <1>3 DEF Precedes, Keys
  <2>2. i \notin before(i)
    BY <1>2
  <2> HIDE DEF before
  <2>3. /\ Cardinality(before(i)) =< Cardinality(before(j))
        /\ Cardinality(before(i)) # Cardinality(before(j))
    BY <1>2, <2>1, <2>2, FS_Subset
  <2> QED
    BY <1>2, <2>3
<1>4. \A j \in 1..n : i = j \/ Precedes(score, i, j) \/ Precedes(score, j, i)
  BY DEF Precedes, Keys
<1> QED
  BY <1>2, <1>3, <1>4

\* Every place is some candidate's, so the sort lists n of them, each before
\* those it precedes.
LEMMA SortOrders ==
    ASSUME NEW score, NEW n, Keys(score, n)
    PROVE  /\ sorted(score) \in [1..n -> 1..n]
           /\ \A k \in 1..n : place(score, sorted(score)[k]) = k - 1
           /\ \A j, k \in 1..n :
                j < k => Precedes(score, sorted(score)[j], sorted(score)[k])
<1> DEFINE places == [i \in 1..n |-> place(score, i)]
<1>1. n \in Nat /\ DOMAIN score = 1..n
  BY DEF Keys
<1>2. /\ IsFiniteSet(1..n) /\ Cardinality(1..n) = n
      /\ IsFiniteSet(0..(n - 1)) /\ Cardinality(0..(n - 1)) = n
  <2>1. 0 \in Int /\ 1 \in Int /\ n \in Int /\ n - 1 \in Int /\ n >= 0
    BY <1>1
  <2>2. IsFiniteSet(1..n) /\ Cardinality(1..n) = IF 1 > n THEN 0 ELSE n - 1 + 1
    BY <2>1, FS_Interval
  <2>3. IsFiniteSet(0..(n - 1))
        /\ Cardinality(0..(n - 1)) = IF 0 > n - 1 THEN 0 ELSE n - 1 - 0 + 1
    BY <2>1, FS_Interval
  <2> QED
    BY <2>1, <2>2, <2>3
<1>3. places \in Injection(1..n, 0..(n - 1))
  <2>1. places \in [1..n -> 0..(n - 1)]
    BY PlaceOrders
  <2>2. ASSUME NEW i \in 1..n, NEW j \in 1..n, places[i] = places[j] PROVE i = j
    <3>1. place(score, i) \in Int /\ place(score, j) \in Int
      BY PlaceOrders
    <3> QED
      BY <2>2, <3>1, PlaceOrders
  <2> QED
    BY <2>1, <2>2 DEF Injection, IsInjective
<1>4. places \in Surjection(1..n, 0..(n - 1))
  <2> HIDE DEF places
  <2> QED
    BY <1>2, <1>3, FS_Injection
<1>5. ASSUME NEW k \in 1..n PROVE \E i \in 1..n : place(score, i) = k - 1
  <2>1. k - 1 \in 0..(n - 1)
    BY <1>1
  <2> QED
    BY <1>4, <2>1 DEF Surjection
<1>6. sorted(score) = [k \in 1..n |-> CHOOSE i \in 1..n : place(score, i) = k - 1]
  BY <1>1, <1>2 DEF sorted
<1>7. \A k \in 1..n : sorted(score)[k] \in 1..n /\ place(score, sorted(score)[k]) = k - 1
  BY <1>5, <1>6
<1>8. ASSUME NEW j \in 1..n, NEW k \in 1..n, j < k
      PROVE  Precedes(score, sorted(score)[j], sorted(score)[k])
  <2>1. place(score, sorted(score)[j]) < place(score, sorted(score)[k])
    BY <1>1, <1>7, <1>8
  <2>2. /\ sorted(score)[j] \in 1..n /\ sorted(score)[k] \in 1..n
        /\ place(score, sorted(score)[j]) = j - 1 /\ place(score, sorted(score)[k]) = k - 1
    BY <1>7
  <2> QED
    BY <1>1, <1>8, <2>1, <2>2, PlaceOrders
<1> QED
  BY <1>6, <1>7, <1>8

\* Scores that already fall keep their order.
LEMMA SortKeeps ==
    ASSUME NEW score, NEW n, Keys(score, n), \A i, j \in 1..n : i < j => score[i] >= score[j]
    PROVE  \A k \in 1..n : sorted(score)[k] = k
<1>1. ASSUME NEW i \in 1..n PROVE place(score, i) = i - 1
  <2>1. {j \in DOMAIN score : Precedes(score, j, i)} = 1..(i - 1)
    BY DEF Precedes, Keys
  <2>2. Cardinality(1..(i - 1)) = i - 1
    BY FS_Interval DEF Keys
  <2> QED
    BY <2>1, <2>2 DEF place
<1>2. ASSUME NEW k \in 1..n PROVE sorted(score)[k] = k
  <2>1. sorted(score)[k] \in 1..n /\ place(score, sorted(score)[k]) = k - 1
    BY SortOrders
  <2> QED
    BY <1>1, <2>1 DEF Keys
<1> QED
  BY <1>2

\* The results are candidates with their scores, which fall.
LEMMA TopSorts ==
    ASSUME NEW score, NEW n, Keys(score, n), request.top_k \in Nat
    PROVE  /\ top(score) \in Seq(Ranked) /\ Len(top(score)) =< n
           /\ \A k \in DOMAIN top(score) :
                /\ k \in 1..n /\ top(score)[k].index = sorted(score)[k]
                /\ top(score)[k].index \in 1..n
           /\ \A j, k \in DOMAIN top(score) :
                j < k => top(score)[j].rerank_score >= top(score)[k].rerank_score
<1> DEFINE order == sorted(score)
           size == IF request.top_k < Len(order) THEN request.top_k ELSE Len(order)
           result == [k \in 1..size |-> entry(order[k], score[order[k]])]
<1>1. /\ order \in [1..n -> 1..n] /\ n \in Nat /\ score \in [1..n -> Int]
      /\ \A j, k \in 1..n : j < k => Precedes(score, order[j], order[k])
  BY SortOrders DEF Keys
<1> HIDE DEF order
<1>2. Len(order) = n
  BY <1>1
<1>3. size \in Nat /\ size =< n
  BY <1>1, <1>2
<1>4. top(score) = result
  BY DEF top, order
<1> HIDE DEF size
<1>5. ASSUME NEW k \in 1..size
      PROVE  /\ k \in 1..n /\ order[k] \in 1..n /\ result[k].index = order[k]
             /\ result[k].rerank_score = score[order[k]] /\ result[k] \in Ranked
  <2>1. k \in 1..n
    BY <1>1, <1>3
  <2>2. order[k] \in 1..n
    BY <1>1, <2>1
  <2>3. score[order[k]] \in Int
    BY <1>1, <2>2
  <2>4. result[k] = entry(order[k], score[order[k]])
    OBVIOUS
  <2>5. order[k] \in Nat \ {0}
    <3>1. n \in Nat /\ \A x \in 1..n : x \in Nat \ {0}
      BY <1>1
    <3> HIDE DEF size
    <3> QED
      BY <2>2, <3>1
  <2> HIDE DEF result
  <2> QED
    BY <2>1, <2>2, <2>3, <2>4, <2>5 DEF entry, Ranked
<1>6. result \in Seq(Ranked) /\ Len(result) = size /\ DOMAIN result = 1..size
  BY <1>3, <1>5
<1>7. \A j, k \in 1..size : j < k => result[j].rerank_score >= result[k].rerank_score
  <2> SUFFICES ASSUME NEW j \in 1..size, NEW k \in 1..size, j < k
               PROVE  score[order[j]] >= score[order[k]]
    BY <1>5
  <2>1. /\ Precedes(score, order[j], order[k]) /\ score[order[j]] \in Int
        /\ score[order[k]] \in Int
    BY <1>1, <1>5
  <2> QED
    BY <2>1 DEF Precedes
<1> HIDE DEF result
<1> QED
  BY <1>3, <1>4, <1>5, <1>6, <1>7 DEF order

\* Every candidate that is sorted is listed somewhere.
LEMMA SortLists ==
    ASSUME NEW score, NEW n, Keys(score, n), NEW i \in 1..n
    PROVE  \E p \in 1..n : sorted(score)[p] = i
<1>1. place(score, i) \in 0..(n - 1) /\ n \in Nat
  BY PlaceOrders DEF Keys
<1> DEFINE p == place(score, i) + 1
<1>2. p \in 1..n /\ place(score, i) = p - 1
  BY <1>1
<1> HIDE DEF p
<1>3. sorted(score)[p] \in 1..n /\ place(score, sorted(score)[p]) = place(score, i)
  BY <1>2, SortOrders
<1>4. sorted(score)[p] = i
  BY <1>1, <1>3, PlaceOrders
<1> QED
  BY <1>2, <1>4

\* As many results as there are to give, each before those that follow it and
\* before whatever is left out.
LEMMA TopPrefers ==
    ASSUME NEW score, NEW n, Keys(score, n), request.top_k \in Nat
    PROVE  /\ DOMAIN top(score) = 1..Len(top(score))
           /\ Len(top(score)) = IF request.top_k < n THEN request.top_k ELSE n
           /\ \A k \in DOMAIN top(score) :
                top(score)[k].rerank_score = score[top(score)[k].index]
           /\ \A j, k \in DOMAIN top(score) :
                j < k => Precedes(score, top(score)[j].index, top(score)[k].index)
           /\ \A i \in 1..n : \/ \E k \in DOMAIN top(score) : top(score)[k].index = i
                              \/ /\ request.top_k < n
                                 /\ \A k \in DOMAIN top(score) :
                                      Precedes(score, top(score)[k].index, i)
<1> DEFINE order == sorted(score)
           size == IF request.top_k < Len(order) THEN request.top_k ELSE Len(order)
           result == [k \in 1..size |-> entry(order[k], score[order[k]])]
<1>1. /\ order \in [1..n -> 1..n] /\ n \in Nat
      /\ \A j, k \in 1..n : j < k => Precedes(score, order[j], order[k])
      /\ \A i \in 1..n : \E p \in 1..n : order[p] = i
  BY SortOrders, SortLists DEF Keys
<1>2. top(score) = result
  BY DEF top
<1> HIDE DEF order
<1>3. Len(order) = n
  BY <1>1
<1>4. size \in Nat /\ size = IF request.top_k < n THEN request.top_k ELSE n
  BY <1>1, <1>3
<1> HIDE DEF size
<1>5. /\ DOMAIN result = 1..size /\ Len(result) = size
      /\ \A k \in 1..size : /\ k \in 1..n /\ result[k].index = order[k]
                            /\ result[k].rerank_score = score[order[k]]
  <2>1. DOMAIN result = 1..size /\ Len(result) = size
    BY <1>4
  <2>2. \A k \in 1..size : k \in 1..n
    BY <1>1, <1>4
  <2>3. \A k \in 1..size : /\ result[k].index = order[k]
                           /\ result[k].rerank_score = score[order[k]]
    BY DEF entry
  <2> QED
    BY <2>1, <2>2, <2>3
<1> HIDE DEF result
<1>6. ASSUME NEW i \in 1..n, \A k \in 1..size : order[k] # i
      PROVE  request.top_k < n /\ \A k \in 1..size : Precedes(score, order[k], i)
  <2>1. PICK p \in 1..n : order[p] = i
    BY <1>1
  <2>2. p \notin 1..size
    BY <1>6, <2>1
  <2>3. size < p /\ request.top_k < n
    BY <1>1, <1>4, <2>2
  <2>4. ASSUME NEW k \in 1..size PROVE Precedes(score, order[k], order[p])
    <3>1. k \in Int /\ p \in Int /\ size \in Int /\ 1 =< k /\ k =< size /\ n \in Int
          /\ p =< n
      BY <1>1, <1>4
    <3>2. k \in 1..n /\ k < p
      BY <2>3, <3>1
    <3> QED
      BY <1>1, <3>2
  <2> QED
    BY <2>1, <2>3, <2>4
<1>7. \A j, k \in 1..size : j < k => Precedes(score, result[j].index, result[k].index)
  BY <1>1, <1>5
<1>8. \A i \in 1..n : \/ \E k \in 1..size : result[k].index = i
                      \/ /\ request.top_k < n
                         /\ \A k \in 1..size : Precedes(score, result[k].index, i)
  <2> SUFFICES ASSUME NEW i \in 1..n, ~\E k \in 1..size : result[k].index = i
               PROVE  /\ request.top_k < n
                      /\ \A k \in 1..size : Precedes(score, result[k].index, i)
    OBVIOUS
  <2>1. \A k \in 1..size : order[k] # i
    BY <1>5
  <2>2. request.top_k < n /\ \A k \in 1..size : Precedes(score, order[k], i)
    BY <1>6, <2>1
  <2> QED
    BY <1>5, <2>2
<1>9. \A k \in 1..size : result[k].rerank_score = score[result[k].index]
  BY <1>5
<1> QED
  BY <1>2, <1>4, <1>5, <1>7, <1>8, <1>9

-----------------------------------------------------------------------------
(* The steps of the handler *)

\* Before the handler has fetched anything, the invariant holds.
LEMMA InitLoop == Init => LoopInv
<1> SUFFICES ASSUME Init PROVE LoopInv
  OBVIOUS
<1>1. candidates = << >> /\ ranking = << >> /\ pc = "fetch" /\ request \in RerankRequest
  BY DEF Init
<1>2. ~Embedded
  BY <1>1 DEF Embedded
<1>3. candidates \in Seq(Hit) /\ Descending(candidates)
  BY <1>1 DEF Descending
<1>4. pc \notin Method
  BY <1>1 DEF Method
<1>5. CandidatesOK
  BY <1>1, <1>2, <1>3, <1>4 DEF CandidatesOK
<1> QED
  BY <1>2, <1>5 DEF LoopInv, Diversifies

\* When mmr_rerank starts, every candidate is available and none has a maximum.
LEMMA FetchLoop ==
    ASSUME LoopInv, fetch_candidates
    PROVE  LoopInv'
<1>1. PICK n \in 0..request.fetch_k : \E hits \in [1..n -> Hit] :
        /\ Descending(hits)
        /\ \/ \A i \in 1..n : hits[i].embedding # None
           \/ \A i \in 1..n : hits[i].embedding = None
        /\ candidates' = hits /\ available' = 1..n
        /\ best_sim' = [i \in 1..n |-> None]
        /\ pc' = IF n = 0 THEN "done" ELSE request.method
  BY DEF fetch_candidates
<1>2. PICK hits \in [1..n -> Hit] :
        /\ Descending(hits)
        /\ \/ \A i \in 1..n : hits[i].embedding # None
           \/ \A i \in 1..n : hits[i].embedding = None
        /\ candidates' = hits /\ available' = 1..n
        /\ best_sim' = [i \in 1..n |-> None]
        /\ pc' = IF n = 0 THEN "done" ELSE request.method
  BY <1>1
<1>3. request' = request /\ ranking' = ranking /\ ranking = << >>
      /\ request \in RerankRequest
  BY DEF fetch_candidates, LoopInv, CandidatesOK
<1>4. n \in Nat
  BY <1>3, RerankAssumption DEF RerankRequest
<1>5. candidates' \in Seq(Hit) /\ DOMAIN candidates' = 1..n /\ Descending(candidates)'
  BY <1>2, <1>4 DEF Descending
<1>6. ASSUME Embedded', NEW i \in 1..n
      PROVE  embedding(i)' \in Vector
  <2>1. hits[i] \in Hit /\ 1 \in 1..n
    BY <1>2, <1>4
  <2>2. hits[1].embedding # None
    BY <1>2, <1>6 DEF Embedded, embedding
  <2> QED
    BY <1>2, <2>1, <2>2 DEF embedding, Hit
<1>7. request.method \in Method /\ pc' # "fetch" /\ "done" \notin Method
  BY <1>2, <1>3 DEF RerankRequest, Method
<1>8. CandidatesOK'
  BY <1>2, <1>3, <1>5, <1>6, <1>7 DEF CandidatesOK
<1>9. DOMAIN ranking' = {} /\ ranking' \in Seq(Ranked)
  BY <1>3
<1>10. Picked' = {} /\ PicksOK'
  BY <1>2, <1>5, <1>9 DEF Picked, PicksOK
<1>11. MaximaOK' /\ FollowsMMR' /\ InOrder'
  BY <1>2, <1>3, <1>5, <1>9 DEF MaximaOK, FollowsMMR, InOrder
<1> QED
  BY <1>8, <1>10, <1>11 DEF LoopInv

\* The methods that sort end the request, and are not MMR over embeddings.
LEMMA SortLoop ==
    ASSUME LoopInv, mmr_fallback \/ cosine_rescore \/ cross_encoder_rerank
    PROVE  LoopInv'
<1>1. pc' = "done" /\ UNCHANGED <<request, candidates>> /\ ~Diversifies
  BY DEF LoopInv, CandidatesOK, mmr_fallback, cosine_rescore,
         cross_encoder_rerank, Finish, Diversifies, Method
<1>2. CandidatesOK' /\ ~Diversifies'
  BY <1>1 DEF LoopInv, CandidatesOK, Descending, Diversifies, Embedded, embedding, Method
<1> QED
  BY <1>2 DEF LoopInv

\* A pick keeps what was said of the earlier results, and is what MMR asks of
\* the next.
LEMMA PickLoop ==
    ASSUME LoopInv, mmr_pick
    PROVE  LoopInv'
<1> DEFINE n == Len(ranking)
<1>1. Diversifies /\ Embedded /\ CandidatesOK /\ PicksOK /\ MaximaOK /\ FollowsMMR /\ InOrder
  BY DEF LoopInv, CandidatesOK, mmr_pick, Diversifies, Method
<1>2. PICK pick \in available :
        /\ argmax(pick)
        /\ ranking' = Append(ranking, entry(pick, objective(pick)))
        /\ available' = available \ {pick}
        /\ best_sim' = [i \in DOMAIN candidates |->
              maximum(best_sim[i], Sim[embedding(i)][embedding(pick)])]
        /\ pc' \in {"done", "mmr"}
  BY DEF mmr_pick, without
<1>3. UNCHANGED <<request, candidates>> /\ request.method = "mmr"
  BY <1>1 DEF mmr_pick, Diversifies
<1>4. pick \in DOMAIN candidates /\ pick \notin Picked /\ pick \in Nat \ {0}
  BY <1>1, <1>2, Numbers DEF PicksOK
<1>5. objective(pick) \in Int
  BY <1>1, <1>4, ObjectiveIsWorth
<1>6. entry(pick, objective(pick)) \in Ranked
  BY <1>4, <1>5 DEF entry, Ranked
<1>7. /\ n \in Nat /\ DOMAIN ranking = 1..n /\ DOMAIN ranking' = 1..(n + 1)
      /\ ranking' \in Seq(Ranked) /\ Len(ranking') = n + 1
      /\ \A k \in 1..n : ranking'[k] = ranking[k]
      /\ ranking'[n + 1] = entry(pick, objective(pick))
  BY <1>1, <1>2, <1>6 DEF PicksOK
<1>8. CandidatesOK' /\ Diversifies'
  BY <1>1, <1>2, <1>3
  DEF CandidatesOK, Descending, Diversifies, Embedded, embedding, Method
<1>9. \A k \in 1..(n + 1) : PickedBefore(k)' = PickedBefore(k)
  BY <1>7 DEF PickedBefore
<1>10. PickedBefore(n + 1) = Picked /\ Picked' = Picked \union {pick}
  BY <1>7 DEF PickedBefore, Picked, entry
<1>11. PicksOK'
  <2>1. Picked' \subseteq DOMAIN candidates' /\ available' = DOMAIN candidates' \ Picked'
    BY <1>1, <1>2, <1>3, <1>4, <1>10 DEF PicksOK
  <2>2. \A k \in 1..n : ranking[k].index # pick
    BY <1>4, <1>7 DEF Picked
  <2>3. \A j, k \in 1..(n + 1) : j # k => ranking'[j].index # ranking'[k].index
    BY <1>1, <1>7, <2>2, SMTT(30) DEF PicksOK, entry
  <2> QED
    BY <1>7, <2>1, <2>3 DEF PicksOK
<1>12. MaximaOK'
  <2> DEFINE Best(i) == maximum(best_sim[i], Sim[embedding(i)][embedding(pick)])
  <2>1. \A i, j \in DOMAIN candidates :
          /\ Sim[embedding(i)][embedding(j)] \in Int
          /\ embedding(i)' = embedding(i)
    BY <1>1, <1>3, Numbers DEF embedding
  <2>2. ASSUME NEW i \in DOMAIN candidates
        PROVE  Best(i) \in Int /\ Peak(Best(i), i, Picked \union {pick})
    <3>1. CASE ranking = << >>
      <4>1. Picked = {} /\ best_sim[i] = None
        BY <1>1, <3>1 DEF MaximaOK, Picked
      <4> QED
        BY <1>4, <2>1, <4>1 DEF maximum, Peak
    <3>2. CASE ranking # << >>
      <4>1. best_sim[i] \in Int /\ Peak(best_sim[i], i, Picked) /\ Picked \subseteq DOMAIN candidates
        BY <1>1, <3>2 DEF MaximaOK, PicksOK
      <4>2. best_sim[i] # None
        BY <4>1, RerankAssumption
      <4> QED
        BY <1>4, <2>1, <4>1, <4>2 DEF maximum, Peak
    <3> QED
      BY <3>1, <3>2
  <2>3. \A i \in DOMAIN candidates, m, S \in SUBSET DOMAIN candidates :
          Peak(m, i, S)' <=> Peak(m, i, S)
    BY <2>1 DEF Peak
  <2>4. \A i \in DOMAIN candidates' : best_sim'[i] \in Int /\ Peak(best_sim[i], i, Picked)'
    BY <1>1, <1>2, <1>3, <1>4, <1>10, <2>1, <2>2, SMTT(30) DEF PicksOK, Peak
  <2>5. best_sim' \in [DOMAIN candidates' -> Int] /\ ranking' # << >>
    BY <1>2, <1>3, <1>7, <2>4
  <2>6. ASSUME NEW k \in DOMAIN ranking', k > 1, NEW i \in DOMAIN candidates'
        PROVE  \E m \in Int : Peak(m, i, PickedBefore(k))'
    <3>1. \E m \in Int : Peak(m, i, PickedBefore(k))
      <4>1. CASE k \in 1..n
        BY <1>1, <1>3, <1>7, <2>6, <4>1 DEF MaximaOK
      <4>2. CASE k = n + 1
        <5>1. ranking # << >>
          BY <1>7, <2>6, <4>2
        <5> QED
          BY <1>1, <1>3, <1>10, <4>2, <5>1 DEF MaximaOK
      <4> QED
        BY <1>7, <4>1, <4>2
    <3>2. PickedBefore(k)' = PickedBefore(k) /\ PickedBefore(k) \subseteq DOMAIN candidates
      <4>1. k \in 1..(n + 1)
        BY <1>7, <2>6
      <4>2. PickedBefore(k) \subseteq Picked
        BY <1>7, <4>1 DEF PickedBefore, Picked
      <4> QED
        BY <1>1, <1>9, <4>1, <4>2 DEF PicksOK
    <3> QED
      BY <1>3, <2>1, <3>1, <3>2 DEF Peak
  <2> QED
    BY <2>4, <2>5, <2>6 DEF MaximaOK
<1>13. FollowsMMR'
  <2>1. ASSUME NEW k \in 1..(n + 1), NEW i \in DOMAIN candidates
        PROVE  Worth(i, k)' = Worth(i, k)
    BY <1>3, <1>9, <2>1 DEF Worth, Likeness, score_of, embedding
  <2>2. ASSUME NEW k \in 1..(n + 1), NEW i \in DOMAIN candidates \ PickedBefore(k)
        PROVE  LET result == ranking'[k]
               IN  /\ result.rerank_score = Worth(result.index, k)
                   /\ \/ Worth(i, k) < result.rerank_score
                      \/ Worth(i, k) = result.rerank_score /\ result.index =< i
    <3>1. CASE k \in 1..n
      BY <1>1, <1>7, <3>1 DEF FollowsMMR
    <3>2. CASE k = n + 1
      <4>1. i \in available /\ pick \in DOMAIN candidates
        BY <1>1, <1>4, <1>10, <2>2, <3>2 DEF PicksOK
      <4>2. objective(i) = Worth(i, k) /\ objective(pick) = Worth(pick, k)
        BY <1>1, <3>2, <4>1, ObjectiveIsWorth
      <4> QED
        BY <1>2, <1>7, <3>2, <4>1, <4>2 DEF argmax, entry
    <3> QED
      BY <1>7, <3>1, <3>2
  <2>3. \A k \in 1..(n + 1) : ranking'[k].index \in DOMAIN candidates
    BY <1>3, <1>7, <1>11 DEF PicksOK, Picked
  <2>4. ASSUME NEW k \in 1..(n + 1)
        PROVE  ranking'[k].rerank_score = Worth(ranking'[k].index, k)
    <3>1. CASE k \in 1..n
      BY <1>1, <1>7, <3>1 DEF FollowsMMR
    <3>2. CASE k = n + 1
      BY <1>1, <1>4, <1>7, <3>2, ObjectiveIsWorth DEF entry
    <3> QED
      BY <1>7, <3>1, <3>2
  <2>5. DOMAIN ranking' = 1..(n + 1) /\ DOMAIN candidates' = DOMAIN candidates
    BY <1>3, <1>7
  <2>6. ASSUME NEW k \in 1..(n + 1)
        PROVE  (ranking[k].rerank_score = Worth(ranking[k].index, k))'
    BY <2>1, <2>3, <2>4
  <2>7. ASSUME NEW k \in 1..(n + 1), NEW i \in DOMAIN candidates', i \notin PickedBefore(k)'
        PROVE  (\/ Worth(i, k) < ranking[k].rerank_score
                \/ Worth(i, k) = ranking[k].rerank_score /\ ranking[k].index =< i)'
    <3>1. i \in DOMAIN candidates \ PickedBefore(k)
      BY <1>9, <2>5, <2>7
    <3>2. Worth(i, k)' = Worth(i, k)
      BY <2>1, <3>1
    <3> QED
      BY <2>2, <3>1, <3>2
  <2>8. \A k \in DOMAIN ranking' : k \in 1..(n + 1)
    BY <2>5
  <2> SUFFICES ASSUME NEW k \in DOMAIN ranking'
               PROVE  /\ (ranking[k].rerank_score = Worth(ranking[k].index, k))'
                      /\ \A i \in DOMAIN candidates' \ PickedBefore(k)' :
                          (\/ Worth(i, k) < ranking[k].rerank_score
                           \/ /\ Worth(i, k) = ranking[k].rerank_score
                              /\ ranking[k].index =< i)'
    BY DEF FollowsMMR
  <2>9. k \in 1..(n + 1)
    BY <2>8
  <2> QED
    BY <2>6, <2>7, <2>9
<1>14. InOrder'
  <2> SUFFICES ASSUME request.lambda = One PROVE pick = n + 1
    BY <1>1, <1>3, <1>7 DEF InOrder, entry
  <2>1. Picked = 1..n /\ DOMAIN candidates = 1..Len(candidates) /\ Len(candidates) \in Nat
    <3>1. candidates \in Seq(Hit)
      BY <1>1, Numbers
    <3>2. \A k \in 1..n : ranking[k].index = k
      BY <1>1, <1>7 DEF InOrder
    <3>3. Picked = {ranking[k].index : k \in 1..n}
      BY <1>7 DEF Picked
    <3> HIDE DEF n
    <3> QED
      BY <3>1, <3>2, <3>3
  <2>2. n + 1 \in DOMAIN candidates /\ n + 1 \in available /\ n + 1 =< pick
    BY <1>1, <1>4, <1>7, <2>1 DEF PicksOK
  <2>3. \A i \in DOMAIN candidates : objective(i) = One * score_of(i)
    <3> SUFFICES ASSUME NEW i \in DOMAIN candidates, ranking # << >>
                 PROVE  objective(i) = One * score_of(i)
      BY DEF objective
    <3>1. best_sim[i] \in Int /\ score_of(i) \in Int /\ One \in Int
      BY <1>1, Numbers DEF MaximaOK
    <3>2. (One - request.lambda) * best_sim[i] = 0
      BY <3>1
    <3> QED
      BY <3>1, <3>2 DEF objective
  <2>4. score_of(n + 1) >= score_of(pick)
        /\ score_of(n + 1) \in Int /\ score_of(pick) \in Int /\ One \in Nat \ {0}
    BY <1>1, <1>4, <2>2, Numbers DEF CandidatesOK, Descending, score_of
  <2>5. objective(n + 1) >= objective(pick)
    BY <1>4, <2>2, <2>3, <2>4, Weighted
  <2>6. pick =< n + 1
    BY <1>1, <1>2, <1>4, <2>2, <2>5, ObjectiveIsWorth DEF argmax
  <2> QED
    BY <1>4, <1>7, <2>2, <2>6
<1> QED
  BY <1>8, <1>11, <1>12, <1>13, <1>14 DEF LoopInv

\* What MMR keeps from pick to pick (best_sim, the picks and their scores) is
\* always what its definition computes anew (mmr_rerank).
THEOREM RerankInvariance == Spec => []LoopInv
<1>1. Init => LoopInv
  BY InitLoop
<1>2. LoopInv /\ [Next]_vars => LoopInv'
  <2> SUFFICES ASSUME LoopInv, [Next]_vars PROVE LoopInv'
    OBVIOUS
  <2>1. CASE fetch_candidates
    BY <2>1, FetchLoop
  <2>2. CASE mmr_fallback \/ cosine_rescore \/ cross_encoder_rerank
    BY <2>2, SortLoop
  <2>3. CASE mmr_pick
    BY <2>3, PickLoop
  <2>4. CASE UNCHANGED vars
    <3>1. UNCHANGED <<pc, request, candidates, available, best_sim, ranking>>
      BY <2>4 DEF vars
    <3>2. CandidatesOK' <=> CandidatesOK
      BY <3>1 DEF CandidatesOK, Embedded, embedding, Descending
    <3>3. Diversifies' <=> Diversifies
      BY <3>1 DEF Diversifies, Embedded, embedding
    <3>4. PicksOK' <=> PicksOK
      BY <3>1 DEF PicksOK, Picked
    <3>5. MaximaOK' <=> MaximaOK
      BY <3>1 DEF MaximaOK, Peak, Picked, PickedBefore, embedding
    <3>6. FollowsMMR' <=> FollowsMMR
      <4>1. ASSUME NEW i, NEW k PROVE Worth(i, k)' = Worth(i, k)
        BY <3>1 DEF Worth, Likeness, PickedBefore, score_of, embedding
      <4>2. \A k : PickedBefore(k)' = PickedBefore(k)
        BY <3>1 DEF PickedBefore
      <4> QED
        BY <3>1, <3>3, <4>1, <4>2 DEF FollowsMMR
    <3>7. InOrder' <=> InOrder
      BY <3>1 DEF InOrder
    <3> QED
      BY <3>2, <3>3, <3>4, <3>5, <3>6, <3>7 DEF LoopInv
  <2> QED
    BY <2>1, <2>2, <2>3, <2>4 DEF Next, Done
<1> QED
  BY <1>1, <1>2, PTL DEF Spec

-----------------------------------------------------------------------------
(* The results of the sorts *)

\* All candidates have a score, or the first MaxCandidates of them.
CutKeys(scores) ==
    \E n \in Nat :
        /\ Keys(scores, n)
        /\ n =< Len(candidates) /\ n =< MaxCandidates
        /\ n < MaxCandidates => n = Len(candidates)

\* What is sorted are whole numbers, one for each candidate that takes part.
LEMMA SortsKeys ==
    ASSUME LoopInv
    PROVE  /\ Keys(stored_scores, Len(candidates))
           /\ Keys(cosine_scores, Len(candidates))
           /\ \A scores \in [cut -> Relevance] : CutKeys(scores)
           /\ request.top_k \in Nat /\ Len(candidates) \in Nat
           /\ DOMAIN candidates = 1..Len(candidates)
<1>1. /\ candidates \in Seq(Hit) /\ request.query \in Vector /\ request.top_k \in Nat
      /\ Embedded => \A i \in DOMAIN candidates : embedding(i) \in Vector
  BY RerankAssumption DEF LoopInv, CandidatesOK, RerankRequest
<1>2. Len(candidates) \in Nat /\ DOMAIN candidates = 1..Len(candidates)
  BY <1>1
<1>3. ASSUME NEW i \in DOMAIN candidates PROVE score_of(i) \in Int
  <2>1. candidates[i] \in Hit
    BY <1>1
  <2> QED
    BY <2>1, RerankAssumption DEF Hit, score_of
<1>4. Keys(stored_scores, Len(candidates))
  BY <1>2, <1>3 DEF Keys, stored_scores
<1>5. Keys(cosine_scores, Len(candidates))
  <2>1. CASE Embedded /\ request.query # Zero
    <3>1. \A i \in DOMAIN candidates : Sim[embedding(i)][request.query] \in Int
      BY <1>1, <2>1, RerankAssumption
    <3> QED
      BY <1>2, <2>1, <3>1 DEF Keys, cosine_scores
  <2>2. CASE ~(Embedded /\ request.query # Zero)
    BY <1>4, <2>2 DEF cosine_scores
  <2> QED
    BY <2>1, <2>2
<1>6. ASSUME NEW scores \in [cut -> Relevance]
      PROVE  CutKeys(scores)
  <2> DEFINE n == IF Len(candidates) < MaxCandidates THEN Len(candidates)
                  ELSE MaxCandidates
  <2>1. Len(candidates) \in Nat /\ MaxCandidates \in Nat
    BY <1>2, RerankAssumption
  <2>2. /\ n \in Nat /\ n =< Len(candidates) /\ n =< MaxCandidates
        /\ n < MaxCandidates => n = Len(candidates)
    BY <2>1
  <2>3. cut = 1..n
    BY <1>2, <2>1 DEF cut
  <2>4. Relevance \subseteq Int
    BY RerankAssumption
  <2>5. scores \in [1..n -> Int]
    <3> HIDE DEF n
    <3> QED
      BY <1>6, <2>3, <2>4
  <2>6. Keys(scores, n)
    BY <2>2, <2>5 DEF Keys
  <2> HIDE DEF n
  <2> QED
    BY <2>2, <2>6 DEF CutKeys
<1> QED
  BY <1>1, <1>2, <1>4, <1>5, <1>6

\* A method that sorts answers with candidates it sorted.
LEMMA SortResults ==
    ASSUME RInv, mmr_fallback \/ cosine_rescore \/ cross_encoder_rerank
    PROVE  ResultsOK'
<1>1. /\ UNCHANGED <<request, candidates, available, best_sim>> /\ pc' = "done"
      /\ request \in RerankRequest /\ pc = request.method
      /\ pc = "mmr" <=> mmr_fallback
      /\ pc = "cross_encoder" <=> cross_encoder_rerank
  BY DEF RInv, LoopInv, CandidatesOK, mmr_fallback, cosine_rescore,
     cross_encoder_rerank, Finish, Method
<1>2. Diversifies' <=> Diversifies
  BY <1>1 DEF Diversifies, Embedded, embedding
<1>3. ASSUME NEW score, NEW n \in Nat, Keys(score, n), n =< Len(candidates),
             ranking' = top(score),
             IF request.method = "cross_encoder" THEN n =< MaxCandidates
                                                     /\ (n < MaxCandidates => n = Len(candidates))
             ELSE n = Len(candidates),
             request.method = "mmr" => score = stored_scores,
             request.method = "cosine_rescore" => score = cosine_scores
      PROVE  ResultsOK'
  <2>1. /\ DOMAIN candidates = 1..Len(candidates) /\ Len(candidates) \in Nat
        /\ request.top_k \in Nat
    BY SortsKeys DEF RInv
  <2>2. /\ ranking' \in Seq(Ranked)
        /\ \A k \in DOMAIN ranking' : /\ k \in 1..n /\ ranking'[k].index \in 1..n
                                       /\ ranking'[k].index = sorted(score)[k]
        /\ \A j, k \in DOMAIN ranking' :
                j < k => ranking'[j].rerank_score >= ranking'[k].rerank_score
    BY <1>3, <2>1, TopSorts
  <2>3. Picked' \subseteq 1..n /\ 1..n \subseteq DOMAIN candidates
    <3>1. Picked' \subseteq 1..n
      BY <2>2 DEF Picked
    <3>2. n \in Nat /\ n =< Len(candidates) /\ Len(candidates) \in Nat
      BY <1>3, <2>1
    <3>3. \A k \in 1..n : k \in 1..Len(candidates)
      BY <3>2
    <3> QED
      BY <2>1, <3>1, <3>3
  <2>4. request.method = "mmr" => InOrder'
    <3> SUFFICES ASSUME request.method = "mmr", NEW k \in DOMAIN ranking'
                 PROVE  ranking'[k].index = k
      BY <1>1 DEF InOrder
    <3>1. \A i, j \in 1..n : i < j => score[i] >= score[j]
      BY <1>3, <2>1 DEF RInv, LoopInv, CandidatesOK, Descending, stored_scores, score_of
    <3> QED
      BY <1>3, <2>2, <3>1, SortKeeps
  <2>5. request.method = "cross_encoder" => \A i \in Picked' : i =< MaxCandidates
    BY <1>3, <2>3, RerankAssumption
  <2>6. /\ DOMAIN ranking' = 1..Len(ranking')
        /\ Len(ranking') = IF request.top_k < n THEN request.top_k ELSE n
        /\ \A k \in DOMAIN ranking' : ranking'[k].rerank_score = score[ranking'[k].index]
        /\ \A j, k \in DOMAIN ranking' :
             j < k => Precedes(score, ranking'[j].index, ranking'[k].index)
        /\ \A i \in 1..n : \/ i \in Picked'
                           \/ /\ request.top_k < n
                              /\ \A k \in DOMAIN ranking' :
                                   Precedes(score, ranking'[k].index, i)
    BY <1>3, <2>1, TopPrefers DEF Picked
  <2>7. ShortOnlyIfAll'
    <3> DEFINE length == Len(ranking')
               most == request.top_k
               all == Len(candidates)
               Crosses == request.method = "cross_encoder"
    <3>1. /\ length = IF most < n THEN most ELSE n
          /\ most \in Nat /\ all \in Nat /\ MaxCandidates \in Nat
          /\ DOMAIN candidates = 1..all
          /\ ~Crosses => n = all
          /\ Crosses => n =< MaxCandidates /\ (n < MaxCandidates => n = all)
          /\ \A i \in 1..n : i \in Picked' \/ most < n
      BY <1>3, <2>1, <2>6, RerankAssumption
    <3> HIDE DEF length, most, all, Crosses
    <3>2. length =< most /\ (length < most => ~(most < n))
      BY <3>1, Lesser
    <3>3. ASSUME length < most, NEW i \in 1..all, i \notin Picked'
          PROVE  Crosses /\ i > MaxCandidates
      <4>1. i \notin 1..n
        BY <3>1, <3>2, <3>3
      <4>2. i \in Nat /\ i =< all /\ i > n
        BY <3>1, <4>1
      <4> QED
        BY <3>1, <4>2
    <3> QED
      BY <1>1, <3>1, <3>2, <3>3 DEF ShortOnlyIfAll, length, most, all, Crosses
  <2>8. TiesKeepOrder'
    <3>1. ASSUME NEW j \in DOMAIN ranking', NEW k \in DOMAIN ranking', j < k,
                 ranking'[j].rerank_score = ranking'[k].rerank_score
          PROVE  ranking'[j].index < ranking'[k].index
      <4>1. score[ranking'[j].index] = score[ranking'[k].index]
            /\ score[ranking'[j].index] \in Int
        BY <1>3, <2>2, <2>6, <3>1 DEF Keys
      <4>2. Precedes(score, ranking'[j].index, ranking'[k].index)
        BY <2>6, <3>1
      <4> QED
        BY <4>1, <4>2 DEF Precedes
    <3>2. ASSUME request.method = "cosine_rescore", NEW k \in DOMAIN ranking',
                 NEW i \in DOMAIN candidates, i \notin Picked'
          PROVE  \/ cosine_scores[i] < ranking'[k].rerank_score
                 \/ cosine_scores[i] = ranking'[k].rerank_score /\ ranking'[k].index < i
      <4>1. score = cosine_scores /\ i \in 1..n
        BY <1>3, <2>1, <3>2
      <4>2. Precedes(score, ranking'[k].index, i)
            /\ ranking'[k].rerank_score = score[ranking'[k].index]
        BY <2>6, <3>2, <4>1
      <4>3. score[i] \in Int /\ score[ranking'[k].index] \in Int
        BY <1>3, <2>2, <4>1 DEF Keys
      <4> QED
        BY <4>1, <4>2, <4>3 DEF Precedes
    <3>3. cosine_scores' = cosine_scores
      BY <1>1 DEF cosine_scores, Embedded, embedding, stored_scores, score_of
    <3> QED
      BY <1>1, <3>1, <3>2, <3>3 DEF TiesKeepOrder
  <2>9. pc' \notin Method
    BY <1>1 DEF Method
  <2> QED
    BY <1>1, <1>2, <2>2, <2>3, <2>4, <2>5, <2>7, <2>8, <2>9 DEF RInv, ResultsOK
<1>4. CASE mmr_fallback
  <2>1. ranking' = top(stored_scores) /\ request.method = "mmr"
    BY <1>1, <1>4 DEF mmr_fallback, Finish
  <2>2. Keys(stored_scores, Len(candidates)) /\ Len(candidates) \in Nat
    BY SortsKeys DEF RInv
  <2> QED
    BY <1>3, <2>1, <2>2
<1>5. CASE cosine_rescore
  <2>1. ranking' = top(cosine_scores) /\ request.method = "cosine_rescore"
    BY <1>1, <1>5 DEF cosine_rescore, Finish
  <2>2. Keys(cosine_scores, Len(candidates)) /\ Len(candidates) \in Nat
    BY SortsKeys DEF RInv
  <2> QED
    BY <1>3, <2>1, <2>2
<1>6. CASE cross_encoder_rerank
  <2>1. PICK scores \in [cut -> Relevance] : ranking' = top(scores)
    BY <1>6 DEF cross_encoder_rerank, Finish
  <2>2. PICK n \in Nat : /\ n =< Len(candidates) /\ n =< MaxCandidates
                         /\ n < MaxCandidates => n = Len(candidates)
                         /\ Keys(scores, n)
    BY <2>1, SortsKeys DEF RInv, CutKeys
  <2>3. request.method = "cross_encoder"
    BY <1>1, <1>6
  <2> QED
    BY <1>3, <2>1, <2>2, <2>3
<1> QED
  BY <1>4, <1>5, <1>6

\* As many different candidates as there are, are all of them.
LEMMA DistinctPicksCover ==
    ASSUME NEW n \in Nat, NEW f \in [1..n -> 1..n],
           \A j, k \in 1..n : j # k => f[j] # f[k]
    PROVE  \A i \in 1..n : \E k \in 1..n : f[k] = i
<1>1. f \in Injection(1..n, 1..n)
  BY DEF Injection, IsInjective
<1>2. IsFiniteSet(1..n)
  BY FS_Interval
<1>3. f \in Surjection(1..n, 1..n)
  BY <1>1, <1>2, FS_Injection
<1> QED
  BY <1>3 DEF Surjection

\* Every step keeps what is said of the results.
LEMMA ResultsNext == RInv /\ [Next]_vars /\ LoopInv' => ResultsOK'
<1> SUFFICES ASSUME RInv, [Next]_vars, LoopInv' PROVE ResultsOK'
  OBVIOUS
<1>1. CASE UNCHANGED vars
  <2>1. UNCHANGED <<pc, request, candidates, available, best_sim, ranking>>
    BY <1>1 DEF vars
  <2>2. (ShortOnlyIfAll' <=> ShortOnlyIfAll) /\ (TiesKeepOrder' <=> TiesKeepOrder) /\ wanted' = wanted
    BY <2>1 DEF ShortOnlyIfAll, TiesKeepOrder, Picked, Diversifies, Embedded, embedding,
       cosine_scores, stored_scores, score_of, wanted
  <2> QED
    BY <2>1, <2>2 DEF RInv, ResultsOK, Picked, InOrder, Diversifies, Embedded, embedding
<1>2. CASE fetch_candidates
  <2>1. /\ ranking' = << >> /\ request' = request
        /\ pc' \in {"done", request.method}
        /\ pc' # "done" => candidates' # << >>
        /\ \E n \in 0..request.fetch_k : \E hits \in [1..n -> Hit] :
            /\ candidates' = hits /\ available' = 1..n
            /\ best_sim' = [i \in 1..n |-> None]
    BY <1>2 DEF fetch_candidates, RInv, LoopInv, CandidatesOK
  <2>2. available' = DOMAIN candidates' /\ best_sim' = [i \in DOMAIN candidates' |-> None]
    BY <2>1
  <2>3. request.method \in Method
    BY DEF RInv, LoopInv, CandidatesOK, RerankRequest
  <2>4. Picked' = {} /\ DOMAIN ranking' = {} /\ ranking' \in Seq(Ranked)
    BY <2>1 DEF Picked
  <2>5. /\ candidates' \in Seq(Hit) /\ request.top_k \in Nat \ {0}
        /\ pc' = "done" => candidates' = << >>
        /\ pc' # "done" => Len(candidates') \in Nat \ {0}
    <3>1. request \in RerankRequest /\ request.method \in Method
      BY <2>3 DEF RInv, LoopInv, CandidatesOK
    <3>2. request.top_k \in Nat \ {0} /\ request.fetch_k \in Nat
      BY <3>1, RerankAssumption DEF RerankRequest
    <3>3. PICK n \in 0..request.fetch_k : \E hits \in [1..n -> Hit] :
            candidates' = hits /\ pc' = IF n = 0 THEN "done" ELSE request.method
      BY <1>2 DEF fetch_candidates
    <3>4. candidates' \in [1..n -> Hit] /\ n \in Nat
      BY <3>2, <3>3
    <3>5. candidates' \in Seq(Hit) /\ Len(candidates') = n
      BY <3>4
    <3>6. request.method # "done"
      BY <3>1 DEF Method
    <3> QED
      BY <3>2, <3>3, <3>5, <3>6
  <2>6. ShortOnlyIfAll' /\ TiesKeepOrder'
    BY <2>1, <2>4, <2>5 DEF ShortOnlyIfAll, TiesKeepOrder
  <2>7. pc' \in Method => Len(ranking)' < wanted'
    BY <2>1, <2>5 DEF wanted, Method
  <2> QED
    BY <2>1, <2>2, <2>3, <2>4, <2>6, <2>7 DEF ResultsOK, InOrder
<1>3. CASE mmr_fallback \/ cosine_rescore \/ cross_encoder_rerank
  BY <1>3, SortResults
<1>4. CASE mmr_pick
  <2>1. Diversifies /\ UNCHANGED <<request, candidates>> /\ pc' \in {"done", "mmr"}
    BY <1>4 DEF mmr_pick, RInv, LoopInv, CandidatesOK, Diversifies, Method
  <2>2. Diversifies' /\ request'.method # "cross_encoder"
    BY <2>1 DEF Diversifies, Embedded, embedding
  <2>3. PicksOK' /\ MaximaOK'
    BY <2>2 DEF LoopInv
  <2>4. ranking' # << >>
    BY <1>4 DEF mmr_pick, RInv, ResultsOK
  <2>5. best_sim' \in [DOMAIN candidates' -> Int \union {None}]
    BY <2>3, <2>4 DEF MaximaOK
  <2>6. pc' \in Method \union {"fetch", "done"}
    BY <2>1 DEF Method
  <2>7. TiesKeepOrder'
    BY <2>2 DEF TiesKeepOrder
  <2>8. /\ Len(ranking) < wanted /\ wanted' = wanted /\ wanted \in Nat
        /\ Len(ranking') = Len(ranking) + 1 /\ Len(ranking) \in Nat
        /\ pc' = IF Len(ranking) + 1 >= wanted THEN "done" ELSE "mmr"
        /\ request.top_k \in Nat
    <3>1. pc \in Method
      BY <1>4 DEF mmr_pick, Method
    <3>2. candidates \in Seq(Hit) /\ request.top_k \in Nat /\ ranking \in Seq(Ranked)
      BY RerankAssumption DEF RInv, LoopInv, CandidatesOK, RerankRequest, ResultsOK
    <3>3. ranking' \in Seq(Ranked) /\ \E e : ranking' = Append(ranking, e)
      BY <1>4, <2>3 DEF mmr_pick, PicksOK
    <3>4. Len(ranking') = Len(ranking) + 1
      BY <3>2, <3>3
    <3> QED
      BY <1>4, <2>1, <3>1, <3>2, <3>4 DEF mmr_pick, RInv, ResultsOK, wanted
  <2>9. ShortOnlyIfAll'
    <3> SUFFICES ASSUME pc' = "done"
                 PROVE  /\ Len(ranking') =< request.top_k
                        /\ Len(ranking') < request.top_k => DOMAIN candidates \subseteq Picked'
      BY <2>1 DEF ShortOnlyIfAll
    <3>1. Len(ranking') = wanted
      BY <2>8
    <3>2. Len(candidates) \in Nat /\ DOMAIN candidates = 1..Len(candidates)
      BY DEF RInv, LoopInv, CandidatesOK
    <3>3. ASSUME wanted = Len(candidates) PROVE DOMAIN candidates \subseteq Picked'
      <4> DEFINE n == Len(candidates)
                 f == [k \in 1..n |-> ranking'[k].index]
      <4>1. DOMAIN ranking' = 1..n /\ n \in Nat /\ DOMAIN candidates' = 1..n
        BY <2>1, <2>3, <3>1, <3>2, <3>3 DEF PicksOK
      <4>2. f \in [1..n -> 1..n]
        BY <2>3, <4>1 DEF PicksOK, Picked
      <4>3. \A j, k \in 1..n : j # k => f[j] # f[k]
        BY <2>3, <4>1 DEF PicksOK
      <4> HIDE DEF n, f
      <4>4. \A i \in 1..n : \E k \in 1..n : f[k] = i
        BY <4>1, <4>2, <4>3, DistinctPicksCover
      <4> QED
        BY <2>1, <4>1, <4>4 DEF Picked, f
    <3> DEFINE most == request.top_k
               all == Len(candidates)
    <3>4. wanted = IF most < all THEN most ELSE all
      BY DEF wanted
    <3>5. most \in Nat /\ all \in Nat
      BY <2>8, <3>2
    <3> HIDE DEF most, all
    <3>6. wanted =< most /\ (wanted < most => wanted = all)
      BY <3>4, <3>5, Lesser
    <3> QED
      BY <3>1, <3>3, <3>6 DEF most, all
  <2>10. pc' \in Method => Len(ranking)' < wanted'
    BY <2>8 DEF Method
  <2> QED
    BY <2>2, <2>3, <2>5, <2>6, <2>7, <2>9, <2>10 DEF ResultsOK, PicksOK
<1> QED
  BY <1>1, <1>2, <1>3, <1>4 DEF Next, Done

\* Every reachable state satisfies the invariants of the loop and of the sorts.
THEOREM ResultsInvariance == Spec => []RInv
<1>1. Init => ResultsOK
  <2> SUFFICES ASSUME Init PROVE ResultsOK
    OBVIOUS
  <2>1. /\ ranking = << >> /\ candidates = << >> /\ available = {} /\ best_sim = << >>
        /\ pc = "fetch"
    BY DEF Init
  <2>2. Picked = {} /\ DOMAIN ranking = {} /\ DOMAIN candidates = {}
        /\ ranking \in Seq(Ranked)
    BY <2>1 DEF Picked
  <2>3. best_sim \in [DOMAIN candidates -> Int \union {None}]
    BY <2>1, <2>2
  <2>4. ShortOnlyIfAll /\ TiesKeepOrder /\ pc \notin Method
    BY <2>1, <2>2 DEF ShortOnlyIfAll, TiesKeepOrder, Method
  <2> QED
    BY <2>1, <2>2, <2>3, <2>4 DEF ResultsOK, InOrder
<1>2. LoopInv /\ LoopInv' /\ ResultsOK /\ [Next]_vars => ResultsOK'
  BY ResultsNext DEF RInv
<1>3. RInv <=> LoopInv /\ ResultsOK
  BY DEF RInv
<1> QED
  BY <1>1, <1>2, <1>3, RerankInvariance, PTL DEF Spec

-----------------------------------------------------------------------------
(* What the invariant implies *)

\* Maxima only grow, so what is picked later is worth no more than what was
\* picked before it.
LEMMA FallsByMaxima ==
    ASSUME LoopInv, Diversifies
    PROVE  ScoresFall
<1>1. Embedded /\ CandidatesOK /\ PicksOK /\ MaximaOK /\ FollowsMMR
  BY DEF LoopInv, Diversifies
<1> SUFFICES ASSUME NEW j \in DOMAIN ranking, NEW k \in DOMAIN ranking, 1 < j, j < k
             PROVE  ranking[j].rerank_score >= ranking[k].rerank_score
  BY DEF ScoresFall
<1> DEFINE x == ranking[k].index
           w == One - request.lambda
<1>2. DOMAIN ranking = 1..Len(ranking) /\ Len(ranking) \in Nat
  BY <1>1 DEF PicksOK
<1>3. x \in DOMAIN candidates /\ x \notin PickedBefore(j)
  BY <1>1, <1>2 DEF PicksOK, Picked, PickedBefore
<1>4. PickedBefore(j) \subseteq PickedBefore(k) /\ PickedBefore(k) \subseteq DOMAIN candidates
  BY <1>1, <1>2 DEF PicksOK, Picked, PickedBefore
<1>5. PICK a \in Int : Peak(a, x, PickedBefore(j))
  BY <1>1, <1>3 DEF MaximaOK
<1>6. PICK b \in Int : Peak(b, x, PickedBefore(k))
  BY <1>1, <1>2, <1>3 DEF MaximaOK
<1>7. a =< b
  BY <1>4, <1>5, <1>6 DEF Peak
<1>8. Likeness(x, PickedBefore(j)) = a /\ Likeness(x, PickedBefore(k)) = b
  BY <1>1, <1>3, <1>4, <1>5, <1>6, PeakIsMax, Numbers
<1>9. w \in Nat /\ score_of(x) \in Int /\ request.lambda \in Int
  BY <1>1, <1>3, Numbers
<1>10. w * a =< w * b /\ w * a \in Int /\ w * b \in Int
  BY <1>7, <1>9, Weighted
<1>11. request.lambda * score_of(x) \in Int
  BY <1>9
<1>12. Worth(x, k) =< Worth(x, j) /\ Worth(x, k) \in Int /\ Worth(x, j) \in Int
  <2>1. Worth(x, k) = request.lambda * score_of(x) - w * b
    BY <1>2, <1>8 DEF Worth
  <2>2. Worth(x, j) = request.lambda * score_of(x) - w * a
    BY <1>2, <1>8 DEF Worth
  <2> HIDE DEF x, w
  <2> QED
    BY <1>10, <1>11, <2>1, <2>2
<1>13. ranking[k].rerank_score = Worth(x, k)
  BY <1>1 DEF FollowsMMR
<1>14. ranking[j].rerank_score \in Int
  <2>1. ranking[j] \in Ranked
    BY <1>1 DEF PicksOK
  <2> QED
    BY <2>1 DEF Ranked
<1>15. Worth(x, j) =< ranking[j].rerank_score
  <2> HIDE DEF x
  <2> QED
    BY <1>1, <1>3, <1>12, <1>14 DEF FollowsMMR
<1> QED
  BY <1>12, <1>13, <1>14, <1>15

\* With lambda 0 only the similarity to the picks counts, and a copy of a pick
\* has the greatest there is.
LEMMA CopiesLast ==
    ASSUME LoopInv
    PROVE  PureDiversity
<1> SUFFICES ASSUME Diversifies, request.lambda = 0, NEW k \in DOMAIN ranking,
                    Copies(ranking[k].index, PickedBefore(k)),
                    NEW i \in DOMAIN candidates \ PickedBefore(k)
             PROVE  Copies(i, PickedBefore(k))
  BY DEF PureDiversity
<1> DEFINE x == ranking[k].index
           E == PickedBefore(k)
<1>1. Embedded /\ CandidatesOK /\ PicksOK /\ MaximaOK /\ FollowsMMR
  BY DEF LoopInv, Diversifies
<1>2. k \in Nat /\ k > 1 /\ x \in DOMAIN candidates /\ E \subseteq DOMAIN candidates
  <2>1. DOMAIN ranking = 1..Len(ranking) /\ Len(ranking) \in Nat
    BY <1>1 DEF PicksOK
  <2>2. k # 1
    BY <2>1 DEF Copies, PickedBefore
  <2> QED
    BY <1>1, <2>1, <2>2 DEF PicksOK, Picked, PickedBefore
<1>3. \A p, q \in DOMAIN candidates :
        /\ embedding(p) \in Vector
        /\ Sim[embedding(p)][embedding(q)] \in Int
        /\ Sim[embedding(p)][embedding(q)] =< One
        /\ Sim[embedding(p)][embedding(q)] = One
             <=> embedding(p) = embedding(q) /\ embedding(p) # Zero
  <2>1. \A p \in DOMAIN candidates : embedding(p) \in Vector
    BY <1>1 DEF CandidatesOK
  <2>2. \A p, q \in DOMAIN candidates : Sim[embedding(p)][embedding(q)] \in Int
    BY <1>1, Numbers
  <2>3. ASSUME NEW v \in Vector, NEW w \in Vector
        PROVE  Sim[v][w] =< One /\ (Sim[v][w] = One <=> v = w /\ v # Zero)
    BY RerankAssumption
  <2> QED
    BY <2>1, <2>2, <2>3
<1>4. One \in Nat \ {0} /\ score_of(x) \in Int /\ score_of(i) \in Int
  BY <1>1, <1>2, Numbers
<1>5. Peak(One, x, E)
  BY <1>2, <1>3 DEF Copies, Peak
<1>6. Likeness(x, E) = One
  BY <1>2, <1>3, <1>4, <1>5, PeakIsMax
<1>7. PICK m \in Int : Peak(m, i, E)
  BY <1>1, <1>2 DEF MaximaOK
<1>8. Likeness(i, E) = m
  BY <1>2, <1>3, <1>7, PeakIsMax
<1>9. Worth(x, k) = 0 - One * One /\ Worth(i, k) = 0 - One * m
  BY <1>2, <1>4, <1>6, <1>8 DEF Worth
<1>10. Worth(i, k) =< Worth(x, k)
  BY <1>1, <1>4, <1>9 DEF FollowsMMR
<1>11. m >= One
  BY <1>4, <1>9, <1>10
<1> QED
  BY <1>2, <1>3, <1>4, <1>7, <1>11 DEF Peak, Copies

\* A cross-encoder ranks only what the vector search ranked among the first
\* MaxCandidates (cross_encoder_rerank).
LEMMA CutKeepsMostSimilar ==
    ASSUME RInv
    PROVE  CutDropsLeastSimilar
<1> SUFFICES ASSUME request.method = "cross_encoder", NEW i \in Picked
             PROVE  Cardinality({j \in DOMAIN candidates : score_of(j) > score_of(i)})
                      < MaxCandidates
  BY DEF CutDropsLeastSimilar
<1> DEFINE more == {j \in DOMAIN candidates : score_of(j) > score_of(i)}
<1>1. /\ DOMAIN candidates = 1..Len(candidates) /\ Len(candidates) \in Nat
      /\ i \in DOMAIN candidates /\ i =< MaxCandidates /\ Descending(candidates)
      /\ \A j \in DOMAIN candidates : score_of(j) \in Int
  BY SortsKeys DEF RInv, LoopInv, CandidatesOK, ResultsOK, Keys, stored_scores
<1>2. more \subseteq 1..(i - 1)
  BY <1>1 DEF Descending, score_of
<1>3. i \in Nat \ {0} /\ 1 \in Int /\ i - 1 \in Int
  BY <1>1
<1>4. IsFiniteSet(1..(i - 1)) /\ Cardinality(1..(i - 1)) = i - 1
  BY <1>3, FS_Interval
<1> HIDE DEF more
<1>5. Cardinality(more) =< i - 1 /\ Cardinality(more) \in Nat
  BY <1>2, <1>4, FS_Subset, FS_CardinalityType
<1> QED
  BY <1>1, <1>3, <1>5, RerankAssumption DEF more

-----------------------------------------------------------------------------
(* The theorems *)

\* The loop computes MMR: every result is worth most of what was left, and
\* carries its worth as its score (mmr_rerank).
THEOREM MMRByDefinition == Spec => []FollowsMMR
<1>1. LoopInv => FollowsMMR
  BY DEF LoopInv, FollowsMMR
<1> QED
  BY <1>1, RerankInvariance, PTL

\* The reported scores never increase down the list, by any method; those of
\* MMR over embeddings from the second result on.
THEOREM ResultsFall == Spec => []ScoresFall
<1>1. RInv => ScoresFall
  BY FallsByMaxima DEF RInv, ResultsOK, ScoresFall
<1> QED
  BY <1>1, ResultsInvariance, PTL

\* At the ends of lambda: with lambda = 1 the results are the incoming ranking,
\* with embeddings or without, and with lambda = 0 copies of earlier results come
\* last (mmr_rerank, _mmr_fallback).
THEOREM LambdaAtItsEnds == Spec => []LambdaEnds
<1>1. RInv => PureRelevance
  BY DEF RInv, LoopInv, ResultsOK, InOrder, PureRelevance
<1>2. RInv => PureDiversity
  BY CopiesLast DEF RInv
<1>3. RInv => LambdaEnds
  BY <1>1, <1>2 DEF LambdaEnds
<1> QED
  BY <1>3, ResultsInvariance, PTL

\* Every variable has its type, and MMR picks nothing twice.
THEOREM RerankTypes == Spec => []RerankTypeOK
<1>1. RInv => RerankTypeOK
  BY DEF RInv, LoopInv, CandidatesOK, ResultsOK, PicksOK, Diversifies, RerankTypeOK
<1> QED
  BY <1>1, ResultsInvariance, PTL

\* An answer is shorter than top_k only when the method has nothing left to rank,
\* and a cross-encoder ranks only what the vector search ranked among the first
\* MaxCandidates (mmr_rerank, cosine_rescore, cross_encoder_rerank).
THEOREM AnswersAreFull == Spec => []FullAnswer
<1>1. RInv => FullAnswer
  BY CutKeepsMostSimilar DEF RInv, ResultsOK, FullAnswer
<1> QED
  BY <1>1, ResultsInvariance, PTL

\* The methods that sort keep the search's order among equal scores, and leave
\* out only what comes after every result (cosine_rescore, _mmr_fallback,
\* cross_encoder_rerank).
THEOREM SortsAreStable == Spec => []TiesKeepOrder
<1>1. RInv => TiesKeepOrder
  BY DEF RInv, ResultsOK
<1> QED
  BY <1>1, ResultsInvariance, PTL

=============================================================================
