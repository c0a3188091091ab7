---------------------------- MODULE VectorSearch ----------------------------
(* One text search of the vector store: the candidates nearest to the query, *)
(* in hybrid mode also the best keyword matches, the rows of these fetched   *)
(* under the query's filters, ranked and cut to the limit.  Between the      *)
(* steps other tasks remove rows and archive them.                           *)
(*                                                                          *)
(* Each row has a distance to the query or no vector, a BM25 score or no     *)
(* keyword match (lower is better in both), and passes the query's filters   *)
(* or not.                                                                   *)
EXTENDS Integers, Sequences, FiniteSets

CONSTANTS None,
          Count,        \* how many rows there are
          Distances,    \* to the query
          WordScores,   \* BM25 scores
          Limit,        \* query.limit
          K,            \* max(limit * candidate_multiplier, _MIN_CANDIDATES)
          Modes,        \* "keyword", "semantic", "hybrid"
          Embedders,    \* whether an embedder may be healthy: a set of BOOLEAN
          Changes       \* other tasks may remove or archive a row

VARIABLES mode, embedder,
          row,          \* per id: [distance, bm25, passes], or None when removed
          pc,
          near, word,   \* the candidates of the two legs
          rows,         \* the rows fetched
          found         \* the result

vars == <<mode, embedder, row, pc, near, word, rows, found>>
query == <<mode, embedder>>

Ids == 1..Count
Kinds == [distance : Distances \cup {None}, bm25 : WordScores \cup {None}, passes : BOOLEAN]

Most(s) == CHOOSE x \in s : \A y \in s : y <= x
Least(s) == CHOOSE x \in s : \A y \in s : x <= y

(* What the constants are: scores are integers, and finitely many: any of    *)
(* them have a least and a greatest. *)
ConstantsFit ==
    /\ Count \in Nat /\ Limit \in Nat /\ K \in Nat /\ Embedders \subseteq BOOLEAN /\ Changes \in BOOLEAN
    /\ Modes \subseteq {"keyword", "semantic", "hybrid"}
    /\ Distances \subseteq Int /\ WordScores \subseteq Int /\ None \notin Distances /\ None \notin WordScores
    /\ \A scores \in {Distances, WordScores} : \A s \in SUBSET scores \ {{}} :
         (\E x \in s : \A y \in s : y <= x) /\ (\E x \in s : \A y \in s : x <= y)
    /\ None \notin Kinds

Live == {i \in Ids : row[i] # None}
Passing == {i \in Live : row[i].passes}

Init ==
    /\ mode \in Modes /\ embedder \in Embedders
    /\ row \in [Ids -> Kinds]
    /\ pc = "start" /\ near = <<>> /\ word = <<>> /\ rows = {} /\ found = <<>>

-----------------------------------------------------------------------------
(* A set of the n best by a score: ties are broken as the index pleases. *)
Best(s, score, n) ==
    {t \in SUBSET s :
        /\ Cardinality(t) = IF Cardinality(s) < n THEN Cardinality(s) ELSE n
        /\ \A i \in t, j \in s \ t : score[i] <= score[j]}

(* The rows of a set, each once, in the order of a score. *)
Ordered(s, score) ==
    {q \in UNION {[1..n -> s] : n \in 0..Count} :
        /\ \A i \in s : \E a \in DOMAIN q : q[a] = i
        /\ \A a, b \in DOMAIN q : a < b => q[a] # q[b] /\ score[q[a]] <= score[q[b]]}

(* Mutant: the candidates are not cut to the limit. *)
All(n) == n

(* The results that are kept of n. *)
Cut(n) == IF n < Limit THEN n ELSE Limit

(* The results of a ranking: the sort and the cut. *)
Results(s, score) == {[a \in 1..Cut(Len(q)) |-> q[a]] : q \in Ordered(s, score)}

Distance == [i \in Live |-> row[i].distance]
Bm25 == [i \in Live |-> row[i].bm25]
Indexed == {i \in Live : row[i].distance # None}

Matching == {i \in Passing : row[i].bm25 # None}

(* VectorAdapter.search: keyword mode, an unpinned database or no healthy    *)
(* embedder leave the search to the SQLite store. *)
ByVector == mode # "keyword" /\ embedder

(* SQLiteAdapter.search: filters, match, order and limit in one statement. *)
Keyword ==
    /\ pc = "start" /\ ~ByVector
    /\ found' \in Results(Matching, Bm25)
    /\ pc' = "done"
    /\ UNCHANGED <<query, row, near, word, rows>>

Knn ==
    /\ pc = "start" /\ ByVector
    /\ \E t \in Best(Indexed, Distance, K) : near' = [i \in t |-> row[i].distance]
    /\ pc' = IF mode = "hybrid" THEN "words" ELSE "fetch"
    /\ UNCHANGED <<query, row, word, rows, found>>

(* bm25_candidates: as the keyword search, of the pool's size. *)
Words ==
    /\ pc = "words"
    /\ \E t \in Best(Matching, Bm25, K) : word' = [i \in t |-> row[i].bm25]
    /\ pc' = "fetch"
    /\ UNCHANGED <<query, row, near, rows, found>>

(* Mutant: the rows of the candidates, filters or not. *)
FetchedAny == (DOMAIN near \cup DOMAIN word) \cap Live

(* fetch_by_ids applies the filters to the candidates of both legs. *)
Fetched == (DOMAIN near \cup DOMAIN word) \cap Passing

Fetch ==
    /\ pc = "fetch"
    /\ rows' = Fetched
    /\ pc' = "rank"
    /\ UNCHANGED <<query, row, near, word, found>>

(* The scores of a leg's survivors; what divides them is 1 where all tie. *)
Scores(leg) == {leg[i] : i \in DOMAIN leg \cap rows}
Tied(leg) == \A x, y \in Scores(leg) : x = y
Span(leg) == IF Tied(leg) THEN 1 ELSE Most(Scores(leg)) - Least(Scores(leg))

(* Mutant: the distances are fused as they are, the farthest best. *)
NormFar(leg, i) == IF i \in DOMAIN leg THEN leg[i] ELSE 0

(* _minmax over the survivors, as a multiple of 1 / Span: the best has 1 and *)
(* the worst 0, and a leg that ties everywhere 1 throughout; a row that the  *)
(* leg lacks has 0. *)
Norm(leg, i) ==
    IF i \notin DOMAIN leg THEN 0
    ELSE IF Tied(leg) THEN 1 ELSE Most(Scores(leg)) - leg[i]

(* 0.7 of the one and 0.3 of the other, over one denominator. *)
Fused(i) == 7 * Norm(near, i) * Span(word) + 3 * Norm(word, i) * Span(near)

Ranking == IF mode = "hybrid" THEN [i \in rows |-> 0 - Fused(i)] ELSE near

(* The sort and the cut, and record_read on what is left. *)
Rank ==
    /\ pc = "rank"
    /\ found' \in Results(rows, Ranking)
    /\ pc' = "done"
    /\ UNCHANGED <<query, row, near, word, rows>>

(* Other tasks: a delete removes row and vector, an archived row no longer   *)
(* passes. *)
Change ==
    /\ Changes /\ pc \in {"words", "fetch"}
    /\ \E i \in Live : \/ row' = [row EXCEPT ![i] = None]
                       \/ row[i].passes /\ row' = [row EXCEPT ![i].passes = FALSE]
    /\ UNCHANGED <<query, pc, near, word, rows, found>>

Next == Keyword \/ Knn \/ Words \/ Fetch \/ Rank \/ Change
Spec == Init /\ [][Next]_vars

\* The call has returned.
Resting == pc = "done"

-----------------------------------------------------------------------------
Found == {found[a] : a \in DOMAIN found}

(* Types of the state. *)
TypeOK ==
    /\ mode \in Modes /\ embedder \in BOOLEAN
    /\ pc \in {"start", "words", "fetch", "rank", "done"}
    /\ rows \subseteq Ids /\ found \in UNION {[1..n -> Ids] : n \in 0..Limit}

(* No result is given twice. *)
EachOnce == \A a, b \in DOMAIN found : found[a] = found[b] => a = b

(* Nothing is returned that the query's filters exclude or that is gone,     *)
(* whichever leg found it and whatever happened while the legs were read; a   *)
(* change after the fetch is later than the search. *)
OnlyPassing == Found \subseteq Passing

(* No row is ranked behind one it beats in a leg and is not worse than in    *)
(* the other: a search that found a row by words as well never hides it      *)
(* behind one found by nearness alone and no nearer. *)
NoWorseFirst ==
    LET beats(leg, i, j) == {i, j} \subseteq DOMAIN leg /\ leg[i] < leg[j]
        meets(leg, i, j) == j \in DOMAIN leg => i \in DOMAIN leg /\ leg[i] <= leg[j]
        ahead(i, j) == /\ meets(near, i, j) /\ meets(word, i, j)
                       /\ beats(near, i, j) \/ beats(word, i, j)
    IN  pc = "done" /\ ByVector =>
            \A a, b \in DOMAIN found : a < b => ~ahead(found[b], found[a])

(* A search returns only what passes its filters, each row once, and ranks   *)
(* no row behind one that it beats (VectorAdapter.search and its fusion). *)
SearchIsSound == TypeOK /\ EachOnce /\ OnlyPassing /\ NoWorseFirst

(* A search that leaves rows out is full: the pool is large enough for the   *)
(* filters to leave the limit. *)
FillsLimit ==
    (pc = "done" /\ mode = "semantic" /\ ByVector) =>
        Len(found) >= Cut(Cardinality(Indexed \cap Passing))
=============================================================================
