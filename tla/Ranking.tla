------------------------------ MODULE Ranking ------------------------------
(* How the search queries order what their legs found: reciprocal rank fusion   *)
(* (search/rrf.ts) and the blend with the cross-encoder's scores                *)
(* (search/reranker.ts).  Scores are integers: fused scores in millionths of a  *)
(* full-weight leg's unit, normalized and blended ones in ten-thousandths, the  *)
(* four significant digits a result reports.                                    *)
EXTENDS Naturals, Sequences, FiniteSetsExt, SequencesExt

\* A leg of a search: the items it found, best first, and its weight in halves.
Leg(items, weight) == [items |-> items, weight |-> weight]
FullWeight == 2
FileWeight == 1     \* DEFAULT_FILE_LEG_WEIGHT, one half

PlaceIn(items, item) == CHOOSE i \in DOMAIN items : items[i] = item
RankIn(leg, item) == PlaceIn(leg.items, item)
Found(legs) == UNION {ToSet(legs[i].items) : i \in DOMAIN legs}

Bonus(rank) == IF rank = 1 THEN 50000 ELSE IF rank <= 3 THEN 20000 ELSE 0

\* What one leg adds to an item at `rank`: its weight scales the bonus too.
Contribution(leg, rank) == (leg.weight * (1000000 \div (60 + rank) + Bonus(rank))) \div 2

FusedScore(legs, item) ==
    MapThenSumSet(LAMBDA i : Contribution(legs[i], RankIn(legs[i], item)),
                  {i \in DOMAIN legs : item \in ToSet(legs[i].items)})

\* computeRrfScores: best score first, ties as in `order`, the identifiers'.
Fused(legs, order) ==
    LET score == [item \in Found(legs) |-> FusedScore(legs, item)]
    IN SetToSortSeq(Found(legs), LAMBDA a, b : score[a] > score[b]
                                               \/ (score[a] = score[b]
                                                   /\ PlaceIn(order, a) < PlaceIn(order, b)))

\* Min-max normalization; scores that are all equal carry no signal.
Normalized(scores) ==
    LET least == Min({scores[i] : i \in DOMAIN scores})
        range == Max({scores[i] : i \in DOMAIN scores}) - least
    IN [i \in DOMAIN scores |->
            IF range = 0 THEN 5000 ELSE (10000 * (scores[i] - least)) \div range]

\* The share of the fused score at a rank, in hundredths.
RrfWeight(rank) == IF rank <= 3 THEN 75 ELSE IF rank <= 10 THEN 50 ELSE 40

\* blendScores, for candidates in the order of their fused scores.
Blended(fused, reranked) ==
    LET byFusion == Normalized(fused)
        byModel == Normalized(reranked)
    IN [i \in DOMAIN fused |->
            (RrfWeight(i) * byFusion[i] + (100 - RrfWeight(i)) * byModel[i]) \div 100]
=============================================================================
