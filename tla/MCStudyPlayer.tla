---------------------------- MODULE MCStudyPlayer ----------------------------
(***************************************************************************)
(* Two questions, or more for the sampling alone.                          *)
(***************************************************************************)
EXTENDS StudyPlayer

CONSTANTS q1, q2, o1, o2

MCTypeOf == [q \in Questions |-> IF q = q1 THEN "multiple_choice" ELSE "open"]
AllOpen == [q \in Questions |-> "open"]
MCTopic == [q \in Questions |-> "transport"]
MCPosition == [q \in Questions |-> IF q = q1 THEN 1 ELSE 2]

MCOffers == <<[NoRequest EXCEPT !.exhaustive = TRUE, !.randomize = FALSE]>>

\* Five questions, three of one topic: whatever the shuffles, a sample has the
\* right length, draws no question twice and spreads over the topics.
Sample == INSTANCE Simulations WITH
    Questions <- 1..5, TypeOf <- [n \in 1..5 |-> "open"], Position <- [n \in 1..5 |-> n],
    Topic <- [n \in 1..5 |-> IF n <= 3 THEN "transport" ELSE "routing"],
    MinPool <- 600, bank <- [n \in 1..5 |-> "live"], sims <- <<>>

ASSUME SamplingIsBalanced ==
    \A pool \in SUBSET (1..5), limit \in 0..5 : \A s \in Sample!InterleaveByTopic(pool, limit) :
        /\ Len(s) = Smaller(limit, Cardinality(pool))
        /\ ToSet(s) \subseteq pool /\ Cardinality(ToSet(s)) = Len(s)
        /\ Sample!SpreadOver(s, pool)

=============================================================================
