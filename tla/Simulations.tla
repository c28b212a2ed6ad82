----------------------------- MODULE Simulations -----------------------------
(***************************************************************************)
(* Practice simulations on the server (services/simulations.py,            *)
(* services/sampling.py): how a set of questions is drawn, what is stored  *)
(* of it, and what a resumed simulation is read back as.                   *)
(***************************************************************************)
EXTENDS SequencesExt

CONSTANTS
    Questions,
    TypeOf,     \* of a question: "multiple_choice" or "open"
    Topic,      \* its first tag
    Position,   \* its place in the order of extraction
    Options,
    NoOption,   \* nothing selected, or no answer key
    MinPool,    \* 600 in the code
    MaxSims     \* bound: simulations stored

ASSUME SimulationsAssumption ==
    /\ IsFiniteSet(Questions)
    /\ TypeOf \in [Questions -> {"multiple_choice", "open"}]
    /\ Position \in [Questions -> Nat]
    /\ \A p, q \in Questions : Position[p] = Position[q] => p = q
    /\ NoOption \notin Options
    /\ MinPool \in Nat /\ MaxSims \in Nat

VARIABLES
    bank,       \* is a question live or discarded
    sims        \* the table `simulations` with the attempts that belong to each

-----------------------------------------------------------------------------

Live == {q \in Questions : bank[q] = "live"}

Smaller(a, b) == IF a <= b THEN a ELSE b
Larger(a, b) == IF a <= b THEN b ELSE a

\* A request names numbers per type, or everything; a priority mode puts the
\* pool into an order of its own, which is any order here.
Requests == [exhaustive : BOOLEAN, randomize : BOOLEAN, priority : BOOLEAN,
            wanted : [{"multiple_choice", "open"} -> Nat]]
NoRequest == [exhaustive |-> FALSE, randomize |-> TRUE, priority |-> FALSE,
              wanted |-> [t \in {"multiple_choice", "open"} |-> 0]]

\* An attempt as the player reads it back; `score` is is_correct.
Attempt == [selected : Options \cup {NoOption}, score : {"right", "wrong"}]
NoAttempt == [selected |-> NoOption, score |-> "none"]

\* `latest` is each question's last attempt in this simulation, `count` the
\* number of all of them.
Simulation == [config : Requests, questions : Seq(Questions),
               latest : [Questions -> Attempt \cup {NoAttempt}], count : Nat, gone : BOOLEAN]

NewSimulation(config, qs) ==
    [config |-> config, questions |-> qs, latest |-> [q \in Questions |-> NoAttempt],
     count |-> 0, gone |-> FALSE]

-----------------------------------------------------------------------------
(* Sampling. *)

\* The round in which interleave_by_topic picks the i-th question of s: the
\* n-th of a topic goes in round n.
RoundOf(s, i) == Cardinality({j \in 1..i : Topic[s[j]] = Topic[s[i]]})

\* Round by round, and inside a round in the drawn order of the topics.
InRounds(s, pool) ==
    LET topics == {Topic[q] : q \in pool}
    IN  \E place \in [topics -> 1..Cardinality(topics)] : \A i, j \in DOMAIN s :
            i < j => \/ RoundOf(s, i) < RoundOf(s, j)
                     \/ /\ RoundOf(s, i) = RoundOf(s, j)
                        /\ place[Topic[s[i]]] < place[Topic[s[j]]]

\* interleave_by_topic: what it may return, over its two shuffles.
InterleaveByTopic(pool, limit) ==
    {SubSeq(s, 1, Smaller(limit, Cardinality(pool))) :
        s \in {s \in SetToSeqs(pool) : InRounds(s, pool)}}

Selected(r, pool, limit) ==
    IF r.priority
    THEN {SubSeq(s, 1, Smaller(limit, Cardinality(pool))) : s \in SetToSeqs(pool)}
    ELSE InterleaveByTopic(pool, limit)

OfType(t) == {q \in Live : TypeOf[q] = t}

\* The one enumeration of S in the order of extraction.
InOrder(S) ==
    {s \in SetToSeqs(S) : \A i, j \in DOMAIN s : i < j => Position[s[i]] < Position[s[j]]}

\* The questions of a type are drawn from a random pool of bounded size.
Pools(t, wanted) ==
    {P \in SUBSET OfType(t) :
        Cardinality(P) = Smaller(Larger(wanted * 6, MinPool), Cardinality(OfType(t)))}
Drawn(r, t) ==
    LET wanted == r.wanted[t]
    IN  IF r.priority THEN Selected(r, OfType(t), wanted)
        ELSE UNION {Selected(r, P, wanted) : P \in Pools(t, wanted)}

\* `_exhaustive` keeps the interleaved order; `_by_type` shuffles what it took
\* of each type.
Generated(r) ==
    LET all == Selected(r, Live, Cardinality(Live))
        mixed == {ToSet(closed) \cup ToSet(open) :
                     closed \in Drawn(r, "multiple_choice"), open \in Drawn(r, "open")}
    IN  IF r.exhaustive THEN IF r.priority \/ r.randomize THEN all ELSE InOrder(Live)
        ELSE UNION {IF r.randomize THEN SetToSeqs(S) ELSE InOrder(S) : S \in mixed}

-----------------------------------------------------------------------------
(* The stored simulations. *)

\* `_persist`, also of an empty list.
Stored(config, qs) == Append(sims, NewSimulation(config, qs))

\* create_from_questions: the live ones, in any order; none is an error.
FromQuestions(ids) == SetToSeqs(ids \cap Live) \ {<<>>}

\* The questions of qs that are in S, in their order.
Kept(qs, S) ==
    LET kept == {i \in DOMAIN qs : qs[i] \in S}
        nth(n) == CHOOSE i \in kept : Cardinality({j \in kept : j <= i}) = n
    IN  [n \in 1..Cardinality(kept) |-> qs[nth(n)]]

\* `get`: the questions that are still live, each with its latest attempt.
Resumed(id) == Kept(sims[id].questions, Live)

\* `list_for_user` counts attempts, `get` counts questions.
AnsweredCount(id) == sims[id].count
GeneratedTotal(id) == Len(sims[id].questions)

\* An attempt of a simulation; its foreign key refuses a deleted one.
WithAttempt(table, id, q, attempt) ==
    IF id = 0 \/ table[id].gone THEN table
    ELSE [table EXCEPT ![id].latest[q] = attempt, ![id].count = @ + 1]

\* ON DELETE SET NULL keeps the attempts, without their simulation.
DeleteSimulation(id) ==
    /\ ~sims[id].gone
    /\ sims' = [sims EXCEPT ![id] = [NewSimulation(NoRequest, <<>>) EXCEPT !.gone = TRUE]]

-----------------------------------------------------------------------------
(* What a balanced selection is. *)

Count(S, t) == Cardinality({q \in S : Topic[q] = t})

\* No topic has two more than one that has some left.
Even(S, pool) ==
    \A t, u \in {Topic[q] : q \in pool} :
        Count(S, t) > Count(S, u) + 1 => Count(S, u) = Count(pool, u)

SpreadOver(s, pool) == \A n \in DOMAIN s : Even({s[i] : i \in 1..n}, pool)

=============================================================================
