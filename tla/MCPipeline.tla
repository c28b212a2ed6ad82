------------------------------ MODULE MCPipeline ------------------------------
(***************************************************************************)
(* Extraction, parsing and repair, over all inputs of a small size.  Each  *)
(* statement is a constant, which TLC evaluates once; MCQuestionBank says  *)
(* where in a bank's life it counts.                                       *)
(***************************************************************************)
EXTENDS Extraction, Multimodal

Outcomes == {[end |-> "text", pages |-> n, quality |-> v] : n \in 1..2, v \in {0, 44, 45, 90}}
            \cup {[end |-> e, pages |-> 2, quality |-> 90] :
                     e \in {"late", "hangs", "raises", "missing"}}
PypdfOutcomes == {o \in Outcomes : o.end # "missing"}

Lines == {[kind |-> k, n |-> n] : k \in {"domanda", "dotted"}, n \in 1..2}
         \cup {[kind |-> k, n |-> 1] : k \in {"paren", "option", "theory", "exercise", "text"}}
Exams == UNION {[1..n -> Lines] : n \in 0..4}
ShortExams == UNION {[1..n -> Lines] : n \in 0..2}

\* What the model may return first and second: by default the tag is that of
\* every question, and options come with a subpart.
CandidatesOf(by) ==
    {[section |-> s, number |-> n, type |-> "multiple_choice", stem |-> Part(by, stem),
      options |-> Part(by, 3 * more), subparts |-> Part(by, more), tags |-> t, review |-> FALSE] :
        s \in {"quiz", "teoria"}, n \in 1..2, stem \in {1, 9, 10}, more \in 0..1,
        t \in {{"reti"}, {"tcp"}}}

\* ReturnsBest, for every end of every tool and qualities around the boundary.
BestOfTheTexts ==
    \A pypdf \in PypdfOutcomes, pdfminer \in Outcomes, ocr \in Outcomes :
        ReturnsBest(pypdf, pdfminer, ocr)

\* How many questions an exam has: a theory question or an exercise swallows
\* every heading but that of the next exercise.
Cut(exam) == CHOOSE n \in 0..Len(exam) :
    /\ \A i \in 1..n : exam[i].kind \notin {"theory", "exercise"}
    /\ n < Len(exam) => exam[n + 1].kind \in {"theory", "exercise"}
TheoryAt(exam, i) ==
    i < Len(exam) /\ exam[i].kind = "theory" /\ exam[i + 1].kind # "exercise"
Expected(exam) ==
    LET cut == Cut(exam) IN
    Cardinality({i \in 1..cut : Heading(exam[i])})
    + Cardinality({i \in DOMAIN exam : exam[i].kind = "exercise"})
    + (IF TheoryAt(exam, cut + 1) THEN 1 ELSE 0)
AQuestionForEachHeading ==
    \A exam \in Exams :
        LET qs == Parsed(exam) IN
        Len(qs) = Expected(exam) /\ Cardinality(KeysOf(qs)) = Len(qs)

\* A part of a question that was parsed is as it was, or it is a candidate's for
\* that question, which is longer and than which no candidate is longer.
Kept(Exceeds(_, _), parsed, now, offers) ==
    /\ now = parsed \/ (now \in offers /\ Exceeds(now, parsed))
    /\ \A part \in offers : ~Exceeds(part, now)

KeptOrImproved(p, q, candidates) ==
    LET for == {c \in candidates : KeyOf(c) = KeyOf(p)} IN
    /\ q.type = p.type /\ q.tags = p.tags \cup UNION {c.tags : c \in for}
    /\ Kept(Longer, p.stem, q.stem, {c.stem : c \in for})
    /\ Kept(More, p.subparts, q.subparts, {c.subparts : c \in for})
    /\ IF p.type = "multiple_choice"
       THEN Kept(More, p.options, q.options, {c.options : c \in for})
       ELSE q.options = p.options
    /\ q.review = (p.review /\ q = p)

\* The repair keeps or improves all that was parsed, adds no more than it
\* counts, counts nothing if it changes nothing, and leaves nothing for the
\* same candidates to improve.
Again(questions, candidates) == Enhanced(questions, TRUE, 0, AcceptableQuality, candidates)
NothingRepairedAway ==
    \A exam \in ShortExams, first \in CandidatesOf("first"), second \in CandidatesOf("second") :
        LET qs == Parsed(exam)
            r == Again(qs, <<first, second>>)
            out == r.questions IN
        /\ \A i \in DOMAIN qs : \E j \in DOMAIN out :
               KeyOf(qs[i]) = KeyOf(out[j]) /\ KeptOrImproved(qs[i], out[j], {first, second})
        /\ \A i, j \in DOMAIN out : i < j => Before(out[i], out[j])
        /\ r.updates = 0 <=> out = qs
        /\ Len(out) <= Len(qs) + r.updates
        /\ Again(out, <<first, second>>) = [questions |-> out, updates |-> 0]

===============================================================================
