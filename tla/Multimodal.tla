------------------------------ MODULE Multimodal ------------------------------
(***************************************************************************)
(* The repair of poorly extracted questions by a multimodal model          *)
(* (services/multimodal.py).  The model may return anything that passes    *)
(* for a question; an item that does not is dropped before the merge.      *)
(***************************************************************************)
EXTENDS Parser
LOCAL INSTANCE SequencesExt

KeyOf(q) == <<q.section, q.number>>
KeysOf(qs) == {KeyOf(qs[i]) : i \in DOMAIN qs}

\* What a candidate improves: a stem longer by 15 %, more options of a multiple
\* choice, more subparts, tags.  A stem, the options or the subparts are then
\* replaced whole.  Any of it settles that the question is fine.
ImprovedFreely(cur, cand) ==                    \* mutant
    [cur EXCEPT !.stem = cand.stem, !.options = cand.options, !.subparts = cand.subparts,
                !.tags = @ \cup cand.tags, !.review = FALSE]

Longer(part, cur) == 100 * part.size > 115 * cur.size
More(part, cur) == part.size > cur.size

Improved(cur, cand) ==
    LET better == [cur EXCEPT
            !.stem = IF Longer(cand.stem, @) THEN cand.stem ELSE @,
            !.options = IF cur.type = "multiple_choice" /\ More(cand.options, @)
                        THEN cand.options ELSE @,
            !.subparts = IF More(cand.subparts, @) THEN cand.subparts ELSE @,
            !.tags = @ \cup cand.tags]
    IN  IF better = cur THEN cur ELSE [better EXCEPT !.review = FALSE]

\* One candidate after the other, on a dictionary by section and number.
Repaired(m, cand) ==
    LET key == KeyOf(cand) IN
    IF key \notin DOMAIN m.merged
    THEN [merged |-> m.merged @@ (key :> cand), updates |-> m.updates + 1]
    ELSE LET q == Improved(m.merged[key], cand) IN
         [merged |-> [m.merged EXCEPT ![key] = q],
          updates |-> m.updates + (IF q = m.merged[key] THEN 0 ELSE 1)]

\* Of two questions with one key the dictionary keeps the later.
ByKey(qs) ==
    [k \in KeysOf(qs) |-> qs[CHOOSE i \in DOMAIN qs :
        KeyOf(qs[i]) = k /\ \A j \in DOMAIN qs : KeyOf(qs[j]) = k => j <= i]]

MergeQuestions(existing, candidates) ==
    LET m == FoldLeft(Repaired, [merged |-> ByKey(existing), updates |-> 0], candidates)
    IN  [questions |-> SetToSortSeq({m.merged[k] : k \in DOMAIN m.merged}, Before),
         updates |-> m.updates]

\* enhance_with_multimodal
Enhanced(questions, enabled, quality, minQuality, candidates) ==
    IF ~enabled \/ quality >= minQuality \/ candidates = <<>>
    THEN [questions |-> questions, updates |-> 0]
    ELSE MergeQuestions(questions, candidates)

===============================================================================
