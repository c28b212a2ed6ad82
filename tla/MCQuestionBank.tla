---------------------------- MODULE MCQuestionBank ----------------------------
(***************************************************************************)
(* A small instance of QuestionBank for TLC, with the statements about how *)
(* a PDF becomes questions.                                                *)
(***************************************************************************)
EXTENDS QuestionBank, MCPipeline

CONSTANTS d1, d2, bk, x, y, q1, q2, q3, q4, bx, by

Plain(c) == [content |-> c, swapped |-> FALSE]

Transposed(c) == [content |-> c, swapped |-> TRUE]

\* x is in the exam and in an imported bank, with its options in another order;
\* y is only in the exam.
MCPrinted == d1 :> {Plain(x), Plain(y)} @@ bk :> {Transposed(x)}

\* Two exams that share x.
MCExams == d1 :> {Plain(x), Plain(y)} @@ d2 :> {Plain(x)}

\* The same, with the options of x in another order in the second exam.
MCTransposed == d1 :> {Plain(x), Plain(y)} @@ d2 :> {Transposed(x)}

MCBankRow == x :> bx @@ y :> by

\* The uuid4 identities of rows are interchangeable.
Symmetry == Permutations(Questions \ {bx, by})

-----------------------------------------------------------------------------
(* What a document being processed may rely on, whatever its PDF holds.    *)

Processing == \E t \in Threads : At(t, "extract")

\* A document is parsed from the best of the texts that came in time, no tool is
\* left out while all are poor, and it is the tools that the chain came to that
\* make it fail, if one raises, or hang, if one hangs: leaving the `with` block
\* of an executor waits for the tool, whatever the limit says
\* (extract_text_pages_with_fallback).
ChainReturnsBest == Processing => BestOfTheTexts

\* Each heading up to the first theory question or exercise, and each exercise,
\* becomes one question, and no two get the same section and number, whatever
\* numbers are printed: the repair identifies questions by them, and a UNIQUE
\* constraint would refuse the whole document (parse_unisa_questions).
HeadingsBecomeQuestions == Processing => AQuestionForEachHeading

\* Whatever the multimodal model answers, each question that was parsed is still
\* there once, and a stem, its options or its subparts are as parsed or replaced
\* whole by the longest offered for this question; the update count is 0 only if
\* nothing changed, and the same answer again finds nothing to improve
\* (_merge_questions).
RepairKeepsQuestions == Processing => NothingRepairedAway

=============================================================================
