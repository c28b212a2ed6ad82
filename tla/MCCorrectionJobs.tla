--------------------------- MODULE MCCorrectionJobs ---------------------------
(***************************************************************************)
(* Small instances of CorrectionJobs for TLC.                              *)
(***************************************************************************)
EXTENDS CorrectionJobs, TLC

CONSTANTS q1, q2, q3, d1, d2

\* Three questions in section order, all in d1: more than one batch.  Two are
\* in d2 as well: a frequency job sends them first, and they get new numbers
\* there when d1 goes or is read again.
MCFirstRank == q1 :> 1 @@ q2 :> 2 @@ q3 :> 3
MCFirstOccurrences == d1 :> {q1, q2, q3} @@ d2 :> {q2, q3}

\* The three questions in the only document.
MCFirstOccurrencesAlone == d1 :> {q1, q2, q3}

\* Two questions, both in the only document.
MCFirstRankTwo == q1 :> 1 @@ q2 :> 2
MCFirstOccurrencesTwo == d1 :> {q1, q2}

\* A full answer, and an option the question does not have.
MCLlmItems == {[option |-> "known", explanation |-> TRUE],
               [option |-> "unknown", explanation |-> FALSE]}

\* The user fills in an option only.
MCManualEdits == {[option |-> TRUE, explanation |-> FALSE, payload |-> FALSE]}

=============================================================================
