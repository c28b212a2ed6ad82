------------------------------- MODULE MCStudy -------------------------------
EXTENDS Study, TLC

CONSTANTS q1, q2, q3

\* A question never seen, and one that was forgotten three times and then
\* recalled until its interval met the cap; it has just become due.
MCPasts ==
    {[row |-> NoRow, tally |-> NoTally],
     [row |-> [state |-> "review", due |-> 0, reps |-> 18, interval |-> MaxInterval,
               ease |-> MinEase, lapses |-> 3],
      tally |-> [right |-> 18, wrong |-> 3]]}

MCAnswers == {[correct |-> TRUE, grade |-> NoGrade], [correct |-> FALSE, grade |-> 4]}
Symmetric == Permutations(Clients)
MCCopies == {<<q2, q1>>}

=============================================================================
