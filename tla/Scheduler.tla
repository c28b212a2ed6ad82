------------------------------ MODULE Scheduler ------------------------------
(***************************************************************************)
(* Spaced repetition with SM-2 (services/scheduler.py), in exact integers: *)
(* an ease factor in hundredths, an interval in hundredths of a day, a due *)
(* date in tenths of a minute.  The code rounds ease and interval to two   *)
(* decimals before it stores them, so nothing finer outlives one answer,   *)
(* except which way a tie was rounded: the binary float that stands for a  *)
(* tie lies on either side of it, and `up` says on which.                  *)
(***************************************************************************)
EXTENDS Integers

DefaultEase == 250
MinEase == 130
PassingGrade == 3
FirstInterval == 100
SecondInterval == 600
MaxInterval == 36500
RelearnStep == 100      \* ten minutes
HundredthOfDay == 144   \* in tenths of a minute

Grades == 0..5
NoGrade == 6            \* the request carries no grade

AtLeast(a, b) == IF a >= b THEN a ELSE b
AtMost(a, b) == IF a <= b THEN a ELSE b

\* What an attempt leaves of a question's schedule.
ReviewState == [reps : Nat, interval : 0..MaxInterval, ease : Nat, lapses : Nat]
FreshState == [reps |-> 0, interval |-> 0, ease |-> DefaultEase, lapses |-> 0]

\* An explicit grade counts as far as it agrees with right or wrong.
GradeFromAttempt(correct, grade) ==
    IF grade = NoGrade THEN (IF correct THEN 4 ELSE 1)
    ELSE IF correct THEN AtLeast(PassingGrade, grade)
    ELSE AtMost(PassingGrade - 1, grade)

UpdatedEaseFreely(ease, grade) ==               \* mutant
    LET miss == 5 - grade IN ease + 10 - miss * (8 + 2 * miss)

UpdatedEase(ease, grade) ==
    LET miss == 5 - grade IN AtLeast(MinEase, ease + 10 - miss * (8 + 2 * miss))

\* round(x / 100).
Rounded(x, up) ==
    LET down == x \div 100
        rest == x % 100
    IN  IF rest > 50 \/ (rest = 50 /\ up) THEN down + 1 ELSE down

\* The interval after a recalled answer; a migrated or merged row may have
\* repetitions and no interval.
IntervalUncapped(s, ease, up) ==                    \* mutant
    IF s.reps = 0 THEN FirstInterval
    ELSE IF s.reps = 1 THEN SecondInterval
    ELSE Rounded(AtLeast(s.interval, FirstInterval) * ease, up)

Interval(s, ease, up) ==
    IF s.reps = 0 THEN FirstInterval
    ELSE IF s.reps = 1 THEN SecondInterval
    ELSE AtMost(Rounded(AtLeast(s.interval, FirstInterval) * ease, up), MaxInterval)

\* `review`: the new state, how long until the question is due, the phase.
Review(s, grade, up) ==
    LET ease == UpdatedEase(s.ease, grade)
        next == IF grade < PassingGrade
                THEN [reps |-> 0, interval |-> 0, ease |-> ease, lapses |-> s.lapses + 1]
                ELSE [reps |-> s.reps + 1, interval |-> Interval(s, ease, up),
                      ease |-> ease, lapses |-> s.lapses]
    IN  [state |-> next,
         wait |-> IF grade < PassingGrade THEN RelearnStep ELSE next.interval * HundredthOfDay,
         phase |-> IF grade < PassingGrade THEN "relearning" ELSE "review"]

=============================================================================
