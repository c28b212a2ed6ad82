----------------------------- MODULE StudyProofs -----------------------------
(***************************************************************************)
(* What holds of attempts, schedules and daily reviews for any number of   *)
(* questions, clients, attempts and changes of the bank.                   *)
(***************************************************************************)
EXTENDS Study, FiniteSetTheorems, TLAPS

-----------------------------------------------------------------------------
(* SM-2.                                                                   *)

\* All that matters of the cap.
LEMMA MaxIntervalType == MaxInterval \in Nat /\ MaxInterval > SecondInterval
  BY DEF MaxInterval, SecondInterval

LEMMA RoundedType ==
    ASSUME NEW x \in Nat, NEW up \in BOOLEAN
    PROVE  Rounded(x, up) \in Nat
  BY DEF Rounded

LEMMA ProductType ==
    ASSUME NEW x \in Nat, NEW y \in Nat
    PROVE  x * y \in Nat
  OBVIOUS

LEMMA EaseHasFloor ==
    ASSUME NEW ease \in Nat, NEW grade \in Grades
    PROVE  UpdatedEase(ease, grade) \in Nat /\ UpdatedEase(ease, grade) >= MinEase
<1>1. 5 - grade \in 0..5
  BY DEF Grades
<1>2. (5 - grade) * (8 + 2 * (5 - grade)) \in Int
  BY <1>1
<1>3. QED
  BY <1>2 DEF UpdatedEase, AtLeast, MinEase

\* The interval keeps its cap.
LEMMA IntervalHasCap ==
    ASSUME NEW s \in ReviewState, NEW ease \in Nat, NEW up \in BOOLEAN
    PROVE  Interval(s, ease, up) \in 0..MaxInterval
<1>1. AtLeast(s.interval, FirstInterval) \in Nat
  BY MaxIntervalType DEF AtLeast, FirstInterval, ReviewState
<1>2. Rounded(AtLeast(s.interval, FirstInterval) * ease, up) \in Nat
  BY <1>1, ProductType, RoundedType
<1>3. QED
  BY <1>2, MaxIntervalType DEF Interval, AtMost, FirstInterval, SecondInterval

\* A question that is recalled is not seen sooner than the last time, up to
\* the cap: no ease that the floor allows makes an interval shrink.
THEOREM RecalledIntervalGrows ==
    ASSUME NEW s \in ReviewState, NEW ease \in Nat, NEW up \in BOOLEAN,
           ease >= MinEase, s.reps > 1
    PROVE  Interval(s, ease, up) >= s.interval
<1> DEFINE i == AtLeast(s.interval, FirstInterval)
           x == i * ease
<1>1. i \in Nat /\ i >= s.interval /\ s.interval \in 0..MaxInterval
  BY MaxIntervalType DEF AtLeast, FirstInterval, ReviewState
<1>2. x \in Nat /\ x >= i * 100
  <2>1. \A k \in Nat : i * (100 + k) >= i * 100
    BY <1>1
  <2>2. ease - 100 \in Nat /\ ease = 100 + (ease - 100)
    BY DEF MinEase
  <2>3. QED
    BY <1>1, <2>1, <2>2, ProductType
<1>3. x \div 100 >= i
  BY <1>1, <1>2
<1>4. Rounded(x, up) >= i
  BY <1>1, <1>2, <1>3 DEF Rounded
<1>5. Interval(s, ease, up) = AtMost(Rounded(x, up), MaxInterval)
  BY DEF Interval, ReviewState
<1>6. QED
  BY <1>1, <1>2, <1>4, <1>5, RoundedType, MaxIntervalType DEF AtMost

LEMMA GradeType ==
    ASSUME NEW answer \in Answers
    PROVE  /\ GradeFromAttempt(answer.correct, answer.grade) \in Grades
           /\ GradeFromAttempt(answer.correct, answer.grade) >= PassingGrade <=> answer.correct
<1>1. answer.correct \in BOOLEAN /\ answer.grade \in Grades \cup {NoGrade}
  BY ConstantsAssumption
<1>2. CASE answer.correct
  BY <1>1, <1>2 DEF GradeFromAttempt, Grades, NoGrade, PassingGrade, AtLeast
<1>3. CASE ~answer.correct
  BY <1>1, <1>3 DEF GradeFromAttempt, Grades, NoGrade, PassingGrade, AtMost
<1>4. QED
  BY <1>2, <1>3

\* One answer: the row it makes of the one it has read, if there is one.
LEMMA RescheduledRow ==
    ASSUME NEW row \in Row \cup {NoRow}, NEW answer \in Answers, NEW up \in BOOLEAN, now \in Nat
    PROVE  LET new == Rescheduled(row, answer, up) IN
           /\ new \in Row /\ Sound(new) /\ new.state # "new"
           /\ IF answer.correct
              THEN new.reps = StateOf(row).reps + 1 /\ new.lapses = StateOf(row).lapses
              ELSE new.reps = 0 /\ new.lapses = StateOf(row).lapses + 1
<1> DEFINE s == StateOf(row)
           grade == GradeFromAttempt(answer.correct, answer.grade)
           ease == UpdatedEase(s.ease, grade)
<1>1. s \in ReviewState
  BY MaxIntervalType DEF StateOf, ReviewState, FreshState, Row, DefaultEase
<1>2. grade \in Grades /\ (grade < PassingGrade <=> ~answer.correct)
  BY GradeType DEF Grades, PassingGrade
<1>3. ease \in Nat /\ ease >= MinEase
  BY <1>1, <1>2, EaseHasFloor DEF ReviewState
<1>4. Interval(s, ease, up) \in 0..MaxInterval
  BY <1>1, <1>3, IntervalHasCap
<1>5. s.reps \in Nat /\ s.lapses \in Nat
  BY <1>1 DEF ReviewState
<1>6. answer.correct \in BOOLEAN
  BY ConstantsAssumption
<1>7. CASE answer.correct
  <2>1. Rescheduled(row, answer, up) =
            [state |-> "review", due |-> now + Interval(s, ease, up) * HundredthOfDay,
             reps |-> s.reps + 1, interval |-> Interval(s, ease, up), ease |-> ease,
             lapses |-> s.lapses]
    BY <1>2, <1>7 DEF Rescheduled, Review
  <2>2. now + Interval(s, ease, up) * HundredthOfDay \in Nat
    BY <1>4 DEF HundredthOfDay
  <2>3. \A due \in Nat, i \in 0..MaxInterval :
            LET new == [state |-> "review", due |-> due, reps |-> s.reps + 1, interval |-> i,
                        ease |-> ease, lapses |-> s.lapses]
            IN  new \in Row /\ Sound(new)
    BY <1>3, <1>5, MaxIntervalType DEF Row, Sound
  <2>4. Rescheduled(row, answer, up) \in Row /\ Sound(Rescheduled(row, answer, up))
    BY <1>4, <2>1, <2>2, <2>3
  <2>5. QED
    BY <1>7, <2>1, <2>4
<1>8. CASE ~answer.correct
  <2>1. Rescheduled(row, answer, up) =
            [state |-> "relearning", due |-> now + RelearnStep, reps |-> 0, interval |-> 0,
             ease |-> ease, lapses |-> s.lapses + 1]
    BY <1>2, <1>8 DEF Rescheduled, Review
  <2>2. QED
    BY <1>3, <1>5, <1>8, <2>1, MaxIntervalType DEF Row, Sound, RelearnStep
<1>9. QED
  BY <1>6, <1>7, <1>8

LEMMA NewRowType ==
    ASSUME NEW t \in Nat
    PROVE  NewRow(t) \in Row /\ Sound(NewRow(t))
  BY MaxIntervalType DEF NewRow, Row, Sound, DefaultEase, MinEase

\* A merge: the numbers of either row fit those of the other.
LEMMA MergedRow ==
    ASSUME NEW old \in Row, NEW new \in Row
    PROVE  LET merged == MergedRows(old, new) IN
           /\ merged \in Row
           /\ merged.state = new.state /\ merged.due <= new.due
           /\ merged.reps = AtLeast(new.reps, old.reps)
           /\ merged.lapses = AtLeast(new.lapses, old.lapses)
           /\ Sound(old) /\ Sound(new) => Sound(merged)
<1>1. old # NoRow /\ new # NoRow
  BY PastsAssumption
<1>2. MergedRows(old, new) =
          [state |-> new.state, due |-> AtMost(new.due, old.due),
           reps |-> AtLeast(new.reps, old.reps), interval |-> AtMost(new.interval, old.interval),
           ease |-> AtMost(new.ease, old.ease), lapses |-> AtLeast(new.lapses, old.lapses)]
  BY <1>1 DEF MergedRows, Row
<1>3. QED
  BY <1>2, MaxIntervalType DEF Row, Sound, AtMost, AtLeast, MinEase

-----------------------------------------------------------------------------
(* Types.                                                                  *)

LEMMA QuestionSets ==
    ASSUME NEW S \in SUBSET Questions
    PROVE  IsFiniteSet(S) /\ Cardinality(S) \in Nat
<1>1. IsFiniteSet(S)
  BY ConstantsAssumption, FS_Subset
<1>2. QED
  BY <1>1, FS_CardinalityType

LEMMA BlankTypes ==
    /\ Idle \in Request
    /\ NoReview \in ReviewSession
    /\ NoTally \in Tally
<1>1. \E q \in Questions : TRUE
  BY ConstantsAssumption
<1>2. \E a \in Answers : TRUE
  BY ConstantsAssumption
<1>3. QED
  BY <1>1, <1>2 DEF Idle, Request, NoReview, ReviewSession, NoTally, Tally

LEMMA InitTypeOK == Init => TypeOK
<1> SUFFICES ASSUME Init PROVE TypeOK
  OBVIOUS
<1>1. PICK past \in [Questions -> Pasts] :
          /\ schedule = [q \in Questions |-> past[q].row]
          /\ attempts = [q \in Questions |-> past[q].tally]
  BY DEF Init
<1>2. \A q \in Questions : past[q].row \in Row \cup {NoRow} /\ past[q].tally \in Tally
  BY <1>1, PastsAssumption
<1>3. QED
  BY <1>1, <1>2, BlankTypes, ConstantsAssumption DEF Init, TypeOK

\* What stopped waiting without having been served, and what became due behind
\* the back of a request.
Gone(c) == (Waiting(bank, schedule, now) \ Waiting(bank', schedule', now')) \ review[c].seen
Crossing == UnseenIn(bank, schedule) \cap DueIn(bank', schedule', now')

LEMMA NotedType ==
    ASSUME TypeOK, NEW c \in Clients
    PROVE  /\ Noted(c) \in ReviewSession
           /\ Noted(c).on = review[c].on /\ Noted(c).ended = review[c].ended
           /\ Noted(c).limit = review[c].limit /\ Noted(c).seen = review[c].seen
           /\ Noted(c).lost = review[c].lost + Cardinality(Gone(c))
           /\ Noted(c).crossed = IF req[c].pc = "unseen" THEN review[c].crossed \cup Crossing
                                                          ELSE review[c].crossed
<1> DEFINE n == Cardinality(Gone(c))
           met == IF req[c].pc = "unseen" THEN review[c].crossed \cup Crossing
                                          ELSE review[c].crossed
<1>1. review[c] \in ReviewSession
  BY DEF TypeOK
<1>2. Gone(c) \in SUBSET Questions /\ Crossing \in SUBSET Questions
  BY DEF Gone, Crossing, Waiting, DueIn, UnseenIn
<1>3. n \in Nat /\ met \in SUBSET Questions
  BY <1>1, <1>2, QuestionSets DEF ReviewSession
<1>4. Noted(c) = [review[c] EXCEPT !.lost = @ + n, !.crossed = met]
  BY <1>1 DEF Noted, Gone, Crossing, ReviewSession
<1> HIDE DEF n, met
<1>5. Noted(c) = [on |-> review[c].on, limit |-> review[c].limit, seen |-> review[c].seen,
                  current |-> review[c].current, ended |-> review[c].ended,
                  lost |-> review[c].lost + n, crossed |-> met]
  BY <1>1, <1>4 DEF ReviewSession
<1>6. review[c].lost + n \in Nat
  BY <1>1, <1>3 DEF ReviewSession
<1>7. /\ Noted(c) \in ReviewSession
      /\ Noted(c).on = review[c].on /\ Noted(c).ended = review[c].ended
      /\ Noted(c).limit = review[c].limit /\ Noted(c).seen = review[c].seen
      /\ Noted(c).lost = review[c].lost + n /\ Noted(c).crossed = met
  BY <1>1, <1>3, <1>5, <1>6 DEF ReviewSession
<1>8. QED
  BY <1>7 DEF n, met

LEMMA CountLostType ==
    ASSUME TypeOK, CountLost
    PROVE  review' \in [Clients -> ReviewSession]
  BY NotedType DEF CountLost

LEMMA RecordAttemptTypeOK ==
    ASSUME TypeOK, NEW c \in Clients, NEW q \in Questions, NEW answer \in Answers,
           RecordAttempt(c, q, answer)
    PROVE  TypeOK'
<1>1. [Idle EXCEPT !.pc = "attempt", !.question = q, !.answer = answer,
                    !.before = schedule[q]] \in Request
  BY BlankTypes DEF TypeOK, Request
<1>2. QED
  BY <1>1, ConstantsAssumption DEF RecordAttempt, TypeOK

LEMMA ShowingType ==
    ASSUME NEW c \in Clients, NEW q \in Questions, review[c] \in ReviewSession
    PROVE  /\ Showing(c, q) \in ReviewSession
           /\ Showing(c, q).ended = review[c].ended /\ Showing(c, q).limit = review[c].limit
           /\ Showing(c, q).lost = review[c].lost /\ Showing(c, q).crossed = review[c].crossed
           /\ Showing(c, q).seen = review[c].seen \cup {q}
  BY DEF Showing, ReviewSession

LEMMA TransactionTypeOK ==
    ASSUME TypeOK, NEW c \in Clients, Transaction(c)
    PROVE  TypeOK'
<1> DEFINE r == req[c]
<1>1. r \in Request /\ review[c] \in ReviewSession
  BY DEF TypeOK
<1>2. CASE CommitAttempt(c)
  <2>1. \A up \in BOOLEAN : Rescheduled(r.before, r.answer, up) \in Row
    BY <1>1, RescheduledRow DEF TypeOK, Request
  <2>2. attempts' \in [Questions -> Tally]
    BY <1>1, <1>2 DEF CommitAttempt, TypeOK, Request, Tally
  <2>3. review' \in [Clients -> ReviewSession]
    BY <1>2, CountLostType DEF CommitAttempt
  <2>4. schedule' \in [Questions -> Row \cup {NoRow}]
    <3>1. PICK up \in BOOLEAN :
              schedule' = [schedule EXCEPT ![r.question] = Rescheduled(r.before, r.answer, up)]
      BY <1>2 DEF CommitAttempt
    <3>2. QED
      BY <2>1, <3>1 DEF TypeOK
  <2>5. QED
    BY <1>1, <1>2, <2>2, <2>3, <2>4, BlankTypes DEF CommitAttempt, TypeOK
<1>3. CASE AttemptFails(c)
  BY <1>3, BlankTypes DEF AttemptFails, TypeOK
<1>4. CASE InsertNew(c)
  <2>1. r.question \in Questions /\ r.at \in Nat
    BY <1>1 DEF Request
  <2>2. schedule' \in [Questions -> Row \cup {NoRow}]
    BY <1>4, <2>1, NewRowType DEF InsertNew, TypeOK
  <2>3. Showing(c, r.question) \in ReviewSession
    BY <1>1, <2>1, ShowingType
  <2>4. review' \in [Clients -> ReviewSession]
    BY <1>4, <2>3, NotedType DEF InsertNew, ServeNew, TypeOK
  <2>5. QED
    BY <1>4, <2>2, <2>4, BlankTypes DEF InsertNew, TypeOK
<1>5. QED
  BY <1>2, <1>3, <1>4 DEF Transaction

LEMMA DailyReviewTypeOK ==
    ASSUME TypeOK, NEW c \in Clients, DailyReview(c)
    PROVE  TypeOK'
<1>1. req[c] \in Request /\ review[c] \in ReviewSession
  BY DEF TypeOK
<1>2. CASE StartReview(c)
  <2>1. SummaryDue \in SUBSET Questions /\ SummaryNew \in SUBSET Questions
    BY DEF SummaryDue, SummaryNew, Live
  <2>2. \A n \in Nat : [NoReview EXCEPT !.on = TRUE, !.limit = n] \in ReviewSession
    BY BlankTypes DEF ReviewSession
  <2>3. AtMost(Cardinality(SummaryDue) + Cardinality(SummaryNew), ReviewLength) \in Nat
    BY <2>1, QuestionSets, ConstantsAssumption DEF AtMost
  <2>4. QED
    BY <1>2, <2>2, <2>3 DEF StartReview, TypeOK
<1>3. CASE EndReview(c)
  BY <1>1, <1>3 DEF EndReview, TypeOK, ReviewSession
<1>4. CASE LeaveReview(c)
  BY <1>4, BlankTypes DEF LeaveReview, TypeOK
<1>5. ASSUME NEW q \in Questions, ServeDue(c, q)
      PROVE  TypeOK'
  BY <1>1, <1>5, ShowingType DEF ServeDue, TypeOK
<1>6. ASSUME NEW q \in Questions, FindUnseen(c, q)
      PROVE  TypeOK'
  BY <1>1, <1>6 DEF FindUnseen, TypeOK, Request, ReviewSession
<1>7. ASSUME NEW q \in review[c].current, NEW answer \in Answers, RecordAttempt(c, q, answer)
      PROVE  TypeOK'
  BY <1>1, <1>7, RecordAttemptTypeOK DEF ReviewSession
<1>8. CASE NothingDue(c)
  BY <1>1, <1>8 DEF NothingDue, TypeOK, Request
<1>9. CASE NothingUnseen(c)
  BY <1>1, <1>9, BlankTypes DEF NothingUnseen, TypeOK, ReviewSession
<1>10. QED
  BY <1>2, <1>3, <1>4, <1>5, <1>6, <1>7, <1>8, <1>9 DEF DailyReview

LEMMA BankChangesTypeOK ==
    ASSUME TypeOK, BankChanges
    PROVE  TypeOK'
<1>1. ASSUME NEW q \in Questions, SetDiscarded(q)
      PROVE  TypeOK'
  <2>1. review' \in [Clients -> ReviewSession]
    BY <1>1, CountLostType DEF SetDiscarded
  <2>2. QED
    BY <1>1, <2>1, ConstantsAssumption DEF SetDiscarded, Changes, TypeOK
<1>2. ASSUME NEW q \in Questions, DeleteQuestion(q)
      PROVE  TypeOK'
  <2>1. review' \in [Clients -> ReviewSession]
    BY <1>2, CountLostType DEF DeleteQuestion
  <2>2. QED
    BY <1>2, <2>1, BlankTypes, ConstantsAssumption DEF DeleteQuestion, Changes, TypeOK
<1>3. ASSUME NEW m \in Copies, MergeCopy(m[1], m[2])
      PROVE  TypeOK'
  <2> DEFINE p == m[1]
             q == m[2]
  <2>1. p \in Questions /\ q \in Questions
    BY ConstantsAssumption
  <2>2. MergedRows(schedule[p], schedule[q]) \in Row \cup {NoRow}
    <3>1. schedule[p] \in Row \cup {NoRow} /\ schedule[q] \in Row \cup {NoRow}
      BY <2>1 DEF TypeOK
    <3>2. CASE schedule[p] \in Row /\ schedule[q] \in Row
      BY <3>2, MergedRow
    <3>3. CASE schedule[p] = NoRow \/ schedule[q] = NoRow
      BY <3>1, <3>3 DEF MergedRows
    <3>4. QED
      BY <3>1, <3>2, <3>3
  <2>3. attempts' \in [Questions -> Tally]
    BY <1>3, <2>1, BlankTypes DEF MergeCopy, TypeOK, Tally
  <2>4. review' \in [Clients -> ReviewSession]
    BY <1>3, CountLostType DEF MergeCopy
  <2>5. QED
    BY <1>3, <2>1, <2>2, <2>3, <2>4, ConstantsAssumption DEF MergeCopy, Changes, TypeOK
<1>4. QED
  BY <1>1, <1>2, <1>3 DEF BankChanges

LEMMA TickType ==
    ASSUME TypeOK, Tick
    PROVE  now' \in Nat /\ now' > now
  BY DEF TypeOK, Tick, HasRow, Row

LEMMA StepTypeOK == TypeOK /\ [Next]_vars => TypeOK'
<1> SUFFICES ASSUME TypeOK, [Next]_vars PROVE TypeOK'
  OBVIOUS
<1>1. ASSUME NEW c \in Clients, Simulation(c)
      PROVE  TypeOK'
  BY <1>1, RecordAttemptTypeOK DEF Simulation
<1>2. CASE Tick
  BY <1>2, TickType DEF Tick, TypeOK
<1>3. CASE UNCHANGED vars
  BY <1>3 DEF vars, TypeOK
<1>4. QED
  BY <1>1, <1>2, <1>3, TransactionTypeOK, DailyReviewTypeOK, BankChangesTypeOK DEF Next

\* Type correctness.
THEOREM TypeCorrect == Spec => []TypeOK
  BY InitTypeOK, StepTypeOK, PTL DEF Spec

-----------------------------------------------------------------------------
(* Locks, and the numbers of a schedule.                                   *)

Locking(c) == req[c].pc = "attempt" /\ req[c].before # NoRow

\* A row that an attempt has read FOR UPDATE is as it was, and no two attempts
\* have read the same one.
LockInv ==
    /\ \A c \in Clients : Locking(c) => schedule[req[c].question] = req[c].before
    /\ \A c, d \in Clients : Locking(c) /\ Locking(d) /\ c # d
                              => req[c].question # req[d].question

\* A row of state 'new' is due at once, and merges only bring dates forward.
NewIsDue == \A q \in Questions :
    HasRow(q) /\ schedule[q].state = "new" => schedule[q].due <= now

RowsInv == LockInv /\ NewIsDue /\ SchedulesAreSound /\ AnswersAreScheduled

\* No transaction has begun in the future: the `due` of a new row is now() of
\* the transaction, not of its last statement.
BegunBefore == \A c \in Clients : req[c].at <= now

LEMMA InitBegunBefore == Init => BegunBefore
  BY DEF Init, BegunBefore, Idle

LEMMA StepBegunBefore == TypeOK /\ BegunBefore /\ [Next]_vars => BegunBefore'
<1> SUFFICES ASSUME TypeOK, BegunBefore, [Next]_vars PROVE BegunBefore'
  OBVIOUS
<1>1. /\ now \in Nat /\ Idle.at = 0
      /\ \A c \in Clients : req[c] \in Request /\ req[c].at \in Nat /\ req[c].at <= now
      /\ req \in [Clients -> Request]
  BY DEF TypeOK, Request, BegunBefore, Idle
<1>2. ASSUME NEW c \in Clients, NEW x, x.at <= now, req' = [req EXCEPT ![c] = x], now' = now
      PROVE  BegunBefore'
  BY <1>1, <1>2 DEF BegunBefore
<1>3. ASSUME req' = req, now' = now
      PROVE  BegunBefore'
  BY <1>1, <1>3 DEF BegunBefore
<1>4. ASSUME NEW c \in Clients, NEW q, NEW answer, RecordAttempt(c, q, answer)
      PROVE  BegunBefore'
  <2>1. [Idle EXCEPT !.pc = "attempt", !.question = q, !.answer = answer,
                      !.before = schedule[q]].at <= now
    BY <1>1 DEF Idle
  <2>2. QED
    BY <1>1, <1>2, <1>4, <2>1, Zenon DEF RecordAttempt
<1>5. ASSUME NEW c \in Clients, Transaction(c)
      PROVE  BegunBefore'
  BY <1>1, <1>2, <1>5 DEF Transaction, CommitAttempt, AttemptFails, InsertNew
<1>6. ASSUME NEW c \in Clients, DailyReview(c)
      PROVE  BegunBefore'
  <2>1. CASE StartReview(c) \/ EndReview(c) \/ LeaveReview(c)
    BY <1>3, <2>1 DEF StartReview, EndReview, LeaveReview
  <2>2. CASE NothingUnseen(c)
    <3>1. Idle.at <= now
      BY <1>1
    <3>2. req' = [req EXCEPT ![c] = Idle] /\ now' = now
      BY <2>2 DEF NothingUnseen
    <3>3. QED
      BY <1>2, <3>1, <3>2
  <2>3. CASE NothingDue(c)
    BY <1>1, <2>3 DEF NothingDue, BegunBefore, Request
  <2>4. ASSUME NEW q \in Questions, ServeDue(c, q)
        PROVE  BegunBefore'
    BY <1>3, <2>4 DEF ServeDue
  <2>5. ASSUME NEW q \in Questions, FindUnseen(c, q)
        PROVE  BegunBefore'
    BY <1>1, <2>5 DEF FindUnseen, BegunBefore, Request
  <2>6. QED
    BY <1>4, <1>6, <2>1, <2>2, <2>3, <2>4, <2>5 DEF DailyReview
<1>7. ASSUME NEW c \in Clients, Simulation(c)
      PROVE  BegunBefore'
  BY <1>4, <1>7 DEF Simulation
<1>8. CASE BankChanges
  BY <1>3, <1>8 DEF BankChanges, SetDiscarded, DeleteQuestion, MergeCopy
<1>9. CASE Tick
  <2>1. now' \in Nat /\ now' > now
    BY <1>9, TickType
  <2>2. QED
    BY <1>1, <1>9, <2>1 DEF Tick, BegunBefore
<1>10. CASE UNCHANGED vars
  BY <1>3, <1>10 DEF vars
<1>11. QED
  BY <1>5, <1>6, <1>7, <1>8, <1>9, <1>10 DEF Next

LEMMA InitRowsInv == Init => RowsInv
<1> SUFFICES ASSUME Init PROVE RowsInv
  OBVIOUS
<1>1. PICK past \in [Questions -> Pasts] :
          /\ schedule = [q \in Questions |-> past[q].row]
          /\ attempts = [q \in Questions |-> past[q].tally]
  BY DEF Init
<1>2. \A q \in Questions : past[q] \in Pasts
  BY <1>1
<1>3. SchedulesAreSound /\ AnswersAreScheduled
  BY <1>1, <1>2, PastsAssumption DEF SchedulesAreSound, AnswersAreScheduled, HasRow
<1>4. NewIsDue
  BY <1>1, <1>2, PastsAssumption DEF Init, NewIsDue, HasRow
<1>5. LockInv
  BY DEF Init, LockInv, Locking, Idle
<1>6. QED
  BY <1>3, <1>4, <1>5 DEF RowsInv

\* Steps that leave the rows alone and lock nothing new.
LEMMA RowsUntouched ==
    ASSUME TypeOK, RowsInv, now' = now, UNCHANGED <<schedule, attempts>>,
           \A c \in Clients : Locking(c)' => Locking(c) /\ req'[c] = req[c]
    PROVE  RowsInv'
<1>1. LockInv'
  BY DEF RowsInv, LockInv, Locking
<1>2. QED
  BY <1>1 DEF RowsInv, NewIsDue, SchedulesAreSound, AnswersAreScheduled, HasRow

LEMMA RecordAttemptRowsInv ==
    ASSUME TypeOK, RowsInv, NEW c \in Clients, NEW q \in Questions, NEW answer \in Answers,
           RecordAttempt(c, q, answer)
    PROVE  RowsInv'
<1>1. /\ req'[c].question = q /\ req'[c].before = schedule[q]
      /\ \A d \in Clients \ {c} : req'[d] = req[d]
  BY DEF RecordAttempt, TypeOK, Idle
<1>2. \A d \in Clients : Locking(d) => req[d].question # q
  BY DEF RecordAttempt, Locked, Locking
<1>3. LockInv'
  BY <1>1, <1>2 DEF RecordAttempt, RowsInv, LockInv, Locking
<1>4. QED
  BY <1>3 DEF RecordAttempt, RowsInv, NewIsDue, SchedulesAreSound, AnswersAreScheduled, HasRow

\* An attempt commits over the row it has read, or over none it had to read.
LEMMA CommitAttemptRowsInv ==
    ASSUME TypeOK, RowsInv, NEW c \in Clients, CommitAttempt(c)
    PROVE  RowsInv'
<1>0. PICK up \in BOOLEAN :
          schedule' = [schedule EXCEPT ![req[c].question] =
                           Rescheduled(req[c].before, req[c].answer, up)]
  BY DEF CommitAttempt
<1> DEFINE r == req[c]
           q == req[c].question
           new == Rescheduled(req[c].before, req[c].answer, up)
           s == StateOf(req[c].before)
<1>1. r \in Request /\ q \in Questions /\ attempts[q] \in Tally
      /\ r.before \in Row \cup {NoRow} /\ r.answer \in Answers
  BY DEF TypeOK, Request
<1>2. /\ new \in Row /\ Sound(new) /\ new.state # "new"
      /\ IF r.answer.correct THEN new.reps = s.reps + 1 /\ new.lapses = s.lapses
                             ELSE new.reps = 0 /\ new.lapses = s.lapses + 1
  BY <1>1, RescheduledRow DEF TypeOK
<1>3. /\ schedule' = [schedule EXCEPT ![q] = new]
      /\ req' = [req EXCEPT ![c] = Idle]
      /\ now' = now
      /\ r.pc = "attempt"
  BY <1>0 DEF CommitAttempt
<1>4. /\ s.reps \in Nat /\ s.lapses \in Nat
      /\ s.reps <= attempts[q].right /\ s.lapses <= attempts[q].wrong
  <2>1. CASE r.before = NoRow
    BY <1>1, <2>1 DEF StateOf, FreshState, Tally
  <2>2. CASE r.before # NoRow
    <3>1. schedule[q] = r.before
      BY <1>3, <2>2 DEF RowsInv, LockInv, Locking
    <3>2. r.before.reps <= attempts[q].right /\ r.before.lapses <= attempts[q].wrong
      BY <1>1, <2>2, <3>1 DEF RowsInv, AnswersAreScheduled, Accounted
    <3>3. QED
      BY <1>1, <2>2, <3>2 DEF StateOf, Row
  <2>3. QED
    BY <2>1, <2>2
<1>5. Accounted(new, attempts'[q])
  <2>1. r.answer.correct \in BOOLEAN
    BY <1>1, ConstantsAssumption
  <2>2. new # NoRow
    BY <1>2, PastsAssumption
  <2>3. CASE r.answer.correct
    <3>1. attempts'[q] = [attempts[q] EXCEPT !.right = @ + 1]
      BY <1>1, <2>3 DEF CommitAttempt, TypeOK
    <3>2. QED
      BY <1>1, <1>2, <1>4, <2>2, <2>3, <3>1 DEF Accounted, Tally
  <2>4. CASE ~r.answer.correct
    <3>1. attempts'[q] = [attempts[q] EXCEPT !.wrong = @ + 1]
      BY <1>1, <2>4 DEF CommitAttempt, TypeOK
    <3>2. QED
      BY <1>1, <1>2, <1>4, <2>2, <2>4, <3>1 DEF Accounted, Tally
  <2>5. QED
    BY <2>1, <2>3, <2>4
<1>6. \A p \in Questions \ {q} : schedule'[p] = schedule[p] /\ attempts'[p] = attempts[p]
  BY <1>1, <1>3 DEF CommitAttempt, TypeOK
<1>7. schedule'[q] = new
  BY <1>1, <1>3 DEF TypeOK
<1>8. AnswersAreScheduled'
  BY <1>5, <1>6, <1>7 DEF RowsInv, AnswersAreScheduled
<1>9. SchedulesAreSound' /\ NewIsDue'
  BY <1>2, <1>3, <1>6, <1>7 DEF RowsInv, SchedulesAreSound, NewIsDue, HasRow
<1>10. \A d \in Clients \ {c} : Locking(d) => req[d].question # q
  <2>1. CASE r.before = NoRow
    BY <2>1 DEF CommitAttempt, Locked, Locking
  <2>2. CASE r.before # NoRow
    BY <1>3, <2>2 DEF RowsInv, LockInv, Locking
  <2>3. QED
    BY <2>1, <2>2
<1>11. LockInv'
  <2>1. \A d \in Clients : Locking(d)' => d # c /\ Locking(d) /\ req'[d] = req[d]
    BY <1>3 DEF Locking, Idle, TypeOK
  <2>2. \A d \in Clients : req[d].question \in Questions
    BY DEF TypeOK, Request
  <2>3. QED
    BY <1>6, <1>10, <2>1, <2>2 DEF RowsInv, LockInv, Locking
<1>12. QED
  BY <1>8, <1>9, <1>11 DEF RowsInv

LEMMA InsertNewRowsInv ==
    ASSUME TypeOK, RowsInv, BegunBefore, NEW c \in Clients, InsertNew(c)
    PROVE  RowsInv'
<1> DEFINE q == req[c].question
           new == NewRow(req[c].at)
<1>1. q \in Questions /\ now \in Nat /\ req[c].at \in Nat /\ req[c].at <= now
  BY DEF TypeOK, Request, BegunBefore
<1>2. \A p \in Questions : \/ schedule'[p] = schedule[p]
                           \/ p = q /\ schedule[p] = NoRow /\ schedule'[p] = new
  BY <1>1 DEF InsertNew, TypeOK
<1>3. now' = now /\ attempts' = attempts
  BY DEF InsertNew
<1>4. new \in Row /\ Sound(new) /\ new # NoRow /\ new.due <= now
      /\ new.reps = 0 /\ new.lapses = 0
  BY <1>1, NewRowType, PastsAssumption DEF NewRow
<1> HIDE DEF new
<1>5. SchedulesAreSound' /\ NewIsDue'
  BY <1>2, <1>3, <1>4 DEF RowsInv, SchedulesAreSound, NewIsDue, HasRow
<1>6. AnswersAreScheduled'
  <2>1. SUFFICES ASSUME NEW p \in Questions, schedule[p] = NoRow, schedule'[p] = new
                 PROVE  Accounted(schedule'[p], attempts'[p])
    BY <1>2, <1>3 DEF RowsInv, AnswersAreScheduled
  <2>2. attempts[p] \in Tally
    BY DEF TypeOK
  <2>3. Accounted(schedule[p], attempts[p])
    BY DEF RowsInv, AnswersAreScheduled
  <2>4. QED
    BY <1>3, <1>4, <2>1, <2>2, <2>3 DEF Accounted, Tally
<1>7. LockInv'
  <2>1. \A d \in Clients : Locking(d)' => Locking(d) /\ req'[d] = req[d]
    BY DEF InsertNew, Locking, Idle, TypeOK
  <2>2. \A d \in Clients : Locking(d) => schedule'[req[d].question] = schedule[req[d].question]
    BY <1>2 DEF RowsInv, LockInv, Locking, TypeOK, Request
  <2>3. QED
    BY <2>1, <2>2 DEF RowsInv, LockInv, Locking
<1>8. QED
  BY <1>5, <1>6, <1>7 DEF RowsInv

\* Deleting a question takes its row along, and no attempt is looking at it.
LEMMA DeleteQuestionRowsInv ==
    ASSUME TypeOK, RowsInv, NEW q \in Questions, DeleteQuestion(q)
    PROVE  RowsInv'
<1>1. /\ schedule'[q] = NoRow /\ attempts'[q] = NoTally
      /\ \A p \in Questions \ {q} : schedule'[p] = schedule[p] /\ attempts'[p] = attempts[p]
      /\ now' = now /\ req' = req
  BY DEF DeleteQuestion, TypeOK
<1>2. \A c \in Clients : Locking(c) => req[c].question # q /\ req[c].question \in Questions
  BY DEF DeleteQuestion, Referenced, Locking, TypeOK, Request
<1>3. LockInv'
  BY <1>1, <1>2 DEF RowsInv, LockInv, Locking
<1>4. AnswersAreScheduled'
  BY <1>1 DEF RowsInv, AnswersAreScheduled, Accounted, NoTally
<1>5. QED
  BY <1>1, <1>3, <1>4 DEF RowsInv, NewIsDue, SchedulesAreSound, HasRow

\* A merge leaves the keeper a row whose numbers fit the answers of both.
LEMMA MergeCopyRowsInv ==
    ASSUME TypeOK, RowsInv, NEW p \in Questions, NEW q \in Questions, p # q, MergeCopy(p, q)
    PROVE  RowsInv'
<1> DEFINE old == schedule[p]
           new == schedule[q]
           merged == MergedRows(old, new)
<1>1. /\ old \in Row \cup {NoRow} /\ new \in Row \cup {NoRow}
      /\ attempts[p] \in Tally /\ attempts[q] \in Tally
  BY DEF TypeOK
<1>2. /\ schedule'[p] = NoRow /\ attempts'[p] = NoTally
      /\ schedule'[q] = merged
      /\ attempts'[q] = [right |-> attempts[q].right + attempts[p].right,
                         wrong |-> attempts[q].wrong + attempts[p].wrong]
      /\ \A m \in Questions \ {p, q} : schedule'[m] = schedule[m] /\ attempts'[m] = attempts[m]
      /\ now' = now /\ req' = req
  BY <1>1 DEF MergeCopy, TypeOK, Tally
<1>3. Accounted(old, attempts[p]) /\ Accounted(new, attempts[q])
  BY DEF RowsInv, AnswersAreScheduled
<1>4. /\ old # NoRow => Sound(old) /\ (old.state = "new" => old.due <= now)
      /\ new # NoRow => Sound(new) /\ (new.state = "new" => new.due <= now)
  BY DEF RowsInv, SchedulesAreSound, NewIsDue, HasRow
<1>5. LockInv'
  <2>1. \A c \in Clients : Locking(c) => req[c].question \in Questions \ {p, q}
    BY DEF MergeCopy, Referenced, Locked, Locking, TypeOK, Request
  <2>2. QED
    BY <1>2, <2>1 DEF RowsInv, LockInv, Locking
<1>6. CASE old = NoRow
  <2>1. merged = new
    BY <1>6 DEF MergedRows
  <2>2. Accounted(new, attempts'[q])
    BY <1>1, <1>2, <1>3, <1>6 DEF Accounted, Tally, Row
  <2>3. AnswersAreScheduled'
    BY <1>2, <2>1, <2>2 DEF RowsInv, AnswersAreScheduled, Accounted, NoTally
  <2>4. SchedulesAreSound' /\ NewIsDue'
    BY <1>2, <1>4, <2>1 DEF RowsInv, SchedulesAreSound, NewIsDue, HasRow
  <2>5. QED
    BY <1>5, <2>3, <2>4 DEF RowsInv
<1>7. CASE new = NoRow
  <2>1. merged = old
    BY <1>7 DEF MergedRows
  <2>2. Accounted(old, attempts'[q])
    BY <1>1, <1>2, <1>3, <1>7 DEF Accounted, Tally, Row
  <2>3. AnswersAreScheduled'
    BY <1>2, <2>1, <2>2 DEF RowsInv, AnswersAreScheduled, Accounted, NoTally
  <2>4. SchedulesAreSound' /\ NewIsDue'
    BY <1>2, <1>4, <2>1 DEF RowsInv, SchedulesAreSound, NewIsDue, HasRow
  <2>5. QED
    BY <1>5, <2>3, <2>4 DEF RowsInv
<1>8. CASE old # NoRow /\ new # NoRow
  <2>1. old \in Row /\ new \in Row
    BY <1>1, <1>8
  <2>2. /\ merged \in Row /\ merged # NoRow /\ Sound(merged)
        /\ merged.state = new.state /\ merged.due <= new.due
        /\ merged.reps = AtLeast(new.reps, old.reps)
        /\ merged.lapses = AtLeast(new.lapses, old.lapses)
    BY <1>4, <1>8, <2>1, MergedRow, PastsAssumption
  <2>3. Accounted(merged, attempts'[q])
    BY <1>1, <1>2, <1>3, <1>8, <2>1, <2>2 DEF Accounted, Tally, Row, AtLeast
  <2>4. AnswersAreScheduled'
    BY <1>2, <2>3 DEF RowsInv, AnswersAreScheduled, Accounted, NoTally
  <2>5. merged.state = "new" => merged.due <= now
    BY <1>4, <1>8, <2>1, <2>2 DEF TypeOK, Row
  <2>6. SchedulesAreSound' /\ NewIsDue'
    BY <1>2, <2>2, <2>5 DEF RowsInv, SchedulesAreSound, NewIsDue, HasRow
  <2>7. QED
    BY <1>5, <2>4, <2>6 DEF RowsInv
<1>9. QED
  BY <1>6, <1>7, <1>8

LEMMA TickRowsInv ==
    ASSUME TypeOK, RowsInv, Tick
    PROVE  RowsInv'
<1>1. now' \in Nat /\ now' > now /\ now \in Nat
  BY TickType DEF TypeOK
<1>2. /\ schedule' = schedule /\ attempts' = attempts /\ req' = req
      /\ \A q \in Questions : HasRow(q) => schedule[q].due \in Nat
  BY DEF Tick, TypeOK, HasRow, Row
<1>3. NewIsDue'
  BY <1>1, <1>2 DEF RowsInv, NewIsDue, HasRow
<1>4. QED
  BY <1>2, <1>3 DEF RowsInv, LockInv, Locking, SchedulesAreSound, AnswersAreScheduled, HasRow

LEMMA StepRowsInv == TypeOK /\ RowsInv /\ BegunBefore /\ [Next]_vars => RowsInv'
<1> SUFFICES ASSUME TypeOK, RowsInv, BegunBefore, [Next]_vars PROVE RowsInv'
  OBVIOUS
<1>1. ASSUME NEW c \in Clients, Transaction(c)
      PROVE  RowsInv'
  <2>1. CASE AttemptFails(c)
    BY <2>1, RowsUntouched DEF AttemptFails, Locking, Idle, TypeOK
  <2>2. QED
    BY <1>1, <2>1, CommitAttemptRowsInv, InsertNewRowsInv DEF Transaction
<1>2. ASSUME NEW c \in Clients, DailyReview(c)
      PROVE  RowsInv'
  <2>1. CASE StartReview(c) \/ EndReview(c) \/ LeaveReview(c)
    BY <2>1, RowsUntouched DEF StartReview, EndReview, LeaveReview, Locking
  <2>2. ASSUME NEW q \in Questions, ServeDue(c, q)
        PROVE  RowsInv'
    BY <2>2, RowsUntouched DEF ServeDue, Locking
  <2>3. ASSUME NEW q \in Questions, FindUnseen(c, q)
        PROVE  RowsInv'
    BY <2>3, RowsUntouched DEF FindUnseen, Locking, TypeOK
  <2>4. ASSUME NEW q \in review[c].current, NEW answer \in Answers, RecordAttempt(c, q, answer)
        PROVE  RowsInv'
    BY <2>4, RecordAttemptRowsInv DEF TypeOK, ReviewSession
  <2>5. CASE NothingDue(c)
    BY <2>5, RowsUntouched DEF NothingDue, WantsNext, Locking, TypeOK
  <2>6. CASE NothingUnseen(c)
    BY <2>6, RowsUntouched DEF NothingUnseen, Locking, Idle, TypeOK
  <2>7. QED
    BY <1>2, <2>1, <2>2, <2>3, <2>4, <2>5, <2>6 DEF DailyReview
<1>3. ASSUME NEW c \in Clients, Simulation(c)
      PROVE  RowsInv'
  BY <1>3, RecordAttemptRowsInv DEF Simulation
<1>4. ASSUME NEW q \in Questions, SetDiscarded(q)
      PROVE  RowsInv'
  BY <1>4, RowsUntouched DEF SetDiscarded, Locking
<1>5. ASSUME NEW m \in Copies, MergeCopy(m[1], m[2])
      PROVE  RowsInv'
  BY <1>5, MergeCopyRowsInv, ConstantsAssumption
<1>6. CASE BankChanges
  BY <1>4, <1>5, <1>6, DeleteQuestionRowsInv DEF BankChanges
<1>7. CASE UNCHANGED vars
  BY <1>7, RowsUntouched DEF vars, Locking
<1>8. QED
  BY <1>1, <1>2, <1>3, <1>6, <1>7, TickRowsInv DEF Next

LEMMA RowsInvHolds == Spec => [](TypeOK /\ RowsInv)
  BY InitTypeOK, StepTypeOK, InitRowsInv, StepRowsInv, InitBegunBefore, StepBegunBefore, PTL
     DEF Spec

\* The numbers of a schedule fit each other after any sequence of ratings and
\* merges.
THEOREM SchedulesAreSoundHolds == Spec => []SchedulesAreSound
<1>1. RowsInv => SchedulesAreSound
  BY DEF RowsInv
<1>2. QED
  BY <1>1, RowsInvHolds, PTL

\* Every answer leaves its trace in the schedule, and nothing else does.
THEOREM AnswersAreScheduledHolds == Spec => []AnswersAreScheduled
<1>1. RowsInv => AnswersAreScheduled
  BY DEF RowsInv
<1>2. QED
  BY <1>1, RowsInvHolds, PTL

\* A row in phase 'new' is due at once, so the two classifications agree.
LEMMA NewIsDuePlan ==
    ASSUME TypeOK, NewIsDue
    PROVE  PlannedIsServable /\ SummaryNew \cup SummaryDue = Waiting(bank, schedule, now)
  BY DEF TypeOK, NewIsDue, PlannedIsServable, SummaryNew, SummaryDue, Due, Unseen, IsDue,
         HasRow, Live, Waiting, DueIn, UnseenIn

\* The summary and next_question classify by two queries, and in every state
\* what the first counts as due or new is what the second serves.
THEOREM PlannedIsServableHolds == Spec => []PlannedIsServable
<1>1. TypeOK /\ RowsInv => PlannedIsServable
  BY NewIsDuePlan DEF RowsInv
<1>2. QED
  BY <1>1, RowsInvHolds, PTL

\* An attempt overwrites only what it has read, unless it has found no row.
THEOREM ReadsLastUntilCommitHolds == Spec => ReadsLastUntilCommit
<1>1. RowsInv /\ [Next]_vars =>
      [\A c \in Clients :
           req[c].pc = "attempt" /\ req[c].before # NoRow /\ req'[c].pc = "idle"
           => schedule[req[c].question] = req[c].before]_vars
  BY DEF RowsInv, LockInv, Locking
<1>2. QED
  BY <1>1, RowsInvHolds, PTL DEF Spec, ReadsLastUntilCommit

-----------------------------------------------------------------------------
(* Daily reviews.                                                          *)

Waits == Waiting(bank, schedule, now)
Fresh == UnseenIn(bank, schedule)

\* What a review has served, what still waits and what was lost to others make
\* up its plan; at its end nothing waits but what has crossed, or the plan is
\* reached.  Once a request has found nothing due, what it has not yet looked
\* for or has crossed makes up the rest.
Planned(r, pc, waits, fresh) ==
    /\ r.ended => Cardinality(r.seen) + r.lost + Cardinality(r.crossed) >= r.limit
    /\ ~r.ended => Cardinality(r.seen \cup waits) + r.lost >= r.limit
    /\ pc = "unseen" =>
           ~r.ended /\ Cardinality(r.seen \cup fresh \cup r.crossed) + r.lost >= r.limit

PlanInv == \A c \in Clients : Planned(review[c], req[c].pc, Waits, Fresh)

LEMMA SubsetCounts ==
    ASSUME NEW S \in SUBSET Questions, NEW T \in SUBSET Questions, S \subseteq T
    PROVE  Cardinality(S) <= Cardinality(T)
  BY QuestionSets, FS_Subset

LEMMA UnionCounts ==
    ASSUME NEW S \in SUBSET Questions, NEW T \in SUBSET Questions
    PROVE  Cardinality(S \cup T) <= Cardinality(S) + Cardinality(T)
<1>1. Cardinality(S \cup T) = Cardinality(S) + Cardinality(T) - Cardinality(S \cap T)
  BY QuestionSets, FS_Union
<1>2. Cardinality(S \cap T) \in Nat /\ Cardinality(S) \in Nat /\ Cardinality(T) \in Nat
  BY QuestionSets
<1>3. QED
  BY <1>1, <1>2

\* A sum is kept when what left the set is counted beside it.
LEMMA SumKept ==
    ASSUME NEW S \in SUBSET Questions, NEW T \in SUBSET Questions,
           NEW G \in SUBSET Questions, S \subseteq T \cup G,
           NEW lost \in Nat, NEW limit \in Nat, Cardinality(S) + lost >= limit
    PROVE  Cardinality(T) + (lost + Cardinality(G)) >= limit
<1>1. T \cup G \in SUBSET Questions
  OBVIOUS
<1>2. Cardinality(S) <= Cardinality(T \cup G)
  BY <1>1, SubsetCounts
<1>3. Cardinality(T \cup G) <= Cardinality(T) + Cardinality(G)
  BY UnionCounts
<1>4. /\ Cardinality(S) \in Nat /\ Cardinality(T) \in Nat /\ Cardinality(G) \in Nat
      /\ Cardinality(T \cup G) \in Nat
  BY <1>1, QuestionSets
<1>5. QED
  BY <1>2, <1>3, <1>4

\* A review goes on or is over as before: it has served no fewer, and what waits
\* no more is counted as lost, what is no longer unseen as lost or crossed.
LEMMA PlanKept ==
    ASSUME NEW r \in ReviewSession, NEW s \in ReviewSession, NEW pc, NEW pc2,
           NEW W \in SUBSET Questions, NEW W2 \in SUBSET Questions,
           NEW F \in SUBSET Questions, NEW F2 \in SUBSET Questions,
           NEW G \in SUBSET Questions,
           Planned(r, pc, W, F),
           s.ended = r.ended, s.limit = r.limit, s.lost = r.lost + Cardinality(G),
           r.seen \subseteq s.seen, r.crossed \subseteq s.crossed,
           r.seen \cup W \subseteq (s.seen \cup W2) \cup G,
           pc2 = "unseen" => pc = "unseen",
           pc2 = "unseen" => r.seen \cup F \cup r.crossed
                                 \subseteq (s.seen \cup F2 \cup s.crossed) \cup G
    PROVE  Planned(s, pc2, W2, F2)
<1>1. /\ r.seen \in SUBSET Questions /\ s.seen \in SUBSET Questions
      /\ r.crossed \in SUBSET Questions /\ s.crossed \in SUBSET Questions
      /\ r.lost \in Nat /\ r.limit \in Nat
  BY DEF ReviewSession
<1>2. /\ r.seen \cup W \in SUBSET Questions /\ s.seen \cup W2 \in SUBSET Questions
      /\ r.seen \cup F \cup r.crossed \in SUBSET Questions
      /\ s.seen \cup F2 \cup s.crossed \in SUBSET Questions
  BY <1>1
<1>3. ASSUME r.ended
      PROVE  Cardinality(s.seen) + s.lost + Cardinality(s.crossed) >= s.limit
  <2>1. Cardinality(r.seen) + r.lost + Cardinality(r.crossed) >= r.limit
    BY <1>3 DEF Planned
  <2>2. Cardinality(r.seen) <= Cardinality(s.seen) /\ Cardinality(r.crossed) <= Cardinality(s.crossed)
    BY <1>1, SubsetCounts
  <2>3. /\ Cardinality(r.seen) \in Nat /\ Cardinality(s.seen) \in Nat
        /\ Cardinality(r.crossed) \in Nat /\ Cardinality(s.crossed) \in Nat
        /\ Cardinality(G) \in Nat
    BY <1>1, QuestionSets
  <2>4. QED
    BY <1>1, <2>1, <2>2, <2>3
<1>4. ASSUME ~r.ended
      PROVE  Cardinality(s.seen \cup W2) + s.lost >= s.limit
  <2>1. Cardinality(r.seen \cup W) + r.lost >= r.limit
    BY <1>4 DEF Planned
  <2>2. Cardinality(s.seen \cup W2) + (r.lost + Cardinality(G)) >= r.limit
    BY <1>1, <1>2, <2>1, SumKept
  <2>3. QED
    BY <2>2
<1>5. ASSUME pc2 = "unseen"
      PROVE  ~s.ended /\ Cardinality(s.seen \cup F2 \cup s.crossed) + s.lost >= s.limit
  <2>1. ~r.ended /\ Cardinality(r.seen \cup F \cup r.crossed) + r.lost >= r.limit
    BY <1>5 DEF Planned
  <2>2. Cardinality(s.seen \cup F2 \cup s.crossed) + (r.lost + Cardinality(G)) >= r.limit
    BY <1>1, <1>2, <1>5, <2>1, SumKept
  <2>3. QED
    BY <2>1, <2>2
<1>6. QED
  BY <1>3, <1>4, <1>5 DEF Planned

LEMMA WaitingSets ==
    /\ Waits \in SUBSET Questions /\ Fresh \in SUBSET Waits
    /\ Waits' \in SUBSET Questions /\ Fresh' \in SUBSET Waits'
  BY DEF Waits, Fresh, Waiting, DueIn, UnseenIn

LEMMA EmptyReviewPlan ==
    ASSUME NEW pc, pc # "unseen", NEW W \in SUBSET Questions, NEW F
    PROVE  Planned(NoReview, pc, W, F)
<1>1. NoReview.seen \cup W \in SUBSET Questions
  BY DEF NoReview
<1>2. Cardinality(NoReview.seen \cup W) \in Nat
  BY <1>1, QuestionSets
<1>3. NoReview.lost = 0 /\ NoReview.limit = 0 /\ ~NoReview.ended
  BY DEF NoReview
<1>4. QED
  BY <1>2, <1>3 DEF Planned

LEMMA InitPlanInv == Init => PlanInv
<1> SUFFICES ASSUME Init PROVE PlanInv
  OBVIOUS
<1>1. \A c \in Clients : review[c] = NoReview /\ req[c].pc = "idle"
  BY DEF Init, Idle
<1>2. QED
  BY <1>1, EmptyReviewPlan, WaitingSets DEF PlanInv

\* A review that another transaction passes by.
LEMMA NotedPlan ==
    ASSUME TypeOK, NEW c \in Clients, Planned(review[c], req[c].pc, Waits, Fresh),
           review'[c] = Noted(c), NEW pc2, pc2 = "unseen" => req[c].pc = "unseen"
    PROVE  Planned(review'[c], pc2, Waits', Fresh')
<1> DEFINE r == review[c]
           s == review'[c]
<1>1. r \in ReviewSession
  BY DEF TypeOK
<1>2. /\ s \in ReviewSession /\ s.ended = r.ended /\ s.limit = r.limit
      /\ s.lost = r.lost + Cardinality(Gone(c)) /\ s.seen = r.seen
      /\ r.crossed \subseteq s.crossed
      /\ req[c].pc = "unseen" => Crossing \subseteq s.crossed
  BY NotedType
<1>3. Gone(c) \in SUBSET Questions /\ Waits \subseteq (r.seen \cup Waits') \cup Gone(c)
  BY DEF Gone, Waits, Waiting, DueIn, UnseenIn
<1>4. Fresh \subseteq (r.seen \cup Fresh' \cup Crossing) \cup Gone(c)
  BY DEF Gone, Crossing, Fresh, Waiting
<1>5. r.seen \cup Waits \subseteq (s.seen \cup Waits') \cup Gone(c)
  BY <1>2, <1>3
<1>6. pc2 = "unseen" => r.seen \cup Fresh \cup r.crossed
                            \subseteq (s.seen \cup Fresh' \cup s.crossed) \cup Gone(c)
  BY <1>2, <1>4
<1>7. Fresh \in SUBSET Questions /\ Fresh' \in SUBSET Questions
  BY WaitingSets
<1>8. r.seen \subseteq s.seen
  BY <1>2
<1> HIDE DEF r, s
<1>9. Planned(r, req[c].pc, Waits, Fresh) => Planned(s, pc2, Waits', Fresh')
  BY <1>1, <1>2, <1>3, <1>5, <1>6, <1>7, <1>8, WaitingSets, PlanKept
<1>10. QED
  BY <1>9 DEF r, s

LEMMA LostPlanInv ==
    ASSUME TypeOK, PlanInv, CountLost,
           \A c \in Clients : req'[c].pc = "unseen" => req[c].pc = "unseen"
    PROVE  PlanInv'
<1> SUFFICES ASSUME NEW c \in Clients
             PROVE  Planned(review'[c], req'[c].pc, Waits', Fresh')
  BY DEF PlanInv
<1>1. review'[c] = Noted(c)
  BY DEF CountLost
<1>2. QED
  BY <1>1, NotedPlan DEF PlanInv

\* A question that waited still waits, what was unseen still is, and a review
\* has served no fewer.
LEMMA MorePlan ==
    ASSUME NEW r \in ReviewSession, NEW s \in ReviewSession, NEW pc, NEW pc2,
           NEW W \in SUBSET Questions, NEW W2 \in SUBSET Questions,
           NEW F \in SUBSET Questions, NEW F2 \in SUBSET Questions,
           Planned(r, pc, W, F),
           s.ended = r.ended, s.limit = r.limit, s.lost = r.lost,
           r.seen \subseteq s.seen, r.crossed \subseteq s.crossed,
           W \subseteq W2,
           pc2 = "unseen" => pc = "unseen" /\ F \subseteq F2
    PROVE  Planned(s, pc2, W2, F2)
<1>1. Cardinality({}) = 0 /\ s.lost = r.lost + Cardinality({})
  BY FS_EmptySet DEF ReviewSession
<1>2. r.seen \cup W \subseteq (s.seen \cup W2) \cup {}
  OBVIOUS
<1>3. pc2 = "unseen" => r.seen \cup F \cup r.crossed
                            \subseteq (s.seen \cup F2 \cup s.crossed) \cup {}
  OBVIOUS
<1>4. {} \in SUBSET Questions
  OBVIOUS
<1>5. QED
  BY <1>1, <1>2, <1>3, <1>4, PlanKept

LEMMA SamePlanInv ==
    ASSUME TypeOK, PlanInv, Waits \subseteq Waits', Fresh \subseteq Fresh',
           \A c \in Clients :
               /\ review'[c] \in ReviewSession
               /\ review'[c].ended = review[c].ended /\ review'[c].limit = review[c].limit
               /\ review'[c].lost = review[c].lost
               /\ review[c].seen \subseteq review'[c].seen
               /\ review[c].crossed \subseteq review'[c].crossed
               /\ req'[c].pc = "unseen" => req[c].pc = "unseen"
    PROVE  PlanInv'
<1> SUFFICES ASSUME NEW c \in Clients
             PROVE  Planned(review'[c], req'[c].pc, Waits', Fresh')
  BY DEF PlanInv
<1>1. review[c] \in ReviewSession /\ Planned(review[c], req[c].pc, Waits, Fresh)
  BY DEF TypeOK, PlanInv
<1>2. Fresh \in SUBSET Questions /\ Fresh' \in SUBSET Questions
  BY WaitingSets
<1>3. QED
  BY <1>1, <1>2, WaitingSets, MorePlan

\* The limit of a review is no more than what waits when it starts.
LEMMA StartReviewPlanInv ==
    ASSUME TypeOK, NewIsDue, PlanInv, NEW c \in Clients, StartReview(c)
    PROVE  PlanInv'
<1> DEFINE n == AtMost(Cardinality(SummaryDue) + Cardinality(SummaryNew), ReviewLength)
<1>1. review' = [review EXCEPT ![c] = [NoReview EXCEPT !.on = TRUE, !.limit = n]]
  BY DEF StartReview
<1>2. Waits' = Waits
  BY DEF StartReview, Waits, Waiting
<1>3. SummaryDue \in SUBSET Questions /\ SummaryNew \in SUBSET Questions
  BY DEF SummaryDue, SummaryNew, Live
<1>4. SummaryDue \cap SummaryNew = {}
  BY DEF SummaryDue, SummaryNew, IsDue
<1>5. SummaryNew \cup SummaryDue = Waits
  BY NewIsDuePlan DEF Waits
<1>6. Cardinality(SummaryDue) + Cardinality(SummaryNew) = Cardinality(Waits)
  <2>1. Cardinality(SummaryDue \cup SummaryNew) = Cardinality(SummaryDue)
            + Cardinality(SummaryNew) - Cardinality(SummaryDue \cap SummaryNew)
    BY <1>3, QuestionSets, FS_Union
  <2>2. Cardinality(SummaryDue \cap SummaryNew) = 0
    BY <1>4, FS_EmptySet
  <2>3. SummaryDue \cup SummaryNew = Waits
    BY <1>5
  <2>4. Cardinality(SummaryDue) \in Nat /\ Cardinality(SummaryNew) \in Nat
    BY <1>3, QuestionSets
  <2>5. Cardinality(Waits) = Cardinality(SummaryDue) + Cardinality(SummaryNew) - 0
    BY <2>1, <2>2, <2>3
  <2>6. QED
    BY <2>4, <2>5
<1>7. n <= Cardinality(Waits) /\ Cardinality(Waits) \in Nat
  BY <1>3, <1>5, <1>6, QuestionSets, ConstantsAssumption DEF AtMost
<1>8. /\ review'[c].seen = {} /\ review'[c].lost = 0 /\ review'[c].limit = n
      /\ review'[c].ended = FALSE
      /\ \A d \in Clients \ {c} : review'[d] = review[d]
  BY <1>1 DEF TypeOK, NoReview
<1>9. {} \cup Waits = Waits /\ req'[c].pc # "unseen" /\ req' = req /\ Fresh' = Fresh
  BY DEF StartReview, Fresh
<1>10. Planned(review'[c], req'[c].pc, Waits', Fresh')
  BY <1>2, <1>7, <1>8, <1>9 DEF Planned
<1>11. QED
  BY <1>2, <1>8, <1>9, <1>10 DEF PlanInv

\* The other reviews do not notice.
LEMMA OneReviewPlanInv ==
    ASSUME TypeOK, PlanInv, UNCHANGED <<bank, schedule, now>>, NEW c \in Clients,
           \A d \in Clients \ {c} : review'[d] = review[d] /\ req'[d] = req[d],
           Planned(review'[c], req'[c].pc, Waits, Fresh)
    PROVE  PlanInv'
<1>1. Waits' = Waits /\ Fresh' = Fresh
  BY DEF Waits, Fresh
<1>2. QED
  BY <1>1 DEF PlanInv

LEMMA EndReviewPlanInv ==
    ASSUME TypeOK, PlanInv, NEW c \in Clients, EndReview(c)
    PROVE  PlanInv'
<1> DEFINE r == review[c]
<1>1. /\ r.seen \in SUBSET Questions /\ r.lost \in Nat /\ r.limit \in Nat
      /\ r.crossed \in SUBSET Questions
      /\ Cardinality(r.seen) \in Nat /\ Cardinality(r.crossed) \in Nat
  BY QuestionSets DEF TypeOK, ReviewSession
<1>2. Cardinality(r.seen) >= r.limit
  BY DEF EndReview
<1>3. /\ review'[c].seen = r.seen /\ review'[c].lost = r.lost /\ review'[c].limit = r.limit
      /\ review'[c].ended = TRUE /\ review'[c].crossed = r.crossed
      /\ \A d \in Clients \ {c} : review'[d] = review[d] /\ req'[d] = req[d]
      /\ req'[c].pc = "idle"
  BY DEF EndReview, TypeOK, ReviewSession
<1>4. Planned(review'[c], req'[c].pc, Waits, Fresh)
  BY <1>1, <1>2, <1>3 DEF Planned
<1>5. QED
  BY <1>3, <1>4, OneReviewPlanInv DEF EndReview

LEMMA LeaveReviewPlanInv ==
    ASSUME TypeOK, PlanInv, NEW c \in Clients, LeaveReview(c)
    PROVE  PlanInv'
<1>1. /\ review'[c] = NoReview /\ req'[c].pc = "idle"
      /\ \A d \in Clients \ {c} : review'[d] = review[d] /\ req'[d] = req[d]
  BY DEF LeaveReview, TypeOK
<1>2. Planned(review'[c], req'[c].pc, Waits, Fresh)
  BY <1>1, EmptyReviewPlan, WaitingSets
<1>3. QED
  BY <1>1, <1>2, OneReviewPlanInv DEF LeaveReview

\* The first SELECT: all that waits, and was not served, is unseen.
LEMMA NothingDuePlanInv ==
    ASSUME TypeOK, PlanInv, NEW c \in Clients, NothingDue(c)
    PROVE  PlanInv'
<1> DEFINE r == review[c]
<1>1. /\ r \in ReviewSession /\ r.seen \in SUBSET Questions /\ r.lost \in Nat
      /\ r.limit \in Nat /\ r.crossed \in SUBSET Questions /\ ~r.ended
  BY DEF TypeOK, ReviewSession, NothingDue, WantsNext
<1>2. /\ review'[c] = r /\ req'[c].pc = "unseen"
      /\ \A d \in Clients \ {c} : review'[d] = review[d] /\ req'[d] = req[d]
  BY DEF NothingDue, TypeOK, Request
<1>3. r.seen \cup Waits \subseteq r.seen \cup Fresh \cup r.crossed
  BY DEF NothingDue, Due, Waits, Waiting, Fresh
<1>4. Cardinality(r.seen \cup Waits) + r.lost >= r.limit
  BY <1>1 DEF PlanInv, Planned
<1>5. Cardinality(r.seen \cup Waits) <= Cardinality(r.seen \cup Fresh \cup r.crossed)
  BY <1>1, <1>3, WaitingSets, SubsetCounts
<1>6. /\ Cardinality(r.seen \cup Waits) \in Nat
      /\ Cardinality(r.seen \cup Fresh \cup r.crossed) \in Nat
  BY <1>1, WaitingSets, QuestionSets
<1>7. Planned(review'[c], req'[c].pc, Waits, Fresh)
  BY <1>1, <1>2, <1>4, <1>5, <1>6 DEF Planned
<1>8. QED
  BY <1>2, <1>7, OneReviewPlanInv DEF NothingDue

\* The second SELECT finds a question: the review goes on.
LEMMA FindUnseenPlanInv ==
    ASSUME TypeOK, PlanInv, NEW c \in Clients, NEW q \in Questions, FindUnseen(c, q)
    PROVE  PlanInv'
<1> DEFINE r == review[c]
<1>1. /\ req'[c].pc = "new"
      /\ \A d \in Clients \ {c} : review'[d] = review[d] /\ req'[d] = req[d]
      /\ review'[c].seen = r.seen /\ review'[c].lost = r.lost /\ review'[c].limit = r.limit
      /\ review'[c].ended = r.ended
  BY DEF FindUnseen, TypeOK, Request, ReviewSession
<1>2. ~r.ended /\ Planned(r, req[c].pc, Waits, Fresh)
  BY DEF FindUnseen, PlanInv, Planned
<1>3. Planned(review'[c], req'[c].pc, Waits, Fresh)
  BY <1>1, <1>2 DEF Planned
<1>4. QED
  BY <1>1, <1>3, OneReviewPlanInv DEF FindUnseen

\* It finds none: what has crossed is all that is missing.
LEMMA NothingUnseenPlanInv ==
    ASSUME TypeOK, PlanInv, NEW c \in Clients, NothingUnseen(c)
    PROVE  PlanInv'
<1> DEFINE r == review[c]
<1>1. /\ r.seen \in SUBSET Questions /\ r.lost \in Nat
      /\ r.limit \in Nat /\ r.crossed \in SUBSET Questions
  BY DEF TypeOK, ReviewSession
<1>2. /\ req'[c].pc = "idle"
      /\ \A d \in Clients \ {c} : review'[d] = review[d] /\ req'[d] = req[d]
      /\ review'[c].seen = r.seen /\ review'[c].lost = r.lost /\ review'[c].limit = r.limit
      /\ review'[c].crossed = r.crossed /\ review'[c].ended = TRUE
  BY DEF NothingUnseen, TypeOK, ReviewSession, Idle
<1>3. r.seen \cup Fresh \cup r.crossed = r.seen \cup r.crossed
  BY DEF NothingUnseen, Unseen, Fresh
<1>4. Cardinality(r.seen \cup Fresh \cup r.crossed) + r.lost >= r.limit
  BY DEF NothingUnseen, PlanInv, Planned
<1>5. /\ Cardinality(r.seen \cup r.crossed) + r.lost >= r.limit
      /\ Cardinality(r.seen \cup r.crossed) <= Cardinality(r.seen) + Cardinality(r.crossed)
  BY <1>1, <1>3, <1>4, UnionCounts
<1>6. /\ Cardinality(r.seen \cup r.crossed) \in Nat
      /\ Cardinality(r.seen) \in Nat /\ Cardinality(r.crossed) \in Nat
  BY <1>1, QuestionSets
<1>7. Cardinality(r.seen) + r.lost + Cardinality(r.crossed) >= r.limit
  BY <1>1, <1>5, <1>6
<1>8. Planned(review'[c], req'[c].pc, Waits, Fresh)
  BY <1>2, <1>7 DEF Planned
<1>9. QED
  BY <1>2, <1>8, OneReviewPlanInv DEF NothingUnseen

\* A question is shown that was unseen when it was looked for; what other
\* reviews miss by it they have noted.
LEMMA InsertNewPlanInv ==
    ASSUME TypeOK, BegunBefore, PlanInv, NEW c \in Clients, InsertNew(c)
    PROVE  PlanInv'
<1> DEFINE q == req[c].question
<1>1. q \in Questions /\ review[c] \in ReviewSession /\ req[c].at <= now
  BY DEF TypeOK, Request, BegunBefore
<1>2. req'[c].pc = "idle" /\ \A d \in Clients \ {c} : req'[d] = req[d]
  BY DEF InsertNew, TypeOK, Idle
<1>3. CASE bank[q] = "absent"
  <2>1. UNCHANGED <<bank, schedule, now, review>>
    BY <1>3 DEF InsertNew
  <2>2. Waits' = Waits /\ Fresh' = Fresh
    BY <2>1 DEF Waits, Fresh
  <2>3. \A d \in Clients : req'[d].pc = "unseen" => req[d].pc = "unseen"
    BY <1>2
  <2>4. QED
    BY <2>1, <2>2, <2>3, SamePlanInv DEF TypeOK
<1>4. CASE bank[q] # "absent"
  <2>1. /\ review'[c] = Showing(c, q)
        /\ \A d \in Clients \ {c} : review'[d] = Noted(d)
    BY <1>4 DEF InsertNew, ServeNew
  <2>2. Waits \subseteq Waits'
    BY <1>1, <1>4 DEF InsertNew, Waits, Waiting, DueIn, UnseenIn, NewRow, TypeOK
  <2>3. ASSUME NEW d \in Clients, d # c
        PROVE  Planned(review'[d], req'[d].pc, Waits', Fresh')
    BY <1>2, <2>1, <2>3, NotedPlan DEF PlanInv
  <2>4. Planned(review'[c], req'[c].pc, Waits', Fresh')
    <3>1. /\ review'[c] \in ReviewSession
          /\ review'[c].ended = review[c].ended /\ review'[c].limit = review[c].limit
          /\ review'[c].lost = review[c].lost
          /\ review[c].seen \subseteq review'[c].seen
          /\ review[c].crossed \subseteq review'[c].crossed
      BY <1>1, <2>1, ShowingType
    <3>2. Planned(review[c], req[c].pc, Waits, Fresh)
      BY DEF PlanInv
    <3>3. Fresh \in SUBSET Questions /\ Fresh' \in SUBSET Questions
      BY WaitingSets
    <3>4. req'[c].pc # "unseen"
      BY <1>2
    <3>5. QED
      BY <1>1, <2>2, <3>1, <3>2, <3>3, <3>4, WaitingSets, MorePlan
  <2>5. QED
    BY <2>3, <2>4 DEF PlanInv
<1>5. QED
  BY <1>3, <1>4

LEMMA StepPlanInv == TypeOK /\ RowsInv /\ BegunBefore /\ PlanInv /\ [Next]_vars => PlanInv'
<1> SUFFICES ASSUME TypeOK, RowsInv, BegunBefore, PlanInv, [Next]_vars PROVE PlanInv'
  OBVIOUS
<1>1. \A c \in Clients : review[c] \in ReviewSession /\ req[c] \in Request
  BY DEF TypeOK
<1>2. ASSUME review' = review, UNCHANGED <<bank, schedule, now>>,
             \A c \in Clients : req'[c].pc = "unseen" => req[c].pc = "unseen"
      PROVE  PlanInv'
  <2>1. Waits' = Waits /\ Fresh' = Fresh
    BY <1>2 DEF Waits, Fresh
  <2>2. QED
    BY <1>1, <1>2, <2>1, SamePlanInv
<1>3. ASSUME NEW c \in Clients, NEW q, NEW answer, RecordAttempt(c, q, answer)
      PROVE  PlanInv'
  <2>1. \A d \in Clients : req'[d].pc = "unseen" => req[d].pc = "unseen"
    BY <1>3 DEF RecordAttempt, TypeOK, Idle
  <2>2. QED
    BY <1>2, <1>3, <2>1 DEF RecordAttempt
<1>4. ASSUME NEW c \in Clients, Transaction(c)
      PROVE  PlanInv'
  <2>1. CASE CommitAttempt(c)
    <3>1. \A d \in Clients : req'[d].pc = "unseen" => req[d].pc = "unseen"
      BY <2>1 DEF CommitAttempt, TypeOK, Idle
    <3>2. QED
      BY <2>1, <3>1, LostPlanInv DEF CommitAttempt
  <2>2. CASE AttemptFails(c)
    <3>1. \A d \in Clients : req'[d].pc = "unseen" => req[d].pc = "unseen"
      BY <2>2 DEF AttemptFails, TypeOK, Idle
    <3>2. QED
      BY <1>2, <2>2, <3>1 DEF AttemptFails
  <2>3. QED
    BY <1>4, <2>1, <2>2, InsertNewPlanInv DEF Transaction
<1>5. ASSUME NEW c \in Clients, DailyReview(c)
      PROVE  PlanInv'
  <2>1. ASSUME NEW q \in Questions, ServeDue(c, q)
        PROVE  PlanInv'
    <3>1. Waits' = Waits /\ Fresh' = Fresh /\ req' = req
      BY <2>1 DEF ServeDue, Waits, Fresh
    <3>2. /\ review'[c] = Showing(c, q)
          /\ \A d \in Clients \ {c} : review'[d] = review[d]
      BY <2>1 DEF ServeDue, TypeOK
    <3>3. \A d \in Clients :
              /\ review'[d] \in ReviewSession
              /\ review'[d].ended = review[d].ended /\ review'[d].limit = review[d].limit
              /\ review'[d].lost = review[d].lost
              /\ review[d].seen \subseteq review'[d].seen
              /\ review[d].crossed \subseteq review'[d].crossed
      BY <1>1, <3>2, ShowingType
    <3>4. QED
      BY <3>1, <3>3, SamePlanInv
  <2>2. NewIsDue
    BY DEF RowsInv
  <2>3. QED
    BY <1>3, <1>5, <2>1, <2>2, StartReviewPlanInv, EndReviewPlanInv, LeaveReviewPlanInv,
       NothingDuePlanInv, NothingUnseenPlanInv, FindUnseenPlanInv DEF DailyReview
<1>6. ASSUME NEW c \in Clients, Simulation(c)
      PROVE  PlanInv'
  BY <1>3, <1>6 DEF Simulation
<1>7. CASE BankChanges
  BY <1>7, LostPlanInv DEF BankChanges, SetDiscarded, DeleteQuestion, MergeCopy
<1>8. CASE Tick
  <2>1. Waits \subseteq Waits' /\ Fresh' = Fresh
    <3>1. now' \in Nat /\ now' > now /\ now \in Nat
      BY <1>8, TickType DEF TypeOK
    <3>2. \A q \in Questions : schedule[q] # NoRow => schedule[q].due \in Nat
      BY DEF TypeOK, Row
    <3>3. QED
      BY <1>8, <3>1, <3>2 DEF Tick, Waits, Waiting, DueIn, UnseenIn, Fresh
  <2>2. review' = review /\ req' = req
    BY <1>8 DEF Tick
  <2>3. QED
    BY <1>1, <2>1, <2>2, SamePlanInv
<1>9. CASE UNCHANGED vars
  BY <1>2, <1>9 DEF vars
<1>10. QED
  BY <1>4, <1>5, <1>6, <1>7, <1>8, <1>9 DEF Next

\* A review that ends has served its number, but for what was lost to others
\* and what crossed its last request.
THEOREM ReviewsServeTheirPlanHolds == Spec => []ReviewsServeTheirPlan
<1>1. PlanInv => ReviewsServeTheirPlan
  BY DEF PlanInv, Planned, ReviewsServeTheirPlan
<1>2. QED
  BY <1>1, InitTypeOK, StepTypeOK, InitRowsInv, StepRowsInv, InitBegunBefore, StepBegunBefore,
     InitPlanInv, StepPlanInv, PTL DEF Spec

=============================================================================
