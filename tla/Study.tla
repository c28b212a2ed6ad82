-------------------------------- MODULE Study --------------------------------
(***************************************************************************)
(* Attempts, schedules and the choice of the next question                 *)
(* (services/study.py, services/scheduler.py), for the one user whom every *)
(* client shares.  Clients are browser tabs; each may run a daily review.  *)
(*                                                                         *)
(* Grain.  A transaction is one action, but it is split after a read that  *)
(* a later write rests on: other transactions commit in between.           *)
(***************************************************************************)
EXTENDS Scheduler, FiniteSets

CONSTANTS
    Questions,
    Clients,
    Pasts,          \* bound: what may have become of a question before
    Answers,        \* bound: the [correct, grade] pairs that clients send
    MaxAttempts,    \* bound: attempts begun
    MaxChanges,     \* bound: changes of the bank
    ReviewLength,   \* questions of a review: 10, 20 or 30 in the page
    MaxExcludedIds, \* 400 in the code
    Copies,         \* <<p, q>>: the pass merges p into its keeper q
    NoRow

ASSUME ConstantsAssumption ==
    /\ IsFiniteSet(Questions) /\ Questions # {}
    /\ Answers \subseteq [correct : BOOLEAN, grade : Grades \cup {NoGrade}] /\ Answers # {}
    /\ MaxAttempts \in Nat /\ MaxChanges \in Nat
    /\ ReviewLength \in Nat /\ ReviewLength <= MaxExcludedIds
    /\ Copies \subseteq Questions \X Questions
    /\ \A m \in Copies : m[1] # m[2]

VARIABLES
    now,        \* the clock
    bank,       \* is a question live, discarded or absent
    schedule,   \* schedule_state, or NoRow
    attempts,   \* the rows of `attempts`: how many right and wrong ones
    begun,      \* attempts begun so far
    changes,    \* changes of the bank so far
    req,        \* the transaction each client waits for, with its locals
    review      \* the daily review of each client

vars == <<now, bank, schedule, attempts, begun, changes, req, review>>

-----------------------------------------------------------------------------
(* Types. *)

Row == [state : {"new", "review", "relearning"}, due : Nat,
        reps : Nat, interval : 0..MaxInterval, ease : Nat, lapses : Nat]

Tally == [right : Nat, wrong : Nat]
NoTally == [right |-> 0, wrong |-> 0]

\* What any sequence of ratings and merges keeps of a schedule: the ease its
\* floor (a CHECK of the table), the interval its cap, a forgotten question
\* starts again, a 'review' was recalled.
Sound(s) ==
    /\ s.ease >= MinEase
    /\ s.interval \in 0..MaxInterval
    /\ s.reps = 0 => s.interval = 0
    /\ s.state = "review" => s.reps > 0
    /\ s.state = "relearning" => s.interval = 0 /\ s.lapses > 0
    /\ s.state = "new" => s.interval = 0

\* The schedule of a question that has been answered shows it, and counts no
\* more than was answered.
Accounted(row, tally) ==
    /\ tally.right + tally.wrong > 0 => row # NoRow /\ row.reps + row.lapses > 0
    /\ row # NoRow => row.reps <= tally.right /\ row.lapses <= tally.wrong

\* A past is what earlier answers have left: a 'new' row is due at once.
ASSUME PastsAssumption ==
    /\ NoRow \notin Row
    /\ Pasts \subseteq [row : Row \cup {NoRow}, tally : Tally]
    /\ \A past \in Pasts :
           /\ Accounted(past.row, past.tally)
           /\ past.row # NoRow => /\ Sound(past.row)
                                  /\ past.row.state = "new" => past.row.due = 0

\* "attempt" has stored its attempt and read the schedule; `before` is the row
\* it read, which it locks.  "unseen" has found nothing due and "new" an unseen
\* question; `at` is when they began, the now() of all their statements.
Request == [pc : {"idle", "attempt", "unseen", "new"}, question : Questions,
            answer : Answers, before : Row \cup {NoRow}, at : Nat]

\* `seen` are the questions served in this review.  Memory: `lost` counts those
\* that stopped waiting since the summary was loaded, without having been
\* served; `crossed` are those that were unseen when the review's request found
\* nothing due, and became due before it looked for the unseen.
ReviewSession == [on : BOOLEAN, limit : Nat, seen : SUBSET Questions,
                  current : SUBSET Questions, ended : BOOLEAN, lost : Nat,
                  crossed : SUBSET Questions]

Idle == [pc |-> "idle", question |-> CHOOSE q \in Questions : TRUE,
         answer |-> CHOOSE a \in Answers : TRUE, before |-> NoRow, at |-> 0]

NoReview == [on |-> FALSE, limit |-> 0, seen |-> {}, current |-> {}, ended |-> FALSE,
             lost |-> 0, crossed |-> {}]

Init ==
    /\ now = 0
    /\ bank = [q \in Questions |-> "live"]
    /\ \E past \in [Questions -> Pasts] :
           /\ schedule = [q \in Questions |-> past[q].row]
           /\ attempts = [q \in Questions |-> past[q].tally]
    /\ begun = 0 /\ changes = 0
    /\ req = [c \in Clients |-> Idle]
    /\ review = [c \in Clients |-> NoReview]

-----------------------------------------------------------------------------
(* What the queries see. *)

Live == {q \in Questions : bank[q] = "live"}
HasRow(q) == schedule[q] # NoRow
IsDue(q) == HasRow(q) /\ schedule[q].due <= now

\* SELECT ... FOR UPDATE locks the row that it finds.
Locked(q) ==
    \E c \in Clients : req[c].pc = "attempt" /\ req[c].question = q /\ req[c].before # NoRow

\* A foreign key to a question keeps it from being deleted until the commit.
Referenced(q) == \E c \in Clients : req[c].pc = "attempt" /\ req[c].question = q

\* `summary`: new questions and due reviews.
SummaryNew == {q \in Live : ~HasRow(q) \/ schedule[q].state = "new"}
SummaryDueAll == {q \in Live : IsDue(q)}                                \* mutant
SummaryDue == {q \in Live : IsDue(q) /\ schedule[q].state # "new"}

\* `next_question`, its exclude list applied.
DueIn(b, s, t) == {q \in Questions : b[q] = "live" /\ s[q] # NoRow /\ s[q].due <= t}
UnseenIn(b, s) == {q \in Questions : b[q] = "live" /\ s[q] = NoRow}
Due(S) == DueIn(bank, schedule, now) \ S
Unseen(S) == UnseenIn(bank, schedule) \ S
EarliestDue(S) == {q \in Due(S) : \A p \in Due(S) : schedule[q].due <= schedule[p].due}

-----------------------------------------------------------------------------
(* record_attempt. *)

StateOf(row) ==
    IF row = NoRow THEN FreshState
    ELSE [reps |-> row.reps, interval |-> row.interval, ease |-> row.ease, lapses |-> row.lapses]

Rescheduled(row, answer, up) ==
    LET outcome == Review(StateOf(row), GradeFromAttempt(answer.correct, answer.grade), up)
        s == outcome.state
    IN  [state |-> outcome.phase, due |-> now + outcome.wait, reps |-> s.reps,
         interval |-> s.interval, ease |-> s.ease, lapses |-> s.lapses]

\* The attempt is inserted, then the schedule read FOR UPDATE.
RecordAttemptUnlocked(c, q, answer) ==     \* mutant
    /\ req[c].pc = "idle" /\ begun < MaxAttempts
    /\ bank[q] # "absent"
    /\ begun' = begun + 1
    /\ req' = [req EXCEPT ![c] = [Idle EXCEPT !.pc = "attempt", !.question = q,
                                   !.answer = answer, !.before = schedule[q]]]
    /\ UNCHANGED <<now, bank, schedule, attempts, changes, review>>

RecordAttempt(c, q, answer) ==
    /\ req[c].pc = "idle" /\ begun < MaxAttempts
    /\ bank[q] # "absent" /\ ~Locked(q)
    /\ begun' = begun + 1
    /\ req' = [req EXCEPT ![c] = [Idle EXCEPT !.pc = "attempt", !.question = q,
                                   !.answer = answer, !.before = schedule[q]]]
    /\ UNCHANGED <<now, bank, schedule, attempts, changes, review>>

\* Questions that waited for a review and no longer do; questions that went from
\* unseen to due behind the back of a request that is past its first SELECT.
Waiting(b, s, t) == DueIn(b, s, t) \cup UnseenIn(b, s)
Noted(c) ==
    [review[c] EXCEPT
        !.lost = @ + Cardinality((Waiting(bank, schedule, now) \ Waiting(bank', schedule', now'))
                                 \ review[c].seen),
        !.crossed = IF req[c].pc = "unseen"
                    THEN @ \cup (UnseenIn(bank, schedule) \cap DueIn(bank', schedule', now'))
                    ELSE @]
CountLost == review' = [c \in Clients |-> Noted(c)]

\* The upsert waits for a lock of another client; both rows commit at once.
CommitAttempt(c) ==
    LET r == req[c] IN
    /\ r.pc = "attempt"
    /\ r.before = NoRow => ~Locked(r.question)
    /\ attempts' = IF r.answer.correct THEN [attempts EXCEPT ![r.question].right = @ + 1]
                                       ELSE [attempts EXCEPT ![r.question].wrong = @ + 1]
    /\ \E up \in BOOLEAN :
          schedule' = [schedule EXCEPT ![r.question] = Rescheduled(r.before, r.answer, up)]
    /\ req' = [req EXCEPT ![c] = Idle]
    /\ UNCHANGED <<now, bank, begun, changes>>
    /\ CountLost

AttemptFails(c) ==
    /\ req[c].pc = "attempt"
    /\ req' = [req EXCEPT ![c] = Idle]
    /\ UNCHANGED <<now, bank, schedule, attempts, begun, changes, review>>

-----------------------------------------------------------------------------
(* A daily review (study.js startReview, loadNextReviewQuestion).          *)

\* The limit comes from the summary that the home page loaded.
StartReview(c) ==
    /\ ~review[c].on /\ req[c].pc = "idle"
    /\ SummaryDue \cup SummaryNew # {}
    /\ review' = [review EXCEPT ![c] = [NoReview EXCEPT
           !.on = TRUE,
           !.limit = AtMost(Cardinality(SummaryDue) + Cardinality(SummaryNew), ReviewLength)]]
    /\ UNCHANGED <<now, bank, schedule, attempts, begun, changes, req>>

Showing(c, q) == [review[c] EXCEPT !.seen = @ \cup {q}, !.current = {q}]

WantsNext(c) ==
    /\ review[c].on /\ ~review[c].ended /\ req[c].pc = "idle"
    /\ Cardinality(review[c].seen) < review[c].limit

ServeDue(c, q) ==
    /\ WantsNext(c)
    /\ q \in EarliestDue(review[c].seen)
    /\ review' = [review EXCEPT ![c] = Showing(c, q)]
    /\ UNCHANGED <<now, bank, schedule, attempts, begun, changes, req>>

\* The first SELECT finds nothing; the snapshot of the next is its own.
NothingDue(c) ==
    /\ WantsNext(c)
    /\ Due(review[c].seen) = {}
    /\ req' = [req EXCEPT ![c].pc = "unseen", ![c].at = now]
    /\ UNCHANGED <<now, bank, schedule, attempts, begun, changes, review>>

\* _first_unseen: the SELECT, then the INSERT that keeps an existing row.
FindUnseen(c, q) ==
    /\ req[c].pc = "unseen" /\ q \in Unseen(review[c].seen)
    /\ req' = [req EXCEPT ![c].pc = "new", ![c].question = q]
    /\ review' = [review EXCEPT ![c].crossed = {}]
    /\ UNCHANGED <<now, bank, schedule, attempts, begun, changes>>

NewRow(t) == [state |-> "new", due |-> t, reps |-> 0, interval |-> 0,
              ease |-> DefaultEase, lapses |-> 0]

ServeNew(c, q) ==
    review' = [d \in Clients |-> IF d = c THEN Showing(c, q) ELSE Noted(d)]

InsertNewAlways(c) ==                           \* mutant
    LET q == req[c].question IN
    /\ req[c].pc = "new" /\ req' = [req EXCEPT ![c] = Idle]
    /\ UNCHANGED <<now, bank, attempts, begun, changes>>
    /\ IF bank[q] = "absent" THEN UNCHANGED <<schedule, review>>
       ELSE /\ schedule' = [schedule EXCEPT ![q] = NewRow(req[c].at)]
            /\ ServeNew(c, q)

InsertNew(c) ==
    LET q == req[c].question IN
    /\ req[c].pc = "new" /\ req' = [req EXCEPT ![c] = Idle]
    /\ UNCHANGED <<now, bank, attempts, begun, changes>>
    /\ IF bank[q] = "absent" THEN UNCHANGED <<schedule, review>>
       ELSE /\ schedule' = [schedule EXCEPT ![q] = IF @ = NoRow THEN NewRow(req[c].at) ELSE @]
            /\ ServeNew(c, q)

\* Nothing is unseen either.  Whatever the third SELECT finds, the page takes
\* the answer for the end of the review.
NothingUnseen(c) ==
    /\ req[c].pc = "unseen" /\ Unseen(review[c].seen) = {}
    /\ req' = [req EXCEPT ![c] = Idle]
    /\ review' = [review EXCEPT ![c].ended = TRUE]
    /\ UNCHANGED <<now, bank, schedule, attempts, begun, changes>>

\* The planned number is reached.
EndReview(c) ==
    /\ review[c].on /\ ~review[c].ended /\ req[c].pc = "idle"
    /\ Cardinality(review[c].seen) >= review[c].limit
    /\ review' = [review EXCEPT ![c].ended = TRUE]
    /\ UNCHANGED <<now, bank, schedule, attempts, begun, changes, req>>

LeaveReview(c) ==
    /\ review[c].on /\ req[c].pc = "idle"
    /\ review' = [review EXCEPT ![c] = NoReview]
    /\ UNCHANGED <<now, bank, schedule, attempts, begun, changes, req>>

-----------------------------------------------------------------------------
(* What the rest of the system does to questions and schedules.            *)

Changes(q) == changes < MaxChanges /\ bank[q] # "absent" /\ changes' = changes + 1

\* discard_question, in both directions: an UPDATE that no key lock stops.
SetDiscarded(q) ==
    /\ Changes(q)
    /\ bank' = [bank EXCEPT ![q] = IF @ = "live" THEN "discarded" ELSE "live"]
    /\ UNCHANGED <<now, schedule, attempts, begun, req>>
    /\ CountLost

\* The question goes with its document; its attempts and schedule cascade.
DeleteQuestion(q) ==
    /\ Changes(q) /\ ~Referenced(q)
    /\ bank' = [bank EXCEPT ![q] = "absent"]
    /\ schedule' = [schedule EXCEPT ![q] = NoRow]
    /\ attempts' = [attempts EXCEPT ![q] = NoTally]
    /\ UNCHANGED <<now, begun, req>>
    /\ CountLost

\* _merge_references for two rows of schedule_state.
MergedRowsSum(old, new) ==                      \* mutant
    IF old = NoRow THEN new ELSE IF new = NoRow THEN old
    ELSE [new EXCEPT !.due = AtLeast(@, old.due), !.ease = AtMost(@, old.ease),
                     !.interval = AtMost(@, old.interval),
                     !.lapses = @ + old.lapses, !.reps = @ + old.reps]

MergedRows(old, new) ==
    IF old = NoRow THEN new ELSE IF new = NoRow THEN old
    ELSE [new EXCEPT !.due = AtMost(@, old.due), !.ease = AtMost(@, old.ease),
                     !.interval = AtMost(@, old.interval),
                     !.lapses = AtLeast(@, old.lapses), !.reps = AtLeast(@, old.reps)]

\* A pass merges p into q.  (QuestionBank has its interleaving with an attempt
\* on p; here the pass finds none in flight.)
MergeCopy(p, q) ==
    /\ bank[q] # "absent" /\ Changes(p)
    /\ ~Referenced(p) /\ ~Locked(q)
    /\ bank' = [bank EXCEPT ![p] = "absent"]
    /\ schedule' = [schedule EXCEPT ![q] = MergedRows(schedule[p], @), ![p] = NoRow]
    /\ attempts' = [attempts EXCEPT ![q] = [right |-> @.right + attempts[p].right,
                                            wrong |-> @.wrong + attempts[p].wrong],
                                    ![p] = NoTally]
    /\ UNCHANGED <<now, begun, req>>
    /\ CountLost

\* Time passes until the next question is due.
Tick ==
    LET coming == {schedule[q].due : q \in {p \in Questions : HasRow(p)}} \ 0..now IN
    /\ now' \in coming /\ \A t \in coming : now' <= t
    /\ UNCHANGED <<bank, schedule, attempts, begun, changes, req, review>>

-----------------------------------------------------------------------------

Transaction(c) ==
    \/ CommitAttempt(c) \/ AttemptFails(c) \/ InsertNew(c)

DailyReview(c) ==
    \/ StartReview(c) \/ NothingDue(c) \/ NothingUnseen(c) \/ EndReview(c) \/ LeaveReview(c)
    \/ \E q \in Questions : ServeDue(c, q) \/ FindUnseen(c, q)
    \/ \E q \in review[c].current, answer \in Answers : RecordAttempt(c, q, answer)

\* A simulation shows any question, served or not.
Simulation(c) ==
    /\ ~review[c].on
    /\ \E q \in Questions, answer \in Answers : RecordAttempt(c, q, answer)

BankChanges ==
    \/ \E q \in Questions : SetDiscarded(q) \/ DeleteQuestion(q)
    \/ \E m \in Copies : MergeCopy(m[1], m[2])

Next ==
    \/ \E c \in Clients : Transaction(c) \/ DailyReview(c) \/ Simulation(c)
    \/ BankChanges
    \/ Tick

Spec == Init /\ [][Next]_vars

-----------------------------------------------------------------------------
(* Properties. *)

TypeOK ==
    /\ now \in Nat
    /\ bank \in [Questions -> {"live", "discarded", "absent"}]
    /\ schedule \in [Questions -> Row \cup {NoRow}]
    /\ attempts \in [Questions -> Tally]
    /\ begun \in 0..MaxAttempts /\ changes \in 0..MaxChanges
    /\ req \in [Clients -> Request]
    /\ review \in [Clients -> ReviewSession]

\* What `summary` announces as due or new is what `next_question` serves as
\* such: a row of state 'new' is always due, through merges and races.
PlannedIsServable == SummaryNew \cup SummaryDue = Due({}) \cup Unseen({})

\* "Answers are recorded as attempts (which feed SM-2)": an answered question
\* has a schedule that shows it, and no schedule counts more than was answered,
\* whatever races, merges and failures lie between.
AnswersAreScheduled == \A q \in Questions : Accounted(schedule[q], attempts[q])

\* The numbers of a schedule fit each other after any sequence of ratings and
\* merges.
SchedulesAreSound == \A q \in Questions : HasRow(q) => Sound(schedule[q])

\* An attempt never overwrites a schedule it has not read, except where it
\* found none: FOR UPDATE has then no row to lock.
ReadsLastUntilCommit ==
    [][\A c \in Clients :
           req[c].pc = "attempt" /\ req[c].before # NoRow /\ req'[c].pc = "idle"
           => schedule[req[c].question] = req[c].before]_vars

\* A review that ends has served what it planned, but for questions that were
\* answered elsewhere or left the bank, and those that went from unseen to due
\* between the two SELECTs of its last request, since another client was shown
\* them or a pass gave them a copy's schedule: they are in neither, and wait.
ReviewsServeTheirPlan ==
    \A c \in Clients : review[c].ended =>
        Cardinality(review[c].seen) + review[c].lost + Cardinality(review[c].crossed)
            >= review[c].limit

=============================================================================
