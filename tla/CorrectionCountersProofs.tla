----------------------- MODULE CorrectionCountersProofs -----------------------
(***************************************************************************)
(* The counters of a correction job add up and never pass its total, for   *)
(* every size of batch, number of questions and schedule.  The argument    *)
(* follows a batch: it is no larger than what is left of the total when it *)
(* is fetched (PageSize), its items stay accounted for while they are      *)
(* saved (Held), and its failures are in failures_json before they are     *)
(* counted (Fits).                                                         *)
(***************************************************************************)
EXTENDS CorrectionJobsProofs

-----------------------------------------------------------------------------
(* A page of OFFSET and LIMIT.                                             *)

LEMMA PrecedesIsATotalOrder ==
    ASSUME rank \in Ranks,
           NEW doc, NEW p \in Questions, NEW q \in Questions, NEW r \in Questions
    PROVE  /\ ~Precedes(p, p, doc)
           /\ p # q => Precedes(p, q, doc) \/ Precedes(q, p, doc)
           /\ Precedes(p, q, doc) /\ Precedes(q, r, doc) => Precedes(p, r, doc)
<1>1. \A x \in Questions : Occurrences(x) \in Nat
  <2> SUFFICES ASSUME NEW x \in Questions PROVE Occurrences(x) \in Nat
    OBVIOUS
  <2>1. IsFiniteSet({d \in Docs : x \in occ[d]})
    BY ConstantsAssumption, FS_Subset
  <2>2. QED
    BY <2>1, FS_CardinalityType DEF Occurrences
<1>2. /\ rank[p] \in Nat /\ rank[q] \in Nat /\ rank[r] \in Nat
      /\ p # q => rank[p] # rank[q]
  BY DEF Ranks
<1>3. Occurrences(p) \in Nat /\ Occurrences(q) \in Nat /\ Occurrences(r) \in Nat
  BY <1>1
<1>4. QED
  BY <1>2, <1>3 DEF Precedes

\* A page holds no more than LIMIT rows: the number of rows before a row
\* tells the rows of a page apart, and lies in an interval of that length.
LEMMA PageSize ==
    ASSUME rank \in Ranks,
           NEW S \in SUBSET Questions, NEW doc, NEW offset \in Nat, NEW limit \in Nat
    PROVE  Cardinality(Page(S, doc, offset, limit)) <= limit
<1> DEFINE Before(q) == {p \in S : Precedes(p, q, doc)}
           P == Page(S, doc, offset, limit)
           I == offset..(offset + limit - 1)
           place == [q \in P |-> Cardinality(Before(q))]
<1>1. \A q : Before(q) \in SUBSET Questions
  OBVIOUS
<1>2. \A q : IsFiniteSet(Before(q)) /\ Cardinality(Before(q)) \in Nat
  BY <1>1, QuestionSets
<1>3. ASSUME NEW p \in S, NEW q \in S, Precedes(p, q, doc)
      PROVE  Cardinality(Before(p)) # Cardinality(Before(q))
  <2>1. Before(p) \in SUBSET Before(q)
    BY <1>3, PrecedesIsATotalOrder
  <2>2. p \in Before(q) /\ p \notin Before(p)
    BY <1>3, PrecedesIsATotalOrder
  <2>3. QED
    BY <1>2, <2>1, <2>2, FS_Subset
<1>4. \A q \in P : q \in S /\ place[q] \in I
  BY <1>2 DEF Page
<1>5. ASSUME NEW p \in P, NEW q \in P, place[p] = place[q]
      PROVE  p = q
  <2>1. p \in S /\ q \in S
    BY <1>4
  <2>2. Cardinality(Before(p)) = Cardinality(Before(q))
    BY <1>5
  <2>3. ~Precedes(p, q, doc) /\ ~Precedes(q, p, doc)
    BY <1>3, <2>1, <2>2
  <2>4. QED
    BY <2>1, <2>3, PrecedesIsATotalOrder
<1>6. place \in Injection(P, I)
  BY <1>4, <1>5 DEF Injection, IsInjective
<1>7. IsFiniteSet(I) /\ Cardinality(I) = limit
  BY FS_Interval
<1>8. QED
  BY <1>6, <1>7, FS_Injection

\* A batch fits into what is left of the total.
LEMMA BatchSizeBound ==
    ASSUME rank \in Ranks, NEW t \in Task, t.now < t.total
    PROVE  t.now + Cardinality(FetchBatch(t)) <= t.total
<1>1. t.now \in Nat /\ t.total \in Nat /\ BatchSize \in Nat \ {0}
  BY ConstantsAssumption DEF Task
<1>2. ThisBatchSize(t) \in Nat /\ ThisBatchSize(t) <= t.total - t.now
  BY <1>1 DEF ThisBatchSize, MinOf, MaxOf
<1>3. Offset(t) \in Nat
  BY <1>1 DEF Offset
<1>4. Cardinality(FetchBatch(t)) <= ThisBatchSize(t)
  BY <1>2, <1>3, CandidatesType, PageSize DEF FetchBatch
<1>5. Cardinality(FetchBatch(t)) \in Nat
  BY FetchBatchType, QuestionSets
<1>6. QED
  BY <1>1, <1>2, <1>4, <1>5

-----------------------------------------------------------------------------
(* The invariant of one job, on its row and its task.                      *)

Adds(r) ==
    /\ r.processed = r.succeeded + r.failed
    /\ r.processed <= r.total
    /\ r.failed <= r.logged

\* Every item of the batch is waiting, saved or failed, and only one of them.
Held(t) ==
    /\ t.pc # "save" => t.todo = {}
    /\ t.pc \in {"save", "log", "count"} =>
           /\ t.todo \cap t.fails = {}
           /\ Cardinality(t.batch) =
                  t.saved + Cardinality(t.todo) + Cardinality(t.fails)

\* The batch in hand will not take the row past its total.
Fits(r, t) ==
    /\ r.total > 0
    /\ t.pc \notin {"none", "scheduled", "error"} => t.total = r.total
    /\ t.pc = "fetch" => t.now = r.processed /\ t.now < t.total
    /\ t.pc \in {"mark", "llm", "save", "log", "count"} =>
           r.processed + Cardinality(t.batch) <= r.total
    /\ t.pc = "count" => r.failed + Cardinality(t.fails) <= r.logged

Tallied(r, t) ==
    /\ Adds(r)
    /\ Held(t)
    /\ r.status \notin NoRow => Fits(r, t)

CountersInv ==
    /\ starting.on => starting.total > 0
    /\ \A j \in Jobs : Tallied(row[j], task[j])

\* A row that is new or gone, and a job without a task.
LEMMA BlankTallied ==
    /\ \A s, t : Held(t) /\ s \in NoRow => Tallied(BlankRow(s), t)
    /\ Held(NoTask)
    /\ Held([NoTask EXCEPT !.pc = "scheduled"])
  BY DEF Tallied, Adds, Held, BlankRow, NoTask

LEMMA InitCountersInv == Init => CountersInv
<1> SUFFICES ASSUME Init PROVE CountersInv
  OBVIOUS
<1>1. \A j \in Jobs : row[j] = BlankRow("unborn") /\ task[j] = NoTask
  BY DEF Init
<1>2. ~starting.on
  BY DEF Init, NotStarting
<1>3. QED
  BY <1>1, <1>2, BlankTallied DEF CountersInv, NoRow

LEMMA StartCountersInv ==
    ASSUME TypeOK, CountersInv, StartJob
    PROVE  CountersInv'
<1>1. ASSUME NEW doc \in Docs \cup {NoDoc}, NEW overwrite \in BOOLEAN,
             StartJobCount(doc, overwrite)
      PROVE  CountersInv'
  BY <1>1 DEF StartJobCount, CountersInv
<1>2. ASSUME NEW j \in Jobs, StartJobInsert(j)
      PROVE  CountersInv'
  <2> DEFINE r == [BlankRow("queued") EXCEPT !.doc = starting.doc,
                      !.overwrite = starting.overwrite, !.total = starting.total]
             t == [NoTask EXCEPT !.pc = "scheduled"]
  <2>1. starting.total \in Nat /\ starting.total > 0
    BY <1>2 DEF StartJobInsert, CountersInv, TypeOK, Starting
  <2>2. Adds(r) /\ r.total > 0
    BY <2>1 DEF BlankRow, Adds
  <2>3. Fits(r, t)
    BY <2>2 DEF Fits, NoTask
  <2>4. Tallied(r, t)
    BY <2>2, <2>3, BlankTallied DEF Tallied
  <2>5. row' = [row EXCEPT ![j] = r] /\ task' = [task EXCEPT ![j] = t]
    BY <1>2 DEF StartJobInsert
  <2>6. \A i \in Jobs : Tallied(row'[i], task'[i])
    BY <2>4, <2>5 DEF CountersInv, TypeOK
  <2>7. ~starting'.on
    BY <1>2 DEF StartJobInsert, NotStarting
  <2>8. QED
    BY <2>6, <2>7 DEF CountersInv
<1>3. ASSUME StartJobRefused
      PROVE  CountersInv'
  BY <1>3 DEF StartJobRefused, CountersInv, NotStarting
<1>4. QED
  BY <1>1, <1>2, <1>3 DEF StartJob

-----------------------------------------------------------------------------
(* The worker.                                                             *)

\* A statement that writes `new` to the row of `j` keeps its invariant if
\* `new` suits the task; if the row is gone, any task that holds its items does.
LEMMA RowStep ==
    ASSUME TypeOK, CountersInv, NEW j \in Jobs, NEW new, RowUpdated(j, new),
           Held(task'[j]),
           Stored(j) => Tallied(new, task'[j])
    PROVE  Tallied(row'[j], task'[j])
<1>1. CASE Stored(j)
  BY <1>1 DEF RowUpdated, TypeOK
<1>2. CASE ~Stored(j)
  BY <1>2 DEF RowUpdated, Tallied, CountersInv, Stored
<1>3. QED
  BY <1>1, <1>2

\* The same for a step that leaves the row alone.
LEMMA TaskStep ==
    ASSUME TypeOK, CountersInv, NEW j \in Jobs, row' = row,
           Held(task'[j]),
           Stored(j) => Fits(row[j], task'[j])
    PROVE  Tallied(row'[j], task'[j])
  BY DEF Tallied, CountersInv, Stored

\* One item leaves the batch in hand, saved or failed.
LEMMA ItemDoneTallied ==
    ASSUME TypeOK, CountersInv, NEW j \in Jobs, NEW q \in task[j].todo,
           NEW failed \in BOOLEAN, ItemDone(j, q, failed), row' = row
    PROVE  Tallied(row'[j], task'[j])
<1> DEFINE t == task[j]
           u == task'[j]
<1>1. t \in Task /\ Tallied(row[j], t)
  BY DEF TypeOK, CountersInv
<1>2. t.pc = "save"
  BY <1>1 DEF Tallied, Held
<1>3. u = [t EXCEPT !.todo = @ \ {q}, !.saved = IF failed THEN @ ELSE @ + 1,
                    !.fails = IF failed THEN @ \cup {q} ELSE @]
  BY DEF ItemDone, TypeOK
<1>4. /\ u.pc = t.pc /\ u.batch = t.batch /\ u.total = t.total
      /\ u.todo = t.todo \ {q}
      /\ u.saved = IF failed THEN t.saved ELSE t.saved + 1
      /\ u.fails = IF failed THEN t.fails \cup {q} ELSE t.fails
  BY <1>1, <1>3 DEF Task
<1>5. /\ IsFiniteSet(t.todo) /\ IsFiniteSet(t.fails)
      /\ Cardinality(t.todo) \in Nat /\ Cardinality(t.fails) \in Nat
      /\ t.saved \in Nat
  BY <1>1, QuestionSets DEF Task
<1>6. Cardinality(t.todo \ {q}) = Cardinality(t.todo) - 1
  BY <1>5, FS_RemoveElement
<1>7. t.todo \cap t.fails = {}
  BY <1>1, <1>2 DEF Tallied, Held
<1>8. Cardinality(t.fails \cup {q}) = Cardinality(t.fails) + 1
  BY <1>5, <1>7, FS_AddElement
<1>9. u.todo \cap u.fails = {}
  BY <1>4, <1>7
<1>10. Cardinality(u.batch) = u.saved + Cardinality(u.todo) + Cardinality(u.fails)
  <2>1. Cardinality(t.batch) = t.saved + Cardinality(t.todo) + Cardinality(t.fails)
    BY <1>1, <1>2 DEF Tallied, Held
  <2>2. QED
    BY <1>4, <1>5, <1>6, <1>8, <2>1
<1>11. Held(u)
  BY <1>2, <1>4, <1>9, <1>10 DEF Held
<1>12. Stored(j) => Fits(row[j], u)
  BY <1>1, <1>2, <1>4 DEF Tallied, Fits, Stored
<1>13. QED
  BY <1>11, <1>12, TaskStep

\* The steps of a worker up to the call of the LLM.
LEMMA FetchTallied ==
    ASSUME TypeOK, CountersInv, NEW j \in Jobs,
           \/ LoadHeader(j) \/ SetRunning(j) \/ ReadCancelFlag(j)
           \/ ReadProcessed(j) \/ Fetch(j) \/ MarkAndSend(j)
    PROVE  Tallied(row'[j], task'[j])
<1> DEFINE r == row[j]
           t == task[j]
           u == task'[j]
<1>1. /\ r \in Row /\ t \in Task /\ Tallied(r, t)
      /\ row \in [Jobs -> Row] /\ task \in [Jobs -> Task]
  BY DEF TypeOK, CountersInv
<1>2. CASE LoadHeader(j)
  <2>1. row' = row
    BY <1>2 DEF LoadHeader
  <2>2. CASE Stored(j)
    <3>1. u = [NoTask EXCEPT !.pc = "setRunning", !.doc = r.doc,
                   !.overwrite = r.overwrite, !.total = r.total]
      BY <1>1, <1>2, <2>2 DEF LoadHeader
    <3>2. u.pc = "setRunning" /\ u.todo = {} /\ u.total = r.total
      BY <3>1 DEF NoTask
    <3>3. Held(u)
      BY <3>2 DEF Held
    <3>4. Fits(r, u)
      BY <1>1, <2>2, <3>2 DEF Tallied, Fits, Stored
    <3>5. QED
      BY <2>1, <3>3, <3>4, TaskStep
  <2>3. CASE ~Stored(j)
    BY <1>1, <1>2, <2>1, <2>3, BlankTallied, TaskStep DEF LoadHeader, TaskEnds
  <2>4. QED
    BY <2>2, <2>3
<1>3. CASE SetRunning(j)
  <2>1. /\ u.pc = "readCancel" /\ u.todo = t.todo /\ u.total = t.total
        /\ t.pc = "setRunning"
    BY <1>1, <1>3 DEF SetRunning, GoTo, At, Task
  <2>2. Held(u)
    BY <1>1, <2>1 DEF Tallied, Held
  <2>3. ASSUME Stored(j)
        PROVE  Tallied([r EXCEPT !.status = "running"], u)
    BY <1>1, <2>1, <2>2, <2>3 DEF Tallied, Adds, Fits, Stored, Row
  <2>4. QED
    BY <1>3, <2>2, <2>3, RowStep DEF SetRunning
<1>4. CASE ReadCancelFlag(j)
  <2>1. /\ u.pc \in {"cancelled", "readProcessed"}
        /\ u.todo = t.todo /\ u.total = t.total
        /\ t.pc = "readCancel" /\ row' = row
    BY <1>1, <1>4 DEF ReadCancelFlag, GoTo, At, Task
  <2>2. Held(u) /\ (Stored(j) => Fits(r, u))
    BY <1>1, <2>1 DEF Tallied, Held, Fits, Stored
  <2>3. QED
    BY <2>1, <2>2, TaskStep
<1>5. CASE ReadProcessed(j)
  <2> DEFINE now == IF Stored(j) THEN r.processed ELSE 0
  <2>1. /\ u.pc = IF ReachedTotal(t, now) THEN "done" ELSE "fetch"
        /\ u.now = now /\ u.todo = t.todo /\ u.total = t.total
        /\ t.pc = "readProcessed" /\ row' = row
    BY <1>1, <1>5 DEF ReadProcessed, At, Task
  <2>2. Held(u)
    BY <1>1, <2>1 DEF Tallied, Held
  <2>3. ASSUME Stored(j)
        PROVE  Fits(r, u)
    <3>1. r.total > 0 /\ t.total = r.total
      BY <1>1, <2>1, <2>3 DEF Tallied, Fits, Stored
    <3>2. u.pc = "fetch" => u.now < u.total
      BY <1>1, <2>1, <2>3, <3>1 DEF ReachedTotal, Row, Task
    <3>3. QED
      BY <2>1, <2>3, <3>1, <3>2 DEF Fits
  <2>4. QED
    BY <2>1, <2>2, <2>3, TaskStep
<1>6. CASE Fetch(j)
  <2>1. /\ u.pc \in {"done", "mark"} /\ u.batch = FetchBatch(t)
        /\ u.todo = t.todo /\ u.total = t.total
        /\ t.pc = "fetch" /\ row' = row
    BY <1>1, <1>6 DEF Fetch, At, Task
  <2>2. Held(u)
    BY <1>1, <2>1 DEF Tallied, Held
  <2>3. ASSUME Stored(j)
        PROVE  Fits(r, u)
    <3>1. /\ r.total > 0 /\ t.total = r.total
          /\ t.now = r.processed /\ t.now < t.total
      BY <1>1, <2>1, <2>3 DEF Tallied, Fits, Stored
    <3>2. r.processed + Cardinality(u.batch) <= r.total
      BY <1>1, <2>1, <3>1, BatchSizeBound DEF TypeOK
    <3>3. QED
      BY <2>1, <3>1, <3>2 DEF Fits
  <2>4. QED
    BY <2>1, <2>2, <2>3, TaskStep
<1>7. CASE MarkAndSend(j)
  <2>1. /\ u.pc = "llm" /\ u.todo = t.todo /\ u.total = t.total
        /\ u.batch = t.batch /\ t.pc = "mark" /\ row' = row
    BY <1>1, <1>7 DEF MarkAndSend, GoTo, At, Task
  <2>2. Held(u) /\ (Stored(j) => Fits(r, u))
    BY <1>1, <2>1 DEF Tallied, Held, Fits, Stored
  <2>3. QED
    BY <2>1, <2>2, TaskStep
<1>8. QED
  BY <1>2, <1>3, <1>4, <1>5, <1>6, <1>7

\* The steps of a worker from the answer of the LLM on.
LEMMA RecordTallied ==
    ASSUME TypeOK, CountersInv, NEW j \in Jobs,
           \/ LlmFails(j) \/ LlmAnswers(j) \/ BatchSaved(j)
           \/ AppendFailures(j) \/ UpdateCounters(j) \/ SetFinalStatus(j)
    PROVE  Tallied(row'[j], task'[j])
<1> DEFINE r == row[j]
           t == task[j]
           u == task'[j]
           failed == Cardinality(t.fails)
<1>1. /\ r \in Row /\ t \in Task /\ Tallied(r, t)
      /\ row \in [Jobs -> Row] /\ task \in [Jobs -> Task]
  BY DEF TypeOK, CountersInv
<1>2. /\ Cardinality(t.batch) \in Nat /\ failed \in Nat /\ t.saved \in Nat
      /\ Cardinality({}) = 0
  BY <1>1, QuestionSets, FS_EmptySet DEF Task
<1>3. CASE LlmFails(j)
  <2>1. /\ u.pc = "log" /\ u.todo = {} /\ u.saved = 0 /\ u.fails = t.batch
        /\ u.batch = t.batch /\ u.total = t.total
        /\ t.pc = "llm" /\ row' = row
    BY <1>1, <1>3 DEF LlmFails, At, Task
  <2>2. Held(u)
    BY <1>2, <2>1 DEF Held
  <2>3. Stored(j) => Fits(r, u)
    BY <1>1, <2>1 DEF Tallied, Fits, Stored
  <2>4. QED
    BY <2>1, <2>2, <2>3, TaskStep
<1>4. CASE LlmAnswers(j)
  <2>1. /\ u.pc = "save" /\ u.todo = t.batch /\ u.saved = 0 /\ u.fails = {}
        /\ u.batch = t.batch /\ u.total = t.total
        /\ t.pc = "llm" /\ row' = row
    BY <1>1, <1>4 DEF LlmAnswers, At, Task
  <2>2. Held(u)
    BY <1>2, <2>1 DEF Held
  <2>3. Stored(j) => Fits(r, u)
    BY <1>1, <2>1 DEF Tallied, Fits, Stored
  <2>4. QED
    BY <2>1, <2>2, <2>3, TaskStep
<1>5. CASE BatchSaved(j)
  <2>1. /\ u.pc = IF t.fails = {} THEN "count" ELSE "log"
        /\ u.todo = {} /\ t.todo = {} /\ u.saved = t.saved
        /\ u.fails = t.fails /\ u.batch = t.batch /\ u.total = t.total
        /\ t.pc = "save" /\ row' = row
    BY <1>1, <1>5 DEF BatchSaved, GoTo, At, Task
  <2>2. Held(u)
    BY <1>1, <2>1 DEF Tallied, Held
  <2>3. ASSUME Stored(j)
        PROVE  Fits(r, u)
    <3>1. u.pc = "count" => Cardinality(u.fails) = 0
      BY <1>2, <2>1
    <3>2. r.failed \in Nat /\ r.failed <= r.logged
      BY <1>1 DEF Tallied, Adds, Row
    <3>3. QED
      BY <1>1, <2>1, <2>3, <3>1, <3>2 DEF Tallied, Fits, Stored
  <2>4. QED
    BY <2>1, <2>2, <2>3, TaskStep
<1>6. CASE AppendFailures(j)
  <2> DEFINE new == [r EXCEPT !.logged = @ + failed]
  <2>1. /\ u.pc = "count" /\ u.todo = t.todo /\ u.saved = t.saved
        /\ u.fails = t.fails /\ u.batch = t.batch /\ u.total = t.total
        /\ t.pc = "log"
    BY <1>1, <1>6 DEF AppendFailures, GoTo, At, Task
  <2>2. Held(u)
    BY <1>1, <2>1 DEF Tallied, Held
  <2>3. /\ new.status = r.status /\ new.total = r.total
        /\ new.processed = r.processed /\ new.succeeded = r.succeeded
        /\ new.failed = r.failed /\ new.logged = r.logged + failed
    BY <1>1 DEF Row
  <2>4. Adds(new) /\ new.failed + failed <= new.logged
    BY <1>1, <1>2, <2>3 DEF Tallied, Adds, Row
  <2>5. ASSUME Stored(j)
        PROVE  Tallied(new, u)
    <3>1. Fits(r, t)
      BY <1>1, <2>5 DEF Tallied, Stored
    <3>2. Fits(new, u)
      BY <2>1, <2>3, <2>4, <3>1 DEF Fits
    <3>3. QED
      BY <2>2, <2>4, <3>2 DEF Tallied
  <2>6. QED
    BY <1>6, <2>2, <2>5, RowStep DEF AppendFailures
<1>7. CASE UpdateCounters(j)
  <2> DEFINE new == Counted(r, t)
  <2>1. /\ u.pc = "readCancel" /\ u.todo = t.todo /\ u.total = t.total
        /\ t.pc = "count"
    BY <1>1, <1>7 DEF UpdateCounters, At, Task
  <2>2. Held(u)
    BY <1>1, <2>1 DEF Tallied, Held
  <2>3. /\ new.status = r.status /\ new.total = r.total
        /\ new.processed = r.processed + Cardinality(t.batch)
        /\ new.succeeded = r.succeeded + t.saved
        /\ new.failed = r.failed + failed /\ new.logged = r.logged
    BY <1>1 DEF Row, Counted
  <2>4. Cardinality(t.batch) = t.saved + failed
    BY <1>1, <1>2, <2>1 DEF Tallied, Held
  <2>5. ASSUME Stored(j)
        PROVE  Tallied(new, u)
    <3>1. Fits(r, t)
      BY <1>1, <2>5 DEF Tallied, Stored
    <3>2. Adds(new)
      BY <1>1, <1>2, <2>1, <2>3, <2>4, <3>1 DEF Tallied, Adds, Fits, Row
    <3>3. Fits(new, u)
      BY <2>1, <2>3, <3>1 DEF Fits
    <3>4. QED
      BY <2>2, <3>2, <3>3 DEF Tallied
  <2>6. QED
    BY <1>7, <2>2, <2>5, RowStep DEF UpdateCounters
<1>8. CASE SetFinalStatus(j)
  <2>1. u = NoTask /\ t.pc \in Ending
    BY <1>1, <1>8 DEF SetFinalStatus, TaskEnds
  <2>2. ASSUME Stored(j)
        PROVE  Tallied([r EXCEPT !.status = t.pc], NoTask)
    <3>1. /\ r.total > 0 /\ Adds(r)
      BY <1>1, <2>2 DEF Tallied, Fits, Stored
    <3>2. Adds([r EXCEPT !.status = t.pc])
      BY <1>1, <3>1 DEF Adds, Row
    <3>3. Fits([r EXCEPT !.status = t.pc], NoTask)
      BY <1>1, <3>1 DEF Fits, NoTask, Row
    <3>4. QED
      BY <3>2, <3>3, BlankTallied DEF Tallied
  <2>3. QED
    BY <1>8, <2>1, <2>2, BlankTallied, RowStep DEF SetFinalStatus
<1>9. QED
  BY <1>3, <1>4, <1>5, <1>6, <1>7, <1>8

LEMMA WorkerCountersInv ==
    ASSUME TypeOK, CountersInv, NEW j \in Jobs, Worker(j)
    PROVE  CountersInv'
<1>1. ASSUME NEW q \in Questions, NoUsableItem(j, q)
      PROVE  Tallied(row'[j], task'[j])
  BY <1>1, ItemDoneTallied DEF NoUsableItem
<1>2. ASSUME NEW q \in Questions, NEW item \in LlmItems, SaveItem(j, q, item)
      PROVE  Tallied(row'[j], task'[j])
  <2>1. /\ q \in task[j].todo /\ row' = row
        /\ ItemDone(j, q, ~Exists(q)) /\ (~Exists(q)) \in BOOLEAN
    BY <1>2 DEF SaveItem, Exists
  <2>2. QED
    BY <2>1, ItemDoneTallied
<1>3. Tallied(row'[j], task'[j])
  BY <1>1, <1>2, FetchTallied, RecordTallied DEF Worker
<1>4. \A i \in Jobs \ {j} : row'[i] = row[i] /\ task'[i] = task[i]
  BY WorkerSteps DEF WorkerEffect
<1>5. starting' = starting
  BY DEF Worker, LoadHeader, SetRunning, ReadCancelFlag, ReadProcessed, Fetch,
         MarkAndSend, LlmFails, LlmAnswers, NoUsableItem, SaveItem, BatchSaved,
         AppendFailures, UpdateCounters, SetFinalStatus
<1>6. QED
  BY <1>3, <1>4, <1>5 DEF CountersInv

LEMMA DbErrorCountersInv ==
    ASSUME TypeOK, CountersInv, NEW j \in Jobs, DbError(j)
    PROVE  CountersInv'
<1> DEFINE t == task[j]
           u == task'[j]
<1>1. /\ t \in Task /\ Tallied(row[j], t) /\ task \in [Jobs -> Task]
      /\ row' = row /\ starting' = starting
  BY DEF TypeOK, CountersInv, DbError
<1>2. ASSUME NEW q \in t.todo, ItemDone(j, q, TRUE)
      PROVE  Tallied(row'[j], u)
  BY <1>1, <1>2, ItemDoneTallied
<1>3. ASSUME t.pc \notin {"save", "error"}, GoTo(j, "error")
      PROVE  Tallied(row'[j], u)
  <2>1. u.pc = "error" /\ u.todo = t.todo /\ u.total = t.total
    BY <1>1, <1>3 DEF GoTo, Task
  <2>2. Held(u)
    BY <1>1, <1>3, <2>1 DEF Tallied, Held
  <2>3. Stored(j) => Fits(row[j], u)
    BY <1>1, <2>1 DEF Tallied, Fits, Stored, OnLoop, Ending
  <2>4. QED
    BY <1>1, <2>2, <2>3, TaskStep
<1>4. ASSUME TaskEnds(j)
      PROVE  Tallied(row'[j], u)
  <2>1. u = NoTask
    BY <1>1, <1>4 DEF TaskEnds
  <2>2. Stored(j) => Fits(row[j], NoTask)
    BY <1>1 DEF Tallied, Fits, Stored, NoTask
  <2>3. QED
    BY <1>1, <2>1, <2>2, BlankTallied, TaskStep
<1>5. Tallied(row'[j], u)
  BY <1>2, <1>3, <1>4 DEF DbError
<1>6. \A i \in Jobs \ {j} : task'[i] = task[i]
  BY DbErrorSteps
<1>7. QED
  BY <1>1, <1>5, <1>6 DEF CountersInv

-----------------------------------------------------------------------------
(* Deletions, and the process itself.                                      *)

LEMMA DeletedCountersInv ==
    ASSUME TypeOK, CountersInv, NEW S, JobsDeleted(S), UNCHANGED <<task, starting>>
    PROVE  CountersInv'
<1>1. ASSUME NEW j \in Jobs
      PROVE  Tallied(row'[j], task'[j])
  <2>1. Held(task[j]) /\ Tallied(row[j], task[j])
    BY DEF CountersInv, Tallied
  <2>2. row'[j] = row[j] \/ row'[j] = BlankRow("deleted")
    BY DEF JobsDeleted, TypeOK
  <2>3. QED
    BY <2>1, <2>2, BlankTallied DEF NoRow
<1>2. QED
  BY <1>1 DEF CountersInv

LEMMA BankCountersInv ==
    ASSUME TypeOK, CountersInv, Bank
    PROVE  CountersInv'
<1>1. ASSUME NEW d \in Docs, NEW moved \in SUBSET Questions, DeleteDocument(d, moved)
      PROVE  CountersInv'
  BY <1>1, DeletedCountersInv DEF DeleteDocument
<1>2. CASE ResetDb
  BY <1>2, DeletedCountersInv DEF ResetDb
<1>3. CASE UNCHANGED <<row, task, starting>>
  BY <1>3 DEF CountersInv
<1>4. QED
  BY <1>1, <1>2, <1>3 DEF Bank, DiscardQuestion, SaveQuestions, MergeDuplicate

\* Without its task a row only has to add up; its status may be any it had.
LEMMA ProcessCountersInv ==
    ASSUME TypeOK, StatusInv, CountersInv, Crash \/ Shutdown \/ Startup
    PROVE  CountersInv'
<1>1. \A j \in Jobs : row[j] \in Row /\ Tallied(row[j], task[j])
  BY DEF TypeOK, CountersInv
<1>2. ASSUME NEW r \in Row, NEW t, Tallied(r, t), NEW s \in Terminal, r.status \notin NoRow
      PROVE  Tallied([r EXCEPT !.status = s], NoTask)
  <2>1. Adds(r) /\ r.total > 0
    BY <1>2 DEF Tallied, Fits
  <2>2. Adds([r EXCEPT !.status = s]) /\ Fits([r EXCEPT !.status = s], NoTask)
    BY <2>1 DEF Adds, Fits, Row, NoTask
  <2>3. QED
    BY <2>2, BlankTallied DEF Tallied
<1>3. ASSUME NEW r \in Row, NEW t, Tallied(r, t)
      PROVE  Tallied(r, NoTask)
  BY <1>3, BlankTallied DEF Tallied, Fits, NoTask
<1>4. CASE Crash
  BY <1>1, <1>3, <1>4 DEF Crash, TasksGone, CountersInv, NotStarting
<1>5. CASE Shutdown
  <2>1. ASSUME NEW j \in Jobs
        PROVE  Tallied(row'[j], NoTask)
    BY <1>1, <1>2, <1>3, <1>5 DEF Shutdown, Stored, Terminal
  <2>2. QED
    BY <1>5, <2>1 DEF Shutdown, TasksGone, CountersInv, NotStarting
<1>6. CASE Startup
  <2>1. ASSUME NEW j \in Jobs
        PROVE  Tallied(row'[j], task'[j])
    <3>1. row'[j] = Interrupted(row[j]) /\ task'[j] = task[j] /\ ~up
      BY <1>6 DEF Startup
    <3>2. CASE row[j].status \in Active
      <4>1. row'[j] = [row[j] EXCEPT !.status = "interrupted"]
        BY <3>1, <3>2 DEF Interrupted
      <4>2. Tallied(row'[j], NoTask)
        BY <1>1, <1>2, <3>2, <4>1 DEF Active, NoRow, Terminal
      <4>3. task[j].pc = "none" /\ Held(task[j])
        BY <1>1, <3>1 DEF StatusInv, Tallied
      <4>4. QED
        BY <3>1, <4>2, <4>3 DEF Tallied, Fits, NoTask
    <3>3. CASE row[j].status \notin Active
      BY <1>1, <3>1, <3>3 DEF Interrupted
    <3>4. QED
      BY <3>2, <3>3
  <2>2. QED
    BY <1>6, <2>1 DEF Startup, CountersInv
<1>7. QED
  BY <1>4, <1>5, <1>6

LEMMA CountersInvStep ==
    TypeOK /\ StatusInv /\ CountersInv /\ [Next]_vars => CountersInv'
<1> SUFFICES ASSUME TypeOK, StatusInv, CountersInv, [Next]_vars PROVE CountersInv'
  OBVIOUS
<1>1. ASSUME NEW j \in Jobs, CancelJob(j)
      PROVE  CountersInv'
  <2>1. row[j] \in Row /\ Tallied(row[j], task[j])
    BY DEF TypeOK, CountersInv
  <2>2. Tallied([row[j] EXCEPT !.cancel = TRUE], task[j])
    BY <2>1 DEF Tallied, Adds, Fits, Row
  <2>3. QED
    BY <1>1, <2>2 DEF CancelJob, CountersInv, TypeOK
<1>2. CASE UNCHANGED <<row, task, starting>>
  BY <1>2 DEF CountersInv
<1>3. CASE UNCHANGED vars
  BY <1>2, <1>3 DEF vars
<1>4. ASSUME NEW q \in Questions, NEW edit \in ManualEdits,
             SetQuestionCorrection(q, edit)
      PROVE  CountersInv'
  BY <1>2, <1>4 DEF SetQuestionCorrection
<1>5. ASSUME NEW q \in Questions, Regenerate(q)
      PROVE  CountersInv'
  BY <1>2, <1>5 DEF Regenerate, RegenerateAsk, RegenerateSave, RegenerateFails
<1>6. QED
  BY <1>1, <1>3, <1>4, <1>5, StartCountersInv, WorkerCountersInv,
     DbErrorCountersInv, BankCountersInv, ProcessCountersInv DEF Next

\* The counters of every job add up and stay within its total, and no failure
\* is counted before it is in failures_json, wherever a worker dies.
THEOREM CountersAddUpHolds == Spec => []CountersAddUp
<1>1. CountersInv => CountersAddUp
  BY DEF CountersInv, CountersAddUp, Tallied, Adds
<1>2. QED
  BY <1>1, StatusInvariant, InitCountersInv, CountersInvStep, PTL DEF Spec

=============================================================================
