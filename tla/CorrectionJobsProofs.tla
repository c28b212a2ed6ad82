------------------------- MODULE CorrectionJobsProofs -------------------------
(***************************************************************************)
(* What holds of the correction jobs for any number of questions,          *)
(* documents, jobs, failures and changes of the bank.                      *)
(***************************************************************************)
EXTENDS CorrectionJobs, FiniteSetTheorems, TLAPS

-----------------------------------------------------------------------------
(* Types.                                                                  *)

\* Sets of questions are finite, so what the worker counts is a number.
LEMMA QuestionSets ==
    ASSUME NEW S \in SUBSET Questions
    PROVE  IsFiniteSet(S) /\ Cardinality(S) \in Nat
<1>1. IsFiniteSet(S)
  BY ConstantsAssumption, FS_Subset
<1>2. QED
  BY <1>1, FS_CardinalityType

LEMMA CandidatesType ==
    ASSUME NEW doc, NEW overwrite
    PROVE  /\ Candidates(doc, overwrite) \in SUBSET Questions
           /\ CountPendingCandidates(doc, overwrite) \in Nat
<1>1. Candidates(doc, overwrite) \in SUBSET Questions
  BY DEF Candidates
<1>2. Cardinality(Candidates(doc, overwrite)) \in Nat
  BY <1>1, QuestionSets
<1>3. QED
  BY <1>1, <1>2, ConstantsAssumption DEF CountPendingCandidates, MinOf

LEMMA FetchBatchType ==
    ASSUME NEW t \in Task
    PROVE  FetchBatch(t) \in SUBSET Questions
  BY CandidatesType DEF FetchBatch, Page

\* The record constants have their types.
LEMMA BlankTypes ==
    /\ NoTask \in Task
    /\ NoHist \in Hist
    /\ NotStarting \in Starting
    /\ NoKey \in Key
    /\ \A s \in {"unborn", "queued", "deleted"} : BlankRow(s) \in Row
  BY DEF NoTask, Task, NoHist, Hist, NotStarting, Starting, NoKey, Key, Author,
         BlankRow, Row, Active, Terminal, NoRow, Pc, OnLoop, Ending

LEMMA SavedKeyType ==
    ASSUME NEW old \in Key, NEW q, NEW item \in RawItem, NEW overwrite
    PROVE  SavedKey(old, Usable(q, item), overwrite) \in Key
  BY DEF SavedKey, Usable, Coalesce, ByAi, Key, Author, RawItem

LEMMA MergedKeyType ==
    ASSUME TypeOK, NEW p \in Questions, NEW q \in Questions
    PROVE  MergedKey(p, q) \in Key
<1>1. DOMAIN NoKey = {"option", "explanation", "payload"}
  BY DEF NoKey
<1>2. key[p] \in Key /\ key[q] \in Key
  BY DEF TypeOK
<1>3. QED
  BY <1>1, <1>2 DEF MergedKey, Coalesce, Key, Author

LEMMA InitTypeOK == Init => TypeOK
<1> SUFFICES ASSUME Init PROVE TypeOK
  OBVIOUS
<1> QED
  BY BlankTypes, ConstantsAssumption DEF Init, TypeOK

LEMMA StartTypeOK ==
    ASSUME TypeOK, StartJob
    PROVE  TypeOK'
<1>1. ASSUME NEW doc \in Docs \cup {NoDoc}, NEW overwrite \in BOOLEAN,
             StartJobCount(doc, overwrite)
      PROVE  TypeOK'
  <2>1. starting' \in Starting
    BY <1>1, CandidatesType DEF StartJobCount, TypeOK, Starting
  <2>2. QED
    BY <1>1, <2>1 DEF StartJobCount, TypeOK, bank
<1>2. ASSUME NEW j \in Jobs, StartJobInsert(j)
      PROVE  TypeOK'
  <2>1. [BlankRow("queued") EXCEPT !.doc = starting.doc,
            !.overwrite = starting.overwrite, !.total = starting.total] \in Row
    BY <1>2, BlankTypes DEF TypeOK, Starting, Row
  <2>2. [NoTask EXCEPT !.pc = "scheduled"] \in Task
    BY BlankTypes DEF Task, Pc
  <2>3. [NoHist EXCEPT !.wanted = starting.wanted, !.churn = starting.churn] \in Hist
    BY BlankTypes DEF TypeOK, Starting, Hist
  <2>4. QED
    BY <1>2, <2>1, <2>2, <2>3, BlankTypes DEF StartJobInsert, TypeOK, bank
<1>3. ASSUME StartJobRefused
      PROVE  TypeOK'
  BY <1>3, BlankTypes DEF StartJobRefused, TypeOK, bank
<1>4. QED
  BY <1>1, <1>2, <1>3 DEF StartJob

LEMMA ItemDoneType ==
    ASSUME TypeOK, NEW j \in Jobs, NEW q \in Questions, NEW failed \in BOOLEAN,
           ItemDone(j, q, failed)
    PROVE  task' \in [Jobs -> Task]
<1>1. task[j] \in Task
  BY DEF TypeOK
<1>2. \A S, F \in SUBSET Questions, n \in Nat :
          [task[j] EXCEPT !.todo = S, !.saved = n, !.fails = F] \in Task
  BY <1>1 DEF Task
<1>3. /\ task[j].todo \ {q} \in SUBSET Questions
      /\ (IF failed THEN task[j].fails \cup {q} ELSE task[j].fails)
             \in SUBSET Questions
      /\ (IF failed THEN task[j].saved ELSE task[j].saved + 1) \in Nat
  BY <1>1 DEF Task
<1>4. QED
  BY <1>2, <1>3 DEF ItemDone, TypeOK

LEMMA PcType ==
    ASSUME NEW t \in Task, NEW pc \in Pc
    PROVE  [t EXCEPT !.pc = pc] \in Task
  BY DEF Task

\* A step of a worker changes its own task, the row of its job, one key and
\* its history; the rest of the state keeps its type by not changing.
LEMMA WorkerTypeOK ==
    ASSUME TypeOK, NEW j \in Jobs, Worker(j)
    PROVE  TypeOK'
<1> USE DEF TypeOK, bank
<1>1. row[j] \in Row /\ task[j] \in Task /\ hist[j] \in Hist
  OBVIOUS
<1>2. /\ Cardinality(task[j].batch) \in Nat
      /\ Cardinality(task[j].fails) \in Nat
  BY <1>1, QuestionSets DEF Task
<1>3. CASE LoadHeader(j)
  <2>1. [NoTask EXCEPT !.pc = "setRunning", !.doc = row[j].doc,
            !.overwrite = row[j].overwrite, !.total = row[j].total] \in Task
    BY <1>1, BlankTypes DEF Row, Task, Pc, OnLoop
  <2>2. QED
    BY <1>3, <2>1, BlankTypes DEF LoadHeader, TaskEnds
<1>4. CASE SetRunning(j)
  <2>1. [row[j] EXCEPT !.status = "running"] \in Row
    BY <1>1 DEF Row, Active
  <2>2. [task[j] EXCEPT !.pc = "readCancel"] \in Task
    BY <1>1 DEF Task, Pc, OnLoop
  <2>3. QED
    BY <1>4, <2>1, <2>2 DEF SetRunning, RowUpdated, GoTo
<1>5. CASE ReadCancelFlag(j)
  <2>1. \A pc \in {"cancelled", "readProcessed"} : [task[j] EXCEPT !.pc = pc] \in Task
    BY <1>1 DEF Task, Pc, OnLoop, Ending
  <2>2. QED
    BY <1>5, <2>1 DEF ReadCancelFlag, GoTo
<1>6. CASE ReadProcessed(j)
  <2>1. \A n \in Nat, pc \in {"done", "fetch"} :
            [task[j] EXCEPT !.now = n, !.pc = pc] \in Task
    BY <1>1 DEF Task, Pc, OnLoop, Ending
  <2>2. row[j].processed \in Nat
    BY <1>1 DEF Row
  <2>3. QED
    BY <1>6, <2>1, <2>2 DEF ReadProcessed
<1>7. CASE Fetch(j)
  <2>1. \A S \in SUBSET Questions, pc \in {"done", "mark"} :
            [task[j] EXCEPT !.batch = S, !.pc = pc] \in Task
    BY <1>1 DEF Task, Pc, OnLoop, Ending
  <2>2. QED
    BY <1>1, <1>7, <2>1, FetchBatchType DEF Fetch
<1>8. CASE MarkAndSend(j)
  <2>1. [task[j] EXCEPT !.pc = "llm"] \in Task
    BY <1>1 DEF Task, Pc
  <2>2. \A S \in SUBSET Questions, n \in Nat :
            [hist[j] EXCEPT !.sent = S, !.late = n] \in Hist
    BY <1>1 DEF Hist
  <2>3. /\ hist[j].sent \cup task[j].batch \in SUBSET Questions
        /\ (IF row[j].cancel /\ hist[j].late < 2 THEN hist[j].late + 1
            ELSE hist[j].late) \in Nat
    BY <1>1 DEF Hist, Task
  <2>4. hist' \in [Jobs -> Hist]
    BY <1>8, <2>2, <2>3 DEF MarkAndSend
  <2>5. QED
    BY <1>8, <2>1, <2>4 DEF MarkAndSend, GoTo
<1>9. CASE LlmFails(j)
  <2>1. [task[j] EXCEPT !.pc = "log", !.todo = {}, !.saved = 0,
            !.fails = task[j].batch] \in Task
    BY <1>1 DEF Task, Pc, OnLoop
  <2>2. QED
    BY <1>9, <2>1 DEF LlmFails
<1>10. CASE LlmAnswers(j)
  <2>1. [task[j] EXCEPT !.pc = "save", !.todo = task[j].batch, !.saved = 0,
            !.fails = {}] \in Task
    BY <1>1 DEF Task, Pc, OnLoop
  <2>2. QED
    BY <1>10, <2>1 DEF LlmAnswers
<1>11. ASSUME NEW q \in Questions, NEW failed \in BOOLEAN, ItemDone(j, q, failed)
       PROVE  task' \in [Jobs -> Task]
  BY <1>11, ItemDoneType
<1>12. ASSUME NEW q \in Questions, NoUsableItem(j, q)
       PROVE  TypeOK'
  BY <1>11, <1>12 DEF NoUsableItem
<1>13. ASSUME NEW q \in Questions, NEW item \in LlmItems, SaveItem(j, q, item)
       PROVE  TypeOK'
  <2>1. SavedKey(key[q], Usable(q, item), task[j].overwrite) \in Key
    BY SavedKeyType, ConstantsAssumption
  <2>2. key' \in [Questions -> Key]
    BY <1>13, <2>1 DEF SaveItem
  <2>3. task' \in [Jobs -> Task]
    BY <1>11, <1>13 DEF SaveItem, Exists
  <2>4. QED
    BY <1>13, <2>2, <2>3 DEF SaveItem
<1>14. CASE BatchSaved(j)
  <2>1. \A pc \in {"count", "log"} : [task[j] EXCEPT !.pc = pc] \in Task
    BY <1>1 DEF Task, Pc, OnLoop
  <2>2. QED
    BY <1>14, <2>1 DEF BatchSaved, GoTo
<1>15. CASE AppendFailures(j)
  <2>1. [row[j] EXCEPT !.logged = @ + Cardinality(task[j].fails)] \in Row
    <3>1. \A n \in Nat : [row[j] EXCEPT !.logged = n] \in Row
      BY <1>1 DEF Row
    <3>2. row[j].logged + Cardinality(task[j].fails) \in Nat
      BY <1>1, <1>2 DEF Row
    <3>3. QED
      BY <3>1, <3>2
  <2>2. [task[j] EXCEPT !.pc = "count"] \in Task
    BY <1>1 DEF Task, Pc, OnLoop
  <2>3. QED
    BY <1>15, <2>1, <2>2 DEF AppendFailures, RowUpdated, GoTo
<1>16. CASE UpdateCounters(j)
  <2>1. Counted(row[j], task[j]) \in Row
    <3>1. \A m, n, k \in Nat :
              [row[j] EXCEPT !.processed = m, !.succeeded = n, !.failed = k] \in Row
      BY <1>1 DEF Row
    <3>2. /\ row[j].processed + Cardinality(task[j].batch) \in Nat
          /\ row[j].succeeded + task[j].saved \in Nat
          /\ row[j].failed + Cardinality(task[j].fails) \in Nat
      BY <1>1, <1>2 DEF Row, Task
    <3>3. QED
      BY <3>1, <3>2 DEF Counted
  <2>2. [task[j] EXCEPT !.pc = "readCancel", !.batch = {}, !.saved = 0,
            !.fails = {}] \in Task
    BY <1>1 DEF Task, Pc, OnLoop
  <2>3. QED
    BY <1>16, <2>1, <2>2 DEF UpdateCounters, RowUpdated
<1>17. CASE SetFinalStatus(j)
  <2>1. \A s \in Ending : [row[j] EXCEPT !.status = s] \in Row
    BY <1>1 DEF Row, Ending, Terminal
  <2>2. QED
    BY <1>17, <2>1, BlankTypes DEF SetFinalStatus, RowUpdated, TaskEnds
<1>18. QED
  BY <1>3, <1>4, <1>5, <1>6, <1>7, <1>8, <1>9, <1>10, <1>12, <1>13, <1>14,
     <1>15, <1>16, <1>17 DEF Worker

LEMMA DbErrorTypeOK ==
    ASSUME TypeOK, NEW j \in Jobs, DbError(j)
    PROVE  TypeOK'
<1> USE DEF TypeOK, bank
<1>1. dbErrors' \in 0..MaxDbErrors
  BY ConstantsAssumption DEF DbError
<1>2. task' \in [Jobs -> Task] /\ hist' \in [Jobs -> Hist]
  <2>1. CASE \E q \in task[j].todo : ItemDone(j, q, TRUE) /\ UNCHANGED hist
    <3>1. task[j].todo \subseteq Questions
      BY DEF Task
    <3>2. QED
      BY <2>1, <3>1, ItemDoneType
  <2>2. CASE GoTo(j, "error") /\ UNCHANGED hist
    <3>1. task[j] \in Task
      OBVIOUS
    <3>2. "error" \in Pc
      BY DEF Pc, OnLoop, Ending
    <3>3. [task[j] EXCEPT !.pc = "error"] \in Task
      BY <3>1, <3>2, PcType
    <3>4. QED
      BY <2>2, <3>3 DEF GoTo
  <2>3. CASE TaskEnds(j)
    BY <2>3, BlankTypes DEF TaskEnds
  <2>4. QED
    BY <2>1, <2>2, <2>3 DEF DbError
<1>3. QED
  BY <1>1, <1>2 DEF DbError

LEMMA KeysTypeOK ==
    ASSUME TypeOK,
           \/ \E q \in Questions, edit \in ManualEdits : SetQuestionCorrection(q, edit)
           \/ \E q \in Questions : Regenerate(q)
    PROVE  TypeOK'
<1> USE DEF TypeOK, bank
<1>1. ASSUME NEW q \in Questions, NEW edit \in ManualEdits,
             SetQuestionCorrection(q, edit)
      PROVE  TypeOK'
  <2>1. edits' \in 0..MaxEdits
    BY <1>1, ConstantsAssumption DEF SetQuestionCorrection, Edits
  <2>2. key[q] \in Key
    OBVIOUS
  <2>3. key' \in [Questions -> Key]
    BY <1>1, <2>2 DEF SetQuestionCorrection, Coalesce, ByUser, Key, Author
  <2>4. QED
    BY <1>1, <2>1, <2>3 DEF SetQuestionCorrection
<1>2. ASSUME NEW q \in Questions, RegenerateAsk(q)
      PROVE  TypeOK'
  BY <1>2, ConstantsAssumption DEF RegenerateAsk, Edits
<1>3. ASSUME NEW q \in Questions, RegenerateFails(q)
      PROVE  TypeOK'
  BY <1>3 DEF RegenerateFails
<1>4. ASSUME NEW q \in Questions, NEW item \in LlmItems, RegenerateSave(q, item)
      PROVE  TypeOK'
  <2>1. SavedKey(key[q], Usable(q, item), TRUE) \in Key
    BY SavedKeyType, ConstantsAssumption
  <2>2. QED
    BY <1>4, <2>1 DEF RegenerateSave
<1>5. QED
  BY <1>1, <1>2, <1>3, <1>4 DEF Regenerate

\* Deleting rows leaves values of the right type behind.
LEMMA DeletedTypes ==
    ASSUME TypeOK, NEW S, NEW T
    PROVE  /\ QuestionsDeleted(S) =>
                 /\ question' \in [Questions -> {"absent", "live", "discarded"}]
                 /\ key' \in [Questions -> Key]
           /\ JobsDeleted(T) => row' \in [Jobs -> Row]
  BY BlankTypes DEF TypeOK, QuestionsDeleted, JobsDeleted

LEMMA BankTypeOK ==
    ASSUME TypeOK, Bank
    PROVE  TypeOK'
<1> USE DEF TypeOK
<1>1. ASSUME NEW n \in Nat, BankChanges(n)
      PROVE  churn' \in 0..MaxChurn
  BY <1>1, ConstantsAssumption DEF BankChanges
<1>2. ASSUME NEW q \in Questions, DiscardQuestion(q)
      PROVE  TypeOK'
  BY <1>1, <1>2 DEF DiscardQuestion
<1>3. ASSUME NEW d \in Docs, NEW S \in SUBSET Questions,
             NEW moved \in SUBSET Questions, SaveQuestions(d, S, moved)
      PROVE  TypeOK'
  <2>1. /\ MaxOf(1, Cardinality(S) + Cardinality(moved)) \in Nat
        /\ rank' \in Ranks
    BY <1>3, QuestionSets DEF MaxOf, SaveQuestions, Renumbered
  <2>2. occ' \in [Docs -> SUBSET Questions]
    BY <1>3 DEF SaveQuestions
  <2>3. question' \in [Questions -> {"absent", "live", "discarded"}]
    BY <1>3 DEF SaveQuestions
  <2>4. key' \in [Questions -> Key]
    BY <1>3, BlankTypes DEF SaveQuestions
  <2>5. QED
    BY <1>1, <1>3, <2>1, <2>2, <2>3, <2>4 DEF SaveQuestions
<1>4. ASSUME NEW p \in Questions, NEW q \in Questions, MergeDuplicate(p, q)
      PROVE  TypeOK'
  <2>1. key' \in [Questions -> Key]
    BY <1>4, MergedKeyType, BlankTypes DEF MergeDuplicate
  <2>2. QED
    BY <1>1, <1>4, <2>1 DEF MergeDuplicate
<1>5. ASSUME NEW d \in Docs, NEW moved \in SUBSET Questions, DeleteDocument(d, moved)
      PROVE  TypeOK'
  <2>1. /\ MaxOf(1, Cardinality(moved)) \in Nat
        /\ rank' \in Ranks
    BY <1>5, QuestionSets DEF MaxOf, DeleteDocument, Renumbered
  <2>2. QED
    BY <1>1, <1>5, <2>1, DeletedTypes DEF DeleteDocument
<1>6. ASSUME ResetDb
      PROVE  TypeOK'
  BY <1>1, <1>6, DeletedTypes DEF ResetDb
<1>7. QED
  BY <1>2, <1>3, <1>4, <1>5, <1>6 DEF Bank

LEMMA ProcessTypeOK ==
    ASSUME TypeOK, Crash \/ Shutdown \/ Startup
    PROVE  TypeOK'
<1> USE DEF TypeOK, bank
<1>1. CASE Crash
  BY <1>1, BlankTypes DEF Crash, TasksGone
<1>2. CASE Shutdown
  <2>1. \A j \in Jobs : [row[j] EXCEPT !.status = "cancelled"] \in Row
    BY DEF Row, Terminal
  <2>2. QED
    BY <1>2, <2>1, BlankTypes DEF Shutdown, TasksGone
<1>3. CASE Startup
  <2>1. \A j \in Jobs : Interrupted(row[j]) \in Row
    BY DEF Interrupted, Row, Terminal
  <2>2. QED
    BY <1>3, <2>1 DEF Startup
<1>4. QED
  BY <1>1, <1>2, <1>3

LEMMA CancelType ==
    ASSUME NEW r \in Row
    PROVE  [r EXCEPT !.cancel = TRUE] \in Row
  BY DEF Row

LEMMA TypeOKStep ==
    ASSUME TypeOK, [Next]_vars
    PROVE  TypeOK'
<1>1. ASSUME NEW j \in Jobs, CancelJob(j)
      PROVE  TypeOK'
  <2>1. row[j] \in Row
    BY DEF TypeOK
  <2>2. [row[j] EXCEPT !.cancel = TRUE] \in Row
    BY <2>1, CancelType
  <2>3. QED
    BY <1>1, <2>2 DEF CancelJob, TypeOK, bank
<1>2. CASE UNCHANGED vars
  BY <1>2 DEF vars, TypeOK
<1>3. QED
  BY <1>1, <1>2, StartTypeOK, WorkerTypeOK, DbErrorTypeOK, KeysTypeOK,
     BankTypeOK, ProcessTypeOK DEF Next

\* Every state of the correction jobs is well typed.
THEOREM TypeCorrect == Spec => []TypeOK
  BY InitTypeOK, TypeOKStep, PTL DEF Spec

-----------------------------------------------------------------------------
(* Where a worker is and what its row says.                                *)

\* The statuses the row of a job may have while its task is at `pc`: the task
\* writes over nothing but a status of its own, unless the row is gone.
StatusesAt(pc) ==
    CASE pc = "none" -> Active \cup Terminal \cup NoRow
      [] pc \in {"scheduled", "setRunning"} -> {"queued", "deleted"}
      [] pc = "error" -> {"queued", "running", "deleted"}
      [] OTHER -> {"running", "deleted"}

OneActive ==
    \A i, j \in Jobs : row[i].status \in Active /\ row[j].status \in Active => i = j

StatusInv ==
    /\ OneActive
    /\ \A j \in Jobs : row[j].status \in StatusesAt(task[j].pc)
    /\ ~up => \A j \in Jobs : task[j].pc = "none"

LEMMA InitStatusInv == Init => StatusInv
  BY DEF Init, StatusInv, OneActive, StatusesAt, BlankRow, NoTask, Active, NoRow

LEMMA StartStatusInv ==
    ASSUME TypeOK, StatusInv, StartJob
    PROVE  StatusInv'
<1> USE DEF TypeOK, StatusInv, OneActive
<1>1. ASSUME NEW doc \in Docs \cup {NoDoc}, NEW overwrite \in BOOLEAN,
             StartJobCount(doc, overwrite)
      PROVE  StatusInv'
  BY <1>1 DEF StartJobCount
<1>2. ASSUME NEW j \in Jobs, StartJobInsert(j)
      PROVE  StatusInv'
  <2>1. row'[j].status = "queued" /\ task'[j].pc = "scheduled" /\ up' = up
    BY <1>2 DEF StartJobInsert, BlankRow, NoTask
  <2>2. \A i \in Jobs \ {j} : row'[i] = row[i] /\ task'[i] = task[i]
    BY <1>2 DEF StartJobInsert
  <2>3. \A i \in Jobs : row[i].status \notin Active
    BY <1>2 DEF StartJobInsert, SlotFree
  <2>4. OneActive'
    BY <2>2, <2>3
  <2>5. \A i \in Jobs : row'[i].status \in StatusesAt(task'[i].pc)
    BY <2>1, <2>2 DEF StatusesAt
  <2>6. up'
    BY <1>2 DEF StartJobInsert
  <2>7. QED
    BY <2>4, <2>5, <2>6
<1>3. ASSUME StartJobRefused
      PROVE  StatusInv'
  BY <1>3 DEF StartJobRefused
<1>4. QED
  BY <1>1, <1>2, <1>3 DEF StartJob

\* A step that touches the task and the row of one job only, and leaves the
\* row active only if it was, keeps the invariant if they fit together after.
LEMMA OneJobStep ==
    ASSUME StatusInv, NEW j \in Jobs, up', up,
           \A i \in Jobs \ {j} : row'[i] = row[i] /\ task'[i] = task[i],
           row'[j].status \in Active => row[j].status \in Active,
           row'[j].status \in StatusesAt(task'[j].pc)
    PROVE  StatusInv'
<1>1. OneActive'
  BY DEF StatusInv, OneActive
<1>2. \A i \in Jobs : row'[i].status \in StatusesAt(task'[i].pc)
  BY DEF StatusInv
<1>3. QED
  BY <1>1, <1>2 DEF StatusInv

\* What a step of a worker does to its task and its row, as far as the status
\* is concerned.  An UPDATE of a row that is gone changes nothing.
StatusMove(j) ==
    LET pc == task[j].pc
        new == task'[j].pc
        s == row[j].status
    IN  \/ StatusesAt(new) = StatusesAt(pc) /\ row'[j].status = s
        \/ pc = "scheduled" /\ new = "setRunning" /\ row'[j].status = s
        \/ pc = "scheduled" /\ new = "none" /\ ~Stored(j) /\ row'[j].status = s
        \/ /\ pc = "setRunning" /\ new = "readCancel"
           /\ row'[j].status = IF Stored(j) THEN "running" ELSE s
        \/ /\ pc \in Ending /\ new = "none"
           /\ row'[j].status = IF Stored(j) THEN pc ELSE s

WorkerEffect(j) ==
    /\ up /\ up'
    /\ task[j].pc # "none"
    /\ \A i \in Jobs \ {j} : row'[i] = row[i] /\ task'[i] = task[i]
    /\ Stored(j) \/ row'[j] = row[j]
    /\ StatusMove(j)

LEMMA WorkerSteps ==
    ASSUME TypeOK, NEW j \in Jobs, Worker(j)
    PROVE  WorkerEffect(j)
<1> USE DEF WorkerEffect, StatusMove, At, GoTo
<1>1. /\ row \in [Jobs -> Row] /\ task \in [Jobs -> Task]
      /\ row[j] \in Row /\ task[j] \in Task
  BY DEF TypeOK
<1>2. ASSUME NEW new \in Row, RowUpdated(j, new)
      PROVE  /\ \A i \in Jobs \ {j} : row'[i] = row[i]
             /\ Stored(j) => row'[j] = new
             /\ ~Stored(j) => row'[j] = row[j]
  BY <1>1, <1>2 DEF RowUpdated
<1>3. CASE LoadHeader(j)
  <2>1. row' = row /\ up /\ up' /\ task[j].pc = "scheduled"
    BY <1>3 DEF LoadHeader
  <2>2. \A i \in Jobs \ {j} : task'[i] = task[i]
    BY <1>1, <1>3 DEF LoadHeader, TaskEnds
  <2>3. task'[j].pc = IF Stored(j) THEN "setRunning" ELSE "none"
    <3>1. CASE Stored(j)
      <4>1. task'[j] = [NoTask EXCEPT !.pc = "setRunning", !.doc = row[j].doc,
                           !.overwrite = row[j].overwrite, !.total = row[j].total]
        BY <1>1, <1>3, <3>1 DEF LoadHeader
      <4>2. QED
        BY <3>1, <4>1 DEF NoTask
    <3>2. CASE ~Stored(j)
      BY <1>1, <1>3, <3>2 DEF LoadHeader, TaskEnds, NoTask
    <3>3. QED
      BY <3>1, <3>2
  <2>4. QED
    BY <2>1, <2>2, <2>3
<1>4. CASE SetRunning(j)
  BY <1>1, <1>4 DEF SetRunning, RowUpdated, Row, Task
<1>5. CASE ReadCancelFlag(j)
  BY <1>1, <1>5 DEF ReadCancelFlag, StatusesAt, Task
<1>6. CASE ReadProcessed(j)
  BY <1>1, <1>6 DEF ReadProcessed, StatusesAt, Task
<1>7. CASE Fetch(j)
  BY <1>1, <1>7 DEF Fetch, StatusesAt, Task
<1>8. CASE MarkAndSend(j)
  BY <1>1, <1>8 DEF MarkAndSend, StatusesAt, Task
<1>9. CASE LlmFails(j)
  BY <1>1, <1>9 DEF LlmFails, StatusesAt, Task
<1>10. CASE LlmAnswers(j)
  BY <1>1, <1>10 DEF LlmAnswers, StatusesAt, Task
<1>11. ASSUME NEW q \in Questions, NoUsableItem(j, q)
       PROVE  WorkerEffect(j)
  BY <1>1, <1>11 DEF NoUsableItem, ItemDone, StatusesAt, Task
<1>12. ASSUME NEW q \in Questions, NEW item \in LlmItems, SaveItem(j, q, item)
       PROVE  WorkerEffect(j)
  BY <1>1, <1>12 DEF SaveItem, ItemDone, StatusesAt, Task
<1>13. CASE BatchSaved(j)
  BY <1>1, <1>13 DEF BatchSaved, StatusesAt, Task
<1>14. CASE AppendFailures(j)
  BY <1>1, <1>14 DEF AppendFailures, RowUpdated, StatusesAt, Task, Row
<1>15. CASE UpdateCounters(j)
  BY <1>1, <1>15 DEF UpdateCounters, RowUpdated, Counted, StatusesAt, Task, Row
<1>16. CASE SetFinalStatus(j)
  BY <1>1, <1>16 DEF SetFinalStatus, RowUpdated, TaskEnds, NoTask, Ending, Row
<1>17. QED
  BY <1>3, <1>4, <1>5, <1>6, <1>7, <1>8, <1>9, <1>10, <1>11, <1>12, <1>13,
     <1>14, <1>15, <1>16 DEF Worker

LEMMA WorkerStatusInv ==
    ASSUME TypeOK, StatusInv, NEW j \in Jobs, WorkerEffect(j)
    PROVE  StatusInv'
<1>1. row[j].status \in StatusesAt(task[j].pc)
  BY DEF StatusInv
<1>2. row[j].status \in Active \cup Terminal \cup NoRow
  BY DEF TypeOK, Row
<1>3. row'[j].status \in StatusesAt(task'[j].pc)
  BY <1>1, <1>2 DEF WorkerEffect, StatusMove, StatusesAt, Stored, Active, NoRow,
                    Terminal, Ending
<1>4. row'[j].status \in Active => row[j].status \in Active
  BY <1>1, <1>2 DEF WorkerEffect, StatusMove, StatusesAt, Stored, Active, NoRow,
                    Terminal, Ending
<1>5. QED
  BY <1>3, <1>4, OneJobStep DEF WorkerEffect

LEMMA DbErrorSteps ==
    ASSUME TypeOK, NEW j \in Jobs, DbError(j)
    PROVE  /\ up /\ up' /\ row' = row
           /\ \A i \in Jobs \ {j} : task'[i] = task[i]
           /\ \/ task'[j].pc = task[j].pc
              \/ task[j].pc # "none" /\ task'[j].pc = "error"
              \/ task[j].pc = "error" /\ task'[j].pc = "none"
<1>1. task \in [Jobs -> Task] /\ task[j] \in Task
  BY DEF TypeOK
<1>2. up /\ up' /\ row' = row /\ task[j].pc # "none"
  BY DEF DbError, Executes, OnLoop, Ending
<1>3. CASE \E q \in task[j].todo : ItemDone(j, q, TRUE)
  BY <1>1, <1>2, <1>3 DEF ItemDone, Task
<1>4. CASE GoTo(j, "error")
  BY <1>1, <1>2, <1>4 DEF GoTo, Task, OnLoop, Ending
<1>5. CASE task[j].pc = "error" /\ TaskEnds(j)
  BY <1>1, <1>2, <1>5 DEF TaskEnds, NoTask
<1>6. QED
  BY <1>3, <1>4, <1>5 DEF DbError

LEMMA DbErrorStatusInv ==
    ASSUME TypeOK, StatusInv, NEW j \in Jobs, DbError(j)
    PROVE  StatusInv'
<1>1. row[j].status \in StatusesAt(task[j].pc)
  BY DEF StatusInv
<1>2. row[j].status \in Active \cup Terminal \cup NoRow
  BY DEF TypeOK, Row
<1>3. row'[j].status \in StatusesAt(task'[j].pc)
  BY <1>1, <1>2, DbErrorSteps DEF StatusesAt
<1>4. QED
  BY <1>3, DbErrorSteps, OneJobStep

\* Deleting rows keeps the invariant: "deleted" suits a task at any point.
LEMMA DeletedStatusInv ==
    ASSUME TypeOK, StatusInv, NEW S, JobsDeleted(S), UNCHANGED <<task, up>>
    PROVE  StatusInv'
<1>1. \A j \in Jobs : row'[j] = row[j] \/ row'[j].status = "deleted"
  BY DEF JobsDeleted, BlankRow, TypeOK
<1>2. OneActive'
  BY <1>1 DEF StatusInv, OneActive, Active
<1>3. \A j \in Jobs : row'[j].status \in StatusesAt(task'[j].pc)
  BY <1>1 DEF StatusInv, StatusesAt, NoRow
<1>4. QED
  BY <1>2, <1>3 DEF StatusInv

LEMMA BankStatusInv ==
    ASSUME TypeOK, StatusInv, Bank
    PROVE  StatusInv'
<1>1. ASSUME NEW d \in Docs, NEW moved \in SUBSET Questions, DeleteDocument(d, moved)
      PROVE  StatusInv'
  BY <1>1, DeletedStatusInv DEF DeleteDocument
<1>2. CASE ResetDb
  BY <1>2, DeletedStatusInv DEF ResetDb
<1>3. CASE UNCHANGED <<row, task, up>>
  BY <1>3 DEF StatusInv, OneActive
<1>4. QED
  BY <1>1, <1>2, <1>3 DEF Bank, DiscardQuestion, SaveQuestions, MergeDuplicate

LEMMA ProcessStatusInv ==
    ASSUME TypeOK, StatusInv, Crash \/ Shutdown \/ Startup
    PROVE  StatusInv'
<1>1. \A j \in Jobs : row[j].status \in Active \cup Terminal \cup NoRow
  BY DEF TypeOK, Row
<1>2. ASSUME TasksGone, NEW j \in Jobs
      PROVE  task'[j].pc = "none"
  BY <1>2 DEF TasksGone, NoTask
<1>3. CASE Crash
  BY <1>1, <1>2, <1>3 DEF Crash, StatusInv, OneActive, StatusesAt
<1>4. CASE Shutdown
  <2>1. \A j \in Jobs : row'[j].status = row[j].status \/ row'[j].status = "cancelled"
    BY <1>4 DEF Shutdown, TypeOK, Row
  <2>2. OneActive'
    BY <2>1 DEF StatusInv, OneActive, Active
  <2>3. \A j \in Jobs : row'[j].status \in StatusesAt("none")
    BY <1>1, <2>1 DEF StatusesAt, Terminal
  <2>4. QED
    BY <1>2, <1>4, <2>2, <2>3 DEF Shutdown, StatusInv
<1>5. CASE Startup
  <2>1. \A j \in Jobs : row'[j].status \notin Active /\ row'[j].status \in StatusesAt("none")
    BY <1>1, <1>5 DEF Startup, Interrupted, TypeOK, Row, StatusesAt, Active, Terminal
  <2>2. \A j \in Jobs : task'[j].pc = "none"
    BY <1>5 DEF Startup, StatusInv
  <2>3. QED
    BY <1>5, <2>1, <2>2 DEF StatusInv, OneActive, Startup
<1>6. QED
  BY <1>3, <1>4, <1>5

LEMMA StatusInvStep == TypeOK /\ StatusInv /\ [Next]_vars => StatusInv'
<1> SUFFICES ASSUME TypeOK, StatusInv, [Next]_vars PROVE StatusInv'
  OBVIOUS
<1>1. ASSUME NEW j \in Jobs, CancelJob(j)
      PROVE  StatusInv'
  <2>1. /\ \A i \in Jobs : row'[i].status = row[i].status
        /\ task' = task /\ up' = up
    BY <1>1 DEF CancelJob, TypeOK, Row
  <2>2. QED
    BY <2>1 DEF StatusInv, OneActive
<1>2. ASSUME NEW j \in Jobs, Worker(j)
      PROVE  StatusInv'
  BY <1>2, WorkerSteps, WorkerStatusInv
<1>3. CASE UNCHANGED <<row, task, up>>
  BY <1>3 DEF StatusInv, OneActive
<1>4. CASE UNCHANGED vars
  BY <1>3, <1>4 DEF vars
<1>5. ASSUME NEW q \in Questions, NEW edit \in ManualEdits,
             SetQuestionCorrection(q, edit)
      PROVE  StatusInv'
  BY <1>3, <1>5 DEF SetQuestionCorrection
<1>6. ASSUME NEW q \in Questions, Regenerate(q)
      PROVE  StatusInv'
  BY <1>3, <1>6 DEF Regenerate, RegenerateAsk, RegenerateSave, RegenerateFails
<1>7. QED
  BY <1>1, <1>2, <1>4, <1>5, <1>6, StartStatusInv, DbErrorStatusInv,
     BankStatusInv, ProcessStatusInv DEF Next

LEMMA StatusInvariant == Spec => [](TypeOK /\ StatusInv)
<1>1. Init => TypeOK /\ StatusInv
  BY InitTypeOK, InitStatusInv
<1>2. Spec => []TypeOK
  BY TypeCorrect
<1>3. QED
  BY <1>1, <1>2, StatusInvStep, PTL DEF Spec

-----------------------------------------------------------------------------
(* What follows from it.                                                   *)

\* At most one live task still has its row, for every number of jobs and
\* every schedule of requests, deletions, failures and restarts.
THEOREM OneStoredWorkerHolds == Spec => []OneStoredWorker
<1>1. TypeOK /\ StatusInv => OneStoredWorker
  <2> SUFFICES ASSUME TypeOK, StatusInv,
                      NEW i \in Jobs, NEW j \in Jobs,
                      Live(i), Live(j), Stored(i), Stored(j)
               PROVE  i = j
    BY DEF OneStoredWorker
  <2>1. \A k \in Jobs : Live(k) /\ Stored(k) => row[k].status \in Active
    BY DEF StatusInv, StatusesAt, Live, Stored, NoRow, Active
  <2>2. QED
    BY <2>1 DEF StatusInv, OneActive
<1>2. QED
  BY <1>1, StatusInvariant, PTL

\* No step touches the row of a job that has ended, unless it deletes it.
THEOREM EndedJobsStayHolds == Spec => EndedJobsStay
<1> DEFINE Stays == \A j \in Jobs : row[j].status \in Terminal =>
                        row'[j] = row[j] \/ row'[j].status = "deleted"
<1>1. TypeOK /\ StatusInv /\ [Next]_vars => Stays
  <2> SUFFICES ASSUME TypeOK, StatusInv, [Next]_vars,
                      NEW j \in Jobs, row[j].status \in Terminal
               PROVE  row'[j] = row[j] \/ row'[j].status = "deleted"
    OBVIOUS
  <2> USE DEF TypeOK, Terminal, Active, NoRow
  <2>1. task[j].pc = "none"
    BY DEF StatusInv, StatusesAt
  <2>2. ASSUME NEW i \in Jobs, Worker(i)
        PROVE  row'[j] = row[j]
    BY <2>1, <2>2, WorkerSteps DEF WorkerEffect
  <2>3. ASSUME NEW i \in Jobs, CancelJob(i) \/ DbError(i)
        PROVE  row'[j] = row[j]
    BY <2>3 DEF CancelJob, DbError
  <2>4. CASE StartJob
    BY <2>4 DEF StartJob, StartJobCount, StartJobInsert, StartJobRefused
  <2>5. CASE Bank
    <3>1. ASSUME NEW S, JobsDeleted(S)
          PROVE  row'[j] = row[j] \/ row'[j].status = "deleted"
      BY <3>1 DEF JobsDeleted, BlankRow
    <3>2. CASE row' = row
      BY <3>2
    <3>3. QED
      BY <2>5, <3>1, <3>2 DEF Bank, DiscardQuestion, SaveQuestions, MergeDuplicate,
                              DeleteDocument, ResetDb
  <2>6. CASE Crash \/ Shutdown \/ Startup
    BY <2>1, <2>6 DEF Crash, Shutdown, Startup, Interrupted
  <2>7. ASSUME NEW q \in Questions, NEW edit \in ManualEdits,
               SetQuestionCorrection(q, edit)
        PROVE  row'[j] = row[j]
    BY <2>7 DEF SetQuestionCorrection
  <2>8. ASSUME NEW q \in Questions, Regenerate(q)
        PROVE  row'[j] = row[j]
    BY <2>8 DEF Regenerate, RegenerateAsk, RegenerateSave, RegenerateFails
  <2>9. CASE UNCHANGED vars
    BY <2>9 DEF vars
  <2>10. QED
    BY <2>2, <2>3, <2>4, <2>5, <2>6, <2>7, <2>8, <2>9 DEF Next
<1>2. TypeOK /\ StatusInv /\ [Next]_vars => [Stays]_vars
  BY <1>1
<1>3. QED
  BY <1>2, StatusInvariant, PTL DEF Spec, EndedJobsStay

\* A failed statement that the error handler survives leaves no queued or
\* running row behind without a task: with at most one failure, the slot for
\* the next job is never blocked while the process is up.
THEOREM ActiveRowHasWorkerHolds ==
    ASSUME MaxDbErrors <= 1
    PROVE  Spec => []ActiveRowHasWorker
<1> DEFINE Reported == \A j \in Jobs : task[j].pc = "error" => dbErrors > 0
           Inv == ActiveRowHasWorker /\ Reported
<1>1. Init => Inv
  BY DEF Init, ActiveRowHasWorker, BlankRow, NoTask, Active
<1>2. TypeOK /\ StatusInv /\ Inv /\ [Next]_vars => Inv'
  <2> SUFFICES ASSUME TypeOK, StatusInv, Inv, [Next]_vars PROVE Inv'
    OBVIOUS
  <2> USE DEF ActiveRowHasWorker, Live
  <2>1. dbErrors \in Nat /\ MaxDbErrors \in Nat
    BY ConstantsAssumption DEF TypeOK
  <2>2. ASSUME NEW j \in Jobs, Worker(j)
        PROVE  Inv'
    <3>1. WorkerEffect(j) /\ dbErrors' = dbErrors
      BY <2>2, WorkerSteps DEF Worker, LoadHeader, SetRunning, ReadCancelFlag,
         ReadProcessed, Fetch, MarkAndSend, LlmFails, LlmAnswers, NoUsableItem,
         SaveItem, BatchSaved, AppendFailures, UpdateCounters, SetFinalStatus
    <3>2. row[j].status \in StatusesAt(task[j].pc)
      BY DEF StatusInv
    <3>3. task'[j].pc = "none" => row'[j].status \notin Active
      BY <3>1, <3>2 DEF WorkerEffect, StatusMove, StatusesAt, Stored, Active,
                        Terminal, NoRow, Ending
    <3>4. task'[j].pc = "error" => task[j].pc = "error"
      BY <3>1 DEF WorkerEffect, StatusMove, StatusesAt, Active, Terminal, NoRow, Ending
    <3>5. \A i \in Jobs \ {j} : row'[i] = row[i] /\ task'[i] = task[i]
      BY <3>1 DEF WorkerEffect
    <3>6. ActiveRowHasWorker'
      BY <3>1, <3>3, <3>5 DEF WorkerEffect
    <3>7. Reported'
      BY <3>1, <3>4, <3>5
    <3>8. QED
      BY <3>6, <3>7
  <2>3. ASSUME NEW j \in Jobs, DbError(j)
        PROVE  Inv'
    <3>1. dbErrors' = dbErrors + 1 /\ dbErrors < MaxDbErrors
      BY <2>3 DEF DbError
    <3>2. Reported'
      BY <2>1, <3>1
    <3>3. task[j].pc # "error"
      BY <2>1, <3>1
    <3>4. \A i \in Jobs : task'[i].pc = "none" => task[i].pc = "none"
      BY <2>3, <3>3, DbErrorSteps
    <3>5. ActiveRowHasWorker'
      BY <2>3, <3>4, DbErrorSteps
    <3>6. QED
      BY <3>2, <3>5
  <2>4. CASE StartJob
    <3>1. dbErrors' = dbErrors /\ up' = up
      BY <2>4 DEF StartJob, StartJobCount, StartJobInsert, StartJobRefused
    <3>2. ASSUME NEW j \in Jobs, StartJobInsert(j)
          PROVE  Inv'
      <4>1. task'[j].pc = "scheduled"
        BY <3>2 DEF StartJobInsert, NoTask, TypeOK
      <4>2. \A i \in Jobs \ {j} : row'[i] = row[i] /\ task'[i] = task[i]
        BY <3>2 DEF StartJobInsert
      <4>3. QED
        BY <3>1, <4>1, <4>2
    <3>3. CASE UNCHANGED <<row, task>>
      BY <3>1, <3>3
    <3>4. QED
      BY <2>4, <3>2, <3>3 DEF StartJob, StartJobCount, StartJobRefused
  <2>5. ASSUME UNCHANGED <<task, up, dbErrors>>,
               \A j \in Jobs : row'[j].status \in Active => row[j].status \in Active
        PROVE  Inv'
    BY <2>5
  <2>6. ASSUME NEW j \in Jobs, CancelJob(j)
        PROVE  Inv'
    BY <2>5, <2>6 DEF CancelJob, TypeOK, Row
  <2>7. CASE Bank
    <3>1. ASSUME NEW S, JobsDeleted(S)
          PROVE  \A j \in Jobs : row'[j].status \in Active => row[j].status \in Active
      BY <3>1 DEF JobsDeleted, BlankRow, TypeOK, Active
    <3>2. QED
      BY <2>5, <2>7, <3>1 DEF Bank, DiscardQuestion, SaveQuestions, MergeDuplicate,
                              DeleteDocument, ResetDb
  <2>8. CASE Crash \/ Shutdown
    <3>1. ~up' /\ \A j \in Jobs : task'[j].pc = "none"
      BY <2>8 DEF Crash, Shutdown, TasksGone, NoTask
    <3>2. QED
      BY <3>1
  <2>9. CASE Startup
    <3>1. \A j \in Jobs : row'[j].status \notin Active
      BY <2>9 DEF Startup, Interrupted, TypeOK, Row, Active
    <3>2. QED
      BY <2>9, <3>1 DEF Startup
  <2>10. ASSUME NEW q \in Questions, NEW edit \in ManualEdits,
                SetQuestionCorrection(q, edit)
         PROVE  Inv'
    BY <2>5, <2>10 DEF SetQuestionCorrection, Edits
  <2>11. ASSUME NEW q \in Questions, Regenerate(q)
         PROVE  Inv'
    BY <2>5, <2>11 DEF Regenerate, RegenerateAsk, RegenerateSave, RegenerateFails, Edits
  <2>12. CASE UNCHANGED vars
    BY <2>5, <2>12 DEF vars
  <2>13. QED
    BY <2>2, <2>3, <2>4, <2>6, <2>7, <2>8, <2>9, <2>10, <2>11, <2>12 DEF Next
<1>3. Inv => ActiveRowHasWorker
  OBVIOUS
<1>4. QED
  BY <1>1, <1>2, <1>3, StatusInvariant, PTL DEF Spec

-----------------------------------------------------------------------------
(* The jobs implement JobLifecycle.                                        *)

Statuses == [j \in Jobs |-> row[j].status]

\* A transaction that changes the status of one job moves the column so.
LEMMA OneStatusChanges ==
    ASSUME TypeOK, NEW j \in Jobs, NEW s,
           row'[j].status = s, \A i \in Jobs \ {j} : row'[i] = row[i]
    PROVE  Statuses' = [Statuses EXCEPT ![j] = s]
  BY DEF Statuses

\* Every step of the jobs is a step of the lifecycle or leaves the column alone.
LEMMA LifecycleStep ==
    ASSUME TypeOK, StatusInv, [Next]_vars
    PROVE  [Lifecycle!Next]_Statuses
<1> DEFINE Goal == [Lifecycle!Next]_Statuses
<1> USE DEF Lifecycle!Active, Active
<1>1. \A j \in Jobs : Statuses[j] = row[j].status
  BY DEF Statuses
<1>2. ASSUME \A j \in Jobs : row'[j].status = row[j].status
      PROVE  Goal
  BY <1>2 DEF Statuses
<1>3. ASSUME row' = row
      PROVE  Goal
  BY <1>2, <1>3
<1>4. ASSUME NEW j \in Jobs, StartJobInsert(j)
      PROVE  Goal
  <2>1. row'[j].status = "queued" /\ \A i \in Jobs \ {j} : row'[i] = row[i]
    BY <1>4 DEF StartJobInsert, BlankRow, TypeOK
  <2>2. Lifecycle!Submit(j)
    BY <1>1, <1>4, <2>1, OneStatusChanges DEF StartJobInsert, SlotFree,
                                              Lifecycle!Submit, Statuses
  <2>3. QED
    BY <2>2 DEF Lifecycle!Next
<1>5. ASSUME NEW j \in Jobs, Worker(j)
      PROVE  Goal
  <2>1. WorkerEffect(j) /\ row[j].status \in StatusesAt(task[j].pc)
    BY <1>5, WorkerSteps DEF StatusInv
  <2>2. CASE row'[j].status = row[j].status
    BY <1>2, <2>1, <2>2 DEF WorkerEffect
  <2>3. CASE row'[j].status # row[j].status /\ task[j].pc = "setRunning"
    <3>1. row[j].status = "queued" /\ row'[j].status = "running"
      BY <2>1, <2>3 DEF WorkerEffect, StatusMove, StatusesAt, Stored, NoRow, Ending
    <3>2. Lifecycle!Begin(j)
      BY <1>1, <2>1, <3>1, OneStatusChanges DEF WorkerEffect, Lifecycle!Begin, Statuses
    <3>3. QED
      BY <3>2 DEF Lifecycle!Next
  <2>4. CASE row'[j].status # row[j].status /\ task[j].pc \in Ending
    <3>1. Stored(j) /\ row'[j].status = task[j].pc
      BY <2>1, <2>4 DEF WorkerEffect, StatusMove, Ending
    <3>2. CASE task[j].pc = "error"
      <4>1. row[j].status \in Active
        BY <2>1, <3>1, <3>2 DEF StatusesAt, Stored, NoRow
      <4>2. Lifecycle!Break(j)
        BY <1>1, <2>1, <3>1, <3>2, <4>1, OneStatusChanges
           DEF WorkerEffect, Lifecycle!Break, Statuses
      <4>3. QED
        BY <4>2 DEF Lifecycle!Next
    <3>3. CASE task[j].pc \in {"done", "cancelled"}
      <4>1. row[j].status = "running"
        BY <2>1, <3>1, <3>3 DEF StatusesAt, Stored, NoRow
      <4>2. Statuses' = [Statuses EXCEPT ![j] = task[j].pc]
        BY <2>1, <3>1, OneStatusChanges DEF WorkerEffect
      <4>3. Statuses[j] = "running"
        BY <1>1, <4>1
      <4>4. \E s \in {"done", "cancelled"} : Statuses' = [Statuses EXCEPT ![j] = s]
        BY <3>3, <4>2, Zenon
      <4>5. Lifecycle!Finish(j)
        BY <4>3, <4>4 DEF Lifecycle!Finish, Statuses
      <4>6. QED
        BY <4>5 DEF Lifecycle!Next
    <3>4. QED
      BY <2>4, <3>2, <3>3 DEF Ending
  <2>5. QED
    BY <2>1, <2>2, <2>3, <2>4 DEF WorkerEffect, StatusMove
<1>6. ASSUME NEW S, JobsDeleted(S)
      PROVE  Goal
  <2>1. \A j \in Jobs : row'[j].status = IF j \in S \cap Jobs /\ Stored(j) THEN "deleted"
                                        ELSE row[j].status
    BY <1>6 DEF JobsDeleted, BlankRow, TypeOK
  <2>2. Statuses' = [j \in Jobs |-> IF j \in S \cap Jobs /\ Statuses[j] # "unborn"
                                   THEN "deleted" ELSE Statuses[j]]
    BY <1>1, <2>1 DEF Statuses, Stored, NoRow
  <2>3. Lifecycle!Delete(S \cap Jobs)
    BY <2>2 DEF Lifecycle!Delete, Statuses
  <2>4. QED
    BY <2>3 DEF Lifecycle!Next
<1>7. CASE Bank
  BY <1>3, <1>6, <1>7 DEF Bank, DiscardQuestion, SaveQuestions, MergeDuplicate,
                          DeleteDocument, ResetDb
<1>8. CASE Shutdown
  \* Of the tasks that await the LLM at most one still has its row.
  <2>1. CASE \E j \in Jobs : task[j].pc = "llm" /\ Stored(j)
    <3>1. PICK j \in Jobs : task[j].pc = "llm" /\ Stored(j)
      BY <2>1
    <3>2. row[j].status = "running"
      BY <3>1 DEF StatusInv, StatusesAt, Stored, NoRow, Ending
    <3>3. \A i \in Jobs \ {j} : task[i].pc = "llm" => ~Stored(i)
      BY <3>2 DEF StatusInv, OneActive, StatusesAt, Stored, NoRow, Ending
    <3>4. row'[j].status = "cancelled" /\ \A i \in Jobs \ {j} : row'[i] = row[i]
      BY <1>8, <3>1, <3>3 DEF Shutdown, TypeOK, Row
    <3>5. Lifecycle!Finish(j)
      BY <1>1, <3>2, <3>4, OneStatusChanges DEF Lifecycle!Finish, Statuses
    <3>6. QED
      BY <3>5 DEF Lifecycle!Next
  <2>2. CASE \A j \in Jobs : ~(task[j].pc = "llm" /\ Stored(j))
    BY <1>2, <1>8, <2>2 DEF Shutdown
  <2>3. QED
    BY <2>1, <2>2
<1>9. CASE Startup
  <2>1. \A j \in Jobs : row'[j].status = IF row[j].status \in Active THEN "interrupted"
                                        ELSE row[j].status
    BY <1>9 DEF Startup, Interrupted, TypeOK, Row
  <2>2. Lifecycle!Restart
    BY <1>1, <2>1 DEF Lifecycle!Restart, Statuses
  <2>3. QED
    BY <2>2 DEF Lifecycle!Next
<1>10. ASSUME NEW j \in Jobs, CancelJob(j)
       PROVE  Goal
  BY <1>2, <1>10 DEF CancelJob, TypeOK, Row
<1>11. ASSUME NEW q \in Questions, NEW edit \in ManualEdits,
              SetQuestionCorrection(q, edit)
       PROVE  Goal
  BY <1>3, <1>11 DEF SetQuestionCorrection
<1>12. ASSUME NEW q \in Questions, Regenerate(q)
       PROVE  Goal
  BY <1>3, <1>12 DEF Regenerate, RegenerateAsk, RegenerateSave, RegenerateFails
<1>13. QED
  BY <1>3, <1>4, <1>5, <1>7, <1>8, <1>9, <1>10, <1>11, <1>12
     DEF Next, StartJob, StartJobCount, StartJobRefused, DbError, Crash, vars

\* The status column moves as JobLifecycle promises.
THEOREM ImplementsLifecycleHolds == Spec => ImplementsLifecycle
<1>1. Init => Lifecycle!Init
  BY DEF Init, Lifecycle!Init, BlankRow
<1>2. TypeOK /\ StatusInv /\ [Next]_vars => [Lifecycle!Next]_Statuses
  BY LifecycleStep
<1>3. QED
  BY <1>1, <1>2, StatusInvariant, PTL
     DEF Spec, ImplementsLifecycle, Lifecycle!Spec, Statuses
=============================================================================
