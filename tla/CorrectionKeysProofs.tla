------------------------- MODULE CorrectionKeysProofs -------------------------
(***************************************************************************)
(* Two promises of the correction jobs to their user: what the user wrote  *)
(* is replaced only by those who were asked to overwrite, and a cancelled  *)
(* job sends at most one more batch.                                       *)
(***************************************************************************)
EXTENDS CorrectionJobsProofs

-----------------------------------------------------------------------------
(* Answer keys.                                                            *)

\* No field the user wrote is the AI's in the new key.
Keeps(old, new) == \A f \in DOMAIN NoKey : old[f] = "user" => new[f] # "ai"

LEMMA Fields == DOMAIN NoKey = {"option", "explanation", "payload"}
  BY DEF NoKey

\* COALESCE in each of its three orders: a job that does not overwrite, the
\* user's own edit, and a merge.
LEMMA CoalescingKeeps ==
    ASSUME NEW old \in Key
    PROVE  /\ Keeps(old, old)
           /\ Keeps(old, NoKey)
           /\ \A u : Keeps(old, SavedKey(old, u, FALSE))
           /\ \A edit \in ManualEdit :
                 Keeps(old, [option |-> Coalesce(ByUser(edit.option), old.option),
                             explanation |-> Coalesce(ByUser(edit.explanation), old.explanation),
                             payload |-> Coalesce(ByUser(edit.payload), old.payload)])
<1>1. Keeps(old, old) /\ Keeps(old, NoKey)
  BY Fields DEF Keeps, NoKey
<1>2. \A u : Keeps(old, SavedKey(old, u, FALSE))
  BY Fields DEF Keeps, SavedKey, Coalesce, Key
<1>3. \A edit \in ManualEdit :
          Keeps(old, [option |-> Coalesce(ByUser(edit.option), old.option),
                      explanation |-> Coalesce(ByUser(edit.explanation), old.explanation),
                      payload |-> Coalesce(ByUser(edit.payload), old.payload)])
  BY Fields DEF Keeps, ByUser, Coalesce, Key, ManualEdit
<1>4. QED
  BY <1>1, <1>2, <1>3

LEMMA MergingKeeps ==
    ASSUME TypeOK, NEW p \in Questions, NEW q \in Questions
    PROVE  Keeps(key[p], MergedKey(p, q))
  BY Fields DEF Keeps, MergedKey, Coalesce

KeysKept == \A q \in Questions : Overwriting(q) \/ Keeps(key[q], key'[q])

LEMMA SaveKeepsKeys ==
    ASSUME TypeOK, NEW j \in Jobs, NEW p \in Questions, NEW item \in LlmItems,
           SaveItem(j, p, item)
    PROVE  KeysKept
<1>1. /\ key \in [Questions -> Key] /\ task[j].overwrite \in BOOLEAN
      /\ task[j].pc = "save" /\ p \in task[j].todo
  BY DEF TypeOK, Task, SaveItem, At
<1>2. CASE task[j].overwrite
  <2>1. Overwriting(p)
    BY <1>1, <1>2 DEF Overwriting
  <2>2. \A q \in Questions \ {p} : key'[q] = key[q]
    BY <1>1 DEF SaveItem
  <2>3. QED
    BY <1>1, <2>1, <2>2, CoalescingKeeps DEF KeysKept
<1>3. CASE task[j].overwrite = FALSE
  <2>1. key' = key \/ key' = [key EXCEPT ![p] = SavedKey(key[p], Usable(p, item), FALSE)]
    BY <1>3 DEF SaveItem
  <2>2. Keeps(key[p], SavedKey(key[p], Usable(p, item), FALSE))
    BY <1>1, CoalescingKeeps
  <2>3. \A q \in Questions : Keeps(key[q], key[q])
    BY <1>1, CoalescingKeeps
  <2>4. \A q \in Questions :
            \/ key'[q] = key[q]
            \/ q = p /\ key'[q] = SavedKey(key[p], Usable(p, item), FALSE)
    BY <1>1, <2>1
  <2>5. QED
    BY <2>2, <2>3, <2>4 DEF KeysKept
<1>4. QED
  BY <1>1, <1>2, <1>3

LEMMA KeysStep == TypeOK /\ [Next]_vars => KeysKept
<1> SUFFICES ASSUME TypeOK, [Next]_vars PROVE KeysKept
  OBVIOUS
<1>1. key \in [Questions -> Key]
  BY DEF TypeOK
<1>2. CASE key' = key
  BY <1>1, <1>2, CoalescingKeeps DEF KeysKept
<1>3. ASSUME NEW j \in Jobs, Worker(j)
      PROVE  KeysKept
  BY <1>2, <1>3, SaveKeepsKeys
     DEF Worker, LoadHeader, SetRunning, ReadCancelFlag, ReadProcessed, Fetch,
         MarkAndSend, LlmFails, LlmAnswers, NoUsableItem, BatchSaved,
         AppendFailures, UpdateCounters, SetFinalStatus
<1>4. ASSUME NEW q \in Questions, NEW edit \in ManualEdits,
             SetQuestionCorrection(q, edit)
      PROVE  KeysKept
  <2>1. edit \in ManualEdit
    BY ConstantsAssumption
  <2>2. QED
    BY <1>1, <1>4, <2>1, CoalescingKeeps DEF SetQuestionCorrection, KeysKept
<1>5. ASSUME NEW p \in Questions, NEW item \in LlmItems, RegenerateSave(p, item)
      PROVE  KeysKept
  <2>1. Overwriting(p)
    BY <1>5 DEF RegenerateSave, Overwriting
  <2>2. \A q \in Questions \ {p} : key'[q] = key[q]
    BY <1>1, <1>5 DEF RegenerateSave
  <2>3. QED
    BY <1>1, <2>1, <2>2, CoalescingKeeps DEF KeysKept
<1>6. ASSUME NEW q \in Questions, Regenerate(q)
      PROVE  KeysKept
  BY <1>2, <1>5, <1>6 DEF Regenerate, RegenerateAsk, RegenerateFails
<1>7. ASSUME NEW dup \in Questions, NEW keeper \in Questions,
             MergeDuplicate(dup, keeper)
      PROVE  KeysKept
  <2>1. /\ key' = [key EXCEPT ![keeper] = MergedKey(keeper, dup), ![dup] = NoKey]
        /\ dup # keeper
    BY <1>7 DEF MergeDuplicate
  <2>2. QED
    BY <1>1, <2>1, CoalescingKeeps, MergingKeeps DEF KeysKept
<1>8. ASSUME \A q \in Questions : key'[q] \in {key[q], NoKey}
      PROVE  KeysKept
  BY <1>1, <1>8, CoalescingKeeps DEF KeysKept
<1>9. CASE Bank
  BY <1>2, <1>7, <1>8, <1>9
     DEF Bank, DiscardQuestion, SaveQuestions, DeleteDocument, ResetDb, QuestionsDeleted
<1>10. QED
  BY <1>2, <1>3, <1>4, <1>6, <1>9
     DEF Next, StartJob, StartJobCount, StartJobInsert, StartJobRefused, CancelJob,
         DbError, Crash, Shutdown, Startup, vars

\* What a user wrote becomes the AI's only by a job or a regeneration that was
\* asked to overwrite, for every interleaving of edits, answers and merges.
THEOREM UserFieldsStayHolds == Spec => UserFieldsStay
<1>1. TypeOK /\ [Next]_vars =>
          [\A q \in Questions, f \in DOMAIN NoKey :
              key[q][f] = "user" /\ key'[q][f] = "ai" => Overwriting(q)]_vars
  BY KeysStep DEF KeysKept, Keeps
<1>2. QED
  BY <1>1, TypeCorrect, PTL DEF Spec, UserFieldsStay

-----------------------------------------------------------------------------
(* Cancelling.                                                             *)

\* Once a request has gone out after the cancellation, the worker is between
\* that call and its next look at the flag, and the flag is still there.
Winding == {"llm", "save", "log", "count", "readCancel", "cancelled", "error"}

LateAt(h, r, t) ==
    /\ h.late <= 1
    /\ h.late = 1 => /\ t.pc \in Winding
                     /\ r.status \notin NoRow => r.cancel

LateInv == \A j \in Jobs : LateAt(hist[j], row[j], task[j])

LEMMA NoHistIsNotLate == \A r, t : LateAt(NoHist, r, t)
  BY DEF LateAt, NoHist

\* A row that gets a new status or new counters, or goes, keeps its flag.
FlagStays(r, new) == new.status \notin NoRow => r.status \notin NoRow /\ new.cancel = r.cancel

LEMMA LateStep ==
    ASSUME NEW h, NEW r, NEW t, LateAt(h, r, t),
           NEW new, FlagStays(r, new), NEW u, t.pc \in Winding => u.pc \in Winding
    PROVE  LateAt(h, new, u)
  BY DEF LateAt, FlagStays

\* Each step of a worker goes on inside Winding, ends the task, makes the
\* call, or looks at the flag.
LEMMA WorkerLateInv ==
    ASSUME TypeOK, LateInv, NEW j \in Jobs, Worker(j)
    PROVE  LateInv'
<1> DEFINE h == hist[j]
           r == row[j]
           t == task[j]
           u == task'[j]
<1> USE DEF At, GoTo
<1>1. /\ h \in Hist /\ r \in Row /\ t \in Task /\ LateAt(h, r, t)
      /\ hist \in [Jobs -> Hist] /\ row \in [Jobs -> Row] /\ task \in [Jobs -> Task]
  BY DEF TypeOK, LateInv
<1>2. ASSUME NEW new, RowUpdated(j, new), FlagStays(r, new)
      PROVE  FlagStays(r, row'[j])
  BY <1>1, <1>2 DEF RowUpdated, FlagStays, Stored
<1>3. FlagStays(r, r)
  BY DEF FlagStays
<1>4. ASSUME hist' = hist, row' = row, t.pc \in Winding => u.pc \in Winding
      PROVE  LateAt(hist'[j], row'[j], u)
  BY <1>1, <1>3, <1>4, LateStep
<1>5. ASSUME TaskEnds(j)
      PROVE  LateAt(hist'[j], row'[j], u)
  BY <1>1, <1>5, NoHistIsNotLate DEF TaskEnds
<1>6. ASSUME LoadHeader(j)
      PROVE  LateAt(hist'[j], row'[j], u)
  <2>1. t.pc \notin Winding /\ row' = row
    BY <1>6 DEF LoadHeader, Winding
  <2>2. QED
    BY <1>4, <1>5, <1>6, <2>1 DEF LoadHeader
<1>7. ASSUME SetRunning(j)
      PROVE  LateAt(hist'[j], row'[j], u)
  <2>1. FlagStays(r, row'[j])
    BY <1>1, <1>7 DEF SetRunning, RowUpdated, FlagStays, Stored, Row
  <2>2. t.pc \notin Winding /\ hist' = hist
    BY <1>7 DEF SetRunning, Winding
  <2>3. QED
    BY <1>1, <2>1, <2>2, LateStep
<1>8. ASSUME ReadCancelFlag(j)
      PROVE  LateAt(hist'[j], row'[j], u)
  <2>1. /\ u.pc = IF CancelFlag(j) THEN "cancelled" ELSE "readProcessed"
        /\ hist' = hist /\ row' = row
    BY <1>1, <1>8 DEF ReadCancelFlag, Task
  <2>2. h.late = 1 => CancelFlag(j)
    BY <1>1 DEF LateAt, CancelFlag, Stored
  <2>3. QED
    BY <1>1, <2>1, <2>2 DEF LateAt, Winding
<1>9. ASSUME MarkAndSend(j)
      PROVE  LateAt(hist'[j], row'[j], u)
  <2>1. /\ u.pc = "llm" /\ row' = row /\ t.pc = "mark"
        /\ hist'[j].late = IF r.cancel /\ h.late < 2 THEN h.late + 1 ELSE h.late
    BY <1>1, <1>9 DEF MarkAndSend, Task, Hist
  <2>2. h.late = 0
    BY <1>1, <2>1 DEF LateAt, Winding, Hist
  <2>3. QED
    BY <2>1, <2>2 DEF LateAt, Winding
<1>10. ASSUME ReadProcessed(j) \/ Fetch(j)
       PROVE  LateAt(hist'[j], row'[j], u)
  <2>1. t.pc \notin Winding /\ hist' = hist /\ row' = row
    BY <1>10 DEF ReadProcessed, Fetch, Winding
  <2>2. QED
    BY <1>4, <2>1
<1>11. ASSUME LlmFails(j) \/ LlmAnswers(j) \/ BatchSaved(j)
       PROVE  LateAt(hist'[j], row'[j], u)
  <2>1. u.pc \in {"log", "save", "count"}
    <3>1. CASE LlmFails(j)
      BY <1>1, <3>1 DEF LlmFails, Task
    <3>2. CASE LlmAnswers(j)
      BY <1>1, <3>2 DEF LlmAnswers, Task
    <3>3. CASE BatchSaved(j)
      BY <1>1, <3>3 DEF BatchSaved, Task
    <3>4. QED
      BY <1>11, <3>1, <3>2, <3>3
  <2>2. hist' = hist /\ row' = row
    BY <1>11 DEF LlmFails, LlmAnswers, BatchSaved
  <2>3. QED
    BY <1>4, <2>1, <2>2 DEF Winding
<1>12. ASSUME NEW q \in Questions, NEW failed, ItemDone(j, q, failed)
       PROVE  u.pc = t.pc
  BY <1>1, <1>12 DEF ItemDone, Task
<1>13. ASSUME NEW q \in Questions, NoUsableItem(j, q)
       PROVE  LateAt(hist'[j], row'[j], u)
  BY <1>4, <1>12, <1>13 DEF NoUsableItem
<1>14. ASSUME NEW q \in Questions, NEW item \in LlmItems, SaveItem(j, q, item)
       PROVE  LateAt(hist'[j], row'[j], u)
  BY <1>4, <1>12, <1>14 DEF SaveItem
<1>15. ASSUME AppendFailures(j) \/ UpdateCounters(j)
       PROVE  LateAt(hist'[j], row'[j], u)
  <2>1. u.pc \in {"count", "readCancel"}
    <3>1. CASE AppendFailures(j)
      BY <1>1, <3>1 DEF AppendFailures, Task
    <3>2. CASE UpdateCounters(j)
      BY <1>1, <3>2 DEF UpdateCounters, Task
    <3>3. QED
      BY <1>15, <3>1, <3>2
  <2>2. FlagStays(r, row'[j])
    <3>1. CASE AppendFailures(j)
      <4>1. FlagStays(r, [r EXCEPT !.logged = @ + Cardinality(t.fails)])
        BY <1>1 DEF Row, FlagStays
      <4>2. QED
        BY <1>2, <3>1, <4>1 DEF AppendFailures
    <3>2. CASE UpdateCounters(j)
      <4>1. FlagStays(r, Counted(r, t))
        BY <1>1 DEF Counted, Row, FlagStays
      <4>2. QED
        BY <1>2, <3>2, <4>1 DEF UpdateCounters
    <3>3. QED
      BY <1>15, <3>1, <3>2
  <2>3. hist' = hist
    BY <1>15 DEF AppendFailures, UpdateCounters
  <2>4. QED
    BY <1>1, <2>1, <2>2, <2>3, LateStep DEF Winding
<1>16. ASSUME SetFinalStatus(j)
       PROVE  LateAt(hist'[j], row'[j], u)
  BY <1>5, <1>16 DEF SetFinalStatus
<1>17. LateAt(hist'[j], row'[j], task'[j])
  BY <1>6, <1>7, <1>8, <1>9, <1>10, <1>11, <1>13, <1>14, <1>15, <1>16 DEF Worker
<1>18. \A i \in Jobs \ {j} : row'[i] = row[i] /\ task'[i] = task[i]
  BY WorkerSteps DEF WorkerEffect
<1>19. \A i \in Jobs \ {j} : hist'[i] = hist[i]
  BY <1>1 DEF Worker, LoadHeader, SetRunning, ReadCancelFlag, ReadProcessed, Fetch,
         MarkAndSend, LlmFails, LlmAnswers, NoUsableItem, SaveItem, BatchSaved,
         AppendFailures, UpdateCounters, SetFinalStatus, TaskEnds
<1>20. QED
  BY <1>17, <1>18, <1>19 DEF LateInv

LEMMA DbErrorLateInv ==
    ASSUME TypeOK, LateInv, NEW j \in Jobs, DbError(j)
    PROVE  LateInv'
<1>1. /\ hist \in [Jobs -> Hist] /\ task \in [Jobs -> Task]
      /\ row' = row /\ LateAt(hist[j], row[j], task[j])
  BY DEF TypeOK, LateInv, DbError
<1>2. \A i \in Jobs \ {j} : task'[i] = task[i] /\ hist'[i] = hist[i]
  BY <1>1, DbErrorSteps DEF DbError, TaskEnds
<1>3. CASE hist' = hist /\ (task'[j].pc = task[j].pc \/ task'[j].pc = "error")
  BY <1>1, <1>2, <1>3 DEF LateInv, LateAt, Winding
<1>4. CASE TaskEnds(j)
  BY <1>1, <1>2, <1>4, NoHistIsNotLate DEF LateInv, TaskEnds
<1>5. ASSUME NEW q, ItemDone(j, q, TRUE)
      PROVE  task'[j].pc = task[j].pc
  BY <1>1, <1>5 DEF ItemDone, Task
<1>6. ASSUME GoTo(j, "error")
      PROVE  task'[j].pc = "error"
  BY <1>1, <1>6 DEF GoTo, Task
<1>7. QED
  BY <1>3, <1>4, <1>5, <1>6 DEF DbError

LEMMA LateInvStep == TypeOK /\ LateInv /\ [Next]_vars => LateInv'
<1> SUFFICES ASSUME TypeOK, LateInv, [Next]_vars PROVE LateInv'
  OBVIOUS
<1> USE DEF LateInv
<1>1. /\ hist \in [Jobs -> Hist] /\ row \in [Jobs -> Row]
      /\ \A j \in Jobs : row[j] \in Row
  BY DEF TypeOK
<1>2. ASSUME UNCHANGED <<hist, task>>, \A j \in Jobs : FlagStays(row[j], row'[j])
      PROVE  LateInv'
  BY <1>2, LateStep
<1>3. CASE UNCHANGED <<hist, task, row>>
  BY <1>3
<1>4. ASSUME NEW j \in Jobs, CancelJob(j)
      PROVE  LateInv'
  <2>1. /\ hist' = hist /\ task' = task
        /\ row' = [row EXCEPT ![j].cancel = TRUE]
    BY <1>4 DEF CancelJob
  <2>2. \A i \in Jobs : row'[i].status = row[i].status /\ (row[i].cancel => row'[i].cancel)
    BY <1>1, <2>1 DEF Row
  <2>3. QED
    BY <2>1, <2>2 DEF LateAt
<1>5. ASSUME NEW j \in Jobs, StartJobInsert(j)
      PROVE  LateInv'
  <2>1. /\ \A i \in Jobs \ {j} : row'[i] = row[i] /\ task'[i] = task[i] /\ hist'[i] = hist[i]
        /\ hist'[j].late = 0
    BY <1>1, <1>5 DEF StartJobInsert, NoHist
  <2>2. QED
    BY <2>1 DEF LateAt
<1>6. CASE StartJob
  BY <1>3, <1>5, <1>6 DEF StartJob, StartJobCount, StartJobRefused
<1>7. ASSUME NEW q \in Questions, NEW edit \in ManualEdits,
             SetQuestionCorrection(q, edit)
      PROVE  LateInv'
  BY <1>3, <1>7 DEF SetQuestionCorrection
<1>8. ASSUME NEW q \in Questions, Regenerate(q)
      PROVE  LateInv'
  BY <1>3, <1>8 DEF Regenerate, RegenerateAsk, RegenerateSave, RegenerateFails
<1>9. ASSUME NEW S, JobsDeleted(S), NEW j \in Jobs
      PROVE  FlagStays(row[j], row'[j])
  BY <1>9 DEF JobsDeleted, FlagStays, BlankRow, NoRow
<1>10. CASE Bank
  BY <1>2, <1>3, <1>9, <1>10
     DEF Bank, DiscardQuestion, SaveQuestions, MergeDuplicate, DeleteDocument, ResetDb
<1>11. CASE Crash \/ Shutdown
  BY <1>11, NoHistIsNotLate DEF Crash, Shutdown, TasksGone
<1>12. CASE Startup
  <2>1. ASSUME NEW j \in Jobs
        PROVE  FlagStays(row[j], row'[j])
    BY <1>1, <1>12 DEF Startup, Interrupted, FlagStays, Active, NoRow, Row
  <2>2. QED
    BY <1>2, <1>12, <2>1 DEF Startup
<1>13. QED
  BY <1>3, <1>4, <1>6, <1>7, <1>8, <1>10, <1>11, <1>12, WorkerLateInv,
     DbErrorLateInv DEF Next, vars

\* At most one batch is sent to the LLM after a job was asked to stop.
THEOREM CancelStopsAfterBatchHolds == Spec => []CancelStopsAfterBatch
<1>1. Init => LateInv
  BY NoHistIsNotLate DEF Init, LateInv
<1>2. LateInv => CancelStopsAfterBatch
  BY DEF LateInv, LateAt, CancelStopsAfterBatch
<1>3. QED
  BY <1>1, <1>2, LateInvStep, TypeCorrect, PTL DEF Spec

=============================================================================
