---------------------------- MODULE CorrectionJobs ----------------------------
(***************************************************************************)
(* The background jobs that write AI answer keys (services/corrections.py, *)
(* routers/corrections.py, the start-up hook of main.py), together with    *)
(* everything that runs beside them: manual answer keys and single         *)
(* regenerations (routers/questions.py), discarding, ingestion,            *)
(* deduplication, deletion of documents and the reset of the database.     *)
(*                                                                         *)
(* Grain.  Every `with engine.begin()` block is one transaction and one    *)
(* action.  Handlers declared `def` run in threadpool threads and may come *)
(* between any two of them.  Code on the event loop (the worker, start_job *)
(* and regenerate) keeps the loop from one `await` to the next, and the    *)
(* only `await` of the worker is the call to the LLM.                      *)
(***************************************************************************)
EXTENDS Naturals, FiniteSets

CONSTANTS
    Questions,       \* identities of rows of `questions`
    Docs,            \* identities of rows of `documents`
    Jobs,            \* identities of rows of `correction_jobs`
    NoDoc,           \* the NULL document of a mode='frequency' job
    MultipleChoice,  \* the questions of type multiple_choice
    FirstOccurrences,\* [Docs -> SUBSET Questions], the bank at the start
    FirstRank,       \* and the order of its questions
    BatchSize,       \* CORRECTION_GEN_BATCH_SIZE
    MaxPerJob,       \* CORRECTION_GEN_MAX_QUESTIONS_PER_JOB
    LlmItems,        \* the items an LLM answer may hold for a question
    ManualEdits,     \* the bodies of PUT /questions/{id}/correction
    MaxDbErrors,     \* bound: statements of the worker that may fail
    MaxEdits,        \* bound: manual edits and regenerations
    MaxChurn         \* bound: changes of the bank, see `churn`

Author == {"none", "ai", "user"}
RawItem == [option : {"none", "known", "unknown"}, explanation : BOOLEAN]
ManualEdit == [option : BOOLEAN, explanation : BOOLEAN, payload : BOOLEAN]

\* The orders the questions may have.
Ranks == {r \in [Questions -> 1..Cardinality(Questions)] :
              \A p, q \in Questions : r[p] = r[q] => p = q}

ASSUME ConstantsAssumption ==
    /\ IsFiniteSet(Questions) /\ IsFiniteSet(Docs)
    /\ NoDoc \notin Docs
    /\ FirstOccurrences \in [Docs -> SUBSET Questions]
    /\ FirstRank \in Ranks
    /\ BatchSize \in Nat \ {0}
    /\ MaxPerJob \in Nat
    /\ LlmItems \subseteq RawItem
    /\ ManualEdits \subseteq ManualEdit
    /\ MaxDbErrors \in Nat /\ MaxEdits \in Nat /\ MaxChurn \in Nat

VARIABLES
    docs,       \* the rows of `documents`
    occ,        \* question_occurrences, as the questions of each document
    question,   \* "absent", "live" or "discarded"
    rank,       \* places in ORDER BY section, number_in_section, id
    key,        \* the answer key of each question: who wrote which field
    row,        \* the rows of `correction_jobs`
    up,         \* is the API process running
    task,       \* the asyncio task of each job, with the worker's locals
    starting,   \* start_job between its COUNT and its INSERT
    regen,      \* questions whose regeneration awaits the LLM
    dbErrors,   \* failed statements so far
    edits,      \* manual edits and regenerations so far
    churn,      \* changes of the bank so far: each counts one, or one for
                \* every question that it adds or that it renumbers
    hist        \* per job, what the properties remember of its past

bank == <<docs, occ, question, rank>>
vars == <<docs, occ, question, rank, key, row, up, task, starting, regen,
          dbErrors, edits, churn, hist>>

-----------------------------------------------------------------------------
(* Types. *)

NoKey == [option |-> "none", explanation |-> "none", payload |-> "none"]
Key == [option : Author, explanation : Author, payload : {"none", "user"}]

Active == {"queued", "running"}
Terminal == {"done", "cancelled", "interrupted", "error"}
NoRow == {"unborn", "deleted"}

Row == [status : Active \cup Terminal \cup NoRow,
        doc : Docs \cup {NoDoc}, overwrite : BOOLEAN, cancel : BOOLEAN,
        total : Nat, processed : Nat, succeeded : Nat, failed : Nat,
        logged : Nat]   \* `logged` is the length of failures_json

BlankRow(s) ==
    [status |-> s, doc |-> NoDoc, overwrite |-> FALSE, cancel |-> FALSE,
     total |-> 0, processed |-> 0, succeeded |-> 0, failed |-> 0, logged |-> 0]

\* The program points of run_correction_job, named for the statement that is
\* next; "done", "cancelled" and "error" are the writes of a final status.
Ending == {"done", "cancelled", "error"}
OnLoop == {"setRunning", "readCancel", "readProcessed", "fetch", "mark",
           "save", "log", "count"} \cup Ending
Pc == {"none", "scheduled", "llm"} \cup OnLoop

Task == [pc : Pc, doc : Docs \cup {NoDoc}, overwrite : BOOLEAN, total : Nat,
         now : Nat,                 \* processed_now
         batch : SUBSET Questions, todo : SUBSET Questions,
         saved : Nat, fails : SUBSET Questions]

NoTask == [pc |-> "none", doc |-> NoDoc, overwrite |-> FALSE, total |-> 0,
           now |-> 0, batch |-> {}, todo |-> {}, saved |-> 0, fails |-> {}]

NotStarting == [on |-> FALSE, doc |-> NoDoc, overwrite |-> FALSE, total |-> 0,
                wanted |-> {}, churn |-> 0]
Starting == [on : BOOLEAN, doc : Docs \cup {NoDoc}, overwrite : BOOLEAN,
             total : Nat, wanted : SUBSET Questions, churn : Nat]

\* wanted: the candidates counted at the start; sent: those given to the LLM;
\* churn: the changes of the bank before the start; late: LLM calls made
\* since the cancellation was requested.
Hist == [wanted : SUBSET Questions, sent : SUBSET Questions, churn : Nat,
         late : Nat]
NoHist == [wanted |-> {}, sent |-> {}, churn |-> 0, late |-> 0]

TypeOK ==
    /\ docs \in SUBSET Docs
    /\ occ \in [Docs -> SUBSET Questions]
    /\ question \in [Questions -> {"absent", "live", "discarded"}]
    /\ rank \in Ranks
    /\ key \in [Questions -> Key]
    /\ row \in [Jobs -> Row]
    /\ up \in BOOLEAN
    /\ task \in [Jobs -> Task]
    /\ starting \in Starting
    /\ regen \in SUBSET Questions
    /\ dbErrors \in 0..MaxDbErrors
    /\ edits \in 0..MaxEdits
    /\ churn \in 0..MaxChurn
    /\ hist \in [Jobs -> Hist]

Init ==
    /\ docs = Docs
    /\ occ = FirstOccurrences
    /\ question = [q \in Questions |->
            IF \E d \in Docs : q \in occ[d] THEN "live" ELSE "absent"]
    /\ rank = FirstRank
    /\ key = [q \in Questions |-> NoKey]
    /\ row = [j \in Jobs |-> BlankRow("unborn")]
    /\ up = TRUE
    /\ task = [j \in Jobs |-> NoTask]
    /\ starting = NotStarting
    /\ regen = {}
    /\ dbErrors = 0
    /\ edits = 0
    /\ churn = 0
    /\ hist = [j \in Jobs |-> NoHist]

-----------------------------------------------------------------------------
(* Reads of the database. *)

MinOf(a, b) == IF a <= b THEN a ELSE b
MaxOf(a, b) == IF a >= b THEN a ELSE b

Pending(q) == key[q] = NoKey

InScope(q, doc) ==
    /\ question[q] = "live"
    /\ doc = NoDoc \/ q \in occ[doc]

\* The questions of a job's scope that its WHERE clause selects.
Candidates(doc, overwrite) ==
    {q \in Questions : InScope(q, doc) /\ (overwrite \/ Pending(q))}

CountPendingCandidates(doc, overwrite) ==
    MinOf(Cardinality(Candidates(doc, overwrite)), MaxPerJob)

\* occurrences_count, which deduplication and detaching refresh in the
\* transaction that changes the occurrences.
Occurrences(q) == Cardinality({d \in Docs : q \in occ[d]})

\* ORDER BY of _fetch_batch: frequency jobs put repeated questions first.
Precedes(p, q, doc) ==
    IF doc = NoDoc /\ Occurrences(p) # Occurrences(q)
    THEN Occurrences(p) > Occurrences(q)
    ELSE rank[p] < rank[q]

\* OFFSET and LIMIT over that order.
Page(S, doc, offset, limit) ==
    {q \in S : LET before == Cardinality({p \in S : Precedes(p, q, doc)})
               IN  offset <= before /\ before < offset + limit}

\* A non-overwrite job has no offset: what it saves leaves the candidates.
OffsetAlways(t) == t.now                        \* mutant
OffsetNever(t) == 0                             \* mutant
Offset(t) == IF t.overwrite THEN t.now ELSE 0

ThisBatchSize(t) ==
    LET remaining == IF t.total > 0 THEN t.total - t.now ELSE BatchSize
    IN  MaxOf(1, MinOf(BatchSize, remaining))

FetchBatch(t) ==
    Page(Candidates(t.doc, t.overwrite), t.doc, Offset(t), ThisBatchSize(t))

-----------------------------------------------------------------------------
(* Writes of answer keys. *)

Coalesce(old, new) == IF old = "none" THEN new ELSE old

ByAi(given) == IF given THEN "ai" ELSE "none"
ByUser(given) == IF given THEN "user" ELSE "none"

\* What survives of an LLM item: an option id counts only on a multiple choice
\* question that has that option.
Usable(q, item) ==
    [option |-> item.option = "known" /\ q \in MultipleChoice,
     explanation |-> item.explanation]

HasCorrection(u) == u.option \/ u.explanation

SavedKeyNewFirst(old, u, overwrite) ==          \* mutant
    [option |-> Coalesce(ByAi(u.option), old.option),
     explanation |-> Coalesce(ByAi(u.explanation), old.explanation),
     payload |-> old.payload]

\* The row _save_correction leaves: overwrite replaces both fields (also by
\* NULL), otherwise a non-empty field stays.  The payload is never touched.
SavedKey(old, u, overwrite) ==
    [option |-> IF overwrite THEN ByAi(u.option)
                ELSE Coalesce(old.option, ByAi(u.option)),
     explanation |-> IF overwrite THEN ByAi(u.explanation)
                     ELSE Coalesce(old.explanation, ByAi(u.explanation)),
     payload |-> old.payload]

\* A key exists only for an existing question (foreign key): the INSERT fails
\* once the question has been deleted.
Exists(q) == question[q] # "absent"

-----------------------------------------------------------------------------
(* start_job: validation, COUNT and INSERT in one transaction of the event *)
(* loop, then create_task.  READ COMMITTED: each statement sees what the   *)
(* threadpool has committed by then.                                       *)

Stored(j) == row[j].status \notin NoRow

LoopFree == ~starting.on /\ \A j \in Jobs : task[j].pc \notin OnLoop

StartJobCount(doc, overwrite) ==
    /\ up /\ LoopFree
    /\ overwrite => doc # NoDoc
    /\ doc = NoDoc \/ doc \in docs
    /\ CountPendingCandidates(doc, overwrite) > 0
    /\ starting' = [on |-> TRUE, doc |-> doc, overwrite |-> overwrite,
                    total |-> CountPendingCandidates(doc, overwrite),
                    wanted |-> Candidates(doc, overwrite), churn |-> churn]
    /\ UNCHANGED <<bank, key, row, up, task, regen, dbErrors, edits, churn, hist>>

SlotFreeOfRunning == \A i \in Jobs : row[i].status # "running"     \* mutant

\* uq_correction_jobs_one_running
SlotFree == \A i \in Jobs : row[i].status \notin Active

StartJobInsert(j) ==
    /\ up /\ starting.on
    /\ row[j].status = "unborn"
    /\ SlotFree
    /\ starting.doc = NoDoc \/ starting.doc \in docs
    /\ row' = [row EXCEPT ![j] =
            [BlankRow("queued") EXCEPT !.doc = starting.doc,
                !.overwrite = starting.overwrite, !.total = starting.total]]
    /\ task' = [task EXCEPT ![j] = [NoTask EXCEPT !.pc = "scheduled"]]
    /\ hist' = [hist EXCEPT ![j] = [NoHist EXCEPT !.wanted = starting.wanted,
                                        !.churn = starting.churn]]
    /\ starting' = NotStarting
    /\ UNCHANGED <<bank, key, up, regen, dbErrors, edits, churn>>

\* 409: another job holds the slot; or the document has just been deleted and
\* the foreign key refuses the row.  Job identities are a bound of the model.
StartJobRefused ==
    /\ up /\ starting.on
    /\ \/ ~SlotFree
       \/ starting.doc # NoDoc /\ starting.doc \notin docs
       \/ \A j \in Jobs : row[j].status # "unborn"
    /\ starting' = NotStarting
    /\ UNCHANGED <<bank, key, row, up, task, regen, dbErrors, edits, churn, hist>>

CancelAnyJob(j) ==                              \* mutant
    /\ up /\ Stored(j)
    /\ row' = [row EXCEPT ![j].cancel = TRUE]
    /\ UNCHANGED <<bank, key, up, task, starting, regen, dbErrors, edits, churn, hist>>

CancelJob(j) ==
    /\ up /\ row[j].status \in Active
    /\ row' = [row EXCEPT ![j].cancel = TRUE]
    /\ UNCHANGED <<bank, key, up, task, starting, regen, dbErrors, edits, churn, hist>>

-----------------------------------------------------------------------------
(* The worker, run_correction_job.                                         *)

\* An UPDATE ... WHERE id = :id changes nothing once the row is gone.
RowUpdated(j, new) == row' = IF Stored(j) THEN [row EXCEPT ![j] = new] ELSE row

At(j, pc) == up /\ task[j].pc = pc
GoTo(j, pc) == task' = [task EXCEPT ![j].pc = pc]

\* The memory of a job that no task works on is dropped, to keep states few.
TaskEnds(j) ==
    /\ task' = [task EXCEPT ![j] = NoTask]
    /\ hist' = [hist EXCEPT ![j] = NoHist]

\* The task gets the loop for the first time and reads the job's header.
LoadHeader(j) ==
    /\ At(j, "scheduled") /\ LoopFree
    /\ IF Stored(j)
       THEN /\ task' = [task EXCEPT ![j] =
                   [NoTask EXCEPT !.pc = "setRunning", !.doc = row[j].doc,
                       !.overwrite = row[j].overwrite, !.total = row[j].total]]
            /\ UNCHANGED hist
       ELSE TaskEnds(j)
    /\ UNCHANGED <<bank, key, row, up, starting, regen, dbErrors, edits, churn>>

SetRunning(j) ==
    /\ At(j, "setRunning")
    /\ RowUpdated(j, [row[j] EXCEPT !.status = "running"])
    /\ GoTo(j, "readCancel")
    /\ UNCHANGED <<bank, key, up, starting, regen, dbErrors, edits, churn, hist>>

CancelFlagOnce(j) == row[j].cancel /\ row[j].processed = 0         \* mutant

\* A missing row counts as a cancellation.
CancelFlag(j) == IF Stored(j) THEN row[j].cancel ELSE TRUE

ReadCancelFlag(j) ==
    /\ At(j, "readCancel")
    /\ GoTo(j, IF CancelFlag(j) THEN "cancelled" ELSE "readProcessed")
    /\ UNCHANGED <<bank, key, row, up, starting, regen, dbErrors, edits, churn, hist>>

\* processed_now, 0 when the row is gone; the cap ends the job.
ReachedTotal(t, now) == t.total > 0 /\ now >= t.total

ReadProcessed(j) ==
    /\ At(j, "readProcessed")
    /\ LET now == IF Stored(j) THEN row[j].processed ELSE 0 IN
       task' = [task EXCEPT ![j] = [task[j] EXCEPT !.now = now,
                    !.pc = IF ReachedTotal(task[j], now) THEN "done" ELSE "fetch"]]
    /\ UNCHANGED <<bank, key, row, up, starting, regen, dbErrors, edits, churn, hist>>

Fetch(j) ==
    /\ At(j, "fetch")
    /\ LET batch == FetchBatch(task[j]) IN
       task' = [task EXCEPT ![j] = [task[j] EXCEPT !.batch = batch,
                    !.pc = IF batch = {} THEN "done" ELSE "mark"]]
    /\ UNCHANGED <<bank, key, row, up, starting, regen, dbErrors, edits, churn, hist>>

\* current_question_id is set, the request goes out and the task awaits.
MarkAndSend(j) ==
    /\ At(j, "mark")
    /\ GoTo(j, "llm")
    /\ hist' = [hist EXCEPT ![j] = [hist[j] EXCEPT !.sent = @ \cup task[j].batch,
                    !.late = IF row[j].cancel /\ @ < 2 THEN @ + 1 ELSE @]]
    /\ UNCHANGED <<bank, key, row, up, starting, regen, dbErrors, edits, churn>>

LlmFailsUncounted(j) ==                         \* mutant
    /\ At(j, "llm") /\ LoopFree
    /\ task' = [task EXCEPT ![j] = [task[j] EXCEPT !.pc = "readCancel", !.batch = {}]]
    /\ UNCHANGED <<bank, key, row, up, starting, regen, dbErrors, edits, churn, hist>>

\* The call raises (transport, timeout, unusable JSON): the batch has failed.
LlmFails(j) ==
    /\ At(j, "llm") /\ LoopFree
    /\ task' = [task EXCEPT ![j] = [task[j] EXCEPT !.pc = "log", !.todo = {},
                    !.saved = 0, !.fails = task[j].batch]]
    /\ UNCHANGED <<bank, key, row, up, starting, regen, dbErrors, edits, churn, hist>>

LlmAnswers(j) ==
    /\ At(j, "llm") /\ LoopFree
    /\ task' = [task EXCEPT ![j] = [task[j] EXCEPT !.pc = "save",
                    !.todo = task[j].batch, !.saved = 0, !.fails = {}]]
    /\ UNCHANGED <<bank, key, row, up, starting, regen, dbErrors, edits, churn, hist>>

ItemDone(j, q, failed) ==
    task' = [task EXCEPT ![j] = [task[j] EXCEPT !.todo = @ \ {q},
                 !.saved = IF failed THEN @ ELSE @ + 1,
                 !.fails = IF failed THEN @ \cup {q} ELSE @]]

\* One item: no answer, an unusable answer, an INSERT refused because the
\* question is gone, or a saved key.  The items of a batch commute, so the
\* model takes them in any order.
NoUsableItem(j, q) ==
    /\ At(j, "save") /\ q \in task[j].todo
    /\ ItemDone(j, q, TRUE)
    /\ UNCHANGED <<bank, key, row, up, starting, regen, dbErrors, edits, churn, hist>>

SaveItem(j, q, item) ==
    /\ At(j, "save") /\ q \in task[j].todo
    /\ HasCorrection(Usable(q, item))
    /\ ItemDone(j, q, ~Exists(q))
    /\ key' = IF Exists(q)
              THEN [key EXCEPT ![q] = SavedKey(@, Usable(q, item), task[j].overwrite)]
              ELSE key
    /\ UNCHANGED <<bank, row, up, starting, regen, dbErrors, edits, churn, hist>>

BatchSaved(j) ==
    /\ At(j, "save") /\ task[j].todo = {}
    /\ GoTo(j, IF task[j].fails = {} THEN "count" ELSE "log")
    /\ UNCHANGED <<bank, key, row, up, starting, regen, dbErrors, edits, churn, hist>>

AppendFailures(j) ==
    /\ At(j, "log")
    /\ RowUpdated(j, [row[j] EXCEPT !.logged = @ + Cardinality(task[j].fails)])
    /\ GoTo(j, "count")
    /\ UNCHANGED <<bank, key, up, starting, regen, dbErrors, edits, churn, hist>>

CountedFull(r, t) ==                            \* mutant
    [r EXCEPT !.processed = @ + BatchSize,
              !.succeeded = @ + t.saved,
              !.failed = @ + Cardinality(t.fails)]

Counted(r, t) ==
    [r EXCEPT !.processed = @ + Cardinality(t.batch),
              !.succeeded = @ + t.saved,
              !.failed = @ + Cardinality(t.fails)]

UpdateCounters(j) ==
    /\ At(j, "count")
    /\ RowUpdated(j, Counted(row[j], task[j]))
    /\ task' = [task EXCEPT ![j] = [task[j] EXCEPT !.pc = "readCancel",
                    !.batch = {}, !.saved = 0, !.fails = {}]]
    /\ UNCHANGED <<bank, key, up, starting, regen, dbErrors, edits, churn, hist>>

\* The last write of the worker; the task ends with it.
SetFinalStatus(j) ==
    /\ up /\ task[j].pc \in Ending
    /\ RowUpdated(j, [row[j] EXCEPT !.status = task[j].pc])
    /\ TaskEnds(j)
    /\ UNCHANGED <<bank, key, up, starting, regen, dbErrors, edits, churn>>

\* A statement of the worker raises (the connection drops, say).  While an
\* item is saved the item fails; elsewhere, the first statement included, the
\* handler around it all writes status 'error', and if that statement raises
\* too it is suppressed.
Executes(j) == task[j].pc \in OnLoop \/ (task[j].pc = "scheduled" /\ LoopFree)

DbError(j) ==
    /\ up /\ Executes(j)
    /\ dbErrors < MaxDbErrors /\ dbErrors' = dbErrors + 1
    /\ \/ /\ \E q \in task[j].todo : ItemDone(j, q, TRUE)
          /\ UNCHANGED hist
       \/ /\ task[j].pc \notin {"save", "error"}
          /\ GoTo(j, "error")
          /\ UNCHANGED hist
       \/ /\ task[j].pc = "error"
          /\ TaskEnds(j)
    /\ UNCHANGED <<bank, key, row, up, starting, regen, edits, churn>>

-----------------------------------------------------------------------------
(* The other writers of answer keys. *)

Edits == up /\ edits < MaxEdits /\ edits' = edits + 1

SetQuestionCorrection(q, edit) ==
    /\ Edits /\ Exists(q)
    /\ edit.option \/ edit.explanation \/ edit.payload
    /\ key' = [key EXCEPT ![q] =
            [option |-> Coalesce(ByUser(edit.option), @.option),
             explanation |-> Coalesce(ByUser(edit.explanation), @.explanation),
             payload |-> Coalesce(ByUser(edit.payload), @.payload)]]
    /\ UNCHANGED <<bank, row, up, task, starting, regen, dbErrors, churn, hist>>

\* regenerate_single reads the question and awaits the LLM ...
RegenerateAsk(q) ==
    /\ Edits /\ LoopFree /\ q \notin regen
    /\ question[q] = "live"
    /\ regen' = regen \cup {q}
    /\ UNCHANGED <<bank, key, row, up, task, starting, dbErrors, churn, hist>>

\* ... and overwrites the key with what came back, unless nothing usable did
\* or the question is gone.
RegenerateSave(q, item) ==
    /\ up /\ LoopFree /\ q \in regen
    /\ regen' = regen \ {q}
    /\ key' = IF HasCorrection(Usable(q, item)) /\ Exists(q)
              THEN [key EXCEPT ![q] = SavedKey(@, Usable(q, item), TRUE)]
              ELSE key
    /\ UNCHANGED <<bank, row, up, task, starting, dbErrors, edits, churn, hist>>

RegenerateFails(q) ==
    /\ up /\ LoopFree /\ q \in regen
    /\ regen' = regen \ {q}
    /\ UNCHANGED <<bank, key, row, up, task, starting, dbErrors, edits, churn, hist>>

-----------------------------------------------------------------------------
(* What else changes the bank while a job runs.  Each is one transaction   *)
(* of a threadpool handler, seen here only as far as a job can see it.     *)

BankChanges(n) == up /\ churn + n <= MaxChurn /\ churn' = churn + n

DiscardQuestion(q) ==
    /\ BankChanges(1) /\ Exists(q)
    /\ \E s \in {"live", "discarded"} :
          s # question[q] /\ question' = [question EXCEPT ![q] = s]
    /\ UNCHANGED <<docs, occ, rank, key, row, up, task, starting, regen, dbErrors, edits, hist>>

\* Deduplication moves what refers to `dup` to `keeper` and deletes `dup`.
MergedKey(keeper, dup) == [f \in DOMAIN NoKey |-> Coalesce(key[keeper][f], key[dup][f])]

MergeDuplicate(dup, keeper) ==
    /\ BankChanges(1) /\ dup # keeper /\ Exists(dup) /\ Exists(keeper)
    /\ question[keeper] = "discarded" => question[dup] = "discarded"
    /\ occ' = [d \in Docs |-> IF dup \in occ[d] THEN (occ[d] \ {dup}) \cup {keeper}
                             ELSE occ[d]]
    /\ question' = [question EXCEPT ![dup] = "absent"]
    /\ key' = [key EXCEPT ![keeper] = MergedKey(keeper, dup), ![dup] = NoKey]
    /\ UNCHANGED <<docs, rank, row, up, task, starting, regen, dbErrors, edits, hist>>

\* Questions no other document contains go with the document's contribution
\* (detach_document_questions); what refers to them goes by ON DELETE CASCADE.
OnlyIn(d) == {q \in occ[d] : \A e \in Docs \ {d} : q \notin occ[e]}

QuestionsDeleted(S) ==
    /\ question' = [q \in Questions |-> IF q \in S THEN "absent" ELSE question[q]]
    /\ key' = [q \in Questions |-> IF q \in S THEN NoKey ELSE key[q]]

\* The questions of the document that stay move to another document they occur
\* in, if this one owned them: detach_document_questions gives them their
\* number there, or the next free one.  Among themselves and against the rest
\* `moved` may come in any new order, and so may the questions S that are new.
\* (The section, which never changes, would keep some of these orders apart.)
Renumbered(d, S, moved) ==
    /\ moved \subseteq occ[d] \ OnlyIn(d)
    /\ rank' \in {r \in Ranks : \A p, q \in Questions \ (S \cup moved) :
                                    r[p] < r[q] <=> rank[p] < rank[q]}

\* Ingestion, for the first time or again, replaces a document's contribution
\* by new questions.
SaveQuestions(d, S, moved) ==
    /\ BankChanges(MaxOf(1, Cardinality(S) + Cardinality(moved))) /\ d \in docs
    /\ \A q \in S : ~Exists(q)
    /\ occ' = [occ EXCEPT ![d] = S]
    /\ question' = [q \in Questions |->
            IF q \in S THEN "live" ELSE IF q \in OnlyIn(d) THEN "absent" ELSE question[q]]
    /\ key' = [q \in Questions |-> IF q \in OnlyIn(d) THEN NoKey ELSE key[q]]
    /\ Renumbered(d, S, moved)
    /\ UNCHANGED <<docs, row, up, task, starting, regen, dbErrors, edits, hist>>

JobsDeleted(S) ==
    row' = [j \in Jobs |-> IF j \in S /\ Stored(j) THEN BlankRow("deleted") ELSE row[j]]

\* Every job of the document goes with it.
DeleteDocument(d, moved) ==
    /\ BankChanges(MaxOf(1, Cardinality(moved))) /\ d \in docs
    /\ docs' = docs \ {d}
    /\ occ' = [occ EXCEPT ![d] = {}]
    /\ QuestionsDeleted(OnlyIn(d))
    /\ Renumbered(d, {}, moved)
    /\ JobsDeleted({j \in Jobs : row[j].doc = d})
    /\ UNCHANGED <<up, task, starting, regen, dbErrors, edits, hist>>

ResetDb ==
    /\ BankChanges(1)
    /\ docs' = {} /\ occ' = [d \in Docs |-> {}]
    /\ QuestionsDeleted(Questions)
    /\ JobsDeleted(Jobs)
    /\ UNCHANGED <<rank, up, task, starting, regen, dbErrors, edits, hist>>

-----------------------------------------------------------------------------
(* The process. *)

TasksGone ==
    /\ task' = [j \in Jobs |-> NoTask]
    /\ hist' = [j \in Jobs |-> NoHist]
    /\ starting' = NotStarting
    /\ regen' = {}

Crash ==
    /\ up /\ up' = FALSE
    /\ TasksGone
    /\ UNCHANGED <<bank, key, row, dbErrors, edits, churn>>

\* asyncio.run cancels the tasks: CancelledError surfaces at the await of the
\* LLM call and the worker records 'cancelled'.  A task that has not started
\* yet never runs, so its row stays 'queued'.
Shutdown ==
    /\ up /\ LoopFree /\ up' = FALSE
    /\ row' = [j \in Jobs |->
            IF task[j].pc = "llm" /\ Stored(j)
            THEN [row[j] EXCEPT !.status = "cancelled"] ELSE row[j]]
    /\ TasksGone
    /\ UNCHANGED <<bank, key, dbErrors, edits, churn>>

\* Start-up: mark_orphan_running_as_interrupted.
InterruptedRunning(r) ==                        \* mutant
    IF r.status = "running" THEN [r EXCEPT !.status = "interrupted"] ELSE r

InterruptedAll(r) ==                            \* mutant
    IF r.status = "unborn" THEN r ELSE [r EXCEPT !.status = "interrupted"]

InterruptedMisspelt(r) ==                       \* mutant
    IF r.status \in Active THEN [r EXCEPT !.status = "aborted"] ELSE r

Interrupted(r) ==
    IF r.status \in Active THEN [r EXCEPT !.status = "interrupted"] ELSE r

Startup ==
    /\ ~up /\ up' = TRUE
    /\ row' = [j \in Jobs |-> Interrupted(row[j])]
    /\ UNCHANGED <<bank, key, task, starting, regen, dbErrors, edits, churn, hist>>

-----------------------------------------------------------------------------

StartJob ==
    \/ \E doc \in Docs \cup {NoDoc}, overwrite \in BOOLEAN : StartJobCount(doc, overwrite)
    \/ \E j \in Jobs : StartJobInsert(j)
    \/ StartJobRefused

Worker(j) ==
    \/ LoadHeader(j) \/ SetRunning(j) \/ ReadCancelFlag(j) \/ ReadProcessed(j)
    \/ Fetch(j) \/ MarkAndSend(j) \/ LlmFails(j) \/ LlmAnswers(j)
    \/ \E q \in Questions : NoUsableItem(j, q)
    \/ \E q \in Questions, item \in LlmItems : SaveItem(j, q, item)
    \/ BatchSaved(j) \/ AppendFailures(j) \/ UpdateCounters(j) \/ SetFinalStatus(j)

Regenerate(q) ==
    \/ RegenerateAsk(q) \/ RegenerateFails(q)
    \/ \E item \in LlmItems : RegenerateSave(q, item)

Bank ==
    \/ \E q \in Questions : DiscardQuestion(q)
    \/ \E d \in Docs, S, moved \in SUBSET Questions : SaveQuestions(d, S, moved)
    \/ \E p, q \in Questions : MergeDuplicate(p, q)
    \/ \E d \in Docs, moved \in SUBSET Questions : DeleteDocument(d, moved)
    \/ ResetDb

Next ==
    \/ StartJob
    \/ \E j \in Jobs : CancelJob(j) \/ Worker(j) \/ DbError(j)
    \/ \E q \in Questions, edit \in ManualEdits : SetQuestionCorrection(q, edit)
    \/ \E q \in Questions : Regenerate(q)
    \/ Bank
    \/ Crash \/ Shutdown \/ Startup

Spec == Init /\ [][Next]_vars

\* Fairness.  A coroutine that holds the loop runs on to its next await, and
\* asyncio's ready queue is first-in first-out, so a task that waits for the
\* loop gets it even when other requests take it again and again (strong
\* fairness).  The LLM call ends because the HTTP client has a timeout.
FairSpec ==
    /\ Spec
    /\ \A j \in Jobs : SF_vars(Worker(j))
    /\ WF_vars(\/ \E j \in Jobs : StartJobInsert(j)
               \/ StartJobRefused)

-----------------------------------------------------------------------------
(* Safety.                                                                 *)

Live(j) == task[j].pc # "none"

\* The counters of a job always add up, stay within the total the client was
\* shown, and no failure is counted that failures_json does not hold - also
\* when the process dies between the two transactions that record a batch.
CountersAddUp ==
    \A j \in Jobs :
        /\ row[j].processed = row[j].succeeded + row[j].failed
        /\ row[j].processed <= row[j].total
        /\ row[j].failed <= row[j].logged

\* A queued or running row that nobody works on would refuse every later job:
\* while the process is up such a row has a live task, also after one failed
\* statement anywhere in the worker.
ActiveRowHasWorker ==
    \A j \in Jobs : up /\ row[j].status \in Active => Live(j)

\* "Only one job runs at a time": of the live tasks, at most one still has its
\* row.  (A task whose row was deleted with its document may still be waiting
\* for the LLM.)
OneStoredWorker ==
    \A i, j \in Jobs : Live(i) /\ Live(j) /\ Stored(i) /\ Stored(j) => i = j

\* "Ask a running job to stop after its current batch": at most one LLM call
\* goes out after the request.
CancelStopsAfterBatch == \A j \in Jobs : hist[j].late <= 1

\* A job that has ended stays as it ended: no late write of its worker, of a
\* cancellation or of a start-up changes its status or its counters.
EndedJobsStay ==
    [][\A j \in Jobs : row[j].status \in Terminal =>
           row'[j] = row[j] \/ row'[j].status = "deleted"]_vars

\* "Never overwrite a non-empty existing value (defensive against concurrent
\* manual edits)": what a user wrote becomes the AI's only by a job or a
\* regeneration that was asked to overwrite, however edits and answers
\* interleave.
Overwriting(q) ==
    \/ q \in regen
    \/ \E j \in Jobs : task[j].pc = "save" /\ task[j].overwrite /\ q \in task[j].todo

UserFieldsStay ==
    [][\A q \in Questions, f \in DOMAIN NoKey :
           key[q][f] = "user" /\ key'[q][f] = "ai" => Overwriting(q)]_vars

Finishes(j) == row[j].status = "running" /\ row'[j].status = "done"
Uncapped(j) == Cardinality(hist[j].wanted) = row[j].total

\* A job that ends 'done' without a failure, whose cap did not bite, leaves
\* no question of its scope without a key, but for those that the bank gained
\* meanwhile: `churn` counts at least one for each of them.
DoneLeavesNothing ==
    [][\A j \in Jobs :
           Finishes(j) /\ ~row[j].overwrite /\ row[j].failed = 0 /\ Uncapped(j)
           => Cardinality(Candidates(row[j].doc, FALSE)) <= churn - hist[j].churn]_vars

\* An overwrite job pages with an OFFSET over a list that changes and is
\* renumbered under it.  Of the questions it had counted and that still wait,
\* it misses at most as many as `churn` counts meanwhile: a question that comes
\* or goes shifts the pages by one, and so does one that is renumbered, however
\* many others it passes.
OverwriteMissesFew ==
    [][\A j \in Jobs :
           Finishes(j) /\ row[j].overwrite /\ Uncapped(j)
           => Cardinality((hist[j].wanted \cap Candidates(row[j].doc, TRUE)) \ hist[j].sent)
                  <= churn - hist[j].churn]_vars

-----------------------------------------------------------------------------
(* Statements of the documentation that the code does not keep.            *)

\* "Generate the correct option and an explanation for each question": a job
\* that is done has at least tried every question it had counted that still
\* waits for a key.
DoneHasTriedAll ==
    [][\A j \in Jobs :
           Finishes(j) /\ Uncapped(j)
           => hist[j].wanted \cap Candidates(row[j].doc, row[j].overwrite)
                  \subseteq hist[j].sent]_vars

\* "... guarantees that only one job runs at a time": no two jobs have a
\* call to the LLM in flight.
OneJobAtATime ==
    \A i, j \in Jobs : task[i].pc = "llm" /\ task[j].pc = "llm" => i = j

-----------------------------------------------------------------------------
(* Liveness.                                                               *)

\* Every job ends: its batches run out whatever fails, so the slot for the
\* next job becomes free (or the process stops, and start-up frees it).
JobsEnd == \A j \in Jobs : row[j].status \in Active ~> row[j].status \notin Active \/ ~up

-----------------------------------------------------------------------------
(* Refinement.                                                             *)

Lifecycle == INSTANCE JobLifecycle
    WITH Jobs <- Jobs, status <- [j \in Jobs |-> row[j].status]

\* The status column moves as JobLifecycle promises, through every
\* interleaving of workers, requests, deletions, crashes and restarts.
ImplementsLifecycle == Lifecycle!Spec

=============================================================================
