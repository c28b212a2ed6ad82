# A TLA+ model of ExaMable

ExaMable turns PDF exams into a bank of deduplicated questions, trains students
on them with spaced repetition and simulated exams, and writes answer keys with
an LLM. It is one FastAPI process over one PostgreSQL database, with pages in
plain JavaScript. This directory holds TLA+ specifications of its parts, the
TLC runs that check them on small instances, and proofs of the theorems that
TLAPS checks for every value of the constants. Paths below are relative to
`src/`.

## The system

| part | state it keeps | operations | what makes it hard |
| --- | --- | --- | --- |
| Correction jobs (`services/corrections.py`, `routers/corrections.py`, `main.py`) | rows of `correction_jobs`; asyncio tasks with locals; `_RUNNING` | start, cancel, the worker's loop, start-up recovery | transactions of the worker interleave with every other handler; it awaits an LLM; statements fail; the process stops |
| Answer keys (`routers/questions.py`) | `question_corrections`, one row per user and question | manual edit, regeneration with the LLM | the user and the worker write the same rows |
| Deduplication (`services/dedupe.py`) | `questions`, `question_occurrences` and everything that refers to a question | merge pass, detaching a document | one pass moves seven kinds of references while other requests insert them |
| Ingestion (`services/ingestion.py`, `routers/documents.py`) | `documents.ingestion_status`, uploaded files | upload, process, delete | four transactions and minutes of work per document; files and rows must agree |
| Bank import, reset (`services/question_bank.py`, `routers/admin.py`) | as ingestion | import, reset | identities that come back |
| Extraction, parser, multimodal repair, tagging (`services/`) | none (tags in `question_tags`) | text in, questions out | fallbacks with time limits |
| SM-2 scheduler and study (`services/scheduler.py`, `study.py`) | `schedule_state`, `attempts`, `question_reviews` | record an attempt, next question | two clients review the same question; long sequences of ratings |
| Simulations (`services/simulations.py`, `sampling.py`) | `simulations`, `attempts` | create, resume, retry, delete | quotas when few questions are left; a bank that changes between visits |
| Study-session player (`static/js/study.js`) | the session object in the browser | answer, reveal, edit a key, regenerate, navigate | handlers go on after an `await` while the session moves on |
| Read models, security, reports, scripts, templates | none of their own | queries | - |

Interaction is by calls inside the process and by rows of the database. Handlers
declared `def` run in threadpool threads, handlers declared `async def` and the
job workers share one event loop. Deduplication runs at the end of every
ingestion; a job reads questions, occurrences and keys; deleting a document
cascades to its jobs; deleting a question cascades to its keys, attempts and
schedules.

What must hold, part by part: a job's bookkeeping is right at every moment a
client may read it and the one-job slot always becomes free again; a user's own
key is never lost to the AI; deduplication and detaching lose nothing a student
did; a document's status and its questions agree, also after a crash; the
schedule stays within the bounds of SM-2 and no attempt is lost; a simulation
serves what it was asked for; the player records one attempt per answer.
`PROJECT.json` lists the hazards at their lines.

## Modules

| module | what it is |
| --- | --- |
| `CorrectionJobs` | the correction jobs and everything that runs beside them |
| `JobLifecycle` | what the jobs promise about the `status` column |
| `MCCorrectionJobs` | instances for TLC |
| `CorrectionJobsProofs` | types, the slot, ended jobs, refinement of `JobLifecycle` |
| `CorrectionCountersProofs` | the counters of a job add up |
| `CorrectionKeysProofs` | user keys stay, cancellation stops the job |
| `CorrectionScopeProofs` | what a job that ends `done` has left out |
| `QuestionBank` | documents, questions and provenance; ingestion, import, merging, deletion, and what students attach |
| `Catalogue` | what the bank promises document by document |
| `QuestionBankProofs` | types, owners, contents, merging, attempts, keys, refinement of `Catalogue` |
| `Extraction`, `Parser`, `Multimodal` | from a PDF to its questions, as operators |
| `MCPipeline` | these operators over all small inputs |
| `MCQuestionBank` | instances of `QuestionBank`, with the statements of `MCPipeline`, for TLC |
| `ExtractionProofs` | the chain returns the best text, for all inputs |
| `Scheduler` | SM-2 in exact integers |
| `Study` | attempts, schedules, the next question; several clients |
| `StudyProofs` | SM-2, schedules, attempts, locks, daily reviews |
| `MCStudy` | an instance for TLC |
| `Simulations` | sampling, and what is stored of a simulation |
| `StudyPlayer` | the browser's session, over `Simulations` and the answer keys |
| `StudyPlayerProofs` | balanced sampling, types, the address, what a session shows, attempts |
| `MCStudyPlayer` | instances for TLC, and the balance of the sampling |

`MCQuestionBank` extends `QuestionBank` and `MCPipeline`; `Multimodal` extends
`Parser`; `Study` extends `Scheduler`; `StudyPlayer` extends `Simulations`. A module of
proofs extends the module it is about.

### CorrectionJobs

*Grain.* Each `with engine.begin()` block is one transaction and one action.
The worker `run_correction_job` is a process per job whose program points are
named for the statement that comes next: `LoadHeader`, `SetRunning`,
`ReadCancelFlag`, `ReadProcessed`, `Fetch`, `MarkAndSend`, then `LlmFails` or
`LlmAnswers` after the await, `NoUsableItem`/`SaveItem` per question,
`AppendFailures`, `UpdateCounters`, and `SetFinalStatus`, the write of `done`,
`cancelled` or `error`. The worker and the `async def` handlers hold the event
loop from one await to the next (`LoopFree`), and the LLM call is the worker's
only await; threadpool handlers may come between any two transactions.
`start_job` counts in one statement and inserts in another (`StartJobCount`,
`StartJobInsert`/`StartJobRefused`), since under READ COMMITTED the second sees
what was committed in between.

*State.* `row` is the table `correction_jobs` (`logged` is the length of
`failures_json`), `task` the asyncio tasks with the locals of the worker that
outlive a statement, `key` the table `question_corrections` reduced to who wrote
which field, `occ`, `question` and `rank` (the order by section and number) the
part of the bank a job reads. `hist` and
the three counters are memory for the properties and bounds.

*Environment.* `SetQuestionCorrection` and `Regenerate...` write keys;
`DiscardQuestion`, `SaveQuestions`, `MergeDuplicate`, `DeleteDocument` and
`ResetDb` change the bank, each as a job can see it (a merge is one action though
the pass merges all groups in one transaction; every sequence of passes is a
sequence of such actions). When a document goes or is ingested again,
`detach_document_questions` gives the shared questions it owned new numbers in
another document, so each of them may get any new place (`Renumbered`). `Crash` drops all tasks, `Shutdown` also lets the
workers that await the LLM write `cancelled`, `Startup` marks the orphans.
`DbError` makes any one statement of the worker raise, the first included.

*Abstractions.* One user (a job and its edits belong to the bank's user; keys of
other users are other rows). The items of a batch are saved in any order: they
write different rows. Timestamps, messages and `current_question_id` are left
out. Question identities come from a finite set and may come back after they
were deleted; job identities do not.

### JobLifecycle

The status column alone: one active job, `queued` to `running` to an end, no way
back from an end but deletion. `CorrectionJobs` implements it under the mapping
that projects `row` to its status, checked by `ImplementsLifecycle` and proved.

### QuestionBank

*Grain.* The handlers are threadpool functions; a thread handles one request at
a time (`req`), and `Threads` bounds how many requests about documents overlap.
A transaction is one action, except that it is split where it bases later writes
on earlier reads, since READ COMMITTED lets others commit in between:
`Extracted`/`SaveQuestions` and `DeleteRead`/`DeleteDocuments` around the SELECT
of `detach_document_questions`; `PassRead`, `MergeReferences` and `PassCommit`
in `run_cleanup_dedupe`; `ImportRead`/`ImportQuestionBank` in
`import_question_bank`. `ProcessDocument` to `PassCommit` are one call of
`process_document`; `Cleanup` starts a pass by itself. A transaction that would
wait for rows of a merge pass is disabled meanwhile (`Unlocked`, the guards of
`RecordAttempt` and `SetCorrection`).

*State.* `doc` is `documents.ingestion_status`, `file` the PDF on disk,
`question` the table `questions` (owner, discarded or not, what the fingerprint
tells apart, the order of the options) with the option letter of the user's key,
`occ` the table `question_occurrences` by question and document, `on` the
question of each attempt. `late` in a request remembers which attempts came after
the pass had moved theirs, `dirty` whether a bank was imported, or a pass failed
or died, since the last one that went through.

*Environment.* `RecordAttempt`, `SetCorrection` and `DiscardQuestion` happen at
any time. Every transaction may fail (`SetFailed`, `SaveFails`, `ImportFails`,
`DeleteFails`, `PassFails`), and `Crash` ends all requests; what `unlink` removed stays removed.

*Import.* An imported row has the identity `BankRow` of its content, since uuid5
derives it from the fingerprint, and is inserted plainly: an import whose
identity is still in use (a re-import after an exam took the question over)
cannot commit and only `ImportFails` is left. No pass follows an import.

*Abstractions.* Extraction and parsing find the copies the PDF prints
(`Printed`) or fail. A bank names each content once, with its provenance (rows
without any are backfilled by the next pass). Which copy of a group is kept, and which document inherits
a shared question, depends on confidences and dates and is left open. Review
schedules (see `Study`), reviews, tags and aggregates follow the same statements as attempts
and keys. There is one user. Identities of rows are reused only when no
transaction mentions them, as uuid4 never repeats. The reset of the database is in
`CorrectionJobs` only.

### Catalogue

A map from documents to the contents they show, changed only by the two
operations `Ingest` and `Remove`. `QuestionBank` implements it under the mapping
`Shows`, which goes through provenance: passes, new owners, failures and crashes
are stuttering steps.

### Extraction, Parser, Multimodal

`ExtractTextPages` is the chain pypdf, pdfminer, OCR. A tool gives a text in time,
ends late, hangs, raises, or is not installed; of a text only its score is kept.
What comes after the 20 s of pypdf and pdfminer is dropped. The limit bounds the
wait for the result, not the chain: leaving the `with` block of the executor waits
for the tool, so one that hangs holds the chain for ever (`Stuck`), and so does a
command of OCR, which has no limit. An exception is not caught and ends the
processing of the document (`Failure`).

`Parsed` folds `Step` over the lines of an exam: a heading closes the open block
(`Closed`) and opens another, any other line is taken in (`Absorbed`). The code
has one inner loop for each kind of heading; the fold has one block with a kind.
A line is the kind that the regular expressions tell apart, with its printed
number; `ResolveNumber` finds the next free one. After the first theory question
or exercise only exercises are headings (`Ends`), as the inner loops have it.

`Enhanced` merges the candidates of the multimodal model by section and number
(`Improved`); an item that does not validate is dropped before. A stem, a list of
options or one of subparts is a `Part`, whose it is and how long: the code
replaces it whole by another one that is longer.

### Scheduler and Study

`Scheduler` computes in hundredths (ease, days) and tenths of a minute (due
dates); the code rounds ease and interval to two decimals before it stores them,
and leaves open which way a tie goes (`up`), since the binary float that stands for
it lies on either side. `Review` is `review`.

*Grain of Study.* A transaction is one action, but `RecordAttempt` (which inserts
the attempt and reads the schedule FOR UPDATE) is apart from `CommitAttempt`, and
the SELECTs of `next_question`, each of which has its own snapshot, are apart from
each other and from the INSERT: `ServeDue` or `NothingDue`, then `FindUnseen` or
`NothingUnseen`, then `InsertNew`. FOR UPDATE locks the row it finds (`Locked`); with
no row there is nothing to lock, and the later upsert waits for rows only.
`summary` gives the length of a daily review (`StartReview`), `next_question` its
questions; it ends at its length (`EndReview`) or where both SELECTs found nothing.

*Environment.* Questions are discarded, restored, deleted with their documents
(attempts and schedules cascade) and merged (`MergedRows`). `Tick` moves the
clock to the next due date. `lost` in a review is memory: questions that stopped
waiting without having been served; and so is `crossed`: questions that went from
unseen to due between two SELECTs of one request.

*Abstractions.* One user, whom all clients share, as the code has it. Filters by
document, tag or type restrict all queries alike and are left out.

### Simulations and StudyPlayer

`Simulations` has the operators of `services/simulations.py` and `sampling.py`:
what may be drawn (`Generated`, a set, over all shuffles), what is stored, what
`get` reads back. A priority mode is any order; without one, the questions of a type
come from a random pool of bounded size (`Pools`, at least `MinPool`). `InterleaveByTopic` says which
orders the round-robin loop can return (`InRounds`: the n-th of a topic comes in
round n, and each round goes through the topics in the order drawn).

*Grain of StudyPlayer.* JavaScript runs a handler up to its next `await`; the
rest is a step of its own with the locals it captured. `pending` is the bag of
awaits in flight, one record each (`Op`), and `Reply...` actions are what comes
after; a reply reads and writes the server when it arrives. `session` is the
session object, `cache` the map of correction promises with the answers that
wait for one, `url` the address bar. A promise that was replaced in the cache
keeps its waiters (`Orphans`). `Render` is every re-rendering: the address it
writes and the corrections it asks for.

*Environment.* Replies fail, attempts are lost, `Reload` starts the page anew at
its address, `OtherPage` discards questions, edits keys and deletes simulations.

*Abstractions.* The POST of an attempt is stored or lost at once, since nothing
but `regenerateWithAi` goes on after it. The two requests of
`loadNextReviewQuestion` are one await. A key is one letter, or none.
`haste` is memory: the user acted while a reply was due.

## Runs

| run | instance | shows |
| --- | --- | --- |
| `jobs_one` | 1 job, 3 questions of 1 document, batches of 2, 1 failed statement, 1 edit, 1 change of the bank | `TypeOK`, `CountersAddUp`, `ActiveRowHasWorker`, `CancelStopsAfterBatch`, `EndedJobsStay`, `UserFieldsStay` |
| `jobs_pages` | 1 job, 3 questions, 2 of them in a second document as well, batches of 1, 1 failed statement, 1 change of the bank, fair | `DoneLeavesNothing`, `OverwriteMissesFew`, `JobsEnd` |
| `jobs_two` | 2 jobs, 2 questions, 1 document, batches of 1, 1 change of the bank | `OneStoredWorker`, `EndedJobsStay`, `ImplementsLifecycle` |
| `jobs_starve` | 1 job, 3 questions, batches of 1, nothing else happens | violates `DoneHasTriedAll` |
| `jobs_overlap` | 2 jobs, 3 questions, 1 deletion | violates `OneJobAtATime` |
| `bank` | an exam with 2 questions and an imported bank with 1 of them, its options transposed; 4 uuid4 identities, 1 attempt, 1 key letter, 1 thread | `TypeOK`, `OwnerContains`, `StatusTellsContents`, `MergedWhenQuiet`, `AttemptsFollow`, `KeysTurnOnlyInMerges`, `ImplementsCatalogue`; for exams of up to 4 lines, 2 candidates of the repair, all ends of three tools: `ChainReturnsBest`, `HeadingsBecomeQuestions`, `RepairKeepsQuestions` |
| `bank_overlap` | 2 exams with 2 and 1 questions, one shared, no students, 2 threads | violates `StatusTellsContents` |
| `bank_attempts` | 2 exams, 1 attempt, 2 key letters, 1 thread | violates `MergesKeepAttempts` |
| `bank_keys` | 2 exams, the options of the shared question transposed in one, 2 key letters | violates `KeysKeepMeaning` |
| `study` | 2 clients, 2 questions (each new, or at its cap after lapses), 2 attempts begun, 1 change, reviews of 2 | `TypeOK`, `PlannedIsServable`, `AnswersAreScheduled`, `SchedulesAreSound`, `ReviewsServeTheirPlan`, `ReadsLastUntilCommit` |
| `player` | a multiple-choice and an open question, 2 options, 2 sessions, 2 events, fair | `TypeOK`, `UrlTellsSession`, `AttemptsFollowScores`, `SessionIsSound`, `LoadingEnds` |
| `player_resume` | 2 open questions, nothing out of the ordinary | violates `DoneIsAnswered` |

*Why these bounds are enough.* Batches of two over the three questions of one
document give a full batch, a partial one and a batch that straddles what another
actor removes; the questions that both documents of `jobs_pages` share make the
frequency order differ from the document order and detaching differ from deletion:
they stay, and may change places. One edit, one failed
statement and one change of the bank reach each interleaving of a single foreign
event with the worker. The properties that count changes get a run of their own,
with one question per batch, where a change shifts the pages behind or before the
job's place. `MaxChurn` counts one for each change, or one for each question that it
adds or renumbers: one change can re-order any number of shared questions, and the
bound says how many. Two jobs are what the slot is
about. Crashes, restarts, cancellations and LLM failures are not bounded. In
`jobs_overlap` and `jobs_two` a second identity of a job is enough, since a third
would find the slot in one of the same states.

For the bank, a shared and an unshared question are the two cases of detaching,
and four identities are what re-processing the exam after a merge needs: the
merged row, the old copy of the other question and two fresh rows. The second
document of `bank` is an imported one, whose fixed identities collide with rows
that stayed; the runs of two PDFs differ from it only in fresh identities, and
they are what the violations need. Requests, failures, crashes, discards and
attempts on whatever row exists are not bounded, except that one attempt exists;
attempts do not interact but for the lock on a schedule row, which can only delay
one. The imported bank lists the options of the shared question in another order,
so one letter names two options, and is enough in `bank` to see a key reach another
content or turn; `bank_keys` has the second letter, which a keyed keeper would lose.
uuid4 identities are interchangeable, hence the symmetry. `Processing` ties the
statements about extraction, parsing and repair to the step of the bank where the
pipeline runs; they quantify over their own inputs. Four lines are what it takes
to open two blocks, give one its options and repeat a number; two candidates, to
meet a parsed question, a new one, and each other.

In `study` an old question has met the floor of the ease and the cap of the
interval, so one more answer already strains both; a question answered for the
first time by two clients at once needs two attempts. Clients are
interchangeable. In `player` a session without trouble is free, and `MaxEvents`
counts what is out of the ordinary: a request that fails or is lost, an act of
the user while a reply is due, a key saved or regenerated, a question discarded,
a reload, a change by another page. Two of them reach each pair, as a lost
attempt and a reload, or a regeneration and an answer that overtakes it. Two
sessions are a late reply and the session it lands in; the key is there at the
start, and a request for it that fails is what lets an answer come before its key;
two questions of the two types are the two ways of answering, and a place before
and behind.
With two questions every pool is smaller than `MinPool`, as in a bank of up to 600
questions of a type; the proofs have any value.
`MCStudyPlayer` states the balance of the sampling for five questions of two
topics over all shuffles (`SamplingIsBalanced`), which TLC evaluates.

*What the properties say.* `CountersAddUp`: processed = succeeded + failed, never
above the total shown to the client, and no failure counted that `failures_json`
lacks, although two transactions record them. `ActiveRowHasWorker`: while the
process is up no active row is an orphan that would refuse every later job.
`EndedJobsStay`: neither a late worker, a cancellation nor a start-up changes a
job that has ended. `CancelStopsAfterBatch`: one LLM call at most after the
request. `UserFieldsStay`: an AI value replaces a user's only where overwriting
was asked for. `DoneLeavesNothing` and `OverwriteMissesFew`: what a job that
ended `done` may have left, up to what came, went or was renumbered meanwhile.

`OwnerContains`: a question belongs to a stored document that contains it, though
owners change with merges, re-processing and deletions. `StatusTellsContents`: a
processed document shows what its PDF prints, through whatever rows the merges
have left. `MergedWhenQuiet`: a pass that went through leaves one row for each
content, also among discarded copies. `AttemptsFollow`: an attempt stays with the
content it was made on, until the last document with it goes (or the race of
`bank_attempts` takes it). `KeysTurnOnlyInMerges`: what the keys of a content point at
changes only by the user, or where a pass hands a key to a keeper that has none and
lists its options in another order, the case of `bank_keys`.

`ChainReturnsBest`: the text that is parsed is the best that the tools gave in time,
no tool is skipped while all are poor, and the chain fails or hangs exactly if a
tool that it came to raises or hangs. `HeadingsBecomeQuestions`: each heading before
the first theory question or exercise becomes one question, and so does each
exercise; a theory question takes in every heading up to the next exercise, and an
exercise likewise. Section and number are unique, or a constraint would refuse the document.
`RepairKeepsQuestions`: whatever the model answers, every question stays, and each
part of it is as parsed or replaced by the longest part offered for it; an update
count of 0 means that nothing changed, and a second repair finds nothing to do.

`PlannedIsServable`: the summary and `next_question`, two different queries,
agree on what is due and new, also after merges. `AnswersAreScheduled`: an
answered question has a schedule that shows it, and none counts more than was
answered. `SchedulesAreSound`: floor, cap and phases fit each other after any
answers and merges. `ReadsLastUntilCommit`: an attempt overwrites only what it
read, except for a first one. `ReviewsServeTheirPlan`: a review that ends has
served its number, but for questions lost to other clients and those that crossed
its last request: in the first SELECT still unseen, in the second already due, so
in neither, and still waiting when the page ends the review.

`UrlTellsSession`: the address can be reloaded at any moment.
`AttemptsFollowScores`: one attempt for an answer that was scored and none for
one that was not, however keys come and change. `SessionIsSound`: a review or
simulation shows no question twice, none that was discarded in it, and no
answers that are not its own. Both suppose a user who waits for replies
(`haste`), and say nothing of a hasty one: the code takes the session of the moment
after an await, so a reply can land in another session, and two key presses before
the correction arrives send two attempts. `LoadingEnds`: the loading screen goes away.

*Fairness* (`FairSpec`). A coroutine that holds the loop runs on to its next
await. asyncio serves ready tasks first-in first-out, so a task waiting for the
loop gets it although other requests take the loop again and again: strong
fairness of each worker. Its LLM call ends because the HTTP client has a timeout
(`correction_gen_timeout_seconds`). Nothing is assumed of requests, crashes or
restarts, so `JobsEnd` allows the process to be down.

The player's `FairSpec` says that every request for the next question is answered
or fails, as `fetch` does; the loading screen waits for nothing else. Nothing is
assumed of the user.

### Where code and documentation differ

* `DoneHasTriedAll` (`jobs_starve`): a job that does not overwrite fetches each
  batch from the start of the uncorrected questions, so a question that fails is
  fetched again, counts again, and uses up the total; the job ends `done` and
  later questions were never sent.
* `OneJobAtATime` (`jobs_overlap`): the unique index guards rows. Deleting a
  running job's document deletes its row by cascade while the worker awaits the
  LLM, and a second job may call the LLM beside it. `OneStoredWorker` is what
  remains true.
* `StatusTellsContents` (`bank_overlap`): `detach_document_questions` reads which
  questions are shared and deletes the others later. A merge pass that commits in
  between has moved the other document's copy into one of them, and the deletion
  takes it along, although its docstring promises not to lose shared questions.
  With one request about documents at a time the property holds (`bank`).
* `MergesKeepAttempts` (`bank_attempts`): an attempt that commits after the pass
  has moved a duplicate's attempts falls with the duplicate; the documentation
  says that attempts move to the keeper.
* `KeysKeepMeaning` (`bank_keys`): the fingerprint sorts the options, so copies
  with transposed options are merged, but the letter of the key moves verbatim.
* `DoneIsAnswered` (`player_resume`): `openSimulation` restores an open question
  without its self-assessment, so a resumed simulation asks for it again and
  sends a second attempt; the history counts attempts and calls the simulation
  done while another question has none.

Two more disagreements are in the models without a run of their own:

* `services/extraction.py:83` says of the 20 s limit "Protect the batch with
  timeout", but the executor's `with` block waits for the tool that hangs. The
  chain is stuck (`Stuck` in `Extraction`), and `ChainReturnsBest` says so.
* `static/js/study.js:473` says that "scheduled" means nothing is due or new any
  more. `next_question` answers so too if a question crossed its SELECTs, and the
  review ends early (`crossed` in `ReviewsServeTheirPlan`).

## Proofs

Each theorem is about the specification of its module for every value of the
constants that satisfies the module's assumptions, and follows the pattern
`Init => IInv`, `IInv /\ [Next]_vars => IInv'`, `IInv => property`. Bounds on
events (`MaxChurn`, `MaxDbErrors`, `MaxAttempts` ...) are constants like any
other, so a theorem holds for each number of them.

### Correction jobs

`ConstantsAssumption` asks for finite sets of questions and documents, an order of
the questions at the start (`Ranks`: distinct places) and a positive batch size.

* `TypeCorrect`: `TypeOK` is inductive.
* `OneStoredWorkerHolds`, `EndedJobsStayHolds`, `ActiveRowHasWorkerHolds`,
  `ImplementsLifecycleHolds`: `OneStoredWorker` is not inductive, since the slot
  speaks of rows. The invariant `StatusInv` ties the program point of each task
  to the status of its row: a live task whose row is stored has an active row, of
  the status its program point says, and active rows are unique. Termination
  writes and `Interrupted` then only meet active rows, which gives `EndedJobsStay`
  and the step simulation of `JobLifecycle`. `ActiveRowHasWorkerHolds` assumes
  `MaxDbErrors <= 1`: with two failed statements the status write that reports
  the first is itself suppressed, and the property is false.
* `CountersAddUpHolds`: the invariant `CountersInv` relates row and task at each
  program point: the batch fits in what is left of the total, what has been saved
  and what has failed make up the part of the batch that is done, and the log is
  ahead of the counter by what the program point implies. It rests on
  `PrecedesIsATotalOrder` and `PageSize`: a page holds at most LIMIT questions,
  because the map from a question to the number of those before it is injective.
* `UserFieldsStayHolds`: each action is shown to keep user fields unless its
  question is being overwritten.
* `CancelStopsAfterBatchHolds`: the invariant `LateInv` says that after one late
  call a task is on its way to the next read of a flag that stays set.
* `DoneLeavesNothingHolds`: the property looks back over a whole job, so the
  invariant `ScopeInv` carries the account along. While no question has failed,
  those still without a key, together with those counted as processed, are no
  more than those wanted at the count plus the changes of the bank since
  (`Tracks`). A job ends `done` on an empty page or at its total, and an empty
  page means that nothing waits (`EmptyPage`: a non-empty finite set has a first
  element in the order of the questions, by `LeastNatural`).
* `OverwriteMissesFewHolds`: an overwriting job turns pages by OFFSET, and a
  question that comes, goes or is renumbered moves others across the place the job
  has reached, each by one. Questions that are not renumbered keep their order among
  each other, whatever passes between them, and that is what the account rests on. The
  invariant `PagesInv` says that questions before the place that were skipped, and
  places that hold no question, are paid for by changes since the count
  (`Covers`); `OneIsSkipped` is the case of one question that goes or comes, and
  `FinishesAtDone` reads the result off at the end. The two invariants were
  checked on 4 questions in 2 documents, batches of 2, 2 changes and 1 failed
  statement before they were proved.

### Question bank

`TypeCorrect` holds for any number of threads. The other theorems suppose
`OneAtATime`, that at most one request about documents runs at a time: without it
`StatusTellsContents` is false, as `bank_overlap` shows. Attempts, keys and
discards still come between any two transactions of that request, every
transaction may fail, and the process may crash at any point.

* `OwnerContainsHolds`, `StatusTellsContentsHolds`, `MergedWhenQuietHolds`,
  `AttemptsFollowHolds`, `ImplementsCatalogueHolds` share the invariant `BankInv`:
  rows, provenance and attempts refer to what is there and a row is a copy that
  some document prints (`RowsInv`); what a request has read in an earlier
  transaction is still so when it writes (`RequestsFit`: heirs, keepers, attempts
  that came late); and no content has two rows outside a request that ends in a
  pass (`MergedInv`). `StatusTellsContents` alone is not inductive, since
  `DeleteDocuments` and `PassCommit` act on what was read before. Each action is
  shown to keep `BankInv`, to move attempts only as allowed, and to change
  `Shows` by one operation of `Catalogue` or not at all (`StepFits`).
* `KeysTurnOnlyInMergesHolds` supposes nothing about how documents list their
  options: each action is shown to keep what the keys of a content point at, and
  `PassCommit` to change it only by a key that it moves to a keeper without one,
  from a copy with another order.

### Extraction

`ChainIsBest` states `ReturnsBest` for every outcome of the three tools: any
number of pages, any score, any way to end, hanging and raising included.
`BestOfTwo` and `BestOfThree` say what `max` returns, first among equals. The run
checks the same statement at the step where a document is extracted.

### Scheduler and Study

`ConstantsAssumption` asks for a finite, non-empty set of questions, and for
reviews that `MAX_EXCLUDED_IDS` can tell apart; `PastsAssumption` says that the
schedules at the start are such that answers have left.

* `RecalledIntervalGrows`, on the operators alone: rounding included, no ease
  above the floor makes an interval shrink.
* `TypeCorrect`: ease and interval keep their bounds (`EaseHasFloor`,
  `IntervalHasCap`).
* `SchedulesAreSoundHolds`, `AnswersAreScheduledHolds`, `PlannedIsServableHolds`,
  `ReadsLastUntilCommitHolds` share `RowsInv`: a row that an attempt has read FOR
  UPDATE is as it was, no two attempts hold the same (`LockInv`), and a row in
  phase `new` is due (`NewIsDue`). Without `LockInv` a commit could write a
  schedule computed from a row that is gone, and without `NewIsDue` the summary
  would count a question which `next_question` does not serve.
* `ReviewsServeTheirPlanHolds`: `PlanInv` says that what a review has served,
  what waits and what was lost to others make up the number it announced
  (`Planned`), and, between the two SELECTs of a request, that what was unseen at
  the first and is not any more has been lost or has crossed. `BegunBefore` keeps
  the time of a request behind the clock.

### Simulations and StudyPlayer

`SimulationsAssumption` asks for a finite set of questions with distinct
positions, `PlayerAssumption` for bounds and offers that are what they are called.

* `SamplingSpreads`, on the operators alone: what TLC evaluates for one bank
  (`SamplingIsBalanced`), for every pool, topics, limit and order drawn. The round
  of a question is its rank among those of its topic (`RoundIsRank`); if a topic
  had two more than one with some left, the last of the former would come in a
  later round than the next of the latter, and yet before it. `RankFacts` says
  that ranks count from 1 without a gap, which stands in for an induction.
* `TypeCorrect` and `UrlTellsSessionHolds` share `TypeInv`. Neither property is
  inductive: a reply reads the session of the moment with the question, option or
  list that its handler captured, so the invariant also says what each kind of
  request in flight carries (`OpFits`), that a simulation has questions and a
  stored row and the position is inside the list (`SessionFits`), that no stored
  simulation repeats a question (`SimsFit`), and that the address is the one of
  the session (`UrlFits`). They hold for any user, however hasty.
  `GeneratedFacts` says that whatever is drawn is a list of questions without
  repetition, `KeptFacts` that reading a simulation back keeps it so.
* `SessionIsSoundHolds` and `AttemptsFollowScoresHolds` share `CalmInv`, about the
  states in which the user has waited so far. Then at most one thing is due:
  nothing (`Idle`), an answer that waits for its correction (`Waits`), or one
  request (`Asked`) that still belongs to the session as it is (`Belongs`). A
  request for the next question excludes the questions the session has seen, and
  the review has room for one more; a discard finds its question on the screen;
  between the two steps of `regenerateWithAi` an attempt has been sent for an
  answer that has no score yet. This last one is why `AttemptsFollowScores`
  excepts states where a request is awaited, and needs the stronger invariant.
  `Sound` and `Settled` then are the two properties. Both invariants were
  checked by TLC on the instance of `player` before they were proved.

The lemmas `AppendedFacts`, `RemovedFacts` and `DistinctCounts` are about lists
without repetition; `RankFacts` and `LeastNumber` about their positions.

### Model-checked only

* `JobsEnd` and `LoadingEnds`: liveness under fairness is out of the prover's reach.
* `HeadingsBecomeQuestions` and `RepairKeepsQuestions`: `Parsed` and `Enhanced`
  fold over sequences. What a fold computes takes an induction over data, whose
  rule has an operator as its parameter, which no installed prover can instantiate. (`LeastNatural` is as far as one gets
  without it: the least element of a set of numbers.)

## Not modelled, and the plan

Models to come: what remains true when two requests about documents overlap; how
manual and automatic tags of a question give way to each other
(`services/tagging.py`); what remains true in the player of a user who does not wait
for replies; the polling of a correction job by a page.

Left out for good: read-only queries, filters, reports, templates and styles
(no state of their own); PDF and LLM internals (external); the regular
expressions of parser and tagger and the scoring formula of a text (data);
offline scripts; running the migrations.
