----------------------------- MODULE QuestionBank -----------------------------
(***************************************************************************)
(* The question bank: documents and their files, the questions extracted   *)
(* from them or imported, the merging of duplicates and the detaching of   *)
(* documents (services/ingestion.py, dedupe.py, question_bank.py), with    *)
(* what students attach to a question: attempts, answer keys, discarding.  *)
(*                                                                         *)
(* Grain.  The handlers run in threadpool threads.  A transaction is one   *)
(* action, except that it is split after the reads it bases later writes   *)
(* on: READ COMMITTED lets others commit in between.  A statement that     *)
(* meets a row which another transaction has changed waits for its end.    *)
(***************************************************************************)
EXTENDS Naturals, FiniteSets

CONSTANTS
    Docs,       \* the PDFs and imported files, told apart by their SHA-256
    Banks,      \* which of them are question banks to import
    BankRow,    \* [Contents -> Questions], uuid5 identities of imported rows
    Questions,  \* identities of rows of `questions`
    Contents,   \* what a fingerprint tells apart
    Printed,    \* [Docs -> SUBSET Copy], what extraction finds in each PDF
                \* and what a bank lists
    Letters,    \* the options a key may name
    Attempts,   \* identities of rows of `attempts`
    Threads,    \* bound: requests about documents that may overlap
    NoDoc, NoQuestion

\* Two copies with one fingerprint may list their options in another order.
Copy == [content : Contents, swapped : BOOLEAN]

ASSUME ConstantsAssumption ==
    /\ IsFiniteSet(Docs) /\ IsFiniteSet(Questions)
    /\ NoDoc \notin Docs /\ NoQuestion \notin Questions
    /\ Printed \in [Docs -> SUBSET Copy]
    /\ Banks \subseteq Docs /\ BankRow \in [Contents -> Questions]
    /\ \A c, e \in Contents : BankRow[c] = BankRow[e] => c = e
    /\ \A d \in Banks : \A c, e \in Printed[d] : c.content = e.content => c = e

VARIABLES
    doc,        \* ingestion_status of each document, or "absent"
    file,       \* is its PDF on disk
    question,   \* the rows of `questions`, each with the key of its user
    occ,        \* question_occurrences
    on,         \* question_id of each attempt
    req,        \* the request each thread handles, with its locals
    dirty       \* memory: a bank was imported, or a merge pass failed or died,
                \* since one went through

vars == <<doc, file, question, occ, on, req, dirty>>

-----------------------------------------------------------------------------
(* Types. *)

Status == {"absent", "uploaded", "processing", "processed", "error"}

Row == [state : {"absent", "live", "discarded"},
        copy : Copy \cup {NoDoc}, owner : Docs \cup {NoDoc},
        key : Letters \cup {"none"}]
NoRow == [state |-> "absent", copy |-> NoDoc, owner |-> NoDoc, key |-> "none"]

\* Where a request is: "extract" works on the PDF outside any transaction,
\* "save", "delete", "import" (of a new bank) and "reimport" (of one stored)
\* have read which questions are shared, "pass" is about to read the bank, "merge" has chosen the keepers, "moved" has moved what
\* referred to their duplicates.
Pc == {"idle", "extract", "save", "delete", "import", "reimport", "pass", "merge", "moved"}

Request == [pc : Pc, docs : SUBSET Docs,
            heir : [Questions -> Docs \cup {NoDoc}],  \* new owner, if shared
            into : [Questions -> Questions],          \* keeper of a duplicate
            late : SUBSET Attempts,                   \* attempts that came too late to move
            keyed : SUBSET Questions]                 \* whose keys are moved

NoHeirs == [q \in Questions |-> NoDoc]
NoMerge == [q \in Questions |-> q]
Idle == [pc |-> "idle", docs |-> {}, heir |-> NoHeirs, into |-> NoMerge,
         late |-> {}, keyed |-> {}]

TypeOK ==
    /\ doc \in [Docs -> Status]
    /\ file \in [Docs -> BOOLEAN]
    /\ question \in [Questions -> Row]
    /\ occ \in SUBSET (Questions \X Docs)
    /\ on \in [Attempts -> Questions \cup {NoQuestion}]
    /\ req \in [Threads -> Request]
    /\ dirty \in BOOLEAN

Init ==
    /\ doc = [d \in Docs |-> "absent"]
    /\ file = [d \in Docs |-> FALSE]
    /\ question = [q \in Questions |-> NoRow]
    /\ occ = {}
    /\ on = [a \in Attempts |-> NoQuestion]
    /\ req = [t \in Threads |-> Idle]
    /\ dirty = FALSE

-----------------------------------------------------------------------------
(* Reads. *)

Stored(d) == doc[d] # "absent"
Exists(q) == question[q].state # "absent"
Content(q) == question[q].copy.content
Holders(q) == {d \in Docs : <<q, d>> \in occ}

\* The questions a transaction may still refer to keep their identities.
Mentioned(q) ==
    \E t \in Threads :
        \/ req[t].heir[q] # NoDoc
        \/ req[t].into[q] # q
        \/ \E p \in Questions \ {q} : req[t].into[p] = q

\* uuid4 identities for the copies a document prints.
Free == {q \in Questions \ {BankRow[c] : c \in Contents} : ~Exists(q) /\ ~Mentioned(q)}
FreshFor(d) ==
    {new \in [Printed[d] -> Free] : \A c, e \in Printed[d] : new[c] = new[e] => c = e}

At(t, pc) == req[t].pc = pc
Finish(t) == req' = [req EXCEPT ![t] = Idle]

\* Rows a merge pass has changed and not committed.
Merging(t) == At(t, "moved") /\ req[t].into # NoMerge
Unlocked(t) == \A u \in Threads \ {t} : ~Merging(u)

-----------------------------------------------------------------------------
(* Uploads.  The file is written inside the transaction that inserts the   *)
(* row; a document with the same SHA-256 is refused.                       *)

StoreUpload(d) ==
    /\ ~Stored(d) /\ d \notin Banks
    /\ doc' = [doc EXCEPT ![d] = "uploaded"]
    /\ file' = [file EXCEPT ![d] = TRUE]
    /\ UNCHANGED <<question, occ, on, req, dirty>>

-----------------------------------------------------------------------------
(* detach_document_questions: the SELECT of the shared questions, then the *)
(* writes.                                                                 *)

\* For each question owned by one of `S` that another document contains, that
\* document (the oldest occurrence, which may be any of them).
NoHeirsOf(S) == {NoHeirs}                      \* mutant
HeirsOf(S) ==
    LET shared == {q \in Questions :
            Exists(q) /\ question[q].owner \in S /\ Holders(q) \ S # {}}
    IN  {[q \in Questions |-> IF q \in shared THEN heir[q] ELSE NoDoc] :
            heir \in {h \in [shared -> Docs \ S] : \A q \in shared : <<q, h[q]>> \in occ}}

DeletedWith(S, heir) ==
    {q \in Questions : Exists(q) /\ question[q].owner \in S /\ heir[q] = NoDoc}

RowOrphaned(q, S, heir) ==                      \* mutant
    IF q \in DeletedWith(S, heir) THEN NoRow ELSE question[q]
\* The rows after detaching; what refers to a deleted row goes by cascade.
RowDetached(q, S, heir) ==
    IF q \in DeletedWith(S, heir) THEN NoRow
    ELSE IF Exists(q) /\ heir[q] # NoDoc THEN [question[q] EXCEPT !.owner = heir[q]]
    ELSE question[q]

OccDetached(S, heir) ==
    {o \in occ : o[2] \notin S /\ o[1] \notin DeletedWith(S, heir)}

AttemptsDetached(S, heir) ==
    on' = [a \in Attempts |-> IF on[a] \in DeletedWith(S, heir) THEN NoQuestion ELSE on[a]]

HeirsStored(heir) == \A q \in Questions : Exists(q) /\ heir[q] # NoDoc => Stored(heir[q])

-----------------------------------------------------------------------------
(* process_document.                                                       *)

ProcessDocument(t, d) ==
    /\ At(t, "idle") /\ Stored(d)
    /\ doc' = [doc EXCEPT ![d] = "processing"]
    /\ req' = [req EXCEPT ![t] = [Idle EXCEPT !.pc = "extract", !.docs = {d}]]
    /\ UNCHANGED <<file, question, occ, on, dirty>>

\* The file is missing, or extraction, parsing or repair raise.
FailedAs(status, t) ==
    /\ At(t, "extract")
    /\ doc' = [d \in Docs |-> IF d \in req[t].docs /\ Stored(d) THEN status ELSE doc[d]]
    /\ Finish(t)
    /\ UNCHANGED <<file, question, occ, on, dirty>>
SetFailedMisspelt(t) == FailedAs("failed", t)   \* mutant
SetFailed(t) == FailedAs("error", t)

Extracted(t) ==
    /\ At(t, "extract")
    /\ \A d \in req[t].docs : file[d]
    /\ \E heir \in HeirsOf(req[t].docs) :
          req' = [req EXCEPT ![t].pc = "save", ![t].heir = heir]
    /\ UNCHANGED <<doc, file, question, occ, on, dirty>>

NewRow(c, d) == [state |-> "live", copy |-> c, owner |-> d, key |-> "none"]

\* The document's contribution is replaced by the copies its PDF prints.
SaveQuestions(t, d) ==
    /\ At(t, "save") /\ d \in req[t].docs /\ Unlocked(t)
    /\ Stored(d) \/ Printed[d] = {}
    /\ HeirsStored(req[t].heir)
    /\ \E new \in FreshFor(d) :
          /\ question' = [q \in Questions |->
                IF \E c \in Printed[d] : new[c] = q
                THEN NewRow(CHOOSE c \in Printed[d] : new[c] = q, d)
                ELSE RowDetached(q, {d}, req[t].heir)]
          /\ occ' = OccDetached({d}, req[t].heir) \cup {<<new[c], d>> : c \in Printed[d]}
          /\ AttemptsDetached({d}, req[t].heir)
    /\ doc' = IF Stored(d) THEN [doc EXCEPT ![d] = "processed"] ELSE doc
    /\ req' = [req EXCEPT ![t] = [Idle EXCEPT !.pc = "pass"]]
    /\ UNCHANGED <<file, dirty>>

\* The transaction is rolled back: the document or an heir has been deleted
\* (foreign keys), or a statement fails.  The status stays "processing".
SaveFails(t) ==
    /\ At(t, "save")
    /\ Finish(t)
    /\ UNCHANGED <<doc, file, question, occ, on, dirty>>

-----------------------------------------------------------------------------
(* import_question_bank, one transaction: the bank's document is created,  *)
(* or detached if it is stored, and its questions are inserted plainly.    *)

ImportRead(t, d) ==
    /\ At(t, "idle") /\ d \in Banks
    /\ \E heir \in HeirsOf({d}) :
          req' = [req EXCEPT ![t] = [Idle EXCEPT !.pc = IF Stored(d) THEN "reimport" ELSE "import",
                                                 !.docs = {d}, !.heir = heir]]
    /\ UNCHANGED <<doc, file, question, occ, on, dirty>>

\* Primary keys: no question that stays has the identity of an imported one.
ImportQuestionBank(t, d) ==
    LET new == [c \in Printed[d] |-> BankRow[c.content]]
        heir == req[t].heir
    IN
    /\ req[t].pc \in {"import", "reimport"} /\ d \in req[t].docs /\ Unlocked(t)
    /\ Stored(d) <=> At(t, "reimport")
    /\ HeirsStored(heir)
    /\ \A c \in Printed[d] : ~Exists(new[c]) \/ new[c] \in DeletedWith({d}, heir)
    /\ question' = [q \in Questions |->
          IF \E c \in Printed[d] : new[c] = q
          THEN NewRow(CHOOSE c \in Printed[d] : new[c] = q, d)
          ELSE RowDetached(q, {d}, heir)]
    /\ occ' = OccDetached({d}, heir) \cup {<<new[c], d>> : c \in Printed[d]}
    /\ AttemptsDetached({d}, heir)
    /\ doc' = [doc EXCEPT ![d] = "processed"]
    /\ dirty' = TRUE
    /\ Finish(t)
    /\ UNCHANGED file

ImportFails(t) ==
    /\ req[t].pc \in {"import", "reimport"}
    /\ Finish(t)
    /\ UNCHANGED <<doc, file, question, occ, on, dirty>>

-----------------------------------------------------------------------------
(* delete_documents: one transaction for all documents of the request.     *)

DeleteRead(t, S) ==
    /\ At(t, "idle") /\ S # {} /\ \A d \in S : Stored(d)
    /\ \E heir \in HeirsOf(S) :
          req' = [req EXCEPT ![t] = [Idle EXCEPT !.pc = "delete", !.docs = S, !.heir = heir]]
    /\ UNCHANGED <<doc, file, question, occ, on, dirty>>

DeleteDocuments(t) ==
    /\ At(t, "delete") /\ Unlocked(t)
    /\ HeirsStored(req[t].heir)
    /\ LET S == req[t].docs  heir == req[t].heir IN
       /\ question' = [q \in Questions |-> RowDetached(q, S, heir)]
       /\ occ' = OccDetached(S, heir)
       /\ AttemptsDetached(S, heir)
       /\ doc' = [d \in Docs |-> IF d \in S THEN "absent" ELSE doc[d]]
       /\ file' = [d \in Docs |-> file[d] /\ d \notin S]
    /\ Finish(t)
    /\ UNCHANGED dirty

\* The transaction is rolled back, but the files it has unlinked stay gone.
DeleteFails(t) ==
    /\ At(t, "delete")
    /\ \E gone \in SUBSET req[t].docs : file' = [d \in Docs |-> file[d] /\ d \notin gone]
    /\ Finish(t)
    /\ UNCHANGED <<doc, question, occ, on, dirty>>

-----------------------------------------------------------------------------
(* run_cleanup_dedupe, after every ingestion or by request.                *)

Cleanup(t) ==
    /\ At(t, "idle")
    /\ req' = [req EXCEPT ![t] = [Idle EXCEPT !.pc = "pass"]]
    /\ UNCHANGED <<doc, file, question, occ, on, dirty>>

\* The keeper of a group is the best of its live copies, or of its discarded
\* ones if there is no other.  Confidence and length decide, so any may be it.
BestCopies(c) ==
    LET group == {q \in Questions : Exists(q) /\ Content(q) = c}
        live == {q \in group : question[q].state = "live"}
    IN  IF live # {} THEN live ELSE group

PassRead(t) ==
    /\ At(t, "pass")
    /\ LET held == {Content(q) : q \in {p \in Questions : Exists(p)}} IN
       \E keeper \in [held -> Questions] :
          /\ \A c \in held : keeper[c] \in BestCopies(c)
          /\ req' = [req EXCEPT ![t].pc = "merge", ![t].into =
                [q \in Questions |-> IF Exists(q) THEN keeper[Content(q)] ELSE q]]
    /\ UNCHANGED <<doc, file, question, occ, on, dirty>>

LiveDups(t) ==                                  \* mutant
    {q \in Questions : question[q].state = "live" /\ req[t].into[q] # q}
Dups(t) == {q \in Questions : Exists(q) /\ req[t].into[q] # q}

\* _merge_references: what refers to a duplicate at this moment moves to its
\* keeper, which must still exist (foreign keys).
MergeReferences(t) ==
    /\ At(t, "merge") /\ Unlocked(t)
    /\ \A q \in Dups(t) : Exists(req[t].into[q])
    /\ req' = [req EXCEPT ![t].pc = "moved",
                  ![t].keyed = {q \in Dups(t) : question[q].key # "none"}]
    /\ UNCHANGED <<doc, file, question, occ, on, dirty>>

\* The rows that refer to a document through a question move to the keeper.
OccLost(t) == {o \in occ : o[1] \notin Dups(t)} \* mutant
OccMerged(t) == {<<req[t].into[o[1]], o[2]>> : o \in occ}

\* The attempts moved with them; one recorded since then falls with the
\* duplicate it was made on.
AttemptsDropped(t) ==                           \* mutant
    [a \in Attempts |-> IF on[a] \in Dups(t) THEN NoQuestion ELSE on[a]]
AttemptsMerged(t) ==
    [a \in Attempts |-> IF on[a] \notin Dups(t) THEN on[a]
                        ELSE IF a \in req[t].late THEN NoQuestion
                        ELSE req[t].into[on[a]]]

\* The keys a keeper may end up with: its own, or that of one of its
\* duplicates, taken over letter by letter.
KeysOfAll(t, k) ==                              \* mutant
    LET heritage == {question[p].key : p \in req[t].keyed}
    IN  IF question[k].key = "none" /\ heritage # {} THEN heritage ELSE {question[k].key}
KeysAfter(t, k) ==
    LET heritage == {question[p].key : p \in {d \in req[t].keyed : req[t].into[d] = k}}
    IN  IF question[k].key = "none" /\ heritage # {} THEN heritage ELSE {question[k].key}

\* The duplicates are deleted, with whatever has come to refer to them since.
PassCommit(t) ==
    /\ At(t, "moved")
    /\ \E keys \in [Questions -> Letters \cup {"none"}] :
          /\ \A q \in Questions : keys[q] \in KeysAfter(t, q)
          /\ question' = [q \in Questions |-> IF q \in Dups(t) THEN NoRow
                                             ELSE [question[q] EXCEPT !.key = keys[q]]]
    /\ occ' = OccMerged(t)
    /\ on' = AttemptsMerged(t)
    /\ dirty' = FALSE
    /\ Finish(t)
    /\ UNCHANGED <<doc, file>>

\* A statement fails (a keeper is gone, say) and the pass is rolled back.
PassFails(t) ==
    /\ req[t].pc \in {"pass", "merge", "moved"}
    /\ dirty' = TRUE
    /\ Finish(t)
    /\ UNCHANGED <<doc, file, question, occ, on>>

-----------------------------------------------------------------------------
(* What students do, in short transactions that may meet a merge pass.     *)

\* The pass has deleted the review schedule of a duplicate that had been
\* tried, so another attempt on it waits for the pass and then fails.
RecordAttempt(a, q) ==
    /\ on[a] = NoQuestion /\ Exists(q)
    /\ \A t \in Threads : Merging(t) /\ q \in Dups(t)
                         => \A b \in Attempts : on[b] = q => b \in req[t].late
    /\ on' = [on EXCEPT ![a] = q]
    /\ req' = [t \in Threads |-> IF Merging(t) /\ q \in Dups(t)
                                 THEN [req[t] EXCEPT !.late = @ \cup {a}] ELSE req[t]]
    /\ UNCHANGED <<doc, file, question, occ, dirty>>

SetCorrection(q, letter) ==
    /\ Exists(q)
    /\ \A t \in Threads : Merging(t) => \A p \in req[t].keyed : q \notin {p, req[t].into[p]}
    /\ question' = [question EXCEPT ![q].key = letter]
    /\ UNCHANGED <<doc, file, occ, on, req, dirty>>

DiscardQuestion(q) ==
    /\ Exists(q)
    /\ \E s \in {"live", "discarded"} : question' = [question EXCEPT ![q].state = s]
    /\ UNCHANGED <<doc, file, occ, on, req, dirty>>

-----------------------------------------------------------------------------

\* The process dies and comes back: open transactions are rolled back, files
\* already unlinked stay gone, and nothing is repaired.
Crash ==
    /\ \E gone \in SUBSET UNION {req[t].docs : t \in {u \in Threads : At(u, "delete")}} :
          file' = [d \in Docs |-> file[d] /\ d \notin gone]
    /\ dirty' = (dirty \/ \E t \in Threads : req[t].pc \in {"pass", "merge", "moved"})
    /\ req' = [t \in Threads |-> Idle]
    /\ UNCHANGED <<doc, question, occ, on>>

Ingestion(t) ==
    \/ \E d \in Docs : ProcessDocument(t, d) \/ SaveQuestions(t, d)
    \/ SetFailed(t) \/ Extracted(t) \/ SaveFails(t)

Import(t) ==
    \/ \E d \in Docs : ImportRead(t, d) \/ ImportQuestionBank(t, d)
    \/ ImportFails(t)

Deletion(t) ==
    \/ \E S \in SUBSET Docs : DeleteRead(t, S)
    \/ DeleteDocuments(t) \/ DeleteFails(t)

Dedupe(t) ==
    \/ Cleanup(t) \/ PassRead(t) \/ MergeReferences(t) \/ PassCommit(t) \/ PassFails(t)

Student ==
    \/ \E a \in Attempts, q \in Questions : RecordAttempt(a, q)
    \/ \E q \in Questions, letter \in Letters : SetCorrection(q, letter)
    \/ \E q \in Questions : DiscardQuestion(q)

Next ==
    \/ \E d \in Docs : StoreUpload(d)
    \/ \E t \in Threads : Ingestion(t) \/ Import(t) \/ Deletion(t) \/ Dedupe(t)
    \/ Student
    \/ Crash

Spec == Init /\ [][Next]_vars

-----------------------------------------------------------------------------
(* Safety, when requests about documents come one at a time.               *)

\* A question belongs to a stored document that contains it, so that no
\* question is out of reach of the deletion of documents.
OwnerContains ==
    \A q \in Questions : Exists(q) =>
        Stored(question[q].owner) /\ <<q, question[q].owner>> \in occ

Shows(d) == {Content(q) : q \in {p \in Questions : <<p, d>> \in occ}}
PrintedContents == [d \in Docs |-> {c.content : c \in Printed[d]}]

\* A processed document shows what its PDF prints and one that has only been
\* uploaded shows nothing, whatever is merged, re-processed or deleted since.
StatusTellsContents ==
    \A d \in Docs :
        /\ doc[d] = "processed" => Shows(d) = PrintedContents[d]
        /\ doc[d] \in {"absent", "uploaded"} => Shows(d) = {}

\* Between requests the bank has one row for each content, unless a bank has
\* been imported, or a pass has failed or died, since the last that went through.
MergedWhenQuiet ==
    (\A t \in Threads : At(t, "idle")) /\ ~dirty =>
        \A p, q \in Questions : Exists(p) /\ Exists(q) /\ Content(p) = Content(q) => p = q

\* An attempt stays with the content it was made on.  It goes only with a
\* question no other document contains - or, if recorded while a merge pass
\* was under way, with the duplicate the pass deletes.
AttemptsFollow ==
    [][\A a \in Attempts : on[a] # NoQuestion =>
        \/ on'[a] # NoQuestion /\ question'[on'[a]].copy.content = Content(on[a])
        \/ on'[a] = NoQuestion /\ \E t \in Threads :
              \/ /\ req[t].pc \in {"save", "delete", "reimport"}
                 /\ Holders(on[a]) \subseteq req[t].docs
              \/ At(t, "moved") /\ a \in req[t].late]_vars

Bank == INSTANCE Catalogue WITH Docs <- Docs, PrintedContents <- PrintedContents,
                               shows <- [d \in Docs |-> Shows(d)]

\* Document by document, the bank changes only when a document is saved or
\* deleted; passes, new owners and failures never show.
ImplementsCatalogue == Bank!Spec

\* The options that the keys of a content point at: "a" and "b" are those that
\* change places in a swapped copy.
Exchanged == {"a", "b"}
Text(row) ==
    IF row.copy.swapped /\ row.key \in Exchanged
    THEN CHOOSE other \in Exchanged : other # row.key ELSE row.key
KeyTexts(c) ==
    {Text(question[q]) : q \in {p \in Questions :
        Exists(p) /\ Content(p) = c /\ question[p].key # "none"}}

\* A key of a content comes to point at another option only by its user, or
\* where a pass hands it to a keeper that has none and lists its options in
\* another order: no ingestion, import, deletion, failure or other merge does it.
KeysTurnOnlyInMerges ==
    [][\A c \in Contents :
        \/ KeyTexts(c)' \subseteq KeyTexts(c)
        \/ req' = req
        \/ \E t \in Threads, p \in Questions :
              /\ At(t, "moved") /\ p \in req[t].keyed /\ Content(p) = c
              /\ question[req[t].into[p]].key = "none"
              /\ question[req[t].into[p]].copy # question[p].copy]_vars

-----------------------------------------------------------------------------
(* Statements of the documentation that the code does not keep.            *)

\* "Attempts, review schedules, corrections, tags and provenance rows all move
\* to the keeper": an attempt goes with a document, never with a duplicate.
MergesKeepAttempts ==
    [][\A a \in Attempts : on[a] # NoQuestion /\ on'[a] = NoQuestion
           => \E t \in Threads : req[t].pc \in {"save", "delete", "reimport"}]_vars

\* "The correct-answer letter ... [is] irrelevant once option order is
\* normalized": only a user changes what the key of a content says.
KeysKeepMeaning == [][req' # req => \A c \in Contents : KeyTexts(c)' \subseteq KeyTexts(c)]_vars

=============================================================================
