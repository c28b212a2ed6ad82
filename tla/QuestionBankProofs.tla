-------------------------- MODULE QuestionBankProofs --------------------------
(***************************************************************************)
(* What holds of the question bank for any number of documents, questions, *)
(* attempts and keys: types for any number of threads, the rest when       *)
(* requests about documents come one at a time.                            *)
(***************************************************************************)
EXTENDS QuestionBank, TLAPS

-----------------------------------------------------------------------------
(* Types.                                                                  *)

LEMMA BlankTypes == Idle \in Request /\ NoRow \in Row /\ NoHeirs \in [Questions -> Docs \cup {NoDoc}]
  BY DEF Idle, Request, Pc, NoHeirs, NoMerge, NoRow, Row

LEMMA NewRowType ==
    ASSUME NEW c \in Copy, NEW d \in Docs
    PROVE  NewRow(c, d) \in Row
  BY DEF NewRow, Row

\* What detach_document_questions has read: a new owner for each question
\* that another document contains, and for no other.
HeirsFit(S, heir) ==
    \A q \in Questions :
        IF Exists(q) /\ question[q].owner \in S /\ Holders(q) \ S # {}
        THEN heir[q] \in Docs \ S /\ <<q, heir[q]>> \in occ
        ELSE heir[q] = NoDoc

LEMMA HeirsRead ==
    ASSUME NEW S \in SUBSET Docs, NEW heir \in HeirsOf(S)
    PROVE  heir \in [Questions -> Docs \cup {NoDoc}] /\ HeirsFit(S, heir)
<1> DEFINE shared == {q \in Questions :
               Exists(q) /\ question[q].owner \in S /\ Holders(q) \ S # {}}
<1>1. PICK h \in [shared -> Docs \ S] :
          /\ \A q \in shared : <<q, h[q]>> \in occ
          /\ heir = [q \in Questions |-> IF q \in shared THEN h[q] ELSE NoDoc]
  BY DEF HeirsOf
<1>2. QED
  BY <1>1 DEF HeirsFit

LEMMA DetachedType ==
    ASSUME TypeOK, NEW S \in SUBSET Docs, NEW heir \in [Questions -> Docs \cup {NoDoc}],
           NEW q \in Questions
    PROVE  RowDetached(q, S, heir) \in Row
<1>1. question[q] \in Row /\ heir[q] \in Docs \cup {NoDoc}
  BY DEF TypeOK
<1>2. [question[q] EXCEPT !.owner = heir[q]] \in Row
  BY <1>1 DEF Row
<1>3. QED
  BY <1>1, <1>2, BlankTypes DEF RowDetached

LEMMA AttemptsDetachedType ==
    ASSUME TypeOK, NEW S, NEW heir, AttemptsDetached(S, heir)
    PROVE  on' \in [Attempts -> Questions \cup {NoQuestion}]
  BY DEF TypeOK, AttemptsDetached

\* A document's contribution is replaced: what SaveQuestions and
\* ImportQuestionBank have in common.
Replaces(d, heir, new) ==
    /\ question' = [q \in Questions |->
          IF \E c \in Printed[d] : new[c] = q
          THEN NewRow(CHOOSE c \in Printed[d] : new[c] = q, d)
          ELSE RowDetached(q, {d}, heir)]
    /\ occ' = OccDetached({d}, heir) \cup {<<new[c], d>> : c \in Printed[d]}
    /\ AttemptsDetached({d}, heir)

LEMMA ReplacesType ==
    ASSUME TypeOK, NEW d \in Docs, NEW heir \in [Questions -> Docs \cup {NoDoc}],
           NEW new \in [Printed[d] -> Questions], Replaces(d, heir, new)
    PROVE  /\ question' \in [Questions -> Row]
           /\ occ' \in SUBSET (Questions \X Docs)
           /\ on' \in [Attempts -> Questions \cup {NoQuestion}]
<1>1. Printed[d] \subseteq Copy
  BY ConstantsAssumption
<1>2. ASSUME NEW q \in Questions
      PROVE  (IF \E c \in Printed[d] : new[c] = q
              THEN NewRow(CHOOSE c \in Printed[d] : new[c] = q, d)
              ELSE RowDetached(q, {d}, heir)) \in Row
  <2>1. CASE \E c \in Printed[d] : new[c] = q
    <3>1. (CHOOSE c \in Printed[d] : new[c] = q) \in Printed[d]
      BY <2>1
    <3>2. QED
      BY <1>1, <2>1, <3>1, NewRowType
  <2>2. CASE ~ \E c \in Printed[d] : new[c] = q
    BY <2>2, DetachedType
  <2>3. QED
    BY <2>1, <2>2
<1>3. question' \in [Questions -> Row]
  BY <1>2 DEF Replaces
<1>4. OccDetached({d}, heir) \in SUBSET (Questions \X Docs)
  BY DEF OccDetached, TypeOK
<1>5. {<<new[c], d>> : c \in Printed[d]} \in SUBSET (Questions \X Docs)
  OBVIOUS
<1>6. QED
  BY <1>3, <1>4, <1>5, AttemptsDetachedType DEF Replaces

LEMMA FreshType ==
    ASSUME NEW d \in Docs, NEW new \in FreshFor(d)
    PROVE  /\ new \in [Printed[d] -> Questions]
           /\ \A c, e \in Printed[d] : new[c] = new[e] => c = e
           /\ \A c \in Printed[d] : ~Exists(new[c])
  BY DEF FreshFor, Free

LEMMA BankRowsType ==
    ASSUME NEW d \in Docs
    PROVE  LET new == [c \in Printed[d] |-> BankRow[c.content]] IN
           /\ new \in [Printed[d] -> Questions]
           /\ d \in Banks => \A c, e \in Printed[d] : new[c] = new[e] => c = e
<1>1. Printed[d] \subseteq Copy
  BY ConstantsAssumption
<1>2. \A c \in Printed[d] : c.content \in Contents
  BY <1>1 DEF Copy
<1>3. QED
  BY <1>2, ConstantsAssumption

LEMMA IngestionTypeOK ==
    ASSUME TypeOK, NEW t \in Threads, Ingestion(t)
    PROVE  TypeOK'
<1>1. req[t] \in Request
  BY DEF TypeOK
<1>2. ASSUME NEW d \in Docs, ProcessDocument(t, d)
      PROVE  TypeOK'
  <2>1. [Idle EXCEPT !.pc = "extract", !.docs = {d}] \in Request
    BY BlankTypes DEF Request, Pc
  <2>2. QED
    BY <1>2, <2>1 DEF ProcessDocument, TypeOK, Status
<1>3. ASSUME NEW d \in Docs, SaveQuestions(t, d)
      PROVE  TypeOK'
  <2>1. PICK new \in FreshFor(d) : Replaces(d, req[t].heir, new)
    BY <1>3 DEF SaveQuestions, Replaces
  <2>2. req[t].heir \in [Questions -> Docs \cup {NoDoc}]
    BY <1>1 DEF Request
  <2>3. /\ question' \in [Questions -> Row]
        /\ occ' \in SUBSET (Questions \X Docs)
        /\ on' \in [Attempts -> Questions \cup {NoQuestion}]
    BY <2>1, <2>2, FreshType, ReplacesType
  <2>4. [Idle EXCEPT !.pc = "pass"] \in Request
    BY BlankTypes DEF Request, Pc
  <2>5. QED
    BY <1>3, <2>3, <2>4 DEF SaveQuestions, TypeOK, Status
<1>4. CASE SetFailed(t)
  BY <1>4, BlankTypes DEF SetFailed, FailedAs, Finish, TypeOK, Status
<1>5. CASE Extracted(t)
  <2>1. PICK heir \in HeirsOf(req[t].docs) :
            req' = [req EXCEPT ![t].pc = "save", ![t].heir = heir]
    BY <1>5 DEF Extracted
  <2>2. heir \in [Questions -> Docs \cup {NoDoc}]
    BY <1>1, <2>1, HeirsRead DEF Request
  <2>3. [req[t] EXCEPT !.pc = "save", !.heir = heir] \in Request
    BY <1>1, <2>2 DEF Request, Pc
  <2>4. QED
    BY <1>5, <2>1, <2>3 DEF Extracted, TypeOK
<1>6. CASE SaveFails(t)
  BY <1>6, BlankTypes DEF SaveFails, Finish, TypeOK
<1>7. QED
  BY <1>2, <1>3, <1>4, <1>5, <1>6 DEF Ingestion

LEMMA ImportTypeOK ==
    ASSUME TypeOK, NEW t \in Threads, Import(t)
    PROVE  TypeOK'
<1>1. req[t] \in Request
  BY DEF TypeOK
<1>2. ASSUME NEW d \in Docs, ImportRead(t, d)
      PROVE  TypeOK'
  <2> DEFINE pc == IF Stored(d) THEN "reimport" ELSE "import"
  <2>1. PICK heir \in HeirsOf({d}) :
            req' = [req EXCEPT ![t] = [Idle EXCEPT !.pc = pc, !.docs = {d}, !.heir = heir]]
    BY <1>2 DEF ImportRead
  <2>2. heir \in [Questions -> Docs \cup {NoDoc}]
    BY <2>1, HeirsRead
  <2>3. [Idle EXCEPT !.pc = pc, !.docs = {d}, !.heir = heir] \in Request
    BY <2>2, BlankTypes DEF Request, Pc
  <2>4. QED
    BY <1>2, <2>1, <2>3 DEF ImportRead, TypeOK
<1>3. ASSUME NEW d \in Docs, ImportQuestionBank(t, d)
      PROVE  TypeOK'
  <2> DEFINE new == [c \in Printed[d] |-> BankRow[c.content]]
  <2>1. Replaces(d, req[t].heir, new)
    BY <1>3 DEF ImportQuestionBank, Replaces
  <2>2. req[t].heir \in [Questions -> Docs \cup {NoDoc}]
    BY <1>1 DEF Request
  <2>3. new \in [Printed[d] -> Questions]
    BY <1>3, BankRowsType
  <2>4. /\ question' \in [Questions -> Row]
        /\ occ' \in SUBSET (Questions \X Docs)
        /\ on' \in [Attempts -> Questions \cup {NoQuestion}]
    BY <2>1, <2>2, <2>3, ReplacesType
  <2>5. QED
    BY <1>3, <2>4, BlankTypes DEF ImportQuestionBank, Finish, TypeOK, Status
<1>4. CASE ImportFails(t)
  BY <1>4, BlankTypes DEF ImportFails, Finish, TypeOK
<1>5. QED
  BY <1>2, <1>3, <1>4 DEF Import

LEMMA DeletionTypeOK ==
    ASSUME TypeOK, NEW t \in Threads, Deletion(t)
    PROVE  TypeOK'
<1>1. req[t] \in Request
  BY DEF TypeOK
<1>2. ASSUME NEW S \in SUBSET Docs, DeleteRead(t, S)
      PROVE  TypeOK'
  <2>1. PICK heir \in HeirsOf(S) :
            req' = [req EXCEPT ![t] = [Idle EXCEPT !.pc = "delete", !.docs = S, !.heir = heir]]
    BY <1>2 DEF DeleteRead
  <2>2. heir \in [Questions -> Docs \cup {NoDoc}]
    BY <2>1, HeirsRead
  <2>3. [Idle EXCEPT !.pc = "delete", !.docs = S, !.heir = heir] \in Request
    BY <2>2, BlankTypes DEF Request, Pc
  <2>4. QED
    BY <1>2, <2>1, <2>3 DEF DeleteRead, TypeOK
<1>3. CASE DeleteDocuments(t)
  <2>1. req[t].heir \in [Questions -> Docs \cup {NoDoc}] /\ req[t].docs \in SUBSET Docs
    BY <1>1 DEF Request
  <2>2. question' \in [Questions -> Row]
    BY <1>3, <2>1, DetachedType DEF DeleteDocuments
  <2>3. occ' \in SUBSET (Questions \X Docs)
    BY <1>3 DEF DeleteDocuments, OccDetached, TypeOK
  <2>4. on' \in [Attempts -> Questions \cup {NoQuestion}]
    BY <1>3, AttemptsDetachedType DEF DeleteDocuments
  <2>5. QED
    BY <1>3, <2>2, <2>3, <2>4, BlankTypes DEF DeleteDocuments, Finish, TypeOK, Status
<1>4. CASE DeleteFails(t)
  BY <1>4, BlankTypes DEF DeleteFails, Finish, TypeOK
<1>5. QED
  BY <1>2, <1>3, <1>4 DEF Deletion

LEMMA DedupeTypeOK ==
    ASSUME TypeOK, NEW t \in Threads, Dedupe(t)
    PROVE  TypeOK'
<1>1. req[t] \in Request
  BY DEF TypeOK
<1>2. CASE Cleanup(t)
  <2>1. [Idle EXCEPT !.pc = "pass"] \in Request
    BY BlankTypes DEF Request, Pc
  <2>2. QED
    BY <1>2, <2>1 DEF Cleanup, TypeOK
<1>3. CASE PassRead(t)
  <2> DEFINE held == {Content(q) : q \in {p \in Questions : Exists(p)}}
             into(keeper) == [q \in Questions |-> IF Exists(q) THEN keeper[Content(q)] ELSE q]
  <2>1. PICK keeper \in [held -> Questions] :
            req' = [req EXCEPT ![t].pc = "merge", ![t].into = into(keeper)]
    BY <1>3 DEF PassRead
  <2>2. into(keeper) \in [Questions -> Questions]
    BY <2>1
  <2>3. [req[t] EXCEPT !.pc = "merge", !.into = into(keeper)] \in Request
    BY <1>1, <2>2 DEF Request, Pc
  <2>4. QED
    BY <1>3, <2>1, <2>3 DEF PassRead, TypeOK
<1>4. CASE MergeReferences(t)
  <2> DEFINE keyed == {q \in Dups(t) : question[q].key # "none"}
  <2>1. [req[t] EXCEPT !.pc = "moved", !.keyed = keyed] \in Request
    BY <1>1 DEF Request, Pc, Dups
  <2>2. QED
    BY <1>4, <2>1 DEF MergeReferences, TypeOK
<1>5. CASE PassCommit(t)
  <2>1. \A q \in Questions : req[t].into[q] \in Questions
    BY <1>1 DEF Request
  <2>2. question' \in [Questions -> Row]
    <3>1. PICK keys \in [Questions -> Letters \cup {"none"}] :
              question' = [q \in Questions |-> IF q \in Dups(t) THEN NoRow
                                               ELSE [question[q] EXCEPT !.key = keys[q]]]
      BY <1>5 DEF PassCommit
    <3>2. \A q \in Questions : [question[q] EXCEPT !.key = keys[q]] \in Row
      BY <3>1 DEF TypeOK, Row
    <3>3. QED
      BY <3>1, <3>2, BlankTypes
  <2>3. occ' \in SUBSET (Questions \X Docs)
    BY <1>5, <2>1 DEF PassCommit, OccMerged, TypeOK
  <2>4. on' \in [Attempts -> Questions \cup {NoQuestion}]
    BY <1>5, <2>1 DEF PassCommit, AttemptsMerged, Dups, TypeOK
  <2>5. QED
    BY <1>5, <2>2, <2>3, <2>4, BlankTypes DEF PassCommit, Finish, TypeOK
<1>6. CASE PassFails(t)
  BY <1>6, BlankTypes DEF PassFails, Finish, TypeOK
<1>7. QED
  BY <1>2, <1>3, <1>4, <1>5, <1>6 DEF Dedupe

LEMMA StudentTypeOK ==
    ASSUME TypeOK, Student
    PROVE  TypeOK'
<1>1. ASSUME NEW a \in Attempts, NEW q \in Questions, RecordAttempt(a, q)
      PROVE  TypeOK'
  <2>1. \A t \in Threads : [req[t] EXCEPT !.late = @ \cup {a}] \in Request
    BY DEF TypeOK, Request
  <2>2. QED
    BY <1>1, <2>1 DEF RecordAttempt, TypeOK
<1>2. ASSUME NEW q \in Questions, NEW letter \in Letters, SetCorrection(q, letter)
      PROVE  TypeOK'
  BY <1>2 DEF SetCorrection, TypeOK, Row
<1>3. ASSUME NEW q \in Questions, DiscardQuestion(q)
      PROVE  TypeOK'
  BY <1>3 DEF DiscardQuestion, TypeOK, Row
<1>4. QED
  BY <1>1, <1>2, <1>3 DEF Student

LEMMA InitTypeOK == Init => TypeOK
  BY BlankTypes DEF Init, TypeOK, Status

LEMMA StepTypeOK == TypeOK /\ [Next]_vars => TypeOK'
<1> SUFFICES ASSUME TypeOK, [Next]_vars PROVE TypeOK'
  OBVIOUS
<1>1. ASSUME NEW d \in Docs, StoreUpload(d)
      PROVE  TypeOK'
  BY <1>1 DEF StoreUpload, TypeOK, Status
<1>2. CASE Crash
  BY <1>2, BlankTypes DEF Crash, TypeOK
<1>3. CASE UNCHANGED vars
  BY <1>3 DEF vars, TypeOK
<1>4. QED
  BY <1>1, <1>2, <1>3, IngestionTypeOK, ImportTypeOK, DeletionTypeOK, DedupeTypeOK,
     StudentTypeOK DEF Next

\* Type correctness, for any number of requests at once.
THEOREM TypeCorrect == Spec => []TypeOK
  BY InitTypeOK, StepTypeOK, PTL DEF Spec

-----------------------------------------------------------------------------
(* One request about documents at a time.                                  *)

OneAtATime == \A t, u \in Threads : t = u

\* Rows, provenance and attempts refer to what is there, and a row is a copy
\* that some document prints.
RowsInv ==
    /\ OwnerContains
    /\ \A q \in Questions : Exists(q) => \E d \in Docs : question[q].copy \in Printed[d]
    /\ \A q \in Questions, d \in Docs : <<q, d>> \in occ => Exists(q) /\ Stored(d)
    /\ \A a \in Attempts : on[a] # NoQuestion => Exists(on[a])

\* The keepers a pass has chosen: one for all rows of a content.
KeepersFit(into) ==
    /\ \A q \in Questions : IF Exists(q) THEN Exists(into[q]) /\ Content(into[q]) = Content(q)
                                        ELSE into[q] = q
    /\ \A p, q \in Questions : Exists(p) /\ Exists(q) /\ Content(p) = Content(q)
                                => into[p] = into[q]

\* What a request has read is still so.
RequestFits(t) ==
    LET r == req[t] IN
    /\ r.pc \in {"extract", "save"} => \E d \in Docs : r.docs = {d} /\ Stored(d)
    /\ r.pc \in {"import", "reimport"} =>
           \E d \in Banks : r.docs = {d} /\ (Stored(d) <=> r.pc = "reimport")
    /\ r.pc \in {"save", "delete", "import", "reimport"} => HeirsFit(r.docs, r.heir)
    /\ r.pc \in {"merge", "moved"} => KeepersFit(r.into)
    /\ r.pc = "moved" => \A q \in r.keyed : q \in Dups(t) /\ question[q].key # "none"

RequestsFit == \A t \in Threads : RequestFits(t)

Distinct == \A p, q \in Questions :
    Exists(p) /\ Exists(q) /\ Content(p) = Content(q) => p = q

\* Only the requests that end in a pass may leave copies behind meanwhile.
MergedInv ==
    ~dirty /\ (\A t \in Threads : req[t].pc \notin {"pass", "merge", "moved"}) => Distinct

BankInv == RowsInv /\ StatusTellsContents /\ RequestsFit /\ MergedInv

LEMMA InitBankInv == Init => BankInv
  BY DEF Init, BankInv, RowsInv, OwnerContains, Exists, NoRow, StatusTellsContents, Shows,
         RequestsFit, RequestFits, Idle, MergedInv, Distinct

-----------------------------------------------------------------------------
(* Detaching.                                                              *)

\* A row goes if no other document contains it; another one changes its owner
\* at most, to a document that contains it.
LEMMA RowAfterDetaching ==
    ASSUME TypeOK, RowsInv, NEW S \in SUBSET Docs,
           NEW heir \in [Questions -> Docs \cup {NoDoc}], HeirsFit(S, heir), NEW q \in Questions
    PROVE  /\ q \in DeletedWith(S, heir) =>
                  /\ Exists(q) /\ question[q].owner \in S /\ Holders(q) \subseteq S
                  /\ RowDetached(q, S, heir) = NoRow
           /\ q \notin DeletedWith(S, heir) =>
                  LET row == RowDetached(q, S, heir) IN
                  /\ row.state = question[q].state
                  /\ row.copy = question[q].copy /\ row.key = question[q].key
                  /\ Exists(q) => row.owner \in Docs \ S /\ <<q, row.owner>> \in occ
<1>1. question[q] \in Row /\ heir[q] \in Docs \cup {NoDoc} /\ NoDoc \notin Docs
  BY ConstantsAssumption DEF TypeOK
<1>2. CASE q \in DeletedWith(S, heir)
  BY <1>1, <1>2 DEF DeletedWith, HeirsFit, RowDetached
<1>3. CASE q \notin DeletedWith(S, heir)
  <2>1. CASE Exists(q) /\ heir[q] # NoDoc
    <3>1. heir[q] \in Docs \ S /\ <<q, heir[q]>> \in occ
      BY <2>1 DEF HeirsFit
    <3>2. RowDetached(q, S, heir) = [question[q] EXCEPT !.owner = heir[q]]
      BY <1>3, <2>1 DEF RowDetached
    <3>3. QED
      BY <1>1, <1>3, <3>1, <3>2 DEF Row
  <2>2. CASE ~(Exists(q) /\ heir[q] # NoDoc)
    <3>1. RowDetached(q, S, heir) = question[q]
      BY <1>3, <2>2 DEF RowDetached
    <3>2. Exists(q) => question[q].owner \in Docs \ S /\ <<q, question[q].owner>> \in occ
      BY <1>1, <1>3, <2>2 DEF DeletedWith, RowsInv, OwnerContains, TypeOK
    <3>3. QED
      BY <1>3, <3>1, <3>2
  <2>3. QED
    BY <2>1, <2>2
<1>4. QED
  BY <1>2, <1>3

\* delete_documents: the rows of the other documents stay, and what they show.
LEMMA DeleteDocumentsRows ==
    ASSUME TypeOK, RowsInv, NEW t \in Threads, RequestFits(t), DeleteDocuments(t)
    PROVE  /\ RowsInv'
           /\ \A d \in Docs : Shows(d)' = IF d \in req[t].docs THEN {} ELSE Shows(d)
           /\ \A q \in Questions : Exists(q)' => Exists(q) /\ Content(q)' = Content(q)
           /\ \A a \in Attempts : on[a] # NoQuestion =>
                  \/ on'[a] = on[a] /\ Exists(on[a])'
                  \/ on'[a] = NoQuestion /\ Holders(on[a]) \subseteq req[t].docs
<1> DEFINE S == req[t].docs
           heir == req[t].heir
           gone == DeletedWith(S, heir)
<1>1. S \in SUBSET Docs /\ heir \in [Questions -> Docs \cup {NoDoc}] /\ HeirsFit(S, heir)
  BY DEF TypeOK, Request, RequestFits, DeleteDocuments, At
<1>2. /\ \A q \in Questions : question'[q] = RowDetached(q, S, heir)
      /\ occ' = {o \in occ : o[2] \notin S /\ o[1] \notin gone}
      /\ \A a \in Attempts : on'[a] = IF on[a] \in gone THEN NoQuestion ELSE on[a]
      /\ doc' = [d \in Docs |-> IF d \in S THEN "absent" ELSE doc[d]]
  BY DEF DeleteDocuments, OccDetached, AttemptsDetached
<1>3. \A q \in Questions :
          /\ q \in gone => ~Exists(q)' /\ Holders(q) \subseteq S
          /\ q \notin gone =>
                 /\ (Exists(q)' <=> Exists(q)) /\ question'[q].copy = question[q].copy
                 /\ Exists(q) => question'[q].owner \in Docs \ S
                                 /\ <<q, question'[q].owner>> \in occ
  BY <1>1, <1>2, RowAfterDetaching DEF Exists, NoRow
<1>4. \A q \in Questions, d \in Docs :
          <<q, d>> \in occ' <=> <<q, d>> \in occ /\ d \notin S /\ q \notin gone
  BY <1>2
<1>5. \A q \in Questions, d \in Docs : <<q, d>> \in occ /\ d \notin S => q \notin gone
  BY <1>3 DEF Holders
<1>6. RowsInv'
  <2>1. OwnerContains'
    BY <1>2, <1>3, <1>4 DEF RowsInv, OwnerContains, Stored, TypeOK
  <2>2. \A q \in Questions, d \in Docs : <<q, d>> \in occ' => Exists(q)' /\ Stored(d)'
    BY <1>2, <1>3, <1>4 DEF RowsInv, Stored
  <2>3. \A a \in Attempts : on'[a] # NoQuestion => question'[on'[a]].state # "absent"
    <3>1. \A a \in Attempts : on[a] # NoQuestion => on[a] \in Questions /\ Exists(on[a])
      BY DEF RowsInv, TypeOK
    <3>2. ASSUME NEW a \in Attempts, on'[a] # NoQuestion
          PROVE  on'[a] = on[a] /\ on[a] # NoQuestion /\ on[a] \notin gone
      BY <1>2, <3>2
    <3>3. ASSUME NEW a \in Attempts, on'[a] # NoQuestion
          PROVE  Exists(on[a])'
      BY <1>3, <3>1, <3>2, <3>3
    <3>4. QED
      BY <3>2, <3>3 DEF Exists
  <2>4. \A q \in Questions : Exists(q)' => \E d \in Docs : question'[q].copy \in Printed[d]
    BY <1>3 DEF RowsInv
  <2>5. QED
    BY <2>1, <2>2, <2>3, <2>4 DEF RowsInv, Exists
<1>7. \A d \in Docs : Shows(d)' = IF d \in S THEN {} ELSE Shows(d)
  BY <1>3, <1>4, <1>5 DEF Shows, Content
<1>8. QED
  BY <1>2, <1>3, <1>6, <1>7 DEF RowsInv, Content, TypeOK

\* process_document and import_question_bank: the document shows what its file
\* holds, the others what they showed.
LEMMA ReplacesRows ==
    ASSUME TypeOK, RowsInv, NEW d \in Docs,
           NEW heir \in [Questions -> Docs \cup {NoDoc}], HeirsFit({d}, heir),
           NEW new \in [Printed[d] -> Questions],
           \A c, e \in Printed[d] : new[c] = new[e] => c = e,
           \A c \in Printed[d] : Exists(new[c]) => new[c] \in DeletedWith({d}, heir),
           Replaces(d, heir, new), doc' = [doc EXCEPT ![d] = "processed"]
    PROVE  /\ RowsInv'
           /\ \A e \in Docs : Shows(e)' = IF e = d THEN PrintedContents[d] ELSE Shows(e)
           /\ \A a \in Attempts : on[a] # NoQuestion =>
                  \/ /\ on'[a] = on[a]
                     /\ question'[on[a]].copy.content = Content(on[a])
                  \/ /\ on'[a] = NoQuestion
                     /\ Exists(on[a]) /\ question[on[a]].owner = d
                     /\ Holders(on[a]) \subseteq {d}
<1> DEFINE gone == DeletedWith({d}, heir)
           fresh == {new[c] : c \in Printed[d]}
<1>a. \A q \in Questions : q \notin fresh => question'[q] = RowDetached(q, {d}, heir)
  BY DEF Replaces
<1>b. ASSUME NEW c \in Printed[d]
      PROVE  question'[new[c]] = NewRow(c, d)
  <2>1. (CHOOSE e \in Printed[d] : new[e] = new[c]) = c
    OBVIOUS
  <2>2. QED
    BY <2>1 DEF Replaces
<1>c. \A a \in Attempts : on'[a] = IF on[a] \in gone THEN NoQuestion ELSE on[a]
  BY DEF Replaces, AttemptsDetached
<1>1. \A q \in Questions : q \in fresh => ~Exists(q) \/ q \in gone
  OBVIOUS
<1>2. ASSUME NEW q \in Questions
      PROVE  /\ q \in gone => /\ Exists(q) /\ question[q].owner = d /\ Holders(q) \subseteq {d}
                              /\ q \notin fresh => ~Exists(q)'
             /\ q \notin gone /\ Exists(q) =>
                    /\ q \notin fresh
                    /\ Exists(q)' /\ question'[q].copy = question[q].copy
                    /\ question'[q].owner \in Docs \ {d} /\ <<q, question'[q].owner>> \in occ
             /\ ~Exists(q) /\ q \notin fresh => ~Exists(q)'
  <2> DEFINE row == RowDetached(q, {d}, heir)
  <2>1. /\ q \in gone => /\ Exists(q) /\ question[q].owner \in {d} /\ Holders(q) \subseteq {d}
                         /\ row = NoRow
        /\ q \notin gone => /\ row.state = question[q].state /\ row.copy = question[q].copy
                            /\ Exists(q) => row.owner \in Docs \ {d} /\ <<q, row.owner>> \in occ
    <3>1. {d} \in SUBSET Docs
      OBVIOUS
    <3> HIDE DEF gone, row
    <3>2. /\ q \in DeletedWith({d}, heir) =>
                  /\ Exists(q) /\ question[q].owner \in {d} /\ Holders(q) \subseteq {d}
                  /\ row = NoRow
          /\ q \notin DeletedWith({d}, heir) =>
                  /\ row.state = question[q].state
                  /\ row.copy = question[q].copy /\ row.key = question[q].key
                  /\ Exists(q) => row.owner \in Docs \ {d} /\ <<q, row.owner>> \in occ
      BY <3>1, RowAfterDetaching, Zenon DEF row
    <3>3. QED
      BY <3>2 DEF gone
  <2>2. q \notin fresh => question'[q] = row
    BY <1>a
  <2> HIDE DEF row, gone, fresh
  <2>3. QED
    BY <1>1, <2>1, <2>2 DEF Exists, NoRow
<1>3. ASSUME NEW c \in Printed[d]
      PROVE  /\ new[c] \in Questions /\ new[c] \in fresh
             /\ Exists(new[c])' /\ question'[new[c]].copy = c /\ question'[new[c]].owner = d
  <2>1. question'[new[c]] = NewRow(c, d)
    BY <1>b
  <2>2. QED
    BY <2>1 DEF Exists, NewRow
<1>4. ASSUME NEW q \in Questions, NEW e \in Docs
      PROVE  <<q, e>> \in occ' <=> IF e = d THEN q \in fresh ELSE <<q, e>> \in occ
  <2>1. occ' = {o \in occ : o[2] \notin {d} /\ o[1] \notin gone} \cup {<<new[c], d>> : c \in Printed[d]}
    BY DEF Replaces, OccDetached
  <2>2. <<q, e>> \in occ /\ e # d => q \notin gone
    BY <1>2 DEF Holders
  <2> HIDE DEF gone
  <2>3. QED
    BY <2>1, <2>2
<1>5. \A e \in Docs : Stored(e)' <=> Stored(e) \/ e = d
  BY DEF Stored, TypeOK
<1>6. RowsInv'
  <2>1. OwnerContains'
    <3> SUFFICES ASSUME NEW q \in Questions, Exists(q)'
                 PROVE  Stored(question[q].owner)' /\ <<q, question'[q].owner>> \in occ'
      BY DEF OwnerContains
    <3>1. CASE q \in fresh
      BY <1>3, <1>4, <1>5, <3>1 DEF Stored
    <3>2. CASE q \notin fresh
      <4>1. /\ question'[q].owner \in Docs \ {d} /\ <<q, question'[q].owner>> \in occ
        BY <1>2, <3>2
      <4>2. QED
        BY <1>4, <1>5, <4>1 DEF RowsInv, Stored
    <3>3. QED
      BY <3>1, <3>2
  <2>2. \A q \in Questions, e \in Docs : <<q, e>> \in occ' => Exists(q)' /\ Stored(e)'
    <3> SUFFICES ASSUME NEW q \in Questions, NEW e \in Docs, <<q, e>> \in occ'
                 PROVE  Exists(q)' /\ Stored(e)'
      OBVIOUS
    <3>1. CASE e = d
      BY <1>3, <1>4, <1>5, <3>1
    <3>2. CASE e # d
      BY <1>2, <1>4, <1>5, <3>2 DEF RowsInv, Holders
    <3>3. QED
      BY <3>1, <3>2
  <2>3. ASSUME NEW a \in Attempts, on'[a] # NoQuestion
        PROVE  question'[on'[a]].state # "absent"
    <3>1. on[a] \notin gone /\ on'[a] = on[a]
      BY <1>c, <2>3
    <3>2. on[a] \in Questions /\ Exists(on[a])
      BY <2>3, <3>1 DEF RowsInv, TypeOK
    <3>3. Exists(on[a])'
      BY <1>2, <3>1, <3>2
    <3>4. QED
      BY <3>1, <3>3 DEF Exists
  <2>4. ASSUME NEW q \in Questions, Exists(q)'
        PROVE  \E e \in Docs : question'[q].copy \in Printed[e]
    <3>1. CASE q \in fresh
      BY <1>3, <3>1
    <3>2. CASE q \notin fresh
      <4>1. Exists(q) /\ question'[q].copy = question[q].copy
        BY <1>2, <2>4, <3>2
      <4>2. QED
        BY <4>1 DEF RowsInv
    <3>3. QED
      BY <3>1, <3>2
  <2>5. QED
    BY <2>1, <2>2, <2>3, <2>4 DEF RowsInv, Exists
<1>7. ASSUME NEW e \in Docs
      PROVE  Shows(e)' = IF e = d THEN PrintedContents[d] ELSE Shows(e)
  <2>1. CASE e = d
    <3>1. Shows(d)' = {question'[q].copy.content : q \in {p \in Questions : p \in fresh}}
      BY <1>4 DEF Shows, Content
    <3>2. QED
      BY <1>3, <2>1, <3>1 DEF PrintedContents
  <2>2. CASE e # d
    <3>1. \A q \in Questions : <<q, e>> \in occ' <=> <<q, e>> \in occ
      BY <1>4, <2>2
    <3>2. ASSUME NEW q \in Questions, <<q, e>> \in occ
          PROVE  question'[q].copy = question[q].copy
      <4>1. Exists(q) /\ q \notin gone
        BY <1>2, <2>2, <3>2 DEF RowsInv, Holders
      <4>2. QED
        BY <1>2, <4>1
    <3>3. ASSUME NEW c, c \in Shows(e)'
          PROVE  c \in Shows(e)
      <4>1. PICK q \in Questions : <<q, e>> \in occ' /\ c = question'[q].copy.content
        BY <3>3 DEF Shows, Content
      <4>2. <<q, e>> \in occ /\ c = Content(q)
        BY <3>1, <3>2, <4>1 DEF Content
      <4>3. QED
        BY <4>2 DEF Shows
    <3>4. ASSUME NEW c, c \in Shows(e)
          PROVE  c \in Shows(e)'
      <4>1. PICK q \in Questions : <<q, e>> \in occ /\ c = question[q].copy.content
        BY <3>4 DEF Shows, Content
      <4>2. <<q, e>> \in occ' /\ c = Content(q)'
        BY <3>1, <3>2, <4>1 DEF Content
      <4>3. QED
        BY <4>2 DEF Shows
    <3>5. Shows(e)' = Shows(e)
      BY <3>3, <3>4
    <3>6. QED
      BY <2>2, <3>5
  <2>3. QED
    BY <2>1, <2>2
<1>8. ASSUME NEW a \in Attempts, on[a] # NoQuestion
      PROVE  \/ on'[a] = on[a] /\ question'[on[a]].copy.content = Content(on[a])
             \/ /\ on'[a] = NoQuestion
                /\ Exists(on[a]) /\ question[on[a]].owner = d
                /\ Holders(on[a]) \subseteq {d}
  <2>1. on[a] \in Questions /\ Exists(on[a])
    BY <1>8 DEF RowsInv, TypeOK
  <2>2. QED
    BY <1>c, <1>2, <2>1 DEF Content
<1>9. QED
  BY <1>6, <1>7, <1>8

-----------------------------------------------------------------------------
(* What a step does to the rest of the bank.                               *)

\* What each document shows changes as the catalogue lets it.
ShowsStep ==
    \/ \A e \in Docs : Shows(e)' = Shows(e)
    \/ \E d \in Docs : \A e \in Docs :
           Shows(e)' = IF e = d THEN PrintedContents[d] ELSE Shows(e)
    \/ \E S \in SUBSET Docs : \A e \in Docs : Shows(e)' = IF e \in S THEN {} ELSE Shows(e)

AttemptsStep ==
    \A a \in Attempts : on[a] # NoQuestion =>
        \/ on'[a] # NoQuestion /\ question'[on'[a]].copy.content = Content(on[a])
        \/ on'[a] = NoQuestion /\ \E t \in Threads :
              \/ /\ req[t].pc \in {"save", "delete", "reimport"}
                 /\ Holders(on[a]) \subseteq req[t].docs
              \/ At(t, "moved") /\ a \in req[t].late

StepFits == BankInv' /\ ShowsStep /\ AttemptsStep

\* Rows are the same but for their keys and for being discarded.
SameRows ==
    /\ \A q \in Questions :
           /\ Exists(q)' <=> Exists(q)
           /\ question'[q].copy = question[q].copy
           /\ question'[q].owner = question[q].owner
    /\ occ' = occ
    /\ \A d \in Docs : Stored(d) => Stored(d)'

LEMMA SameRowsKeep ==
    ASSUME TypeOK, RowsInv, SameRows,
           \A a \in Attempts : on'[a] = on[a] \/ (on'[a] \in Questions /\ Exists(on'[a]))
    PROVE  /\ RowsInv'
           /\ \A d \in Docs : Shows(d)' = Shows(d)
           /\ Distinct => Distinct'
<1>1. OwnerContains'
  <2> SUFFICES ASSUME NEW q \in Questions, Exists(q)'
               PROVE  Stored(question[q].owner)' /\ <<q, question'[q].owner>> \in occ'
    BY DEF OwnerContains
  <2>1. /\ question'[q].owner = question[q].owner /\ Exists(q)
    BY DEF SameRows
  <2>2. Stored(question[q].owner) /\ <<q, question[q].owner>> \in occ
    BY <2>1 DEF RowsInv, OwnerContains
  <2>3. question[q].owner \in Docs
    BY <2>2 DEF TypeOK
  <2>4. QED
    BY <2>1, <2>2, <2>3 DEF SameRows, Stored
<1>2. \A q \in Questions : Exists(q)' => \E d \in Docs : question'[q].copy \in Printed[d]
  BY DEF SameRows, RowsInv
<1>3. \A q \in Questions, d \in Docs : <<q, d>> \in occ' => Exists(q)' /\ Stored(d)'
  BY DEF SameRows, RowsInv
<1>4. ASSUME NEW a \in Attempts, on'[a] # NoQuestion
      PROVE  question'[on'[a]].state # "absent"
  <2>1. on'[a] \in Questions /\ Exists(on'[a])
    BY <1>4 DEF RowsInv, TypeOK
  <2>2. QED
    BY <2>1 DEF SameRows, Exists
<1>5. \A d \in Docs : Shows(d)' = Shows(d)
  BY DEF SameRows, Shows, Content
<1>6. Distinct => Distinct'
  BY DEF SameRows, Distinct, Content
<1>7. QED
  BY <1>1, <1>2, <1>3, <1>4, <1>5, <1>6 DEF RowsInv, Exists

LEMMA SameRowsKeepHeirs ==
    ASSUME SameRows, NEW S, NEW heir, HeirsFit(S, heir)
    PROVE  HeirsFit(S, heir)'
<1>1. \A q \in Questions : Holders(q)' = Holders(q)
  BY DEF SameRows, Holders
<1>2. QED
  BY <1>1 DEF SameRows, HeirsFit

LEMMA SameRowsKeepKeepers ==
    ASSUME SameRows, NEW into \in [Questions -> Questions], KeepersFit(into)
    PROVE  KeepersFit(into)'
<1>1. \A q \in Questions : (Exists(q)' <=> Exists(q)) /\ Content(q)' = Content(q)
  BY DEF SameRows, Content
<1>2. \A q \in Questions : IF Exists(q)' THEN Exists(into[q])' /\ Content(into[q])' = Content(q)'
                                         ELSE into[q] = q
  BY <1>1 DEF KeepersFit
<1>3. QED
  BY <1>1, <1>2 DEF KeepersFit

\* A request that goes on as it was keeps fitting.
LEMMA RequestKept ==
    ASSUME TypeOK, SameRows, NEW t \in Threads, RequestFits(t),
           \A d \in Banks : Stored(d)' <=> Stored(d),
           req'[t].pc = req[t].pc, req'[t].docs = req[t].docs, req'[t].heir = req[t].heir,
           req'[t].into = req[t].into, req'[t].keyed = req[t].keyed,
           \A q \in req[t].keyed : req[t].pc = "moved" => question'[q].key # "none"
    PROVE  RequestFits(t)'
<1>1. req[t] \in Request
  BY DEF TypeOK
<1>2. PICK r : r = req[t]
  OBVIOUS
<1>3. r.docs \in SUBSET Docs /\ r.into \in [Questions -> Questions] /\ r.keyed \in SUBSET Questions
  BY <1>1, <1>2 DEF Request
<1>4. r.pc \in {"extract", "save"} => \E d \in Docs : r.docs = {d} /\ Stored(d)'
  BY <1>2 DEF RequestFits, SameRows
<1>5. r.pc \in {"import", "reimport"} =>
           \E d \in Banks : r.docs = {d} /\ (Stored(d)' <=> r.pc = "reimport")
  BY <1>2 DEF RequestFits
<1>6. r.pc \in {"save", "delete", "import", "reimport"} => HeirsFit(r.docs, r.heir)'
  <2>1. ASSUME HeirsFit(r.docs, r.heir)
        PROVE  HeirsFit(r.docs, r.heir)'
    BY <2>1, SameRowsKeepHeirs
  <2>2. QED
    BY <1>2, <2>1 DEF RequestFits
<1>7. r.pc \in {"merge", "moved"} => KeepersFit(r.into)'
  <2>1. ASSUME KeepersFit(r.into)
        PROVE  KeepersFit(r.into)'
    BY <1>3, <2>1, SameRowsKeepKeepers
  <2>2. QED
    BY <1>2, <2>1 DEF RequestFits
<1>8. r.pc = "moved" => \A q \in r.keyed : q \in Dups(t)' /\ question'[q].key # "none"
  BY <1>2, <1>3 DEF RequestFits, Dups, SameRows
<1>9. /\ req'[t].pc = r.pc /\ req'[t].docs = r.docs /\ req'[t].heir = r.heir
      /\ req'[t].into = r.into /\ req'[t].keyed = r.keyed
  BY <1>2
<1>10. HeirsFit(r.docs, r.heir)' => HeirsFit(req[t].docs, req[t].heir)'
  BY <1>9 DEF HeirsFit, Holders, Exists
<1>11. KeepersFit(r.into)' => KeepersFit(req[t].into)'
  BY <1>9 DEF KeepersFit, Exists, Content
<1>12. QED
  BY <1>4, <1>5, <1>6, <1>7, <1>8, <1>9, <1>10, <1>11 DEF RequestFits

\* Attempts, keys and discarding, whatever else is under way.
LEMMA StudentStepFits ==
    ASSUME TypeOK, BankInv, Student
    PROVE  StepFits
<1>1. doc' = doc /\ occ' = occ /\ dirty' = dirty
  BY DEF Student, RecordAttempt, SetCorrection, DiscardQuestion
<1>2. SameRows
  <2>1. CASE question' = question
    BY <1>1, <2>1 DEF SameRows, Exists, Stored
  <2>2. ASSUME NEW q \in Questions, NEW letter \in Letters, SetCorrection(q, letter)
        PROVE  SameRows
    BY <1>1, <2>2 DEF SetCorrection, SameRows, Exists, Stored, TypeOK, Row
  <2>3. ASSUME NEW q \in Questions, DiscardQuestion(q)
        PROVE  SameRows
    BY <1>1, <2>3 DEF DiscardQuestion, SameRows, Exists, Stored, TypeOK, Row
  <2>4. QED
    BY <2>1, <2>2, <2>3 DEF Student, RecordAttempt
<1>3. \A a \in Attempts : \/ on'[a] = on[a]
                          \/ on[a] = NoQuestion /\ on'[a] \in Questions /\ Exists(on'[a])
  BY DEF Student, RecordAttempt, SetCorrection, DiscardQuestion, TypeOK
<1>a. ASSUME NEW t \in Threads
      PROVE  /\ req'[t].pc = req[t].pc /\ req'[t].docs = req[t].docs /\ req'[t].heir = req[t].heir
             /\ req'[t].into = req[t].into /\ req'[t].keyed = req[t].keyed
  <2>1. CASE req' = req
    BY <2>1
  <2>2. ASSUME NEW a \in Attempts, NEW q \in Questions, RecordAttempt(a, q)
        PROVE  req'[t] \in {req[t], [req[t] EXCEPT !.late = @ \cup {a}]}
    BY <2>2 DEF RecordAttempt
  <2>3. req[t] \in Request
    BY DEF TypeOK
  <2>4. ASSUME NEW a \in Attempts, req'[t] \in {req[t], [req[t] EXCEPT !.late = @ \cup {a}]}
        PROVE  /\ req'[t].pc = req[t].pc /\ req'[t].docs = req[t].docs /\ req'[t].heir = req[t].heir
               /\ req'[t].into = req[t].into /\ req'[t].keyed = req[t].keyed
    BY <2>3, <2>4 DEF Request
  <2>5. QED
    BY <2>1, <2>2, <2>4 DEF Student, SetCorrection, DiscardQuestion
<1>4. ASSUME NEW t \in Threads
      PROVE  RequestFits(t)'
  <2>2. RequestFits(t)
    BY DEF BankInv, RequestsFit
  <2>3. ASSUME NEW q \in req[t].keyed, req[t].pc = "moved"
        PROVE  question'[q].key # "none"
    <3>1. q \in Questions /\ req[t].into[q] # q /\ question[q].key # "none"
      BY <2>2, <2>3 DEF RequestFits, Dups
    <3>2. Merging(t)
      BY <2>3, <3>1 DEF Merging, At, NoMerge
    <3>3. question'[q].key = question[q].key
      BY <2>3, <3>1, <3>2 DEF Student, RecordAttempt, SetCorrection, DiscardQuestion, TypeOK, Row
    <3>4. QED
      BY <3>1, <3>3
  <2>4. \A d \in Banks : Stored(d)' <=> Stored(d)
    BY <1>1 DEF Stored
  <2>5. QED
    BY <1>2, <1>a, <2>2, <2>3, <2>4, RequestKept
<1>5. /\ RowsInv'
      /\ \A d \in Docs : Shows(d)' = Shows(d)
      /\ Distinct => Distinct'
  BY <1>2, <1>3, SameRowsKeep DEF BankInv
<1>6. StatusTellsContents'
  BY <1>1, <1>5 DEF BankInv, StatusTellsContents
<1>7. MergedInv'
  BY <1>1, <1>5, <1>a DEF BankInv, MergedInv
<1>8. AttemptsStep
  <2> SUFFICES ASSUME NEW a \in Attempts, on[a] # NoQuestion
               PROVE  on'[a] # NoQuestion /\ question'[on'[a]].copy.content = Content(on[a])
    BY DEF AttemptsStep
  <2>1. on'[a] = on[a] /\ on[a] \in Questions
    BY <1>3 DEF TypeOK
  <2>2. QED
    BY <1>2, <2>1 DEF SameRows, Content
<1>9. QED
  BY <1>4, <1>5, <1>6, <1>7, <1>8 DEF StepFits, BankInv, RequestsFit, ShowsStep

\* A step that leaves the rows, what contains them and the attempts alone.
LEMMA QuietStepFits ==
    ASSUME TypeOK, BankInv, UNCHANGED <<question, occ, on>>,
           \A d \in Docs : doc'[d] = doc[d] \/ (Stored(d) /\ doc'[d] \in {"processing", "error"}),
           RequestsFit', MergedInv'
    PROVE  StepFits
<1>1. SameRows
  BY DEF SameRows, Exists, Stored
<1>2. RowsInv' /\ \A d \in Docs : Shows(d)' = Shows(d)
  BY <1>1, SameRowsKeep DEF BankInv
<1>3. StatusTellsContents'
  BY <1>2 DEF BankInv, StatusTellsContents
<1>4. AttemptsStep
  BY DEF AttemptsStep, Content
<1>5. QED
  BY <1>2, <1>3, <1>4 DEF StepFits, BankInv, ShowsStep

\* With one request at a time, only the one that moves has to be looked at.
LEMMA OnlyRequest ==
    ASSUME OneAtATime, NEW t \in Threads, RequestFits(t)'
    PROVE  RequestsFit'
<1>1. \A u \in Threads : u = t
  BY DEF OneAtATime
<1>2. QED
  BY <1>1 DEF RequestsFit

LEMMA IdleFits ==
    ASSUME NEW t \in Threads, req'[t] = Idle \/ req'[t] = [Idle EXCEPT !.pc = "pass"]
    PROVE  RequestFits(t)'
  BY DEF RequestFits, Idle

LEMMA HeirsJustRead ==
    ASSUME UNCHANGED <<question, occ>>, NEW S \in SUBSET Docs, NEW heir \in HeirsOf(S),
           NEW t \in Threads, req'[t].docs = S, req'[t].heir = heir
    PROVE  HeirsFit(req[t].docs, req[t].heir)'
<1>1. HeirsFit(S, heir)
  BY HeirsRead
<1>2. QED
  BY <1>1 DEF HeirsFit, Holders, Exists

\* Outside the passes the merged bank stays merged while rows stay.
LEMMA MergedKept ==
    ASSUME OneAtATime, BankInv, UNCHANGED <<question, dirty>>, NEW t \in Threads,
           req[t].pc \notin {"pass", "merge", "moved"}
    PROVE  MergedInv'
<1>1. \A u \in Threads : u = t
  BY DEF OneAtATime
<1>2. ~dirty => Distinct
  BY <1>1 DEF BankInv, MergedInv
<1>3. QED
  BY <1>2 DEF MergedInv, Distinct, Exists, Content

LEMMA IngestionQuietFits ==
    ASSUME TypeOK, BankInv, OneAtATime, NEW t \in Threads,
           \/ \E d \in Docs : ProcessDocument(t, d)
           \/ SetFailed(t) \/ Extracted(t) \/ SaveFails(t)
    PROVE  StepFits
<1>1. ASSUME NEW d \in Docs, ProcessDocument(t, d)
      PROVE  StepFits
  <2>1. req'[t] = [Idle EXCEPT !.pc = "extract", !.docs = {d}] /\ Stored(d)'
    BY <1>1 DEF ProcessDocument, TypeOK, Stored
  <2>2. RequestFits(t)'
    BY <2>1 DEF RequestFits, Idle
  <2>3. MergedInv'
    BY <1>1, MergedKept DEF ProcessDocument, At
  <2>4. \A e \in Docs : doc'[e] = doc[e] \/ (Stored(e) /\ doc'[e] \in {"processing", "error"})
    BY <1>1 DEF ProcessDocument, TypeOK
  <2>5. QED
    BY <1>1, <2>2, <2>3, <2>4, OnlyRequest, QuietStepFits DEF ProcessDocument
<1>2. CASE SetFailed(t)
  <2>1. req'[t] = Idle
    BY <1>2 DEF SetFailed, FailedAs, Finish, TypeOK
  <2>2. MergedInv'
    BY <1>2, MergedKept DEF SetFailed, FailedAs, At
  <2>3. \A e \in Docs : doc'[e] = doc[e] \/ (Stored(e) /\ doc'[e] \in {"processing", "error"})
    BY <1>2 DEF SetFailed, FailedAs
  <2>4. QED
    BY <1>2, <2>1, <2>2, <2>3, IdleFits, OnlyRequest, QuietStepFits DEF SetFailed, FailedAs
<1>3. CASE Extracted(t)
  <2>1. PICK heir \in HeirsOf(req[t].docs) :
            req' = [req EXCEPT ![t].pc = "save", ![t].heir = heir]
    BY <1>3 DEF Extracted
  <2>2. PICK d \in Docs : req[t].docs = {d} /\ Stored(d)
    BY <1>3 DEF Extracted, At, BankInv, RequestsFit, RequestFits
  <2>3. req'[t].pc = "save" /\ req'[t].docs = {d} /\ req'[t].heir = heir
    BY <2>1, <2>2 DEF TypeOK, Request
  <2>4. HeirsFit(req[t].docs, req[t].heir)'
    <3>1. UNCHANGED <<question, occ>>
      BY <1>3 DEF Extracted
    <3>2. {d} \in SUBSET Docs /\ heir \in HeirsOf({d})
      BY <2>2
    <3>3. QED
      BY <2>3, <3>1, <3>2, HeirsJustRead
  <2>5. Stored(d)'
    BY <1>3, <2>2 DEF Extracted, Stored
  <2>6. RequestFits(t)'
    BY <2>3, <2>4, <2>5 DEF RequestFits
  <2>7. MergedInv'
    BY <1>3, MergedKept DEF Extracted, At
  <2>8. QED
    BY <1>3, <2>6, <2>7, OnlyRequest, QuietStepFits DEF Extracted
<1>4. CASE SaveFails(t)
  <2>1. req'[t] = Idle
    BY <1>4 DEF SaveFails, Finish, TypeOK
  <2>2. MergedInv'
    BY <1>4, MergedKept DEF SaveFails, At
  <2>3. QED
    BY <1>4, <2>1, <2>2, IdleFits, OnlyRequest, QuietStepFits DEF SaveFails
<1>5. QED
  BY <1>1, <1>2, <1>3, <1>4

LEMMA ImportQuietFits ==
    ASSUME TypeOK, BankInv, OneAtATime, NEW t \in Threads,
           (\E d \in Docs : ImportRead(t, d)) \/ ImportFails(t)
    PROVE  StepFits
<1>1. ASSUME NEW d \in Docs, ImportRead(t, d)
      PROVE  StepFits
  <2> DEFINE pc == IF Stored(d) THEN "reimport" ELSE "import"
  <2>1. PICK heir \in HeirsOf({d}) :
            req' = [req EXCEPT ![t] = [Idle EXCEPT !.pc = pc, !.docs = {d}, !.heir = heir]]
    BY <1>1 DEF ImportRead
  <2>2. req'[t].pc = pc /\ req'[t].docs = {d} /\ req'[t].heir = heir
    BY <2>1 DEF TypeOK, Idle
  <2>3. HeirsFit(req[t].docs, req[t].heir)'
    BY <1>1, <2>2, HeirsJustRead DEF ImportRead
  <2>4. d \in Banks /\ (Stored(d)' <=> Stored(d))
    BY <1>1 DEF ImportRead, Stored
  <2>5. RequestFits(t)'
    BY <2>2, <2>3, <2>4 DEF RequestFits
  <2>6. MergedInv'
    BY <1>1, MergedKept DEF ImportRead, At
  <2>7. QED
    BY <1>1, <2>5, <2>6, OnlyRequest, QuietStepFits DEF ImportRead
<1>2. CASE ImportFails(t)
  <2>1. req'[t] = Idle
    BY <1>2 DEF ImportFails, Finish, TypeOK
  <2>2. MergedInv'
    BY <1>2, MergedKept DEF ImportFails
  <2>3. QED
    BY <1>2, <2>1, <2>2, IdleFits, OnlyRequest, QuietStepFits DEF ImportFails
<1>3. QED
  BY <1>1, <1>2

LEMMA DeletionQuietFits ==
    ASSUME TypeOK, BankInv, OneAtATime, NEW t \in Threads,
           (\E S \in SUBSET Docs : DeleteRead(t, S)) \/ DeleteFails(t)
    PROVE  StepFits
<1>1. ASSUME NEW S \in SUBSET Docs, DeleteRead(t, S)
      PROVE  StepFits
  <2>1. PICK heir \in HeirsOf(S) :
            req' = [req EXCEPT ![t] = [Idle EXCEPT !.pc = "delete", !.docs = S, !.heir = heir]]
    BY <1>1 DEF DeleteRead
  <2>2. req'[t].pc = "delete" /\ req'[t].docs = S /\ req'[t].heir = heir
    BY <2>1 DEF TypeOK, Idle
  <2>3. HeirsFit(req[t].docs, req[t].heir)'
    BY <1>1, <2>2, HeirsJustRead DEF DeleteRead
  <2>4. RequestFits(t)'
    BY <2>2, <2>3 DEF RequestFits
  <2>5. MergedInv'
    BY <1>1, MergedKept DEF DeleteRead, At
  <2>6. QED
    BY <1>1, <2>4, <2>5, OnlyRequest, QuietStepFits DEF DeleteRead
<1>2. CASE DeleteFails(t)
  <2>1. req'[t] = Idle
    BY <1>2 DEF DeleteFails, Finish, TypeOK
  <2>2. MergedInv'
    BY <1>2, MergedKept DEF DeleteFails, At
  <2>3. QED
    BY <1>2, <2>1, <2>2, IdleFits, OnlyRequest, QuietStepFits DEF DeleteFails
<1>3. QED
  BY <1>1, <1>2

-----------------------------------------------------------------------------
(* Merge passes.                                                           *)

\* run_cleanup_dedupe chooses one keeper for all rows of a content.
LEMMA KeepersChosen ==
    ASSUME NEW held, held = {Content(q) : q \in {p \in Questions : Exists(p)}},
           NEW keeper \in [held -> Questions], \A c \in held : keeper[c] \in BestCopies(c),
           NEW into, into = [q \in Questions |-> IF Exists(q) THEN keeper[Content(q)] ELSE q]
    PROVE  KeepersFit(into)
<1>1. \A q \in Questions : Exists(q) => Content(q) \in held
  OBVIOUS
<1>2. ASSUME NEW c \in held
      PROVE  keeper[c] \in Questions /\ Exists(keeper[c]) /\ Content(keeper[c]) = c
  BY DEF BestCopies
<1>3. \A q \in Questions : Exists(q) => Exists(into[q]) /\ Content(into[q]) = Content(q)
  BY <1>1, <1>2
<1>4. \A p, q \in Questions : Exists(p) /\ Exists(q) /\ Content(p) = Content(q) => into[p] = into[q]
  OBVIOUS
<1>5. QED
  BY <1>3, <1>4 DEF KeepersFit

LEMMA DedupeQuietFits ==
    ASSUME TypeOK, BankInv, OneAtATime, NEW t \in Threads,
           Cleanup(t) \/ PassRead(t) \/ MergeReferences(t) \/ PassFails(t)
    PROVE  StepFits
<1>1. CASE Cleanup(t)
  <2>1. req'[t] = [Idle EXCEPT !.pc = "pass"]
    BY <1>1 DEF Cleanup, TypeOK
  <2>2. MergedInv'
    BY <2>1 DEF MergedInv, Idle
  <2>3. QED
    BY <1>1, <2>1, <2>2, IdleFits, OnlyRequest, QuietStepFits DEF Cleanup
<1>2. CASE PassRead(t)
  <2>1. PICK held : held = {Content(q) : q \in {p \in Questions : Exists(p)}}
    OBVIOUS
  <2>2. PICK keeper \in [held -> Questions] :
            /\ \A c \in held : keeper[c] \in BestCopies(c)
            /\ req' = [req EXCEPT ![t].pc = "merge", ![t].into =
                         [q \in Questions |-> IF Exists(q) THEN keeper[Content(q)] ELSE q]]
    BY <1>2, <2>1 DEF PassRead
  <2>3. PICK into : into = [q \in Questions |-> IF Exists(q) THEN keeper[Content(q)] ELSE q]
    OBVIOUS
  <2>4. KeepersFit(into)
    BY <2>1, <2>2, <2>3, KeepersChosen
  <2>5. req'[t].pc = "merge" /\ req'[t].into = into
    BY <2>2, <2>3 DEF TypeOK, Request
  <2>6. KeepersFit(req[t].into)'
    BY <1>2, <2>4, <2>5 DEF PassRead, KeepersFit, Exists, Content
  <2>7. RequestFits(t)'
    BY <2>5, <2>6 DEF RequestFits
  <2>8. MergedInv'
    BY <2>5 DEF MergedInv
  <2>9. QED
    BY <1>2, <2>7, <2>8, OnlyRequest, QuietStepFits DEF PassRead
<1>3. CASE MergeReferences(t)
  <2>1. /\ req'[t].pc = "moved" /\ req'[t].into = req[t].into
        /\ req'[t].keyed = {q \in Dups(t) : question[q].key # "none"}
    BY <1>3 DEF MergeReferences, TypeOK, Request
  <2>2. PICK into : into = req[t].into
    OBVIOUS
  <2>a. KeepersFit(into)
    BY <1>3, <2>2 DEF MergeReferences, At, BankInv, RequestsFit, RequestFits
  <2>b. question' = question /\ req'[t].into = into
    BY <1>3, <2>1, <2>2 DEF MergeReferences
  <2>3. KeepersFit(req[t].into)'
    BY <2>a, <2>b DEF KeepersFit, Exists, Content
  <2>4. Dups(t)' = Dups(t)
    BY <1>3, <2>1 DEF MergeReferences, Dups, Exists
  <2>5. RequestFits(t)'
    BY <1>3, <2>1, <2>3, <2>4 DEF RequestFits, MergeReferences
  <2>6. MergedInv'
    BY <2>1 DEF MergedInv
  <2>7. QED
    BY <1>3, <2>5, <2>6, OnlyRequest, QuietStepFits DEF MergeReferences
<1>4. CASE PassFails(t)
  <2>1. req'[t] = Idle
    BY <1>4 DEF PassFails, Finish, TypeOK
  <2>2. MergedInv'
    BY <1>4 DEF PassFails, MergedInv
  <2>3. QED
    BY <1>4, <2>1, <2>2, IdleFits, OnlyRequest, QuietStepFits DEF PassFails
<1>5. QED
  BY <1>1, <1>2, <1>3, <1>4

\* The rows that stay are the keepers, one for each content.
LEMMA DuplicatesGo ==
    ASSUME TypeOK, BankInv, NEW t \in Threads, PassCommit(t),
           NEW into \in [Questions -> Questions], into = req[t].into
    PROVE  \A q \in Questions :
               /\ Exists(q)' <=> Exists(q) /\ into[q] = q
               /\ Exists(q)' => /\ question'[q].copy = question[q].copy
                                /\ question'[q].owner = question[q].owner
               /\ Exists(q) => /\ Exists(into[q])'
                               /\ question'[into[q]].copy.content = Content(q)
<1>1. PICK keys \in [Questions -> Letters \cup {"none"}] :
          question' = [q \in Questions |-> IF q \in Dups(t) THEN NoRow
                                           ELSE [question[q] EXCEPT !.key = keys[q]]]
  BY DEF PassCommit
<1>3. KeepersFit(into)
  BY DEF PassCommit, At, BankInv, RequestsFit, RequestFits
<1>4. ASSUME NEW q \in Questions
      PROVE  /\ Exists(q)' <=> Exists(q) /\ into[q] = q
             /\ Exists(q)' => /\ question'[q].copy = question[q].copy
                              /\ question'[q].owner = question[q].owner
  <2>1. q \in Dups(t) <=> Exists(q) /\ into[q] # q
    BY DEF Dups
  <2>2. CASE q \in Dups(t)
    BY <1>1, <2>1, <2>2 DEF Exists, NoRow
  <2>3. CASE q \notin Dups(t)
    <3>1. question'[q] = [question[q] EXCEPT !.key = keys[q]] /\ question[q] \in Row
      BY <1>1, <2>3 DEF TypeOK
    <3>2. /\ question'[q].state = question[q].state /\ question'[q].copy = question[q].copy
          /\ question'[q].owner = question[q].owner
      BY <3>1 DEF Row
    <3>3. QED
      BY <1>3, <2>1, <2>3, <3>2 DEF Exists, KeepersFit
  <2>4. QED
    BY <2>2, <2>3
<1>5. ASSUME NEW q \in Questions, Exists(q)
      PROVE  Exists(into[q])' /\ question'[into[q]].copy.content = Content(q)
  <2>1. into[q] \in Questions /\ Exists(into[q]) /\ Content(into[q]) = Content(q)
    BY <1>3, <1>5 DEF KeepersFit
  <2>2. into[into[q]] = into[q]
    BY <1>3, <1>5, <2>1 DEF KeepersFit
  <2>3. QED
    BY <1>4, <2>1, <2>2 DEF Content
<1>6. QED
  BY <1>4, <1>5

\* A pass that goes through: nothing shows it, and the bank is merged.
LEMMA PassCommitFits ==
    ASSUME TypeOK, BankInv, OneAtATime, NEW t \in Threads, PassCommit(t)
    PROVE  StepFits
<1>1. PICK into \in [Questions -> Questions] : into = req[t].into
  BY DEF TypeOK, Request
<1>2. /\ occ' = {<<into[o[1]], o[2]>> : o \in occ}
      /\ \A a \in Attempts : on'[a] = IF on[a] \notin Dups(t) THEN on[a]
                                      ELSE IF a \in req[t].late THEN NoQuestion ELSE into[on[a]]
      /\ doc' = doc /\ At(t, "moved")
  BY <1>1 DEF PassCommit, OccMerged, AttemptsMerged
<1>3. \A q \in Questions :
          /\ Exists(q)' <=> Exists(q) /\ into[q] = q
          /\ Exists(q)' => question'[q].copy = question[q].copy /\ question'[q].owner = question[q].owner
          /\ Exists(q) => /\ Exists(into[q])'
                          /\ question'[into[q]].copy.content = Content(q)
  BY <1>1, DuplicatesGo
<1>4. ASSUME NEW q \in Questions, NEW d \in Docs
      PROVE  <<q, d>> \in occ' <=> \E p \in Questions : <<p, d>> \in occ /\ q = into[p]
  <2>1. ASSUME <<q, d>> \in occ'
        PROVE  \E p \in Questions : <<p, d>> \in occ /\ q = into[p]
    <3>1. PICK o \in occ : <<q, d>> = <<into[o[1]], o[2]>>
      BY <1>2, <2>1
    <3>2. o[1] \in Questions /\ o = <<o[1], d>>
      BY <3>1 DEF TypeOK
    <3>3. QED
      BY <3>1, <3>2
  <2>2. ASSUME NEW p \in Questions, <<p, d>> \in occ, q = into[p]
        PROVE  <<q, d>> \in occ'
    BY <1>2, <2>2
  <2>3. QED
    BY <2>1, <2>2
<1>5. \A q \in Questions, d \in Docs : <<q, d>> \in occ => Exists(q) /\ Stored(d)
  BY DEF BankInv, RowsInv
<1>6. ASSUME NEW a \in Attempts, on[a] # NoQuestion
      PROVE  \/ /\ on'[a] \in Questions /\ question'[on'[a]].state # "absent"
                /\ question'[on'[a]].copy.content = Content(on[a])
             \/ on'[a] = NoQuestion /\ a \in req[t].late
  <2>1. on[a] \in Questions /\ Exists(on[a])
    BY <1>6 DEF TypeOK, BankInv, RowsInv
  <2>2. CASE on[a] \notin Dups(t)
    <3>1. into[on[a]] = on[a] /\ on'[a] = on[a]
      BY <1>1, <1>2, <2>1, <2>2 DEF Dups
    <3>2. QED
      BY <1>3, <2>1, <3>1 DEF Exists, Content
  <2>3. CASE on[a] \in Dups(t)
    BY <1>2, <1>3, <2>1, <2>3 DEF Exists
  <2>4. QED
    BY <2>2, <2>3
<1>7. RowsInv'
  <2>1. OwnerContains'
    <3> SUFFICES ASSUME NEW q \in Questions, Exists(q)'
                 PROVE  Stored(question[q].owner)' /\ <<q, question'[q].owner>> \in occ'
      BY DEF OwnerContains
    <3>1. Exists(q) /\ into[q] = q /\ question'[q].owner = question[q].owner
      BY <1>3
    <3>2. Stored(question[q].owner) /\ <<q, question[q].owner>> \in occ
      BY <3>1 DEF BankInv, RowsInv, OwnerContains
    <3>3. QED
      BY <1>2, <1>4, <3>1, <3>2 DEF Stored, TypeOK
  <2>2. \A q \in Questions : Exists(q)' => \E d \in Docs : question'[q].copy \in Printed[d]
    BY <1>3 DEF BankInv, RowsInv
  <2>3. ASSUME NEW q \in Questions, NEW d \in Docs, <<q, d>> \in occ'
        PROVE  Exists(q)' /\ Stored(d)'
    <3>1. PICK p \in Questions : <<p, d>> \in occ /\ q = into[p]
      BY <1>4, <2>3
    <3>2. Exists(p) /\ Stored(d)
      BY <1>5, <3>1
    <3>3. QED
      BY <1>2, <1>3, <3>1, <3>2 DEF Stored
  <2>4. ASSUME NEW a \in Attempts, on'[a] # NoQuestion
        PROVE  question'[on'[a]].state # "absent"
    <3>1. on[a] # NoQuestion
      BY <1>2, <2>4, ConstantsAssumption DEF Dups
    <3>2. QED
      BY <1>6, <2>4, <3>1
  <2>5. QED
    BY <2>1, <2>2, <2>3, <2>4 DEF RowsInv, Exists
<1>8. ASSUME NEW d \in Docs
      PROVE  Shows(d)' = Shows(d)
  <2>1. ASSUME NEW c, c \in Shows(d)'
        PROVE  c \in Shows(d)
    <3>1. PICK q \in Questions : <<q, d>> \in occ' /\ c = question'[q].copy.content
      BY <2>1 DEF Shows, Content
    <3>2. PICK p \in Questions : <<p, d>> \in occ /\ q = into[p]
      BY <1>4, <3>1
    <3>3. c = Content(p)
      BY <1>3, <1>5, <3>1, <3>2
    <3>4. QED
      BY <3>2, <3>3 DEF Shows
  <2>2. ASSUME NEW c, c \in Shows(d)
        PROVE  c \in Shows(d)'
    <3>1. PICK p \in Questions : <<p, d>> \in occ /\ c = Content(p)
      BY <2>2 DEF Shows
    <3>2. <<into[p], d>> \in occ' /\ question'[into[p]].copy.content = c
      BY <1>3, <1>4, <1>5, <3>1
    <3>3. QED
      BY <3>2 DEF Shows, Content
  <2>3. QED
    BY <2>1, <2>2
<1>9. StatusTellsContents'
  BY <1>2, <1>8 DEF BankInv, StatusTellsContents
<1>10. Distinct'
  <2> SUFFICES ASSUME NEW p \in Questions, NEW q \in Questions, Exists(p)', Exists(q)',
                      Content(p)' = Content(q)'
               PROVE  p = q
    BY DEF Distinct
  <2>1. Exists(p) /\ Exists(q) /\ into[p] = p /\ into[q] = q /\ Content(p) = Content(q)
    BY <1>3 DEF Content
  <2>2. KeepersFit(into)
    BY <1>1, <1>2 DEF At, BankInv, RequestsFit, RequestFits
  <2>3. QED
    BY <2>1, <2>2 DEF KeepersFit
<1>11. RequestsFit' /\ MergedInv'
  <2>1. req'[t] = Idle
    BY DEF PassCommit, Finish, TypeOK
  <2>2. QED
    BY <1>10, <2>1, IdleFits, OnlyRequest DEF MergedInv
<1>12. AttemptsStep
  BY <1>2, <1>6, ConstantsAssumption DEF AttemptsStep
<1>13. QED
  BY <1>7, <1>8, <1>9, <1>11, <1>12 DEF StepFits, BankInv, ShowsStep

-----------------------------------------------------------------------------
(* Saving, importing and deleting.                                         *)

\* process_document: the document shows what its PDF prints.
LEMMA SaveQuestionsFits ==
    ASSUME TypeOK, BankInv, OneAtATime, NEW t \in Threads, NEW d \in Docs, SaveQuestions(t, d)
    PROVE  StepFits
<1>1. req[t].docs = {d} /\ Stored(d) /\ At(t, "save")
  BY DEF SaveQuestions, At, BankInv, RequestsFit, RequestFits
<1>2. PICK heir : heir = req[t].heir
  OBVIOUS
<1>3. heir \in [Questions -> Docs \cup {NoDoc}] /\ HeirsFit({d}, heir)
  BY <1>1, <1>2 DEF At, BankInv, RequestsFit, RequestFits, TypeOK, Request
<1>4. PICK new \in FreshFor(d) : Replaces(d, heir, new)
  BY <1>2 DEF SaveQuestions, Replaces
<1>5. doc' = [doc EXCEPT ![d] = "processed"]
  BY <1>1 DEF SaveQuestions
<1>a. /\ new \in [Printed[d] -> Questions]
      /\ \A c, e \in Printed[d] : new[c] = new[e] => c = e
      /\ \A c \in Printed[d] : Exists(new[c]) => new[c] \in DeletedWith({d}, heir)
  BY FreshType
<1>6. /\ RowsInv'
      /\ \A e \in Docs : Shows(e)' = IF e = d THEN PrintedContents[d] ELSE Shows(e)
      /\ \A a \in Attempts : on[a] # NoQuestion =>
             \/ on'[a] = on[a] /\ question'[on[a]].copy.content = Content(on[a])
             \/ on'[a] = NoQuestion /\ Holders(on[a]) \subseteq {d}
  BY <1>3, <1>4, <1>5, <1>a, ReplacesRows DEF BankInv
<1>7. StatusTellsContents'
  BY <1>5, <1>6 DEF BankInv, StatusTellsContents, TypeOK
<1>8. RequestsFit' /\ MergedInv'
  <2>1. req'[t] = [Idle EXCEPT !.pc = "pass"]
    BY DEF SaveQuestions, TypeOK
  <2>2. QED
    BY <2>1, IdleFits, OnlyRequest DEF MergedInv, Idle
<1>9. AttemptsStep
  BY <1>1, <1>6 DEF AttemptsStep, At
<1>10. QED
  BY <1>6, <1>7, <1>8, <1>9 DEF StepFits, BankInv, ShowsStep

\* import_question_bank: what a bank stored before loses comes back with it,
\* and a new one takes nothing away.
LEMMA ImportQuestionBankFits ==
    ASSUME TypeOK, BankInv, OneAtATime, NEW t \in Threads, NEW d \in Docs,
           ImportQuestionBank(t, d)
    PROVE  StepFits
<1>1. req[t].docs = {d} /\ d \in Banks /\ (Stored(d) <=> At(t, "reimport"))
  BY DEF ImportQuestionBank, At, BankInv, RequestsFit, RequestFits
<1>2. PICK heir : heir = req[t].heir
  OBVIOUS
<1>3. heir \in [Questions -> Docs \cup {NoDoc}] /\ HeirsFit({d}, heir)
  BY <1>1, <1>2 DEF ImportQuestionBank, BankInv, RequestsFit, RequestFits, TypeOK, Request
<1>4. PICK new : new = [c \in Printed[d] |-> BankRow[c.content]]
  OBVIOUS
<1>5. /\ new \in [Printed[d] -> Questions]
      /\ \A c, e \in Printed[d] : new[c] = new[e] => c = e
  BY <1>1, <1>4, BankRowsType
<1>6. /\ Replaces(d, heir, new)
      /\ \A c \in Printed[d] : Exists(new[c]) => new[c] \in DeletedWith({d}, heir)
      /\ doc' = [doc EXCEPT ![d] = "processed"]
  BY <1>2, <1>4 DEF ImportQuestionBank, Replaces
<1>7. /\ RowsInv'
      /\ \A e \in Docs : Shows(e)' = IF e = d THEN PrintedContents[d] ELSE Shows(e)
      /\ \A a \in Attempts : on[a] # NoQuestion =>
             \/ on'[a] = on[a] /\ question'[on[a]].copy.content = Content(on[a])
             \/ /\ on'[a] = NoQuestion
                /\ Exists(on[a]) /\ question[on[a]].owner = d
                /\ Holders(on[a]) \subseteq {d}
  BY <1>3, <1>5, <1>6, ReplacesRows DEF BankInv
<1>8. StatusTellsContents'
  BY <1>6, <1>7 DEF BankInv, StatusTellsContents, TypeOK
<1>9. RequestsFit' /\ MergedInv'
  <2>1. req'[t] = Idle /\ dirty' = TRUE
    BY DEF ImportQuestionBank, Finish, TypeOK
  <2>2. QED
    BY <2>1, IdleFits, OnlyRequest DEF MergedInv
<1>10. AttemptsStep
  <2> SUFFICES ASSUME NEW a \in Attempts, on[a] # NoQuestion, on'[a] = NoQuestion,
                      Exists(on[a]), question[on[a]].owner = d, Holders(on[a]) \subseteq {d}
               PROVE  req[t].pc = "reimport"
    BY <1>1, <1>7 DEF AttemptsStep
  <2>1. Stored(d)
    BY DEF TypeOK, BankInv, RowsInv, OwnerContains
  <2>2. QED
    BY <1>1, <2>1 DEF At
<1>11. QED
  BY <1>7, <1>8, <1>9, <1>10 DEF StepFits, BankInv, ShowsStep

LEMMA DeleteDocumentsFits ==
    ASSUME TypeOK, BankInv, OneAtATime, NEW t \in Threads, DeleteDocuments(t)
    PROVE  StepFits
<1>1. PICK S : S = req[t].docs
  OBVIOUS
<1>2. S \in SUBSET Docs /\ RequestFits(t) /\ At(t, "delete")
  BY <1>1 DEF TypeOK, Request, BankInv, RequestsFit, DeleteDocuments
<1>3. /\ RowsInv'
      /\ \A d \in Docs : Shows(d)' = IF d \in S THEN {} ELSE Shows(d)
      /\ \A q \in Questions : Exists(q)' => Exists(q) /\ Content(q)' = Content(q)
      /\ \A a \in Attempts : on[a] # NoQuestion =>
             \/ on'[a] = on[a] /\ question'[on[a]].state # "absent"
             \/ on'[a] = NoQuestion /\ Holders(on[a]) \subseteq S
  <2>1. \A a \in Attempts : on[a] # NoQuestion =>
            \/ on'[a] = on[a] /\ question'[on[a]].state # "absent"
            \/ on'[a] = NoQuestion /\ Holders(on[a]) \subseteq S
    BY <1>1, <1>2, DeleteDocumentsRows DEF BankInv, Exists
  <2>2. QED
    BY <1>1, <1>2, <2>1, DeleteDocumentsRows DEF BankInv
<1>4. StatusTellsContents'
  <2>1. doc' = [d \in Docs |-> IF d \in S THEN "absent" ELSE doc[d]]
    BY <1>1 DEF DeleteDocuments
  <2>2. QED
    BY <1>3, <2>1 DEF BankInv, StatusTellsContents
<1>5. RequestsFit' /\ MergedInv'
  <2>1. req'[t] = Idle /\ dirty' = dirty
    BY DEF DeleteDocuments, Finish, TypeOK
  <2>2. ~dirty => Distinct
    BY <1>2 DEF OneAtATime, At, BankInv, MergedInv
  <2>3. Distinct => Distinct'
    BY <1>3 DEF Distinct
  <2>4. QED
    BY <2>1, <2>2, <2>3, IdleFits, OnlyRequest DEF MergedInv
<1>6. AttemptsStep
  <2> SUFFICES ASSUME NEW a \in Attempts, on[a] # NoQuestion
               PROVE  \/ on'[a] # NoQuestion /\ question'[on'[a]].copy.content = Content(on[a])
                      \/ on'[a] = NoQuestion /\ Holders(on[a]) \subseteq S
    BY <1>1, <1>2 DEF AttemptsStep, At
  <2>1. on[a] \in Questions
    BY DEF TypeOK
  <2>2. QED
    BY <1>3, <2>1 DEF Exists, Content
<1>7. QED
  BY <1>2, <1>3, <1>4, <1>5, <1>6 DEF StepFits, BankInv, ShowsStep

LEMMA StoreUploadFits ==
    ASSUME TypeOK, BankInv, NEW d \in Docs, StoreUpload(d)
    PROVE  StepFits
<1>1. SameRows /\ \A e \in Banks : Stored(e)' <=> Stored(e)
  BY ConstantsAssumption DEF StoreUpload, SameRows, Exists, Stored, TypeOK
<1>2. /\ RowsInv' /\ (\A e \in Docs : Shows(e)' = Shows(e))
      /\ Distinct => Distinct'
  BY <1>1, SameRowsKeep DEF BankInv, StoreUpload
<1>3. RequestsFit'
  <2> SUFFICES ASSUME NEW t \in Threads
               PROVE  RequestFits(t)'
    BY DEF RequestsFit
  <2>1. RequestFits(t) /\ req' = req /\ question' = question
    BY DEF BankInv, RequestsFit, StoreUpload
  <2>2. req[t].pc = "moved" => \A q \in req[t].keyed : question'[q].key # "none"
    BY <2>1 DEF RequestFits
  <2>3. QED
    BY <1>1, <2>1, <2>2, RequestKept
<1>4. StatusTellsContents'
  BY <1>2 DEF BankInv, StatusTellsContents, StoreUpload, Stored, TypeOK
<1>5. MergedInv'
  BY <1>2 DEF BankInv, MergedInv, StoreUpload
<1>6. AttemptsStep
  BY DEF AttemptsStep, StoreUpload, Content
<1>7. QED
  BY <1>2, <1>3, <1>4, <1>5, <1>6 DEF StepFits, BankInv, ShowsStep

\* Nothing is repaired after a crash, and nothing has to be.
LEMMA CrashFits ==
    ASSUME TypeOK, BankInv, Crash
    PROVE  StepFits
<1>1. RequestsFit'
  BY IdleFits DEF Crash, RequestsFit
<1>2. MergedInv'
  BY DEF Crash, BankInv, MergedInv, Distinct, Exists, Content
<1>3. QED
  BY <1>1, <1>2, QuietStepFits DEF Crash

LEMMA NextFits ==
    ASSUME TypeOK, BankInv, OneAtATime, Next
    PROVE  StepFits
<1>1. ASSUME NEW t \in Threads, Ingestion(t)
      PROVE  StepFits
  BY <1>1, IngestionQuietFits, SaveQuestionsFits DEF Ingestion
<1>2. ASSUME NEW t \in Threads, Import(t)
      PROVE  StepFits
  BY <1>2, ImportQuietFits, ImportQuestionBankFits DEF Import
<1>3. ASSUME NEW t \in Threads, Deletion(t)
      PROVE  StepFits
  BY <1>3, DeletionQuietFits, DeleteDocumentsFits DEF Deletion
<1>4. ASSUME NEW t \in Threads, Dedupe(t)
      PROVE  StepFits
  BY <1>4, DedupeQuietFits, PassCommitFits DEF Dedupe
<1>5. QED
  BY <1>1, <1>2, <1>3, <1>4, StoreUploadFits, StudentStepFits, CrashFits DEF Next

LEMMA StutterFits ==
    ASSUME TypeOK, BankInv, UNCHANGED vars
    PROVE  StepFits
<1>1. RequestsFit'
  <2>1. ASSUME NEW t \in Threads
        PROVE  RequestFits(t)'
    <3>1. SameRows /\ (\A d \in Banks : Stored(d)' <=> Stored(d))
      BY DEF vars, SameRows, Exists, Stored
    <3>2. RequestFits(t)
      BY DEF BankInv, RequestsFit
    <3>3. \A q \in req[t].keyed : req[t].pc = "moved" => question'[q].key # "none"
      BY <3>2 DEF vars, RequestFits
    <3>4. QED
      BY <3>1, <3>2, <3>3, RequestKept DEF vars
  <2>2. QED
    BY <2>1 DEF RequestsFit
<1>2. MergedInv'
  BY DEF vars, BankInv, MergedInv, Distinct, Exists, Content
<1>3. QED
  BY <1>1, <1>2, QuietStepFits DEF vars

\* The inductive step: reads stay true until they are used, and each step
\* keeps the catalogue's promise and the attempts.
LEMMA BankStep ==
    ASSUME OneAtATime
    PROVE  TypeOK /\ BankInv /\ [Next]_vars => StepFits
  BY NextFits, StutterFits

LEMMA BankHolds ==
    ASSUME OneAtATime
    PROVE  Spec => [](TypeOK /\ BankInv)
<1>1. TypeOK /\ BankInv /\ [Next]_vars => (TypeOK /\ BankInv)'
  BY BankStep, StepTypeOK DEF StepFits
<1>2. QED
  BY <1>1, InitTypeOK, InitBankInv, PTL DEF Spec

-----------------------------------------------------------------------------

\* A question always belongs to a stored document that contains it, so that
\* deleting documents reaches every question.
THEOREM OwnerContainsHolds ==
    ASSUME OneAtATime
    PROVE  Spec => []OwnerContains
<1>1. BankInv => OwnerContains
  BY DEF BankInv, RowsInv
<1>2. QED
  BY <1>1, BankHolds, PTL

\* A processed document shows exactly what its PDF prints, whatever has been
\* merged, re-processed, imported or deleted since.
THEOREM StatusTellsContentsHolds ==
    ASSUME OneAtATime
    PROVE  Spec => []StatusTellsContents
<1>1. BankInv => StatusTellsContents
  BY DEF BankInv
<1>2. QED
  BY <1>1, BankHolds, PTL

\* Between requests no content has two rows, unless a bank was imported or a
\* pass was lost since the last one that went through.
THEOREM MergedWhenQuietHolds ==
    ASSUME OneAtATime
    PROVE  Spec => []MergedWhenQuiet
<1>1. BankInv => MergedWhenQuiet
  BY DEF BankInv, MergedInv, MergedWhenQuiet, Distinct, At
<1>2. QED
  BY <1>1, BankHolds, PTL

\* An attempt stays with the content it was made on, and is lost only with a
\* document that alone held its question or to a pass it came too late for.
THEOREM AttemptsFollowHolds ==
    ASSUME OneAtATime
    PROVE  Spec => AttemptsFollow
<1>1. StepFits => AttemptsStep
  BY DEF StepFits
<1>2. TypeOK /\ BankInv /\ [Next]_vars => [AttemptsStep]_vars
  BY <1>1, BankStep
<1>3. QED
  BY <1>2, BankHolds, PTL DEF Spec, AttemptsFollow, AttemptsStep

LEMMA ShowsStepMaps ==
    ASSUME ShowsStep
    PROVE  [Bank!Next]_([d \in Docs |-> Shows(d)])
<1> DEFINE shows == [d \in Docs |-> Shows(d)]
<1>1. CASE \A e \in Docs : Shows(e)' = Shows(e)
  BY <1>1
<1>2. ASSUME NEW d \in Docs,
             \A e \in Docs : Shows(e)' = IF e = d THEN PrintedContents[d] ELSE Shows(e)
      PROVE  Bank!Ingest(d)
  BY <1>2 DEF Bank!Ingest
<1>3. ASSUME NEW S \in SUBSET Docs,
             \A e \in Docs : Shows(e)' = IF e \in S THEN {} ELSE Shows(e)
      PROVE  Bank!Remove(S)
  BY <1>3 DEF Bank!Remove
<1>4. QED
  BY <1>1, <1>2, <1>3 DEF ShowsStep, Bank!Next

\* The bank implements its catalogue: ingesting, importing and deleting change
\* what documents show as a whole, and merging or moving rows never shows.
THEOREM ImplementsCatalogueHolds ==
    ASSUME OneAtATime
    PROVE  Spec => ImplementsCatalogue
<1>1. Init => Bank!Init
  BY DEF Init, Bank!Init, Shows
<1>2. TypeOK /\ BankInv /\ [Next]_vars => [Bank!Next]_([d \in Docs |-> Shows(d)])
  BY BankStep, ShowsStepMaps DEF StepFits
<1>3. QED
  BY <1>1, <1>2, BankHolds, PTL DEF Spec, ImplementsCatalogue, Bank!Spec

-----------------------------------------------------------------------------
(* Keys.  What a key says, letter and order of the options, moves with its *)
(* question.                                                               *)

\* Each key of a content comes from a row that had it for the same copy.
KeysOfInherited(c) ==
    \A q \in Questions : Exists(q)' /\ question'[q].copy.content = c /\ question'[q].key # "none" =>
        \E p \in Questions : /\ Exists(p) /\ question[p].key = question'[q].key
                             /\ question[p].copy = question'[q].copy
KeysInherited == \A c \in Contents : KeysOfInherited(c)

\* Thread t hands a key of c to a keeper that lists its options otherwise.
TurnsKeyOf(c, t) == \E p \in Questions :
    /\ At(t, "moved") /\ p \in req[t].keyed /\ Content(p) = c
    /\ question[req[t].into[p]].key = "none"
    /\ question[req[t].into[p]].copy # question[p].copy

KeysStep ==
    \A c \in Contents : KeyTexts(c)' \subseteq KeyTexts(c) \/ \E t \in Threads : TurnsKeyOf(c, t)

LEMMA InheritedKeysMeanTheSame ==
    ASSUME NEW c \in Contents, KeysOfInherited(c)
    PROVE  KeyTexts(c)' \subseteq KeyTexts(c)
<1> SUFFICES ASSUME NEW text, text \in KeyTexts(c)'
             PROVE  text \in KeyTexts(c)
  OBVIOUS
<1>1. PICK q \in Questions : /\ Exists(q)' /\ question'[q].copy.content = c
                             /\ question'[q].key # "none" /\ text = Text(question[q])'
  BY DEF KeyTexts, Content
<1>2. PICK p \in Questions : /\ Exists(p) /\ question[p].key = question'[q].key
                             /\ question[p].copy = question'[q].copy
  BY <1>1 DEF KeysOfInherited
<1>3. Text(question[p]) = text
  BY <1>1, <1>2 DEF Text
<1>4. QED
  BY <1>1, <1>2, <1>3 DEF KeyTexts, Content

LEMMA InheritedKeysStep == KeysInherited => KeysStep
  BY InheritedKeysMeanTheSame DEF KeysInherited, KeysStep

\* Detaching documents hands rows on with their keys.
LEMMA DetachingKeepsKeys ==
    ASSUME TypeOK, RowsInv, NEW S \in SUBSET Docs,
           NEW heir \in [Questions -> Docs \cup {NoDoc}], HeirsFit(S, heir), NEW q \in Questions,
           question'[q] = RowDetached(q, S, heir), Exists(q)'
    PROVE  Exists(q) /\ question'[q].key = question[q].key /\ question'[q].copy = question[q].copy
<1> DEFINE row == RowDetached(q, S, heir)
<1>1. /\ q \in DeletedWith(S, heir) =>
              /\ Exists(q) /\ question[q].owner \in S /\ Holders(q) \subseteq S
              /\ row = NoRow
      /\ q \notin DeletedWith(S, heir) =>
              /\ row.state = question[q].state
              /\ row.copy = question[q].copy /\ row.key = question[q].key
              /\ Exists(q) => row.owner \in Docs \ S /\ <<q, row.owner>> \in occ
  BY RowAfterDetaching, Zenon
<1>2. row.state # "absent" /\ row = question'[q]
  BY DEF Exists
<1>3. QED
  BY <1>1, <1>2 DEF Exists, NoRow

\* A saved or imported question comes without a key.
LEMMA ReplacingInheritsKeys ==
    ASSUME TypeOK, RowsInv, NEW d \in Docs,
           NEW heir \in [Questions -> Docs \cup {NoDoc}], HeirsFit({d}, heir), NEW new,
           Replaces(d, heir, new)
    PROVE  KeysInherited
<1> SUFFICES ASSUME NEW q \in Questions, Exists(q)', question'[q].key # "none"
             PROVE  \E p \in Questions : /\ Exists(p) /\ question[p].key = question'[q].key
                                         /\ question[p].copy = question'[q].copy
  BY DEF KeysInherited, KeysOfInherited
<1>1. question'[q] = RowDetached(q, {d}, heir)
  BY DEF Replaces, NewRow
<1>2. PICK S \in SUBSET Docs : S = {d}
  OBVIOUS
<1>3. QED
  BY <1>1, <1>2, DetachingKeepsKeys

\* A keeper keeps its key, or takes over that of a duplicate, whose options
\* stand in the same order unless the merge turns the key.
LEMMA PassKeysStep ==
    ASSUME TypeOK, BankInv, NEW t \in Threads, PassCommit(t)
    PROVE  KeysStep
<1> SUFFICES ASSUME NEW c \in Contents, ~TurnsKeyOf(c, t)
             PROVE  KeysOfInherited(c)
  BY InheritedKeysMeanTheSame DEF KeysStep
<1> SUFFICES ASSUME NEW q \in Questions, Exists(q)', question'[q].copy.content = c,
                    question'[q].key # "none"
             PROVE  \E p \in Questions : /\ Exists(p) /\ question[p].key = question'[q].key
                                         /\ question[p].copy = question'[q].copy
  BY DEF KeysOfInherited
<1>1. PICK keys \in [Questions -> Letters \cup {"none"}] :
          /\ \A p \in Questions : keys[p] \in KeysAfter(t, p)
          /\ question' = [p \in Questions |-> IF p \in Dups(t) THEN NoRow
                                              ELSE [question[p] EXCEPT !.key = keys[p]]]
  BY DEF PassCommit
<1>2. /\ q \notin Dups(t) /\ question'[q] = [question[q] EXCEPT !.key = keys[q]]
      /\ question[q] \in Row
  BY <1>1 DEF Exists, NoRow, TypeOK
<1>3. Exists(q) /\ question'[q].key = keys[q] /\ question'[q].copy = question[q].copy
  BY <1>2 DEF Row, Exists
<1>4. RequestFits(t) /\ At(t, "moved")
  BY DEF PassCommit, At, BankInv, RequestsFit
<1>5. \/ keys[q] = question[q].key
      \/ /\ question[q].key = "none"
         /\ \E p \in req[t].keyed : req[t].into[p] = q /\ keys[q] = question[p].key
  BY <1>1 DEF KeysAfter
<1>6. ASSUME NEW p \in req[t].keyed, req[t].into[p] = q, question[q].key = "none"
      PROVE  p \in Questions /\ Exists(p) /\ question[p].copy = question[q].copy
  <2>1. p \in Questions /\ Exists(p)
    BY <1>4 DEF RequestFits, Dups, At
  <2>2. Content(q) = Content(p)
    BY <1>4, <1>6, <2>1 DEF RequestFits, KeepersFit, At
  <2>3. Content(p) = c
    BY <1>3, <2>2 DEF Content
  <2>4. QED
    BY <1>4, <1>6, <2>1, <2>3 DEF TurnsKeyOf
<1>7. QED
  BY <1>3, <1>5, <1>6

LEMMA RequestsKeepKeys ==
    ASSUME TypeOK, BankInv, OneAtATime, Next, req' # req
    PROVE  KeysStep
<1>1. CASE question' = question
  BY <1>1, InheritedKeysStep DEF KeysInherited, KeysOfInherited, Exists
<1>2. ASSUME NEW t \in Threads, NEW d \in Docs, SaveQuestions(t, d)
      PROVE  KeysStep
  <2>1. req[t].docs = {d} /\ HeirsFit(req[t].docs, req[t].heir) /\ req[t] \in Request
    BY <1>2 DEF SaveQuestions, At, BankInv, RequestsFit, RequestFits, TypeOK
  <2>2. PICK heir \in [Questions -> Docs \cup {NoDoc}] : heir = req[t].heir
    BY <2>1 DEF Request
  <2>3. \E new : Replaces(d, heir, new)
    BY <1>2, <2>2 DEF SaveQuestions, Replaces
  <2>4. QED
    BY <2>1, <2>2, <2>3, ReplacingInheritsKeys, InheritedKeysStep DEF BankInv
<1>3. ASSUME NEW t \in Threads, NEW d \in Docs, ImportQuestionBank(t, d)
      PROVE  KeysStep
  <2>1. req[t].docs = {d} /\ HeirsFit(req[t].docs, req[t].heir) /\ req[t] \in Request
    BY <1>3 DEF ImportQuestionBank, BankInv, RequestsFit, RequestFits, TypeOK
  <2>2. PICK heir \in [Questions -> Docs \cup {NoDoc}] : heir = req[t].heir
    BY <2>1 DEF Request
  <2>3. Replaces(d, heir, [c \in Printed[d] |-> BankRow[c.content]])
    BY <1>3, <2>2 DEF ImportQuestionBank, Replaces
  <2>4. QED
    BY <2>1, <2>2, <2>3, ReplacingInheritsKeys, InheritedKeysStep DEF BankInv
<1>4. ASSUME NEW t \in Threads, DeleteDocuments(t)
      PROVE  KeysStep
  <2>1. HeirsFit(req[t].docs, req[t].heir) /\ req[t] \in Request
    BY <1>4 DEF DeleteDocuments, At, BankInv, RequestsFit, RequestFits, TypeOK
  <2>2. PICK S \in SUBSET Docs, heir \in [Questions -> Docs \cup {NoDoc}] :
            S = req[t].docs /\ heir = req[t].heir
    BY <2>1 DEF Request
  <2>3. \A q \in Questions : question'[q] = RowDetached(q, S, heir)
    BY <1>4, <2>2 DEF DeleteDocuments
  <2>4. KeysInherited
    BY <2>1, <2>2, <2>3, DetachingKeepsKeys DEF KeysInherited, KeysOfInherited, BankInv
  <2>5. QED
    BY <2>4, InheritedKeysStep
<1>5. ASSUME NEW t \in Threads, PassCommit(t)
      PROVE  KeysStep
  BY <1>5, PassKeysStep
<1>6. QED
  BY <1>1, <1>2, <1>3, <1>4, <1>5
     DEF Next, StoreUpload, Ingestion, ProcessDocument, SetFailed, FailedAs, Extracted, SaveFails,
         Import, ImportRead, ImportFails, Deletion, DeleteRead, DeleteFails,
         Dedupe, Cleanup, PassRead, MergeReferences, PassFails,
         Student, RecordAttempt, SetCorrection, DiscardQuestion, Crash

-----------------------------------------------------------------------------

\* Whatever the orders in which documents list the options of a question: no
\* ingestion, import, deletion, failure or crash makes a key point at another
\* option, and a pass only where it hands the key to a keeper without one that
\* lists them otherwise.
THEOREM KeysTurnOnlyInMergesHolds ==
    ASSUME OneAtATime
    PROVE  Spec => KeysTurnOnlyInMerges
<1>1. TypeOK /\ BankInv /\ [Next]_vars =>
      [\A c \in Contents :
          \/ KeyTexts(c)' \subseteq KeyTexts(c)
          \/ req' = req
          \/ \E t \in Threads, p \in Questions :
                /\ At(t, "moved") /\ p \in req[t].keyed /\ Content(p) = c
                /\ question[req[t].into[p]].key = "none"
                /\ question[req[t].into[p]].copy # question[p].copy]_vars
  <2>1. ASSUME TypeOK, BankInv, Next, req' # req
        PROVE  KeysStep
    BY <2>1, RequestsKeepKeys
  <2>2. QED
    BY <2>1 DEF KeysStep, TurnsKeyOf
<1>2. QED
  BY <1>1, BankHolds, PTL DEF Spec, KeysTurnOnlyInMerges

=============================================================================
