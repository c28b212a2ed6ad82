------------------------ MODULE CorrectionScopeProofs ------------------------
(***************************************************************************)
(* What a correction job that is done has left out, for every size of      *)
(* batch, number of questions and schedule: a job without `overwrite`      *)
(* leaves no more questions without a key than the bank gained meanwhile   *)
(* (DoneLeavesNothing), and a job with `overwrite`, which pages with an    *)
(* OFFSET over a list that changes and is renumbered under it, misses no   *)
(* more questions than came, went or were renumbered meanwhile             *)
(* (OverwriteMissesFew).                                                   *)
(***************************************************************************)
EXTENDS CorrectionCountersProofs, WellFoundedInduction

-----------------------------------------------------------------------------
(* Counting questions.                                                     *)

LEMMA LeastNatural ==
    ASSUME NEW T, T \subseteq Nat, T # {}
    PROVE  \E n \in T : \A m \in T : n <= m
<1> DEFINE R == OpToRel(<, Nat)
<1>1. IsWellFoundedOn(R, Nat)
  BY NatLessThanWellFounded
<1>2. \A n, m \in Nat : n < m => <<n, m>> \in R
  BY DEF OpToRel
<1> HIDE DEF R
<1>3. PICK n \in T : \A m \in T : ~(<<m, n>> \in R)
  BY <1>1, WFMin
<1>4. \A m \in T : ~(m < n)
  <2> TAKE m \in T
  <2>1. m \in Nat /\ n \in Nat
    OBVIOUS
  <2>2. QED
    BY <2>1, <1>2, <1>3, Zenon
<1>5. QED
  BY <1>4

\* A set that gains no more than the elements of A.
LEMMA GrowsBy ==
    ASSUME NEW X \in SUBSET Questions, NEW A \in SUBSET Questions, NEW Y,
           Y \subseteq X \cup A
    PROVE  Cardinality(Y) <= Cardinality(X) + Cardinality(A)
<1>1. /\ IsFiniteSet(X) /\ IsFiniteSet(A) /\ IsFiniteSet(X \cup A)
      /\ Cardinality(X) \in Nat /\ Cardinality(A) \in Nat
      /\ Cardinality(X \cap A) \in Nat /\ Cardinality(X \cup A) \in Nat
  <2>1. X \cup A \in SUBSET Questions /\ X \cap A \in SUBSET Questions
    OBVIOUS
  <2>2. QED
    BY <2>1, QuestionSets
<1>2. Cardinality(X \cup A) = Cardinality(X) + Cardinality(A) - Cardinality(X \cap A)
  BY <1>1, FS_Union
<1>3. Cardinality(Y) <= Cardinality(X \cup A)
  BY <1>1, FS_Subset
<1>4. Cardinality(Y) \in Nat
  <2>1. Y \in SUBSET Questions
    OBVIOUS
  <2>2. QED
    BY <2>1, QuestionSets
<1>5. QED
  BY <1>1, <1>2, <1>3, <1>4

LEMMA FewerOf ==
    ASSUME NEW X \in SUBSET Questions, NEW Y, Y \subseteq X
    PROVE  Cardinality(Y) \in Nat /\ Cardinality(X) \in Nat /\ Cardinality(Y) <= Cardinality(X)
<1>1. Y \in SUBSET Questions
  OBVIOUS
<1>2. QED
  BY <1>1, QuestionSets, FS_Subset

LEMMA AtMostOne ==
    ASSUME NEW Y \in SUBSET Questions, \A p, q \in Y : p = q
    PROVE  Cardinality(Y) <= 1
<1>1. CASE Y = {}
  BY <1>1, FS_EmptySet
<1>2. CASE Y # {}
  <2>1. PICK y \in Y : TRUE
    BY <1>2
  <2>2. Y = {y}
    BY <2>1
  <2>3. QED
    BY <2>2, FS_Singleton
<1>3. QED
  BY <1>1, <1>2

-----------------------------------------------------------------------------
(* The place of a question in an ordered list, and the pages of the list.  *)

Ahead(q, S, doc) == Cardinality({p \in S : Precedes(p, q, doc)})

LEMMA AheadType ==
    ASSUME NEW S \in SUBSET Questions, NEW q, NEW doc
    PROVE  Ahead(q, S, doc) \in Nat
<1>1. {p \in S : Precedes(p, q, doc)} \in SUBSET Questions
  OBVIOUS
<1>2. QED
  BY <1>1, QuestionSets DEF Ahead

\* Places follow the order, and lie below the length of the list.
LEMMA AheadFollowsOrder ==
    ASSUME rank \in Ranks, NEW S \in SUBSET Questions, NEW doc, NEW p \in S, NEW q \in S
    PROVE  /\ Precedes(p, q, doc) <=> Ahead(p, S, doc) < Ahead(q, S, doc)
           /\ Ahead(p, S, doc) = Ahead(q, S, doc) => p = q
           /\ Ahead(p, S, doc) < Cardinality(S)
<1> DEFINE Before(x) == {y \in S : Precedes(y, x, doc)}
<1>1. \A x : /\ Before(x) \in SUBSET Questions /\ IsFiniteSet(Before(x))
             /\ Cardinality(Before(x)) \in Nat
  <2> TAKE x
  <2>1. Before(x) \in SUBSET Questions
    OBVIOUS
  <2>2. QED
    BY <2>1, QuestionSets
<1>2. ASSUME NEW x \in S, NEW y \in S, Precedes(x, y, doc)
      PROVE  Cardinality(Before(x)) < Cardinality(Before(y))
  <2>1. Before(x) \in SUBSET Before(y)
    BY <1>2, PrecedesIsATotalOrder
  <2>2. x \in Before(y) /\ x \notin Before(x)
    BY <1>2, PrecedesIsATotalOrder
  <2>3. QED
    BY <1>1, <2>1, <2>2, FS_Subset
<1>3. p = q \/ Precedes(p, q, doc) \/ Precedes(q, p, doc)
  BY PrecedesIsATotalOrder
<1>4. Cardinality(Before(p)) < Cardinality(S)
  <2>1. Before(p) \subseteq S /\ p \in S /\ p \notin Before(p) /\ IsFiniteSet(S)
    BY QuestionSets, PrecedesIsATotalOrder
  <2>2. Before(p) # S
    BY <2>1
  <2>3. Cardinality(S) \in Nat
    BY QuestionSets
  <2>4. QED
    BY <1>1, <2>1, <2>2, <2>3, FS_Subset
<1>5. ~Precedes(p, p, doc)
  BY PrecedesIsATotalOrder
<1>6. /\ Precedes(p, q, doc) => Cardinality(Before(p)) < Cardinality(Before(q))
      /\ Precedes(q, p, doc) => Cardinality(Before(q)) < Cardinality(Before(p))
  BY <1>2
<1>7. Ahead(p, S, doc) = Cardinality(Before(p)) /\ Ahead(q, S, doc) = Cardinality(Before(q))
  BY DEF Ahead
<1>8. Cardinality(Before(p)) \in Nat /\ Cardinality(Before(q)) \in Nat
  BY <1>1
<1> HIDE DEF Before
<1>9. QED
  BY <1>3, <1>4, <1>5, <1>6, <1>7, <1>8

\* As many questions as an interval has numbers, if their places lie in it.
LEMMA PlacesInInterval ==
    ASSUME rank \in Ranks, NEW S \in SUBSET Questions, NEW doc, NEW T, T \subseteq S,
           NEW lo \in Nat, NEW len \in Nat,
           \A q \in T : lo <= Ahead(q, S, doc) /\ Ahead(q, S, doc) < lo + len
    PROVE  Cardinality(T) <= len
<1> DEFINE I == lo..(lo + len - 1)
           place == [q \in T |-> Ahead(q, S, doc)]
<1>1. \A q \in T : place[q] \in I
  BY AheadType
<1>2. \A p, q \in T : place[p] = place[q] => p = q
  BY AheadFollowsOrder
<1>3. place \in Injection(T, I)
  BY <1>1, <1>2 DEF Injection, IsInjective
<1>4. IsFiniteSet(I) /\ Cardinality(I) = len
  BY FS_Interval
<1>5. QED
  BY <1>3, <1>4, FS_Injection

\* If a page that asks for at least one row is empty, the list has ended.
LEMMA EmptyPage ==
    ASSUME rank \in Ranks, NEW S \in SUBSET Questions, NEW doc, NEW offset \in Nat,
           NEW limit \in Nat \ {0}, Page(S, doc, offset, limit) = {}
    PROVE  \A q \in S : Ahead(q, S, doc) < offset
<1> SUFFICES ASSUME NEW q \in S, offset <= Ahead(q, S, doc)
             PROVE  FALSE
  BY AheadType
<1> DEFINE Later == {p \in S : offset <= Ahead(p, S, doc)}
           places == {Ahead(p, S, doc) : p \in Later}
<1>1. places \subseteq Nat /\ places # {}
  BY AheadType
<1>2. PICK n \in places : \A m \in places : n <= m
  BY <1>1, LeastNatural
<1>3. PICK z \in Later : n = Ahead(z, S, doc)
  BY <1>2
<1> DEFINE Before == {p \in S : Precedes(p, z, doc)}
<1>4. \A p \in Before : 0 <= Ahead(p, S, doc) /\ Ahead(p, S, doc) < 0 + offset
  <2> TAKE p \in Before
  <2>1. /\ p \in S /\ z \in S
        /\ Ahead(p, S, doc) \in Nat /\ Ahead(z, S, doc) \in Nat
    BY AheadType
  <2>2. Ahead(p, S, doc) < Ahead(z, S, doc)
    BY <2>1, AheadFollowsOrder
  <2>3. p \notin Later
    BY <1>2, <1>3, <2>1, <2>2
  <2>4. QED
    BY <2>1, <2>3
<1>5. Cardinality(Before) <= offset
  BY <1>4, PlacesInInterval
<1>6. Ahead(z, S, doc) <= offset
  BY <1>5 DEF Ahead
<1>7. z \in Page(S, doc, offset, limit)
  <2>1. /\ Ahead(z, S, doc) \in Nat /\ z \in S /\ offset <= Ahead(z, S, doc)
        /\ Ahead(z, S, doc) < offset + limit
    BY <1>3, <1>6, AheadType
  <2>2. QED
    BY <2>1 DEF Page, Ahead
<1>8. QED
  BY <1>7

-----------------------------------------------------------------------------
(* What a step does to the questions of a scope.                           *)

Scopes == Docs \cup {NoDoc}

\* The questions a job of each scope may still have to do, without and with
\* `overwrite`.
Waiting == [doc \in Scopes |-> Candidates(doc, FALSE)]
Alive == [doc \in Scopes |-> Candidates(doc, TRUE)]

LEMMA ScopeTypes ==
    \A doc \in Scopes :
        /\ Waiting[doc] = {q \in Questions : InScope(q, doc) /\ Pending(q)}
        /\ Waiting[doc] \in SUBSET Questions
  BY DEF Waiting, Candidates

\* No question outside A enters the scope, or loses its key within it.
NewOnlyIn(A, doc) ==
    \A q \in Questions \ A :
        InScope(q, doc)' => InScope(q, doc) /\ (Pending(q)' => Pending(q))

LEMMA ScopesOf ==
    ASSUME NEW doc \in Scopes, NEW A \in SUBSET Questions, NewOnlyIn(A, doc)
    PROVE  Waiting'[doc] \subseteq Waiting[doc] \cup A
<1>1. Waiting'[doc] = {q \in Questions : InScope(q, doc)' /\ Pending(q)'}
  BY DEF Waiting, Candidates, InScope, Pending
<1>2. QED
  BY <1>1, ScopeTypes DEF NewOnlyIn

\* No write of a key empties it.
LEMMA SavedKeyIsAKey ==
    ASSUME NEW old \in Key, NEW q, NEW item \in RawItem, NEW overwrite \in BOOLEAN,
           HasCorrection(Usable(q, item))
    PROVE  SavedKey(old, Usable(q, item), overwrite) # NoKey
<1> DEFINE u == Usable(q, item)
           k == SavedKey(old, u, overwrite)
<1>1. u.option \/ u.explanation
  BY DEF HasCorrection
<1>2. k.option # "none" \/ k.explanation # "none"
  BY <1>1 DEF SavedKey, Coalesce, ByAi
<1>3. QED
  BY <1>2 DEF NoKey

LEMMA KeysStay ==
    ASSUME TypeOK, NEW p \in Questions,
           \/ \E j \in Jobs, item \in LlmItems : SaveItem(j, p, item)
           \/ \E edit \in ManualEdits : SetQuestionCorrection(p, edit)
           \/ \E item \in LlmItems : RegenerateSave(p, item)
    PROVE  \A q \in Questions : key[q] # NoKey => key'[q] # NoKey
<1>1. key \in [Questions -> Key]
  BY DEF TypeOK
<1>2. \A item \in LlmItems : item \in RawItem
  BY ConstantsAssumption
<1>3. ASSUME NEW j \in Jobs, NEW item \in LlmItems, SaveItem(j, p, item)
      PROVE  \A q \in Questions : key[q] # NoKey => key'[q] # NoKey
  <2>1. task[j].overwrite \in BOOLEAN
    BY DEF TypeOK, Task
  <2>2. SavedKey(key[p], Usable(p, item), task[j].overwrite) # NoKey
    BY <1>1, <1>2, <1>3, <2>1, SavedKeyIsAKey DEF SaveItem
  <2>3. QED
    BY <1>1, <1>3, <2>2 DEF SaveItem
<1>4. ASSUME NEW edit \in ManualEdits, SetQuestionCorrection(p, edit)
      PROVE  \A q \in Questions : key[q] # NoKey => key'[q] # NoKey
  <2> DEFINE k == [option |-> Coalesce(ByUser(edit.option), key[p].option),
             explanation |-> Coalesce(ByUser(edit.explanation), key[p].explanation),
             payload |-> Coalesce(ByUser(edit.payload), key[p].payload)]
  <2>1. edit.option \/ edit.explanation \/ edit.payload
    BY <1>4 DEF SetQuestionCorrection
  <2>2. k.option # "none" \/ k.explanation # "none" \/ k.payload # "none"
    BY <2>1 DEF Coalesce, ByUser
  <2>3. k # NoKey
    BY <2>2 DEF NoKey
  <2>4. key' = [key EXCEPT ![p] = k]
    BY <1>1, <1>4 DEF SetQuestionCorrection
  <2>5. QED
    BY <1>1, <2>3, <2>4
<1>5. ASSUME NEW item \in LlmItems, RegenerateSave(p, item)
      PROVE  \A q \in Questions : key[q] # NoKey => key'[q] # NoKey
  <2>1. CASE HasCorrection(Usable(p, item)) /\ Exists(p)
    <3>1. SavedKey(key[p], Usable(p, item), TRUE) # NoKey
      BY <1>1, <1>2, <2>1, SavedKeyIsAKey
    <3>2. QED
      BY <1>1, <1>5, <2>1, <3>1 DEF RegenerateSave
  <2>2. CASE ~(HasCorrection(Usable(p, item)) /\ Exists(p))
    BY <1>5, <2>2 DEF RegenerateSave
  <2>3. QED
    BY <2>1, <2>2
<1>6. QED
  BY <1>3, <1>4, <1>5

\* Every step pays in `churn` for the questions it brings into a scope.
PaidFor(doc) ==
    \E A \in SUBSET Questions : NewOnlyIn(A, doc) /\ churn + Cardinality(A) <= churn'

LEMMA FreeStep ==
    ASSUME TypeOK, NEW doc \in Scopes, NewOnlyIn({}, doc), churn <= churn'
    PROVE  PaidFor(doc)
<1>1. Cardinality({}) = 0 /\ churn \in Nat
  BY FS_EmptySet DEF TypeOK
<1>2. QED
  BY <1>1 DEF PaidFor

LEMMA DiscardPaidFor ==
    ASSUME TypeOK, NEW doc \in Scopes, NEW q \in Questions, DiscardQuestion(q)
    PROVE  PaidFor(doc)
<1>1. NewOnlyIn({q}, doc)
  BY DEF DiscardQuestion, NewOnlyIn, InScope, Pending, TypeOK
<1>2. Cardinality({q}) = 1 /\ churn' = churn + 1 /\ churn \in Nat
  <2>1. Cardinality({q}) = 1
    BY FS_Singleton
  <2>2. churn' = churn + 1 /\ churn \in Nat
    BY DEF DiscardQuestion, BankChanges, TypeOK
  <2>3. QED
    BY <2>1, <2>2
<1>3. QED
  BY <1>1, <1>2 DEF PaidFor

LEMMA MergePaidFor ==
    ASSUME TypeOK, NEW doc \in Scopes, NEW p \in Questions, NEW q \in Questions,
           MergeDuplicate(p, q)
    PROVE  PaidFor(doc)
<1>1. ASSUME NEW z \in Questions \ {q}, InScope(z, doc)'
      PROVE  InScope(z, doc) /\ (Pending(z)' => Pending(z))
  <2>1. question' = [question EXCEPT ![p] = "absent"] /\ p # q
    BY DEF MergeDuplicate
  <2>2. z # p /\ question[z] = "live"
    BY <1>1, <2>1 DEF InScope, TypeOK
  <2>3. doc = NoDoc \/ z \in occ[doc]
    <3>1. SUFFICES ASSUME doc # NoDoc PROVE z \in occ[doc]
      OBVIOUS
    <3>2. doc \in Docs /\ z \in occ'[doc]
      BY <1>1, <3>1 DEF InScope, Scopes
    <3>3. occ'[doc] = IF p \in occ[doc] THEN (occ[doc] \ {p}) \cup {q} ELSE occ[doc]
      BY <3>2 DEF MergeDuplicate
    <3>4. QED
      BY <1>1, <3>2, <3>3
  <2>4. key'[z] = key[z]
    BY <1>1, <2>2 DEF MergeDuplicate, TypeOK
  <2>5. QED
    BY <2>2, <2>3, <2>4 DEF InScope, Pending
<1>2. NewOnlyIn({q}, doc)
  BY <1>1 DEF NewOnlyIn
<1>3. Cardinality({q}) = 1 /\ churn' = churn + 1 /\ churn \in Nat
  <2>1. Cardinality({q}) = 1
    BY FS_Singleton
  <2>2. churn' = churn + 1 /\ churn \in Nat
    BY DEF MergeDuplicate, BankChanges, TypeOK
  <2>3. QED
    BY <2>1, <2>2
<1>4. QED
  BY <1>2, <1>3 DEF PaidFor

LEMMA SavePaidFor ==
    ASSUME TypeOK, NEW doc \in Scopes, NEW d \in Docs, NEW S \in SUBSET Questions,
           NEW moved \in SUBSET Questions, SaveQuestions(d, S, moved)
    PROVE  PaidFor(doc)
<1>1. ASSUME NEW z \in Questions \ S, InScope(z, doc)'
      PROVE  InScope(z, doc) /\ (Pending(z)' => Pending(z))
  <2>1. question'[z] = (IF z \in OnlyIn(d) THEN "absent" ELSE question[z]) /\ question'[z] = "live"
    BY <1>1 DEF SaveQuestions, InScope
  <2>2. question[z] = "live" /\ z \notin OnlyIn(d)
    BY <2>1
  <2>3. doc = NoDoc \/ z \in occ[doc]
    <3>1. SUFFICES ASSUME doc # NoDoc PROVE z \in occ[doc]
      OBVIOUS
    <3>2. doc \in Docs /\ z \in occ'[doc]
      BY <1>1, <3>1 DEF InScope, Scopes
    <3>3. occ' = [occ EXCEPT ![d] = S] /\ occ \in [Docs -> SUBSET Questions]
      BY DEF SaveQuestions, TypeOK
    <3>4. QED
      BY <1>1, <3>2, <3>3
  <2>4. key'[z] = key[z]
    BY <1>1, <2>2 DEF SaveQuestions
  <2>5. QED
    BY <2>2, <2>3, <2>4 DEF InScope, Pending
<1>2. NewOnlyIn(S, doc)
  BY <1>1 DEF NewOnlyIn
<1>3. Cardinality(S) \in Nat /\ Cardinality(moved) \in Nat /\ churn \in Nat
  BY QuestionSets DEF TypeOK
<1>4. churn' = churn + MaxOf(1, Cardinality(S) + Cardinality(moved))
  BY DEF SaveQuestions, BankChanges
<1>5. churn + Cardinality(S) <= churn'
  BY <1>3, <1>4 DEF MaxOf
<1>6. QED
  BY <1>2, <1>5 DEF PaidFor

LEMMA DeletePaidFor ==
    ASSUME TypeOK, NEW doc \in Scopes,
           \/ \E d \in Docs, moved \in SUBSET Questions : DeleteDocument(d, moved)
           \/ ResetDb
    PROVE  PaidFor(doc)
<1>1. CASE ResetDb
  <2>1. \A z \in Questions : ~InScope(z, doc)'
    BY <1>1 DEF ResetDb, QuestionsDeleted, InScope
  <2>2. NewOnlyIn({}, doc)
    BY <2>1 DEF NewOnlyIn
  <2>3. churn <= churn'
    BY <1>1 DEF ResetDb, BankChanges, TypeOK
  <2>4. QED
    BY <2>2, <2>3, FreeStep
<1>2. ASSUME NEW d \in Docs, NEW moved \in SUBSET Questions, DeleteDocument(d, moved)
      PROVE  PaidFor(doc)
  <2>1. ASSUME NEW z \in Questions, InScope(z, doc)'
        PROVE  InScope(z, doc) /\ (Pending(z)' => Pending(z))
    <3>1. question'[z] = (IF z \in OnlyIn(d) THEN "absent" ELSE question[z]) /\ question'[z] = "live"
      BY <1>2, <2>1 DEF DeleteDocument, QuestionsDeleted, InScope
    <3>2. question[z] = "live" /\ z \notin OnlyIn(d)
      BY <3>1
    <3>3. doc = NoDoc \/ z \in occ[doc]
      BY <1>2, <2>1 DEF DeleteDocument, InScope, Scopes, TypeOK
    <3>4. key'[z] = key[z]
      BY <1>2, <2>1, <3>2 DEF DeleteDocument, QuestionsDeleted
    <3>5. QED
      BY <3>2, <3>3, <3>4 DEF InScope, Pending
  <2>2. NewOnlyIn({}, doc)
    BY <2>1 DEF NewOnlyIn
  <2>3. churn <= churn'
    <3>1. Cardinality(moved) \in Nat /\ churn \in Nat
      BY QuestionSets DEF TypeOK
    <3>2. churn' = churn + MaxOf(1, Cardinality(moved))
      BY <1>2 DEF DeleteDocument, BankChanges
    <3>3. QED
      BY <3>1, <3>2 DEF MaxOf
  <2>4. QED
    BY <2>2, <2>3, FreeStep
<1>3. QED
  BY <1>1, <1>2

LEMMA StepPaidFor ==
    ASSUME TypeOK, [Next]_vars, NEW doc \in Scopes
    PROVE  PaidFor(doc)
<1>1. ASSUME UNCHANGED <<occ, question, churn>>,
             \A q \in Questions : key[q] # NoKey => key'[q] # NoKey
      PROVE  PaidFor(doc)
  <2>1. NewOnlyIn({}, doc)
    BY <1>1 DEF NewOnlyIn, InScope, Pending
  <2>2. churn <= churn'
    BY <1>1 DEF TypeOK
  <2>3. QED
    BY <2>1, <2>2, FreeStep
<1>2. CASE UNCHANGED <<occ, question, churn, key>>
  BY <1>1, <1>2
<1>3. ASSUME NEW j \in Jobs, NEW q \in Questions, NEW item \in LlmItems, SaveItem(j, q, item)
      PROVE  PaidFor(doc)
  <2>1. UNCHANGED <<occ, question, churn>>
    BY <1>3 DEF SaveItem, bank
  <2>2. QED
    BY <1>1, <1>3, <2>1, KeysStay
<1>4. ASSUME NEW q \in Questions, NEW edit \in ManualEdits, SetQuestionCorrection(q, edit)
      PROVE  PaidFor(doc)
  <2>1. UNCHANGED <<occ, question, churn>>
    BY <1>4 DEF SetQuestionCorrection, bank
  <2>2. QED
    BY <1>1, <1>4, <2>1, KeysStay
<1>5. ASSUME NEW q \in Questions, NEW item \in LlmItems, RegenerateSave(q, item)
      PROVE  PaidFor(doc)
  <2>1. UNCHANGED <<occ, question, churn>>
    BY <1>5 DEF RegenerateSave, bank
  <2>2. QED
    BY <1>1, <1>5, <2>1, KeysStay
<1>6. ASSUME NEW j \in Jobs, Worker(j)
      PROVE  PaidFor(doc)
  <2>1. CASE \E q \in Questions, item \in LlmItems : SaveItem(j, q, item)
    BY <1>3, <2>1
  <2>2. CASE ~\E q \in Questions, item \in LlmItems : SaveItem(j, q, item)
    <3>1. UNCHANGED <<occ, question, churn, key>>
      BY <1>6, <2>2 DEF Worker, LoadHeader, SetRunning, ReadCancelFlag, ReadProcessed,
         Fetch, MarkAndSend, LlmFails, LlmAnswers, NoUsableItem, BatchSaved,
         AppendFailures, UpdateCounters, SetFinalStatus, bank
    <3>2. QED
      BY <1>2, <3>1
  <2>3. QED
    BY <2>1, <2>2
<1>7. ASSUME NEW q \in Questions, Regenerate(q)
      PROVE  PaidFor(doc)
  <2>1. CASE RegenerateAsk(q) \/ RegenerateFails(q)
    BY <1>2, <2>1 DEF RegenerateAsk, RegenerateFails, bank
  <2>2. QED
    BY <1>5, <1>7, <2>1 DEF Regenerate
<1>8. CASE Bank
  BY <1>8, DiscardPaidFor, MergePaidFor, SavePaidFor, DeletePaidFor DEF Bank
<1>9. CASE StartJob
  <2>1. UNCHANGED <<occ, question, churn, key>>
    BY <1>9 DEF StartJob, StartJobCount, StartJobInsert, StartJobRefused, bank
  <2>2. QED
    BY <1>2, <2>1
<1>10. ASSUME NEW j \in Jobs, CancelJob(j) \/ DbError(j)
       PROVE  PaidFor(doc)
  <2>1. UNCHANGED <<occ, question, churn, key>>
    BY <1>10 DEF CancelJob, DbError, bank
  <2>2. QED
    BY <1>2, <2>1
<1>11. CASE Crash \/ Shutdown \/ Startup
  <2>1. UNCHANGED <<occ, question, churn, key>>
    BY <1>11 DEF Crash, Shutdown, Startup, bank
  <2>2. QED
    BY <1>2, <2>1
<1>12. CASE UNCHANGED vars
  BY <1>2, <1>12 DEF vars
<1>13. QED
  BY <1>4, <1>6, <1>7, <1>8, <1>9, <1>10, <1>11, <1>12 DEF Next

-----------------------------------------------------------------------------
(* What a step does to one job.                                            *)

SameJob(r, s) ==
    /\ s.doc = r.doc /\ s.overwrite = r.overwrite /\ s.total = r.total
    /\ s.processed = r.processed /\ s.failed = r.failed

Undisturbed(j) ==
    /\ task'[j] = task[j] /\ hist'[j] = hist[j]
    /\ row'[j].status \notin NoRow => Stored(j) /\ SameJob(row[j], row'[j])

LEMMA WorkerHist ==
    ASSUME TypeOK, NEW i \in Jobs, NEW j \in Jobs \ {i}, Worker(i) \/ DbError(i)
    PROVE  hist'[j] = hist[j]
<1>1. hist \in [Jobs -> Hist]
  BY DEF TypeOK
<1>2. CASE hist' = hist
  BY <1>2
<1>3. CASE TaskEnds(i)
  BY <1>1, <1>3 DEF TaskEnds
<1>4. CASE MarkAndSend(i)
  BY <1>1, <1>4 DEF MarkAndSend
<1>5. QED
  BY <1>2, <1>3, <1>4 DEF Worker, LoadHeader, SetRunning, ReadCancelFlag, ReadProcessed,
     Fetch, LlmFails, LlmAnswers, NoUsableItem, SaveItem, BatchSaved,
     AppendFailures, UpdateCounters, SetFinalStatus, DbError

LEMMA JobSteps ==
    ASSUME TypeOK, StatusInv, [Next]_vars, NEW j \in Jobs
    PROVE  \/ Worker(j) \/ DbError(j) \/ StartJobInsert(j)
           \/ task'[j].pc = "none"
           \/ Undisturbed(j)
<1> USE DEF SameJob
<1>1. row \in [Jobs -> Row] /\ row[j] \in Row
  BY DEF TypeOK
<1>2. ASSUME UNCHANGED <<row, task, hist>>
      PROVE  Undisturbed(j)
  BY <1>2 DEF Undisturbed, Stored
<1>3. ASSUME NEW i \in Jobs \ {j}, Worker(i) \/ DbError(i)
      PROVE  Undisturbed(j)
  <2>1. hist'[j] = hist[j]
    BY <1>3, WorkerHist
  <2>2. task'[j] = task[j] /\ row'[j] = row[j]
    BY <1>3, WorkerSteps, DbErrorSteps DEF WorkerEffect
  <2>3. QED
    BY <2>1, <2>2 DEF Undisturbed, Stored
<1>4. ASSUME NEW i \in Jobs \ {j}, StartJobInsert(i)
      PROVE  Undisturbed(j)
  BY <1>4 DEF StartJobInsert, Undisturbed, Stored, TypeOK
<1>5. ASSUME NEW i \in Jobs, CancelJob(i)
      PROVE  Undisturbed(j)
  BY <1>1, <1>5 DEF CancelJob, Undisturbed, Stored, Row, Active, NoRow
<1>6. ASSUME NEW S, JobsDeleted(S), UNCHANGED <<task, hist>>
      PROVE  Undisturbed(j)
  BY <1>1, <1>6 DEF JobsDeleted, Undisturbed, Stored, BlankRow, NoRow
<1>7. CASE Bank
  <2>1. CASE UNCHANGED <<row, task, hist>>
    BY <1>2, <2>1
  <2>2. CASE \E S : JobsDeleted(S) /\ UNCHANGED <<task, hist>>
    BY <1>6, <2>2
  <2>3. QED
    BY <1>7, <2>1, <2>2 DEF Bank, DiscardQuestion, SaveQuestions, MergeDuplicate,
       DeleteDocument, ResetDb
<1>8. CASE Crash \/ Shutdown
  BY <1>8 DEF Crash, Shutdown, TasksGone, NoTask
<1>9. CASE Startup
  <2>1. row'[j] = Interrupted(row[j]) /\ UNCHANGED <<task, hist>>
    BY <1>9 DEF Startup
  <2>2. QED
    BY <1>1, <2>1 DEF Undisturbed, Interrupted, Stored, Row, Active, NoRow
<1>10. CASE StartJob
  <2>1. CASE \E i \in Jobs : StartJobInsert(i)
    BY <1>4, <2>1
  <2>2. CASE UNCHANGED <<row, task, hist>>
    BY <1>2, <2>2
  <2>3. QED
    BY <1>10, <2>1, <2>2 DEF StartJob, StartJobCount, StartJobRefused
<1>11. ASSUME NEW q \in Questions, NEW edit \in ManualEdits, SetQuestionCorrection(q, edit)
       PROVE  Undisturbed(j)
  BY <1>2, <1>11 DEF SetQuestionCorrection
<1>12. ASSUME NEW q \in Questions, Regenerate(q)
       PROVE  Undisturbed(j)
  BY <1>2, <1>12 DEF Regenerate, RegenerateAsk, RegenerateSave, RegenerateFails
<1>13. CASE UNCHANGED vars
  BY <1>2, <1>13 DEF vars
<1>14. QED
  BY <1>3, <1>5, <1>7, <1>8, <1>9, <1>10, <1>11, <1>12, <1>13 DEF Next

-----------------------------------------------------------------------------
(* A job without `overwrite`: what it has still to do.                     *)

Saving == {"save", "log", "count"}

\* The questions a worker holds and has not answered yet.
Work(t) == IF t.pc \in {"mark", "llm"} THEN t.batch ELSE t.todo

\* Keys saved and not yet counted in the row.
SavedNow(t) == IF t.pc \in Saving THEN t.saved ELSE 0

\* No question has failed so far.
Clean(r, t) == r.failed = 0 /\ (t.pc \in Saving => t.fails = {})

\* What the job waits for (W, and the work in hand) and what it has done fit
\* into what it had counted and the bank has gained since; a job that has
\* come to its end, without its cap, leaves no more than the gain.
Tracks(r, t, h, W, c) ==
    /\ h.churn <= c
    /\ t.pc # "scheduled" => t.doc = r.doc /\ ~t.overwrite
    /\ Clean(r, t) =>
           Cardinality(W \cup Work(t)) + r.processed + SavedNow(t) + h.churn
               <= Cardinality(h.wanted) + c
    /\ t.pc = "done" /\ Clean(r, t) /\ Cardinality(h.wanted) = r.total =>
           Cardinality(W) + h.churn <= c

\* The task has ended, or will end without the status 'done'.
Off(t) == t.pc \in {"none", "error", "cancelled"}

StartTracks ==
    starting.on /\ ~starting.overwrite =>
        /\ starting.churn <= churn
        /\ Cardinality(Waiting[starting.doc]) + starting.churn
               <= Cardinality(starting.wanted) + churn

ScopeInv ==
    /\ StartTracks
    /\ \A j \in Jobs :
           Stored(j) /\ ~row[j].overwrite /\ ~Off(task[j]) =>
               Tracks(row[j], task[j], hist[j], Waiting[row[j].doc], churn)

LEMMA TracksGrows ==
    ASSUME NEW r \in Row, NEW t \in Task, NEW h \in Hist,
           NEW W \in SUBSET Questions, NEW A \in SUBSET Questions, NEW V,
           V \subseteq W \cup A,
           NEW c \in Nat, NEW d \in Nat, c + Cardinality(A) <= d,
           Tracks(r, t, h, W, c)
    PROVE  Tracks(r, t, h, V, d)
<1>1. Work(t) \in SUBSET Questions
  BY DEF Work, Task
<1>2. W \cup Work(t) \in SUBSET Questions /\ V \cup Work(t) \subseteq (W \cup Work(t)) \cup A
  BY <1>1
<1>3. /\ Cardinality(V) <= Cardinality(W) + Cardinality(A)
      /\ Cardinality(V \cup Work(t)) <= Cardinality(W \cup Work(t)) + Cardinality(A)
  BY <1>2, GrowsBy
<1>4. /\ Cardinality(V) \in Nat /\ Cardinality(V \cup Work(t)) \in Nat
      /\ Cardinality(W) \in Nat /\ Cardinality(W \cup Work(t)) \in Nat
      /\ Cardinality(A) \in Nat /\ Cardinality(h.wanted) \in Nat
  <2>1. V \in SUBSET Questions /\ V \cup Work(t) \in SUBSET Questions /\ h.wanted \in SUBSET Questions
    BY <1>1 DEF Hist
  <2>2. QED
    BY <1>2, <2>1, QuestionSets
<1>5. h.churn \in Nat /\ r.processed \in Nat /\ SavedNow(t) \in Nat
  BY DEF Hist, Row, Task, SavedNow
<1>6. QED
  BY <1>3, <1>4, <1>5 DEF Tracks

\* The worker reads, fetches and sends without changing what waits.
LEMMA FetchTracks ==
    ASSUME TypeOK, CountersInv, NEW j \in Jobs, Stored(j), ~row[j].overwrite,
           NEW W \in SUBSET Questions, NEW c \in Nat,
           Waiting[row[j].doc] = W,
           Tracks(row[j], task[j], hist[j], W, c),
           ~Off(task'[j]),
           \/ LoadHeader(j) \/ SetRunning(j) \/ ReadCancelFlag(j)
           \/ ReadProcessed(j) \/ Fetch(j) \/ MarkAndSend(j)
    PROVE  Tracks(row'[j], task'[j], hist'[j], W, c) /\ SameJob(row[j], row'[j])
<1> DEFINE r == row[j]
           t == task[j]
           h == hist[j]
           u == task'[j]
<1> USE DEF SameJob
<1>1. /\ r \in Row /\ t \in Task /\ h \in Hist /\ Held(t) /\ Fits(r, t)
      /\ row \in [Jobs -> Row] /\ task \in [Jobs -> Task] /\ hist \in [Jobs -> Hist]
  BY DEF TypeOK, CountersInv, Tallied, Stored
<1>2. r.doc \in Scopes /\ r.processed \in Nat /\ h.churn \in Nat
  BY <1>1 DEF Row, Hist, Scopes
<1>3. CASE LoadHeader(j)
  <2>1. /\ t.pc = "scheduled" /\ t.todo = {} /\ row' = row /\ hist' = hist
        /\ u = [NoTask EXCEPT !.pc = "setRunning", !.doc = r.doc,
                    !.overwrite = r.overwrite, !.total = r.total]
    BY <1>1, <1>3 DEF LoadHeader, At, Held
  <2>2. /\ u.pc = "setRunning" /\ u.todo = {} /\ u.doc = r.doc
        /\ u.overwrite = r.overwrite
    BY <2>1 DEF NoTask
  <2>3. QED
    BY <2>1, <2>2 DEF Tracks, Clean, Work, SavedNow, Saving
<1>4. CASE SetRunning(j)
  <2>1. /\ t.pc = "setRunning" /\ hist' = hist
        /\ row'[j] = [r EXCEPT !.status = "running"]
        /\ u = [t EXCEPT !.pc = "readCancel"]
    BY <1>1, <1>4 DEF SetRunning, At, GoTo, RowUpdated
  <2>2. /\ u.pc = "readCancel" /\ u.todo = t.todo /\ u.doc = t.doc
        /\ u.overwrite = t.overwrite /\ SameJob(r, row'[j])
    BY <1>1, <2>1 DEF Task, Row
  <2>3. QED
    BY <2>1, <2>2 DEF Tracks, Clean, Work, SavedNow, Saving
<1>5. CASE ReadCancelFlag(j)
  <2>1. /\ t.pc = "readCancel" /\ hist' = hist /\ row' = row
        /\ u = [t EXCEPT !.pc = IF CancelFlag(j) THEN "cancelled" ELSE "readProcessed"]
    BY <1>1, <1>5 DEF ReadCancelFlag, At, GoTo
  <2>2. /\ u.pc = "readProcessed" /\ u.todo = t.todo /\ u.doc = t.doc
        /\ u.overwrite = t.overwrite
    BY <1>1, <2>1 DEF Task, Off
  <2>3. QED
    BY <2>1, <2>2 DEF Tracks, Clean, Work, SavedNow, Saving
<1>6. CASE ReadProcessed(j)
  <2>1. /\ t.pc = "readProcessed" /\ hist' = hist /\ row' = row /\ t.todo = {}
        /\ u = [t EXCEPT !.now = r.processed,
                    !.pc = IF ReachedTotal(t, r.processed) THEN "done" ELSE "fetch"]
    BY <1>1, <1>6 DEF ReadProcessed, At, Held
  <2>2. /\ u.pc = IF ReachedTotal(t, r.processed) THEN "done" ELSE "fetch"
        /\ u.todo = {} /\ u.doc = t.doc /\ u.overwrite = t.overwrite
    BY <1>1, <2>1 DEF Task
  <2>3. Work(t) = {} /\ Work(u) = {} /\ SavedNow(t) = 0 /\ SavedNow(u) = 0
    BY <2>1, <2>2 DEF Work, SavedNow, Saving
  <2>4. Clean(r, u) <=> Clean(r, t)
    BY <2>1, <2>2 DEF Clean, Saving
  <2>5. u.pc = "done" /\ Cardinality(h.wanted) = r.total => r.processed >= Cardinality(h.wanted)
    BY <1>1, <2>1, <2>2 DEF ReachedTotal, Fits
  <2>6. W \cup {} = W /\ Cardinality(W) \in Nat /\ Cardinality(h.wanted) \in Nat
    BY <1>1, QuestionSets DEF Hist
  <2>7. Clean(r, t) => Cardinality(W) + r.processed + h.churn <= Cardinality(h.wanted) + c
    BY <1>2, <2>3, <2>6 DEF Tracks
  <2>8. u.pc = "done" /\ Clean(r, u) /\ Cardinality(h.wanted) = r.total => Cardinality(W) + h.churn <= c
    BY <1>2, <2>4, <2>5, <2>6, <2>7
  <2>9. QED
    BY <1>2, <2>1, <2>2, <2>3, <2>4, <2>6, <2>7, <2>8 DEF Tracks
<1>7. CASE Fetch(j)
  <2>1. /\ t.pc = "fetch" /\ hist' = hist /\ row' = row /\ t.todo = {}
        /\ u = [t EXCEPT !.batch = FetchBatch(t),
                    !.pc = IF FetchBatch(t) = {} THEN "done" ELSE "mark"]
    BY <1>1, <1>7 DEF Fetch, At, Held
  <2>2. /\ u.pc = IF FetchBatch(t) = {} THEN "done" ELSE "mark"
        /\ u.batch = FetchBatch(t)
        /\ u.todo = {} /\ u.doc = t.doc /\ u.overwrite = t.overwrite
    BY <1>1, <2>1 DEF Task
  <2>3. t.doc = r.doc /\ ~t.overwrite
    BY <2>1 DEF Tracks
  <2>4. Candidates(t.doc, t.overwrite) = W
    <3>1. Candidates(t.doc, t.overwrite) = Candidates(t.doc, FALSE)
      BY <2>3 DEF Candidates
    <3>2. QED
      BY <1>2, <2>3, <3>1 DEF Waiting
  <2>5. FetchBatch(t) = Page(W, r.doc, 0, ThisBatchSize(t))
    BY <2>3, <2>4 DEF FetchBatch, Offset
  <2>6. ThisBatchSize(t) \in Nat \ {0}
    BY <1>1, ConstantsAssumption DEF ThisBatchSize, MinOf, MaxOf, Task
  <2>7. FetchBatch(t) \subseteq W
    BY <2>5 DEF Page
  <2>8. FetchBatch(t) = {} => W = {}
    <3>1. ASSUME Page(W, r.doc, 0, ThisBatchSize(t)) = {}, NEW q \in W
          PROVE  FALSE
      <4>1. Ahead(q, W, r.doc) < 0
        BY <2>6, <3>1, EmptyPage DEF TypeOK
      <4>2. QED
        BY <4>1, AheadType
    <3>2. QED
      BY <2>5, <3>1
  <2>9. Work(t) = {} /\ W \cup Work(u) = W /\ SavedNow(t) = 0 /\ SavedNow(u) = 0
    BY <2>1, <2>2, <2>7 DEF Work, SavedNow, Saving
  <2>10. Clean(r, u) <=> Clean(r, t)
    BY <2>1, <2>2 DEF Clean, Saving
  <2>11. Cardinality({}) = 0
    BY FS_EmptySet
  <2>12. W \cup Work(t) = W \cup Work(u)
    BY <2>9
  <2>13. Clean(r, u) =>
             Cardinality(W \cup Work(u)) + r.processed + SavedNow(u) + h.churn
                 <= Cardinality(h.wanted) + c
    BY <2>9, <2>10, <2>12 DEF Tracks
  <2>14. h.churn <= c /\ u.doc = r.doc /\ ~u.overwrite
    BY <2>2, <2>3 DEF Tracks
  <2>15. u.pc = "done" => Cardinality(W) + h.churn <= c
    <3>1. u.pc = "done" => W = {}
      BY <2>2, <2>8
    <3>2. u.pc = "done" => Cardinality(W) = 0
      BY <2>11, <3>1
    <3>3. QED
      BY <1>2, <2>14, <3>2
  <2>16. QED
    BY <2>1, <2>13, <2>14, <2>15 DEF Tracks
<1>8. CASE MarkAndSend(j)
  <2>1. /\ t.pc = "mark" /\ row' = row /\ u = [t EXCEPT !.pc = "llm"]
        /\ hist'[j].wanted = h.wanted /\ hist'[j].churn = h.churn
    BY <1>1, <1>8 DEF MarkAndSend, At, GoTo, Hist
  <2>2. /\ u.pc = "llm" /\ u.batch = t.batch /\ u.doc = t.doc
        /\ u.overwrite = t.overwrite
    BY <1>1, <2>1 DEF Task
  <2>3. QED
    BY <2>1, <2>2 DEF Tracks, Clean, Work, SavedNow, Saving
<1>9. QED
  BY <1>3, <1>4, <1>5, <1>6, <1>7, <1>8

\* The worker records its batch: what it has saved counts as processed, and a
\* failure is on record from then on.
LEMMA RecordTracks ==
    ASSUME TypeOK, CountersInv, NEW j \in Jobs, Stored(j), ~row[j].overwrite,
           NEW W \in SUBSET Questions, NEW c \in Nat,
           Tracks(row[j], task[j], hist[j], W, c),
           \/ LlmFails(j) \/ LlmAnswers(j) \/ BatchSaved(j)
           \/ AppendFailures(j) \/ UpdateCounters(j)
    PROVE  /\ Tracks(row'[j], task'[j], hist'[j], W, c)
           /\ row'[j].doc = row[j].doc
<1> DEFINE r == row[j]
           t == task[j]
           h == hist[j]
           u == task'[j]
<1> USE DEF SameJob
<1>1. /\ r \in Row /\ t \in Task /\ h \in Hist /\ Held(t)
      /\ row \in [Jobs -> Row] /\ task \in [Jobs -> Task]
  BY DEF TypeOK, CountersInv, Tallied
<1>2. r.processed \in Nat /\ h.churn \in Nat /\ r.failed \in Nat /\ t.saved \in Nat
  BY <1>1 DEF Row, Hist, Task
<1>3. CASE LlmFails(j)
  <2>1. /\ t.pc = "llm" /\ hist' = hist /\ row' = row
        /\ u = [t EXCEPT !.pc = "log", !.todo = {}, !.saved = 0, !.fails = t.batch]
    BY <1>1, <1>3 DEF LlmFails, At
  <2>2. /\ u.pc = "log" /\ u.todo = {} /\ u.saved = 0 /\ u.fails = t.batch
        /\ u.doc = t.doc /\ u.overwrite = t.overwrite
    BY <1>1, <2>1 DEF Task
  <2>3. /\ Work(t) = t.batch /\ Work(u) = {} /\ SavedNow(t) = 0 /\ SavedNow(u) = 0
    BY <2>1, <2>2 DEF Work, SavedNow, Saving
  <2>4. Clean(r, u) => Clean(r, t) /\ Work(u) = Work(t)
    BY <2>1, <2>2, <2>3 DEF Clean, Saving
  <2>5. QED
    BY <2>1, <2>2, <2>3, <2>4 DEF Tracks
<1>4. CASE LlmAnswers(j)
  <2>1. /\ t.pc = "llm" /\ hist' = hist /\ row' = row
        /\ u = [t EXCEPT !.pc = "save", !.todo = t.batch, !.saved = 0, !.fails = {}]
    BY <1>1, <1>4 DEF LlmAnswers, At
  <2>2. /\ u.pc = "save" /\ u.todo = t.batch /\ u.saved = 0 /\ u.fails = {}
        /\ u.doc = t.doc /\ u.overwrite = t.overwrite
    BY <1>1, <2>1 DEF Task
  <2>3. QED
    BY <2>1, <2>2 DEF Tracks, Clean, Work, SavedNow, Saving
<1>5. CASE BatchSaved(j)
  <2>1. /\ t.pc = "save" /\ hist' = hist /\ row' = row
        /\ u = [t EXCEPT !.pc = IF t.fails = {} THEN "count" ELSE "log"]
    BY <1>1, <1>5 DEF BatchSaved, At, GoTo
  <2>2. /\ u.pc \in {"count", "log"} /\ u.todo = t.todo /\ u.saved = t.saved
        /\ u.fails = t.fails /\ u.doc = t.doc /\ u.overwrite = t.overwrite
    BY <1>1, <2>1 DEF Task
  <2>3. QED
    BY <2>1, <2>2 DEF Tracks, Clean, Work, SavedNow, Saving
<1>6. CASE AppendFailures(j)
  <2>1. /\ t.pc = "log" /\ hist' = hist
        /\ row'[j] = [r EXCEPT !.logged = @ + Cardinality(t.fails)]
        /\ u = [t EXCEPT !.pc = "count"]
    BY <1>1, <1>6 DEF AppendFailures, At, GoTo, RowUpdated
  <2>2. /\ u.pc = "count" /\ u.todo = t.todo /\ u.saved = t.saved
        /\ u.fails = t.fails /\ u.doc = t.doc /\ u.overwrite = t.overwrite
        /\ SameJob(r, row'[j])
    BY <1>1, <2>1 DEF Task, Row
  <2>3. QED
    BY <2>1, <2>2 DEF Tracks, Clean, Work, SavedNow, Saving
<1>7. CASE UpdateCounters(j)
  <2>1. /\ t.pc = "count" /\ hist' = hist /\ row'[j] = Counted(r, t)
        /\ u = [t EXCEPT !.pc = "readCancel", !.batch = {}, !.saved = 0, !.fails = {}]
    BY <1>1, <1>7 DEF UpdateCounters, At, RowUpdated
  <2>2. /\ u.pc = "readCancel" /\ u.todo = t.todo
        /\ u.doc = t.doc /\ u.overwrite = t.overwrite
    BY <1>1, <2>1 DEF Task
  <2>3. /\ row'[j].processed = r.processed + Cardinality(t.batch)
        /\ row'[j].failed = r.failed + Cardinality(t.fails)
        /\ row'[j].doc = r.doc /\ row'[j].overwrite = r.overwrite
    BY <1>1, <2>1 DEF Counted, Row
  <2>4. /\ IsFiniteSet(t.fails) /\ Cardinality(t.fails) \in Nat
        /\ t.todo = {} /\ Cardinality({}) = 0
        /\ Cardinality(t.batch) = t.saved + Cardinality(t.todo) + Cardinality(t.fails)
    BY <1>1, <2>1, QuestionSets, FS_EmptySet DEF Held, Task
  <2>5. Cardinality(t.fails) = 0 => t.fails = {}
    BY <2>4, FS_EmptySet
  <2>6. Clean(row'[j], u) => Clean(r, t) /\ Cardinality(t.batch) = t.saved
    BY <1>2, <2>1, <2>2, <2>3, <2>4, <2>5 DEF Clean, Saving
  <2>7. Work(u) = Work(t) /\ SavedNow(u) = 0 /\ SavedNow(t) = t.saved
    BY <2>1, <2>2 DEF Work, SavedNow, Saving
  <2>8. W \cup Work(t) \in SUBSET Questions
    BY <1>1, <2>1 DEF Work, Task
  <2>9. Cardinality(W \cup Work(t)) \in Nat /\ Cardinality(h.wanted) \in Nat
    BY <1>1, <2>8, QuestionSets DEF Hist
  <2>10. Clean(r, t) => Cardinality(W \cup Work(t)) + r.processed + t.saved + h.churn
                           <= Cardinality(h.wanted) + c
    BY <2>7 DEF Tracks
  <2>11. Clean(row'[j], u) => Cardinality(W \cup Work(u)) + row'[j].processed + 0 + h.churn
                           <= Cardinality(h.wanted) + c
    BY <1>2, <2>3, <2>6, <2>7, <2>9, <2>10
  <2>12. h.churn <= c /\ u.doc = r.doc /\ ~u.overwrite
    BY <2>1, <2>2 DEF Tracks
  <2>13. QED
    BY <2>1, <2>2, <2>3, <2>7, <2>11, <2>12 DEF Tracks
<1>8. QED
  BY <1>3, <1>4, <1>5, <1>6, <1>7

\* An item is saved, and its question waits no more; or it fails.
LEMMA ItemTracks ==
    ASSUME TypeOK, CountersInv, NEW j \in Jobs, NEW q \in task[j].todo,
           NEW failed \in BOOLEAN, ItemDone(j, q, failed),
           NEW W \in SUBSET Questions, NEW V, V \subseteq W, failed \/ q \notin V,
           NEW c \in Nat,
           Tracks(row[j], task[j], hist[j], W, c)
    PROVE  Tracks(row[j], task'[j], hist[j], V, c)
<1> DEFINE r == row[j]
           t == task[j]
           h == hist[j]
           u == task'[j]
<1>1. r \in Row /\ t \in Task /\ h \in Hist /\ Held(t) /\ task \in [Jobs -> Task]
  BY DEF TypeOK, CountersInv, Tallied
<1>2. t.pc = "save"
  BY <1>1 DEF Held
<1>3. u = [t EXCEPT !.todo = @ \ {q}, !.saved = IF failed THEN @ ELSE @ + 1,
                    !.fails = IF failed THEN @ \cup {q} ELSE @]
  BY <1>1 DEF ItemDone
<1>4. /\ u.pc = t.pc /\ u.doc = t.doc /\ u.overwrite = t.overwrite
      /\ u.todo = t.todo \ {q}
      /\ u.saved = IF failed THEN t.saved ELSE t.saved + 1
      /\ u.fails = IF failed THEN t.fails \cup {q} ELSE t.fails
  BY <1>1, <1>3 DEF Task
<1>5. CASE failed
  <2>1. ~Clean(r, u)
    BY <1>2, <1>4, <1>5 DEF Clean, Saving
  <2>2. QED
    BY <1>2, <1>4, <2>1 DEF Tracks
<1>6. CASE ~failed
  <2> DEFINE X == W \cup t.todo
             Y == V \cup u.todo
  <2>1. X \in SUBSET Questions /\ q \in X /\ Y \subseteq X \ {q}
    BY <1>1, <1>4, <1>6 DEF Task
  <2>2. IsFiniteSet(X) /\ Cardinality(X) \in Nat /\ Cardinality(X \ {q}) = Cardinality(X) - 1
    <3>1. \A Z \in SUBSET Questions : \A p \in Z :
              IsFiniteSet(Z) /\ Cardinality(Z) \in Nat /\ Cardinality(Z \ {p}) = Cardinality(Z) - 1
      BY QuestionSets, FS_RemoveElement
    <3>2. QED
      BY <2>1, <3>1
  <2>3. X \ {q} \in SUBSET Questions
    BY <2>1
  <2>4. Cardinality(Y) \in Nat /\ Cardinality(Y) <= Cardinality(X) - 1
    BY <2>1, <2>2, <2>3, FewerOf
  <2>5. Work(t) = t.todo /\ Work(u) = u.todo /\ SavedNow(t) = t.saved /\ SavedNow(u) = t.saved + 1
    BY <1>2, <1>4, <1>6 DEF Work, SavedNow, Saving
  <2>6. Clean(r, u) => Clean(r, t)
    BY <1>2, <1>4, <1>6 DEF Clean, Saving
  <2>7. /\ r.processed \in Nat /\ h.churn \in Nat /\ t.saved \in Nat
        /\ Cardinality(h.wanted) \in Nat
    BY <1>1, QuestionSets DEF Row, Hist, Task
  <2>8. Clean(r, u) => Cardinality(X) + r.processed + t.saved + h.churn <= Cardinality(h.wanted) + c
    BY <2>5, <2>6 DEF Tracks
  <2>9. Clean(r, u) => Cardinality(Y) + r.processed + (t.saved + 1) + h.churn <= Cardinality(h.wanted) + c
    BY <2>2, <2>4, <2>7, <2>8
  <2>10. Clean(r, u) => Cardinality(V \cup Work(u)) + r.processed + SavedNow(u) + h.churn
                           <= Cardinality(h.wanted) + c
    BY <2>5, <2>9
  <2>11. QED
    BY <1>2, <1>4, <2>10 DEF Tracks
<1>7. QED
  BY <1>5, <1>6

LEMMA OffStays ==
    ASSUME TypeOK, NEW j \in Jobs, Worker(j) \/ DbError(j), Off(task[j])
    PROVE  Off(task'[j])
<1>1. task \in [Jobs -> Task] /\ task[j] \in Task
  BY DEF TypeOK
<1>2. CASE Worker(j)
  <2>1. SetFinalStatus(j)
    BY <1>2 DEF Worker, Off, At, LoadHeader, SetRunning, ReadCancelFlag, ReadProcessed,
       Fetch, MarkAndSend, LlmFails, LlmAnswers, NoUsableItem, SaveItem, BatchSaved,
       AppendFailures, UpdateCounters
  <2>2. task'[j] = NoTask
    BY <1>1, <2>1 DEF SetFinalStatus, TaskEnds
  <2>3. QED
    BY <2>2 DEF Off, NoTask
<1>3. CASE DbError(j)
  BY <1>1, <1>3, DbErrorSteps DEF Off, DbError, OnLoop, Ending
<1>4. QED
  BY <1>2, <1>3

\* A worker that does not save a key leaves the bank and the keys alone.
LEMMA QuietWorker ==
    ASSUME TypeOK, NEW j \in Jobs, Worker(j) \/ DbError(j)
    PROVE  /\ UNCHANGED <<docs, occ, question, rank, churn, starting>>
           /\ \/ UNCHANGED key
              \/ \E q \in Questions, item \in LlmItems : SaveItem(j, q, item)
  BY DEF Worker, LoadHeader, SetRunning, ReadCancelFlag, ReadProcessed,
     Fetch, MarkAndSend, LlmFails, LlmAnswers, NoUsableItem, SaveItem, BatchSaved,
     AppendFailures, UpdateCounters, SetFinalStatus, DbError, bank

LEMMA SaveItemTracks ==
    ASSUME TypeOK, CountersInv, NEW j \in Jobs, NEW doc \in Scopes, NEW c \in Nat,
           NEW q \in Questions, NEW item \in LlmItems, SaveItem(j, q, item),
           Tracks(row[j], task[j], hist[j], Waiting[doc], c)
    PROVE  Tracks(row[j], task'[j], hist[j], Waiting'[doc], c)
<1>1. /\ q \in task[j].todo /\ ItemDone(j, q, ~Exists(q))
      /\ (~Exists(q)) \in BOOLEAN
  BY DEF SaveItem, Exists
<1>2. Waiting[doc] \in SUBSET Questions
  BY ScopeTypes
<1>3. /\ Waiting'[doc] = {p \in Questions : InScope(p, doc)' /\ Pending(p)'}
      /\ Waiting[doc] = {p \in Questions : InScope(p, doc) /\ Pending(p)}
  BY DEF Waiting, Candidates, InScope, Pending
<1>4. \A p \in Questions : InScope(p, doc)' => InScope(p, doc)
  BY DEF SaveItem, InScope, bank
<1>5. \A p \in Questions : Pending(p)' => Pending(p)
  BY KeysStay DEF Pending
<1>6. Waiting'[doc] \subseteq Waiting[doc]
  BY <1>3, <1>4, <1>5
<1>7. Exists(q) => q \notin Waiting'[doc]
  <2>1. SUFFICES ASSUME Exists(q) PROVE ~Pending(q)'
    BY <1>3
  <2>2. key'[q] = SavedKey(key[q], Usable(q, item), task[j].overwrite)
    BY <2>1 DEF SaveItem, TypeOK
  <2>3. key[q] \in Key /\ task[j].overwrite \in BOOLEAN /\ item \in RawItem
    BY ConstantsAssumption DEF TypeOK, Task
  <2>4. HasCorrection(Usable(q, item))
    BY DEF SaveItem
  <2>5. key'[q] # NoKey
    BY <2>2, <2>3, <2>4, SavedKeyIsAKey
  <2>6. QED
    BY <2>5 DEF Pending
<1>8. QED
  BY <1>1, <1>2, <1>6, <1>7, ItemTracks

LEMMA WaitingUnchanged ==
    ASSUME UNCHANGED <<occ, question, key>>
    PROVE  Waiting' = Waiting
  BY DEF Waiting, Candidates, InScope, Pending

\* A step of its own worker, or a failing statement of it.
LEMMA OwnStepTracks ==
    ASSUME TypeOK, CountersInv, NEW j \in Jobs, Worker(j) \/ DbError(j),
           Stored(j), ~row[j].overwrite, ~Off(task'[j]),
           Tracks(row[j], task[j], hist[j], Waiting[row[j].doc], churn)
    PROVE  Tracks(row'[j], task'[j], hist'[j], Waiting'[row'[j].doc], churn')
<1>1. /\ row[j].doc \in Scopes /\ churn \in Nat /\ task \in [Jobs -> Task]
      /\ task[j] \in Task
  BY DEF TypeOK, Row, Scopes
<1>2. Waiting[row[j].doc] \in SUBSET Questions /\ churn' = churn
  BY <1>1, ScopeTypes, QuietWorker
<1>3. ASSUME NEW q \in Questions, NEW item \in LlmItems, SaveItem(j, q, item)
      PROVE  Tracks(row'[j], task'[j], hist'[j], Waiting'[row'[j].doc], churn')
  <2>1. row' = row /\ hist' = hist
    BY <1>3 DEF SaveItem
  <2>2. QED
    BY <1>1, <1>2, <1>3, <2>1, SaveItemTracks
<1>4. CASE UNCHANGED key
  <2>1. Waiting' = Waiting
    BY <1>4, QuietWorker, WaitingUnchanged
  <2>2. CASE \/ LoadHeader(j) \/ SetRunning(j) \/ ReadCancelFlag(j)
             \/ ReadProcessed(j) \/ Fetch(j) \/ MarkAndSend(j)
    BY <1>1, <1>2, <2>1, <2>2, FetchTracks DEF SameJob
  <2>3. CASE \/ LlmFails(j) \/ LlmAnswers(j) \/ BatchSaved(j)
             \/ AppendFailures(j) \/ UpdateCounters(j)
    BY <1>1, <1>2, <2>1, <2>3, RecordTracks
  <2>4. ASSUME NEW q \in task[j].todo, ItemDone(j, q, TRUE), row' = row, hist' = hist
        PROVE  Tracks(row'[j], task'[j], hist'[j], Waiting'[row'[j].doc], churn')
    BY <1>1, <1>2, <2>1, <2>4, ItemTracks
  <2>5. CASE \E q \in Questions : NoUsableItem(j, q)
    BY <2>4, <2>5 DEF NoUsableItem
  <2>6. CASE SetFinalStatus(j)
    BY <1>1, <2>6 DEF SetFinalStatus, TaskEnds, Off, NoTask
  <2>7. CASE DbError(j)
    <3>1. CASE \E q \in task[j].todo : ItemDone(j, q, TRUE) /\ hist' = hist
      BY <2>4, <2>7, <3>1 DEF DbError
    <3>2. CASE GoTo(j, "error") \/ TaskEnds(j)
      BY <1>1, <3>2 DEF GoTo, TaskEnds, Off, NoTask, Task
    <3>3. QED
      BY <2>7, <3>1, <3>2 DEF DbError
  <2>8. CASE Worker(j)
    BY <1>3, <2>2, <2>3, <2>5, <2>6, <2>8 DEF Worker
  <2>9. QED
    BY <2>7, <2>8
<1>5. QED
  BY <1>3, <1>4, QuietWorker

LEMMA OwnRow ==
    ASSUME TypeOK, NEW j \in Jobs, Worker(j) \/ DbError(j), row'[j].status \notin NoRow
    PROVE  Stored(j) /\ row'[j].overwrite = row[j].overwrite
<1>1. row \in [Jobs -> Row] /\ row[j] \in Row /\ task[j] \in Task
  BY DEF TypeOK
<1>2. CASE row' = row
  BY <1>2 DEF Stored
<1>3. ASSUME NEW new, RowUpdated(j, new), new.overwrite = row[j].overwrite
      PROVE  Stored(j) /\ row'[j].overwrite = row[j].overwrite
  BY <1>1, <1>3 DEF RowUpdated, Stored
<1>4. CASE SetRunning(j)
  BY <1>1, <1>3, <1>4 DEF SetRunning, Row
<1>5. CASE AppendFailures(j)
  BY <1>1, <1>3, <1>5 DEF AppendFailures, Row
<1>6. CASE UpdateCounters(j)
  BY <1>1, <1>3, <1>6 DEF UpdateCounters, Counted, Row
<1>7. CASE SetFinalStatus(j)
  BY <1>1, <1>3, <1>7 DEF SetFinalStatus, Row
<1>8. QED
  BY <1>2, <1>4, <1>5, <1>6, <1>7 DEF Worker, LoadHeader, ReadCancelFlag, ReadProcessed,
     Fetch, MarkAndSend, LlmFails, LlmAnswers, NoUsableItem, SaveItem, BatchSaved, DbError

LEMMA InsertTracks ==
    ASSUME TypeOK, ScopeInv, NEW j \in Jobs, StartJobInsert(j), ~row'[j].overwrite
    PROVE  Tracks(row'[j], task'[j], hist'[j], Waiting'[row'[j].doc], churn')
<1> DEFINE r == row'[j]
           u == task'[j]
           h == hist'[j]
           W == Waiting[starting.doc]
<1>1. row \in [Jobs -> Row] /\ task \in [Jobs -> Task] /\ hist \in [Jobs -> Hist] /\ starting \in Starting
  BY DEF TypeOK
<1>2. /\ r = [BlankRow("queued") EXCEPT !.doc = starting.doc,
                 !.overwrite = starting.overwrite, !.total = starting.total]
      /\ u = [NoTask EXCEPT !.pc = "scheduled"]
      /\ h = [NoHist EXCEPT !.wanted = starting.wanted, !.churn = starting.churn]
      /\ churn' = churn /\ starting.on /\ Waiting' = Waiting
  BY <1>1, WaitingUnchanged DEF StartJobInsert, bank
<1>3. /\ r.doc = starting.doc /\ r.overwrite = starting.overwrite
      /\ r.processed = 0 /\ u.pc = "scheduled" /\ u.todo = {}
      /\ h.wanted = starting.wanted /\ h.churn = starting.churn
  BY <1>2 DEF BlankRow, NoTask, NoHist
<1>4. /\ starting.churn <= churn
      /\ Cardinality(W) + starting.churn <= Cardinality(starting.wanted) + churn
  BY <1>2, <1>3 DEF ScopeInv, StartTracks
<1>5. Work(u) = {} /\ SavedNow(u) = 0 /\ W \cup {} = W
  BY <1>3 DEF Work, SavedNow, Saving
<1>6. starting.doc \in Scopes /\ starting.churn \in Nat
  BY <1>1 DEF Starting, Scopes
<1>7. Cardinality(W) \in Nat /\ Cardinality(W \cup Work(u)) = Cardinality(W)
  BY <1>5, <1>6, ScopeTypes, QuestionSets
<1>8. Cardinality(W \cup Work(u)) + 0 + 0 + starting.churn <= Cardinality(starting.wanted) + churn
  BY <1>4, <1>6, <1>7
<1>9. QED
  BY <1>2, <1>3, <1>4, <1>5, <1>8 DEF Tracks

LEMMA StartingSteps ==
    ASSUME TypeOK, [Next]_vars
    PROVE  \/ starting' = starting
           \/ ~starting'.on
           \/ \E doc \in Scopes, overwrite \in BOOLEAN : StartJobCount(doc, overwrite)
<1>1. CASE StartJob
  BY <1>1 DEF StartJob, StartJobInsert, StartJobRefused, NotStarting, Scopes
<1>2. ASSUME NEW j \in Jobs, CancelJob(j) \/ Worker(j) \/ DbError(j)
      PROVE  starting' = starting
  BY <1>2, QuietWorker DEF CancelJob
<1>3. ASSUME NEW q \in Questions, NEW edit \in ManualEdits, SetQuestionCorrection(q, edit)
      PROVE  starting' = starting
  BY <1>3 DEF SetQuestionCorrection
<1>4. ASSUME NEW q \in Questions, Regenerate(q)
      PROVE  starting' = starting
  BY <1>4 DEF Regenerate, RegenerateAsk, RegenerateSave, RegenerateFails
<1>5. CASE Bank
  BY <1>5 DEF Bank, DiscardQuestion, SaveQuestions, MergeDuplicate, DeleteDocument, ResetDb
<1>6. CASE Crash \/ Shutdown \/ Startup
  BY <1>6 DEF Crash, Shutdown, Startup, TasksGone, NotStarting
<1>7. CASE UNCHANGED vars
  BY <1>7 DEF vars
<1>8. QED
  BY <1>1, <1>2, <1>3, <1>4, <1>5, <1>6, <1>7 DEF Next

LEMMA StartTracksStep ==
    ASSUME TypeOK, StartTracks, [Next]_vars
    PROVE  StartTracks'
<1>1. starting \in Starting /\ churn \in Nat
  BY DEF TypeOK
<1>2. ASSUME NEW doc \in Scopes, NEW overwrite \in BOOLEAN, StartJobCount(doc, overwrite),
             ~overwrite
      PROVE  /\ starting'.churn <= churn'
             /\ Cardinality(Waiting'[starting'.doc]) + starting'.churn
                    <= Cardinality(starting'.wanted) + churn'
  <2>1. starting'.doc = doc /\ starting'.churn = churn /\ starting'.wanted = Candidates(doc, overwrite)
    BY <1>2 DEF StartJobCount
  <2>2. Waiting' = Waiting /\ churn' = churn
    BY <1>2, WaitingUnchanged DEF StartJobCount, bank
  <2>3. Candidates(doc, overwrite) = Waiting[doc]
    BY <1>2 DEF Waiting, Candidates
  <2>4. Cardinality(Waiting[doc]) \in Nat
    BY ScopeTypes, QuestionSets
  <2>5. QED
    BY <1>1, <2>1, <2>2, <2>3, <2>4
<1>3. ASSUME starting' = starting, starting.on, ~starting.overwrite
      PROVE  /\ starting'.churn <= churn'
             /\ Cardinality(Waiting'[starting'.doc]) + starting'.churn
                    <= Cardinality(starting'.wanted) + churn'
  <2>1. PICK doc \in Scopes : doc = starting.doc
    BY <1>1 DEF Starting, Scopes
  <2>2. PICK A \in SUBSET Questions : NewOnlyIn(A, doc) /\ churn + Cardinality(A) <= churn'
    BY StepPaidFor DEF PaidFor
  <2>3. Waiting'[doc] \subseteq Waiting[doc] \cup A
    BY <2>2, ScopesOf
  <2>4. Waiting[doc] \in SUBSET Questions
    BY ScopeTypes
  <2>5. Cardinality(Waiting'[doc]) <= Cardinality(Waiting[doc]) + Cardinality(A)
    BY <2>3, <2>4, GrowsBy
  <2>6. Waiting'[doc] \in SUBSET Questions /\ starting.wanted \in SUBSET Questions
    BY <1>1, <2>3, <2>4 DEF Starting
  <2>7. /\ Cardinality(A) \in Nat /\ Cardinality(Waiting[doc]) \in Nat
        /\ Cardinality(Waiting'[doc]) \in Nat /\ Cardinality(starting.wanted) \in Nat
        /\ starting.churn \in Nat /\ churn' \in Nat
    <3>1. Cardinality(A) \in Nat /\ Cardinality(Waiting[doc]) \in Nat
      BY <2>4, QuestionSets
    <3>2. Cardinality(Waiting'[doc]) \in Nat /\ Cardinality(starting.wanted) \in Nat
      BY <2>6, QuestionSets
    <3>3. starting.churn \in Nat
      BY <1>1 DEF Starting
    <3>4. churn' \in Nat
      BY TypeOKStep DEF TypeOK
    <3>5. QED
      BY <3>1, <3>2, <3>3, <3>4
  <2>8. /\ starting.churn <= churn
        /\ Cardinality(Waiting[doc]) + starting.churn <= Cardinality(starting.wanted) + churn
    BY <1>3, <2>1 DEF StartTracks
  <2>9. /\ starting.churn <= churn'
        /\ Cardinality(Waiting'[doc]) + starting.churn <= Cardinality(starting.wanted) + churn'
    BY <1>1, <2>2, <2>5, <2>7, <2>8
  <2>10. QED
    BY <1>3, <2>1, <2>9
<1>4. starting'.on /\ ~starting'.overwrite =>
          /\ starting'.churn <= churn'
          /\ Cardinality(Waiting'[starting'.doc]) + starting'.churn
                 <= Cardinality(starting'.wanted) + churn'
  <2>1. ASSUME NEW doc \in Scopes, NEW overwrite \in BOOLEAN, StartJobCount(doc, overwrite)
        PROVE  starting'.overwrite = overwrite
    BY <2>1 DEF StartJobCount
  <2>2. QED
    BY <1>2, <1>3, <2>1, StartingSteps
<1>5. QED
  BY <1>4 DEF StartTracks

LEMMA InitScopeInv == Init => ScopeInv
  BY DEF Init, ScopeInv, StartTracks, NotStarting, Stored, BlankRow, NoRow

LEMMA ScopeInvStep ==
    TypeOK /\ StatusInv /\ CountersInv /\ ScopeInv /\ [Next]_vars => ScopeInv'
<1> SUFFICES ASSUME TypeOK, StatusInv, CountersInv, ScopeInv, [Next]_vars
             PROVE  ScopeInv'
  OBVIOUS
<1>1. StartTracks'
  BY StartTracksStep DEF ScopeInv
<1>2. ASSUME NEW j \in Jobs, row'[j].status \notin NoRow, ~row'[j].overwrite, ~Off(task'[j])
      PROVE  Tracks(row'[j], task'[j], hist'[j], Waiting'[row'[j].doc], churn')
  <2>1. CASE Worker(j) \/ DbError(j)
    <3>1. Stored(j) /\ row'[j].overwrite = row[j].overwrite
      BY <1>2, <2>1, OwnRow
    <3>2. ~Off(task[j])
      BY <1>2, <2>1, OffStays
    <3>3. QED
      BY <1>2, <2>1, <3>1, <3>2, OwnStepTracks DEF ScopeInv
  <2>2. CASE StartJobInsert(j)
    BY <1>2, <2>2, InsertTracks
  <2>3. CASE task'[j].pc = "none"
    BY <1>2, <2>3 DEF Off
  <2>4. CASE Undisturbed(j)
    <3>1. /\ task'[j] = task[j] /\ hist'[j] = hist[j] /\ Stored(j)
          /\ SameJob(row[j], row'[j])
      BY <1>2, <2>4 DEF Undisturbed
    <3>2. /\ row[j] \in Row /\ task[j] \in Task /\ hist[j] \in Hist /\ churn \in Nat
      BY DEF TypeOK
    <3>3. PICK doc \in Scopes : doc = row[j].doc
      BY <3>2 DEF Row, Scopes
    <3>4. PICK A \in SUBSET Questions : NewOnlyIn(A, doc) /\ churn + Cardinality(A) <= churn'
      BY StepPaidFor DEF PaidFor
    <3>5. Waiting'[doc] \subseteq Waiting[doc] \cup A /\ Waiting[doc] \in SUBSET Questions
      BY <3>4, ScopesOf, ScopeTypes
    <3>6. churn' \in Nat
      BY TypeOKStep DEF TypeOK
    <3>7. Tracks(row[j], task[j], hist[j], Waiting[doc], churn)
      BY <1>2, <3>1, <3>3 DEF ScopeInv, SameJob
    <3>8. Tracks(row[j], task[j], hist[j], Waiting'[doc], churn')
      BY <3>2, <3>4, <3>5, <3>6, <3>7, TracksGrows
    <3>9. QED
      BY <3>1, <3>3, <3>8 DEF Tracks, Clean, SameJob
  <2>5. QED
    BY <2>1, <2>2, <2>3, <2>4, JobSteps
<1>3. QED
  BY <1>1, <1>2 DEF ScopeInv, Stored

\* Only a worker that has come to its end writes 'done'.
LEMMA FinishesAtDone ==
    ASSUME TypeOK, StatusInv, [Next]_vars, NEW j \in Jobs, Finishes(j)
    PROVE  task[j].pc = "done" /\ Stored(j)
<1>1. row \in [Jobs -> Row] /\ row[j] \in Row
  BY DEF TypeOK
<1>2. row[j].status = "running" /\ row'[j].status = "done"
  BY DEF Finishes
<1>3. Stored(j)
  BY <1>2 DEF Stored, NoRow
<1>4. CASE Worker(j)
  BY <1>2, <1>3, <1>4, WorkerSteps DEF WorkerEffect, StatusMove
<1>5. ASSUME NEW i \in Jobs, i # j, Worker(i)
      PROVE  FALSE
  BY <1>2, <1>5, WorkerSteps DEF WorkerEffect
<1>6. ASSUME NEW i \in Jobs, DbError(i)
      PROVE  FALSE
  BY <1>2, <1>6, DbErrorSteps
<1>7. ASSUME NEW i \in Jobs, CancelJob(i)
      PROVE  FALSE
  BY <1>1, <1>2, <1>7 DEF CancelJob, Row
<1>8. CASE StartJob
  BY <1>1, <1>2, <1>8 DEF StartJob, StartJobCount, StartJobInsert, StartJobRefused, BlankRow
<1>9. CASE Bank
  BY <1>1, <1>2, <1>9 DEF Bank, DiscardQuestion, SaveQuestions, MergeDuplicate,
     DeleteDocument, ResetDb, JobsDeleted, BlankRow
<1>10. CASE Crash \/ Shutdown \/ Startup
  BY <1>1, <1>2, <1>10 DEF Crash, Shutdown, Startup, Interrupted, Row, Active
<1>11. ASSUME NEW q \in Questions, NEW edit \in ManualEdits, SetQuestionCorrection(q, edit)
       PROVE  FALSE
  BY <1>2, <1>11 DEF SetQuestionCorrection
<1>12. ASSUME NEW q \in Questions, Regenerate(q)
       PROVE  FALSE
  BY <1>2, <1>12 DEF Regenerate, RegenerateAsk, RegenerateSave, RegenerateFails
<1>13. CASE UNCHANGED vars
  BY <1>2, <1>13 DEF vars
<1>14. QED
  BY <1>3, <1>4, <1>5, <1>6, <1>7, <1>8, <1>9, <1>10, <1>11, <1>12, <1>13 DEF Next

LEMMA CountersInvariant == Spec => []CountersInv
  BY StatusInvariant, InitCountersInv, CountersInvStep, PTL DEF Spec

LEMMA ScopeInvariant == Spec => []ScopeInv
  BY StatusInvariant, CountersInvariant, InitScopeInv, ScopeInvStep, PTL DEF Spec

\* A job that ends 'done', without `overwrite`, without a failure and without
\* its cap, leaves no more questions of its scope without a key than the bank
\* gained since the job was counted - whatever was edited, discarded, merged,
\* ingested or deleted between any two of its transactions.
THEOREM DoneLeavesNothingHolds == Spec => DoneLeavesNothing
<1> DEFINE Leaves ==
        \A j \in Jobs :
           Finishes(j) /\ ~row[j].overwrite /\ row[j].failed = 0 /\ Uncapped(j)
           => Cardinality(Candidates(row[j].doc, FALSE)) <= churn - hist[j].churn
<1>1. TypeOK /\ StatusInv /\ ScopeInv /\ [Next]_vars => Leaves
  <2> SUFFICES ASSUME TypeOK, StatusInv, ScopeInv, [Next]_vars, NEW j \in Jobs,
                      Finishes(j), ~row[j].overwrite, row[j].failed = 0, Uncapped(j)
               PROVE  Cardinality(Candidates(row[j].doc, FALSE)) <= churn - hist[j].churn
    OBVIOUS
  <2> DEFINE W == Candidates(row[j].doc, FALSE)
  <2>1. task[j].pc = "done" /\ Stored(j)
    BY FinishesAtDone
  <2>2. row[j].doc \in Scopes /\ hist[j].churn \in Nat /\ churn \in Nat
    BY DEF TypeOK, Row, Hist, Scopes
  <2>3. Waiting[row[j].doc] = W
    BY <2>2 DEF Waiting
  <2>4. Tracks(row[j], task[j], hist[j], W, churn)
    BY <2>1, <2>3 DEF ScopeInv, Off
  <2>5. Cardinality(W) + hist[j].churn <= churn
    BY <2>1, <2>4 DEF Tracks, Clean, Saving, Uncapped
  <2>6. Cardinality(W) \in Nat
    BY CandidatesType, QuestionSets
  <2>7. \A a, b, c \in Nat : a + b <= c => a <= c - b
    OBVIOUS
  <2>8. QED
    BY <2>2, <2>5, <2>6, <2>7, Zenon
<1>2. TypeOK /\ StatusInv /\ ScopeInv /\ [Next]_vars => [Leaves]_vars
  BY <1>1
<1>3. QED
  BY <1>2, StatusInvariant, ScopeInvariant, PTL DEF Spec, DoneLeavesNothing

-----------------------------------------------------------------------------
(* A job with `overwrite`: the list under its OFFSET.  Such a job has a    *)
(* document, so its list is in the order R of the ranks alone.             *)

Place(q, C, R) == Cardinality({p \in C : R[p] < R[q]})

\* Of the questions W, those not handed out yet that no page from offset n on
\* will show: they have left the list C, or stand before the offset.
Skipped(W, H, n, C, R) == {q \in W \ H : q \in C => Place(q, C, R) < n}

\* What the list is longer than at the start.
Excess(W, C) ==
    IF Cardinality(C) > Cardinality(W) THEN Cardinality(C) - Cardinality(W) ELSE 0

\* The changes of the bank from b to c pay for all that was skipped and for
\* the excess; or, once the list has been replaced, for the whole list.
Covers(W, H, n, C, R, b, c) ==
    \/ Cardinality(C) + b <= c
    \/ Cardinality(Skipped(W, H, n, C, R)) + Excess(W, C) + b <= c

LEMMA PlaceType ==
    ASSUME NEW R, NEW C \in SUBSET Questions, NEW q
    PROVE  Place(q, C, R) \in Nat
<1>1. {p \in C : R[p] < R[q]} \in SUBSET Questions
  OBVIOUS
<1>2. QED
  BY <1>1, QuestionSets DEF Place

LEMMA PlaceIsAhead ==
    ASSUME NEW doc \in Docs, NEW C, NEW q
    PROVE  Ahead(q, C, doc) = Place(q, C, rank)
<1>1. doc # NoDoc
  BY ConstantsAssumption
<1>2. QED
  BY <1>1 DEF Ahead, Place, Precedes

\* Places follow the order, and lie below the length of the list.
LEMMA PlaceFollowsOrder ==
    ASSUME NEW R \in Ranks, NEW C \in SUBSET Questions, NEW p \in C, NEW q \in C
    PROVE  /\ R[p] < R[q] <=> Place(p, C, R) < Place(q, C, R)
           /\ Place(p, C, R) = Place(q, C, R) => p = q
           /\ Place(p, C, R) < Cardinality(C)
<1> DEFINE B(x) == {y \in C : R[y] < R[x]}
<1>1. \A x \in Questions : R[x] \in Nat
  BY DEF Ranks
<1>2. \A x : /\ B(x) \in SUBSET C /\ IsFiniteSet(B(x))
             /\ Cardinality(B(x)) \in Nat
  <2> TAKE x
  <2>1. B(x) \in SUBSET C /\ B(x) \in SUBSET Questions
    OBVIOUS
  <2>2. QED
    BY <2>1, QuestionSets
<1>3. ASSUME NEW x \in C, NEW y \in C, R[x] < R[y]
      PROVE  Cardinality(B(x)) < Cardinality(B(y))
  <2>1. B(x) \in SUBSET B(y)
    BY <1>1, <1>3
  <2>2. x \in B(y) /\ x \notin B(x)
    BY <1>1, <1>3
  <2>3. QED
    BY <1>2, <2>1, <2>2, FS_Subset
<1>4. p = q \/ R[p] < R[q] \/ R[q] < R[p]
  <2>1. R[p] = R[q] => p = q
    BY DEF Ranks
  <2>2. R[p] \in Nat /\ R[q] \in Nat
    BY <1>1
  <2>3. QED
    BY <2>1, <2>2
<1>5. Cardinality(B(p)) < Cardinality(C)
  <2>1. B(p) \in SUBSET C /\ B(p) # C /\ IsFiniteSet(C) /\ Cardinality(C) \in Nat
    BY <1>1, <1>2, QuestionSets
  <2>2. QED
    BY <1>2, <2>1, FS_Subset
<1>6. /\ R[p] < R[q] => Cardinality(B(p)) < Cardinality(B(q))
      /\ R[q] < R[p] => Cardinality(B(q)) < Cardinality(B(p))
  BY <1>3
<1>7. Place(p, C, R) = Cardinality(B(p)) /\ Place(q, C, R) = Cardinality(B(q))
  BY DEF Place
<1>8. /\ Cardinality(B(p)) \in Nat /\ Cardinality(B(q)) \in Nat
      /\ R[p] \in Nat /\ R[q] \in Nat
  BY <1>1, <1>2
<1> HIDE DEF B
<1>9. QED
  BY <1>4, <1>5, <1>6, <1>7, <1>8

\* As many questions as an interval has numbers, if their places lie in it.
LEMMA PlacesBetween ==
    ASSUME NEW R \in Ranks, NEW C \in SUBSET Questions, NEW T, T \subseteq C,
           NEW lo \in Nat, NEW len \in Nat,
           \A q \in T : lo <= Place(q, C, R) /\ Place(q, C, R) < lo + len
    PROVE  Cardinality(T) <= len
<1> DEFINE I == lo..(lo + len - 1)
           place == [q \in T |-> Place(q, C, R)]
<1>1. \A q \in T : place[q] \in I
  BY PlaceType
<1>2. \A p, q \in T : place[p] = place[q] => p = q
  BY PlaceFollowsOrder
<1>3. place \in Injection(T, I)
  BY <1>1, <1>2 DEF Injection, IsInjective
<1>4. IsFiniteSet(I) /\ Cardinality(I) = len
  BY FS_Interval
<1>5. QED
  BY <1>3, <1>4, FS_Injection

\* Every place below the length of the list is some question's.
LEMMA PlaceTaken ==
    ASSUME NEW R \in Ranks, NEW C \in SUBSET Questions, NEW n \in Nat,
           n < Cardinality(C)
    PROVE  \E z \in C : Place(z, C, R) = n
<1> DEFINE I == 0..(Cardinality(C) - 1)
           place == [q \in C |-> Place(q, C, R)]
<1>1. IsFiniteSet(C) /\ Cardinality(C) \in Nat
  BY QuestionSets
<1>2. \A q \in C : place[q] \in I
  BY <1>1, PlaceType, PlaceFollowsOrder
<1>3. \A p, q \in C : place[p] = place[q] => p = q
  BY PlaceFollowsOrder
<1>4. place \in Injection(C, I)
  BY <1>2, <1>3 DEF Injection, IsInjective
<1>5. IsFiniteSet(I) /\ Cardinality(I) = Cardinality(C)
  <2> DEFINE k == Cardinality(C) - 1
  <2>1. k \in Int /\ ~(0 > k) /\ k - 0 + 1 = Cardinality(C)
    BY <1>1
  <2> HIDE DEF k
  <2>5. 0 \in Int
    OBVIOUS
  <2>6. /\ IsFiniteSet(0..k)
        /\ Cardinality(0..k) = IF 0 > k THEN 0 ELSE k - 0 + 1
    BY <2>1, <2>5, FS_Interval, Zenon
  <2>2. IsFiniteSet(0..k) /\ Cardinality(0..k) = k - 0 + 1
    BY <2>1, <2>6
  <2>3. I = 0..k
    BY DEF k
  <2>4. QED
    BY <2>1, <2>2, <2>3
<1>6. place \in Surjection(C, I)
  BY <1>4, <1>5, FS_Injection
<1>7. n \in I
  BY <1>1
<1>8. QED
  BY <1>6, <1>7 DEF Surjection

LEMMA CoversTypes ==
    ASSUME NEW R, NEW W \in SUBSET Questions, NEW H, NEW n, NEW C \in SUBSET Questions
    PROVE  /\ Skipped(W, H, n, C, R) \in SUBSET Questions
           /\ Cardinality(Skipped(W, H, n, C, R)) \in Nat
           /\ Excess(W, C) \in Nat
           /\ Cardinality(C) \in Nat /\ Cardinality(W) \in Nat
<1>1. Skipped(W, H, n, C, R) \in SUBSET Questions
  BY DEF Skipped
<1>2. /\ Cardinality(C) \in Nat /\ Cardinality(W) \in Nat
      /\ Cardinality(Skipped(W, H, n, C, R)) \in Nat
  BY <1>1, QuestionSets
<1>3. QED
  BY <1>1, <1>2 DEF Excess

\* Questions that join the list move the others back, towards the pages to come.
LEMMA CoversGrows ==
    ASSUME NEW R, NEW W \in SUBSET Questions, NEW H, NEW n \in Nat,
           NEW C \in SUBSET Questions, NEW D, NEW A \in SUBSET Questions,
           C \subseteq D, D \subseteq C \cup A,
           NEW b \in Nat, NEW c \in Nat, NEW d \in Nat, c + Cardinality(A) <= d,
           Covers(W, H, n, C, R, b, c)
    PROVE  Covers(W, H, n, D, R, b, d)
<1>1. D \in SUBSET Questions /\ Cardinality(A) \in Nat
  BY QuestionSets
<1>2. Cardinality(D) <= Cardinality(C) + Cardinality(A)
  BY GrowsBy
<1>3. ASSUME NEW z \in Skipped(W, H, n, D, R)
      PROVE  z \in Skipped(W, H, n, C, R)
  <2>1. SUFFICES ASSUME z \in C PROVE Place(z, C, R) < n
    BY <1>3 DEF Skipped
  <2>2. Place(z, D, R) < n
    BY <1>3, <2>1 DEF Skipped
  <2>3. Place(z, C, R) <= Place(z, D, R)
    <3>1. {p \in D : R[p] < R[z]} \in SUBSET Questions
      BY <1>1
    <3>2. {p \in C : R[p] < R[z]} \subseteq {p \in D : R[p] < R[z]}
      OBVIOUS
    <3>3. QED
      BY <3>1, <3>2, FewerOf DEF Place
  <2>4. Place(z, C, R) \in Nat /\ Place(z, D, R) \in Nat
    BY <1>1, PlaceType
  <2>5. QED
    BY <2>2, <2>3, <2>4
<1>4. Cardinality(Skipped(W, H, n, D, R)) <= Cardinality(Skipped(W, H, n, C, R))
  BY <1>3, CoversTypes, FewerOf
<1>5. Excess(W, D) <= Excess(W, C) + Cardinality(A)
  <2>1. Cardinality(C) \in Nat /\ Cardinality(D) \in Nat /\ Cardinality(W) \in Nat
    BY <1>1, QuestionSets
  <2>2. QED
    BY <1>1, <1>2, <2>1 DEF Excess
<1>6. /\ Cardinality(Skipped(W, H, n, C, R)) \in Nat /\ Cardinality(Skipped(W, H, n, D, R)) \in Nat
      /\ Excess(W, C) \in Nat /\ Excess(W, D) \in Nat
      /\ Cardinality(C) \in Nat /\ Cardinality(D) \in Nat
  BY <1>1, CoversTypes
<1>7. QED
  BY <1>1, <1>2, <1>4, <1>5, <1>6 DEF Covers

LEMMA PlaceDrops ==
    ASSUME NEW R, NEW C \in SUBSET Questions, NEW D \in SUBSET Questions, NEW x \in Questions,
           C \ {x} \subseteq D, NEW z \in Questions
    PROVE  /\ Place(z, C, R) <= Place(z, D, R) + 1
           /\ ~(R[x] < R[z]) => Place(z, C, R) <= Place(z, D, R)
<1> DEFINE B(S) == {p \in S : R[p] < R[z]}
<1>1. B(D) \in SUBSET Questions /\ {x} \in SUBSET Questions /\ B(C) \subseteq B(D) \cup {x}
  OBVIOUS
<1>2. Cardinality(B(C)) <= Cardinality(B(D)) + Cardinality({x})
  BY <1>1, GrowsBy
<1>3. Cardinality({x}) = 1
  BY FS_Singleton
<1>4. ~(R[x] < R[z]) => B(C) \subseteq B(D)
  OBVIOUS
<1>5. ~(R[x] < R[z]) => Cardinality(B(C)) <= Cardinality(B(D))
  BY <1>1, <1>4, FewerOf
<1>6. QED
  BY <1>2, <1>3, <1>5 DEF Place

\* When one question leaves the list, at most one that was still to come is
\* skipped: itself, or the one that moves across the offset.
LEMMA OneIsSkipped ==
    ASSUME NEW R \in Ranks, NEW W \in SUBSET Questions, NEW H, NEW n \in Nat,
           NEW C \in SUBSET Questions, NEW D \in SUBSET Questions, NEW x \in C,
           C \ {x} \subseteq D,
           NEW p \in Skipped(W, H, n, D, R) \ Skipped(W, H, n, C, R),
           NEW q \in Skipped(W, H, n, D, R) \ Skipped(W, H, n, C, R)
    PROVE  p = q
<1> DEFINE N == Skipped(W, H, n, D, R) \ Skipped(W, H, n, C, R)
<1>1. ASSUME NEW z \in N
      PROVE  z \in C /\ Place(z, C, R) \in Nat /\ Place(z, C, R) >= n
    BY <1>1, PlaceType DEF Skipped
<1>2. ASSUME NEW z \in N, z # x
      PROVE  Place(z, C, R) = n /\ R[x] < R[z]
  <2>1. z \in C /\ Place(z, C, R) \in Nat /\ Place(z, C, R) >= n
    BY <1>1, <1>2
  <2>2. z \in D /\ Place(z, D, R) < n
    BY <1>2, <2>1 DEF Skipped
  <2>3. Place(z, D, R) \in Nat
    BY PlaceType
  <2>4. /\ Place(z, C, R) <= Place(z, D, R) + 1
        /\ ~(R[x] < R[z]) => Place(z, C, R) <= Place(z, D, R)
    BY <2>1, PlaceDrops
  <2>5. QED
    BY <2>1, <2>2, <2>3, <2>4
<1>3. ASSUME NEW z \in N, z # x
      PROVE  x \notin N
  <2>1. z \in C /\ Place(z, C, R) = n /\ R[x] < R[z]
    BY <1>1, <1>2, <1>3
  <2>2. Place(x, C, R) < Place(z, C, R)
    BY <2>1, PlaceFollowsOrder
  <2>3. QED
    BY <1>1, <2>1, <2>2
<1>4. CASE p = x \/ q = x
  BY <1>3, <1>4
<1>5. CASE p # x /\ q # x
  <2>1. Place(p, C, R) = Place(q, C, R) /\ p \in C /\ q \in C
    BY <1>1, <1>2, <1>5
  <2>2. QED
    BY <2>1, PlaceFollowsOrder
<1>6. QED
  BY <1>4, <1>5

\* One question leaves the list and another may join it, for one change.
LEMMA CoversExchange ==
    ASSUME NEW R \in Ranks, NEW W \in SUBSET Questions, NEW H, NEW n \in Nat,
           NEW C \in SUBSET Questions, NEW D, NEW x \in Questions, NEW y \in Questions,
           C \ {x} \subseteq D, D \subseteq C \cup {y},
           NEW b \in Nat, NEW c \in Nat, NEW d \in Nat, c + 1 <= d,
           Covers(W, H, n, C, R, b, c)
    PROVE  Covers(W, H, n, D, R, b, d)
<1>1. D \in SUBSET Questions /\ {y} \in SUBSET Questions /\ Cardinality({y}) = 1
  BY FS_Singleton
<1>2. CASE C \subseteq D
  BY <1>1, <1>2, CoversGrows
<1>3. CASE ~(C \subseteq D)
  <2> DEFINE K == Skipped(W, H, n, C, R)
             L == Skipped(W, H, n, D, R)
  <2>1. x \in C /\ D \subseteq (C \ {x}) \cup {y} /\ C \ {x} \in SUBSET Questions
    BY <1>3
  <2>2. Cardinality(C \ {x}) = Cardinality(C) - 1
    BY <2>1, QuestionSets, FS_RemoveElement
  <2>3. Cardinality(D) <= Cardinality(C \ {x}) + Cardinality({y})
    BY <1>1, <2>1, GrowsBy
  <2>4. /\ Cardinality(K) \in Nat /\ Cardinality(L) \in Nat
        /\ K \in SUBSET Questions /\ L \in SUBSET Questions
        /\ Excess(W, C) \in Nat /\ Excess(W, D) \in Nat
        /\ Cardinality(C) \in Nat /\ Cardinality(D) \in Nat /\ Cardinality(W) \in Nat
    BY <1>1, CoversTypes
  <2>5. Cardinality(D) <= Cardinality(C)
    BY <1>1, <2>2, <2>3, <2>4
  <2>6. Excess(W, D) <= Excess(W, C)
    BY <2>4, <2>5 DEF Excess
  <2>7. L \ K \in SUBSET Questions /\ L \subseteq K \cup (L \ K)
    BY <2>4
  <2>8. \A p, q \in L \ K : p = q
    BY <1>1, <2>1, OneIsSkipped
  <2>9. Cardinality(L \ K) <= 1 /\ Cardinality(L \ K) \in Nat
    BY <2>7, <2>8, AtMostOne, QuestionSets
  <2>10. Cardinality(L) <= Cardinality(K) + Cardinality(L \ K)
    BY <2>4, <2>7, GrowsBy
  <2>11. Cardinality(L) <= Cardinality(K) + 1
    BY <2>4, <2>9, <2>10
  <2>12. QED
    BY <2>4, <2>5, <2>6, <2>11 DEF Covers
<1>4. QED
  BY <1>2, <1>3

LEMMA CoversReplaced ==
    ASSUME NEW R, NEW W, NEW H, NEW n, NEW C, NEW D, Cardinality(D) \in Nat,
           NEW b \in Nat, NEW c \in Nat, NEW d \in Nat, b <= c, c + Cardinality(D) <= d
    PROVE  Covers(W, H, n, D, R, b, d)
  BY DEF Covers

\* Two orders that agree on the questions outside M.
AgreeOutside(M, C, R, Q) ==
    \A p, q \in C \ M : R[p] < R[q] <=> Q[p] < Q[q]

\* The first n of the list, in order R.
FirstOf(n, C, R) == {q \in C : Place(q, C, R) < n}

LEMMA FirstOfSize ==
    ASSUME NEW R \in Ranks, NEW C \in SUBSET Questions, NEW n \in Nat
    PROVE  /\ FirstOf(n, C, R) \in SUBSET C /\ FirstOf(n, C, R) \in SUBSET Questions
           /\ Cardinality(FirstOf(n, C, R)) \in Nat
           /\ Cardinality(FirstOf(n, C, R)) = MinOf(n, Cardinality(C))
<1> DEFINE F == FirstOf(n, C, R)
<1>1. F \in SUBSET C /\ F \in SUBSET Questions
  BY DEF FirstOf
<1>2. Cardinality(F) \in Nat /\ Cardinality(C) \in Nat
  BY <1>1, QuestionSets
<1>3. Cardinality(F) <= n
  <2>1. \A q \in F : 0 <= Place(q, C, R) /\ Place(q, C, R) < 0 + n
    BY <1>1, PlaceType DEF FirstOf
  <2>2. QED
    BY <1>1, <2>1, PlacesBetween
<1>4. Cardinality(F) <= Cardinality(C)
  BY <1>1, FewerOf
<1>5. CASE n < Cardinality(C)
  <2>1. PICK z \in C : Place(z, C, R) = n
    BY <1>5, PlaceTaken
  <2>2. \A p \in C : R[p] < R[z] => Place(p, C, R) < n
    BY <2>1, PlaceFollowsOrder
  <2>3. {p \in C : R[p] < R[z]} \subseteq F
    BY <2>2 DEF FirstOf
  <2>4. n <= Cardinality(F)
    BY <1>1, <2>1, <2>3, FewerOf DEF Place
  <2>5. QED
    BY <1>2, <1>3, <1>5, <2>4, <1>1 DEF MinOf
<1>6. CASE ~(n < Cardinality(C))
  <2>1. \A q \in C : Place(q, C, R) < n
    BY <1>2, <1>6, PlaceType, PlaceFollowsOrder
  <2>2. F = C
    BY <2>1 DEF FirstOf
  <2>3. QED
    BY <1>1, <1>2, <1>6, <2>2 DEF MinOf
<1>7. QED
  BY <1>5, <1>6

\* When the questions of M get other places, at most as many as M has among
\* the list come to stand before the offset: the others of the first n are
\* first in the old order too, or all the others that were first still are, and
\* then those of M have made room for the ones that came.
LEMMA FewPass ==
    ASSUME NEW R \in Ranks, NEW Q \in Ranks, NEW C \in SUBSET Questions,
           NEW n \in Nat, NEW M \in SUBSET Questions, AgreeOutside(M, C, R, Q)
    PROVE  Cardinality(FirstOf(n, C, Q) \ FirstOf(n, C, R)) <= Cardinality(M)
<1> DEFINE B == FirstOf(n, C, R)
           E == FirstOf(n, C, Q)
<1>1. /\ B \in SUBSET Questions /\ E \in SUBSET Questions
      /\ B \in SUBSET C /\ E \in SUBSET C
      /\ Cardinality(B) = Cardinality(E)
      /\ Cardinality(B) \in Nat /\ Cardinality(E) \in Nat
  BY FirstOfSize
<1>2. CASE E \ M \subseteq B
  <2>1. E \ B \subseteq M
    BY <1>2
  <2>2. QED
    BY <2>1, FewerOf
<1>3. CASE ~(E \ M \subseteq B)
  <2>1. PICK z \in E \ M : z \notin B
    BY <1>3
  <2>2. B \ M \subseteq E
    <3> SUFFICES ASSUME NEW x \in B \ M PROVE x \in E
      OBVIOUS
    <3>1. x \in C \ M /\ z \in C \ M
      BY <1>1, <2>1
    <3>2. /\ Place(x, C, R) < n /\ ~(Place(z, C, R) < n) /\ Place(z, C, Q) < n
      BY <2>1, <3>1 DEF FirstOf
    <3>3. /\ Place(x, C, R) \in Nat /\ Place(z, C, R) \in Nat
          /\ Place(x, C, Q) \in Nat /\ Place(z, C, Q) \in Nat
      BY PlaceType
    <3>4. Place(x, C, R) < Place(z, C, R)
      BY <3>2, <3>3
    <3>5. R[x] < R[z]
      BY <3>1, <3>4, PlaceFollowsOrder
    <3>6. Q[x] < Q[z]
      BY <3>1, <3>5 DEF AgreeOutside
    <3>7. Place(x, C, Q) < Place(z, C, Q)
      BY <3>1, <3>6, PlaceFollowsOrder
    <3>8. Place(x, C, Q) < n
      BY <3>2, <3>3, <3>7
    <3>9. QED
      BY <3>1, <3>8 DEF FirstOf
  <2>3. B \ E \subseteq M
    BY <2>2
  <2>4. Cardinality(B \ E) <= Cardinality(M) /\ Cardinality(M) \in Nat
    BY <2>3, FewerOf
  <2>5. Cardinality(E \ B) = Cardinality(B \ E)
    <3>1. IsFiniteSet(B) /\ IsFiniteSet(E)
      BY <1>1, QuestionSets
    <3>2. /\ Cardinality(B \ E) = Cardinality(B) - Cardinality(B \cap E)
          /\ Cardinality(E \ B) = Cardinality(E) - Cardinality(E \cap B)
      BY <3>1, FS_Difference
    <3>3. B \cap E = E \cap B
      OBVIOUS
    <3>4. QED
      BY <1>1, <3>2, <3>3
  <2>6. QED
    BY <2>4, <2>5
<1>4. QED
  BY <1>2, <1>3

\* Renumbering the questions of M is paid for by one for each.
LEMMA CoversRenumbered ==
    ASSUME NEW R \in Ranks, NEW Q \in Ranks, NEW W \in SUBSET Questions, NEW H,
           NEW n \in Nat, NEW C \in SUBSET Questions, NEW M \in SUBSET Questions,
           AgreeOutside(M, C, R, Q),
           NEW b \in Nat, NEW c \in Nat, NEW d \in Nat, c + Cardinality(M) <= d,
           Covers(W, H, n, C, R, b, c)
    PROVE  Covers(W, H, n, C, Q, b, d)
<1> DEFINE K == Skipped(W, H, n, C, R)
           L == Skipped(W, H, n, C, Q)
           N == FirstOf(n, C, Q) \ FirstOf(n, C, R)
<1>1. /\ K \in SUBSET Questions /\ Cardinality(K) \in Nat
      /\ L \in SUBSET Questions /\ Cardinality(L) \in Nat
      /\ Excess(W, C) \in Nat /\ Cardinality(C) \in Nat /\ Cardinality(M) \in Nat
  BY CoversTypes, QuestionSets
<1>2. N \in SUBSET Questions
  BY DEF FirstOf
<1>3. L \subseteq K \cup N
  BY DEF Skipped, FirstOf
<1>4. Cardinality(N) <= Cardinality(M) /\ Cardinality(N) \in Nat
  BY <1>2, FewPass, QuestionSets
<1>5. Cardinality(L) <= Cardinality(K) + Cardinality(N)
  BY <1>1, <1>2, <1>3, GrowsBy
<1>6. Cardinality(L) <= Cardinality(K) + Cardinality(M)
  BY <1>1, <1>4, <1>5
<1>7. QED
  BY <1>1, <1>6 DEF Covers

\* Handing out the next page moves the offset behind it.
LEMMA CoversPage ==
    ASSUME rank \in Ranks, NEW doc \in Docs, NEW W \in SUBSET Questions, NEW H, NEW n \in Nat,
           NEW C \in SUBSET Questions, NEW limit \in Nat,
           NEW b \in Nat, NEW c \in Nat, Covers(W, H, n, C, rank, b, c),
           NEW P, P = Page(C, doc, n, limit)
    PROVE  Covers(W, H \cup P, n + Cardinality(P), C, rank, b, c)
<1>1. P \in SUBSET Questions /\ Cardinality(P) <= limit
  <2>1. P \subseteq C
    BY DEF Page
  <2>2. Cardinality(P) <= limit
    BY PageSize
  <2>3. QED
    BY <2>1, <2>2
<1>2. Cardinality(P) \in Nat
  BY <1>1, QuestionSets
<1>3. ASSUME NEW z \in Skipped(W, H \cup P, n + Cardinality(P), C, rank)
      PROVE  z \in Skipped(W, H, n, C, rank)
  <2>1. z \in W /\ z \notin H /\ z \notin P
    BY <1>3 DEF Skipped
  <2>2. SUFFICES ASSUME z \in C PROVE Place(z, C, rank) < n
    BY <2>1 DEF Skipped
  <2>3. Place(z, C, rank) < n + Cardinality(P)
    BY <1>3, <2>2 DEF Skipped
  <2>4. Place(z, C, rank) \in Nat
    BY PlaceType
  <2>5. Place(z, C, rank) < n + limit
    BY <1>1, <1>2, <2>3, <2>4
  <2>6. Cardinality({p \in C : Precedes(p, z, doc)}) = Place(z, C, rank)
    BY PlaceIsAhead DEF Ahead
  <2>7. ~(n <= Place(z, C, rank))
    BY <2>1, <2>2, <2>5, <2>6 DEF Page
  <2>8. QED
    BY <2>4, <2>7
<1>4. /\ Cardinality(Skipped(W, H, n, C, rank)) \in Nat
      /\ Cardinality(Skipped(W, H \cup P, n + Cardinality(P), C, rank)) \in Nat
      /\ Excess(W, C) \in Nat
      /\ Skipped(W, H, n, C, rank) \in SUBSET Questions
  BY CoversTypes
<1>5. Cardinality(Skipped(W, H \cup P, n + Cardinality(P), C, rank)) <= Cardinality(Skipped(W, H, n, C, rank))
  BY <1>3, <1>4, FewerOf
<1>6. QED
  BY <1>4, <1>5 DEF Covers

\* At the end of the list, or once as many have been handed out as there were
\* at the start, the changes of the bank pay for all that was not handed out.
LEMMA CoversEnd ==
    ASSUME NEW R \in Ranks, NEW W \in SUBSET Questions, NEW H, NEW n \in Nat,
           NEW C \in SUBSET Questions,
           NEW b \in Nat, NEW c \in Nat, Covers(W, H, n, C, R, b, c),
           \/ Cardinality(W) <= n
           \/ \A q \in C : Place(q, C, R) < n
    PROVE  Cardinality((W \cap C) \ H) + b <= c
<1> DEFINE K == Skipped(W, H, n, C, R)
           M == (W \cap C) \ H
           T == {q \in C : n <= Place(q, C, R)}
<1>1. /\ K \in SUBSET Questions /\ Cardinality(K) \in Nat /\ Excess(W, C) \in Nat
      /\ Cardinality(C) \in Nat /\ Cardinality(W) \in Nat
  BY CoversTypes
<1>2. M \in SUBSET Questions /\ M \subseteq C
  OBVIOUS
<1>3. T \in SUBSET Questions /\ M \subseteq K \cup T
  <2>1. ASSUME NEW q \in M, q \notin T
        PROVE  q \in K
    BY <2>1, PlaceType DEF Skipped
  <2>2. QED
    BY <2>1
<1>4. /\ Cardinality(M) \in Nat /\ Cardinality(T) \in Nat
      /\ Cardinality(M) <= Cardinality(C)
      /\ Cardinality(M) <= Cardinality(K) + Cardinality(T)
  <2>1. Cardinality(M) \in Nat /\ Cardinality(T) \in Nat
    BY <1>2, <1>3, QuestionSets
  <2>2. Cardinality(M) <= Cardinality(C)
    BY <1>2, FewerOf
  <2>3. Cardinality(M) <= Cardinality(K) + Cardinality(T)
    BY <1>1, <1>3, GrowsBy
  <2>4. QED
    BY <2>1, <2>2, <2>3
<1>5. Cardinality(T) <= Excess(W, C)
  <2>1. CASE T = {}
    BY <1>1, <2>1, FS_EmptySet
  <2>2. CASE T # {}
    <3>1. PICK z \in T : TRUE
      BY <2>2
    <3>2. Place(z, C, R) < Cardinality(C) /\ n <= Place(z, C, R) /\ Place(z, C, R) \in Nat
      BY <3>1, PlaceFollowsOrder, PlaceType
    <3>3. Cardinality(W) <= n /\ n < Cardinality(C)
      BY <1>1, <3>1, <3>2
    <3>4. \A q \in T : n <= Place(q, C, R) /\ Place(q, C, R) < n + (Cardinality(C) - n)
      BY <1>1, PlaceFollowsOrder, PlaceType
    <3>5. Cardinality(C) - n \in Nat /\ T \subseteq C
      BY <1>1, <3>3
    <3>6. Cardinality(T) <= Cardinality(C) - n
      BY <3>4, <3>5, PlacesBetween
    <3>7. QED
      BY <1>1, <1>4, <3>3, <3>6 DEF Excess
  <2>3. QED
    BY <2>1, <2>2
<1>6. QED
  BY <1>1, <1>4, <1>5 DEF Covers

-----------------------------------------------------------------------------
(* What a step does to the list of one document.                           *)

ListGrows(C, D, c, d) ==
    \E A \in SUBSET Questions :
        C \subseteq D /\ D \subseteq C \cup A /\ c + Cardinality(A) <= d

ListExchanges(C, D, c, d) ==
    \E x, y \in Questions : C \ {x} \subseteq D /\ D \subseteq C \cup {y} /\ c + 1 <= d

ListReplaced(D, c, d) == c + Cardinality(D) <= d

ListChanges(C, D, c, d) ==
    ListGrows(C, D, c, d) \/ ListExchanges(C, D, c, d) \/ ListReplaced(D, c, d)

\* Some of its questions are renumbered, from R to Q, and others come or go.
ListMoves(C, D, R, Q, c, d) ==
    \E M \in SUBSET Questions :
        AgreeOutside(M, C, R, Q) /\ ListChanges(C, D, c + Cardinality(M), d)

LEMMA CoversChanges ==
    ASSUME NEW R \in Ranks, NEW W \in SUBSET Questions, NEW H, NEW n \in Nat,
           NEW C \in SUBSET Questions, NEW D \in SUBSET Questions,
           NEW b \in Nat, NEW c \in Nat, NEW d \in Nat, b <= c,
           Covers(W, H, n, C, R, b, c), ListChanges(C, D, c, d)
    PROVE  Covers(W, H, n, D, R, b, d)
<1>1. CASE ListGrows(C, D, c, d)
  BY <1>1, CoversGrows DEF ListGrows
<1>2. CASE ListExchanges(C, D, c, d)
  BY <1>2, CoversExchange DEF ListExchanges
<1>3. CASE ListReplaced(D, c, d)
  BY <1>3, CoversReplaced, QuestionSets DEF ListReplaced
<1>4. QED
  BY <1>1, <1>2, <1>3 DEF ListChanges

LEMMA CoversMoves ==
    ASSUME NEW R \in Ranks, NEW Q \in Ranks, NEW W \in SUBSET Questions, NEW H,
           NEW n \in Nat, NEW C \in SUBSET Questions, NEW D \in SUBSET Questions,
           NEW b \in Nat, NEW c \in Nat, NEW d \in Nat, b <= c,
           Covers(W, H, n, C, R, b, c), ListMoves(C, D, R, Q, c, d)
    PROVE  Covers(W, H, n, D, Q, b, d)
<1>1. PICK M \in SUBSET Questions :
          AgreeOutside(M, C, R, Q) /\ ListChanges(C, D, c + Cardinality(M), d)
  BY DEF ListMoves
<1>2. Cardinality(M) \in Nat
  BY QuestionSets
<1> DEFINE e == c + Cardinality(M)
<1>3. e \in Nat /\ b <= e /\ e <= e /\ c + Cardinality(M) <= e
  BY <1>2
<1>4. ListChanges(C, D, e, d)
  BY <1>1
<1> HIDE DEF e
<1>5. Covers(W, H, n, C, Q, b, e)
  BY <1>1, <1>3, CoversRenumbered
<1>6. QED
  BY <1>3, <1>4, <1>5, CoversChanges

\* In every case the list gains no more than is paid for.
LEMMA ChangesPaidFor ==
    ASSUME NEW C \in SUBSET Questions, NEW D \in SUBSET Questions,
           NEW c \in Nat, NEW d \in Nat, ListChanges(C, D, c, d)
    PROVE  c <= d /\ \E A \in SUBSET Questions : D \subseteq C \cup A /\ c + Cardinality(A) <= d
<1>1. \A A \in SUBSET Questions : Cardinality(A) \in Nat
  BY QuestionSets
<1>2. CASE ListGrows(C, D, c, d)
  BY <1>1, <1>2 DEF ListGrows
<1>3. CASE ListExchanges(C, D, c, d)
  <2>1. PICK x \in Questions, y \in Questions : D \subseteq C \cup {y} /\ c + 1 <= d
    BY <1>3 DEF ListExchanges
  <2>2. {y} \in SUBSET Questions /\ Cardinality({y}) = 1
    BY FS_Singleton
  <2>3. QED
    BY <2>1, <2>2
<1>4. CASE ListReplaced(D, c, d)
  BY <1>1, <1>4 DEF ListReplaced
<1>5. QED
  BY <1>2, <1>3, <1>4 DEF ListChanges

LEMMA MovesPaidFor ==
    ASSUME NEW C \in SUBSET Questions, NEW D \in SUBSET Questions, NEW R, NEW Q,
           NEW c \in Nat, NEW d \in Nat, ListMoves(C, D, R, Q, c, d)
    PROVE  c <= d /\ \E A \in SUBSET Questions : D \subseteq C \cup A /\ c + Cardinality(A) <= d
<1>1. PICK M \in SUBSET Questions : ListChanges(C, D, c + Cardinality(M), d)
  BY DEF ListMoves
<1>2. Cardinality(M) \in Nat /\ \A A \in SUBSET Questions : Cardinality(A) \in Nat
  BY QuestionSets
<1> DEFINE e == c + Cardinality(M)
<1>3. e \in Nat /\ c <= e
  BY <1>2
<1>4. ListChanges(C, D, e, d)
  BY <1>1
<1> HIDE DEF e
<1>5. e <= d /\ \E A \in SUBSET Questions : D \subseteq C \cup A /\ e + Cardinality(A) <= d
  BY <1>3, <1>4, ChangesPaidFor
<1>6. QED
  BY <1>2, <1>3, <1>5

LEMMA AliveOf ==
    ASSUME NEW doc \in Docs
    PROVE  /\ Alive[doc] = {q \in Questions : question[q] = "live" /\ q \in occ[doc]}
           /\ Alive'[doc] = {q \in Questions : question'[q] = "live" /\ q \in occ'[doc]}
           /\ Alive[doc] \in SUBSET Questions /\ Alive'[doc] \in SUBSET Questions
<1>1. doc # NoDoc /\ doc \in Scopes
  BY ConstantsAssumption DEF Scopes
<1>2. /\ Alive[doc] = {q \in Questions : question[q] = "live" /\ q \in occ[doc]}
      /\ Alive'[doc] = {q \in Questions : question'[q] = "live" /\ q \in occ'[doc]}
  BY <1>1 DEF Alive, Candidates, InScope
<1>3. QED
  BY <1>2

LEMMA SameList ==
    ASSUME NEW C, NEW c \in Nat, NEW d, c <= d
    PROVE  ListChanges(C, C, c, d)
<1>1. Cardinality({}) = 0 /\ {} \in SUBSET Questions
  BY FS_EmptySet
<1>2. QED
  BY <1>1 DEF ListChanges, ListGrows

\* A step that renumbers nothing.
LEMMA SameOrder ==
    ASSUME TypeOK, rank' = rank, NEW C, NEW D, NEW d, ListChanges(C, D, churn, d)
    PROVE  ListMoves(C, D, rank, rank', churn, d)
<1>1. Cardinality({}) = 0 /\ {} \in SUBSET Questions
  BY FS_EmptySet
<1>2. churn \in Nat
  BY DEF TypeOK
<1>3. AgreeOutside({}, C, rank, rank')
  BY DEF AgreeOutside
<1>4. churn + Cardinality({}) = churn
  BY <1>1, <1>2
<1>5. QED
  BY <1>1, <1>3, <1>4 DEF ListMoves

LEMMA AliveMoves ==
    ASSUME TypeOK, [Next]_vars, NEW doc \in Docs
    PROVE  ListMoves(Alive[doc], Alive'[doc], rank, rank', churn, churn')
<1> DEFINE C == Alive[doc]
           D == Alive'[doc]
<1>1. /\ churn \in Nat /\ C \in SUBSET Questions /\ D \in SUBSET Questions
      /\ question \in [Questions -> {"absent", "live", "discarded"}]
      /\ occ \in [Docs -> SUBSET Questions]
  BY AliveOf DEF TypeOK
<1>2. CASE UNCHANGED <<occ, question, rank, churn>>
  <2>1. Alive'[doc] = Alive[doc] /\ churn' = churn
    BY <1>2, AliveOf
  <2>2. QED
    BY <1>1, <1>2, <2>1, SameList, SameOrder
<1>3. ASSUME NEW q \in Questions, DiscardQuestion(q)
      PROVE  ListMoves(C, D, rank, rank', churn, churn')
  <2>1. occ' = occ /\ rank' = rank /\ churn' = churn + 1 /\ \A z \in Questions \ {q} : question'[z] = question[z]
    BY <1>1, <1>3 DEF DiscardQuestion, BankChanges
  <2>2. C \ {q} \subseteq D /\ D \subseteq C \cup {q}
    BY <2>1, AliveOf
  <2>3. QED
    BY <1>1, <2>1, <2>2, SameOrder DEF ListChanges, ListExchanges
<1>4. ASSUME NEW p \in Questions, NEW q \in Questions, MergeDuplicate(p, q)
      PROVE  ListMoves(C, D, rank, rank', churn, churn')
  <2>1. /\ churn' = churn + 1 /\ rank' = rank
        /\ question'[p] = "absent"
        /\ \A z \in Questions \ {p} : question'[z] = question[z]
    BY <1>1, <1>4 DEF MergeDuplicate, BankChanges
  <2>2. occ'[doc] = IF p \in occ[doc] THEN (occ[doc] \ {p}) \cup {q} ELSE occ[doc]
    BY <1>4 DEF MergeDuplicate
  <2>3. C \ {p} \subseteq D /\ D \subseteq C \cup {q}
    BY <2>1, <2>2, AliveOf
  <2>4. QED
    BY <1>1, <2>1, <2>3, SameOrder DEF ListChanges, ListExchanges
<1>5. ASSUME NEW d \in Docs, NEW S \in SUBSET Questions, NEW moved \in SUBSET Questions,
             SaveQuestions(d, S, moved)
      PROVE  ListMoves(C, D, rank, rank', churn, churn')
  <2>1. /\ Cardinality(S) \in Nat /\ Cardinality(moved) \in Nat
        /\ churn + Cardinality(moved) \in Nat /\ churn' \in Nat
        /\ churn + Cardinality(moved) + Cardinality(S) <= churn'
    <3>1. Cardinality(S) \in Nat /\ Cardinality(moved) \in Nat
      BY QuestionSets
    <3>2. churn' = churn + MaxOf(1, Cardinality(S) + Cardinality(moved))
      BY <1>5 DEF SaveQuestions, BankChanges
    <3>3. QED
      BY <1>1, <3>1, <3>2 DEF MaxOf
  <2>2. /\ occ' = [occ EXCEPT ![d] = S]
        /\ \A z \in Questions : question'[z] =
               IF z \in S THEN "live" ELSE IF z \in OnlyIn(d) THEN "absent" ELSE question[z]
    BY <1>5 DEF SaveQuestions
  <2>3. ListChanges(C, D, churn + Cardinality(moved), churn')
    <3>1. CASE doc = d
      <4>1. D \subseteq S
        BY <1>1, <2>2, <3>1, AliveOf
      <4>2. Cardinality(D) \in Nat /\ Cardinality(D) <= Cardinality(S)
        BY <4>1, FewerOf
      <4>3. QED
        BY <2>1, <4>2 DEF ListChanges, ListReplaced
    <3>2. CASE doc # d
      <4>1. occ'[doc] = occ[doc]
        BY <1>1, <2>2, <3>2
      <4>2. \A z \in occ[doc] : z \notin OnlyIn(d)
        BY <3>2 DEF OnlyIn
      <4>3. C \subseteq D /\ D \subseteq C \cup S
        BY <2>2, <4>1, <4>2, AliveOf
      <4>4. QED
        BY <2>1, <4>3 DEF ListChanges, ListGrows
    <3>3. QED
      BY <3>1, <3>2
  <2>4. AgreeOutside(moved, C, rank, rank')
    <3>1. \A q \in C : q \notin S
      <4>1. \A q \in S : question[q] = "absent"
        BY <1>5 DEF SaveQuestions, Exists
      <4>2. QED
        BY <4>1, AliveOf
    <3>2. \A p, q \in Questions \ (S \cup moved) : rank'[p] < rank'[q] <=> rank[p] < rank[q]
      BY <1>5 DEF SaveQuestions, Renumbered
    <3>3. QED
      BY <1>1, <3>1, <3>2 DEF AgreeOutside
  <2>5. QED
    BY <2>3, <2>4 DEF ListMoves
<1>6. ASSUME D = {}, churn' = churn + 1, rank' = rank
      PROVE  ListMoves(C, D, rank, rank', churn, churn')
  <2>1. Cardinality(D) = 0
    BY <1>6, FS_EmptySet
  <2>2. ListChanges(C, D, churn, churn')
    BY <1>1, <1>6, <2>1 DEF ListChanges, ListReplaced
  <2>3. QED
    BY <1>6, <2>2, SameOrder
<1>7. ASSUME NEW d \in Docs, NEW moved \in SUBSET Questions, DeleteDocument(d, moved)
      PROVE  ListMoves(C, D, rank, rank', churn, churn')
  <2>1. /\ occ' = [occ EXCEPT ![d] = {}]
        /\ \A z \in Questions : question'[z] = IF z \in OnlyIn(d) THEN "absent" ELSE question[z]
    BY <1>7 DEF DeleteDocument, QuestionsDeleted
  <2>2. /\ Cardinality(moved) \in Nat /\ churn + Cardinality(moved) \in Nat
        /\ churn + Cardinality(moved) <= churn'
    <3>1. Cardinality(moved) \in Nat
      BY QuestionSets
    <3>2. churn' = churn + MaxOf(1, Cardinality(moved))
      BY <1>7 DEF DeleteDocument, BankChanges
    <3>3. QED
      BY <1>1, <3>1, <3>2 DEF MaxOf
  <2>3. ListChanges(C, D, churn + Cardinality(moved), churn')
    <3>1. CASE doc = d
      <4>1. D = {}
        BY <1>1, <2>1, <3>1, AliveOf
      <4>2. Cardinality(D) = 0
        BY <4>1, FS_EmptySet
      <4>3. QED
        BY <2>2, <4>2 DEF ListChanges, ListReplaced
    <3>2. CASE doc # d
      <4>1. occ'[doc] = occ[doc]
        BY <1>1, <2>1, <3>2
      <4>2. \A z \in occ[doc] : z \notin OnlyIn(d)
        BY <3>2 DEF OnlyIn
      <4>3. \A z \in occ[doc] : question'[z] = question[z]
        BY <1>1, <2>1, <4>2
      <4>6. /\ C = {q \in Questions : question[q] = "live" /\ q \in occ[doc]}
            /\ D = {q \in Questions : question'[q] = "live" /\ q \in occ'[doc]}
        BY AliveOf
      <4>5. D = C
        BY <4>1, <4>3, <4>6, Zenon
      <4>4. QED
        BY <2>2, <4>5, SameList
    <3>3. QED
      BY <3>1, <3>2
  <2>4. AgreeOutside(moved, C, rank, rank')
    <3>1. \A p, q \in Questions \ ({} \cup moved) : rank'[p] < rank'[q] <=> rank[p] < rank[q]
      BY <1>7 DEF DeleteDocument, Renumbered
    <3>2. QED
      BY <1>1, <3>1 DEF AgreeOutside
  <2>5. QED
    BY <2>3, <2>4 DEF ListMoves
<1>8. CASE ResetDb
  <2>1. churn' = churn + 1 /\ rank' = rank /\ occ'[doc] = {}
    BY <1>8 DEF ResetDb, BankChanges
  <2>2. D = {}
    BY <2>1, AliveOf
  <2>3. QED
    BY <1>6, <2>1, <2>2
<1>9. CASE StartJob
  BY <1>2, <1>9 DEF StartJob, StartJobCount, StartJobInsert, StartJobRefused, bank
<1>10. ASSUME NEW j \in Jobs, CancelJob(j) \/ Worker(j) \/ DbError(j)
       PROVE  ListMoves(C, D, rank, rank', churn, churn')
  BY <1>2, <1>10, QuietWorker DEF CancelJob, bank
<1>11. ASSUME NEW q \in Questions, NEW edit \in ManualEdits, SetQuestionCorrection(q, edit)
       PROVE  ListMoves(C, D, rank, rank', churn, churn')
  BY <1>2, <1>11 DEF SetQuestionCorrection, bank
<1>12. ASSUME NEW q \in Questions, Regenerate(q)
       PROVE  ListMoves(C, D, rank, rank', churn, churn')
  BY <1>2, <1>12 DEF Regenerate, RegenerateAsk, RegenerateSave, RegenerateFails, bank
<1>13. CASE Crash \/ Shutdown \/ Startup
  BY <1>2, <1>13 DEF Crash, Shutdown, Startup, bank
<1>14. CASE UNCHANGED vars
  BY <1>2, <1>14 DEF vars
<1>15. CASE Bank
  BY <1>3, <1>4, <1>5, <1>7, <1>8, <1>15 DEF Bank
<1>16. QED
  BY <1>9, <1>10, <1>11, <1>12, <1>13, <1>14, <1>15 DEF Next

-----------------------------------------------------------------------------
(* A job with `overwrite`: what it has not handed out.                     *)

Fetching == {"scheduled", "setRunning", "readCancel", "readProcessed", "fetch"}

Handed(t, h) == h.sent \cup t.batch
Reached(r, t) == r.processed + Cardinality(t.batch)

\* The changes of the bank since the count pay for what lies behind the pages
\* that were handed out; and for all that was left out, once the job has come
\* to its end without its cap.
Pages(r, t, h, C, R, c) ==
    /\ h.churn <= c
    /\ t.pc # "scheduled" => t.doc = r.doc /\ t.overwrite
    /\ t.pc \in Fetching => t.batch = {}
    /\ t.pc # "mark" => t.batch \subseteq h.sent
    /\ Covers(h.wanted, Handed(t, h), Reached(r, t), C, R, h.churn, c)
    /\ t.pc = "done" /\ Cardinality(h.wanted) = r.total =>
           Cardinality((h.wanted \cap C) \ h.sent) + h.churn <= c

StartPages ==
    starting.on /\ starting.overwrite =>
        /\ starting.doc \in Docs
        /\ starting.churn <= churn
        /\ Covers(starting.wanted, {}, 0, Alive[starting.doc], rank, starting.churn, churn)

PagesInv ==
    /\ StartPages
    /\ \A j \in Jobs :
           Stored(j) /\ row[j].overwrite /\ ~Off(task[j]) =>
               /\ row[j].doc \in Docs
               /\ Pages(row[j], task[j], hist[j], Alive[row[j].doc], rank, churn)

LEMMA PagesMove ==
    ASSUME NEW doc \in Docs, NEW r \in Row, NEW t \in Task, NEW h \in Hist,
           NEW C \in SUBSET Questions, NEW D \in SUBSET Questions,
           NEW R \in Ranks, NEW Q \in Ranks,
           NEW c \in Nat, NEW d \in Nat, ListMoves(C, D, R, Q, c, d),
           Pages(r, t, h, C, R, c)
    PROVE  Pages(r, t, h, D, Q, d)
<1>1. h.churn \in Nat /\ h.churn <= c /\ h.wanted \in SUBSET Questions
  BY DEF Pages, Hist
<1>2. c <= d
  BY MovesPaidFor
<1>3. h.churn <= d
  BY <1>1, <1>2
<1>4. t.batch \in SUBSET Questions /\ Reached(r, t) \in Nat
  <2>1. t.batch \in SUBSET Questions /\ r.processed \in Nat
    BY DEF Task, Row
  <2>2. Cardinality(t.batch) \in Nat
    BY <2>1, QuestionSets
  <2>3. QED
    BY <2>1, <2>2 DEF Reached
<1>5. Covers(h.wanted, Handed(t, h), Reached(r, t), D, Q, h.churn, d)
  BY <1>1, <1>4, CoversMoves DEF Pages
<1>6. ASSUME t.pc = "done", Cardinality(h.wanted) = r.total
      PROVE  Cardinality((h.wanted \cap D) \ h.sent) + h.churn <= d
  <2> DEFINE M(S) == (h.wanted \cap S) \ h.sent
  <2>1. PICK A \in SUBSET Questions : D \subseteq C \cup A /\ c + Cardinality(A) <= d
    BY MovesPaidFor
  <2>2. M(C) \in SUBSET Questions /\ M(D) \in SUBSET Questions /\ M(D) \subseteq M(C) \cup A
    BY <1>1, <2>1
  <2>3. Cardinality(M(D)) <= Cardinality(M(C)) + Cardinality(A)
    BY <2>2, GrowsBy
  <2>4. Cardinality(M(C)) \in Nat /\ Cardinality(M(D)) \in Nat /\ Cardinality(A) \in Nat
    BY <2>2, QuestionSets
  <2>5. Cardinality(M(C)) + h.churn <= c
    BY <1>6 DEF Pages
  <2>6. QED
    BY <1>1, <2>1, <2>3, <2>4, <2>5
<1>7. QED
  BY <1>3, <1>5, <1>6 DEF Pages

\* Up to the call of the LLM, the pages that are handed out follow the offset.
LEMMA FetchPages ==
    ASSUME TypeOK, CountersInv, NEW j \in Jobs, Stored(j), row[j].overwrite,
           NEW doc \in Docs, doc = row[j].doc,
           Pages(row[j], task[j], hist[j], Alive[doc], rank, churn),
           ~Off(task'[j]),
           \/ LoadHeader(j) \/ SetRunning(j) \/ ReadCancelFlag(j)
           \/ ReadProcessed(j) \/ Fetch(j) \/ MarkAndSend(j)
    PROVE  Pages(row'[j], task'[j], hist'[j], Alive[doc], rank, churn) /\ SameJob(row[j], row'[j])
<1> DEFINE r == row[j]
           t == task[j]
           h == hist[j]
           u == task'[j]
           C == Alive[doc]
<1> USE DEF SameJob
<1>1. /\ r \in Row /\ t \in Task /\ h \in Hist /\ Held(t) /\ Fits(r, t)
      /\ row \in [Jobs -> Row] /\ task \in [Jobs -> Task] /\ hist \in [Jobs -> Hist]
  BY DEF TypeOK, CountersInv, Tallied, Stored
<1>2. /\ r.processed \in Nat /\ h.churn \in Nat /\ churn \in Nat /\ rank \in Ranks
      /\ h.wanted \in SUBSET Questions /\ h.sent \in SUBSET Questions
      /\ C \in SUBSET Questions
  BY <1>1, AliveOf DEF TypeOK, Row, Hist
<1>3. Cardinality({}) = 0 /\ h.sent \cup {} = h.sent
  BY FS_EmptySet
<1>4. CASE LoadHeader(j)
  <2>1. /\ t.pc = "scheduled" /\ row' = row /\ hist' = hist
        /\ u = [NoTask EXCEPT !.pc = "setRunning", !.doc = r.doc,
                    !.overwrite = r.overwrite, !.total = r.total]
    BY <1>1, <1>4 DEF LoadHeader, At
  <2>2. /\ u.pc = "setRunning" /\ u.batch = {} /\ u.doc = r.doc
        /\ u.overwrite = r.overwrite
    BY <2>1 DEF NoTask
  <2>3. t.batch = {}
    BY <2>1 DEF Pages, Fetching
  <2>4. QED
    BY <2>1, <2>2, <2>3 DEF Pages, Handed, Reached
<1>5. CASE SetRunning(j)
  <2>1. /\ t.pc = "setRunning" /\ hist' = hist
        /\ row'[j] = [r EXCEPT !.status = "running"]
        /\ u = [t EXCEPT !.pc = "readCancel"]
    BY <1>1, <1>5 DEF SetRunning, At, GoTo, RowUpdated
  <2>2. /\ u.pc = "readCancel" /\ u.batch = t.batch /\ u.doc = t.doc
        /\ u.overwrite = t.overwrite
    BY <1>1, <2>1 DEF Task
  <2>3. SameJob(r, row'[j])
    <3>1. \A x \in Row : SameJob(x, [x EXCEPT !.status = "running"])
      BY DEF Row
    <3>2. SameJob(r, [r EXCEPT !.status = "running"])
      BY <1>1, <3>1
    <3>3. QED
      BY <2>1, <3>2
  <2>4. QED
    BY <2>1, <2>2, <2>3 DEF Pages, Handed, Reached, Fetching
<1>6. CASE ReadCancelFlag(j)
  <2>1. /\ t.pc = "readCancel" /\ hist' = hist /\ row' = row
        /\ u = [t EXCEPT !.pc = IF CancelFlag(j) THEN "cancelled" ELSE "readProcessed"]
    BY <1>1, <1>6 DEF ReadCancelFlag, At, GoTo
  <2>2. /\ u.pc = "readProcessed" /\ u.batch = t.batch /\ u.doc = t.doc
        /\ u.overwrite = t.overwrite
    BY <1>1, <2>1 DEF Task, Off
  <2>3. QED
    BY <2>1, <2>2 DEF Pages, Handed, Reached, Fetching
<1>7. CASE ReadProcessed(j)
  <2>1. /\ t.pc = "readProcessed" /\ hist' = hist /\ row' = row
        /\ u = [t EXCEPT !.now = r.processed,
                    !.pc = IF ReachedTotal(t, r.processed) THEN "done" ELSE "fetch"]
    BY <1>1, <1>7 DEF ReadProcessed, At
  <2>2. /\ u.pc = IF ReachedTotal(t, r.processed) THEN "done" ELSE "fetch"
        /\ u.batch = t.batch /\ u.doc = t.doc /\ u.overwrite = t.overwrite
    BY <1>1, <2>1 DEF Task
  <2>3. t.batch = {}
    BY <2>1 DEF Pages, Fetching
  <2>4. Handed(t, h) = h.sent /\ Reached(r, t) = r.processed
    BY <1>2, <1>3, <2>3 DEF Handed, Reached
  <2>5. Covers(h.wanted, h.sent, r.processed, C, rank, h.churn, churn)
    BY <2>4 DEF Pages
  <2>6. u.pc = "done" /\ Cardinality(h.wanted) = r.total => Cardinality(h.wanted) <= r.processed
    BY <1>1, <2>1, <2>2 DEF ReachedTotal, Fits
  <2>7. u.pc = "done" /\ Cardinality(h.wanted) = r.total =>
            Cardinality((h.wanted \cap C) \ h.sent) + h.churn <= churn
    BY <1>2, <2>5, <2>6, CoversEnd
  <2>8. QED
    BY <2>1, <2>2, <2>3, <2>7 DEF Pages, Handed, Reached, Fetching
<1>8. CASE Fetch(j)
  <2>1. /\ t.pc = "fetch" /\ hist' = hist /\ row' = row
        /\ u = [t EXCEPT !.batch = FetchBatch(t),
                    !.pc = IF FetchBatch(t) = {} THEN "done" ELSE "mark"]
    BY <1>1, <1>8 DEF Fetch, At
  <2>2. /\ u.pc = IF FetchBatch(t) = {} THEN "done" ELSE "mark"
        /\ u.batch = FetchBatch(t) /\ u.doc = t.doc /\ u.overwrite = t.overwrite
    BY <1>1, <2>1 DEF Task
  <2>3. t.doc = doc /\ t.overwrite /\ t.batch = {} /\ t.now = r.processed
    BY <1>1, <2>1 DEF Pages, Fetching, Fits
  <2>4. Candidates(t.doc, t.overwrite) = C
    <3>1. Candidates(t.doc, t.overwrite) = Candidates(doc, TRUE)
      BY <2>3 DEF Candidates
    <3>2. QED
      BY <3>1 DEF Alive, Scopes
  <2>5. FetchBatch(t) = Page(C, doc, r.processed, ThisBatchSize(t))
    BY <2>3, <2>4 DEF FetchBatch, Offset
  <2>6. ThisBatchSize(t) \in Nat \ {0}
    BY <1>1, ConstantsAssumption DEF ThisBatchSize, MinOf, MaxOf, Task
  <2>7. Handed(t, h) = h.sent /\ Reached(r, t) = r.processed
    BY <1>2, <1>3, <2>3 DEF Handed, Reached
  <2>8. Covers(h.wanted, h.sent, r.processed, C, rank, h.churn, churn)
    BY <2>7 DEF Pages
  <2>9. Covers(h.wanted, h.sent \cup u.batch, r.processed + Cardinality(u.batch), C, rank, h.churn, churn)
    BY <1>2, <2>2, <2>5, <2>6, <2>8, CoversPage
  <2>10. ASSUME u.pc = "done"
         PROVE  u.batch = {} /\ Cardinality((h.wanted \cap C) \ h.sent) + h.churn <= churn
    <3>1. FetchBatch(t) = {}
      BY <2>2, <2>10
    <3>2. \A q \in C : Place(q, C, rank) < r.processed
      <4>1. \A q \in C : Ahead(q, C, doc) < r.processed
        BY <1>2, <2>5, <2>6, <3>1, EmptyPage DEF TypeOK
      <4>2. QED
        BY <4>1, PlaceIsAhead
    <3>3. QED
      BY <1>2, <2>2, <2>8, <3>1, <3>2, CoversEnd
  <2>11. h.churn <= churn /\ u.doc = r.doc /\ u.overwrite
    BY <2>2, <2>3 DEF Pages
  <2>12. u.pc \notin Fetching /\ (u.pc # "mark" => u.pc = "done")
    BY <2>2 DEF Fetching
  <2>13. QED
    BY <2>1, <2>9, <2>10, <2>11, <2>12 DEF Pages, Handed, Reached
<1>9. CASE MarkAndSend(j)
  <2>1. /\ t.pc = "mark" /\ row' = row /\ u = [t EXCEPT !.pc = "llm"]
        /\ hist'[j].wanted = h.wanted /\ hist'[j].churn = h.churn
        /\ hist'[j].sent = h.sent \cup t.batch
    BY <1>1, <1>9 DEF MarkAndSend, At, GoTo, Hist
  <2>2. /\ u.pc = "llm" /\ u.batch = t.batch /\ u.doc = t.doc
        /\ u.overwrite = t.overwrite
    BY <1>1, <2>1 DEF Task
  <2>3. Handed(u, hist'[j]) = Handed(t, h) /\ Reached(row'[j], u) = Reached(r, t)
    BY <2>1, <2>2 DEF Handed, Reached
  <2>4. u.batch \subseteq hist'[j].sent
    BY <2>1, <2>2
  <2>5. QED
    BY <2>1, <2>2, <2>3, <2>4 DEF Pages, Fetching
<1>10. QED
  BY <1>4, <1>5, <1>6, <1>7, <1>8, <1>9

\* While the answers are saved and counted, the batch has been sent.
LEMMA RecordPages ==
    ASSUME TypeOK, CountersInv, NEW j \in Jobs, Stored(j), row[j].overwrite,
           NEW C, Pages(row[j], task[j], hist[j], C, rank, churn),
           \/ LlmFails(j) \/ LlmAnswers(j) \/ BatchSaved(j)
           \/ AppendFailures(j) \/ UpdateCounters(j)
    PROVE  /\ Pages(row'[j], task'[j], hist'[j], C, rank, churn)
           /\ row'[j].doc = row[j].doc
<1> DEFINE r == row[j]
           t == task[j]
           h == hist[j]
           u == task'[j]
<1>1. /\ r \in Row /\ t \in Task /\ h \in Hist
      /\ row \in [Jobs -> Row] /\ task \in [Jobs -> Task]
  BY DEF TypeOK
<1>2. ASSUME u.batch = t.batch, u.doc = t.doc, u.overwrite = t.overwrite,
             t.pc \in {"llm", "save", "log"}, u.pc \in Saving,
             row'[j].processed = r.processed, row'[j].doc = r.doc, hist'[j] = h
      PROVE  Pages(row'[j], u, hist'[j], C, rank, churn)
  BY <1>2 DEF Pages, Handed, Reached, Fetching, Saving
<1>3. CASE LlmFails(j)
  <2>1. /\ t.pc = "llm" /\ hist' = hist /\ row' = row
        /\ u = [t EXCEPT !.pc = "log", !.todo = {}, !.saved = 0, !.fails = t.batch]
    BY <1>1, <1>3 DEF LlmFails, At
  <2>2. u.pc = "log" /\ u.batch = t.batch /\ u.doc = t.doc /\ u.overwrite = t.overwrite
    BY <1>1, <2>1 DEF Task
  <2>3. QED
    BY <1>2, <2>1, <2>2 DEF Saving
<1>4. CASE LlmAnswers(j)
  <2>1. /\ t.pc = "llm" /\ hist' = hist /\ row' = row
        /\ u = [t EXCEPT !.pc = "save", !.todo = t.batch, !.saved = 0, !.fails = {}]
    BY <1>1, <1>4 DEF LlmAnswers, At
  <2>2. u.pc = "save" /\ u.batch = t.batch /\ u.doc = t.doc /\ u.overwrite = t.overwrite
    BY <1>1, <2>1 DEF Task
  <2>3. QED
    BY <1>2, <2>1, <2>2 DEF Saving
<1>5. CASE BatchSaved(j)
  <2>1. /\ t.pc = "save" /\ hist' = hist /\ row' = row
        /\ u = [t EXCEPT !.pc = IF t.fails = {} THEN "count" ELSE "log"]
    BY <1>1, <1>5 DEF BatchSaved, At, GoTo
  <2>2. /\ u.pc \in {"count", "log"} /\ u.batch = t.batch /\ u.doc = t.doc
        /\ u.overwrite = t.overwrite
    BY <1>1, <2>1 DEF Task
  <2>3. QED
    BY <1>2, <2>1, <2>2 DEF Saving
<1>6. CASE AppendFailures(j)
  <2>1. /\ t.pc = "log" /\ hist' = hist
        /\ row'[j] = [r EXCEPT !.logged = @ + Cardinality(t.fails)]
        /\ u = [t EXCEPT !.pc = "count"]
    BY <1>1, <1>6 DEF AppendFailures, At, GoTo, RowUpdated
  <2>2. u.pc = "count" /\ u.batch = t.batch /\ u.doc = t.doc /\ u.overwrite = t.overwrite
    BY <1>1, <2>1 DEF Task
  <2>3. row'[j].processed = r.processed /\ row'[j].doc = r.doc
    BY <1>1, <2>1 DEF Row
  <2>4. QED
    BY <1>2, <2>1, <2>2, <2>3 DEF Saving
<1>7. CASE UpdateCounters(j)
  <2>1. /\ t.pc = "count" /\ hist' = hist /\ row'[j] = Counted(r, t)
        /\ u = [t EXCEPT !.pc = "readCancel", !.batch = {}, !.saved = 0, !.fails = {}]
    BY <1>1, <1>7 DEF UpdateCounters, At, RowUpdated
  <2>2. u.pc = "readCancel" /\ u.batch = {} /\ u.doc = t.doc /\ u.overwrite = t.overwrite
    BY <1>1, <2>1 DEF Task
  <2>3. row'[j].processed = r.processed + Cardinality(t.batch) /\ row'[j].doc = r.doc
    BY <1>1, <2>1 DEF Counted, Row
  <2>4. Cardinality({}) = 0 /\ Cardinality(t.batch) \in Nat /\ r.processed \in Nat
    <3>1. t.batch \in SUBSET Questions /\ r.processed \in Nat
      BY <1>1 DEF Task, Row
    <3>2. QED
      BY <3>1, QuestionSets, FS_EmptySet
  <2>5. Reached(row'[j], u) = Reached(r, t)
    BY <2>2, <2>3, <2>4 DEF Reached
  <2>6. t.batch \subseteq h.sent
    BY <2>1 DEF Pages
  <2>7. Handed(u, h) = Handed(t, h)
    BY <2>2, <2>6 DEF Handed
  <2>8. Covers(h.wanted, Handed(u, h), Reached(row'[j], u), C, rank, h.churn, churn)
    BY <2>5, <2>7 DEF Pages
  <2>9. h.churn <= churn /\ u.doc = row'[j].doc /\ u.overwrite
    BY <2>1, <2>2, <2>3 DEF Pages
  <2>10. QED
    BY <2>1, <2>2, <2>3, <2>8, <2>9 DEF Pages
<1>8. QED
  BY <1>3, <1>4, <1>5, <1>6, <1>7

LEMMA ItemPages ==
    ASSUME TypeOK, CountersInv, NEW j \in Jobs, NEW q \in task[j].todo,
           NEW failed \in BOOLEAN, ItemDone(j, q, failed), NEW C,
           Pages(row[j], task[j], hist[j], C, rank, churn)
    PROVE  Pages(row[j], task'[j], hist[j], C, rank, churn)
<1>1. task[j] \in Task /\ Held(task[j]) /\ task \in [Jobs -> Task]
  BY DEF TypeOK, CountersInv, Tallied
<1>2. task[j].pc = "save"
  BY <1>1 DEF Held
<1>3. /\ task'[j].pc = task[j].pc /\ task'[j].doc = task[j].doc
      /\ task'[j].overwrite = task[j].overwrite /\ task'[j].batch = task[j].batch
  BY <1>1 DEF ItemDone, Task
<1>4. QED
  BY <1>2, <1>3 DEF Pages, Handed, Reached

LEMMA OwnStepPages ==
    ASSUME TypeOK, CountersInv, NEW j \in Jobs, Worker(j) \/ DbError(j),
           Stored(j), row[j].overwrite, ~Off(task'[j]), row[j].doc \in Docs,
           Pages(row[j], task[j], hist[j], Alive[row[j].doc], rank, churn)
    PROVE  /\ row'[j].doc \in Docs
           /\ Pages(row'[j], task'[j], hist'[j], Alive'[row'[j].doc], rank', churn')
<1>1. task \in [Jobs -> Task] /\ task[j] \in Task
  BY DEF TypeOK
<1>2. Alive' = Alive /\ rank' = rank /\ churn' = churn
  BY QuietWorker DEF Alive, Candidates, InScope
<1>3. ASSUME NEW q \in task[j].todo, NEW failed \in BOOLEAN, ItemDone(j, q, failed),
             row' = row, hist' = hist
      PROVE  /\ row'[j].doc \in Docs
             /\ Pages(row'[j], task'[j], hist'[j], Alive'[row'[j].doc], rank', churn')
  BY <1>2, <1>3, ItemPages
<1>4. ASSUME NEW q \in Questions, NEW item \in LlmItems, SaveItem(j, q, item)
      PROVE  /\ row'[j].doc \in Docs
             /\ Pages(row'[j], task'[j], hist'[j], Alive'[row'[j].doc], rank', churn')
  <2>1. /\ q \in task[j].todo /\ ItemDone(j, q, ~Exists(q))
        /\ (~Exists(q)) \in BOOLEAN /\ row' = row /\ hist' = hist
    BY <1>4 DEF SaveItem, Exists
  <2>2. QED
    BY <1>3, <2>1
<1>5. CASE \/ LoadHeader(j) \/ SetRunning(j) \/ ReadCancelFlag(j)
           \/ ReadProcessed(j) \/ Fetch(j) \/ MarkAndSend(j)
  BY <1>2, <1>5, FetchPages DEF SameJob
<1>6. CASE \/ LlmFails(j) \/ LlmAnswers(j) \/ BatchSaved(j)
           \/ AppendFailures(j) \/ UpdateCounters(j)
  BY <1>2, <1>6, RecordPages
<1>7. CASE \E q \in Questions : NoUsableItem(j, q)
  BY <1>3, <1>7 DEF NoUsableItem
<1>8. CASE SetFinalStatus(j)
  BY <1>1, <1>8 DEF SetFinalStatus, TaskEnds, Off, NoTask
<1>9. CASE DbError(j)
  <2>1. CASE \E q \in task[j].todo : ItemDone(j, q, TRUE) /\ hist' = hist
    BY <1>3, <1>9, <2>1 DEF DbError
  <2>2. CASE GoTo(j, "error") \/ TaskEnds(j)
    BY <1>1, <2>2 DEF GoTo, TaskEnds, Off, NoTask, Task
  <2>3. QED
    BY <1>9, <2>1, <2>2 DEF DbError
<1>10. QED
  BY <1>4, <1>5, <1>6, <1>7, <1>8, <1>9 DEF Worker

LEMMA InsertPages ==
    ASSUME TypeOK, PagesInv, NEW j \in Jobs, StartJobInsert(j), row'[j].overwrite
    PROVE  /\ row'[j].doc \in Docs
           /\ Pages(row'[j], task'[j], hist'[j], Alive'[row'[j].doc], rank', churn')
<1> DEFINE r == row'[j]
           u == task'[j]
           h == hist'[j]
<1>1. row \in [Jobs -> Row] /\ task \in [Jobs -> Task] /\ hist \in [Jobs -> Hist]
  BY DEF TypeOK
<1>2. /\ r = [BlankRow("queued") EXCEPT !.doc = starting.doc,
                 !.overwrite = starting.overwrite, !.total = starting.total]
      /\ u = [NoTask EXCEPT !.pc = "scheduled"]
      /\ h = [NoHist EXCEPT !.wanted = starting.wanted, !.churn = starting.churn]
  BY <1>1 DEF StartJobInsert
<1>3. Alive' = Alive /\ rank' = rank /\ churn' = churn /\ starting.on
  BY DEF StartJobInsert, bank, Alive, Candidates, InScope
<1>4. /\ r.doc = starting.doc /\ r.overwrite = starting.overwrite
      /\ r.processed = 0 /\ u.pc = "scheduled" /\ u.batch = {}
      /\ h.wanted = starting.wanted /\ h.churn = starting.churn /\ h.sent = {}
  <2>1. /\ r.doc = starting.doc /\ r.overwrite = starting.overwrite
        /\ r.processed = 0
    <3>1. r.doc = starting.doc
      BY <1>2 DEF BlankRow
    <3>2. starting.overwrite \in BOOLEAN
      BY DEF TypeOK, Starting
    <3>3. r.overwrite = starting.overwrite
      BY <1>2, <3>2 DEF BlankRow
    <3>4. r.processed = BlankRow("queued").processed
      BY <1>2 DEF BlankRow
    <3>5. QED
      BY <3>1, <3>3, <3>4 DEF BlankRow
  <2>2. u.pc = "scheduled" /\ u.batch = {}
    BY <1>2 DEF NoTask
  <2>3. h.wanted = starting.wanted /\ h.churn = starting.churn /\ h.sent = {}
    BY <1>2 DEF NoHist
  <2>4. QED
    BY <2>1, <2>2, <2>3
<1>5. /\ starting.doc \in Docs /\ starting.churn <= churn
      /\ Covers(starting.wanted, {}, 0, Alive[starting.doc], rank, starting.churn, churn)
  BY <1>3, <1>4 DEF PagesInv, StartPages
<1>6. Handed(u, h) = {} /\ Reached(r, u) = 0
  BY <1>4, FS_EmptySet DEF Handed, Reached
<1>7. QED
  BY <1>3, <1>4, <1>5, <1>6 DEF Pages

LEMMA StartPagesStep ==
    ASSUME TypeOK, StartPages, [Next]_vars
    PROVE  StartPages'
<1>1. starting \in Starting /\ churn \in Nat
  BY DEF TypeOK
<1>2. ASSUME NEW doc \in Scopes, NEW overwrite \in BOOLEAN, StartJobCount(doc, overwrite),
             overwrite
      PROVE  /\ starting'.doc \in Docs
             /\ starting'.churn <= churn'
             /\ Covers(starting'.wanted, {}, 0, Alive'[starting'.doc], rank', starting'.churn, churn')
  <2>1. /\ starting'.doc = doc /\ starting'.churn = churn
        /\ starting'.wanted = Candidates(doc, overwrite) /\ doc # NoDoc
    BY <1>2 DEF StartJobCount
  <2>2. Alive' = Alive /\ rank' = rank /\ churn' = churn
    BY <1>2 DEF StartJobCount, bank, Alive, Candidates, InScope
  <2>3. Candidates(doc, overwrite) = Alive[doc] /\ doc \in Docs
    BY <1>2, <2>1 DEF Alive, Candidates, Scopes
  <2>4. Alive[doc] \in SUBSET Questions
    BY <2>3, AliveOf
  <2>5. Skipped(Alive[doc], {}, 0, Alive[doc], rank) = {}
    BY <2>4, PlaceType DEF Skipped
  <2>6. Cardinality(Alive[doc]) \in Nat /\ Cardinality({}) = 0
    BY <2>4, QuestionSets, FS_EmptySet
  <2>7. Excess(Alive[doc], Alive[doc]) = 0
    BY <2>6 DEF Excess
  <2>10. Cardinality(Skipped(Alive[doc], {}, 0, Alive[doc], rank)) = 0
    BY <2>5, <2>6
  <2>8. Covers(Alive[doc], {}, 0, Alive[doc], rank, churn, churn)
    BY <1>1, <2>7, <2>10 DEF Covers
  <2>9. QED
    BY <1>1, <2>1, <2>2, <2>3, <2>8
<1>3. ASSUME starting' = starting, starting.on, starting.overwrite
      PROVE  /\ starting'.doc \in Docs
             /\ starting'.churn <= churn'
             /\ Covers(starting'.wanted, {}, 0, Alive'[starting'.doc], rank', starting'.churn, churn')
  <2> rank \in Ranks /\ rank' \in Ranks
    BY TypeOKStep DEF TypeOK
  <2>1. /\ starting.doc \in Docs /\ starting.churn <= churn
        /\ Covers(starting.wanted, {}, 0, Alive[starting.doc], rank, starting.churn, churn)
    BY <1>3 DEF StartPages
  <2>2. PICK doc \in Docs : doc = starting.doc
    BY <2>1
  <2>3. ListMoves(Alive[doc], Alive'[doc], rank, rank', churn, churn')
    BY AliveMoves
  <2>4. /\ Alive[doc] \in SUBSET Questions /\ Alive'[doc] \in SUBSET Questions
        /\ starting.wanted \in SUBSET Questions /\ starting.churn \in Nat /\ churn' \in Nat
    BY <1>1, AliveOf, TypeOKStep DEF Starting, TypeOK
  <2>5. Covers(starting.wanted, {}, 0, Alive'[doc], rank', starting.churn, churn')
    BY <1>1, <2>1, <2>2, <2>3, <2>4, CoversMoves
  <2>6. churn <= churn'
    BY <1>1, <2>3, <2>4, MovesPaidFor
  <2>7. QED
    BY <1>1, <1>3, <2>1, <2>2, <2>4, <2>5, <2>6
<1>4. starting'.on /\ starting'.overwrite =>
          /\ starting'.doc \in Docs
          /\ starting'.churn <= churn'
          /\ Covers(starting'.wanted, {}, 0, Alive'[starting'.doc], rank', starting'.churn, churn')
  <2>1. ASSUME NEW doc \in Scopes, NEW overwrite \in BOOLEAN, StartJobCount(doc, overwrite)
        PROVE  starting'.overwrite = overwrite
    BY <2>1 DEF StartJobCount
  <2>2. QED
    BY <1>2, <1>3, <2>1, StartingSteps
<1>5. QED
  BY <1>4 DEF StartPages

LEMMA InitPagesInv == Init => PagesInv
  BY DEF Init, PagesInv, StartPages, NotStarting, Stored, BlankRow, NoRow

LEMMA PagesInvStep ==
    TypeOK /\ StatusInv /\ CountersInv /\ PagesInv /\ [Next]_vars => PagesInv'
<1> SUFFICES ASSUME TypeOK, StatusInv, CountersInv, PagesInv, [Next]_vars
             PROVE  PagesInv'
  OBVIOUS
<1>1. StartPages'
  BY StartPagesStep DEF PagesInv
<1>2. ASSUME NEW j \in Jobs, row'[j].status \notin NoRow, row'[j].overwrite, ~Off(task'[j])
      PROVE  /\ row'[j].doc \in Docs
             /\ Pages(row'[j], task'[j], hist'[j], Alive'[row'[j].doc], rank', churn')
  <2>1. CASE Worker(j) \/ DbError(j)
    <3>1. Stored(j) /\ row'[j].overwrite = row[j].overwrite
      BY <1>2, <2>1, OwnRow
    <3>2. ~Off(task[j])
      BY <1>2, <2>1, OffStays
    <3>3. QED
      BY <1>2, <2>1, <3>1, <3>2, OwnStepPages DEF PagesInv
  <2>2. CASE StartJobInsert(j)
    BY <1>2, <2>2, InsertPages
  <2>3. CASE task'[j].pc = "none"
    BY <1>2, <2>3 DEF Off
  <2>4. CASE Undisturbed(j)
    <3>1. /\ task'[j] = task[j] /\ hist'[j] = hist[j] /\ Stored(j)
          /\ SameJob(row[j], row'[j])
      BY <1>2, <2>4 DEF Undisturbed
    <3>2. /\ row[j].doc \in Docs
          /\ Pages(row[j], task[j], hist[j], Alive[row[j].doc], rank, churn)
      BY <1>2, <3>1 DEF PagesInv, SameJob
    <3>3. PICK doc \in Docs : doc = row[j].doc
      BY <3>2
    <3>4. ListMoves(Alive[doc], Alive'[doc], rank, rank', churn, churn')
      BY AliveMoves
    <3>5. /\ row[j] \in Row /\ task[j] \in Task /\ hist[j] \in Hist
          /\ churn \in Nat /\ churn' \in Nat
          /\ Alive[doc] \in SUBSET Questions /\ Alive'[doc] \in SUBSET Questions
          /\ rank \in Ranks /\ rank' \in Ranks
      BY AliveOf, TypeOKStep DEF TypeOK
    <3>6. Pages(row[j], task[j], hist[j], Alive'[doc], rank', churn')
      BY <3>2, <3>3, <3>4, <3>5, PagesMove
    <3>7. QED
      BY <3>1, <3>2, <3>3, <3>6 DEF Pages, Reached, SameJob
  <2>5. QED
    BY <2>1, <2>2, <2>3, <2>4, JobSteps
<1>3. QED
  BY <1>1, <1>2 DEF PagesInv, Stored

LEMMA PagesInvariant == Spec => []PagesInv
  BY StatusInvariant, CountersInvariant, InitPagesInv, PagesInvStep, PTL DEF Spec

\* A job with `overwrite` that ends 'done' without its cap misses, of the
\* questions it had counted and that are still there, no more than `churn`
\* counted since: each question that comes, goes or is renumbered shifts its
\* pages by one.
THEOREM OverwriteMissesFewHolds == Spec => OverwriteMissesFew
<1> DEFINE Misses ==
        \A j \in Jobs :
           Finishes(j) /\ row[j].overwrite /\ Uncapped(j)
           => Cardinality((hist[j].wanted \cap Candidates(row[j].doc, TRUE)) \ hist[j].sent)
                  <= churn - hist[j].churn
<1>1. TypeOK /\ StatusInv /\ PagesInv /\ [Next]_vars => Misses
  <2> SUFFICES ASSUME TypeOK, StatusInv, PagesInv, [Next]_vars, NEW j \in Jobs,
                      Finishes(j), row[j].overwrite, Uncapped(j)
               PROVE  Cardinality((hist[j].wanted \cap Candidates(row[j].doc, TRUE)) \ hist[j].sent)
                          <= churn - hist[j].churn
    OBVIOUS
  <2> DEFINE M == (hist[j].wanted \cap Candidates(row[j].doc, TRUE)) \ hist[j].sent
  <2>1. task[j].pc = "done" /\ Stored(j)
    BY FinishesAtDone
  <2>2. hist[j].churn \in Nat /\ churn \in Nat /\ hist[j].wanted \in SUBSET Questions
    BY DEF TypeOK, Hist
  <2>3. /\ row[j].doc \in Docs
        /\ Pages(row[j], task[j], hist[j], Alive[row[j].doc], rank, churn)
    BY <2>1 DEF PagesInv, Off
  <2>4. Alive[row[j].doc] = Candidates(row[j].doc, TRUE)
    BY <2>3 DEF Alive, Scopes
  <2>5. Cardinality(M) + hist[j].churn <= churn
    BY <2>1, <2>3, <2>4 DEF Pages, Uncapped
  <2>6. Cardinality(M) \in Nat
    <3>1. M \in SUBSET Questions
      BY <2>2
    <3>2. QED
      BY <3>1, QuestionSets
  <2>7. \A a, b, c \in Nat : a + b <= c => a <= c - b
    OBVIOUS
  <2>8. QED
    BY <2>2, <2>5, <2>6, <2>7, Zenon
<1>2. TypeOK /\ StatusInv /\ PagesInv /\ [Next]_vars => [Misses]_vars
  BY <1>1
<1>3. QED
  BY <1>2, StatusInvariant, PagesInvariant, PTL DEF Spec, OverwriteMissesFew

=============================================================================
