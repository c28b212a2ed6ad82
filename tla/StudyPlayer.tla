----------------------------- MODULE StudyPlayer -----------------------------
(***************************************************************************)
(* The session player of the study page (static/js/study.js) on top of the *)
(* server's simulations: daily review, simulations, answer keys.           *)
(*                                                                         *)
(* Grain.  A handler runs alone up to its next `await`; what it does after *)
(* the await is a step of its own, with the locals it captured, while the  *)
(* user and other replies go on.  A reply reads and writes the server when *)
(* it arrives.  The POST of an attempt is stored or lost at once: only     *)
(* regenerateWithAi does anything after it.                                *)
(***************************************************************************)
EXTENDS Simulations

CONSTANTS
    NoQuestion,
    FirstKeys,      \* bound: keys of multiple-choice questions at the start
    ReviewLength,   \* bound: questions of a review
    Offers,         \* bound: a sequence of the requests the home page makes
    MaxSessions,    \* bound: sessions entered
    MaxEvents       \* bound: out-of-the-ordinary events of a behaviour: a request
                    \* that fails or is lost, an act of the user while a reply is
                    \* due, a key saved or regenerated, a question discarded, a
                    \* reload, a change by another page

ASSUME PlayerAssumption ==
    /\ NoQuestion \notin Questions
    /\ FirstKeys \subseteq Options \cup {NoOption}
    /\ Offers \in Seq(Requests)
    /\ ReviewLength \in Nat /\ MaxSessions \in Nat /\ MaxEvents \in Nat

VARIABLES
    key,        \* answer keys on the server
    session,    \* `session`, or Home
    cache,      \* correctionCache
    pending,    \* the awaits in flight, a bag
    url,        \* the simulation and position in the address, or NoUrl
    begun,      \* sessions so far
    events,
    sent,       \* attempts sent for a question in this session
    flagged,    \* questions discarded in this session
    haste       \* history: the user acted while a reply was due

vars == <<bank, sims, key, session, cache, pending, url, begun, events, sent, flagged, haste>>
server == <<bank, sims, key>>
ghosts == <<begun, sent, flagged>>

-----------------------------------------------------------------------------
(* State. *)

Keys == Options \cup {NoOption}

\* `score` is answer.correct: true, false or null.
Answer == [selected : Keys, score : {"right", "wrong", "none"}, assessed : BOOLEAN]
NoAnswer == [selected |-> NoOption, score |-> "unanswered", assessed |-> FALSE]

Home == [kind |-> "home", serial |-> 0, sim |-> 0, questions |-> <<>>, index |-> 0,
         answers |-> [q \in Questions |-> NoAnswer], picking |-> FALSE, finished |-> FALSE,
         limit |-> 0, seen |-> {}, loading |-> FALSE]

NewSession(kind, sim, questions) ==
    [Home EXCEPT !.kind = kind, !.serial = begun + 1, !.sim = sim, !.questions = questions]

\* A promise of a correction: the key when it was asked for, once it has come
\* the key it brought, and the answers that wait for it.
NoEntry == [at |-> "none", key |-> NoOption, waiters |-> <<>>]
Entry(k) == [at |-> "has", key |-> k, waiters |-> <<>>]
EmptyCache == [q \in Questions |-> NoEntry]

NoUrl == [sim |-> 0, q |-> 0]

\* A request in flight with the locals of its handler.
Op(kind) == [op |-> kind, question |-> NoQuestion, option |-> NoOption, selected |-> NoOption,
             number |-> 0, at |-> 0, mode |-> "", ids |-> {}]

Init ==
    /\ bank = [q \in Questions |-> "live"] /\ sims = <<>>
    /\ key \in [Questions -> FirstKeys \cup {NoOption}]
    /\ \A q \in Questions : key[q] \in IF TypeOf[q] = "open" THEN {NoOption} ELSE FirstKeys
    /\ session = Home /\ cache = EmptyCache /\ pending = EmptyBag /\ url = NoUrl
    /\ begun = 0 /\ events = 0 /\ haste = FALSE
    /\ sent = [q \in Questions |-> 0] /\ flagged = {}

-----------------------------------------------------------------------------
(* Rendering: what a step of the player leaves behind.                     *)

Mcq(q) == TypeOf[q] = "multiple_choice"
Current(s) == IF s.index < Len(s.questions) THEN {s.questions[s.index + 1]} ELSE {}
Has(s, q) == s.answers[q] # NoAnswer
Mistakes(s) == {q \in ToSet(s.questions) : s.answers[q].score = "wrong"}

\* updateUrl
UrlOf(s) == IF s.kind = "simulation" /\ ~s.finished
            THEN [sim |-> s.sim, q |-> s.index + 1] ELSE NoUrl

\* getCorrection: one promise per question.
Fetched(c, S) ==
    [q \in Questions |-> IF q \in S /\ c[q].at = "none"
                         THEN [at |-> "wait", key |-> key[q], waiters |-> <<>>] ELSE c[q]]

\* The corrections that renderSession and renderSummary ask for.
Shown(s) == IF s.finished THEN Mistakes(s) ELSE IF s.loading THEN {} ELSE Current(s)

Render(s, c) ==
    /\ session' = s
    /\ IF s.kind = "home" THEN url' = url ELSE url' = UrlOf(s)
    /\ cache' = Fetched(c, Shown(s))

\* Answers that wait for promises of the questions S, which the cache is about
\* to forget; q's promise brings the key that was asked for.
Orphan(q, o) == [Op("orphan") EXCEPT !.question = q, !.option = cache[q].key, !.selected = o]
Orphans(S) ==
    [op \in UNION {{Orphan(q, o) : o \in ToSet(cache[q].waiters)} : q \in S} |->
        Cardinality({i \in DOMAIN cache[op.question].waiters :
                        cache[op.question].waiters[i] = op.selected})]

MayEnter == begun < MaxSessions

\* enterSession clears the cache.
Enter(s, ops) ==
    /\ MayEnter /\ begun' = begun + 1
    /\ flagged' = {} /\ sent' = [q \in Questions |-> IF Has(s, q) THEN 1 ELSE 0]
    /\ pending' = ops (+) Orphans(Questions)
    /\ Render(s, EmptyCache)

\* exitSession; the cache, which enterSession clears, is not read in between.
Exit(ops) ==
    /\ session' = Home /\ url' = NoUrl /\ cache' = EmptyCache
    /\ pending' = ops (+) Orphans(Questions)
    /\ flagged' = {} /\ sent' = [q \in Questions |-> 0]

Finish(s, c) == Render([s EXCEPT !.finished = TRUE], c)

NextOpForgetful(s) == [Op("next") EXCEPT !.number = s.serial]   \* mutant

NextOp(s) == [Op("next") EXCEPT !.number = s.serial, !.ids = s.seen]

\* loadNextReviewQuestion up to its first await; `ops` are pending otherwise.
LoadNext(s, ops) ==
    IF s.loading THEN session' = s /\ pending' = ops /\ UNCHANGED <<url, cache>>
    ELSE IF Len(s.questions) >= s.limit THEN Finish(s, cache) /\ pending' = ops
    ELSE /\ Render([s EXCEPT !.loading = TRUE], cache)
         /\ pending' = ops (+) SetToBag({NextOp(s)})

-----------------------------------------------------------------------------
(* Answers and attempts. *)

ScoreOf(option, k) ==
    IF k = NoOption THEN "none" ELSE IF option = k THEN "right" ELSE "wrong"

\* What an attempt changes; `recordAttempt` takes the session of the moment.
World == [session |-> session, sims |-> sims, sent |-> sent]

Sent(w, q, option, score, lost) ==
    [w EXCEPT !.sent[q] = @ + 1,
              !.sims = IF lost THEN @
                       ELSE WithAttempt(@, w.session.sim, q, [selected |-> option, score |-> score])]

\* `answer` after its await; without a session it throws.
Marked(w, q, option, k, lost) ==
    LET score == ScoreOf(option, k)
        marked == [w EXCEPT !.session.answers[q] =
                      [selected |-> option, score |-> score, assessed |-> FALSE]]
    IN  IF w.session.kind = "home" THEN w
        ELSE IF k = NoOption THEN marked ELSE Sent(marked, q, option, score, lost)

\* The answers that wait for one promise go on one after the other.
AllMarked(q, options, k, lost) ==
    LET marked[n \in 0..Len(options)] ==
            IF n = 0 THEN World ELSE Marked(marked[n - 1], q, options[n], k, lost)
    IN  marked[Len(options)]

\* The session with q scored, and the attempt that goes with it.
Becomes(w, c) == Render(w.session, c) /\ sims' = w.sims /\ sent' = w.sent

-----------------------------------------------------------------------------
(* The user.  Keys and clicks reach a session that is not finished.        *)

Awaiting == pending # EmptyBag \/ \E q \in Questions : cache[q].waiters # <<>>
One(condition) == IF condition THEN 1 ELSE 0
Costs(n) == events + n <= MaxEvents /\ events' = events + n
UserSpends(n) == haste' = (haste \/ Awaiting) /\ Costs(One(Awaiting) + n)
UserActs == UserSpends(0)
Replies(lost) == haste' = haste /\ Costs(One(lost))
Sends(op) == pending' = pending (+) SetToBag({op})
Playing == session.kind # "home" /\ ~session.finished
AtHome == session.kind = "home"

\* Buttons and menu exist once a question of the session has been rendered.
Displayed == ~session.loading /\ \E q \in ToSet(session.questions) : cache[q].at = "has"

\* `answer`: until its await, which ends at once if the correction is there.
AnswerQuestion(q, option) ==
    /\ Playing /\ q \in Current(session) /\ Mcq(q) /\ ~Has(session, q) /\ ~session.picking
    /\ LET c == Fetched(cache, {q}) IN
       IF c[q].at = "has"
       THEN \E lost \in BOOLEAN :
                UserSpends(One(lost)) /\ Becomes(Marked(World, q, option, c[q].key, lost), c)
       ELSE /\ UserActs
            /\ cache' = [c EXCEPT ![q].waiters = Append(@, option)]
            /\ UNCHANGED <<session, url, sims, sent>>
    /\ UNCHANGED <<bank, key, pending, begun, flagged>>

\* dontKnow and selfAssess mark the question and send an attempt.
Assess(q, answer) ==
    /\ \E lost \in BOOLEAN :
           /\ UserSpends(One(lost))
           /\ Becomes(Sent([World EXCEPT !.session.answers[q] = answer], q, NoOption,
                           answer.score, lost), cache)
    /\ UNCHANGED <<bank, key, pending, begun, flagged>>

DontKnow(q) ==
    /\ Playing /\ q \in Current(session) /\ Mcq(q) /\ ~Has(session, q)
    /\ Assess(q, [selected |-> NoOption, score |-> "wrong", assessed |-> FALSE])

SelfAssess(q, score) ==
    /\ Playing /\ q \in Current(session) /\ ~Mcq(q)
    /\ Has(session, q) /\ ~session.answers[q].assessed
    /\ Assess(q, [session.answers[q] EXCEPT !.score = score, !.assessed = TRUE])

\* A step of the user that only changes the session.
Moves(s) == UserActs /\ Render(s, cache) /\ UNCHANGED <<server, pending, ghosts>>

Reveal(q) ==
    /\ Playing /\ q \in Current(session) /\ ~Mcq(q) /\ ~Has(session, q)
    /\ Moves([session EXCEPT !.answers[q] = [selected |-> NoOption, score |-> "none",
                                             assessed |-> FALSE]])

SetPicking(value) ==
    /\ Playing /\ Displayed /\ session.picking # value
    /\ \E q \in Current(session) : Mcq(q)
    /\ Moves([session EXCEPT !.picking = value])

\* The keyboard goes on from an answered question; a simulation can skip.
GoesOn(q) == IF Has(session, q) THEN Mcq(q) \/ session.answers[q].assessed
             ELSE session.kind = "simulation" /\ Displayed

NextInSimulation(q) ==
    /\ Playing /\ session.kind = "simulation" /\ q \in Current(session) /\ GoesOn(q)
    /\ LET last == session.index >= Len(session.questions) - 1
           next == [session EXCEPT !.index = @ + 1, !.picking = FALSE]
       IN  IF last THEN Moves([session EXCEPT !.finished = TRUE])
           ELSE /\ UserActs /\ UNCHANGED <<server, pending, ghosts>>
                /\ Render(next, Fetched(cache, Current([next EXCEPT !.index = @ + 1])))

NextInReview(q) ==
    /\ Playing /\ session.kind = "review" /\ q \in Current(session) /\ GoesOn(q)
    /\ ~session.loading /\ UserActs
    /\ LoadNext(session, pending)
    /\ UNCHANGED <<server, ghosts>>

GoPrevSilent ==                                 \* mutant
    /\ Playing /\ session.kind = "simulation" /\ session.index > 0
    /\ session' = [session EXCEPT !.index = @ - 1, !.picking = FALSE]
    /\ UserActs /\ UNCHANGED <<server, pending, ghosts, url, cache>>

GoPrev ==
    /\ Playing /\ session.kind = "simulation" /\ session.index > 0
    /\ Moves([session EXCEPT !.index = @ - 1, !.picking = FALSE])

ExitSession ==
    /\ ~AtHome /\ UserActs
    /\ Exit(pending)
    /\ UNCHANGED <<server, begun>>

\* "Completa le domande saltate": back to the first question without an answer.
ResumeSkipped ==
    LET open == {i \in DOMAIN session.questions : ~Has(session, session.questions[i])} IN
    /\ session.kind = "simulation" /\ session.finished /\ open # {}
    /\ Moves([session EXCEPT !.finished = FALSE,
                             !.index = (CHOOSE i \in open : \A j \in open : i <= j) - 1])

\* Handlers up to their first await; the question is the one shown then.
Asks(op, n) == UserSpends(n) /\ Sends(op) /\ UNCHANGED <<server, session, cache, url, ghosts>>

SaveKey(q, option) ==
    /\ Playing /\ session.picking /\ q \in Current(session) /\ Mcq(q)
    /\ Asks([Op("save") EXCEPT !.question = q, !.option = option], 1)

RegenerateWithAi(q) ==
    /\ Playing /\ Displayed /\ q \in Current(session)
    /\ Asks([Op("regenerate") EXCEPT !.question = q], 1)

\* Once the dialog, which is modal, is confirmed.
DiscardCurrent(q) ==
    /\ Playing /\ Displayed /\ q \in Current(session)
    /\ Asks([Op("discard") EXCEPT !.question = q], 1)

RetryMistakes ==
    /\ MayEnter /\ session.finished /\ Mistakes(session) # {}
    /\ Asks([Op("retry") EXCEPT !.ids = Mistakes(session)], 0)

StartSimulation(n) == AtHome /\ MayEnter /\ Asks([Op("start") EXCEPT !.number = n], 0)

\* From the history: "Riprendi", "Risultati", "Rivedi dall'inizio".
OpenSimulation(id, mode) ==
    /\ AtHome /\ MayEnter /\ ~sims[id].gone
    /\ Asks([Op("open") EXCEPT !.number = id, !.mode = mode], 0)

\* The number that the home page promised, which may be out of date.
StartReview(limit) ==
    /\ AtHome /\ MayEnter /\ UserActs
    /\ LET s == [NewSession("review", 0, <<>>) EXCEPT !.limit = limit, !.loading = TRUE] IN
       Enter(s, pending (+) SetToBag({NextOp(s)}))
    /\ UNCHANGED server

\* The page is loaded anew: `boot` follows the deep link.
Reload ==
    /\ session # Home \/ pending # EmptyBag
    /\ UserSpends(1)
    /\ session' = Home /\ cache' = EmptyCache /\ url' = url
    /\ pending' = IF url = NoUrl THEN EmptyBag
                  ELSE SetToBag({[Op("open") EXCEPT !.number = url.sim, !.mode = "at",
                                                    !.at = url.q - 1]})
    /\ flagged' = {} /\ sent' = [q \in Questions |-> 0]
    /\ UNCHANGED <<server, begun>>

-----------------------------------------------------------------------------
(* Replies. *)

Rest(op) == pending (-) SetToBag({op})

\* A correction arrives, as it was or is, or not at all (the cache keeps null);
\* the answers that wait for it go on.
ReplyCorrection(q, k) ==
    /\ cache[q].at = "wait" /\ k \in {cache[q].key, key[q], NoOption}
    /\ LET c == [cache EXCEPT ![q] = Entry(k)] IN
       \E lost \in BOOLEAN :
           /\ Replies(lost \/ k \notin {cache[q].key, key[q]})
           /\ Becomes(AllMarked(q, cache[q].waiters, k, lost), c)
    /\ UNCHANGED <<bank, key, pending, begun, flagged>>

ReplyOrphan(op, k) ==
    /\ op.op = "orphan" /\ k \in {op.option, key[op.question], NoOption}
    /\ \E lost \in BOOLEAN :
           /\ Replies(lost \/ k \notin {op.option, key[op.question]})
           /\ Becomes(Marked(World, op.question, op.selected, k, lost), cache)
    /\ pending' = Rest(op)
    /\ UNCHANGED <<bank, key, begun, flagged>>

\* saveKey: an answer given before there was a key is scored and sent now, one
\* that has a score gets a new score only.
SavedAlways(w, q, k, lost) ==                 \* mutant
    LET a == w.session.answers[q]
        s == [w EXCEPT !.session.picking = FALSE, !.session.answers[q].score = ScoreOf(a.selected, k)]
    IN  IF a.selected = NoOption THEN [w EXCEPT !.session.picking = FALSE]
        ELSE Sent(s, q, a.selected, ScoreOf(a.selected, k), lost)

Saved(w, q, k, lost) ==
    LET a == w.session.answers[q]
        s == [w EXCEPT !.session.picking = FALSE, !.session.answers[q].score = ScoreOf(a.selected, k)]
    IN  IF a.selected = NoOption THEN [w EXCEPT !.session.picking = FALSE]
        ELSE IF a.score = "none" THEN Sent(s, q, a.selected, ScoreOf(a.selected, k), lost)
        ELSE s

ReplySave(op) ==
    /\ op.op = "save"
    /\ LET c == [cache EXCEPT ![op.question] = Entry(op.option)] IN
       IF AtHome THEN Replies(FALSE) /\ UNCHANGED <<session, cache, url, sims, sent>>
       ELSE \E lost \in BOOLEAN :
                Replies(lost) /\ Becomes(Saved(World, op.question, op.option, lost), c)
    /\ key' = [key EXCEPT ![op.question] = op.option]
    /\ pending' = Rest(op) (+) Orphans({op.question})
    /\ UNCHANGED <<bank, begun, flagged>>

\* regenerateWithAi awaits the POST of its attempt before it shows the score.
ReplyRegenerate(op, k) ==
    LET q == op.question
        a == session.answers[q]
        c == [cache EXCEPT ![q] = Entry(k)]
        rest == Rest(op) (+) Orphans({q})
    IN
    /\ op.op = "regenerate" /\ k \in Keys /\ (k = NoOption <=> ~Mcq(q))
    /\ key' = [key EXCEPT ![q] = k]
    /\ IF AtHome THEN pending' = rest /\ Replies(FALSE) /\ UNCHANGED <<session, cache, url, sims, sent>>
       ELSE IF a.selected = NoOption \/ k = NoOption
       THEN Render(session, c) /\ pending' = rest /\ Replies(FALSE) /\ UNCHANGED <<sims, sent>>
       ELSE IF a.score = "none"
       THEN \E lost \in BOOLEAN :
                LET w == Sent(World, q, a.selected, ScoreOf(a.selected, k), lost) IN
                /\ sims' = w.sims /\ sent' = w.sent /\ cache' = c /\ Replies(lost)
                /\ pending' = rest (+) SetToBag({[Op("rescore") EXCEPT !.question = q,
                                                      !.option = k, !.selected = a.selected]})
                /\ UNCHANGED <<session, url>>
       ELSE /\ Render([session EXCEPT !.answers[q].score = ScoreOf(a.selected, k)], c)
            /\ pending' = rest /\ Replies(FALSE) /\ UNCHANGED <<sims, sent>>
    /\ UNCHANGED <<bank, begun, flagged>>

ReplyRescore(op) ==
    /\ op.op = "rescore"
    /\ IF AtHome THEN UNCHANGED <<session, url, cache>>
       ELSE Render([session EXCEPT !.answers[op.question] =
                       [selected |-> op.selected, score |-> ScoreOf(op.selected, op.option),
                        assessed |-> FALSE]], cache)
    /\ pending' = Rest(op) /\ Replies(FALSE) /\ UNCHANGED <<server, ghosts>>

\* discardCurrent goes on with the session and position of the moment.
Without(s, q) ==
    [s EXCEPT !.answers[q] = NoAnswer,
              !.questions = IF s.index < Len(@) THEN RemoveAt(@, s.index + 1) ELSE @]

ReplyDiscard(op) ==
    LET s == Without(session, op.question)
        end == IF s.questions = <<>> THEN 0 ELSE Len(s.questions) - 1
    IN
    /\ op.op = "discard"
    /\ bank' = [bank EXCEPT ![op.question] = "discarded"]
    /\ IF AtHome THEN pending' = Rest(op) /\ UNCHANGED <<session, url, cache, sent, flagged>>
       ELSE IF s.kind = "simulation" /\ s.questions = <<>> THEN Exit(Rest(op))
       ELSE /\ flagged' = flagged \cup {op.question} /\ UNCHANGED sent
            /\ IF s.kind = "review"
               THEN LoadNext([s EXCEPT !.limit = IF @ = 0 THEN 0 ELSE @ - 1, !.index = end], Rest(op))
               ELSE Render([s EXCEPT !.index = Smaller(@, end)], cache) /\ pending' = Rest(op)
    /\ Replies(FALSE) /\ UNCHANGED <<sims, key, begun>>

\* loadNextReviewQuestion after its awaits: `review` is the session it was
\* called for, `session` the one that is there.
Loaded(op) == IF session.serial = op.number THEN [session EXCEPT !.loading = FALSE] ELSE session

ReplyNextOver(op) ==
    /\ op.op = "next"
    /\ IF AtHome THEN UNCHANGED <<session, url, cache>> ELSE Finish(Loaded(op), cache)
    /\ pending' = Rest(op) /\ Replies(FALSE) /\ UNCHANGED <<server, ghosts>>

ReplyNextQuestion(op, q) ==
    LET s == [Loaded(op) EXCEPT !.questions = Append(@, q), !.index = Len(session.questions),
                  !.seen = IF session.serial = op.number THEN @ \cup {q} ELSE @] IN
    /\ op.op = "next" /\ q \in Live \ op.ids
    /\ IF AtHome THEN UNCHANGED <<session, url, cache>> ELSE Render(s, Fetched(cache, {q}))
    /\ pending' = Rest(op) /\ Replies(FALSE) /\ UNCHANGED <<server, ghosts>>

NextFailsLoading(op) ==                         \* mutant
    /\ op.op = "next"
    /\ IF AtHome THEN UNCHANGED <<session, url, cache>> ELSE Render(session, cache)
    /\ pending' = Rest(op) /\ Replies(TRUE) /\ UNCHANGED <<server, ghosts>>

NextFails(op) ==
    /\ op.op = "next"
    /\ IF AtHome THEN UNCHANGED <<session, url, cache>> ELSE Render(Loaded(op), cache)
    /\ pending' = Rest(op) /\ Replies(TRUE) /\ UNCHANGED <<server, ghosts>>

\* startSimulation and retryMistakes enter what the server has stored.
ReplyNewSimulation(op, config, qs) ==
    /\ Len(sims) < MaxSims
    /\ sims' = Stored(config, qs)
    /\ IF qs = <<>> THEN pending' = Rest(op) /\ UNCHANGED <<session, url, cache, ghosts>>
       ELSE Enter(NewSession("simulation", Len(sims) + 1, qs), Rest(op))
    /\ Replies(FALSE) /\ UNCHANGED <<bank, key>>

ReplyStart(op) ==
    /\ op.op = "start"
    /\ \E qs \in Generated(Offers[op.number]) : ReplyNewSimulation(op, Offers[op.number], qs)

ReplyRetry(op) ==
    /\ op.op = "retry"
    /\ \E qs \in FromQuestions(op.ids) : ReplyNewSimulation(op, NoRequest, qs)

\* openSimulation: the answers come back, but not that one was self-assessed.
Restored(attempt) ==
    IF attempt = NoAttempt THEN NoAnswer
    ELSE [selected |-> attempt.selected, score |-> attempt.score, assessed |-> FALSE]

IndexAsAsked(i, qs) == i                        \* mutant

IndexIn(i, qs) == Smaller(i, Len(qs) - 1)

Reopened(id, mode, at) ==
    LET qs == Resumed(id)
        answers == [q \in Questions |-> IF q \in ToSet(qs) THEN Restored(sims[id].latest[q])
                                        ELSE NoAnswer]
        open == {i \in DOMAIN qs : answers[qs[i]] = NoAnswer}
        first == IF open = {} THEN 0 ELSE (CHOOSE i \in open : \A j \in open : i <= j) - 1
    IN  [NewSession("simulation", id, qs) EXCEPT
            !.answers = answers,
            !.index = IndexIn(IF mode = "at" THEN at ELSE first, qs),
            !.finished = mode = "results" \/ (mode = "resume" /\ open = {})]

ReplyOpen(op) ==
    LET s == Reopened(op.number, op.mode, op.at) IN
    /\ op.op = "open" /\ ~sims[op.number].gone /\ s.questions # <<>>
    /\ Enter(s, Rest(op))
    /\ Replies(FALSE) /\ UNCHANGED server

\* An error, or nothing to show: a toast.
NothingToOpen(op) == op.op = "open" /\ (sims[op.number].gone \/ Resumed(op.number) = <<>>)

RequestFails(op) ==
    /\ op.op \notin {"next", "orphan", "rescore"}
    /\ pending' = Rest(op) /\ Replies(~NothingToOpen(op))
    /\ UNCHANGED <<server, session, cache, url, ghosts>>

-----------------------------------------------------------------------------
(* Other pages of the same user. *)

OtherPage ==
    /\ Replies(TRUE)
    /\ \/ \E q \in Questions :
              /\ bank' = [bank EXCEPT ![q] = IF @ = "live" THEN "discarded" ELSE "live"]
              /\ UNCHANGED <<key, sims>>
       \/ \E q \in Questions, k \in Options :
              /\ Mcq(q) /\ key' = [key EXCEPT ![q] = k] /\ UNCHANGED <<bank, sims>>
       \/ \E id \in DOMAIN sims : DeleteSimulation(id) /\ UNCHANGED <<bank, key>>
    /\ UNCHANGED <<session, cache, pending, url, ghosts>>

-----------------------------------------------------------------------------

OnHome ==
    \/ \E n \in DOMAIN Offers : StartSimulation(n)
    \/ \E id \in DOMAIN sims, mode \in {"resume", "results", "at"} : OpenSimulation(id, mode)
    \/ \E limit \in 1..ReviewLength : StartReview(limit)

OnQuestion(q) ==
    \/ \E o \in Options : AnswerQuestion(q, o) \/ SaveKey(q, o)
    \/ DontKnow(q) \/ Reveal(q) \/ \E score \in {"right", "wrong"} : SelfAssess(q, score)
    \/ NextInSimulation(q) \/ NextInReview(q) \/ RegenerateWithAi(q) \/ DiscardCurrent(q)

OnSession ==
    \/ \E q \in Questions : OnQuestion(q)
    \/ GoPrev \/ ExitSession \/ ResumeSkipped \/ RetryMistakes \/ Reload
    \/ \E value \in BOOLEAN : SetPicking(value)

Reply(op) ==
    \/ ReplySave(op) \/ ReplyDiscard(op) \/ ReplyRescore(op)
    \/ ReplyStart(op) \/ ReplyRetry(op) \/ ReplyOpen(op) \/ RequestFails(op)
    \/ \E k \in Keys : ReplyRegenerate(op, k) \/ ReplyOrphan(op, k)

ReplyNext(op) ==
    \/ ReplyNextOver(op) \/ NextFails(op)
    \/ \E q \in Questions : ReplyNextQuestion(op, q)

Next ==
    \/ OnHome \/ OnSession \/ OtherPage
    \/ \E op \in BagToSet(pending) : Reply(op) \/ ReplyNext(op)
    \/ \E q \in Questions, k \in Keys : ReplyCorrection(q, k)

Spec == Init /\ [][Next]_vars

\* Every request for the next question is answered or fails.
FairSpec ==
    Spec /\ \A n \in 1..MaxSessions :
                WF_vars(\E op \in BagToSet(pending) : op.number = n /\ ReplyNext(op))

-----------------------------------------------------------------------------
(* Properties. *)

Session == [kind : {"home", "simulation", "review"}, serial : 0..MaxSessions, sim : 0..MaxSims,
            questions : Seq(Questions), index : Nat, answers : [Questions -> Answer \cup {NoAnswer}],
            picking : BOOLEAN, finished : BOOLEAN, limit : 0..ReviewLength,
            seen : SUBSET Questions, loading : BOOLEAN]

TypeOK ==
    /\ bank \in [Questions -> {"live", "discarded"}]
    /\ sims \in Seq(Simulation) /\ Len(sims) <= MaxSims
    /\ key \in [Questions -> Keys]
    /\ session \in Session
    /\ session.index = 0 \/ session.index < Len(session.questions)
    /\ cache \in [Questions -> [at : {"none", "wait", "has"}, key : Keys, waiters : Seq(Options)]]
    /\ url \in [sim : 0..MaxSims, q : Nat]
    /\ sent \in [Questions -> Nat] /\ flagged \subseteq Questions
    /\ begun \in 0..MaxSessions /\ events \in 0..MaxEvents /\ haste \in BOOLEAN

\* "Simulations are resumable through a deep link": whatever arrives late, the
\* address names the simulation that is open and a question it has.
UrlTellsSession ==
    session.kind # "home" => /\ url = UrlOf(session)
                             /\ url # NoUrl => Current(session) # {}

\* "Answers are recorded as attempts": with a user who waits for replies, an
\* answer with a score has sent one attempt, one without a score has sent none,
\* through late keys, regeneration, failed requests and resumed simulations.
AttemptsFollowScores ==
    haste \/ Awaiting
    \/ \A q \in Questions : Has(session, q) =>
           /\ sent[q] > 0 <=> session.answers[q].score # "none"
           /\ Mcq(q) => sent[q] <= 1

\* With such a user, a session shows no question twice and none that it has
\* discarded, holds answers to its own questions only, and a review keeps to
\* the number it announced.
SessionIsSound ==
    haste \/
    LET shown == ToSet(session.questions) IN
    /\ Cardinality(shown) = Len(session.questions)
    /\ shown \cap flagged = {}
    /\ {q \in Questions : Has(session, q)} \subseteq shown
    /\ session.kind = "review" => Len(session.questions) <= session.limit

\* The player does not stay on its loading screen.
LoadingEnds == session.loading ~> ~session.loading

\* "Ready to be resumed": a simulation that the history calls done has an
\* attempt for each question that is left of it.
DoneIsAnswered ==
    \A id \in DOMAIN sims : AnsweredCount(id) >= GeneratedTotal(id) =>
        \A q \in ToSet(Resumed(id)) : sims[id].latest[q] # NoAttempt

=============================================================================
