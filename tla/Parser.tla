-------------------------------- MODULE Parser --------------------------------
(***************************************************************************)
(* From the lines of an exam to its questions (services/parser.py).  A     *)
(* line is what the regular expressions tell apart; a question opens with  *)
(* a heading and takes the lines that follow, up to one that ends it.      *)
(***************************************************************************)
EXTENDS Naturals, FiniteSets, Sequences, TLC
LOCAL INSTANCE Folds
LOCAL INSTANCE SequencesExt

\* "DOMANDA 3", "3. ...", "3) ...", "a. ...", "DOMANDA TEORIA", "ESERCIZIO 1".
Kinds == {"domanda", "dotted", "paren", "option", "theory", "exercise", "text"}
Line == [kind : Kinds, n : Nat]

Heading(line) == line.kind \in {"domanda", "dotted", "paren", "theory", "exercise"}

Sections == {"esercizio", "quiz", "teoria"}

\* A stem, a list of options or of subparts: whose it is, and its length.
Part(by, size) == [by |-> by, size |-> size]

Question(section, number, type, stem, options, subparts, review) ==
    [section |-> section, number |-> number, type |-> type, stem |-> Part("parser", stem),
     options |-> Part("parser", options), subparts |-> Part("parser", subparts),
     tags |-> {"reti"}, review |-> review]

\* The open question: its heading, and how many lines, options and subparts it
\* has so far.
NoBlock == [kind |-> "none", n |-> 0, stem |-> 0, options |-> 0, subparts |-> 0]
Block(kind, n, stem) == [NoBlock EXCEPT !.kind = kind, !.n = n, !.stem = stem]

Start == [block |-> NoBlock, theory |-> 0, exercises |-> 0,
          used |-> [s \in Sections |-> {}], questions |-> <<>>]

-----------------------------------------------------------------------------

PreferredNumber(taken, preferred) == preferred  \* mutant

\* _resolve_number: the next one that is not taken.
ResolveNumber(taken, preferred) ==
    CHOOSE m \in preferred..(preferred + Cardinality(taken)) :
        m \notin taken /\ preferred..(m - 1) \subseteq taken

AddMcq(s, b) ==
    LET number == ResolveNumber(s.used["quiz"], b.n) IN
    [s EXCEPT !.used["quiz"] = @ \cup {number},
              !.questions = Append(@, Question("quiz", number, "multiple_choice", b.stem,
                                               b.options, 0, b.options < 2))]

\* A numbered question without options is taken for an open one.
AddUnstructured(s, b) ==
    LET number == ResolveNumber(s.used["teoria"], s.theory + 1) IN
    [s EXCEPT !.used["teoria"] = @ \cup {number}, !.theory = @ + 1,
              !.questions = Append(@, Question("teoria", number, "open_text", b.stem, 0, 0, TRUE))]

AddTheory(s, b) ==
    IF b.stem = 0 THEN s
    ELSE [s EXCEPT !.theory = @ + 1,
                   !.questions = Append(@, Question("teoria", s.theory + 1, "open_text", b.stem,
                                                    0, 0, FALSE))]

AddExercise(s, b) ==
    [s EXCEPT !.exercises = @ + 1,
              !.questions = Append(@, Question("esercizio", s.exercises + 1,
                  IF b.subparts > 0 THEN "multi_part_open" ELSE "open_text",
                  b.stem, 0, b.subparts, FALSE))]

Closed(s) ==
    LET b == s.block
        closed == CASE b.kind = "domanda" -> AddMcq(s, b)
                    [] b.kind = "numbered" -> IF b.options >= 2 THEN AddMcq(s, b)
                                              ELSE AddUnstructured(s, b)
                    [] b.kind = "theory" -> AddTheory(s, b)
                    [] b.kind = "exercise" -> AddExercise(s, b)
                    [] OTHER -> s
    IN  [closed EXCEPT !.block = NoBlock]

\* Theory and exercises go on to the next exercise, whatever lies between.
Ends(b, line) ==
    IF b.kind \in {"theory", "exercise"} THEN line.kind = "exercise" ELSE Heading(line)

Absorbed(b, line) ==
    IF b.kind = "exercise" /\ line.kind = "paren" THEN [b EXCEPT !.subparts = @ + 1]
    ELSE IF b.kind \in {"theory", "exercise"} THEN [b EXCEPT !.stem = @ + 1]
    ELSE IF line.kind = "option" THEN [b EXCEPT !.options = @ + 1]
    ELSE IF b.options = 0 THEN [b EXCEPT !.stem = @ + 1] ELSE b

Opened(line) ==
    CASE line.kind = "domanda" -> Block("domanda", line.n, 0)
      [] line.kind \in {"dotted", "paren"} -> Block("numbered", line.n, 1)
      [] line.kind = "theory" -> Block("theory", 0, 0)
      [] line.kind = "exercise" -> Block("exercise", 0, 1)
      [] OTHER -> NoBlock

Step(s, line) ==
    IF s.block # NoBlock /\ ~Ends(s.block, line) THEN [s EXCEPT !.block = Absorbed(@, line)]
    ELSE [Closed(s) EXCEPT !.block = Opened(line)]

Rank(section) == CASE section = "esercizio" -> 1 [] section = "quiz" -> 2 [] OTHER -> 3
Before(p, q) == \/ Rank(p.section) < Rank(q.section)
                \/ p.section = q.section /\ p.number < q.number

\* parse_unisa_questions
Parsed(lines) == SortSeq(Closed(FoldLeft(Step, Start, lines)).questions, Before)

===============================================================================
