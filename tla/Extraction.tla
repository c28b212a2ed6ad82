------------------------------ MODULE Extraction ------------------------------
(***************************************************************************)
(* The text of a PDF (services/extraction.py): pypdf, then pdfminer, then  *)
(* OCR, each only if what came before is poor.  Of a text only its quality *)
(* is kept, in hundredths, and the number of its pages.                    *)
(***************************************************************************)
EXTENDS Naturals, Sequences

AcceptableQuality == 45

\* What a tool does with a PDF: it gives a text in time or ends late, after the
\* 20 s that pypdf and pdfminer are given; it hangs; it raises; or it is not
\* installed.  OCR has no limit, so a late text is as good as any.
Outcome == [end : {"text", "late", "hangs", "raises", "missing"}, pages : Nat, quality : 0..100]

\* What is too late is dropped, text or exception, and counts as no pages.
Result(method, outcome) ==
    IF outcome.end = "late" THEN [method |-> method, pages |-> 0, quality |-> 0]
    ELSE [method |-> method, pages |-> outcome.pages, quality |-> outcome.quality]

\* No handler before that of process_document catches what a tool raises.  A
\* tool that hangs holds the chain for ever: the limit ends the wait for its
\* result, but to leave the `with` block of its executor is to wait for it, and
\* the commands of OCR are run without a limit.
Failure == [method |-> "failed", pages |-> 0, quality |-> 0]
Stuck == [method |-> "stuck", pages |-> 0, quality |-> 0]
Stops(outcome) == outcome.end \in {"raises", "hangs"}
Stopped(outcome) == IF outcome.end = "raises" THEN Failure ELSE Stuck

Acceptable(result) == result.quality >= AcceptableQuality

\* max() keeps the first of equals.
BestFromLast(attempts) ==                       \* mutant
    attempts[CHOOSE i \in DOMAIN attempts : \A j \in DOMAIN attempts : j <= i]

Best(attempts) ==
    attempts[CHOOSE i \in DOMAIN attempts : \A j \in DOMAIN attempts :
                 \/ attempts[i].quality > attempts[j].quality
                 \/ attempts[i].quality = attempts[j].quality /\ i <= j]

\* OCR reads as many pages as pypdf has counted, and at least one.
OcrPages(pypdf) == IF Result("pypdf", pypdf).pages = 0 THEN 1 ELSE pypdf.pages
WithOcr(pypdf, ocr) ==
    IF ocr.end = "missing" THEN <<>>
    ELSE <<[method |-> "ocr", pages |-> OcrPages(pypdf), quality |-> ocr.quality]>>

WithPdfminer(pdfminer) ==
    IF pdfminer.end = "missing" THEN <<>> ELSE <<Result("pdfminer", pdfminer)>>

\* extract_text_pages_with_fallback
ExtractTextPages(pypdf, pdfminer, ocr) ==
    LET first == Result("pypdf", pypdf)
        two == <<first>> \o WithPdfminer(pdfminer)
        all == two \o WithOcr(pypdf, ocr)
    IN  IF Stops(pypdf) THEN Stopped(pypdf)
        ELSE IF Acceptable(first) THEN first
        ELSE IF Stops(pdfminer) THEN Stopped(pdfminer)
        ELSE IF Acceptable(Best(two)) THEN Best(two)
        ELSE IF Stops(ocr) THEN Stopped(ocr)
        ELSE Best(all)

-----------------------------------------------------------------------------
(* What the chain promises, tool by tool.                                  *)

\* A text that counts: in time, or from OCR at all.
Counts(tools, i) == tools[i].end = "text" \/ (i = 3 /\ tools[i].end = "late")

\* The chain comes to a tool if all before it have ended, each without a text
\* that is good enough.
Reached(tools, i) ==
    \A j \in 1..(i - 1) :
        /\ ~Stops(tools[j])
        /\ Counts(tools, j) => tools[j].quality < AcceptableQuality

\* The chain fails or hangs if and only if a tool that it comes to raises or
\* hangs.  Otherwise its text is as good as each that counts of the tools it
\* came to, it is a text of such a tool or empty, and while it is poor no tool
\* is left out.
ReturnsBest(pypdf, pdfminer, ocr) ==
    LET tools == <<pypdf, pdfminer, ocr>>
        r == ExtractTextPages(pypdf, pdfminer, ocr)
        Ends(how) == \E i \in 1..3 : Reached(tools, i) /\ tools[i].end = how
    IN  /\ r = Failure <=> Ends("raises")
        /\ r = Stuck <=> Ends("hangs")
        /\ ~Ends("raises") /\ ~Ends("hangs") =>
               /\ \A i \in 1..3 : Reached(tools, i) /\ Counts(tools, i)
                                  => r.quality >= tools[i].quality
               /\ \/ r.quality = 0
                  \/ \E i \in 1..3 : /\ Reached(tools, i) /\ Counts(tools, i)
                                     /\ r.quality = tools[i].quality
               /\ ~Acceptable(r) => \A i \in 1..3 : Reached(tools, i)

===============================================================================
