--------------------------- MODULE ExtractionProofs ---------------------------
(***************************************************************************)
(* The extraction chain gives the best of the texts that come in time, for *)
(* every end, every number of pages and every quality of the three tools;  *)
(* the run checks it for qualities around the boundary.                    *)
(***************************************************************************)
EXTENDS Extraction, SequenceTheorems, TLAPS

Attempt == [method : {"pypdf", "pdfminer", "ocr"}, pages : Nat, quality : 0..100]

LEMMA ResultType ==
    ASSUME NEW o \in Outcome, NEW m \in {"pypdf", "pdfminer"}
    PROVE  Result(m, o) \in Attempt
  BY DEF Result, Outcome, Attempt

\* What max() returns where there are at most three attempts: an attempt that
\* no other one betters, the first of those.
First(attempts, i) ==
    \A j \in DOMAIN attempts : \/ attempts[i].quality > attempts[j].quality
                               \/ attempts[i].quality = attempts[j].quality /\ i <= j

LEMMA BestIsFirst ==
    ASSUME NEW attempts, \E i \in DOMAIN attempts : First(attempts, i)
    PROVE  \E i \in DOMAIN attempts : Best(attempts) = attempts[i] /\ First(attempts, i)
  BY DEF Best, First

LEMMA FirstOfOne ==
    ASSUME NEW a \in Attempt
    PROVE  First(<<a>>, 1) /\ DOMAIN <<a>> = {1}
  BY DEF First, Attempt

LEMMA FirstOfTwo ==
    ASSUME NEW a \in Attempt, NEW b \in Attempt
    PROVE  /\ DOMAIN <<a, b>> = {1, 2}
           /\ \E i \in {1, 2} : First(<<a, b>>, i)
<1>1. DOMAIN <<a, b>> = {1, 2} /\ <<a, b>>[1] = a /\ <<a, b>>[2] = b
  OBVIOUS
<1>2. a.quality \in Int /\ b.quality \in Int
  BY DEF Attempt
<1>3. CASE a.quality >= b.quality
  BY <1>1, <1>2, <1>3 DEF First
<1>4. CASE ~(a.quality >= b.quality)
  BY <1>1, <1>2, <1>4 DEF First
<1>5. QED
  BY <1>1, <1>3, <1>4

LEMMA FirstOfThree ==
    ASSUME NEW a \in Attempt, NEW b \in Attempt, NEW c \in Attempt
    PROVE  /\ DOMAIN <<a, b, c>> = {1, 2, 3}
           /\ \E i \in {1, 2, 3} : First(<<a, b, c>>, i)
<1>1. /\ DOMAIN <<a, b, c>> = {1, 2, 3}
      /\ <<a, b, c>>[1] = a /\ <<a, b, c>>[2] = b /\ <<a, b, c>>[3] = c
  OBVIOUS
<1>2. a.quality \in Int /\ b.quality \in Int /\ c.quality \in Int
  BY DEF Attempt
<1>3. CASE a.quality >= b.quality /\ a.quality >= c.quality
  BY <1>1, <1>2, <1>3 DEF First
<1>4. CASE ~(a.quality >= b.quality) /\ b.quality >= c.quality
  BY <1>1, <1>2, <1>4 DEF First
<1>5. CASE ~(a.quality >= c.quality) /\ ~(b.quality >= c.quality)
  BY <1>1, <1>2, <1>5 DEF First
<1>6. QED
  BY <1>1, <1>2, <1>3, <1>4, <1>5

\* What the callers of max() need of it.
LEMMA BestOfOne ==
    ASSUME NEW a \in Attempt
    PROVE  Best(<<a>>) = a
<1>1. \E i \in {1} : Best(<<a>>) = <<a>>[i]
  BY BestIsFirst, FirstOfOne
<1>2. QED
  BY <1>1

LEMMA BestOfTwo ==
    ASSUME NEW a \in Attempt, NEW b \in Attempt
    PROVE  /\ Best(<<a, b>>) \in {a, b}
           /\ Best(<<a, b>>).quality >= a.quality
           /\ Best(<<a, b>>).quality >= b.quality
<1>1. PICK i \in {1, 2} : Best(<<a, b>>) = <<a, b>>[i] /\ First(<<a, b>>, i)
  BY BestIsFirst, FirstOfTwo
<1>2. /\ DOMAIN <<a, b>> = {1, 2}
      /\ <<a, b>>[1] = a /\ <<a, b>>[2] = b
      /\ a.quality \in Int /\ b.quality \in Int
  BY DEF Attempt
<1>3. <<a, b>>[i].quality >= a.quality /\ <<a, b>>[i].quality >= b.quality
  BY <1>1, <1>2 DEF First
<1>4. QED
  BY <1>1, <1>2, <1>3

LEMMA BestOfThree ==
    ASSUME NEW a \in Attempt, NEW b \in Attempt, NEW c \in Attempt
    PROVE  /\ Best(<<a, b, c>>) \in {a, b, c}
           /\ Best(<<a, b, c>>).quality >= a.quality
           /\ Best(<<a, b, c>>).quality >= b.quality
           /\ Best(<<a, b, c>>).quality >= c.quality
<1>1. PICK i \in {1, 2, 3} : Best(<<a, b, c>>) = <<a, b, c>>[i] /\ First(<<a, b, c>>, i)
  BY BestIsFirst, FirstOfThree
<1>2. /\ DOMAIN <<a, b, c>> = {1, 2, 3}
      /\ <<a, b, c>>[1] = a /\ <<a, b, c>>[2] = b /\ <<a, b, c>>[3] = c
      /\ a.quality \in Int /\ b.quality \in Int /\ c.quality \in Int
  BY DEF Attempt
<1>3. /\ <<a, b, c>>[i].quality >= a.quality
      /\ <<a, b, c>>[i].quality >= b.quality
      /\ <<a, b, c>>[i].quality >= c.quality
  BY <1>1, <1>2 DEF First
<1>4. QED
  BY <1>1, <1>2, <1>3

LEMMA Joined ==
    ASSUME NEW a \in Attempt, NEW b \in Attempt, NEW c \in Attempt
    PROVE  /\ <<a>> \o <<>> = <<a>>
           /\ <<a>> \o <<b>> = <<a, b>>
           /\ <<a, b>> \o <<>> = <<a, b>>
           /\ <<a, b>> \o <<c>> = <<a, b, c>>
<1>1. <<>> \in Seq(Attempt) /\ <<a>> \in Seq(Attempt) /\ <<b>> \in Seq(Attempt)
  OBVIOUS
<1>2. <<c>> \in Seq(Attempt) /\ <<a, b>> \in Seq(Attempt)
  OBVIOUS
<1>3. <<a>> \o <<>> = <<a>> /\ <<a, b>> \o <<>> = <<a, b>>
  BY <1>1, <1>2, ConcatEmptySeq
<1>4. <<a>> \o <<b>> = <<a, b>>
  <2> DEFINE s == <<a>> \o <<b>>
  <2>1. /\ s \in Seq(Attempt) /\ Len(s) = 2
        /\ \A i \in 1..2 : s[i] = IF i <= 1 THEN <<a>>[i] ELSE <<b>>[i - 1]
    BY <1>1, ConcatProperties
  <2>2. \A i \in 1..2 : s[i] = <<a, b>>[i]
    BY <2>1
  <2>3. QED
    BY <1>2, <2>1, <2>2, SeqEqual
<1>5. <<a, b>> \o <<c>> = <<a, b, c>>
  <2> DEFINE s == <<a, b>> \o <<c>>
  <2>1. /\ s \in Seq(Attempt) /\ Len(s) = 3
        /\ \A i \in 1..3 : s[i] = IF i <= 2 THEN <<a, b>>[i] ELSE <<c>>[i - 2]
    BY <1>2, ConcatProperties
  <2>2. \A i \in 1..3 : s[i] = <<a, b, c>>[i]
    BY <2>1
  <2>3. <<a, b, c>> \in Seq(Attempt) /\ Len(<<a, b, c>>) = 3
    OBVIOUS
  <2>4. QED
    BY <2>1, <2>2, <2>3, SeqEqual
<1>6. QED
  BY <1>3, <1>4, <1>5

-----------------------------------------------------------------------------

\* When the chain comes to each tool, said of the tools themselves.
SecondReached(pypdf) ==
    ~Stops(pypdf) /\ (pypdf.end = "text" => pypdf.quality < AcceptableQuality)
ThirdReached(pypdf, pdfminer) ==
    /\ SecondReached(pypdf) /\ ~Stops(pdfminer)
    /\ pdfminer.end = "text" => pdfminer.quality < AcceptableQuality

LEMMA ReachedFacts ==
    ASSUME NEW a, NEW b, NEW c
    PROVE  /\ Reached(<<a, b, c>>, 1)
           /\ Reached(<<a, b, c>>, 2) <=> SecondReached(a)
           /\ Reached(<<a, b, c>>, 3) <=> ThirdReached(a, b)
           /\ Counts(<<a, b, c>>, 1) <=> a.end = "text"
           /\ Counts(<<a, b, c>>, 2) <=> b.end = "text"
           /\ Counts(<<a, b, c>>, 3) <=> c.end = "text" \/ c.end = "late"
<1> DEFINE t == <<a, b, c>>
<1>1. t[1] = a /\ t[2] = b /\ t[3] = c
  OBVIOUS
<1> HIDE DEF t
<1>2. /\ Counts(t, 1) <=> a.end = "text"
      /\ Counts(t, 2) <=> b.end = "text"
      /\ Counts(t, 3) <=> c.end = "text" \/ c.end = "late"
  BY <1>1 DEF Counts
<1>3. 1..(1 - 1) = {} /\ 1..(2 - 1) = {1} /\ 1..(3 - 1) = {1, 2}
  OBVIOUS
<1>4. Reached(t, 1)
  BY <1>3 DEF Reached
<1>5. Reached(t, 2) <=> SecondReached(a)
  BY <1>1, <1>2, <1>3 DEF Reached, SecondReached
<1>6. Reached(t, 3) <=> ThirdReached(a, b)
  BY <1>1, <1>2, <1>3 DEF Reached, SecondReached, ThirdReached
<1>7. QED
  BY <1>2, <1>4, <1>5, <1>6 DEF t

\* ReturnsBest for a result r, tool by tool.
IsBest(r, pypdf, pdfminer, ocr) ==
    LET second == SecondReached(pypdf)
        third == ThirdReached(pypdf, pdfminer)
        Ends(how) == \/ pypdf.end = how
                     \/ second /\ pdfminer.end = how
                     \/ third /\ ocr.end = how
        inTime == ocr.end = "text" \/ ocr.end = "late"
    IN  /\ r = Failure <=> Ends("raises")
        /\ r = Stuck <=> Ends("hangs")
        /\ ~Ends("raises") /\ ~Ends("hangs") =>
               /\ pypdf.end = "text" => r.quality >= pypdf.quality
               /\ second /\ pdfminer.end = "text" => r.quality >= pdfminer.quality
               /\ third /\ inTime => r.quality >= ocr.quality
               /\ \/ r.quality = 0
                  \/ pypdf.end = "text" /\ r.quality = pypdf.quality
                  \/ second /\ pdfminer.end = "text" /\ r.quality = pdfminer.quality
                  \/ third /\ inTime /\ r.quality = ocr.quality
               /\ ~Acceptable(r) => second /\ third

LEMMA ToolByTool ==
    ASSUME NEW pypdf, NEW pdfminer, NEW ocr,
           IsBest(ExtractTextPages(pypdf, pdfminer, ocr), pypdf, pdfminer, ocr)
    PROVE  ReturnsBest(pypdf, pdfminer, ocr)
<1> DEFINE t == <<pypdf, pdfminer, ocr>>
<1>1. t[1] = pypdf /\ t[2] = pdfminer /\ t[3] = ocr
  OBVIOUS
<1>2. /\ Reached(t, 1)
      /\ Reached(t, 2) <=> SecondReached(pypdf)
      /\ Reached(t, 3) <=> ThirdReached(pypdf, pdfminer)
      /\ Counts(t, 1) <=> pypdf.end = "text"
      /\ Counts(t, 2) <=> pdfminer.end = "text"
      /\ Counts(t, 3) <=> ocr.end = "text" \/ ocr.end = "late"
  BY ReachedFacts
<1>3. 1..3 = {1, 2, 3}
  OBVIOUS
<1> HIDE DEF t
<1>4. \A how : (\E i \in 1..3 : Reached(t, i) /\ t[i].end = how)
               <=> \/ pypdf.end = how
                   \/ SecondReached(pypdf) /\ pdfminer.end = how
                   \/ ThirdReached(pypdf, pdfminer) /\ ocr.end = how
  BY <1>1, <1>2, <1>3
<1>5. QED
  BY <1>1, <1>2, <1>3, <1>4 DEF ReturnsBest, IsBest, t

\* A document is parsed from the best text that a tool which the chain came to
\* has given in time, and while all are poor no tool is left out, whatever the
\* tools do and however long they take; the chain fails or hangs if and only if
\* one of these tools raises or hangs.  pypdf is always installed.
THEOREM ChainIsBest ==
    ASSUME NEW pypdf \in Outcome, NEW pdfminer \in Outcome, NEW ocr \in Outcome,
           pypdf.end # "missing"
    PROVE  ReturnsBest(pypdf, pdfminer, ocr)
<1> DEFINE r == ExtractTextPages(pypdf, pdfminer, ocr)
           first == Result("pypdf", pypdf)
           second == Result("pdfminer", pdfminer)
           third == [method |-> "ocr", pages |-> OcrPages(pypdf), quality |-> ocr.quality]
           two == <<first>> \o WithPdfminer(pdfminer)
           all == two \o WithOcr(pypdf, ocr)
<1>1. first \in Attempt /\ second \in Attempt
  <2>1. \A m \in {"pypdf", "pdfminer"} : \A o \in Outcome : Result(m, o) \in Attempt
    BY ResultType
  <2>2. QED
    BY <2>1
<1>2. third \in Attempt /\ third.quality = ocr.quality
  <2>1. OcrPages(pypdf) \in Nat /\ ocr.quality \in 0..100
    <3>1. pypdf.pages \in Nat /\ ocr.quality \in 0..100
      BY DEF Outcome
    <3>2. QED
      BY <3>1 DEF OcrPages
  <2>2. QED
    BY <2>1 DEF Attempt
<1>3. /\ first.quality \in 0..100 /\ second.quality \in 0..100 /\ third.quality \in 0..100
      /\ pypdf.quality \in 0..100 /\ pdfminer.quality \in 0..100 /\ ocr.quality \in 0..100
  BY <1>1, <1>2 DEF Attempt, Outcome
<1>4. two = IF pdfminer.end = "missing" THEN <<first>> ELSE <<first, second>>
  BY <1>1, <1>2, Joined DEF WithPdfminer
<1>5. all = IF ocr.end = "missing" THEN two
            ELSE IF pdfminer.end = "missing" THEN <<first, third>> ELSE <<first, second, third>>
  <2>1. CASE ocr.end = "missing"
    BY <2>1, <1>1, <1>2, <1>4, Joined DEF WithOcr
  <2>2. CASE ocr.end # "missing"
    <3>1. all = two \o <<third>>
      BY <2>2 DEF WithOcr
    <3>2. /\ <<first>> \o <<third>> = <<first, third>>
          /\ <<first, second>> \o <<third>> = <<first, second, third>>
      BY <1>1, <1>2, Joined
    <3>3. QED
      BY <2>2, <3>1, <3>2, <1>4
  <2>3. QED
    BY <2>1, <2>2
<1>6. r = IF Stops(pypdf) THEN Stopped(pypdf)
          ELSE IF Acceptable(first) THEN first
          ELSE IF Stops(pdfminer) THEN Stopped(pdfminer)
          ELSE IF Acceptable(Best(two)) THEN Best(two)
          ELSE IF Stops(ocr) THEN Stopped(ocr)
          ELSE Best(all)
  BY DEF ExtractTextPages
<1>7. /\ first.quality = IF pypdf.end = "late" THEN 0 ELSE pypdf.quality
      /\ second.quality = IF pdfminer.end = "late" THEN 0 ELSE pdfminer.quality
      /\ third.quality = ocr.quality
  BY DEF Result
<1> HIDE DEF r, first, second, third, two, all
<1>8. \A a \in Attempt : a # Failure /\ a # Stuck
  BY DEF Attempt, Failure, Stuck
<1>9. /\ Best(two) \in IF pdfminer.end = "missing" THEN {first} ELSE {first, second}
      /\ Best(two).quality >= first.quality
      /\ pdfminer.end # "missing" => Best(two).quality >= second.quality
  <2>1. Best(<<first>>) = first
    BY <1>1, BestOfOne
  <2>2. /\ Best(<<first, second>>) \in {first, second}
        /\ Best(<<first, second>>).quality >= first.quality
        /\ Best(<<first, second>>).quality >= second.quality
    BY <1>1, BestOfTwo
  <2>3. QED
    BY <1>3, <1>4, <2>1, <2>2
<1>10. /\ Best(all) \in (IF pdfminer.end = "missing" THEN {first} ELSE {first, second})
                        \cup (IF ocr.end = "missing" THEN {} ELSE {third})
       /\ Best(all).quality >= first.quality
       /\ pdfminer.end # "missing" => Best(all).quality >= second.quality
       /\ ocr.end # "missing" => Best(all).quality >= third.quality
  <2>1. CASE ocr.end = "missing"
    BY <1>5, <1>9, <2>1
  <2>2. CASE ocr.end # "missing" /\ pdfminer.end = "missing"
    <3>1. /\ Best(<<first, third>>) \in {first, third}
          /\ Best(<<first, third>>).quality >= first.quality
          /\ Best(<<first, third>>).quality >= third.quality
      BY <1>1, <1>2, BestOfTwo
    <3>2. QED
      BY <1>5, <2>2, <3>1
  <2>3. CASE ocr.end # "missing" /\ pdfminer.end # "missing"
    <3>1. /\ Best(<<first, second, third>>) \in {first, second, third}
          /\ Best(<<first, second, third>>).quality >= first.quality
          /\ Best(<<first, second, third>>).quality >= second.quality
          /\ Best(<<first, second, third>>).quality >= third.quality
      BY <1>1, <1>2, BestOfThree
    <3>2. QED
      BY <1>5, <2>3, <3>1
  <2>4. QED
    BY <2>1, <2>2, <2>3
<1>11. IsBest(r, pypdf, pdfminer, ocr)
  <2>0. /\ pypdf.end \in {"text", "late", "hangs", "raises"}
        /\ pdfminer.end \in {"text", "late", "hangs", "raises", "missing"}
        /\ ocr.end \in {"text", "late", "hangs", "raises", "missing"}
    BY DEF Outcome
  <2>1. CASE Stops(pypdf)
    <3>1. r = Stopped(pypdf) /\ ~SecondReached(pypdf)
      BY <1>6, <2>1 DEF SecondReached
    <3>2. QED
      BY <2>0, <2>1, <3>1
         DEF IsBest, Stops, Stopped, Failure, Stuck, ThirdReached
  <2>2. CASE ~Stops(pypdf) /\ Acceptable(first)
    <3>1. /\ r = first /\ ~SecondReached(pypdf) /\ ~ThirdReached(pypdf, pdfminer)
          /\ pypdf.end = "text" /\ r.quality = pypdf.quality
      BY <1>3, <1>6, <1>7, <2>0, <2>2
         DEF SecondReached, ThirdReached, Acceptable, AcceptableQuality, Stops
    <3>2. r # Failure /\ r # Stuck
      BY <1>1, <1>8, <3>1
    <3>3. QED
      BY <1>3, <2>2, <3>1, <3>2 DEF IsBest, Acceptable
  <2>3. CASE ~Stops(pypdf) /\ ~Acceptable(first) /\ Stops(pdfminer)
    <3>1. /\ r = Stopped(pdfminer) /\ SecondReached(pypdf)
          /\ ~ThirdReached(pypdf, pdfminer)
      BY <1>3, <1>6, <1>7, <2>0, <2>3
         DEF SecondReached, ThirdReached, Acceptable, AcceptableQuality, Stops
    <3>2. QED
      BY <2>0, <2>3, <3>1 DEF IsBest, Stops, Stopped, Failure, Stuck
  <2>4. CASE ~Stops(pypdf) /\ ~Acceptable(first) /\ ~Stops(pdfminer) /\ Acceptable(Best(two))
    <3>1. r = Best(two) /\ SecondReached(pypdf)
      BY <1>3, <1>6, <1>7, <2>0, <2>4 DEF SecondReached, Acceptable, AcceptableQuality, Stops
    <3>2. Best(two) = second /\ pdfminer.end # "missing"
      BY <1>9, <2>4
    <3>3. /\ pdfminer.end = "text" /\ ~ThirdReached(pypdf, pdfminer)
          /\ r.quality = pdfminer.quality
          /\ pypdf.end = "text" => r.quality >= pypdf.quality
      <4>1. second.quality >= AcceptableQuality
        BY <2>4, <3>2 DEF Acceptable
      <4>2. pdfminer.end = "text"
        BY <1>7, <2>0, <2>4, <3>2, <4>1 DEF Stops, AcceptableQuality
      <4>3. r.quality = pdfminer.quality /\ pdfminer.quality >= AcceptableQuality
        BY <1>7, <3>1, <3>2, <4>1, <4>2
      <4>4. ~ThirdReached(pypdf, pdfminer)
        BY <1>3, <4>2, <4>3 DEF ThirdReached, AcceptableQuality
      <4>5. pypdf.end = "text" => r.quality >= pypdf.quality
        BY <1>7, <1>9, <3>1
      <4>6. QED
        BY <4>2, <4>3, <4>4, <4>5
    <3>4. r # Failure /\ r # Stuck
      BY <1>1, <1>8, <3>1, <3>2
    <3>5. QED
      BY <1>3, <2>4, <3>1, <3>3, <3>4 DEF IsBest, Stops
  <2>5. CASE ~Stops(pypdf) /\ ~Acceptable(first) /\ ~Stops(pdfminer) /\ ~Acceptable(Best(two))
    <3>1. SecondReached(pypdf)
      BY <1>3, <1>7, <2>0, <2>5 DEF SecondReached, Acceptable, AcceptableQuality, Stops
    <3>2. Best(two).quality \in 0..100
      BY <1>3, <1>9
    <3>3. pdfminer.end = "text" => pdfminer.quality < AcceptableQuality
      BY <1>3, <1>7, <1>9, <2>5, <3>2 DEF Acceptable, AcceptableQuality
    <3>4. ThirdReached(pypdf, pdfminer)
      BY <2>5, <3>1, <3>3 DEF ThirdReached
    <3>5. CASE Stops(ocr)
      <4>1. r = Stopped(ocr)
        BY <1>6, <2>5, <3>5
      <4>2. QED
        BY <2>0, <2>5, <3>1, <3>4, <3>5, <4>1 DEF IsBest, Stops, Stopped, Failure, Stuck
    <3>6. CASE ~Stops(ocr)
      <4>1. r = Best(all)
        BY <1>6, <2>5, <3>6
      <4>2. r \in Attempt
        BY <1>1, <1>2, <1>10, <4>1
      <4>3. r # Failure /\ r # Stuck
        BY <1>8, <4>2
      <4>4. \/ r.quality = 0
            \/ pypdf.end = "text" /\ r.quality = pypdf.quality
            \/ pdfminer.end = "text" /\ r.quality = pdfminer.quality
            \/ (ocr.end = "text" \/ ocr.end = "late") /\ r.quality = ocr.quality
        <5>1. CASE r = first
          BY <1>7, <2>0, <2>5, <5>1 DEF Stops
        <5>2. CASE r = second /\ pdfminer.end # "missing"
          BY <1>7, <2>0, <2>5, <5>2 DEF Stops
        <5>3. CASE r = third /\ ocr.end # "missing"
          BY <1>7, <2>0, <3>6, <5>3 DEF Stops
        <5>4. QED
          BY <1>10, <4>1, <5>1, <5>2, <5>3
      <4>5. /\ pypdf.end = "text" => r.quality >= pypdf.quality
            /\ pdfminer.end = "text" => r.quality >= pdfminer.quality
            /\ ocr.end = "text" \/ ocr.end = "late" => r.quality >= ocr.quality
        BY <1>7, <1>10, <4>1
      <4>6. QED
        BY <2>5, <3>1, <3>4, <3>6, <4>3, <4>4, <4>5 DEF IsBest, Stops
    <3>7. QED
      BY <3>5, <3>6
  <2>6. QED
    BY <2>1, <2>2, <2>3, <2>4, <2>5
<1>12. QED
  BY <1>11, ToolByTool DEF r

===============================================================================
