------------------------------- MODULE Catalogue -------------------------------
(***************************************************************************)
(* What the question bank promises whoever looks at it by document: each   *)
(* document shows all the questions its PDF prints, or none yet.  There    *)
(* are no rows, owners or duplicates here, so merging duplicates and       *)
(* moving shared questions between owners must not show.                   *)
(***************************************************************************)
CONSTANTS Docs, PrintedContents
VARIABLE shows

Init == shows = [d \in Docs |-> {}]

Ingest(d) == shows' = [shows EXCEPT ![d] = PrintedContents[d]]

Remove(S) == shows' = [d \in Docs |-> IF d \in S THEN {} ELSE shows[d]]

Next ==
    \/ \E d \in Docs : Ingest(d)
    \/ \E S \in SUBSET Docs : Remove(S)

Spec == Init /\ [][Next]_shows

=============================================================================
