----------------------------- MODULE Publication -----------------------------
(***************************************************************************)
(* What the pipeline promises the readers of a post                        *)
(* (docs/deployment-reliability.md: what is not completely processed does  *)
(* not count): they see one extraction with everything that belongs to it, *)
(* or nothing.  Whoever has taken the post makes extractions and shows the *)
(* one that is stored; another one is shown only after the first has       *)
(* disappeared.                                                            *)
(***************************************************************************)
CONSTANTS Worker, NoWorker, Extraction, Nothing

VARIABLES
  holder, \* who has taken the post
  stored, \* its extraction
  shown   \* what readers see

vars == <<holder, stored, shown>>

Init == holder = NoWorker /\ stored = Nothing /\ shown = Nothing

\* An extraction of another text is forgotten.
Take(w) ==
  /\ holder' = w
  /\ UNCHANGED <<stored, shown>> \/ (stored' = Nothing /\ shown' = Nothing)

Leave == holder' = NoWorker /\ UNCHANGED <<stored, shown>>

Extract ==
  /\ holder # NoWorker
  /\ stored' \in Extraction /\ shown' = Nothing /\ UNCHANGED holder

Publish ==
  /\ holder # NoWorker /\ shown = Nothing
  /\ shown' = stored /\ UNCHANGED <<holder, stored>>

\* A crawl, or a stage that fails, hides the post.
Retract == shown' = Nothing /\ UNCHANGED <<holder, stored>>

Next == (\E w \in Worker : Take(w)) \/ Leave \/ Extract \/ Publish \/ Retract

Spec == Init /\ [][Next]_vars
=============================================================================
