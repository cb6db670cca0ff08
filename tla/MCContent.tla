----------------------------- MODULE MCContent -----------------------------
(* Small values for Content.                                                *)
EXTENDS Content, TLC

CONSTANTS web, api, svc, r1, r2, seeder, x1, x2, l1, l2, e1, q1, q2, c1, c2, p1, p2

\* Two names of one role, and one of a role that excludes it.
TheNames == {web, api, svc}
TheResolvers == {r1, r2}
TheSeeds == {web, svc}
TheRoles == [n \in TheNames |-> IF n = web THEN {"frontend"} ELSE {"backend"}]
NoTags == [n \in TheNames |-> {}]
TheExclusive == {{"frontend", "backend"}}
Near == [a \in TheNames |-> [b \in TheNames |-> IF a = b \/ {a, b} = {api, svc} THEN 2 ELSE 1]]
Anchors == TheNames \X TheNames
Swap == Permutations(TheResolvers)

\* Four questions of three posts.
FourQuestions == 1..4
ThreePosts == <<1, 1, 2, 3>>

TwoTexts == {x1, x2}
TwoLabels == {l1, l2}
OneEditor == {e1}

\* One or two interviews; the second may claim the question of the first.
TwoQuestions == {q1, q2}
TwoCompanies == {c1, c2}
TwoPositions == {p1, p2}
FirstOnes == [company : {c1, c2}, position : {p1, None}, quoted : BOOLEAN, questions : {{q1}}]
SecondOnes == [company : {c2}, position : {p1, p2}, quoted : {TRUE}, questions : {{q1}, {q2}}]
Extractions ==
  [companies : {{c1}, {c1, c2}}, positions : {{p1}, {p1, p2}},
   interviews : {<<i>> : i \in FirstOnes} \cup (FirstOnes \X SecondOnes)]
=============================================================================
