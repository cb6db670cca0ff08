----------------------------- MODULE Clustering -----------------------------
(***************************************************************************)
(* How the aggregator groups the questions of a bucket                     *)
(* (_cluster_questions): the best question that is still free becomes a    *)
(* representative, and takes the free questions that are near enough to    *)
(* it, one after another.                                                  *)
(*                                                                         *)
(* Vectors are abstracted to which pairs reach the threshold; a question   *)
(* without a usable vector is near nobody.                                 *)
(*                                                                         *)
(* Operators named Mut_... are mistakes a developer could make in the      *)
(* definition that follows them; the specification does not use them.      *)
(***************************************************************************)
EXTENDS Integers, FiniteSets, Functions

CONSTANTS
  Question, \* their ids
  Posts,    \* the post of each
  TopScore

VARIABLES
  score, near, vectors, \* the input
  free,                 \* unassigned
  members,              \* of the representatives so far (components)
  clusters              \* the result, a sequence of representatives

input == <<score, near, vectors>>
vars  == <<input, free, members, clusters>>

Pair == {{p, q} : p, q \in Question} \ {{q} : q \in Question}

TypeOK ==
  /\ score \in [Question -> 1..TopScore] /\ near \in SUBSET Pair /\ vectors \in SUBSET Question
  /\ free \in SUBSET Question
  /\ DOMAIN members \in SUBSET Question /\ \A r \in DOMAIN members : members[r] \in SUBSET Question
  /\ clusters = << >> \/ Range(clusters) = DOMAIN members

Init ==
  /\ score \in [Question -> 1..TopScore] /\ near \in SUBSET Pair /\ vectors \in SUBSET Question
  /\ free = Question /\ members = << >> /\ clusters = << >>

Before(p, q) == score[p] > score[q] \/ (score[p] = score[q] /\ p < q)
Best(S) == CHOOSE q \in S : \A p \in S \ {q} : Before(q, p)

Similar(p, q) == {p, q} \subseteq vectors /\ {p, q} \in near

Mut_Joins(q, r, S) == \E p \in S : Similar(p, q)
\* Near the representative; that a member is near does not count.
Joins(q, r, S) == Similar(r, q)

Open(r) ==
  /\ free # {} /\ r = Best(free)
  /\ LET M == {r} \cup {q \in free \ {r} : Joins(q, r, free)}
     IN members' = [x \in DOMAIN members \cup {r} |-> IF x = r THEN M ELSE members[x]]
        /\ free' = free \ M
  /\ UNCHANGED <<input, clusters>>

Size(r) == Cardinality(members[r])
PostCount(r) == Cardinality({Posts[q] : q \in members[r]})

Mut_Ahead(r, s) == Before(r, s)
\* The clusters by their questions, posts and score.
Ahead(r, s) ==
  \/ Size(r) > Size(s)
  \/ /\ Size(r) = Size(s)
     /\ PostCount(r) > PostCount(s) \/ (PostCount(r) = PostCount(s) /\ Before(r, s))

Leading(S, r) == {s \in S : Ahead(s, r)}
Ordered(S) == [k \in 1..Cardinality(S) |-> CHOOSE r \in S : Cardinality(Leading(S, r)) = k - 1]

Finish ==
  /\ free = {} /\ clusters = << >>
  /\ clusters' = Ordered(DOMAIN members)
  /\ UNCHANGED <<input, free, members>>

Next == Finish \/ \E r \in Question : Open(r)

Spec == Init /\ [][Next]_vars

-----------------------------------------------------------------------------
(* Properties.                                                             *)

Representative(q) == CHOOSE r \in DOMAIN members : q \in members[r]

\* What the loop computes, without the loop: a question is a representative
\* unless it is near a better one, and else belongs to the best that it is
\* near ("A~B and B~C cannot pull C into A's cluster when A~C is below
\* threshold").
RepresentativesAnchor ==
  clusters # << >> =>
    \A q \in Question :
      LET better == {r \in DOMAIN members : Before(r, q) /\ Similar(r, q)}
      IN /\ \E r \in DOMAIN members : q \in members[r]
         /\ \A r, s \in DOMAIN members : q \in members[r] \cap members[s] => r = s
         /\ Representative(q) = IF better = {} THEN q ELSE Best(better)

\* A cluster that several posts and questions speak for is not behind one with
\* fewer questions, whatever the scores: the model is shown the first ones.
FrequentFirst ==
  \A i, j \in DOMAIN clusters : i < j => Size(clusters[i]) >= Size(clusters[j])

\* All that _cluster_questions promises of its result.
ClustersAreRight == RepresentativesAnchor /\ FrequentFirst
=============================================================================
