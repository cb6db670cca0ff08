------------------------------ MODULE Content ------------------------------
(***************************************************************************)
(* What becomes of an extraction: the canonicals of its names (Resolver),  *)
(* the interviews its questions belong to (Attribution), its position      *)
(* profiles (Profiles), the clusters of its questions (Clustering).  The   *)
(* parts share no state: the one that is chosen at the beginning moves,    *)
(* the others rest.                                                        *)
(***************************************************************************)
EXTENDS Resolver, Sequences

CONSTANTS
  Question, Posts, TopScore,                             \* Clustering
  Text, Label, Editor, MaxWrites,                        \* Profiles
  Extraction, PostQuestion, Company, Position, MaxRuns   \* Attribution

ASSUME ClusteringAssumption ==
  /\ Question \subseteq Nat /\ IsFiniteSet(Question) /\ TopScore \in Nat \ {0}

Interview ==
  [company : Company \cup {None}, position : Position \cup {None},
   quoted : BOOLEAN, questions : SUBSET PostQuestion]

ASSUME AttributionAssumption ==
  /\ None \notin Extraction /\ None \notin Company /\ None \notin Position
  /\ IsFiniteSet(Company) /\ IsFiniteSet(Position) /\ MaxRuns \in Nat
  /\ \A x \in Extraction :
       /\ x.companies \subseteq Company /\ x.positions \subseteq Position
       /\ x.interviews \in Seq(Interview)

VARIABLES
  turn,
  clu_score, clu_near, clu_vectors, clu_free, clu_members, clu_clusters,
  pro_text, pro_profiles, pro_lock, pro_pc, pro_seen, pro_exported,
  pro_preview, pro_reading, pro_compared, pro_writes,
  att_extracted, att_rows, att_mode, att_one, att_interviews, att_owner,
  att_links, att_done, att_runs

C == INSTANCE Clustering WITH
  score <- clu_score, near <- clu_near, vectors <- clu_vectors, free <-
  clu_free, members <- clu_members, clusters <- clu_clusters

P == INSTANCE Profiles WITH
  text <- pro_text, profiles <- pro_profiles, lock <- pro_lock, pc <- pro_pc,
  seen <- pro_seen, exported <- pro_exported, preview <- pro_preview, reading
  <- pro_reading, compared <- pro_compared, writes <- pro_writes

ASSUME ProfilesAssumption ==
  /\ None \notin P!Row
  /\ None \notin Text /\ None \notin Label /\ None \notin Editor
  /\ Text # {} /\ MaxWrites \in Nat

A == INSTANCE Attribution WITH
  Question <- PostQuestion, extracted <- att_extracted, rows <- att_rows, mode
  <- att_mode, one <- att_one, interviews <- att_interviews, owner <-
  att_owner, links <- att_links, done <- att_done, runs <- att_runs

cluVars == <<clu_score, clu_near, clu_vectors, clu_free, clu_members,
             clu_clusters>>
proVars == <<pro_text, pro_profiles, pro_lock, pro_pc, pro_seen, pro_exported,
             pro_preview, pro_reading, pro_compared, pro_writes>>
attVars == <<att_extracted, att_rows, att_mode, att_one, att_interviews,
             att_owner, att_links, att_done, att_runs>>

others == <<cluVars, proVars, attVars>>

ContentInit ==
  /\ turn \in {"resolver", "clustering", "profiles", "attribution"}
  /\ turn = "resolver" \/ canonical = {}
  /\ turn = "clustering" \/ (clu_score = [q \in Question |-> 1] /\ clu_near = {} /\ clu_vectors = {})
  /\ turn = "profiles" \/ pro_text = CHOOSE t \in Text : TRUE
  /\ turn = "attribution" \/ (att_rows = {} /\ att_links = {})
  /\ Init /\ C!Init /\ P!Init /\ A!Init

\* Clustering and attribution come to their end.
ContentNext ==
  /\ UNCHANGED turn
  /\ \/ turn = "resolver" /\ Next /\ UNCHANGED others
     \/ turn = "clustering" /\ C!Next /\ UNCHANGED <<vars, proVars, attVars>>
     \/ turn = "profiles" /\ P!Next /\ UNCHANGED <<vars, cluVars, attVars>>
     \/ turn = "attribution" /\ A!Next /\ UNCHANGED <<vars, cluVars, proVars>>
     \/ turn \in {"clustering", "attribution"} /\ UNCHANGED <<vars, others>>

ContentSpec == ContentInit /\ [][ContentNext]_<<turn, vars, others>>

-----------------------------------------------------------------------------
(* The properties of the parts.                                            *)

\* The types of the parts.
ContentTypeOK == TypeOK /\ C!TypeOK /\ P!TypeOK /\ A!TypeOK

\* Clustering: the clusters are those of the declarative definition, the
\* largest first (_cluster_questions).
ClustersAreRight == C!ClustersAreRight

\* Profiles: a review is of its text or marked, and nothing but a person who
\* has seen it replaces it (save_profiles, correct_positions, import_reviews).
ReviewsAreRespected == P!ReviewsAreRespected

\* Attribution: no question inherits unrelated tags of its post
\* (save_attribution, question_scope_sql).
QuestionsKeepTheirInterview == A!QuestionsKeepTheirInterview
=============================================================================
