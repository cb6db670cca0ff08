---------------------------- MODULE Attribution ----------------------------
(***************************************************************************)
(* Which company and position a question of a post belongs to              *)
(* (db/attribution.py): the extraction lists interviews, each with its     *)
(* company, position and questions, and the normalizer turns them into     *)
(* rows; question_scope_sql is what every reader filters with.  A new      *)
(* extraction replaces the questions first, and the normalizer follows in  *)
(* another transaction, or fails and is tried again.                       *)
(*                                                                         *)
(* One post.  A question is named by its content, which keeps its row      *)
(* from one extraction to the next; names stand for their canonicals; the  *)
(* row of an interview is named by its place in the extraction.            *)
(*                                                                         *)
(* Operators named Mut_... are mistakes a developer could make in the      *)
(* definition that follows them; the specification does not use them.      *)
(***************************************************************************)
EXTENDS Integers, FiniteSets, Sequences, Functions

CONSTANTS
  Extraction, \* [companies, positions, interviews]; an interview is
              \* [company, position, quoted, questions]
  Question, Company, Position,
  None,
  MaxRuns     \* bound of the model

Naming == Company \cup Position

VARIABLES
  extracted,   \* the stored payload
  rows,        \* the questions
  mode, one,   \* post_attribution: the mode, single company and position
  interviews,  \* interview_experiences: company and position of each row
  owner,       \* question_interviews
  links,       \* post_company_position
  done,        \* the stages up to normalize are complete
  runs

tables == <<mode, one, interviews, owner, links>>
vars   == <<extracted, rows, tables, done, runs>>

TypeOK ==
  /\ extracted \in Extraction \cup {None} /\ rows \in SUBSET Question
  /\ mode \in {"none", "explicit", "legacy_single", "ambiguous"}
  /\ one \in (Company \cup {None}) \X (Position \cup {None})
  /\ DOMAIN interviews \subseteq Nat /\ owner \in SUBSET (Question \X DOMAIN interviews)
  /\ links \in SUBSET (Company \X Position) /\ done \in BOOLEAN /\ runs \in 0..MaxRuns

\* An old post may have links of earlier versions, and no attribution.
Init ==
  /\ extracted = None /\ rows \in SUBSET Question /\ mode = "none" /\ one = <<None, None>>
  /\ interviews = << >> /\ owner = {} /\ links \in SUBSET (Company \X Position)
  /\ done = TRUE /\ runs = 0

-----------------------------------------------------------------------------
\* Rows that are not found again are deleted, with their interviews.
Extract(x) ==
  /\ runs < MaxRuns /\ runs' = runs + 1 /\ extracted' = x
  /\ rows' = UNION {i.questions : i \in Range(x.interviews)}
  /\ owner' = {e \in owner : e[1] \in rows'} /\ done' = FALSE
  /\ UNCHANGED <<mode, one, interviews, links>>

\* A stated name must be one of the post's, and be quoted.
Valid(x, i) ==
  /\ i.quoted /\ i.company \in x.companies \cup {None} /\ i.position \in x.positions \cup {None}

Claims(x, q) == {n \in DOMAIN x.interviews : q \in x.interviews[n].questions}

Mut_Refs(x, i) == i.questions
\* A question that several interviews claim, valid or not, belongs to none.
Refs(x, i) == {q \in i.questions : Cardinality(Claims(x, q)) = 1}

The(S) == IF Cardinality(S) = 1 THEN CHOOSE e \in S : TRUE ELSE None

\* valid: the places of the valid interviews.
Mode(x, valid) ==
  CASE valid # {} -> "explicit"
    [] valid = {} /\ The(x.companies) # None /\ The(x.positions) # None -> "legacy_single"
    [] OTHER -> "ambiguous"

Pairs(x, valid) ==
  {<<x.interviews[n].company, x.interviews[n].position>> :
     n \in {m \in valid : x.interviews[m].company # None /\ x.interviews[m].position # None}}

Mut_Kept == owner
\* The interviews of the extraction before are deleted, and their questions go with them.
Kept == {}

\* An ambiguous post keeps the links that it has.
Links(x, valid) ==
  CASE Mode(x, valid) = "explicit"      -> Pairs(x, valid)
    [] Mode(x, valid) = "legacy_single" -> x.companies \X x.positions
    [] Mode(x, valid) = "ambiguous"     -> links

\* One fenced transaction.
Normalize ==
  /\ ~done /\ done' = TRUE
  /\ LET x     == extracted
         valid == {n \in DOMAIN x.interviews : Valid(x, x.interviews[n])}
     IN /\ mode' = Mode(x, valid) /\ one' = <<The(x.companies), The(x.positions)>>
        /\ interviews' = [n \in valid |-> <<x.interviews[n].company, x.interviews[n].position>>]
        /\ owner' = {e \in Kept : e[2] \in valid}
                      \cup {e \in rows \X valid : e[1] \in Refs(x, x.interviews[e[2]])}
        /\ links' = Links(x, valid)
  /\ UNCHANGED <<extracted, rows, runs>>

Next == Normalize \/ \E x \in Extraction : Extract(x)

Spec == Init /\ [][Next]_vars

-----------------------------------------------------------------------------
(* The filter (question_scope_sql); None where a reader does not ask.      *)

Fits(pair, c, p) == c \in {None, pair[1]} /\ p \in {None, pair[2]}

Firsts(S)  == {e[1] : e \in S}
Seconds(S) == {e[2] : e \in S}

Mut_Scope(q, c, p) ==
  \/ /\ \E e \in owner : e[1] = q /\ Fits(interviews[e[2]], c, None)
     /\ \E e \in owner : e[1] = q /\ Fits(interviews[e[2]], None, p)
  \/ mode \notin {"none", "explicit"} /\ \E e \in links : Fits(e, c, p)

\* One interview must fit both; or the post has one company and one position;
\* or it is of an earlier version, with links of one company and one position.
Scope(q, c, p) ==
  \/ \E e \in owner : e[1] = q /\ Fits(interviews[e[2]], c, p)
  \/ mode \notin {"none", "explicit"} /\ Fits(one, c, p)
  \/ /\ mode = "none"
     /\ c = None \/ Cardinality(Firsts(links)) = 1
     /\ p = None \/ Cardinality(Seconds(links)) = 1
     /\ \E e \in links : Fits(e, c, p)

-----------------------------------------------------------------------------
(* Properties.                                                             *)

\* One interview that states both and is the only one to claim the question,
\* or a post that names nothing else.
Stated(q, c, p) ==
  \/ \E i \in Range(extracted.interviews) :
       /\ q \in i.questions /\ i.company = c /\ i.position = p /\ i.quoted
       /\ Cardinality(Claims(extracted, q)) = 1
  \/ extracted.companies = {c} /\ extracted.positions = {p}

\* Readers find a question under a company and a position only if the last
\* extraction states it, whatever the post's other interviews and the
\* extractions before say ("never inherit unrelated post tags").
NoCrossProduct ==
  done /\ extracted # None =>
    \A q \in rows, c \in Company, p \in Position : Scope(q, c, p) => Stated(q, c, p)

\* Nor does a question get under two companies at once.
OneCompany ==
  done => \A q \in rows, c, d \in Company : Scope(q, c, None) /\ Scope(q, d, None) => c = d

\* All that question_scope_sql promises of a question and its company.
QuestionsKeepTheirInterview == NoCrossProduct /\ OneCompany
=============================================================================
