----------------------------- MODULE Aggregator -----------------------------
(***************************************************************************)
(* The summary of one bucket, a company and a position                     *)
(* (aggregator/aggregator.py, aggregate_one).  Runs of the daily job, of   *)
(* Celery and of the command line read the questions page by page, each    *)
(* page in a session of its own, skip when the stored fingerprint is that  *)
(* of their input, ask the model, and write the row in another session.    *)
(* Meanwhile the pipeline adds, removes and rescores questions.            *)
(*                                                                         *)
(* A fingerprint is the input it was computed from.  A text is named by    *)
(* its input and its run.  Clustering is in Clustering.                    *)
(*                                                                         *)
(* Operators named Mut_... are mistakes a developer could make in the      *)
(* definition that follows them; the specification does not use them.      *)
(***************************************************************************)
EXTENDS Integers, Sequences, FiniteSets, SequencesExt

CONSTANTS
  Question,  \* their ids
  TopScore,  \* scores are 1..TopScore; 0 is a question outside the bucket
  Run,
  PageSize, Cap, \* of a page; of the input (top_n)
  None,
  MaxEdits, MaxFaults \* bounds of the model

VARIABLES
  score,            \* the questions of the bucket, by the score of their post
  summary,          \* the stored row
  pc, raw, loaded,  \* a run: its place, its input, the row it is about to change
  edits, faults,
  steady,           \* history: the questions unchanged since a run began
  mixed             \* history: the last write was to a row that had changed since it was read

runs == <<pc, raw, loaded>>
vars == <<score, summary, runs, edits, faults, steady, mixed>>

Place == {"idle", "page", "check", "summarise", "select", "write"}
Entry == Question \X (1..TopScore)
Input == UNION {[1..n -> Entry] : n \in 0..Cap}
Text  == [of : Input, by : Run]
Row   == [content : Text, count : 0..Cap, fingerprint : Input]

TypeOK ==
  /\ score \in [Question -> 0..TopScore] /\ edits \in 0..MaxEdits /\ faults \in 0..MaxFaults
  /\ summary = None \/ summary \in Row
  /\ pc \in [Run -> Place] /\ raw \in [Run -> Input]
  /\ \A r \in Run : loaded[r] = None \/ loaded[r] \in Row
  /\ steady \in [Run -> SUBSET Question] /\ mixed \in BOOLEAN

Init ==
  /\ score \in [Question -> 0..TopScore] /\ summary = None /\ edits = 0 /\ faults = 0
  /\ pc = [r \in Run |-> "idle"] /\ raw = [r \in Run |-> << >>]
  /\ loaded = [r \in Run |-> None]
  /\ steady = [r \in Run |-> {}] /\ mixed = FALSE

-----------------------------------------------------------------------------
(* Reading.                                                                *)

\* The pipeline: a question comes, goes, or its post is scored anew.
Edit(q, s) ==
  /\ edits < MaxEdits /\ edits' = edits + 1 /\ score[q] # s
  /\ score' = [score EXCEPT ![q] = s] /\ steady' = [r \in Run |-> steady[r] \ {q}]
  /\ UNCHANGED <<summary, runs, faults, mixed>>

Goto(r, l) == pc' = [pc EXCEPT ![r] = l]

Bucket == {q \in Question : score[q] > 0}

\* ORDER BY content_score DESC, id DESC.
Before(p, q) == p[2] > q[2] \/ (p[2] = q[2] /\ p[1] > q[1])
Leading(Q, q) == {p \in Q : Before(<<p, score[p]>>, <<q, score[q]>>)}
Ordered(Q) ==
  [k \in 1..Cardinality(Q) |->
     LET q == CHOOSE q \in Q : Cardinality(Leading(Q, q)) = k - 1 IN <<q, score[q]>>]

Start(r) ==
  /\ pc[r] = "idle" /\ Goto(r, "page")
  /\ steady' = [steady EXCEPT ![r] = Bucket]
  /\ UNCHANGED <<score, summary, raw, loaded, edits, faults, mixed>>

Mut_After(q, last) == score[q] < last[2]
\* The keyset: what comes behind the last row of the page before.
After(q, last) == Before(last, <<q, score[q]>>)

Rest(r) == IF raw[r] = << >> THEN Bucket ELSE {q \in Bucket : After(q, Last(raw[r]))}
Limit(r) == IF PageSize < Cap - Len(raw[r]) THEN PageSize ELSE Cap - Len(raw[r])

\* A page, with its own view of the bucket; a short one is the last.
Page(r) ==
  /\ pc[r] = "page"
  /\ LET all  == Ordered(Rest(r))
         page == SubSeq(all, 1, IF Len(all) < Limit(r) THEN Len(all) ELSE Limit(r))
     IN /\ raw' = [raw EXCEPT ![r] = @ \o page]
        /\ Goto(r, IF Len(page) < Limit(r) \/ Len(raw'[r]) = Cap THEN "check" ELSE "page")
  /\ UNCHANGED <<score, summary, loaded, edits, faults, steady, mixed>>

Mut_Cached(r) == summary # None /\ summary.count = Len(raw[r])
\* Only when the complete input is the same: counts cannot tell replaced questions.
Cached(r) == summary # None /\ summary.fingerprint = raw[r]

Close(r) ==
  /\ Goto(r, "idle") /\ raw' = [raw EXCEPT ![r] = << >>] /\ loaded' = [loaded EXCEPT ![r] = None]
  /\ steady' = [steady EXCEPT ![r] = {}]

\* No question at all, or nothing new.
Skip(r) ==
  /\ pc[r] = "check" /\ (raw[r] = << >> \/ Cached(r)) /\ Close(r)
  /\ UNCHANGED <<score, summary, edits, faults, mixed>>

Check(r) ==
  /\ pc[r] = "check" /\ raw[r] # << >> /\ ~Cached(r) /\ Goto(r, "summarise")
  /\ UNCHANGED <<score, summary, raw, loaded, edits, faults, steady, mixed>>

-----------------------------------------------------------------------------
(* Writing.                                                                *)

\* The model answers within its attempts, with questions of the input only.
Summarise(r) ==
  /\ pc[r] = "summarise" /\ Goto(r, "select")
  /\ UNCHANGED <<score, summary, raw, loaded, edits, faults, steady, mixed>>

\* The row is read without a lock ...
Select(r) ==
  /\ pc[r] = "select" /\ Goto(r, "write") /\ loaded' = [loaded EXCEPT ![r] = summary]
  /\ UNCHANGED <<score, summary, raw, edits, faults, steady, mixed>>

Mut_Fingerprint(r) == LET all == Ordered(Bucket) IN SubSeq(all, 1, IF Len(all) < Cap THEN Len(all) ELSE Cap)
\* ... of the questions that were read, not of those that are there now ...
Fingerprint(r) == raw[r]

New(r) == [content |-> [of |-> raw[r], by |-> r], count |-> Len(raw[r]), fingerprint |-> Fingerprint(r)]

\* ... and the columns that differ from what was read are written.
Update(r) ==
  [content     |-> IF New(r).content # loaded[r].content THEN New(r).content ELSE summary.content,
   count       |-> IF New(r).count # loaded[r].count THEN New(r).count ELSE summary.count,
   fingerprint |-> IF New(r).fingerprint # loaded[r].fingerprint THEN New(r).fingerprint
                   ELSE summary.fingerprint]

\* An insert beside another one violates the unique key: an error, which
\* aggregate_all logs.
Insert(r) ==
  /\ pc[r] = "write" /\ loaded[r] = None /\ Close(r)
  /\ IF summary = None THEN summary' = New(r) /\ mixed' = FALSE ELSE UNCHANGED <<summary, mixed>>
  /\ UNCHANGED <<score, edits, faults>>

Write(r) ==
  /\ pc[r] = "write" /\ loaded[r] # None
  /\ summary' = Update(r) /\ mixed' = (summary # loaded[r]) /\ Close(r)
  /\ UNCHANGED <<score, edits, faults>>

\* The provider or the database fails, the output is invalid twice, the
\* process dies: aggregate_all goes on with the other pairs.
Fail(r) ==
  /\ pc[r] # "idle" /\ faults < MaxFaults /\ faults' = faults + 1 /\ Close(r)
  /\ UNCHANGED <<score, summary, edits, mixed>>

-----------------------------------------------------------------------------
Step(r) ==
  \/ Page(r) \/ Skip(r) \/ Check(r) \/ Summarise(r) \/ Select(r) \/ Insert(r) \/ Write(r)

Next ==
  \/ \E r \in Run : Start(r) \/ Step(r) \/ Fail(r)
  \/ \E q \in Question, s \in 0..TopScore : Edit(q, s)

Spec == Init /\ [][Next]_vars

\* A run is started every day, and executes.
Fairness == \A r \in Run : WF_vars(Start(r)) /\ WF_vars(Step(r))

FairSpec == Spec /\ Fairness

-----------------------------------------------------------------------------
(* Properties.                                                             *)

Count(q, s) == Cardinality({i \in DOMAIN s : s[i][1] = q})

\* Although every page sees another state of the bucket, a question that does
\* not change is read exactly once, unless the cap is reached
\* (_fetch_candidate_questions: "Read a bucket in stable pages").
PagesComplete ==
  \A r \in Run : pc[r] \notin {"idle", "page"} =>
    \A q \in steady[r] : Count(q, raw[r]) = 1 \/ (Count(q, raw[r]) = 0 /\ Len(raw[r]) = Cap)

Whole == summary.content.of = summary.fingerprint /\ summary.count = Len(summary.fingerprint)

\* Runs that do not overlap in their writes leave a row of one run: the text,
\* the count and the fingerprint that keeps the next run from writing it anew.
OneInput == summary # None /\ ~mixed => Whole

\* Whatever the writes, the row is of one run (docs/DAY8_AGGREGATOR.md:67,
\* db/models.py:110: "number of source questions used by the summary").
RowOfOneRun == summary # None => Whole

Current == LET all == Ordered(Bucket) IN SubSeq(all, 1, IF Len(all) < Cap THEN Len(all) ELSE Cap)

\* Once the questions rest, the daily runs bring the summary to them; a bucket
\* that has become empty keeps its old summary.
FreshAtLast ==
  <>[](Bucket # {} => summary # None /\ (mixed \/ summary.fingerprint = Current))

\* What aggregate_one promises of a summary: its questions are those of the
\* bucket, and its row is of one input.
SummaryIsOfItsPair == PagesComplete /\ OneInput
=============================================================================
