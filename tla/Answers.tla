------------------------------ MODULE Answers ------------------------------
(***************************************************************************)
(* The answers of the questions: the offline answerer (answerer.py) and    *)
(* the requests of the admin page (api/routes_bridge.py), which generate   *)
(* answers with the model, against the extraction, which changes and       *)
(* removes questions (replace_questions).                                  *)
(*                                                                         *)
(* The text of a question stays while its row stays, and what an answer    *)
(* says is left out.  The input lock of the model is that of LLMBudget;    *)
(* its other limits refuse a call at any time.  A call is shorter than its *)
(* lock, which LLMBudget examines.                                         *)
(*                                                                         *)
(* Operators named Mut_... are mistakes a developer could make in the      *)
(* definition that follows them; the specification does not use them.      *)
(***************************************************************************)
EXTENDS Integers, FiniteSets

CONSTANTS
  Question, Category,
  Run,          \* offline runs (run_answers)
  Request,      \* admin requests (generate_answers)
  Regenerating, \* those that were told to generate anew
  Concurrency,  \* of a run
  NoTask,
  MaxEdits, MaxFaults \* bounds of the model

Job == Run \cup Request

VARIABLES
  stored, ready,    \* rows; those whose post is done and has all its stages
  worthy,           \* those whose post has the score a run asks for
  category,
  answered, fresh,  \* those with an answer; with one of the current prompt
  cached, inflight, \* Redis: answers and input locks, by question and category
  task,             \* a job's work on a question, and what it has read of it
  edits, faults

rows == <<stored, ready, worthy, category, answered, fresh>>
vars == <<rows, cached, inflight, task, edits, faults>>

Place == {"wait", "ask", "call", "cache", "write"}
Task  == [at : Place, category : Category, reuse : BOOLEAN]

TypeOK ==
  /\ stored \in SUBSET Question /\ ready \in SUBSET stored /\ worthy \in SUBSET Question
  /\ category \in [Question -> Category]
  /\ answered \in SUBSET Question /\ fresh \in SUBSET answered
  /\ cached \in SUBSET (Question \X Category) /\ inflight \in SUBSET (Question \X Category)
  /\ task \in [Job -> [Question -> Task \cup {NoTask}]]
  /\ edits \in 0..MaxEdits /\ faults \in 0..MaxFaults

\* Questions without an answer, or with one of an older prompt.
Init ==
  /\ stored = Question /\ ready = Question /\ worthy = Question
  /\ category \in [Question -> Category] /\ answered \in SUBSET Question /\ fresh = {}
  /\ cached = {} /\ inflight = {} /\ task = [j \in Job |-> [q \in Question |-> NoTask]]
  /\ edits = 0 /\ faults = 0

Fault == faults < MaxFaults /\ faults' = faults + 1
Edit  == edits < MaxEdits /\ edits' = edits + 1

-----------------------------------------------------------------------------
(* The extraction.  A question that is found again keeps its row and its   *)
(* answer, and takes the new category; the others are removed.             *)

Extract(q, c) ==
  /\ Edit /\ q \in stored
  /\ category' = [category EXCEPT ![q] = c] /\ ready' = ready \ {q}
  /\ UNCHANGED <<stored, worthy, answered, fresh, cached, inflight, task, faults>>

Remove(q) ==
  /\ Edit /\ q \in stored /\ stored' = stored \ {q} /\ ready' = ready \ {q}
  /\ UNCHANGED <<worthy, category, answered, fresh, cached, inflight, task, faults>>

\* The post is scored, with the extraction or by hand.
Score(q) ==
  /\ Edit /\ q \in stored /\ worthy' \in {worthy \cup {q}, worthy \ {q}}
  /\ UNCHANGED <<stored, ready, category, answered, fresh, cached, inflight, task, faults>>

Index(q) ==
  /\ q \in stored \ ready /\ ready' = ready \cup {q}
  /\ UNCHANGED <<stored, worthy, category, answered, fresh, cached, inflight, task, edits, faults>>

-----------------------------------------------------------------------------
(* The jobs.                                                               *)

At(j, q, l)  == task[j][q] # NoTask /\ task[j][q].at = l
Working(j)   == {q \in Question : task[j][q] # NoTask /\ ~At(j, q, "wait")}
Idle(j)      == \A q \in Question : task[j][q] = NoTask
Slots(j)     == IF j \in Run THEN Concurrency ELSE 1
Input(j, q)  == <<q, task[j][q].category>>

Goto(j, q, l) == task' = [task EXCEPT ![j][q] = [@ EXCEPT !.at = l]]
Ends(j, q)    == task' = [task EXCEPT ![j][q] = NoTask]

Mut_Needs(q) == q \notin answered
Needs(q) == q \notin answered \/ q \notin fresh

\* A post that stays pending, or whose score is low, gets no answers from a run.
Eligible(q) == q \in stored \cap ready \cap worthy

\* _fetch_targets of a run; the questions of a request, in one read.
Fetch(j, S) ==
  /\ Idle(j) /\ S # {}
  /\ IF j \in Run THEN S = {q \in Question : Eligible(q) /\ (j \in Regenerating \/ Needs(q))}
     ELSE S \subseteq stored
  /\ task' = [task EXCEPT ![j] = [q \in Question |->
       IF q \in S THEN [at |-> "wait", category |-> category[q],
                        reuse |-> j \in Request \ Regenerating /\ q \in fresh]
       ELSE NoTask]]
  /\ UNCHANGED <<rows, cached, inflight, edits, faults>>

\* A slot is free: a request may use the answer that it has read; else the
\* cache is asked, unless the job generates anew.
Start(j, q) ==
  /\ At(j, q, "wait") /\ Cardinality(Working(j)) < Slots(j)
  /\ Goto(j, q, IF task[j][q].reuse \/ (j \notin Regenerating /\ Input(j, q) \in cached)
                THEN "write" ELSE "ask")
  /\ UNCHANGED <<rows, cached, inflight, edits, faults>>

\* guarded_create takes the input's lock, or refuses.
Acquire(j, q) ==
  /\ At(j, q, "ask") /\ Input(j, q) \notin inflight
  /\ inflight' = inflight \cup {Input(j, q)} /\ Goto(j, q, "call")
  /\ UNCHANGED <<rows, cached, edits, faults>>

\* The error ends the job; other tasks of a run may go on until they are
\* cancelled, or to their end.
Refuse(j, q) ==
  /\ At(j, q, "ask")
  /\ \/ Input(j, q) \in inflight /\ UNCHANGED faults
     \/ Fault
  /\ \E S \in SUBSET (Question \ {q}) :
       /\ j \in Request => S = {}
       /\ task' = [task EXCEPT ![j] = [p \in Question |-> IF p \in S THEN @[p] ELSE NoTask]]
  /\ UNCHANGED <<rows, cached, inflight, edits>>

\* The provider fails, or its answer is empty or cut off.
CallFails(j, q) ==
  /\ At(j, q, "call") /\ Fault /\ Ends(j, q)
  /\ inflight' = inflight \ {Input(j, q)}
  /\ UNCHANGED <<rows, cached, edits>>

\* The answer has come, and guarded_create gives the lock back.
Pay(j, q) ==
  /\ At(j, q, "call") /\ inflight' = inflight \ {Input(j, q)} /\ Goto(j, q, "cache")
  /\ UNCHANGED <<rows, cached, edits, faults>>

CacheSet(j, q) ==
  /\ At(j, q, "cache") /\ Goto(j, q, "write")
  /\ \/ cached' = cached \cup {Input(j, q)} /\ UNCHANGED faults
     \/ Fault /\ UNCHANGED cached
  /\ UNCHANGED <<rows, inflight, edits>>

\* A run writes by id; a request only if the category is the one it has read.
Applies(j, q) == q \in stored /\ (j \in Request => category[q] = task[j][q].category)

Write(j, q) ==
  /\ At(j, q, "write") /\ Ends(j, q)
  /\ \/ /\ Applies(j, q) /\ UNCHANGED faults
        /\ answered' = answered \cup {q} /\ fresh' = fresh \cup {q}
     \/ ~Applies(j, q) /\ UNCHANGED <<answered, fresh, faults>>
     \/ Fault /\ UNCHANGED <<answered, fresh>>
  /\ UNCHANGED <<stored, ready, worthy, category, cached, inflight, edits>>

\* An entry expires, or cannot be read.
Forget(i) ==
  /\ Fault /\ i \in cached /\ cached' = cached \ {i}
  /\ UNCHANGED <<rows, inflight, task, edits>>

\* The process ends; the locks that it held lapse by themselves.
Crash(j) ==
  /\ ~Idle(j) /\ Fault /\ task' = [task EXCEPT ![j] = [q \in Question |-> NoTask]]
  /\ UNCHANGED <<rows, cached, inflight, edits>>

Holders(i) ==
  {j \in Job : At(j, i[1], "call") /\ Input(j, i[1]) = i}

Lapse(i) ==
  /\ i \in inflight /\ Holders(i) = {} /\ inflight' = inflight \ {i}
  /\ UNCHANGED <<rows, cached, task, edits, faults>>

-----------------------------------------------------------------------------
Answer(j, q) ==
  \/ Acquire(j, q) \/ Refuse(j, q)
  \/ Pay(j, q) \/ CallFails(j, q) \/ CacheSet(j, q) \/ Write(j, q)

FetchAny(j) == \E S \in SUBSET Question : Fetch(j, S)

Next ==
  \/ \E q \in Question : Remove(q) \/ Index(q) \/ Score(q) \/ \E c \in Category : Extract(q, c)
  \/ \E j \in Job : \/ FetchAny(j)
                    \/ \E q \in Question : Start(j, q) \/ Answer(j, q)
                    \/ Crash(j)
  \/ \E i \in Question \X Category : Lapse(i) \/ Forget(i)

Spec == Init /\ [][Next]_vars

\* The daily job runs again and again; a task that may start does so at last, and
\* goes on; the locks of the dead lapse.  Nothing makes a question eligible.
Fairness ==
  /\ \A j \in Run \ Regenerating : WF_vars(FetchAny(j))
  /\ \A j \in Run, q \in Question : WF_vars(Start(j, q))
  /\ \A j \in Job, q \in Question : WF_vars(Answer(j, q))
  /\ \A i \in Question \X Category : WF_vars(Lapse(i))

FairSpec == Spec /\ Fairness

-----------------------------------------------------------------------------
(* Properties.                                                             *)

\* A question that stays eligible is answered at last with the current prompt,
\* whatever requests, extractions, refused reservations, failures and deaths get
\* in the way of its runs (_fetch_targets, run_answers).
Current(q) == Eligible(q) => q \in fresh

Answered == \A q \in Question : []<>Current(q)
=============================================================================
