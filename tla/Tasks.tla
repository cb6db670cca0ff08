-------------------------------- MODULE Tasks --------------------------------
(***************************************************************************)
(* What the Celery workers run: the tasks and their dead letters           *)
(* (DeadLetters), the thread and the loop of a worker (WorkerLoop), the    *)
(* daily job (Daily), the summaries (Aggregator).  The parts share no      *)
(* state: the one that is chosen at the beginning moves, the others rest.  *)
(***************************************************************************)
EXTENDS DeadLetters

CONSTANTS
  Tries,                                   \* WorkerLoop
  Job, NoJob, Lifetime, MaxLosses, MaxStalls, \* Daily
  Question, TopScore, Aggregation, PageSize, Cap, NoRow, MaxEdits, MaxFailures \* Aggregator

ASSUME LoopAssumption == Tries \in Nat

\* The key outlives a missed heartbeat.
ASSUME DailyAssumption ==
  /\ NoJob \notin Job /\ Lifetime \in Nat /\ Lifetime >= 2
  /\ MaxLosses \in Nat /\ MaxStalls \in Nat

VARIABLES
  turn,
  loop_pc, loop_try, loop_queue, loop_future, loop_made, loop_started,
  loop_cleaned, loop_at, loop_givenup, loop_overdue, loop_early,
  daily_owner, daily_left, daily_pc, daily_renewed, daily_cancelled,
  daily_stalled, daily_losses, daily_stalls, daily_astray,
  agg_score, agg_summary, agg_pc, agg_raw, agg_loaded, agg_edits, agg_faults,
  agg_steady, agg_mixed

L == INSTANCE WorkerLoop WITH
  pc <- loop_pc, try <- loop_try, queue <- loop_queue, future <- loop_future,
  made <- loop_made, started <- loop_started, cleaned <- loop_cleaned, at <-
  loop_at, givenup <- loop_givenup, overdue <- loop_overdue, early <-
  loop_early

D == INSTANCE Daily WITH
  owner <- daily_owner, left <- daily_left, pc <- daily_pc, renewed <-
  daily_renewed, cancelled <- daily_cancelled, stalled <- daily_stalled,
  losses <- daily_losses, stalls <- daily_stalls, astray <- daily_astray,
  None <- NoJob

A == INSTANCE Aggregator WITH
  score <- agg_score, summary <- agg_summary, pc <- agg_pc, raw <- agg_raw,
  loaded <- agg_loaded, edits <- agg_edits, faults <- agg_faults, steady <-
  agg_steady, mixed <- agg_mixed,
  None <- NoRow, Run <- Aggregation, MaxFaults <- MaxFailures

\* Ids are numbers; no row is not a row.
ASSUME AggregatorAssumption ==
  /\ IsFiniteSet(Question) /\ Question \subseteq Nat /\ TopScore \in Nat
  /\ PageSize \in Nat \ {0} /\ Cap \in Nat \ {0} /\ NoRow \notin A!Row
  /\ MaxEdits \in Nat /\ MaxFailures \in Nat

loopVars == <<loop_pc, loop_try, loop_queue, loop_future, loop_made,
              loop_started, loop_cleaned, loop_at, loop_givenup, loop_overdue,
              loop_early>>
dailyVars == <<daily_owner, daily_left, daily_pc, daily_renewed,
               daily_cancelled, daily_stalled, daily_losses, daily_stalls,
               daily_astray>>
aggVars == <<agg_score, agg_summary, agg_pc, agg_raw, agg_loaded, agg_edits,
             agg_faults, agg_steady, agg_mixed>>

others == <<loopVars, dailyVars, aggVars>>

TasksInit ==
  /\ turn \in {"letters", "loop", "daily", "aggregator"}
  /\ Init /\ L!Init /\ D!Init /\ A!Init
  /\ turn = "aggregator" \/ agg_score = [q \in Question |-> 0]

TasksNext ==
  /\ UNCHANGED turn
  /\ \/ turn = "letters" /\ Next /\ UNCHANGED others
     \/ turn = "loop" /\ L!Next /\ UNCHANGED <<vars, dailyVars, aggVars>>
     \/ turn = "daily" /\ D!Next /\ UNCHANGED <<vars, loopVars, aggVars>>
     \/ turn = "aggregator" /\ A!Next /\ UNCHANGED <<vars, loopVars, dailyVars>>

\* The fairness of each part, while it is the one that moves.
TasksFairness ==
  /\ \A m \in Message : /\ WF_vars(turn = "letters" /\ Work(m))
                       /\ SF_vars(turn = "letters" /\ Deliver(m))
  /\ WF_loopVars(turn = "loop" /\ L!Thread) /\ WF_loopVars(turn = "loop" /\ L!Timeout)
  /\ WF_loopVars(turn = "loop" /\ \E t \in L!Try : L!Loop(t))
  /\ \A t \in L!Try : WF_loopVars(turn = "loop" /\ L!CleanUp(t))
  /\ WF_dailyVars(turn = "daily" /\ D!Tick)
  /\ \A j \in Job : /\ WF_dailyVars(turn = "daily" /\ D!Heartbeat(j))
                   /\ WF_dailyVars(turn = "daily" /\ D!Run(j))
                   /\ WF_dailyVars(turn = "daily" /\ D!Wake(j))
  /\ \A r \in Aggregation : /\ WF_aggVars(turn = "aggregator" /\ A!Start(r))
                   /\ WF_aggVars(turn = "aggregator" /\ A!Step(r))

TasksSpec == TasksInit /\ [][TasksNext]_<<turn, vars, others>> /\ TasksFairness

-----------------------------------------------------------------------------
(* The properties of the parts.                                            *)

\* The types of the parts.
TasksTypeOK == TypeOK /\ L!TypeOK /\ D!TypeOK /\ A!TypeOK

\* WorkerLoop: a retry does not meet the try before it, and nothing that was
\* given up works on (run_coroutine).
TriesAreKeptApart == L!TriesAreKeptApart

\* Daily: jobs overlap only after a loss or a stall, a lost key is noticed
\* within a heartbeat, and a job takes down its own key only (daily_update).
LockIsHonoured == D!LockIsHonoured

\* Aggregator: the bucket is read completely and the row is of one input
\* (aggregate_one, aggregate_all).
SummaryIsOfItsPair == A!SummaryIsOfItsPair

\* What must happen at last: a task settles or reaches the operator
\* (DeadLetters), every coroutine ends (WorkerLoop), the key of the daily job
\* comes free (Daily), the summary comes up to date (Aggregator).
TasksProgress == TaskSettles /\ L!EveryTryEnds /\ D!KeyComesFree /\ A!FreshAtLast
=============================================================================
