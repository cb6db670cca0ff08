---------------------------- MODULE DeadLetters ----------------------------
(***************************************************************************)
(* The Celery tasks of tasks/pipeline.py, their retries, and the list in   *)
(* Redis where failed tasks wait for an operator (il dlq).                 *)
(*                                                                         *)
(* Celery acknowledges a message late: after the task, or never, and then  *)
(* delivers it again.  The lists are counted by task.                      *)
(*                                                                         *)
(* Operators named Mut_... are mistakes a developer could make in the      *)
(* definition that follows them; the specification does not use them.      *)
(***************************************************************************)
EXTENDS Integers, FiniteSets

CONSTANTS
  Task,        \* what is asked for: a url to crawl, a pair to aggregate
  Message,     \* identities of messages; those of finished ones are used again
  Workers,     \* the number of Celery worker processes
  Replayer,    \* runs of dlq_drain
  MaxRetries,  \* of a task
  NoTask,
  MaxFaults, MaxDrains \* bounds of the model

ASSUME DeadLettersAssumption ==
  /\ IsFiniteSet(Message) /\ IsFiniteSet(Replayer) /\ NoTask \notin Task
  /\ Workers \in Nat /\ MaxRetries \in Nat /\ MaxFaults \in Nat /\ MaxDrains \in Nat

VARIABLES
  requested, succeeded, given_up, \* history: asked for, once done, lost or cleared
  at, task, tries,  \* the messages: where, for which task, after how many retries
  dlq, processing,  \* il:dlq:<task name> and il:dlq:<task name>:processing
  pushed,           \* history: how often a task was put on the list
  rpc, replayed,    \* the replayers
  faults, drains

messages == <<at, task, tries>>
lists    == <<dlq, processing>>
replay   == <<rpc, replayed, drains>>
history  == <<requested, succeeded, given_up, pushed>>
vars     == <<history, messages, lists, replay, faults>>

\* Where a message is: nowhere, with the broker, or with a worker that runs
\* it, publishes its retry, pushes it on the list, or acknowledges it.
AtWorker == {"running", "retry", "push", "ack"}

TypeOK ==
  /\ requested \in SUBSET Task /\ succeeded \in SUBSET Task /\ given_up \in SUBSET Task
  /\ at \in [Message -> {"free", "queued"} \cup AtWorker]
  /\ task \in [Message -> Task \cup {NoTask}] /\ tries \in [Message -> 0..MaxRetries]
  /\ dlq \in [Task -> Nat] /\ processing \in [Task -> Nat] /\ pushed \in [Task -> Nat]
  /\ rpc \in [Replayer -> {"idle", "publish", "remove", "restore"}]
  /\ replayed \in [Replayer -> Task \cup {NoTask}]
  /\ faults \in 0..MaxFaults /\ drains \in 0..MaxDrains

Init ==
  /\ requested = {} /\ succeeded = {} /\ given_up = {}
  /\ at = [m \in Message |-> "free"] /\ task = [m \in Message |-> NoTask]
  /\ tries = [m \in Message |-> 0]
  /\ dlq = [t \in Task |-> 0] /\ processing = [t \in Task |-> 0]
  /\ pushed = [t \in Task |-> 0]
  /\ rpc = [r \in Replayer |-> "idle"] /\ replayed = [r \in Replayer |-> NoTask]
  /\ faults = 0 /\ drains = 0

-----------------------------------------------------------------------------
(* The broker and the workers.                                             *)

Fault == faults < MaxFaults /\ faults' = faults + 1

Goto(m, l) == at' = [at EXCEPT ![m] = l]

Drop(m) ==
  /\ Goto(m, "free")
  /\ task' = [task EXCEPT ![m] = NoTask] /\ tries' = [tries EXCEPT ![m] = 0]

\* A message is given to the broker; places are those of the other messages.
Publish(t, k, places) ==
  LET m == CHOOSE f \in Message : at[f] = "free" IN
  /\ \E f \in Message : at[f] = "free"
  /\ at' = [places EXCEPT ![m] = "queued"]
  /\ task' = [task EXCEPT ![m] = t] /\ tries' = [tries EXCEPT ![m] = k]

\* enqueue_listing, il crawl, il aggregate.
Request(t) ==
  /\ t \notin requested /\ requested' = requested \cup {t} /\ Publish(t, 0, at)
  /\ UNCHANGED <<succeeded, given_up, pushed, lists, replay, faults>>

Busy == {m \in Message : at[m] \in AtWorker}

\* One message at a time for a worker (worker_prefetch_multiplier is 1).
Deliver(m) ==
  /\ at[m] = "queued" /\ Cardinality(Busy) < Workers /\ Goto(m, "running")
  /\ UNCHANGED <<history, task, tries, lists, replay, faults>>

Succeed(m) ==
  /\ at[m] = "running" /\ Goto(m, "ack") /\ succeeded' = succeeded \cup {task[m]}
  /\ UNCHANGED <<requested, given_up, pushed, task, tries, lists, replay, faults>>

Mut_LastTry(m) == tries[m] > MaxRetries
LastTry(m) == tries[m] >= MaxRetries

\* An exception, a timeout of the coroutine or the soft time limit: the
\* handler pushes on the last try; Celery retries on the others, and ends the
\* task on the last.
Fails(m) ==
  /\ at[m] = "running"
  /\ Goto(m, IF LastTry(m) THEN "push" ELSE IF tries[m] < MaxRetries THEN "retry" ELSE "ack")
  /\ UNCHANGED <<history, task, tries, lists, replay, faults>>

\* If the list cannot be reached, the failure is only logged.
Push(m) ==
  /\ at[m] = "push" /\ Goto(m, "ack")
  /\ \/ /\ dlq' = [dlq EXCEPT ![task[m]] = @ + 1] /\ pushed' = [pushed EXCEPT ![task[m]] = @ + 1]
        /\ UNCHANGED <<given_up, faults>>
     \/ Fault /\ given_up' = given_up \cup {task[m]} /\ UNCHANGED <<dlq, pushed>>
  /\ UNCHANGED <<requested, succeeded, task, tries, processing, replay>>

\* A retry is a new message, before the old one is acknowledged.  Celery
\* rejects a task that it cannot publish again.
Retry(m) ==
  /\ at[m] = "retry"
  /\ \/ Publish(task[m], tries[m] + 1, [at EXCEPT ![m] = "ack"]) /\ UNCHANGED <<given_up, faults>>
     \/ Fault /\ Drop(m) /\ given_up' = given_up \cup {task[m]}
  /\ UNCHANGED <<requested, succeeded, pushed, lists, replay>>

Ack(m) ==
  /\ at[m] = "ack" /\ Drop(m)
  /\ UNCHANGED <<history, lists, replay, faults>>

\* The worker is lost, at any place: the message is delivered again.
WorkerLost(m) ==
  /\ at[m] \in AtWorker /\ Fault /\ Goto(m, "queued")
  /\ UNCHANGED <<history, task, tries, lists, replay>>

\* The hard time limit kills the worker, and Celery acknowledges the message.
HardTimeLimit(m) ==
  /\ at[m] \in AtWorker /\ Fault /\ Drop(m) /\ given_up' = given_up \cup {task[m]}
  /\ UNCHANGED <<requested, succeeded, pushed, lists, replay>>

-----------------------------------------------------------------------------
(* The operator: dlq_drain, dlq_restore and dlq_clear.                     *)

RGoto(r, l) == rpc' = [rpc EXCEPT ![r] = l]
REnd(r)     == RGoto(r, "idle") /\ replayed' = [replayed EXCEPT ![r] = NoTask]

Mut_Kept(t) == processing[t]
\* LMOVE keeps the item on the list of those in processing.
Kept(t) == processing[t] + 1

DrainTake(r, t) ==
  /\ rpc[r] = "idle" /\ dlq[t] > 0 /\ drains < MaxDrains
  /\ drains' = drains + 1
  /\ dlq' = [dlq EXCEPT ![t] = @ - 1] /\ processing' = [processing EXCEPT ![t] = Kept(t)]
  /\ RGoto(r, "publish") /\ replayed' = [replayed EXCEPT ![r] = t]
  /\ UNCHANGED <<history, messages, faults>>

\* delay() may fail before, or after, the broker has the message.
DrainPublish(r) ==
  /\ rpc[r] = "publish"
  /\ \/ RGoto(r, "remove") /\ Publish(replayed[r], 0, at) /\ UNCHANGED faults
     \/ RGoto(r, "restore") /\ Fault /\ (UNCHANGED messages \/ Publish(replayed[r], 0, at))
  /\ UNCHANGED <<history, lists, replayed, drains>>

Mut_Finds(t) == BOOLEAN
\* What LREM may answer: it finds the item unless dlq_restore has moved it.
\* It compares the whole item, so that another one of the task need not do.
Finds(t) == {FALSE, processing[t] > 0}

Mut_PutBack(found) == TRUE
\* The restoring script pushes only what it could remove.
PutBack(found) == found

DrainEnd(r) ==
  /\ rpc[r] \in {"remove", "restore"}
  /\ LET t == replayed[r] IN
     \E found \in Finds(t) :
       /\ processing' = [processing EXCEPT ![t] = IF found THEN @ - 1 ELSE @]
       /\ dlq' = [dlq EXCEPT ![t] = IF rpc[r] = "restore" /\ PutBack(found) THEN @ + 1 ELSE @]
  /\ REnd(r)
  /\ UNCHANGED <<history, messages, drains, faults>>

\* The replaying process dies, or Redis fails when it cleans up.
DrainCrash(r) ==
  /\ rpc[r] # "idle" /\ Fault /\ REnd(r)
  /\ UNCHANGED <<history, messages, lists, drains>>

\* il dlq restore: asked for when no replay runs, but nothing enforces it.
Restore(t) ==
  /\ processing[t] > 0
  /\ processing' = [processing EXCEPT ![t] = @ - 1] /\ dlq' = [dlq EXCEPT ![t] = @ + 1]
  /\ UNCHANGED <<history, messages, replay, faults>>

Clear ==
  /\ Fault /\ dlq' = [t \in Task |-> 0]
  /\ given_up' = given_up \cup {t \in Task : dlq[t] > 0}
  /\ UNCHANGED <<requested, succeeded, pushed, messages, processing, replay>>

-----------------------------------------------------------------------------
Work(m) == Succeed(m) \/ Fails(m) \/ Push(m) \/ Retry(m) \/ Ack(m)
Lose(m) == WorkerLost(m) \/ HardTimeLimit(m)

Next ==
  \/ \E t \in Task : Request(t) \/ Restore(t)
  \/ \E m \in Message : Deliver(m) \/ Work(m) \/ Lose(m)
  \/ \E r \in Replayer : \/ \E t \in Task : DrainTake(r, t)
                         \/ DrainPublish(r) \/ DrainEnd(r) \/ DrainCrash(r)
  \/ Clear

Spec == Init /\ [][Next]_vars

\* Workers go on; a message is delivered at last, though others arrive.
Fairness == \A m \in Message : WF_vars(Work(m)) /\ SF_vars(Deliver(m))

FairSpec == Spec /\ Fairness

-----------------------------------------------------------------------------
(* Properties.                                                             *)

\* Messages from which an execution of the task is still to come.
Live(t) == {m \in Message : task[m] = t /\ at[m] \in {"queued", "running", "retry", "push"}}
Listed(t) == dlq[t] > 0 \/ processing[t] > 0
Settled(t) == t \in succeeded \cup given_up

\* A task that was asked for and has not succeeded is with the broker, with a
\* worker, or on a list of the operator, whatever crashes and however drains,
\* restores and executions interleave (crawl_url, dlq_drain, dlq_restore).
\* Given up are those whose loss the code accepts: a failed push is logged.
NothingForgotten == \A t \in requested : Settled(t) \/ Live(t) # {} \/ Listed(t)

\* Replaying and restoring never multiply the failures of a task: the lists
\* hold at most as many items as were pushed (the script of dlq_drain).
NoExtraCopies == \A t \in Task : dlq[t] + processing[t] <= pushed[t]

\* A task that is asked for succeeds at last, or reaches the operator
\* (max_retries and _dlq_push of crawl_url and aggregate_pair).
TaskSettles == \A t \in Task : []<>(t \in requested => Settled(t) \/ Listed(t))
=============================================================================
