----------------------------- MODULE TasksProofs -----------------------------
(***************************************************************************)
(* What TLAPS proves about Tasks: the dead letters for any tasks,          *)
(* messages, workers and replays, the worker loop for any number of tries, *)
(* the daily job for any jobs, and the summaries for any bucket.           *)
(***************************************************************************)
EXTENDS Tasks, Sequences, SumsAndRanks, TLAPS

-----------------------------------------------------------------------------
(* DeadLetters, for any tasks, messages, workers, replays, retries and       *)
(* faults.                                                                   *)

\* Who is busy knows with what; only a task with tries left is retried.
OwnedInv ==
  /\ \A m \in Message : at[m] # "free" => task[m] \in Task
  /\ \A m \in Message : at[m] = "retry" => tries[m] < MaxRetries
  /\ \A r \in Replayer : rpc[r] # "idle" => replayed[r] \in Task

\* Replays that have published the task, and have yet to remove an item.
Removers(t) == {r \in Replayer : rpc[r] = "remove" /\ replayed[r] = t}

\* The executions to come and the items listed, less the removals to come.
Balance(t) == Cardinality(Live(t)) + dlq[t] + processing[t] - Cardinality(Removers(t))

\* The balance of a task that was asked for and has not settled is positive.
Covered(t) == Settled(t) \/ Balance(t) >= IF t \in requested THEN 1 ELSE 0
CountInv == \A t \in Task : Covered(t)

IInv == TypeOK /\ OwnedInv /\ CountInv

LEMMA Sizes ==
  ASSUME NEW t
  PROVE  /\ IsFiniteSet(Live(t)) /\ Cardinality(Live(t)) \in Nat
         /\ IsFiniteSet(Removers(t)) /\ Cardinality(Removers(t)) \in Nat
<1>1. Live(t) \in SUBSET Message /\ Removers(t) \in SUBSET Replayer
  BY DEF Live, Removers
<1>2. IsFiniteSet(Live(t)) /\ IsFiniteSet(Removers(t))
  BY <1>1, FS_Subset, DeadLettersAssumption
<1>3. QED
  BY <1>2, FS_CardinalityType

LEMMA InitIInv == Init => IInv
<1> SUFFICES ASSUME Init PROVE IInv
  OBVIOUS
<1>1. TypeOK
  BY DeadLettersAssumption DEF Init, TypeOK, AtWorker
<1>2. OwnedInv
  BY DEF Init, OwnedInv
<1>c. CountInv
  <2> SUFFICES ASSUME NEW t \in Task PROVE Covered(t)
    BY DEF CountInv
  <2>1. Live(t) = {} /\ Removers(t) = {} /\ t \notin requested
    BY DEF Init, Live, Removers
  <2>2. Cardinality(Live(t)) = 0 /\ Cardinality(Removers(t)) = 0
    BY <2>1, FS_EmptySet
  <2>3. dlq[t] = 0 /\ processing[t] = 0
    BY DEF Init
  <2>4. QED
    BY <2>1, <2>2, <2>3 DEF Covered, Balance
<1>3. QED
  BY <1>1, <1>2, <1>c DEF IInv

-----------------------------------------------------------------------------
(* Types.                                                                  *)

LEMMA PublishTypes ==
  ASSUME TypeOK, OwnedInv, NEW t \in Task, NEW k \in 0..MaxRetries,
         NEW places \in [Message -> {"free", "queued"} \cup AtWorker],
         \A n \in Message : places[n] # "free" <=> at[n] # "free",
         \A n \in Message : places[n] = "retry" => at[n] = "retry",
         Publish(t, k, places)
  PROVE  /\ at' \in [Message -> {"free", "queued"} \cup AtWorker]
         /\ task' \in [Message -> Task \cup {NoTask}] /\ tries' \in [Message -> 0..MaxRetries]
         /\ \A n \in Message : at'[n] # "free" => task'[n] \in Task
         /\ \A n \in Message : at'[n] = "retry" => tries'[n] < MaxRetries
<1> DEFINE m == CHOOSE f \in Message : at[f] = "free"
<1>1. m \in Message /\ at[m] = "free"
  BY DEF Publish
<1>2. /\ at' = [places EXCEPT ![m] = "queued"] /\ task' = [task EXCEPT ![m] = t]
      /\ tries' = [tries EXCEPT ![m] = k]
  BY DEF Publish
<1> HIDE DEF m
<1>3. QED
  BY <1>1, <1>2 DEF TypeOK, OwnedInv, AtWorker

LEMMA DropTypes ==
  ASSUME TypeOK, OwnedInv, NEW m \in Message, Drop(m)
  PROVE  /\ at' \in [Message -> {"free", "queued"} \cup AtWorker]
         /\ task' \in [Message -> Task \cup {NoTask}] /\ tries' \in [Message -> 0..MaxRetries]
         /\ \A n \in Message : at'[n] # "free" => task'[n] \in Task
         /\ \A n \in Message : at'[n] = "retry" => tries'[n] < MaxRetries
BY DeadLettersAssumption DEF Drop, Goto, TypeOK, OwnedInv, AtWorker

LEMMA FaultType == ASSUME TypeOK, Fault PROVE faults' \in 0..MaxFaults
BY DeadLettersAssumption DEF Fault, TypeOK

LEMMA Types == TypeOK /\ OwnedInv /\ [Next]_vars => TypeOK' /\ OwnedInv'
<1> SUFFICES ASSUME TypeOK, OwnedInv, [Next]_vars PROVE TypeOK' /\ OwnedInv'
  OBVIOUS
<1> USE DeadLettersAssumption
<1>1. ASSUME NEW t \in Task, Request(t) PROVE TypeOK' /\ OwnedInv'
  <2>1. Publish(t, 0, at) /\ requested' = requested \cup {t}
        /\ UNCHANGED <<succeeded, given_up, pushed, lists, replay, faults>>
    BY <1>1 DEF Request
  <2>2. QED
    BY <2>1, PublishTypes DEF TypeOK, OwnedInv, lists, replay
<1>2. ASSUME NEW t \in Task, Restore(t) PROVE TypeOK' /\ OwnedInv'
  BY <1>2 DEF Restore, TypeOK, OwnedInv, history, messages, replay
<1>3. ASSUME NEW m \in Message, Deliver(m) PROVE TypeOK' /\ OwnedInv'
  BY <1>3 DEF Deliver, Goto, TypeOK, OwnedInv, AtWorker, history, lists, replay
<1>4. ASSUME NEW m \in Message, Succeed(m) PROVE TypeOK' /\ OwnedInv'
  BY <1>4 DEF Succeed, Goto, TypeOK, OwnedInv, AtWorker, lists, replay
<1>5. ASSUME NEW m \in Message, Fails(m) PROVE TypeOK' /\ OwnedInv'
  BY <1>5 DEF Fails, LastTry, Goto, TypeOK, OwnedInv, AtWorker, history, lists, replay
<1>6. ASSUME NEW m \in Message, Push(m) PROVE TypeOK' /\ OwnedInv'
  <2>1. at[m] = "push" /\ task[m] \in Task
    BY <1>6 DEF Push, OwnedInv
  <2>2. /\ faults' \in 0..MaxFaults /\ given_up' \in SUBSET Task
        /\ dlq' \in [Task -> Nat] /\ pushed' \in [Task -> Nat]
    BY <1>6, <2>1, FaultType DEF Push, TypeOK
  <2>3. QED
    BY <1>6, <2>1, <2>2 DEF Push, Goto, TypeOK, OwnedInv, AtWorker, replay
<1>7. ASSUME NEW m \in Message, Retry(m) PROVE TypeOK' /\ OwnedInv'
  <2>1. at[m] = "retry" /\ task[m] \in Task /\ tries[m] < MaxRetries
    BY <1>7 DEF Retry, OwnedInv
  <2>2. CASE Fault /\ Drop(m) /\ given_up' = given_up \cup {task[m]}
    BY <1>7, <2>1, <2>2, FaultType, DropTypes DEF Retry, TypeOK, OwnedInv, lists, replay
  <2>3. CASE /\ Publish(task[m], tries[m] + 1, [at EXCEPT ![m] = "ack"])
             /\ UNCHANGED <<given_up, faults>>
    <3> DEFINE places == [at EXCEPT ![m] = "ack"]
    <3>1. /\ places \in [Message -> {"free", "queued"} \cup AtWorker]
          /\ \A n \in Message : places[n] # "free" <=> at[n] # "free"
          /\ \A n \in Message : places[n] = "retry" => at[n] = "retry"
          /\ tries[m] + 1 \in 0..MaxRetries
      BY <2>1 DEF TypeOK, AtWorker
    <3>2. Publish(task[m], tries[m] + 1, places)
      BY <2>3
    <3> HIDE DEF places
    <3>3. QED
      BY <1>7, <2>1, <2>3, <3>1, <3>2, PublishTypes DEF Retry, TypeOK, OwnedInv, lists, replay
  <2>4. QED
    BY <1>7, <2>2, <2>3 DEF Retry
<1>8. ASSUME NEW m \in Message, Ack(m) PROVE TypeOK' /\ OwnedInv'
  BY <1>8, DropTypes DEF Ack, TypeOK, OwnedInv, history, lists, replay
<1>9. ASSUME NEW m \in Message, WorkerLost(m) PROVE TypeOK' /\ OwnedInv'
  BY <1>9, FaultType DEF WorkerLost, Goto, TypeOK, OwnedInv, AtWorker, history, lists, replay
<1>10. ASSUME NEW m \in Message, HardTimeLimit(m) PROVE TypeOK' /\ OwnedInv'
  <2>1. task[m] \in Task
    BY <1>10 DEF HardTimeLimit, AtWorker, OwnedInv
  <2>2. QED
    BY <1>10, <2>1, FaultType, DropTypes DEF HardTimeLimit, TypeOK, OwnedInv, lists, replay
<1>11. ASSUME NEW r \in Replayer, NEW t \in Task, DrainTake(r, t) PROVE TypeOK' /\ OwnedInv'
  BY <1>11 DEF DrainTake, Kept, RGoto, TypeOK, OwnedInv, history, messages
<1>12. ASSUME NEW r \in Replayer, DrainPublish(r) PROVE TypeOK' /\ OwnedInv'
  <2>1. rpc[r] = "publish" /\ replayed[r] \in Task
    BY <1>12 DEF DrainPublish, OwnedInv
  <2>2. /\ rpc' \in [Replayer -> {"idle", "publish", "remove", "restore"}]
        /\ \A q \in Replayer : rpc'[q] # "idle" => replayed[q] \in Task
        /\ faults' \in 0..MaxFaults
    BY <1>12, <2>1, FaultType DEF DrainPublish, RGoto, TypeOK, OwnedInv
  <2>3. CASE UNCHANGED messages
    BY <1>12, <2>2, <2>3 DEF DrainPublish, TypeOK, OwnedInv, messages, history, lists
  <2>4. CASE Publish(replayed[r], 0, at)
    BY <1>12, <2>1, <2>2, <2>4, PublishTypes DEF DrainPublish, TypeOK, OwnedInv, history, lists
  <2>5. QED
    BY <1>12, <2>3, <2>4 DEF DrainPublish
<1>13. ASSUME NEW r \in Replayer, DrainEnd(r) PROVE TypeOK' /\ OwnedInv'
  <2>1. replayed[r] \in Task
    BY <1>13 DEF DrainEnd, OwnedInv
  <2>2. /\ rpc' = [rpc EXCEPT ![r] = "idle"] /\ replayed' = [replayed EXCEPT ![r] = NoTask]
        /\ UNCHANGED <<history, messages, drains, faults>>
    BY <1>13 DEF DrainEnd, REnd, RGoto
  <2>3. PICK found \in Finds(replayed[r]) :
          /\ processing' = [processing EXCEPT ![replayed[r]] = IF found THEN @ - 1 ELSE @]
          /\ dlq' = [dlq EXCEPT ![replayed[r]] =
                       IF rpc[r] = "restore" /\ PutBack(found) THEN @ + 1 ELSE @]
    BY <1>13 DEF DrainEnd
  <2>4. processing' \in [Task -> Nat] /\ dlq' \in [Task -> Nat]
    <3>1. found => processing[replayed[r]] > 0
      BY DEF Finds
    <3>2. processing[replayed[r]] \in Nat /\ dlq[replayed[r]] \in Nat
      BY <2>1 DEF TypeOK
    <3>3. (IF found THEN processing[replayed[r]] - 1 ELSE processing[replayed[r]]) \in Nat
      BY <3>1, <3>2
    <3>4. (IF rpc[r] = "restore" /\ PutBack(found) THEN dlq[replayed[r]] + 1
           ELSE dlq[replayed[r]]) \in Nat
      BY <3>2
    <3>5. QED
      BY <2>1, <2>3, <3>3, <3>4 DEF TypeOK
  <2>5. QED
    BY <2>2, <2>4 DEF TypeOK, OwnedInv, history, messages
<1>14. ASSUME NEW r \in Replayer, DrainCrash(r) PROVE TypeOK' /\ OwnedInv'
  BY <1>14, FaultType DEF DrainCrash, REnd, RGoto, TypeOK, OwnedInv, history, messages, lists
<1>15. ASSUME Clear PROVE TypeOK' /\ OwnedInv'
  BY <1>15, FaultType DEF Clear, TypeOK, OwnedInv, messages, replay
<1>16. ASSUME UNCHANGED vars PROVE TypeOK' /\ OwnedInv'
  BY <1>16 DEF vars, history, messages, lists, replay, TypeOK, OwnedInv
<1>17. QED
  BY <1>1, <1>2, <1>3, <1>4, <1>5, <1>6, <1>7, <1>8, <1>9, <1>10, <1>11, <1>12, <1>13, <1>14,
     <1>15, <1>16 DEF Next, Work, Lose
-----------------------------------------------------------------------------
(* Counting.                                                               *)

\* A task stays covered when its balance does not fall, or when it settles.
LEMMA Stays ==
  ASSUME TypeOK, TypeOK', NEW t \in Task, Covered(t), Settled(t) => Settled(t)',
         UNCHANGED requested, Settled(t)' \/ Balance(t)' >= Balance(t)
  PROVE  Covered(t)'
<1>1. /\ Cardinality(Live(t)) \in Nat /\ Cardinality(Removers(t)) \in Nat
      /\ dlq[t] \in Nat /\ processing[t] \in Nat
  BY Sizes DEF TypeOK
<1>2. /\ Cardinality(Live(t))' \in Nat /\ Cardinality(Removers(t))' \in Nat
      /\ dlq'[t] \in Nat /\ processing'[t] \in Nat
  <2>1. Live(t)' \in SUBSET Message /\ Removers(t)' \in SUBSET Replayer
    BY DEF Live, Removers
  <2>2. IsFiniteSet(Live(t)') /\ IsFiniteSet(Removers(t)')
    BY <2>1, FS_Subset, DeadLettersAssumption
  <2>3. QED
    BY <2>2, FS_CardinalityType DEF TypeOK
<1>3. QED
  BY <1>1, <1>2 DEF Covered, Balance

\* A published message is one execution more.
LEMMA PublishLive ==
  ASSUME TypeOK, NEW t0 \in Task, NEW k, Publish(t0, k, at), NEW t \in Task
  PROVE  Cardinality(Live(t)') = Cardinality(Live(t)) + (IF t = t0 THEN 1 ELSE 0)
<1> DEFINE m == CHOOSE f \in Message : at[f] = "free"
<1>1. m \in Message /\ at[m] = "free"
  BY DEF Publish
<1>2. at' = [at EXCEPT ![m] = "queued"] /\ task' = [task EXCEPT ![m] = t0]
  BY DEF Publish
<1> HIDE DEF m
<1>3. Live(t)' = IF t = t0 THEN Live(t) \cup {m} ELSE Live(t)
  BY <1>1, <1>2 DEF Live, TypeOK
<1>4. m \notin Live(t)
  BY <1>1 DEF Live
<1>5. QED
  <2>1. CASE t = t0
    <3>1. Cardinality(Live(t) \cup {m}) = Cardinality(Live(t)) + 1
      BY <1>4, Sizes, FS_AddElement
    <3>2. QED
      BY <1>3, <2>1, <3>1
  <2>2. CASE t # t0
    <3>1. Live(t)' = Live(t)
      BY <1>3, <2>2
    <3>2. QED
      BY <2>2, <3>1, Sizes
  <2>3. QED
    BY <2>1, <2>2

\* A message that is dropped was at most one.
LEMMA DropLive ==
  ASSUME TypeOK, NEW m \in Message, Drop(m), NEW t \in Task, t # task[m] \/ at[m] = "ack"
  PROVE  Live(t)' = Live(t)
BY DeadLettersAssumption DEF Drop, Goto, Live, TypeOK

\* A retry replaces its message.
LEMMA RetryLive ==
  ASSUME TypeOK, NEW m0 \in Message, at[m0] = "retry", task[m0] \in Task, NEW k,
         Publish(task[m0], k, [at EXCEPT ![m0] = "ack"]), NEW t \in Task
  PROVE  Cardinality(Live(t)') = Cardinality(Live(t))
<1> DEFINE m == CHOOSE f \in Message : at[f] = "free"
<1>1. m \in Message /\ at[m] = "free" /\ m # m0
  BY DEF Publish
<1>2. /\ at' = [[at EXCEPT ![m0] = "ack"] EXCEPT ![m] = "queued"]
      /\ task' = [task EXCEPT ![m] = task[m0]]
  BY DEF Publish
<1> HIDE DEF m
<1>3. CASE t = task[m0]
  <2>1. Live(t)' = (Live(t) \ {m0}) \cup {m} /\ m0 \in Live(t) /\ m \notin Live(t)
    BY <1>1, <1>2, <1>3 DEF Live, TypeOK
  <2>2. Cardinality(Live(t) \ {m0}) = Cardinality(Live(t)) - 1 /\ IsFiniteSet(Live(t) \ {m0})
    BY <2>1, Sizes, FS_RemoveElement
  <2>3. QED
    <3>1. m \notin Live(t) \ {m0}
      BY <2>1
    <3>2. Cardinality((Live(t) \ {m0}) \cup {m}) = Cardinality(Live(t) \ {m0}) + 1
      BY <2>2, <3>1, FS_AddElement
    <3>3. QED
      BY <2>1, <2>2, <3>2, Sizes
<1>4. CASE t # task[m0]
  <2>1. Live(t)' = Live(t)
    BY <1>1, <1>2, <1>4 DEF Live, TypeOK
  <2>2. QED
    BY <2>1
<1>5. QED
  BY <1>3, <1>4

LEMMA Counts == IInv /\ TypeOK' /\ [Next]_vars => CountInv'
<1> SUFFICES ASSUME TypeOK, OwnedInv, CountInv, TypeOK', [Next]_vars PROVE CountInv'
  BY DEF IInv
<1> USE DeadLettersAssumption
<1>a. ASSUME UNCHANGED requested, succeeded \subseteq succeeded', given_up \subseteq given_up',
             \A t \in Task : Settled(t)' \/ Balance(t)' >= Balance(t)
      PROVE  CountInv'
  <2> SUFFICES ASSUME NEW t \in Task PROVE Covered(t)'
    BY DEF CountInv
  <2>1. Covered(t) /\ (Settled(t) => Settled(t)')
    BY <1>a DEF CountInv, Settled
  <2>2. QED
    BY <1>a, <2>1, Stays
<1>s. ASSUME NEW t \in Task
      PROVE  /\ Cardinality(Live(t)) \in Nat /\ Cardinality(Removers(t)) \in Nat
             /\ dlq[t] \in Nat /\ processing[t] \in Nat /\ Balance(t) \in Int
  <2>1. /\ Cardinality(Live(t)) \in Nat /\ Cardinality(Removers(t)) \in Nat
        /\ dlq[t] \in Nat /\ processing[t] \in Nat
    BY <1>s, Sizes DEF TypeOK
  <2>2. QED
    BY <2>1 DEF Balance
<1>1. ASSUME NEW t0 \in Task, Request(t0) PROVE CountInv'
  <2> SUFFICES ASSUME NEW t \in Task PROVE Covered(t)'
    BY DEF CountInv
  <2>1. /\ Publish(t0, 0, at) /\ requested' = requested \cup {t0}
        /\ UNCHANGED <<succeeded, given_up, lists, replay>>
    BY <1>1 DEF Request
  <2>2. Cardinality(Live(t)') = Cardinality(Live(t)) + (IF t = t0 THEN 1 ELSE 0)
    BY <2>1, PublishLive
  <2>3. Removers(t)' = Removers(t) /\ dlq' = dlq /\ processing' = processing
    BY <2>1 DEF Removers, lists, replay
  <2>4. Balance(t)' = Balance(t) + (IF t = t0 THEN 1 ELSE 0)
    BY <2>2, <2>3, <1>s DEF Balance
  <2>5. Covered(t) /\ (Settled(t) => Settled(t)')
    BY <2>1 DEF CountInv, Settled
  <2>6. QED
    BY <2>1, <2>4, <2>5, <1>s DEF Covered
<1>l. ASSUME NEW t \in Task, Cardinality(Live(t)') = Cardinality(Live(t)),
             Removers(t)' = Removers(t), dlq'[t] + processing'[t] >= dlq[t] + processing[t]
      PROVE  Balance(t)' >= Balance(t)
  <2>1. dlq'[t] \in Nat /\ processing'[t] \in Nat
    BY DEF TypeOK
  <2>2. QED
    BY <1>l, <1>s, <2>1 DEF Balance
<1>2. ASSUME NEW t0 \in Task, Restore(t0) PROVE CountInv'
  <2> SUFFICES ASSUME NEW t \in Task PROVE Balance(t)' >= Balance(t)
    BY <1>2, <1>a DEF Restore, history
  <2>1. Live(t)' = Live(t) /\ Removers(t)' = Removers(t)
    BY <1>2 DEF Restore, messages, replay, Live, Removers
  <2>2. dlq'[t] + processing'[t] >= dlq[t] + processing[t]
    BY <1>2, <1>s DEF Restore, TypeOK
  <2>3. QED
    BY <1>l, <2>1, <2>2
<1>3. ASSUME NEW m \in Message, Deliver(m) \/ Ack(m) \/ WorkerLost(m) PROVE CountInv'
  <2> SUFFICES ASSUME NEW t \in Task PROVE Balance(t)' >= Balance(t)
    BY <1>3, <1>a DEF Deliver, Ack, WorkerLost, history
  <2>1. Removers(t)' = Removers(t) /\ dlq' = dlq /\ processing' = processing
    BY <1>3 DEF Deliver, Ack, WorkerLost, lists, replay, Removers
  <2>2. CASE at[m] = "ack" /\ WorkerLost(m)
    <3>1. Live(t)' = IF t = task[m] THEN Live(t) \cup {m} ELSE Live(t)
      BY <2>2 DEF WorkerLost, Goto, Live, TypeOK
    <3>2. m \notin Live(t)
      BY <2>2 DEF Live
    <3>3. Cardinality(Live(t)') \in {Cardinality(Live(t)), Cardinality(Live(t)) + 1}
      BY <3>1, <3>2, Sizes, FS_AddElement
    <3>4. QED
      BY <2>1, <3>3, <1>s DEF Balance
  <2>3. CASE ~(at[m] = "ack" /\ WorkerLost(m))
    <3>1. Live(t)' = Live(t)
      BY <1>3, <2>3, DropLive DEF Deliver, Ack, WorkerLost, AtWorker, Goto, Live, TypeOK
    <3>2. QED
      BY <1>l, <1>s, <2>1, <3>1
  <2>4. QED
    BY <2>2, <2>3
\* The task of a message settles, or nothing happens to it.
<1>m. ASSUME NEW m \in Message, UNCHANGED <<requested, dlq, processing, replay>>,
             succeeded \subseteq succeeded', given_up \subseteq given_up',
             \A t \in Task : (t = task[m] /\ Settled(t)') \/ Live(t)' = Live(t)
      PROVE  CountInv'
  <2> SUFFICES ASSUME NEW t \in Task PROVE Settled(t)' \/ Balance(t)' >= Balance(t)
    BY <1>m, <1>a
  <2>1. Removers(t)' = Removers(t)
    BY <1>m DEF replay, Removers
  <2>2. QED
    BY <1>m, <1>l, <1>s, <2>1
<1>4. ASSUME NEW m \in Message, Succeed(m) PROVE CountInv'
  <2>1. ASSUME NEW t \in Task PROVE (t = task[m] /\ Settled(t)') \/ Live(t)' = Live(t)
    BY <1>4, <2>1 DEF Succeed, Goto, Live, Settled, TypeOK
  <2>2. QED
    BY <1>4, <1>m, <2>1 DEF Succeed, lists
<1>5. ASSUME NEW m \in Message, Fails(m) PROVE CountInv'
  <2>1. LastTry(m) \/ tries[m] < MaxRetries
    BY DEF LastTry, TypeOK
  <2>2. ASSUME NEW t \in Task PROVE Live(t)' = Live(t)
    BY <1>5, <2>1, <2>2 DEF Fails, Goto, Live, TypeOK
  <2>3. QED
    BY <1>5, <1>m, <2>2 DEF Fails, history, lists
<1>6. ASSUME NEW m \in Message, Push(m) PROVE CountInv'
  <2>1. /\ at[m] = "push" /\ task[m] \in Task /\ Goto(m, "ack")
        /\ UNCHANGED <<requested, succeeded, task, processing, replay>>
    BY <1>6 DEF Push, OwnedInv
  <2>2. CASE given_up' = given_up \cup {task[m]} /\ UNCHANGED dlq
    <3>1. ASSUME NEW t \in Task PROVE (t = task[m] /\ Settled(t)') \/ Live(t)' = Live(t)
      BY <2>1, <2>2, <3>1 DEF Goto, Live, Settled, TypeOK
    <3>2. QED
      BY <1>m, <2>1, <2>2, <3>1
  <2>3. CASE dlq' = [dlq EXCEPT ![task[m]] = @ + 1] /\ UNCHANGED given_up
    <3> SUFFICES ASSUME NEW t \in Task PROVE Balance(t)' >= Balance(t)
      BY <1>a, <2>1, <2>3
    <3>1. Removers(t)' = Removers(t)
      BY <2>1 DEF replay, Removers
    <3>2. CASE t = task[m]
      <4>1. m \in Live(t) /\ Live(t)' = Live(t) \ {m}
        BY <2>1, <3>2 DEF Goto, Live, TypeOK
      <4>2. Cardinality(Live(t)') = Cardinality(Live(t)) - 1
        BY <4>1, Sizes, FS_RemoveElement
      <4>3. dlq'[t] = dlq[t] + 1
        BY <2>1, <2>3, <3>2 DEF TypeOK
      <4>4. QED
        BY <2>1, <3>1, <4>2, <4>3, <1>s DEF Balance
    <3>3. CASE t # task[m]
      <4>1. Live(t)' = Live(t) /\ dlq'[t] = dlq[t]
        BY <2>1, <2>3, <3>3 DEF Goto, Live, TypeOK
      <4>2. QED
        BY <2>1, <3>1, <4>1, <1>l, <1>s
    <3>4. QED
      BY <3>2, <3>3
  <2>4. QED
    BY <1>6, <2>2, <2>3 DEF Push
<1>7. ASSUME NEW m \in Message, Retry(m) PROVE CountInv'
  <2>1. at[m] = "retry" /\ task[m] \in Task /\ UNCHANGED <<requested, succeeded, lists, replay>>
    BY <1>7 DEF Retry, OwnedInv
  <2>2. CASE Drop(m) /\ given_up' = given_up \cup {task[m]}
    <3>1. ASSUME NEW t \in Task PROVE (t = task[m] /\ Settled(t)') \/ Live(t)' = Live(t)
      BY <2>1, <2>2, <3>1, DropLive DEF Settled
    <3>2. QED
      BY <1>m, <2>1, <2>2, <3>1 DEF lists
  <2>3. CASE /\ Publish(task[m], tries[m] + 1, [at EXCEPT ![m] = "ack"])
             /\ UNCHANGED <<given_up, faults>>
    <3> SUFFICES ASSUME NEW t \in Task PROVE Balance(t)' >= Balance(t)
      BY <1>a, <2>1, <2>3
    <3>1. Removers(t)' = Removers(t) /\ dlq' = dlq /\ processing' = processing
      BY <2>1 DEF lists, replay, Removers
    <3>2. Cardinality(Live(t)') = Cardinality(Live(t))
      BY <2>1, <2>3, RetryLive
    <3>3. QED
      BY <1>l, <1>s, <3>1, <3>2
  <2>4. QED
    BY <1>7, <2>2, <2>3 DEF Retry
<1>8. ASSUME NEW m \in Message, HardTimeLimit(m) PROVE CountInv'
  <2>1. ASSUME NEW t \in Task PROVE (t = task[m] /\ Settled(t)') \/ Live(t)' = Live(t)
    BY <1>8, <2>1, DropLive DEF HardTimeLimit, Settled
  <2>2. QED
    BY <1>8, <1>m, <2>1 DEF HardTimeLimit, lists
<1>9. ASSUME NEW r \in Replayer, NEW t0 \in Task, DrainTake(r, t0) PROVE CountInv'
  <2> SUFFICES ASSUME NEW t \in Task PROVE Balance(t)' >= Balance(t)
    BY <1>9, <1>a DEF DrainTake, history
  <2>1. Live(t)' = Live(t) /\ Removers(t)' = Removers(t)
    BY <1>9 DEF DrainTake, RGoto, messages, Live, Removers, TypeOK
  <2>2. dlq'[t] + processing'[t] >= dlq[t] + processing[t]
    BY <1>9, <1>s DEF DrainTake, Kept, TypeOK
  <2>3. QED
    BY <1>l, <2>1, <2>2
<1>10. ASSUME NEW r \in Replayer, DrainPublish(r) PROVE CountInv'
  <2> SUFFICES ASSUME NEW t \in Task PROVE Balance(t)' >= Balance(t)
    BY <1>10, <1>a DEF DrainPublish, history
  <2>1. /\ rpc[r] = "publish" /\ replayed[r] \in Task
        /\ UNCHANGED <<lists, replayed>>
    BY <1>10 DEF DrainPublish, OwnedInv
  <2>2. ASSUME Publish(replayed[r], 0, at)
        PROVE  Cardinality(Live(t)') = Cardinality(Live(t)) + (IF t = replayed[r] THEN 1 ELSE 0)
    BY <2>1, <2>2, PublishLive
  <2>3. CASE RGoto(r, "remove") /\ Publish(replayed[r], 0, at)
    <3>1. /\ Removers(t)' = IF t = replayed[r] THEN Removers(t) \cup {r} ELSE Removers(t)
          /\ r \notin Removers(t)
      BY <2>1, <2>3 DEF RGoto, Removers, TypeOK
    <3>2. Cardinality(Removers(t)')
            = Cardinality(Removers(t)) + (IF t = replayed[r] THEN 1 ELSE 0)
      <4>1. CASE t = replayed[r]
        <5>1. Cardinality(Removers(t) \cup {r}) = Cardinality(Removers(t)) + 1
          BY <3>1, Sizes, FS_AddElement
        <5>2. QED
          BY <3>1, <4>1, <5>1
      <4>2. CASE t # replayed[r]
        <5>1. Removers(t)' = Removers(t)
          BY <3>1, <4>2
        <5>2. QED
          BY <4>2, <5>1, <1>s
      <4>3. QED
        BY <4>1, <4>2
    <3>3. QED
      BY <2>1, <2>2, <2>3, <3>2, <1>s DEF Balance, lists
  <2>4. CASE RGoto(r, "restore") /\ (UNCHANGED messages \/ Publish(replayed[r], 0, at))
    <3>1. Removers(t)' = Removers(t)
      BY <2>1, <2>4 DEF RGoto, Removers, TypeOK
    <3>2. Cardinality(Live(t)') \in {Cardinality(Live(t)), Cardinality(Live(t)) + 1}
      <4>1. CASE UNCHANGED messages
        <5>1. Live(t)' = Live(t)
          BY <4>1 DEF messages, Live
        <5>2. QED
          BY <5>1
      <4>2. CASE Publish(replayed[r], 0, at)
        BY <2>2, <4>2, <1>s
      <4>3. QED
        BY <2>4, <4>1, <4>2
    <3>3. QED
      BY <2>1, <3>1, <3>2, <1>s DEF Balance, lists
  <2>5. QED
    BY <1>10, <2>3, <2>4 DEF DrainPublish
\* A replay ends: its removal is no longer to come.
<1>r. ASSUME NEW r \in Replayer, rpc[r] # "idle", REnd(r), NEW t \in Task
      PROVE  Cardinality(Removers(t)')
               = Cardinality(Removers(t)) - (IF rpc[r] = "remove" /\ t = replayed[r] THEN 1 ELSE 0)
  <2>1. Removers(t)' = Removers(t) \ {r} /\ (r \in Removers(t) <=> rpc[r] = "remove" /\ t = replayed[r])
    BY <1>r DEF REnd, RGoto, Removers, TypeOK
  <2>2. QED
    <3>1. CASE r \in Removers(t)
      <4>1. Cardinality(Removers(t) \ {r}) = Cardinality(Removers(t)) - 1
        BY <3>1, Sizes, FS_RemoveElement
      <4>2. QED
        BY <2>1, <3>1, <4>1
    <3>2. CASE r \notin Removers(t)
      <4>1. Removers(t)' = Removers(t)
        BY <2>1, <3>2
      <4>2. QED
        BY <2>1, <3>2, <4>1, <1>s
    <3>3. QED
      BY <3>1, <3>2
<1>11. ASSUME NEW r \in Replayer, DrainEnd(r) PROVE CountInv'
  <2> SUFFICES ASSUME NEW t \in Task PROVE Balance(t)' >= Balance(t)
    BY <1>11, <1>a DEF DrainEnd, history
  <2>1. /\ rpc[r] \in {"remove", "restore"} /\ replayed[r] \in Task /\ REnd(r)
        /\ UNCHANGED messages
    BY <1>11 DEF DrainEnd, OwnedInv
  <2>2. Live(t)' = Live(t)
    BY <2>1 DEF messages, Live
  <2>3. dlq'[t] + processing'[t] >=
          dlq[t] + processing[t] - (IF rpc[r] = "remove" /\ t = replayed[r] THEN 1 ELSE 0)
    <3>1. PICK found \in Finds(replayed[r]) :
            /\ processing' = [processing EXCEPT ![replayed[r]] = IF found THEN @ - 1 ELSE @]
            /\ dlq' = [dlq EXCEPT ![replayed[r]] =
                         IF rpc[r] = "restore" /\ PutBack(found) THEN @ + 1 ELSE @]
      BY <1>11 DEF DrainEnd
    <3>2. CASE t # replayed[r]
      BY <2>1, <3>1, <3>2, <1>s DEF TypeOK
    <3>3. CASE t = replayed[r]
      <4>1. /\ processing'[t] = IF found THEN processing[t] - 1 ELSE processing[t]
            /\ dlq'[t] = IF rpc[r] = "restore" /\ found THEN dlq[t] + 1 ELSE dlq[t]
        BY <2>1, <3>1, <3>3 DEF PutBack, TypeOK
      <4>2. QED
        BY <2>1, <3>3, <4>1, <1>s
    <3>4. QED
      BY <3>2, <3>3
  <2>4. dlq'[t] \in Nat /\ processing'[t] \in Nat
    BY DEF TypeOK
  <2>5. QED
    BY <2>1, <2>2, <2>3, <2>4, <1>r, <1>s DEF Balance
<1>12. ASSUME NEW r \in Replayer, DrainCrash(r) PROVE CountInv'
  <2> SUFFICES ASSUME NEW t \in Task PROVE Balance(t)' >= Balance(t)
    BY <1>12, <1>a DEF DrainCrash, history
  <2>1. Live(t)' = Live(t) /\ UNCHANGED lists /\ rpc[r] # "idle" /\ REnd(r)
    BY <1>12 DEF DrainCrash, messages, Live
  <2>2. QED
    BY <2>1, <1>r, <1>s DEF Balance, lists
<1>13. ASSUME Clear PROVE CountInv'
  <2>1. /\ dlq' = [t \in Task |-> 0] /\ given_up' = given_up \cup {t \in Task : dlq[t] > 0}
        /\ UNCHANGED <<requested, succeeded, messages, processing, replay>>
    BY <1>13 DEF Clear
  <2> SUFFICES ASSUME NEW t \in Task PROVE Settled(t)' \/ Balance(t)' >= Balance(t)
    BY <2>1, <1>a
  <2>2. Live(t)' = Live(t) /\ Removers(t)' = Removers(t)
    BY <2>1 DEF messages, replay, Live, Removers
  <2>3. CASE dlq[t] = 0
    BY <2>1, <2>2, <2>3, <1>l, <1>s
  <2>4. CASE dlq[t] > 0
    BY <2>1, <2>4 DEF Settled
  <2>5. QED
    BY <2>3, <2>4, <1>s
<1>14. ASSUME UNCHANGED vars PROVE CountInv'
  <2> SUFFICES ASSUME NEW t \in Task PROVE Balance(t)' >= Balance(t)
    BY <1>14, <1>a DEF vars, history
  <2>1. Live(t)' = Live(t) /\ Removers(t)' = Removers(t) /\ dlq' = dlq /\ processing' = processing
    BY <1>14 DEF vars, messages, lists, replay, Live, Removers
  <2>2. QED
    BY <2>1, <1>l, <1>s
<1>15. QED
  BY <1>1, <1>2, <1>3, <1>4, <1>5, <1>6, <1>7, <1>8, <1>9, <1>10, <1>11, <1>12, <1>13, <1>14
  DEF Next, Work, Lose

-----------------------------------------------------------------------------
(* Theorems.                                                               *)

LEMMA Inductive == Spec => []IInv
<1>1. IInv /\ [Next]_vars => IInv'
  BY Types, Counts DEF IInv
<1>2. QED
  BY InitIInv, <1>1, PTL DEF Spec

\* Every state of the tasks and the lists is typed (tasks/pipeline.py).
THEOREM TypeCorrect == Spec => []TypeOK
<1>1. IInv => TypeOK
  BY DEF IInv
<1>2. QED
  BY Inductive, <1>1, PTL

\* No task is forgotten, for any number of workers, replays and faults
\* (crawl_url, aggregate_pair, dlq_drain, dlq_restore).
THEOREM KeepsTasks == Spec => []NothingForgotten
<1>1. IInv => NothingForgotten
  <2> SUFFICES ASSUME IInv, NEW t \in requested, ~Settled(t), Live(t) = {}
               PROVE  Listed(t)
    BY DEF NothingForgotten
  <2>1. t \in Task /\ dlq[t] \in Nat /\ processing[t] \in Nat
    BY DEF IInv, TypeOK
  <2>2. Balance(t) >= 1
    BY <2>1 DEF IInv, CountInv, Covered
  <2>3. Cardinality(Live(t)) = 0 /\ Cardinality(Removers(t)) \in Nat
    BY Sizes, FS_EmptySet
  <2>4. QED
    BY <2>1, <2>2, <2>3 DEF Balance, Listed
<1>2. QED
  BY Inductive, <1>1, PTL

LEMMA CopiesStep == TypeOK /\ OwnedInv /\ NoExtraCopies /\ [Next]_vars => NoExtraCopies'
<1> SUFFICES ASSUME TypeOK, OwnedInv, NoExtraCopies, [Next]_vars, NEW t \in Task
             PROVE  dlq'[t] + processing'[t] <= pushed'[t]
  BY DEF NoExtraCopies
<1>0. /\ dlq[t] \in Nat /\ processing[t] \in Nat /\ pushed[t] \in Nat
      /\ dlq[t] + processing[t] <= pushed[t]
  BY DEF TypeOK, NoExtraCopies
<1>1. ASSUME NEW t0 \in Task, Restore(t0) PROVE dlq'[t] + processing'[t] <= pushed'[t]
  BY <1>0, <1>1 DEF Restore, history, TypeOK
<1>2. ASSUME NEW m \in Message, Push(m) PROVE dlq'[t] + processing'[t] <= pushed'[t]
  BY <1>0, <1>2 DEF Push, OwnedInv, TypeOK
<1>3. ASSUME NEW r \in Replayer, NEW t0 \in Task, DrainTake(r, t0)
      PROVE  dlq'[t] + processing'[t] <= pushed'[t]
  BY <1>0, <1>3 DEF DrainTake, Kept, history, TypeOK
<1>4. ASSUME NEW r \in Replayer, DrainEnd(r) PROVE dlq'[t] + processing'[t] <= pushed'[t]
  <2>1. PICK found \in Finds(replayed[r]) :
          /\ processing' = [processing EXCEPT ![replayed[r]] = IF found THEN @ - 1 ELSE @]
          /\ dlq' = [dlq EXCEPT ![replayed[r]] =
                       IF rpc[r] = "restore" /\ PutBack(found) THEN @ + 1 ELSE @]
    BY <1>4 DEF DrainEnd
  <2>2. replayed[r] \in Task /\ pushed' = pushed
    BY <1>4 DEF DrainEnd, OwnedInv, history
  <2>3. CASE t # replayed[r]
    BY <1>0, <2>1, <2>2, <2>3 DEF TypeOK
  <2>4. CASE t = replayed[r]
    <3>1. /\ processing'[t] = IF found THEN processing[t] - 1 ELSE processing[t]
          /\ dlq'[t] = IF rpc[r] = "restore" /\ found THEN dlq[t] + 1 ELSE dlq[t]
      BY <2>1, <2>2, <2>4 DEF PutBack, TypeOK
    <3>2. QED
      BY <1>0, <2>2, <3>1
  <2>5. QED
    BY <2>3, <2>4
<1>5. ASSUME Clear PROVE dlq'[t] + processing'[t] <= pushed'[t]
  BY <1>0, <1>5 DEF Clear
<1>6. ASSUME UNCHANGED <<lists, pushed>> PROVE dlq'[t] + processing'[t] <= pushed'[t]
  BY <1>0, <1>6 DEF lists
<1>7. QED
  BY <1>1, <1>2, <1>3, <1>4, <1>5, <1>6
  DEF Next, Work, Lose, vars, Request, Deliver, Succeed, Fails, Retry, Ack, WorkerLost,
      HardTimeLimit, DrainPublish, DrainCrash, history

\* Replays and restores never multiply items (dlq_drain, dlq_restore).
THEOREM Copies == Spec => []NoExtraCopies
<1>1. Init => NoExtraCopies
  BY DEF Init, NoExtraCopies
<1>2. IInv /\ NoExtraCopies /\ [Next]_vars => NoExtraCopies'
  BY CopiesStep DEF IInv
<1>3. QED
  BY Inductive, <1>1, <1>2, PTL DEF Spec

-----------------------------------------------------------------------------
(* WorkerLoop, for any number of tries.                                     *)

\* A callback waits in the queue.
In(q, k, t) == \E i \in 1..Len(q) : q[i] = <<k, t>>
Queued(k, t) == In(loop_queue, k, t)

\* Of the tries to come there is nothing yet.
LoopFresh ==
  \A t \in L!Try : t > loop_try =>
    /\ ~loop_made[t] /\ ~loop_started[t] /\ ~loop_cleaned[t] /\ loop_at[t] = "none"
    /\ t \notin loop_givenup /\ \A k \in L!Kind : ~Queued(k, t)

\* A task is made once and takes its first step once ...
Once(q) ==
  \A i, j \in 1..Len(q) : q[i] = q[j] /\ q[i][1] \in {"make", "step"} => i = j
LoopOnce == Once(loop_queue)

\* ... in this order.
LoopBegins ==
  \A t \in L!Try :
    /\ Queued("make", t) => ~loop_made[t]
    /\ Queued("step", t) <=> loop_made[t] /\ ~loop_started[t]
    /\ loop_started[t] => loop_made[t]

LoopEnds ==
  \A t \in L!Try :
    /\ loop_at[t] \in {"running", "cleaning", "ended"} => loop_started[t]
    /\ loop_cleaned[t] => loop_started[t] /\ loop_at[t] \in {"ended", "closed"}
    /\ loop_future[t] = "done" => loop_at[t] = "ended"

LoopThread ==
  /\ loop_pc # "idle" => loop_try \in L!Try /\ loop_future[loop_try] # "none"
  /\ loop_pc \in {"look", "cleanup"} => loop_future[loop_try] \in {"done", "cancelled"}
  /\ loop_pc = "cleanup" => loop_started[loop_try]

\* The cancellation of a try waits behind its first step, or waits while it runs.
Behind(q, t) ==
  \E i, j \in 1..Len(q) : i < j /\ q[i] = <<"step", t>> /\ q[j] = <<"cancel", t>>

LoopPassed ==
  \A t \in L!Try : loop_future[t] = "cancelled" =>
    /\ loop_made[t] /\ ~loop_started[t] => Behind(loop_queue, t)
    /\ loop_at[t] = "running" => Queued("cancel", t)

LoopGivenUp ==
  \A t \in loop_givenup :
    /\ loop_future[t] \in {"done", "cancelled"}
    /\ t \in loop_early \/ loop_started[t]
    /\ loop_at[t] \in {"running", "cleaning"} => t \in loop_overdue \cup loop_early

LoopInv ==
  /\ L!TypeOK /\ LoopFresh /\ LoopOnce /\ LoopBegins /\ LoopEnds /\ LoopThread
  /\ LoopPassed /\ LoopGivenUp

\* What is appended, and what is taken from the front.
LEMMA Appended ==
  ASSUME NEW T, NEW q \in Seq(T), NEW x \in T
  PROVE  /\ Append(q, x) \in Seq(T) /\ q \o <<x>> = Append(q, x) /\ q \o << >> = q
         /\ Len(q) \in Nat /\ Len(Append(q, x)) = Len(q) + 1
         /\ \A i \in 1..Len(q) : Append(q, x)[i] = q[i]
         /\ Append(q, x)[Len(q) + 1] = x
  OBVIOUS

LEMMA Taken ==
  ASSUME NEW T, NEW q \in Seq(T), q # << >>
  PROVE  /\ Tail(q) \in Seq(T) /\ Head(q) = q[1] /\ Len(q) \in Nat /\ Len(q) >= 1
         /\ Len(Tail(q)) = Len(q) - 1
         /\ \A i \in 1..Len(q) - 1 : Tail(q)[i] = q[i + 1]
  OBVIOUS

\* A queue of callbacks; r is q with one appended, or without its first.
IsQueue(q) == q \in Seq(L!Kind \X L!Try)

Grown(q, r, k, t) ==
  /\ IsQueue(r)
  /\ \A l \in L!Kind, u \in L!Try : In(r, l, u) <=> In(q, l, u) \/ (l = k /\ u = t)
  /\ \A u \in L!Try : Behind(q, u) => Behind(r, u)
  /\ k = "cancel" /\ In(q, "step", t) => Behind(r, t)
  /\ Once(q) /\ ~(k \in {"make", "step"} /\ In(q, k, t)) => Once(r)

Shrunk(q, r, k, t) ==
  /\ IsQueue(r) /\ In(q, k, t)
  /\ \A l \in L!Kind, u \in L!Try :
       /\ In(r, l, u) => In(q, l, u)
       /\ In(q, l, u) /\ (l # k \/ u # t) => In(r, l, u)
  /\ k \in {"make", "step"} => ~In(r, k, t)
  /\ \A u \in L!Try : Behind(q, u) => In(r, "cancel", u)
  /\ \A u \in L!Try : Behind(q, u) /\ (k # "step" \/ u # t) => Behind(r, u)
  /\ Once(r)

\* A callback is appended: the queue has it besides the others.
LEMMA QueueGrows ==
  ASSUME NEW q, IsQueue(q), NEW k \in L!Kind, NEW t \in L!Try, NEW r, r = Append(q, <<k, t>>)
  PROVE  Grown(q, r, k, t)
<1> DEFINE n == Len(q)
           x == <<k, t>>
<1>1. q \in Seq(L!Kind \X L!Try) /\ x \in L!Kind \X L!Try
  BY DEF IsQueue
<1>2. /\ r \in Seq(L!Kind \X L!Try) /\ n \in Nat /\ Len(r) = n + 1
      /\ \A i \in 1..n : r[i] = q[i]
      /\ r[n + 1] = x
  <2> DEFINE T == L!Kind \X L!Try
  <2> HIDE DEF x, T
  <2>1. r = Append(q, x) /\ q \in Seq(T) /\ x \in T
    BY <1>1 DEF x, T
  <2>2. /\ Append(q, x) \in Seq(T) /\ n \in Nat /\ Len(Append(q, x)) = n + 1
        /\ \A i \in 1..n : Append(q, x)[i] = q[i]
        /\ Append(q, x)[n + 1] = x
    BY <2>1, Appended
  <2>3. QED
    BY <2>1, <2>2 DEF T
<1>3. \A i \in 1..n + 1 : (i \in 1..n /\ r[i] = q[i]) \/ (i = n + 1 /\ r[i] = x)
  BY <1>2
<1>4. \A i \in 1..n : i \in 1..n + 1 /\ r[i] = q[i]
  BY <1>2
<1>5. ASSUME NEW l \in L!Kind, NEW u \in L!Try
      PROVE  In(r, l, u) <=> In(q, l, u) \/ (l = k /\ u = t)
  <2>1. In(r, l, u) <=> \E i \in 1..n + 1 : r[i] = <<l, u>>
    BY <1>2 DEF In
  <2>2. In(q, l, u) <=> \E i \in 1..n : q[i] = <<l, u>>
    BY DEF In
  <2>3. x = <<l, u>> <=> l = k /\ u = t
    OBVIOUS
  <2>4. n + 1 \in 1..n + 1
    BY <1>2
  <2> HIDE DEF n, x
  <2>5. QED
    BY <1>2, <1>3, <1>4, <2>1, <2>2, <2>3, <2>4
<1>6. ASSUME NEW u \in L!Try, Behind(q, u) PROVE Behind(r, u)
  <2>1. PICK i, j \in 1..n : i < j /\ q[i] = <<"step", u>> /\ q[j] = <<"cancel", u>>
    BY <1>6 DEF Behind
  <2>2. i \in 1..Len(r) /\ j \in 1..Len(r) /\ r[i] = <<"step", u>> /\ r[j] = <<"cancel", u>>
    BY <1>2, <1>4, <2>1
  <2>3. QED
    BY <2>1, <2>2 DEF Behind
<1>7. ASSUME k = "cancel", In(q, "step", t) PROVE Behind(r, t)
  <2>1. PICK i \in 1..n : q[i] = <<"step", t>>
    BY <1>7 DEF In
  <2>2. i \in 1..Len(r) /\ n + 1 \in 1..Len(r) /\ i < n + 1 /\ r[i] = <<"step", t>> /\ r[n + 1] = <<"cancel", t>>
    BY <1>2, <1>4, <1>7, <2>1
  <2> HIDE DEF n
  <2>3. QED
    BY <2>2 DEF Behind
<1>8. ASSUME Once(q), ~(k \in {"make", "step"} /\ In(q, k, t)) PROVE Once(r)
  <2> SUFFICES ASSUME NEW i \in 1..n + 1, NEW j \in 1..n + 1, r[i] = r[j], r[i][1] \in {"make", "step"}
               PROVE  i = j
    BY <1>2 DEF Once
  <2>1. CASE i \in 1..n /\ j \in 1..n
    BY <1>4, <1>8, <2>1 DEF Once
  <2>2. CASE i = n + 1 /\ j = n + 1
    BY <2>2
  <2>3. ASSUME NEW a \in 1..n, r[a] = x PROVE In(q, k, t)
    BY <1>4, <2>3 DEF In
  <2>4. x[1] = k
    OBVIOUS
  <2> HIDE DEF n, x
  <2>5. CASE i \in 1..n /\ j = n + 1
    BY <1>2, <1>8, <2>3, <2>4, <2>5
  <2>6. CASE i = n + 1 /\ j \in 1..n
    BY <1>2, <1>8, <2>3, <2>4, <2>6
  <2>7. QED
    BY <1>3, <2>1, <2>2, <2>5, <2>6
<1>9. QED
  BY <1>2, <1>5, <1>6, <1>7, <1>8 DEF Grown, IsQueue

\* The first callback is taken: the others stay, it does so only if it is
\* there twice.
LEMMA QueueShrinks ==
  ASSUME NEW q, IsQueue(q), NEW k \in L!Kind, NEW t \in L!Try, Once(q), q # << >>,
         Head(q) = <<k, t>>, NEW r, r = Tail(q)
  PROVE  Shrunk(q, r, k, t)
<1> DEFINE n == Len(q)
           x == <<k, t>>
<1>1. q \in Seq(L!Kind \X L!Try) /\ q # << >> /\ Head(q) = x
  BY DEF IsQueue
<1>2. /\ r \in Seq(L!Kind \X L!Try) /\ n \in Nat /\ n >= 1 /\ Len(r) = n - 1 /\ q[1] = x
      /\ \A i \in 1..n - 1 : r[i] = q[i + 1]
  <2> HIDE DEF x
  <2>1. r = Tail(q)
    OBVIOUS
  <2>2. QED
    BY <1>1, <2>1, Taken
<1>3. \A i \in 1..n - 1 : i + 1 \in 1..n /\ i + 1 # 1 /\ r[i] = q[i + 1]
  BY <1>2
<1>4. \A i \in 1..n : i = 1 \/ (i - 1 \in 1..n - 1 /\ r[i - 1] = q[i])
  BY <1>2
<1>5. ASSUME NEW l \in L!Kind, NEW u \in L!Try
      PROVE  /\ In(r, l, u) => In(q, l, u)
             /\ In(q, l, u) /\ (l # k \/ u # t) => In(r, l, u)
  <2>1. In(r, l, u) <=> \E i \in 1..n - 1 : r[i] = <<l, u>>
    BY <1>2 DEF In
  <2>2. In(q, l, u) <=> \E i \in 1..n : q[i] = <<l, u>>
    BY DEF In
  <2>3. l # k \/ u # t => x # <<l, u>>
    OBVIOUS
  <2> HIDE DEF n, x
  <2>4. In(r, l, u) => In(q, l, u)
    BY <1>3, <2>1, <2>2
  <2>5. ASSUME NEW i \in 1..n, q[i] = <<l, u>>, l # k \/ u # t PROVE In(r, l, u)
    BY <1>2, <1>4, <2>1, <2>3, <2>5
  <2>6. QED
    BY <2>2, <2>4, <2>5
<1>6. In(q, k, t)
  <2>1. 1 \in 1..n
    BY <1>2
  <2>2. QED
    BY <1>2, <2>1 DEF In
<1>7. ASSUME k \in {"make", "step"} PROVE ~In(r, k, t)
  <2> SUFFICES ASSUME In(r, k, t) PROVE FALSE
    OBVIOUS
  <2>1. PICK i \in 1..n - 1 : r[i] = x
    BY <1>2 DEF In
  <2>2. i + 1 \in 1..n /\ 1 \in 1..n /\ i + 1 # 1 /\ q[i + 1] = q[1] /\ q[1][1] = k
    BY <1>2, <1>3, <2>1
  <2>3. QED
    BY <1>7, <2>2 DEF Once
<1>8. ASSUME NEW u \in L!Try, Behind(q, u)
      PROVE  In(r, "cancel", u) /\ (k # "step" \/ u # t => Behind(r, u))
  <2>1. PICK i, j \in 1..n : i < j /\ q[i] = <<"step", u>> /\ q[j] = <<"cancel", u>>
    BY <1>8 DEF Behind
  <2>2. j # 1 /\ i \in Nat /\ j \in Nat /\ j - 1 \in 1..Len(r) /\ r[j - 1] = <<"cancel", u>>
    BY <1>2, <1>4, <2>1
  <2>3. In(r, "cancel", u)
    BY <2>2 DEF In
  <2>4. ASSUME k # "step" \/ u # t PROVE Behind(r, u)
    <3>0. i # 1
      <4>1. <<"step", u>> # x
        BY <2>4
      <4>2. QED
        BY <1>2, <2>1, <4>1
    <3>1. i - 1 \in 1..Len(r) /\ r[i - 1] = <<"step", u>> /\ i - 1 < j - 1
      BY <1>2, <1>4, <2>1, <2>2, <3>0
    <3> DEFINE a == i - 1
               b == j - 1
    <3>2. a \in 1..Len(r) /\ b \in 1..Len(r) /\ a < b /\ r[a] = <<"step", u>> /\ r[b] = <<"cancel", u>>
      BY <2>2, <3>1
    <3> HIDE DEF a, b
    <3>3. QED
      BY <3>2 DEF Behind
  <2>5. QED
    BY <2>3, <2>4
<1>9. Once(r)
  <2> SUFFICES ASSUME NEW i \in 1..n - 1, NEW j \in 1..n - 1, r[i] = r[j], r[i][1] \in {"make", "step"}
               PROVE  i = j
    BY <1>2 DEF Once
  <2>1. i + 1 \in 1..n /\ j + 1 \in 1..n /\ q[i + 1] = q[j + 1] /\ q[i + 1][1] \in {"make", "step"}
    BY <1>3
  <2>2. i + 1 = j + 1
    <3> DEFINE a == i + 1
               b == j + 1
    <3>1. a \in 1..Len(q) /\ b \in 1..Len(q) /\ q[a] = q[b]
          /\ q[a][1] \in {"make", "step"}
      BY <2>1
    <3> HIDE DEF a, b
    <3>2. a = b
      BY <3>1 DEF Once
    <3>3. QED
      BY <3>2 DEF a, b
  <2>3. QED
    BY <2>2
<1>10. QED
  BY <1>2, <1>5, <1>6, <1>7, <1>8, <1>9 DEF Shrunk, IsQueue

\* The callbacks of another try, and those that stay, are as they were.
LEMMA LoopTypesOf ==
  ASSUME LoopInv
  PROVE  /\ loop_queue \in Seq(L!Kind \X L!Try) /\ IsQueue(loop_queue) /\ Once(loop_queue)
         /\ "make" \in L!Kind /\ "step" \in L!Kind /\ "cancel" \in L!Kind /\ "close" \in L!Kind
         /\ L!Try \subseteq Nat /\ loop_try \in Nat
  BY LoopAssumption DEF LoopInv, LoopOnce, L!TypeOK, L!Kind, L!Try, IsQueue

LEMMA InitLoop == L!Init => LoopInv
<1> SUFFICES ASSUME L!Init PROVE LoopInv
  OBVIOUS
<1>1. loop_queue = << >> /\ Len(loop_queue) = 0 /\ loop_queue \in Seq(L!Kind \X L!Try)
  BY DEF L!Init
<1>2. \A k, t : ~Queued(k, t)
  BY <1>1 DEF Queued, In
<1>3. Once(loop_queue)
  BY <1>1 DEF Once
<1>4. L!TypeOK
  BY <1>1, LoopAssumption DEF L!Init, L!TypeOK, L!No, L!Try
<1>5. QED
  BY <1>2, <1>3, <1>4 DEF L!Init, L!No, LoopInv, LoopFresh, LoopOnce, LoopBegins, LoopEnds, LoopThread, LoopPassed, LoopGivenUp

\* The thread.
LEMMA SubmitStep == ASSUME LoopInv, L!Submit PROVE LoopInv'
<1> DEFINE t == loop_try + 1
<1>0. L!TypeOK /\ loop_pc = "idle" /\ loop_try < Tries /\ loop_try' = t /\ loop_pc' = "waiting"
      /\ loop_future' = [loop_future EXCEPT ![t] = "pending"]
      /\ loop_queue' = Append(loop_queue, <<"make", t>>)
      /\ UNCHANGED <<loop_made, loop_started, loop_cleaned, loop_at, loop_givenup, loop_overdue, loop_early>>
  BY DEF L!Submit, LoopInv, L!loop
<1>1. t \in L!Try /\ t > loop_try /\ (\A u \in L!Try : u > t => u > loop_try)
  BY <1>0, LoopAssumption DEF L!TypeOK, L!Try
<1> HIDE DEF t
<1>2. /\ ~loop_made[t] /\ ~loop_started[t] /\ ~loop_cleaned[t] /\ loop_at[t] = "none"
      /\ t \notin loop_givenup /\ ~Queued("make", t)
  BY <1>1, LoopTypesOf DEF LoopInv, LoopFresh
<1>3. Grown(loop_queue, loop_queue', "make", t)
  BY <1>0, <1>1, LoopTypesOf, QueueGrows
<1>3a. /\ loop_queue' \in Seq(L!Kind \X L!Try) /\ Once(loop_queue')
       /\ \A l \in L!Kind, u \in L!Try :
            In(loop_queue', l, u) <=> In(loop_queue, l, u) \/ (l = "make" /\ u = t)
       /\ \A u \in L!Try : Behind(loop_queue, u) => Behind(loop_queue', u)
  BY <1>2, <1>3, LoopTypesOf DEF Grown, IsQueue, Queued
<1>4. \A u \in L!Try : u # t => loop_future'[u] = loop_future[u]
  BY <1>0, <1>1 DEF L!TypeOK
<1>5. loop_future'[t] = "pending" /\ loop_future' \in [L!Try -> {"none", "pending", "done", "cancelled"}]
  BY <1>0, <1>1 DEF L!TypeOK
<1>6. L!TypeOK'
  BY <1>0, <1>1, <1>3a, <1>5 DEF L!TypeOK, L!Try
<1>7. LoopFresh'
  <2> SUFFICES ASSUME NEW u \in L!Try, u > t
               PROVE  /\ ~loop_made'[u] /\ ~loop_started'[u] /\ ~loop_cleaned'[u] /\ loop_at'[u] = "none"
                      /\ u \notin loop_givenup' /\ \A k \in L!Kind : ~In(loop_queue', k, u)
    BY <1>0 DEF LoopFresh, Queued, L!Try, L!Kind
  <2>1. u # t /\ u > loop_try
    BY <1>1, LoopTypesOf
  <2>2. QED
    BY <1>0, <1>3a, <2>1 DEF LoopInv, LoopFresh, Queued
<1>8. LoopBegins'
  BY <1>0, <1>2, <1>3a, LoopTypesOf DEF LoopInv, LoopBegins, Queued
<1>9. LoopEnds' /\ LoopThread'
  BY <1>0, <1>1, <1>2, <1>4, <1>5 DEF LoopInv, LoopEnds, LoopThread
<1>10. LoopPassed' /\ LoopGivenUp'
  <2>1. LoopPassed'
    BY <1>0, <1>3a, <1>4, <1>5, LoopTypesOf DEF LoopInv, LoopPassed, Queued
  <2>2. \A u \in loop_givenup : u \in L!Try /\ u # t
    BY <1>2 DEF LoopInv, L!TypeOK
  <2>3. LoopGivenUp'
    BY <1>0, <1>4, <2>2 DEF LoopInv, LoopGivenUp
  <2>4. QED
    BY <2>1, <2>3
<1>11. QED
  BY <1>3a, <1>6, <1>7, <1>8, <1>9, <1>10 DEF LoopInv, LoopOnce

\* The thread gives its future up: what has been made is cancelled on the loop.
LEMMA CancelStep == ASSUME LoopInv, L!Cancel PROVE LoopInv'
<1> DEFINE t == loop_try
           passes == loop_future[t] = "pending" /\ loop_made[t]
<1>0. L!TypeOK /\ loop_pc = "cancel" /\ loop_pc' = "look" /\ t \in L!Try
      /\ loop_future' = [loop_future EXCEPT ![t] = IF @ = "pending" THEN "cancelled" ELSE @]
      /\ loop_queue' = (IF passes THEN Append(loop_queue, <<"cancel", t>>) ELSE loop_queue)
      /\ UNCHANGED <<loop_try, loop_made, loop_started, loop_cleaned, loop_at, loop_givenup, loop_overdue, loop_early>>
  BY DEF L!Cancel, L!Chained, LoopInv, LoopThread, L!loop
<1>1. loop_future'[t] = (IF loop_future[t] = "pending" THEN "cancelled" ELSE loop_future[t])
      /\ \A u \in L!Try : u # t => loop_future'[u] = loop_future[u]
  BY <1>0 DEF L!TypeOK
<1>2. loop_future' \in [L!Try -> {"none", "pending", "done", "cancelled"}]
  BY <1>0 DEF L!TypeOK
<1>3. /\ loop_queue' \in Seq(L!Kind \X L!Try) /\ Once(loop_queue')
      /\ \A l \in L!Kind, u \in L!Try :
           In(loop_queue', l, u) <=> In(loop_queue, l, u) \/ (passes /\ l = "cancel" /\ u = t)
      /\ \A u \in L!Try : Behind(loop_queue, u) => Behind(loop_queue', u)
      /\ passes /\ In(loop_queue, "step", t) => Behind(loop_queue', t)
  <2>1. CASE passes
    <3>1. "cancel" \in L!Kind /\ loop_queue \in Seq(L!Kind \X L!Try) /\ Once(loop_queue)
      BY LoopTypesOf
    <3>2. loop_queue' = Append(loop_queue, <<"cancel", t>>)
      BY <1>0, <2>1
    <3>3. Grown(loop_queue, loop_queue', "cancel", t)
      BY <1>0, <3>2, LoopTypesOf, QueueGrows
    <3>4. QED
      BY <2>1, <3>1, <3>3 DEF Grown, IsQueue
  <2>2. CASE ~passes
    BY <1>0, <2>2, LoopTypesOf
  <2>3. QED
    BY <2>1, <2>2
<1>4. L!TypeOK'
  BY <1>0, <1>2, <1>3 DEF L!TypeOK
<1>5. LoopFresh' /\ LoopBegins'
  <2>1. ~(t > loop_try)
    BY LoopTypesOf
  <2>2. LoopFresh'
    BY <1>0, <1>3, <2>1 DEF LoopInv, LoopFresh, Queued, L!Kind, L!Try
  <2>3. LoopBegins'
    BY <1>0, <1>3, LoopTypesOf DEF LoopInv, LoopBegins, Queued
  <2>4. QED
    BY <2>2, <2>3
<1>6. LoopEnds' /\ LoopThread'
  BY <1>0, <1>1 DEF LoopInv, LoopEnds, LoopThread, L!TypeOK
<1>7. LoopPassed'
  <2> SUFFICES ASSUME NEW u \in L!Try, loop_future'[u] = "cancelled"
               PROVE  /\ loop_made[u] /\ ~loop_started[u] => Behind(loop_queue', u)
                      /\ loop_at[u] = "running" => In(loop_queue', "cancel", u)
    BY <1>0 DEF LoopPassed, Queued
  <2>1. CASE loop_future[u] = "cancelled"
    BY <1>3, <2>1, LoopTypesOf DEF LoopInv, LoopPassed, Queued
  <2>2. CASE loop_future[u] # "cancelled"
    <3>1. u = t /\ loop_future[t] = "pending"
      BY <1>1, <2>2
    <3>2. loop_at[t] = "running" => loop_made[t]
      BY <1>0 DEF LoopInv, LoopEnds, LoopBegins
    <3>3. loop_made[t] /\ ~loop_started[t] => In(loop_queue, "step", t)
      BY <1>0 DEF LoopInv, LoopBegins, Queued
    <3>4. QED
      BY <1>0, <1>3, <3>1, <3>2, <3>3, LoopTypesOf
  <2>3. QED
    BY <2>1, <2>2
<1>8. LoopGivenUp'
  BY <1>0, <1>1 DEF LoopInv, LoopGivenUp, L!TypeOK
<1>9. QED
  BY <1>3, <1>4, <1>5, <1>6, <1>7, <1>8 DEF LoopInv, LoopOnce

\* It looks whether the coroutine has begun; one that has not is closed.
LEMMA LookStep == ASSUME LoopInv, L!Look PROVE LoopInv'
<1> DEFINE t == loop_try
<1>0. /\ L!TypeOK /\ loop_pc = "look" /\ t \in L!Try /\ loop_future[t] \in {"done", "cancelled"}
      /\ UNCHANGED <<loop_try, loop_future, loop_made, loop_started, loop_cleaned, loop_at, loop_overdue>>
      /\ loop_future[t] # "none"
  BY DEF L!Look, LoopInv, LoopThread, L!loop
<1>1. CASE loop_started[t] /\ loop_pc' = "cleanup" /\ UNCHANGED <<loop_queue, loop_givenup, loop_early>>
  BY <1>0, <1>1 DEF LoopInv, L!TypeOK, LoopFresh, LoopOnce, LoopBegins, LoopEnds, LoopThread, LoopPassed,
                    LoopGivenUp, Queued
<1>2. CASE /\ ~loop_started[t] /\ loop_pc' = "idle" /\ loop_queue' = Append(loop_queue, <<"close", t>>)
           /\ loop_givenup' = loop_givenup \cup {t} /\ loop_early' = loop_early \cup {t}
  <2>1. Grown(loop_queue, loop_queue', "close", t)
    BY <1>0, <1>2, LoopTypesOf, QueueGrows
  <2>2. /\ loop_queue' \in Seq(L!Kind \X L!Try) /\ Once(loop_queue')
        /\ \A l \in L!Kind, u \in L!Try :
             In(loop_queue', l, u) <=> In(loop_queue, l, u) \/ (l = "close" /\ u = t)
        /\ \A u \in L!Try : Behind(loop_queue, u) => Behind(loop_queue', u)
    BY <2>1, LoopTypesOf DEF Grown, IsQueue
  <2>3. L!TypeOK'
    BY <1>0, <1>2, <2>2 DEF L!TypeOK
  <2>4. LoopFresh'
    <3>1. ~(t > loop_try)
      BY LoopTypesOf
    <3>2. QED
      BY <1>0, <1>2, <2>2, <3>1 DEF LoopInv, LoopFresh, Queued, L!Kind, L!Try
  <2>5. LoopBegins' /\ LoopPassed'
    BY <1>0, <2>2, LoopTypesOf DEF LoopInv, LoopBegins, LoopPassed, Queued
  <2>6. LoopEnds' /\ LoopThread' /\ LoopGivenUp'
    BY <1>0, <1>2 DEF LoopInv, LoopEnds, LoopThread, LoopGivenUp
  <2>7. QED
    BY <2>2, <2>3, <2>4, <2>5, <2>6 DEF LoopInv, LoopOnce
<1>3. QED
  BY <1>0, <1>1, <1>2 DEF L!Look

\* The other steps of the thread.
LEMMA ThreadStep ==
  ASSUME LoopInv, L!Result \/ L!Timeout \/ L!Cleanup PROVE LoopInv'
<1>1. CASE L!Result \/ L!Timeout
  BY <1>1 DEF L!Result, L!Timeout, L!loop, LoopInv, L!TypeOK, LoopFresh, LoopOnce, LoopBegins, LoopEnds,
              LoopThread, LoopPassed, LoopGivenUp, Queued
<1>2. CASE L!Cleanup
  <2> DEFINE t == loop_try
  <2>1. /\ L!TypeOK /\ t \in L!Try /\ loop_future[t] \in {"done", "cancelled"} /\ loop_started[t]
        /\ loop_cleaned[t] => loop_at[t] \in {"ended", "closed"}
        /\ loop_pc' = "idle" /\ loop_givenup' = loop_givenup \cup {t}
        /\ loop_overdue' = IF loop_cleaned[t] THEN loop_overdue ELSE loop_overdue \cup {t}
        /\ UNCHANGED <<loop_try, loop_queue, loop_future, loop_made, loop_started, loop_cleaned, loop_at, loop_early>>
    BY <1>2 DEF L!Cleanup, L!loop, LoopInv, LoopThread, LoopEnds
  <2>2. L!TypeOK'
    BY <2>1 DEF L!TypeOK
  <2>3. LoopGivenUp'
    BY <2>1 DEF LoopInv, LoopGivenUp
  <2>4. ~(t > loop_try)
    BY LoopTypesOf
  <2>5. LoopFresh' /\ LoopOnce' /\ LoopBegins' /\ LoopEnds' /\ LoopThread' /\ LoopPassed'
    BY <2>1, <2>4 DEF LoopInv, LoopFresh, LoopOnce, LoopBegins, LoopEnds, LoopThread, LoopPassed, Queued
  <2>6. QED
    BY <2>2, <2>3, <2>5 DEF LoopInv
<1>3. QED
  BY <1>1, <1>2

\* A coroutine ends.
LEMMA EndStep == ASSUME LoopInv, NEW t \in L!Try, L!End(t) PROVE LoopInv'
<1>0. /\ L!TypeOK /\ loop_at[t] \in {"running", "cleaning"} /\ loop_started[t]
      /\ loop_at' = [loop_at EXCEPT ![t] = "ended"] /\ loop_cleaned' = [loop_cleaned EXCEPT ![t] = TRUE]
      /\ loop_future' = [loop_future EXCEPT ![t] = IF @ = "pending" THEN "done" ELSE @]
      /\ UNCHANGED <<loop_pc, loop_try, loop_queue, loop_made, loop_started, loop_givenup, loop_overdue, loop_early>>
  BY DEF L!End, LoopInv, LoopEnds
<1>1. /\ L!TypeOK'
      /\ loop_at'[t] = "ended" /\ \A u \in L!Try : u # t => loop_at'[u] = loop_at[u]
      /\ loop_cleaned'[t] /\ \A u \in L!Try : u # t => loop_cleaned'[u] = loop_cleaned[u]
      /\ loop_future'[t] = (IF loop_future[t] = "pending" THEN "done" ELSE loop_future[t])
      /\ \A u \in L!Try : u # t => loop_future'[u] = loop_future[u]
  BY <1>0 DEF L!TypeOK
<1>2. ~(t > loop_try)
  BY <1>0 DEF LoopInv, LoopFresh
<1>3. LoopFresh' /\ LoopOnce' /\ LoopBegins'
  BY <1>0, <1>1, <1>2 DEF LoopInv, LoopFresh, LoopOnce, LoopBegins, Queued
<1>4. LoopEnds' /\ LoopThread' /\ LoopPassed'
  BY <1>0, <1>1 DEF LoopInv, LoopEnds, LoopThread, LoopPassed, Queued
<1>5. LoopGivenUp'
  BY <1>0, <1>1 DEF LoopInv, LoopGivenUp, L!TypeOK
<1>6. QED
  BY <1>1, <1>3, <1>4, <1>5 DEF LoopInv

\* The loop: a try whose callback is taken has been submitted.
LEMMA TakenIs ==
  ASSUME LoopInv, NEW k \in L!Kind, NEW t \in L!Try, L!Take(k, t)
  PROVE  /\ \A r : r = Tail(loop_queue) => Shrunk(loop_queue, r, k, t)
         /\ Queued(k, t) /\ ~(t > loop_try)
<1>1. loop_queue # << >> /\ Head(loop_queue) = <<k, t>>
  BY DEF L!Take
<1>2. ASSUME NEW r, r = Tail(loop_queue) PROVE Shrunk(loop_queue, r, k, t)
  BY <1>1, <1>2, LoopTypesOf, QueueShrinks
<1>3. Queued(k, t)
  BY <1>2 DEF Shrunk, Queued
<1>4. QED
  BY <1>2, <1>3 DEF LoopInv, LoopFresh

\* The task of a coroutine is made; its first step waits, and behind it the
\* cancellation that came before.
LEMMA MakeStep == ASSUME LoopInv, NEW t \in L!Try, L!Make(t) PROVE LoopInv'
<1> DEFINE a == Tail(loop_queue)
           b == Append(a, <<"step", t>>)
           c == Append(b, <<"cancel", t>>)
           passes == loop_future[t] = "cancelled"
<1>0. /\ L!TypeOK /\ L!Take("make", t) /\ loop_made' = [loop_made EXCEPT ![t] = TRUE]
      /\ loop_queue' = a \o <<<<"step", t>>>> \o (IF passes THEN <<<<"cancel", t>>>> ELSE << >>)
      /\ UNCHANGED <<loop_pc, loop_try, loop_future, loop_started, loop_cleaned, loop_at, loop_givenup, loop_overdue, loop_early>>
  BY DEF L!Make, L!PassedOn, LoopInv
<1>1. Shrunk(loop_queue, a, "make", t) /\ Queued("make", t) /\ ~(t > loop_try)
  BY <1>0, TakenIs, LoopTypesOf
<1>2. ~loop_made[t] /\ ~loop_started[t] /\ ~Queued("step", t)
  BY <1>1 DEF LoopInv, LoopBegins
<1>3. Grown(a, b, "step", t) /\ IsQueue(a) /\ Once(a)
  BY <1>1, LoopTypesOf, QueueGrows DEF Shrunk
<1>4. Grown(b, c, "cancel", t) /\ IsQueue(b)
  <2>1. IsQueue(b)
    BY <1>3 DEF Grown
  <2> HIDE DEF b
  <2>2. QED
    BY <2>1, LoopTypesOf, QueueGrows
<1>5. loop_queue' = IF passes THEN c ELSE b
  <2> DEFINE T == L!Kind \X L!Try
             x == <<"step", t>>
             y == <<"cancel", t>>
  <2>1. a \in Seq(T) /\ x \in T /\ y \in T
    BY <1>3, LoopTypesOf DEF IsQueue
  <2>2. loop_queue' = a \o <<x>> \o (IF passes THEN <<y>> ELSE << >>) /\ c = Append(b, y) /\ b = Append(a, x)
    BY <1>0
  <2> HIDE DEF a, b, c, x, y, T
  <2>3. a \o <<x>> = Append(a, x) /\ Append(a, x) \in Seq(T)
    BY <2>1, Appended
  <2>4. b \o <<y>> = Append(b, y) /\ b \o << >> = b
    BY <2>1, <2>2, <2>3, Appended
  <2>5. CASE passes
    BY <2>2, <2>3, <2>4, <2>5
  <2>6. CASE ~passes
    BY <2>2, <2>3, <2>4, <2>6
  <2>7. QED
    BY <2>5, <2>6
<1> HIDE DEF a, b, c
<1>6. ~In(a, "step", t) /\ ~In(a, "make", t) /\ Once(b)
  BY <1>1, <1>2, <1>3, LoopTypesOf DEF Shrunk, Queued, Grown
<1>7. /\ IsQueue(loop_queue') /\ Once(loop_queue')
      /\ \A l \in L!Kind, u \in L!Try : u # t => (In(loop_queue', l, u) <=> In(loop_queue, l, u))
      /\ In(loop_queue', "step", t) /\ ~In(loop_queue', "make", t)
      /\ passes => Behind(loop_queue', t)
      /\ \A u \in L!Try : Behind(loop_queue, u) => Behind(loop_queue', u)
      /\ In(loop_queue, "cancel", t) => In(loop_queue', "cancel", t)
  <2>1. CASE passes
    <3>1. loop_queue' = c
      BY <1>5, <2>1
    <3>2. QED
      BY <1>1, <1>3, <1>4, <1>6, <3>1, LoopTypesOf DEF Shrunk, Grown
  <2>2. CASE ~passes
    <3>1. loop_queue' = b
      BY <1>5, <2>2
    <3>2. QED
      BY <1>1, <1>3, <1>4, <1>6, <2>2, <3>1, LoopTypesOf DEF Shrunk, Grown
  <2>3. QED
    BY <2>1, <2>2
<1>8. L!TypeOK' /\ loop_made'[t] /\ \A u \in L!Try : u # t => loop_made'[u] = loop_made[u]
  BY <1>0, <1>7 DEF L!TypeOK, IsQueue
<1>9. LoopFresh'
  <2> SUFFICES ASSUME NEW u \in L!Try, u > loop_try
               PROVE  /\ ~loop_made'[u] /\ ~loop_started[u] /\ ~loop_cleaned[u] /\ loop_at[u] = "none"
                      /\ u \notin loop_givenup /\ \A k \in L!Kind : ~In(loop_queue', k, u)
    BY <1>0 DEF LoopFresh, Queued, L!Kind, L!Try
  <2>1. u # t
    BY <1>1
  <2>2. QED
    BY <1>7, <1>8, <2>1 DEF LoopInv, LoopFresh, Queued
<1>10. LoopBegins'
  BY <1>0, <1>2, <1>7, <1>8, LoopTypesOf DEF LoopInv, LoopBegins, Queued
<1>11. LoopEnds' /\ LoopThread' /\ LoopGivenUp'
  BY <1>0 DEF LoopInv, LoopEnds, LoopThread, LoopGivenUp
<1>12. LoopPassed'
  BY <1>0, <1>7, <1>8, LoopTypesOf DEF LoopInv, LoopPassed, Queued
<1>13. QED
  BY <1>7, <1>8, <1>9, <1>10, <1>11, <1>12 DEF LoopInv, LoopOnce

\* A coroutine takes its first step, or ends at once because it was closed.
LEMMA FirstStepStep == ASSUME LoopInv, NEW t \in L!Try, L!FirstStep(t) PROVE LoopInv'
<1> DEFINE r == loop_queue'
<1>0. /\ L!TypeOK /\ L!Take("step", t) /\ r = Tail(loop_queue)
      /\ loop_started' = [loop_started EXCEPT ![t] = TRUE]
      /\ UNCHANGED <<loop_pc, loop_try, loop_future, loop_made, loop_givenup, loop_overdue, loop_early>>
  BY DEF L!FirstStep, LoopInv
<1>1. Shrunk(loop_queue, r, "step", t) /\ Queued("step", t) /\ ~(t > loop_try)
  BY <1>0, TakenIs, LoopTypesOf
<1>2. loop_made[t] /\ ~loop_started[t] /\ loop_at[t] \in {"none", "closed"} /\ ~Queued("make", t)
  BY <1>0, <1>1 DEF LoopInv, LoopBegins, LoopEnds, L!TypeOK
<1>3. /\ loop_started'[t] /\ \A u \in L!Try : u # t => loop_started'[u] = loop_started[u]
      /\ loop_started' \in [L!Try -> BOOLEAN]
  BY <1>0 DEF L!TypeOK
<1>4. /\ loop_at' \in [L!Try -> {"none", "running", "cleaning", "ended", "closed"}]
      /\ loop_cleaned' \in [L!Try -> BOOLEAN]
      /\ \A u \in L!Try : u # t => loop_at'[u] = loop_at[u] /\ loop_cleaned'[u] = loop_cleaned[u]
      /\ \/ loop_at'[t] = "closed" /\ loop_cleaned'[t]
         \/ loop_at'[t] = "running" /\ loop_cleaned'[t] = loop_cleaned[t]
  BY <1>0, <1>2 DEF L!FirstStep, L!TypeOK
<1>4a. ~loop_cleaned[t] /\ loop_future[t] # "done"
  BY <1>2 DEF LoopInv, LoopEnds
<1> HIDE DEF r
<1>5. /\ IsQueue(r) /\ Once(r)
      /\ \A l \in L!Kind, u \in L!Try : u # t => (In(r, l, u) <=> In(loop_queue, l, u))
      /\ ~In(r, "step", t) /\ ~In(r, "make", t)
      /\ Behind(loop_queue, t) => In(r, "cancel", t)
      /\ \A u \in L!Try : u # t /\ Behind(loop_queue, u) => Behind(r, u)
  BY <1>1, <1>2, LoopTypesOf DEF Shrunk, Queued
<1>6. L!TypeOK'
  BY <1>0, <1>3, <1>4, <1>5 DEF L!TypeOK, IsQueue, r
<1>7. LoopFresh'
  <2> SUFFICES ASSUME NEW u \in L!Try, u > loop_try
               PROVE  /\ ~loop_made[u] /\ ~loop_started'[u] /\ ~loop_cleaned'[u] /\ loop_at'[u] = "none"
                      /\ u \notin loop_givenup /\ \A k \in L!Kind : ~In(r, k, u)
    BY <1>0 DEF LoopFresh, Queued, L!Kind, L!Try, r
  <2>1. u # t
    BY <1>1
  <2>2. QED
    BY <1>3, <1>4, <1>5, <2>1 DEF LoopInv, LoopFresh, Queued
<1>8. LoopBegins'
  BY <1>0, <1>2, <1>3, <1>5, LoopTypesOf DEF LoopInv, LoopBegins, Queued, r
<1>9. LoopEnds' /\ LoopThread'
  BY <1>0, <1>2, <1>3, <1>4, <1>4a DEF LoopInv, LoopEnds, LoopThread
<1>10. LoopPassed'
  BY <1>0, <1>2, <1>3, <1>4, <1>5, LoopTypesOf DEF LoopInv, LoopPassed, Queued, r
<1>11. LoopGivenUp'
  <2>1. \A u \in loop_givenup : u \in L!Try
    BY <1>0 DEF L!TypeOK
  <2>2. QED
    BY <1>0, <1>2, <1>3, <1>4, <2>1 DEF LoopInv, LoopGivenUp
<1>12. QED
  BY <1>5, <1>6, <1>7, <1>8, <1>9, <1>10, <1>11 DEF LoopInv, LoopOnce, r

\* A cancellation reaches its coroutine, or a coroutine is closed.
LEMMA LoopStep ==
  ASSUME LoopInv, NEW t \in L!Try, L!CancelTask(t) \/ L!Close(t) PROVE LoopInv'
<1> DEFINE r == loop_queue'
<1>0. PICK k \in {"cancel", "close"} :
        /\ L!TypeOK /\ L!Take(k, t) /\ r = Tail(loop_queue)
        /\ loop_at' = [loop_at EXCEPT ![t] =
             IF k = "cancel" THEN (IF @ = "running" THEN "cleaning" ELSE @)
                             ELSE (IF loop_started[t] THEN @ ELSE "closed")]
        /\ UNCHANGED <<loop_pc, loop_try, loop_future, loop_made, loop_started, loop_cleaned, loop_givenup, loop_overdue, loop_early>>
  BY DEF L!CancelTask, L!Close, LoopInv
<1>1. Shrunk(loop_queue, r, k, t) /\ ~(t > loop_try) /\ k \in L!Kind
  BY <1>0, TakenIs, LoopTypesOf
<1>2. /\ loop_at' \in [L!Try -> {"none", "running", "cleaning", "ended", "closed"}]
      /\ \A u \in L!Try : u # t => loop_at'[u] = loop_at[u]
      /\ loop_at'[t] = IF k = "cancel" THEN (IF loop_at[t] = "running" THEN "cleaning" ELSE loop_at[t])
                             ELSE (IF loop_started[t] THEN loop_at[t] ELSE "closed")
  BY <1>0 DEF L!TypeOK
<1> HIDE DEF r
<1>3. /\ IsQueue(r) /\ Once(r)
      /\ \A l \in L!Kind, u \in L!Try : (l # k \/ u # t) => (In(r, l, u) <=> In(loop_queue, l, u))
      /\ \A u \in L!Try : In(r, k, u) => In(loop_queue, k, u)
      /\ \A u \in L!Try : Behind(loop_queue, u) => Behind(r, u)
  <2>1. k # "step" /\ k # "make"
    BY <1>0
  <2>2. QED
    BY <1>1, <2>1 DEF Shrunk
<1>4. L!TypeOK'
  BY <1>0, <1>2, <1>3 DEF L!TypeOK, IsQueue, r
<1>5. LoopFresh'
  <2> SUFFICES ASSUME NEW u \in L!Try, u > loop_try
               PROVE  /\ ~loop_made[u] /\ ~loop_started[u] /\ ~loop_cleaned[u] /\ loop_at'[u] = "none"
                      /\ u \notin loop_givenup /\ \A l \in L!Kind : ~In(r, l, u)
    BY <1>0 DEF LoopFresh, Queued, L!Kind, L!Try, r
  <2>1. u # t
    BY <1>1
  <2>2. QED
    BY <1>2, <1>3, <2>1 DEF LoopInv, LoopFresh, Queued
<1>6. LoopBegins'
  <2>1. k # "step" /\ k # "make"
    BY <1>0
  <2>2. QED
    BY <1>0, <1>3, <2>1, LoopTypesOf DEF LoopInv, LoopBegins, Queued, r
<1>7. LoopEnds' /\ LoopThread'
  BY <1>0, <1>2 DEF LoopInv, LoopEnds, LoopThread
<1>8. LoopPassed'
  <2> SUFFICES ASSUME NEW u \in L!Try, loop_future[u] = "cancelled"
               PROVE  /\ loop_made[u] /\ ~loop_started[u] => Behind(r, u)
                      /\ loop_at'[u] = "running" => In(r, "cancel", u)
    BY <1>0 DEF LoopPassed, Queued, r
  <2>1. loop_made[u] /\ ~loop_started[u] => Behind(r, u)
    BY <1>3 DEF LoopInv, LoopPassed
  <2>2. ASSUME loop_at'[u] = "running" PROVE In(r, "cancel", u)
    <3>1. loop_at[u] = "running" /\ (u # t \/ k # "cancel")
      BY <1>0, <1>2, <2>2
    <3>2. In(loop_queue, "cancel", u)
      BY <3>1 DEF LoopInv, LoopPassed, Queued
    <3>3. QED
      BY <1>0, <1>3, <3>1, <3>2, LoopTypesOf
  <2>3. QED
    BY <2>1, <2>2
<1>9. LoopGivenUp'
  <2>1. \A u \in loop_givenup : u \in L!Try
    BY <1>0 DEF L!TypeOK
  <2>2. QED
    BY <1>0, <1>2, <2>1 DEF LoopInv, LoopGivenUp
<1>10. QED
  BY <1>3, <1>4, <1>5, <1>6, <1>7, <1>8, <1>9 DEF LoopInv, LoopOnce, r

LEMMA NextLoop == ASSUME LoopInv, [L!Next]_(L!vars) PROVE LoopInv'
<1>1. CASE L!Next
  BY <1>1, SubmitStep, CancelStep, LookStep, ThreadStep, EndStep, MakeStep, FirstStepStep, LoopStep
     DEF L!Next, L!Thread, L!Loop
<1>2. CASE UNCHANGED L!vars
  BY <1>2 DEF L!vars, L!loop, LoopInv, L!TypeOK, LoopFresh, LoopOnce, LoopBegins, LoopEnds,
              LoopThread, LoopPassed, LoopGivenUp, Queued
<1>3. QED
  BY <1>1, <1>2

LEMMA StepOfLoop ==
  ASSUME [TasksNext]_<<turn, vars, others>> PROVE [L!Next]_(L!vars)
  BY DEF TasksNext, others, loopVars, L!vars, L!loop

\* Wherever a deadline strikes, in the thread or in the loop, for any number of
\* tries: a retry does not meet the try before it unless its clean-up was
\* reported as late or it had not begun, and what was given up has its
\* cancellation in the queue as long as it works (run_coroutine).
THEOREM KeptApart == TasksSpec => []TriesAreKeptApart
<1>1. TasksInit => LoopInv
  BY InitLoop DEF TasksInit
<1>2. LoopInv /\ [TasksNext]_<<turn, vars, others>> => LoopInv'
  BY NextLoop, StepOfLoop
<1>3. LoopInv => TriesAreKeptApart
  <2> SUFFICES ASSUME LoopInv PROVE L!RetryAlone /\ L!NoneWorksOn
    BY DEF TriesAreKeptApart, L!TriesAreKeptApart
  <2>1. L!RetryAlone
    BY DEF LoopInv, LoopGivenUp, L!RetryAlone
  <2>2. ASSUME NEW t \in loop_givenup, loop_at[t] = "running" PROVE L!Contains(loop_queue, <<"cancel", t>>)
    <3>1. t \in L!Try /\ loop_future[t] = "cancelled"
      BY <2>2 DEF LoopInv, LoopGivenUp, LoopEnds, L!TypeOK
    <3>2. Queued("cancel", t)
      BY <2>2, <3>1 DEF LoopInv, LoopPassed
    <3>3. QED
      BY <3>2 DEF Queued, In, L!Contains
  <2>3. QED
    BY <2>1, <2>2 DEF L!NoneWorksOn
<1>4. QED
  BY <1>1, <1>2, <1>3, PTL DEF TasksSpec

-----------------------------------------------------------------------------
(* Daily, for any number of jobs, losses and stalls, and a key that outlives *)
(* a missed heartbeat.                                                       *)

\* Without a loss or a stall the key is that of the job that works, and has its
\* full lifetime once it was renewed.
HeldInv ==
  /\ daily_stalls = 0 => \A j \in Job : ~daily_stalled[j]
  /\ daily_losses = 0 /\ daily_stalls = 0 =>
       \A j \in Job : D!Works(j) =>
         daily_owner = j /\ (daily_renewed[j] => daily_left = Lifetime)

\* A job that has worked without its key has not renewed it since, and will
\* not find it.
AstrayInv ==
  \A j \in Job : daily_astray[j] > 0 =>
    daily_astray[j] = 1 /\ daily_pc[j] # "idle" /\ daily_owner # j /\ ~daily_renewed[j]

DailyInv == D!TypeOK /\ HeldInv /\ AstrayInv

\* The steps by name.
LEMMA StepNames ==
  /\ D!Working = {"crawl", "resume", "index", "aggregate", "answer"}
  /\ \A i \in 1..5 : D!Steps[i + 1] \in D!Working \cup {"release"}
<1>1. \A i \in 1..5 : i = 1 \/ i = 2 \/ i = 3 \/ i = 4 \/ i = 5
  OBVIOUS
<1>2. QED
  BY <1>1 DEF D!Working, D!Steps

LEMMA InitDaily == D!Init => DailyInv
  BY DailyAssumption, StepNames DEF D!Init, D!No, DailyInv, D!TypeOK, HeldInv, AstrayInv, D!Works

\* The types.
LEMMA DailyTypes == ASSUME D!TypeOK, D!Next PROVE D!TypeOK'
<1> USE DailyAssumption DEF D!TypeOK
<1>1. CASE D!Tick
  BY <1>1 DEF D!Tick, D!Lapses, D!Moves, D!No
<1>2. CASE D!Lose
  BY <1>2 DEF D!Lose
<1>3. ASSUME NEW j \in Job, D!Start(j) PROVE D!TypeOK'
  BY <1>3, StepNames DEF D!Start, D!Goto
<1>4. ASSUME NEW j \in Job, D!Proceed(j) PROVE D!TypeOK'
  BY <1>4, StepNames DEF D!Proceed, D!Goto
<1>5. ASSUME NEW j \in Job, D!Raise(j) PROVE D!TypeOK'
  BY <1>5 DEF D!Raise, D!Goto
<1>6. ASSUME NEW j \in Job, D!Release(j) PROVE D!TypeOK'
  BY <1>6 DEF D!Release, D!Leave, D!Goto
<1>7. ASSUME NEW j \in Job, D!Heartbeat(j) \/ D!HeartbeatFails(j) PROVE D!TypeOK'
  <2>1. /\ UNCHANGED <<daily_owner, daily_pc, daily_stalled, daily_losses, daily_stalls, daily_astray>>
        /\ daily_left' \in {Lifetime, daily_left}
        /\ daily_renewed' \in {daily_renewed, [daily_renewed EXCEPT ![j] = TRUE]}
        /\ daily_cancelled' \in {daily_cancelled, [daily_cancelled EXCEPT ![j] = TRUE]}
    BY <1>7 DEF D!Heartbeat, D!HeartbeatFails
  <2>2a. daily_left' \in 0..Lifetime
    <3>1. daily_left' = Lifetime \/ daily_left' = daily_left
      BY <2>1
    <3>2. QED
      BY <3>1
  <2>2b. daily_renewed' \in [Job -> BOOLEAN]
    BY <2>1
  <2>2c. daily_cancelled' \in [Job -> BOOLEAN]
    BY <2>1
  <2>2. daily_left' \in 0..Lifetime /\ daily_renewed' \in [Job -> BOOLEAN] /\ daily_cancelled' \in [Job -> BOOLEAN]
    BY <2>2a, <2>2b, <2>2c
  <2>3. QED
    BY <2>1, <2>2
<1>8. ASSUME NEW j \in Job, D!Crash(j) PROVE D!TypeOK'
  BY <1>8 DEF D!Crash, D!Leave, D!Goto
<1>9. ASSUME NEW j \in Job, D!Stall(j) PROVE D!TypeOK'
  BY <1>9 DEF D!Stall
<1>10. QED
  BY <1>1, <1>2, <1>3, <1>4, <1>5, <1>6, <1>7, <1>8, <1>9 DEF D!Next, D!Run

LEMMA DailyStep == ASSUME DailyInv, D!Next PROVE DailyInv'
<1>t. D!TypeOK'
  BY DailyTypes DEF DailyInv
<1> USE DailyAssumption, StepNames DEF DailyInv, HeldInv, AstrayInv, D!TypeOK, D!Works
<1>1. CASE D!Tick
  <2>1. HeldInv'
    <3>1. UNCHANGED <<daily_pc, daily_stalled, daily_losses, daily_stalls>>
      BY <1>1 DEF D!Tick
    <3>2. ASSUME daily_losses = 0, daily_stalls = 0, NEW j \in Job, D!Works(j)
          PROVE  daily_owner' = j /\ ~daily_renewed'[j]
      <4>1. daily_renewed[j] /\ daily_owner = j /\ daily_left = Lifetime
        BY <1>1, <3>2 DEF D!Tick, D!Moves
      <4>2. QED
        BY <1>1, <4>1 DEF D!Tick, D!Lapses, D!No
    <3>3. QED
      BY <3>1, <3>2
  <2>2. AstrayInv'
    <3> SUFFICES ASSUME NEW j \in Job, daily_astray'[j] > 0
                 PROVE  daily_astray'[j] = 1 /\ daily_pc'[j] # "idle" /\ daily_owner' # j /\ ~daily_renewed'[j]
      OBVIOUS
    <3>1. daily_owner' \in {NoJob, daily_owner} /\ daily_pc' = daily_pc /\ ~daily_renewed'[j]
      BY <1>1 DEF D!Tick, D!No
    <3>2. daily_astray'[j] = IF D!Moves(j) /\ daily_owner # j /\ daily_astray[j] < 2
                             THEN daily_astray[j] + 1 ELSE daily_astray[j]
      BY <1>1 DEF D!Tick
    <3>3. CASE daily_astray[j] > 0
      <4>1. ~D!Moves(j)
        BY <1>1, <3>3 DEF D!Tick
      <4>2. QED
        BY <3>1, <3>2, <3>3, <4>1
    <3>4. CASE ~(daily_astray[j] > 0)
      BY <3>1, <3>2, <3>4 DEF D!Moves
    <3>5. QED
      BY <3>3, <3>4
  <2>3. QED
    BY <1>t, <2>1, <2>2
<1>2. CASE D!Lose
  BY <1>t, <1>2 DEF D!Lose
<1>3. ASSUME NEW j \in Job, D!Start(j) PROVE DailyInv'
  BY <1>t, <1>3 DEF D!Start, D!Goto, D!Free
<1>4. ASSUME NEW j \in Job, D!Proceed(j) \/ D!Raise(j) PROVE DailyInv'
  <2>1. /\ D!Works(j) /\ UNCHANGED <<daily_owner, daily_left, daily_renewed, daily_cancelled, daily_stalled, daily_losses, daily_stalls, daily_astray>>
        /\ daily_pc'[j] # "idle" /\ \A i \in Job : i # j => daily_pc'[i] = daily_pc[i]
    BY <1>4 DEF D!Proceed, D!Raise, D!Moves, D!Goto
  <2>2. QED
    BY <1>t, <2>1
<1>5. ASSUME NEW j \in Job, D!Release(j) PROVE DailyInv'
  BY <1>t, <1>5 DEF D!Release, D!Leave, D!Goto, D!Deletes
<1>6. ASSUME NEW j \in Job, D!Heartbeat(j) PROVE DailyInv'
  BY <1>t, <1>6 DEF D!Heartbeat, D!Extends, D!Moves
<1>7. ASSUME NEW j \in Job, D!HeartbeatFails(j) PROVE DailyInv'
  BY <1>t, <1>7 DEF D!HeartbeatFails
<1>8. ASSUME NEW j \in Job, D!Crash(j) PROVE DailyInv'
  BY <1>t, <1>8 DEF D!Crash, D!Leave, D!Goto
<1>9. ASSUME NEW j \in Job, D!Stall(j) PROVE DailyInv'
  BY <1>t, <1>9 DEF D!Stall
<1>10. QED
  BY <1>1, <1>2, <1>3, <1>4, <1>5, <1>6, <1>7, <1>8, <1>9 DEF D!Next, D!Run

LEMMA NextDaily == ASSUME DailyInv, [D!Next]_(D!vars) PROVE DailyInv'
<1>1. CASE UNCHANGED D!vars
  BY <1>1 DEF D!vars, DailyInv, D!TypeOK, HeldInv, AstrayInv, D!Works
<1>2. QED
  BY <1>1, DailyStep

\* Only the owner of the key takes it down.
LEMMA KeyStays ==
  ASSUME DailyInv, [D!Next]_(D!vars)
  PROVE  [\A j \in Job : daily_pc[j] = "release" /\ daily_pc'[j] = "idle" /\ daily_owner # j
            => daily_owner' = daily_owner]_(D!vars)
<1> SUFFICES ASSUME D!Next, NEW j \in Job, daily_pc[j] = "release", daily_pc'[j] = "idle", daily_owner # j
             PROVE  daily_owner' = daily_owner
  BY DEF D!vars
<1> USE DEF DailyInv, D!TypeOK
<1>1. ASSUME D!Tick \/ D!Lose PROVE FALSE
  BY <1>1 DEF D!Tick, D!Lose
<1>2. ASSUME NEW i \in Job, i # j, D!Start(i) \/ D!Proceed(i) \/ D!Raise(i) \/ D!Release(i) \/ D!Crash(i) PROVE FALSE
  BY <1>2 DEF D!Start, D!Proceed, D!Raise, D!Release, D!Crash, D!Leave, D!Goto
<1>3. ASSUME NEW i \in Job, D!Heartbeat(i) \/ D!HeartbeatFails(i) \/ D!Stall(i) PROVE FALSE
  BY <1>3 DEF D!Heartbeat, D!HeartbeatFails, D!Stall
<1>4. ASSUME D!Start(j) \/ D!Proceed(j) \/ D!Raise(j) PROVE FALSE
  BY <1>4, StepNames DEF D!Start, D!Proceed, D!Raise, D!Moves, D!Works
<1>5. CASE D!Release(j) \/ D!Crash(j)
  BY <1>5 DEF D!Release, D!Crash, D!Deletes
<1>6. QED
  BY <1>1, <1>2, <1>3, <1>4, <1>5 DEF D!Next, D!Run

LEMMA StepOfDaily ==
  ASSUME [TasksNext]_<<turn, vars, others>> PROVE [D!Next]_(D!vars)
  BY DEF TasksNext, others, dailyVars, D!vars

\* However many jobs are started, crash, stall and lose their key: they overlap
\* only after a loss or a stall, a lost key is noticed within a heartbeat, and
\* a job that ends leaves the key of its successor alone (daily_update).
THEOREM Honoured == TasksSpec => LockIsHonoured
<1>1. TasksInit => DailyInv
  BY InitDaily DEF TasksInit
<1>2. DailyInv /\ [TasksNext]_<<turn, vars, others>> => DailyInv'
  BY NextDaily, StepOfDaily
<1>3. DailyInv => D!OneJob /\ D!NoticedSoon
  <2> SUFFICES ASSUME DailyInv PROVE D!OneJob /\ D!NoticedSoon
    OBVIOUS
  <2>1. D!OneJob
    BY DEF DailyInv, HeldInv, D!OneJob
  <2>2. D!NoticedSoon
    BY DEF DailyInv, AstrayInv, D!TypeOK, D!NoticedSoon
  <2>3. QED
    BY <2>1, <2>2
<1>4. DailyInv /\ [TasksNext]_<<turn, vars, others>> =>
        [\A j \in Job : daily_pc[j] = "release" /\ daily_pc'[j] = "idle" /\ daily_owner # j
            => daily_owner' = daily_owner]_(D!vars)
  BY KeyStays, StepOfDaily
<1>5. QED
  BY <1>1, <1>2, <1>3, <1>4, PTL DEF TasksSpec, LockIsHonoured, D!LockIsHonoured, D!KeepsOthersKey

-----------------------------------------------------------------------------
(* Aggregator, for any questions, scores, runs, pages and caps.             *)

\* The entry of a question, as it is in the bucket.
EntryOf(q) == <<q, agg_score[q]>>
Sorted(s) == \A i, j \in 1..Len(s) : i < j => A!Before(s[i], s[j])
Has(s, e) == \E i \in 1..Len(s) : s[i] = e

\* What a run has read is in order, and of a question that has not changed
\* since the run began it is what is there ...
RawInv ==
  \A r \in Aggregation :
    /\ Sorted(agg_raw[r]) /\ agg_steady[r] \subseteq A!Bucket
    /\ agg_pc[r] = "idle" => agg_raw[r] = << >> /\ agg_steady[r] = {}
    /\ \A i \in 1..Len(agg_raw[r]) :
         agg_raw[r][i][1] \in agg_steady[r] => agg_raw[r][i][2] = agg_score[agg_raw[r][i][1]]

\* ... such a question has been read or is still to be read ...
AheadInv ==
  \A r \in Aggregation : agg_pc[r] = "page" =>
    /\ Len(agg_raw[r]) < Cap
    /\ \A q \in agg_steady[r] :
         \/ Has(agg_raw[r], EntryOf(q))
         \/ agg_raw[r] = << >>
         \/ A!Before(agg_raw[r][Len(agg_raw[r])], EntryOf(q))

\* ... and in the end it has been read, up to the cap.
ReadInv ==
  \A r \in Aggregation : agg_pc[r] \notin {"idle", "page"} =>
    \A q \in agg_steady[r] : Has(agg_raw[r], EntryOf(q)) \/ Len(agg_raw[r]) = Cap

\* A row that was read is still there.
LoadedInv == \A r \in Aggregation : agg_loaded[r] # NoRow => agg_summary # NoRow

AggInv == A!TypeOK /\ RawInv /\ AheadInv /\ ReadInv /\ LoadedInv /\ A!OneInput

LEMMA SameCardinality == ASSUME NEW S PROVE A!Cardinality(S) = Cardinality(S)
  BY DEF A!Cardinality, Cardinality

LEMMA InputIs ==
  ASSUME NEW s PROVE s \in A!Input <=> s \in Seq(A!Entry) /\ Len(s) <= Cap
<1> USE AggregatorAssumption
<1>1. ASSUME s \in A!Input PROVE s \in Seq(A!Entry) /\ Len(s) <= Cap
  <2>1. PICK n \in 0..Cap : s \in [1..n -> A!Entry]
    BY <1>1 DEF A!Input
  <2> HIDE DEF A!Entry
  <2>2. QED
    BY <2>1
<1>2. ASSUME s \in Seq(A!Entry), Len(s) <= Cap PROVE s \in A!Input
  <2>1. s \in [1..Len(s) -> A!Entry] /\ Len(s) \in 0..Cap
    BY <1>2
  <2>2. QED
    BY <2>1 DEF A!Input
<1>3. QED
  BY <1>1, <1>2

LEMMA EmptyInput == << >> \in A!Input /\ Len(<< >>) = 0
<1>1. << >> \in Seq(A!Entry) /\ Len(<< >>) = 0
  OBVIOUS
<1>2. Len(<< >>) <= Cap
  BY <1>1, AggregatorAssumption
<1>3. QED
  BY <1>1, <1>2, InputIs

LEMMA AggTypes ==
  ASSUME A!TypeOK
  PROVE  /\ agg_score \in [Question -> 0..TopScore] /\ A!Bucket \subseteq Question
         /\ \A q \in A!Bucket : agg_score[q] \in 1..TopScore /\ q \in Nat /\ EntryOf(q) \in A!Entry
         /\ \A e \in A!Entry : e[1] \in Nat /\ e[2] \in Nat /\ e = <<e[1], e[2]>>
         /\ \A r \in Aggregation : agg_raw[r] \in Seq(A!Entry) /\ Len(agg_raw[r]) \in Nat /\ Len(agg_raw[r]) <= Cap
<1>1. \A r \in Aggregation : agg_raw[r] \in A!Input
  BY DEF A!TypeOK
<1>2. \A r \in Aggregation : agg_raw[r] \in Seq(A!Entry) /\ Len(agg_raw[r]) \in Nat /\ Len(agg_raw[r]) <= Cap
  BY <1>1, InputIs
<1>3. \A e \in A!Entry : e[1] \in Nat /\ e[2] \in Nat /\ e = <<e[1], e[2]>>
  <2> SUFFICES ASSUME NEW e \in A!Entry PROVE e[1] \in Nat /\ e[2] \in Nat /\ e = <<e[1], e[2]>>
    OBVIOUS
  <2>1. PICK q \in Question, n \in 1..TopScore : e = <<q, n>>
    BY DEF A!Entry
  <2>2. QED
    BY <2>1, AggregatorAssumption
<1>4. /\ agg_score \in [Question -> 0..TopScore] /\ A!Bucket \subseteq Question
      /\ \A q \in A!Bucket : agg_score[q] \in 1..TopScore /\ q \in Nat
  BY AggregatorAssumption DEF A!TypeOK, A!Bucket
<1>5. \A q \in A!Bucket : EntryOf(q) \in A!Entry
  BY <1>4 DEF A!Entry, EntryOf
<1>6. QED
  BY <1>2, <1>3, <1>4, <1>5

\* A set of questions in its order.
LEMMA OrderedOf ==
  ASSUME A!TypeOK, NEW Q, Q \subseteq A!Bucket, NEW s, s = A!Ordered(Q)
  PROVE  /\ s \in Seq(A!Entry) /\ Len(s) \in Nat /\ Sorted(s)
         /\ \A k \in 1..Len(s) : s[k][1] \in Q /\ s[k] = EntryOf(s[k][1])
         /\ \A q \in Q : Has(s, EntryOf(q))
<1> DEFINE R == {p \in Q \X Q : A!Before(EntryOf(p[1]), EntryOf(p[2]))}
           N == Cardinality(Q)
           t == [k \in 1..N |-> CHOOSE q \in Q : A!Cardinality(A!Leading(Q, q)) = k - 1]
<1>1. IsFiniteSet(Q) /\ \A q \in Q : q \in Nat /\ agg_score[q] \in Nat /\ EntryOf(q) \in A!Entry
  <2>1. Q \subseteq Question
    BY AggTypes
  <2>2. QED
    BY <2>1, AggTypes, AggregatorAssumption, FS_Subset
<1>2. Orders(R, Q)
  <2>1. \A x, y \in Q :
          <<x, y>> \in R <=> (agg_score[x] > agg_score[y] \/ (agg_score[x] = agg_score[y] /\ x > y))
    BY DEF A!Before, EntryOf
  <2> HIDE DEF R
  <2>2. \A x \in Q : <<x, x>> \notin R
    BY <1>1, <2>1
  <2>3. \A x, y, z \in Q : <<x, y>> \in R /\ <<y, z>> \in R => <<x, z>> \in R
    BY <1>1, <2>1
  <2>4. \A x, y \in Q : x # y => <<x, y>> \in R \/ <<y, x>> \in R
    BY <1>1, <2>1
  <2>5. QED
    BY <2>2, <2>3, <2>4 DEF Orders
<1>3. \A q \in Q : A!Leading(Q, q) = Below(Q, R, q)
  BY DEF A!Leading, Below, EntryOf
<1>4. s = [k \in 1..N |-> EntryOf(t[k])]
  BY SameCardinality DEF A!Ordered, EntryOf
<1>5. \A k \in 1..N : \E q \in Q : Cardinality(Below(Q, R, q)) = k - 1
  BY <1>1, <1>2, RankIs
<1>6. \A k \in 1..N : t[k] \in Q /\ Cardinality(Below(Q, R, t[k])) = k - 1
  <2> SUFFICES ASSUME NEW k \in 1..N PROVE t[k] \in Q /\ Cardinality(Below(Q, R, t[k])) = k - 1
    OBVIOUS
  <2>1. \E q \in Q : A!Cardinality(A!Leading(Q, q)) = k - 1
    BY <1>3, <1>5, SameCardinality
  <2>2. t[k] \in Q /\ A!Cardinality(A!Leading(Q, t[k])) = k - 1
    BY <2>1
  <2>3. QED
    BY <1>3, <2>2, SameCardinality
<1>7. t = [k \in 1..N |-> t[k]]
  OBVIOUS
<1> HIDE DEF t, R
<1>8. /\ t \in Seq(Q) /\ Len(t) = N /\ N \in Nat
      /\ \A x \in Q : \E k \in 1..Len(t) : t[k] = x
      /\ \A i, j \in 1..Len(t) : i < j => <<t[i], t[j]>> \in R
  BY <1>1, <1>2, <1>6, <1>7, InOrder
<1> HIDE DEF N
<1>9. s \in Seq(A!Entry) /\ Len(s) = N /\ \A k \in 1..N : s[k] = EntryOf(t[k])
  <2>1. s \in [1..N -> A!Entry]
    BY <1>1, <1>4, <1>6
  <2> HIDE DEF A!Entry
  <2>2. QED
    BY <1>4, <1>8, <2>1
<1>10. Sorted(s)
  <2> SUFFICES ASSUME NEW i \in 1..N, NEW j \in 1..N, i < j PROVE A!Before(s[i], s[j])
    BY <1>9 DEF Sorted
  <2>1. <<t[i], t[j]>> \in R
    BY <1>8
  <2>2. A!Before(EntryOf(t[i]), EntryOf(t[j]))
    BY <2>1 DEF R
  <2>3. QED
    BY <1>9, <2>2
<1>11. \A q \in Q : Has(s, EntryOf(q))
  BY <1>8, <1>9 DEF Has
<1>12. \A k \in 1..N : s[k][1] \in Q /\ s[k] = EntryOf(s[k][1])
  <2>1. \A k \in 1..N : t[k] \in Q /\ s[k] = EntryOf(t[k]) /\ EntryOf(t[k])[1] = t[k]
    BY <1>6, <1>9 DEF EntryOf
  <2>2. QED
    BY <1>9, <2>1
<1>13. QED
  BY <1>8, <1>9, <1>10, <1>11, <1>12

\* z is q, and behind it p, the first n of s.
Continues(T, q, s, n, p, z) ==
  /\ p \in Seq(T) /\ Len(q) \in Nat /\ Len(p) = n /\ z \in Seq(T) /\ Len(z) = Len(q) + n
  /\ \A i \in 1..Len(q) : z[i] = q[i]
  /\ \A i \in 1..n : z[Len(q) + i] = s[i]

LEMMA PrefixBehind ==
  ASSUME NEW T, NEW q \in Seq(T), NEW s \in Seq(T), NEW n \in 0..Len(s),
         NEW p, p = SubSeq(s, 1, n), NEW z, z = q \o p
  PROVE  Continues(T, q, s, n, p, z)
<1>1. p \in Seq(T) /\ Len(p) = n /\ \A i \in 1..n : p[i] = s[i]
  OBVIOUS
<1>2. ASSUME NEW u \in Seq(T), NEW v \in Seq(T)
      PROVE  /\ Len(u) \in Nat /\ u \o v \in Seq(T) /\ Len(u \o v) = Len(u) + Len(v)
             /\ \A i \in 1..Len(u) : (u \o v)[i] = u[i]
             /\ \A i \in 1..Len(v) : (u \o v)[Len(u) + i] = v[i]
  OBVIOUS
<1>3. QED
  BY <1>1, <1>2 DEF Continues

\* A page: what comes next in the bucket, as far as the page and the cap go.
LEMMA PageRead ==
  ASSUME A!TypeOK, NEW r \in Aggregation, agg_pc[r] = "page", A!Page(r), NEW old, old = agg_raw[r],
         Sorted(old), Len(old) < Cap,
         NEW new, new = agg_raw'[r]
  PROVE  /\ agg_raw' = [agg_raw EXCEPT ![r] = new] /\ new \in A!Input /\ Sorted(new)
         /\ agg_pc' \in {[agg_pc EXCEPT ![r] = "check"], [agg_pc EXCEPT ![r] = "page"]}
         /\ agg_pc'[r] = "page" => Len(new) < Cap
         /\ Len(old) <= Len(new)
         /\ \A i \in 1..Len(old) : new[i] = old[i]
         /\ \A i \in 1..Len(new) : i > Len(old) => new[i][2] = agg_score[new[i][1]]
         /\ \A q \in A!Bucket :
              old = << >> \/ A!Before(old[Len(old)], EntryOf(q)) =>
                \/ Has(new, EntryOf(q))
                \/ Len(new) = Cap
                \/ agg_pc'[r] = "page" /\ new # << >> /\ A!Before(new[Len(new)], EntryOf(q))
<1> DEFINE Q == A!Rest(r)
           s == A!Ordered(Q)
           m == A!Limit(r)
           n == IF Len(s) < m THEN Len(s) ELSE m
           p == SubSeq(s, 1, n)
<1>1. /\ agg_raw' = [agg_raw EXCEPT ![r] = old \o p]
      /\ agg_pc' = [agg_pc EXCEPT ![r] = IF Len(p) < m \/ Len(agg_raw'[r]) = Cap THEN "check" ELSE "page"]
  BY DEF A!Page, A!Goto
<1>2. Q \subseteq A!Bucket
  BY DEF A!Rest
<1>3. \A q \in A!Bucket : (old = << >> \/ A!Before(old[Len(old)], EntryOf(q))) <=> q \in Q
  BY DEF A!Rest, A!After, A!Last, EntryOf
<1>4. old \in Seq(A!Entry) /\ Len(old) \in Nat
  BY AggTypes
<1>5. /\ m \in Nat /\ m >= 1 /\ m <= Cap - Len(old)
      /\ Cap \in Nat
  <2>1. Cap \in Nat /\ PageSize \in Nat /\ PageSize >= 1
    BY AggregatorAssumption
  <2>2. m = IF PageSize < Cap - Len(old) THEN PageSize ELSE Cap - Len(old)
    BY DEF A!Limit
  <2>3. ASSUME NEW a \in Nat, NEW b \in Nat, NEW c \in Nat, a >= 1, c < b,
               NEW x, x = IF a < b - c THEN a ELSE b - c
        PROVE  x \in Nat /\ x >= 1 /\ x <= b - c
    BY <2>3
  <2> HIDE DEF m
  <2>4. QED
    BY <1>4, <2>1, <2>2, <2>3
<1>6. /\ s \in Seq(A!Entry) /\ Len(s) \in Nat /\ Sorted(s)
      /\ \A k \in 1..Len(s) : s[k][1] \in Q /\ s[k] = EntryOf(s[k][1])
      /\ \A q \in Q : Has(s, EntryOf(q))
  BY <1>2, OrderedOf
<1> HIDE DEF Q, s, m
<1>7. new = old \o p /\ n \in 0..Len(s) /\ n \in Nat /\ n <= m /\ (n < m => n = Len(s))
  BY <1>1, <1>5, <1>6 DEF A!TypeOK
<1> HIDE DEF n
<1>7a. p = SubSeq(s, 1, n)
  OBVIOUS
<1> HIDE DEF p
<1>8a. Continues(A!Entry, old, s, n, p, new)
  BY <1>4, <1>6, <1>7, <1>7a, PrefixBehind
<1>8. /\ Len(p) = n /\ new \in Seq(A!Entry) /\ Len(new) = Len(old) + n
      /\ \A i \in 1..Len(old) : new[i] = old[i]
      /\ \A i \in 1..n : new[Len(old) + i] = s[i]
  BY <1>8a DEF Continues
<1>9. /\ n \in Nat /\ Len(new) <= Cap /\ new \in A!Input
      /\ agg_raw' = [agg_raw EXCEPT ![r] = new]
      /\ agg_pc' = [agg_pc EXCEPT ![r] = IF n < m \/ Len(new) = Cap THEN "check" ELSE "page"]
  <2>1. agg_raw' = [agg_raw EXCEPT ![r] = new]
    BY <1>1, <1>7
  <2>2. n \in Nat /\ Len(new) <= Cap
    BY <1>4, <1>5, <1>7, <1>8
  <2>3. new \in A!Input
    BY <1>8, <2>2, InputIs
  <2>4. agg_pc' = [agg_pc EXCEPT ![r] = IF n < m \/ Len(new) = Cap THEN "check" ELSE "page"]
    BY <1>1, <1>8
  <2>5. QED
    BY <2>1, <2>2, <2>3, <2>4
<1>9a. agg_pc'[r] = IF n < m \/ Len(new) = Cap THEN "check" ELSE "page"
  BY <1>9 DEF A!TypeOK
<1>10. \A i \in 1..Len(new) : i > Len(old) => i - Len(old) \in 1..n /\ new[i] = s[i - Len(old)]
  <2> SUFFICES ASSUME NEW i \in 1..Len(new), i > Len(old)
               PROVE  i - Len(old) \in 1..n /\ new[i] = s[i - Len(old)]
    OBVIOUS
  <2>1. i - Len(old) \in 1..n /\ Len(old) + (i - Len(old)) = i
    BY <1>4, <1>8, <1>9
  <2>2. QED
    BY <1>8, <2>1
<1>11. \A i \in 1..Len(new) : i > Len(old) => new[i][2] = agg_score[new[i][1]]
  <2> SUFFICES ASSUME NEW i \in 1..Len(new), i > Len(old) PROVE new[i][2] = agg_score[new[i][1]]
    OBVIOUS
  <2>1. i - Len(old) \in 1..Len(s) /\ new[i] = s[i - Len(old)]
    BY <1>6, <1>7, <1>10
  <2>1a. new[i] = EntryOf(new[i][1])
    BY <1>6, <2>1
  <2>2. QED
    BY <2>1a DEF EntryOf
<1>12. ASSUME NEW e \in A!Entry, NEW f \in A!Entry, NEW g \in A!Entry, A!Before(e, f), A!Before(f, g)
       PROVE  A!Before(e, g)
  <2>1. /\ e[1] \in Nat /\ e[2] \in Nat /\ f[1] \in Nat /\ f[2] \in Nat /\ g[1] \in Nat /\ g[2] \in Nat
    BY AggTypes
  <2>2. QED
    BY <1>12, <2>1 DEF A!Before
<1>13. ASSUME NEW i \in 1..Len(old), NEW k \in 1..n PROVE A!Before(old[i], s[k])
  <2>1. Len(old) >= 1 /\ old # << >> /\ Len(old) \in 1..Len(old)
    BY <1>4
  <2>2. s[k][1] \in Q /\ s[k] = EntryOf(s[k][1]) /\ s[k] \in A!Entry
    BY <1>6, <1>7
  <2>3. A!Before(old[Len(old)], s[k])
    BY <1>2, <1>3, <2>1, <2>2
  <2>4. i = Len(old) \/ A!Before(old[i], old[Len(old)])
    BY <1>4, <2>1 DEF Sorted
  <2>5. old[i] \in A!Entry /\ old[Len(old)] \in A!Entry
    BY <1>4, <2>1
  <2>6. QED
    BY <1>12, <2>2, <2>3, <2>4, <2>5
<1>14. Sorted(new)
  <2> SUFFICES ASSUME NEW i \in 1..Len(new), NEW j \in 1..Len(new), i < j PROVE A!Before(new[i], new[j])
    BY DEF Sorted
  <2>1. CASE j <= Len(old)
    <3>1. i \in 1..Len(old) /\ j \in 1..Len(old)
      BY <1>4, <1>8, <1>9, <2>1
    <3>2. QED
      BY <1>8, <3>1 DEF Sorted
  <2>2. CASE i <= Len(old) /\ j > Len(old)
    <3>1. i \in 1..Len(old) /\ new[i] = old[i] /\ j - Len(old) \in 1..n /\ new[j] = s[j - Len(old)]
      BY <1>4, <1>8, <1>9, <1>10, <2>2
    <3>2. QED
      BY <1>13, <3>1
  <2>3. CASE i > Len(old)
    <3>1. j > Len(old) /\ i - Len(old) < j - Len(old)
      BY <1>4, <1>8, <1>9, <2>3
    <3>2. /\ i - Len(old) \in 1..n /\ new[i] = s[i - Len(old)]
          /\ j - Len(old) \in 1..n /\ new[j] = s[j - Len(old)]
      BY <1>10, <2>3, <3>1
    <3>3. i - Len(old) \in 1..Len(s) /\ j - Len(old) \in 1..Len(s)
      BY <1>6, <1>7, <3>2
    <3>4. QED
      BY <1>6, <3>1, <3>2, <3>3 DEF Sorted
  <2>4. QED
    BY <1>4, <1>8, <1>9, <2>1, <2>2, <2>3
<1>15. ASSUME NEW q \in A!Bucket, q \in Q
       PROVE  \/ Has(new, EntryOf(q))
              \/ Len(new) = Cap
              \/ agg_pc'[r] = "page" /\ new # << >> /\ A!Before(new[Len(new)], EntryOf(q))
  <2>1. PICK k \in 1..Len(s) : s[k] = EntryOf(q)
    BY <1>6, <1>15 DEF Has
  <2>2. CASE k <= n
    <3>1. k \in 1..n /\ Len(old) + k \in 1..Len(new) /\ new[Len(old) + k] = s[k]
      BY <1>4, <1>6, <1>8, <1>9, <2>2
    <3>2. QED
      BY <2>1, <3>1 DEF Has
  <2>3. CASE k > n /\ Len(new) # Cap
    <3>1. n = m /\ n >= 1 /\ n < k /\ n \in 1..Len(s)
      BY <1>5, <1>6, <1>7, <1>9, <2>3
    <3>2. agg_pc'[r] = "page"
      BY <1>5, <1>9a, <2>3, <3>1
    <3>3. Len(new) \in 1..Len(new) /\ Len(new) > Len(old) /\ new # << >> /\ Len(new) - Len(old) = n
      BY <1>4, <1>8, <1>9, <3>1
    <3>4. new[Len(new)] = s[n]
      BY <1>10, <3>3
    <3>5. A!Before(s[n], s[k])
      BY <1>6, <3>1 DEF Sorted
    <3>6. QED
      BY <2>1, <3>2, <3>3, <3>4, <3>5
  <2>4. QED
    BY <1>6, <1>9, <2>2, <2>3
<1>16. agg_pc'[r] = "page" => Len(new) < Cap
  BY <1>4, <1>5, <1>8, <1>9, <1>9a
<1>17. agg_pc' \in {[agg_pc EXCEPT ![r] = "check"], [agg_pc EXCEPT ![r] = "page"]}
  BY <1>9
<1>18. Len(old) <= Len(new)
  BY <1>4, <1>8, <1>9
<1>19. QED
  BY <1>3, <1>8, <1>9, <1>11, <1>14, <1>15, <1>16, <1>17, <1>18

LEMMA InitAgg == A!Init => AggInv
<1> SUFFICES ASSUME A!Init PROVE AggInv
  OBVIOUS
<1>1. << >> \in A!Input /\ Len(<< >>) = 0
  BY EmptyInput
<1>2. A!TypeOK
  <2>1. agg_score \in [Question -> 0..TopScore] /\ agg_edits \in 0..MaxEdits /\ agg_faults \in 0..MaxFailures
    BY AggregatorAssumption DEF A!Init
  <2>2. agg_pc \in [Aggregation -> A!Place] /\ agg_steady \in [Aggregation -> SUBSET Question] /\ agg_mixed \in BOOLEAN
    BY DEF A!Init, A!Place
  <2>3. agg_raw \in [Aggregation -> A!Input]
    <3>1. << >> \in A!Input /\ agg_raw = [r \in Aggregation |-> << >>]
      BY <1>1 DEF A!Init
    <3> HIDE DEF A!Input
    <3>2. QED
      BY <3>1
  <2>4. agg_summary = NoRow /\ \A r \in Aggregation : agg_loaded[r] = NoRow
    BY DEF A!Init
  <2>5. QED
    BY <2>1, <2>2, <2>3, <2>4 DEF A!TypeOK
<1>3. RawInv
  BY <1>1 DEF A!Init, RawInv, Sorted
<1>4. AheadInv /\ ReadInv /\ LoadedInv /\ A!OneInput
  BY DEF A!Init, AheadInv, ReadInv, LoadedInv, A!OneInput
<1>5. QED
  BY <1>2, <1>3, <1>4 DEF AggInv

\* A step of one run that leaves what it and the others have read.
LEMMA AggMoves ==
  ASSUME AggInv, A!TypeOK', A!OneInput', LoadedInv', NEW r \in Aggregation, agg_pc[r] \notin {"idle", "page"},
         NEW l \in A!Place, l \notin {"idle", "page"}, agg_pc' = [agg_pc EXCEPT ![r] = l],
         UNCHANGED <<agg_score, agg_raw, agg_steady>>
  PROVE  AggInv'
<1>1. \A x \in Aggregation : IF x = r THEN agg_pc'[x] = l ELSE agg_pc'[x] = agg_pc[x]
  BY DEF AggInv, A!TypeOK
<1>2. UNCHANGED A!Bucket /\ \A q : EntryOf(q)' = EntryOf(q)
  BY DEF A!Bucket, EntryOf
<1>3. RawInv'
  BY <1>1, <1>2 DEF AggInv, RawInv, Sorted, A!Before
<1>4. AheadInv'
  BY <1>1, <1>2 DEF AggInv, AheadInv, Has, A!Before
<1>5. ReadInv'
  BY <1>1, <1>2 DEF AggInv, ReadInv, Has
<1>6. QED
  BY <1>3, <1>4, <1>5 DEF AggInv

\* A run that ends.
LEMMA AggCloses ==
  ASSUME AggInv, A!TypeOK', A!OneInput', LoadedInv', NEW r \in Aggregation, A!Close(r), UNCHANGED agg_score
  PROVE  AggInv'
<1>1. \A x \in Aggregation : IF x = r THEN agg_pc'[x] = "idle" /\ agg_raw'[x] = << >> /\ agg_steady'[x] = {}
                     ELSE agg_pc'[x] = agg_pc[x] /\ agg_raw'[x] = agg_raw[x] /\ agg_steady'[x] = agg_steady[x]
  BY DEF AggInv, A!TypeOK, A!Close, A!Goto
<1>2. UNCHANGED A!Bucket /\ \A q : EntryOf(q)' = EntryOf(q)
  BY DEF A!Bucket, EntryOf
<1>2a. Sorted(<< >>) /\ Len(<< >>) = 0
  BY DEF Sorted
<1>3. RawInv'
  <2> SUFFICES ASSUME NEW x \in Aggregation
      PROVE /\ Sorted(agg_raw'[x]) /\ agg_steady'[x] \subseteq A!Bucket
            /\ agg_pc'[x] = "idle" => agg_raw'[x] = << >> /\ agg_steady'[x] = {}
            /\ \A i \in 1..Len(agg_raw'[x]) :
                 agg_raw'[x][i][1] \in agg_steady'[x] => agg_raw'[x][i][2] = agg_score[agg_raw'[x][i][1]]
    BY <1>2 DEF RawInv, Sorted, A!Before
  <2>1. CASE x = r
    BY <1>1, <1>2a, <2>1
  <2>2. CASE x # r
    BY <1>1, <2>2 DEF AggInv, RawInv
  <2>3. QED
    BY <2>1, <2>2
<1>4. AheadInv'
  BY <1>1, <1>2 DEF AggInv, AheadInv, Has, A!Before
<1>5. ReadInv'
  BY <1>1, <1>2 DEF AggInv, ReadInv, Has
<1>6. QED
  BY <1>3, <1>4, <1>5 DEF AggInv

LEMMA AggPage == ASSUME AggInv, NEW r \in Aggregation, A!Page(r) PROVE AggInv'
<1> DEFINE old == agg_raw[r]
           new == agg_raw'[r]
<1>0. /\ A!TypeOK /\ agg_pc[r] = "page" /\ Sorted(old) /\ Len(old) < Cap
      /\ UNCHANGED <<agg_score, agg_summary, agg_loaded, agg_edits, agg_faults, agg_steady, agg_mixed>>
  BY DEF AggInv, RawInv, AheadInv, A!Page
<1>1. /\ agg_raw' = [agg_raw EXCEPT ![r] = new] /\ new \in A!Input /\ Sorted(new)
      /\ agg_pc' \in {[agg_pc EXCEPT ![r] = "check"], [agg_pc EXCEPT ![r] = "page"]}
      /\ agg_pc'[r] = "page" => Len(new) < Cap
      /\ Len(old) <= Len(new)
      /\ \A i \in 1..Len(old) : new[i] = old[i]
      /\ \A i \in 1..Len(new) : i > Len(old) => new[i][2] = agg_score[new[i][1]]
      /\ \A q \in A!Bucket :
           old = << >> \/ A!Before(old[Len(old)], EntryOf(q)) =>
             \/ Has(new, EntryOf(q))
             \/ Len(new) = Cap
             \/ agg_pc'[r] = "page" /\ new # << >> /\ A!Before(new[Len(new)], EntryOf(q))
  BY <1>0, PageRead
<1>2. Len(old) \in Nat /\ Len(new) \in Nat
  BY <1>0, <1>1, AggTypes, InputIs
<1>3. /\ agg_pc'[r] \in {"check", "page"}
      /\ \A x \in Aggregation : x # r => agg_pc'[x] = agg_pc[x] /\ agg_raw'[x] = agg_raw[x]
  BY <1>0, <1>1 DEF A!TypeOK
<1> HIDE DEF old, new
<1>4. A!TypeOK'
  <2>1. agg_raw' \in [Aggregation -> A!Input]
    BY <1>0, <1>1 DEF A!TypeOK
  <2>2. agg_pc' \in [Aggregation -> A!Place]
    BY <1>0, <1>1 DEF A!TypeOK, A!Place
  <2>3. UNCHANGED <<A!Row, A!Input>>
    BY DEF A!Row, A!Input
  <2>4. QED
    BY <1>0, <2>1, <2>2, <2>3 DEF A!TypeOK
<1>5. UNCHANGED A!Bucket /\ \A q : EntryOf(q)' = EntryOf(q)
  BY <1>0 DEF A!Bucket, EntryOf
<1>6. agg_steady'[r] = agg_steady[r] /\ agg_steady[r] \subseteq A!Bucket
  BY <1>0 DEF AggInv, RawInv
<1>7. \A i \in 1..Len(new) : new[i][1] \in agg_steady[r] => new[i][2] = agg_score[new[i][1]]
  <2> SUFFICES ASSUME NEW i \in 1..Len(new), new[i][1] \in agg_steady[r], i <= Len(old)
               PROVE  new[i][2] = agg_score[new[i][1]]
    BY <1>1, <1>2
  <2>1. i \in 1..Len(old) /\ new[i] = old[i]
    BY <1>1, <1>2
  <2>2. QED
    BY <2>1 DEF AggInv, RawInv, old
<1>8. ASSUME NEW q \in agg_steady[r]
      PROVE  \/ Has(new, EntryOf(q))
             \/ Len(new) = Cap
             \/ agg_pc'[r] = "page" /\ new # << >> /\ A!Before(new[Len(new)], EntryOf(q))
  <2>1. Has(old, EntryOf(q)) \/ old = << >> \/ A!Before(old[Len(old)], EntryOf(q))
    BY <1>0 DEF AggInv, AheadInv, old
  <2>2. Has(old, EntryOf(q)) => Has(new, EntryOf(q))
    BY <1>1, <1>2 DEF Has
  <2>3. QED
    BY <1>1, <1>6, <2>1, <2>2
<1>9. RawInv'
  <2> SUFFICES ASSUME NEW x \in Aggregation
      PROVE /\ Sorted(agg_raw'[x]) /\ agg_steady'[x] \subseteq A!Bucket
            /\ agg_pc'[x] = "idle" => agg_raw'[x] = << >> /\ agg_steady'[x] = {}
            /\ \A i \in 1..Len(agg_raw'[x]) :
                 agg_raw'[x][i][1] \in agg_steady'[x] => agg_raw'[x][i][2] = agg_score[agg_raw'[x][i][1]]
    BY <1>0, <1>5 DEF RawInv, Sorted, A!Before
  <2>1. CASE x = r
    BY <1>1, <1>3, <1>6, <1>7, <2>1 DEF new
  <2>2. CASE x # r
    BY <1>0, <1>3, <2>2 DEF AggInv, RawInv
  <2>3. QED
    BY <2>1, <2>2
<1>10. AheadInv'
  <2> SUFFICES ASSUME NEW x \in Aggregation, agg_pc'[x] = "page"
      PROVE  /\ Len(agg_raw'[x]) < Cap
             /\ \A q \in agg_steady'[x] :
                  \/ Has(agg_raw'[x], EntryOf(q))
                  \/ agg_raw'[x] = << >>
                  \/ A!Before(agg_raw'[x][Len(agg_raw'[x])], EntryOf(q))
    BY <1>5 DEF AheadInv, Has, A!Before
  <2>1. CASE x = r
    <3>1. Len(new) < Cap /\ Len(new) # Cap
      BY <1>1, <1>2, <2>1, AggregatorAssumption
    <3>2. QED
      BY <1>6, <1>8, <2>1, <3>1 DEF new
  <2>2. CASE x # r
    BY <1>0, <1>3, <2>2 DEF AggInv, AheadInv
  <2>3. QED
    BY <2>1, <2>2
<1>11. ReadInv'
  <2> SUFFICES ASSUME NEW x \in Aggregation, agg_pc'[x] \notin {"idle", "page"}
      PROVE  \A q \in agg_steady'[x] : Has(agg_raw'[x], EntryOf(q)) \/ Len(agg_raw'[x]) = Cap
    BY <1>5 DEF ReadInv, Has
  <2>1. CASE x = r
    BY <1>6, <1>8, <2>1 DEF new
  <2>2. CASE x # r
    BY <1>0, <1>3, <2>2 DEF AggInv, ReadInv
  <2>3. QED
    BY <2>1, <2>2
<1>12. A!OneInput' /\ LoadedInv'
  BY <1>0 DEF AggInv, A!OneInput, A!Whole, LoadedInv
<1>13. QED
  BY <1>4, <1>9, <1>10, <1>11, <1>12 DEF AggInv

LEMMA AggEdit == ASSUME AggInv, NEW q \in Question, NEW s \in 0..TopScore, A!Edit(q, s) PROVE AggInv'
<1>0. /\ agg_score' = [agg_score EXCEPT ![q] = s] /\ agg_steady' = [r \in Aggregation |-> agg_steady[r] \ {q}]
      /\ agg_edits' = agg_edits + 1 /\ agg_edits < MaxEdits
      /\ UNCHANGED <<agg_summary, agg_pc, agg_raw, agg_loaded, agg_faults, agg_mixed>>
  BY DEF A!Edit, A!runs
<1>1. A!TypeOK /\ RawInv /\ AheadInv /\ ReadInv /\ LoadedInv /\ A!OneInput
  BY DEF AggInv
<1>2. A!TypeOK'
  <2>1. agg_score' \in [Question -> 0..TopScore] /\ agg_edits' \in 0..MaxEdits
    BY <1>0, <1>1, AggregatorAssumption DEF A!TypeOK
  <2>2. agg_steady' \in [Aggregation -> SUBSET Question]
    BY <1>0, <1>1 DEF A!TypeOK
  <2>3. UNCHANGED <<A!Row, A!Input>>
    BY DEF A!Row, A!Input
  <2>4. QED
    BY <1>0, <1>1, <2>1, <2>2, <2>3 DEF A!TypeOK
<1>3. \A r \in Aggregation : agg_steady'[r] = agg_steady[r] \ {q}
  BY <1>0
<1>4. \A p \in Question : p # q => agg_score'[p] = agg_score[p] /\ EntryOf(p)' = EntryOf(p)
  BY <1>0, <1>1 DEF A!TypeOK, EntryOf
<1>5. \A r \in Aggregation : \A p \in agg_steady'[r] :
         p \in agg_steady[r] /\ p \in Question /\ agg_score'[p] = agg_score[p] /\ EntryOf(p)' = EntryOf(p)
  <2>1. \A r \in Aggregation : \A p \in agg_steady[r] : p \in Question
    BY <1>1 DEF A!TypeOK
  <2>2. QED
    BY <1>3, <1>4, <2>1
<1>6. RawInv'
  <2> SUFFICES ASSUME NEW x \in Aggregation
      PROVE /\ Sorted(agg_raw[x]) /\ agg_steady'[x] \subseteq A!Bucket'
            /\ agg_pc[x] = "idle" => agg_raw[x] = << >> /\ agg_steady'[x] = {}
            /\ \A i \in 1..Len(agg_raw[x]) :
                 agg_raw[x][i][1] \in agg_steady'[x] => agg_raw[x][i][2] = agg_score'[agg_raw[x][i][1]]
    BY <1>0 DEF RawInv, Sorted, A!Before
  <2>1. agg_steady'[x] \subseteq A!Bucket'
    BY <1>1, <1>5 DEF RawInv, A!Bucket
  <2>2. agg_pc[x] = "idle" => agg_raw[x] = << >> /\ agg_steady'[x] = {}
    BY <1>1, <1>3 DEF RawInv
  <2>3. QED
    BY <1>1, <1>5, <2>1, <2>2 DEF RawInv
<1>7. AheadInv'
  BY <1>0, <1>1, <1>5 DEF AheadInv, Has, A!Before
<1>8. ReadInv'
  BY <1>0, <1>1, <1>5 DEF ReadInv, Has
<1>9. A!OneInput' /\ LoadedInv'
  BY <1>0, <1>1 DEF A!OneInput, A!Whole, LoadedInv
<1>10. QED
  BY <1>2, <1>6, <1>7, <1>8, <1>9 DEF AggInv

LEMMA AggStart == ASSUME AggInv, NEW r \in Aggregation, A!Start(r) PROVE AggInv'
<1>0. /\ agg_pc[r] = "idle" /\ agg_pc' = [agg_pc EXCEPT ![r] = "page"]
      /\ agg_steady' = [agg_steady EXCEPT ![r] = A!Bucket]
      /\ UNCHANGED <<agg_score, agg_summary, agg_raw, agg_loaded, agg_edits, agg_faults, agg_mixed>>
  BY DEF A!Start, A!Goto
<1>1. A!TypeOK /\ RawInv /\ AheadInv /\ ReadInv /\ LoadedInv /\ A!OneInput
  BY DEF AggInv
<1>2. /\ agg_pc'[r] = "page" /\ agg_steady'[r] = A!Bucket /\ agg_raw[r] = << >> /\ Len(agg_raw[r]) = 0
      /\ \A x \in Aggregation : x # r => agg_pc'[x] = agg_pc[x] /\ agg_steady'[x] = agg_steady[x]
  <2>1. agg_raw[r] = << >>
    BY <1>0, <1>1 DEF RawInv
  <2>2. QED
    BY <1>0, <1>1, <2>1 DEF A!TypeOK
<1>3. UNCHANGED A!Bucket /\ \A q : EntryOf(q)' = EntryOf(q)
  BY <1>0 DEF A!Bucket, EntryOf
<1>4. A!TypeOK'
  <2>1. agg_pc' \in [Aggregation -> A!Place] /\ agg_steady' \in [Aggregation -> SUBSET Question]
    BY <1>0, <1>1, AggTypes DEF A!TypeOK, A!Place
  <2>2. UNCHANGED <<A!Row, A!Input>>
    BY DEF A!Row, A!Input
  <2>3. QED
    BY <1>0, <1>1, <2>1, <2>2 DEF A!TypeOK
<1>5. RawInv'
  <2> SUFFICES ASSUME NEW x \in Aggregation
      PROVE /\ Sorted(agg_raw[x]) /\ agg_steady'[x] \subseteq A!Bucket
            /\ agg_pc'[x] = "idle" => agg_raw[x] = << >> /\ agg_steady'[x] = {}
            /\ \A i \in 1..Len(agg_raw[x]) :
                 agg_raw[x][i][1] \in agg_steady'[x] => agg_raw[x][i][2] = agg_score[agg_raw[x][i][1]]
    BY <1>0, <1>3 DEF RawInv, Sorted, A!Before
  <2>1. CASE x = r
    BY <1>1, <1>2, <2>1 DEF RawInv
  <2>2. CASE x # r
    BY <1>1, <1>2, <2>2 DEF RawInv
  <2>3. QED
    BY <2>1, <2>2
<1>6. AheadInv'
  <2>1. Len(agg_raw[r]) < Cap
    BY <1>2, AggregatorAssumption
  <2>2. QED
    BY <1>0, <1>1, <1>2, <1>3, <2>1 DEF AheadInv, Has, A!Before
<1>7. ReadInv'
  BY <1>0, <1>1, <1>2, <1>3 DEF ReadInv, Has
<1>8. A!OneInput' /\ LoadedInv'
  BY <1>0, <1>1 DEF A!OneInput, A!Whole, LoadedInv
<1>9. QED
  BY <1>4, <1>5, <1>6, <1>7, <1>8 DEF AggInv

\* What a run would write is a row of its input.
LEMMA NewRow ==
  ASSUME A!TypeOK, NEW r \in Aggregation
  PROVE  /\ A!New(r) \in A!Row /\ A!New(r).content.of = A!New(r).fingerprint
         /\ A!New(r).count = Len(A!New(r).fingerprint)
<1>1. agg_raw[r] \in A!Input /\ Len(agg_raw[r]) \in 0..Cap
  BY AggTypes, AggregatorAssumption DEF A!TypeOK
<1> HIDE DEF A!Input
<1>2. QED
  BY <1>1 DEF A!New, A!Fingerprint, A!Row, A!Text

LEMMA AggRest ==
  ASSUME AggInv, NEW r \in Aggregation, A!Skip(r) \/ A!Check(r) \/ A!Summarise(r) \/ A!Select(r) \/ A!Fail(r)
  PROVE  AggInv'
<1>1. A!TypeOK /\ A!OneInput /\ LoadedInv
  BY DEF AggInv
<1>2. UNCHANGED <<A!Row, A!Input>>
  BY DEF A!Row, A!Input
<1>3. << >> \in A!Input
  BY EmptyInput
<1>4. UNCHANGED <<agg_summary, agg_mixed>> /\ A!OneInput'
  <2>1. UNCHANGED <<agg_summary, agg_mixed>>
    BY DEF A!Skip, A!Check, A!Summarise, A!Select, A!Fail
  <2>2. QED
    BY <1>1, <2>1 DEF A!OneInput, A!Whole
<1>5. ASSUME A!Skip(r) \/ A!Fail(r) PROVE AggInv'
  <2>1. A!Close(r) /\ UNCHANGED <<agg_score, agg_edits>>
        /\ (agg_faults' = agg_faults \/ (agg_faults' = agg_faults + 1 /\ agg_faults < MaxFailures))
    <3>1. CASE A!Skip(r)
      BY <3>1 DEF A!Skip
    <3>2. CASE A!Fail(r)
      BY <3>2 DEF A!Fail
    <3>3. QED
      BY <1>5, <3>1, <3>2
  <2>2. agg_pc' \in [Aggregation -> A!Place] /\ agg_steady' \in [Aggregation -> SUBSET Question]
    BY <1>1, <2>1 DEF A!TypeOK, A!Place, A!Close, A!Goto
  <2>3. agg_raw' \in [Aggregation -> A!Input]
    BY <1>1, <1>3, <2>1 DEF A!TypeOK, A!Close
  <2>4. \A x \in Aggregation : agg_loaded'[x] = NoRow \/ agg_loaded'[x] \in A!Row
    BY <1>1, <2>1 DEF A!TypeOK, A!Close
  <2>5. agg_faults' \in 0..MaxFailures
    BY <1>1, <2>1, AggregatorAssumption DEF A!TypeOK
  <2>6. A!TypeOK'
    BY <1>1, <1>2, <1>4, <2>1, <2>2, <2>3, <2>4, <2>5 DEF A!TypeOK
  <2>7. LoadedInv'
    BY <1>1, <1>4, <2>1 DEF LoadedInv, A!Close, A!TypeOK
  <2>8. QED
    BY <1>4, <2>1, <2>6, <2>7, AggCloses
<1>6. ASSUME A!Check(r) \/ A!Summarise(r) \/ A!Select(r) PROVE AggInv'
  <2>1. /\ agg_pc[r] \notin {"idle", "page"}
        /\ UNCHANGED <<agg_score, agg_raw, agg_edits, agg_faults, agg_steady>>
        /\ agg_loaded' \in {agg_loaded, [agg_loaded EXCEPT ![r] = agg_summary]}
    BY <1>6 DEF A!Check, A!Summarise, A!Select, A!Goto
  <2>2. PICK l \in {"summarise", "select", "write"} : agg_pc' = [agg_pc EXCEPT ![r] = l]
    BY <1>6 DEF A!Check, A!Summarise, A!Select, A!Goto
  <2>3. agg_pc' \in [Aggregation -> A!Place] /\ l \in A!Place /\ l \notin {"idle", "page"}
    BY <1>1, <2>2 DEF A!TypeOK, A!Place
  <2>4. \A x \in Aggregation : agg_loaded'[x] = NoRow \/ agg_loaded'[x] \in A!Row
    <3>1. CASE agg_loaded' = agg_loaded
      BY <1>1, <3>1 DEF A!TypeOK
    <3>2. CASE agg_loaded' = [agg_loaded EXCEPT ![r] = agg_summary]
      <4>1. \A x \in Aggregation : agg_loaded'[x] = agg_loaded[x] \/ agg_loaded'[x] = agg_summary
        BY <3>2
      <4>2. QED
        BY <1>1, <4>1 DEF A!TypeOK
    <3>3. QED
      BY <2>1, <3>1, <3>2
  <2>5. A!TypeOK'
    BY <1>1, <1>2, <1>4, <2>1, <2>3, <2>4 DEF A!TypeOK
  <2>6. LoadedInv'
    <3>1. \A x \in Aggregation : agg_loaded'[x] = agg_loaded[x] \/ agg_loaded'[x] = agg_summary
      <4>1. CASE agg_loaded' = agg_loaded
        BY <4>1
      <4>2. CASE agg_loaded' = [agg_loaded EXCEPT ![r] = agg_summary]
        BY <4>2
      <4>3. QED
        BY <2>1, <4>1, <4>2
    <3>2. QED
      BY <1>1, <1>4, <3>1 DEF LoadedInv
  <2>7. QED
    BY <1>4, <2>1, <2>2, <2>3, <2>5, <2>6, AggMoves
<1>7. QED
  BY <1>5, <1>6

\* When the row is as it was read, what is written is the whole of the new one.
LEMMA AggWrite ==
  ASSUME AggInv, NEW r \in Aggregation, A!Insert(r) \/ A!Write(r) PROVE AggInv'
<1>1. A!TypeOK /\ A!OneInput
  BY DEF AggInv
<1>2. UNCHANGED <<A!Row, A!Input>>
  BY DEF A!Row, A!Input
<1>3. << >> \in A!Input
  BY EmptyInput
<1>4. A!Close(r) /\ UNCHANGED <<agg_score, agg_edits, agg_faults>>
  BY DEF A!Insert, A!Write
<1> DEFINE new == A!New(r)
<1>5. new \in A!Row /\ new.content.of = new.fingerprint /\ new.count = Len(new.fingerprint) /\ new # NoRow
  BY <1>1, NewRow, AggregatorAssumption
<1>6. /\ agg_summary' \in A!Row
      /\ agg_mixed' \in BOOLEAN
      /\ A!OneInput'
  <2>1. CASE A!Insert(r)
    <3>1. CASE agg_summary = NoRow
      BY <1>5, <2>1, <3>1 DEF A!Insert, A!OneInput, A!Whole
    <3>2. CASE agg_summary # NoRow
      BY <1>1, <2>1, <3>2 DEF A!Insert, A!OneInput, A!Whole, A!TypeOK
    <3>3. QED
      BY <3>1, <3>2
  <2>2. CASE A!Write(r)
    <3> DEFINE was == agg_loaded[r]
    <3>1. was \in A!Row /\ agg_mixed' = (agg_summary # was)
          /\ agg_summary' = [content     |-> IF new.content # was.content THEN new.content ELSE agg_summary.content,
                             count       |-> IF new.count # was.count THEN new.count ELSE agg_summary.count,
                             fingerprint |-> IF new.fingerprint # was.fingerprint THEN new.fingerprint
                                             ELSE agg_summary.fingerprint]
      BY <1>1, <2>2 DEF A!Write, A!Update, A!TypeOK
    <3>2. CASE agg_summary = was
      <4>1. agg_summary'.content = new.content /\ agg_summary'.count = new.count
            /\ agg_summary'.fingerprint = new.fingerprint
        BY <3>1, <3>2
      <4>2. agg_summary' \in A!Row
        BY <1>5, <3>1, <3>2, <4>1 DEF A!Row
      <4>3. QED
        BY <1>5, <3>1, <4>1, <4>2 DEF A!OneInput, A!Whole
    <3>3. CASE agg_summary \in A!Row /\ agg_summary # was
      <4>1. agg_summary' \in A!Row
        BY <1>5, <3>1, <3>3 DEF A!Row
      <4>2. agg_mixed' = TRUE
        BY <3>1, <3>3
      <4>3. QED
        BY <4>1, <4>2 DEF A!OneInput
    <3>4. agg_summary # NoRow
      BY <1>5, <3>1, AggregatorAssumption DEF AggInv, LoadedInv
    <3>5. QED
      BY <1>1, <3>2, <3>3, <3>4 DEF A!TypeOK
  <2>3. QED
    BY <2>1, <2>2
<1> HIDE DEF new
<1>7. agg_pc' \in [Aggregation -> A!Place] /\ agg_steady' \in [Aggregation -> SUBSET Question]
  BY <1>1, <1>4 DEF A!TypeOK, A!Place, A!Close, A!Goto
<1>8. agg_raw' \in [Aggregation -> A!Input]
  BY <1>1, <1>3, <1>4 DEF A!TypeOK, A!Close
<1>9. \A x \in Aggregation : agg_loaded'[x] = NoRow \/ agg_loaded'[x] \in A!Row
  BY <1>1, <1>4 DEF A!TypeOK, A!Close
<1>10. A!TypeOK'
  BY <1>1, <1>2, <1>4, <1>6, <1>7, <1>8, <1>9 DEF A!TypeOK
<1>11. LoadedInv'
  BY <1>6, AggregatorAssumption DEF LoadedInv
<1>12. QED
  BY <1>4, <1>6, <1>10, <1>11, AggCloses

LEMMA NextAgg == ASSUME AggInv, [A!Next]_(A!vars) PROVE AggInv'
<1>1. CASE UNCHANGED A!vars
  <2>1. UNCHANGED <<agg_score, agg_summary, agg_pc, agg_raw, agg_loaded, agg_edits, agg_faults, agg_steady, agg_mixed>>
    BY <1>1 DEF A!vars, A!runs
  <2>2. UNCHANGED A!Bucket /\ UNCHANGED <<A!Row, A!Input>> /\ \A q : EntryOf(q)' = EntryOf(q)
    BY <2>1 DEF A!Bucket, EntryOf, A!Row, A!Input
  <2>3. A!TypeOK' /\ A!OneInput'
    BY <2>1, <2>2 DEF AggInv, A!TypeOK, A!OneInput, A!Whole
  <2>4. RawInv'
    BY <2>1, <2>2 DEF AggInv, RawInv, Sorted, A!Before
  <2>5. AheadInv'
    BY <2>1, <2>2 DEF AggInv, AheadInv, Has, A!Before
  <2>6. ReadInv' /\ LoadedInv'
    BY <2>1, <2>2 DEF AggInv, ReadInv, Has, LoadedInv
  <2>7. QED
    BY <2>3, <2>4, <2>5, <2>6 DEF AggInv
<1>2. CASE A!Next
  BY <1>2, AggStart, AggPage, AggRest, AggWrite, AggEdit DEF A!Next, A!Step
<1>3. QED
  BY <1>1, <1>2

LEMMA StepOfAgg ==
  ASSUME [TasksNext]_<<turn, vars, others>> PROVE [A!Next]_(A!vars)
  BY DEF TasksNext, others, aggVars, A!vars, A!runs

\* A question that is read is counted once: the order is strict.
LEMMA ReadOnce ==
  ASSUME AggInv PROVE A!PagesComplete
<1> SUFFICES ASSUME NEW r \in Aggregation, agg_pc[r] \notin {"idle", "page"}, NEW q \in agg_steady[r]
             PROVE  \/ A!Count(q, agg_raw[r]) = 1
                    \/ A!Count(q, agg_raw[r]) = 0 /\ Len(agg_raw[r]) = Cap
  BY DEF A!PagesComplete
<1> DEFINE s == agg_raw[r]
           C == {i \in DOMAIN s : s[i][1] = q}
<1>1. /\ A!TypeOK /\ s \in Seq(A!Entry) /\ Len(s) \in Nat
      /\ Has(s, EntryOf(q)) \/ Len(s) = Cap
      /\ Sorted(s)
      /\ \A i \in 1..Len(s) : s[i][1] = q => s[i][2] = agg_score[q]
  <2>1. A!TypeOK /\ s \in Seq(A!Entry) /\ Len(s) \in Nat
    BY AggTypes DEF AggInv
  <2>2. Has(s, EntryOf(q)) \/ Len(s) = Cap
    BY DEF AggInv, ReadInv
  <2>3. Sorted(s)
    BY DEF AggInv, RawInv
  <2>4. \A i \in 1..Len(s) : s[i][1] = q => s[i][2] = agg_score[q]
    BY DEF AggInv, RawInv
  <2>5. QED
    BY <2>1, <2>2, <2>3, <2>4
<1>2. q \in Nat /\ agg_score[q] \in Nat
  BY AggTypes DEF AggInv, RawInv
<1>3. A!Count(q, s) = Cardinality(C)
  BY SameCardinality DEF A!Count
<1> HIDE DEF s
<1>4. DOMAIN s = 1..Len(s)
  BY <1>1
<1>5. \A i, j \in C : i = j
  <2> SUFFICES ASSUME NEW i \in C, NEW j \in C, i < j PROVE FALSE
    BY <1>1, <1>4
  <2>1. A!Before(s[i], s[j]) /\ s[i][1] = q /\ s[j][1] = q
    BY <1>1, <1>4 DEF Sorted
  <2>2. s[i][2] = agg_score[q] /\ s[j][2] = agg_score[q]
    BY <1>1, <1>4, <2>1
  <2>3. QED
    BY <1>2, <2>1, <2>2 DEF A!Before
<1>6. CASE C = {}
  <2>1. ~Has(s, EntryOf(q))
    BY <1>4, <1>6 DEF Has, EntryOf
  <2>2. QED
    BY <1>1, <1>3, <1>6, <2>1, FS_EmptySet DEF s
<1>7. CASE C # {}
  <2>1. PICK i \in C : C = {i}
    BY <1>5, <1>7
  <2>2. QED
    BY <1>3, <2>1, FS_Singleton DEF s
<1>8. QED
  BY <1>6, <1>7

\* However the bucket changes between the pages of a run, and however many runs
\* fail: what does not change is read once, and a row that was not overwritten
\* in between is of one input (aggregate_one).
THEOREM OfItsPair == TasksSpec => []SummaryIsOfItsPair
<1>1. TasksInit => AggInv
  BY InitAgg DEF TasksInit
<1>2. AggInv /\ [TasksNext]_<<turn, vars, others>> => AggInv'
  BY NextAgg, StepOfAgg
<1>3. AggInv => SummaryIsOfItsPair
  BY ReadOnce DEF AggInv, SummaryIsOfItsPair, A!SummaryIsOfItsPair
<1>4. QED
  BY <1>1, <1>2, <1>3, PTL DEF TasksSpec

\* Every state of the tasks, the loops, the daily jobs and the summaries is
\* typed (tasks/, aggregator/aggregator.py).
THEOREM TasksTypes == TasksSpec => []TasksTypeOK
<1> DEFINE J == IInv /\ LoopInv /\ DailyInv /\ AggInv
<1>1. TasksInit => J
  BY InitIInv, InitLoop, InitDaily, InitAgg DEF TasksInit
<1>2. J /\ [TasksNext]_<<turn, vars, others>> => J'
  <2> SUFFICES ASSUME J, [TasksNext]_<<turn, vars, others>> PROVE J'
    OBVIOUS
  <2>1. [Next]_vars
    BY DEF TasksNext
  <2>2. IInv'
    BY <2>1, Types, Counts DEF IInv
  <2>3. LoopInv' /\ DailyInv' /\ AggInv'
    BY NextLoop, StepOfLoop, NextDaily, StepOfDaily, NextAgg, StepOfAgg
  <2>4. QED
    BY <2>2, <2>3
<1>3. J => TasksTypeOK
  BY DEF IInv, LoopInv, DailyInv, AggInv, TasksTypeOK
<1> HIDE DEF J
<1>4. QED
  BY <1>1, <1>2, <1>3, PTL DEF TasksSpec
=============================================================================
