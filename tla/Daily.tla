-------------------------------- MODULE Daily -------------------------------
(***************************************************************************)
(* The daily job (tasks/daily.py) and its key in Redis: set if absent,     *)
(* renewed by a heartbeat, deleted by its owner.  Several jobs may be      *)
(* started; Redis may lose the key; the event loop of a job may stall.     *)
(*                                                                         *)
(* A tick is the time between two heartbeats.  What the steps of the job   *)
(* do is in Backfill, Processing, Aggregator and Answers.                  *)
(*                                                                         *)
(* Operators named Mut_... are mistakes a developer could make in the      *)
(* definition that follows them; the specification does not use them.      *)
(***************************************************************************)
EXTENDS Integers

CONSTANTS
  Job, None,
  Lifetime,  \* of the key, in ticks
  MaxLosses, MaxStalls \* bounds of the model

VARIABLES
  owner, left,  \* the key: its value, what is left of its lifetime
  pc,           \* the step a job is at
  renewed,      \* its heartbeat has run in this tick
  cancelled,    \* the heartbeat has failed and cancelled the job
  stalled,      \* its event loop is blocked
  losses, stalls,
  astray        \* history: ticks a job that was not stalled has worked without the key

vars == <<owner, left, pc, renewed, cancelled, stalled, losses, stalls, astray>>

Steps   == <<"crawl", "resume", "index", "aggregate", "answer", "release">>
Working == {Steps[i] : i \in 1..5}

TypeOK ==
  /\ owner \in Job \cup {None} /\ left \in 0..Lifetime
  /\ pc \in [Job -> Working \cup {"idle", "release"}]
  /\ renewed \in [Job -> BOOLEAN] /\ cancelled \in [Job -> BOOLEAN]
  /\ stalled \in [Job -> BOOLEAN]
  /\ losses \in 0..MaxLosses /\ stalls \in 0..MaxStalls
  /\ astray \in [Job -> 0..2]

No == [j \in Job |-> FALSE]

Init ==
  /\ owner = None /\ left = 0 /\ pc = [j \in Job |-> "idle"]
  /\ renewed = No /\ cancelled = No /\ stalled = No /\ losses = 0 /\ stalls = 0
  /\ astray = [j \in Job |-> 0]

Goto(j, l) == pc' = [pc EXCEPT ![j] = l]
Works(j) == pc[j] \in Working

Mut_Free == TRUE
\* SET NX EX: a job that finds the key is skipped.
Free == owner = None

Start(j) ==
  /\ pc[j] = "idle" /\ Free /\ owner' = j /\ left' = Lifetime
  /\ Goto(j, "crawl") /\ renewed' = [renewed EXCEPT ![j] = TRUE]
  /\ UNCHANGED <<cancelled, stalled, losses, stalls, astray>>

Moves(j) == Works(j) /\ ~stalled[j]

\* The next step; the crawl and the answers may be left out.
Proceed(j) ==
  /\ Moves(j) /\ ~cancelled[j]
  /\ \/ \E i \in 1..5 : pc[j] = Steps[i] /\ Goto(j, Steps[i + 1])
     \/ pc[j] = "aggregate" /\ Goto(j, "release")
  /\ UNCHANGED <<owner, left, renewed, cancelled, stalled, losses, stalls, astray>>

\* A step fails, or the cancellation reaches the job at its next await.
Raise(j) ==
  /\ Moves(j) /\ Goto(j, "release")
  /\ UNCHANGED <<owner, left, renewed, cancelled, stalled, losses, stalls, astray>>

Mut_Extends(j) == owner # None
\* The script of renew_lock: only the owner's key is extended.
Extends(j) == owner = j

Heartbeat(j) ==
  /\ Moves(j) /\ ~renewed[j] /\ ~cancelled[j]
  /\ \/ /\ Extends(j) /\ left' = Lifetime /\ renewed' = [renewed EXCEPT ![j] = TRUE]
        /\ UNCHANGED cancelled
     \/ ~Extends(j) /\ cancelled' = [cancelled EXCEPT ![j] = TRUE] /\ UNCHANGED <<left, renewed>>
  /\ UNCHANGED <<owner, pc, stalled, losses, stalls, astray>>

\* Redis does not answer.
HeartbeatFails(j) ==
  /\ Moves(j) /\ ~renewed[j] /\ ~cancelled[j] /\ cancelled' = [cancelled EXCEPT ![j] = TRUE]
  /\ UNCHANGED <<owner, left, pc, renewed, stalled, losses, stalls, astray>>

Leave(j) ==
  /\ Goto(j, "idle") /\ renewed' = [renewed EXCEPT ![j] = FALSE]
  /\ cancelled' = [cancelled EXCEPT ![j] = FALSE] /\ stalled' = [stalled EXCEPT ![j] = FALSE]
  /\ astray' = [astray EXCEPT ![j] = 0]

Mut_Deletes(j) == TRUE
\* Compare and delete.
Deletes(j) == owner = j

\* The script fails with Redis, or is cancelled by a heartbeat that fails late:
\* the key stays, and lapses.
Release(j) ==
  /\ pc[j] = "release" /\ Leave(j)
  /\ \/ Deletes(j) /\ owner' = None /\ left' = 0
     \/ UNCHANGED <<owner, left>>
  /\ UNCHANGED <<losses, stalls>>

Crash(j) == pc[j] # "idle" /\ Leave(j) /\ UNCHANGED <<owner, left, losses, stalls>>

-----------------------------------------------------------------------------
\* Redis restarts without the key.
Lose ==
  /\ owner # None /\ losses < MaxLosses /\ losses' = losses + 1 /\ owner' = None /\ left' = 0
  /\ UNCHANGED <<pc, renewed, cancelled, stalled, stalls, astray>>

Stall(j) ==
  /\ Works(j) /\ stalled' = [stalled EXCEPT ![j] = ~@]
  /\ (stalled[j] \/ stalls < MaxStalls) /\ stalls' = (IF stalled[j] THEN stalls ELSE stalls + 1)
  /\ UNCHANGED <<owner, left, pc, renewed, cancelled, losses, astray>>

Mut_Lapses == FALSE
Lapses == left <= 1

\* Heartbeats are not late and cancellations arrive, unless the loop is blocked.
Tick ==
  /\ \A j \in Job : Moves(j) => renewed[j] /\ ~cancelled[j]
  /\ owner' = (IF Lapses THEN None ELSE owner)
  /\ left' = (IF Lapses \/ left = 0 THEN 0 ELSE left - 1)
  /\ renewed' = No
  /\ astray' = [j \in Job |-> IF Moves(j) /\ owner # j /\ astray[j] < 2
                              THEN astray[j] + 1 ELSE astray[j]]
  /\ UNCHANGED <<pc, cancelled, stalled, losses, stalls>>

-----------------------------------------------------------------------------
Run(j) == Proceed(j) \/ Raise(j) \/ Release(j)

Next ==
  \/ Tick \/ Lose
  \/ \E j \in Job : Start(j) \/ Run(j) \/ Heartbeat(j) \/ HeartbeatFails(j) \/ Crash(j) \/ Stall(j)

Spec == Init /\ [][Next]_vars

Wake(j) == stalled[j] /\ Stall(j)

\* Time passes, heartbeats and jobs go on, a blocked loop is released at last.
Fairness ==
  /\ WF_vars(Tick)
  /\ \A j \in Job : /\ WF_vars(Heartbeat(j)) /\ WF_vars(Run(j))
                    /\ WF_vars(Wake(j))

-----------------------------------------------------------------------------
(* Properties.                                                             *)

\* Two jobs work at a time only after Redis has lost the key, or a loop was
\* blocked (daily_update: "Reentrancy-guarded via Redis").
OneJob == losses = 0 /\ stalls = 0 => \A i, j \in Job : Works(i) /\ Works(j) => i = j

\* A job whose key was lost learns it within a heartbeat, also when another
\* job has taken the key since (renew_lock, on_heartbeat_exit).
NoticedSoon == \A j \in Job : astray[j] <= 1

\* A job that ends late leaves the key of its successor alone.
KeepsOthersKey ==
  [][\A j \in Job : pc[j] = "release" /\ pc'[j] = "idle" /\ owner # j => owner' = owner]_vars

\* Whatever becomes of a job, its key does not stand in the way for ever.
KeyComesFree == []<>(owner = None)

\* What daily_update and its heartbeat promise of the lock.
LockIsHonoured == [](OneJob /\ NoticedSoon) /\ KeepsOthersKey
=============================================================================
