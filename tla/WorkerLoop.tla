----------------------------- MODULE WorkerLoop -----------------------------
(***************************************************************************)
(* The bridge between the thread of a Celery worker and its event loop     *)
(* (tasks/pipeline.py, BackgroundLoopWorker.run_coroutine).  The thread    *)
(* hands over a coroutine, waits, gives it up at its deadline, waits ten   *)
(* seconds for its clean-up, and the task is tried again.                  *)
(*                                                                         *)
(* The loop is its queue of callbacks: make the task of a coroutine, take  *)
(* its first step, cancel it, close it.                                    *)
(*                                                                         *)
(* Operators named Mut_... are mistakes a developer could make in the      *)
(* definition that follows them; the specification does not use them.      *)
(***************************************************************************)
EXTENDS Integers, Sequences, SequencesExt

CONSTANT Tries  \* a number: those of a task

Try == 1..Tries

VARIABLES
  pc, try,    \* the thread, and the try it is at
  queue,      \* callbacks of the loop, <<kind, try>>
  future,     \* of each try: "none", "pending", "done", "cancelled"
  made, started, cleaned,
  at,         \* the coroutine: "none", "running", "cleaning", "ended", "closed"
  givenup,    \* history: tries that the thread has given up ...
  overdue, early  \* ... although the clean-up went on; before they had begun

loop == <<made, started, cleaned, at>>
vars == <<pc, try, queue, future, loop, givenup, overdue, early>>

Kind == {"make", "step", "cancel", "close"}

TypeOK ==
  /\ pc \in {"idle", "waiting", "cancel", "look", "cleanup"} /\ try \in 0..Tries
  /\ queue \in Seq(Kind \X Try)
  /\ future \in [Try -> {"none", "pending", "done", "cancelled"}]
  /\ made \in [Try -> BOOLEAN] /\ started \in [Try -> BOOLEAN] /\ cleaned \in [Try -> BOOLEAN]
  /\ at \in [Try -> {"none", "running", "cleaning", "ended", "closed"}]
  /\ givenup \subseteq Try /\ overdue \subseteq givenup /\ early \subseteq givenup

No == [t \in Try |-> FALSE]

Init ==
  /\ pc = "idle" /\ try = 0 /\ queue = << >> /\ future = [t \in Try |-> "none"]
  /\ made = No /\ started = No /\ cleaned = No /\ at = [t \in Try |-> "none"]
  /\ givenup = {} /\ overdue = {} /\ early = {}

-----------------------------------------------------------------------------
(* The thread.                                                             *)

Submit ==
  /\ pc = "idle" /\ try < Tries /\ try' = try + 1 /\ pc' = "waiting"
  /\ future' = [future EXCEPT ![try'] = "pending"] /\ queue' = Append(queue, <<"make", try'>>)
  /\ UNCHANGED <<loop, givenup, overdue, early>>

Result ==
  /\ pc = "waiting" /\ future[try] = "done" /\ pc' = "idle"
  /\ UNCHANGED <<try, queue, future, loop, givenup, overdue, early>>

\* The deadline, or the soft time limit of Celery.
Timeout ==
  /\ pc = "waiting" /\ pc' = "cancel" /\ UNCHANGED <<try, queue, future, loop, givenup, overdue, early>>

Mut_Chained(t) == FALSE
\* A future whose task exists passes its cancellation on to the loop.
Chained(t) == made[t]

Cancel ==
  /\ pc = "cancel" /\ pc' = "look"
  /\ future' = [future EXCEPT ![try] = IF @ = "pending" THEN "cancelled" ELSE @]
  /\ queue' = IF future[try] = "pending" /\ Chained(try) THEN Append(queue, <<"cancel", try>>)
              ELSE queue
  /\ UNCHANGED <<try, loop, givenup, overdue, early>>

Mut_Look == /\ pc = "look" /\ pc' = "idle" /\ givenup' = givenup \cup {try}
            /\ UNCHANGED <<try, queue, future, loop, overdue, early>>
\* A coroutine that has begun is waited for; another one is closed.
Look ==
  /\ pc = "look" /\ UNCHANGED <<try, future, loop, overdue>>
  /\ \/ started[try] /\ pc' = "cleanup" /\ UNCHANGED <<queue, givenup, early>>
     \/ /\ ~started[try] /\ pc' = "idle" /\ queue' = Append(queue, <<"close", try>>)
        /\ givenup' = givenup \cup {try} /\ early' = early \cup {try}

\* Ten seconds; then the error is logged and raised all the same.
Cleanup ==
  /\ pc = "cleanup" /\ pc' = "idle" /\ givenup' = givenup \cup {try}
  /\ overdue' = IF cleaned[try] THEN overdue ELSE overdue \cup {try}
  /\ UNCHANGED <<try, queue, future, loop, early>>

-----------------------------------------------------------------------------
(* The loop.                                                               *)

Take(k, t) == queue # << >> /\ Head(queue) = <<k, t>>

Mut_PassedOn(t) == FALSE
\* A future that was cancelled before is passed on behind the first step.
PassedOn(t) == future[t] = "cancelled"

Make(t) ==
  /\ Take("make", t) /\ made' = [made EXCEPT ![t] = TRUE]
  /\ queue' = Tail(queue) \o <<<<"step", t>>>>
              \o (IF PassedOn(t) THEN <<<<"cancel", t>>>> ELSE << >>)
  /\ UNCHANGED <<pc, try, future, started, cleaned, at, givenup, overdue, early>>

\* A closed coroutine cannot be awaited; the wrapper ends at once.
FirstStep(t) ==
  /\ Take("step", t) /\ queue' = Tail(queue) /\ started' = [started EXCEPT ![t] = TRUE]
  /\ IF at[t] = "closed" THEN cleaned' = [cleaned EXCEPT ![t] = TRUE] /\ UNCHANGED at
     ELSE at' = [at EXCEPT ![t] = "running"] /\ UNCHANGED cleaned
  /\ UNCHANGED <<pc, try, future, made, givenup, overdue, early>>

\* The coroutine sees it at its await, and its finally blocks begin.
CancelTask(t) ==
  /\ Take("cancel", t) /\ queue' = Tail(queue)
  /\ at' = [at EXCEPT ![t] = IF @ = "running" THEN "cleaning" ELSE @]
  /\ UNCHANGED <<pc, try, future, made, started, cleaned, givenup, overdue, early>>

Close(t) ==
  /\ Take("close", t) /\ queue' = Tail(queue)
  /\ at' = [at EXCEPT ![t] = IF started[t] THEN @ ELSE "closed"]
  /\ UNCHANGED <<pc, try, future, made, started, cleaned, givenup, overdue, early>>

\* It returns or raises, or has cleaned up; a cancelled future stays so.
End(t) ==
  /\ at[t] \in {"running", "cleaning"} /\ at' = [at EXCEPT ![t] = "ended"]
  /\ cleaned' = [cleaned EXCEPT ![t] = TRUE]
  /\ future' = [future EXCEPT ![t] = IF @ = "pending" THEN "done" ELSE @]
  /\ UNCHANGED <<pc, try, queue, made, started, givenup, overdue, early>>

-----------------------------------------------------------------------------
Thread == Submit \/ Result \/ Cancel \/ Look \/ Cleanup
Loop(t) == Make(t) \/ FirstStep(t) \/ CancelTask(t) \/ Close(t)

Next == Thread \/ Timeout \/ \E t \in Try : Loop(t) \/ End(t)

Spec == Init /\ [][Next]_vars

CleanUp(t) == at[t] = "cleaning" /\ End(t)

\* The thread and the loop go on; a clean-up ends; a coroutine need not return,
\* but the thread waits no longer than its deadline.
Fairness ==
  /\ WF_vars(Thread) /\ WF_vars(Timeout) /\ WF_vars(\E t \in Try : Loop(t))
  /\ \A t \in Try : WF_vars(CleanUp(t))

-----------------------------------------------------------------------------
(* Properties.                                                             *)

\* A retry begins when the coroutine of the try before it has ended, with its
\* transactions and leases, unless its clean-up was reported as late, or it had
\* not begun when it was given up (run_coroutine: "A cancelled concurrent
\* future alone does not mean async finally blocks ... have finished").
RetryAlone ==
  \A t \in givenup : at[t] \in {"running", "cleaning"} => t \in overdue \cup early

\* A coroutine that was given up never works on: its cancellation is under way
\* wherever the loop was when the deadline came.
NoneWorksOn ==
  \A t \in givenup : at[t] = "running" => Contains(queue, <<"cancel", t>>)

\* The coroutine of every try is run to its end or closed, also one that the
\* loop had not reached at its deadline ("Cancellation may precede the wrapper's
\* first step").
EveryTryEnds == []<>(\A t \in Try : t <= try => at[t] \in {"ended", "closed"})

\* What run_coroutine promises a task that is tried again: it does not meet
\* itself, and nothing that was given up works on.
TriesAreKeptApart == RetryAlone /\ NoneWorksOn
=============================================================================
