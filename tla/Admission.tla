------------------------------ MODULE Admission ------------------------------
(***************************************************************************)
(* Admission of requests to the public API (api/resource_guard.py): a      *)
(* counter in Redis for each address, and the slots of the process for     *)
(* embedding a query, which an answered or abandoned request keeps until   *)
(* its computation ends.  One address, one kind of request.                *)
(*                                                                         *)
(* Time is discrete and relative: a tick ages what there is.               *)
(*                                                                         *)
(* Operators named Mut_... are mistakes a developer could make in the      *)
(* definition that follows them; the specification does not use them.      *)
(***************************************************************************)
EXTENDS Integers, FiniteSets, FiniteSetsExt

CONSTANTS
  Caller,            \* requests under way at a time
  Limit, Window,     \* requests admitted in the lifetime of a counter
  Slots, Patience, MaxAge, \* search_concurrency, its timeout, the age of a stuck job
  MaxCount           \* bound of the model, over Limit: from here on counts are alike

VARIABLES
  count, ttl,    \* the key: its value, the rest of its lifetime; 0 without one
  pc,            \* a request: "none", "admitted", "embedding"
  waited,        \* how long it has been waiting for its embedding
  threads,       \* the callers whose computation runs
  job,           \* what the process has noted of it: its age, -1 nothing
  recent         \* history: requests admitted by age, up to a window

vars == <<count, ttl, pc, waited, threads, job, recent>>

TypeOK ==
  /\ count \in 0..MaxCount /\ ttl \in 0..Window
  /\ pc \in [Caller -> {"none", "admitted", "embedding"}] /\ waited \in [Caller -> 0..Patience]
  /\ threads \subseteq Caller /\ job \in [Caller -> -1..MaxAge] /\ recent \in [0..(Window - 1) -> Nat]

Init ==
  /\ count = 0 /\ ttl = 0 /\ pc = [c \in Caller |-> "none"] /\ waited = [c \in Caller |-> 0]
  /\ threads = {} /\ job = [c \in Caller |-> -1] /\ recent = [i \in 0..(Window - 1) |-> 0]

\* _jobs and _job_started.
Jobs == {c \in Caller : job[c] >= 0}

\* The script: only the first request of a window sets the expiry.
Expiry == IF count = 0 THEN Window ELSE ttl

Mut_Allows(n) == n <= Limit + 1
Allows(n) == n <= Limit

\* check_rate; one over the limit is counted and refused.
Arrive(c) ==
  /\ pc[c] = "none" /\ count' = Min({count + 1, MaxCount}) /\ ttl' = Expiry
  /\ \/ /\ Allows(count') /\ pc' = [pc EXCEPT ![c] = "admitted"]
        /\ recent' = [recent EXCEPT ![0] = @ + 1]
     \/ ~Allows(count') /\ UNCHANGED <<pc, recent>>
  /\ UNCHANGED <<waited, threads, job>>

Leave(c) == pc' = [pc EXCEPT ![c] = "none"] /\ waited' = [waited EXCEPT ![c] = 0]

\* Answered from a cache, without a search, or because the slots are taken.
Reply(c) ==
  /\ pc[c] = "admitted" /\ Leave(c) /\ UNCHANGED <<count, ttl, threads, job, recent>>

\* bounded_search_embed: no queue.  Who is named after a computation that goes
\* on waits for another one of the callers.
Embed(c) ==
  /\ pc[c] = "admitted" /\ c \notin threads /\ Cardinality(Jobs) < Slots
  /\ pc' = [pc EXCEPT ![c] = "embedding"] /\ job' = [job EXCEPT ![c] = 0]
  /\ threads' = threads \cup {c}
  /\ UNCHANGED <<count, ttl, waited, recent>>

\* The thread returns; a request that still waits is answered.
Finish(c) ==
  /\ c \in threads /\ threads' = threads \ {c} /\ job' = [job EXCEPT ![c] = -1]
  /\ IF pc[c] = "embedding" THEN Leave(c) ELSE UNCHANGED <<pc, waited>>
  /\ UNCHANGED <<count, ttl, recent>>

Mut_Kept(c) == [job EXCEPT ![c] = -1]
\* The timeout and the disconnection end the request; the thread goes on.
Kept(c) == job

Abandon(c) ==
  /\ pc[c] = "embedding" /\ Leave(c) /\ job' = Kept(c)
  /\ UNCHANGED <<count, ttl, threads, recent>>

Healthy == \A c \in Jobs : job[c] < MaxAge

\* The process dies or is replaced; its threads end with it.
Restart ==
  /\ threads' = {} /\ job' = [c \in Caller |-> -1] /\ pc' = [c \in Caller |-> "none"]
  /\ waited' = [c \in Caller |-> 0] /\ UNCHANGED <<count, ttl, recent>>

\* No request waits beyond its timeout.
Tick ==
  /\ \A c \in Caller : pc[c] = "embedding" => waited[c] < Patience
  /\ ttl' = (IF ttl > 0 THEN ttl - 1 ELSE 0) /\ count' = (IF ttl <= 1 THEN 0 ELSE count)
  /\ waited' = [c \in Caller |-> IF pc[c] = "embedding" THEN waited[c] + 1 ELSE 0]
  /\ job' = [c \in Caller |-> IF job[c] \in 0..(MaxAge - 1) THEN job[c] + 1 ELSE job[c]]
  /\ recent' = [i \in 0..(Window - 1) |-> IF i = 0 THEN 0 ELSE recent[i - 1]]
  /\ UNCHANGED <<pc, threads>>

Next ==
  \/ Tick \/ Restart
  \/ \E c \in Caller : Arrive(c) \/ Reply(c) \/ Embed(c) \/ Finish(c) \/ Abandon(c)

Spec == Init /\ [][Next]_vars

TimesOut(c) == waited[c] = Patience /\ Abandon(c)

\* Time passes and a timeout is kept; a thread may never return.
Fairness ==
  /\ WF_vars(Tick)
  /\ \A c \in Caller : WF_vars(Reply(c)) /\ WF_vars(TimesOut(c))

-----------------------------------------------------------------------------
(* Properties.                                                             *)

\* In no interval as long as a window are more requests admitted than two
\* windows allow, wherever it begins (the script _RATE).
RateHeld == SumFunction(recent) <= 2 * Limit

\* Requests that time out or disconnect do not make room for more threads
\* ("A timed-out/disconnected HTTP request does not release an inference slot
\* until the underlying task finishes").
SlotsHeld == Cardinality(threads) <= Slots

\* An address that goes on asking, refused or not, gets a new window at last.
WindowEnds == []<>(count = 0)

\* Threads that never return do not keep search busy unnoticed: the process is
\* not ready any more, although nobody waits for them (inference_healthy: "An
\* abandoned HTTP request must not hide a permanently stuck torch job").
StuckIsSeen == []<>(Cardinality(threads) < Slots \/ ~Healthy)

\* What the guard promises of every moment under load.
CapacityIsKept == RateHeld /\ SlotsHeld
=============================================================================
