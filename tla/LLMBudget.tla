----------------------------- MODULE LLMBudget -----------------------------
(***************************************************************************)
(* The guard of paid model calls, llm/budget.py.  Every call of            *)
(* guarded_create, in any process, first takes a reservation in Redis in   *)
(* one atomic script: a concurrency slot, a place among the requests of    *)
(* the last minute, the day's tokens, and the lock of its input.           *)
(*                                                                         *)
(* Tokens and time are counted in units of the model's choice.             *)
(*                                                                         *)
(* Operators named Mut_... are mistakes a developer could make in the      *)
(* definition that follows them; the specification does not use them.      *)
(***************************************************************************)
EXTENDS Integers, FiniteSets, Functions

CONSTANTS
  Call,         \* the calls of guarded_create
  Input,        \* what they ask the model
  Tokens,       \* the tokens reserved for an input
  Budget,       \* of a day
  Concurrency,  \* slots
  PerMinute,    \* requests in a window
  Lifetime,     \* of a slot and of an input lock: 120 seconds
  Window,       \* of the rate: 60 seconds
  NoCall,
  MaxTime, MaxDay, MaxFaults \* bounds of the model

ASSUME BudgetAssumption ==
  /\ IsFiniteSet(Call)
  /\ Tokens \in [Input -> Nat] /\ Budget \in Nat
  /\ Concurrency \in Nat \ {0} /\ PerMinute \in Nat \ {0}
  /\ Lifetime \in Nat \ {0} /\ Window \in Nat \ {0}
  /\ NoCall \notin Call
  /\ MaxTime \in Nat /\ MaxDay \in Nat /\ MaxFaults \in Nat

VARIABLES
  used,      \* il:llm:budget:<day>
  slot,      \* il:llm:slots: until when a call holds a slot
  lock,      \* il:llm:inflight:<input>: the call, and until when
  granted,   \* il:llm:requests: when a call was granted, and when it ends
  pc, input, day, actual, \* the calls
  now, today, faults,
  paid,      \* history: what the provider charged for the calls of a day
  again      \* history: what was given back to a day a second time

redis == <<used, slot, lock, granted>>
bill == <<paid, again>>
vars == <<redis, pc, input, day, actual, now, today, faults, bill>>

Place == {"new", "asking", "calling", "reconcile", "release", "unlock", "done"}

TypeOK ==
  /\ used \in [0..MaxDay -> Int] /\ paid \in [0..MaxDay -> Nat] /\ again \in [0..MaxDay -> Int]
  /\ slot \in [Call -> 0..(now + Lifetime)]
  /\ lock \in [Input -> [owner : Call \cup {NoCall}, until : 0..(now + Lifetime)]]
  /\ granted \in [Call -> 0..now]
  /\ pc \in [Call -> Place] /\ input \in [Call -> Input]
  /\ day \in [Call -> 0..MaxDay] /\ actual \in [Call -> Nat]
  /\ now \in 1..(MaxTime + 1) /\ today \in 0..MaxDay /\ faults \in 0..MaxFaults

Init ==
  /\ used = [d \in 0..MaxDay |-> 0]
  /\ paid = [d \in 0..MaxDay |-> 0] /\ again = [d \in 0..MaxDay |-> 0]
  /\ slot = [c \in Call |-> 0] /\ granted = [c \in Call |-> 0]
  /\ lock = [i \in Input |-> [owner |-> NoCall, until |-> 0]]
  /\ pc = [c \in Call |-> "new"] /\ input \in [Call -> Input]
  /\ day = [c \in Call |-> 0] /\ actual = [c \in Call |-> 0]
  /\ now = 1 /\ today = 0 /\ faults = 0

-----------------------------------------------------------------------------
Goto(c, l) == pc' = [pc EXCEPT ![c] = l]
Fault == faults < MaxFaults /\ faults' = faults + 1

\* The day is taken before Redis is asked.
Begin(c) ==
  /\ pc[c] = "new" /\ Goto(c, "asking") /\ day' = [day EXCEPT ![c] = today]
  /\ UNCHANGED <<redis, input, actual, now, today, faults, bill>>

(* The script; what has expired counts no more.                            *)

Reserved(c) == Tokens[input[c]]

Mut_Slots == {c \in Call : slot[c] > now + 1}
Slots == {c \in Call : slot[c] > now}

Mut_Recent == {c \in Call : granted[c] = now}
Recent == {c \in Call : granted[c] > 0 /\ granted[c] + Window > now}

Mut_InFlight(i) == FALSE
InFlight(i) == lock[i].until > now

Affordable(c) == used[day[c]] + Reserved(c) <= Budget

Expiry == now + Lifetime

Admits(c) ==
  /\ Cardinality(Slots) < Concurrency /\ Cardinality(Recent) < PerMinute
  /\ Affordable(c) /\ ~InFlight(input[c])

Take(c) ==
  /\ used' = [used EXCEPT ![day[c]] = @ + Reserved(c)]
  /\ slot' = [slot EXCEPT ![c] = Expiry]
  /\ granted' = [granted EXCEPT ![c] = now]
  /\ lock' = [lock EXCEPT ![input[c]] = [owner |-> c, until |-> Expiry]]

Reserve(c) ==
  /\ pc[c] = "asking" /\ Admits(c) /\ Take(c) /\ Goto(c, "calling")
  /\ UNCHANGED <<input, day, actual, now, today, faults, bill>>

Refuse(c) ==
  /\ pc[c] = "asking" /\ ~Admits(c) /\ Goto(c, "done")
  /\ UNCHANGED <<redis, input, day, actual, now, today, faults, bill>>

\* Redis is away, or its answer is lost: the call is not made.  What the
\* script took is kept; if the client asks again, the input is in flight.
StoreFails(c) ==
  /\ pc[c] = "asking" /\ Fault /\ Goto(c, "done")
  /\ \/ Admits(c) /\ Take(c)
     \/ UNCHANGED redis
  /\ UNCHANGED <<input, day, actual, now, today, bill>>

-----------------------------------------------------------------------------
(* The provider: it charges at most what was reserved.                     *)

Pay(c, n) == paid' = [paid EXCEPT ![day[c]] = @ + n] /\ UNCHANGED again

Respond(c, n) ==
  /\ pc[c] = "calling" /\ Pay(c, n)
  /\ \/ Goto(c, "reconcile") /\ actual' = [actual EXCEPT ![c] = n]
     \/ Goto(c, "release") /\ UNCHANGED actual \* an answer without its usage
  /\ UNCHANGED <<redis, input, day, now, today, faults>>

\* A timeout, a lost connection, a cancellation; the call may be charged.
CallFails(c, n) ==
  /\ pc[c] = "calling" /\ Fault /\ Pay(c, n) /\ Goto(c, "release")
  /\ UNCHANGED <<redis, input, day, actual, now, today>>

Mut_Reconciled(c) == today
\* The day the call was reserved for.
Reconciled(c) == day[c]

Refund(c, n) ==
  used' = [used EXCEPT ![Reconciled(c)] = @ + n * (actual[c] - Reserved(c))]

\* The client sends a command again whose answer was lost, as Redis's own
\* clients do by default; the first one may have been executed.
Resent(c) ==
  /\ Fault /\ Refund(c, 2)
  /\ again' = [again EXCEPT ![day[c]] = @ + Reserved(c) - actual[c]]

Reconcile(c) ==
  /\ pc[c] = "reconcile" /\ Goto(c, "release")
  /\ \/ Refund(c, 1) /\ UNCHANGED <<faults, again>>
     \/ Fault /\ UNCHANGED <<used, again>>  \* Redis is away: the reservation stays
     \/ Resent(c)
  /\ actual' = [actual EXCEPT ![c] = 0]
  /\ UNCHANGED <<slot, lock, granted, input, day, now, today, paid>>

Release(c) ==
  /\ pc[c] = "release"
  /\ \/ Goto(c, "unlock") /\ slot' = [slot EXCEPT ![c] = 0] /\ UNCHANGED faults
     \/ Goto(c, "done") /\ Fault /\ UNCHANGED slot
  /\ UNCHANGED <<used, lock, granted, input, day, actual, now, today, bill>>

Mut_Own(c) == TRUE
Own(c) == lock[input[c]].owner = c /\ InFlight(input[c])

Unlock(c) ==
  /\ pc[c] = "unlock" /\ Goto(c, "done")
  /\ \/ /\ Own(c) /\ lock' = [lock EXCEPT ![input[c]] = [owner |-> NoCall, until |-> 0]]
        /\ UNCHANGED faults
     \/ ~Own(c) /\ UNCHANGED <<lock, faults>>
     \/ Fault /\ UNCHANGED lock
  /\ UNCHANGED <<used, slot, granted, input, day, actual, now, today, bill>>

\* The process dies; the provider may have been asked.
Crash(c) ==
  /\ pc[c] \notin {"new", "done"} /\ Fault /\ Goto(c, "done")
  /\ \/ UNCHANGED bill
     \/ pc[c] = "calling" /\ Pay(c, Reserved(c))
  /\ UNCHANGED <<redis, input, day, actual, now, today>>

-----------------------------------------------------------------------------
Tick ==
  /\ now <= MaxTime /\ now' = now + 1
  /\ UNCHANGED <<redis, pc, input, day, actual, today, faults, bill>>

NewDay ==
  /\ today < MaxDay /\ today' = today + 1
  /\ UNCHANGED <<redis, pc, input, day, actual, now, faults, bill>>

Next ==
  \/ \E c \in Call :
       \/ Begin(c) \/ Reserve(c) \/ Refuse(c) \/ StoreFails(c)
       \/ \E n \in 0..Reserved(c) : Respond(c, n) \/ CallFails(c, n)
       \/ Reconcile(c) \/ Release(c) \/ Unlock(c) \/ Crash(c)
  \/ Tick \/ NewDay

Spec == Init /\ [][Next]_vars

-----------------------------------------------------------------------------
(* Properties.                                                             *)

Calling == {c \in Call : pc[c] = "calling"}
\* Nothing ends a call whose slot and lock have lapsed.
Current == {c \in Calling : now < granted[c] + Lifetime}

\* All processes together never have more calls at the provider than slots,
\* but for those that have outlived theirs (guarded_create).
ConcurrencyHeld == Cardinality(Current) <= Concurrency

\* The same input is never generated twice at a time, unless the older call has
\* outlived its lock; its late end does not make room for a third one.
OneGenerationPerInput == \A c, d \in Current : input[c] = input[d] => c = d

\* In no window of a minute are more calls granted than allowed, wherever the
\* window begins and however many calls crashed or lost their answer.
RateHeld ==
  \A t \in 1..now :
    Cardinality({c \in Call : granted[c] > 0 /\ t - Window < granted[c] /\ granted[c] <= t})
      <= PerMinute

\* The ledger of a day holds what was paid and what the calls under way may
\* still cost, through failures, crashes and midnight; it falls short by what
\* was given back twice and by nothing else, and it stays within the budget.
LedgerIsConservative ==
  \A d \in 0..MaxDay :
    /\ paid[d] + SumFunctionOnSet([c \in Call |-> Reserved(c)], {c \in Calling : day[c] = d})
         <= used[d] + again[d]
    /\ used[d] <= Budget

\* The lock of a call that is at the provider is neither freed nor taken before
\* it lapses, also not by the late end of the call that held the lock before
\* (the compare-and-delete of the release).
LockIsOwn ==
  [][\A c \in Current : pc'[c] = "calling" => lock'[input[c]] = lock[input[c]]]_vars

\* "conservative daily token reservation" (the module's docstring).
PaidIsRecorded == \A d \in 0..MaxDay : paid[d] <= used[d]
=============================================================================
