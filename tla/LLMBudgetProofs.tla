-------------------------- MODULE LLMBudgetProofs --------------------------
(* What TLAPS proves about LLMBudget, for any finite set of calls, any      *)
(* inputs and any limits.                                                   *)
EXTENDS LLMBudget, FiniteSetTheorems, SumsAndRanks, TLAPS

\* A call at the provider holds its slot and the lock of its input until they
\* lapse.
HoldsInv ==
  \A c \in Current :
    /\ slot[c] = granted[c] + Lifetime
    /\ lock[input[c]].owner = c /\ lock[input[c]].until = granted[c] + Lifetime

\* The variables that the invariant needs to be typed.
TypeInv ==
  /\ slot \in [Call -> Nat] /\ granted \in [Call -> Nat]
  /\ lock \in [Input -> [owner : Call \cup {NoCall}, until : Nat]]
  /\ pc \in [Call -> Place] /\ input \in [Call -> Input] /\ now \in Nat

IInv == TypeInv /\ HoldsInv /\ ConcurrencyHeld

\* What a call holds has not lapsed.
LEMMA Held ==
  ASSUME TypeInv, HoldsInv, NEW c \in Current
  PROVE  slot[c] > now /\ lock[input[c]].until > now
<1>1. /\ granted[c] \in Nat /\ now < granted[c] + Lifetime
      /\ slot[c] = granted[c] + Lifetime /\ lock[input[c]].until = granted[c] + Lifetime
  BY DEF HoldsInv, TypeInv, Current, Calling
<1>2. QED
  BY <1>1

LEMMA InitIInv == Init => IInv
<1> SUFFICES ASSUME Init PROVE IInv
  OBVIOUS
<1>1. TypeInv
  BY BudgetAssumption DEF Init, TypeInv, Place
<1>2. Current = {}
  BY DEF Init, Current, Calling
<1>3. QED
  BY <1>1, <1>2, FS_EmptySet, BudgetAssumption DEF IInv, HoldsInv, ConcurrencyHeld

\* A step after which no new call is within its slot, and those that still are
\* keep what they hold.
LEMMA Keeps ==
  ASSUME IInv, TypeInv', Current' \subseteq Current, UNCHANGED <<granted, input>>,
         \A c \in Current' : slot'[c] = slot[c] /\ lock'[input[c]] = lock[input[c]]
  PROVE  IInv'
<1>1. HoldsInv'
  BY DEF IInv, HoldsInv
<1>2. Cardinality(Current') <= Cardinality(Current) /\ Cardinality(Current) \in Nat
      /\ Cardinality(Current') \in Nat
  <2>1. IsFiniteSet(Current)
    BY BudgetAssumption, FS_Subset DEF Current, Calling
  <2>2. QED
    BY <2>1, FS_Subset, FS_CardinalityType
<1>3. ConcurrencyHeld'
  BY <1>2, BudgetAssumption DEF IInv, ConcurrencyHeld
<1>4. QED
  BY <1>1, <1>3 DEF IInv

\* A granted call had a free slot and a free input.
LEMMA Grants == ASSUME IInv, NEW c \in Call, Reserve(c) PROVE IInv'
<1> USE BudgetAssumption
<1>0. TypeInv /\ HoldsInv /\ ConcurrencyHeld
  BY DEF IInv
<1>1. /\ pc[c] = "asking" /\ pc' = [pc EXCEPT ![c] = "calling"]
      /\ slot' = [slot EXCEPT ![c] = now + Lifetime]
      /\ granted' = [granted EXCEPT ![c] = now]
      /\ lock' = [lock EXCEPT ![input[c]] = [owner |-> c, until |-> now + Lifetime]]
      /\ UNCHANGED <<input, now>>
  BY DEF Reserve, Take, Goto, Expiry
<1>2. Cardinality(Slots) < Concurrency /\ ~(lock[input[c]].until > now)
  BY DEF Reserve, Admits, InFlight
<1>3. TypeInv'
  BY <1>0, <1>1 DEF TypeInv, Place
<1>4. Current' = Current \cup {c} /\ c \notin Current
  BY <1>0, <1>1 DEF Current, Calling, TypeInv
<1>5. HoldsInv'
  <2>1. ASSUME NEW d \in Current PROVE input[d] # input[c] /\ d # c
    BY <1>0, <1>2, <1>4, <2>1, Held
  <2>2. /\ granted'[c] = now /\ slot'[c] = now + Lifetime
        /\ lock'[input[c]] = [owner |-> c, until |-> now + Lifetime]
    BY <1>0, <1>1 DEF TypeInv
  <2>3. ASSUME NEW d \in Current
        PROVE  granted'[d] = granted[d] /\ slot'[d] = slot[d] /\ lock'[input[d]] = lock[input[d]]
    BY <1>0, <1>1, <2>1 DEF TypeInv, Current, Calling
  <2>4. QED
    BY <1>0, <1>1, <1>4, <2>2, <2>3 DEF HoldsInv, TypeInv
<1>6. ConcurrencyHeld'
  <2>1. Current \subseteq Slots
    BY <1>0, Held DEF Current, Calling, Slots
  <2>2. IsFiniteSet(Slots)
    BY FS_Subset DEF Slots
  <2>3. /\ IsFiniteSet(Current) /\ Cardinality(Current) <= Cardinality(Slots)
        /\ Cardinality(Current) \in Nat /\ Cardinality(Slots) \in Nat
    BY <2>1, <2>2, FS_Subset, FS_CardinalityType
  <2>4. Cardinality(Current') = Cardinality(Current) + 1
    BY <1>4, <2>3, FS_AddElement
  <2>5. QED
    BY <1>2, <2>3, <2>4 DEF ConcurrencyHeld
<1>7. QED
  BY <1>3, <1>5, <1>6 DEF IInv

\* The steps after the call keep the types.
LEMMA TypeAfter ==
  ASSUME TypeInv, NEW c \in Call, Reconcile(c) \/ Release(c) \/ Unlock(c)
  PROVE  TypeInv'
<1> USE BudgetAssumption
<1>1. /\ UNCHANGED <<granted, input, now>>
      /\ slot' = slot \/ slot' = [slot EXCEPT ![c] = 0]
      /\ lock' = lock \/ lock' = [lock EXCEPT ![input[c]] = [owner |-> NoCall, until |-> 0]]
  BY DEF Reconcile, Release, Unlock
<1>2. pc' \in [Call -> Place]
  <2>1. \/ pc' = [pc EXCEPT ![c] = "release"] \/ pc' = [pc EXCEPT ![c] = "unlock"]
        \/ pc' = [pc EXCEPT ![c] = "done"]
    BY DEF Reconcile, Release, Unlock, Goto
  <2>2. QED
    BY <2>1 DEF TypeInv, Place
<1>3. slot' \in [Call -> Nat]
  BY <1>1 DEF TypeInv
<1>4. lock' \in [Input -> [owner : Call \cup {NoCall}, until : Nat]]
  BY <1>1 DEF TypeInv
<1>5. QED
  BY <1>1, <1>2, <1>3, <1>4 DEF TypeInv

LEMMA TypeNext == ASSUME TypeInv, [Next]_vars PROVE TypeInv'
<1> USE BudgetAssumption
<1>1. ASSUME NEW c \in Call, Begin(c) \/ Refuse(c) \/ Crash(c) PROVE TypeInv'
  BY <1>1 DEF Begin, Refuse, Crash, Goto, redis, TypeInv, Place
<1>2. ASSUME NEW c \in Call, Reserve(c) \/ StoreFails(c) PROVE TypeInv'
  <2>1. UNCHANGED <<input, now>> /\ pc' \in [Call -> Place]
    BY <1>2 DEF Reserve, StoreFails, Goto, TypeInv, Place
  <2>2. CASE Take(c)
    BY <2>1, <2>2 DEF Take, Expiry, TypeInv
  <2>3. CASE UNCHANGED redis
    BY <2>1, <2>3 DEF redis, TypeInv
  <2>4. QED
    BY <1>2, <2>2, <2>3 DEF Reserve, StoreFails
<1>3. ASSUME NEW c \in Call, NEW n \in Nat, Respond(c, n) \/ CallFails(c, n) PROVE TypeInv'
  BY <1>3 DEF Respond, CallFails, Goto, redis, TypeInv, Place
<1>4. ASSUME NEW c \in Call, Reconcile(c) \/ Release(c) \/ Unlock(c) PROVE TypeInv'
  BY <1>4, TypeAfter
<1>5. CASE Tick \/ NewDay \/ UNCHANGED vars
  BY <1>5 DEF Tick, NewDay, vars, redis, TypeInv
<1>6. ASSUME NEW c \in Call PROVE 0..Reserved(c) \subseteq Nat
  BY DEF Reserved
<1> QED
  BY <1>1, <1>2, <1>3, <1>4, <1>5, <1>6 DEF Next

\* A step that takes no call to the provider, lets no time pass and leaves the
\* slots and locks of the calls that are there.
LEMMA Quiet ==
  ASSUME IInv, TypeInv', UNCHANGED <<granted, input, now>>,
         \A c \in Call : pc'[c] = "calling" => pc[c] = "calling",
         \A c \in Current' : slot'[c] = slot[c] /\ lock'[input[c]] = lock[input[c]]
  PROVE  IInv'
<1>1. Current' \subseteq Current
  BY DEF Current, Calling
<1>2. QED
  BY <1>1, Keeps

\* Every step keeps the invariant, however long a call takes.
LEMMA NextIInv == ASSUME IInv, [Next]_vars PROVE IInv'
<1> USE BudgetAssumption
<1>0. TypeInv /\ HoldsInv /\ ConcurrencyHeld /\ TypeInv'
  BY TypeNext DEF IInv
<1>1. ASSUME NEW c \in Call, Reserve(c) PROVE IInv'
  BY <1>1, Grants
<1>2. ASSUME NEW c \in Call, Begin(c) \/ Refuse(c) \/ Crash(c) PROVE IInv'
  <2>1. /\ UNCHANGED <<slot, lock, granted, input, now>>
        /\ pc' = [pc EXCEPT ![c] = "asking"] \/ pc' = [pc EXCEPT ![c] = "done"]
    BY <1>2 DEF Begin, Refuse, Crash, Goto, redis
  <2>2. QED
    BY <1>0, <2>1, Quiet DEF TypeInv
<1>3. ASSUME NEW c \in Call, StoreFails(c) PROVE IInv'
  <2>1. pc[c] = "asking" /\ pc' = [pc EXCEPT ![c] = "done"] /\ UNCHANGED <<input, now>>
    BY <1>3 DEF StoreFails, Goto
  <2>2. CASE UNCHANGED redis
    BY <1>0, <2>1, <2>2, Quiet DEF TypeInv, redis
  <2>3. CASE Admits(c) /\ Take(c)
    <3>1. /\ slot' = [slot EXCEPT ![c] = now + Lifetime]
          /\ granted' = [granted EXCEPT ![c] = now]
          /\ lock' = [lock EXCEPT ![input[c]] = [owner |-> c, until |-> now + Lifetime]]
          /\ ~(lock[input[c]].until > now)
      BY <2>3 DEF Admits, Take, Expiry, InFlight
    <3>2. Current' = Current /\ c \notin Current
      BY <1>0, <2>1, <3>1 DEF Current, Calling, TypeInv
    <3>3. ASSUME NEW d \in Current PROVE input[d] # input[c] /\ d # c
      BY <1>0, <3>1, <3>2, <3>3, Held
    <3>4. ASSUME NEW d \in Current
          PROVE  granted'[d] = granted[d] /\ slot'[d] = slot[d]
                 /\ lock'[input[d]] = lock[input[d]]
      BY <1>0, <3>1, <3>3 DEF TypeInv, Current, Calling
    <3>5. HoldsInv' /\ ConcurrencyHeld'
      BY <1>0, <2>1, <3>2, <3>4 DEF HoldsInv, ConcurrencyHeld
    <3>6. QED
      BY <1>0, <3>5 DEF IInv
  <2>4. QED
    BY <1>3, <2>2, <2>3 DEF StoreFails
<1>4. ASSUME NEW c \in Call, NEW n \in Nat, Respond(c, n) \/ CallFails(c, n) PROVE IInv'
  <2>1. /\ UNCHANGED <<slot, lock, granted, input, now>>
        /\ pc' = [pc EXCEPT ![c] = "reconcile"] \/ pc' = [pc EXCEPT ![c] = "release"]
    BY <1>4 DEF Respond, CallFails, Goto, redis
  <2>2. QED
    BY <1>0, <2>1, Quiet DEF TypeInv
<1>5. ASSUME NEW c \in Call, Reconcile(c) \/ Release(c) PROVE IInv'
  <2>1. /\ pc[c] # "calling" /\ UNCHANGED <<granted, input, now, lock>>
        /\ \/ pc' = [pc EXCEPT ![c] = "release"] \/ pc' = [pc EXCEPT ![c] = "unlock"]
           \/ pc' = [pc EXCEPT ![c] = "done"]
        /\ slot' = slot \/ slot' = [slot EXCEPT ![c] = 0]
    BY <1>5 DEF Reconcile, Release, Goto
  <2>2. \A d \in Current' : slot'[d] = slot[d]
    BY <1>0, <2>1 DEF TypeInv, Current, Calling
  <2>3. QED
    BY <1>0, <2>1, <2>2, Quiet DEF TypeInv
<1>6. ASSUME NEW c \in Call, Unlock(c) PROVE IInv'
  <2>1. /\ pc[c] = "unlock" /\ pc' = [pc EXCEPT ![c] = "done"]
        /\ UNCHANGED <<slot, granted, input, now>>
    BY <1>6 DEF Unlock, Goto
  <2>2. c \notin Current /\ Current' = Current
    BY <1>0, <2>1 DEF TypeInv, Current, Calling
  <2>3. ASSUME NEW d \in Current PROVE lock'[input[d]] = lock[input[d]]
    <3>1. CASE lock' = lock
      BY <3>1
    <3>2. CASE lock[input[c]].owner = c
               /\ lock' = [lock EXCEPT ![input[c]] = [owner |-> NoCall, until |-> 0]]
      <4>1. input[d] # input[c]
        BY <1>0, <2>2, <2>3, <3>2 DEF HoldsInv
      <4>2. QED
        BY <1>0, <3>2, <4>1 DEF TypeInv, Current, Calling
    <3>3. QED
      BY <1>6, <3>1, <3>2 DEF Unlock, Own
  <2>4. QED
    BY <1>0, <2>1, <2>2, <2>3, Keeps
<1>7. CASE Tick
  <2>1. now' = now + 1 /\ UNCHANGED <<slot, lock, granted, pc, input>>
    BY <1>7 DEF Tick, redis
  <2>2. Current' \subseteq Current
    BY <1>0, <2>1 DEF TypeInv, Current, Calling
  <2>3. QED
    BY <1>0, <2>1, <2>2, Keeps
<1>8. CASE NewDay \/ UNCHANGED vars
  <2>1. UNCHANGED <<slot, lock, granted, pc, input, now>>
    BY <1>8 DEF NewDay, vars, redis, bill
  <2>2. QED
    BY <1>0, <2>1, Quiet
<1>9. ASSUME NEW c \in Call PROVE 0..Reserved(c) \subseteq Nat
  BY DEF Reserved
<1> QED
  BY <1>1, <1>2, <1>3, <1>4, <1>5, <1>6, <1>7, <1>8, <1>9 DEF Next

LEMMA Inductive == Spec => []IInv
<1>1. IInv /\ [Next]_vars => IInv'
  BY NextIInv
<1>2. QED
  BY <1>1, InitIInv, PTL DEF Spec

\* However long calls take, those that have not outlived their slots never
\* exceed the concurrency.
THEOREM Concurrent == Spec => []ConcurrencyHeld
<1>1. IInv => ConcurrencyHeld
  BY DEF IInv
<1>2. QED
  BY <1>1, Inductive, PTL

\* However long calls take, no two calls that have not outlived their locks
\* generate the same input.
THEOREM OneGeneration == Spec => []OneGenerationPerInput
<1>1. IInv => OneGenerationPerInput
  <2> SUFFICES ASSUME IInv, NEW c \in Current, NEW d \in Current, input[c] = input[d]
               PROVE  c = d
    BY DEF OneGenerationPerInput
  <2>1. lock[input[c]].owner = c /\ lock[input[c]].owner = d
    BY DEF IInv, HoldsInv
  <2>2. QED
    BY <2>1
<1>2. QED
  BY <1>1, Inductive, PTL

\* Only the call that owns an input lock, or the first one after it has
\* lapsed, changes it.
LEMMA LockStep ==
  ASSUME IInv, [Next]_vars, NEW c \in Current, pc'[c] = "calling"
  PROVE  lock'[input[c]] = lock[input[c]]
<1>0. TypeInv /\ c \in Call /\ pc[c] = "calling"
      /\ InFlight(input[c]) /\ lock[input[c]].owner = c
  BY Held DEF IInv, HoldsInv, InFlight, Current, Calling
<1> USE BudgetAssumption
<1>1. ASSUME NEW d \in Call, Reserve(d) \/ StoreFails(d) PROVE lock'[input[c]] = lock[input[c]]
  <2>1. CASE Admits(d) /\ Take(d)
    <3>1. input[d] # input[c]
      BY <2>1, <1>0 DEF Admits
    <3>2. QED
      BY <1>0, <2>1, <3>1 DEF Take, TypeInv
  <2>2. CASE UNCHANGED redis
    BY <2>2 DEF redis
  <2>3. QED
    BY <1>1, <2>1, <2>2 DEF Reserve, StoreFails
<1>2. ASSUME NEW d \in Call, Unlock(d) PROVE lock'[input[c]] = lock[input[c]]
  <2>1. CASE lock' = lock
    BY <2>1
  <2>2. CASE Own(d) /\ lock' = [lock EXCEPT ![input[d]] = [owner |-> NoCall, until |-> 0]]
    <3>1. pc[d] = "unlock"
      BY <1>2 DEF Unlock
    <3>2. lock[input[d]].owner = d
      BY <2>2 DEF Own
    <3>3. input[d] # input[c]
      BY <1>0, <3>1, <3>2
    <3>4. QED
      BY <1>0, <2>2, <3>3 DEF TypeInv
  <2>3. QED
    BY <1>2, <2>1, <2>2 DEF Unlock
<1>3. ASSUME NEW d \in Call, NEW n \in Nat, Respond(d, n) \/ CallFails(d, n) PROVE lock' = lock
  BY <1>3 DEF Respond, CallFails, redis
<1>4. ASSUME NEW d \in Call, Begin(d) \/ Refuse(d) \/ Reconcile(d) \/ Release(d) \/ Crash(d)
      PROVE  lock' = lock
  BY <1>4 DEF Begin, Refuse, Reconcile, Release, Crash, redis
<1>5. CASE Tick \/ NewDay \/ UNCHANGED vars
  BY <1>5 DEF Tick, NewDay, vars, redis
<1>6. ASSUME NEW d \in Call PROVE 0..Reserved(d) \subseteq Nat
  BY DEF Reserved
<1> QED
  BY <1>1, <1>2, <1>3, <1>4, <1>5, <1>6 DEF Next

\* The end of a call never frees the lock that another call holds, however long
\* calls take.
THEOREM OwnLock == Spec => LockIsOwn
<1>1. IInv /\ [Next]_vars =>
        [\A c \in Current : pc'[c] = "calling" => lock'[input[c]] = lock[input[c]]]_vars
  BY LockStep
<1>2. QED
  BY <1>1, Inductive, PTL DEF Spec, LockIsOwn

\* What the count of a window of the rate rests on: no grant lies in the
\* future, and a call that was not granted has no grant.
RateInv ==
  /\ TypeInv /\ RateHeld
  /\ now \in Nat \ {0}
  /\ \A c \in Call : granted[c] <= now /\ (pc[c] \in {"new", "asking"} => granted[c] = 0)

Granted(t) == {c \in Call : granted[c] > 0 /\ t - Window < granted[c] /\ granted[c] <= t}

LEMMA SmallerWindow ==
  ASSUME NEW S, NEW T, IsFiniteSet(T), S \subseteq T, Cardinality(T) <= PerMinute
  PROVE  Cardinality(S) <= PerMinute
  BY FS_Subset, FS_CardinalityType, BudgetAssumption

\* A grant counts in the window that ends now, and in no earlier one.
LEMMA RateTake == ASSUME RateInv, NEW c \in Call, pc[c] = "asking", Admits(c), Take(c),
                         now' = now
                  PROVE  RateHeld'
<1> USE BudgetAssumption
<1>1. granted' = [granted EXCEPT ![c] = now] /\ granted[c] = 0
  BY DEF Take, RateInv
<1>2. SUFFICES ASSUME NEW t \in 1..now PROVE Cardinality(Granted(t)') <= PerMinute
  BY DEF RateHeld, Granted
<1>3. Cardinality(Granted(t)) <= PerMinute /\ IsFiniteSet(Granted(t))
  BY <1>2, FS_Subset DEF RateInv, RateHeld, Granted
<1>4. CASE t # now
  <2>1. Granted(t)' \subseteq Granted(t)
    BY <1>1, <1>2, <1>4 DEF Granted, RateInv, TypeInv
  <2>2. QED
    BY <1>3, <2>1, SmallerWindow
<1>5. CASE t = now
  <2>1. Granted(t)' = Recent \cup {c} /\ c \notin Recent
    BY <1>1, <1>5 DEF Granted, Recent, RateInv, TypeInv
  <2>2. IsFiniteSet(Recent) /\ Cardinality(Recent) < PerMinute
    BY FS_Subset DEF Recent, Admits
  <2>3. Cardinality(Granted(t)') = Cardinality(Recent) + 1 /\ Cardinality(Recent) \in Nat
    BY <2>1, <2>2, FS_AddElement, FS_CardinalityType
  <2>4. QED
    BY <2>2, <2>3
<1>6. QED
  BY <1>4, <1>5

LEMMA RateNext == ASSUME RateInv, [Next]_vars PROVE RateInv'
<1> USE BudgetAssumption
<1>1. TypeInv'
  BY TypeNext DEF RateInv
<1>2. ASSUME UNCHANGED <<granted, now>>,
             \A c \in Call : pc'[c] \in {"new", "asking"} => pc[c] \in {"new", "asking"}
      PROVE  RateInv'
  BY <1>1, <1>2 DEF RateInv, RateHeld
<1>3. ASSUME NEW c \in Call, Reserve(c) \/ StoreFails(c) PROVE RateInv'
  <2>1. pc[c] = "asking" /\ pc'[c] \notin {"new", "asking"} /\ now' = now
        /\ \A d \in Call \ {c} : pc'[d] = pc[d]
    BY <1>3 DEF Reserve, StoreFails, Goto, RateInv, TypeInv
  <2>2. CASE Admits(c) /\ Take(c)
    <3>1. RateHeld'
      BY <2>1, <2>2, RateTake
    <3>2. granted' = [granted EXCEPT ![c] = now]
      BY <2>2 DEF Take
    <3>3. QED
      BY <1>1, <2>1, <3>1, <3>2 DEF RateInv, TypeInv
  <2>3. CASE UNCHANGED redis
    BY <1>2, <2>1, <2>3 DEF redis
  <2>4. QED
    BY <1>3, <2>2, <2>3 DEF Reserve, StoreFails
<1>4. ASSUME NEW c \in Call, Begin(c) \/ Refuse(c) \/ Reconcile(c) \/ Release(c) \/ Unlock(c) \/ Crash(c)
      PROVE  RateInv'
  BY <1>2, <1>4 DEF Begin, Refuse, Reconcile, Release, Unlock, Crash, Goto, redis, RateInv, TypeInv
<1>5. ASSUME NEW c \in Call, NEW n \in Nat, Respond(c, n) \/ CallFails(c, n) PROVE RateInv'
  BY <1>2, <1>5 DEF Respond, CallFails, Goto, redis, RateInv, TypeInv
<1>6. CASE Tick
  <2>1. now' = now + 1 /\ UNCHANGED <<granted, pc>>
    BY <1>6 DEF Tick, redis
  <2>2. ASSUME NEW t \in 1..now' PROVE Cardinality(Granted(t)) <= PerMinute
    <3>1. CASE t <= now
      BY <3>1 DEF RateInv, RateHeld, Granted
    <3>2. CASE t = now + 1
      <4>1. Granted(t) \subseteq Granted(now)
        BY <3>2 DEF Granted, RateInv, TypeInv
      <4>2. IsFiniteSet(Granted(now)) /\ Cardinality(Granted(now)) <= PerMinute
        BY FS_Subset DEF RateInv, RateHeld, Granted
      <4>3. QED
        BY <4>1, <4>2, SmallerWindow
    <3>3. QED
      BY <2>1, <3>1, <3>2 DEF RateInv
  <2>3. RateHeld'
    BY <2>1, <2>2 DEF RateHeld, Granted
  <2>4. QED
    BY <1>1, <2>1, <2>3 DEF RateInv, TypeInv
<1>7. CASE NewDay \/ UNCHANGED vars
  BY <1>2, <1>7 DEF NewDay, vars, redis, bill
<1>8. ASSUME NEW c \in Call PROVE 0..Reserved(c) \subseteq Nat
  BY DEF Reserved
<1> QED
  BY <1>3, <1>4, <1>5, <1>6, <1>7, <1>8 DEF Next

\* No window of a minute holds more granted calls than allowed, wherever it
\* begins and whatever becomes of the calls.
THEOREM Rate == Spec => []RateHeld
<1>1. Init => RateInv
  <2> SUFFICES ASSUME Init PROVE RateInv
    OBVIOUS
  <2>1. \A t \in 1..now : Granted(t) = {}
    BY DEF Init, Granted
  <2>2. RateHeld
    BY <2>1, FS_EmptySet, BudgetAssumption DEF RateHeld, Granted
  <2>3. QED
    BY <2>2, BudgetAssumption DEF Init, RateInv, TypeInv, Place
<1>2. RateInv /\ [Next]_vars => RateInv'
  BY RateNext
<1>3. RateInv => RateHeld
  BY DEF RateInv
<1>4. QED
  BY <1>1, <1>2, <1>3, PTL DEF Spec

-----------------------------------------------------------------------------
(* The types.                                                              *)

LEMMA TakeTypes ==
  ASSUME TypeOK, NEW c \in Call, Take(c)
  PROVE  /\ used' \in [0..MaxDay -> Int] /\ slot' \in [Call -> 0..(now + Lifetime)]
         /\ lock' \in [Input -> [owner : Call \cup {NoCall}, until : 0..(now + Lifetime)]]
         /\ granted' \in [Call -> 0..now]
<1>1. /\ used' = [used EXCEPT ![day[c]] = @ + Reserved(c)]
      /\ slot' = [slot EXCEPT ![c] = Expiry] /\ granted' = [granted EXCEPT ![c] = now]
      /\ lock' = [lock EXCEPT ![input[c]] = [owner |-> c, until |-> Expiry]]
  BY DEF Take
<1>2. Reserved(c) \in Nat /\ Expiry \in 0..(now + Lifetime) /\ now \in 0..now
  BY BudgetAssumption DEF TypeOK, Reserved, Expiry
<1>3. used' \in [0..MaxDay -> Int]
  BY <1>1, <1>2 DEF TypeOK
<1>4. QED
  BY <1>1, <1>2, <1>3 DEF TypeOK

LEMMA FaultTypes == ASSUME TypeOK, Fault \/ faults' = faults PROVE faults' \in 0..MaxFaults
<1>1. faults \in Nat /\ faults <= MaxFaults /\ MaxFaults \in Nat
  BY BudgetAssumption DEF TypeOK
<1>2. QED
  BY <1>1 DEF Fault

LEMMA PayTypes ==
  ASSUME TypeOK, NEW c \in Call, NEW n \in Nat, Pay(c, n) PROVE paid' \in [0..MaxDay -> Nat] /\ again' = again
<1>1. day[c] \in 0..MaxDay /\ paid \in [0..MaxDay -> Nat]
  BY DEF TypeOK
<1>2. paid[day[c]] + n \in Nat
  BY <1>1
<1>3. QED
  BY <1>1, <1>2 DEF Pay

LEMMA TypeStep == ASSUME TypeOK, [Next]_vars PROVE TypeOK'
<1>1. ASSUME NEW c \in Call, Begin(c) \/ Refuse(c) PROVE TypeOK'
  BY <1>1 DEF Begin, Refuse, Goto, redis, bill, TypeOK, Place
<1>2. ASSUME NEW c \in Call, Reserve(c) \/ StoreFails(c) PROVE TypeOK'
  <2>1. /\ pc' \in [Call -> Place] /\ faults' \in 0..MaxFaults
        /\ UNCHANGED <<input, day, actual, now, today, paid, again>>
    BY <1>2, FaultTypes DEF Reserve, StoreFails, Goto, bill, TypeOK, Place
  <2>2. CASE Take(c)
    BY <2>1, <2>2, TakeTypes DEF TypeOK
  <2>3. CASE UNCHANGED redis
    BY <2>1, <2>3 DEF TypeOK, redis
  <2>4. QED
    BY <1>2, <2>2, <2>3 DEF Reserve, StoreFails
<1>3. ASSUME NEW c \in Call, NEW n \in 0..Reserved(c), Respond(c, n) \/ CallFails(c, n)
      PROVE  TypeOK'
  <2>1. n \in Nat
    BY BudgetAssumption DEF TypeOK, Reserved
  <2>2. paid' \in [0..MaxDay -> Nat] /\ again' = again
    BY <1>3, <2>1, PayTypes DEF Respond, CallFails
  <2>3. faults' \in 0..MaxFaults
    BY <1>3, FaultTypes DEF Respond, CallFails
  <2>4. QED
    BY <1>3, <2>1, <2>2, <2>3 DEF Respond, CallFails, Goto, redis, bill, TypeOK, Place
<1>4. ASSUME NEW c \in Call, Reconcile(c) PROVE TypeOK'
  <2>1. Reserved(c) \in Nat /\ actual[c] \in Nat /\ day[c] \in 0..MaxDay
    BY BudgetAssumption DEF TypeOK, Reserved
  <2>2. \A n \in {1, 2} : Refund(c, n) => used' \in [0..MaxDay -> Int]
    <3> SUFFICES ASSUME NEW n \in {1, 2}, Refund(c, n) PROVE used' \in [0..MaxDay -> Int]
      OBVIOUS
    <3>1. n * (actual[c] - Reserved(c)) \in Int
      BY <2>1
    <3>2. QED
      BY <2>1, <3>1 DEF Refund, Reconciled, TypeOK
  <2>a. again' \in [0..MaxDay -> Int]
    <3>1. CASE Resent(c)
      <4>1. again' = [again EXCEPT ![day[c]] = @ + Reserved(c) - actual[c]]
        BY <3>1 DEF Resent
      <4>2. again[day[c]] + Reserved(c) - actual[c] \in Int
        BY <1>4, <2>1 DEF TypeOK, Reconcile
      <4>3. QED
        BY <4>1, <4>2 DEF TypeOK
    <3>2. CASE UNCHANGED again
      BY <3>2 DEF TypeOK
    <3>3. QED
      BY <1>4, <3>1, <3>2 DEF Reconcile
  <2>3. used' \in [0..MaxDay -> Int] /\ faults' \in 0..MaxFaults
    BY <1>4, <2>2, FaultTypes DEF Reconcile, Resent, TypeOK
  <2>4. QED
    BY <1>4, <2>a, <2>3 DEF Reconcile, Goto, TypeOK, Place
<1>5. ASSUME NEW c \in Call, Release(c) \/ Unlock(c) PROVE TypeOK'
  <2>1. faults' \in 0..MaxFaults
    BY <1>5, FaultTypes DEF Release, Unlock
  <2>2. 0 \in 0..(now + Lifetime)
    BY BudgetAssumption DEF TypeOK
  <2>3. pc' \in [Call -> Place] /\ slot' \in [Call -> 0..(now + Lifetime)]
    BY <1>5, <2>2 DEF Release, Unlock, Goto, TypeOK, Place
  <2>4. lock' \in [Input -> [owner : Call \cup {NoCall}, until : 0..(now + Lifetime)]]
    <3>1. input[c] \in Input
      BY DEF TypeOK
    <3>2. \/ lock' = lock
          \/ lock' = [lock EXCEPT ![input[c]] = [owner |-> NoCall, until |-> 0]]
      BY <1>5 DEF Release, Unlock
    <3>3. [owner |-> NoCall, until |-> 0] \in [owner : Call \cup {NoCall}, until : 0..(now + Lifetime)]
      BY <2>2
    <3>4. QED
      BY <3>1, <3>2, <3>3 DEF TypeOK
  <2>5. UNCHANGED <<used, granted, input, day, actual, now, today, paid, again>>
    BY <1>5 DEF Release, Unlock, bill
  <2>6. QED
    BY <2>1, <2>3, <2>4, <2>5 DEF TypeOK
<1>6. ASSUME NEW c \in Call, Crash(c) PROVE TypeOK'
  <2>1. Reserved(c) \in Nat
    BY BudgetAssumption DEF TypeOK, Reserved
  <2>2. paid' \in [0..MaxDay -> Nat] /\ again' = again /\ faults' \in 0..MaxFaults
    BY <1>6, <2>1, FaultTypes, PayTypes DEF Crash, bill, TypeOK
  <2>3. QED
    BY <1>6, <2>2 DEF Crash, Goto, redis, bill, TypeOK, Place
<1>7. CASE Tick
  <2>1. now \in Nat /\ now' = now + 1 /\ now' \in 1..(MaxTime + 1)
    BY <1>7, BudgetAssumption DEF Tick, TypeOK
  <2>2. 0..(now + Lifetime) \subseteq 0..(now' + Lifetime) /\ 0..now \subseteq 0..now'
    BY <2>1, BudgetAssumption
  <2>3. /\ slot \in [Call -> 0..(now' + Lifetime)] /\ granted \in [Call -> 0..now']
        /\ lock \in [Input -> [owner : Call \cup {NoCall}, until : 0..(now' + Lifetime)]]
    BY <2>2 DEF TypeOK
  <2>4. QED
    BY <1>7, <2>1, <2>3 DEF Tick, redis, bill, TypeOK
<1>8. CASE NewDay \/ UNCHANGED vars
  <2>1. today' \in 0..MaxDay
    BY <1>8, BudgetAssumption DEF NewDay, vars, TypeOK
  <2>2. QED
    BY <1>8, <2>1 DEF NewDay, vars, redis, bill, TypeOK
<1>9. QED
  BY <1>1, <1>2, <1>3, <1>4, <1>5, <1>6, <1>7, <1>8 DEF Next

\* Every variable of the guard keeps its type.
THEOREM TypeCorrect == Spec => []TypeOK
<1>1. Init => TypeOK
  BY BudgetAssumption DEF Init, TypeOK, Place
<1>2. TypeOK /\ [Next]_vars => TypeOK'
  BY TypeStep
<1>3. QED
  BY <1>1, <1>2, PTL DEF Spec

-----------------------------------------------------------------------------
(* The ledger.                                                             *)

\* What a call may still add to what was paid, of what it has reserved.
Claim(c) ==
  IF pc[c] = "calling" THEN Reserved(c)
  ELSE IF pc[c] = "reconcile" THEN Reserved(c) - actual[c] ELSE 0

Claims(d) == [c \in Call |-> IF day[c] = d THEN Claim(c) ELSE 0]

\* What was paid on a day and all claims on it are covered by its ledger, with
\* what was given back twice.
LedgerInv ==
  /\ TypeOK
  /\ \A c \in Call : pc[c] = "reconcile" => actual[c] <= Reserved(c)
  /\ \A d \in 0..MaxDay :
       paid[d] + SumFunctionOnSet(Claims(d), Call) <= used[d] + again[d] /\ used[d] <= Budget

LEMMA ClaimType ==
  ASSUME TypeOK, \A c \in Call : pc[c] = "reconcile" => actual[c] <= Reserved(c), NEW c \in Call
  PROVE  Claim(c) \in Nat /\ Reserved(c) \in Nat
<1>1. Reserved(c) \in Nat /\ actual[c] \in Nat
  BY BudgetAssumption DEF TypeOK, Reserved
<1>2. QED
  BY <1>1 DEF Claim

LEMMA ClaimsType ==
  ASSUME LedgerInv, NEW d
  PROVE  (\A c \in Call : Claims(d)[c] \in Nat) /\ SumFunctionOnSet(Claims(d), Call) \in Nat
<1>1. \A c \in Call : Claims(d)[c] \in Nat
  BY ClaimType DEF LedgerInv, Claims
<1>2. QED
  BY <1>1, SumIsNat, BudgetAssumption

\* A step of one call: what is paid and reserved on its day goes with its claim.
LEMMA OneClaim ==
  ASSUME LedgerInv, TypeOK', NEW c \in Call,
         \A e \in Call \ {c} : pc'[e] = pc[e] /\ actual'[e] = actual[e] /\ day'[e] = day[e],
         UNCHANGED input, pc'[c] = "reconcile" => actual'[c] <= Reserved(c),
         day'[c] = day[c] \/ (Claim(c) = 0 /\ Claim(c)' = 0),
         \A d \in 0..MaxDay \ {day'[c]} : paid'[d] = paid[d] /\ used'[d] = used[d] /\ again'[d] = again[d],
         paid'[day'[c]] + Claim(c)' - (paid[day'[c]] + Claim(c))
           <= (used'[day'[c]] + again'[day'[c]]) - (used[day'[c]] + again[day'[c]]),
         used'[day'[c]] <= Budget
  PROVE  LedgerInv'
<1> USE BudgetAssumption
<1>0. TypeOK /\ (\A e \in Call : Reserved(e)' = Reserved(e))
  BY DEF LedgerInv, Reserved
<1>1. \A e \in Call : pc'[e] = "reconcile" => actual'[e] <= Reserved(e)'
  BY <1>0 DEF LedgerInv
<1>2. \A e \in Call \ {c} : Claim(e)' = Claim(e)
  BY <1>0 DEF Claim
<1>3. \A e \in Call : Claim(e) \in Nat /\ Claim(e)' \in Nat
  <2>1. \A e \in Call : Claim(e) \in Nat
    BY ClaimType DEF LedgerInv
  <2>2. \A e \in Call : Reserved(e)' \in Nat /\ actual'[e] \in Nat
    BY DEF TypeOK, Reserved
  <2>3. \A e \in Call : Claim(e)' \in Nat
    BY <1>1, <2>2 DEF Claim
  <2>4. QED
    BY <2>1, <2>3
<1>4. ASSUME NEW d \in 0..MaxDay
      PROVE  paid'[d] + SumFunctionOnSet(Claims(d)', Call) <= used'[d] + again'[d]
             /\ used'[d] <= Budget
  <2> DEFINE f == Claims(d)
             g == Claims(d)'
  <2>1. \A e \in Call : f[e] = (IF day[e] = d THEN Claim(e) ELSE 0)
                       /\ g[e] = (IF day'[e] = d THEN Claim(e)' ELSE 0)
    BY DEF Claims
  <2>2. \A e \in Call : f[e] \in Int /\ g[e] \in Int /\ (e # c => g[e] = f[e])
    BY <1>2, <1>3, <2>1
  <2>3. SumFunctionOnSet(f, Call) \in Nat
    BY ClaimsType
  <2>4. paid[d] + SumFunctionOnSet(f, Call) <= used[d] + again[d] /\ used[d] <= Budget
    BY DEF LedgerInv
  <2> HIDE DEF f, g
  <2>5. SumFunctionOnSet(g, Call) = SumFunctionOnSet(f, Call) + g[c] - f[c]
    BY <2>2, SumChange
  <2>6. paid[d] \in Nat /\ paid'[d] \in Nat /\ used[d] \in Int /\ used'[d] \in Int
        /\ again[d] \in Int /\ again'[d] \in Int
    BY <1>0 DEF TypeOK
  <2>7. CASE d = day'[c]
    <3>1. g[c] - f[c] = Claim(c)' - Claim(c)
      BY <2>1, <2>7, <1>3
    <3>2. QED
      <4>1. /\ paid'[d] + Claim(c)' - (paid[d] + Claim(c))
                 <= (used'[d] + again'[d]) - (used[d] + again[d])
            /\ used'[d] <= Budget
        BY <2>7
      <4>2. Claim(c) \in Nat /\ Claim(c)' \in Nat /\ f[c] \in Int /\ g[c] \in Int
        BY <1>3, <2>2
      <4>3. paid'[d] + SumFunctionOnSet(g, Call) <= used'[d] + again'[d]
        <5>1. \A p, q, F, G, w, x, k, l \in Int :
                p + F <= w /\ G = F + l - k /\ q + l - (p + k) <= x - w => q + G <= x
          OBVIOUS
        <5>2. /\ used[d] + again[d] \in Int /\ used'[d] + again'[d] \in Int
              /\ SumFunctionOnSet(f, Call) \in Int /\ SumFunctionOnSet(g, Call) \in Int
          BY <2>3, <2>5, <2>6, <4>2
        <5>3. SumFunctionOnSet(g, Call) = SumFunctionOnSet(f, Call) + Claim(c)' - Claim(c)
          BY <2>5, <3>1, <4>2, <5>2
        <5>4. QED
          BY <2>4, <2>6, <4>1, <4>2, <5>1, <5>2, <5>3
      <4>4. QED
        BY <4>1, <4>3 DEF g
  <2>8. CASE d # day'[c]
    <3>1. g[c] = f[c]
      BY <2>1, <2>8
    <3>2. QED
      BY <2>2, <2>3, <2>4, <2>5, <2>6, <2>8, <3>1 DEF g
  <2>9. QED
    BY <2>7, <2>8
<1>5. QED
  BY <1>1, <1>4 DEF LedgerInv

LEMMA LedgerStep == ASSUME LedgerInv, [Next]_vars PROVE LedgerInv'
<1> USE BudgetAssumption
<1>0. TypeOK /\ TypeOK'
  BY TypeStep DEF LedgerInv
<1>a. ASSUME NEW c \in Call
      PROVE  /\ Claim(c) \in Nat /\ Reserved(c) \in Nat /\ actual[c] \in Nat
             /\ day[c] \in 0..MaxDay /\ used[day[c]] \in Int /\ paid[day[c]] \in Nat
             /\ again[day[c]] \in Int
             /\ used[day[c]] <= Budget
             /\ pc[c] = "reconcile" => actual[c] <= Reserved(c)
  BY <1>0, ClaimType DEF LedgerInv, TypeOK
<1>b. ASSUME NEW c \in Call, UNCHANGED <<used, paid, again, input, day>>,
             \A e \in Call \ {c} : pc'[e] = pc[e] /\ actual'[e] = actual[e],
             pc'[c] \notin {"calling", "reconcile"}
      PROVE  LedgerInv'
  <2>1. Claim(c)' = 0
    BY <1>b DEF Claim
  <2>2. paid'[day'[c]] + Claim(c)' - (paid[day'[c]] + Claim(c))
             <= (used'[day'[c]] + again'[day'[c]]) - (used[day'[c]] + again[day'[c]])
    BY <1>a, <1>b, <2>1
  <2>3. QED
    BY <1>0, <1>a, <1>b, <2>2, OneClaim
<1>1. ASSUME NEW c \in Call, Begin(c) PROVE LedgerInv'
  <2>1. /\ pc[c] = "new" /\ pc' = [pc EXCEPT ![c] = "asking"] /\ day' = [day EXCEPT ![c] = today]
        /\ UNCHANGED <<used, paid, again, input, actual>>
    BY <1>1 DEF Begin, Goto, redis, bill
  <2>2. Claim(c) = 0 /\ Claim(c)' = 0
    BY <1>0, <2>1 DEF Claim, TypeOK
  <2>3. day'[c] \in 0..MaxDay /\ used[day'[c]] \in Int /\ paid[day'[c]] \in Nat /\ used[day'[c]] <= Budget
        /\ again[day'[c]] \in Int
    BY <1>0 DEF TypeOK, LedgerInv
  <2>4. paid'[day'[c]] + Claim(c)' - (paid[day'[c]] + Claim(c))
             <= (used'[day'[c]] + again'[day'[c]]) - (used[day'[c]] + again[day'[c]])
        /\ used'[day'[c]] <= Budget
    BY <2>1, <2>2, <2>3
  <2>5. pc'[c] # "reconcile"
        /\ \A e \in Call \ {c} : pc'[e] = pc[e] /\ actual'[e] = actual[e] /\ day'[e] = day[e]
    BY <1>0, <2>1 DEF TypeOK
  <2>6. \A d \in 0..MaxDay \ {day'[c]} : paid'[d] = paid[d] /\ used'[d] = used[d]
    BY <2>1
  <2>7. QED
    BY <1>0, <2>1, <2>2, <2>4, <2>5, <2>6, OneClaim
<1>2. ASSUME NEW c \in Call, Reserve(c) \/ StoreFails(c) PROVE LedgerInv'
  <2>1. /\ pc[c] = "asking" /\ UNCHANGED <<input, day, actual, paid, again>>
        /\ pc' = [pc EXCEPT ![c] = "calling"] \/ pc' = [pc EXCEPT ![c] = "done"]
    BY <1>2 DEF Reserve, StoreFails, Goto, bill
  <2>2. /\ \A e \in Call \ {c} : pc'[e] = pc[e] /\ actual'[e] = actual[e]
        /\ pc'[c] \in {"calling", "done"} /\ Reserved(c)' = Reserved(c) /\ day'[c] = day[c]
    BY <1>0, <2>1 DEF TypeOK, Reserved
  <2>3. CASE Admits(c) /\ Take(c)
    <3>1. used[day[c]] + Reserved(c) <= Budget
      BY <2>3 DEF Admits, Affordable
    <3>2. /\ used'[day[c]] = used[day[c]] + Reserved(c)
          /\ \A d \in 0..MaxDay \ {day[c]} : used'[d] = used[d]
      BY <1>0, <2>3, <1>a DEF Take, TypeOK
    <3>3. Claim(c) = 0 /\ Claim(c)' \in Nat /\ Claim(c)' <= Reserved(c)
      BY <1>a, <2>1, <2>2 DEF Claim
    <3>4. /\ paid'[day'[c]] + Claim(c)' - (paid[day'[c]] + Claim(c))
             <= (used'[day'[c]] + again'[day'[c]]) - (used[day'[c]] + again[day'[c]])
          /\ used'[day'[c]] <= Budget
      BY <1>a, <2>1, <2>2, <3>1, <3>2, <3>3
    <3>5. QED
      BY <1>0, <2>1, <2>2, <3>2, <3>4, OneClaim
  <2>4. CASE StoreFails(c) /\ UNCHANGED redis
    BY <1>b, <2>1, <2>2, <2>4, <1>0 DEF redis, bill, StoreFails, Goto, TypeOK
  <2>5. QED
    BY <1>2, <2>3, <2>4 DEF Reserve, StoreFails
<1>3. ASSUME NEW c \in Call, NEW n \in 0..Reserved(c), Respond(c, n) \/ CallFails(c, n)
      PROVE  LedgerInv'
  <2>1. /\ pc[c] = "calling" /\ UNCHANGED <<used, again, input, day>>
        /\ paid' = [paid EXCEPT ![day[c]] = @ + n]
        /\ \/ pc' = [pc EXCEPT ![c] = "reconcile"] /\ actual' = [actual EXCEPT ![c] = n]
           \/ pc' = [pc EXCEPT ![c] = "release"] /\ actual' = actual
    BY <1>3 DEF Respond, CallFails, Goto, Pay, redis, bill
  <2>2. n \in Nat /\ n <= Reserved(c) /\ Reserved(c)' = Reserved(c) /\ day'[c] = day[c]
    BY <1>a, <2>1 DEF Reserved
  <2>3. /\ paid'[day[c]] = paid[day[c]] + n
        /\ \A d \in 0..MaxDay \ {day[c]} : paid'[d] = paid[d]
    BY <1>0, <1>a, <2>1 DEF TypeOK
  <2>4. /\ \A e \in Call \ {c} : pc'[e] = pc[e] /\ actual'[e] = actual[e]
        /\ (pc'[c] = "reconcile" /\ actual'[c] = n) \/ pc'[c] = "release"
    BY <1>0, <2>1 DEF TypeOK
  <2>5. Claim(c) = Reserved(c) /\ Claim(c)' \in Nat /\ Claim(c)' <= Reserved(c) - n
    BY <1>a, <2>1, <2>2, <2>3, <2>4 DEF Claim
  <2>6. /\ paid'[day'[c]] + Claim(c)' - (paid[day'[c]] + Claim(c))
             <= (used'[day'[c]] + again'[day'[c]]) - (used[day'[c]] + again[day'[c]])
        /\ used'[day'[c]] <= Budget
    BY <1>a, <2>1, <2>2, <2>3, <2>4, <2>5
  <2>7. QED
    BY <1>0, <2>1, <2>2, <2>3, <2>4, <2>6, OneClaim
<1>4. ASSUME NEW c \in Call, Reconcile(c) PROVE LedgerInv'
  <2>1. /\ pc[c] = "reconcile" /\ pc' = [pc EXCEPT ![c] = "release"] /\ actual' = [actual EXCEPT ![c] = 0]
        /\ \/ Refund(c, 1) /\ UNCHANGED again
           \/ UNCHANGED <<used, again>>
           \/ Resent(c)
        /\ UNCHANGED <<input, day, paid>>
    BY <1>4 DEF Reconcile, Goto
  <2>2. /\ \A e \in Call \ {c} : pc'[e] = pc[e] /\ actual'[e] = actual[e]
        /\ pc'[c] = "release" /\ day'[c] = day[c]
    BY <1>0, <2>1 DEF TypeOK
  <2>3. Claim(c) = Reserved(c) - actual[c] /\ Claim(c)' = 0
    BY <2>1, <2>2 DEF Claim
  <2>4. ASSUME NEW n \in {1, 2}, Refund(c, n)
        PROVE  /\ used'[day[c]] = used[day[c]] + n * (actual[c] - Reserved(c))
               /\ \A d \in 0..MaxDay \ {day[c]} : used'[d] = used[d]
    <3>1. n * (actual[c] - Reserved(c)) \in Int
      BY <1>a, <2>4
    <3>2. QED
      BY <1>0, <1>a, <2>4, <3>1 DEF Refund, Reconciled, TypeOK
  <2>5. CASE Refund(c, 1) /\ UNCHANGED again
    <3>1. used'[day[c]] = used[day[c]] + (actual[c] - Reserved(c))
      BY <1>a, <2>4, <2>5
    <3>2. /\ paid'[day'[c]] + Claim(c)' - (paid[day'[c]] + Claim(c))
               <= (used'[day'[c]] + again'[day'[c]]) - (used[day'[c]] + again[day'[c]])
          /\ used'[day'[c]] <= Budget
      BY <1>a, <2>1, <2>2, <2>3, <2>5, <3>1
    <3>3. QED
      BY <1>0, <2>1, <2>2, <2>4, <2>5, <3>2, OneClaim
  <2>6. CASE UNCHANGED <<used, again>>
    BY <1>b, <2>1, <2>2, <2>6
  <2>7. CASE Resent(c)
    <3>1. Refund(c, 2) /\ again' = [again EXCEPT ![day[c]] = @ + Reserved(c) - actual[c]]
      BY <2>7 DEF Resent
    <3>2. /\ again'[day[c]] = again[day[c]] + Reserved(c) - actual[c]
          /\ \A d \in 0..MaxDay \ {day[c]} : again'[d] = again[d]
      BY <1>0, <1>a, <3>1 DEF TypeOK
    <3>3. used'[day[c]] = used[day[c]] + 2 * (actual[c] - Reserved(c))
      BY <2>4, <3>1
    <3>4. /\ (Claim(c)' - Claim(c)) = actual[c] - Reserved(c) /\ actual[c] - Reserved(c) <= 0
          /\ (used'[day[c]] + again'[day[c]]) - (used[day[c]] + again[day[c]])
               = actual[c] - Reserved(c)
          /\ used'[day[c]] <= Budget
      <4>1. actual[c] \in Nat /\ Reserved(c) \in Nat /\ actual[c] <= Reserved(c)
            /\ used[day[c]] \in Int /\ again[day[c]] \in Int /\ used[day[c]] <= Budget
        BY <1>a, <2>1
      <4>2. QED
        BY <2>3, <3>2, <3>3, <4>1
    <3>a. /\ paid'[day'[c]] + Claim(c)' - (paid[day'[c]] + Claim(c))
               <= (used'[day'[c]] + again'[day'[c]]) - (used[day'[c]] + again[day'[c]])
          /\ used'[day'[c]] <= Budget
      <4>1. day'[c] = day[c] /\ paid' = paid
        BY <2>1, <2>2
      <4>2. /\ paid[day[c]] \in Nat /\ used[day[c]] \in Int /\ again[day[c]] \in Int
            /\ Claim(c) \in Int /\ Claim(c)' \in Int
            /\ used'[day[c]] \in Int /\ again'[day[c]] \in Int
        <5>1. Reserved(c) \in Int /\ actual[c] \in Int /\ day[c] \in 0..MaxDay
          BY <1>a
        <5>2. Claim(c) \in Int /\ Claim(c)' \in Int
          BY <2>3, <5>1
        <5>3. used'[day[c]] \in Int /\ again'[day[c]] \in Int
          BY <1>0, <5>1 DEF TypeOK
        <5>4. QED
          BY <1>a, <5>2, <5>3
      <4>3. (paid[day[c]] + Claim(c)') - (paid[day[c]] + Claim(c)) = Claim(c)' - Claim(c)
        BY <4>2
      <4>4. QED
        BY <3>4, <4>1, <4>2, <4>3
    <3>5. QED
      BY <1>0, <2>1, <2>2, <2>4, <3>1, <3>2, <3>a, OneClaim
  <2>8. QED
    BY <2>1, <2>5, <2>6, <2>7
<1>5. ASSUME NEW c \in Call, Refuse(c) \/ Release(c) \/ Unlock(c) PROVE LedgerInv'
  <2>1. UNCHANGED <<used, paid, again, input, day, actual>>
        /\ pc'[c] \in {"done", "unlock"} /\ \A e \in Call \ {c} : pc'[e] = pc[e]
    BY <1>0, <1>5 DEF Refuse, Release, Unlock, Goto, redis, bill, TypeOK
  <2>2. QED
    BY <1>b, <2>1
<1>6. ASSUME NEW c \in Call, Crash(c) PROVE LedgerInv'
  <2>1. UNCHANGED <<used, input, day, actual, again>>
        /\ pc'[c] = "done" /\ \A e \in Call \ {c} : pc'[e] = pc[e]
    BY <1>0, <1>6 DEF Crash, Goto, Pay, redis, bill, TypeOK
  <2>2. CASE UNCHANGED bill
    BY <1>b, <2>1, <2>2 DEF bill
  <2>3. CASE pc[c] = "calling" /\ Pay(c, Reserved(c))
    <3>1. /\ paid'[day[c]] = paid[day[c]] + Reserved(c)
          /\ \A d \in 0..MaxDay \ {day[c]} : paid'[d] = paid[d]
      BY <1>0, <1>a, <2>3 DEF Pay, TypeOK
    <3>2. Claim(c) = Reserved(c) /\ Claim(c)' = 0
      BY <2>1, <2>3 DEF Claim
    <3>3. /\ paid'[day'[c]] + Claim(c)' - (paid[day'[c]] + Claim(c))
             <= (used'[day'[c]] + again'[day'[c]]) - (used[day'[c]] + again[day'[c]])
          /\ used'[day'[c]] <= Budget
      BY <1>a, <2>1, <3>1, <3>2
    <3>4. QED
      BY <1>0, <2>1, <3>1, <3>3, OneClaim
  <2>4. QED
    BY <1>6, <2>2, <2>3 DEF Crash
<1>7. CASE Tick \/ NewDay \/ UNCHANGED vars
  <2>1. UNCHANGED <<used, paid, again, pc, input, day, actual>>
    BY <1>7 DEF Tick, NewDay, vars, redis, bill
  <2>2. QED
    BY <1>0, <2>1 DEF LedgerInv, Claims, Claim, Reserved
<1>8. QED
  BY <1>1, <1>2, <1>3, <1>4, <1>5, <1>6, <1>7 DEF Next

\* The ledger of a day holds all that was paid and all that calls under way may
\* still cost, but for what was given back twice, and it stays within the
\* budget, through failures, crashes and midnight.
THEOREM Ledger == Spec => []LedgerIsConservative
<1> USE BudgetAssumption
<1>1. Init => LedgerInv
  <2> SUFFICES ASSUME Init PROVE LedgerInv
    OBVIOUS
  <2>1. TypeOK
    BY DEF Init, TypeOK, Place
  <2>2. \A c \in Call : pc[c] = "new"
    BY DEF Init
  <2>3. ASSUME NEW d \in 0..MaxDay PROVE SumFunctionOnSet(Claims(d), Call) = 0
    <3>1. \A c \in Call : Claims(d)[c] = 0
      BY <2>2 DEF Claims, Claim
    <3>2. QED
      BY <3>1, SumOfZeros
  <2>4. QED
    BY <2>1, <2>2, <2>3 DEF LedgerInv, Init
<1>2. LedgerInv /\ [Next]_vars => LedgerInv'
  BY LedgerStep
<1>3. LedgerInv => LedgerIsConservative
  <2> SUFFICES ASSUME LedgerInv, NEW d \in 0..MaxDay
               PROVE  /\ paid[d] + SumFunctionOnSet([c \in Call |-> Reserved(c)], {c \in Calling : day[c] = d})
                           <= used[d] + again[d]
                      /\ used[d] <= Budget
    BY DEF LedgerIsConservative
  <2> DEFINE S == {c \in Calling : day[c] = d}
             f == Claims(d)
             g == [c \in Call |-> Reserved(c)]
  <2>1. S \subseteq Call /\ IsFiniteSet(S)
    BY FS_Subset DEF Calling
  <2>2. (\A c \in Call : f[c] \in Nat) /\ SumFunctionOnSet(f, Call) \in Nat
    BY ClaimsType
  <2>3. \A c \in S : f[c] = g[c]
    BY DEF Claims, Claim, Calling
  <2>4. paid[d] + SumFunctionOnSet(f, Call) <= used[d] + again[d] /\ used[d] <= Budget
        /\ paid[d] \in Nat /\ used[d] \in Int /\ again[d] \in Int
    BY DEF LedgerInv, TypeOK
  <2> HIDE DEF S, f, g
  <2>5. SumFunctionOnSet(f, S) <= SumFunctionOnSet(f, Call) /\ SumFunctionOnSet(f, S) \in Nat
    BY <2>1, <2>2, SumSubset, SumIsNat
  <2>6. SumFunctionOnSet(g, S) = SumFunctionOnSet(f, S)
    BY <2>1, <2>2, <2>3, SumSame
  <2>7. paid[d] + SumFunctionOnSet(g, S) <= used[d] + again[d]
    BY <2>2, <2>4, <2>5, <2>6
  <2>8. QED
    BY <2>4, <2>7 DEF g, S
<1>4. QED
  BY <1>1, <1>2, <1>3, PTL DEF Spec
=============================================================================
