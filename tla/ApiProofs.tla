------------------------------ MODULE ApiProofs ------------------------------
(***************************************************************************)
(* What TLAPS proves about Api: the cache for any rows, writers and        *)
(* readers, the admission for any limit, window and number of slots, the   *)
(* migrations for any releases, the answers for any questions and jobs.    *)
(***************************************************************************)
EXTENDS Api, SumsAndRanks, TLAPS

-----------------------------------------------------------------------------
(* ReadCache, for any rows, writers and readers, transactions of any length  *)
(* and any number of writes.                                                *)

\* Who holds a row holds the generation, or executes nothing any more.
LockInv ==
  /\ \A w \in Writer : wpc[w] # "idle" /\ wpc[w] # "open" => statements[w] > 0
  /\ \A w \in Writer : wpc[w] \in {"run", "after"} => row[w] \in Row
  /\ \A w \in Writer, x \in Row :
       rowlock[x] = w => \/ generation = w
                         \/ kind[w] = "quiet" /\ statements[w] > 0 /\ wpc[w] # "run"
  /\ \A w \in Writer : wpc[w] = "after" /\ kind[w] = "write" => generation = w
  /\ \A w \in Writer : revisionlock = w => generation = w

\* One row of data is at least as new as another.
AtLeast(d, e) == \A x \in Row : d[x] >= e[x]

\* Entries are of past revisions, and those of this one are current.
EntryInv ==
  \A e \in cache : e.key <= revision /\ (e.key = revision => AtLeast(e.value, data))

\* What a reader knows of the revision it has captured.
KeyInv ==
  \A r \in Reader : key[r] # None =>
    /\ key[r] <= revision
    /\ key[r] = revision => since[r] = data
    /\ \A e \in cache : e.key = key[r] => AtLeast(e.value, since[r])
    /\ \A q \in Reader : key[q] = key[r] => since[q] = since[r]

ResultInv ==
  \A r \in Reader :
    /\ rpc[r] # "idle" => AtLeast(data, since[r])
    /\ rpc[r] = "query" => \A x \in Row \ unread[r] : got[r][x] >= since[r][x]
    /\ rpc[r] \in {"store", "reply"} => AtLeast(got[r], since[r])
    /\ rpc[r] = "idle" => key[r] = None

ViewInv == EntryInv /\ KeyInv /\ ResultInv

IInv == TypeOK /\ LockInv /\ ViewInv

view == <<data, revision, cache, readers>>

LEMMA InitIInv == Init => IInv
<1> SUFFICES ASSUME Init PROVE IInv
  OBVIOUS
<1> USE ReadCacheAssumption
<1>1. TypeOK
  BY DEF Init, TypeOK, Nothing, Data, Kind
<1>2. LockInv
  BY DEF Init, LockInv
<1>3. ViewInv
  BY DEF Init, ViewInv, EntryInv, KeyInv, ResultInv
<1>4. QED
  BY <1>1, <1>2, <1>3 DEF IInv

-----------------------------------------------------------------------------
(* Writers.                                                                *)

\* What a transaction leaves when it ends, however it ends.
LEMMA EndStep ==
  ASSUME TypeOK, LockInv, NEW w \in Writer, End(w), data' \in Data, revision' \in Nat
  PROVE  TypeOK' /\ LockInv'
<1> USE ReadCacheAssumption
<1>1. /\ wpc' = [wpc EXCEPT ![w] = "idle"] /\ row' = [row EXCEPT ![w] = None]
      /\ written' = [written EXCEPT ![w] = Nothing] /\ statements' = [statements EXCEPT ![w] = 0]
      /\ generation' = (IF generation = w THEN None ELSE generation)
      /\ revisionlock' = (IF revisionlock = w THEN None ELSE revisionlock)
      /\ rowlock' = [x \in Row |-> IF rowlock[x] = w THEN None ELSE rowlock[x]]
      /\ UNCHANGED <<kind, cache, readers>>
  BY DEF End, Goto
<1>2. Nothing \in Data
  BY DEF Nothing, Data
<1>3. TypeOK'
  BY <1>1, <1>2 DEF TypeOK, readers
<1>4. LockInv'
  <2>1. \A v \in Writer \ {w} : wpc'[v] = wpc[v] /\ statements'[v] = statements[v]
    BY <1>1 DEF TypeOK
  <2>2. wpc'[w] = "idle"
    BY <1>1 DEF TypeOK
  <2>3. ASSUME NEW v \in Writer, NEW x \in Row, rowlock'[x] = v PROVE v # w /\ rowlock[x] = v
    BY <1>1, <2>3
  <2>4. \A v \in Writer : wpc'[v] \in {"run", "after"} => row'[v] \in Row
    BY <1>1, <2>1, <2>2 DEF LockInv, TypeOK
  <2>5. QED
    BY <1>1, <2>1, <2>2, <2>3, <2>4 DEF LockInv
<1>5. QED
  BY <1>3, <1>4

LEMMA WriterStep ==
  ASSUME TypeOK, LockInv, NEW w \in Writer,
         \/ TakeGeneration(w) \/ TakeRow(w) \/ Advance(w) \/ Locked(w) \/ Begin(w)
         \/ \E x \in Row, k \in Kind : Statement(w, x, k)
  PROVE  TypeOK' /\ LockInv' /\ UNCHANGED view
<1> USE ReadCacheAssumption
<1>1. CASE TakeGeneration(w)
  BY <1>1 DEF TakeGeneration, TypeOK, LockInv, writers, readers, view
<1>2. CASE TakeRow(w)
  <2>1. /\ wpc[w] = "run" /\ (NeedsGeneration(kind[w]) => generation = w) /\ row[w] \in Row
        /\ rowlock' = [rowlock EXCEPT ![row[w]] = w] /\ wpc' = [wpc EXCEPT ![w] = "after"]
        /\ UNCHANGED <<row, kind, statements, generation, revisionlock, written>> /\ UNCHANGED view
    BY <1>2 DEF TakeRow, WaitsRow, WaitsGeneration, Goto, LockInv, view
  <2>2. TypeOK'
    BY <2>1 DEF TypeOK, view, readers
  <2>3. kind[w] \in Kind /\ (kind[w] # "quiet" => generation = w)
    BY <2>1 DEF TypeOK, Kind, NeedsGeneration
  <2>4. /\ \A v \in Writer \ {w} : wpc'[v] = wpc[v]
        /\ wpc'[w] = "after" /\ rowlock'[row[w]] = w
        /\ \A x \in Row \ {row[w]} : rowlock'[x] = rowlock[x]
    BY <2>1 DEF TypeOK
  <2>5. kind[w] = "quiet" => statements[w] > 0
    BY <2>1 DEF LockInv
  <2>6. QED
    BY <2>1, <2>2, <2>3, <2>4, <2>5 DEF LockInv
<1>3. CASE Advance(w)
  <2>1. /\ wpc[w] = "after" /\ kind[w] = "write" /\ generation = w /\ revisionlock' = w
        /\ row[w] \in Row
        /\ written' = [written EXCEPT ![w][row[w]] = @ + 1] /\ wpc' = [wpc EXCEPT ![w] = "open"]
        /\ UNCHANGED <<row, kind, statements, generation, rowlock>> /\ UNCHANGED view
    BY <1>3 DEF Advance, WaitsRevision, Goto, LockInv, view
  <2>2. written' \in [Writer -> Data]
    BY <2>1 DEF TypeOK, Data
  <2>3. TypeOK'
    BY <2>1, <2>2 DEF TypeOK, view, readers
  <2>4. QED
    BY <2>1, <2>3 DEF LockInv, TypeOK
<1>4. CASE Locked(w)
  BY <1>4 DEF Locked, Goto, TypeOK, LockInv, locks, readers, view
<1>5. CASE Begin(w)
  BY <1>5 DEF Begin, Goto, TypeOK, LockInv, locks, readers, view
<1>6. ASSUME NEW x \in Row, NEW k \in Kind, Statement(w, x, k)
      PROVE  TypeOK' /\ LockInv' /\ UNCHANGED view
  <2>1. /\ wpc[w] = "open" /\ ~(kind[w] = "quiet" /\ statements[w] > 0)
        /\ wpc' = [wpc EXCEPT ![w] = "run"] /\ row' = [row EXCEPT ![w] = x]
        /\ kind' = [kind EXCEPT ![w] = k] /\ statements' = [statements EXCEPT ![w] = @ + 1]
        /\ UNCHANGED <<written, locks>> /\ UNCHANGED view
    BY <1>6 DEF Statement, Quiet, Goto, view
  <2>2. TypeOK'
    BY <2>1 DEF TypeOK, locks, view, readers
  <2>3. QED
    BY <2>1, <2>2 DEF LockInv, TypeOK, locks
<1>7. QED
  BY <1>1, <1>2, <1>3, <1>4, <1>5, <1>6

-----------------------------------------------------------------------------
(* What is committed, cached and read.                                     *)

LEMMA CommitView ==
  ASSUME TypeOK, ViewInv, NEW w \in Writer, Commit(w)
  PROVE  data' \in Data /\ revision' \in Nat /\ ViewInv'
<1>1. /\ data' = [x \in Row |-> data[x] + written[w][x]]
      /\ revision' = IF Changes(w) THEN revision + 1 ELSE revision
      /\ UNCHANGED <<cache, readers>>
  BY DEF Commit, NextRevision, End
<1>2. /\ data \in Data /\ written[w] \in Data /\ revision \in Nat
      /\ \A e \in cache : e.key \in Nat
      /\ \A r \in Reader : since[r] \in Data /\ (key[r] # None => key[r] \in Nat)
  BY DEF TypeOK
<1>3. data' \in Data /\ revision' \in Nat
  BY <1>1, <1>2 DEF Data
<1>4. AtLeast(data', data)
  BY <1>1, <1>2 DEF AtLeast, Data
<1>5. CASE Changes(w)
  <2>1. revision' = revision + 1
    BY <1>1, <1>5
  <2>2. EntryInv'
    BY <1>1, <1>2, <2>1 DEF ViewInv, EntryInv
  <2>3. KeyInv'
    BY <1>1, <1>2, <2>1 DEF ViewInv, KeyInv, readers
  <2>4. ResultInv'
    <3>1. \A r \in Reader : rpc[r] # "idle" => AtLeast(data', since[r])
      BY <1>2, <1>3, <1>4 DEF ViewInv, ResultInv, AtLeast, Data
    <3>2. QED
      BY <1>1, <3>1 DEF ViewInv, ResultInv, readers
  <2>5. QED
    BY <1>3, <2>2, <2>3, <2>4 DEF ViewInv
<1>6. CASE ~Changes(w)
  <2>1. \A x \in Row : data[x] + written[w][x] = data[x]
    BY <1>2, <1>6 DEF Changes, Data
  <2>2. data' = data /\ revision' = revision
    BY <1>1, <1>2, <1>6, <2>1 DEF Data
  <2>3. QED
    BY <1>1, <1>3, <2>2 DEF ViewInv, EntryInv, KeyInv, ResultInv, readers, AtLeast
<1>7. QED
  BY <1>5, <1>6

LEMMA ReaderStep ==
  ASSUME TypeOK, LockInv, ViewInv, NEW r \in Reader, Read(r)
  PROVE  TypeOK' /\ LockInv' /\ ViewInv'
<1> USE ReadCacheAssumption
<1>0. UNCHANGED <<data, revision, writers, locks>>
  BY DEF Read, Ask, Hit, Miss, Query, Store, Reply
<1>1. LockInv'
  BY <1>0 DEF LockInv, writers, locks
<1>2. SUFFICES
        /\ \A e \in cache' : e.key \in Nat /\ e.value \in Data
        /\ rpc' \in [Reader -> {"idle", "lookup", "query", "store", "reply"}]
        /\ key' \in [Reader -> Nat \cup {None}] /\ unread' \in [Reader -> SUBSET Row]
        /\ got' \in [Reader -> Data] /\ since' \in [Reader -> Data]
        /\ ViewInv'
  BY <1>0, <1>1 DEF TypeOK, writers, locks
<1>d. \A d \in Data : AtLeast(d, d)
  BY DEF AtLeast, Data
<1>3. CASE Ask(r)
  <2>1. /\ rpc[r] = "idle" /\ rpc' = [rpc EXCEPT ![r] = "lookup"]
        /\ key' = [key EXCEPT ![r] = revision] /\ since' = [since EXCEPT ![r] = data]
        /\ got' = [got EXCEPT ![r] = Nothing] /\ UNCHANGED <<cache, unread>>
    BY <1>3 DEF Ask, RGoto
  <2>2. Nothing \in Data
    BY DEF Nothing, Data
  <2>3. EntryInv'
    BY <1>0, <2>1 DEF ViewInv, EntryInv
  <2>4. KeyInv'
    BY <1>0, <2>1 DEF ViewInv, EntryInv, KeyInv, TypeOK
  <2>5. ResultInv'
    BY <1>0, <1>d, <2>1 DEF ViewInv, ResultInv, TypeOK
  <2>6. QED
    BY <2>1, <2>2, <2>3, <2>4, <2>5 DEF TypeOK, ViewInv
<1>4. CASE Hit(r)
  <2>1. PICK e \in Entries(r) : got' = [got EXCEPT ![r] = e.value]
    BY <1>4 DEF Hit
  <2>2. /\ rpc[r] = "lookup" /\ rpc' = [rpc EXCEPT ![r] = "reply"]
        /\ UNCHANGED <<cache, key, unread, since>>
    BY <1>4 DEF Hit, RGoto
  <2>3. e \in cache /\ e.key = key[r] /\ e.value \in Data /\ key[r] # None
    BY <2>1 DEF Entries, TypeOK
  <2>4. AtLeast(e.value, since[r])
    BY <2>3 DEF ViewInv, KeyInv
  <2>5. EntryInv' /\ KeyInv'
    BY <1>0, <2>2 DEF ViewInv, EntryInv, KeyInv
  <2>6. ResultInv'
    BY <1>0, <2>1, <2>2, <2>4 DEF ViewInv, ResultInv, TypeOK
  <2>7. QED
    BY <2>1, <2>2, <2>3, <2>5, <2>6 DEF TypeOK, ViewInv
<1>5. CASE Miss(r)
  <2>1. /\ rpc[r] = "lookup" /\ rpc' = [rpc EXCEPT ![r] = "query"]
        /\ unread' = [unread EXCEPT ![r] = Row]
        /\ key' = key \/ key' = [key EXCEPT ![r] = None]
        /\ UNCHANGED <<cache, got, since>>
    BY <1>5 DEF Miss, RGoto
  <2>2. /\ \A q \in Reader : key'[q] = key[q] \/ key'[q] = None
        /\ key' \in [Reader -> Nat \cup {None}]
    BY <2>1 DEF TypeOK
  <2>3. EntryInv' /\ KeyInv'
    BY <1>0, <2>1, <2>2 DEF ViewInv, EntryInv, KeyInv
  <2>4. ResultInv'
    BY <1>0, <2>1, <2>2 DEF ViewInv, ResultInv, TypeOK
  <2>5. QED
    BY <2>1, <2>2, <2>3, <2>4 DEF TypeOK, ViewInv
<1>6. ASSUME NEW x \in Row, Query(r, x)
      PROVE  /\ \A e \in cache' : e.key \in Nat /\ e.value \in Data
             /\ rpc' \in [Reader -> {"idle", "lookup", "query", "store", "reply"}]
             /\ key' \in [Reader -> Nat \cup {None}] /\ unread' \in [Reader -> SUBSET Row]
             /\ got' \in [Reader -> Data] /\ since' \in [Reader -> Data]
             /\ ViewInv'
  <2>1. /\ rpc[r] = "query" /\ x \in unread[r]
        /\ got' = [got EXCEPT ![r][x] = data[x]]
        /\ unread' = [unread EXCEPT ![r] = @ \ {x}]
        /\ rpc' = [rpc EXCEPT ![r] = IF unread[r] = {x} THEN "store" ELSE "query"]
        /\ UNCHANGED <<cache, key, since>>
    BY <1>6 DEF Query, RGoto
  <2>2. EntryInv' /\ KeyInv'
    BY <1>0, <2>1 DEF ViewInv, EntryInv, KeyInv
  <2>3. data[x] >= since[r][x]
    BY <2>1 DEF ViewInv, ResultInv, AtLeast
  <2>4. /\ got'[r] = [got[r] EXCEPT ![x] = data[x]] /\ got[r] \in Data
        /\ unread'[r] = unread[r] \ {x}
        /\ rpc'[r] = IF unread[r] = {x} THEN "store" ELSE "query"
        /\ \A q \in Reader \ {r} : got'[q] = got[q] /\ unread'[q] = unread[q] /\ rpc'[q] = rpc[q]
    BY <2>1 DEF TypeOK
  <2>5. \A y \in Row \ unread'[r] : got'[r][y] >= since[r][y]
    <3> SUFFICES ASSUME NEW y \in Row \ unread'[r] PROVE got'[r][y] >= since[r][y]
      OBVIOUS
    <3>1. CASE y = x
      BY <2>3, <2>4, <3>1 DEF Data
    <3>2. CASE y # x
      BY <2>1, <2>4, <3>2 DEF ViewInv, ResultInv, Data
    <3>3. QED
      BY <3>1, <3>2
  <2>6. rpc'[r] = "store" => AtLeast(got'[r], since[r])
    BY <2>4, <2>5 DEF AtLeast
  <2>7. ResultInv'
    BY <1>0, <2>1, <2>4, <2>5, <2>6 DEF ViewInv, ResultInv
  <2>8. got' \in [Reader -> Data]
    BY <2>1 DEF TypeOK, Data
  <2>9. QED
    BY <2>1, <2>2, <2>7, <2>8 DEF TypeOK, ViewInv
<1>7. CASE Store(r)
  <2>1. /\ rpc[r] = "store" /\ rpc' = [rpc EXCEPT ![r] = "reply"]
        /\ UNCHANGED <<key, unread, got, since>>
    BY <1>7 DEF Store, RGoto
  <2>2. ResultInv'
    BY <1>0, <2>1 DEF ViewInv, ResultInv, TypeOK
  <2>3. CASE UNCHANGED cache
    BY <1>0, <2>1, <2>2, <2>3 DEF ViewInv, EntryInv, KeyInv, TypeOK
  <2>4. CASE /\ key[r] # None
             /\ cache' = {e \in cache : e.key # key[r]} \cup {[key |-> key[r], value |-> got[r]]}
    <3>1. key[r] \in Nat /\ got[r] \in Data /\ AtLeast(got[r], since[r])
      BY <2>1, <2>4 DEF TypeOK, ViewInv, ResultInv
    <3>2. \A e \in cache' : e \in cache \/ (e.key = key[r] /\ e.value = got[r])
      BY <2>4
    <3>3. EntryInv'
      BY <1>0, <2>4, <3>1, <3>2 DEF ViewInv, EntryInv, KeyInv
    <3>4. KeyInv'
      <4> SUFFICES ASSUME NEW q \in Reader, key[q] # None, NEW e \in cache', e.key = key[q]
                   PROVE  AtLeast(e.value, since[q])
        BY <1>0, <2>1 DEF ViewInv, KeyInv
      <4>1. CASE e \in cache
        BY <4>1 DEF ViewInv, KeyInv
      <4>2. CASE e.key = key[r] /\ e.value = got[r]
        BY <2>4, <3>1, <4>2 DEF ViewInv, KeyInv
      <4>3. QED
        BY <3>2, <4>1, <4>2
    <3>5. QED
      BY <2>1, <2>2, <3>1, <3>2, <3>3, <3>4 DEF TypeOK, ViewInv
  <2>5. QED
    BY <1>7, <2>3, <2>4 DEF Store, MayStore, StoreKey
<1>8. CASE Reply(r)
  <2>1. /\ rpc[r] = "reply" /\ rpc' = [rpc EXCEPT ![r] = "idle"]
        /\ key' = [key EXCEPT ![r] = None] /\ UNCHANGED <<cache, unread, got, since>>
    BY <1>8 DEF Reply, RGoto
  <2>2. EntryInv' /\ KeyInv'
    BY <1>0, <2>1 DEF ViewInv, EntryInv, KeyInv, TypeOK
  <2>3. ResultInv'
    BY <1>0, <2>1 DEF ViewInv, ResultInv, TypeOK
  <2>4. QED
    BY <2>1, <2>2, <2>3 DEF TypeOK, ViewInv
<1>9. QED
  BY <1>3, <1>4, <1>5, <1>6, <1>7, <1>8 DEF Read

-----------------------------------------------------------------------------
(* Theorems.                                                               *)

LEMMA Step == IInv /\ [Next]_vars => IInv'
<1> SUFFICES ASSUME TypeOK, LockInv, ViewInv, [Next]_vars PROVE TypeOK' /\ LockInv' /\ ViewInv'
  BY DEF IInv
<1>v. ASSUME UNCHANGED view PROVE ViewInv'
  BY <1>v DEF view, ViewInv, EntryInv, KeyInv, ResultInv, readers
<1>1. ASSUME NEW w \in Writer, Proceed(w) \/ Write(w) PROVE TypeOK' /\ LockInv' /\ ViewInv'
  <2>1. CASE Commit(w)
    BY <2>1, CommitView, EndStep DEF Commit
  <2>2. CASE Rollback(w)
    <3>1. data' \in Data /\ revision' \in Nat /\ End(w)
      BY <2>2 DEF Rollback, TypeOK
    <3>2. UNCHANGED view
      BY <2>2 DEF Rollback, End, view
    <3>3. QED
      BY <3>1, <3>2, <1>v, EndStep
  <2>3. QED
    BY <1>1, <2>1, <2>2, <1>v, WriterStep DEF Proceed, Write
<1>2. ASSUME NEW r \in Reader, Read(r) PROVE TypeOK' /\ LockInv' /\ ViewInv'
  BY <1>2, ReaderStep
<1>3. ASSUME Expire PROVE TypeOK' /\ LockInv' /\ ViewInv'
  <2>1. cache' \subseteq cache /\ UNCHANGED <<data, revision, writers, locks, readers>>
    BY <1>3 DEF Expire
  <2>2. TypeOK' /\ LockInv'
    BY <2>1 DEF TypeOK, LockInv, writers, locks, readers
  <2>3. ViewInv'
    BY <2>1 DEF ViewInv, EntryInv, KeyInv, ResultInv, readers
  <2>4. QED
    BY <2>2, <2>3
<1>4. ASSUME UNCHANGED vars PROVE TypeOK' /\ LockInv' /\ ViewInv'
  BY <1>4, <1>v DEF vars, view, TypeOK, LockInv, writers, locks, readers
<1>5. QED
  BY <1>1, <1>2, <1>3, <1>4 DEF Next

LEMMA Inductive == Spec => []IInv
BY InitIInv, Step, PTL DEF Spec

\* The types hold for every value of the constants (api/cache.py, sql/014).
THEOREM TypeCorrect == Spec => []TypeOK
<1>1. IInv => TypeOK
  BY DEF IInv
<1>2. QED
  BY Inductive, <1>1, PTL

\* No response is older than its request, whatever commits between its
\* queries and whatever Redis loses (versioned_key, cache_json_set).
THEOREM Fresh == Spec => []NeverStale
<1>1. IInv => NeverStale
  BY DEF IInv, ViewInv, ResultInv, NeverStale, AtLeast
<1>2. QED
  BY Inductive, <1>1, PTL

\* A writer that holds a row waits for nobody but the holder of the revision,
\* who is the holder of the generation (lock_write_generation, sql/015).
THEOREM DeadlockFree == Spec => []NoDeadlock
<1>1. TypeOK /\ LockInv => NoDeadlock
  <2> SUFFICES ASSUME TypeOK, LockInv, NEW S \in SUBSET Writer, S # {},
                      \A w \in S : \E v \in S : Waits(w, v)
               PROVE  FALSE
    BY DEF NoDeadlock
  <2>1. ASSUME NEW w \in S, NEW v \in S, Waits(w, v) PROVE generation = v
    <3>1. CASE WaitsGeneration(w) /\ generation = v
      BY <3>1
    <3>2. CASE WaitsRow(w) /\ rowlock[row[w]] = v
      <4>1. row[w] \in Row
        BY <3>2 DEF LockInv, WaitsRow
      <4>2. \E u \in S : Waits(v, u)
        OBVIOUS
      <4>3. wpc[v] = "run" \/ kind[v] = "write"
        BY <4>2 DEF Waits, WaitsGeneration, WaitsRow, WaitsRevision
      <4>4. QED
        BY <3>2, <4>1, <4>3 DEF LockInv
    <3>3. CASE WaitsRevision(w) /\ revisionlock = v
      BY <3>3 DEF LockInv
    <3>4. QED
      BY <2>1, <3>1, <3>2, <3>3 DEF Waits
  <2>2. PICK w \in S : TRUE
    OBVIOUS
  <2>3. PICK v \in S : Waits(w, v)
    BY <2>2
  <2>4. PICK u \in S : Waits(v, u)
    BY <2>3
  <2>5. generation = v /\ generation = u /\ u # v
    BY <2>1, <2>3, <2>4 DEF Waits
  <2>6. QED
    BY <2>5
<1>2. IInv => NoDeadlock
  BY <1>1 DEF IInv
<1>3. QED
  BY Inductive, <1>2, PTL

-----------------------------------------------------------------------------
(* Migrate, for any deployments and releases.                               *)

\* s is the beginning of t.
Begins(s, t) == Len(s) <= Len(t) /\ \A i \in 1..Len(s) : s[i] = t[i]

LEMMA PrefixIs ==
  ASSUME NEW T, NEW s \in Seq(T), NEW t \in Seq(T)
  PROVE  M!IsPrefix(s, t) <=> Begins(s, t)
<1>1. Len(s) \in Nat /\ Len(t) \in Nat /\ DOMAIN s = 1..Len(s) /\ DOMAIN t = 1..Len(t)
  OBVIOUS
<1>2. M!IsPrefix(s, t) <=> Len(s) <= Len(t) /\ SubSeq(s, 1, Len(s)) = SubSeq(t, 1, Len(s))
  BY DEF M!IsPrefix
<1>3. SubSeq(s, 1, Len(s)) = s
  OBVIOUS
<1>4. ASSUME Len(s) <= Len(t)
      PROVE  /\ SubSeq(t, 1, Len(s)) \in Seq(T) /\ Len(SubSeq(t, 1, Len(s))) = Len(s)
             /\ \A i \in 1..Len(s) : SubSeq(t, 1, Len(s))[i] = t[i]
  BY <1>4
<1>5. QED
  BY <1>1, <1>2, <1>3, <1>4 DEF Begins

\* The first n files of a release, and one file more.
FirstOf(s, t, n, T) == s \in Seq(T) /\ Len(s) = n /\ Begins(s, t)

LEMMA FirstFiles ==
  ASSUME NEW T, NEW t \in Seq(T), NEW n \in 0..Len(t)
  PROVE  FirstOf(SubSeq(t, 1, n), t, n, T)
<1>1. /\ SubSeq(t, 1, n) \in Seq(T) /\ Len(SubSeq(t, 1, n)) = n
      /\ \A i \in 1..n : SubSeq(t, 1, n)[i] = t[i]
  OBVIOUS
<1>2. QED
  BY <1>1 DEF FirstOf, Begins

OneMore(s, u, t, T) == u \in Seq(T) /\ Begins(u, t) /\ u # << >>

LEMMA NextFile ==
  ASSUME NEW T, NEW s \in Seq(T), NEW t \in Seq(T), Begins(s, t), Len(s) < Len(t),
         NEW u, u = Append(s, t[Len(s) + 1])
  PROVE  OneMore(s, u, t, T)
<1>1. Len(s) \in Nat /\ Len(t) \in Nat /\ Len(s) + 1 \in 1..Len(t) /\ t[Len(s) + 1] \in T
  OBVIOUS
<1>2. /\ u \in Seq(T) /\ Len(u) = Len(s) + 1 /\ u[Len(s) + 1] = t[Len(s) + 1]
      /\ \A i \in 1..Len(s) : u[i] = s[i]
  BY <1>1
<1>3. Begins(u, t)
  BY <1>1, <1>2 DEF Begins
<1>4. QED
  BY <1>1, <1>2, <1>3 DEF OneMore

\* The lock is held until the end; who applies knows the ledger, which is the
\* database's; a database without a ledger has at most what a baseline records.
MigLock == \A m \in Migrator : mig_pc[m] # "idle" => mig_lock = m
MigApply ==
  \A m \in Migrator : mig_pc[m] = "applying" =>
    mig_known[m] = mig_ledger /\ Begins(mig_ledger, Files[m]) /\ mig_schema = mig_ledger
MigSchema ==
  /\ IF mig_ledger = << >> THEN Len(mig_schema) <= Legacy ELSE mig_schema = mig_ledger
  /\ \E m \in Migrator : Begins(mig_schema, Files[m])

MigInv == M!TypeOK /\ MigLock /\ MigApply /\ MigSchema

LEMMA FilesAre == ASSUME NEW m \in Migrator PROVE Files[m] \in Seq(File) /\ Len(Files[m]) \in Nat
  BY MigrateAssumption

LEMMA InitMig == M!Init => MigInv
<1> SUFFICES ASSUME M!Init PROVE MigInv
  OBVIOUS
<1>1a. PICK m \in Migrator : \E n \in 0..Len(Files[m]) :
         mig_schema = SubSeq(Files[m], 1, n) /\ (mig_ledger = mig_schema \/ (mig_ledger = << >> /\ n <= Legacy))
  BY DEF M!Init
<1>1. PICK n \in 0..Len(Files[m]) :
        mig_schema = SubSeq(Files[m], 1, n) /\ (mig_ledger = mig_schema \/ (mig_ledger = << >> /\ n <= Legacy))
  BY <1>1a
<1>2. mig_schema \in Seq(File) /\ Len(mig_schema) = n /\ Begins(mig_schema, Files[m])
  <2>1. FirstOf(SubSeq(Files[m], 1, n), Files[m], n, File)
    BY FilesAre, FirstFiles
  <2>2. QED
    BY <1>1, <2>1 DEF FirstOf
<1>3. mig_pc = [x \in Migrator |-> "idle"] /\ mig_known = [x \in Migrator |-> << >>] /\ mig_lock = NoMigrator
  BY DEF M!Init
<1>4. M!TypeOK
  <2>0. << >> \in Seq(File)
    OBVIOUS
  <2>1. mig_ledger \in Seq(File)
    BY <1>1, <1>2, <2>0
  <2>2. mig_known \in [Migrator -> Seq(File)] /\ mig_pc \in [Migrator -> M!Action \cup {"idle", "applying", "unlock"}]
    BY <1>3, <2>0
  <2>3. QED
    BY <1>2, <1>3, <2>1, <2>2 DEF M!TypeOK
<1>5. MigSchema
  <2>1. mig_ledger = << >> => Len(mig_schema) <= Legacy
    <3>1. mig_schema = << >> => Len(mig_schema) = 0
      OBVIOUS
    <3>2. Legacy \in Nat
      BY MigrateAssumption
    <3>3. CASE mig_ledger = mig_schema
      BY <3>1, <3>2, <3>3
    <3>4. CASE mig_ledger = << >> /\ n <= Legacy
      BY <1>2, <3>4
    <3>5. QED
      BY <1>1, <3>3, <3>4
  <2>2. QED
    BY <1>1, <1>2, <2>1 DEF MigSchema
<1>6. MigLock /\ MigApply
  BY <1>3 DEF MigLock, MigApply
<1>7. QED
  BY <1>4, <1>5, <1>6 DEF MigInv

\* Steps that leave the database as it is.
LEMMA MigQuiet ==
  ASSUME MigInv, M!TypeOK', MigLock', MigApply', UNCHANGED <<mig_schema, mig_ledger>>
  PROVE  MigInv'
  BY DEF MigInv, MigSchema

LEMMA BeginMig == ASSUME MigInv, NEW m \in Migrator, NEW a \in M!Action, M!Begin(m, a) PROVE MigInv'
<1>0. M!TypeOK /\ MigLock /\ MigApply /\ mig_lock = NoMigrator /\ mig_lock' = m
      /\ mig_pc' = [mig_pc EXCEPT ![m] = a] /\ UNCHANGED <<mig_schema, mig_ledger, mig_known>>
  BY DEF MigInv, M!Begin, M!Goto
<1>1. \A x \in Migrator : mig_pc[x] = "idle"
  BY <1>0, MigrateAssumption DEF MigLock
<1>2. \A x \in Migrator : mig_pc'[x] = IF x = m THEN a ELSE "idle"
  BY <1>0, <1>1 DEF M!TypeOK
<1>3. a # "applying" /\ a # "idle"
  BY DEF M!Action
<1>4. M!TypeOK'
  BY <1>0 DEF M!TypeOK
<1>5. MigLock' /\ MigApply'
  BY <1>0, <1>2, <1>3 DEF MigLock, MigApply
<1>6. QED
  BY <1>0, <1>4, <1>5, MigQuiet

LEMMA EndMig == ASSUME MigInv, NEW m \in Migrator, mig_pc[m] # "idle", M!End(m) PROVE MigInv'
<1>0. M!TypeOK /\ MigLock /\ MigApply /\ mig_lock = m
      /\ mig_pc' = [mig_pc EXCEPT ![m] = "idle"] /\ mig_known' = [mig_known EXCEPT ![m] = << >>]
      /\ mig_lock' = NoMigrator /\ UNCHANGED <<mig_schema, mig_ledger>>
  BY DEF MigInv, MigLock, M!End, M!Goto
<1>1. \A x \in Migrator : mig_pc'[x] = "idle"
  BY <1>0, MigrateAssumption DEF MigLock, M!TypeOK
<1>2. M!TypeOK'
  <2>1. << >> \in Seq(File)
    OBVIOUS
  <2>2. QED
    BY <1>0, <2>1 DEF M!TypeOK
<1>3. MigLock' /\ MigApply'
  BY <1>1 DEF MigLock, MigApply
<1>4. QED
  BY <1>0, <1>2, <1>3, MigQuiet

\* Steps under the lock.
LEMMA Others ==
  ASSUME MigInv, NEW m \in Migrator, mig_pc[m] # "idle"
  PROVE  mig_lock = m /\ \A x \in Migrator : x # m => mig_pc[x] = "idle"
  BY DEF MigInv, MigLock

LEMMA ReadMig == ASSUME MigInv, NEW m \in Migrator, M!Read(m) PROVE MigInv'
<1> DEFINE l == IF M!MayApply(m) THEN "applying" ELSE "unlock"
<1>0. M!TypeOK /\ MigLock /\ MigApply /\ mig_pc[m] = "apply"
      /\ mig_pc' = [mig_pc EXCEPT ![m] = l] /\ mig_known' = [mig_known EXCEPT ![m] = mig_ledger]
      /\ UNCHANGED <<mig_schema, mig_ledger, mig_lock>>
  BY DEF MigInv, M!Read, M!Goto
<1>1. mig_lock = m /\ \A x \in Migrator : x # m => mig_pc[x] = "idle"
  BY <1>0, Others
<1>2. l = "applying" => Begins(mig_ledger, Files[m]) /\ mig_schema = mig_ledger
  <2>1. SUFFICES ASSUME M!MayApply(m) PROVE Begins(mig_ledger, Files[m]) /\ mig_schema = mig_ledger
    OBVIOUS
  <2>2. Begins(mig_ledger, Files[m])
    BY <1>0, <2>1, FilesAre, PrefixIs DEF M!MayApply, M!Matches, M!TypeOK
  <2>3. mig_schema = mig_ledger
    BY <2>1 DEF M!MayApply, MigInv, MigSchema
  <2>4. QED
    BY <2>2, <2>3
<1>3. l \in {"applying", "unlock"}
  OBVIOUS
<1> HIDE DEF l
<1>4. M!TypeOK'
  BY <1>0, <1>3 DEF M!TypeOK
<1>5. \A x \in Migrator : IF x = m THEN mig_pc'[x] = l /\ mig_known'[x] = mig_ledger ELSE mig_pc'[x] = "idle"
  BY <1>0, <1>1 DEF M!TypeOK
<1>6. MigLock' /\ MigApply'
  BY <1>0, <1>1, <1>2, <1>5 DEF MigLock, MigApply
<1>7. QED
  BY <1>0, <1>4, <1>6, MigQuiet

\* A file and its row.
LEMMA ApplyMig == ASSUME MigInv, NEW m \in Migrator, M!ApplyFile(m) PROVE MigInv'
<1> DEFINE new == Append(mig_ledger, Files[m][Len(mig_ledger) + 1])
<1>0. /\ M!TypeOK /\ MigLock /\ MigApply /\ mig_pc[m] = "applying"
      /\ mig_known[m] = mig_ledger /\ Begins(mig_ledger, Files[m]) /\ mig_schema = mig_ledger
  BY DEF MigInv, MigApply, M!ApplyFile
<1>1. /\ Len(mig_ledger) < Len(Files[m]) /\ mig_schema' = new /\ mig_ledger' = new
      /\ mig_known' = [mig_known EXCEPT ![m] = new] /\ UNCHANGED <<mig_lock, mig_pc>>
  BY <1>0 DEF M!ApplyFile, M!LedgerRow, M!TypeOK
<1>2. new \in Seq(File) /\ Begins(new, Files[m]) /\ new # << >>
  <2>1. OneMore(mig_ledger, new, Files[m], File)
    BY <1>0, <1>1, FilesAre, NextFile DEF M!TypeOK
  <2>2. QED
    BY <2>1 DEF OneMore
<1>3. \A x \in Migrator : x # m => mig_pc[x] = "idle"
  BY <1>0, Others
<1> HIDE DEF new
<1>4. M!TypeOK'
  BY <1>0, <1>1, <1>2 DEF M!TypeOK
<1>5. MigLock' /\ MigApply'
  BY <1>0, <1>1, <1>2, <1>3 DEF MigLock, MigApply, M!TypeOK
<1>6. MigSchema'
  BY <1>1, <1>2 DEF MigSchema
<1>7. QED
  BY <1>4, <1>5, <1>6 DEF MigInv

LEMMA BaselineMig == ASSUME MigInv, NEW m \in Migrator, M!Baseline(m) PROVE MigInv'
<1> DEFINE base == SubSeq(Files[m], 1, Legacy)
<1>0. /\ M!TypeOK /\ MigLock /\ MigApply /\ mig_pc[m] = "baseline"
      /\ mig_pc' = [mig_pc EXCEPT ![m] = "unlock"] /\ UNCHANGED <<mig_schema, mig_lock, mig_known>>
  BY DEF MigInv, M!Baseline, M!Goto
<1>1. mig_lock = m /\ \A x \in Migrator : x # m => mig_pc[x] = "idle"
  BY <1>0, Others
<1>2. mig_ledger' = mig_ledger \/ (mig_ledger = << >> /\ mig_ledger' = base /\ mig_schema = base /\ base \in Seq(File))
  <2>1. SUFFICES ASSUME mig_ledger = << >>, Len(Files[m]) >= Legacy, M!Verified(m), mig_ledger' = base
                 PROVE  mig_schema = base /\ base \in Seq(File)
    BY DEF M!Baseline
  <2>2. base \in Seq(File) /\ Len(base) = Legacy
    BY <2>1, FilesAre, MigrateAssumption
  <2>3. Len(mig_schema) <= Legacy /\ mig_schema \in Seq(File)
    BY <2>1 DEF MigInv, MigSchema, M!TypeOK
  <2>4. M!IsPrefix(base, mig_schema)
    BY <2>1 DEF M!Verified
  <2> HIDE DEF base
  <2>5. Begins(base, mig_schema)
    BY <2>2, <2>3, <2>4, PrefixIs
  <2>6. Len(mig_schema) = Len(base) /\ \A i \in 1..Len(base) : base[i] = mig_schema[i]
    BY <2>2, <2>3, <2>5, MigrateAssumption DEF Begins
  <2>7. QED
    BY <2>2, <2>3, <2>6
<1> HIDE DEF base
<1>3. M!TypeOK'
  BY <1>0, <1>2 DEF M!TypeOK
<1>4. \A x \in Migrator : mig_pc'[x] # "applying" /\ (x # m => mig_pc'[x] = "idle")
  BY <1>0, <1>1 DEF M!TypeOK
<1>5. MigLock' /\ MigApply'
  BY <1>0, <1>1, <1>4 DEF MigLock, MigApply
<1>6. MigSchema'
  BY <1>0, <1>2 DEF MigInv, MigSchema
<1>7. QED
  BY <1>3, <1>5, <1>6 DEF MigInv

LEMMA RestMig == ASSUME MigInv, NEW m \in Migrator, M!Status(m) \/ M!Applied(m) PROVE MigInv'
<1>0. /\ M!TypeOK /\ MigLock /\ MigApply /\ mig_pc[m] # "idle"
      /\ mig_pc' = [mig_pc EXCEPT ![m] = "unlock"] /\ UNCHANGED <<mig_schema, mig_ledger, mig_lock, mig_known>>
  BY DEF MigInv, M!Status, M!Applied, M!Goto
<1>1. mig_lock = m /\ \A x \in Migrator : x # m => mig_pc[x] = "idle"
  BY <1>0, Others
<1>2. M!TypeOK'
  BY <1>0 DEF M!TypeOK
<1>3. MigLock' /\ MigApply'
  BY <1>0, <1>1 DEF MigLock, MigApply, M!TypeOK
<1>4. QED
  BY <1>0, <1>2, <1>3, MigQuiet

LEMMA NextMig == ASSUME MigInv, [M!Next]_(M!vars) PROVE MigInv'
<1>1. CASE UNCHANGED M!vars
  BY <1>1 DEF M!vars, MigInv, M!TypeOK, MigLock, MigApply, MigSchema
<1>2. CASE M!Next
  <2>1. ASSUME NEW m \in Migrator, M!Unlock(m) \/ M!Fail(m) PROVE MigInv'
    BY <2>1, EndMig DEF M!Unlock, M!Fail
  <2>2. QED
    BY <1>2, <2>1, BeginMig, ReadMig, ApplyMig, BaselineMig, RestMig DEF M!Next
<1>3. QED
  BY <1>1, <1>2

LEMMA StepOfMig ==
  ASSUME [ApiNext]_<<turn, vars, others>> PROVE [M!Next]_(M!vars)
  BY DEF ApiNext, others, migVars, M!vars

LEMMA LegacyStep ==
  ASSUME MigInv, [M!Next]_(M!vars)
  PROVE  [mig_ledger = << >> /\ mig_schema # << >> => mig_schema' = mig_schema]_(M!vars)
<1> SUFFICES ASSUME M!Next, mig_ledger = << >>, mig_schema # << >> PROVE mig_schema' = mig_schema
  BY DEF M!vars
<1>1. PICK m \in Migrator : \/ M!Read(m) \/ M!Status(m) \/ M!ApplyFile(m) \/ M!Applied(m) \/ M!Baseline(m)
                          \/ M!Unlock(m) \/ M!Fail(m) \/ \E a \in M!Action : M!Begin(m, a)
  BY DEF M!Next
<1>2. ~M!ApplyFile(m)
  BY DEF M!ApplyFile, MigInv, MigApply
<1>3. QED
  BY <1>1, <1>2 DEF M!Read, M!Status, M!Applied, M!Baseline, M!Unlock, M!Fail, M!Begin, M!End

\* Whatever deployments of whatever releases run, fail and crash: the ledger says
\* what the database has executed, the database is that of one release, and one
\* from before the ledger is not touched before its baseline (db/migrate.py).
THEOREM OfOneRelease == ApiSpec => SchemaIsOfOneRelease
<1>1. ApiInit => MigInv
  BY InitMig DEF ApiInit
<1>2. MigInv /\ [ApiNext]_<<turn, vars, others>> => MigInv'
  BY NextMig, StepOfMig
<1>3. MigInv => M!LedgerIsSchema /\ M!OneRelease
  <2> SUFFICES ASSUME MigInv PROVE M!LedgerIsSchema /\ M!OneRelease
    OBVIOUS
  <2>1. M!LedgerIsSchema
    BY DEF MigInv, MigSchema, M!LedgerIsSchema
  <2>2. PICK m \in Migrator : Begins(mig_schema, Files[m])
    BY DEF MigInv, MigSchema
  <2>3. M!IsPrefix(mig_schema, Files[m])
    BY <2>2, FilesAre, PrefixIs DEF MigInv, M!TypeOK
  <2>4. QED
    BY <2>1, <2>3 DEF M!OneRelease
<1>4. MigInv /\ [ApiNext]_<<turn, vars, others>> =>
        [mig_ledger = << >> /\ mig_schema # << >> => mig_schema' = mig_schema]_(M!vars)
  BY LegacyStep, StepOfMig
<1>5. QED
  BY <1>1, <1>2, <1>3, <1>4, PTL DEF ApiSpec, SchemaIsOfOneRelease, M!SchemaIsOfOneRelease, M!LegacyIsLeftAlone

-----------------------------------------------------------------------------
(* Answers, for any questions, runs and requests: the types.               *)

LEMMA InitAns == A!Init => A!TypeOK
<1> SUFFICES ASSUME A!Init PROVE A!TypeOK
  OBVIOUS
<1>1. ans_task \in [A!Job -> [Question -> A!Task \cup {NoTask}]]
  BY DEF A!Init
<1>2. ans_edits \in 0..MaxEdits /\ ans_faults \in 0..MaxFaults
  BY AnswersAssumption DEF A!Init
<1>3. QED
  BY <1>1, <1>2 DEF A!Init, A!TypeOK

\* The counters of faults and edits.
LEMMA CountAns ==
  ASSUME A!TypeOK
  PROVE  /\ A!Fault => ans_faults' \in 0..MaxFaults
         /\ A!Edit => ans_edits' \in 0..MaxEdits
  BY AnswersAssumption DEF A!TypeOK, A!Fault, A!Edit

\* A task that goes on, or ends.
LEMMA GotoAns ==
  ASSUME A!TypeOK, NEW j \in A!Job, NEW q \in Question
  PROVE  /\ A!Ends(j, q) => ans_task' \in [A!Job -> [Question -> A!Task \cup {NoTask}]]
         /\ \A l \in A!Place : ans_task[j][q] # NoTask /\ A!Goto(j, q, l) =>
              ans_task' \in [A!Job -> [Question -> A!Task \cup {NoTask}]]
<1> DEFINE All == [A!Job -> [Question -> A!Task \cup {NoTask}]]
<1>1. ans_task \in All
  BY DEF A!TypeOK
<1>2. ASSUME A!Ends(j, q) PROVE ans_task' \in All
  BY <1>1, <1>2 DEF A!Ends
<1>3. ASSUME NEW l \in A!Place, ans_task[j][q] # NoTask, A!Goto(j, q, l) PROVE ans_task' \in All
  <2> DEFINE t == ans_task[j][q]
             u == [t EXCEPT !.at = l]
  <2>1. t \in A!Task
    BY <1>1, <1>3
  <2>2. u \in A!Task
    BY <2>1 DEF A!Task
  <2>3. ans_task' = [ans_task EXCEPT ![j] = [ans_task[j] EXCEPT ![q] = u]]
    BY <1>1, <1>3 DEF A!Goto
  <2> HIDE DEF u
  <2>4. QED
    BY <1>1, <2>2, <2>3
<1>4. QED
  BY <1>2, <1>3

LEMMA InputAns ==
  ASSUME A!TypeOK, NEW j \in A!Job, NEW q \in Question, ans_task[j][q] # NoTask
  PROVE  A!Input(j, q) \in Question \X Category
<1>1. ans_task[j][q] \in A!Task
  BY DEF A!TypeOK
<1>2. QED
  BY <1>1 DEF A!Input, A!Task

\* What the extraction does.
LEMMA RowsAns ==
  ASSUME A!TypeOK, NEW q \in Question,
         A!Remove(q) \/ A!Index(q) \/ A!Score(q) \/ \E c \in Category : A!Extract(q, c)
  PROVE  A!TypeOK'
<1>1. ans_edits' \in 0..MaxEdits
  BY CountAns DEF A!Remove, A!Index, A!Score, A!Extract, A!TypeOK
<1>2. CASE A!Remove(q)
  BY <1>1, <1>2 DEF A!Remove, A!TypeOK
<1>3. CASE A!Index(q)
  BY <1>1, <1>3 DEF A!Index, A!TypeOK
<1>4. CASE A!Score(q)
  BY <1>1, <1>4 DEF A!Score, A!TypeOK
<1>5. ASSUME NEW c \in Category, A!Extract(q, c) PROVE A!TypeOK'
  BY <1>1, <1>5 DEF A!Extract, A!TypeOK
<1>6. QED
  BY <1>2, <1>3, <1>4, <1>5

LEMMA FetchAns ==
  ASSUME A!TypeOK, NEW j \in A!Job, A!FetchAny(j)
  PROVE  A!TypeOK'
<1>1. PICK S \in SUBSET Question : A!Fetch(j, S)
  BY DEF A!FetchAny
<1> DEFINE New(q) == [at |-> "wait", category |-> ans_category[q],
                      reuse |-> j \in Request \ Regenerating /\ q \in ans_fresh]
           T == [q \in Question |-> IF q \in S THEN New(q) ELSE NoTask]
<1>2. ASSUME NEW q \in Question PROVE New(q) \in A!Task
  BY DEF A!Task, A!Place, A!TypeOK
<1>3. ans_task' = [ans_task EXCEPT ![j] = T]
  BY <1>1 DEF A!Fetch
<1> HIDE DEF New
<1>4. T \in [Question -> A!Task \cup {NoTask}]
  BY <1>2
<1> HIDE DEF T
<1>5. ans_task' \in [A!Job -> [Question -> A!Task \cup {NoTask}]]
  BY <1>3, <1>4 DEF A!TypeOK
<1>6. UNCHANGED <<A!rows, ans_cached, ans_inflight, ans_edits, ans_faults>>
  BY <1>1 DEF A!Fetch
<1>7. QED
  BY <1>5, <1>6 DEF A!TypeOK, A!rows

\* A step of a task that goes on.
LEMMA TaskAns ==
  ASSUME A!TypeOK, NEW j \in A!Job, NEW q \in Question,
         A!Start(j, q) \/ A!Acquire(j, q) \/ A!Pay(j, q) \/ A!CallFails(j, q) \/ A!CacheSet(j, q)
  PROVE  A!TypeOK'
<1>1. ans_task[j][q] # NoTask
  BY DEF A!At, A!Start, A!Acquire, A!Pay, A!CallFails, A!CacheSet
<1>2. ans_inflight' \in SUBSET (Question \X Category) /\ ans_cached' \in SUBSET (Question \X Category)
  BY <1>1, InputAns DEF A!TypeOK, A!Start, A!Acquire, A!Pay, A!CallFails, A!CacheSet
<1>3. ans_faults' \in 0..MaxFaults
  BY CountAns DEF A!TypeOK, A!Start, A!Acquire, A!Pay, A!CallFails, A!CacheSet
<1>4. A!Ends(j, q) \/ \E l \in A!Place : A!Goto(j, q, l)
  <2>1. {"ask", "call", "cache", "write"} \subseteq A!Place
    BY DEF A!Place
  <2>2. CASE A!Start(j, q)
    BY <2>1, <2>2 DEF A!Start
  <2>3. QED
    BY <2>1, <2>2 DEF A!Acquire, A!Pay, A!CallFails, A!CacheSet
<1>5. ans_task' \in [A!Job -> [Question -> A!Task \cup {NoTask}]]
  BY <1>1, <1>4, GotoAns
<1>6. UNCHANGED <<A!rows, ans_edits>>
  BY DEF A!Start, A!Acquire, A!Pay, A!CallFails, A!CacheSet
<1>7. QED
  BY <1>2, <1>3, <1>5, <1>6 DEF A!TypeOK, A!rows

\* Tasks that end without a result.
LEMMA EndsAns ==
  ASSUME A!TypeOK, NEW j \in A!Job, A!Crash(j) \/ \E q \in Question : A!Refuse(j, q)
  PROVE  A!TypeOK'
<1>1. ans_faults' \in 0..MaxFaults
  BY CountAns DEF A!TypeOK, A!Crash, A!Refuse
<1>2. ans_task' \in [A!Job -> [Question -> A!Task \cup {NoTask}]]
  <2>1. CASE A!Crash(j)
    BY <2>1 DEF A!Crash, A!TypeOK
  <2>2. ASSUME NEW q \in Question, A!Refuse(j, q)
        PROVE  ans_task' \in [A!Job -> [Question -> A!Task \cup {NoTask}]]
    <3>1. PICK S \in SUBSET (Question \ {q}) :
            ans_task' = [ans_task EXCEPT ![j] = [p \in Question |-> IF p \in S THEN ans_task[j][p] ELSE NoTask]]
      BY <2>2 DEF A!Refuse
    <3>2. [p \in Question |-> IF p \in S THEN ans_task[j][p] ELSE NoTask] \in [Question -> A!Task \cup {NoTask}]
      BY DEF A!TypeOK
    <3>3. QED
      BY <3>1, <3>2 DEF A!TypeOK
  <2>3. QED
    BY <2>1, <2>2
<1>3. UNCHANGED <<A!rows, ans_cached, ans_inflight, ans_edits>>
  BY DEF A!Crash, A!Refuse
<1>4. QED
  BY <1>1, <1>2, <1>3 DEF A!TypeOK, A!rows

LEMMA WriteAns ==
  ASSUME A!TypeOK, NEW j \in A!Job, NEW q \in Question, A!Write(j, q)
  PROVE  A!TypeOK'
<1>1. ans_faults' \in 0..MaxFaults
  BY CountAns DEF A!TypeOK, A!Write
<1>2. ans_task' \in [A!Job -> [Question -> A!Task \cup {NoTask}]]
  BY GotoAns DEF A!Write
<1>3. \/ UNCHANGED <<ans_answered, ans_fresh>>
      \/ ans_answered' = ans_answered \cup {q} /\ ans_fresh' = ans_fresh \cup {q}
  BY DEF A!Write
<1>4. UNCHANGED <<ans_stored, ans_ready, ans_worthy, ans_category, ans_cached, ans_inflight, ans_edits>>
  BY DEF A!Write
<1>5. QED
  BY <1>1, <1>2, <1>3, <1>4 DEF A!TypeOK

LEMMA CacheAns ==
  ASSUME A!TypeOK, NEW i \in Question \X Category, A!Lapse(i) \/ A!Forget(i)
  PROVE  A!TypeOK'
<1>1. ans_faults' \in 0..MaxFaults
  BY CountAns DEF A!TypeOK, A!Lapse, A!Forget
<1>2. QED
  BY <1>1 DEF A!TypeOK, A!Lapse, A!Forget, A!rows

LEMMA NextAns == ASSUME A!TypeOK, [A!Next]_(A!vars) PROVE A!TypeOK'
<1>1. CASE UNCHANGED A!vars
  BY <1>1 DEF A!vars, A!rows, A!TypeOK
<1>2. CASE A!Next
  <2>1. CASE \E q \in Question : A!Remove(q) \/ A!Index(q) \/ A!Score(q) \/ \E c \in Category : A!Extract(q, c)
    BY <2>1, RowsAns
  <2>2. CASE \E j \in A!Job : A!FetchAny(j)
    BY <2>2, FetchAns
  <2>3. CASE \E j \in A!Job : \E q \in Question : A!Start(j, q) \/ A!Answer(j, q)
    <3>1. PICK j \in A!Job : \E q \in Question : A!Start(j, q) \/ A!Answer(j, q)
      BY <2>3
    <3>2. PICK q \in Question : A!Start(j, q) \/ A!Answer(j, q)
      BY <3>1
    <3>3. CASE A!Write(j, q)
      BY <3>3, WriteAns
    <3>4. CASE A!Refuse(j, q)
      BY <3>4, EndsAns
    <3>5. QED
      BY <3>2, <3>3, <3>4, TaskAns DEF A!Answer
  <2>4. CASE \E j \in A!Job : A!Crash(j)
    BY <2>4, EndsAns
  <2>5. CASE \E i \in Question \X Category : A!Lapse(i) \/ A!Forget(i)
    BY <2>5, CacheAns
  <2>6. QED
    BY <1>2, <2>1, <2>2, <2>3, <2>4, <2>5 DEF A!Next
<1>3. QED
  BY <1>1, <1>2

LEMMA StepOfAns ==
  ASSUME [ApiNext]_<<turn, vars, others>> PROVE [A!Next]_(A!vars)
  BY DEF ApiNext, others, ansVars, A!vars, A!rows

-----------------------------------------------------------------------------
(* Admission, for any limit, window and number of slots.                    *)

\* The requests admitted whose age is between a and b.
Between(a, b) == SumFunctionOnSet(adm_recent, a..b)

\* The age of the counter, -1 without one.
Age == IF adm_ttl = 0 THEN -1 ELSE Window - adm_ttl

\* What was admitted before the counter, and what it has counted.
AdmRate ==
  /\ adm_count = 0 <=> adm_ttl = 0
  /\ adm_count = 0 => adm_recent[0] = 0
  /\ Between(Age + 1, Window - 1) <= Limit
  /\ Between(0, Age) <= Limit /\ Between(0, Age) <= adm_count

\* A slot is taken by each thread that runs, and no other.
AdmSlots == adm_threads = G!Jobs /\ Cardinality(adm_threads) <= SearchSlots

AdmInv == G!TypeOK /\ AdmRate /\ AdmSlots

LEMMA CardIs == \A S : G!Cardinality(S) = Cardinality(S)
  BY DEF G!Cardinality, Cardinality

LEMMA MinIs ==
  ASSUME NEW a \in Nat, NEW b \in Nat PROVE G!Min({a, b}) = IF a <= b THEN a ELSE b
<1>1. \E x \in {a, b} : \A y \in {a, b} : x <= y
  BY a <= b \/ b <= a
<1>2. G!Min({a, b}) \in {a, b} /\ \A y \in {a, b} : G!Min({a, b}) <= y
  BY <1>1 DEF G!Min
<1>3. QED
  BY <1>2

LEMMA SumOfAll == G!TypeOK => G!SumFunction(adm_recent) = Between(0, Window - 1)
<1> SUFFICES ASSUME G!TypeOK PROVE G!SumFunction(adm_recent) = Between(0, Window - 1)
  OBVIOUS
<1>1. DOMAIN adm_recent = 0..(Window - 1)
  BY DEF G!TypeOK
<1>2. G!SumFunctionOnSet(adm_recent, 0..(Window - 1)) = SumFunctionOnSet(adm_recent, 0..(Window - 1))
  BY DEF G!SumFunctionOnSet, G!FoldFunctionOnSet, G!MapThenFoldSet, SumFunctionOnSet, FoldFunctionOnSet, MapThenFoldSet
<1>3. QED
  BY <1>1, <1>2 DEF G!SumFunction, Between

-----------------------------------------------------------------------------
(* Sums of the requests by age.                                            *)

LEMMA Interval == ASSUME NEW a \in Int, NEW b \in Int PROVE IsFiniteSet(a..b)
  BY FS_Interval

LEMMA BetweenIs ==
  ASSUME NEW f \in [0..(Window - 1) -> Nat], NEW a \in Nat, NEW b \in Int, b <= Window - 1
  PROVE  SumFunctionOnSet(f, a..b) \in Nat
<1>1. IsFiniteSet(a..b) /\ \A x \in a..b : f[x] \in Nat
  BY Interval, AdmissionAssumption
<1>2. QED
  BY <1>1, SumIsNat

\* A smaller interval.
LEMMA Within ==
  ASSUME NEW f \in [0..(Window - 1) -> Nat], NEW a \in Nat, NEW b \in Int, b <= Window - 1,
         NEW c \in Nat, NEW d \in Int, a <= c, d <= b
  PROVE  SumFunctionOnSet(f, c..d) <= SumFunctionOnSet(f, a..b)
<1> DEFINE T == a..b
           S == c..d
<1>1. IsFiniteSet(T) /\ (\A x \in T : f[x] \in Nat) /\ S \subseteq T
  BY Interval, AdmissionAssumption
<1> HIDE DEF S, T
<1>2. SumFunctionOnSet(f, S) <= SumFunctionOnSet(f, T)
  BY <1>1, SumSubset
<1>3. QED
  BY <1>2 DEF S, T

\* All are before the counter or counted.
LEMMA Together ==
  ASSUME NEW f \in [0..(Window - 1) -> Nat], NEW a \in -1..(Window - 1)
  PROVE  SumFunctionOnSet(f, 0..(Window - 1)) =
           SumFunctionOnSet(f, 0..a) + SumFunctionOnSet(f, (a + 1)..(Window - 1))
<1> DEFINE S == 0..a
           T == (a + 1)..(Window - 1)
           all == 0..(Window - 1)
<1>1. Window \in Nat /\ IsFiniteSet(S) /\ IsFiniteSet(T)
  BY Interval, AdmissionAssumption
<1>2. S \cap T = {} /\ S \cup T = all /\ \A x \in all : f[x] \in Int
  BY <1>1
<1> HIDE DEF S, T, all
<1>3. SumFunctionOnSet(f, S \cup T) = SumFunctionOnSet(f, S) + SumFunctionOnSet(f, T)
  BY <1>1, <1>2, SumUnion
<1>4. QED
  BY <1>2, <1>3 DEF S, T, all

\* One more request of age 0.
LEMMA OneMoreNow ==
  ASSUME NEW f \in [0..(Window - 1) -> Nat], NEW b \in 0..(Window - 1)
  PROVE  SumFunctionOnSet([f EXCEPT ![0] = @ + 1], 0..b) = SumFunctionOnSet(f, 0..b) + 1
<1> DEFINE g == [f EXCEPT ![0] = @ + 1]
           S == 0..b
<1>1. IsFiniteSet(S) /\ 0 \in S /\ g[0] = f[0] + 1 /\ f[0] \in Nat
      /\ \A x \in S : f[x] \in Int /\ g[x] \in Int /\ (x # 0 => g[x] = f[x])
  BY Interval, AdmissionAssumption
<1>2. SumFunctionOnSet(f, S) \in Int
  BY <1>1, SumIsInt
<1> HIDE DEF g, S
<1>3. SumFunctionOnSet(g, S) = SumFunctionOnSet(f, S) + g[0] - f[0]
  BY <1>1, SumChange
<1>4. SumFunctionOnSet(g, S) = SumFunctionOnSet(f, S) + 1
  BY <1>1, <1>2, <1>3
<1>5. QED
  BY <1>4 DEF g, S

LEMMA SameBefore ==
  ASSUME NEW f \in [0..(Window - 1) -> Nat], NEW a \in Nat \ {0}
  PROVE  SumFunctionOnSet([f EXCEPT ![0] = @ + 1], a..(Window - 1)) = SumFunctionOnSet(f, a..(Window - 1))
<1> DEFINE g == [f EXCEPT ![0] = @ + 1]
           S == a..(Window - 1)
<1>1. IsFiniteSet(S) /\ \A x \in S : f[x] \in Int /\ g[x] = f[x]
  BY Interval, AdmissionAssumption
<1> HIDE DEF g, S
<1>2. SumFunctionOnSet(g, S) = SumFunctionOnSet(f, S)
  BY <1>1, SumSame
<1>3. QED
  BY <1>2 DEF g, S

\* A tick: everything is older.
Aged(f, g) == \A i \in 0..(Window - 1) : g[i] = IF i = 0 THEN 0 ELSE f[i - 1]

LEMMA Older ==
  ASSUME NEW f \in [0..(Window - 1) -> Nat], NEW g \in [0..(Window - 1) -> Nat], Aged(f, g),
         NEW a \in Nat, NEW b \in Int, b <= Window - 2
  PROVE  SumFunctionOnSet(g, (a + 1)..(b + 1)) = SumFunctionOnSet(f, a..b)
<1> DEFINE S == a..b
<1>1. Window \in Nat /\ IsFiniteSet(S)
  BY Interval, AdmissionAssumption
<1>2. MovedOn(f, g, S)
  <2>1. S \subseteq Int
    OBVIOUS
  <2>2. ASSUME NEW x \in S PROVE f[x] \in Int /\ g[x + 1] = f[x]
    <3>1. x \in 0..(Window - 1) /\ x + 1 \in 0..(Window - 1) /\ x + 1 # 0 /\ (x + 1) - 1 = x
      BY <1>1
    <3>2. g[x + 1] = f[(x + 1) - 1]
      BY <3>1 DEF Aged
    <3>3. QED
      BY <3>1, <3>2
  <2>3. QED
    BY <2>1, <2>2 DEF MovedOn
<1>3. Next1(S) = (a + 1)..(b + 1)
  <2>1. ASSUME NEW y \in (a + 1)..(b + 1) PROVE y \in Next1(S)
    <3>1. y - 1 \in S /\ y = (y - 1) + 1
      OBVIOUS
    <3>2. QED
      BY <3>1 DEF Next1
  <2>2. ASSUME NEW y \in Next1(S) PROVE y \in (a + 1)..(b + 1)
    BY DEF Next1
  <2>3. QED
    BY <2>1, <2>2
<1> HIDE DEF S
<1>4. SumFunctionOnSet(g, Next1(S)) = SumFunctionOnSet(f, S)
  BY <1>1, <1>2, SumShift
<1>5. QED
  BY <1>3, <1>4 DEF S

LEMMA OlderFromNow ==
  ASSUME NEW f \in [0..(Window - 1) -> Nat], NEW g \in [0..(Window - 1) -> Nat], Aged(f, g),
         NEW b \in 0..(Window - 1)
  PROVE  SumFunctionOnSet(g, 0..b) = SumFunctionOnSet(f, 0..(b - 1))
<1> DEFINE S == 1..b
           all == 0..b
<1>1. Window \in Nat /\ IsFiniteSet(S) /\ 0 \notin S /\ S \cup {0} = all /\ g[0] = 0
      /\ \A x \in S : g[x] \in Int
  BY Interval, AdmissionAssumption DEF Aged
<1>2. SumFunctionOnSet(g, S) = SumFunctionOnSet(f, 0..(b - 1))
  <2> DEFINE c == b - 1
  <2>1. c \in Int /\ c <= Window - 2 /\ 0 \in Nat /\ (0 + 1)..(c + 1) = S
    BY <1>1
  <2> HIDE DEF c, S
  <2>2. SumFunctionOnSet(g, (0 + 1)..(c + 1)) = SumFunctionOnSet(f, 0..c)
    BY <2>1, Older
  <2>3. QED
    BY <2>1, <2>2 DEF c
<1>3. SumFunctionOnSet(g, S) \in Int
  BY <1>1, SumIsInt
<1> HIDE DEF S, all
<1>4. SumFunctionOnSet(g, S \cup {0}) = SumFunctionOnSet(g, S) + g[0]
  BY <1>1, SumAdd
<1>5. SumFunctionOnSet(g, all) = SumFunctionOnSet(g, S)
  <2>1. g[0] = 0 /\ all = S \cup {0}
    BY <1>1
  <2>2. SumFunctionOnSet(g, all) = SumFunctionOnSet(g, S) + 0
    BY <1>4, <2>1
  <2>3. QED
    BY <1>3, <2>2
<1>6. QED
  BY <1>2, <1>5 DEF all
-----------------------------------------------------------------------------
(* The steps.                                                              *)

LEMMA AgeIs == ASSUME G!TypeOK PROVE Age \in -1..(Window - 1) /\ (adm_ttl > 0 => Age \in Nat)
  BY AdmissionAssumption DEF G!TypeOK, Age

LEMMA InitAdm == G!Init => AdmInv
<1> SUFFICES ASSUME G!Init PROVE AdmInv
  OBVIOUS
<1>1. G!TypeOK
  BY AdmissionAssumption DEF G!Init, G!TypeOK
<1>2. AdmSlots
  <2>1. adm_threads = {} /\ G!Jobs = {}
    BY DEF G!Init, G!Jobs
  <2>2. QED
    BY <2>1, FS_EmptySet, AdmissionAssumption DEF AdmSlots
<1>3. AdmRate
  <2>1. adm_count = 0 /\ adm_ttl = 0 /\ Age = -1 /\ adm_recent = [i \in 0..(Window - 1) |-> 0]
    BY DEF G!Init, Age
  <2>2. Between(Age + 1, Window - 1) = 0
    <3> DEFINE S == (Age + 1)..(Window - 1)
    <3>1. IsFiniteSet(S) /\ \A x \in S : adm_recent[x] = 0
      BY <2>1, Interval, AdmissionAssumption
    <3> HIDE DEF S
    <3>2. SumFunctionOnSet(adm_recent, S) = 0
      BY <3>1, SumOfZeros
    <3>3. QED
      BY <3>2 DEF S, Between
  <2>3. Between(0, Age) = 0
    <3>1. 0..Age = {}
      BY <2>1
    <3>2. QED
      BY <3>1, SumEmpty DEF Between
  <2>4. adm_recent[0] = 0
    BY <2>1, AdmissionAssumption
  <2>5. QED
    BY <2>1, <2>2, <2>3, <2>4, AdmissionAssumption DEF AdmRate
<1>4. QED
  BY <1>1, <1>2, <1>3 DEF AdmInv

\* Steps that are not about the counter.
LEMMA RateRests ==
  ASSUME AdmRate, UNCHANGED <<adm_count, adm_ttl, adm_recent>> PROVE AdmRate'
  BY DEF AdmRate, Age, Between

\* Steps that are not about the slots.
LEMMA SlotsRest ==
  ASSUME AdmSlots, UNCHANGED <<adm_threads, adm_job>> PROVE AdmSlots'
  BY DEF AdmSlots, G!Jobs

LEMMA LeaveAdm ==
  ASSUME G!TypeOK, NEW c \in Caller, G!Leave(c)
  PROVE  adm_pc' \in [Caller -> {"none", "admitted", "embedding"}] /\ adm_waited' \in [Caller -> 0..Patience]
  BY AdmissionAssumption DEF G!TypeOK, G!Leave

LEMMA ArriveAdm == ASSUME AdmInv, NEW c \in Caller, G!Arrive(c) PROVE AdmInv'
<1> DEFINE f == adm_recent
<1>0. G!TypeOK /\ AdmRate /\ AdmSlots /\ f \in [0..(Window - 1) -> Nat] /\ adm_count \in 0..MaxCount /\ adm_ttl \in 0..Window
  BY DEF AdmInv, G!TypeOK
<1>a. Window \in Nat /\ Window > 0 /\ Limit \in Nat /\ Limit > 0 /\ MaxCount \in Nat /\ MaxCount > Limit
  BY AdmissionAssumption
<1>1. adm_count' = IF adm_count + 1 <= MaxCount THEN adm_count + 1 ELSE MaxCount
  BY <1>0, <1>a, MinIs DEF G!Arrive
<1>2. adm_ttl' = IF adm_count = 0 THEN Window ELSE adm_ttl
  BY DEF G!Arrive, G!Expiry
<1>3. UNCHANGED <<adm_waited, adm_threads, adm_job>>
  BY DEF G!Arrive
<1>4. adm_count' \in 1..MaxCount /\ adm_ttl' \in 1..Window
  BY <1>0, <1>1, <1>2, <1>a DEF AdmRate
<1>5. Age' \in 0..(Window - 1) /\ Age' = Window - adm_ttl'
  <2> DEFINE t == adm_ttl'
  <2>0. t \in 1..Window /\ Window \in Nat
    BY <1>4, <1>a
  <2> HIDE DEF t
  <2>1a. t # 0 /\ Window - t \in 0..(Window - 1)
    BY <2>0
  <2>1. adm_ttl' # 0 /\ Window - adm_ttl' \in 0..(Window - 1)
    BY <2>1a DEF t
  <2>2. Age' = Window - adm_ttl'
    BY <2>1 DEF Age
  <2>3. QED
    BY <2>1, <2>2
<1>6. Between(0, Age') + 0 <= adm_count /\ Between(0, Age') <= Limit /\ Between(Age' + 1, Window - 1) <= Limit
      /\ Between(0, Age') \in Nat
  <2>1. CASE adm_count = 0
    <3>1. Age = -1 /\ Age' = 0
      BY <1>0, <1>2, <1>5, <2>1, <1>a DEF AdmRate, Age
    <3>2. Between(0, 0) = 0
      <4>1. 0..0 = {0} /\ adm_recent[0] = 0
        BY <1>0, <2>1 DEF AdmRate
      <4>2. IsFiniteSet({0}) /\ \A x \in {0} : adm_recent[x] = 0
        BY <4>1, FS_Singleton
      <4>3. SumFunctionOnSet(adm_recent, {0}) = 0
        BY <4>2, SumOfZeros
      <4>4. QED
        BY <4>1, <4>3 DEF Between
    <3>3. Between(1, Window - 1) <= Between(0, Window - 1) /\ Between(0, Window - 1) \in Nat /\ Between(1, Window - 1) \in Nat
      <4> DEFINE b == Window - 1
      <4>1. b \in Int /\ b <= Window - 1 /\ b <= b /\ 0 \in Nat /\ 1 \in Nat /\ 0 <= 1
        BY <1>a
      <4> HIDE DEF b
      <4>2. SumFunctionOnSet(adm_recent, 1..b) <= SumFunctionOnSet(adm_recent, 0..b)
        BY <1>0, <4>1, Within
      <4>3. SumFunctionOnSet(adm_recent, 1..b) \in Nat /\ SumFunctionOnSet(adm_recent, 0..b) \in Nat
        BY <1>0, <4>1, BetweenIs
      <4>4. QED
        BY <4>2, <4>3 DEF b, Between
    <3>4. Between(0, Window - 1) <= Limit
      BY <1>0, <3>1 DEF AdmRate
    <3>5. QED
      BY <1>0, <1>a, <2>1, <3>1, <3>2, <3>3, <3>4
  <2>2. CASE adm_count # 0
    <3>1. Age' = Age
      BY <1>2, <2>2 DEF Age
    <3>2. Between(0, Age) \in Nat
      BY <1>0, <1>5, <3>1, <1>a, BetweenIs DEF Between
    <3>3. QED
      BY <1>0, <3>1, <3>2 DEF AdmRate
  <2>3. QED
    BY <2>1, <2>2
<1>7. AdmRate' /\ G!TypeOK'
  <2>1. CASE G!Allows(adm_count') /\ adm_pc' = [adm_pc EXCEPT ![c] = "admitted"]
             /\ adm_recent' = [adm_recent EXCEPT ![0] = @ + 1]
    <3>1. adm_count' = adm_count + 1 /\ adm_count + 1 <= Limit
      BY <1>0, <1>1, <1>a, <2>1 DEF G!Allows
    <3>2. SumFunctionOnSet(adm_recent', 0..(Age')) = SumFunctionOnSet(adm_recent, 0..(Age')) + 1
      BY <1>0, <1>5, <2>1, OneMoreNow
    <3>3. SumFunctionOnSet(adm_recent', (Age' + 1)..(Window - 1)) = SumFunctionOnSet(adm_recent, (Age' + 1)..(Window - 1))
      <4> DEFINE a == Age' + 1
      <4>1. a \in Nat \ {0}
        BY <1>5, <1>a
      <4> HIDE DEF a
      <4>2. SumFunctionOnSet([adm_recent EXCEPT ![0] = @ + 1], a..(Window - 1)) = SumFunctionOnSet(adm_recent, a..(Window - 1))
        BY <1>0, <4>1, SameBefore
      <4>3. QED
        BY <2>1, <4>2 DEF a
    <3>4. /\ SumFunctionOnSet(adm_recent', 0..(Age')) <= adm_count'
          /\ SumFunctionOnSet(adm_recent', 0..(Age')) <= Limit
          /\ SumFunctionOnSet(adm_recent', (Age' + 1)..(Window - 1)) <= Limit
      BY <1>0, <1>6, <1>a, <3>1, <3>2, <3>3 DEF Between
    <3>5. AdmRate'
      BY <1>4, <3>4 DEF AdmRate, Between
    <3>6. adm_recent' \in [0..(Window - 1) -> Nat] /\ adm_pc' \in [Caller -> {"none", "admitted", "embedding"}]
      BY <1>0, <1>a, <2>1 DEF G!TypeOK
    <3>7. G!TypeOK'
      BY <1>0, <1>3, <1>4, <1>a, <3>6 DEF G!TypeOK
    <3>8. QED
      BY <3>5, <3>7
  <2>2. CASE UNCHANGED <<adm_pc, adm_recent>>
    <3>1. adm_count <= adm_count'
      BY <1>0, <1>1, <1>a
    <3>2. /\ SumFunctionOnSet(adm_recent, 0..(Age')) <= adm_count'
          /\ SumFunctionOnSet(adm_recent, 0..(Age')) <= Limit
          /\ SumFunctionOnSet(adm_recent, (Age' + 1)..(Window - 1)) <= Limit
      BY <1>0, <1>4, <1>6, <3>1 DEF Between
    <3>3. AdmRate'
      BY <1>4, <2>2, <3>2 DEF AdmRate, Between
    <3>4. G!TypeOK'
      BY <1>0, <1>3, <1>4, <1>a, <2>2 DEF G!TypeOK
    <3>5. QED
      BY <3>3, <3>4
  <2>3. QED
    BY <2>1, <2>2 DEF G!Arrive
<1>8. AdmSlots'
  BY <1>0, <1>3, SlotsRest
<1>9. QED
  BY <1>7, <1>8 DEF AdmInv

LEMMA ReplyAdm == ASSUME AdmInv, NEW c \in Caller, G!Reply(c) PROVE AdmInv'
<1>1. UNCHANGED <<adm_count, adm_ttl, adm_threads, adm_job, adm_recent>> /\ G!Leave(c)
  BY DEF G!Reply
<1>2. AdmRate' /\ AdmSlots'
  BY <1>1, RateRests, SlotsRest DEF AdmInv
<1>3. G!TypeOK'
  BY <1>1, LeaveAdm DEF AdmInv, G!TypeOK
<1>4. QED
  BY <1>2, <1>3 DEF AdmInv

LEMMA EmbedAdm == ASSUME AdmInv, NEW c \in Caller, G!Embed(c) PROVE AdmInv'
<1>0. G!TypeOK /\ AdmRate /\ adm_threads = G!Jobs /\ IsFiniteSet(adm_threads)
      /\ Cardinality(adm_threads) < SearchSlots /\ c \notin adm_threads
  <2>1. G!TypeOK /\ AdmRate /\ adm_threads = G!Jobs /\ adm_threads \subseteq Caller
    BY DEF AdmInv, AdmSlots, G!TypeOK
  <2>2. IsFiniteSet(adm_threads)
    BY <2>1, FS_Subset, AdmissionAssumption
  <2>3. Cardinality(adm_threads) < SearchSlots /\ c \notin adm_threads
    BY <2>1, CardIs DEF G!Embed
  <2>4. QED
    BY <2>1, <2>2, <2>3
<1>1. /\ adm_pc' = [adm_pc EXCEPT ![c] = "embedding"] /\ adm_job' = [adm_job EXCEPT ![c] = 0]
      /\ adm_threads' = adm_threads \cup {c} /\ UNCHANGED <<adm_count, adm_ttl, adm_waited, adm_recent>>
  BY DEF G!Embed
<1>2. AdmRate'
  BY <1>0, <1>1, RateRests
<1>3. G!TypeOK'
  BY <1>0, <1>1, AdmissionAssumption DEF G!TypeOK
<1>4. adm_threads' = G!Jobs'
  BY <1>0, <1>1 DEF G!TypeOK, G!Jobs
<1>5. Cardinality(adm_threads') <= SearchSlots
  <2>1. Cardinality(adm_threads \cup {c}) = Cardinality(adm_threads) + 1
    BY <1>0, FS_AddElement
  <2>2. Cardinality(adm_threads) \in Nat
    BY <1>0, FS_CardinalityType
  <2>3. QED
    BY <1>0, <1>1, <2>1, <2>2, AdmissionAssumption
<1>6. QED
  BY <1>2, <1>3, <1>4, <1>5 DEF AdmInv, AdmSlots

\* Threads that end, with or without their process.
LEMMA FewerThreads ==
  ASSUME AdmInv, adm_threads' = G!Jobs', adm_threads' \subseteq adm_threads PROVE AdmSlots'
<1>1. IsFiniteSet(adm_threads) /\ Cardinality(adm_threads) <= SearchSlots
  BY FS_Subset, AdmissionAssumption DEF AdmInv, AdmSlots, G!TypeOK
<1>2. /\ Cardinality(adm_threads') <= Cardinality(adm_threads) /\ IsFiniteSet(adm_threads')
      /\ Cardinality(adm_threads') \in Nat /\ Cardinality(adm_threads) \in Nat
  BY <1>1, FS_Subset, FS_CardinalityType
<1>3. QED
  BY <1>1, <1>2, AdmissionAssumption DEF AdmSlots

LEMMA FinishAdm == ASSUME AdmInv, NEW c \in Caller, G!Finish(c) PROVE AdmInv'
<1>0. G!TypeOK /\ AdmRate /\ adm_threads = G!Jobs
  BY DEF AdmInv, AdmSlots
<1>1. /\ adm_threads' = adm_threads \ {c} /\ adm_job' = [adm_job EXCEPT ![c] = -1]
      /\ G!Leave(c) \/ UNCHANGED <<adm_pc, adm_waited>>
      /\ UNCHANGED <<adm_count, adm_ttl, adm_recent>>
  BY DEF G!Finish
<1>2. AdmRate'
  BY <1>0, <1>1, RateRests
<1>3. adm_pc' \in [Caller -> {"none", "admitted", "embedding"}] /\ adm_waited' \in [Caller -> 0..Patience]
  <2>1. CASE G!Leave(c)
    BY <1>0, <2>1, LeaveAdm
  <2>2. CASE UNCHANGED <<adm_pc, adm_waited>>
    BY <1>0, <2>2 DEF G!TypeOK
  <2>3. QED
    BY <1>1, <2>1, <2>2
<1>4. adm_job' \in [Caller -> -1..MaxAge]
  BY <1>0, <1>1, AdmissionAssumption DEF G!TypeOK
<1>5. G!TypeOK'
  BY <1>0, <1>1, <1>3, <1>4 DEF G!TypeOK
<1>6. adm_threads' = G!Jobs'
  BY <1>0, <1>1 DEF G!TypeOK, G!Jobs
<1>7. AdmSlots'
  BY <1>1, <1>6, FewerThreads
<1>8. QED
  BY <1>2, <1>5, <1>7 DEF AdmInv

LEMMA AbandonAdm == ASSUME AdmInv, NEW c \in Caller, G!Abandon(c) PROVE AdmInv'
<1>1. UNCHANGED <<adm_count, adm_ttl, adm_threads, adm_job, adm_recent>> /\ G!Leave(c)
  BY DEF G!Abandon, G!Kept
<1>2. AdmRate' /\ AdmSlots'
  BY <1>1, RateRests, SlotsRest DEF AdmInv
<1>3. G!TypeOK'
  BY <1>1, LeaveAdm DEF AdmInv, G!TypeOK
<1>4. QED
  BY <1>2, <1>3 DEF AdmInv

LEMMA RestartAdm == ASSUME AdmInv, G!Restart PROVE AdmInv'
<1>0. G!TypeOK /\ AdmRate
  BY DEF AdmInv
<1>1. AdmRate'
  BY <1>0, RateRests DEF G!Restart
<1>2. G!TypeOK'
  BY <1>0, AdmissionAssumption DEF G!Restart, G!TypeOK
<1>3. adm_threads' = {} /\ G!Jobs' = {}
  BY DEF G!Restart, G!Jobs
<1>4. AdmSlots'
  BY <1>3, FewerThreads
<1>5. QED
  BY <1>1, <1>2, <1>4 DEF AdmInv

LEMMA TickAdm == ASSUME AdmInv, G!Tick PROVE AdmInv'
<1> DEFINE f == adm_recent
           g == adm_recent'
<1>0. G!TypeOK /\ AdmRate /\ adm_threads = G!Jobs /\ f \in [0..(Window - 1) -> Nat]
      /\ adm_count \in 0..MaxCount /\ adm_ttl \in 0..Window
  BY DEF AdmInv, AdmSlots, G!TypeOK
<1>a. Window \in Nat /\ Window > 0 /\ Limit \in Nat /\ Limit > 0 /\ MaxCount \in Nat
  BY AdmissionAssumption
<1>1. /\ adm_ttl' = (IF adm_ttl > 0 THEN adm_ttl - 1 ELSE 0)
      /\ adm_count' = (IF adm_ttl <= 1 THEN 0 ELSE adm_count)
      /\ UNCHANGED <<adm_pc, adm_threads>>
  BY DEF G!Tick
<1>2. g \in [0..(Window - 1) -> Nat] /\ Aged(f, g) /\ g[0] = 0
  <2>1. g = [i \in 0..(Window - 1) |-> IF i = 0 THEN 0 ELSE adm_recent[i - 1]]
    BY DEF G!Tick
  <2>2. \A i \in 0..(Window - 1) : (IF i = 0 THEN 0 ELSE adm_recent[i - 1]) \in Nat
    <3> SUFFICES ASSUME NEW i \in 0..(Window - 1), i # 0 PROVE adm_recent[i - 1] \in Nat
      OBVIOUS
    <3>1. i - 1 \in 0..(Window - 1)
      BY <1>a
    <3>2. QED
      BY <1>0, <3>1
  <2>3. g \in [0..(Window - 1) -> Nat]
    BY <2>1, <2>2
  <2>4. Aged(f, g)
    BY <2>1 DEF Aged
  <2>5. g[0] = 0
    BY <1>a, <2>1
  <2>6. QED
    BY <2>3, <2>4, <2>5
<1>3. AdmRate'
  <2> HIDE DEF f, g
  <2>s. \A a \in Nat, b \in Int : b <= Window - 1 => SumFunctionOnSet(f, a..b) \in Nat
    BY <1>0, BetweenIs DEF f
  <2>1. CASE adm_ttl >= 2
    <3>1. Age \in 0..(Window - 2) /\ Age' = Age + 1 /\ adm_count' = adm_count /\ adm_ttl' # 0 /\ adm_count # 0
      BY <1>0, <1>1, <1>a, <2>1 DEF Age, AdmRate
    <3>2. SumFunctionOnSet(g, 0..(Age + 1)) = SumFunctionOnSet(f, 0..Age)
      <4> DEFINE b == Age + 1
      <4>1. b \in 0..(Window - 1) /\ b - 1 = Age
        BY <1>a, <3>1
      <4> HIDE DEF b
      <4>2. SumFunctionOnSet(g, 0..b) = SumFunctionOnSet(f, 0..(b - 1))
        BY <1>0, <1>2, <4>1, OlderFromNow DEF f, g
      <4>3. QED
        BY <4>1, <4>2 DEF b
    <3>3. SumFunctionOnSet(g, (Age + 2)..(Window - 1)) = SumFunctionOnSet(f, (Age + 1)..(Window - 2))
      <4> DEFINE a == Age + 1
                 b == Window - 2
      <4>1. a \in Nat /\ b \in Int /\ b <= Window - 2 /\ a + 1 = Age + 2 /\ b + 1 = Window - 1
        BY <1>a, <3>1
      <4> HIDE DEF a, b
      <4>2. SumFunctionOnSet(g, (a + 1)..(b + 1)) = SumFunctionOnSet(f, a..b)
        BY <1>0, <1>2, <4>1, Older DEF f, g
      <4>3. SumFunctionOnSet(g, (Age + 2)..(Window - 1)) = SumFunctionOnSet(f, a..b)
        BY <4>1, <4>2
      <4>4. QED
        BY <4>3 DEF a, b
    <3>4. SumFunctionOnSet(f, (Age + 1)..(Window - 2)) <= SumFunctionOnSet(f, (Age + 1)..(Window - 1))
      <4> DEFINE a == Age + 1
                 d == Window - 2
                 b == Window - 1
      <4>1. a \in Nat /\ b \in Int /\ d \in Int /\ d <= b /\ b <= Window - 1
        BY <1>a, <3>1
      <4> HIDE DEF a, b, d
      <4>2. SumFunctionOnSet(f, a..d) <= SumFunctionOnSet(f, a..b)
        BY <1>0, <4>1, Within DEF f
      <4>3. QED
        BY <4>2 DEF a, b, d
    <3>5. /\ SumFunctionOnSet(f, (Age + 1)..(Window - 2)) \in Nat /\ SumFunctionOnSet(f, (Age + 1)..(Window - 1)) \in Nat
      <4> DEFINE a == Age + 1
                 d == Window - 2
                 b == Window - 1
      <4>1. a \in Nat /\ b \in Int /\ d \in Int /\ d <= Window - 1 /\ b <= Window - 1
        BY <1>a, <3>1
      <4> HIDE DEF a, b, d
      <4>2. SumFunctionOnSet(f, a..d) \in Nat /\ SumFunctionOnSet(f, a..b) \in Nat
        BY <4>1, <2>s
      <4>3. QED
        BY <4>2 DEF a, b, d
    <3>6. SumFunctionOnSet(g, (Age' + 1)..(Window - 1)) <= Limit
      <4>1. Age' + 1 = Age + 2
        BY <3>1
      <4>2. SumFunctionOnSet(f, (Age + 1)..(Window - 1)) <= Limit
        BY <1>0 DEF AdmRate, Between, f
      <4>3. SumFunctionOnSet(g, (Age + 2)..(Window - 1)) <= Limit
        BY <1>a, <3>3, <3>4, <3>5, <4>2
      <4>4. QED
        BY <4>1, <4>3
    <3>7. SumFunctionOnSet(g, 0..(Age')) <= Limit /\ SumFunctionOnSet(g, 0..(Age')) <= adm_count'
      BY <1>0, <3>1, <3>2 DEF AdmRate, Between, f
    <3>8. adm_count' # 0 /\ adm_ttl' # 0
      BY <3>1
    <3>9. QED
      BY <3>6, <3>7, <3>8 DEF AdmRate, Between, g
  <2>2. CASE adm_ttl <= 1
    <3>1. adm_count' = 0 /\ adm_ttl' = 0 /\ Age' = -1
      BY <1>0, <1>1, <2>2 DEF Age
    <3>2. SumFunctionOnSet(f, 0..(Window - 1)) <= Limit
      <4>1. CASE adm_ttl = 0
        <5>1. Age + 1 = 0
          BY <4>1 DEF Age
        <5>2. QED
          BY <1>0, <5>1 DEF AdmRate, Between, f
      <4>2. CASE adm_ttl = 1
        <5>1. Age = Window - 1
          BY <4>2 DEF Age
        <5>2. QED
          BY <1>0, <5>1 DEF AdmRate, Between, f
      <4>3. QED
        BY <1>0, <2>2, <4>1, <4>2
    <3>3. SumFunctionOnSet(g, 0..(Window - 1)) = SumFunctionOnSet(f, 0..(Window - 2))
      <4> DEFINE b == Window - 1
      <4>1. b \in 0..(Window - 1) /\ b - 1 = Window - 2
        BY <1>a
      <4> HIDE DEF b
      <4>2. SumFunctionOnSet(g, 0..b) = SumFunctionOnSet(f, 0..(b - 1))
        BY <1>0, <1>2, <4>1, OlderFromNow DEF f, g
      <4>3. QED
        BY <4>1, <4>2 DEF b
    <3>4. SumFunctionOnSet(f, 0..(Window - 2)) <= SumFunctionOnSet(f, 0..(Window - 1))
      <4> DEFINE d == Window - 2
                 b == Window - 1
      <4>1. 0 \in Nat /\ b \in Int /\ d \in Int /\ d <= b /\ b <= Window - 1
        BY <1>a
      <4> HIDE DEF b, d
      <4>2. SumFunctionOnSet(f, 0..d) <= SumFunctionOnSet(f, 0..b)
        BY <1>0, <4>1, Within DEF f
      <4>3. QED
        BY <4>2 DEF b, d
    <3>5. SumFunctionOnSet(f, 0..(Window - 2)) \in Nat /\ SumFunctionOnSet(f, 0..(Window - 1)) \in Nat
      BY <1>a, <2>s
    <3>6. SumFunctionOnSet(g, (Age' + 1)..(Window - 1)) <= Limit
      <4>1. Age' + 1 = 0
        BY <3>1
      <4>2. SumFunctionOnSet(g, 0..(Window - 1)) <= Limit
        BY <1>a, <3>2, <3>3, <3>4, <3>5
      <4>3. QED
        BY <4>1, <4>2
    <3>7. SumFunctionOnSet(g, 0..(Age')) = 0
      <4>1. 0..(Age') = {}
        BY <3>1
      <4>2. QED
        BY <4>1, SumEmpty
    <3>8. adm_count' = 0 /\ adm_ttl' = 0 /\ 0 <= Limit /\ g[0] = 0
      BY <1>2, <1>a, <3>1
    <3>9. QED
      BY <3>6, <3>7, <3>8 DEF AdmRate, Between, g
  <2>3. QED
    BY <1>0, <2>1, <2>2
<1>4. G!TypeOK'
  <2>1. adm_count' \in 0..MaxCount /\ adm_ttl' \in 0..Window
    BY <1>0, <1>1, <1>a
  <2>2. adm_waited' \in [Caller -> 0..Patience]
    BY <1>0, AdmissionAssumption DEF G!Tick, G!TypeOK
  <2>3. adm_job' \in [Caller -> -1..MaxAge]
    BY <1>0, AdmissionAssumption DEF G!Tick, G!TypeOK
  <2>4. QED
    BY <1>0, <1>1, <1>2, <2>1, <2>2, <2>3 DEF G!TypeOK
<1>5. G!Jobs' = G!Jobs
  <2>1. \A c \in Caller : adm_job'[c] >= 0 <=> adm_job[c] >= 0
    BY <1>0, AdmissionAssumption DEF G!Tick, G!TypeOK
  <2>2. QED
    BY <2>1 DEF G!Jobs
<1>6. AdmSlots'
  BY <1>0, <1>1, <1>5, FewerThreads
<1>7. QED
  BY <1>3, <1>4, <1>6 DEF AdmInv

LEMMA NextAdm == ASSUME AdmInv, [G!Next]_(G!vars) PROVE AdmInv'
<1>1. CASE UNCHANGED G!vars
  BY <1>1 DEF G!vars, AdmInv, G!TypeOK, AdmRate, AdmSlots, Age, Between, G!Jobs
<1>2. CASE G!Next
  BY <1>2, TickAdm, RestartAdm, ArriveAdm, ReplyAdm, EmbedAdm, FinishAdm, AbandonAdm DEF G!Next
<1>3. QED
  BY <1>1, <1>2

LEMMA StepOfAdm ==
  ASSUME [ApiNext]_<<turn, vars, others>> PROVE [G!Next]_(G!vars)
  BY DEF ApiNext, others, admVars, G!vars

\* Two windows' worth at most, of which the counter may have admitted the last.
LEMMA CapacityFollows == AdmInv => CapacityIsKept
<1> SUFFICES ASSUME AdmInv PROVE CapacityIsKept
  OBVIOUS
<1>0. G!TypeOK /\ AdmRate /\ adm_recent \in [0..(Window - 1) -> Nat] /\ Age \in -1..(Window - 1)
  BY AgeIs DEF AdmInv, G!TypeOK
<1>1. Between(0, Window - 1) = Between(0, Age) + Between(Age + 1, Window - 1)
  BY <1>0, Together DEF Between
<1>2. Between(0, Age) <= Limit /\ Between(Age + 1, Window - 1) <= Limit
  BY <1>0 DEF AdmRate
<1>3. Between(0, Age) \in Nat /\ Between(Age + 1, Window - 1) \in Nat /\ Limit \in Nat
  <2> DEFINE a == Age + 1
             b == Window - 1
  <2>1. a \in Nat /\ b \in Int /\ b <= Window - 1 /\ 0 \in Nat /\ Age \in Int /\ Age <= Window - 1 /\ Limit \in Nat
    BY <1>0, AdmissionAssumption
  <2> HIDE DEF a, b
  <2>2. SumFunctionOnSet(adm_recent, 0..Age) \in Nat /\ SumFunctionOnSet(adm_recent, a..b) \in Nat
    BY <1>0, <2>1, BetweenIs
  <2>3. QED
    BY <2>1, <2>2 DEF a, b, Between
<1>4. Between(0, Window - 1) <= 2 * Limit
  BY <1>1, <1>2, <1>3
<1>5. G!RateHeld
  BY <1>0, <1>4, SumOfAll DEF G!RateHeld
<1>6. G!SlotsHeld
  BY CardIs DEF AdmInv, AdmSlots, G!SlotsHeld
<1>7. QED
  BY <1>5, <1>6 DEF CapacityIsKept, G!CapacityIsKept

\* In no interval as long as a window, wherever it begins, are more than two
\* windows' requests admitted, and no more computations run than there are slots,
\* however many requests time out, disconnect or restart the process
\* (check_rate, bounded_search_embed).
THEOREM Capacity == ApiSpec => []CapacityIsKept
<1>1. ApiInit => AdmInv
  BY InitAdm DEF ApiInit
<1>2. AdmInv /\ [ApiNext]_<<turn, vars, others>> => AdmInv'
  BY NextAdm, StepOfAdm
<1>3. QED
  BY <1>1, <1>2, CapacityFollows, PTL DEF ApiSpec

-----------------------------------------------------------------------------
(* All parts.                                                              *)

\* Every state of the cache, the answers, the admission and the migrations is
\* typed (api/, answerer.py, db/migrate.py).
THEOREM ApiTypes == ApiSpec => []ApiTypeOK
<1> DEFINE J == IInv /\ A!TypeOK /\ AdmInv /\ MigInv
<1>1. ApiInit => J
  BY InitIInv, InitAns, InitAdm, InitMig DEF ApiInit
<1>2. J /\ [ApiNext]_<<turn, vars, others>> => J'
  <2> SUFFICES ASSUME J, [ApiNext]_<<turn, vars, others>> PROVE J'
    OBVIOUS
  <2>1. [Next]_vars
    BY DEF ApiNext
  <2>2. IInv'
    BY <2>1, Step
  <2>3. (A!TypeOK)' /\ AdmInv' /\ MigInv'
    BY NextAns, StepOfAns, NextAdm, StepOfAdm, NextMig, StepOfMig
  <2>4. QED
    BY <2>2, <2>3
<1>3. J => ApiTypeOK
  BY DEF IInv, AdmInv, MigInv, ApiTypeOK
<1> HIDE DEF J
<1>4. QED
  BY <1>1, <1>2, <1>3, PTL DEF ApiSpec
=============================================================================
