----------------------------- MODULE ReadCache -----------------------------
(***************************************************************************)
(* The cache of the API's read routes (api/cache.py), the revision that    *)
(* triggers advance with every write (sql/014), and the lock that orders   *)
(* the writers (sql/015, db/write_lock.py).                                *)
(*                                                                         *)
(* A writer is one transaction at a time: the stages of the pipeline, the  *)
(* editor, the answerer, the aggregator.  It locks rows and writes them in *)
(* any order, until it commits or is rolled back.  A reader is a request.  *)
(*                                                                         *)
(* Operators named Mut_... are mistakes a developer could make in the      *)
(* definition that follows them; the specification does not use them.      *)
(***************************************************************************)
EXTENDS Integers, FiniteSets

CONSTANTS
  Row,       \* rows that the routes show
  LeaseRow,  \* those of post_processing: their lease is not shown
  Writer, Reader,
  None,
  MaxStatements, MaxWrites \* bounds: of a transaction, of the whole behaviour

ASSUME ReadCacheAssumption ==
  /\ LeaseRow \subseteq Row /\ None \notin Writer /\ None \notin Row /\ None \notin Nat
  /\ MaxStatements \in Nat /\ MaxWrites \in Nat

VARIABLES
  data, revision,       \* committed: the version of every row, il_read_revision
  wpc, row, kind,       \* the writers, and the statement each executes
  written, statements,  \* its uncommitted writes by row, and its statements
  generation, rowlock, revisionlock, \* who holds the advisory lock, the rows' locks
  cache,                \* Redis: results by revision
  rpc, key, unread, got,\* the readers: captured key, rows to read, result
  since                 \* history: the data when a reader asked for the revision

writers == <<wpc, row, kind, written, statements>>
locks   == <<generation, rowlock, revisionlock>>
readers == <<rpc, key, unread, got, since>>
vars    == <<data, revision, writers, locks, cache, readers>>

Kind == {"lock", "write", "quiet"}
Data == [Row -> Nat]

TypeOK ==
  /\ data \in Data /\ revision \in Nat
  /\ wpc \in [Writer -> {"idle", "open", "run", "after"}]
  /\ row \in [Writer -> Row \cup {None}] /\ kind \in [Writer -> Kind]
  /\ written \in [Writer -> Data] /\ statements \in [Writer -> Nat]
  /\ generation \in Writer \cup {None} /\ revisionlock \in Writer \cup {None}
  /\ rowlock \in [Row -> Writer \cup {None}]
  /\ \A e \in cache : e.key \in Nat /\ e.value \in Data
  /\ rpc \in [Reader -> {"idle", "lookup", "query", "store", "reply"}]
  /\ key \in [Reader -> Nat \cup {None}] /\ unread \in [Reader -> SUBSET Row]
  /\ got \in [Reader -> Data] /\ since \in [Reader -> Data]

Nothing == [x \in Row |-> 0]

Init ==
  /\ data = Nothing /\ revision = 0
  /\ wpc = [w \in Writer |-> "idle"] /\ row = [w \in Writer |-> None]
  /\ kind = [w \in Writer |-> "lock"] /\ written = [w \in Writer |-> Nothing]
  /\ statements = [w \in Writer |-> 0]
  /\ generation = None /\ rowlock = [x \in Row |-> None] /\ revisionlock = None
  /\ cache = {}
  /\ rpc = [r \in Reader |-> "idle"] /\ key = [r \in Reader |-> None]
  /\ unread = [r \in Reader |-> {}]
  /\ got = [r \in Reader |-> Nothing] /\ since = [r \in Reader |-> Nothing]

-----------------------------------------------------------------------------
(* Writers.  A statement locks a row with the generation first (SELECT FOR *)
(* UPDATE after lock_write_generation), writes a row (INSERT, UPDATE or    *)
(* DELETE and its triggers), or changes a lease, quietly and alone in its  *)
(* transaction (renew, release).                                           *)

Goto(w, l) == wpc' = [wpc EXCEPT ![w] = l]

Begin(w) ==
  /\ wpc[w] = "idle" /\ revision < MaxWrites /\ Goto(w, "open")
  /\ UNCHANGED <<data, revision, row, kind, written, statements, locks, cache, readers>>

Quiet(w) == kind[w] = "quiet" /\ statements[w] > 0

Statement(w, x, k) ==
  /\ wpc[w] = "open" /\ statements[w] < MaxStatements /\ ~Quiet(w)
  /\ k = "quiet" => x \in LeaseRow /\ statements[w] = 0
  /\ Goto(w, "run") /\ row' = [row EXCEPT ![w] = x] /\ kind' = [kind EXCEPT ![w] = k]
  /\ statements' = [statements EXCEPT ![w] = @ + 1]
  /\ UNCHANGED <<data, revision, written, locks, cache, readers>>

Mut_OldOrder(k) == FALSE
Mut_LockFirst(k) == k = "write"
\* Migration 015 and lock_write_generation: the advisory lock comes before
\* any row, of a statement that writes and of one that locks.
NeedsGeneration(k) == k \in {"write", "lock"}

WaitsGeneration(w) == wpc[w] = "run" /\ NeedsGeneration(kind[w]) /\ generation # w
WaitsRow(w) == wpc[w] = "run" /\ ~WaitsGeneration(w)
WaitsRevision(w) == wpc[w] = "after" /\ kind[w] = "write"

TakeGeneration(w) ==
  /\ WaitsGeneration(w) /\ generation = None /\ generation' = w
  /\ UNCHANGED <<data, revision, writers, rowlock, revisionlock, cache, readers>>

TakeRow(w) ==
  /\ WaitsRow(w) /\ rowlock[row[w]] \in {w, None}
  /\ rowlock' = [rowlock EXCEPT ![row[w]] = w] /\ Goto(w, "after")
  /\ UNCHANGED <<data, revision, row, kind, written, statements, generation, revisionlock,
                 cache, readers>>

\* The trigger after a write updates the one row of il_read_revision.
Advance(w) ==
  /\ WaitsRevision(w) /\ revisionlock \in {w, None} /\ revisionlock' = w
  /\ written' = [written EXCEPT ![w][row[w]] = @ + 1] /\ Goto(w, "open")
  /\ UNCHANGED <<data, revision, row, kind, statements, generation, rowlock, cache, readers>>

Locked(w) ==
  /\ wpc[w] = "after" /\ kind[w] # "write" /\ Goto(w, "open")
  /\ UNCHANGED <<data, revision, row, kind, written, statements, locks, cache, readers>>

End(w) ==
  /\ Goto(w, "idle") /\ row' = [row EXCEPT ![w] = None]
  /\ written' = [written EXCEPT ![w] = Nothing] /\ statements' = [statements EXCEPT ![w] = 0]
  /\ generation' = (IF generation = w THEN None ELSE generation)
  /\ revisionlock' = (IF revisionlock = w THEN None ELSE revisionlock)
  /\ rowlock' = [x \in Row |-> IF rowlock[x] = w THEN None ELSE rowlock[x]]
  /\ UNCHANGED <<kind, cache, readers>>

Changes(w) == \E x \in Row : written[w][x] > 0

\* Every write is a statement that advances the revision; it is enough here
\* that a transaction with writes does.
NextRevision(w) == IF Changes(w) THEN revision + 1 ELSE revision

Commit(w) ==
  /\ wpc[w] = "open"
  /\ data' = [x \in Row |-> data[x] + written[w][x]] /\ revision' = NextRevision(w)
  /\ End(w)

\* An error, a cancellation, the lock timeout, the end of the process.
Rollback(w) == wpc[w] # "idle" /\ End(w) /\ UNCHANGED <<data, revision>>

-----------------------------------------------------------------------------
(* Readers.                                                                *)

RGoto(r, l) == rpc' = [rpc EXCEPT ![r] = l]

\* versioned_key reads the revision before any query of the route.
Ask(r) ==
  /\ rpc[r] = "idle" /\ RGoto(r, "lookup")
  /\ key' = [key EXCEPT ![r] = revision] /\ since' = [since EXCEPT ![r] = data]
  /\ got' = [got EXCEPT ![r] = Nothing]
  /\ UNCHANGED <<data, revision, writers, locks, cache, unread>>

Entries(r) == {e \in cache : e.key = key[r]}

Hit(r) ==
  /\ rpc[r] = "lookup" /\ \E e \in Entries(r) : got' = [got EXCEPT ![r] = e.value]
  /\ RGoto(r, "reply")
  /\ UNCHANGED <<data, revision, writers, locks, cache, key, unread, since>>

\* No entry; or Redis or the read of the revision failed: no key is captured.
Miss(r) ==
  /\ rpc[r] = "lookup" /\ RGoto(r, "query") /\ unread' = [unread EXCEPT ![r] = Row]
  /\ (Entries(r) = {} /\ key' = key) \/ key' = [key EXCEPT ![r] = None]
  /\ UNCHANGED <<data, revision, writers, locks, cache, got, since>>

\* Each query sees what is committed then.
Query(r, x) ==
  /\ rpc[r] = "query" /\ x \in unread[r]
  /\ got' = [got EXCEPT ![r][x] = data[x]] /\ unread' = [unread EXCEPT ![r] = @ \ {x}]
  /\ RGoto(r, IF unread[r] = {x} THEN "store" ELSE "query")
  /\ UNCHANGED <<data, revision, writers, locks, cache, key, since>>

Mut_StoreKey(r) == revision
\* The revision captured before the queries.
StoreKey(r) == key[r]

Mut_MayStore(r) == TRUE
\* Never without a revision.
MayStore(r) == key[r] # None

Store(r) ==
  /\ rpc[r] = "store" /\ RGoto(r, "reply")
  /\ \/ /\ MayStore(r)
        /\ cache' = {e \in cache : e.key # StoreKey(r)}
                      \cup {[key |-> StoreKey(r), value |-> got[r]]}
     \/ UNCHANGED cache \* no key, or Redis fails
  /\ UNCHANGED <<data, revision, writers, locks, key, unread, got, since>>

Reply(r) ==
  /\ rpc[r] = "reply" /\ RGoto(r, "idle") /\ key' = [key EXCEPT ![r] = None]
  /\ UNCHANGED <<data, revision, writers, locks, cache, unread, got, since>>

\* The lifetime of an entry is over.
Expire ==
  /\ \E e \in cache : cache' = cache \ {e}
  /\ UNCHANGED <<data, revision, writers, locks, readers>>

-----------------------------------------------------------------------------
Proceed(w) == TakeGeneration(w) \/ TakeRow(w) \/ Advance(w) \/ Locked(w)
Write(w) == Begin(w) \/ (\E x \in Row, k \in Kind : Statement(w, x, k)) \/ Commit(w) \/ Rollback(w)
Read(r)  == Ask(r) \/ Hit(r) \/ Miss(r) \/ (\E x \in Row : Query(r, x)) \/ Store(r) \/ Reply(r)

Next ==
  \/ \E w \in Writer : Proceed(w) \/ Write(w)
  \/ \E r \in Reader : Read(r)
  \/ Expire

Spec == Init /\ [][Next]_vars

Ends(w) == wpc[w] = "open" /\ statements[w] > 0 /\ Commit(w)

\* PostgreSQL grants its locks in the order they are asked for; a writer that
\* is not waiting goes on to its commit (no model or network call under the
\* lock).  Nothing is assumed of timeouts.
Fairness ==
  \A w \in Writer :
    /\ SF_vars(Proceed(w))
    /\ WF_vars(Ends(w))

FairSpec == Spec /\ Fairness

-----------------------------------------------------------------------------
(* Properties.                                                             *)

Waits(w, v) ==
  /\ v # w
  /\ \/ WaitsGeneration(w) /\ generation = v
     \/ WaitsRow(w) /\ rowlock[row[w]] = v
     \/ WaitsRevision(w) /\ revisionlock = v

\* Writers never wait for one another in a circle: the deadlocks of migration
\* 014 between the indexer and the answer route (db/write_lock.py, sql/015).
NoDeadlock == \A S \in (SUBSET Writer) \ {{}} : \E w \in S : \A v \in S : ~Waits(w, v)

\* A response is never older than the request: neither a late result under a
\* new revision nor an entry of an old one is served after a commit (the
\* comments of versioned_key and cache_json_set).
NeverStale == \A r \in Reader : rpc[r] = "reply" => \A x \in Row : got[r][x] >= since[r][x]

\* A statement is executed at last or rolled back, without any lock timeout.
WritersProceed == \A w \in Writer : []<>(wpc[w] # "run")
=============================================================================
