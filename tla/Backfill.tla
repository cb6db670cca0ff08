------------------------------ MODULE Backfill ------------------------------
(***************************************************************************)
(* The bounded, restartable harvesting of crawler/backfill.py.  A source   *)
(* is a listing of the site (the tab, or a job partition); its pages are   *)
(* scanned into a durable queue of urls, whose details are then fetched.   *)
(* All batches of all sources run under one session-level advisory lock,   *)
(* and use the database only through the connection that took the lock.    *)
(*                                                                         *)
(* The queue is a set of urls: any of the pending ones may come first.  A  *)
(* record older than the campaign's "since" is not told apart from one     *)
(* whose post is stored already.                                           *)
(*                                                                         *)
(* Operators named Mut_... are mistakes a developer could make in the      *)
(* definition that follows them; the specification does not use them.      *)
(***************************************************************************)
EXTENDS Integers, Sequences, FiniteSets, Functions

CONSTANTS
  Source,         \* the listings
  Url,            \* detail urls
  Proc,           \* slots for processes that run a batch
  Jobs,           \* the calls of backfill_batch that are made
  InitialFeed,    \* the listings when the first batch runs
  InitialPosts,   \* the sets of urls that may be stored at that time
  PageSize,       \* records on a page of the listing
  Clamped,        \* the server answers a page beyond the end with the last one
  Scheduled,      \* the listings that the daily job harvests: the tab
  Pages, Batch, Daily, \* the limits of a batch
  NoProc, NoUrl, NoJob,
  MaxFaults, MaxPublished, MaxWithdrawn, MaxCharges \* bounds of the model

\* One call of backfill_batch.
Job == [source : Source, resume : BOOLEAN, retry : BOOLEAN, drain : BOOLEAN,
        limited : BOOLEAN, continuous : BOOLEAN]

ASSUME BackfillAssumption ==
  /\ Source # {} /\ IsFiniteSet(Source) /\ NoProc \notin Proc /\ NoUrl \notin Url /\ NoJob \notin Job
  /\ Jobs \subseteq Job /\ \A j \in Jobs : ~(j.drain /\ j.resume)
  /\ InitialFeed \in [Source -> Seq(Url)] /\ InitialPosts \subseteq SUBSET Url
  /\ PageSize \in Nat \ {0} /\ Pages \in Nat \ {0, 1, 2}
  /\ Batch \in Nat \ {0} /\ Daily \in Nat \ {0}
  /\ Clamped \in BOOLEAN /\ Scheduled \subseteq Source
  /\ {MaxFaults, MaxPublished, MaxWithdrawn, MaxCharges} \subseteq Nat

VARIABLES
  next, completed, paused, cooling, scanned, \* crawl_progress, crawl_scan_pages
  state, origin, attempts,           \* crawl_queue: status, source, attempts
  posts, charges,                    \* stored urls; crawl_daily_budget of today
  holder,                            \* whose connection holds the lock
  feed,                              \* what the site lists
  due,                               \* history: what the scan of a listing must meet
  pc, job, page, last, records, todo, url, tried, reason, \* a batch
  faults, published, withdrawn

progress == <<next, completed, paused, cooling, scanned>>
queue    == <<state, origin, attempts>>
stored   == <<posts, charges>>
site     == <<feed, due, published, withdrawn>>
batch    == <<page, last, records, todo, url, tried, reason>>
vars     == <<progress, queue, stored, holder, site, pc, job, batch, faults>>

AtDatabase == {"begin", "retry", "mark", "check", "pick", "scan", "enqueue", "repick",
               "budget", "charge", "metabudget", "metacharge", "finish", "finishlast", "fail"}
AtSite == {"list", "fetch", "metafetch"}
Place == AtDatabase \cup AtSite \cup {"idle", "next", "unlock"}
Reason == {"none", "blocked", "repeated", "transient"}

TypeOK ==
  /\ next \in [Source -> Nat \ {0}] /\ completed \in [Source -> BOOLEAN]
  /\ paused \in [Source -> Reason \ {"transient"}] /\ cooling \in [Source -> BOOLEAN]
  /\ scanned \in [Source -> SUBSET ((Nat \ {0}) \X SUBSET Url)]
  /\ state \in [Url -> {"none", "pending", "done", "failed"}]
  /\ origin \in [Url -> Source] /\ attempts \in [Url -> Nat]
  /\ posts \in SUBSET Url /\ charges \in [Source -> Nat]
  /\ holder \in Proc \cup {NoProc}
  /\ feed \in [Source -> Seq(Url)] /\ due \in [Source -> SUBSET Url]
  /\ pc \in [Proc -> Place]
  /\ job \in [Proc -> Jobs \cup {NoJob}]
  /\ page \in [Proc -> Nat] /\ last \in [Proc -> Nat]
  /\ records \in [Proc -> SUBSET Url] /\ todo \in [Proc -> SUBSET Url]
  /\ url \in [Proc -> Url \cup {NoUrl}] /\ tried \in [Proc -> Nat]
  /\ reason \in [Proc -> Reason]
  /\ faults \in 0..MaxFaults /\ published \in 0..MaxPublished /\ withdrawn \in 0..MaxWithdrawn

Init ==
  /\ next = [s \in Source |-> 1] /\ completed = [s \in Source |-> FALSE]
  /\ paused = [s \in Source |-> "none"] /\ cooling = [s \in Source |-> FALSE]
  /\ scanned = [s \in Source |-> {}]
  /\ state = [u \in Url |-> "none"] /\ attempts = [u \in Url |-> 0]
  /\ origin = [u \in Url |-> CHOOSE s \in Source : TRUE]
  /\ posts \in InitialPosts /\ charges = [s \in Source |-> 0]
  /\ holder = NoProc /\ feed = InitialFeed /\ due = [s \in Source |-> Range(InitialFeed[s])]
  /\ pc = [p \in Proc |-> "idle"] /\ job = [p \in Proc |-> NoJob]
  /\ page = [p \in Proc |-> 0] /\ last = [p \in Proc |-> 0]
  /\ records = [p \in Proc |-> {}] /\ todo = [p \in Proc |-> {}]
  /\ url = [p \in Proc |-> NoUrl] /\ tried = [p \in Proc |-> 0]
  /\ reason = [p \in Proc |-> "none"]
  /\ faults = 0 /\ published = 0 /\ withdrawn = 0

-----------------------------------------------------------------------------
(* The lock, and what every step of a batch starts from.                   *)

Fault == faults < MaxFaults /\ faults' = faults + 1

Goto(p, l) == pc' = [pc EXCEPT ![p] = l]
Src(p) == job[p].source

Mut_AnyConnection(p) == TRUE
\* Statements run on the connection that took the lock; the server gives the
\* lock back when that connection is gone, and then the statement fails.
Connected(p) == holder = p

At(p, l) == pc[p] = l /\ Connected(p)

\* pg_try_advisory_lock; a refused batch returns "locked" and changes nothing.
Launch(p, j) ==
  /\ pc[p] = "idle" /\ holder = NoProc
  /\ holder' = p /\ Goto(p, "begin")
  /\ job' = [job EXCEPT ![p] = j]
  /\ UNCHANGED <<progress, queue, stored, site, batch, faults>>

Forget(p) ==
  /\ Goto(p, "idle") /\ job' = [job EXCEPT ![p] = NoJob]
  /\ page' = [page EXCEPT ![p] = 0] /\ last' = [last EXCEPT ![p] = 0]
  /\ records' = [records EXCEPT ![p] = {}] /\ todo' = [todo EXCEPT ![p] = {}]
  /\ url' = [url EXCEPT ![p] = NoUrl] /\ tried' = [tried EXCEPT ![p] = 0]
  /\ reason' = [reason EXCEPT ![p] = "none"]

\* The end of a batch: unlock, or invalidate a broken connection.
Unlock(p) ==
  /\ pc[p] = "unlock" /\ Forget(p)
  /\ holder' = IF holder = p THEN NoProc ELSE holder
  /\ UNCHANGED <<progress, queue, stored, site, faults>>

\* A statement on a lost connection raises; the batch ends.
ConnectionLost(p) ==
  /\ pc[p] \in AtDatabase /\ ~Connected(p) /\ Goto(p, "unlock")
  /\ UNCHANGED <<progress, queue, stored, holder, site, job, batch, faults>>

-----------------------------------------------------------------------------
(* The start of a batch.                                                   *)

Mut_MayStart(p) == paused[Src(p)] = "none" \/ job[p].resume \/ job[p].drain
\* Draining is only allowed at a pagination boundary.
MayStart(p) ==
  \/ paused[Src(p)] = "none" \/ job[p].resume
  \/ job[p].drain /\ paused[Src(p)] = "repeated"

Cooling(p) == cooling[Src(p)] /\ ~job[p].continuous

BeginBatch(p) ==
  /\ At(p, "begin") /\ ~Cooling(p) /\ MayStart(p)
  /\ cooling' = [cooling EXCEPT ![Src(p)] = TRUE]
  /\ paused' = [paused EXCEPT ![Src(p)] = IF job[p].drain THEN @ ELSE "none"]
  /\ Goto(p, IF job[p].retry THEN "retry" ELSE "mark")
  /\ UNCHANGED <<next, completed, scanned, queue, stored, holder, site, job, batch, faults>>

RefuseBatch(p) ==
  /\ At(p, "begin") /\ (Cooling(p) \/ ~MayStart(p))
  /\ Goto(p, "unlock")
  /\ UNCHANGED <<progress, queue, stored, holder, site, job, batch, faults>>

Mut_PendingUntried(s) == {u \in Url : state[u] = "pending" /\ origin[u] = s /\ attempts[u] = 0}
Pending(s) == {u \in Url : state[u] = "pending" /\ origin[u] = s}

RetryFailed(p) ==
  /\ At(p, "retry") /\ Goto(p, "mark")
  /\ LET again == {u \in Url : state[u] = "failed" /\ origin[u] = Src(p)} IN
       /\ state' = [u \in Url |-> IF u \in again THEN "pending" ELSE state[u]]
       /\ attempts' = [u \in Url |-> IF u \in again THEN 0 ELSE attempts[u]]
  /\ UNCHANGED <<progress, origin, stored, holder, site, job, batch, faults>>

\* Attempts charged before a crashed navigation remain charged.
Exhausted(u) == attempts[u] >= 3

MarkExisting(p) ==
  /\ At(p, "mark") /\ Goto(p, "check")
  /\ state' = [u \in Url |->
       CASE u \notin Pending(Src(p)) -> state[u]
         [] u \in posts -> "done"
         [] u \notin posts /\ Exhausted(u) -> "failed"
         [] OTHER -> state[u]]
  /\ UNCHANGED <<progress, origin, attempts, stored, holder, site, job, batch, faults>>

\* The quota of a day is shared by all sources.
Spent(p) == SumFunction(charges)
QuotaLeft(p) == job[p].limited => Spent(p) < Daily

Check(p) ==
  /\ At(p, "check")
  /\ Goto(p, IF ~QuotaLeft(p) \/ (job[p].drain /\ Pending(Src(p)) = {}) THEN "unlock" ELSE "pick")
  /\ UNCHANGED <<progress, queue, stored, holder, site, job, batch, faults>>

\* pending(limit), before and after the discovery of new urls.
Pick(p) ==
  /\ pc[p] \in {"pick", "repick"} /\ Connected(p)
  /\ LET waiting == Pending(Src(p)) IN
     /\ \E some \in SUBSET waiting :
          /\ Cardinality(some) <= Batch
          /\ some # waiting => Cardinality(some) = Batch
          /\ todo' = [todo EXCEPT ![p] = some]
     /\ Goto(p, IF pc[p] = "pick" /\ waiting = {} /\ ~job[p].drain THEN "scan" ELSE "next")
  /\ UNCHANGED <<progress, queue, stored, holder, site, job, page, last, records, url, tried,
                 reason, faults>>

-----------------------------------------------------------------------------
(* Discovery.                                                              *)

Mut_Restarts(s) == FALSE
Restarts(s) == completed[s]

Mut_First(n) == n
Mut_FirstUnclamped(n) == n - 2
\* Two pages are revisited, to tolerate modest insertions and reordering.
First(n) == IF n > 2 THEN n - 2 ELSE 1

StartScan(p) ==
  /\ At(p, "scan") /\ Goto(p, "list")
  /\ LET s == Src(p) n == IF Restarts(s) THEN 1 ELSE next[s] IN
     /\ next' = [next EXCEPT ![s] = n]
     /\ scanned' = [scanned EXCEPT ![s] = IF Restarts(s) THEN {} ELSE @]
     /\ completed' = [completed EXCEPT ![s] = @ /\ ~Restarts(s)]
     /\ due' = [due EXCEPT ![s] = IF Restarts(s) THEN Range(feed[s]) ELSE @]
     /\ page' = [page EXCEPT ![p] = First(n)]
     /\ last' = [last EXCEPT ![p] = First(n) + Pages - 1]
  /\ UNCHANGED <<paused, cooling, queue, stored, holder, feed, published, withdrawn, job,
                 records, todo, url, tried, reason, faults>>

PageOf(i) == (i + PageSize - 1) \div PageSize
LastPage(s) == PageOf(Len(feed[s]))

\* What the site answers to a request for page k.
Served(s, k) ==
  LET n == IF Clamped /\ k > LastPage(s) THEN LastPage(s) ELSE k IN
  {feed[s][i] : i \in {i \in DOMAIN feed[s] : (n - 1) * PageSize < i /\ i <= n * PageSize}}

ListPage(p) ==
  /\ pc[p] = "list" /\ Goto(p, "enqueue")
  /\ records' = [records EXCEPT ![p] = Served(Src(p), page[p])]
  /\ UNCHANGED <<progress, queue, stored, holder, site, job, page, last, todo, url, tried,
                 reason, faults>>

\* Another page of this scan had the same identities.
Repeated(p) ==
  \E x \in scanned[Src(p)] : x[1] # page[p] /\ x[2] = records[p]

Known == posts \cup {u \in Url : state[u] # "none"}

Mut_Ended(p) == records[p] \subseteq Known
\* Only a valid empty page ends a scan; pages that are all known do not.
Ended(p) == records[p] = {}

EnqueuePage(p) ==
  /\ At(p, "enqueue") /\ ~Repeated(p)
  /\ LET s == Src(p) new == records[p] \ Known IN
     /\ scanned' = [scanned EXCEPT ![s] =
          {x \in @ : x[1] # page[p]}
            \cup (IF records[p] = {} THEN {} ELSE {<<page[p], records[p]>>})]
     /\ state' = [u \in Url |-> IF u \in new THEN "pending" ELSE state[u]]
     /\ origin' = [u \in Url |-> IF u \in new THEN s ELSE origin[u]]
     /\ next' = [next EXCEPT ![s] = IF @ > page[p] THEN @ ELSE page[p] + 1]
     /\ completed' = [completed EXCEPT ![s] = Ended(p)]
  /\ IF records[p] = {} \/ page[p] = last[p]
       THEN Goto(p, "repick") /\ UNCHANGED page
       ELSE Goto(p, "list") /\ page' = [page EXCEPT ![p] = @ + 1]
  /\ records' = [records EXCEPT ![p] = {}]
  /\ UNCHANGED <<paused, cooling, attempts, stored, holder, site, job, last, todo, url, tried,
                 reason, faults>>

RejectPage(p) ==
  /\ At(p, "enqueue") /\ Repeated(p)
  /\ Goto(p, "fail") /\ reason' = [reason EXCEPT ![p] = "repeated"]
  /\ UNCHANGED <<progress, queue, stored, holder, site, job, page, last, records, todo, url,
                 tried, faults>>

-----------------------------------------------------------------------------
(* Details.                                                                *)

NextUrl(p) ==
  /\ pc[p] = "next"
  /\ \/ /\ todo[p] = {} \/ tried[p] >= Batch
        /\ Goto(p, "unlock") /\ UNCHANGED <<todo, url>>
     \/ /\ tried[p] < Batch
        /\ \E u \in todo[p] : /\ url' = [url EXCEPT ![p] = u]
                              /\ todo' = [todo EXCEPT ![p] = @ \ {u}]
        /\ Goto(p, "budget")
  /\ UNCHANGED <<progress, queue, stored, holder, site, job, page, last, records, tried,
                 reason, faults>>

\* reserve_attempt is one transaction of two statements: what was spent today
\* is read, then the attempt is charged, before the navigation.
ReadBudget(p) ==
  /\ pc[p] \in {"budget", "metabudget"} /\ Connected(p)
  /\ Goto(p, CASE QuotaLeft(p) -> IF pc[p] = "budget" THEN "charge" ELSE "metacharge"
               [] ~QuotaLeft(p) -> IF pc[p] = "budget" THEN "unlock" ELSE "finishlast")
  /\ UNCHANGED <<progress, queue, stored, holder, site, job, batch, faults>>

Charge(p) ==
  /\ pc[p] \in {"charge", "metacharge"} /\ Connected(p)
  /\ SumFunction(charges) < MaxCharges
  /\ charges' = [charges EXCEPT ![Src(p)] = @ + 1]
  /\ attempts' = [attempts EXCEPT ![url[p]] = IF state[url[p]] = "pending" THEN @ + 1 ELSE @]
  /\ tried' = [tried EXCEPT ![p] = @ + 1]
  /\ Goto(p, IF pc[p] = "charge" THEN "fetch" ELSE "metafetch")
  /\ UNCHANGED <<progress, state, origin, posts, holder, site, job, page, last, records, todo,
                 url, reason, faults>>

Mut_DatelessNext(p) == "metabudget"
\* The metadata fallback is another request of the same batch.
DatelessNext(p) == IF tried[p] >= Batch THEN "finishlast" ELSE "metabudget"

Fetch(p) ==
  /\ pc[p] = "fetch"
  /\ \/ Goto(p, "finish")
     \/ Goto(p, DatelessNext(p))
  /\ UNCHANGED <<progress, queue, stored, holder, site, job, batch, faults>>

FetchMetadata(p) ==
  /\ pc[p] = "metafetch" /\ Goto(p, "finish")
  /\ UNCHANGED <<progress, queue, stored, holder, site, job, batch, faults>>

Mut_Stored(p) == posts
Stored(p) == posts \cup {url[p]}

Finish(p) ==
  /\ pc[p] \in {"finish", "finishlast"} /\ Connected(p)
  /\ posts' = Stored(p)
  /\ state' = [state EXCEPT ![url[p]] = "done"]
  /\ url' = [url EXCEPT ![p] = NoUrl]
  /\ Goto(p, IF pc[p] = "finish" THEN "next" ELSE "unlock")
  /\ UNCHANGED <<progress, origin, attempts, charges, holder, site, job, page, last, records,
                 todo, tried, reason, faults>>

-----------------------------------------------------------------------------
(* Failures.                                                               *)

\* CrawlStoppedError: the site blocks (pause) or fails (retryable); records
\* without an identity stop the scan where the page is enqueued.
Stopped(p) ==
  /\ \/ pc[p] \in AtSite /\ \E why \in {"blocked", "transient"} : reason' = [reason EXCEPT ![p] = why]
     \/ At(p, "enqueue") /\ reason' = [reason EXCEPT ![p] = "blocked"]
  /\ Fault /\ Goto(p, "fail")
  /\ UNCHANGED <<progress, queue, stored, holder, site, job, page, last, records, todo, url, tried>>

Fail(p) ==
  /\ At(p, "fail") /\ Goto(p, "unlock")
  /\ state' = [u \in Url |-> CASE u # url[p] -> state[u]
                               [] u = url[p] -> IF Exhausted(u) THEN "failed" ELSE "pending"]
  /\ paused' = [paused EXCEPT ![Src(p)] = IF reason[p] = "transient" THEN @ ELSE reason[p]]
  /\ UNCHANGED <<next, completed, cooling, scanned, origin, attempts, stored, holder, site, job,
                 batch, faults>>

\* Cancellation, or an error nobody expected: it propagates.
Error(p) ==
  /\ pc[p] \notin {"idle", "unlock"} /\ Fault /\ Goto(p, "unlock")
  /\ UNCHANGED <<progress, queue, stored, holder, site, job, batch>>

\* The process dies; the server notices later that its session is gone.
Crash(p) ==
  /\ pc[p] # "idle" /\ Fault /\ Forget(p)
  /\ UNCHANGED <<progress, queue, stored, holder, site>>

CloseDeadSession ==
  /\ holder # NoProc /\ pc[holder] = "idle" /\ holder' = NoProc
  /\ UNCHANGED <<progress, queue, stored, site, pc, job, batch, faults>>

\* The connection breaks while the process is running.
Disconnect ==
  /\ holder # NoProc /\ pc[holder] # "idle" /\ Fault /\ holder' = NoProc
  /\ UNCHANGED <<progress, queue, stored, site, pc, job, batch>>

-----------------------------------------------------------------------------
(* Time, the site and the other writers of posts.                          *)

CooldownOver(s) ==
  /\ cooling[s] /\ cooling' = [cooling EXCEPT ![s] = FALSE]
  /\ UNCHANGED <<next, completed, paused, scanned, queue, stored, holder, site, pc, job, batch,
                 faults>>

NewDay ==
  /\ charges' = [s \in Source |-> 0]
  /\ UNCHANGED <<progress, queue, posts, holder, site, pc, job, batch, faults>>

Publish(s, u) ==
  /\ published < MaxPublished
  /\ \A t \in Source : u \notin Range(feed[t]) \cup Range(InitialFeed[t])
  /\ feed' = [feed EXCEPT ![s] = <<u>> \o @] /\ published' = published + 1
  /\ UNCHANGED <<progress, queue, stored, holder, due, withdrawn, pc, job, batch, faults>>

Reads(s, l) == holder # NoProc /\ pc[holder] = l /\ Src(holder) = s
Back(s) == IF next[s] > 2 THEN next[s] - 2 ELSE 1

\* The first page on which the scan of a listing still meets a post: the one
\* that the batch reads next, or, if it stops, two before the next of the scan.
Front(s, u) ==
  CASE Reads(s, "list") -> page[holder]
    [] Reads(s, "enqueue") /\ u \notin records[holder] -> page[holder] + 1
    [] OTHER -> Back(s)

\* The posts that move from there to the page before when post i is withdrawn.
Slipping(s, i) ==
  {feed[s][j] : j \in {j \in DOMAIN feed[s] :
     j > i /\ PageOf(j - 1) < Front(s, feed[s][j]) /\ Front(s, feed[s][j]) <= PageOf(j)}}

Withdraw(s) ==
  /\ withdrawn < MaxWithdrawn /\ withdrawn' = withdrawn + 1
  /\ \E i \in DOMAIN feed[s] :
       /\ feed' = [feed EXCEPT ![s] = SubSeq(@, 1, i - 1) \o SubSeq(@, i + 1, Len(@))]
       /\ due' = [due EXCEPT ![s] = @ \ ({feed[s][i]} \cup Slipping(s, i))]
  /\ UNCHANGED <<progress, queue, stored, holder, published, pc, job, batch, faults>>

\* `il crawl`, `il graph` and imports store posts without the queue.
StoreElsewhere(u) ==
  /\ u \notin posts /\ Fault /\ posts' = posts \cup {u}
  /\ UNCHANGED <<progress, queue, charges, holder, site, pc, job, batch>>

-----------------------------------------------------------------------------
Step(p) ==
  \/ BeginBatch(p) \/ RefuseBatch(p) \/ RetryFailed(p) \/ MarkExisting(p) \/ Check(p) \/ Pick(p)
  \/ StartScan(p) \/ ListPage(p) \/ EnqueuePage(p) \/ RejectPage(p)
  \/ NextUrl(p) \/ ReadBudget(p) \/ Charge(p) \/ Fetch(p) \/ FetchMetadata(p) \/ Finish(p)
  \/ Fail(p) \/ Unlock(p) \/ ConnectionLost(p)

Next ==
  \/ \E p \in Proc : Step(p) \/ Stopped(p) \/ Error(p) \/ Crash(p) \/ \E j \in Jobs : Launch(p, j)
  \/ CloseDeadSession \/ Disconnect \/ NewDay
  \/ \E s \in Source : CooldownOver(s) \/ Withdraw(s) \/ \E u \in Url : Publish(s, u)
  \/ \E u \in Url : StoreElsewhere(u)

Spec == Init /\ [][Next]_vars

\* The daily job's batch: it has no quota, resumes and retries nothing.
ByDailyJob(j) == ~j.resume /\ ~j.retry /\ ~j.drain /\ ~j.limited /\ ~j.continuous

\* A batch keeps running, dead sessions are closed, time passes, and the daily
\* job starts a batch of its listing again and again.  What an operator does,
\* resuming a paused listing above all, need not happen.
Fairness ==
  /\ \A p \in Proc : WF_vars(Step(p))
  /\ WF_vars(CloseDeadSession) /\ SF_vars(SumFunction(charges) > 0 /\ NewDay)
  /\ \A s \in Scheduled :
       /\ WF_vars(CooldownOver(s))
       /\ SF_vars(\E p \in Proc, j \in Jobs : j.source = s /\ ByDailyJob(j) /\ Launch(p, j))

FairSpec == Spec /\ Fairness

-----------------------------------------------------------------------------
(* Properties.                                                             *)

\* A limited batch never takes the attempts of the day beyond the limit, over
\* all sources, whatever crashes and disconnects (reserve_attempt under the lock).
QuotaHeld ==
  [][\A p \in Proc : tried'[p] > tried[p] /\ job[p].limited => SumFunction(charges') <= Daily]_vars

\* A batch makes no more detail requests than its limit, the metadata fallback
\* included, and every one of them was charged before (backfill_batch).
BatchIsBounded == \A p \in Proc : tried[p] <= Batch

\* An authentication or rate pause stops every request; a pagination boundary
\* only lets a drain fetch details (begin_batch).
PauseIsRespected ==
  \A p \in Proc : pc[p] \in AtSite /\ Connected(p) =>
    \/ paused[Src(p)] = "none"
    \/ paused[Src(p)] = "repeated" /\ job[p].drain /\ pc[p] # "list"

\* A url leaves the queue as done only when its post is stored (finish and
\* mark_existing), so no crash loses a discovered post.
DoneIsStored == \A u \in Url : state[u] = "done" => u \in posts

\* A url is tried at most three times before it is given up, plus one charge
\* of the metadata fallback (mark_existing, fail).
AttemptsAreBounded == \A u \in Url : attempts[u] <= 4

\* A scan declared complete has met every post that was listed when it began
\* and since, whatever is published and withdrawn meanwhile, in a batch or
\* between two, unless a withdrawal moved the post, unread, in front of where
\* the scan goes on, the two revisited pages included (start_scan, enqueue_page).
ScanCovers == \A s \in Source : completed[s] => due[s] \subseteq Known

\* A queued url does not stay queued for ever, although batches crash and stop,
\* unless its listing is paused, for good or again and again.
PendingIsSettled ==
  \A s \in Scheduled, u \in Url :
    state[u] = "pending" /\ origin[u] = s ~> state[u] \in {"done", "failed"} \/ paused[s] # "none"

\* Whatever is listed, and stays listed, is eventually discovered, unless the
\* listing is paused, for good or again and again.
ListedIsFound ==
  \A s \in Scheduled, u \in Url :
    u \in Range(feed[s]) ~> u \in Known \/ u \notin Range(feed[s]) \/ paused[s] # "none"

=============================================================================
