-------------------------------- MODULE Site --------------------------------
(***************************************************************************)
(* The requests of all crawlers to the site (crawler/site_limiter.py,      *)
(* playwright_runner.py, job_list_crawler.py): browsers of the workers,    *)
(* the backfill and the exports share one row of PostgreSQL, which hands   *)
(* out slots and records pauses.                                           *)
(*                                                                         *)
(* Time is discrete.  The limiter of a process only waits longer, before   *)
(* it asks for a slot; a crawler asks when it likes.                       *)
(*                                                                         *)
(* Operators named Mut_... are mistakes a developer could make in the      *)
(* definition that follows them; the specification does not use them.      *)
(***************************************************************************)
EXTENDS Integers

CONSTANTS
  Client,       \* a browser or an export, which sends one request at a time
  None,
  Spacing,      \* the least time between slots (ten seconds)
  Jitter,       \* what is added to it, at random
  Pause,        \* how long the site is left alone (an hour)
  Attempts,     \* of one page (crawler_max_retries)
  MaxTime, MaxBlocks \* bounds of the model

VARIABLES
  now,
  next, paused,   \* the row: next_request_at, paused_until
  lock,           \* who holds the row
  pc, began,      \* where a client is; NOW() of its transaction
  wake, attempt,
  sent, blocks,   \* history: requests sent, and how many were blocked
  stray           \* history: requests of a client in the pause in force

row  == <<next, paused, lock>>
hist == <<sent, blocks, stray>>
vars == <<now, row, pc, began, wake, attempt, hist>>

Place == {"idle", "ask", "reserve", "sleep", "flying", "refused", "pause"}

TypeOK ==
  /\ now \in 0..MaxTime /\ next \in Nat /\ paused \in 0..(MaxTime + Pause)
  /\ lock \in Client \cup {None} /\ pc \in [Client -> Place]
  /\ began \in [Client -> 0..MaxTime] /\ wake \in [Client -> Nat]
  /\ attempt \in [Client -> 0..Attempts] /\ sent \in Nat /\ blocks \in 0..MaxBlocks
  /\ stray \in [Client -> Nat]

Init ==
  /\ now = 0 /\ next = 0 /\ paused = 0 /\ lock = None
  /\ pc = [c \in Client |-> "idle"] /\ began = [c \in Client |-> 0]
  /\ wake = [c \in Client |-> 0] /\ attempt = [c \in Client |-> 0]
  /\ sent = 0 /\ blocks = 0 /\ stray = [c \in Client |-> 0]

Goto(c, l) == pc' = [pc EXCEPT ![c] = l]
Later(a, b) == IF a > b THEN a ELSE b

-----------------------------------------------------------------------------
(* SiteLimiter.acquire.                                                    *)

Ask(c, n) ==
  /\ Goto(c, "ask") /\ attempt' = [attempt EXCEPT ![c] = n]
  /\ began' = [began EXCEPT ![c] = now]
  /\ UNCHANGED <<now, row, wake>>

\* The first try for a page, for its metadata, or for a page of a listing.
\* Those whose slot would come after MaxTime are not followed.
Request(c) == pc[c] = "idle" /\ next <= MaxTime /\ Ask(c, 1) /\ UNCHANGED hist

Mut_Held(c) == None
\* SELECT ... FOR UPDATE: the row stays locked until the slot is taken.
Held(c) == c

\* A transaction that waited for the row compares with the time it began.
Select(c) ==
  /\ pc[c] = "ask" /\ lock = None
  /\ IF paused > began[c]
     THEN Goto(c, "refused") /\ UNCHANGED lock
     ELSE Goto(c, "reserve") /\ lock' = Held(c)
  /\ UNCHANGED <<now, next, paused, began, wake, attempt, hist>>

Mut_Slot(c) == began[c]
Slot(c) == Later(next, began[c])

\* The sleep begins after the commit and lasts until the slot.
Reserve(c) ==
  /\ pc[c] = "reserve" /\ lock \in {c, None} /\ lock' = None
  /\ \E j \in Jitter : next' = Slot(c) + Spacing + j
  /\ wake' = [wake EXCEPT ![c] = now + Slot(c) - began[c]]
  /\ Goto(c, "sleep") /\ began' = [began EXCEPT ![c] = 0]
  /\ UNCHANGED <<now, paused, attempt, hist>>

-----------------------------------------------------------------------------
(* The request and what becomes of it (fetch, _do_fetch, check_status).    *)

Send(c) ==
  /\ pc[c] = "sleep" /\ now >= wake[c] /\ Goto(c, "flying")
  /\ sent' = sent + 1 /\ stray' = [stray EXCEPT ![c] = IF paused > now THEN @ + 1 ELSE @]
  /\ wake' = [wake EXCEPT ![c] = 0]
  /\ UNCHANGED <<now, row, began, attempt, blocks>>

End(c) ==
  /\ Goto(c, "idle") /\ attempt' = [attempt EXCEPT ![c] = 0]
  /\ began' = [began EXCEPT ![c] = 0] /\ wake' = [wake EXCEPT ![c] = 0]

\* A page, a failure that is not tried again, or a server error, which stops
\* the crawl without a pause.
Done(c) ==
  /\ pc[c] = "flying" /\ End(c) /\ UNCHANGED <<now, row, hist>>

Mut_Retry(c) == /\ Goto(c, "sleep") /\ attempt' = [attempt EXCEPT ![c] = @ + 1]
                /\ UNCHANGED <<now, row, began, wake>>
\* A browser error or a timeout: another try, with a slot of its own.
Retry(c) == Ask(c, attempt[c] + 1)

Mut_Again(c) == attempt[c] <= Attempts
Again(c) == attempt[c] < Attempts

Fail(c) == pc[c] = "flying" /\ Again(c) /\ Retry(c) /\ UNCHANGED hist

\* 401, 403, 429, a login page, a challenge, a refusal of the API.
Blocked(c) ==
  /\ pc[c] = "flying" /\ blocks < MaxBlocks /\ blocks' = blocks + 1 /\ Goto(c, "pause")
  /\ UNCHANGED <<now, row, began, wake, attempt, sent, stray>>

\* A crawl that was refused ends; an export, and a browser that is left
\* through its context, then record the pause once more.
Refused(c) ==
  /\ pc[c] = "refused" /\ UNCHANGED <<now, row, hist>>
  /\ End(c) \/ (Goto(c, "pause") /\ UNCHANGED <<began, wake, attempt>>)

\* pause_site.
Record(c) ==
  /\ pc[c] = "pause" /\ lock = None /\ End(c)
  /\ paused' = now + Pause
  /\ stray' = IF paused > now THEN stray ELSE [d \in Client |-> 0]
  /\ UNCHANGED <<now, next, lock, sent, blocks>>

\* The process dies; its transaction is rolled back.
Crash(c) ==
  /\ pc[c] # "idle" /\ End(c) /\ lock' = (IF lock = c THEN None ELSE lock)
  /\ UNCHANGED <<now, next, paused, hist>>

Tick == now < MaxTime /\ now' = now + 1 /\ UNCHANGED <<row, pc, began, wake, attempt, hist>>

-----------------------------------------------------------------------------
Step(c) ==
  \/ Request(c) \/ Select(c) \/ Reserve(c) \/ Send(c) \/ Done(c) \/ Fail(c)
  \/ Blocked(c) \/ Refused(c) \/ Record(c) \/ Crash(c)

Next == Tick \/ \E c \in Client : Step(c)

Spec == Init /\ [][Next]_vars

-----------------------------------------------------------------------------
(* Properties.                                                             *)

\* However many processes crawl, and however late they wake, the site gets no
\* more requests than one per spacing since the beginning (site_limiter.py:
\* "Shared request scheduling across browsers, Celery workers and backfill").
RateBounded == Spacing * (sent - 1) <= now

\* While the site is paused, no slot is handed out: a pause cannot come between
\* the look at it and the slot (FOR UPDATE in acquire).
NoSlotInPause ==
  [][\A c \in Client : pc[c] = "reserve" /\ pc'[c] = "sleep" => paused <= now]_vars

\* A pause does not recall the slots that are already out, but what comes
\* through is one request of each client, for a retry asks again.
OneStray == paused > now => \A c \in Client : stray[c] <= 1

\* All that SiteLimiter promises the site: the spacing, no slot in a pause, and
\* one stray request of a client at most.
SiteIsSpared == [](RateBounded /\ OneStray) /\ NoSlotInPause
=============================================================================
