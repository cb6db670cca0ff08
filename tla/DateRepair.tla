----------------------------- MODULE DateRepair -----------------------------
(***************************************************************************)
(* The repair of missing publication dates (crawler/date_repair.py), while *)
(* crawls store the same posts.  A date comes from the record that the     *)
(* listing saved, or from the detail API of the site; runs of the repair   *)
(* exclude one another and the backfill by an advisory lock, but not the   *)
(* crawls of single posts.  A failed transaction ends a run like a crash.  *)
(*                                                                         *)
(* Operators named Mut_... are mistakes a developer could make in the      *)
(* definition that follows them; the specification does not use them.      *)
(***************************************************************************)
EXTENDS Integers, FiniteSets, FiniteSetsExt

CONSTANTS
  Post,      \* ids, in the order in which they are repaired
  Date, None,
  Saved,     \* of a post: the date in its saved record, or None
  MaxRequests, MaxRuns \* of a run; bound of the model

VARIABLES
  posted,       \* posts.posted_at
  unavailable,  \* crawl_date_unavailable
  evidence,     \* crawl_date_repairs: the date it proves
  pc, rest,     \* the run: its place, the posts still to look at
  at, found,    \* the post, the date found for it
  fetches, applies, \* its flags
  requests, status,
  runs,
  asked         \* history: requests for posts that were known to be unavailable

table == <<posted, unavailable, evidence>>
flags == <<fetches, applies>>
vars  == <<table, pc, rest, at, found, flags, requests, status, runs, asked>>

Status == {"complete", "partial", "stopped"}

TypeOK ==
  /\ posted \in [Post -> Date \cup {None}] /\ unavailable \subseteq Post
  /\ evidence \in [Post -> Date \cup {None}]
  /\ pc \in {"idle", "next", "request", "store", "report"} /\ rest \subseteq Post
  /\ at \in Post \cup {None} /\ found \in Date \cup {None}
  /\ fetches \in BOOLEAN /\ applies \in BOOLEAN
  /\ requests \in 0..MaxRequests /\ status \in Status /\ runs \in 0..MaxRuns
  /\ asked \in BOOLEAN

Init ==
  /\ posted \in [Post -> Date \cup {None}] /\ unavailable = {}
  /\ evidence = [p \in Post |-> None]
  /\ pc = "idle" /\ rest = {} /\ at = None /\ found = None
  /\ fetches = FALSE /\ applies = FALSE
  /\ requests = 0 /\ status = "complete" /\ runs = 0 /\ asked = FALSE

\* A crawl stores the post again, with or without a date: COALESCE.
Mut_Coalesce(p, d) == IF d = None THEN posted[p] ELSE d
Coalesce(p, d) == IF posted[p] = None THEN d ELSE posted[p]

Crawl(p, d) ==
  /\ posted' = [posted EXCEPT ![p] = Coalesce(p, d)]
  /\ UNCHANGED <<unavailable, evidence, pc, rest, at, found, flags, requests, status, runs, asked>>

Mut_Missing == {p \in Post : posted[p] = None}
\* Known to be unavailable: not asked for again.
Missing == {p \in Post : posted[p] = None /\ p \notin unavailable}

\* Fetching needs --apply.
Start(f, a) ==
  /\ pc = "idle" /\ (f => a) /\ runs < MaxRuns /\ runs' = runs + 1
  /\ pc' = "next" /\ rest' = Missing /\ fetches' = f /\ applies' = a
  /\ requests' = 0 /\ status' = "complete"
  /\ UNCHANGED <<table, at, found, asked>>

Mut_Affordable == fetches /\ requests <= MaxRequests
Affordable == fetches /\ requests < MaxRequests

\* The next post, the date of its record; without one, a request, while there
\* are any left and if the post's url names an endpoint.
Take ==
  /\ pc = "next" /\ rest # {} /\ at' = Min(rest) /\ rest' = rest \ {at'}
  /\ found' = Saved[at']
  /\ pc' \in IF found' = None /\ Affordable THEN {"request", "next"}
             ELSE IF found' # None /\ applies THEN {"store"} ELSE {"next"}
  /\ UNCHANGED <<table, flags, requests, status, runs, asked>>

\* A date; none; the post is hidden or gone; or an answer that stops the run,
\* such as one for another post.
Request ==
  /\ pc = "request" /\ requests' = requests + 1 /\ asked' = (asked \/ at \in unavailable)
  /\ \/ \E d \in Date : found' = d /\ pc' = "store" /\ UNCHANGED <<unavailable, status>>
     \/ pc' = "next" /\ UNCHANGED <<unavailable, found, status>>
     \/ pc' = "next" /\ unavailable' = unavailable \cup {at} /\ UNCHANGED <<found, status>>
     \/ pc' = "report" /\ status' = "stopped" /\ UNCHANGED <<unavailable, found>>
  /\ UNCHANGED <<posted, evidence, rest, at, flags, runs>>

Mut_Changes == TRUE
\* UPDATE ... WHERE posted_at IS NULL RETURNING: a crawl may have been first.
Changes == posted[at] = None

\* Date and evidence in one transaction.
Store ==
  /\ pc = "store" /\ pc' = "next"
  /\ posted' = [posted EXCEPT ![at] = IF Changes THEN found ELSE @]
  /\ evidence' = [evidence EXCEPT ![at] = IF Changes THEN found ELSE @]
  /\ UNCHANGED <<unavailable, rest, at, found, flags, requests, status, runs, asked>>

Mut_Left == {p \in rest : posted[p] = None}
\* Counted at the end.
Left == {p \in Post : posted[p] = None}

Report ==
  /\ (pc = "next" /\ rest = {}) \/ pc = "report"
  /\ status' = (IF status = "complete" /\ Left # {} THEN "partial" ELSE status)
  /\ pc' = "idle" /\ rest' = {} /\ at' = None /\ found' = None
  /\ UNCHANGED <<table, flags, requests, runs, asked>>

Crash ==
  /\ pc # "idle" /\ pc' = "idle" /\ rest' = {} /\ at' = None /\ found' = None /\ status' = "stopped"
  /\ UNCHANGED <<table, flags, requests, runs, asked>>

Next ==
  \/ Take \/ Request \/ Store \/ Report \/ Crash
  \/ \E f, a \in BOOLEAN : Start(f, a)
  \/ \E p \in Post, d \in Date \cup {None} : Crawl(p, d)

Spec == Init /\ [][Next]_vars

-----------------------------------------------------------------------------
(* Properties.                                                             *)

\* A date that a post has is never changed, by a crawl or by a repair that
\* found the post without one long before (docs/crawl-date-pagination.md:36:
\* only posted_at IS NULL is filled).
DatesAreKept == [][\A p \in Post : posted[p] # None => posted'[p] = posted[p]]_vars

\* The evidence that is stored is that of the date the post has, although a
\* crawl may store the post between the request and the repair.
EvidenceOfDate == \A p \in Post : evidence[p] # None => evidence[p] = posted[p]

\* Posts that are known to be unavailable are left in peace by later runs.
NotAskedAgain == ~asked

\* A run that reports "complete" leaves no post without a date, also of those
\* it did not look at.
CompleteIsComplete ==
  [][pc # "idle" /\ pc' = "idle" /\ status' = "complete" => \A p \in Post : posted[p] # None]_vars

\* All that repair_dates promises: dates are kept, evidence and report are
\* true, and nobody asks for what is known to be gone.
RepairIsHonest == [](EvidenceOfDate /\ NotAskedAgain) /\ DatesAreKept /\ CompleteIsComplete
=============================================================================
