------------------------------- MODULE Listing -------------------------------
(***************************************************************************)
(* The crawls of a listing that are not the backfill: the export of the    *)
(* job list (crawler/job_list_crawler.py), the manual crawl of the tab     *)
(* with details (crawler/tab_crawler.py) and the discovery of URLs         *)
(* (crawler/discover.py).  The listing moves while its pages are read:     *)
(* posts are published at its front and withdrawn anywhere.  The site may  *)
(* repeat its last accessible page for every page behind it.               *)
(*                                                                         *)
(* Operators named Mut_... are mistakes a developer could make in the      *)
(* definition that follows them; the specification does not use them.      *)
(***************************************************************************)
EXTENDS Integers, Sequences, FiniteSets, SequencesExt, FiniteSetsExt

CONSTANTS
  Post,
  Matching,      \* posts with a url, a title and a text, within the dates asked for
  Unnamed,       \* posts whose record has no id: the tab gives them all the identity ""
  Unaddressed,   \* of these, the posts without a url
  Initial,       \* listings to begin with
  PageSize, Accessible, \* of the site: posts on a page, pages it serves
  Pages, Details, \* budgets of a crawl
  MaxEdits       \* bound of the model

VARIABLES
  feed,
  kind, saves, incremental, \* the crawl and its options
  pc, page,
  seen,          \* identities met
  prints,        \* fingerprints of pages: the sets of their posts
  streak,        \* pages in a row without a new post
  work,          \* the records of the tab whose details are to be fetched
  out,           \* the lines of the output
  stop,          \* the reason in the trailer
  stored,        \* posts with a row
  edits,
  steady         \* history: what an export that says "complete" must have

feedvars == <<feed, edits, steady>>
options  == <<kind, saves, incremental>>
scan     == <<page, seen, prints, streak>>
vars     == <<feedvars, options, pc, scan, work, out, stop, stored>>

Reason == {"none", "empty_page", "pagination_repeated", "page_budget", "stopped", "no_news"}

TypeOK ==
  /\ feed \in Seq(Post) /\ edits \in 0..MaxEdits /\ steady \subseteq Post
  /\ kind \in {"job", "tab", "discover"} /\ saves \in BOOLEAN /\ incremental \in BOOLEAN
  /\ pc \in {"page", "detail", "write", "end"} /\ page \in 1..(Pages + 1)
  /\ seen \subseteq Post /\ prints \subseteq SUBSET Post /\ streak \in 0..2
  /\ work \in Seq(Post) /\ out \in Seq(Post) /\ Len(out) <= Cardinality(Post)
  /\ stop \in Reason /\ stored \subseteq Post

Init ==
  /\ feed \in Initial /\ edits = 0
  /\ kind \in {"job", "tab", "discover"} /\ saves \in {FALSE, kind = "tab"}
  /\ incremental \in {FALSE, kind = "tab"} /\ stored \in SUBSET (ToSet(feed) \ Unaddressed)
  /\ steady = (IF kind = "job" THEN ToSet(feed) ELSE {})
  /\ pc = "page" /\ page = 1 /\ seen = {} /\ prints = {} /\ streak = 0
  /\ work = << >> /\ out = << >> /\ stop = "none"

\* What of a sequence is in a set, in its order.
Among(seq, set) ==
  LET places == {i \in DOMAIN seq : seq[i] \in set}
      Place(k) == CHOOSE i \in places : Cardinality({j \in places : j < i}) = k - 1
  IN [k \in 1..Cardinality(places) |-> seq[Place(k)]]

-----------------------------------------------------------------------------
(* The site and the other crawls.                                          *)

Publish(p) ==
  /\ edits < MaxEdits /\ edits' = edits + 1 /\ p \notin ToSet(feed) /\ feed' = <<p>> \o feed
  /\ UNCHANGED <<steady, options, pc, scan, work, out, stop, stored>>

\* How many posts of the listing are in front of what an export reads next.
Above == (IF page > Accessible THEN Accessible ELSE page - 1) * PageSize

\* The post that moves there, unread, when post i is withdrawn.
Slipping(i) ==
  {p \in Post \ seen : i <= Above /\ Above < Len(feed) /\ p = feed[Above + 1]}

Withdraw ==
  /\ edits < MaxEdits /\ edits' = edits + 1
  /\ \E i \in DOMAIN feed :
       feed' = RemoveAt(feed, i) /\ steady' = steady \ ({feed[i]} \cup Slipping(i))
  /\ UNCHANGED <<options, pc, scan, work, out, stop, stored>>

CrawlOther(p) ==
  /\ kind = "tab" /\ p \notin Unaddressed /\ stored' = stored \cup {p}
  /\ UNCHANGED <<feedvars, options, pc, scan, work, out, stop>>

Served(n) == SubSeq(feed, (n - 1) * PageSize + 1, IF n * PageSize < Len(feed) THEN n * PageSize ELSE Len(feed))
\* Behind the accessible pages, the last of them, if there is anything behind it.
Records == IF page > Accessible /\ Len(feed) > Accessible * PageSize
           THEN Served(Accessible) ELSE Served(page)

End(r) == pc' = "end" /\ stop' = r

-----------------------------------------------------------------------------
(* Pages.                                                                  *)

\* A request fails, the site blocks, the user interrupts: the trailer says so.
Fail ==
  /\ pc \in {"page", "detail"} /\ End("stopped")
  /\ UNCHANGED <<feedvars, options, scan, work, out, stored>>

Mut_Fresh(p) == p \in Matching
\* A line of the export.
Fresh(p) == p \notin seen /\ p \in Matching

Mut_Empty == Records = << >> \/ \A i \in DOMAIN Records : ~Fresh(Records[i])
\* Only an empty page is the end; one whose posts were all filtered is not.
Empty == Records = << >>

Repeated == Records # << >> /\ ToSet(Records) \in prints

\* A page with a post without a url has no fingerprint.
Fingerprint == IF ToSet(Records) \cap Unaddressed = {} THEN {ToSet(Records)} ELSE {}

JobPage ==
  /\ kind = "job" /\ pc = "page" /\ page <= Pages
  /\ \/ Empty /\ End("empty_page") /\ UNCHANGED <<scan, out>>
     \/ ~Empty /\ Repeated /\ End("pagination_repeated") /\ UNCHANGED <<scan, out>>
     \/ /\ ~Empty /\ ~Repeated /\ page' = page + 1 /\ prints' = prints \cup Fingerprint
        /\ out' = out \o Among(Records, {p \in Post : Fresh(p)})
        /\ seen' = seen \cup (ToSet(Records) \cap Matching)
        /\ UNCHANGED <<pc, stop, streak>>
  /\ UNCHANGED <<feedvars, options, work, stored>>

Links == ToSet(Records) \ Unaddressed

\* Repeated pages end it with an error; empty ones do not end it.
DiscoverPage ==
  /\ kind = "discover" /\ pc = "page" /\ page <= Pages
  /\ \/ Links \in prints /\ End("pagination_repeated") /\ UNCHANGED <<scan, out>>
     \/ /\ Links \notin prints /\ page' = page + 1 /\ prints' = (prints \cup {Links}) \ {{}}
        /\ out' = out \o Among(Records, Links \ seen)
        /\ seen' = seen \cup Links /\ UNCHANGED <<pc, stop, streak>>
  /\ UNCHANGED <<feedvars, options, work, stored>>

Budget ==
  /\ kind # "tab" /\ pc = "page" /\ page > Pages /\ End("page_budget")
  /\ UNCHANGED <<feedvars, options, scan, work, out, stored>>

\* The posts with the identity of p: the tab takes the first of them.
Alike(p) == IF p \in Unnamed THEN Unnamed ELSE {p}

Unmet ==
  {p \in Post \ seen : \E i \in DOMAIN Records :
     Records[i] = p /\ Alike(p) \cap (seen \cup {Records[j] : j \in 1..(i - 1)}) = {}}

\* Posts with a row are left out if asked; two pages without news end it.
TabPage ==
  /\ kind = "tab" /\ pc = "page" /\ page <= Pages /\ Records # << >>
  /\ LET new == Among(Records, {p \in Unmet : ~(incremental /\ p \in stored)})
     IN /\ work' = work \o new /\ streak' = (IF new = << >> THEN streak + 1 ELSE 0)
        /\ pc' = (IF streak' = 2 THEN "detail" ELSE "page")
  /\ page' = page + 1 /\ seen' = seen \cup ToSet(Records)
  /\ UNCHANGED <<feedvars, options, prints, out, stop, stored>>

TabListed ==
  /\ kind = "tab" /\ pc = "page" /\ (page > Pages \/ Records = << >>) /\ pc' = "detail"
  /\ UNCHANGED <<feedvars, options, scan, work, out, stop, stored>>

-----------------------------------------------------------------------------
(* Details of the tab.                                                     *)

Done == Len(out) >= Details \/ work = << >>

Mut_Persists(p) == FALSE
\* A post without a url is not stored, and its line is written all the same.
Persists(p) == saves /\ p \notin Unaddressed

\* The detail is fetched, and the row is inserted unless the post has one; the
\* line is written behind it ...
TabDetail ==
  /\ pc = "detail" /\ ~Done /\ pc' = "write"
  /\ stored' = IF Persists(Head(work)) THEN stored \cup {Head(work)} ELSE stored
  /\ UNCHANGED <<feedvars, options, scan, work, out, stop>>

\* ... unless another crawl inserted it in between: an error.
TabWrite ==
  /\ pc = "write" /\ pc' = "detail" /\ out' = Append(out, Head(work)) /\ work' = Tail(work)
  /\ UNCHANGED <<feedvars, options, scan, stop, stored>>

TabEnd ==
  /\ pc = "detail" /\ Done /\ End("no_news")
  /\ UNCHANGED <<feedvars, options, scan, work, out, stored>>

Next ==
  \/ Fail \/ JobPage \/ DiscoverPage \/ Budget
  \/ TabPage \/ TabListed \/ TabDetail \/ TabWrite \/ TabEnd
  \/ Withdraw \/ \E p \in Post : Publish(p) \/ CrawlOther(p)

Spec == Init /\ [][Next]_vars

-----------------------------------------------------------------------------
(* Properties.                                                             *)

\* An export that says "complete" has every matching post that was listed all
\* the time: posts that are published or withdrawn meanwhile, pages without a
\* match and a site that repeats its last page do not deceive it, but for a post
\* that a withdrawal moves, unread, in front of the page that is read next
\* (docs/crawl-date-pagination.md:26).
CompleteExport ==
  kind = "job" /\ stop = "empty_page" => steady \cap Matching \subseteq ToSet(out)

\* No post is exported twice, although the listing moves under its pages.
NoneTwice == IsInjective(out)

\* What the output of a saving crawl shows is stored, if it has a url.
WrittenIsStored == saves => ToSet(out) \ Unaddressed \subseteq stored

\* All that the listing crawls promise of their output (crawl_job_list,
\* crawl_tab, discover_from_listing): complete when they say so, without
\* repetition, and stored.
ExportIsFaithful == CompleteExport /\ NoneTwice /\ WrittenIsStored
=============================================================================
