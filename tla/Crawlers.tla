------------------------------ MODULE Crawlers ------------------------------
(***************************************************************************)
(* What asks the site: the backfill (Backfill), the slots and pauses of    *)
(* the site (Site), the repair of dates (DateRepair), the other crawls of  *)
(* a listing (Listing).  The parts share no state: the one that is chosen  *)
(* at the beginning moves, the others rest.                                *)
(***************************************************************************)
EXTENDS Backfill

CONSTANTS
  Client, NoClient, Spacing, Jitter, Pause, Attempts, MaxTime, MaxBlocks, \* Site
  DatedPost, Date, NoDate, Saved, MaxRequests, MaxRuns,                   \* DateRepair
  ListPost, Matching, Unnamed, Unaddressed, Initial, ListPageSize, Accessible, ListPages, Details, MaxEdits \* Listing

ASSUME SiteAssumption ==
  /\ IsFiniteSet(Client) /\ NoClient \notin Client /\ Jitter \subseteq Nat
  /\ Spacing \in Nat /\ Pause \in Nat /\ MaxTime \in Nat /\ MaxBlocks \in Nat
  /\ Attempts \in Nat \ {0}

\* Ids are numbers; no date is not a date.
ASSUME DateRepairAssumption ==
  /\ DatedPost \subseteq Nat /\ NoDate \notin Date /\ Saved \in [DatedPost -> Date \cup {NoDate}]
  /\ MaxRequests \in Nat /\ MaxRuns \in Nat

\* A listing shows a post once.
ASSUME ListingAssumption ==
  /\ IsFiniteSet(ListPost) /\ Matching \subseteq ListPost
  /\ Unaddressed \subseteq Unnamed /\ Unnamed \subseteq ListPost /\ Matching \cap Unaddressed = {}
  /\ Initial \subseteq {f \in Seq(ListPost) : IsInjective(f)}
  /\ ListPageSize \in Nat \ {0} /\ Accessible \in Nat \ {0} /\ ListPages \in Nat /\ Details \in Nat
  /\ MaxEdits \in Nat

VARIABLES
  turn,
  site_now, site_next, site_paused, site_lock, site_pc, site_began, site_wake,
  site_attempt, site_sent, site_blocks, site_stray,
  date_posted, date_unavailable, date_evidence, date_pc, date_rest, date_at,
  date_found, date_fetches, date_applies, date_requests, date_status,
  date_runs, date_asked,
  list_feed, list_kind, list_saves, list_incremental, list_pc, list_page,
  list_seen, list_prints, list_streak, list_work, list_out, list_stop,
  list_stored, list_edits, list_steady

S == INSTANCE Site WITH
  now <- site_now, next <- site_next, paused <- site_paused, lock <-
  site_lock, pc <- site_pc, began <- site_began, wake <- site_wake, attempt <-
  site_attempt, sent <- site_sent, blocks <- site_blocks, stray <- site_stray,
  None <- NoClient

R == INSTANCE DateRepair WITH
  posted <- date_posted, unavailable <- date_unavailable, evidence <-
  date_evidence, pc <- date_pc, rest <- date_rest, at <- date_at, found <-
  date_found, fetches <- date_fetches, applies <- date_applies, requests <-
  date_requests, status <- date_status, runs <- date_runs, asked <- date_asked,
  Post <- DatedPost, None <- NoDate

I == INSTANCE Listing WITH
  feed <- list_feed, kind <- list_kind, saves <- list_saves, incremental <-
  list_incremental, pc <- list_pc, page <- list_page, seen <- list_seen,
  prints <- list_prints, streak <- list_streak, work <- list_work, out <-
  list_out, stop <- list_stop, stored <- list_stored, edits <- list_edits,
  steady <- list_steady,
  Post <- ListPost, PageSize <- ListPageSize, Pages <- ListPages

siteVars == <<site_now, site_next, site_paused, site_lock, site_pc,
              site_began, site_wake, site_attempt, site_sent, site_blocks,
              site_stray>>
dateVars == <<date_posted, date_unavailable, date_evidence, date_pc,
              date_rest, date_at, date_found, date_fetches, date_applies,
              date_requests, date_status, date_runs, date_asked>>
listVars == <<list_feed, list_kind, list_saves, list_incremental, list_pc,
              list_page, list_seen, list_prints, list_streak, list_work,
              list_out, list_stop, list_stored, list_edits, list_steady>>

others == <<siteVars, dateVars, listVars>>

\* A part that rests starts in one of its initial states.
CrawlersInit ==
  /\ turn \in {"backfill", "site", "dates", "listing"}
  /\ Init /\ S!Init /\ R!Init /\ I!Init
  /\ turn = "backfill" \/ posts = CHOOSE p \in InitialPosts : TRUE
  /\ turn = "dates" \/ date_posted = [p \in DatedPost |-> NoDate]
  /\ turn = "listing" \/ (list_kind = "job" /\ list_stored = {})

CrawlersNext ==
  /\ UNCHANGED turn
  /\ \/ turn = "backfill" /\ Next /\ UNCHANGED others
     \/ turn = "site" /\ S!Next /\ UNCHANGED <<vars, dateVars, listVars>>
     \/ turn = "dates" /\ R!Next /\ UNCHANGED <<vars, siteVars, listVars>>
     \/ turn = "listing" /\ I!Next /\ UNCHANGED <<vars, siteVars, dateVars>>
     \/ turn # "backfill" /\ UNCHANGED <<vars, others>>

CrawlersSpec == CrawlersInit /\ [][CrawlersNext]_<<turn, vars, others>>

-----------------------------------------------------------------------------
(* The properties of the parts.                                            *)

\* The types of the parts.
CrawlersTypeOK == TypeOK /\ S!TypeOK /\ R!TypeOK /\ I!TypeOK

\* Site: the spacing and the pauses of the site are kept by all clients
\* together (SiteLimiter.acquire, NowcoderFetcher.fetch).
SiteIsSpared == S!SiteIsSpared

\* DateRepair: dates are kept, evidence and report are true (repair_dates).
RepairIsHonest == R!RepairIsHonest

\* Listing: outputs are complete when they say so, without repetition, and
\* stored (crawl_job_list, crawl_tab, discover_from_listing).
ExportIsFaithful == I!ExportIsFaithful
=============================================================================
