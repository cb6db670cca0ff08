----------------------------- MODULE MCBackfill -----------------------------
(* Instances of Backfill for TLC.                                          *)
EXTENDS Backfill

CONSTANTS s1, s2, u1, u2, u3, u4, u5, u6, u7, u8, p1, p2

Ordinary(s) == [source |-> s, resume |-> FALSE, retry |-> FALSE, drain |-> FALSE,
                limited |-> TRUE, continuous |-> FALSE]
Resuming(s) == [Ordinary(s) EXCEPT !.resume = TRUE]
Retrying(s) == [Resuming(s) EXCEPT !.retry = TRUE]
Draining(s) == [Ordinary(s) EXCEPT !.drain = TRUE, !.continuous = TRUE]
Continuous(s) == [Ordinary(s) EXCEPT !.continuous = TRUE]
Unlimited(s) == [Continuous(s) EXCEPT !.limited = FALSE]
OfDailyJob(s) == [Ordinary(s) EXCEPT !.limited = FALSE]

\* Two partitions that list two posts; the second is on both of them.
TwoSources == {s1, s2}
TwoProcs == {p1, p2}
TwoUrls == {u1, u2}
TwoFeeds == [s \in TwoSources |-> IF s = s1 THEN <<u1, u2>> ELSE <<u2>>]
NothingStored == {{}}

\* Every way to start a batch; two processes choose among them again and again.
MixedJobs == {Ordinary(s1), Retrying(s1), Draining(s1), Unlimited(s2)}

\* One partition with one page more than a batch can list.
OneSource == {s1}
OneProc == {p1}
EightUrls == {u1, u2, u3, u4, u5, u6, u7, u8}
LongFeed == [s \in OneSource |-> <<u1, u2, u3, u4, u5, u6, u7>>]
OneMissing == {EightUrls \ {u, u8} : u \in {u2, u6, u7}}
ScanJobs == {Resuming(s1)}

\* The daily job, and an operator who may resume a paused listing, or not.
DailyJobs == {OfDailyJob(s1), Resuming(s1)}

\* Two pages, all stored but the last post and one that may be published.
FourUrls == {u1, u2, u3, u4}
ShortFeed == [s \in OneSource |-> <<u1, u2, u3>>]
LastMissing == {{u1, u2}}
=============================================================================
