------------------------------ MODULE MCCrawlers ------------------------------
(* Instances of Crawlers for TLC.                                            *)
EXTENDS Crawlers, MCBackfill

CONSTANTS d1, d2

\* Two posts, one of which has a saved record with a date.
SavedDates == [p \in 1..2 |-> IF p = 1 THEN d1 ELSE NoDate]

\* Five posts, of which four are listed; the second has neither an id nor a url,
\* and the fourth no id.
ListPosts == {u1, u2, u3, u4, u5}
MatchingPosts == ListPosts \ {u2}
UnnamedPosts == {u2, u4}
UnaddressedPosts == {u2}
ListFeeds == {<<u1, u2, u3, u4>>}
=============================================================================
