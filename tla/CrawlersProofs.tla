--------------------------- MODULE CrawlersProofs ---------------------------
(* What TLAPS proves about what asks the site, for every value of the       *)
(* constants: the slots and pauses of the site (S), the repair of dates     *)
(* (R), the other crawls of a listing (I), and the parts together.          *)
EXTENDS Crawlers, BackfillProofs

-----------------------------------------------------------------------------
(* Site, for any finite number of clients, any spacing, jitter, pause and   *)
(* number of attempts.                                                      *)

\* Who is about to take a slot holds the row, and saw no pause.
LockInv ==
  \A c \in Client : /\ site_began[c] <= site_now
                    /\ site_pc[c] = "reserve" => site_lock = c /\ site_paused <= site_began[c]

\* In a pause, who has sent a request has no further slot.
StrayInv ==
  site_paused > site_now =>
    \A c \in Client : site_stray[c] <= 1 /\ (site_stray[c] = 1 => site_pc[c] \notin {"reserve", "sleep"})

Sleepers == {c \in Client : site_pc[c] = "sleep"}
Due(t)   == {c \in Client : site_pc[c] = "sleep" /\ site_wake[c] <= t}

\* Every slot that is used or waited for lies before the next one ...
SlotInv == Spacing * (site_sent + Cardinality(Sleepers)) <= site_next

\* ... and those that are used by any time to come are a spacing apart.
DueInv == \A t \in Nat : t >= site_now => Spacing * (site_sent + Cardinality(Due(t)) - 1) <= t

SiteInv == S!TypeOK /\ LockInv /\ StrayInv /\ SlotInv /\ DueInv

\* Multiples of the spacing grow with their number.
LEMMA Times ==
  ASSUME NEW s \in Nat, NEW a \in Int, NEW b \in Int
  PROVE  /\ a <= b => s * a <= s * b
         /\ s * (a + 1) = s * a + s
         /\ s * a \in Int
<1>1. s * (a + 1) = s * a + s /\ s * a \in Int /\ s * b \in Int
  OBVIOUS
<1>2. ASSUME a <= b PROVE s * a <= s * b
  <2>1. b - a \in Nat
    BY <1>2
  <2>2. s * (b - a) >= 0
    BY <2>1
  <2>3. s * (b - a) = s * b - s * a
    OBVIOUS
  <2>4. QED
    BY <2>2, <2>3, <1>1
<1>3. QED
  BY <1>1, <1>2

LEMMA Cards ==
  /\ IsFiniteSet(Sleepers) /\ Cardinality(Sleepers) \in Nat
         /\ \A t \in Nat : /\ IsFiniteSet(Due(t)) /\ Cardinality(Due(t)) \in Nat
                           /\ Cardinality(Due(t)) <= Cardinality(Sleepers)
<1>1. IsFiniteSet(Sleepers) /\ Cardinality(Sleepers) \in Nat
  BY FS_Subset, FS_CardinalityType, SiteAssumption DEF Sleepers
<1>2. ASSUME NEW t \in Nat
      PROVE  /\ IsFiniteSet(Due(t)) /\ Cardinality(Due(t)) \in Nat
             /\ Cardinality(Due(t)) <= Cardinality(Sleepers)
  <2>1. Due(t) \subseteq Sleepers
    BY DEF Due, Sleepers
  <2>2. QED
    BY <1>1, <2>1, FS_Subset, FS_CardinalityType
<1>3. QED
  BY <1>1, <1>2

LEMMA InitSite == S!Init => SiteInv
<1> SUFFICES ASSUME S!Init PROVE SiteInv
  OBVIOUS
<1>1. S!TypeOK
  BY SiteAssumption DEF S!Init, S!TypeOK, S!Place
<1>2. LockInv /\ StrayInv
  BY DEF S!Init, LockInv, StrayInv
<1>3. Sleepers = {} /\ \A t \in Nat : Due(t) = {}
  BY DEF S!Init, Sleepers, Due
<1>4. Cardinality({}) = 0
  BY FS_EmptySet
<1>5. SlotInv
  <2>1. Spacing * 0 = 0
    BY SiteAssumption
  <2>2. QED
    BY <1>3, <1>4, <2>1 DEF SlotInv, S!Init
<1>6. DueInv
  <2>1. Spacing * (0 - 1) <= 0
    BY SiteAssumption
  <2>2. ASSUME NEW t \in Nat PROVE site_sent + Cardinality(Due(t)) - 1 = 0 - 1
    BY <1>3, <1>4 DEF S!Init
  <2>3. QED
    BY <2>1, <2>2, SiteAssumption DEF DueInv, S!Init
<1>7. QED
  BY <1>1, <1>2, <1>5, <1>6 DEF SiteInv

\* A step that hands out no slot and sends nothing.
LEMMA SlotsKept ==
  ASSUME S!TypeOK, SlotInv, DueInv, site_sent' = site_sent, site_next' = site_next,
         site_now' \in Nat, site_now' >= site_now,
         \A c \in Client : site_pc'[c] = "sleep" => site_pc[c] = "sleep" /\ site_wake'[c] = site_wake[c]
  PROVE  SlotInv' /\ DueInv'
<1>1. Sleepers' \subseteq Sleepers /\ \A t \in Nat : Due(t)' \subseteq Due(t)
  BY DEF Sleepers, Due
<1>2. /\ Cardinality(Sleepers') \in Nat /\ Cardinality(Sleepers') <= Cardinality(Sleepers)
      /\ Cardinality(Sleepers) \in Nat
  BY <1>1, Cards, FS_Subset, FS_CardinalityType
<1>3. SlotInv'
  <2>1. site_sent + Cardinality(Sleepers') <= site_sent + Cardinality(Sleepers) /\ site_sent \in Nat
    BY <1>2 DEF S!TypeOK
  <2>2. Spacing * (site_sent + Cardinality(Sleepers')) <= Spacing * (site_sent + Cardinality(Sleepers))
    BY <1>2, <2>1, Times, SiteAssumption
  <2>3. /\ Spacing * (site_sent + Cardinality(Sleepers')) \in Int
        /\ Spacing * (site_sent + Cardinality(Sleepers)) \in Int /\ site_next \in Int
    BY <1>2, <2>1, Times, SiteAssumption DEF S!TypeOK
  <2>4. QED
    BY <2>2, <2>3 DEF SlotInv
<1>4. ASSUME NEW t \in Nat, t >= site_now'
      PROVE  Spacing * (site_sent' + Cardinality(Due(t)') - 1) <= t
  <2>1. t >= site_now
    BY <1>4 DEF S!TypeOK
  <2>2. Spacing * (site_sent + Cardinality(Due(t)) - 1) <= t
    BY <2>1 DEF DueInv
  <2>3. /\ Cardinality(Due(t)') \in Nat /\ Cardinality(Due(t)') <= Cardinality(Due(t))
        /\ Cardinality(Due(t)) \in Nat /\ site_sent \in Nat
    BY <1>1, Cards, FS_Subset, FS_CardinalityType DEF S!TypeOK
  <2>4. Spacing * (site_sent + Cardinality(Due(t)') - 1) <= Spacing * (site_sent + Cardinality(Due(t)) - 1)
    BY <2>3, Times, SiteAssumption
  <2>5. /\ Spacing * (site_sent + Cardinality(Due(t)') - 1) \in Int
        /\ Spacing * (site_sent + Cardinality(Due(t)) - 1) \in Int
    BY <2>3, Times, SiteAssumption
  <2>6. QED
    BY <2>2, <2>4, <2>5
<1>5. DueInv'
  BY <1>4 DEF DueInv
<1>6. QED
  BY <1>3, <1>5

\* A new slot comes after all that were handed out.
LEMMA NewSlot == ASSUME SiteInv, NEW c \in Client, S!Reserve(c) PROVE SlotInv' /\ DueInv'
<1>1. PICK j \in Jitter : site_next' = S!Slot(c) + Spacing + j
  BY DEF S!Reserve
<1>2. /\ site_pc[c] = "reserve" /\ site_pc' = [site_pc EXCEPT ![c] = "sleep"]
      /\ site_wake' = [site_wake EXCEPT ![c] = site_now + S!Slot(c) - site_began[c]]
      /\ site_sent' = site_sent /\ site_now' = site_now
  BY DEF S!Reserve, S!Goto, S!hist
<1>3. /\ S!Slot(c) \in Nat /\ S!Slot(c) >= site_next /\ site_next \in Nat /\ site_now \in Nat /\ site_began[c] \in Nat
      /\ site_began[c] <= site_now /\ j \in Nat /\ Spacing \in Nat /\ site_sent \in Nat
  BY SiteAssumption DEF SiteInv, S!TypeOK, LockInv, S!Slot, S!Later
<1>4. site_wake'[c] >= site_next /\ site_wake'[c] \in Nat
  BY <1>2, <1>3 DEF SiteInv, S!TypeOK
<1>5. Sleepers' = Sleepers \cup {c} /\ c \notin Sleepers
  BY <1>2 DEF Sleepers, SiteInv, S!TypeOK
<1>6. Cardinality(Sleepers') = Cardinality(Sleepers) + 1 /\ Cardinality(Sleepers) \in Nat
  BY <1>5, Cards, FS_AddElement
<1> DEFINE n == site_sent + Cardinality(Sleepers)
<1>7. n \in Nat /\ Spacing * n <= site_next /\ Spacing * n \in Int /\ Spacing * (n + 1) = Spacing * n + Spacing
  BY <1>3, <1>6, Times DEF SiteInv, SlotInv
<1>8. SlotInv'
  <2>1. site_sent' + Cardinality(Sleepers)' = n + 1
    BY <1>2, <1>3, <1>6
  <2>2. site_next' >= site_next + Spacing /\ site_next' \in Nat
    BY <1>1, <1>3
  <2>3. Spacing * (n + 1) <= site_next'
    BY <1>3, <1>7, <2>2
  <2>4. QED
    BY <2>1, <2>3 DEF SlotInv
<1>9. ASSUME NEW t \in Nat, t >= site_now'
      PROVE  Spacing * (site_sent' + Cardinality(Due(t)') - 1) <= t
  <2> DEFINE m == Cardinality(Due(t))
  <2>1. m \in Nat /\ m <= Cardinality(Sleepers) /\ IsFiniteSet(Due(t))
    BY Cards
  <2>2. CASE site_wake'[c] <= t
    <3>1. Due(t)' = Due(t) \cup {c} /\ c \notin Due(t)
      BY <1>2, <2>2 DEF Due, SiteInv, S!TypeOK
    <3>2. Cardinality(Due(t)') = m + 1
      BY <2>1, <3>1, FS_AddElement
    <3>3. site_sent' + Cardinality(Due(t)') - 1 = site_sent + m
      BY <1>2, <1>3, <2>1, <3>2
    <3>4. Spacing * (site_sent + m) <= Spacing * n /\ Spacing * (site_sent + m) \in Int
      <4>1. site_sent + m \in Int /\ site_sent + m <= n
        BY <1>3, <1>6, <2>1
      <4>2. QED
        BY <1>3, <1>7, <4>1, Times
    <3>5. site_next <= t
      BY <1>3, <1>4, <2>2
    <3>6. Spacing * (site_sent + m) <= t
      BY <1>3, <1>7, <3>4, <3>5
    <3>7. QED
      BY <3>3, <3>6
  <2>3. CASE ~(site_wake'[c] <= t)
    <3>1. Due(t)' = Due(t)
      BY <1>2, <2>3 DEF Due, SiteInv, S!TypeOK
    <3>2. QED
      BY <1>2, <1>9, <3>1 DEF SiteInv, DueInv
  <2>4. QED
    BY <2>2, <2>3
<1>10. DueInv'
  BY <1>9 DEF DueInv
<1>11. QED
  BY <1>8, <1>10

\* A request that is sent uses one of the slots.
LEMMA UsesSlot == ASSUME SiteInv, NEW c \in Client, S!Send(c) PROVE SlotInv' /\ DueInv'
<1>1. /\ site_pc[c] = "sleep" /\ site_pc' = [site_pc EXCEPT ![c] = "flying"] /\ site_wake' = [site_wake EXCEPT ![c] = 0]
      /\ site_now >= site_wake[c] /\ site_now' = site_now /\ site_next' = site_next /\ site_sent' = site_sent + 1
  BY DEF S!Send, S!Goto, S!row
<1>2. site_sent \in Nat /\ site_now \in Nat /\ site_wake[c] \in Nat
  BY DEF SiteInv, S!TypeOK
<1>3. SlotInv'
  <2>1. Sleepers' = Sleepers \ {c} /\ c \in Sleepers
    BY <1>1 DEF Sleepers, SiteInv, S!TypeOK
  <2>2. Cardinality(Sleepers') = Cardinality(Sleepers) - 1 /\ Cardinality(Sleepers) \in Nat
    BY <2>1, Cards, FS_RemoveElement
  <2>3. site_sent' + Cardinality(Sleepers)' = site_sent + Cardinality(Sleepers)
    BY <1>1, <1>2, <2>2
  <2>4. QED
    BY <1>1, <2>3 DEF SiteInv, SlotInv
<1>4. ASSUME NEW t \in Nat, t >= site_now'
      PROVE  Spacing * (site_sent' + Cardinality(Due(t)') - 1) <= t
  <2>1. Due(t)' = Due(t) \ {c} /\ c \in Due(t)
    BY <1>1, <1>2, <1>4 DEF Due, SiteInv, S!TypeOK
  <2>2. Cardinality(Due(t)') = Cardinality(Due(t)) - 1 /\ Cardinality(Due(t)) \in Nat
    BY <2>1, Cards, FS_RemoveElement
  <2>3. site_sent' + Cardinality(Due(t)') = site_sent + Cardinality(Due(t))
    BY <1>1, <1>2, <2>2
  <2>4. site_sent' + Cardinality(Due(t)') - 1 = site_sent + Cardinality(Due(t)) - 1
    BY <1>1, <1>2, <2>2
  <2>5. Spacing * (site_sent + Cardinality(Due(t)) - 1) <= t
    BY <1>1, <1>4 DEF SiteInv, DueInv
  <2>6. QED
    BY <2>4, <2>5
<1>5. DueInv'
  BY <1>4 DEF DueInv
<1>6. QED
  BY <1>3, <1>5

\* The types, and what the row and the pauses guarantee, are kept by each step.
LEMMA SiteTypeStep == ASSUME S!TypeOK, LockInv, [S!Next]_(S!vars) PROVE S!TypeOK'
<1> USE SiteAssumption DEF S!TypeOK
<1>1. CASE S!Tick
  BY <1>1 DEF S!Tick, S!row, S!hist
<1>2. ASSUME NEW c \in Client, S!Step(c) PROVE S!TypeOK'
  <2>1. CASE S!Request(c)
    BY <2>1 DEF S!Request, S!Ask, S!Goto, S!row, S!hist, S!Place
  <2>2. CASE S!Select(c)
    BY <2>2 DEF S!Select, S!Goto, S!Held, S!hist, S!Place
  <2>3. CASE S!Reserve(c)
    <3>1. site_began[c] <= site_now /\ S!Slot(c) \in Nat /\ S!Slot(c) >= site_began[c]
      BY DEF LockInv, S!Slot, S!Later
    <3>2. QED
      BY <2>3, <3>1 DEF S!Reserve, S!Goto, S!hist, S!Place
  <2>4. CASE S!Send(c)
    BY <2>4 DEF S!Send, S!Goto, S!row, S!Place
  <2>5. CASE S!Done(c)
    BY <2>5 DEF S!Done, S!End, S!Goto, S!row, S!hist, S!Place
  <2>6. CASE S!Fail(c)
    BY <2>6 DEF S!Fail, S!Again, S!Retry, S!Ask, S!Goto, S!row, S!hist, S!Place
  <2>7. CASE S!Blocked(c)
    BY <2>7 DEF S!Blocked, S!Goto, S!row, S!Place
  <2>8. CASE S!Refused(c)
    BY <2>8 DEF S!Refused, S!End, S!Goto, S!row, S!hist, S!Place
  <2>9. CASE S!Record(c)
    BY <2>9 DEF S!Record, S!End, S!Goto, S!Place
  <2>10. CASE S!Crash(c)
    BY <2>10 DEF S!Crash, S!End, S!Goto, S!hist, S!Place
  <2>11. QED
    BY <1>2, <2>1, <2>2, <2>3, <2>4, <2>5, <2>6, <2>7, <2>8, <2>9, <2>10 DEF S!Step
<1>3. CASE UNCHANGED S!vars
  BY <1>3 DEF S!vars, S!row, S!hist
<1>4. QED
  BY <1>1, <1>2, <1>3 DEF S!Next

LEMMA LockStep == ASSUME S!TypeOK, LockInv, [S!Next]_(S!vars) PROVE LockInv'
<1> USE SiteAssumption DEF S!TypeOK, LockInv
<1>1. CASE S!Tick
  BY <1>1 DEF S!Tick, S!row, S!hist
<1>2. ASSUME NEW c \in Client, S!Step(c) PROVE LockInv'
  <2>1. CASE S!Request(c)
    BY <2>1 DEF S!Request, S!Ask, S!Goto, S!row
  <2>2. CASE S!Select(c)
    BY <2>2 DEF S!Select, S!Goto, S!Held
  <2>3. CASE S!Reserve(c)
    BY <2>3 DEF S!Reserve, S!Goto
  <2>4. CASE S!Send(c)
    BY <2>4 DEF S!Send, S!Goto, S!row
  <2>5. CASE S!Done(c)
    BY <2>5 DEF S!Done, S!End, S!Goto, S!row
  <2>6. CASE S!Fail(c)
    BY <2>6 DEF S!Fail, S!Retry, S!Ask, S!Goto, S!row
  <2>7. CASE S!Blocked(c)
    BY <2>7 DEF S!Blocked, S!Goto, S!row
  <2>8. CASE S!Refused(c)
    BY <2>8 DEF S!Refused, S!End, S!Goto, S!row
  <2>9. CASE S!Record(c)
    BY <2>9 DEF S!Record, S!End, S!Goto
  <2>10. CASE S!Crash(c)
    BY <2>10 DEF S!Crash, S!End, S!Goto
  <2>11. QED
    BY <1>2, <2>1, <2>2, <2>3, <2>4, <2>5, <2>6, <2>7, <2>8, <2>9, <2>10 DEF S!Step
<1>3. CASE UNCHANGED S!vars
  BY <1>3 DEF S!vars, S!row
<1>4. QED
  BY <1>1, <1>2, <1>3 DEF S!Next

LEMMA StrayStep == ASSUME S!TypeOK, LockInv, StrayInv, [S!Next]_(S!vars) PROVE StrayInv'
<1> USE SiteAssumption DEF S!TypeOK, LockInv, StrayInv
<1>1. CASE S!Tick
  BY <1>1 DEF S!Tick, S!row, S!hist
<1>2. ASSUME NEW c \in Client, S!Step(c) PROVE StrayInv'
  <2>1. CASE S!Request(c)
    BY <2>1 DEF S!Request, S!Ask, S!Goto, S!row, S!hist
  <2>2. CASE S!Select(c)
    BY <2>2 DEF S!Select, S!Goto, S!hist
  <2>3. CASE S!Reserve(c)
    BY <2>3 DEF S!Reserve, S!Goto, S!hist
  <2>4. CASE S!Send(c)
    BY <2>4 DEF S!Send, S!Goto, S!row
  <2>5. CASE S!Done(c)
    BY <2>5 DEF S!Done, S!End, S!Goto, S!row, S!hist
  <2>6. CASE S!Fail(c)
    BY <2>6 DEF S!Fail, S!Retry, S!Ask, S!Goto, S!row, S!hist
  <2>7. CASE S!Blocked(c)
    BY <2>7 DEF S!Blocked, S!Goto, S!row
  <2>8. CASE S!Refused(c)
    BY <2>8 DEF S!Refused, S!End, S!Goto, S!row, S!hist
  <2>9. CASE S!Record(c)
    BY <2>9 DEF S!Record, S!End, S!Goto
  <2>10. CASE S!Crash(c)
    BY <2>10 DEF S!Crash, S!End, S!Goto, S!hist
  <2>11. QED
    BY <1>2, <2>1, <2>2, <2>3, <2>4, <2>5, <2>6, <2>7, <2>8, <2>9, <2>10 DEF S!Step
<1>3. CASE UNCHANGED S!vars
  BY <1>3 DEF S!vars, S!row, S!hist
<1>4. QED
  BY <1>1, <1>2, <1>3 DEF S!Next

\* Only Reserve and Send touch the slots.
LEMMA SlotStep == ASSUME SiteInv, S!TypeOK', [S!Next]_(S!vars) PROVE SlotInv' /\ DueInv'
<1>0. S!TypeOK /\ SlotInv /\ DueInv
  BY DEF SiteInv
<1>1. CASE S!Tick
  BY <1>0, <1>1, SlotsKept, SiteAssumption DEF S!Tick, S!row, S!hist, S!TypeOK
<1>2. ASSUME NEW c \in Client, S!Step(c), ~S!Reserve(c), ~S!Send(c) PROVE SlotInv' /\ DueInv'
  <2>1. site_sent' = site_sent /\ site_next' = site_next /\ site_now' = site_now
    BY <1>2 DEF S!Step, S!Request, S!Ask, S!Select, S!Done, S!Fail, S!Retry, S!Blocked, S!Refused, S!Record, S!Crash, S!End, S!row, S!hist
  <2>2. ASSUME NEW d \in Client, site_pc'[d] = "sleep" PROVE site_pc[d] = "sleep" /\ site_wake'[d] = site_wake[d]
    BY <1>0, <1>2, <2>2
    DEF S!Step, S!Request, S!Ask, S!Select, S!Done, S!Fail, S!Retry, S!Blocked, S!Refused, S!Record, S!Crash, S!End, S!Goto, S!TypeOK, S!row, S!hist
  <2>3. QED
    BY <1>0, <2>1, <2>2, SlotsKept DEF S!TypeOK
<1>3. CASE UNCHANGED S!vars
  BY <1>0, <1>3, SlotsKept DEF S!vars, S!row, S!hist, S!TypeOK
<1>4. QED
  BY <1>1, <1>2, <1>3, NewSlot, UsesSlot DEF S!Next

LEMMA NextSite == ASSUME SiteInv, [S!Next]_(S!vars) PROVE SiteInv'
BY SiteTypeStep, LockStep, StrayStep, SlotStep DEF SiteInv

LEMMA Spares == ASSUME SiteInv PROVE S!RateBounded /\ S!OneStray
<1>1. Spacing * (site_sent + Cardinality(Due(site_now)) - 1) <= site_now /\ site_now \in Nat /\ site_sent \in Nat
  BY DEF SiteInv, DueInv, S!TypeOK
<1>2. Cardinality(Due(site_now)) \in Nat
  BY <1>1, Cards
<1>3. /\ Spacing * (site_sent - 1) <= Spacing * (site_sent + Cardinality(Due(site_now)) - 1)
      /\ Spacing * (site_sent - 1) \in Int /\ Spacing * (site_sent + Cardinality(Due(site_now)) - 1) \in Int
  <2>1. site_sent - 1 \in Int /\ site_sent + Cardinality(Due(site_now)) - 1 \in Int
        /\ site_sent - 1 <= site_sent + Cardinality(Due(site_now)) - 1
    BY <1>1, <1>2
  <2>2. QED
    BY <2>1, Times, SiteAssumption
<1>4. S!RateBounded
  BY <1>1, <1>3 DEF S!RateBounded
<1>5. S!OneStray
  BY DEF SiteInv, StrayInv, S!OneStray
<1>6. QED
  BY <1>4, <1>5

\* A slot is taken by who holds the row, and has seen no pause in force.
LEMMA NoSlot ==
  ASSUME SiteInv, [S!Next]_(S!vars), NEW c \in Client, site_pc[c] = "reserve", site_pc'[c] = "sleep"
  PROVE  site_paused <= site_now
<1>1. site_paused <= site_began[c] /\ site_began[c] <= site_now
  BY DEF SiteInv, LockInv
<1>2. QED
  BY <1>1, SiteAssumption DEF SiteInv, S!TypeOK

\* A step of the parts together is a step of the site, or leaves it alone.
LEMMA StepOfSite ==
  ASSUME [CrawlersNext]_<<turn, vars, others>> PROVE [S!Next]_(S!vars)
  BY DEF CrawlersNext, others, siteVars, S!vars, S!row, S!hist

\* However many clients crawl, crash and retry, the site gets no more than one
\* request per spacing, no slot in a pause, and one stray request of a client
\* in any pause.
THEOREM Spared == CrawlersSpec => SiteIsSpared
<1>1. CrawlersInit => SiteInv
  BY InitSite DEF CrawlersInit
<1>2. SiteInv /\ [CrawlersNext]_<<turn, vars, others>> => SiteInv'
  BY NextSite, StepOfSite
<1>3. SiteInv => S!RateBounded /\ S!OneStray
  BY Spares
<1>4. SiteInv /\ [CrawlersNext]_<<turn, vars, others>> =>
        [\A c \in Client : site_pc[c] = "reserve" /\ site_pc'[c] = "sleep"
            => site_paused <= site_now]_(S!vars)
  BY NoSlot, StepOfSite
<1>5. QED
  BY <1>1, <1>2, <1>3, <1>4, PTL DEF CrawlersSpec, SiteIsSpared, S!SiteIsSpared, S!NoSlotInPause

-----------------------------------------------------------------------------
(* DateRepair, for any posts, dates and budgets.                            *)

\* The smallest of some numbers is one of them.
LEMMA MinIn == ASSUME NEW T, T \subseteq Nat, T # {} PROVE R!Min(T) \in T
<1>1. PICK n \in T : TRUE
  OBVIOUS
<1>2. n \in Nat /\ IsFiniteSet(0..n)
  BY <1>1, FS_Interval
<1> DEFINE Low == {k \in T : k <= n}
           U == {0..k : k \in Low}
           V == 0..n
<1>3. U \subseteq SUBSET V /\ U # {} /\ IsFiniteSet(V)
  BY <1>1, <1>2
<1>4. \E b \in U : \A y \in U : ~(y \subseteq b /\ y # b)
  <2> HIDE DEF U, V
  <2>1. QED
    BY <1>3, Smallest
<1>5. PICK m \in Low : \A k \in Low : ~(0..k \subseteq 0..m /\ 0..k # 0..m)
  <2> HIDE DEF Low
  <2>1. PICK b \in U : \A y \in U : ~(y \subseteq b /\ y # b)
    BY <1>4
  <2>2. PICK m \in Low : b = 0..m
    BY <2>1
  <2>3. \A k \in Low : 0..k \in U
    OBVIOUS
  <2>4. QED
    BY <2>1, <2>2, <2>3
<1>6. ASSUME NEW k \in T PROVE m <= k
  <2> SUFFICES ASSUME k < m PROVE FALSE
    BY <1>5
  <2>1. k \in Nat /\ m \in Nat /\ k \in Low
    BY <1>2, <1>5
  <2>2. 0..k \subseteq 0..m /\ m \in 0..m /\ m \notin 0..k
    BY <2>1
  <2>3. QED
    BY <1>5, <2>1, <2>2
<1>7. QED
  BY <1>6 DEF R!Min

\* A run asks for a post that was missing when it began: one that nobody has
\* found to be unavailable since, for a run looks at each post once, and runs
\* exclude one another.
LooksOnce ==
  /\ date_rest \cap date_unavailable = {}
  /\ date_pc \in {"request", "store"} => date_at \in DatedPost
  /\ date_pc = "request" => /\ date_at \notin date_rest /\ date_at \notin date_unavailable
                           /\ date_requests < MaxRequests
  /\ date_pc = "store" => date_found \in Date

RepairInv == R!TypeOK /\ LooksOnce /\ R!EvidenceOfDate /\ R!NotAskedAgain

LEMMA InitRepair == R!Init => RepairInv
<1> SUFFICES ASSUME R!Init PROVE RepairInv
  OBVIOUS
<1>1. R!TypeOK
  <2>1. /\ date_posted \in [DatedPost -> Date \cup {NoDate}] /\ date_unavailable \subseteq DatedPost
        /\ date_evidence \in [DatedPost -> Date \cup {NoDate}]
        /\ date_pc = "idle" /\ date_rest \subseteq DatedPost
        /\ date_at \in DatedPost \cup {NoDate} /\ date_found \in Date \cup {NoDate}
    BY DEF R!Init
  <2>2. date_requests \in 0..MaxRequests /\ date_runs \in 0..MaxRuns
    BY DateRepairAssumption DEF R!Init
  <2>3. date_fetches \in BOOLEAN /\ date_applies \in BOOLEAN /\ date_asked \in BOOLEAN
        /\ date_status \in R!Status
    BY DEF R!Init, R!Status
  <2>4. QED
    BY <2>1, <2>2, <2>3 DEF R!TypeOK
<1>2. LooksOnce /\ R!EvidenceOfDate /\ R!NotAskedAgain
  BY DEF R!Init, LooksOnce, R!EvidenceOfDate, R!NotAskedAgain
<1>3. QED
  BY <1>1, <1>2 DEF RepairInv

\* What a run takes up next.
LEMMA TakeRepairs == ASSUME RepairInv, R!Take PROVE RepairInv'
<1> USE DEF R!table, R!flags
<1>1. /\ date_pc = "next" /\ date_rest # {} /\ date_at' = R!Min(date_rest)
      /\ date_rest' = date_rest \ {date_at'} /\ date_found' = Saved[date_at']
      /\ date_pc' \in IF date_found' = NoDate /\ R!Affordable THEN {"request", "next"}
                      ELSE IF date_found' # NoDate /\ date_applies THEN {"store"} ELSE {"next"}
      /\ UNCHANGED <<R!table, R!flags, date_requests, date_status, date_runs, date_asked>>
  BY DEF R!Take
<1>2. date_rest \subseteq DatedPost /\ date_rest \subseteq Nat
  BY DateRepairAssumption DEF RepairInv, R!TypeOK
<1>3. date_at' \in date_rest /\ date_at' \in DatedPost
  BY <1>1, <1>2, MinIn
<1>4. date_found' \in Date \cup {NoDate}
  BY <1>1, <1>3, DateRepairAssumption
<1>5. R!TypeOK'
  BY <1>1, <1>2, <1>3, <1>4 DEF RepairInv, R!TypeOK
<1>6. LooksOnce'
  BY <1>1, <1>3, <1>4 DEF RepairInv, R!TypeOK, LooksOnce, R!Affordable
<1>7. QED
  BY <1>1, <1>5, <1>6 DEF RepairInv, R!EvidenceOfDate, R!NotAskedAgain

LEMMA NextRepair == ASSUME RepairInv, [R!Next]_(R!vars) PROVE RepairInv'
<1> USE DEF R!table, R!flags, R!Status
<1>0. R!TypeOK /\ LooksOnce /\ R!EvidenceOfDate /\ R!NotAskedAgain
  BY DEF RepairInv
<1>1. ASSUME R!Request PROVE RepairInv'
  <2>1. R!TypeOK'
    <3>1. /\ date_requests' = date_requests + 1 /\ date_requests < MaxRequests /\ date_at \in DatedPost
          /\ date_asked' \in BOOLEAN /\ date_found' \in Date \cup {date_found}
          /\ date_pc' \in {"store", "next", "report"} /\ date_status' \in {date_status, "stopped"}
          /\ date_unavailable' \subseteq date_unavailable \cup {date_at}
          /\ UNCHANGED <<date_posted, date_evidence, date_rest, date_at, R!flags, date_runs>>
      BY <1>0, <1>1 DEF R!Request, R!TypeOK, LooksOnce
    <3>2. date_requests' \in 0..MaxRequests
      BY <1>0, <3>1, DateRepairAssumption DEF R!TypeOK
    <3>3. QED
      BY <1>0, <3>1, <3>2 DEF R!TypeOK
  <2>2. LooksOnce'
    BY <1>0, <1>1 DEF R!Request, R!TypeOK, LooksOnce
  <2>3. R!EvidenceOfDate' /\ R!NotAskedAgain'
    BY <1>0, <1>1 DEF R!Request, LooksOnce, R!EvidenceOfDate, R!NotAskedAgain
  <2>4. QED
    BY <2>1, <2>2, <2>3 DEF RepairInv
<1>2. ASSUME R!Store PROVE RepairInv'
  <2>1. R!TypeOK' /\ LooksOnce'
    BY <1>0, <1>2 DEF R!Store, R!TypeOK, LooksOnce
  <2>2. R!EvidenceOfDate' /\ R!NotAskedAgain'
    BY <1>0, <1>2 DEF R!Store, R!Changes, R!TypeOK, LooksOnce, R!EvidenceOfDate, R!NotAskedAgain
  <2>3. QED
    BY <2>1, <2>2 DEF RepairInv
<1>3. ASSUME R!Report \/ R!Crash PROVE RepairInv'
  BY <1>0, <1>3 DEF R!Report, R!Crash, R!TypeOK, LooksOnce, R!EvidenceOfDate, R!NotAskedAgain, RepairInv
<1>4. ASSUME NEW f \in BOOLEAN, NEW a \in BOOLEAN, R!Start(f, a) PROVE RepairInv'
  <2>1. R!TypeOK'
    BY <1>0, <1>4, DateRepairAssumption DEF R!Start, R!Missing, R!TypeOK
  <2>2. LooksOnce' /\ R!EvidenceOfDate' /\ R!NotAskedAgain'
    BY <1>0, <1>4 DEF R!Start, R!Missing, LooksOnce, R!EvidenceOfDate, R!NotAskedAgain
  <2>3. QED
    BY <2>1, <2>2 DEF RepairInv
<1>5. ASSUME NEW p \in DatedPost, NEW d \in Date \cup {NoDate}, R!Crawl(p, d) PROVE RepairInv'
  <2>1. R!TypeOK' /\ LooksOnce'
    BY <1>0, <1>5 DEF R!Crawl, R!Coalesce, R!TypeOK, LooksOnce
  <2>2. R!EvidenceOfDate' /\ R!NotAskedAgain'
    BY <1>0, <1>5 DEF R!Crawl, R!Coalesce, R!TypeOK, R!EvidenceOfDate, R!NotAskedAgain
  <2>3. QED
    BY <2>1, <2>2 DEF RepairInv
<1>6. CASE UNCHANGED R!vars
  BY <1>0, <1>6 DEF R!vars, RepairInv, R!TypeOK, LooksOnce, R!EvidenceOfDate, R!NotAskedAgain
<1> QED
  BY <1>1, <1>2, <1>3, <1>4, <1>5, <1>6, TakeRepairs DEF R!Next

\* Neither a crawl nor the repair changes a date that is there.
LEMMA DatesStay ==
  ASSUME RepairInv, [R!Next]_(R!vars), NEW p \in DatedPost, date_posted[p] # NoDate
  PROVE  date_posted'[p] = date_posted[p]
<1>0. date_posted \in [DatedPost -> Date \cup {NoDate}]
  BY DEF RepairInv, R!TypeOK
<1>1. ASSUME R!Store PROVE date_posted'[p] = date_posted[p]
  BY <1>0, <1>1 DEF R!Store, R!Changes
<1>2. ASSUME NEW q \in DatedPost, NEW d \in Date \cup {NoDate}, R!Crawl(q, d)
      PROVE  date_posted'[p] = date_posted[p]
  BY <1>0, <1>2 DEF R!Crawl, R!Coalesce
<1>3. QED
  BY <1>1, <1>2 DEF R!Next, R!Take, R!Request, R!Report, R!Crash, R!Start, R!vars, R!table

\* A run only reports that it is complete when it has counted none missing.
LEMMA ReportsTruly ==
  ASSUME [R!Next]_(R!vars), date_pc # "idle", date_pc' = "idle", date_status' = "complete"
  PROVE  \A p \in DatedPost : date_posted[p] # NoDate
<1>1. ~R!Take /\ ~R!Request /\ ~R!Store /\ ~R!Crash
  BY DEF R!Take, R!Request, R!Store, R!Crash
<1>2. ASSUME NEW f \in BOOLEAN, NEW a \in BOOLEAN PROVE ~R!Start(f, a)
  BY DEF R!Start
<1>3. ASSUME NEW p \in DatedPost, NEW d \in Date \cup {NoDate} PROVE ~R!Crawl(p, d)
  BY DEF R!Crawl
<1>4. R!Report
  BY <1>1, <1>2, <1>3 DEF R!Next, R!vars
<1>5. QED
  BY <1>4 DEF R!Report, R!Left

LEMMA StepOfRepair ==
  ASSUME [CrawlersNext]_<<turn, vars, others>> PROVE [R!Next]_(R!vars)
  BY DEF CrawlersNext, others, dateVars, R!vars, R!table, R!flags

\* Dates are kept, the evidence is that of the date, unavailable posts are left
\* in peace and a complete run is complete, although crawls store the same
\* posts between the requests of a run, and runs crash.
THEOREM Honest == CrawlersSpec => RepairIsHonest
<1>1. CrawlersInit => RepairInv
  BY InitRepair DEF CrawlersInit
<1>2. RepairInv /\ [CrawlersNext]_<<turn, vars, others>> => RepairInv'
  BY NextRepair, StepOfRepair
<1>3. RepairInv => R!EvidenceOfDate /\ R!NotAskedAgain
  BY DEF RepairInv
<1>4. RepairInv /\ [CrawlersNext]_<<turn, vars, others>> =>
        [\A p \in DatedPost : date_posted[p] # NoDate => date_posted'[p] = date_posted[p]]_(R!vars)
  BY DatesStay, StepOfRepair
<1>5. [CrawlersNext]_<<turn, vars, others>> =>
        [date_pc # "idle" /\ date_pc' = "idle" /\ date_status' = "complete"
           => \A p \in DatedPost : date_posted[p] # NoDate]_(R!vars)
  BY ReportsTruly, StepOfRepair
<1>6. QED
  BY <1>1, <1>2, <1>3, <1>4, <1>5, PTL
     DEF CrawlersSpec, RepairIsHonest, R!RepairIsHonest, R!DatesAreKept, R!CompleteIsComplete

-----------------------------------------------------------------------------
(* Listing, for any listings, pages and budgets.                            *)

\* The parts count like everybody.
LEMMA SameCardinality == \A X : I!Cardinality(X) = Cardinality(X)
  BY DEF I!Cardinality, Cardinality

\* The places in q of members of set, and how many of them precede i.
PlacesOf(q, set) == {i \in DOMAIN q : q[i] \in set}
Before(P, i) == {j \in P : j < i}

\* Numbers are ranked by how many precede them.
LEMMA Ranks ==
  ASSUME NEW P, IsFiniteSet(P), P \subseteq Nat
  PROVE  /\ Cardinality(P) \in Nat
         /\ \A i, k \in P : i # k => Cardinality(Before(P, i)) # Cardinality(Before(P, k))
         /\ \A i \in P : Cardinality(Before(P, i)) \in Nat /\ Cardinality(Before(P, i)) < Cardinality(P)
         /\ \A k \in 1..Cardinality(P) : \E i \in P : Cardinality(Before(P, i)) = k - 1
<1> DEFINE Less == {e \in P \X P : e[1] < e[2]}
<1>1. Orders(Less, P)
  <2>1. \A i \in P : i \in Nat
    OBVIOUS
  <2>2. QED
    BY <2>1 DEF Orders
<1>2. \A i \in P : Below(P, Less, i) = Before(P, i)
  BY DEF Below, Before
<1>3. \A i, k \in P : i # k => <<i, k>> \in Less \/ <<k, i>> \in Less
  BY <1>1 DEF Orders
<1> HIDE DEF Less
<1>4. /\ Cardinality(P) \in Nat
      /\ \A i \in P : Cardinality(Below(P, Less, i)) \in Nat /\ Cardinality(Below(P, Less, i)) < Cardinality(P)
      /\ \A i, k \in P : <<i, k>> \in Less => Cardinality(Below(P, Less, i)) < Cardinality(Below(P, Less, k))
      /\ \A k \in 1..Cardinality(P) : \E i \in P : Cardinality(Below(P, Less, i)) = k - 1
  BY <1>1, RankIs
<1>5. ASSUME NEW i \in P, NEW k \in P, i # k PROVE Cardinality(Below(P, Less, i)) # Cardinality(Below(P, Less, k))
  <2>1. Cardinality(Below(P, Less, i)) \in Nat /\ Cardinality(Below(P, Less, k)) \in Nat
    BY <1>4
  <2>2. <<i, k>> \in Less \/ <<k, i>> \in Less
    BY <1>3, <1>5
  <2>3. QED
    BY <1>4, <2>1, <2>2
<1>6. /\ \A i \in P : Cardinality(Before(P, i)) \in Nat /\ Cardinality(Before(P, i)) < Cardinality(P)
      /\ \A k \in 1..Cardinality(P) : \E i \in P : Cardinality(Before(P, i)) = k - 1
  BY <1>2, <1>4
<1>7. \A i, k \in P : i # k => Cardinality(Before(P, i)) # Cardinality(Before(P, k))
  BY <1>2, <1>5
<1>8. QED
  BY <1>4, <1>6, <1>7

\* What is taken from a sequence, and that nothing is taken twice.
LEMMA AmongIs ==
  ASSUME NEW T, NEW q \in Seq(T), NEW set
  PROVE  /\ I!Among(q, set) \in Seq(T) /\ I!ToSet(I!Among(q, set)) = I!ToSet(q) \cap set
         /\ I!IsInjective(q) => I!IsInjective(I!Among(q, set))
<1> DEFINE P == PlacesOf(q, set)
           N == I!Cardinality(P)
           Rank(i) == I!Cardinality(Before(P, i))
           At_(k) == CHOOSE i \in P : Rank(i) = k - 1
           r == [k \in 1..N |-> q[At_(k)]]
<1>1. I!Among(q, set) = r
  BY DEF I!Among, PlacesOf, Before
<1>2. IsFiniteSet(P) /\ P \subseteq Nat /\ \A i \in P : i \in DOMAIN q /\ q[i] \in T /\ q[i] \in set
  <2>1. DOMAIN q = 1..Len(q) /\ Len(q) \in Nat /\ \A i \in 1..Len(q) : q[i] \in T
    OBVIOUS
  <2>2. P \subseteq 1..Len(q) /\ IsFiniteSet(1..Len(q))
    BY <2>1, FS_Interval DEF PlacesOf
  <2>3. QED
    BY <2>1, <2>2, FS_Subset DEF PlacesOf
<1> HIDE DEF P
<1>3. /\ N \in Nat
      /\ \A i, k \in P : i # k => Rank(i) # Rank(k)
      /\ \A i \in P : Rank(i) \in Nat /\ Rank(i) < N
      /\ \A k \in 1..N : \E i \in P : Rank(i) = k - 1
  BY <1>2, Ranks, SameCardinality
<1> HIDE DEF N, Rank
<1>4. \A k \in 1..N : At_(k) \in P /\ Rank(At_(k)) = k - 1
  BY <1>3
<1> HIDE DEF At_
<1>5. \A i \in P : \E k \in 1..N : At_(k) = i
  <2> TAKE i \in P
  <2> DEFINE k == Rank(i) + 1
  <2>1. k \in 1..N /\ k - 1 = Rank(i)
    BY <1>3
  <2> HIDE DEF k
  <2>2. At_(k) \in P /\ Rank(At_(k)) = Rank(i)
    BY <1>4, <2>1
  <2>3. At_(k) = i
    BY <1>3, <2>2
  <2>4. QED
    BY <2>1, <2>3
<1>6. \A k, l \in 1..N : At_(k) = At_(l) => k = l
  <2> TAKE k, l \in 1..N
  <2>1. Rank(At_(k)) = k - 1 /\ Rank(At_(l)) = l - 1
    BY <1>4
  <2>2. QED
    BY <1>3, <2>1
<1>7. r \in Seq(T)
  <2>1. \A k \in 1..N : q[At_(k)] \in T
    BY <1>2, <1>4
  <2>2. r \in [1..N -> T]
    BY <2>1
  <2>3. QED
    BY <1>3, <2>2
<1>8. DOMAIN r = 1..N /\ \A k \in 1..N : r[k] = q[At_(k)]
  OBVIOUS
<1> HIDE DEF r
<1>9. I!ToSet(r) = I!ToSet(q) \cap set
  <2>1. ASSUME NEW x \in I!ToSet(r) PROVE x \in I!ToSet(q) \cap set
    <3>1. PICK k \in 1..N : x = q[At_(k)]
      BY <1>8 DEF I!ToSet
    <3>2. QED
      BY <1>2, <1>4, <3>1 DEF I!ToSet
  <2>2. ASSUME NEW x \in I!ToSet(q) \cap set PROVE x \in I!ToSet(r)
    <3>1. PICK i \in P : x = q[i]
      BY DEF I!ToSet, P, PlacesOf
    <3>2. PICK k \in 1..N : At_(k) = i
      BY <1>5
    <3>3. QED
      BY <1>8, <3>1, <3>2 DEF I!ToSet
  <2>3. QED
    BY <2>1, <2>2
<1>10. I!IsInjective(q) => I!IsInjective(r)
  <2> SUFFICES ASSUME I!IsInjective(q), NEW a \in 1..N, NEW b \in 1..N, r[a] = r[b] PROVE a = b
    BY <1>8 DEF I!IsInjective
  <2>1. q[At_(a)] = q[At_(b)] /\ At_(a) \in DOMAIN q /\ At_(b) \in DOMAIN q
    BY <1>2, <1>4, <1>8
  <2>2. At_(a) = At_(b)
    BY <2>1 DEF I!IsInjective
  <2>3. QED
    BY <1>6, <2>2
<1>11. QED
  BY <1>1, <1>7, <1>9, <1>10

\* Sequences put together; what stays without repetition.
LEMMA Joined ==
  ASSUME NEW T, NEW a \in Seq(T), NEW b \in Seq(T)
  PROVE  /\ a \o b \in Seq(T) /\ I!ToSet(a \o b) = I!ToSet(a) \cup I!ToSet(b)
         /\ Len(a \o b) = Len(a) + Len(b) /\ Len(b) \in Nat
         /\ \A i \in 1..Len(a) + Len(b) : (a \o b)[i] = IF i <= Len(a) THEN a[i] ELSE b[i - Len(a)]
         /\ I!IsInjective(a) /\ I!IsInjective(b) /\ I!ToSet(a) \cap I!ToSet(b) = {}
              => I!IsInjective(a \o b)
<1> DEFINE c == a \o b
           m == Len(a)
           n == Len(b)
<1>1. /\ c \in Seq(T) /\ Len(c) = m + n /\ m \in Nat /\ n \in Nat
      /\ \A i \in 1..m + n : c[i] = IF i <= m THEN a[i] ELSE b[i - m]
  OBVIOUS
<1>2. DOMAIN a = 1..m /\ DOMAIN b = 1..n
  OBVIOUS
<1>3. DOMAIN c = 1..m + n
  <2> HIDE DEF c, m, n
  <2>1. DOMAIN c = 1..Len(c)
    BY <1>1
  <2>2. QED
    BY <1>1, <2>1
<1> HIDE DEF c, m, n
<1>4. \A i \in 1..m : i \in 1..m + n /\ c[i] = a[i]
  BY <1>1
<1>5. \A i \in 1..n : i + m \in 1..m + n /\ c[i + m] = b[i]
  <2> TAKE i \in 1..n
  <2>1. i + m \in 1..m + n /\ ~(i + m <= m) /\ i + m - m = i
    BY <1>1
  <2>2. QED
    BY <1>1, <2>1
<1>6. \A i \in 1..m + n : (i \in 1..m /\ c[i] = a[i]) \/ (i > m /\ i - m \in 1..n /\ c[i] = b[i - m])
  BY <1>1
<1>7. I!ToSet(c) = I!ToSet(a) \cup I!ToSet(b)
  <2>1. ASSUME NEW x \in I!ToSet(c) PROVE x \in I!ToSet(a) \cup I!ToSet(b)
    <3>1. PICK i \in 1..m + n : x = c[i]
      BY <1>3 DEF I!ToSet
    <3>2. QED
      BY <1>2, <1>6, <3>1 DEF I!ToSet
  <2>2. ASSUME NEW x \in I!ToSet(a) PROVE x \in I!ToSet(c)
    BY <1>2, <1>3, <1>4, <2>2 DEF I!ToSet
  <2>3. ASSUME NEW x \in I!ToSet(b) PROVE x \in I!ToSet(c)
    <3>1. PICK i \in 1..n : x = b[i]
      BY <1>2, <2>3 DEF I!ToSet
    <3>2. QED
      BY <1>3, <1>5, <3>1 DEF I!ToSet
  <2>4. QED
    BY <2>1, <2>2, <2>3
<1>8. ASSUME I!IsInjective(a), I!IsInjective(b), I!ToSet(a) \cap I!ToSet(b) = {},
             NEW i \in 1..m + n, NEW k \in 1..m + n, c[i] = c[k]
      PROVE  i = k
  <2>1. \A x \in 1..m, y \in 1..n : a[x] # b[y]
    BY <1>2, <1>8 DEF I!ToSet
  <2>2. \A x, y \in 1..m : a[x] = a[y] => x = y
    BY <1>2, <1>8 DEF I!IsInjective
  <2>3. \A x, y \in 1..n : b[x] = b[y] => x = y
    BY <1>2, <1>8 DEF I!IsInjective
  <2>4. CASE i \in 1..m /\ c[i] = a[i]
    BY <1>6, <1>8, <2>1, <2>2, <2>4
  <2>5. CASE i - m \in 1..n /\ c[i] = b[i - m]
    <3>1. k - m \in 1..n /\ c[k] = b[k - m]
      BY <1>6, <1>8, <2>1, <2>5
    <3>2. i - m = k - m
      BY <1>8, <2>3, <2>5, <3>1
    <3>3. QED
      BY <1>1, <3>2
  <2>6. QED
    BY <1>6, <2>4, <2>5
<1>9. I!IsInjective(a) /\ I!IsInjective(b) /\ I!ToSet(a) \cap I!ToSet(b) = {} => I!IsInjective(c)
  BY <1>3, <1>8 DEF I!IsInjective
<1>10. QED
  BY <1>1, <1>7, <1>9 DEF c, m, n

\* A part of a sequence.
LEMMA Part ==
  ASSUME NEW T, NEW q \in Seq(T), NEW m \in Nat \ {0}, NEW n \in Nat, n <= Len(q)
  PROVE  /\ SubSeq(q, m, n) \in Seq(T) /\ I!ToSet(SubSeq(q, m, n)) = {q[i] : i \in m..n}
         /\ I!IsInjective(q) => I!IsInjective(SubSeq(q, m, n))
         /\ SubSeq(q, m, n) = << >> <=> m > n
<1> DEFINE c == SubSeq(q, m, n)
           l == IF m <= n THEN n - m + 1 ELSE 0
<1>0. \A i \in m..n : i \in 1..Len(q) /\ q[i] \in T
  OBVIOUS
<1>1. c \in Seq(T) /\ Len(c) = l /\ l \in Nat /\ \A i \in 1..l : c[i] = q[m + i - 1]
  BY <1>0
<1>2. DOMAIN c = 1..l
  <2> HIDE DEF c, l
  <2>1. DOMAIN c = 1..Len(c)
    BY <1>1
  <2>2. QED
    BY <1>1, <2>1
<1>3. c = << >> <=> m > n
  BY <1>1
<1> HIDE DEF c
<1>4. \A i \in 1..l : m + i - 1 \in m..n
  OBVIOUS
<1>5. \A i \in m..n : i - m + 1 \in 1..l /\ m + (i - m + 1) - 1 = i
  OBVIOUS
<1> HIDE DEF l
<1>6. I!ToSet(c) = {q[i] : i \in m..n}
  <2>1. ASSUME NEW x \in I!ToSet(c) PROVE x \in {q[i] : i \in m..n}
    BY <1>1, <1>2, <1>4, <2>1 DEF I!ToSet
  <2>2. ASSUME NEW i \in m..n PROVE q[i] \in I!ToSet(c)
    <3> DEFINE k == i - m + 1
    <3>1. k \in 1..l /\ m + k - 1 = i
      BY <1>5
    <3> HIDE DEF k
    <3>2. c[k] = q[i] /\ k \in DOMAIN c
      BY <1>1, <1>2, <3>1
    <3>3. QED
      BY <3>2 DEF I!ToSet
  <2>3. QED
    BY <2>1, <2>2
<1>7. ASSUME I!IsInjective(q), NEW a \in 1..l, NEW b \in 1..l, c[a] = c[b] PROVE a = b
  <2> DEFINE x == m + a - 1
             y == m + b - 1
  <2>1. x \in m..n /\ y \in m..n
    BY <1>4
  <2>2. q[x] = q[y]
    BY <1>1, <1>7
  <2>3. DOMAIN q = 1..Len(q)
    OBVIOUS
  <2>4. x = y
    <3> HIDE DEF x, y
    <3>1. x \in DOMAIN q /\ y \in DOMAIN q
      BY <1>0, <2>1, <2>3
    <3>2. QED
      BY <1>7, <2>2, <3>1 DEF I!IsInjective
  <2>5. QED
    BY <2>4
<1>8. I!IsInjective(q) => I!IsInjective(c)
  BY <1>2, <1>7 DEF I!IsInjective
<1>9. QED
  BY <1>1, <1>3, <1>6, <1>8 DEF c

\* The first of a sequence, and the others.
LEMMA FirstAndRest ==
  ASSUME NEW T, NEW q \in Seq(T), q # << >>
  PROVE  /\ Head(q) \in T /\ Tail(q) \in Seq(T)
         /\ I!ToSet(q) = {Head(q)} \cup I!ToSet(Tail(q))
         /\ I!IsInjective(q) => I!IsInjective(Tail(q)) /\ Head(q) \notin I!ToSet(Tail(q))
<1> DEFINE t == Tail(q)
           n == Len(q)
<1>1. n \in Nat /\ n > 0 /\ Head(q) = q[1] /\ q[1] \in T /\ DOMAIN q = 1..n
  OBVIOUS
<1>2. t \in Seq(T) /\ Len(t) = n - 1 /\ \A i \in 1..n - 1 : t[i] = q[i + 1]
  OBVIOUS
<1>3. DOMAIN t = 1..n - 1
  <2> HIDE DEF t
  <2>1. DOMAIN t = 1..Len(t)
    BY <1>2
  <2>2. QED
    BY <1>2, <2>1
<1> HIDE DEF t, n
<1>4. I!ToSet(q) = {Head(q)} \cup I!ToSet(t)
  <2>1. ASSUME NEW i \in 1..n PROVE q[i] \in {Head(q)} \cup I!ToSet(t)
    <3>1. CASE i = 1
      BY <1>1, <3>1
    <3>2. CASE i # 1
      <4> DEFINE k == i - 1
      <4>1. k \in 1..n - 1 /\ k + 1 = i
        BY <1>1, <3>2
      <4> HIDE DEF k
      <4>2. QED
        BY <1>2, <1>3, <4>1 DEF I!ToSet
    <3>3. QED
      BY <3>1, <3>2
  <2>2. ASSUME NEW i \in 1..n - 1 PROVE t[i] \in I!ToSet(q)
    <3>1. i + 1 \in 1..n
      BY <1>1
    <3>2. QED
      BY <1>1, <1>2, <3>1 DEF I!ToSet
  <2>3. Head(q) \in I!ToSet(q)
    BY <1>1 DEF I!ToSet
  <2>4. QED
    BY <1>1, <1>3, <2>1, <2>2, <2>3 DEF I!ToSet
<1>5. ASSUME I!IsInjective(q) PROVE I!IsInjective(t) /\ Head(q) \notin I!ToSet(t)
  <2>1. \A i, k \in 1..n : q[i] = q[k] => i = k
    BY <1>1, <1>5 DEF I!IsInjective
  <2>2. \A i \in 1..n - 1 : i + 1 \in 1..n /\ i + 1 # 1
    BY <1>1
  <2>3. I!IsInjective(t)
    <3> SUFFICES ASSUME NEW a \in 1..n - 1, NEW b \in 1..n - 1, t[a] = t[b] PROVE a = b
      BY <1>3 DEF I!IsInjective
    <3>1. a + 1 = b + 1
      BY <1>2, <2>1, <2>2
    <3>2. QED
      BY <3>1
  <2>4. Head(q) \notin I!ToSet(t)
    BY <1>1, <1>2, <1>3, <2>1, <2>2 DEF I!ToSet
  <2>5. QED
    BY <2>3, <2>4
<1>6. QED
  BY <1>1, <1>2, <1>4, <1>5 DEF t

\* One element.
LEMMA Single ==
  ASSUME NEW T, NEW x \in T
  PROVE  <<x>> \in Seq(T) /\ I!ToSet(<<x>>) = {x} /\ I!IsInjective(<<x>>)
         /\ \A q \in Seq(T) : Append(q, x) = q \o <<x>>
<1>1. <<x>> \in Seq(T) /\ DOMAIN <<x>> = {1} /\ <<x>>[1] = x
  OBVIOUS
<1>2. ASSUME NEW q \in Seq(T) PROVE Append(q, x) = q \o <<x>>
  OBVIOUS
<1>3. QED
  BY <1>1, <1>2 DEF I!ToSet, I!IsInjective

\* Without repetition, a sequence is no longer than there are elements.
LEMMA ShortEnough ==
  ASSUME NEW T, IsFiniteSet(T), NEW q \in Seq(T), I!IsInjective(q)
  PROVE  Len(q) <= I!Cardinality(T)
<1> DEFINE J == 1..Len(q)
<1>1. Len(q) \in Nat /\ DOMAIN q = J /\ q \in [J -> T]
  OBVIOUS
<1>2. IsFiniteSet(J) /\ Cardinality(J) = Len(q)
  <2>1. Cardinality(J) = IF 1 > Len(q) THEN 0 ELSE Len(q) - 1 + 1
    BY <1>1, FS_Interval
  <2>2. QED
    BY <1>1, <2>1, FS_Interval
<1> HIDE DEF J
<1>3. q \in Injection(J, T)
  BY <1>1 DEF Injection, IsInjective, I!IsInjective
<1>4. QED
  BY <1>2, <1>3, FS_Injection, SameCardinality

\* How many posts are in front of page n.
ListAbove(n) == (IF n > Accessible THEN Accessible ELSE n - 1) * ListPageSize

\* Types, and a crawl of the tab that is tired stops.
ListTypes ==
  /\ I!TypeOK /\ I!IsInjective(list_feed)
  /\ list_pc = "page" => list_streak < 2

\* Nothing is met twice: the output and the waiting records are different, and
\* have been seen.
ListMet ==
  /\ I!IsInjective(list_out) /\ I!IsInjective(list_work)
  /\ I!ToSet(list_out) \cap I!ToSet(list_work) = {}
  /\ I!ToSet(list_out) \cup I!ToSet(list_work) \subseteq list_seen
  /\ list_kind = "job" => list_seen \subseteq I!ToSet(list_out)

\* What is written has been stored, if it has a url.
ListKept ==
  /\ list_saves \/ list_pc \in {"detail", "write"} => list_kind = "tab"
  /\ list_saves => I!ToSet(list_out) \ Unaddressed \subseteq list_stored
  /\ list_pc = "write" =>
       list_work # << >> /\ (list_saves => Head(list_work) \in list_stored \cup Unaddressed)

\* What was listed all the time and is above the page of an export has been
\* seen.
ListRead ==
  /\ list_steady \subseteq I!ToSet(list_feed)
  /\ list_kind = "job" =>
       \A i \in DOMAIN list_feed, x \in list_steady \cap Matching :
         i <= ListAbove(list_page) /\ list_feed[i] = x => x \in list_seen

ListInv == ListTypes /\ ListMet /\ ListKept /\ ListRead /\ I!CompleteExport

\* The page that is read.
LEMMA RecordsAre ==
  ASSUME ListTypes
  PROVE  /\ I!Records \in Seq(ListPost) /\ I!IsInjective(I!Records)
         /\ I!ToSet(I!Records) \subseteq ListPost
         /\ ListAbove(list_page) \in Nat /\ ListAbove(list_page + 1) \in Nat
         /\ I!Records = << >> => Len(list_feed) <= ListAbove(list_page)
         /\ \A i \in DOMAIN list_feed :
              ListAbove(list_page) < i /\ i <= ListAbove(list_page + 1)
                => list_feed[i] \in I!ToSet(I!Records)
<1> DEFINE P == ListPageSize
           A == Accessible
           n == list_page
           L == Len(list_feed)
           Full(k) == (k - 1) * P
           Top(k) == IF k * P < L THEN k * P ELSE L
<1>1. /\ list_feed \in Seq(ListPost) /\ I!IsInjective(list_feed) /\ n \in Nat \ {0}
      /\ P \in Nat \ {0} /\ A \in Nat \ {0} /\ L \in Nat
  BY ListingAssumption DEF ListTypes, I!TypeOK
<1>2. DOMAIN list_feed = 1..L
  BY <1>1
<1>3. \A k \in Nat \ {0} :
        /\ Full(k) \in Nat /\ k * P \in Nat /\ k * P = Full(k) + P /\ Full(k + 1) = k * P
  BY <1>1
<1>4. \A k \in Nat \ {0} : I!Served(k) = SubSeq(list_feed, Full(k) + 1, Top(k))
  BY DEF I!Served
<1>4a. /\ ListAbove(n) = IF n > A THEN A * P ELSE Full(n)
       /\ ListAbove(n + 1) = IF n + 1 > A THEN A * P ELSE Full(n + 1)
  BY <1>1 DEF ListAbove
<1> HIDE DEF P, A, n, L, Full
<1>5. ASSUME NEW k \in Nat \ {0}
      PROVE  /\ I!Served(k) \in Seq(ListPost) /\ I!IsInjective(I!Served(k))
             /\ I!ToSet(I!Served(k)) = {list_feed[i] : i \in Full(k) + 1..Top(k)}
             /\ I!Served(k) = << >> <=> Full(k) + 1 > Top(k)
             /\ I!ToSet(I!Served(k)) \subseteq ListPost
  <2> DEFINE m == Full(k) + 1
             t == Top(k)
  <2>1. m \in Nat \ {0} /\ t \in Nat /\ t <= Len(list_feed)
    <3>1. m \in Nat \ {0} /\ k * P \in Nat
      BY <1>3
    <3>2. t \in Nat /\ t <= L
      BY <1>1, <3>1
    <3>3. QED
      BY <3>1, <3>2 DEF L
  <2>2. I!Served(k) = SubSeq(list_feed, m, t)
    BY <1>4
  <2>3. \A i \in m..t : list_feed[i] \in ListPost
    <3> HIDE DEF m, t
    <3>1. \A i \in m..t : i \in 1..Len(list_feed)
      BY <2>1
    <3>2. QED
      BY <1>1, <3>1
  <2> HIDE DEF m, t
  <2>4. /\ SubSeq(list_feed, m, t) \in Seq(ListPost)
        /\ I!ToSet(SubSeq(list_feed, m, t)) = {list_feed[i] : i \in m..t}
        /\ I!IsInjective(SubSeq(list_feed, m, t))
        /\ SubSeq(list_feed, m, t) = << >> <=> m > t
    BY <1>1, <2>1, Part
  <2>5. /\ I!Served(k) \in Seq(ListPost) /\ I!IsInjective(I!Served(k))
        /\ I!ToSet(I!Served(k)) = {list_feed[i] : i \in m..t}
        /\ I!Served(k) = << >> <=> m > t
        /\ I!ToSet(I!Served(k)) \subseteq ListPost
    BY <2>2, <2>3, <2>4
  <2>6. QED
    BY <2>5 DEF m, t
<1>6. I!Records = IF n > A /\ L > A * P THEN I!Served(A) ELSE I!Served(n)
  BY DEF I!Records, A, L, P, n
<1>7. /\ A * P = Full(A) + P /\ Full(A) \in Nat /\ A * P \in Nat
      /\ n * P = Full(n) + P /\ Full(n) \in Nat /\ n * P \in Nat /\ Full(n + 1) = n * P
  BY <1>1, <1>3
<1>8. ListAbove(n) \in Nat /\ ListAbove(n + 1) \in Nat
  BY <1>4a, <1>7
<1>9. CASE n > A
  <2>1. ListAbove(n) = A * P /\ ListAbove(n + 1) = A * P
    BY <1>1, <1>4a, <1>9
  <2>2. ASSUME L > A * P PROVE I!Records # << >>
    <3>1. I!Records = I!Served(A)
      BY <1>6, <1>9, <2>2
    <3>2. Top(A) = A * P /\ ~(Full(A) + 1 > A * P)
      BY <1>1, <1>7, <2>2
    <3>3. QED
      BY <1>1, <1>5, <3>1, <3>2
  <2>3. I!Records = << >> => L <= ListAbove(n)
    BY <1>1, <1>7, <2>1, <2>2
  <2>4. \A i \in 1..L : ~(ListAbove(n) < i /\ i <= ListAbove(n + 1))
    BY <1>1, <1>7, <2>1
  <2>5. I!Records = I!Served(A) \/ I!Records = I!Served(n)
    BY <1>6
  <2>6. QED
    BY <1>1, <1>2, <1>5, <1>8, <2>3, <2>4, <2>5 DEF n, L, A
<1>10. CASE ~(n > A)
  <2>1. I!Records = I!Served(n)
    BY <1>6, <1>10
  <2>2. ListAbove(n) = Full(n)
    BY <1>4a, <1>10
  <2>3. ListAbove(n + 1) = n * P
    <3>1. CASE n = A
      BY <1>1, <1>4a, <3>1
    <3>2. CASE n # A
      BY <1>1, <1>4a, <1>7, <1>10, <3>2
    <3>3. QED
      BY <3>1, <3>2
  <2>4. ASSUME I!Records = << >> PROVE L <= Full(n)
    <3>1. Full(n) + 1 > Top(n)
      BY <1>1, <1>5, <2>1, <2>4
    <3>2. QED
      BY <1>1, <1>7, <3>1
  <2>5. ASSUME NEW i \in 1..L, Full(n) < i, i <= n * P
        PROVE  list_feed[i] \in I!ToSet(I!Records)
    <3>1. i \in Full(n) + 1..Top(n)
      BY <1>1, <1>7, <2>5
    <3>2. QED
      BY <1>1, <1>5, <2>1, <3>1
  <2>6. QED
    BY <1>1, <1>2, <1>5, <1>8, <2>1, <2>2, <2>3, <2>4, <2>5 DEF n, L, A
<1>11. QED
  BY <1>9, <1>10

\* Where a post is withdrawn, those behind it move up by one.
LEMMA FeedShrinks ==
  ASSUME ListTypes, I!Withdraw
  PROVE  \E c \in DOMAIN list_feed :
           /\ list_feed' \in Seq(ListPost) /\ Len(list_feed) \in Nat
           /\ DOMAIN list_feed = 1..Len(list_feed) /\ DOMAIN list_feed' = 1..Len(list_feed) - 1
           /\ \A i \in DOMAIN list_feed' : list_feed'[i] = list_feed[IF i < c THEN i ELSE i + 1]
           /\ list_steady' = list_steady \ ({list_feed[c]} \cup I!Slipping(c))
<1>1. list_feed \in Seq(ListPost)
  BY DEF ListTypes, I!TypeOK
<1>2. PICK c \in DOMAIN list_feed :
        /\ list_feed' = I!RemoveAt(list_feed, c)
        /\ list_steady' = list_steady \ ({list_feed[c]} \cup I!Slipping(c))
  BY DEF I!Withdraw
<1> DEFINE g == SubSeq(list_feed, 1, c - 1) \o SubSeq(list_feed, c + 1, Len(list_feed))
<1>3. list_feed' = g
  BY <1>2 DEF I!RemoveAt
<1>4. /\ g \in Seq(ListPost) /\ Len(list_feed) \in Nat
      /\ DOMAIN list_feed = 1..Len(list_feed) /\ DOMAIN g = 1..Len(list_feed) - 1
      /\ \A i \in DOMAIN g : g[i] = list_feed[IF i < c THEN i ELSE i + 1]
  BY <1>1, Removed
<1> HIDE DEF g
<1>5. QED
  BY <1>2, <1>3, <1>4

\* A post that is published comes first; one that is withdrawn leaves the
\* others as they were.
LEMMA FeedMoves ==
  ASSUME ListTypes, I!Withdraw \/ \E p \in ListPost : I!Publish(p)
  PROVE  list_feed' \in Seq(ListPost) /\ I!IsInjective(list_feed')
<1>1. list_feed \in Seq(ListPost) /\ I!IsInjective(list_feed)
  BY DEF ListTypes, I!TypeOK
<1>2. ASSUME NEW p \in ListPost, I!Publish(p)
      PROVE  list_feed' \in Seq(ListPost) /\ I!IsInjective(list_feed')
  <2>1. p \notin I!ToSet(list_feed) /\ list_feed' = <<p>> \o list_feed
    BY <1>2 DEF I!Publish
  <2> DEFINE s == <<p>>
  <2>2. s \in Seq(ListPost) /\ I!ToSet(s) = {p} /\ I!IsInjective(s)
    BY Single
  <2> HIDE DEF s
  <2>3. s \o list_feed \in Seq(ListPost) /\ I!IsInjective(s \o list_feed)
    BY <1>1, <2>1, <2>2, Joined
  <2>4. QED
    BY <2>1, <2>3 DEF s
<1>3. CASE I!Withdraw
  <2>1. PICK c \in DOMAIN list_feed :
          /\ list_feed' \in Seq(ListPost) /\ Len(list_feed) \in Nat
          /\ DOMAIN list_feed = 1..Len(list_feed) /\ DOMAIN list_feed' = 1..Len(list_feed) - 1
          /\ \A i \in DOMAIN list_feed' : list_feed'[i] = list_feed[IF i < c THEN i ELSE i + 1]
    BY <1>3, FeedShrinks
  <2> DEFINE g == list_feed'
             f == list_feed
             J(i) == IF i < c THEN i ELSE i + 1
  <2>2. \A i \in DOMAIN g : J(i) \in DOMAIN f /\ g[i] = f[J(i)] /\ i \in Nat /\ c \in Nat
    BY <2>1
  <2>3. \A i, j \in DOMAIN f : f[i] = f[j] => i = j
    BY <1>1 DEF I!IsInjective
  <2>4. ASSUME NEW i \in DOMAIN g, NEW j \in DOMAIN g, g[i] = g[j] PROVE i = j
    <3>1. J(i) = J(j)
      <4> HIDE DEF J, f, g
      <4>1. QED
        BY <2>2, <2>3, <2>4
    <3>2. QED
      BY <2>2, <3>1
  <2>5. I!IsInjective(list_feed')
    <3> HIDE DEF J, f
    <3>1. QED
      BY <2>4 DEF I!IsInjective
  <2>6. QED
    BY <2>1, <2>5
<1>4. QED
  BY <1>2, <1>3

\* What a page brings is new, and nothing of it is met twice.
LEMMA NewAre ==
  ASSUME ListTypes, NEW q \in Seq(ListPost), I!IsInjective(q), I!ToSet(q) \subseteq list_seen,
         NEW set, set \cap list_seen = {}
  PROVE  LET new == I!Among(I!Records, set)
         IN /\ q \o new \in Seq(ListPost) /\ I!IsInjective(q \o new)
            /\ I!ToSet(q \o new) = I!ToSet(q) \cup (I!ToSet(I!Records) \cap set)
            /\ I!ToSet(new) \cap list_seen = {}
<1> DEFINE new == I!Among(I!Records, set)
<1>1. I!Records \in Seq(ListPost) /\ I!IsInjective(I!Records)
  BY RecordsAre
<1>2. new \in Seq(ListPost) /\ I!ToSet(new) = I!ToSet(I!Records) \cap set /\ I!IsInjective(new)
  BY <1>1, AmongIs
<1> HIDE DEF new
<1>3. I!ToSet(q) \cap I!ToSet(new) = {}
  BY <1>2
<1>4. q \o new \in Seq(ListPost) /\ I!ToSet(q \o new) = I!ToSet(q) \cup I!ToSet(new) /\ I!IsInjective(q \o new)
  BY <1>2, <1>3, Joined
<1>5. QED
  BY <1>2, <1>4 DEF new

\* A crawl of a listing meets nothing twice.
LEMMA ListMetKept ==
  ASSUME ListTypes, ListMet, ListKept, I!Next
  PROVE  ListMet' /\ list_out' \in Seq(ListPost) /\ list_work' \in Seq(ListPost)
<1> USE DEF ListMet
<1>0. list_out \in Seq(ListPost) /\ list_work \in Seq(ListPost)
  BY DEF ListTypes, I!TypeOK
<1>1. ASSUME list_out' = list_out, list_work' = list_work, list_seen' = list_seen, list_kind' = list_kind
      PROVE  ListMet' /\ list_out' \in Seq(ListPost) /\ list_work' \in Seq(ListPost)
  BY <1>0, <1>1
<1>2. CASE I!JobPage
  <2>1. CASE list_out' = list_out /\ list_work' = list_work /\ list_seen' = list_seen /\ list_kind' = list_kind
    BY <1>1, <2>1
  <2> DEFINE set == {p \in ListPost : I!Fresh(p)}
             new == I!Among(I!Records, set)
  <2>2. CASE /\ list_kind' = list_kind /\ list_work' = list_work /\ list_kind = "job"
             /\ list_seen' = list_seen \cup (I!ToSet(I!Records) \cap Matching)
             /\ list_out' = list_out \o new
    <3>1. set \cap list_seen = {} /\ set \subseteq Matching /\ \A x \in ListPost \cap Matching : x \in list_seen \/ x \in set
      BY DEF I!Fresh
    <3>1a. I!ToSet(I!Records) \subseteq ListPost
      BY RecordsAre
    <3> HIDE DEF set
    <3>2. /\ list_out' \in Seq(ListPost) /\ I!IsInjective(list_out')
          /\ I!ToSet(list_out') = I!ToSet(list_out) \cup (I!ToSet(I!Records) \cap set)
      BY <1>0, <2>2, <3>1, NewAre
    <3>3. I!ToSet(list_out') \cap I!ToSet(list_work') = {}
      BY <2>2, <3>1, <3>2
    <3>4. I!ToSet(list_out') \cup I!ToSet(list_work') \subseteq list_seen'
      BY <2>2, <3>1, <3>2
    <3>5. list_seen' \subseteq I!ToSet(list_out')
      BY <2>2, <3>1, <3>1a, <3>2
    <3>6. QED
      BY <1>0, <2>2, <3>2, <3>3, <3>4, <3>5
  <2>3. QED
    BY <1>2, <2>1, <2>2 DEF I!JobPage, I!scan, I!options
<1>3. CASE I!DiscoverPage
  <2>1. CASE list_out' = list_out /\ list_work' = list_work /\ list_seen' = list_seen /\ list_kind' = list_kind
    BY <1>1, <2>1
  <2> DEFINE set == I!Links \ list_seen
             new == I!Among(I!Records, set)
  <2>2. CASE /\ list_kind' = list_kind /\ list_work' = list_work /\ list_kind = "discover"
             /\ list_seen' = list_seen \cup I!Links
             /\ list_out' = list_out \o new
    <3>1. set \cap list_seen = {} /\ set \subseteq I!Links
      OBVIOUS
    <3> HIDE DEF set
    <3>2. /\ list_out' \in Seq(ListPost) /\ I!IsInjective(list_out')
          /\ I!ToSet(list_out') = I!ToSet(list_out) \cup (I!ToSet(I!Records) \cap set)
      BY <1>0, <2>2, <3>1, NewAre
    <3>3. QED
      BY <1>0, <2>2, <3>1, <3>2
  <2>3. QED
    BY <1>3, <2>1, <2>2 DEF I!DiscoverPage, I!scan, I!options
<1>4. CASE I!TabPage
  <2> DEFINE set == {p \in I!Unmet : ~(list_incremental /\ p \in list_stored)}
             new == I!Among(I!Records, set)
  <2>1. /\ list_kind' = list_kind /\ list_out' = list_out /\ list_kind = "tab"
        /\ list_seen' = list_seen \cup I!ToSet(I!Records)
        /\ list_work' = list_work \o new
    BY <1>4 DEF I!TabPage, I!options
  <2>2. set \cap list_seen = {}
    BY DEF I!Unmet
  <2> HIDE DEF set
  <2>3. /\ list_work' \in Seq(ListPost) /\ I!IsInjective(list_work')
        /\ I!ToSet(list_work') = I!ToSet(list_work) \cup (I!ToSet(I!Records) \cap set)
    BY <1>0, <2>1, <2>2, NewAre
  <2>4. QED
    BY <1>0, <2>1, <2>2, <2>3
<1>5. CASE I!TabWrite
  <2> DEFINE x == Head(list_work)
             s == <<x>>
             t == Tail(list_work)
  <2>1. /\ list_work # << >> /\ list_out' = Append(list_out, x) /\ list_work' = t
        /\ list_seen' = list_seen /\ list_kind' = list_kind
    BY <1>5 DEF I!TabWrite, I!scan, I!options, ListKept
  <2>2. /\ x \in ListPost /\ t \in Seq(ListPost) /\ I!ToSet(list_work) = {x} \cup I!ToSet(t)
        /\ I!IsInjective(t) /\ x \notin I!ToSet(t)
    BY <1>0, <2>1, FirstAndRest
  <2> HIDE DEF x, t
  <2>3. s \in Seq(ListPost) /\ I!ToSet(s) = {x} /\ I!IsInjective(s) /\ list_out' = list_out \o s
    BY <1>0, <2>1, <2>2, Single
  <2> HIDE DEF s
  <2>4. I!ToSet(list_out) \cap I!ToSet(s) = {}
    BY <2>2, <2>3
  <2>5. /\ list_out' \in Seq(ListPost) /\ I!IsInjective(list_out')
        /\ I!ToSet(list_out') = I!ToSet(list_out) \cup {x}
    BY <1>0, <2>3, <2>4, Joined
  <2>6. list_kind = "job" => list_seen' \subseteq I!ToSet(list_out')
    BY <2>1, <2>5
  <2>7. QED
    BY <2>1, <2>2, <2>5, <2>6
<1>6. CASE I!Fail \/ I!Budget \/ I!TabListed \/ I!TabDetail \/ I!TabEnd
  <2>1. list_out' = list_out /\ list_work' = list_work /\ list_seen' = list_seen /\ list_kind' = list_kind
    BY <1>6 DEF I!Fail, I!Budget, I!TabListed, I!TabDetail, I!TabEnd, I!scan, I!options
  <2>2. QED
    BY <1>1, <2>1
<1>7. ASSUME I!Withdraw \/ \E p \in ListPost : I!Publish(p) \/ I!CrawlOther(p)
      PROVE  ListMet' /\ list_out' \in Seq(ListPost) /\ list_work' \in Seq(ListPost)
  <2>1. list_out' = list_out /\ list_work' = list_work /\ list_seen' = list_seen /\ list_kind' = list_kind
    BY <1>7 DEF I!Publish, I!Withdraw, I!CrawlOther, I!scan, I!options, I!feedvars
  <2>2. QED
    BY <1>1, <2>1
<1>8. QED
  BY <1>2, <1>3, <1>4, <1>5, <1>6, <1>7 DEF I!Next

\* The types.
LEMMA ListTypesKept ==
  ASSUME ListTypes, ListMet, ListKept, I!Next
  PROVE  ListTypes'
<1> USE DEF ListTypes, I!TypeOK, I!Reason, I!scan, I!options, I!feedvars, I!End
<1>1. /\ I!Records \in Seq(ListPost) /\ I!ToSet(I!Records) \subseteq ListPost
  BY RecordsAre
<1>2. list_out' \in Seq(ListPost) /\ list_work' \in Seq(ListPost) /\ I!IsInjective(list_out')
  BY ListMetKept DEF ListMet
<1>3. Len(list_out') <= I!Cardinality(ListPost)
  <2>1. IsFiniteSet(ListPost)
    BY ListingAssumption
  <2>2. QED
    BY <1>2, <2>1, ShortEnough
<1>4. CASE I!JobPage
  <2>1. CASE UNCHANGED I!scan /\ list_pc' = "end" /\ list_stop' \in I!Reason
    BY <1>2, <1>3, <1>4, <2>1 DEF I!JobPage
  <2>2. CASE /\ list_page' = list_page + 1 /\ list_prints' = list_prints \cup I!Fingerprint
             /\ list_seen' = list_seen \cup (I!ToSet(I!Records) \cap Matching)
             /\ UNCHANGED <<list_pc, list_stop, list_streak>>
    <3>1. list_seen' \subseteq ListPost /\ list_prints' \subseteq SUBSET ListPost
      BY <1>1, <2>2 DEF I!Fingerprint
    <3>2. list_page' \in 1..(ListPages + 1)
      BY <1>4, <2>2, ListingAssumption DEF I!JobPage
    <3>3. UNCHANGED <<list_feed, list_edits, list_steady, list_kind, list_saves, list_incremental, list_work, list_stored>>
      BY <1>4 DEF I!JobPage
    <3>4. QED
      BY <1>2, <1>3, <2>2, <3>1, <3>2, <3>3
  <2>3. QED
    BY <1>4, <2>1, <2>2 DEF I!JobPage
<1>5. CASE I!DiscoverPage
  <2>1. I!Links \subseteq ListPost
    BY <1>1 DEF I!Links
  <2>2. list_prints' \subseteq SUBSET ListPost /\ list_seen' \subseteq ListPost
    BY <1>5, <2>1 DEF I!DiscoverPage
  <2>3. QED
    BY <1>2, <1>3, <1>5, <2>2, ListingAssumption DEF I!DiscoverPage
<1>6. CASE I!TabPage
  BY <1>1, <1>2, <1>3, <1>6, ListingAssumption DEF I!TabPage
<1>7. CASE I!TabWrite
  BY <1>1, <1>2, <1>3, <1>7, ListingAssumption DEF I!TabWrite
<1>8. CASE I!TabDetail
  <2>1. list_work # << >>
    BY <1>8 DEF I!TabDetail, I!Done
  <2>2. Head(list_work) \in ListPost
    BY <2>1, FirstAndRest
  <2>3. QED
    BY <1>2, <1>3, <1>8, <2>2 DEF I!TabDetail
<1>9. CASE I!Fail \/ I!Budget \/ I!TabListed \/ I!TabEnd
  BY <1>2, <1>3, <1>9 DEF I!Fail, I!Budget, I!TabListed, I!TabEnd
<1>10. CASE I!Withdraw \/ \E p \in ListPost : I!Publish(p)
  <2>1. list_feed' \in Seq(ListPost) /\ I!IsInjective(list_feed')
    BY <1>10, FeedMoves
  <2>2. /\ list_edits < MaxEdits /\ list_edits' = list_edits + 1 /\ list_steady' \subseteq list_steady
        /\ UNCHANGED <<list_kind, list_saves, list_incremental, list_pc, list_page, list_seen,
                       list_prints, list_streak, list_work, list_out, list_stop, list_stored>>
    BY <1>10 DEF I!Publish, I!Withdraw
  <2>3. list_edits' \in 0..MaxEdits
    BY <2>2, ListingAssumption
  <2>4. QED
    BY <1>2, <1>3, <2>1, <2>2, <2>3
<1>11. ASSUME NEW p \in ListPost, I!CrawlOther(p) PROVE ListTypes'
  BY <1>2, <1>3, <1>11 DEF I!CrawlOther
<1>12. QED
  BY <1>4, <1>5, <1>6, <1>7, <1>8, <1>9, <1>10, <1>11 DEF I!Next

\* What is written stays stored.
LEMMA ListKeptKept ==
  ASSUME ListTypes, ListMet, ListKept, I!Next
  PROVE  ListKept'
<1> USE DEF ListKept, I!scan, I!options, I!feedvars, I!End
<1>1. CASE I!TabWrite
  <2> DEFINE x == Head(list_work)
             s == <<x>>
  <2>1. /\ list_work # << >> /\ list_out' = Append(list_out, x)
        /\ list_kind = "tab" /\ list_kind' = list_kind /\ list_saves' = list_saves
        /\ list_stored' = list_stored /\ list_pc' = "detail"
        /\ list_saves => x \in list_stored \cup Unaddressed
    BY <1>1 DEF I!TabWrite
  <2>2. list_out \in Seq(ListPost) /\ list_work \in Seq(ListPost)
    BY DEF ListTypes, I!TypeOK
  <2>3. x \in ListPost
    BY <2>1, <2>2, FirstAndRest
  <2> HIDE DEF x
  <2>4. s \in Seq(ListPost) /\ I!ToSet(s) = {x} /\ list_out' = list_out \o s
    BY <2>1, <2>2, <2>3, Single
  <2> HIDE DEF s
  <2>5. I!ToSet(list_out') = I!ToSet(list_out) \cup {x}
    BY <2>2, <2>4, Joined
  <2>6. QED
    BY <2>1, <2>5
<1>2. CASE I!TabDetail
  BY <1>2 DEF I!TabDetail, I!Done, I!Persists
<1>3. CASE I!JobPage \/ I!DiscoverPage
  BY <1>3 DEF I!JobPage, I!DiscoverPage
<1>4. CASE I!TabPage
  <2>1. /\ list_kind' = list_kind /\ list_saves' = list_saves /\ list_out' = list_out /\ list_kind = "tab"
        /\ list_stored' = list_stored /\ list_pc' # "write"
    BY <1>4 DEF I!TabPage
  <2>2. QED
    BY <2>1
<1>4a. CASE I!Fail \/ I!Budget \/ I!TabListed \/ I!TabEnd
  <2>1. /\ list_kind' = list_kind /\ list_saves' = list_saves /\ list_out' = list_out
        /\ list_stored' = list_stored /\ list_pc' # "write"
        /\ list_pc' = "end" \/ list_kind = "tab"
    BY <1>4a DEF I!Fail, I!Budget, I!TabListed, I!TabEnd
  <2>2. QED
    BY <2>1, <1>4a DEF I!Fail, I!Budget, I!TabListed, I!TabEnd
<1>5. CASE I!Withdraw \/ \E p \in ListPost : I!Publish(p) \/ I!CrawlOther(p)
  <2>1. /\ list_kind' = list_kind /\ list_saves' = list_saves /\ list_pc' = list_pc
        /\ list_out' = list_out /\ list_work' = list_work /\ list_stored \subseteq list_stored'
    BY <1>5 DEF I!Publish, I!Withdraw, I!CrawlOther
  <2>2. QED
    BY <2>1
<1>6. QED
  BY <1>1, <1>2, <1>3, <1>4, <1>4a, <1>5 DEF I!Next

\* A post that is published pushes the others down by one.
LEMMA FeedShifts ==
  ASSUME ListTypes, NEW p \in ListPost, I!Publish(p)
  PROVE  /\ I!ToSet(list_feed) \subseteq I!ToSet(list_feed') /\ p \notin I!ToSet(list_feed)
         /\ Len(list_feed') = Len(list_feed) + 1 /\ Len(list_feed) \in Nat
         /\ \A i \in DOMAIN list_feed' :
              list_feed'[i] = p \/ (i - 1 \in DOMAIN list_feed /\ list_feed'[i] = list_feed[i - 1] /\ i \in Nat)
<1> DEFINE s == <<p>>
<1>1. list_feed \in Seq(ListPost) /\ list_feed' = s \o list_feed /\ p \notin I!ToSet(list_feed)
  BY DEF ListTypes, I!TypeOK, I!Publish
<1>2. s \in Seq(ListPost) /\ Len(s) = 1 /\ s[1] = p
  OBVIOUS
<1> HIDE DEF s
<1>3. I!ToSet(s \o list_feed) = I!ToSet(s) \cup I!ToSet(list_feed)
  BY <1>1, <1>2, Joined
<1>4. /\ Len(list_feed') = Len(list_feed) + 1 /\ Len(list_feed) \in Nat
      /\ \A i \in 1..Len(list_feed) + 1 : list_feed'[i] = IF i <= 1 THEN s[i] ELSE list_feed[i - 1]
  <2> DEFINE f == list_feed
             c == s \o f
  <2>1. f \in Seq(ListPost) /\ list_feed' = c /\ Len(list_feed) = Len(f)
    BY <1>1
  <2> HIDE DEF f
  <2>2. /\ Len(c) = Len(s) + Len(f) /\ Len(f) \in Nat
        /\ \A i \in 1..Len(s) + Len(f) : c[i] = IF i <= Len(s) THEN s[i] ELSE f[i - Len(s)]
    BY <1>2, <2>1, Joined
  <2> HIDE DEF c
  <2>3. /\ Len(c) = Len(f) + 1 /\ Len(f) \in Nat
        /\ \A i \in 1..Len(f) + 1 : c[i] = IF i <= 1 THEN s[i] ELSE f[i - 1]
    BY <1>2, <2>2
  <2>4. QED
    BY <2>1, <2>3 DEF f
<1>5. DOMAIN list_feed' = 1..Len(list_feed) + 1
  <2>1. list_feed' \in Seq(ListPost)
    BY <1>1, <1>2, Joined
  <2>2. DOMAIN list_feed' = 1..Len(list_feed')
    BY <2>1
  <2>3. QED
    BY <1>4, <2>2
<1>6. DOMAIN list_feed = 1..Len(list_feed)
  BY <1>1
<1>7. ASSUME NEW i \in 1..Len(list_feed) + 1
      PROVE  list_feed'[i] = p \/ (i - 1 \in DOMAIN list_feed /\ list_feed'[i] = list_feed[i - 1] /\ i \in Nat)
  <2>1. CASE i <= 1
    BY <1>2, <1>4, <2>1
  <2>2. CASE ~(i <= 1)
    BY <1>4, <1>6, <2>2
  <2>3. QED
    BY <2>1, <2>2
<1>8. QED
  BY <1>1, <1>3, <1>4, <1>5, <1>7

\* An export reads what is above its page.
LEMMA ListReadKept ==
  ASSUME ListTypes, ListMet, ListRead, I!Next
  PROVE  ListRead'
<1>0. /\ list_steady \subseteq I!ToSet(list_feed) /\ list_page \in Nat \ {0} /\ list_feed \in Seq(ListPost)
      /\ ListAbove(list_page) \in Nat /\ ListAbove(list_page + 1) \in Nat /\ list_steady \subseteq ListPost
  BY RecordsAre, ListingAssumption DEF ListRead, ListTypes, I!TypeOK
<1>1. ASSUME list_feed' = list_feed, list_steady' = list_steady, list_kind' = list_kind,
             list_page' = list_page, list_seen' = list_seen
      PROVE  ListRead'
  BY <1>1 DEF ListRead, ListAbove
<1>2. CASE I!JobPage
  <2>1. CASE /\ list_feed' = list_feed /\ list_steady' = list_steady /\ list_kind' = list_kind
             /\ list_page' = list_page /\ list_seen' = list_seen
    BY <1>1, <2>1
  <2>2. CASE /\ list_feed' = list_feed /\ list_steady' = list_steady /\ list_kind' = list_kind
             /\ list_kind = "job" /\ list_page' = list_page + 1
             /\ list_seen' = list_seen \cup (I!ToSet(I!Records) \cap Matching)
    <3>1. ASSUME NEW i \in DOMAIN list_feed, NEW x \in list_steady \cap Matching,
                 i <= ListAbove(list_page + 1), list_feed[i] = x
          PROVE  x \in list_seen'
      <4>0. i \in Nat
        BY <1>0
      <4>1. CASE i <= ListAbove(list_page)
        BY <2>2, <3>1, <4>1 DEF ListRead
      <4>2. CASE ~(i <= ListAbove(list_page))
        <5>1. ListAbove(list_page) < i
          BY <1>0, <4>0, <4>2
        <5>2. list_feed[i] \in I!ToSet(I!Records)
          BY <3>1, <5>1, RecordsAre
        <5>3. QED
          BY <2>2, <3>1, <5>2
      <4>3. QED
        BY <4>1, <4>2
    <3>2. (ListAbove(list_page))' = ListAbove(list_page + 1)
      BY <2>2 DEF ListAbove
    <3>3. QED
      BY <1>0, <2>2, <3>1, <3>2 DEF ListRead
  <2>3. QED
    BY <1>2, <2>1, <2>2 DEF I!JobPage, I!scan, I!options, I!feedvars
<1>3. CASE I!DiscoverPage \/ I!TabPage
  <2>1. list_kind' # "job" /\ list_feed' = list_feed /\ list_steady' = list_steady
    BY <1>3 DEF I!DiscoverPage, I!TabPage, I!options, I!feedvars
  <2>2. QED
    BY <1>0, <2>1 DEF ListRead
<1>4. CASE I!TabWrite \/ I!TabDetail \/ I!Fail \/ I!Budget \/ I!TabListed \/ I!TabEnd
  BY <1>1, <1>4 DEF I!TabWrite, I!TabDetail, I!Fail, I!Budget, I!TabListed, I!TabEnd, I!scan, I!options, I!feedvars
<1>5. ASSUME NEW p \in ListPost, I!Publish(p) PROVE ListRead'
  <2>1. /\ list_steady' = list_steady /\ list_kind' = list_kind
        /\ list_page' = list_page /\ list_seen' = list_seen
    BY <1>5 DEF I!Publish, I!scan, I!options
  <2>2. /\ I!ToSet(list_feed) \subseteq I!ToSet(list_feed') /\ p \notin I!ToSet(list_feed)
        /\ \A i \in DOMAIN list_feed' :
             list_feed'[i] = p \/ (i - 1 \in DOMAIN list_feed /\ list_feed'[i] = list_feed[i - 1] /\ i \in Nat)
    BY <1>5, FeedShifts
  <2>3. (ListAbove(list_page))' = ListAbove(list_page)
    BY <2>1 DEF ListAbove
  <2>4. ASSUME list_kind = "job", NEW i \in DOMAIN list_feed', NEW x \in list_steady \cap Matching,
               i <= ListAbove(list_page), list_feed'[i] = x
        PROVE  x \in list_seen
    <3>1. i - 1 \in DOMAIN list_feed /\ list_feed[i - 1] = x /\ i \in Nat
      BY <1>0, <2>2, <2>4
    <3>2. i - 1 <= ListAbove(list_page)
      BY <1>0, <2>4, <3>1
    <3>3. QED
      BY <2>4, <3>1, <3>2 DEF ListRead
  <2>5. QED
    BY <1>0, <2>1, <2>2, <2>3, <2>4 DEF ListRead
<1>6. CASE I!Withdraw
  <2>1. PICK c \in DOMAIN list_feed :
          /\ list_feed' \in Seq(ListPost) /\ Len(list_feed) \in Nat
          /\ DOMAIN list_feed = 1..Len(list_feed) /\ DOMAIN list_feed' = 1..Len(list_feed) - 1
          /\ \A i \in DOMAIN list_feed' : list_feed'[i] = list_feed[IF i < c THEN i ELSE i + 1]
          /\ list_steady' = list_steady \ ({list_feed[c]} \cup I!Slipping(c))
    BY <1>6, FeedShrinks
  <2>2. list_kind' = list_kind /\ list_page' = list_page /\ list_seen' = list_seen
    BY <1>6 DEF I!Withdraw, I!scan, I!options
  <2>3. ASSUME NEW x \in list_steady' PROVE x \in I!ToSet(list_feed')
    <3>1. x \in list_steady /\ x # list_feed[c]
      BY <2>1
    <3>2. PICK j \in DOMAIN list_feed : list_feed[j] = x
      BY <1>0, <3>1 DEF I!ToSet
    <3>3. j # c /\ j \in Nat /\ c \in Nat
      BY <2>1, <3>1, <3>2
    <3>4. CASE j < c
      <4>1. j \in DOMAIN list_feed' /\ list_feed'[j] = x
        BY <2>1, <3>2, <3>3, <3>4
      <4>2. QED
        BY <4>1 DEF I!ToSet
    <3>5. CASE ~(j < c)
      <4>1. j - 1 \in DOMAIN list_feed' /\ ~(j - 1 < c) /\ j - 1 + 1 = j
        BY <2>1, <3>2, <3>3, <3>5
      <4>2. list_feed'[j - 1] = x
        BY <2>1, <3>2, <4>1
      <4>3. QED
        BY <4>1, <4>2 DEF I!ToSet
    <3>6. QED
      BY <3>4, <3>5
  <2>4. (ListAbove(list_page))' = ListAbove(list_page) /\ I!Above = ListAbove(list_page)
    BY <2>2 DEF ListAbove, I!Above
  <2>5. ASSUME list_kind = "job", NEW i \in DOMAIN list_feed', NEW x \in list_steady' \cap Matching,
               i <= ListAbove(list_page), list_feed'[i] = x
        PROVE  x \in list_seen
    <3>1. x \in list_steady \cap Matching /\ x \notin I!Slipping(c) /\ x \in ListPost
      BY <1>0, <2>1, <2>5
    <3>2. i \in Nat /\ c \in Nat /\ i \in DOMAIN list_feed /\ i + 1 \in DOMAIN list_feed
      BY <2>1, <2>5
    <3>3. CASE i < c
      BY <2>1, <2>5, <3>1, <3>2, <3>3 DEF ListRead
    <3>4. CASE ~(i < c)
      <4>1. list_feed[i + 1] = x
        BY <2>1, <2>5, <3>4
      <4>2. CASE i + 1 <= ListAbove(list_page)
        BY <2>5, <3>1, <3>2, <4>1, <4>2 DEF ListRead
      <4>3. CASE ~(i + 1 <= ListAbove(list_page))
        <5>1. i = ListAbove(list_page) /\ c <= ListAbove(list_page) /\ ListAbove(list_page) < Len(list_feed)
          BY <1>0, <2>1, <2>5, <3>2, <3>4, <4>3
        <5>2. x = list_feed[I!Above + 1] /\ c <= I!Above /\ I!Above < Len(list_feed)
          BY <2>4, <4>1, <5>1
        <5>3. QED
          BY <3>1, <5>2 DEF I!Slipping
      <4>4. QED
        BY <4>2, <4>3
    <3>5. QED
      BY <3>3, <3>4
  <2>6. QED
    BY <2>2, <2>3, <2>4, <2>5 DEF ListRead
<1>7. ASSUME NEW p \in ListPost, I!CrawlOther(p) PROVE ListRead'
  BY <1>1, <1>7 DEF I!CrawlOther, I!scan, I!options, I!feedvars
<1>8. QED
  BY <1>2, <1>3, <1>4, <1>5, <1>6, <1>7 DEF I!Next

\* Only an empty page completes an export, and then it has read everything.
LEMMA CompleteKept ==
  ASSUME ListInv, I!Next
  PROVE  I!CompleteExport'
<1> USE DEF ListInv
<1>0. list_kind = "job" => list_seen \subseteq I!ToSet(list_out)
  BY DEF ListMet
<1>1. ASSUME list_out' = list_out, list_kind' = list_kind, list_steady' \subseteq list_steady,
             list_stop' = list_stop \/ list_stop' # "empty_page"
      PROVE  I!CompleteExport'
  BY <1>1 DEF I!CompleteExport
<1>2. CASE I!JobPage
  <2>1. CASE I!Empty /\ list_stop' = "empty_page" /\ list_out' = list_out /\ list_steady' = list_steady /\ list_kind' = list_kind
    <3>1. Len(list_feed) <= ListAbove(list_page) /\ ListAbove(list_page) \in Nat
      BY <2>1, RecordsAre DEF I!Empty
    <3>2. list_feed \in Seq(ListPost) /\ Len(list_feed) \in Nat /\ DOMAIN list_feed = 1..Len(list_feed)
      BY DEF ListTypes, I!TypeOK
    <3>4. ASSUME list_kind = "job", NEW x \in list_steady \cap Matching PROVE x \in list_seen
      <4>1. PICK i \in DOMAIN list_feed : x = list_feed[i]
        BY <3>4 DEF ListRead, I!ToSet
      <4>2. i <= ListAbove(list_page)
        BY <3>1, <3>2
      <4>3. QED
        BY <3>4, <4>1, <4>2 DEF ListRead
    <3>5. QED
      BY <1>0, <2>1, <3>4 DEF I!CompleteExport
  <2>2. CASE list_stop' = "pagination_repeated"
    BY <2>2 DEF I!CompleteExport
  <2>3. CASE /\ list_kind' = list_kind /\ list_steady' = list_steady /\ list_stop' = list_stop
             /\ list_out' = list_out \o I!Among(I!Records, {p \in ListPost : I!Fresh(p)})
    <3> DEFINE set == {p \in ListPost : I!Fresh(p)}
    <3>1. set \cap list_seen = {}
      BY DEF I!Fresh
    <3>2. list_out \in Seq(ListPost) /\ I!IsInjective(list_out) /\ I!ToSet(list_out) \subseteq list_seen
      BY DEF ListTypes, I!TypeOK, ListMet
    <3> HIDE DEF set
    <3>3. I!ToSet(list_out') = I!ToSet(list_out) \cup (I!ToSet(I!Records) \cap set)
      BY <2>3, <3>1, <3>2, NewAre DEF set
    <3>4. I!ToSet(list_out) \subseteq I!ToSet(list_out')
      BY <3>3
    <3>5. QED
      BY <2>3, <3>4 DEF I!CompleteExport
  <2>4. QED
    BY <1>2, <2>1, <2>2, <2>3 DEF I!JobPage, I!options, I!feedvars, I!End
<1>3. CASE I!DiscoverPage \/ I!TabPage \/ I!TabWrite
  <2>1. list_kind' # "job"
    BY <1>3 DEF I!DiscoverPage, I!TabPage, I!TabWrite, I!options, ListKept
  <2>2. QED
    BY <2>1 DEF I!CompleteExport
<1>4. CASE I!TabDetail \/ I!Fail \/ I!Budget \/ I!TabListed \/ I!TabEnd
  BY <1>1, <1>4 DEF I!TabDetail, I!Fail, I!Budget, I!TabListed, I!TabEnd, I!options, I!feedvars, I!End
<1>5. CASE I!Withdraw \/ \E p \in ListPost : I!Publish(p) \/ I!CrawlOther(p)
  BY <1>1, <1>5 DEF I!Publish, I!Withdraw, I!CrawlOther, I!options, I!feedvars
<1>6. QED
  BY <1>2, <1>3, <1>4, <1>5 DEF I!Next

\* An export begins with nothing.
LEMMA InitListing == I!Init => ListInv
<1> SUFFICES ASSUME I!Init PROVE ListInv
  OBVIOUS
<1> DEFINE none == << >>
<1>1. list_feed \in Seq(ListPost) /\ I!IsInjective(list_feed)
  BY ListingAssumption DEF I!Init, IsInjective, I!IsInjective
<1>2. list_steady \subseteq I!ToSet(list_feed) /\ I!ToSet(list_feed) \subseteq ListPost
  BY <1>1 DEF I!Init, I!ToSet
<1>3. /\ none \in Seq(ListPost) /\ I!ToSet(none) = {} /\ I!IsInjective(none) /\ Len(none) = 0
      /\ list_out = none /\ list_work = none
  BY DEF I!Init, I!ToSet, I!IsInjective
<1> HIDE DEF none
<1>4. I!Cardinality(ListPost) \in Nat
  BY ListingAssumption, SameCardinality, FS_CardinalityType
<1>5. ListTypes
  <2>1. Len(list_out) <= I!Cardinality(ListPost)
    BY <1>3, <1>4
  <2>2. list_seen \subseteq ListPost /\ list_prints \subseteq SUBSET ListPost /\ list_stored \subseteq ListPost
    BY <1>2 DEF I!Init
  <2>3. list_page \in 1..(ListPages + 1) /\ list_edits \in 0..MaxEdits /\ list_streak \in 0..2 /\ list_streak < 2
    BY ListingAssumption DEF I!Init
  <2>4. /\ list_kind \in {"job", "tab", "discover"} /\ list_saves \in BOOLEAN /\ list_incremental \in BOOLEAN
        /\ list_pc = "page" /\ list_stop \in I!Reason
    BY DEF I!Init, I!Reason
  <2>5. QED
    BY <1>1, <1>2, <1>3, <2>1, <2>2, <2>3, <2>4 DEF ListTypes, I!TypeOK
<1>6. ListMet
  BY <1>3 DEF ListMet, I!Init
<1>7. ListKept
  BY <1>3 DEF ListKept, I!Init
<1>8. ListRead
  <2>1. DOMAIN list_feed = 1..Len(list_feed)
    BY <1>1
  <2>2. ListAbove(list_page) = 0
    BY ListingAssumption DEF ListAbove, I!Init
  <2>3. \A i \in DOMAIN list_feed : ~(i <= 0)
    BY <2>1
  <2>4. QED
    BY <1>2, <2>2, <2>3 DEF ListRead
<1>9. I!CompleteExport
  BY DEF I!CompleteExport, I!Init
<1>10. QED
  BY <1>5, <1>6, <1>7, <1>8, <1>9 DEF ListInv

\* It keeps what it has established.
LEMMA NextListing == ASSUME ListInv, [I!Next]_(I!vars) PROVE ListInv'
<1>1. CASE I!Next
  BY <1>1, ListTypesKept, ListMetKept, ListKeptKept, ListReadKept, CompleteKept DEF ListInv
<1>2. CASE UNCHANGED I!vars
  BY <1>2 DEF ListInv, ListTypes, ListMet, ListKept, ListRead, ListAbove, I!CompleteExport,
              I!TypeOK, I!vars, I!feedvars, I!options, I!scan
<1>3. QED
  BY <1>1, <1>2

LEMMA StepOfListing ==
  ASSUME [CrawlersNext]_<<turn, vars, others>> PROVE [I!Next]_(I!vars)
  BY DEF CrawlersNext, others, listVars, I!vars, I!feedvars, I!options, I!scan

\* However posts are published and withdrawn while the pages are read, and
\* whatever pages the site serves, an export that says "complete" has every
\* matching post that was listed all the time and that no withdrawal moved past
\* the page that is read next, no post is exported twice, and what a saving
\* crawl writes is stored if it has a url.
THEOREM Faithful == CrawlersSpec => []ExportIsFaithful
<1>1. CrawlersInit => ListInv
  BY InitListing DEF CrawlersInit
<1>2. ListInv /\ [CrawlersNext]_<<turn, vars, others>> => ListInv'
  BY NextListing, StepOfListing
<1>3. ListInv => ExportIsFaithful
  BY DEF ListInv, ListMet, ListKept, ExportIsFaithful, I!ExportIsFaithful, I!NoneTwice, I!WrittenIsStored
<1>4. QED
  BY <1>1, <1>2, <1>3, PTL DEF CrawlersSpec

-----------------------------------------------------------------------------
(* The types of all the parts.                                              *)

LEMMA StepOfBackfill ==
  ASSUME [CrawlersNext]_<<turn, vars, others>> PROVE [Next]_vars
  BY DEF CrawlersNext

\* Every part keeps its types: pages, attempts, budgets and outputs stay within
\* their bounds, and no place of a batch is without the url or job it needs.
THEOREM CrawlersTypes == CrawlersSpec => []CrawlersTypeOK
<1>1. CrawlersInit => WellFormed /\ SiteInv /\ RepairInv /\ ListInv
  BY InitWellFormed, InitSite, InitRepair, InitListing DEF CrawlersInit
<1>2. WellFormed /\ SiteInv /\ RepairInv /\ ListInv /\ [CrawlersNext]_<<turn, vars, others>>
        => (WellFormed /\ SiteInv /\ RepairInv /\ ListInv)'
  BY NextWellFormed, NextSite, NextRepair, NextListing, StepOfBackfill, StepOfSite, StepOfRepair, StepOfListing
<1>3. WellFormed /\ SiteInv /\ RepairInv /\ ListInv => CrawlersTypeOK
  BY DEF WellFormed, SiteInv, RepairInv, ListInv, ListTypes, CrawlersTypeOK
<1>4. QED
  BY <1>1, <1>2, <1>3, PTL DEF CrawlersSpec
=============================================================================
