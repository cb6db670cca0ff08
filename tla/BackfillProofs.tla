--------------------------- MODULE BackfillProofs ---------------------------
(* What TLAPS proves about Backfill, for every set of sources, urls and      *)
(* processes, every limit and every listing.                                *)
EXTENDS Backfill, SumsAndRanks, TLAPS

\* The places at which a batch is working on one url.
OnUrl == {"budget", "charge", "fetch", "metabudget", "metacharge", "metafetch",
          "finish", "finishlast"}

\* What a batch may assume of itself at each place.
PlaceInv ==
  \A p \in Proc :
    /\ pc[p] # "idle" => job[p] \in Jobs
    /\ pc[p] \in OnUrl => url[p] \in Url
    /\ pc[p] \in {"list", "enqueue"} => page[p] > 0

WellFormed == TypeOK /\ PlaceInv

\* The places by name.
LEMMA PlaceNames ==
  {"idle", "begin", "retry", "mark", "check", "pick", "scan", "list", "enqueue", "repick",
   "next", "budget", "charge", "fetch", "metabudget", "metacharge", "metafetch", "finish",
   "finishlast", "fail", "unlock"} \subseteq Place
  BY DEF Place, AtDatabase, AtSite

\* A job names a source.
LEMMA JobSource ==
  ASSUME WellFormed, NEW p \in Proc, pc[p] # "idle"
  PROVE  job[p] \in Job /\ Src(p) \in Source
  BY BackfillAssumption DEF WellFormed, PlaceInv, Src, Job

\* Init establishes the types and the places.
LEMMA InitWellFormed == Init => WellFormed
<1> SUFFICES ASSUME Init PROVE WellFormed
  OBVIOUS
<1> USE BackfillAssumption DEF Init
<1>1. TypeOK
  <2>1. (CHOOSE s \in Source : TRUE) \in Source
    OBVIOUS
  <2>2. origin \in [Url -> Source]
    BY <2>1
  <2>3. posts \in SUBSET Url
    OBVIOUS
  <2>4. due \in [Source -> SUBSET Url]
    <3>1. ASSUME NEW s \in Source PROVE Range(InitialFeed[s]) \subseteq Url
      BY DEF Range
    <3>2. QED
      BY <3>1
  <2>5. QED
    BY <2>2, <2>3, <2>4, PlaceNames DEF TypeOK, Reason
<1>2. PlaceInv
  BY DEF PlaceInv, OnUrl
<1>3. QED
  BY <1>1, <1>2 DEF WellFormed

\* A move of one batch, and what it must bring along.
LEMMA Move ==
  ASSUME WellFormed, NEW p \in Proc, NEW l \in Place, Goto(p, l),
         \A q \in Proc \ {p} : job'[q] = job[q] /\ url'[q] = url[q] /\ page'[q] = page[q],
         l # "idle" => job'[p] \in Jobs,
         l \in OnUrl => url'[p] \in Url,
         l \in {"list", "enqueue"} => page'[p] > 0
  PROVE  pc' \in [Proc -> Place] /\ PlaceInv'
  BY DEF WellFormed, TypeOK, PlaceInv, Goto

\* A move that changes neither the job, the url nor the page.
LEMMA PlainMove ==
  ASSUME WellFormed, NEW p \in Proc, NEW l \in Place, Goto(p, l), pc[p] # "idle",
         UNCHANGED <<job, url, page>>,
         l \in OnUrl => pc[p] \in OnUrl,
         l \in {"list", "enqueue"} => pc[p] \in {"list", "enqueue"}
  PROVE  pc' \in [Proc -> Place] /\ PlaceInv'
  BY DEF WellFormed, TypeOK, PlaceInv, Goto

\* A batch that ends leaves nothing behind it.
LEMMA ForgetType ==
  ASSUME WellFormed, NEW p \in Proc, Forget(p)
  PROVE  /\ pc' \in [Proc -> Place] /\ job' \in [Proc -> Jobs \cup {NoJob}]
         /\ page' \in [Proc -> Nat] /\ last' \in [Proc -> Nat]
         /\ records' \in [Proc -> SUBSET Url] /\ todo' \in [Proc -> SUBSET Url]
         /\ url' \in [Proc -> Url \cup {NoUrl}] /\ tried' \in [Proc -> Nat]
         /\ reason' \in [Proc -> Reason] /\ PlaceInv'
<1>1. /\ job' \in [Proc -> Jobs \cup {NoJob}]
      /\ page' \in [Proc -> Nat] /\ last' \in [Proc -> Nat]
      /\ records' \in [Proc -> SUBSET Url] /\ todo' \in [Proc -> SUBSET Url]
      /\ url' \in [Proc -> Url \cup {NoUrl}] /\ tried' \in [Proc -> Nat]
      /\ reason' \in [Proc -> Reason]
  BY DEF WellFormed, TypeOK, Forget, Reason
<1>2. pc' \in [Proc -> Place] /\ PlaceInv'
  <2>1. "idle" \in Place /\ Goto(p, "idle")
    BY PlaceNames DEF Forget
  <2>2. \A q \in Proc \ {p} : job'[q] = job[q] /\ url'[q] = url[q] /\ page'[q] = page[q]
    BY DEF WellFormed, TypeOK, Forget
  <2>3. QED
    BY <2>1, <2>2, Move DEF OnUrl
<1>3. QED
  BY <1>1, <1>2

\* A page of the listing holds urls.
LEMMA ServedType ==
  ASSUME TypeOK, NEW s \in Source, NEW k \in Nat PROVE Served(s, k) \in SUBSET Url
  BY DEF TypeOK, Served

\* The bounds of the model are numbers.
LEMMA Bounds ==
  /\ MaxFaults \in Nat /\ MaxPublished \in Nat /\ MaxWithdrawn \in Nat /\ MaxCharges \in Nat
  /\ PageSize \in Nat /\ Pages \in Nat /\ Pages > 2 /\ Batch \in Nat /\ Batch > 0
  BY BackfillAssumption

\* A fault uses up the bound and nothing else.
LEMMA FaultType == ASSUME TypeOK, Fault PROVE faults' \in 0..MaxFaults
<1>1. faults \in 0..MaxFaults
  BY DEF TypeOK
<1>2. faults < MaxFaults /\ faults' = faults + 1
  BY DEF Fault
<1>3. QED
  BY <1>1, <1>2, Bounds

\* Every step keeps the types and the places.
LEMMA NextWellFormed == WellFormed /\ [Next]_vars => WellFormed'
<1> SUFFICES ASSUME WellFormed, [Next]_vars PROVE WellFormed'
  OBVIOUS
<1> USE BackfillAssumption, PlaceNames DEF progress, queue, stored, site, batch, vars, At
<1>0. TypeOK /\ PlaceInv
  BY DEF WellFormed
<1>1. ASSUME NEW p \in Proc, NEW j \in Jobs, Launch(p, j) PROVE WellFormed'
  <2>1. pc' \in [Proc -> Place] /\ PlaceInv'
    <3>1. "begin" \in Place /\ Goto(p, "begin") /\ job'[p] \in Jobs
      BY <1>0, <1>1 DEF Launch, TypeOK
    <3>2. \A q \in Proc \ {p} : job'[q] = job[q] /\ url'[q] = url[q] /\ page'[q] = page[q]
      BY <1>0, <1>1 DEF Launch, TypeOK
    <3>3. QED
      BY <3>1, <3>2, Move DEF OnUrl
  <2>2. QED
    BY <1>0, <1>1, <2>1 DEF Launch, WellFormed, TypeOK
<1>2. ASSUME NEW p \in Proc, Unlock(p) PROVE WellFormed'
  <2>1. Forget(p) /\ holder' \in Proc \cup {NoProc}
    BY <1>0, <1>2 DEF Unlock, TypeOK
  <2>2. QED
    BY <1>0, <1>2, <2>1, ForgetType DEF Unlock, WellFormed, TypeOK
<1>3. ASSUME NEW p \in Proc, ConnectionLost(p) PROVE WellFormed'
  <2>1. /\ Goto(p, "unlock")
        /\ pc[p] # "idle" /\ UNCHANGED <<job, url, page>>
    BY <1>3 DEF ConnectionLost, AtDatabase
  <2>2. pc' \in [Proc -> Place] /\ PlaceInv'
    BY <1>3, <2>1, PlainMove DEF ConnectionLost, OnUrl
  <2>9. QED
    BY <1>0, <1>3, <2>2 DEF ConnectionLost, AtDatabase, WellFormed, TypeOK
<1>4. ASSUME NEW p \in Proc, BeginBatch(p) PROVE WellFormed'
  <2>1. /\ Goto(p, "retry") \/ Goto(p, "mark")
        /\ pc[p] # "idle" /\ UNCHANGED <<job, url, page>>
    BY <1>4 DEF BeginBatch
  <2>2. pc' \in [Proc -> Place] /\ PlaceInv'
    BY <1>4, <2>1, PlainMove DEF BeginBatch, OnUrl
  <2>3. cooling' \in [Source -> BOOLEAN] /\ paused' \in [Source -> Reason \ {"transient"}]
    <3>1. cooling \in [Source -> BOOLEAN] /\ cooling' = [cooling EXCEPT ![Src(p)] = TRUE]
      BY <1>0, <1>4 DEF BeginBatch, TypeOK
    <3>2. cooling' \in [Source -> BOOLEAN]
      BY <3>1, Zenon
    <3>3. paused' = [paused EXCEPT ![Src(p)] = IF job[p].drain THEN @ ELSE "none"]
      BY <1>4 DEF BeginBatch
    <3>4. paused' \in [Source -> Reason \ {"transient"}]
      <4>1. paused \in [Source -> Reason \ {"transient"}] /\ "none" \in Reason \ {"transient"}
        BY <1>0 DEF TypeOK, Reason
      <4>2. Src(p) \in Source
        BY <1>4, JobSource DEF BeginBatch
      <4>3. (IF job[p].drain THEN paused[Src(p)] ELSE "none") \in Reason \ {"transient"}
        BY <4>1, <4>2
      <4>4. QED
        BY <3>3, <4>1, <4>2, <4>3, Zenon
    <3>5. QED
      BY <3>2, <3>4
  <2>9. QED
    BY <1>0, <1>4, <2>2, <2>3 DEF BeginBatch, WellFormed, TypeOK
<1>5. ASSUME NEW p \in Proc, RefuseBatch(p) PROVE WellFormed'
  <2>1. /\ Goto(p, "unlock")
        /\ pc[p] # "idle" /\ UNCHANGED <<job, url, page>>
    BY <1>5 DEF RefuseBatch
  <2>2. pc' \in [Proc -> Place] /\ PlaceInv'
    BY <1>5, <2>1, PlainMove DEF RefuseBatch, OnUrl
  <2>9. QED
    BY <1>0, <1>5, <2>2 DEF RefuseBatch, WellFormed, TypeOK
<1>6. ASSUME NEW p \in Proc, RetryFailed(p) PROVE WellFormed'
  <2>1. /\ Goto(p, "mark")
        /\ pc[p] # "idle" /\ UNCHANGED <<job, url, page>>
    BY <1>6 DEF RetryFailed
  <2>2. pc' \in [Proc -> Place] /\ PlaceInv'
    BY <1>6, <2>1, PlainMove DEF RetryFailed, OnUrl
  <2>9. QED
    BY <1>0, <1>6, <2>2 DEF RetryFailed, WellFormed, TypeOK
<1>7. ASSUME NEW p \in Proc, MarkExisting(p) PROVE WellFormed'
  <2>1. /\ Goto(p, "check")
        /\ pc[p] # "idle" /\ UNCHANGED <<job, url, page>>
    BY <1>7 DEF MarkExisting
  <2>2. pc' \in [Proc -> Place] /\ PlaceInv'
    BY <1>7, <2>1, PlainMove DEF MarkExisting, OnUrl
  <2>3. state' \in [Url -> {"none", "pending", "done", "failed"}]
    BY <1>0, <1>7 DEF MarkExisting, TypeOK
  <2>9. QED
    BY <1>0, <1>7, <2>2, <2>3 DEF MarkExisting, WellFormed, TypeOK
<1>8. ASSUME NEW p \in Proc, Check(p) PROVE WellFormed'
  <2>1. /\ Goto(p, "unlock") \/ Goto(p, "pick")
        /\ pc[p] # "idle" /\ UNCHANGED <<job, url, page>>
    BY <1>8 DEF Check
  <2>2. pc' \in [Proc -> Place] /\ PlaceInv'
    BY <1>8, <2>1, PlainMove DEF Check, OnUrl
  <2>9. QED
    BY <1>0, <1>8, <2>2 DEF Check, WellFormed, TypeOK
<1>9. ASSUME NEW p \in Proc, Pick(p) PROVE WellFormed'
  <2>1. /\ Goto(p, "scan") \/ Goto(p, "next")
        /\ pc[p] # "idle" /\ UNCHANGED <<job, url, page>>
    BY <1>9 DEF Pick
  <2>2. pc' \in [Proc -> Place] /\ PlaceInv'
    BY <1>9, <2>1, PlainMove DEF Pick, OnUrl
  <2>3. todo' \in [Proc -> SUBSET Url]
    <3>1. PICK some \in SUBSET Pending(Src(p)) : todo' = [todo EXCEPT ![p] = some]
      BY <1>9 DEF Pick
    <3>2. some \in SUBSET Url
      BY DEF Pending
    <3>3. QED
      BY <1>0, <3>1, <3>2 DEF TypeOK
  <2>9. QED
    BY <1>0, <1>9, <2>2, <2>3 DEF Pick, WellFormed, TypeOK
<1>10. ASSUME NEW p \in Proc, StartScan(p) PROVE WellFormed'
  <2> DEFINE s == Src(p)
             n == IF Restarts(s) THEN 1 ELSE next[s]
  <2>1. s \in Source
    BY <1>10, JobSource DEF StartScan
  <2>2. n \in Nat \ {0} /\ First(n) \in Nat \ {0}
    <3>1. next[s] \in Nat \ {0}
      BY <1>0, <2>1 DEF TypeOK
    <3>2. n \in Nat \ {0}
      BY <3>1
    <3>3. \A k \in Nat \ {0} : First(k) \in Nat \ {0}
      BY DEF First
    <3>4. QED
      BY <3>2, <3>3
  <2>3. /\ next' = [next EXCEPT ![s] = n]
        /\ scanned' = [scanned EXCEPT ![s] = IF Restarts(s) THEN {} ELSE @]
        /\ completed' = [completed EXCEPT ![s] = @ /\ ~Restarts(s)]
        /\ page' = [page EXCEPT ![p] = First(n)]
        /\ last' = [last EXCEPT ![p] = First(n) + Pages - 1]
    BY <1>10 DEF StartScan
  <2>4. /\ next' \in [Source -> Nat \ {0}]
        /\ scanned' \in [Source -> SUBSET ((Nat \ {0}) \X SUBSET Url)]
    <3>1. /\ next \in [Source -> Nat \ {0}]
          /\ scanned \in [Source -> SUBSET ((Nat \ {0}) \X SUBSET Url)]
      BY <1>0 DEF TypeOK
    <3>2. next' \in [Source -> Nat \ {0}]
      BY <2>1, <2>2, <2>3, <3>1
    <3>3. (IF Restarts(s) THEN {} ELSE scanned[s]) \in SUBSET ((Nat \ {0}) \X SUBSET Url)
      BY <2>1, <3>1
    <3>4. scanned' \in [Source -> SUBSET ((Nat \ {0}) \X SUBSET Url)]
      BY <2>1, <2>3, <3>1, <3>3, Zenon
    <3>5. QED
      BY <3>2, <3>4
  <2>5. page' \in [Proc -> Nat] /\ last' \in [Proc -> Nat]
    <3>1. First(n) \in Nat /\ First(n) + Pages - 1 \in Nat
      BY <2>2
    <3>2. QED
      BY <1>0, <2>3, <3>1 DEF TypeOK
  <2>6. completed' \in [Source -> BOOLEAN]
    <3>1. (completed[s] /\ ~Restarts(s)) \in BOOLEAN
      OBVIOUS
    <3>2. QED
      BY <1>0, <2>1, <2>3, <3>1, Zenon DEF TypeOK
  <2>7. pc' \in [Proc -> Place] /\ PlaceInv'
    <3>1. /\ "list" \in Place /\ Goto(p, "list") /\ job'[p] \in Jobs
          /\ page'[p] = First(n)
      BY <1>0, <1>10, <2>3 DEF StartScan, TypeOK, PlaceInv
    <3>2. \A q \in Proc \ {p} : job'[q] = job[q] /\ url'[q] = url[q] /\ page'[q] = page[q]
      BY <1>0, <1>10, <2>3 DEF StartScan, TypeOK
    <3>3. QED
      BY <2>2, <3>1, <3>2, Move DEF OnUrl
  <2>8. due' \in [Source -> SUBSET Url]
    <3>1. feed[s] \in Seq(Url) /\ due \in [Source -> SUBSET Url]
      BY <1>0, <2>1 DEF TypeOK
    <3>2. Range(feed[s]) \subseteq Url
      BY <3>1 DEF Range
    <3>3. (IF Restarts(s) THEN Range(feed[s]) ELSE due[s]) \in SUBSET Url
      BY <2>1, <3>1, <3>2
    <3>4. due' = [due EXCEPT ![s] = IF Restarts(s) THEN Range(feed[s]) ELSE due[s]]
      BY <1>10 DEF StartScan
    <3>5. QED
      BY <3>1, <3>3, <3>4
  <2>9. QED
    BY <1>0, <1>10, <2>4, <2>5, <2>6, <2>7, <2>8 DEF StartScan, WellFormed, TypeOK
<1>11. ASSUME NEW p \in Proc, ListPage(p) PROVE WellFormed'
  <2>1. /\ Goto(p, "enqueue")
        /\ pc[p] # "idle" /\ UNCHANGED <<job, url, page>>
    BY <1>11 DEF ListPage
  <2>2. pc' \in [Proc -> Place] /\ PlaceInv'
    BY <1>11, <2>1, PlainMove DEF ListPage, OnUrl
  <2>3. records' \in [Proc -> SUBSET Url]
    <3>1. Served(Src(p), page[p]) \in SUBSET Url
      BY <1>0, <1>11, JobSource, ServedType DEF ListPage, TypeOK
    <3>2. QED
      BY <1>0, <1>11, <3>1 DEF ListPage, TypeOK
  <2>9. QED
    BY <1>0, <1>11, <2>2, <2>3 DEF ListPage, WellFormed, TypeOK
<1>12. ASSUME NEW p \in Proc, EnqueuePage(p) PROVE WellFormed'
  <2> DEFINE s == Src(p)
             new == records[p] \ Known
  <2>1. s \in Source /\ page[p] \in Nat \ {0} /\ records[p] \in SUBSET Url
    <3>1. pc[p] = "enqueue"
      BY <1>12 DEF EnqueuePage
    <3>2. s \in Source
      BY <3>1, JobSource
    <3>3. page[p] \in Nat /\ page[p] > 0
      BY <1>0, <3>1 DEF TypeOK, PlaceInv
    <3>4. records[p] \in SUBSET Url
      BY <1>0 DEF TypeOK
    <3>5. QED
      BY <3>2, <3>3, <3>4
  <2>2. /\ scanned' = [scanned EXCEPT ![s] =
             {x \in @ : x[1] # page[p]}
               \cup (IF records[p] = {} THEN {} ELSE {<<page[p], records[p]>>})]
        /\ state' = [u \in Url |-> IF u \in new THEN "pending" ELSE state[u]]
        /\ origin' = [u \in Url |-> IF u \in new THEN s ELSE origin[u]]
        /\ next' = [next EXCEPT ![s] = IF @ > page[p] THEN @ ELSE page[p] + 1]
        /\ completed' = [completed EXCEPT ![s] = Ended(p)]
    BY <1>12 DEF EnqueuePage
  <2>3. scanned' \in [Source -> SUBSET ((Nat \ {0}) \X SUBSET Url)]
    <3>1. {x \in scanned[s] : x[1] # page[p]} \cup
            (IF records[p] = {} THEN {} ELSE {<<page[p], records[p]>>})
              \in SUBSET ((Nat \ {0}) \X SUBSET Url)
      <4>1. scanned[s] \in SUBSET ((Nat \ {0}) \X SUBSET Url)
        BY <1>0, <2>1 DEF TypeOK
      <4>2. <<page[p], records[p]>> \in (Nat \ {0}) \X SUBSET Url
        BY <2>1
      <4>3. QED
        BY <4>1, <4>2
    <3>2. scanned \in [Source -> SUBSET ((Nat \ {0}) \X SUBSET Url)]
      BY <1>0 DEF TypeOK
    <3>3. QED
      BY <2>1, <2>2, <3>1, <3>2, Zenon
  <2>4. state' \in [Url -> {"none", "pending", "done", "failed"}] /\ origin' \in [Url -> Source]
    <3>1. state \in [Url -> {"none", "pending", "done", "failed"}] /\ origin \in [Url -> Source]
      BY <1>0 DEF TypeOK
    <3>2. state' \in [Url -> {"none", "pending", "done", "failed"}]
      BY <2>2, <3>1
    <3>3. origin' \in [Url -> Source]
      BY <2>1, <2>2, <3>1
    <3>4. QED
      BY <3>2, <3>3
  <2>5. next' \in [Source -> Nat \ {0}]
    <3>1. next \in [Source -> Nat \ {0}]
      BY <1>0 DEF TypeOK
    <3>2. (IF next[s] > page[p] THEN next[s] ELSE page[p] + 1) \in Nat \ {0}
      BY <2>1, <3>1
    <3>3. QED
      BY <2>1, <2>2, <3>1, <3>2, Zenon
  <2>6. completed' \in [Source -> BOOLEAN]
    BY <1>0, <2>2, Zenon DEF TypeOK, Ended
  <2>7. \/ Goto(p, "repick") /\ UNCHANGED page
        \/ Goto(p, "list") /\ page' = [page EXCEPT ![p] = @ + 1]
    BY <1>12 DEF EnqueuePage
  <2>8. page' \in [Proc -> Nat] /\ records' \in [Proc -> SUBSET Url]
    <3>1. page \in [Proc -> Nat] /\ records \in [Proc -> SUBSET Url]
      BY <1>0 DEF TypeOK
    <3>2. page' \in [Proc -> Nat]
      <4>1. page[p] + 1 \in Nat
        BY <3>1
      <4>2. CASE UNCHANGED page
        BY <3>1, <4>2
      <4>3. CASE page' = [page EXCEPT ![p] = @ + 1]
        BY <3>1, <4>1, <4>3
      <4>4. QED
        BY <2>7, <4>2, <4>3
    <3>3. records' = [records EXCEPT ![p] = {}]
      BY <1>12 DEF EnqueuePage
    <3>4. QED
      BY <3>1, <3>2, <3>3
  <2>9. \A q \in Proc \ {p} : job'[q] = job[q] /\ url'[q] = url[q] /\ page'[q] = page[q]
    BY <1>0, <1>12, <2>7 DEF EnqueuePage, TypeOK
  <2>10. job'[p] \in Jobs /\ page'[p] > 0
    BY <1>0, <1>12, <2>1, <2>7 DEF EnqueuePage, TypeOK, PlaceInv
  <2>11. pc' \in [Proc -> Place] /\ PlaceInv'
    BY <2>7, <2>9, <2>10, Move DEF OnUrl
  <2>12. QED
    BY <1>0, <1>12, <2>3, <2>4, <2>5, <2>6, <2>8, <2>11 DEF EnqueuePage, WellFormed, TypeOK
<1>13. ASSUME NEW p \in Proc, RejectPage(p) PROVE WellFormed'
  <2>1. /\ Goto(p, "fail")
        /\ pc[p] # "idle" /\ UNCHANGED <<job, url, page>>
    BY <1>13 DEF RejectPage
  <2>2. pc' \in [Proc -> Place] /\ PlaceInv'
    BY <1>13, <2>1, PlainMove DEF RejectPage, OnUrl
  <2>3. reason' \in [Proc -> Reason]
    BY <1>0, <1>13 DEF RejectPage, TypeOK, Reason
  <2>9. QED
    BY <1>0, <1>13, <2>2, <2>3 DEF RejectPage, WellFormed, TypeOK
<1>14. ASSUME NEW p \in Proc, NextUrl(p) PROVE WellFormed'
  <2>1. CASE Goto(p, "unlock") /\ UNCHANGED <<todo, url>>
    <3>1. pc' \in [Proc -> Place] /\ PlaceInv'
      BY <1>14, <2>1, PlainMove DEF NextUrl, OnUrl
    <3>2. QED
      BY <1>0, <1>14, <2>1, <3>1 DEF NextUrl, WellFormed, TypeOK
  <2>2. ASSUME NEW u \in todo[p], url' = [url EXCEPT ![p] = u],
               todo' = [todo EXCEPT ![p] = @ \ {u}], Goto(p, "budget")
        PROVE  WellFormed'
    <3>1. u \in Url /\ url' \in [Proc -> Url \cup {NoUrl}] /\ todo' \in [Proc -> SUBSET Url]
      BY <1>0, <2>2 DEF TypeOK
    <3>2. \A q \in Proc \ {p} : job'[q] = job[q] /\ url'[q] = url[q] /\ page'[q] = page[q]
      BY <1>0, <1>14, <2>2 DEF NextUrl, TypeOK
    <3>3. url'[p] \in Url /\ job'[p] \in Jobs
      BY <1>0, <1>14, <2>2, <3>1 DEF NextUrl, TypeOK, PlaceInv
    <3>4. pc' \in [Proc -> Place] /\ PlaceInv'
      BY <2>2, <3>2, <3>3, Move
    <3>5. QED
      BY <1>0, <1>14, <3>1, <3>4 DEF NextUrl, WellFormed, TypeOK
  <2>3. QED
    BY <1>14, <2>1, <2>2 DEF NextUrl
<1>15. ASSUME NEW p \in Proc, ReadBudget(p) PROVE WellFormed'
  <2>1. /\ Goto(p, "charge") \/ Goto(p, "metacharge") \/ Goto(p, "unlock") \/ Goto(p, "finishlast")
        /\ pc[p] # "idle" /\ UNCHANGED <<job, url, page>>
    BY <1>15 DEF ReadBudget
  <2>2. pc' \in [Proc -> Place] /\ PlaceInv'
    BY <1>15, <2>1, PlainMove DEF ReadBudget, OnUrl
  <2>9. QED
    BY <1>0, <1>15, <2>2 DEF ReadBudget, WellFormed, TypeOK
<1>16. ASSUME NEW p \in Proc, Charge(p) PROVE WellFormed'
  <2>1. /\ Goto(p, "fetch") \/ Goto(p, "metafetch")
        /\ pc[p] # "idle" /\ UNCHANGED <<job, url, page>>
    BY <1>16 DEF Charge
  <2>2. pc' \in [Proc -> Place] /\ PlaceInv'
    BY <1>16, <2>1, PlainMove DEF Charge, OnUrl
  <2>3. attempts' \in [Url -> Nat] /\ charges' \in [Source -> Nat] /\ tried' \in [Proc -> Nat]
    <3>1. /\ attempts \in [Url -> Nat] /\ charges \in [Source -> Nat] /\ tried \in [Proc -> Nat]
      BY <1>0 DEF TypeOK
    <3>2. /\ charges' = [charges EXCEPT ![Src(p)] = @ + 1]
          /\ tried' = [tried EXCEPT ![p] = @ + 1]
          /\ attempts' = [attempts EXCEPT ![url[p]] =
                            IF state[url[p]] = "pending" THEN @ + 1 ELSE @]
      BY <1>16 DEF Charge
    <3>3. charges' \in [Source -> Nat]
      <4>1. Src(p) \in Source
        BY <1>16, JobSource DEF Charge
      <4>2. charges[Src(p)] + 1 \in Nat
        BY <3>1, <4>1
      <4>3. QED
        BY <3>1, <3>2, <4>1, <4>2
    <3>4. tried' \in [Proc -> Nat]
      BY <3>1, <3>2
    <3>5. attempts' \in [Url -> Nat]
      <4>1. url[p] \in Url
        BY <1>0, <1>16 DEF Charge, PlaceInv, OnUrl
      <4>2. attempts[url[p]] \in Nat /\ attempts[url[p]] + 1 \in Nat
        BY <3>1, <4>1
      <4>3. QED
        BY <3>1, <3>2, <4>1, <4>2
    <3>6. QED
      BY <3>3, <3>4, <3>5
  <2>9. QED
    BY <1>0, <1>16, <2>2, <2>3 DEF Charge, WellFormed, TypeOK
<1>17. ASSUME NEW p \in Proc, Fetch(p) PROVE WellFormed'
  <2>1. /\ Goto(p, "finish") \/ Goto(p, "finishlast") \/ Goto(p, "metabudget")
        /\ pc[p] # "idle" /\ UNCHANGED <<job, url, page>>
    BY <1>17 DEF Fetch, DatelessNext
  <2>2. pc' \in [Proc -> Place] /\ PlaceInv'
    BY <1>17, <2>1, PlainMove DEF Fetch, OnUrl
  <2>9. QED
    BY <1>0, <1>17, <2>2 DEF Fetch, DatelessNext, WellFormed, TypeOK
<1>18. ASSUME NEW p \in Proc, FetchMetadata(p) PROVE WellFormed'
  <2>1. /\ Goto(p, "finish")
        /\ pc[p] # "idle" /\ UNCHANGED <<job, url, page>>
    BY <1>18 DEF FetchMetadata
  <2>2. pc' \in [Proc -> Place] /\ PlaceInv'
    BY <1>18, <2>1, PlainMove DEF FetchMetadata, OnUrl
  <2>9. QED
    BY <1>0, <1>18, <2>2 DEF FetchMetadata, WellFormed, TypeOK
<1>19. ASSUME NEW p \in Proc, Finish(p) PROVE WellFormed'
  <2>1. url[p] \in Url
    BY <1>0, <1>19 DEF Finish, PlaceInv, OnUrl
  <2>2. /\ posts' \in SUBSET Url /\ state' \in [Url -> {"none", "pending", "done", "failed"}]
        /\ url' \in [Proc -> Url \cup {NoUrl}]
    BY <1>0, <1>19, <2>1 DEF Finish, Stored, TypeOK
  <2>3. \A q \in Proc \ {p} : job'[q] = job[q] /\ url'[q] = url[q] /\ page'[q] = page[q]
    BY <1>0, <1>19 DEF Finish, TypeOK
  <2>4. (Goto(p, "next") \/ Goto(p, "unlock")) /\ job'[p] \in Jobs
    BY <1>0, <1>19 DEF Finish, PlaceInv
  <2>5. pc' \in [Proc -> Place] /\ PlaceInv'
    BY <2>3, <2>4, Move DEF OnUrl
  <2>6. QED
    BY <1>0, <1>19, <2>2, <2>5 DEF Finish, WellFormed, TypeOK
<1>20. ASSUME NEW p \in Proc, Stopped(p) PROVE WellFormed'
  <2>1. /\ Goto(p, "fail")
        /\ pc[p] # "idle" /\ UNCHANGED <<job, url, page>>
    BY <1>20 DEF Stopped, AtSite, Fault
  <2>2. pc' \in [Proc -> Place] /\ PlaceInv'
    BY <1>20, <2>1, PlainMove DEF Stopped, OnUrl
  <2>3. reason' \in [Proc -> Reason]
    <3>1. PICK why \in {"blocked", "transient"} : reason' = [reason EXCEPT ![p] = why]
      BY <1>20 DEF Stopped
    <3>2. QED
      BY <1>0, <3>1 DEF TypeOK, Reason
  <2>9. QED
    BY <1>0, <1>20, <2>2, <2>3, FaultType DEF Stopped, WellFormed, TypeOK
<1>21. ASSUME NEW p \in Proc, Fail(p) PROVE WellFormed'
  <2>1. /\ Goto(p, "unlock")
        /\ pc[p] # "idle" /\ UNCHANGED <<job, url, page>>
    BY <1>21 DEF Fail
  <2>2. pc' \in [Proc -> Place] /\ PlaceInv'
    BY <1>21, <2>1, PlainMove DEF Fail, OnUrl
  <2>3. /\ state' \in [Url -> {"none", "pending", "done", "failed"}]
        /\ paused' \in [Source -> Reason \ {"transient"}]
    <3>1. state' \in [Url -> {"none", "pending", "done", "failed"}]
      BY <1>0, <1>21 DEF Fail, TypeOK
    <3>2. (IF reason[p] = "transient" THEN paused[Src(p)] ELSE reason[p]) \in Reason \ {"transient"}
      BY <1>0, <1>21, JobSource DEF Fail, TypeOK
    <3>3. QED
      BY <1>0, <1>21, <3>1, <3>2 DEF Fail, TypeOK
  <2>9. QED
    BY <1>0, <1>21, <2>2, <2>3 DEF Fail, WellFormed, TypeOK
<1>22. ASSUME NEW p \in Proc, Error(p) PROVE WellFormed'
  <2>1. /\ Goto(p, "unlock")
        /\ pc[p] # "idle" /\ UNCHANGED <<job, url, page>>
    BY <1>22 DEF Error, Fault
  <2>2. pc' \in [Proc -> Place] /\ PlaceInv'
    BY <1>22, <2>1, PlainMove DEF Error, OnUrl
  <2>9. QED
    BY <1>0, <1>22, <2>2, FaultType DEF Error, WellFormed, TypeOK
<1>23. ASSUME NEW p \in Proc, Crash(p) PROVE WellFormed'
  <2>1. Forget(p) /\ faults' \in 0..MaxFaults
    BY <1>0, <1>23, FaultType DEF Crash
  <2>2. QED
    BY <1>0, <1>23, <2>1, ForgetType DEF Crash, WellFormed, TypeOK
<1>24. ASSUME CloseDeadSession PROVE WellFormed'
  BY <1>0, <1>24 DEF CloseDeadSession, WellFormed, TypeOK, PlaceInv
<1>25. ASSUME Disconnect PROVE WellFormed'
  BY <1>0, <1>25, FaultType DEF Disconnect, WellFormed, TypeOK, PlaceInv
<1>26. ASSUME NEW s \in Source, CooldownOver(s) PROVE WellFormed'
  BY <1>0, <1>26 DEF CooldownOver, WellFormed, TypeOK, PlaceInv
<1>27. ASSUME NewDay PROVE WellFormed'
  BY <1>0, <1>27 DEF NewDay, WellFormed, TypeOK, PlaceInv
<1>28. ASSUME NEW s \in Source, NEW u \in Url, Publish(s, u) PROVE WellFormed'
  <2>1. <<u>> \o feed[s] \in Seq(Url)
    BY <1>0 DEF TypeOK
  <2>2. feed' \in [Source -> Seq(Url)] /\ published' \in 0..MaxPublished
    <3>1. feed \in [Source -> Seq(Url)] /\ published \in 0..MaxPublished
      BY <1>0 DEF TypeOK
    <3>2. feed' = [feed EXCEPT ![s] = <<u>> \o @]
      BY <1>28 DEF Publish
    <3>3. feed' \in [Source -> Seq(Url)]
      BY <2>1, <3>1, <3>2
    <3>4. published < MaxPublished /\ published' = published + 1
      BY <1>28 DEF Publish
    <3>5. QED
      BY <3>1, <3>3, <3>4, Bounds
  <2>3. QED
    BY <1>0, <1>28, <2>2 DEF Publish, WellFormed, TypeOK, PlaceInv
<1>29. ASSUME NEW s \in Source, Withdraw(s) PROVE WellFormed'
  <2>1. PICK i \in DOMAIN feed[s] :
          feed' = [feed EXCEPT ![s] = SubSeq(@, 1, i - 1) \o SubSeq(@, i + 1, Len(@))]
    BY <1>29 DEF Withdraw
  <2>2. feed[s] \in Seq(Url) /\ i \in 1..Len(feed[s])
    <3>1. feed[s] \in Seq(Url)
      BY <1>0 DEF TypeOK
    <3>2. DOMAIN feed[s] = 1..Len(feed[s])
      BY <3>1
    <3>3. QED
      BY <2>1, <3>1, <3>2
  <2>3. SubSeq(feed[s], 1, i - 1) \o SubSeq(feed[s], i + 1, Len(feed[s])) \in Seq(Url)
    <3>1. /\ SubSeq(feed[s], 1, i - 1) \in Seq(Url)
          /\ SubSeq(feed[s], i + 1, Len(feed[s])) \in Seq(Url)
      BY <2>2
    <3>2. QED
      BY <3>1
  <2>4. feed' \in [Source -> Seq(Url)] /\ withdrawn' \in 0..MaxWithdrawn
    <3>1. feed \in [Source -> Seq(Url)] /\ withdrawn \in 0..MaxWithdrawn
      BY <1>0 DEF TypeOK
    <3>2. feed' \in [Source -> Seq(Url)]
      BY <2>1, <2>3, <3>1
    <3>3. withdrawn < MaxWithdrawn /\ withdrawn' = withdrawn + 1
      BY <1>29 DEF Withdraw
    <3>4. QED
      BY <3>1, <3>2, <3>3, Bounds
  <2>5. due' \in [Source -> SUBSET Url]
    <3>1. PICK gone : due' = [due EXCEPT ![s] = due[s] \ gone]
      BY <1>29 DEF Withdraw
    <3>2. due \in [Source -> SUBSET Url] /\ due[s] \ gone \in SUBSET Url
      BY <1>0 DEF TypeOK
    <3>3. QED
      BY <3>1, <3>2
  <2>6. QED
    BY <1>0, <1>29, <2>4, <2>5 DEF Withdraw, WellFormed, TypeOK, PlaceInv
<1>30. ASSUME NEW u \in Url, StoreElsewhere(u) PROVE WellFormed'
  BY <1>0, <1>30, FaultType DEF StoreElsewhere, WellFormed, TypeOK, PlaceInv
<1>31. CASE UNCHANGED vars
  BY <1>0, <1>31 DEF WellFormed, TypeOK, PlaceInv
<1> QED
  BY <1>1, <1>2, <1>3, <1>4, <1>5, <1>6, <1>7, <1>8, <1>9, <1>10, <1>11, <1>12, <1>13,
     <1>14, <1>15, <1>16, <1>17, <1>18, <1>19, <1>20, <1>21, <1>22, <1>23, <1>24, <1>25,
     <1>26, <1>27, <1>28, <1>29, <1>30, <1>31 DEF Next, Step

\* Every variable keeps its type in every behaviour.
THEOREM TypeCorrect == Spec => []TypeOK
<1>1. Spec => []WellFormed
  BY InitWellFormed, NextWellFormed, PTL DEF Spec
<1>2. WellFormed => TypeOK
  BY DEF WellFormed
<1>3. QED
  BY <1>1, <1>2, PTL
-----------------------------------------------------------------------------
(* How a step may touch the batches and the queue.                         *)

\* What a batch remembers.
Same(q) == /\ pc'[q] = pc[q] /\ job'[q] = job[q] /\ url'[q] = url[q]
           /\ todo'[q] = todo[q] /\ tried'[q] = tried[q]

\* A step of the site, of the clock, of another writer, or of the server.
Outside ==
  /\ UNCHANGED <<paused, queue, pc, job, url, todo, tried>> /\ posts \subseteq posts'
  /\ holder' \in {holder, NoProc}
  /\ charges' = charges \/ charges' = [s \in Source |-> 0]

\* A batch ends, and keeps its hands off the queue.
Ends(p) ==
  /\ \A q \in Proc \ {p} : Same(q)
  /\ pc'[p] \in {"unlock", "idle", "fail"} /\ tried'[p] \in {0, tried[p]}
  /\ UNCHANGED <<paused, queue, posts, charges>> /\ holder' \in {holder, NoProc}

\* A batch does its work.
Works(p) ==
  \/ \E j \in Jobs : Launch(p, j)
  \/ BeginBatch(p) \/ RetryFailed(p) \/ MarkExisting(p) \/ Check(p) \/ Pick(p)
  \/ StartScan(p) \/ ListPage(p) \/ EnqueuePage(p)
  \/ NextUrl(p) \/ ReadBudget(p) \/ Charge(p) \/ Fetch(p) \/ FetchMetadata(p) \/ Finish(p)
  \/ Fail(p)

\* Every step is of one of the three kinds.
LEMMA StepKinds ==
  ASSUME WellFormed, [Next]_vars
  PROVE  Outside \/ \E p \in Proc : Ends(p) \/ Works(p)
<1> USE DEF progress, queue, stored, site, batch, vars
<1>0. TypeOK
  BY DEF WellFormed
<1>1. ASSUME NEW p \in Proc, Unlock(p) \/ Crash(p) PROVE Ends(p)
  <2>1. Forget(p) /\ UNCHANGED <<progress, queue, stored>> /\ holder' \in {holder, NoProc}
    BY <1>1 DEF Unlock, Crash
  <2>2. \A q \in Proc \ {p} : Same(q)
    BY <1>0, <2>1 DEF TypeOK, Forget, Goto, Same
  <2>3. pc'[p] = "idle" /\ tried'[p] = 0
    BY <1>0, <2>1 DEF TypeOK, Forget, Goto
  <2>4. QED
    BY <2>1, <2>2, <2>3 DEF Ends
<1>2. ASSUME NEW p \in Proc, ConnectionLost(p) \/ RefuseBatch(p) \/ Error(p) PROVE Ends(p)
  BY <1>0, <1>2 DEF TypeOK, ConnectionLost, RefuseBatch, Error, Goto, Same, Ends
<1>3. ASSUME NEW p \in Proc, RejectPage(p) \/ Stopped(p) PROVE Ends(p)
  BY <1>0, <1>3 DEF TypeOK, RejectPage, Stopped, Goto, Same, Ends
<1>4. ASSUME CloseDeadSession \/ Disconnect \/ NewDay PROVE Outside
  BY <1>4 DEF CloseDeadSession, Disconnect, NewDay, Outside
<1>5. ASSUME NEW s \in Source, NEW u \in Url, CooldownOver(s) \/ Withdraw(s) \/ Publish(s, u)
      PROVE  Outside
  BY <1>5 DEF CooldownOver, Withdraw, Publish, Outside
<1>6. ASSUME NEW s \in Source, CooldownOver(s) \/ Withdraw(s) PROVE Outside
  BY <1>6 DEF CooldownOver, Withdraw, Outside
<1>7. ASSUME NEW u \in Url, StoreElsewhere(u) PROVE Outside
  BY <1>7 DEF StoreElsewhere, Outside
<1>8. CASE UNCHANGED vars
  BY <1>8 DEF Outside
<1> QED
  BY <1>1, <1>2, <1>3, <1>4, <1>5, <1>6, <1>7, <1>8 DEF Next, Step, Works

-----------------------------------------------------------------------------
(* The bound of a batch.                                                   *)

\* A request is only prepared while the batch may make one more.
BoundInv ==
  \A p \in Proc :
    /\ tried[p] <= Batch
    /\ pc[p] \in {"budget", "charge", "metabudget", "metacharge"} => tried[p] < Batch

\* A move that makes no request.
LEMMA BoundMove ==
  ASSUME WellFormed, BoundInv, NEW p \in Proc, NEW l \in Place, Goto(p, l), UNCHANGED tried,
         l \in {"budget", "charge", "metabudget", "metacharge"} => tried[p] < Batch
  PROVE  BoundInv'
  BY DEF WellFormed, TypeOK, BoundInv, Goto

\* Every step keeps the bound.
LEMMA NextBound == WellFormed /\ BoundInv /\ [Next]_vars => BoundInv'
<1> SUFFICES ASSUME WellFormed, BoundInv, [Next]_vars PROVE BoundInv'
  OBVIOUS
<1> USE PlaceNames, Bounds DEF At
<1>0. TypeOK
  BY DEF WellFormed
<1>1. CASE Outside
  BY <1>1 DEF Outside, BoundInv
<1>2. ASSUME NEW p \in Proc, Ends(p) PROVE BoundInv'
  BY <1>2 DEF Ends, Same, BoundInv
<1>3. ASSUME NEW p \in Proc, Works(p) PROVE BoundInv'
  <2>1. ASSUME NEW j \in Jobs, Launch(p, j) PROVE BoundInv'
    BY <2>1, BoundMove DEF Launch, batch
  <2>2. ASSUME BeginBatch(p) \/ RetryFailed(p) \/ MarkExisting(p) \/ Check(p) \/ Fail(p)
        PROVE  BoundInv'
    BY <2>2, BoundMove DEF BeginBatch, RetryFailed, MarkExisting, Check, Fail, batch
  <2>3. ASSUME Pick(p) \/ StartScan(p) \/ ListPage(p) \/ EnqueuePage(p) \/ Finish(p)
        PROVE  BoundInv'
    BY <2>3, BoundMove DEF Pick, StartScan, ListPage, EnqueuePage, Finish
  <2>4. ASSUME NextUrl(p) PROVE BoundInv'
    BY <2>4, BoundMove DEF NextUrl
  <2>5. ASSUME ReadBudget(p) PROVE BoundInv'
    BY <2>5, BoundMove DEF ReadBudget, BoundInv, batch
  <2>6. ASSUME Charge(p) PROVE BoundInv'
    <3>1. tried[p] < Batch /\ tried' = [tried EXCEPT ![p] = @ + 1]
      BY <2>6 DEF Charge, BoundInv
    <3>2. pc' = [pc EXCEPT ![p] = "fetch"] \/ pc' = [pc EXCEPT ![p] = "metafetch"]
      BY <2>6 DEF Charge, Goto
    <3>3. QED
      BY <1>0, <3>1, <3>2 DEF TypeOK, BoundInv
  <2>7. ASSUME Fetch(p) PROVE BoundInv'
    <3>1. tried[p] \in Nat
      BY <1>0 DEF TypeOK
    <3>2. QED
      BY <2>7, <3>1, BoundMove DEF Fetch, DatelessNext, batch
  <2>8. ASSUME FetchMetadata(p) PROVE BoundInv'
    BY <2>8, BoundMove DEF FetchMetadata, batch
  <2>9. QED
    BY <1>3, <2>1, <2>2, <2>3, <2>4, <2>5, <2>6, <2>7, <2>8 DEF Works
<1> QED
  BY <1>1, <1>2, <1>3, StepKinds

\* A batch never makes more requests than its limit.
THEOREM BatchBound == Spec => []BatchIsBounded
<1>1. Init => BoundInv
  BY Bounds DEF Init, BoundInv
<1>2. BoundInv => BatchIsBounded
  BY DEF BoundInv, BatchIsBounded
<1>3. QED
  BY <1>1, <1>2, InitWellFormed, NextWellFormed, NextBound, PTL DEF Spec

-----------------------------------------------------------------------------
(* Nothing leaves the queue as done before its post is stored.             *)

\* Every step keeps it.
LEMMA NextDone == WellFormed /\ DoneIsStored /\ [Next]_vars => DoneIsStored'
<1> SUFFICES ASSUME WellFormed, DoneIsStored, [Next]_vars PROVE DoneIsStored'
  OBVIOUS
<1> USE DEF queue, stored
<1>0. TypeOK /\ PlaceInv
  BY DEF WellFormed
<1>1. CASE UNCHANGED queue /\ posts \subseteq posts'
  BY <1>1 DEF DoneIsStored
<1>2. ASSUME NEW p \in Proc, Works(p) PROVE DoneIsStored'
  <2>1. ASSUME RetryFailed(p) PROVE DoneIsStored'
    BY <2>1 DEF RetryFailed, DoneIsStored
  <2>2. ASSUME MarkExisting(p) PROVE DoneIsStored'
    BY <2>2 DEF MarkExisting, DoneIsStored
  <2>3. ASSUME EnqueuePage(p) PROVE DoneIsStored'
    BY <2>3 DEF EnqueuePage, DoneIsStored
  <2>4. ASSUME Finish(p) PROVE DoneIsStored'
    BY <1>0, <2>4 DEF Finish, Stored, TypeOK, DoneIsStored
  <2>5. ASSUME Fail(p) PROVE DoneIsStored'
    BY <2>5 DEF Fail, DoneIsStored
  <2>6. ASSUME Charge(p) PROVE DoneIsStored'
    BY <2>6 DEF Charge, DoneIsStored
  <2>7. ASSUME (\E j \in Jobs : Launch(p, j)) \/ BeginBatch(p) \/ Check(p) \/ Pick(p)
               \/ StartScan(p) \/ ListPage(p) \/ NextUrl(p) \/ ReadBudget(p) \/ Fetch(p)
               \/ FetchMetadata(p)
        PROVE  DoneIsStored'
    <3>1. UNCHANGED queue /\ UNCHANGED posts
      BY <2>7 DEF Launch, BeginBatch, Check, Pick, StartScan, ListPage, NextUrl, ReadBudget,
                  Fetch, FetchMetadata
    <3>2. QED
      BY <3>1, <1>1
  <2>8. QED
    BY <1>2, <2>1, <2>2, <2>3, <2>4, <2>5, <2>6, <2>7 DEF Works
<1>3. QED
  BY <1>1, <1>2, StepKinds DEF Outside, Ends

\* A queued url is done only when its post is stored.
THEOREM NothingLost == Spec => []DoneIsStored
<1>1. Init => DoneIsStored
  BY DEF Init, DoneIsStored
<1>2. QED
  BY <1>1, InitWellFormed, NextWellFormed, NextDone, PTL DEF Spec
-----------------------------------------------------------------------------
(* A pause stops the requests.                                             *)

\* The places from which a listing may be requested, and all those at which
\* the batch has passed begin_batch.
Discovery == {"scan", "list", "enqueue"}
Running == Discovery \cup OnUrl \cup {"retry", "mark", "check", "pick", "repick", "next"}

\* What the pause of its source allows a batch at place l to be.
Allowed(p, l) ==
  \/ paused[Src(p)] = "none"
  \/ paused[Src(p)] = "repeated" /\ job[p].drain /\ l \notin Discovery

PauseInv == \A p \in Proc : Connected(p) /\ pc[p] \in Running => Allowed(p, pc[p])

\* A move that does not enter discovery.
LEMMA PauseMove ==
  ASSUME WellFormed, PauseInv, NEW p \in Proc, NEW l \in Place, Goto(p, l), Connected(p),
         UNCHANGED <<paused, job, holder>>, pc[p] \in Running,
         l \in Discovery => pc[p] \in Discovery
  PROVE  PauseInv'
  BY DEF WellFormed, TypeOK, PauseInv, Goto, Connected, Allowed, Src

\* A step at the site does not need the connection.
LEMMA PauseMoveUnconnected ==
  ASSUME WellFormed, PauseInv, NEW p \in Proc, NEW l \in Place, Goto(p, l), ~Connected(p),
         UNCHANGED <<paused, job, holder>>
  PROVE  PauseInv'
  BY DEF WellFormed, TypeOK, PauseInv, Goto, Connected, Allowed, Src

\* Every step keeps the pause respected.
LEMMA NextPause == WellFormed /\ PauseInv /\ [Next]_vars => PauseInv'
<1> SUFFICES ASSUME WellFormed, PauseInv, [Next]_vars PROVE PauseInv'
  OBVIOUS
<1> USE PlaceNames DEF At, progress, batch
<1>0. TypeOK
  BY DEF WellFormed
<1>n. NoProc \notin Proc
  BY BackfillAssumption
<1>1. CASE Outside
  BY <1>1, <1>n DEF Outside, PauseInv, Connected, Allowed, Src
<1>2. ASSUME NEW p \in Proc, Ends(p) PROVE PauseInv'
  <2>1. \A q \in Proc \ {p} : Connected(q)' => Connected(q)
    BY <1>2, <1>n DEF Ends, Connected
  <2>2. pc'[p] \notin Running
    BY <1>2 DEF Ends, Running, Discovery, OnUrl
  <2>3. QED
    BY <1>2, <2>1, <2>2 DEF Ends, Same, PauseInv, Allowed, Src
<1>3. ASSUME NEW p \in Proc, Works(p) PROVE PauseInv'
  <2>1. ASSUME NEW j \in Jobs, Launch(p, j) PROVE PauseInv'
    <3>1. holder' = p /\ pc'[p] = "begin"
      BY <1>0, <2>1 DEF Launch, Goto, TypeOK
    <3>2. QED
      BY <3>1 DEF PauseInv, Connected, Running, Discovery, OnUrl
  <2>2. ASSUME BeginBatch(p) PROVE PauseInv'
    <3>1. /\ holder = p /\ holder' = p /\ MayStart(p) /\ job' = job /\ pc'[p] \in {"retry", "mark"}
          /\ paused' = [paused EXCEPT ![Src(p)] = IF job[p].drain THEN @ ELSE "none"]
      BY <1>0, <2>2 DEF BeginBatch, Connected, Goto, TypeOK
    <3>2. job[p] \in Jobs /\ Src(p) \in Source
      BY <2>2, JobSource DEF BeginBatch, WellFormed, PlaceInv
    <3>3. ~(job[p].drain /\ job[p].resume)
      BY <3>2, BackfillAssumption
    <3>4. paused'[Src(p)] = IF job[p].drain THEN paused[Src(p)] ELSE "none"
      BY <1>0, <3>1, <3>2 DEF TypeOK
    <3>5. Allowed(p, pc[p])'
      BY <3>1, <3>3, <3>4 DEF Allowed, MayStart, Src, Discovery
    <3>6. QED
      BY <3>1, <3>5 DEF PauseInv, Connected
  <2>3. ASSUME RetryFailed(p) \/ MarkExisting(p) \/ Check(p) \/ StartScan(p) PROVE PauseInv'
    BY <2>3, PauseMove DEF RetryFailed, MarkExisting, Check, StartScan, Running, Discovery
  <2>4. ASSUME Pick(p) PROVE PauseInv'
    <3>1. CASE Goto(p, "next")
      BY <2>4, <3>1, PauseMove DEF Pick, Running, Discovery
    <3>2. CASE Goto(p, "scan") /\ ~job[p].drain
      <4>1. holder = p /\ holder' = p /\ job' = job /\ paused' = paused /\ pc[p] \in Running
        BY <2>4 DEF Pick, Connected, Running
      <4>2. paused[Src(p)] = "none"
        BY <3>2, <4>1 DEF PauseInv, Connected, Allowed
      <4>3. QED
        BY <4>1, <4>2 DEF PauseInv, Connected, Allowed, Src
    <3>3. QED
      BY <2>4, <3>1, <3>2 DEF Pick
  <2>5. ASSUME ListPage(p) PROVE PauseInv'
    BY <2>5, PauseMove, PauseMoveUnconnected DEF ListPage, Running, Discovery
  <2>6. ASSUME EnqueuePage(p) PROVE PauseInv'
    BY <2>6, PauseMove DEF EnqueuePage, Running, Discovery
  <2>7. ASSUME NextUrl(p) PROVE PauseInv'
    BY <2>7, PauseMove, PauseMoveUnconnected DEF NextUrl, Running, Discovery
  <2>8. ASSUME ReadBudget(p) PROVE PauseInv'
    BY <2>8, PauseMove DEF ReadBudget, Running, OnUrl, Discovery
  <2>9. ASSUME Charge(p) \/ Finish(p) PROVE PauseInv'
    BY <2>9, PauseMove DEF Charge, Finish, Running, OnUrl, Discovery
  <2>10. ASSUME Fetch(p) \/ FetchMetadata(p) PROVE PauseInv'
    BY <2>10, PauseMove, PauseMoveUnconnected
       DEF Fetch, FetchMetadata, DatelessNext, Running, OnUrl, Discovery
  <2>11. ASSUME Fail(p) PROVE PauseInv'
    <3>1. holder = p /\ holder' = p /\ pc'[p] = "unlock"
      BY <1>0, <2>11 DEF Fail, Connected, Goto, TypeOK
    <3>2. QED
      BY <3>1 DEF PauseInv, Connected, Running, Discovery, OnUrl
  <2>12. QED
    BY <1>3, <2>1, <2>2, <2>3, <2>4, <2>5, <2>6, <2>7, <2>8, <2>9, <2>10, <2>11 DEF Works
<1> QED
  BY <1>1, <1>2, <1>3, StepKinds

\* A pause stops every request of the batch that holds the lock.
THEOREM PauseStops == Spec => []PauseIsRespected
<1>1. Init => PauseInv
  BY DEF Init, PauseInv, Running, Discovery, OnUrl
<1>2. PauseInv => PauseIsRespected
  BY DEF PauseInv, PauseIsRespected, Allowed, AtSite, Running, Discovery, OnUrl
<1>3. QED
  BY <1>1, <1>2, InitWellFormed, NextWellFormed, NextPause, PTL DEF Spec
-----------------------------------------------------------------------------
(* The attempts of a url.                                                  *)

\* The places after mark_existing: whatever is pending there, but the url at
\* hand, has been tried at most twice.
Settled == {"check", "pick", "scan", "list", "enqueue", "repick", "next"}
Waiting(p) == IF pc[p] \in OnUrl THEN Pending(Src(p)) \ {url[p]} ELSE Pending(Src(p))

\* The attempts that may have been charged for the url at hand.
ChargedAt(l) == CASE l \in {"budget", "charge"} -> 2
                  [] l \in {"fetch", "metabudget", "metacharge"} -> 3
                  [] l \in {"metafetch", "finish", "finishlast"} -> 4

\* What holds of the batch that has the lock.
TriedInv(p) ==
  /\ pc[p] \in Settled \cup OnUrl => \A u \in Waiting(p) : attempts[u] <= 2
  /\ pc[p] \in {"next"} \cup OnUrl => \A u \in todo[p] : attempts[u] <= 2
  /\ pc[p] \in OnUrl => url[p] \notin todo[p] /\ attempts[url[p]] <= ChargedAt(pc[p])

QueueInv == \A u \in Url : attempts[u] <= 4 /\ (state[u] = "none" => attempts[u] = 0)

AttemptsInv == QueueInv /\ \A p \in Proc : Connected(p) => TriedInv(p)

\* A move of the batch with the lock that leaves the queue alone.
LEMMA TriedMove ==
  ASSUME WellFormed, AttemptsInv, NEW p \in Proc, NEW l \in Place, Goto(p, l),
         UNCHANGED <<queue, job, holder>>,
         \A q \in Proc \ {p} : url'[q] = url[q] /\ todo'[q] = todo[q],
         Connected(p) => TriedInv(p)'
  PROVE  AttemptsInv'
<1>1. QueueInv'
  BY DEF AttemptsInv, QueueInv, queue
<1>2. ASSUME NEW q \in Proc \ {p}, Connected(q) PROVE TriedInv(q)'
  <2>1. pc'[q] = pc[q]
    BY DEF WellFormed, TypeOK, Goto
  <2>2. QED
    BY <1>2, <2>1 DEF AttemptsInv, TriedInv, Waiting, Pending, Src, queue
<1>3. \A q \in Proc : Connected(q)' => Connected(q)
  BY DEF Connected
<1>4. QED
  BY <1>1, <1>2, <1>3 DEF AttemptsInv

\* A move of that batch that stays on its url.
LEMMA UrlMove ==
  ASSUME WellFormed, AttemptsInv, NEW p \in Proc, NEW l \in OnUrl, Goto(p, l), pc[p] \in OnUrl,
         UNCHANGED <<queue, job, holder, url, todo>>, ChargedAt(pc[p]) <= ChargedAt(l)
  PROVE  AttemptsInv'
<1>1. pc'[p] = l /\ l \in Place
  BY PlaceNames DEF WellFormed, TypeOK, Goto, OnUrl
<1>2. ASSUME TriedInv(p) PROVE TriedInv(p)'
  <2>1. pc[p] \in Settled \cup OnUrl
    OBVIOUS
  <2>2. /\ \A u \in Waiting(p) : attempts[u] <= 2
        /\ \A u \in todo[p] : attempts[u] <= 2
        /\ url[p] \notin todo[p] /\ attempts[url[p]] <= ChargedAt(pc[p])
    BY <1>2 DEF TriedInv
  <2>3. Waiting(p)' = Waiting(p)
    BY <1>1 DEF Waiting, Pending, Src, queue
  <2>4. url[p] \in Url /\ attempts[url[p]] \in Nat
    BY DEF WellFormed, PlaceInv, TypeOK
  <2>5. attempts[url[p]] <= ChargedAt(l)
    <3>1. ChargedAt(l) \in Nat /\ ChargedAt(pc[p]) \in Nat
      BY DEF ChargedAt, OnUrl
    <3>2. QED
      BY <2>2, <2>4, <3>1
  <2>6. QED
    BY <1>1, <2>2, <2>3, <2>5 DEF TriedInv, queue
<1>3. QED
  BY <1>1, <1>2, TriedMove DEF AttemptsInv

\* Every step keeps the attempts bounded.
LEMMA NextAttempts == WellFormed /\ AttemptsInv /\ [Next]_vars => AttemptsInv'
<1> SUFFICES ASSUME WellFormed, AttemptsInv, [Next]_vars PROVE AttemptsInv'
  OBVIOUS
<1> USE PlaceNames DEF At, batch
<1>0. TypeOK /\ PlaceInv /\ QueueInv
  BY DEF WellFormed, AttemptsInv
<1>n. NoProc \notin Proc
  BY BackfillAssumption
<1>1. CASE Outside
  BY <1>1, <1>n
     DEF Outside, AttemptsInv, QueueInv, TriedInv, Waiting, Pending, Connected, Src, queue
<1>2. ASSUME NEW p \in Proc, Ends(p) PROVE AttemptsInv'
  <2>1. \A q \in Proc : Connected(q)' => Connected(q)
    BY <1>2, <1>n DEF Ends, Connected
  <2>2. ASSUME NEW q \in Proc \ {p}, Connected(q) PROVE TriedInv(q)'
    BY <1>2, <2>2 DEF Ends, Same, AttemptsInv, TriedInv, Waiting, Pending, Src, queue
  <2>3. TriedInv(p)'
    BY <1>2 DEF Ends, TriedInv, Settled, OnUrl
  <2>4. QueueInv'
    BY <1>0, <1>2 DEF Ends, QueueInv, queue
  <2>5. QED
    BY <2>1, <2>2, <2>3, <2>4 DEF AttemptsInv
<1>3. ASSUME NEW p \in Proc, Works(p) PROVE AttemptsInv'
  <2>0. Connected(p) => TriedInv(p)
    BY DEF AttemptsInv
  <2>1. ASSUME NEW j \in Jobs, Launch(p, j) PROVE AttemptsInv'
    <3>1. holder' = p /\ pc'[p] = "begin" /\ UNCHANGED queue
      BY <1>0, <2>1 DEF Launch, Goto, TypeOK
    <3>2. QED
      BY <1>0, <3>1 DEF AttemptsInv, QueueInv, TriedInv, Connected, Settled, OnUrl, queue
  <2>2. ASSUME BeginBatch(p) PROVE AttemptsInv'
    <3>1. pc'[p] \in {"retry", "mark"}
      BY <1>0, <2>2 DEF BeginBatch, Goto, TypeOK
    <3>2. TriedInv(p)'
      BY <3>1 DEF TriedInv, Settled, OnUrl
    <3>3. QED
      BY <2>2, <3>2, TriedMove DEF BeginBatch
  <2>3. ASSUME RetryFailed(p) PROVE AttemptsInv'
    <3>1. holder = p /\ holder' = p /\ pc'[p] = "mark"
      BY <1>0, <2>3 DEF RetryFailed, Connected, Goto, TypeOK
    <3>2. QueueInv'
      BY <1>0, <2>3 DEF RetryFailed, QueueInv, TypeOK
    <3>3. QED
      BY <3>1, <3>2 DEF AttemptsInv, TriedInv, Connected, Settled, OnUrl
  <2>4. ASSUME MarkExisting(p) PROVE AttemptsInv'
    <3>1. /\ holder = p /\ holder' = p /\ pc'[p] = "check" /\ UNCHANGED <<job, origin, attempts>>
      BY <1>0, <2>4 DEF MarkExisting, Connected, Goto, TypeOK
    <3>2. QueueInv'
      BY <1>0, <2>4 DEF MarkExisting, QueueInv, TypeOK, Pending
    <3>3. \A u \in Pending(Src(p))' : attempts[u] <= 2
      BY <1>0, <2>4, <3>1 DEF MarkExisting, Pending, Exhausted, Src, TypeOK
    <3>4. QED
      BY <3>1, <3>2, <3>3 DEF AttemptsInv, TriedInv, Connected, Waiting, OnUrl
  <2>5. ASSUME Check(p) PROVE AttemptsInv'
    <3>1. pc[p] = "check" /\ pc'[p] \in {"unlock", "pick"} /\ UNCHANGED <<queue, job, holder, url>>
      BY <1>0, <2>5 DEF Check, Goto, TypeOK
    <3>2. TriedInv(p)'
      BY <2>0, <2>5, <3>1 DEF Check, TriedInv, Waiting, Pending, Src, Settled, OnUrl, queue
    <3>3. QED
      BY <2>5, <3>1, <3>2, TriedMove DEF Check
  <2>6. ASSUME Pick(p) PROVE AttemptsInv'
    <3>1. /\ pc[p] \in {"pick", "repick"} /\ pc'[p] \in {"scan", "next"}
          /\ UNCHANGED <<queue, job, holder, url>> /\ todo'[p] \subseteq Pending(Src(p))
      BY <1>0, <2>6 DEF Pick, Goto, TypeOK
    <3>o. \A q \in Proc \ {p} : todo'[q] = todo[q]
      BY <1>0, <2>6 DEF Pick, TypeOK
    <3>2. \A u \in Pending(Src(p)) : attempts[u] <= 2
      BY <2>0, <2>6, <3>1 DEF Pick, TriedInv, Waiting, Settled, OnUrl
    <3>3. TriedInv(p)'
      BY <3>1, <3>2 DEF TriedInv, Waiting, Pending, Src, Settled, OnUrl, queue
    <3>4. QED
      BY <2>6, <3>1, <3>3, <3>o, TriedMove DEF Pick
  <2>7. ASSUME StartScan(p) \/ ListPage(p) PROVE AttemptsInv'
    <3>1. /\ pc[p] \in {"scan", "list"} /\ pc'[p] \in {"list", "enqueue"}
          /\ UNCHANGED <<queue, job, holder, url, todo>>
      BY <1>0, <2>7 DEF StartScan, ListPage, Goto, TypeOK
    <3>2. TriedInv(p) => TriedInv(p)'
      BY <3>1 DEF TriedInv, Waiting, Pending, Src, Settled, OnUrl, queue
    <3>3. QED
      BY <2>0, <2>7, <3>1, <3>2, TriedMove DEF StartScan, ListPage
  <2>8. ASSUME EnqueuePage(p) PROVE AttemptsInv'
    <3>1. /\ pc[p] = "enqueue" /\ pc'[p] \in {"repick", "list"} /\ holder = p /\ holder' = p
          /\ UNCHANGED <<job, url, todo, attempts>>
      BY <1>0, <2>8 DEF EnqueuePage, Connected, Goto, TypeOK
    <3>2. \A u \in Url : state'[u] # state[u] \/ origin'[u] # origin[u] =>
            state[u] = "none" /\ state'[u] = "pending"
      BY <1>0, <2>8 DEF EnqueuePage, Known, TypeOK
    <3>3. QueueInv'
      BY <1>0, <3>1, <3>2 DEF QueueInv
    <3>4. \A u \in Pending(Src(p)) : attempts[u] <= 2
      BY <2>0, <2>8, <3>1 DEF EnqueuePage, TriedInv, Waiting, Settled, OnUrl
    <3>5. \A u \in Pending(Src(p))' : attempts[u] <= 2
      BY <1>0, <3>1, <3>2, <3>4 DEF Pending, QueueInv, Src
    <3>6. TriedInv(p)'
      BY <3>1, <3>5 DEF TriedInv, Waiting, OnUrl
    <3>7. QED
      BY <3>1, <3>3, <3>6 DEF AttemptsInv, Connected
  <2>9. ASSUME NextUrl(p) PROVE AttemptsInv'
    <3>1. pc[p] = "next" /\ UNCHANGED <<queue, job, holder>>
      BY <2>9 DEF NextUrl
    <3>2. CASE Goto(p, "unlock") /\ UNCHANGED <<todo, url>>
      <4>1. pc'[p] = "unlock"
        BY <1>0, <3>2 DEF Goto, TypeOK
      <4>2. QED
        BY <3>1, <3>2, <4>1, TriedMove DEF TriedInv, Settled, OnUrl
    <3>3. ASSUME NEW u \in todo[p], url' = [url EXCEPT ![p] = u],
                 todo' = [todo EXCEPT ![p] = @ \ {u}], Goto(p, "budget")
          PROVE  AttemptsInv'
      <4>1. pc'[p] = "budget" /\ url'[p] = u /\ todo'[p] = todo[p] \ {u}
        BY <1>0, <3>3 DEF Goto, TypeOK
      <4>2. ASSUME TriedInv(p) PROVE TriedInv(p)'
        <5>1. /\ \A v \in Pending(Src(p)) : attempts[v] <= 2
              /\ \A v \in todo[p] : attempts[v] <= 2
          BY <3>1, <4>2 DEF TriedInv, Waiting, Settled, OnUrl
        <5>2. Pending(Src(p))' = Pending(Src(p))
          BY <3>1 DEF Pending, Src, queue
        <5>3. QED
          BY <3>1, <4>1, <5>1, <5>2 DEF TriedInv, Waiting, OnUrl, ChargedAt, queue
      <4>3. \A q \in Proc \ {p} : url'[q] = url[q] /\ todo'[q] = todo[q]
        BY <1>0, <3>3 DEF TypeOK
      <4>4. TriedInv(p)' \/ ~Connected(p)
        BY <2>0, <4>2
      <4>5. QED
        BY <3>1, <3>3, <4>3, <4>4, TriedMove
    <3>4. QED
      BY <2>9, <3>2, <3>3 DEF NextUrl
  <2>10. ASSUME ReadBudget(p) PROVE AttemptsInv'
    <3>1. CASE Goto(p, "unlock")
      <4>1. pc'[p] = "unlock"
        BY <1>0, <3>1 DEF Goto, TypeOK
      <4>2. QED
        BY <2>10, <3>1, <4>1, TriedMove DEF ReadBudget, TriedInv, Settled, OnUrl
    <3>2. CASE pc[p] = "budget" /\ Goto(p, "charge")
      BY <2>10, <3>2, UrlMove DEF ReadBudget, OnUrl, ChargedAt
    <3>3. CASE pc[p] = "metabudget" /\ (Goto(p, "metacharge") \/ Goto(p, "finishlast"))
      BY <2>10, <3>3, UrlMove DEF ReadBudget, OnUrl, ChargedAt
    <3>4. QED
      BY <2>10, <3>1, <3>2, <3>3 DEF ReadBudget
  <2>11. ASSUME Charge(p) PROVE AttemptsInv'
    <3>1. /\ pc[p] \in {"charge", "metacharge"} /\ holder = p /\ holder' = p
          /\ pc'[p] = (IF pc[p] = "charge" THEN "fetch" ELSE "metafetch")
          /\ UNCHANGED <<state, origin, job, url, todo>>
      BY <1>0, <2>11 DEF Charge, Connected, Goto, TypeOK
    <3>2. url[p] \in Url
      BY <1>0, <3>1 DEF PlaceInv, OnUrl
    <3>3. /\ \A u \in Waiting(p) : attempts[u] <= 2
          /\ \A u \in todo[p] : attempts[u] <= 2
          /\ url[p] \notin todo[p] /\ attempts[url[p]] <= ChargedAt(pc[p])
      BY <2>0, <3>1 DEF TriedInv, Connected, OnUrl
    <3>4. /\ attempts' = [attempts EXCEPT ![url[p]] =
                            IF state[url[p]] = "pending" THEN @ + 1 ELSE @]
          /\ attempts \in [Url -> Nat]
      BY <1>0, <2>11 DEF Charge, TypeOK
    <3>5. /\ \A u \in Url \ {url[p]} : attempts'[u] = attempts[u]
          /\ attempts'[url[p]] \in {attempts[url[p]], attempts[url[p]] + 1}
          /\ state[url[p]] = "none" => attempts'[url[p]] = attempts[url[p]]
      BY <3>2, <3>4
    <3>6. attempts'[url[p]] <= ChargedAt(pc'[p]) /\ attempts'[url[p]] <= 4
      BY <3>1, <3>2, <3>3, <3>4, <3>5 DEF ChargedAt
    <3>7. QueueInv'
      BY <1>0, <3>1, <3>2, <3>5, <3>6 DEF QueueInv
    <3>8. /\ \A u \in Waiting(p)' : u \in Waiting(p) /\ u \in Url \ {url[p]}
          /\ todo[p] \subseteq Url \ {url[p]}
      BY <1>0, <3>1, <3>3 DEF Waiting, Pending, Src, OnUrl, TypeOK
    <3>9. TriedInv(p)'
      BY <3>1, <3>3, <3>5, <3>6, <3>8 DEF TriedInv
    <3>10. QED
      BY <3>1, <3>7, <3>9 DEF AttemptsInv, Connected
  <2>12. ASSUME Fetch(p) \/ FetchMetadata(p) PROVE AttemptsInv'
    <3>1. CASE pc[p] = "fetch"
      <4>1. Goto(p, "finish") \/ Goto(p, "finishlast") \/ Goto(p, "metabudget")
        BY <2>12, <3>1 DEF Fetch, FetchMetadata, DatelessNext
      <4>2. QED
        BY <2>12, <3>1, <4>1, UrlMove DEF Fetch, FetchMetadata, OnUrl, ChargedAt
    <3>2. CASE pc[p] = "metafetch" /\ Goto(p, "finish")
      BY <2>12, <3>2, UrlMove DEF Fetch, FetchMetadata, OnUrl, ChargedAt
    <3>3. QED
      BY <2>12, <3>1, <3>2 DEF Fetch, FetchMetadata
  <2>13. ASSUME Finish(p) PROVE AttemptsInv'
    <3>1. /\ pc[p] \in {"finish", "finishlast"} /\ holder = p /\ holder' = p
          /\ pc'[p] \in {"next", "unlock"} /\ url[p] \in Url
          /\ UNCHANGED <<origin, attempts, job, todo>>
          /\ state' = [state EXCEPT ![url[p]] = "done"]
      BY <1>0, <2>13 DEF Finish, Connected, Goto, TypeOK, PlaceInv, OnUrl
    <3>2. QueueInv'
      BY <1>0, <3>1 DEF QueueInv, TypeOK
    <3>3. \A u \in Pending(Src(p))' : u \in Waiting(p)
      BY <1>0, <3>1 DEF Pending, Waiting, Src, OnUrl, TypeOK
    <3>4. /\ \A u \in Waiting(p) : attempts[u] <= 2
          /\ \A u \in todo[p] : attempts[u] <= 2
      BY <2>0, <3>1 DEF TriedInv, Connected, OnUrl
    <3>5. TriedInv(p)'
      BY <3>1, <3>3, <3>4 DEF TriedInv, Waiting, Settled, OnUrl
    <3>6. QED
      BY <3>1, <3>2, <3>5 DEF AttemptsInv, Connected
  <2>14. ASSUME Fail(p) PROVE AttemptsInv'
    <3>1. holder = p /\ holder' = p /\ pc'[p] = "unlock"
      BY <1>0, <2>14 DEF Fail, Connected, Goto, TypeOK
    <3>2. QueueInv'
      BY <1>0, <2>14 DEF Fail, QueueInv, TypeOK
    <3>3. QED
      BY <3>1, <3>2 DEF AttemptsInv, TriedInv, Connected, Settled, OnUrl
  <2>15. QED
    BY <1>3, <2>1, <2>2, <2>3, <2>4, <2>5, <2>6, <2>7, <2>8, <2>9, <2>10, <2>11, <2>12,
       <2>13, <2>14 DEF Works
<1> QED
  BY <1>1, <1>2, <1>3, StepKinds

\* No url is ever charged for more than three attempts and a metadata fallback.
THEOREM AttemptBound == Spec => []AttemptsAreBounded
<1>1. Init => AttemptsInv
  BY DEF Init, AttemptsInv, QueueInv, TriedInv, Settled, OnUrl
<1>2. AttemptsInv => AttemptsAreBounded
  BY DEF AttemptsInv, QueueInv, AttemptsAreBounded
<1>3. QED
  BY <1>1, <1>2, InitWellFormed, NextWellFormed, NextAttempts, PTL DEF Spec

-----------------------------------------------------------------------------
(* The quota of a day.                                                     *)

\* The charges of the sources as numbers; what was spent is one too.
LEMMA SpentType == ASSUME TypeOK PROVE SumFunction(charges) \in Nat /\ DOMAIN charges = Source
<1>1. DOMAIN charges = Source /\ \A s \in Source : charges[s] \in Nat
  BY DEF TypeOK
<1>2. SumFunctionOnSet(charges, Source) \in Nat
  BY <1>1, SumIsNat, BackfillAssumption
<1>3. QED
  BY <1>1, <1>2 DEF SumFunction

\* A new day.
LEMMA NothingSpent == SumFunction([s \in Source |-> 0]) = 0
<1> DEFINE f == [s \in Source |-> 0]
<1>1. DOMAIN f = Source /\ \A s \in Source : f[s] = 0
  OBVIOUS
<1> HIDE DEF f
<1>2. SumFunctionOnSet(f, Source) = 0
  BY <1>1, SumOfZeros, BackfillAssumption
<1>3. SumFunction(f) = 0
  BY <1>1, <1>2 DEF SumFunction
<1>4. QED
  BY <1>3 DEF f

\* A charge counts once, whatever source it is for.
LEMMA ChargeSpends ==
  ASSUME WellFormed, NEW p \in Proc, Charge(p)
  PROVE  SumFunction(charges') = SumFunction(charges) + 1
<1>1. charges' = [charges EXCEPT ![Src(p)] = @ + 1] /\ Src(p) \in Source
  BY JobSource DEF Charge
<1>2. charges \in [Source -> Nat] /\ IsFiniteSet(Source)
  BY BackfillAssumption DEF WellFormed, TypeOK
<1>3. /\ DOMAIN charges = Source /\ DOMAIN charges' = Source
      /\ \A s \in Source : charges[s] \in Int /\ charges'[s] \in Int
                         /\ (s # Src(p) => charges'[s] = charges[s])
      /\ charges'[Src(p)] = charges[Src(p)] + 1 /\ charges[Src(p)] \in Int
  BY <1>1, <1>2
<1>4. SumFunctionOnSet(charges', Source) =
        SumFunctionOnSet(charges, Source) + charges'[Src(p)] - charges[Src(p)]
  <2> DEFINE e == Src(p)
             f == charges
             g == charges'
  <2>1. /\ e \in Source /\ IsFiniteSet(Source)
        /\ \A s \in Source : f[s] \in Int /\ g[s] \in Int /\ (s # e => g[s] = f[s])
    BY <1>1, <1>2, <1>3
  <2> HIDE DEF e, f, g
  <2>2. SumFunctionOnSet(g, Source) = SumFunctionOnSet(f, Source) + g[e] - f[e]
    BY <2>1, SumChange
  <2>3. QED
    BY <2>2 DEF e, f, g
<1>5. SumFunctionOnSet(charges, Source) \in Int
  BY <1>2, <1>3, SumIsInt
<1>6. SumFunctionOnSet(charges', Source) = SumFunctionOnSet(charges, Source) + 1
  BY <1>3, <1>4, <1>5
<1>7. QED
  BY <1>3, <1>6 DEF SumFunction

\* What was read before a charge still holds: only the batch that has the lock
\* charges, and a new day only gives the quota back.
QuotaInv ==
  \A p \in Proc : Connected(p) /\ pc[p] \in {"charge", "metacharge"} => QuotaLeft(p)

\* A move that charges nothing and does not go to a charge.
LEMMA QuotaMove ==
  ASSUME WellFormed, QuotaInv, NEW p \in Proc, NEW l \in Place, Goto(p, l),
         l \notin {"charge", "metacharge"},
         charges' = charges \/ Connected(p), holder' = holder \/ holder' = p,
         \A q \in Proc \ {p} : job'[q] = job[q]
  PROVE  QuotaInv'
<1>1. \A q \in Proc \ {p} : pc'[q] = pc[q] /\ job'[q] = job[q]
  BY DEF WellFormed, TypeOK, Goto
<1>2. pc'[p] = l
  BY DEF WellFormed, TypeOK, Goto
<1>3. \A q \in Proc \ {p} : holder' = q => holder = q /\ charges' = charges
  BY DEF Connected
<1>4. QED
  BY <1>1, <1>2, <1>3 DEF QuotaInv, QuotaLeft, Spent, Connected

LEMMA NextQuota == WellFormed /\ QuotaInv /\ [Next]_vars => QuotaInv'
<1> SUFFICES ASSUME WellFormed, QuotaInv, [Next]_vars PROVE QuotaInv'
  OBVIOUS
<1> USE PlaceNames DEF At, progress, stored, batch
<1>0. TypeOK
  BY DEF WellFormed
<1>1. CASE Outside
  <2>1. UNCHANGED <<pc, job>> /\ \A p \in Proc : Connected(p)' => Connected(p)
    BY <1>1, BackfillAssumption DEF Outside, Connected
  <2>2. CASE charges' = charges
    BY <2>1, <2>2 DEF QuotaInv, QuotaLeft, Spent
  <2>3. CASE charges' = [s \in Source |-> 0]
    <3>1. SumFunction(charges') = 0 /\ 0 < Daily
      BY <2>3, NothingSpent, BackfillAssumption
    <3>2. QED
      BY <3>1 DEF QuotaInv, QuotaLeft, Spent
  <2>4. QED
    BY <1>1, <2>2, <2>3 DEF Outside
<1>2. ASSUME NEW p \in Proc, Ends(p) PROVE QuotaInv'
  <2>1. charges' = charges /\ pc'[p] \in {"unlock", "idle", "fail"}
        /\ \A q \in Proc : Connected(q)' => Connected(q)
    BY <1>2, BackfillAssumption DEF Ends, Connected
  <2>2. \A q \in Proc \ {p} : pc'[q] = pc[q] /\ job'[q] = job[q]
    BY <1>2 DEF Ends, Same
  <2>3. QED
    BY <2>1, <2>2 DEF QuotaInv, QuotaLeft, Spent
<1>3. ASSUME NEW p \in Proc, Works(p) PROVE QuotaInv'
  <2>1. ASSUME NEW j \in Jobs, Launch(p, j) PROVE QuotaInv'
    <3>1. Goto(p, "begin") /\ holder' = p /\ charges' = charges
          /\ job' = [job EXCEPT ![p] = j]
      BY <2>1 DEF Launch
    <3>2. \A q \in Proc \ {p} : job'[q] = job[q]
      BY <1>0, <3>1 DEF TypeOK
    <3>3. QED
      BY <3>1, <3>2, QuotaMove
  <2>2. ASSUME BeginBatch(p) \/ RetryFailed(p) \/ MarkExisting(p) \/ Check(p) \/ Fail(p)
        PROVE  QuotaInv'
    BY <2>2, QuotaMove DEF BeginBatch, RetryFailed, MarkExisting, Check, Fail
  <2>3. ASSUME Pick(p) \/ StartScan(p) \/ ListPage(p) \/ NextUrl(p) PROVE QuotaInv'
    BY <2>3, QuotaMove DEF Pick, StartScan, ListPage, NextUrl
  <2>8. ASSUME EnqueuePage(p) PROVE QuotaInv'
    <3>1. Goto(p, "repick") \/ Goto(p, "list")
      BY <2>8 DEF EnqueuePage
    <3>2. QED
      BY <2>8, <3>1, QuotaMove DEF EnqueuePage
  <2>4. ASSUME Fetch(p) \/ FetchMetadata(p) \/ Finish(p) PROVE QuotaInv'
    BY <2>4, QuotaMove DEF Fetch, FetchMetadata, Finish, DatelessNext
  <2>5. ASSUME ReadBudget(p) PROVE QuotaInv'
    <3>1. UNCHANGED <<charges, holder, job>> /\ Connected(p)
      BY <2>5 DEF ReadBudget
    <3>2. CASE QuotaLeft(p)
      <4>1. \A q \in Proc \ {p} : pc'[q] = pc[q]
        BY <1>0, <2>5 DEF ReadBudget, Goto, TypeOK
      <4>2. QED
        BY <3>1, <3>2, <4>1 DEF QuotaInv, QuotaLeft, Spent, Connected, Src
    <3>3. CASE ~QuotaLeft(p)
      <4>1. Goto(p, "unlock") \/ Goto(p, "finishlast")
        BY <2>5, <3>3 DEF ReadBudget
      <4>2. QED
        BY <3>1, <4>1, QuotaMove
    <3>4. QED
      BY <3>2, <3>3
  <2>6. ASSUME Charge(p) PROVE QuotaInv'
    BY <2>6, QuotaMove DEF Charge
  <2>7. QED
    BY <1>3, <2>1, <2>2, <2>3, <2>4, <2>5, <2>6, <2>8 DEF Works
<1> QED
  BY <1>1, <1>2, <1>3, StepKinds

\* Only a charge adds a request.
LEMMA OnlyCharges ==
  ASSUME WellFormed, [Next]_vars, NEW p \in Proc, tried'[p] > tried[p]
  PROVE  Charge(p)
<1> USE DEF batch
<1>0. TypeOK /\ tried[p] \in Nat
  BY DEF WellFormed, TypeOK
<1>1. tried' # tried /\ tried'[p] # tried[p] /\ tried'[p] # 0
  BY <1>0
<1>2. ~Outside
  BY <1>1 DEF Outside
<1>3. ASSUME NEW q \in Proc PROVE ~Ends(q)
  BY <1>1 DEF Ends, Same
<1>4. PICK q \in Proc : Works(q)
  BY <1>2, <1>3, StepKinds
<1>5. ASSUME NEW j \in Jobs, Launch(q, j) PROVE FALSE
  BY <1>1, <1>5 DEF Launch
<1>6. ASSUME BeginBatch(q) \/ RetryFailed(q) \/ MarkExisting(q) \/ Check(q) \/ Pick(q)
             \/ StartScan(q) \/ ListPage(q) \/ EnqueuePage(q) \/ NextUrl(q) \/ ReadBudget(q)
             \/ Fetch(q) \/ FetchMetadata(q) \/ Finish(q) \/ Fail(q)
      PROVE  FALSE
  BY <1>1, <1>6 DEF BeginBatch, RetryFailed, MarkExisting, Check, Pick, StartScan, ListPage,
       EnqueuePage, NextUrl, ReadBudget, Fetch, FetchMetadata, Finish, Fail
<1>7. Charge(q)
  BY <1>4, <1>5, <1>6 DEF Works
<1>8. tried' = [tried EXCEPT ![q] = @ + 1]
  BY <1>7 DEF Charge
<1>9. q = p
  BY <1>0, <1>1, <1>8 DEF TypeOK
<1>10. QED
  BY <1>7, <1>9

\* No request of a limited batch takes the charges of the day beyond the quota,
\* over all sources, whatever crashes, disconnects and midnights come between
\* the reading of the budget and the charge.
THEOREM Quota == Spec => QuotaHeld
<1>1. Init => QuotaInv
  BY DEF Init, QuotaInv
<1>2. ASSUME WellFormed, QuotaInv, [Next]_vars, NEW p \in Proc, tried'[p] > tried[p], job[p].limited
      PROVE  SumFunction(charges') <= Daily
  <2>1. Charge(p)
    BY <1>2, OnlyCharges
  <2>2. SumFunction(charges) < Daily
    BY <1>2, <2>1 DEF Charge, QuotaInv, QuotaLeft, Spent
  <2>3. SumFunction(charges') = SumFunction(charges) + 1 /\ SumFunction(charges) \in Nat
    BY <1>2, <2>1, ChargeSpends, SpentType DEF WellFormed
  <2>4. QED
    BY <2>2, <2>3, BackfillAssumption
<1>3. WellFormed /\ QuotaInv /\ [Next]_vars =>
        [\A p \in Proc : tried'[p] > tried[p] /\ job[p].limited => SumFunction(charges') <= Daily]_vars
  BY <1>2
<1>4. QED
  BY <1>1, <1>3, InitWellFormed, NextWellFormed, NextQuota, PTL DEF Spec, QuotaHeld

-----------------------------------------------------------------------------
(* The coverage of a scan.                                                 *)

\* What a scan must meet is listed; it is known, or listed where the scan will
\* still come; it is all known when the scan is complete, or meets an empty page.
ScannedInv(s) ==
  /\ due[s] \subseteq Range(feed[s])
  /\ completed[s] => due[s] \subseteq Known
  /\ \A i \in DOMAIN feed[s], u \in due[s] \ Known :
       feed[s][i] = u => Front(s, u) <= PageOf(i)
  /\ Reads(s, "list") \/ Reads(s, "enqueue") => Back(s) <= page[holder]
  /\ Reads(s, "enqueue") /\ records[holder] = {} => due[s] \subseteq Known

ScanInv == \A s \in Source : ScannedInv(s)

\* Nothing that is known is forgotten.
LEMMA KnownGrows == ASSUME WellFormed, [Next]_vars PROVE Known \subseteq Known'
<1> USE DEF Known, queue
<1>0. TypeOK
  BY DEF WellFormed
<1>1. CASE Outside
  BY <1>1 DEF Outside
<1>2. ASSUME NEW p \in Proc, Ends(p) PROVE Known \subseteq Known'
  BY <1>2 DEF Ends
<1>3. ASSUME NEW p \in Proc, Works(p) PROVE Known \subseteq Known'
  <2>1. ASSUME (\E j \in Jobs : Launch(p, j)) \/ BeginBatch(p) \/ Check(p) \/ Pick(p) \/ StartScan(p)
               \/ ListPage(p) \/ NextUrl(p) \/ ReadBudget(p) \/ Charge(p) \/ Fetch(p)
               \/ FetchMetadata(p)
        PROVE  UNCHANGED <<posts, state>>
    BY <2>1 DEF Launch, BeginBatch, Check, Pick, StartScan, ListPage, NextUrl, ReadBudget, Charge,
         Fetch, FetchMetadata, stored
  <2>2. ASSUME RetryFailed(p) PROVE Known \subseteq Known'
    <3>1. posts' = posts /\ \A u \in Url : state[u] # "none" => state'[u] # "none"
      BY <2>2 DEF RetryFailed, stored
    <3>2. QED
      BY <3>1
  <2>3. ASSUME MarkExisting(p) PROVE Known \subseteq Known'
    <3>1. posts' = posts
      BY <2>3 DEF MarkExisting, stored
    <3>2. ASSUME NEW u \in Url, state[u] # "none" PROVE state'[u] # "none"
      <4>1. state'[u] \in {state[u], "done", "failed"}
        BY <2>3 DEF MarkExisting
      <4>2. QED
        BY <3>2, <4>1
    <3>3. QED
      BY <3>1, <3>2
  <2>4. ASSUME Fail(p) PROVE Known \subseteq Known'
    <3>1. posts' = posts
      BY <2>4 DEF Fail, stored
    <3>2. ASSUME NEW u \in Url, state[u] # "none" PROVE state'[u] # "none"
      <4>1. state'[u] \in {state[u], "pending", "failed"}
        BY <2>4 DEF Fail
      <4>2. QED
        BY <3>2, <4>1
    <3>3. QED
      BY <3>1, <3>2
  <2>5. ASSUME EnqueuePage(p) PROVE Known \subseteq Known'
    BY <2>5 DEF EnqueuePage, stored
  <2>6. ASSUME Finish(p) PROVE Known \subseteq Known'
    BY <1>0, <2>6 DEF Finish, Stored, TypeOK
  <2>7. QED
    BY <1>3, <2>1, <2>2, <2>3, <2>4, <2>5, <2>6 DEF Works
<1> QED
  BY <1>1, <1>2, <1>3, StepKinds

\* A listing is numbered from one.
LEMMA FeedNumbers ==
  ASSUME TypeOK, NEW s \in Source
  PROVE  /\ feed[s] \in Seq(Url) /\ Len(feed[s]) \in Nat
         /\ DOMAIN feed[s] = 1..Len(feed[s]) /\ PageSize \in Nat /\ PageSize > 0
<1>1. feed[s] \in Seq(Url)
  BY DEF TypeOK
<1>2. PageSize \in Nat /\ PageSize > 0
  BY BackfillAssumption
<1>3. QED
  BY <1>1, <1>2

\* Which posts a page holds.
LEMMA PageBounds ==
  ASSUME NEW i \in Nat \ {0}
  PROVE  /\ PageOf(i) \in Nat \ {0} /\ PageOf(i + 1) >= PageOf(i)
         /\ i <= PageOf(i) * PageSize /\ (PageOf(i) - 1) * PageSize < i
<1>1. ASSUME NEW a \in Nat \ {0}, NEW b \in Nat \ {0}, NEW l, l = (a + b - 1) \div b,
             NEW m, m = (a + 1 + b - 1) \div b
      PROVE  l \in Nat /\ l > 0 /\ a <= l * b /\ (l - 1) * b < a /\ m >= l
  BY <1>1
<1>2. PageSize \in Nat \ {0}
  BY BackfillAssumption
<1>3. QED
  BY <1>1, <1>2 DEF PageOf

LEMMA LastPageBounds ==
  ASSUME TypeOK, NEW s \in Source
  PROVE  /\ LastPage(s) \in Nat /\ Len(feed[s]) \in Nat
         /\ Len(feed[s]) <= LastPage(s) * PageSize
         /\ (LastPage(s) - 1) * PageSize < Len(feed[s])
<1>1. ASSUME NEW a \in Nat, NEW b \in Nat \ {0}, NEW l, l = (a + b - 1) \div b
      PROVE  l \in Nat /\ a <= l * b /\ (l - 1) * b < a
  BY <1>1
<1>2. Len(feed[s]) \in Nat /\ PageSize \in Nat \ {0}
  BY FeedNumbers
<1>3. QED
  BY <1>1, <1>2 DEF LastPage, PageOf

LEMMA Multiples == \A a, b, c \in Int : 0 <= c /\ a <= b => a * c <= b * c
<1> SUFFICES ASSUME NEW a \in Int, NEW b \in Int, NEW c \in Int, 0 <= c, a <= b
             PROVE  a * c <= b * c
  OBVIOUS
<1>1. QED
  OBVIOUS

\* A post is served with its page.
LEMMA ServedWithPage ==
  ASSUME TypeOK, NEW s \in Source, NEW i \in DOMAIN feed[s]
  PROVE  feed[s][i] \in Served(s, PageOf(i))
<1> DEFINE k == PageOf(i)
<1>1. i \in Nat \ {0} /\ i <= Len(feed[s]) /\ PageSize \in Nat \ {0} /\ Len(feed[s]) \in Nat
  BY FeedNumbers
<1>2. k \in Nat \ {0} /\ i <= k * PageSize /\ (k - 1) * PageSize < i
  BY <1>1, PageBounds
<1>3. LastPage(s) \in Nat /\ Len(feed[s]) <= LastPage(s) * PageSize
  BY LastPageBounds
<1> HIDE DEF k
<1>4. k <= LastPage(s)
  <2> SUFFICES ASSUME LastPage(s) <= k - 1 PROVE FALSE
    BY <1>2, <1>3
  <2>1. LastPage(s) * PageSize <= (k - 1) * PageSize
    BY <1>1, <1>2, <1>3, Multiples
  <2>2. (k - 1) * PageSize \in Int /\ LastPage(s) * PageSize \in Int
    BY <1>1, <1>2, <1>3
  <2>3. QED
    BY <1>1, <1>2, <1>3, <2>1, <2>2
<1>5. feed[s][i] \in Served(s, k)
  BY <1>1, <1>2, <1>3, <1>4 DEF Served
<1>6. QED
  BY <1>5 DEF k

\* An empty page is beyond the end.
LEMMA EmptyServed ==
  ASSUME TypeOK, NEW s \in Source, NEW k \in Nat \ {0}, Served(s, k) = {}
  PROVE  Len(feed[s]) <= (k - 1) * PageSize
<1> DEFINE n == IF Clamped /\ k > LastPage(s) THEN LastPage(s) ELSE k
           b == (n - 1) * PageSize
<1>0. PageSize \in Nat \ {0} /\ Len(feed[s]) \in Nat /\ DOMAIN feed[s] = 1..Len(feed[s])
      /\ LastPage(s) \in Nat
  BY LastPageBounds, FeedNumbers
<1>1. n \in Nat /\ n <= k
  BY <1>0
<1>2. b \in Int /\ n * PageSize = b + PageSize /\ (n = 0 => b + PageSize = 0) /\ (n > 0 => b >= 0)
  <2> HIDE DEF n
  <2>1. (n - 1) * PageSize \in Int /\ n * PageSize = (n - 1) * PageSize + PageSize
    BY <1>0, <1>1
  <2>2. n = 0 => b + PageSize = 0
    BY <1>0
  <2>3. n > 0 => b >= 0
    BY <1>0, <1>1
  <2>4. QED
    BY <2>1, <2>2, <2>3
<1>3. Len(feed[s]) <= b \/ n = 0
  <2> SUFFICES ASSUME b < Len(feed[s]), n > 0 PROVE FALSE
    BY <1>0, <1>1, <1>2
  <2>1. b + 1 \in DOMAIN feed[s] /\ b < b + 1 /\ b + 1 <= n * PageSize
    BY <1>0, <1>2
  <2>2. feed[s][b + 1] \in Served(s, k)
    BY <2>1 DEF Served
  <2>3. QED
    BY <2>2
<1>4. n = 0 => Len(feed[s]) <= 0
  BY <1>0, LastPageBounds
<1>5. b <= (k - 1) * PageSize /\ 0 <= (k - 1) * PageSize
  <2>1. ASSUME NEW x \in Int, NEW y \in Int, NEW c \in Nat, x <= y PROVE x * c <= y * c
    BY <2>1
  <2>2. n - 1 <= k - 1 /\ 0 <= k - 1
    BY <1>1
  <2>3. QED
    BY <1>0, <1>1, <2>1, <2>2
<1>6. (k - 1) * PageSize \in Int
  BY <1>0
<1> DEFINE c == (k - 1) * PageSize
<1>7. b \in Int /\ c \in Int /\ b <= c /\ 0 <= c
  BY <1>2, <1>5, <1>6
<1> HIDE DEF b, c
<1>8. Len(feed[s]) <= c
  <2> HIDE DEF n
  <2>1. QED
    BY <1>0, <1>3, <1>4, <1>7
<1>9. QED
  BY <1>8 DEF c

\* All posts precede an empty page.
LEMMA BeforeEmpty ==
  ASSUME TypeOK, NEW s \in Source, NEW k \in Nat \ {0}, Served(s, k) = {}, NEW i \in DOMAIN feed[s]
  PROVE  PageOf(i) < k
<1>1. i \in Nat \ {0} /\ i <= Len(feed[s]) /\ PageSize \in Nat \ {0} /\ Len(feed[s]) \in Nat
  BY FeedNumbers
<1>2. Len(feed[s]) <= (k - 1) * PageSize
  BY EmptyServed
<1> DEFINE l == PageOf(i)
<1>3. l \in Nat \ {0} /\ (l - 1) * PageSize < i
  BY <1>1, PageBounds
<1> HIDE DEF l
<1>4. l < k
  <2> SUFFICES ASSUME k <= l PROVE FALSE
    BY <1>3
  <2>1. (k - 1) * PageSize <= (l - 1) * PageSize
    BY <1>1, <1>3, Multiples
  <2>2. (k - 1) * PageSize \in Int /\ (l - 1) * PageSize \in Int
    BY <1>1, <1>3
  <2>3. QED
    BY <1>1, <1>2, <1>3, <2>1, <2>2
<1>5. QED
  BY <1>4 DEF l

\* The page of a listed post.
LEMMA PostPage ==
  ASSUME TypeOK, NEW s \in Source, NEW i \in DOMAIN feed[s]
  PROVE  i \in Nat \ {0} /\ PageOf(i) \in Nat \ {0}
<1>1. i \in Nat \ {0}
  BY FeedNumbers
<1>2. QED
  BY <1>1, PageBounds

\* A batch reads a page or enqueues one.
LEMMA ReadsOne ==
  ASSUME NEW s
  PROVE  ~(Reads(s, "list") /\ Reads(s, "enqueue")) /\ ~(Reads(s, "list")' /\ Reads(s, "enqueue")')
  BY DEF Reads

LEMMA FrontType ==
  ASSUME TypeOK, NEW s \in Source, NEW u
  PROVE  Front(s, u) \in Nat /\ Back(s) \in Nat \ {0}
<1>1. next[s] \in Nat \ {0} /\ \A p \in Proc : page[p] \in Nat
  BY DEF TypeOK
<1>2. holder # NoProc => page[holder] \in Nat
  BY <1>1 DEF TypeOK
<1>3. QED
  BY <1>1, <1>2 DEF Front, Back, Reads

\* A batch that stops goes back, never forward.
LEMMA BackFirst ==
  ASSUME TypeOK, NEW s \in Source, ScannedInv(s), NEW u
  PROVE  Back(s) <= Front(s, u)
<1>1. Back(s) \in Nat /\ (holder # NoProc => page[holder] \in Nat)
  BY FrontType DEF TypeOK
<1>2. QED
  BY <1>1 DEF ScannedInv, Front, Reads

\* A step that neither moves the scan of a source nor its listing, after which
\* no batch reads the listing, or the one that did and as before.
LEMMA ScannedKept ==
  ASSUME WellFormed, [Next]_vars, NEW s \in Source, ScannedInv(s), next'[s] = next[s],
         completed'[s] => completed[s], feed'[s] = feed[s], due'[s] = due[s],
         \A l \in {"list", "enqueue"} : Reads(s, l)'
           => Reads(s, l) /\ page'[holder'] = page[holder] /\ records'[holder'] = records[holder]
  PROVE  ScannedInv(s)'
<1>0. TypeOK /\ Known \subseteq Known'
  BY KnownGrows DEF WellFormed
<1>1. Back(s)' = Back(s)
  BY DEF Back
<1>2. ~(Reads(s, "list") /\ Reads(s, "enqueue")) /\ ~(Reads(s, "list")' /\ Reads(s, "enqueue")')
  BY ReadsOne
<1>3. ASSUME NEW u PROVE Front(s, u)' \in {Front(s, u), Back(s)}
  <2>1. CASE Reads(s, "list")'
    <3>1. Front(s, u)' = page'[holder']
      BY <1>2, <2>1 DEF Front
    <3>2. Front(s, u) = page[holder] /\ page'[holder'] = page[holder]
      BY <1>2, <2>1 DEF Front
    <3>3. QED
      BY <3>1, <3>2
  <2>2. CASE ~Reads(s, "list")' /\ Reads(s, "enqueue")'
    BY <1>1, <1>2, <2>2 DEF Front
  <2>3. CASE ~Reads(s, "list")' /\ ~Reads(s, "enqueue")'
    BY <1>1, <2>3 DEF Front
  <2>4. QED
    BY <2>1, <2>2, <2>3
<1>4. ASSUME NEW i \in DOMAIN feed'[s], NEW u \in due'[s] \ Known', feed'[s][i] = u
      PROVE  Front(s, u)' <= PageOf(i)
  <2>1. i \in DOMAIN feed[s] /\ u \in due[s] \ Known /\ feed[s][i] = u
    BY <1>0, <1>4
  <2>2. Front(s, u) <= PageOf(i)
    BY <2>1 DEF ScannedInv
  <2>2a. PageOf(i) \in Nat
    BY <1>0, <2>1, PostPage
  <2>3. Front(s, u) \in Nat /\ Back(s) \in Nat /\ Back(s) <= Front(s, u)
    BY <1>0, FrontType, BackFirst
  <2>4. Front(s, u)' \in {Front(s, u), Back(s)}
    BY <1>3
  <2>5. QED
    BY <2>2, <2>2a, <2>3, <2>4
<1>5. Reads(s, "list")' \/ Reads(s, "enqueue")' => Back(s)' <= page'[holder']
  BY <1>1 DEF ScannedInv
<1>6. Reads(s, "enqueue")' /\ records'[holder'] = {} => due'[s] \subseteq Known'
  BY <1>0 DEF ScannedInv
<1>7. PageOf(0)' = PageOf(0)
  BY DEF PageOf
<1>8. QED
  BY <1>0, <1>4, <1>5, <1>6 DEF ScannedInv, PageOf

\* A step that moves no scan and no listing, and no batch into a scan.
LEMMA ScanStill ==
  ASSUME WellFormed, ScanInv, [Next]_vars, UNCHANGED <<next, completed, feed, due>>,
         \A p \in Proc : Connected(p)' /\ pc'[p] \in {"list", "enqueue"}
           => /\ Connected(p) /\ pc[p] = pc'[p] /\ page'[p] = page[p]
              /\ records'[p] = records[p] /\ job'[p] = job[p]
  PROVE  ScanInv'
<1>1. holder' \in Proc \cup {NoProc}
  BY NextWellFormed DEF WellFormed, TypeOK
<1>2. ASSUME NEW s \in Source, NEW l \in {"list", "enqueue"}, Reads(s, l)'
      PROVE  Reads(s, l) /\ page'[holder'] = page[holder] /\ records'[holder'] = records[holder]
  <2>1. holder' \in Proc /\ pc'[holder'] = l /\ holder' # NoProc /\ job'[holder'].source = s
    BY <1>1, <1>2 DEF Reads, Src
  <2>2. holder' = holder /\ pc[holder] = l /\ job'[holder] = job[holder]
        /\ page'[holder] = page[holder] /\ records'[holder] = records[holder]
    BY <2>1 DEF Connected
  <2>3. QED
    BY <2>1, <2>2 DEF Reads, Src
<1>3. ASSUME NEW s \in Source PROVE ScannedInv(s)'
  BY <1>2, ScannedKept DEF ScanInv
<1>4. QED
  BY <1>3 DEF ScanInv

\* A move of a batch to a place outside the scan.
LEMMA ScanMove ==
  ASSUME WellFormed, ScanInv, [Next]_vars, UNCHANGED <<next, completed, feed, due>>,
         NEW p \in Proc, NEW l, Goto(p, l), l \notin {"list", "enqueue"},
         \A q \in Proc \ {p} : /\ holder' = q => holder = q
                              /\ page'[q] = page[q] /\ records'[q] = records[q] /\ job'[q] = job[q]
  PROVE  ScanInv'
<1>1. pc'[p] = l /\ \A q \in Proc \ {p} : pc'[q] = pc[q]
  BY DEF WellFormed, TypeOK, Goto
<1>2. \A q \in Proc : Connected(q)' /\ pc'[q] \in {"list", "enqueue"}
        => /\ Connected(q) /\ pc[q] = pc'[q] /\ page'[q] = page[q]
           /\ records'[q] = records[q] /\ job'[q] = job[q]
  BY <1>1 DEF Connected
<1>3. QED
  BY <1>2, ScanStill

\* A scan starts at the beginning, or two pages before where it stopped.
LEMMA StartScanCovers ==
  ASSUME WellFormed, ScanInv, [Next]_vars, NEW p \in Proc, StartScan(p)
  PROVE  ScanInv'
<1>a. Src(p) \in Source
  BY JobSource DEF StartScan, At
<1> SUFFICES ASSUME NEW s \in Source, s = Src(p) PROVE ScanInv'
  BY <1>a
<1> DEFINE n == IF Restarts(s) THEN 1 ELSE next[s]
<1>0. TypeOK /\ Known \subseteq Known' /\ p # NoProc
  BY KnownGrows, BackfillAssumption DEF WellFormed
<1>1. /\ pc[p] = "scan" /\ holder = p /\ holder' = p /\ feed' = feed /\ job' = job
      /\ pc' = [pc EXCEPT ![p] = "list"]
      /\ next' = [next EXCEPT ![s] = n] /\ completed' = [completed EXCEPT ![s] = @ /\ ~Restarts(s)]
      /\ due' = [due EXCEPT ![s] = IF Restarts(s) THEN Range(feed[s]) ELSE @]
      /\ page' = [page EXCEPT ![p] = First(n)]
  BY DEF StartScan, At, Connected, Goto
<1>2. s \in Source /\ Src(p)' = s
  BY <1>1 DEF Src
<1>3. next'[s] = n /\ n \in Nat \ {0} /\ pc'[p] = "list" /\ page'[p] = First(n)
      /\ completed'[s] = (completed[s] /\ ~Restarts(s))
      /\ due'[s] = IF Restarts(s) THEN Range(feed[s]) ELSE due[s]
  BY <1>0, <1>1, <1>2 DEF TypeOK
<1>4. ASSUME NEW t \in Source, t # s PROVE ScannedInv(t)'
  <2>1. next'[t] = next[t] /\ completed'[t] = completed[t] /\ due'[t] = due[t]
    BY <1>0, <1>1, <1>4 DEF TypeOK
  <2>2. \A l : ~Reads(t, l)'
    BY <1>1, <1>2, <1>4 DEF Reads
  <2>3. QED
    BY <1>1, <2>1, <2>2, ScannedKept DEF ScanInv
<1>5. Back(s)' = First(n)
  BY <1>3 DEF Back, First
<1>6. Reads(s, "list")' /\ ~Reads(s, "enqueue")' /\ \A u : Front(s, u)' = First(n)
  <2>1. Reads(s, "list")' /\ ~Reads(s, "enqueue")'
    BY <1>0, <1>1, <1>2, <1>3 DEF Reads
  <2>2. ASSUME NEW u PROVE Front(s, u)' = page'[holder']
    BY <2>1 DEF Front
  <2>3. QED
    BY <1>1, <1>3, <2>1, <2>2
<1>7. ASSUME NEW i \in DOMAIN feed[s], NEW u \in due'[s] \ Known, feed[s][i] = u
      PROVE  First(n) <= PageOf(i)
  <2>1. PageOf(i) \in Nat \ {0}
    BY <1>0, PostPage
  <2>2. CASE Restarts(s)
    BY <2>1, <2>2 DEF First
  <2>3. CASE ~Restarts(s)
    <3>1. Front(s, u) = Back(s)
      BY <1>1 DEF Front, Reads
    <3>2. Back(s) = First(n)
      BY <2>3 DEF Back, First
    <3>3. u \in due[s] \ Known
      BY <1>3, <1>7, <2>3
    <3>4. QED
      BY <1>2, <1>7, <3>1, <3>2, <3>3 DEF ScanInv, ScannedInv
  <2>4. QED
    BY <2>2, <2>3
<1>8. First(n) <= First(n)
  BY <1>3 DEF First
<1>9. ScannedInv(s)'
  <2>1. due'[s] \subseteq Range(feed'[s])
    BY <1>1, <1>2, <1>3 DEF ScanInv, ScannedInv
  <2>2. completed'[s] => due'[s] \subseteq Known'
    BY <1>3 DEF Restarts
  <2>3. \A i \in DOMAIN feed'[s], u \in due'[s] \ Known' :
          feed'[s][i] = u => Front(s, u)' <= PageOf(i)
    BY <1>0, <1>1, <1>6, <1>7
  <2>4. Back(s)' <= page'[holder']
    BY <1>1, <1>3, <1>5, <1>8
  <2>5. QED
    BY <1>6, <2>1, <2>2, <2>3, <2>4 DEF ScannedInv, PageOf
<1>10. QED
  BY <1>4, <1>9 DEF ScanInv

\* The site answers with the page that was asked for.
LEMMA ListPageCovers ==
  ASSUME WellFormed, ScanInv, [Next]_vars, NEW p \in Proc, ListPage(p)
  PROVE  ScanInv'
<1>a. Src(p) \in Source
  BY JobSource DEF ListPage
<1> SUFFICES ASSUME NEW s \in Source, s = Src(p) PROVE ScanInv'
  BY <1>a
<1> DEFINE k == page[p]
<1>0. TypeOK /\ Known \subseteq Known' /\ p # NoProc
  BY KnownGrows, BackfillAssumption DEF WellFormed
<1>1. /\ pc[p] = "list" /\ pc' = [pc EXCEPT ![p] = "enqueue"]
      /\ records' = [records EXCEPT ![p] = Served(s, k)]
      /\ UNCHANGED <<next, completed, state, posts, holder, feed, due, job, page>>
  BY DEF ListPage, Goto, progress, queue, stored, site
<1>2. pc'[p] = "enqueue" /\ records'[p] = Served(s, k)
      /\ \A q \in Proc \ {p} : pc'[q] = pc[q] /\ records'[q] = records[q]
  BY <1>0, <1>1 DEF TypeOK
<1>3. CASE holder # p
  BY <1>1, <1>2, <1>3, ScanStill DEF Connected
<1>4. CASE holder = p
  <2>1. s \in Source /\ Src(p)' = s
    BY <1>1 DEF Src
  <2>2. k \in Nat \ {0}
    BY <1>0, <1>1 DEF TypeOK, WellFormed, PlaceInv
  <2>3. ASSUME NEW t \in Source, t # s PROVE ScannedInv(t)'
    <3>1. \A l : ~Reads(t, l)'
      BY <1>1, <1>4, <2>1, <2>3 DEF Reads
    <3>2. QED
      BY <1>1, <3>1, ScannedKept DEF ScanInv
  <2>4. /\ Reads(s, "list") /\ ~Reads(s, "list")' /\ Reads(s, "enqueue")'
        /\ Back(s)' = Back(s) /\ Known' = Known
    BY <1>0, <1>1, <1>2, <1>4, <2>1 DEF Reads, Back, Known
  <2>5. Back(s) <= k /\ Back(s) \in Nat
    BY <1>0, <1>4, <2>1, <2>4, FrontType DEF ScanInv, ScannedInv
  <2>6. ASSUME NEW i \in DOMAIN feed[s], NEW u \in due[s] \ Known, feed[s][i] = u
        PROVE  k <= PageOf(i) /\ PageOf(i) \in Nat
    <3>1. Front(s, u) = k
      BY <1>4, <2>4, ReadsOne DEF Front
    <3>2. Front(s, u) <= PageOf(i)
      BY <2>1, <2>6 DEF ScanInv, ScannedInv
    <3>3. QED
      BY <1>0, <3>1, <3>2, PostPage
  <2>7. ASSUME NEW i \in DOMAIN feed[s], NEW u \in due[s] \ Known, feed[s][i] = u
        PROVE  Front(s, u)' <= PageOf(i)
    <3>1. CASE u \in Served(s, k)
      <4>1. Front(s, u)' = Back(s)
        <5>1. holder' = p /\ u \in records'[p]
          BY <1>1, <1>2, <1>4, <3>1
        <5>2. QED
          BY <2>4, <5>1 DEF Front
      <4>2. QED
        BY <2>2, <2>5, <2>6, <2>7, <4>1
    <3>2. CASE u \notin Served(s, k)
      <4>1. Front(s, u)' = k + 1
        <5>1. holder' = p /\ u \notin records'[p] /\ page'[p] = k
          BY <1>1, <1>2, <1>4, <3>2
        <5>2. QED
          BY <2>4, <5>1 DEF Front
      <4>2. PageOf(i) # k
        BY <1>0, <2>1, <2>7, <3>2, ServedWithPage
      <4>3. QED
        BY <2>2, <2>6, <2>7, <4>1, <4>2
    <3>3. QED
      BY <3>1, <3>2
  <2>8. ASSUME Served(s, k) = {} PROVE due[s] \subseteq Known
    <3> SUFFICES ASSUME NEW u \in due[s], u \notin Known PROVE FALSE
      OBVIOUS
    <3>1. PICK i \in DOMAIN feed[s] : u = feed[s][i]
      BY <2>1 DEF ScanInv, ScannedInv, Range
    <3>2. k <= PageOf(i) /\ PageOf(i) \in Nat
      BY <2>6, <3>1
    <3>3. PageOf(i) < k
      <4> HIDE DEF k
      <4>1. QED
        BY <1>0, <2>1, <2>2, <2>8, BeforeEmpty
    <3>4. QED
      BY <2>2, <3>2, <3>3
  <2>9. ScannedInv(s)'
    <3>1. \A i \in DOMAIN feed'[s], u \in due'[s] \ Known' :
            feed'[s][i] = u => Front(s, u)' <= PageOf(i)
      BY <1>1, <2>4, <2>7
    <3>2. Back(s)' <= page'[holder']
      BY <1>1, <1>4, <2>4, <2>5
    <3>3. records'[holder'] = {} => due'[s] \subseteq Known'
      BY <1>1, <1>2, <1>4, <2>4, <2>8
    <3>4. due'[s] \subseteq Range(feed'[s]) /\ (completed'[s] => due'[s] \subseteq Known')
      BY <1>1, <2>1, <2>4 DEF ScanInv, ScannedInv
    <3>5. QED
      BY <3>1, <3>2, <3>3, <3>4 DEF ScannedInv, PageOf
  <2>10. QED
    BY <2>3, <2>9 DEF ScanInv
<1>5. QED
  BY <1>3, <1>4

\* An enqueued page is known; what is not lies behind it.
LEMMA EnqueueCovers ==
  ASSUME WellFormed, ScanInv, [Next]_vars, NEW p \in Proc, EnqueuePage(p)
  PROVE  ScanInv'
<1>a. Src(p) \in Source
  BY JobSource DEF EnqueuePage, At
<1> SUFFICES ASSUME NEW s \in Source, s = Src(p) PROVE ScanInv'
  BY <1>a
<1> DEFINE m == page[p]
<1>0. TypeOK /\ Known \subseteq Known' /\ p # NoProc
  BY KnownGrows, BackfillAssumption DEF WellFormed
<1>1. /\ pc[p] = "enqueue" /\ holder = p
      /\ state' = [u \in Url |-> IF u \in records[p] \ Known THEN "pending" ELSE state[u]]
      /\ next' = [next EXCEPT ![s] = IF @ > m THEN @ ELSE m + 1]
      /\ completed' = [completed EXCEPT ![s] = Ended(p)]
      /\ UNCHANGED <<posts, holder, feed, due, job>>
  BY DEF EnqueuePage, At, Connected, stored, site
<1>2. \/ pc' = [pc EXCEPT ![p] = "repick"]
      \/ pc' = [pc EXCEPT ![p] = "list"] /\ page' = [page EXCEPT ![p] = m + 1]
  BY DEF EnqueuePage, Goto
<1>3. s \in Source /\ m \in Nat \ {0} /\ next[s] \in Nat \ {0} /\ Src(p)' = s
  <2>1. s \in Source
    OBVIOUS
  <2>2. m \in Nat /\ m > 0 /\ next[s] \in Nat \ {0}
    BY <1>0, <1>1, <2>1 DEF TypeOK, WellFormed, PlaceInv
  <2>3. QED
    BY <1>1, <2>1, <2>2 DEF Src
<1>4. records[p] \subseteq Known'
  <2>1. records[p] \subseteq Url
    BY <1>0 DEF TypeOK
  <2>2. QED
    BY <1>1, <2>1 DEF Known
<1>5. ASSUME NEW t \in Source, t # s PROVE ScannedInv(t)'
  <2>1. next'[t] = next[t] /\ completed'[t] = completed[t]
    BY <1>0, <1>1, <1>5 DEF TypeOK
  <2>2. \A l : ~Reads(t, l)'
    BY <1>1, <1>3, <1>5 DEF Reads
  <2>3. QED
    BY <1>1, <2>1, <2>2, ScannedKept DEF ScanInv
<1>6. next'[s] = (IF next[s] > m THEN next[s] ELSE m + 1) /\ completed'[s] = (records[p] = {})
  BY <1>0, <1>1, <1>3 DEF TypeOK, Ended
<1>7. Reads(s, "enqueue") /\ ~Reads(s, "list") /\ ~Reads(s, "enqueue")'
  <2>1. pc'[p] # "enqueue"
    BY <1>0, <1>2 DEF TypeOK
  <2>2. QED
    BY <1>0, <1>1, <2>1 DEF Reads
<1>8. Back(s)' \in Nat /\ Back(s)' <= m + 1
  <2>1. Back(s) <= m
    BY <1>1, <1>3, <1>7 DEF ScanInv, ScannedInv
  <2>2. QED
    BY <1>3, <1>6, <2>1 DEF Back
<1>9. \/ Reads(s, "list")' /\ page'[holder'] = m + 1
      \/ ~Reads(s, "list")'
  BY <1>0, <1>1, <1>2 DEF Reads, TypeOK
<1>10. ASSUME NEW u PROVE Front(s, u)' \in Nat /\ Front(s, u)' <= m + 1
  <2>1. Front(s, u)' \in {m + 1, Back(s)'}
    BY <1>7, <1>9 DEF Front
  <2>2. m + 1 <= m + 1 /\ m + 1 \in Nat
    BY <1>3
  <2>3. QED
    BY <1>8, <2>1, <2>2
<1>11. ScannedInv(s)'
  <2>1. ASSUME NEW i \in DOMAIN feed'[s], NEW u \in due'[s] \ Known', feed'[s][i] = u
        PROVE  Front(s, u)' <= PageOf(i)
    <3>0. i \in DOMAIN feed[s] /\ feed[s][i] = u /\ u \in due[s] \ Known /\ u \notin records[p]
      BY <1>0, <1>1, <1>4, <2>1
    <3>1. Front(s, u) = m + 1
      BY <1>1, <1>7, <3>0 DEF Front
    <3>2. m + 1 <= PageOf(i)
      BY <1>3, <3>0, <3>1 DEF ScanInv, ScannedInv
    <3>3. PageOf(i) \in Nat
      BY <1>0, <3>0, PostPage
    <3>4. Front(s, u)' \in Nat /\ Front(s, u)' <= m + 1
      BY <1>10
    <3>5. QED
      BY <1>3, <3>2, <3>3, <3>4
  <2>2. due'[s] \subseteq Range(feed'[s])
    BY <1>1, <1>3 DEF ScanInv, ScannedInv
  <2>3. completed'[s] => due'[s] \subseteq Known'
    BY <1>0, <1>1, <1>3, <1>6, <1>7 DEF ScanInv, ScannedInv
  <2>4. Reads(s, "list")' => Back(s)' <= page'[holder']
    BY <1>8, <1>9
  <2>5. QED
    BY <1>7, <2>1, <2>2, <2>3, <2>4 DEF ScannedInv, PageOf
<1>12. QED
  BY <1>5, <1>11 DEF ScanInv

\* The site edits a listing: what a batch holds, and what is known, remains.
LEMMA Edited ==
  ASSUME WellFormed, ScanInv, [Next]_vars, NEW s \in Source,
         UNCHANGED <<next, completed, posts, state, holder, pc, job, page, records>>,
         \A t \in Source \ {s} : feed'[t] = feed[t] /\ due'[t] = due[t],
         due'[s] \subseteq due[s], due'[s] \subseteq Range(feed'[s]),
         \A i \in DOMAIN feed'[s], u \in due'[s] \ Known :
           feed'[s][i] = u => Front(s, u) <= PageOf(i)
  PROVE  ScanInv'
<1>1. Known' = Known /\ \A t \in Source : Back(t)' = Back(t) /\ \A l : Reads(t, l)' = Reads(t, l)
  BY DEF Known, Back, Reads, Src
<1>2. \A u : Front(s, u)' = Front(s, u)
  BY <1>1 DEF Front
<1>3. ASSUME NEW t \in Source \ {s} PROVE ScannedInv(t)'
  BY <1>1, <1>3, ScannedKept DEF ScanInv
<1>4. ScannedInv(s)'
  <2>1. \A i \in DOMAIN feed'[s], u \in due'[s] \ Known' :
          feed'[s][i] = u => Front(s, u)' <= PageOf(i)
    BY <1>1, <1>2
  <2>2. completed'[s] => due'[s] \subseteq Known'
    BY <1>1 DEF ScanInv, ScannedInv
  <2>3. Reads(s, "list")' \/ Reads(s, "enqueue")' => Back(s)' <= page'[holder']
    BY <1>1 DEF ScanInv, ScannedInv
  <2>4. Reads(s, "enqueue")' /\ records'[holder'] = {} => due'[s] \subseteq Known'
    BY <1>1 DEF ScanInv, ScannedInv
  <2>5. QED
    BY <2>1, <2>2, <2>3, <2>4 DEF ScannedInv, PageOf
<1>5. QED
  BY <1>3, <1>4 DEF ScanInv

\* A post that comes in front is none that the scan must meet.
LEMMA PublishCovers ==
  ASSUME WellFormed, ScanInv, [Next]_vars, NEW s \in Source, NEW u \in Url, Publish(s, u)
  PROVE  ScanInv'
<1>0. TypeOK
  BY DEF WellFormed
<1>1. /\ u \notin Range(feed[s]) /\ feed' = [feed EXCEPT ![s] = <<u>> \o @]
      /\ UNCHANGED <<next, completed, posts, state, holder, due, pc, job, page, records>>
  BY DEF Publish, progress, queue, stored, batch
<1>2. u \notin due[s] /\ due[s] \subseteq Range(feed[s])
  BY <1>1 DEF ScanInv, ScannedInv
<1>3. feed[s] \in Seq(Url) /\ feed'[s] = <<u>> \o feed[s]
  BY <1>0, <1>1 DEF TypeOK
<1>4. /\ DOMAIN feed'[s] = 1..Len(feed[s]) + 1
      /\ feed'[s][1] = u
      /\ \A i \in DOMAIN feed[s] : i + 1 \in DOMAIN feed'[s] /\ feed'[s][i + 1] = feed[s][i]
      /\ \A i \in DOMAIN feed'[s] : i # 1 => i - 1 \in DOMAIN feed[s] /\ feed'[s][i] = feed[s][i - 1]
  <2> DEFINE f == feed[s]
             g == feed'[s]
  <2>1. f \in Seq(Url) /\ <<u>> \in Seq(Url) /\ g = <<u>> \o f /\ Len(f) \in Nat /\ Len(<<u>>) = 1
        /\ <<u>>[1] = u
    BY <1>3
  <2> HIDE DEF f, g
  <2>2. g \in Seq(Url) /\ Len(g) = Len(f) + 1
        /\ \A i \in 1..Len(f) + 1 : g[i] = IF i <= 1 THEN <<u>>[i] ELSE f[i - 1]
    BY <2>1
  <2>3. DOMAIN g = 1..Len(f) + 1 /\ DOMAIN f = 1..Len(f)
    BY <2>1, <2>2
  <2>4. \A i \in DOMAIN f : i + 1 \in DOMAIN g /\ g[i + 1] = f[i]
    <3> SUFFICES ASSUME NEW i \in DOMAIN f PROVE i + 1 \in DOMAIN g /\ g[i + 1] = f[i]
      OBVIOUS
    <3>1. i + 1 \in 1..Len(f) + 1 /\ ~(i + 1 <= 1) /\ i + 1 - 1 = i
      BY <2>1, <2>3
    <3>2. g[i + 1] = f[i + 1 - 1]
      BY <2>2, <3>1
    <3>3. QED
      BY <2>3, <3>1, <3>2
  <2>5. \A i \in DOMAIN g : i # 1 => i - 1 \in DOMAIN f /\ g[i] = f[i - 1]
    BY <2>1, <2>2, <2>3
  <2>6. g[1] = u
    BY <2>1, <2>2
  <2>7. QED
    BY <2>3, <2>4, <2>5, <2>6 DEF f, g
<1>5. due'[s] \subseteq Range(feed'[s])
  <2> SUFFICES ASSUME NEW v \in due[s] PROVE v \in Range(feed'[s])
    BY <1>1
  <2>1. PICK i \in DOMAIN feed[s] : v = feed[s][i]
    BY <1>2 DEF Range
  <2>2. i + 1 \in DOMAIN feed'[s] /\ v = feed'[s][i + 1]
    BY <1>4, <2>1
  <2>3. QED
    BY <2>2 DEF Range
<1>6. ASSUME NEW i \in DOMAIN feed'[s], NEW v \in due'[s] \ Known, feed'[s][i] = v
      PROVE  Front(s, v) <= PageOf(i)
  <2> DEFINE h == i - 1
  <2>1. h \in DOMAIN feed[s] /\ v = feed[s][h] /\ v \in due[s] \ Known
    BY <1>1, <1>2, <1>4, <1>6
  <2>2. h \in Nat \ {0} /\ i = h + 1
    BY <1>0, <1>4, <2>1, FeedNumbers
  <2>3. Front(s, v) <= PageOf(h) /\ Front(s, v) \in Nat
    BY <1>0, <2>1, FrontType DEF ScanInv, ScannedInv
  <2> HIDE DEF h
  <2>4. PageOf(h) \in Nat /\ PageOf(h + 1) \in Nat /\ PageOf(h + 1) >= PageOf(h)
    BY <2>2, PageBounds
  <2>5. QED
    BY <2>2, <2>3, <2>4
<1>7. \A t \in Source \ {s} : feed'[t] = feed[t] /\ due'[t] = due[t]
  BY <1>0, <1>1 DEF TypeOK
<1>8. QED
  BY <1>1, <1>5, <1>6, <1>7, Edited

\* Two sequences, one behind the other.
LEMMA Concatenated ==
  ASSUME NEW T, NEW x \in Seq(T), NEW y \in Seq(T)
  PROVE  x \o y \in Seq(T) /\ Len(x \o y) = Len(x) + Len(y)
         /\ \A i \in 1..Len(x) + Len(y) : (x \o y)[i] = IF i <= Len(x) THEN x[i] ELSE y[i - Len(x)]
  OBVIOUS

\* What remains of a sequence without one of its places.
LEMMA Removed ==
  ASSUME NEW T, NEW f \in Seq(T), NEW c \in DOMAIN f
  PROVE  LET g == SubSeq(f, 1, c - 1) \o SubSeq(f, c + 1, Len(f))
         IN /\ g \in Seq(T) /\ Len(f) \in Nat
            /\ DOMAIN f = 1..Len(f) /\ DOMAIN g = 1..Len(f) - 1
            /\ \A i \in DOMAIN g : g[i] = f[IF i < c THEN i ELSE i + 1]
<1> DEFINE n == Len(f)
           a == SubSeq(f, 1, c - 1)
           b == SubSeq(f, c + 1, n)
           g == a \o b
<1>1. /\ n \in Nat /\ n = Len(f) /\ DOMAIN f = 1..n /\ c \in 1..n /\ g = a \o b
      /\ a = SubSeq(f, 1, c - 1) /\ b = SubSeq(f, c + 1, n)
  OBVIOUS
<1> HIDE DEF n, a, b, g
<1>2. a \in Seq(T) /\ Len(a) = c - 1 /\ \A i \in 1..c - 1 : a[i] = f[i]
  <2>1. \A i \in 1..c - 1 : f[i] \in T
    BY <1>1
  <2>2. QED
    BY <1>1, <2>1
<1>3. b \in Seq(T) /\ Len(b) = n - c /\ \A i \in 1..n - c : b[i] = f[i + c]
  <2>1. \A i \in c + 1..n : f[i] \in T
    BY <1>1
  <2>2. c + 1 \in Int /\ n \in Int /\ c + 1 <= n + 1 /\ n - (c + 1) + 1 = n - c
    BY <1>1
  <2>3. b \in Seq(T) /\ Len(b) = n - c
    BY <1>1, <2>1, <2>2
  <2>4. ASSUME NEW i \in 1..n - c PROVE b[i] = f[i + c]
    <3> DEFINE m == c + 1
    <3>1. m \in Nat /\ n \in Nat /\ i \in 1..n - m + 1 /\ b = SubSeq(f, m, n)
      BY <1>1, <2>2
    <3>2. m + i - 1 = i + c
      BY <1>1
    <3> HIDE DEF m
    <3>3. b[i] = f[m + i - 1]
      BY <3>1
    <3>4. QED
      BY <3>2, <3>3
  <2>5. QED
    BY <2>3, <2>4
<1>4. g \in Seq(T) /\ Len(g) = n - 1
      /\ \A i \in 1..n - 1 : g[i] = IF i <= c - 1 THEN a[i] ELSE b[i - (c - 1)]
  <2>1. c \in Int /\ n \in Int /\ c >= 1 /\ c <= n
    BY <1>1
  <2>2. g \in Seq(T) /\ Len(g) = Len(a) + Len(b)
        /\ \A i \in 1..Len(a) + Len(b) : g[i] = IF i <= Len(a) THEN a[i] ELSE b[i - Len(a)]
    <3>1. a \in Seq(T) /\ b \in Seq(T) /\ g = a \o b
      BY <1>1, <1>2, <1>3
    <3>2. QED
      BY <3>1, Concatenated
  <2>3. Len(a) + Len(b) = n - 1
    BY <1>2, <1>3, <2>1
  <2>4. QED
    BY <1>2, <2>2, <2>3
<1>5. DOMAIN g = 1..n - 1
  <2>1. DOMAIN g = 1..Len(g)
    BY <1>4
  <2>2. QED
    BY <1>4, <2>1
<1>6. ASSUME NEW i \in 1..n - 1 PROVE g[i] = f[IF i < c THEN i ELSE i + 1]
  <2>1. CASE i <= c - 1
    <3>1. i \in 1..c - 1 /\ i < c
      BY <1>1, <2>1
    <3>2. g[i] = f[i]
      BY <1>2, <1>4, <2>1, <3>1
    <3>3. QED
      BY <3>1, <3>2
  <2>2. CASE ~(i <= c - 1)
    <3>0. i \in Int /\ c \in Int /\ n \in Int /\ i <= n - 1 /\ i > c - 1
      BY <1>1, <2>2
    <3>1. i - (c - 1) \in 1..n - c /\ i - (c - 1) + c = i + 1 /\ ~(i < c)
      BY <3>0
    <3>2. g[i] = f[i + 1]
      BY <1>3, <1>4, <2>2, <3>1
    <3>3. QED
      BY <3>1, <3>2
  <2>3. QED
    BY <2>1, <2>2
<1>7. QED
  BY <1>1, <1>4, <1>5, <1>6 DEF n, a, b, g

\* A withdrawn post moves what follows it up by one: onto a page that the scan
\* will still read, or out of what the scan must meet.
LEMMA WithdrawCovers ==
  ASSUME WellFormed, ScanInv, [Next]_vars, NEW s \in Source, Withdraw(s)
  PROVE  ScanInv'
<1>0. TypeOK
  BY DEF WellFormed
<1>1. UNCHANGED <<next, completed, posts, state, holder, pc, job, page, records>>
  BY DEF Withdraw, progress, queue, stored, batch
<1>2. PICK c \in DOMAIN feed[s] :
        /\ feed' = [feed EXCEPT ![s] = SubSeq(@, 1, c - 1) \o SubSeq(@, c + 1, Len(@))]
        /\ due' = [due EXCEPT ![s] = @ \ ({feed[s][c]} \cup Slipping(s, c))]
  BY DEF Withdraw
<1>3. due'[s] = due[s] \ ({feed[s][c]} \cup Slipping(s, c))
  BY <1>0, <1>2 DEF TypeOK
<1>4. feed[s] \in Seq(Url) /\ feed'[s] = SubSeq(feed[s], 1, c - 1) \o SubSeq(feed[s], c + 1, Len(feed[s]))
  BY <1>0, <1>2 DEF TypeOK
<1>5. /\ DOMAIN feed[s] = 1..Len(feed[s]) /\ DOMAIN feed'[s] = 1..Len(feed[s]) - 1
      /\ Len(feed[s]) \in Nat
      /\ \A i \in DOMAIN feed'[s] : feed'[s][i] = feed[s][IF i < c THEN i ELSE i + 1]
  <2> DEFINE f == feed[s]
             g == feed'[s]
  <2>1. f \in Seq(Url) /\ c \in DOMAIN f /\ g = SubSeq(f, 1, c - 1) \o SubSeq(f, c + 1, Len(f))
    BY <1>4
  <2> HIDE DEF f, g
  <2>2. /\ Len(f) \in Nat /\ DOMAIN f = 1..Len(f) /\ DOMAIN g = 1..Len(f) - 1
        /\ \A i \in DOMAIN g : g[i] = f[IF i < c THEN i ELSE i + 1]
    <3>1. LET h == SubSeq(f, 1, c - 1) \o SubSeq(f, c + 1, Len(f))
          IN /\ Len(f) \in Nat
             /\ DOMAIN f = 1..Len(f) /\ DOMAIN h = 1..Len(f) - 1
             /\ \A i \in DOMAIN h : h[i] = f[IF i < c THEN i ELSE i + 1]
      BY <2>1, Removed
    <3>2. QED
      BY <2>1, <3>1
  <2>3. QED
    BY <2>2 DEF f, g
<1>6. due'[s] \subseteq due[s] /\ due[s] \subseteq Range(feed[s])
  BY <1>3 DEF ScanInv, ScannedInv
<1>7. due'[s] \subseteq Range(feed'[s])
  <2> SUFFICES ASSUME NEW v \in due'[s] PROVE v \in Range(feed'[s])
    OBVIOUS
  <2>1. PICK j \in DOMAIN feed[s] : v = feed[s][j]
    BY <1>6 DEF Range
  <2>2. j # c /\ j \in Int /\ c \in Int /\ 1 <= j /\ j <= Len(feed[s]) /\ 1 <= c
        /\ c <= Len(feed[s])
    BY <1>3, <1>5, <2>1
  <2>3. CASE j < c
    <3>1. j \in DOMAIN feed'[s] /\ feed'[s][j] = v
      BY <1>5, <2>1, <2>2, <2>3
    <3>2. QED
      BY <3>1 DEF Range
  <2>4. CASE j > c
    <3>1. j - 1 \in DOMAIN feed'[s] /\ ~(j - 1 < c) /\ j - 1 + 1 = j
      BY <1>5, <2>2, <2>4
    <3>2. feed'[s][j - 1] = v
      BY <1>5, <2>1, <3>1
    <3>3. QED
      BY <3>1, <3>2 DEF Range
  <2>5. QED
    BY <2>2, <2>3, <2>4
<1>8. ASSUME NEW i \in DOMAIN feed'[s], NEW u \in due'[s] \ Known, feed'[s][i] = u
      PROVE  Front(s, u) <= PageOf(i)
  <2>0. i \in Nat \ {0} /\ i <= Len(feed[s]) - 1 /\ c \in Int
    BY <1>5
  <2>1. u \in due[s] \ Known /\ u \notin Slipping(s, c)
    BY <1>3, <1>8
  <2>2. CASE i < c
    <3>1. i \in DOMAIN feed[s] /\ feed[s][i] = u
      BY <1>5, <1>8, <2>0, <2>2
    <3>2. QED
      BY <2>1, <3>1 DEF ScanInv, ScannedInv
  <2>3. CASE ~(i < c)
    <3> DEFINE j == i + 1
    <3>1. j \in DOMAIN feed[s] /\ j > c /\ feed[s][j] = u /\ j - 1 = i
      BY <1>5, <1>8, <2>0, <2>3
    <3> HIDE DEF j
    <3>2. Front(s, u) <= PageOf(j)
      BY <2>1, <3>1 DEF ScanInv, ScannedInv
    <3>3. ~(PageOf(j - 1) < Front(s, u))
      BY <2>1, <3>1, <3>2 DEF Slipping
    <3>4. Front(s, u) \in Nat /\ PageOf(i) \in Nat
      BY <1>0, <2>0, FrontType, PageBounds
    <3>5. QED
      BY <3>1, <3>3, <3>4
  <2>4. QED
    BY <2>2, <2>3
<1>9. \A t \in Source \ {s} : feed'[t] = feed[t] /\ due'[t] = due[t]
  BY <1>0, <1>2 DEF TypeOK
<1>10. QED
  BY <1>1, <1>6, <1>7, <1>8, <1>9, Edited

\* Every step keeps the coverage.
LEMMA NextScan ==
  ASSUME WellFormed, ScanInv, [Next]_vars
  PROVE  ScanInv'
<1> USE DEF At, progress, queue, stored, site, batch, vars
<1>0. TypeOK
  BY DEF WellFormed
<1>1. ASSUME NEW p \in Proc,
             Unlock(p) \/ ConnectionLost(p) \/ RefuseBatch(p) \/ Error(p) \/ Crash(p)
             \/ RejectPage(p) \/ Stopped(p)
      PROVE  ScanInv'
  <2>1. ASSUME Unlock(p) \/ Crash(p) PROVE ScanInv'
    <3>1. /\ Forget(p) /\ UNCHANGED <<next, completed, feed, due>>
          /\ holder' \in {holder, NoProc} /\ Goto(p, "idle")
      BY <2>1 DEF Unlock, Crash, Forget
    <3>2. \A q \in Proc \ {p} : page'[q] = page[q] /\ records'[q] = records[q] /\ job'[q] = job[q]
      BY <1>0, <3>1 DEF TypeOK, Forget
    <3>3. \A q \in Proc \ {p} : holder' = q => holder = q
      BY <3>1, BackfillAssumption
    <3>4. QED
      BY <3>1, <3>2, <3>3, ScanMove
  <2>2. ASSUME ConnectionLost(p) \/ RefuseBatch(p) \/ Error(p) PROVE ScanInv'
    BY <2>2, ScanMove DEF ConnectionLost, RefuseBatch, Error
  <2>3. ASSUME RejectPage(p) \/ Stopped(p) PROVE ScanInv'
    BY <2>3, ScanMove DEF RejectPage, Stopped
  <2>4. QED
    BY <1>1, <2>1, <2>2, <2>3
<1>2. ASSUME CloseDeadSession \/ Disconnect \/ NewDay PROVE ScanInv'
  <2>1. UNCHANGED <<next, completed, feed, due, pc, page, records, job>>
        /\ holder' \in {holder, NoProc}
    BY <1>2 DEF CloseDeadSession, Disconnect, NewDay
  <2>2. QED
    BY <2>1, ScanStill, BackfillAssumption DEF Connected
<1>3. ASSUME NEW s \in Source, CooldownOver(s) PROVE ScanInv'
  BY <1>3, ScanStill DEF CooldownOver, Connected
<1>4. ASSUME NEW u \in Url, StoreElsewhere(u) PROVE ScanInv'
  BY <1>4, ScanStill DEF StoreElsewhere, Connected
<1>5. CASE UNCHANGED vars
  BY <1>5, ScanStill DEF Connected
<1>6. ASSUME NEW p \in Proc, Works(p) PROVE ScanInv'
  <2>1. ASSUME NEW j \in Jobs, Launch(p, j) PROVE ScanInv'
    <3>1. /\ Goto(p, "begin") /\ holder' = p /\ UNCHANGED <<next, completed, feed, due, page, records>>
          /\ job' = [job EXCEPT ![p] = j]
      BY <2>1 DEF Launch
    <3>2. \A q \in Proc \ {p} : job'[q] = job[q]
      BY <1>0, <3>1 DEF TypeOK
    <3>3. QED
      BY <3>1, <3>2, ScanMove
  <2>2. ASSUME BeginBatch(p) \/ RetryFailed(p) \/ MarkExisting(p) \/ Check(p) \/ Fail(p)
        PROVE  ScanInv'
    BY <2>2, ScanMove DEF BeginBatch, RetryFailed, MarkExisting, Check, Fail
  <2>3. ASSUME Pick(p) \/ NextUrl(p) \/ Finish(p) PROVE ScanInv'
    BY <2>3, ScanMove DEF Pick, NextUrl, Finish
  <2>4. ASSUME ReadBudget(p) PROVE ScanInv'
    <3>1. Goto(p, "charge") \/ Goto(p, "metacharge") \/ Goto(p, "unlock") \/ Goto(p, "finishlast")
      BY <2>4 DEF ReadBudget
    <3>2. QED
      BY <2>4, <3>1, ScanMove DEF ReadBudget
  <2>5. ASSUME Charge(p) PROVE ScanInv'
    BY <2>5, ScanMove DEF Charge
  <2>6. ASSUME Fetch(p) \/ FetchMetadata(p) PROVE ScanInv'
    BY <2>6, ScanMove DEF Fetch, FetchMetadata, DatelessNext
  <2>7. QED
    BY <1>6, <2>1, <2>2, <2>3, <2>4, <2>5, <2>6, StartScanCovers, ListPageCovers, EnqueueCovers
       DEF Works
<1> QED
  BY <1>1, <1>2, <1>3, <1>4, <1>5, <1>6, PublishCovers, WithdrawCovers DEF Next, Step, Works

\* A scan that is declared complete has met every post that was listed when it
\* began and since, whatever batches stopped or crashed on the way and whatever
\* was published and withdrawn, unless a withdrawal moved it, unread, in front
\* of where the scan goes on.
THEOREM ScanComplete == Spec => []ScanCovers
<1>1. Init => ScanInv
  <2> SUFFICES ASSUME Init PROVE ScanInv
    OBVIOUS
  <2>0. TypeOK
    BY InitWellFormed DEF WellFormed
  <2> SUFFICES ASSUME NEW s \in Source PROVE ScannedInv(s)
    BY DEF ScanInv
  <2>1. next[s] = 1 /\ ~completed[s] /\ due[s] = Range(feed[s]) /\ \A l : ~Reads(s, l)
    BY DEF Init, Reads
  <2>2. \A u : Front(s, u) = 1
    BY <2>1 DEF Front, Back
  <2>3. \A i \in DOMAIN feed[s] : Front(s, feed[s][i]) <= PageOf(i)
    BY <2>0, <2>2, FeedNumbers, PageBounds
  <2>4. QED
    BY <2>1, <2>3 DEF ScannedInv
<1>2. ScanInv => ScanCovers
  BY DEF ScanInv, ScannedInv, ScanCovers
<1>3. WellFormed /\ ScanInv /\ [Next]_vars => ScanInv'
  BY NextScan
<1>4. QED
  BY <1>1, <1>2, <1>3, InitWellFormed, NextWellFormed, PTL DEF Spec
=============================================================================
