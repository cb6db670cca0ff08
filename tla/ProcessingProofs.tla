-------------------------- MODULE ProcessingProofs --------------------------
(* What TLAPS proves about Processing, for every set of runs, pages and     *)
(* questions and every bound on the disturbances.                           *)
EXTENDS Processing, TLAPS

\* The successor of a stage is a place a run can be at.
LEMMA AfterType ==
  ASSUME NEW s \in Stage PROVE After[s] \in Stage \cup {"release"}
  BY DEF After, Stage

LEMMA UnmarkedType == Unmarked \in [Stage -> {"none", "done", "failed"}]
  BY DEF Unmarked

\* Moving a run keeps the control variables in their types.
LEMMA GotoType ==
  ASSUME TypeOK, NEW r \in Run,
         NEW p \in Stage \cup {"idle", "crawl", "fetch", "clean", "claim", "release"},
         NEW ph \in {"work", "embed", "mark", "fail"}, Goto(r, p, ph)
  PROVE  /\ pc' \in [Run -> Stage \cup {"idle", "crawl", "fetch", "clean", "claim", "release"}]
         /\ phase' \in [Run -> {"work", "embed", "mark", "fail"}]
         /\ tx' \in [Run -> {"none", "before", "after"}]
  BY DEF TypeOK, Goto

\* Init establishes the type invariant (the row of post_processing is absent).
LEMMA InitType == Init => TypeOK
<1> SUFFICES ASSUME Init PROVE TypeOK
  OBVIOUS
<1>1. NoInput \in Input
  BY DEF NoInput, Input, PageOrNone
<1>2. /\ title \in PageOrNone /\ body \in PageOrNone
      /\ status \in {"absent", "pending", "done", "failed", "skipped"}
  BY DEF Init, PageOrNone
<1>3. /\ owner \in Run \cup {NoRun} /\ live \in BOOLEAN
      /\ hash \in Input /\ payload \in PayloadOrNone
      /\ stage \in [Stage -> {"none", "done", "failed"}]
  BY <1>1, UnmarkedType DEF Init, PayloadOrNone
<1>4. /\ questions \in PayloadOrNone /\ embedded \in SUBSET Content
      /\ norm \in PayloadOrNone /\ score \in PayloadOrNone
  BY DEF Init, PayloadOrNone
<1>5. /\ pc \in [Run -> Stage \cup {"idle", "crawl", "fetch", "clean", "claim", "release"}]
      /\ phase \in [Run -> {"work", "embed", "mark", "fail"}]
      /\ tx \in [Run -> {"none", "before", "after"}]
  BY DEF Init
<1>6. /\ reuse \in [Run -> BOOLEAN] /\ cache \in [Run -> BOOLEAN]
      /\ read \in [Run -> Input] /\ got \in [Run -> PayloadOrNone]
      /\ skip \in [Run -> SUBSET Stage] /\ todo \in [Run -> SUBSET Content]
  BY <1>1 DEF Init, PayloadOrNone
<1>7. faults \in 0..MaxFaults
  BY ProcessingAssumption DEF Init
<1> QED
  BY <1>2, <1>3, <1>4, <1>5, <1>6, <1>7 DEF TypeOK

\* Every step keeps the types.
LEMMA NextType == TypeOK /\ [Next]_vars => TypeOK'
<1> SUFFICES ASSUME TypeOK, [Next]_vars PROVE TypeOK'
  OBVIOUS
<1> USE ProcessingAssumption
    DEF post, lease, row, results, opts, local, vars, PageOrNone, Input, PayloadOrNone
<1>1. ASSUME NEW r \in Run, Begin(r) PROVE TypeOK'
  BY <1>1 DEF Begin, TypeOK
<1>2. ASSUME NEW r \in Run, Start(r) PROVE TypeOK'
  BY <1>2, GotoType DEF Start, Launch, TypeOK, Goto
<1>3. ASSUME NEW r \in Run, StartUncached(r) PROVE TypeOK'
  BY <1>3 DEF StartUncached, Launch, TypeOK, Goto, Fault
<1>4. ASSUME NEW r \in Run, ReuseText(r) PROVE TypeOK'
  BY <1>4 DEF ReuseText, TypeOK, Goto
<1>5. ASSUME NEW r \in Run, DecideFetch(r) PROVE TypeOK'
  BY <1>5 DEF DecideFetch, TypeOK, Goto
<1>6. ASSUME NEW r \in Run, StoreRaw(r) PROVE TypeOK'
  BY <1>6 DEF StoreRaw, TypeOK, Goto, Upserted
<1>7. ASSUME NEW r \in Run, CleanShort(r) PROVE TypeOK'
  BY <1>7 DEF CleanShort, TypeOK, Goto
<1>8. ASSUME NEW r \in Run, StoreCleaned(r) PROVE TypeOK'
  BY <1>8 DEF StoreCleaned, TypeOK, Goto
<1>9. ASSUME CrawlOne PROVE TypeOK'
  BY <1>9 DEF CrawlOne, TypeOK, ctl, Upserted, Fault
<1>10. ASSUME NEW r \in Run, Claim(r) PROVE TypeOK'
  <2>1. KeptPayload(r) \in PayloadOrNone
    BY DEF TypeOK, KeptPayload
  <2>2. KeptStages(r) \in [Stage -> {"none", "done", "failed"}]
    BY UnmarkedType DEF TypeOK, KeptStages
  <2>3. pc' \in [Run -> Stage \cup {"idle", "crawl", "fetch", "clean", "claim", "release"}]
    <3>1. pc' = [pc EXCEPT ![r] = "normalize"] \/ pc' = [pc EXCEPT ![r] = "extract"]
      BY <1>10 DEF Claim
    <3>2. QED
      BY <3>1 DEF TypeOK, Stage
  <2>4. /\ got' \in [Run -> PayloadOrNone]
        /\ skip' \in [Run -> SUBSET Stage]
    <3>1. CASE ReusesExtraction(r)
      <4>1. /\ got' = [got EXCEPT ![r] = KeptPayload(r)]
            /\ skip' = [skip EXCEPT ![r] = {s \in Stage : KeptStages(r)[s] = "done"}]
        BY <1>10, <3>1 DEF Claim
      <4>2. {s \in Stage : KeptStages(r)[s] = "done"} \in SUBSET Stage
        OBVIOUS
      <4>3. QED
        BY <4>1, <4>2, <2>1 DEF TypeOK
    <3>2. CASE ~ReusesExtraction(r)
      BY <1>10, <3>2 DEF Claim, TypeOK
    <3>3. QED
      BY <3>1, <3>2
  <2>5. tx' \in [Run -> {"none", "before", "after"}]
    BY <1>10 DEF Claim, TypeOK
  <2>6. QED
    BY <1>10, <2>1, <2>2, <2>3, <2>4, <2>5 DEF Claim, TypeOK
<1>11. ASSUME NEW r \in Run, ClaimRefused(r) PROVE TypeOK'
  BY <1>11 DEF ClaimRefused, TypeOK, Goto
<1>12. ASSUME NEW r \in Run, SaveExtraction(r) PROVE TypeOK'
  <2> PICK qs \in Extractions :
        LET p == [input |-> read[r], qs |-> qs] IN
        /\ payload' = p /\ questions' = p /\ embedded' = embedded \cap qs
        /\ got' = [got EXCEPT ![r] = p]
    BY <1>12 DEF SaveExtraction
  <2> DEFINE p == [input |-> read[r], qs |-> qs]
  <2>1. p \in Payload
    BY DEF TypeOK, Payload
  <2>2. stage' \in [Stage -> {"none", "done", "failed"}]
    BY <1>12, UnmarkedType DEF SaveExtraction, OnlyExtracted
  <2>3. embedded' \in SUBSET Content /\ got' \in [Run -> PayloadOrNone]
    BY <2>1 DEF TypeOK
  <2>4. QED
    BY <1>12, <2>1, <2>2, <2>3 DEF SaveExtraction, TypeOK, Goto, Stage
<1>13. ASSUME NEW r \in Run, ExtractionFails(r) PROVE TypeOK'
  BY <1>13 DEF ExtractionFails, TypeOK, Goto, Stage, Fault
<1>14. ASSUME NEW r \in Run, Normalize(r) PROVE TypeOK'
  BY <1>14 DEF Normalize, TypeOK, Goto, Stage
<1>15. ASSUME NEW r \in Run, Score(r) PROVE TypeOK'
  BY <1>15 DEF Score, TypeOK, Goto, Stage
<1>16. ASSUME NEW r \in Run, SkipStage(r) PROVE TypeOK'
  <2>1. After[pc[r]] \in Stage \cup {"release"}
    BY <1>16, AfterType DEF SkipStage, TypeOK
  <2>2. QED
    BY <1>16, <2>1 DEF SkipStage, TypeOK, Goto
<1>17. ASSUME NEW r \in Run, ReadUnembedded(r) PROVE TypeOK'
  <2>1. Unembedded \in SUBSET Content
    BY DEF TypeOK, Unembedded, QuestionsOf, Payload
  <2>2. QED
    BY <1>17, <2>1 DEF ReadUnembedded, TypeOK, Goto, Stage
<1>18. ASSUME NEW r \in Run, EmbedBatch(r) PROVE TypeOK'
  <2>1. PICK batch \in SUBSET todo[r] \ {{}} :
          /\ embedded' = embedded \cup (batch \cap QuestionsOf(questions))
          /\ todo' = [todo EXCEPT ![r] = @ \ batch]
          /\ Goto(r, "index", IF todo[r] = batch THEN "mark" ELSE "embed")
    BY <1>18 DEF EmbedBatch
  <2>2. embedded' \in SUBSET Content
    BY <2>1 DEF TypeOK
  <2>3. QED
    BY <1>18, <2>1, <2>2 DEF EmbedBatch, TypeOK, Goto, Stage
<1>19. ASSUME NEW r \in Run, MarkDone(r) PROVE TypeOK'
  <2>1. After[pc[r]] \in Stage \cup {"release"}
    BY <1>19, AfterType DEF MarkDone
  <2>2. QED
    BY <1>19, <2>1 DEF MarkDone, TypeOK, Goto
<1>20. ASSUME NEW r \in Run, MarkFailed(r) PROVE TypeOK'
  BY <1>20 DEF MarkFailed, TypeOK, Goto
<1>21. ASSUME NEW r \in Run, LeaseLost(r) PROVE TypeOK'
  <2>1. Goto(r, "release", "work") \/ Goto(r, pc[r], "fail")
    BY <1>21 DEF LeaseLost
  <2>2. QED
    BY <1>21, <2>1, GotoType DEF LeaseLost, TypeOK
<1>22. ASSUME NEW r \in Run, Error(r) PROVE TypeOK'
  <2>1. Goto(r, "release", "work") \/ (pc[r] \in Stage /\ Goto(r, pc[r], "fail"))
    BY <1>22 DEF Error
  <2>2. faults' \in 0..MaxFaults
    BY <1>22 DEF Error, Fault, TypeOK
  <2>3. QED
    BY <1>22, <2>1, <2>2, GotoType DEF Error, TypeOK
<1>23. ASSUME NEW r \in Run, Release(r) PROVE TypeOK'
  BY <1>23 DEF Release, Forget, TypeOK, Goto, NoInput
<1>24. ASSUME NEW r \in Run, Crash(r) PROVE TypeOK'
  BY <1>24 DEF Crash, Forget, TypeOK, Goto, NoInput, Fault
<1>25. ASSUME LapseStalled \/ LapseCrashed PROVE TypeOK'
  <2>1. live' = FALSE /\ faults' \in 0..MaxFaults
    BY <1>25 DEF LapseStalled, LapseCrashed, Fault, TypeOK
  <2>2. UNCHANGED <<post, owner, row, results, ctl, local>>
    BY <1>25 DEF LapseStalled, LapseCrashed
  <2>3. QED
    BY <2>1, <2>2 DEF TypeOK, ctl
<1>26. ASSUME UNCHANGED vars PROVE TypeOK'
  BY <1>26 DEF TypeOK, ctl
<1>27. QED
  BY <1>1, <1>2, <1>3, <1>4, <1>5, <1>6, <1>7, <1>8, <1>9, <1>10, <1>11, <1>12,
     <1>13, <1>14, <1>15, <1>16, <1>17, <1>18, <1>19, <1>20, <1>21, <1>22, <1>23,
     <1>24, <1>25, <1>26 DEF Next, Step, Resume

\* The variables keep their types in every behaviour.
THEOREM TypeCorrect == Spec => []TypeOK
<1>1. QED BY InitType, NextType, PTL DEF Spec

-----------------------------------------------------------------------------
(***************************************************************************)
(* The inductive invariant.  Visible posts are consistent because each     *)
(* checkpoint, at the moment it is marked, certifies the stored payload;   *)
(* this in turn holds because the owner of the lease works on the payload  *)
(* the row stores, and nobody else gets past a fence.                      *)
(***************************************************************************)

\* What the row of post_processing certifies about the stored results.
StoredInv ==
  /\ hash = NoInput => questions = NoPayload
  /\ payload # NoPayload => questions = payload /\ payload.input = hash
  /\ stage["normalize"] = "done" => payload # NoPayload /\ norm = payload
  /\ stage["score"] = "done" => payload # NoPayload /\ score = payload
  /\ stage["index"] = "done" => payload # NoPayload /\ Unembedded = {}

\* What holds of a run wherever it is.
PlaceInv(r) ==
  /\ pc[r] = "clean" => read[r][1] # NoPage
  /\ pc[r] \in Stage \cup {"claim"} => read[r] # NoInput
  /\ pc[r] \notin Stage => phase[r] = "work"

\* What holds of the run whose token the row carries.
OwnerInv(r) ==
  /\ pc[r] \in Stage \cup {"release", "idle"}
  /\ pc[r] \in Stage => hash = read[r]
  /\ (pc[r] \in Stage \ {"extract"}) \/ (pc[r] = "extract" /\ phase[r] = "mark")
       => payload # NoPayload /\ got[r] = payload
  /\ pc[r] = "normalize" /\ phase[r] = "mark" => norm = payload
  /\ pc[r] = "score" /\ phase[r] = "mark" => score = payload
  /\ pc[r] = "index" /\ phase[r] = "embed" => Unembedded \subseteq todo[r]
  /\ pc[r] = "index" /\ phase[r] = "mark" => Unembedded = {}

RunInv(r) == PlaceInv(r) /\ (owner = r => OwnerInv(r))

IInv == TypeOK /\ StoredInv /\ \A r \in Run : RunInv(r)

\* A step in which run q does nothing.
Idle(q) ==
  /\ pc'[q] = pc[q] /\ phase'[q] = phase[q] /\ read'[q] = read[q]
  /\ got'[q] = got[q] /\ todo'[q] = todo[q]

\* A run that does nothing and is not made the owner keeps its invariant,
\* as long as the row and the results stay, or somebody else is the owner.
LEMMA Frame ==
  ASSUME NEW q \in Run, RunInv(q), Idle(q), owner' = q => owner = q,
         UNCHANGED <<row, results>> \/ owner' # q
  PROVE  RunInv(q)'
<1>1. PlaceInv(q)'
  BY DEF RunInv, PlaceInv, Idle
<1>2. CASE owner' # q
  BY <1>1, <1>2 DEF RunInv
<1>3. CASE owner' = q /\ UNCHANGED <<row, results>>
  <2>1. OwnerInv(q) /\ UNCHANGED Unembedded
    BY <1>3 DEF RunInv, results, Unembedded, QuestionsOf
  <2>2. OwnerInv(q)'
    BY <1>3, <2>1 DEF OwnerInv, Idle, row, results
  <2>3. QED
    BY <1>1, <2>2 DEF RunInv
<1>4. QED
  BY <1>2, <1>3

LEMMA StoredFrame ==
  ASSUME StoredInv, UNCHANGED <<row, results>> PROVE StoredInv'
  BY DEF StoredInv, row, results, Unembedded, QuestionsOf

\* Only the slot r moves when r goes somewhere.
LEMMA GotoOther ==
  ASSUME TypeOK, NEW r \in Run, NEW p, NEW ph, Goto(r, p, ph)
  PROVE  /\ pc'[r] = p /\ phase'[r] = ph
         /\ \A q \in Run \ {r} : pc'[q] = pc[q] /\ phase'[q] = phase[q]
  BY DEF TypeOK, Goto

LEMMA NoInputIsEmpty ==
  ASSUME NEW v \in Page, NEW w PROVE <<v, w>> # NoInput /\ <<w, v>> # NoInput
  BY ProcessingAssumption DEF NoInput

LEMMA InitInv == Init => IInv
<1> SUFFICES ASSUME Init PROVE IInv
  OBVIOUS
<1>1. StoredInv
  BY DEF Init, StoredInv, Unmarked, Stage
<1>2. \A r \in Run : RunInv(r)
  BY ProcessingAssumption DEF Init, RunInv, PlaceInv, Stage
<1>3. QED
  BY <1>1, <1>2, InitType DEF IInv

-----------------------------------------------------------------------------
(* One lemma per kind of step.                                             *)

\* Steps of one run that leave the row, the results and the lease alone.
LEMMA QuietStep ==
  ASSUME IInv, NEW r \in Run, UNCHANGED <<row, results, lease>>, RunInv(r)',
         \A q \in Run \ {r} : Idle(q)
  PROVE  StoredInv' /\ \A q \in Run : RunInv(q)'
<1>1. \A q \in Run \ {r} : RunInv(q)'
  BY Frame DEF IInv, lease
<1>2. QED
  BY <1>1, StoredFrame DEF IInv

\* Crawling, cleaning, starting, errors: before the claim a run is not owner.
LEMMA CrawlSteps ==
  ASSUME IInv, NEW r \in Run,
         \/ Begin(r) \/ Start(r) \/ StartUncached(r) \/ ReuseText(r) \/ DecideFetch(r)
         \/ StoreRaw(r) \/ CleanShort(r) \/ StoreCleaned(r) \/ ClaimRefused(r)
  PROVE  StoredInv' /\ \A q \in Run : RunInv(q)'
<1> USE DEF local, opts
<1>1. TypeOK /\ RunInv(r)
  BY DEF IInv
<1>2. CASE Begin(r)
  <2>1. UNCHANGED <<row, results, lease>> /\ \A q \in Run : Idle(q)
    BY <1>2 DEF Begin, Idle
  <2>2. QED
    BY <2>1, Frame, StoredFrame DEF IInv, lease
<1>3. CASE Start(r) \/ StartUncached(r)
  <2>1. Launch(r)
    BY <1>3 DEF Start, StartUncached
  <2>2. UNCHANGED <<row, results, lease>> /\ \A q \in Run \ {r} : Idle(q)
    BY <1>1, <2>1, GotoOther DEF Launch, Idle
  <2>3. RunInv(r)'
    BY <1>1, <2>1, GotoOther DEF Launch, RunInv, PlaceInv, Stage, lease
  <2>4. QED
    BY <2>2, <2>3, QuietStep
<1>4. CASE ReuseText(r)
  <2>1. UNCHANGED <<row, results, lease>> /\ \A q \in Run \ {r} : Idle(q)
    BY <1>1, <1>4, GotoOther DEF ReuseText, Idle, TypeOK
  <2>2. owner # r
    BY <1>1, <1>4 DEF RunInv, OwnerInv, ReuseText, Stage
  <2>3. pc'[r] = "claim" /\ phase'[r] = "work" /\ read'[r] = <<title, body>>
    BY <1>1, <1>4, GotoOther DEF ReuseText, TypeOK
  <2>4. body \in Page
    BY <1>1, <1>4 DEF ReuseText, TypeOK, PageOrNone
  <2>5. RunInv(r)'
    BY <2>1, <2>2, <2>3, <2>4, NoInputIsEmpty DEF RunInv, PlaceInv, lease
  <2>6. QED
    BY <2>1, <2>5, QuietStep
<1>5. CASE DecideFetch(r) \/ CleanShort(r) \/ ClaimRefused(r)
  <2>1. Goto(r, "fetch", "work") \/ Goto(r, "release", "work")
    BY <1>5 DEF DecideFetch, CleanShort, ClaimRefused
  <2>2. UNCHANGED <<row, results, lease>> /\ \A q \in Run \ {r} : Idle(q)
    BY <1>1, <1>5, <2>1, GotoOther DEF DecideFetch, CleanShort, ClaimRefused, Idle
  <2>3. owner # r
    BY <1>1, <1>5 DEF RunInv, OwnerInv, DecideFetch, CleanShort, ClaimRefused, Stage
  <2>4. RunInv(r)'
    BY <1>1, <2>1, <2>2, <2>3, GotoOther DEF RunInv, PlaceInv, lease, Stage
  <2>5. QED
    BY <2>2, <2>4, QuietStep
<1>6. CASE StoreRaw(r)
  <2>1. PICK v \in Page : read' = [read EXCEPT ![r] = <<v, NoPage>>]
    BY <1>6 DEF StoreRaw
  <2>2. UNCHANGED <<row, results, lease>> /\ \A q \in Run \ {r} : Idle(q)
    BY <1>1, <1>6, <2>1, GotoOther DEF StoreRaw, Idle, TypeOK
  <2>3. owner # r
    BY <1>1, <1>6 DEF RunInv, OwnerInv, StoreRaw, Stage
  <2>4. pc'[r] = "clean" /\ phase'[r] = "work" /\ read'[r] = <<v, NoPage>>
    BY <1>1, <1>6, <2>1, GotoOther DEF StoreRaw, TypeOK
  <2>5. RunInv(r)'
    BY <2>2, <2>3, <2>4, ProcessingAssumption DEF RunInv, PlaceInv, lease, Stage
  <2>6. QED
    BY <2>2, <2>5, QuietStep
<1>7. CASE StoreCleaned(r)
  <2>1. UNCHANGED <<row, results, lease>> /\ \A q \in Run \ {r} : Idle(q)
    BY <1>1, <1>7, GotoOther DEF StoreCleaned, Idle, TypeOK
  <2>2. owner # r
    BY <1>1, <1>7 DEF RunInv, OwnerInv, StoreCleaned, Stage
  <2>3. /\ pc'[r] = "claim" /\ phase'[r] = "work"
        /\ read'[r] = <<read[r][1], read[r][1]>>
    BY <1>1, <1>7, GotoOther DEF StoreCleaned, TypeOK
  <2>4. read[r][1] \in Page
    BY <1>1, <1>7 DEF StoreCleaned, RunInv, PlaceInv, TypeOK, Input, PageOrNone
  <2>5. RunInv(r)'
    BY <2>1, <2>2, <2>3, <2>4, NoInputIsEmpty DEF RunInv, PlaceInv, lease
  <2>6. QED
    BY <2>1, <2>5, QuietStep
<1>8. QED
  BY <1>2, <1>3, <1>4, <1>5, <1>6, <1>7

\* The claim keeps a payload only for the input it was made from.
LEMMA ClaimStep ==
  ASSUME IInv, NEW r \in Run, Claim(r)
  PROVE  StoredInv' /\ \A q \in Run : RunInv(q)'
<1> USE DEF local, opts, row, results
<1>1. TypeOK /\ StoredInv /\ RunInv(r)
  BY DEF IInv
<1>2. /\ owner' = r /\ hash' = read[r] /\ read' = read /\ phase' = phase /\ todo' = todo
      /\ payload' = KeptPayload(r) /\ stage' = KeptStages(r)
      /\ UNCHANGED <<results, Unembedded>>
  BY DEF Claim, Unembedded, QuestionsOf
<1>3. read[r] # NoInput /\ phase[r] = "work"
  BY <1>1 DEF Claim, RunInv, PlaceInv, Stage
<1>4. StoredInv'
  <2>1. CASE hash = read[r]
    BY <1>1, <1>2, <2>1 DEF StoredInv, KeptPayload, KeptStages
  <2>2. CASE hash # read[r]
    <3>1. payload' = NoPayload /\ stage' = Unmarked
      BY <1>2, <2>2 DEF KeptPayload, KeptStages
    <3>2. QED
      BY <1>2, <1>3, <3>1 DEF StoredInv, Unmarked, Stage
  <2>3. QED
    BY <2>1, <2>2
<1>5. RunInv(r)'
  <2>1. CASE ReusesExtraction(r)
    <3>1. pc'[r] = "normalize" /\ got'[r] = payload' /\ payload' # NoPayload
      BY <1>1, <1>2, <2>1 DEF Claim, TypeOK, ReusesExtraction
    <3>2. QED
      BY <1>2, <1>3, <3>1 DEF RunInv, PlaceInv, OwnerInv, Stage
  <2>2. CASE ~ReusesExtraction(r)
    <3>1. pc'[r] = "extract"
      BY <1>1, <2>2 DEF Claim, TypeOK
    <3>2. QED
      BY <1>2, <1>3, <3>1 DEF RunInv, PlaceInv, OwnerInv, Stage
  <2>3. QED
    BY <2>1, <2>2
<1>6. ASSUME NEW q \in Run \ {r} PROVE RunInv(q)'
  <2>1. Idle(q)
    BY <1>1, <1>2 DEF Idle, Claim, TypeOK
  <2>2. QED
    BY <1>2, <2>1, Frame DEF IInv
<1>7. QED
  BY <1>4, <1>5, <1>6

\* The business transactions of the stages.
LEMMA StageSteps ==
  ASSUME IInv, NEW r \in Run,
         \/ SaveExtraction(r) \/ Normalize(r) \/ Score(r) \/ ReadUnembedded(r) \/ EmbedBatch(r)
  PROVE  StoredInv' /\ \A q \in Run : RunInv(q)'
<1> USE DEF local, opts, lease
<1>1. TypeOK /\ StoredInv /\ RunInv(r)
  BY DEF IInv
<1>2. CASE SaveExtraction(r)
  <2>1. PICK qs \in Extractions :
          LET p == [input |-> read[r], qs |-> qs] IN
          /\ payload' = p /\ questions' = p /\ embedded' = embedded \cap qs
          /\ got' = [got EXCEPT ![r] = p]
    BY <1>2 DEF SaveExtraction
  <2> DEFINE p == [input |-> read[r], qs |-> qs]
  <2>2. owner = r /\ owner' = r /\ hash' = hash /\ hash = read[r] /\ read[r] # NoInput
    BY <1>1, <1>2 DEF SaveExtraction, FenceState, Fence, At, RunInv, PlaceInv, OwnerInv, Stage
  <2>3. /\ pc'[r] = "extract" /\ phase'[r] = "mark" /\ read' = read
        /\ got'[r] = p /\ payload' = p /\ questions' = p
    BY <1>1, <1>2, <2>1, GotoOther DEF SaveExtraction, TypeOK
  <2>4. stage'["normalize"] = "none" /\ stage'["score"] = "none" /\ stage'["index"] = "none"
    BY <1>2 DEF SaveExtraction, OnlyExtracted, Unmarked, Stage
  <2>5. p \in Payload
    BY <1>1 DEF TypeOK, Payload
  <2>6. StoredInv'
    BY <2>2, <2>3, <2>4 DEF StoredInv
  <2>7. RunInv(r)'
    BY <2>2, <2>3, <2>5, NoPayloadAssumption DEF RunInv, PlaceInv, OwnerInv, Stage
  <2>8. ASSUME NEW q \in Run \ {r} PROVE RunInv(q)'
    <3>1. Idle(q)
      BY <1>1, <1>2, <2>1, GotoOther DEF SaveExtraction, TypeOK, Idle
    <3>2. QED
      BY <2>2, <3>1, Frame DEF IInv
  <2>9. QED
    BY <2>6, <2>7, <2>8
<1>3. CASE Normalize(r)
  <2>1. owner = r /\ owner' = r /\ pc[r] = "normalize" /\ UNCHANGED row
    BY <1>3 DEF Normalize, FenceState, Fence, At
  <2>2. payload # NoPayload /\ got[r] = payload /\ hash = read[r] /\ read[r] # NoInput
    BY <1>1, <2>1 DEF RunInv, PlaceInv, OwnerInv, Stage
  <2>3. /\ norm' = payload /\ UNCHANGED <<questions, embedded, score, read, got, Unembedded>>
        /\ pc'[r] = "normalize" /\ phase'[r] = "mark"
    BY <1>1, <1>3, <2>2, GotoOther DEF Normalize, Unembedded, QuestionsOf
  <2>4. StoredInv'
    BY <1>1, <2>1, <2>3 DEF StoredInv, row
  <2>5. RunInv(r)'
    BY <2>1, <2>2, <2>3 DEF RunInv, PlaceInv, OwnerInv, row, Stage
  <2>6. ASSUME NEW q \in Run \ {r} PROVE RunInv(q)'
    <3>1. Idle(q)
      BY <1>1, <1>3, GotoOther DEF Normalize, Idle
    <3>2. QED
      BY <2>1, <3>1, Frame DEF IInv
  <2>7. QED
    BY <2>4, <2>5, <2>6
<1>4. CASE Score(r)
  <2>1. owner = r /\ owner' = r /\ pc[r] = "score" /\ UNCHANGED row
    BY <1>4 DEF Score, FenceState, Fence, At
  <2>2. payload # NoPayload /\ got[r] = payload /\ hash = read[r] /\ read[r] # NoInput
    BY <1>1, <2>1 DEF RunInv, PlaceInv, OwnerInv, Stage
  <2>3. /\ score' = payload /\ UNCHANGED <<questions, embedded, norm, read, got, Unembedded>>
        /\ pc'[r] = "score" /\ phase'[r] = "mark"
    BY <1>1, <1>4, <2>2, GotoOther DEF Score, Unembedded, QuestionsOf
  <2>4. StoredInv'
    BY <1>1, <2>1, <2>3 DEF StoredInv, row
  <2>5. RunInv(r)'
    BY <2>1, <2>2, <2>3 DEF RunInv, PlaceInv, OwnerInv, row, Stage
  <2>6. ASSUME NEW q \in Run \ {r} PROVE RunInv(q)'
    <3>1. Idle(q)
      BY <1>1, <1>4, GotoOther DEF Score, Idle
    <3>2. QED
      BY <2>1, <3>1, Frame DEF IInv
  <2>7. QED
    BY <2>4, <2>5, <2>6
<1>5. CASE ReadUnembedded(r)
  <2>1. /\ UNCHANGED <<row, results, Unembedded, read, got, owner>> /\ todo'[r] = Unembedded
        /\ pc[r] = "index" /\ pc'[r] = "index"
        /\ phase'[r] = (IF Unembedded = {} THEN "mark" ELSE "embed")
    BY <1>1, <1>5, GotoOther DEF ReadUnembedded, results, Unembedded, QuestionsOf, TypeOK, At
  <2>2. RunInv(r)'
    <3>1. PlaceInv(r)'
      BY <1>1, <2>1 DEF RunInv, PlaceInv, Stage
    <3>2. ASSUME owner = r PROVE OwnerInv(r)'
      BY <1>1, <2>1, <3>2 DEF RunInv, OwnerInv, row, results, Stage
    <3>3. QED
      BY <2>1, <3>1, <3>2 DEF RunInv
  <2>3. \A q \in Run \ {r} : Idle(q)
    BY <1>1, <1>5, GotoOther DEF ReadUnembedded, Idle, TypeOK
  <2>4. QED
    BY <1>5, <2>2, <2>3, QuietStep DEF ReadUnembedded
<1>6. CASE EmbedBatch(r)
  <2>1. PICK batch \in SUBSET todo[r] \ {{}} :
          /\ embedded' = embedded \cup (batch \cap QuestionsOf(questions))
          /\ todo' = [todo EXCEPT ![r] = @ \ batch]
          /\ Goto(r, "index", IF todo[r] = batch THEN "mark" ELSE "embed")
    BY <1>6 DEF EmbedBatch
  <2>2. owner = r /\ owner' = r /\ pc[r] = "index" /\ phase[r] = "embed" /\ UNCHANGED row
    BY <1>6 DEF EmbedBatch, Fence, At
  <2>3. /\ payload # NoPayload /\ got[r] = payload /\ hash = read[r] /\ read[r] # NoInput
        /\ Unembedded \subseteq todo[r]
    BY <1>1, <2>2 DEF RunInv, PlaceInv, OwnerInv, Stage
  <2>4. /\ UNCHANGED <<questions, norm, score, read, got>>
        /\ todo'[r] = todo[r] \ batch /\ Unembedded' = Unembedded \ batch
        /\ pc'[r] = "index" /\ phase'[r] = (IF todo[r] = batch THEN "mark" ELSE "embed")
    BY <1>1, <1>6, <2>1, GotoOther DEF EmbedBatch, Unembedded, QuestionsOf, TypeOK
  <2>5. StoredInv'
    BY <1>1, <2>2, <2>4 DEF StoredInv, row
  <2>6. RunInv(r)'
    BY <2>2, <2>3, <2>4 DEF RunInv, PlaceInv, OwnerInv, row, Stage
  <2>7. ASSUME NEW q \in Run \ {r} PROVE RunInv(q)'
    <3>1. Idle(q)
      BY <1>1, <1>6, <2>1, GotoOther DEF EmbedBatch, Idle, TypeOK
    <3>2. QED
      BY <2>2, <3>1, Frame DEF IInv
  <2>8. QED
    BY <2>5, <2>6, <2>7
<1>7. QED
  BY <1>2, <1>3, <1>4, <1>5, <1>6

\* Checkpoints: the mark is set for what the owner has just stored.
LEMMA CheckpointSteps ==
  ASSUME IInv, NEW r \in Run, MarkDone(r) \/ MarkFailed(r)
  PROVE  StoredInv' /\ \A q \in Run : RunInv(q)'
<1> USE DEF local, opts, lease, results
<1>1. TypeOK /\ StoredInv /\ RunInv(r) /\ pc[r] \in Stage
  BY DEF IInv, MarkDone, MarkFailed
<1>2. /\ owner = r /\ UNCHANGED <<owner, hash, payload, questions, embedded, norm, score>>
      /\ UNCHANGED <<read, got, todo, Unembedded>>
  BY DEF MarkDone, MarkFailed, Fence, Unembedded, QuestionsOf
<1>3. OwnerInv(r) /\ PlaceInv(r)
  BY <1>1, <1>2 DEF RunInv
<1>4. ASSUME NEW q \in Run \ {r} PROVE RunInv(q)'
  <2>1. Idle(q)
    BY <1>1, <1>2, GotoOther DEF MarkDone, MarkFailed, Idle
  <2>2. QED
    BY <1>2, <2>1, Frame DEF IInv
<1>5. CASE MarkDone(r)
  <2>1. /\ stage' = [stage EXCEPT ![pc[r]] = "done"] /\ phase[r] = "mark"
        /\ pc'[r] = After[pc[r]] /\ phase'[r] = "work"
    BY <1>1, <1>5, GotoOther DEF MarkDone
  <2>2. StoredInv'
    BY <1>1, <1>2, <1>3, <2>1 DEF StoredInv, OwnerInv, TypeOK, Stage
  <2>3. /\ pc[r] = "extract" => pc'[r] = "normalize"
        /\ pc[r] = "normalize" => pc'[r] = "score"
        /\ pc[r] = "score" => pc'[r] = "index"
        /\ pc[r] = "index" => pc'[r] = "release"
    BY <1>1, <2>1 DEF After, Stage
  <2>4. RunInv(r)'
    BY <1>1, <1>2, <1>3, <2>1, <2>3 DEF RunInv, OwnerInv, PlaceInv, Stage
  <2>5. QED
    BY <1>4, <2>2, <2>4
<1>6. CASE MarkFailed(r)
  <2>1. /\ stage' = [stage EXCEPT ![pc[r]] = "failed"]
        /\ pc'[r] = "release" /\ phase'[r] = "work"
    BY <1>1, <1>6, GotoOther DEF MarkFailed
  <2>2. StoredInv'
    BY <1>1, <1>2, <2>1 DEF StoredInv, TypeOK, Stage
  <2>3. RunInv(r)'
    BY <1>1, <1>2, <1>3, <2>1 DEF RunInv, OwnerInv, PlaceInv, Stage
  <2>4. QED
    BY <1>4, <2>2, <2>3
<1>7. QED
  BY <1>5, <1>6

\* Errors, the loss of the lease, the end of a run, its death.
LEMMA EndSteps ==
  ASSUME IInv, NEW r \in Run,
         \/ ExtractionFails(r) \/ SkipStage(r) \/ LeaseLost(r) \/ Error(r)
         \/ Release(r) \/ Crash(r)
  PROVE  StoredInv' /\ \A q \in Run : RunInv(q)'
<1> USE DEF local, opts
<1>1. TypeOK /\ RunInv(r)
  BY DEF IInv
<1>2. CASE ExtractionFails(r)
  <2>1. UNCHANGED <<row, results, lease>> /\ \A q \in Run \ {r} : Idle(q)
    BY <1>1, <1>2, GotoOther DEF ExtractionFails, Idle
  <2>2. pc[r] = "extract" /\ pc'[r] = "extract" /\ phase'[r] = "fail" /\ UNCHANGED <<read, got, todo>>
    BY <1>1, <1>2, GotoOther DEF ExtractionFails, At
  <2>3. RunInv(r)'
    BY <1>1, <2>1, <2>2 DEF RunInv, PlaceInv, OwnerInv, Stage, row, lease
  <2>4. QED
    BY <2>1, <2>3, QuietStep
<1>3. CASE SkipStage(r)
  <2>1. UNCHANGED <<row, results, lease>> /\ \A q \in Run \ {r} : Idle(q)
    BY <1>1, <1>3, GotoOther DEF SkipStage, Idle
  <2>2. /\ pc[r] \in Stage /\ phase[r] = "work" /\ pc'[r] = After[pc[r]] /\ phase'[r] = "work"
        /\ UNCHANGED <<read, got, todo>>
    BY <1>1, <1>3, GotoOther DEF SkipStage, TypeOK
  <2>3. /\ pc[r] # "extract"
        /\ pc[r] = "normalize" => pc'[r] = "score"
        /\ pc[r] = "score" => pc'[r] = "index"
        /\ pc[r] = "index" => pc'[r] = "release"
    BY <1>3, <2>2 DEF SkipStage, After, Stage
  <2>4. RunInv(r)'
    BY <1>1, <2>1, <2>2, <2>3 DEF RunInv, PlaceInv, OwnerInv, Stage, row, lease
  <2>5. QED
    BY <2>1, <2>4, QuietStep
<1>4. CASE LeaseLost(r) \/ Error(r)
  <2>1. Goto(r, "release", "work") \/ (pc[r] \in Stage /\ Goto(r, pc[r], "fail"))
    BY <1>4 DEF LeaseLost, Error
  <2>2. UNCHANGED <<row, results, lease, read, got, todo>> /\ \A q \in Run \ {r} : Idle(q)
    BY <1>1, <1>4, <2>1, GotoOther DEF LeaseLost, Error, Idle
  <2>3. \/ pc'[r] = "release" /\ phase'[r] = "work"
        \/ pc[r] \in Stage /\ pc'[r] = pc[r] /\ phase'[r] = "fail"
    BY <1>1, <2>1, GotoOther
  <2>4. RunInv(r)'
    BY <1>1, <2>2, <2>3 DEF RunInv, PlaceInv, OwnerInv, Stage, row, lease
  <2>5. QED
    BY <2>2, <2>4, QuietStep
<1>5. CASE Release(r) \/ Crash(r)
  <2>1. Forget(r) /\ UNCHANGED <<row, results>> /\ (owner' = owner \/ owner' = NoRun)
    BY <1>5 DEF Release, Crash, lease
  <2>2. pc'[r] = "idle" /\ phase'[r] = "work"
    BY <1>1, <2>1, GotoOther DEF Forget
  <2>3. RunInv(r)'
    BY <2>2 DEF RunInv, PlaceInv, OwnerInv, Stage
  <2>4. ASSUME NEW q \in Run \ {r} PROVE RunInv(q)'
    <3>1. Idle(q)
      BY <1>1, <2>1, GotoOther DEF Forget, Idle, TypeOK
    <3>2. owner' = q => owner = q
      BY <2>1, ProcessingAssumption
    <3>3. QED
      BY <2>1, <3>1, <3>2, Frame DEF IInv
  <2>5. QED
    BY <2>1, <2>3, <2>4, StoredFrame DEF IInv
<1>6. QED
  BY <1>2, <1>3, <1>4, <1>5

\* Steps outside every run: another crawl, time.
LEMMA EnvironmentSteps ==
  ASSUME IInv, CrawlOne \/ LapseStalled \/ LapseCrashed \/ UNCHANGED vars
  PROVE  StoredInv' /\ \A q \in Run : RunInv(q)'
<1>1. UNCHANGED <<row, results, owner>> /\ \A q \in Run : Idle(q)
  BY DEF CrawlOne, LapseStalled, LapseCrashed, vars, ctl, local, lease, Idle
<1>2. QED
  BY <1>1, Frame, StoredFrame DEF IInv

LEMMA NextInv == IInv /\ [Next]_vars => IInv'
<1> SUFFICES ASSUME IInv, [Next]_vars PROVE IInv'
  OBVIOUS
<1>1. TypeOK'
  BY NextType DEF IInv
<1>2. StoredInv' /\ \A q \in Run : RunInv(q)'
  BY CrawlSteps, ClaimStep, StageSteps, CheckpointSteps, EndSteps, EnvironmentSteps
  DEF Next, Step, Resume
<1>3. QED
  BY <1>1, <1>2 DEF IInv

THEOREM Invariance == Spec => []IInv
<1>1. QED BY InitInv, NextInv, PTL DEF Spec

\* A visible post shows one extraction: questions, links, score and vectors
\* all belong to the payload the row stores.
LEMMA VisibleIsWhole ==
  ASSUME IInv, Visible
  PROVE  /\ payload # NoPayload /\ Shown = Whole(payload)
         /\ stage["normalize"] = "done" /\ stage["score"] = "done" /\ stage["index"] = "done"
<1>1. StoredInv
  BY DEF IInv
<1>2. hash # NoInput
  BY <1>1 DEF Visible, StoredInv, QuestionsOf
<1>3. stage["normalize"] = "done" /\ stage["score"] = "done" /\ stage["index"] = "done"
  BY <1>2 DEF Visible
<1>4. Unembedded = {} /\ payload # NoPayload
      /\ questions = payload /\ norm = payload /\ score = payload
  BY <1>1, <1>3 DEF StoredInv
<1>5. QuestionsOf(questions) \cap embedded = QuestionsOf(payload)
  BY <1>4 DEF Unembedded
<1>6. QED
  BY <1>3, <1>4, <1>5 DEF Shown, Whole

\* A stored payload answers the input whose hash the row carries.
THEOREM PayloadOfInput == Spec => []PayloadIsOfInput
<1>1. IInv => PayloadIsOfInput
  BY DEF IInv, StoredInv, PayloadIsOfInput
<1>2. QED BY <1>1, Invariance, PTL

\* Who moves in a step, and what a run may have written when it moves.
LEMMA OnlyTheOwnerWrites ==
  ASSUME TypeOK, NEW r \in Run, Next,
         pc'[r] # pc[r] \/ phase'[r] # phase[r] \/ todo'[r] # todo[r]
  PROVE  owner' = r \/ UNCHANGED <<row, results>>
<1> USE DEF local, opts, lease
<1>1. ASSUME NEW q \in Run,
             \/ Begin(q) \/ Start(q) \/ StartUncached(q) \/ ReuseText(q) \/ DecideFetch(q)
             \/ StoreRaw(q) \/ CleanShort(q) \/ StoreCleaned(q) \/ ClaimRefused(q)
             \/ ExtractionFails(q) \/ SkipStage(q) \/ LeaseLost(q) \/ Error(q)
             \/ Release(q) \/ Crash(q) \/ ReadUnembedded(q)
      PROVE  UNCHANGED <<row, results>>
  BY <1>1 DEF Begin, Start, StartUncached, Launch, ReuseText, DecideFetch, StoreRaw,
     CleanShort, StoreCleaned, ClaimRefused, ExtractionFails, SkipStage, LeaseLost,
     Error, Release, Crash, ReadUnembedded
<1>2. ASSUME CrawlOne \/ LapseStalled \/ LapseCrashed PROVE UNCHANGED <<row, results>>
  BY <1>2 DEF CrawlOne, LapseStalled, LapseCrashed
<1>3. ASSUME NEW q \in Run,
             \/ Claim(q) \/ SaveExtraction(q) \/ Normalize(q) \/ Score(q)
             \/ EmbedBatch(q) \/ MarkDone(q) \/ MarkFailed(q)
      PROVE  owner' = q /\ \A o \in Run \ {q} : pc'[o] = pc[o] /\ phase'[o] = phase[o]
                                               /\ todo'[o] = todo[o]
  <2>1. CASE Claim(q)
    BY <2>1 DEF Claim, TypeOK
  <2>2. CASE SaveExtraction(q) \/ Normalize(q) \/ Score(q) \/ MarkDone(q) \/ MarkFailed(q)
    BY <2>2, GotoOther DEF SaveExtraction, Normalize, Score, MarkDone, MarkFailed,
       FenceState, Fence
  <2>3. CASE EmbedBatch(q)
    BY <2>3, GotoOther DEF EmbedBatch, Fence, TypeOK
  <2>4. QED
    BY <1>3, <2>1, <2>2, <2>3
<1>4. QED
  BY <1>1, <1>2, <1>3 DEF Next, Step, Resume

\* No run that has been replaced as the owner changes a result or a checkpoint.
THEOREM FencingTheorem == Spec => StaleWorkerNeverCommits
<1>1. TypeOK /\ [Next]_vars =>
        [\A r \in Run :
           pc'[r] # pc[r] \/ phase'[r] # phase[r] \/ todo'[r] # todo[r] =>
             \/ owner' = r
             \/ UNCHANGED <<row, results>>]_vars
  BY OnlyTheOwnerWrites
<1>2. QED
  BY <1>1, TypeCorrect, PTL DEF Spec, StaleWorkerNeverCommits

-----------------------------------------------------------------------------
(* No extraction is paid for twice.                                        *)

\* A run that may use a stored extraction, and has claimed the post all the
\* same in order to extract, found none; and as long as the row is its own,
\* nobody else stores one.
ExtractInv ==
  \A r \in Run :
    owner = r /\ At(r, "extract", "work") /\ cache[r]
      => ~(payload # NoPayload /\ stage["extract"] = "done")

\* Run q goes elsewhere, and writes at most its own row.
Elsewhere(q) ==
  /\ ~(pc'[q] = "extract" /\ phase'[q] = "work")
  /\ \A r \in Run \ {q} : pc'[r] = pc[r] /\ phase'[r] = phase[r] /\ cache'[r] = cache[r]
  /\ (UNCHANGED row /\ owner' \in {owner, NoRun}) \/ owner' = q

LEMMA ExtractElsewhere ==
  ASSUME ExtractInv, NEW q \in Run, Elsewhere(q) PROVE ExtractInv'
  BY ProcessingAssumption DEF ExtractInv, Elsewhere, At, row

LEMMA ExtractStep == ASSUME TypeOK, ExtractInv, [Next]_vars PROVE ExtractInv'
<1> USE DEF local, opts, lease
<1>1. ASSUME NEW q \in Run,
             \/ Start(q) \/ StartUncached(q) \/ ReuseText(q) \/ DecideFetch(q)
             \/ StoreRaw(q) \/ CleanShort(q) \/ StoreCleaned(q) \/ ClaimRefused(q)
      PROVE  Elsewhere(q)
  <2>1. UNCHANGED <<row, owner>> /\ (cache' = cache \/ cache' = [cache EXCEPT ![q] = TRUE]
                                    \/ \E ca \in BOOLEAN : cache' = [cache EXCEPT ![q] = ca])
    BY <1>1 DEF Start, StartUncached, Launch, ReuseText, DecideFetch, StoreRaw, CleanShort,
       StoreCleaned, ClaimRefused
  <2>2. \E p \in {"crawl", "claim", "fetch", "clean", "release"} : Goto(q, p, "work")
    BY <1>1 DEF Start, StartUncached, Launch, ReuseText, DecideFetch, StoreRaw, CleanShort,
       StoreCleaned, ClaimRefused
  <2>3. /\ ~(pc'[q] = "extract" /\ phase'[q] = "work")
        /\ \A r \in Run \ {q} : pc'[r] = pc[r] /\ phase'[r] = phase[r]
    BY <2>2, GotoOther
  <2>4. \A r \in Run \ {q} : cache'[r] = cache[r]
    BY <2>1 DEF TypeOK
  <2>5. QED
    BY <2>1, <2>3, <2>4 DEF Elsewhere
<1>2. ASSUME NEW q \in Run,
             \/ SaveExtraction(q) \/ ExtractionFails(q) \/ Normalize(q) \/ Score(q)
             \/ ReadUnembedded(q) \/ EmbedBatch(q)
      PROVE  Elsewhere(q)
  <2>1. UNCHANGED <<row, owner>> \/ owner' = q
    BY <1>2 DEF SaveExtraction, ExtractionFails, Normalize, Score, ReadUnembedded, EmbedBatch,
       FenceState, Fence
  <2>2. UNCHANGED cache
    BY <1>2 DEF SaveExtraction, ExtractionFails, Normalize, Score, ReadUnembedded, EmbedBatch
  <2>3. \E p \in Stage : \E ph \in {"mark", "fail", "embed"} : Goto(q, p, ph)
    BY <1>2 DEF SaveExtraction, ExtractionFails, Normalize, Score, ReadUnembedded, EmbedBatch, Stage
  <2>4. /\ ~(pc'[q] = "extract" /\ phase'[q] = "work")
        /\ \A r \in Run \ {q} : pc'[r] = pc[r] /\ phase'[r] = phase[r]
    BY <2>3, GotoOther
  <2>5. QED
    BY <2>1, <2>2, <2>4 DEF Elsewhere
<1>3. ASSUME NEW q \in Run,
             \/ SkipStage(q) \/ MarkDone(q) \/ MarkFailed(q) \/ LeaseLost(q) \/ Error(q)
      PROVE  Elsewhere(q)
  <2>1. UNCHANGED <<row, owner>> \/ owner' = q
    BY <1>3 DEF SkipStage, MarkDone, MarkFailed, LeaseLost, Error, Fence
  <2>2. UNCHANGED cache
    BY <1>3 DEF SkipStage, MarkDone, MarkFailed, LeaseLost, Error
  <2>3. \/ Goto(q, "release", "work") \/ Goto(q, pc[q], "fail")
        \/ pc[q] \in Stage /\ Goto(q, After[pc[q]], "work")
    BY <1>3 DEF SkipStage, MarkDone, MarkFailed, LeaseLost, Error, TypeOK
  <2>4. pc[q] \in Stage => After[pc[q]] # "extract"
    BY DEF After, Stage
  <2>5. /\ ~(pc'[q] = "extract" /\ phase'[q] = "work")
        /\ \A r \in Run \ {q} : pc'[r] = pc[r] /\ phase'[r] = phase[r]
    BY <2>3, <2>4, GotoOther
  <2>6. QED
    BY <2>1, <2>2, <2>5 DEF Elsewhere
<1>4. ASSUME NEW q \in Run, Release(q) \/ Crash(q) PROVE Elsewhere(q)
  <2>1. UNCHANGED row /\ owner' \in {owner, NoRun} /\ Goto(q, "idle", "work")
        /\ cache' = [cache EXCEPT ![q] = TRUE]
    BY <1>4 DEF Release, Crash, Forget
  <2>2. /\ ~(pc'[q] = "extract" /\ phase'[q] = "work")
        /\ \A r \in Run \ {q} : pc'[r] = pc[r] /\ phase'[r] = phase[r]
    BY <2>1, GotoOther
  <2>3. QED
    BY <2>1, <2>2 DEF Elsewhere, TypeOK
<1>5. ASSUME NEW q \in Run, Claim(q) PROVE ExtractInv'
  <2>1. owner' = q /\ payload' = KeptPayload(q) /\ stage' = KeptStages(q) /\ UNCHANGED cache
    BY <1>5 DEF Claim
  <2>2. CASE ReusesExtraction(q)
    <3>1. pc' = [pc EXCEPT ![q] = "normalize"]
      BY <1>5, <2>2 DEF Claim
    <3>2. QED
      BY <2>1, <3>1 DEF ExtractInv, At, TypeOK
  <2>3. CASE ~ReusesExtraction(q)
    BY <2>1, <2>3 DEF ExtractInv, ReusesExtraction
  <2>4. QED
    BY <2>2, <2>3
<1>6. ASSUME (\E q \in Run : Begin(q)) \/ CrawlOne \/ LapseStalled \/ LapseCrashed \/ UNCHANGED vars
      PROVE  ExtractInv'
  <2>1. UNCHANGED <<row, owner, pc, phase, cache>>
    BY <1>6 DEF Begin, CrawlOne, LapseStalled, LapseCrashed, vars, ctl
  <2>2. QED
    BY <2>1 DEF ExtractInv, At, row
<1>7. QED
  BY <1>1, <1>2, <1>3, <1>4, <1>5, <1>6, ExtractElsewhere DEF Next, Step, Resume

\* An extracting run gets a new answer only from the model.
LEMMA OnlyExtractionAnswers ==
  ASSUME TypeOK, [Next]_vars, NEW r \in Run, pc[r] = "extract", got'[r] \notin {got[r], NoPayload}
  PROVE  SaveExtraction(r)
<1> USE DEF local, opts
<1>1. ASSUME NEW q \in Run,
             \/ Begin(q) \/ Start(q) \/ StartUncached(q) \/ ReuseText(q) \/ DecideFetch(q)
             \/ StoreRaw(q) \/ CleanShort(q) \/ StoreCleaned(q) \/ ClaimRefused(q)
             \/ ExtractionFails(q) \/ SkipStage(q) \/ LeaseLost(q) \/ Error(q)
             \/ ReadUnembedded(q) \/ Normalize(q) \/ Score(q)
             \/ EmbedBatch(q) \/ MarkDone(q) \/ MarkFailed(q)
      PROVE  got' = got
  BY <1>1 DEF Begin, Start, StartUncached, Launch, ReuseText, DecideFetch, StoreRaw,
     CleanShort, StoreCleaned, ClaimRefused, ExtractionFails, SkipStage, LeaseLost,
     Error, ReadUnembedded, Normalize, Score, EmbedBatch, MarkDone, MarkFailed
<1>2. ASSUME CrawlOne \/ LapseStalled \/ LapseCrashed \/ UNCHANGED vars PROVE got' = got
  BY <1>2 DEF CrawlOne, LapseStalled, LapseCrashed, vars
<1>3. ASSUME NEW q \in Run, Release(q) \/ Crash(q) PROVE FALSE
  BY <1>3 DEF Release, Crash, Forget, TypeOK
<1>4. ASSUME NEW q \in Run, Claim(q) PROVE FALSE
  <2>1. got' = got \/ got' = [got EXCEPT ![q] = KeptPayload(q)]
    BY <1>4 DEF Claim
  <2>2. q # r
    BY <1>4 DEF Claim
  <2>3. QED
    BY <2>1, <2>2 DEF TypeOK
<1>5. ASSUME NEW q \in Run, SaveExtraction(q) PROVE q = r
  BY <1>5 DEF SaveExtraction, TypeOK
<1>6. QED
  BY <1>1, <1>2, <1>3, <1>4, <1>5 DEF Next, Step, Resume

\* No run that may use a stored extraction pays for a second one of the same
\* text, whatever runs overlap, crash or lose their lease.
THEOREM PaidOnce == Spec => NeverExtractedTwice
<1>1. Init => ExtractInv
  BY DEF Init, ExtractInv, At
<1>2. TypeOK /\ ExtractInv /\ [Next]_vars => ExtractInv'
  BY ExtractStep
<1>3. TypeOK /\ ExtractInv /\ [Next]_vars =>
        [\A r \in Run :
           (pc[r] = "extract" /\ cache[r] /\ got'[r] \notin {got[r], NoPayload}) =>
             ~(payload # NoPayload /\ payload.input = read[r] /\ stage["extract"] = "done")]_vars
  BY OnlyExtractionAnswers DEF SaveExtraction, FenceState, Fence, ExtractInv
<1>4. QED
  BY <1>1, <1>2, <1>3, TypeCorrect, PTL DEF Spec, NeverExtractedTwice
-----------------------------------------------------------------------------
(***************************************************************************)
(* The pipeline implements the publication of Publication.tla.  Readers    *)
(* see the stored extraction or nothing, so what a step means to them is   *)
(* told by three things: the owner, the stored payload, and whether the    *)
(* post is visible.                                                        *)
(***************************************************************************)

\* What readers see, as the payload and the visibility tell it.
Told ==
  /\ Shown = IF Visible THEN Whole(payload) ELSE NoPayload
  /\ Visible => payload # NoPayload

LEMMA ShownIsTold == IInv => Told
  BY VisibleIsWhole DEF Told, Shown

\* A step of a reader's view that leaves the payload alone, and shows the post
\* only while somebody has it.
LEMMA SameExtraction ==
  ASSUME Told, Told', UNCHANGED <<owner, payload>>,
         Visible' /\ ~Visible => owner # NoRun
  PROVE  [Promise!Next]_(Promise!vars)
<1>1. CASE Visible' <=> Visible
  BY <1>1 DEF Told, Promise!vars
<1>2. CASE Visible' /\ ~Visible
  <2>1. payload # NoPayload /\ Whole(payload)' = Whole(payload)
    BY <1>2 DEF Told, Whole
  <2>2. Promise!Publish
    BY <1>2, <2>1 DEF Told, Promise!Publish
  <2>3. QED
    BY <2>2 DEF Promise!Next
<1>3. CASE Visible /\ ~Visible'
  BY <1>3 DEF Told, Promise!Next, Promise!Retract
<1>4. QED
  BY <1>1, <1>2, <1>3

\* Crawls, failures and the moves of a run only hide the post.
LEMMA HidingSteps ==
  ASSUME IInv, Told', NEW r,
         \/ Begin(r) \/ Start(r) \/ StartUncached(r) \/ ReuseText(r) \/ DecideFetch(r)
         \/ StoreRaw(r) \/ CleanShort(r) \/ StoreCleaned(r) \/ ClaimRefused(r)
         \/ ExtractionFails(r) \/ SkipStage(r) \/ LeaseLost(r) \/ Error(r)
         \/ Crash(r) \/ ReadUnembedded(r) \/ CrawlOne \/ LapseStalled \/ LapseCrashed
  PROVE  [Promise!Next]_(Promise!vars)
<1>1. UNCHANGED <<owner, row, results>> /\ (status' = status \/ status' # "done")
  BY DEF Begin, Start, StartUncached, Launch, ReuseText, DecideFetch, StoreRaw,
     CleanShort, StoreCleaned, ClaimRefused, ExtractionFails, SkipStage, LeaseLost,
     Error, Crash, ReadUnembedded, CrawlOne, LapseStalled, LapseCrashed, Upserted, lease, post
<1>2. Visible' => Visible
  BY <1>1 DEF Visible, row, results
<1>3. QED
  BY <1>1, <1>2, ShownIsTold, SameExtraction DEF row

\* A claim keeps the extraction of its text, and forgets another one.
LEMMA ClaimTakes ==
  ASSUME IInv, Told', NEW r \in Run, Claim(r) PROVE Promise!Next
<1>1. owner' = r /\ UNCHANGED <<post, results>>
  BY DEF Claim
<1>2. CASE hash = read[r]
  <2>1. UNCHANGED <<hash, payload, stage>>
    BY <1>2 DEF Claim, KeptPayload, KeptStages
  <2>2. Visible' <=> Visible
    BY <1>1, <2>1 DEF Visible, post, results
  <2>3. Promise!Take(r)
    BY <1>1, <2>1, <2>2, ShownIsTold DEF Told, Promise!Take
  <2>4. QED
    BY <2>3 DEF Promise!Next
<1>3. CASE hash # read[r]
  <2>1. hash' = read[r] /\ payload' = NoPayload /\ stage' = Unmarked
    BY <1>3 DEF Claim, KeptPayload, KeptStages
  <2>2. read[r] # NoInput
    BY DEF Claim, IInv, RunInv, PlaceInv
  <2>3. ~Visible'
    BY <2>1, <2>2 DEF Visible, Unmarked, Stage
  <2>4. Promise!Take(r)
    BY <1>1, <2>1, <2>3 DEF Told, Promise!Take
  <2>5. QED
    BY <2>4 DEF Promise!Next
<1>4. QED
  BY <1>2, <1>3

\* A new extraction hides the post: its later stages are yet to be done.
LEMMA SaveExtracts ==
  ASSUME IInv, Told', NEW r \in Run, SaveExtraction(r) PROVE Promise!Next
<1>1. owner = r /\ UNCHANGED <<owner, hash>> /\ stage' = OnlyExtracted
  BY DEF SaveExtraction, FenceState, Fence, lease
<1>2. payload' \in Payload
  BY DEF SaveExtraction, IInv, TypeOK, Payload
<1>3. hash # NoInput
  BY <1>1 DEF SaveExtraction, At, IInv, RunInv, PlaceInv, OwnerInv, Stage
<1>4. ~Visible'
  BY <1>1, <1>3 DEF Visible, OnlyExtracted, Unmarked, Stage
<1>5. owner # NoRun /\ payload' # NoPayload
  BY <1>1, <1>2, ProcessingAssumption, NoPayloadAssumption
<1>6. Promise!Extract
  BY <1>1, <1>2, <1>4, <1>5 DEF Told, Promise!Extract
<1>7. QED
  BY <1>6 DEF Promise!Next

\* Links, scores and vectors change nothing that readers see.
LEMMA ResultsAreHidden ==
  ASSUME IInv, Told', NEW r \in Run, Normalize(r) \/ Score(r) \/ EmbedBatch(r)
  PROVE  [Promise!Next]_(Promise!vars)
<1>1. UNCHANGED <<owner, row, post, questions>>
  BY DEF Normalize, Score, EmbedBatch, lease, local
<1>2. Visible' <=> Visible
  BY <1>1 DEF Visible, row, post
<1>3. QED
  BY <1>1, <1>2, ShownIsTold, SameExtraction DEF row

\* Only a checkpoint of the owner shows the post.
LEMMA MarkPublishes ==
  ASSUME IInv, Told', NEW r \in Run, MarkDone(r) \/ MarkFailed(r)
  PROVE  [Promise!Next]_(Promise!vars)
<1>1. owner = r /\ UNCHANGED <<owner, hash, payload, post, results>>
  BY DEF MarkDone, MarkFailed, Fence, lease
<1>2. owner # NoRun
  BY <1>1, ProcessingAssumption
<1>3. QED
  BY <1>1, <1>2, ShownIsTold, SameExtraction

LEMMA ReleaseLeaves ==
  ASSUME IInv, Told', NEW r \in Run, Release(r)
  PROVE  [Promise!Next]_(Promise!vars)
<1>1. UNCHANGED <<row, post, results>> /\ owner' \in {owner, NoRun}
  BY DEF Release, lease
<1>2. Visible' <=> Visible
  BY <1>1 DEF Visible, row, post, results
<1>3. CASE owner' = owner
  BY <1>1, <1>2, <1>3, ShownIsTold, SameExtraction DEF row
<1>4. CASE owner' = NoRun
  <2>1. Promise!Leave
    BY <1>1, <1>2, <1>4, ShownIsTold DEF Told, Promise!Leave, row
  <2>2. QED
    BY <2>1 DEF Promise!Next
<1>5. QED
  BY <1>1, <1>3, <1>4

\* The pipeline implements the publication: however many runs claim, crash, lose
\* their lease and write late, readers see one extraction with its own links, score
\* and vectors or nothing, never one turning into another, and only the owner of
\* the post makes it appear (VISIBLE_POST_SQL, save_extraction, checkpoint).
THEOREM Implements == Spec => ImplementsPublication
<1>1. Init => Promise!Init
  <2> SUFFICES ASSUME Init PROVE Promise!Init
    OBVIOUS
  <2>1. ~Visible
    BY DEF Init, Visible
  <2>2. QED
    BY <2>1 DEF Init, Promise!Init, Shown
<1>2. IInv /\ Told' /\ [Next]_vars => [Promise!Next]_(Promise!vars)
  <2> SUFFICES ASSUME IInv, Told', [Next]_vars PROVE [Promise!Next]_(Promise!vars)
    OBVIOUS
  <2>1. CASE UNCHANGED vars
    <3>1. UNCHANGED <<owner, payload, status, hash, stage, questions>>
      BY <2>1 DEF vars, lease, row, post, results
    <3>2. Visible' <=> Visible
      BY <3>1 DEF Visible
    <3>3. QED
      BY <3>1, <3>2, ShownIsTold, SameExtraction
  <2>2. ASSUME NEW r \in Run, Step(r) \/ Start(r) \/ StartUncached(r) \/ Resume(r)
                              \/ ExtractionFails(r) \/ Error(r) \/ Crash(r)
        PROVE  [Promise!Next]_(Promise!vars)
    <3>1. CASE Claim(r)
      BY <3>1, ClaimTakes
    <3>2. CASE SaveExtraction(r)
      BY <3>2, SaveExtracts
    <3>3. CASE Normalize(r) \/ Score(r) \/ EmbedBatch(r)
      BY <3>3, ResultsAreHidden
    <3>4. CASE MarkDone(r) \/ MarkFailed(r)
      BY <3>4, MarkPublishes
    <3>5. CASE Release(r)
      BY <3>5, ReleaseLeaves
    <3>6. CASE \/ Begin(r) \/ Start(r) \/ StartUncached(r) \/ ReuseText(r) \/ DecideFetch(r)
               \/ StoreRaw(r) \/ CleanShort(r) \/ StoreCleaned(r) \/ ClaimRefused(r)
               \/ ExtractionFails(r) \/ SkipStage(r) \/ LeaseLost(r) \/ Error(r)
               \/ Crash(r) \/ ReadUnembedded(r)
      BY <3>6, HidingSteps
    <3>7. QED
      BY <2>2, <3>1, <3>2, <3>3, <3>4, <3>5, <3>6 DEF Step, Resume
  <2>3. CASE CrawlOne \/ LapseStalled \/ LapseCrashed
    BY <2>3, HidingSteps
  <2>4. QED
    BY <2>1, <2>2, <2>3 DEF Next
<1>3. IInv => Told
  BY ShownIsTold
<1>4. QED
  BY <1>1, <1>2, <1>3, Invariance, PTL DEF Spec, ImplementsPublication, Promise!Spec
=============================================================================
