----------------------------- MODULE Processing -----------------------------
(***************************************************************************)
(* One post going through the staged pipeline: crawl, clean, extract,      *)
(* normalize, score, index.  Several runs (Celery tasks, resume, the CLI)  *)
(* may work on the same post; the row of post_processing carries a lease   *)
(* and the checkpoints of the stages.  Every run has a fresh owner token   *)
(* (uuid4): a slot of Run may only start again once the row does not carry *)
(* its token any more, so a token never comes back to a row it left.       *)
(*                                                                         *)
(* Time is abstracted to one bit: "live" says NOW() < lease_until.  A      *)
(* renewal keeps the bit as it is; the lease lapses when the heartbeat is  *)
(* stalled or its process is gone.  NOW() in PostgreSQL is the START of    *)
(* the transaction, and a transaction may wait for the generation lock     *)
(* before it looks at the row: tx[r] records how the NOW() of r's open     *)
(* transaction compares with lease_until.                                  *)
(*                                                                         *)
(* Operators named Mut_... are mistakes a developer could make in the      *)
(* definition that follows them.  The specification does not use them:     *)
(* they are there to test that the properties notice.                      *)
(***************************************************************************)
EXTENDS Naturals, FiniteSets

CONSTANTS
  Run,          \* slots for concurrent executions of run_pipeline
  Page,         \* the versions of the page the site may serve
  ShortPage,    \* those whose cleaned text is below min_chars
  Content,      \* question texts
  Extractions,  \* the sets of questions the model may extract from a text
  NoPage, NoRun, NoPayload,
  MaxFaults     \* bound on the environment's disturbances

ASSUME ProcessingAssumption ==
  /\ NoPage \notin Page /\ NoRun \notin Run
  /\ ShortPage \subseteq Page
  /\ Extractions \subseteq SUBSET Content
  /\ MaxFaults \in Nat

VARIABLES
  title, body, status,              \* the row of posts
  owner, live, hash, payload, stage, \* the row of post_processing
  questions, embedded, norm, score, \* what the stages have stored
  pc, phase, tx,                    \* where each run is
  reuse, cache, read, got, skip, todo, \* the PipelineState of each run
  faults

post    == <<title, body, status>>
lease   == <<owner, live>>
row     == <<hash, payload, stage>>
results == <<questions, embedded, norm, score>>
ctl     == <<pc, phase, tx>>
opts    == <<reuse, cache>>
local   == <<opts, read, got, skip, todo>>
vars    == <<post, lease, row, results, ctl, local, faults>>

Stage == {"extract", "normalize", "score", "index"}
PageOrNone == Page \cup {NoPage}
Input == PageOrNone \X PageOrNone
NoInput == <<NoPage, NoPage>>
\* A payload is what the model answered: the text it read and the questions.
Payload == [input : Input, qs : Extractions]
PayloadOrNone == Payload \cup {NoPayload}

ASSUME NoPayloadAssumption == NoPayload \notin Payload

QuestionsOf(p) == IF p = NoPayload THEN {} ELSE p.qs
Unmarked == [s \in Stage |-> "none"]

After == [s \in Stage |-> CASE s = "extract" -> "normalize"
                            [] s = "normalize" -> "score"
                            [] s = "score" -> "index"
                            [] s = "index" -> "release"]

TypeOK ==
  /\ title \in PageOrNone /\ body \in PageOrNone
  /\ status \in {"absent", "pending", "done", "failed", "skipped"}
  /\ owner \in Run \cup {NoRun} /\ live \in BOOLEAN
  /\ hash \in Input /\ payload \in PayloadOrNone
  /\ stage \in [Stage -> {"none", "done", "failed"}]
  /\ questions \in PayloadOrNone /\ embedded \in SUBSET Content
  /\ norm \in PayloadOrNone /\ score \in PayloadOrNone
  /\ pc \in [Run -> Stage \cup {"idle", "crawl", "fetch", "clean", "claim", "release"}]
  /\ phase \in [Run -> {"work", "embed", "mark", "fail"}]
  /\ tx \in [Run -> {"none", "before", "after"}]
  /\ reuse \in [Run -> BOOLEAN] /\ cache \in [Run -> BOOLEAN]
  /\ read \in [Run -> Input] /\ got \in [Run -> PayloadOrNone]
  /\ skip \in [Run -> SUBSET Stage] /\ todo \in [Run -> SUBSET Content]
  /\ faults \in 0..MaxFaults

\* The post has been imported with its text, or nobody has seen its url yet.
Init ==
  /\ \/ title = NoPage /\ body = NoPage /\ status = "absent"
     \/ title \in Page /\ body = title /\ status = "pending"
  /\ owner = NoRun /\ live = FALSE
  /\ hash = NoInput /\ payload = NoPayload /\ stage = Unmarked
  /\ questions = NoPayload /\ embedded = {} /\ norm = NoPayload /\ score = NoPayload
  /\ pc = [r \in Run |-> "idle"] /\ phase = [r \in Run |-> "work"]
  /\ tx = [r \in Run |-> "none"]
  /\ reuse = [r \in Run |-> TRUE] /\ cache = [r \in Run |-> TRUE]
  /\ read = [r \in Run |-> NoInput] /\ got = [r \in Run |-> NoPayload]
  /\ skip = [r \in Run |-> {}] /\ todo = [r \in Run |-> {}]
  /\ faults = 0

-----------------------------------------------------------------------------
(* Moves and transactions of a run.                                        *)

Fault == faults < MaxFaults /\ faults' = faults + 1

At(r, p, ph) == pc[r] = p /\ phase[r] = ph

Goto(r, p, ph) ==
  /\ pc' = [pc EXCEPT ![r] = p]
  /\ phase' = [phase EXCEPT ![r] = ph]
  /\ tx' = [tx EXCEPT ![r] = "none"]

\* The points where a run opens a transaction that reads the lease.
AtTransaction(r) ==
  \/ pc[r] = "claim"
  \/ pc[r] \in Stage /\ phase[r] \in {"mark", "fail"}
  \/ pc[r] = "extract" /\ phase[r] = "work"
  \/ pc[r] \in {"normalize", "score"} /\ phase[r] = "work" /\ pc[r] \notin skip[r]
  \/ pc[r] = "index" /\ phase[r] = "embed" /\ todo[r] # {}

\* NOW() is fixed here; the locks are waited for afterwards.
Begin(r) ==
  /\ AtTransaction(r) /\ tx[r] = "none"
  /\ tx' = [tx EXCEPT ![r] = IF live THEN "before" ELSE "after"]
  /\ UNCHANGED <<post, lease, row, results, pc, phase, local, faults>>

Mut_FenceIgnoringOwner(r) == tx[r] = "before"

\* processing.fence: the row is locked from here to the commit.
Fence(r) == owner = r /\ tx[r] = "before"

\* processing.fence_state: and the post still has the text the run works on.
FenceState(r) == Fence(r) /\ <<title, body>> = read[r]

-----------------------------------------------------------------------------
(* Starting a run, crawling and cleaning.  None of this is fenced.         *)

Launch(r) ==
  /\ pc[r] = "idle" /\ owner # r
  /\ Goto(r, "crawl", "work")
  /\ UNCHANGED <<post, lease, row, results, read, got, skip, todo>>

\* crawl_url and extract_post use the defaults; `il graph` may switch off
\* the reuse of the stored text or of the stored extraction.
Start(r) ==
  /\ Launch(r)
  /\ reuse' = [reuse EXCEPT ![r] = TRUE] /\ cache' = [cache EXCEPT ![r] = TRUE]
  /\ UNCHANGED faults

StartUncached(r) ==
  /\ Launch(r) /\ Fault
  /\ \E ru, ca \in BOOLEAN :
       /\ ~(ru /\ ca)
       /\ reuse' = [reuse EXCEPT ![r] = ru] /\ cache' = [cache EXCEPT ![r] = ca]

Incomplete ==
  /\ title # NoPage
  /\ status \in {"failed", "pending"} \/ (hash # NoInput /\ stage["index"] # "done")

Mut_SelectedUnowned == Incomplete /\ owner = NoRun

\* The query of resume_failed.
Selected == Incomplete /\ (owner = NoRun \/ ~live)

Resume(r) == Selected /\ Start(r)

\* A post that already has a cleaned text is not fetched again.
ReuseText(r) ==
  /\ pc[r] = "crawl" /\ reuse[r] /\ body # NoPage
  /\ read' = [read EXCEPT ![r] = <<title, body>>]
  /\ Goto(r, "claim", "work")
  /\ UNCHANGED <<post, lease, row, results, opts, got, skip, todo, faults>>

DecideFetch(r) ==
  /\ pc[r] = "crawl" /\ ~(reuse[r] /\ body # NoPage)
  /\ Goto(r, "fetch", "work")
  /\ UNCHANGED <<post, lease, row, results, local, faults>>

\* upsert_raw_post: a successful extraction keeps its status.
Upserted == IF status = "done" THEN "done" ELSE "pending"

StoreRaw(r) ==
  /\ pc[r] = "fetch"
  /\ \E v \in Page :
       /\ title' = v
       /\ read' = [read EXCEPT ![r] = <<v, NoPage>>]
  /\ status' = Upserted
  /\ Goto(r, "clean", "work")
  /\ UNCHANGED <<body, lease, row, results, opts, got, skip, todo, faults>>

CleanShort(r) ==
  /\ pc[r] = "clean" /\ read[r][1] \in ShortPage
  /\ status' = "skipped"
  /\ Goto(r, "release", "work")
  /\ UNCHANGED <<title, body, lease, row, results, local, faults>>

StoreCleaned(r) ==
  /\ pc[r] = "clean" /\ read[r][1] \notin ShortPage
  /\ body' = read[r][1]
  /\ read' = [read EXCEPT ![r] = <<read[r][1], read[r][1]>>]
  /\ Goto(r, "claim", "work")
  /\ UNCHANGED <<title, status, lease, row, results, opts, got, skip, todo, faults>>

\* `il crawl` stores raw and cleaned text in one transaction and stops there.
CrawlOne ==
  /\ Fault
  /\ \E v \in Page :
       /\ title' = v
       /\ IF v \in ShortPage THEN status' = "skipped" /\ UNCHANGED body
                             ELSE status' = Upserted /\ body' = v
  /\ UNCHANGED <<lease, row, results, ctl, local>>

-----------------------------------------------------------------------------
(* processing.claim, and the decision that follows it in _extract.         *)

Claimable(r) == owner \in {NoRun, r} \/ tx[r] = "after"

Mut_PayloadOfAnyInput(r) == payload
KeptPayload(r) == IF hash = read[r] THEN payload ELSE NoPayload

Mut_KeepsStages(r) == stage
Mut_StagesNulled(r) == IF hash = read[r] THEN stage ELSE NoPayload
KeptStages(r) == IF hash = read[r] THEN stage ELSE Unmarked

Mut_NeverReuses(r) == FALSE
ReusesExtraction(r) ==
  cache[r] /\ KeptPayload(r) # NoPayload /\ KeptStages(r)["extract"] = "done"

Claim(r) ==
  /\ pc[r] = "claim" /\ tx[r] # "none" /\ Claimable(r)
  /\ owner' = r /\ live' = TRUE
  /\ hash' = read[r] /\ payload' = KeptPayload(r) /\ stage' = KeptStages(r)
  /\ IF ReusesExtraction(r)
       THEN /\ pc' = [pc EXCEPT ![r] = "normalize"]
            /\ got' = [got EXCEPT ![r] = KeptPayload(r)]
            /\ skip' = [skip EXCEPT ![r] = {s \in Stage : KeptStages(r)[s] = "done"}]
       ELSE /\ pc' = [pc EXCEPT ![r] = "extract"]
            /\ UNCHANGED <<got, skip>>
  \* The new lease_until lies after the NOW() of every transaction still open.
  /\ tx' = [q \in Run |-> IF q = r \/ tx[q] = "none" THEN "none" ELSE "before"]
  /\ UNCHANGED <<post, results, phase, opts, read, todo, faults>>

\* skip_reason = "processing_locked"; the caller sees no error.
ClaimRefused(r) ==
  /\ pc[r] = "claim" /\ tx[r] # "none" /\ ~Claimable(r)
  /\ Goto(r, "release", "work")
  /\ UNCHANGED <<post, lease, row, results, local, faults>>

-----------------------------------------------------------------------------
(* The stages.                                                             *)

Mut_KeepsMarks == [stage EXCEPT !["extract"] = "done"]
OnlyExtracted == [Unmarked EXCEPT !["extract"] = "done"]

\* Questions, their references, the payload, the checkpoint and the status
\* are one transaction.  A question whose text is unchanged keeps its vector.
SaveExtraction(r) ==
  /\ At(r, "extract", "work") /\ FenceState(r)
  /\ \E qs \in Extractions :
       LET p == [input |-> read[r], qs |-> qs] IN
       /\ payload' = p /\ questions' = p /\ embedded' = embedded \cap qs
       /\ got' = [got EXCEPT ![r] = p]
  /\ stage' = OnlyExtracted
  /\ status' = "done"
  /\ Goto(r, "extract", "mark")
  /\ UNCHANGED <<title, body, lease, hash, norm, score, opts, read, skip, todo, faults>>

\* The provider failed: the post is marked and the run ends without error.
ExtractionFails(r) ==
  /\ At(r, "extract", "work") /\ FenceState(r) /\ Fault
  /\ status' = "failed"
  /\ Goto(r, "extract", "fail")
  /\ UNCHANGED <<title, body, lease, row, results, local>>

\* Attribution, post_companies and the links of the normalizer are replaced.
Normalize(r) ==
  /\ At(r, "normalize", "work") /\ "normalize" \notin skip[r] /\ FenceState(r)
  /\ norm' = got[r]
  /\ Goto(r, "normalize", "mark")
  /\ UNCHANGED <<post, lease, row, questions, embedded, score, local, faults>>

Score(r) ==
  /\ At(r, "score", "work") /\ "score" \notin skip[r] /\ FenceState(r)
  /\ score' = got[r]
  /\ Goto(r, "score", "mark")
  /\ UNCHANGED <<post, lease, row, questions, embedded, norm, local, faults>>

\* completed_stages is only set when the extraction is reused.
SkipStage(r) ==
  /\ pc[r] \in skip[r] \ {"extract"} /\ phase[r] = "work"
  /\ Goto(r, After[pc[r]], "work")
  /\ UNCHANGED <<post, lease, row, results, local, faults>>

Unembedded == QuestionsOf(questions) \ embedded

\* backfill_embeddings reads the rows without a fence, computes vectors, and
\* writes them batch by batch.
ReadUnembedded(r) ==
  /\ At(r, "index", "work") /\ "index" \notin skip[r]
  /\ todo' = [todo EXCEPT ![r] = Unembedded]
  /\ Goto(r, "index", IF Unembedded = {} THEN "mark" ELSE "embed")
  /\ UNCHANGED <<post, lease, row, results, opts, read, got, skip, faults>>

EmbedBatch(r) ==
  /\ At(r, "index", "embed") /\ Fence(r)
  /\ \E batch \in SUBSET todo[r] \ {{}} :
       /\ embedded' = embedded \cup (batch \cap QuestionsOf(questions))
       /\ todo' = [todo EXCEPT ![r] = @ \ batch]
       /\ Goto(r, "index", IF todo[r] = batch THEN "mark" ELSE "embed")
  /\ UNCHANGED <<post, lease, row, questions, norm, score, opts, read, got, skip, faults>>

-----------------------------------------------------------------------------
(* Checkpoints, errors and the end of a run.                               *)

MarkDone(r) ==
  /\ pc[r] \in Stage /\ phase[r] = "mark" /\ Fence(r)
  /\ stage' = [stage EXCEPT ![pc[r]] = "done"]
  /\ Goto(r, After[pc[r]], "work")
  /\ UNCHANGED <<post, lease, hash, payload, results, local, faults>>

MarkFailed(r) ==
  /\ pc[r] \in Stage /\ phase[r] = "fail" /\ Fence(r)
  /\ stage' = [stage EXCEPT ![pc[r]] = "failed"]
  /\ Goto(r, "release", "work")
  /\ UNCHANGED <<post, lease, hash, payload, results, local, faults>>

\* ProcessingLeaseLost: the transaction is rolled back; the error checkpoint
\* is tried, and a second ProcessingLeaseLost is suppressed.
LeaseLost(r) ==
  /\ pc[r] \in Stage /\ tx[r] # "none"
  /\ IF phase[r] = "work" THEN ~FenceState(r) ELSE ~Fence(r)
  /\ IF phase[r] = "fail" THEN Goto(r, "release", "work") ELSE Goto(r, pc[r], "fail")
  /\ UNCHANGED <<post, lease, row, results, local, faults>>

\* Any other exception or a cancellation, inside or outside a stage.
Error(r) ==
  /\ pc[r] \notin {"idle", "release"} /\ Fault
  /\ IF pc[r] \in Stage /\ phase[r] # "fail"
       THEN Goto(r, pc[r], "fail")
       ELSE Goto(r, "release", "work")
  /\ UNCHANGED <<post, lease, row, results, local>>

Forget(r) ==
  /\ Goto(r, "idle", "work")
  /\ reuse' = [reuse EXCEPT ![r] = TRUE] /\ cache' = [cache EXCEPT ![r] = TRUE]
  /\ read' = [read EXCEPT ![r] = NoInput] /\ got' = [got EXCEPT ![r] = NoPayload]
  /\ skip' = [skip EXCEPT ![r] = {}] /\ todo' = [todo EXCEPT ![r] = {}]

Release(r) ==
  /\ pc[r] = "release"
  /\ IF owner = r THEN owner' = NoRun /\ live' = FALSE ELSE UNCHANGED lease
  /\ Forget(r)
  /\ UNCHANGED <<post, row, results, faults>>

\* The process dies: the open transaction is rolled back, the lease stays.
Crash(r) ==
  /\ pc[r] # "idle" /\ Fault /\ Forget(r)
  /\ UNCHANGED <<post, lease, row, results>>

\* The heartbeat renews every 30 s; it may be stalled, or stopped by an error.
LapseStalled ==
  /\ live /\ pc[owner] # "idle" /\ Fault /\ live' = FALSE
  /\ UNCHANGED <<post, owner, row, results, ctl, local>>

LapseCrashed ==
  /\ live /\ pc[owner] = "idle" /\ live' = FALSE
  /\ UNCHANGED <<post, owner, row, results, ctl, local, faults>>

-----------------------------------------------------------------------------
\* What a run does by itself, once started.
Step(r) ==
  \/ Begin(r)
  \/ ReuseText(r) \/ DecideFetch(r) \/ StoreRaw(r) \/ CleanShort(r) \/ StoreCleaned(r)
  \/ Claim(r) \/ ClaimRefused(r)
  \/ SaveExtraction(r) \/ Normalize(r) \/ Score(r) \/ SkipStage(r)
  \/ ReadUnembedded(r) \/ EmbedBatch(r)
  \/ MarkDone(r) \/ MarkFailed(r) \/ LeaseLost(r) \/ Release(r)

Next ==
  \/ \E r \in Run :
       \/ Step(r) \/ Start(r) \/ StartUncached(r) \/ Resume(r)
       \/ ExtractionFails(r) \/ Error(r) \/ Crash(r)
  \/ CrawlOne \/ LapseStalled \/ LapseCrashed

Spec == Init /\ [][Next]_vars

\* A started run keeps executing, an abandoned lease runs out, and resume is
\* scheduled again and again (the daily task calls resume_failed).
Fairness ==
  /\ \A r \in Run : WF_vars(Step(r))
  /\ WF_vars(LapseCrashed)
  /\ SF_vars(\E r \in Run : Resume(r))

FairSpec == Spec /\ Fairness

-----------------------------------------------------------------------------
(* Properties.                                                             *)

Mut_VisibleUnready == status = "done" /\ QuestionsOf(questions) # {}
\* processing_reads.VISIBLE_POST_SQL.
Visible ==
  /\ status = "done"
  /\ hash # NoInput => \A s \in {"normalize", "score", "index"} : stage[s] = "done"
  /\ QuestionsOf(questions) # {}

\* What readers get of a post: its questions, the links and the score computed
\* from an extraction, the vectors.
Shown ==
  IF Visible
    THEN [questions |-> questions, links |-> norm, score |-> score,
          vectors |-> QuestionsOf(questions) \cap embedded]
    ELSE NoPayload

\* An extraction with everything that belongs to it.
Whole(p) == [questions |-> p, links |-> p, score |-> p, vectors |-> QuestionsOf(p)]

Promise == INSTANCE Publication WITH
  Worker <- Run, NoWorker <- NoRun, Extraction <- {Whole(p) : p \in Payload},
  Nothing <- NoPayload, holder <- owner, shown <- Shown,
  stored <- IF payload = NoPayload THEN NoPayload ELSE Whole(payload)

\* The pipeline implements the publication: readers see one extraction, which is
\* the stored one, with its own links, score and vectors, or nothing; whatever is
\* crawled, claimed and extracted meanwhile, they never see one turn into another,
\* and it appears only while somebody has the post (the fences and checkpoints of
\* agent/processing.py together with VISIBLE_POST_SQL).
ImplementsPublication == Promise!Spec

\* The stored extraction was made from the input whose hash the row carries:
\* a reused payload is never the answer to another text (processing.claim).
PayloadIsOfInput == payload # NoPayload => payload.input = hash

\* "A stale worker cannot commit after a replacement owner has acquired the
\* post" (processing.fence): when a run moves and a result or a checkpoint
\* changes with it, the row is that run's, or becomes its own by a claim.
StaleWorkerNeverCommits ==
  [][\A r \in Run :
       pc'[r] # pc[r] \/ phase'[r] # phase[r] \/ todo'[r] # todo[r] =>
         \/ owner' = r
         \/ UNCHANGED <<row, results>>]_vars

\* A run that may use the stored extraction never pays for a second one of
\* the same text (graph._extract; recovery reuses the durable result).
NeverExtractedTwice ==
  [][\A r \in Run :
       (pc[r] = "extract" /\ cache[r] /\ got'[r] \notin {got[r], NoPayload}) =>
         ~(payload # NoPayload /\ payload.input = read[r] /\ stage["extract"] = "done")]_vars

\* Whatever crashes, errors and lapsed leases leave behind, resume brings the
\* checkpoints of a post to the end once they stop (recovery.resume_failed).
StagesIncomplete ==
  /\ title # NoPage
  /\ IF hash = NoInput THEN status = "pending" ELSE stage["index"] # "done"

IncompleteStagesRecover == StagesIncomplete ~> ~StagesIncomplete

\* "Retry incomplete/failed rows" (repositories.upsert_raw_post): a post that a
\* crawl has put back to pending does not stay there for ever.
PendingIsRetried == status = "pending" ~> status # "pending"

\* "A change of the text rejects old results" (docs/PROJECT_FIXES): a step
\* that makes a post visible shows the questions of the text it then has.
OldTextIsRejected ==
  [][Visible' /\ ~Visible => payload'.input = <<title', body'>>]_vars

=============================================================================
