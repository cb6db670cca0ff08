--------------------------------- MODULE Api ---------------------------------
(***************************************************************************)
(* The API and its database: the read cache and its writers (ReadCache),   *)
(* the answers (Answers), the admission of requests (Admission), the       *)
(* migrations (Migrate).  The parts share no state: the one that is chosen *)
(* at the beginning moves, the others rest.                                *)
(***************************************************************************)
EXTENDS ReadCache, Sequences

CONSTANTS
  Question, Category, Run, Request, Regenerating, Concurrency, NoTask,
  MaxEdits, MaxFaults,                                       \* Answers
  Caller, Limit, Window, SearchSlots, Patience, MaxAge, MaxCount,  \* Admission
  Migrator, NoMigrator, File, Files, Legacy                  \* Migrate

ASSUME AnswersAssumption ==
  /\ Category # {} /\ Run \cap Request = {}
  /\ MaxEdits \in Nat /\ MaxFaults \in Nat

\* From MaxCount on all requests are refused.
ASSUME AdmissionAssumption ==
  /\ IsFiniteSet(Caller) /\ Limit \in Nat \ {0} /\ Window \in Nat \ {0} /\ SearchSlots \in Nat
  /\ Patience \in Nat /\ MaxAge \in Nat /\ MaxCount \in Nat /\ MaxCount > Limit

ASSUME MigrateAssumption ==
  /\ NoMigrator \notin Migrator /\ Files \in [Migrator -> Seq(File)] /\ Legacy \in Nat

VARIABLES
  turn,
  ans_stored, ans_ready, ans_worthy, ans_category, ans_answered, ans_fresh,
  ans_cached, ans_inflight, ans_task, ans_edits, ans_faults,
  adm_count, adm_ttl, adm_pc, adm_waited, adm_threads, adm_job, adm_recent,
  mig_schema, mig_ledger, mig_lock, mig_pc, mig_known

A == INSTANCE Answers WITH
  stored <- ans_stored, ready <- ans_ready, worthy <- ans_worthy, category <-
  ans_category, answered <- ans_answered, fresh <- ans_fresh, cached <-
  ans_cached, inflight <- ans_inflight, task <- ans_task, edits <- ans_edits,
  faults <- ans_faults

G == INSTANCE Admission WITH
  count <- adm_count, ttl <- adm_ttl, pc <- adm_pc, waited <- adm_waited,
  threads <- adm_threads, job <- adm_job, recent <- adm_recent,
  Slots <- SearchSlots

M == INSTANCE Migrate WITH
  schema <- mig_schema, ledger <- mig_ledger, lock <- mig_lock, pc <- mig_pc,
  known <- mig_known, None <- NoMigrator

ansVars == <<ans_stored, ans_ready, ans_worthy, ans_category, ans_answered,
             ans_fresh, ans_cached, ans_inflight, ans_task, ans_edits,
             ans_faults>>
admVars == <<adm_count, adm_ttl, adm_pc, adm_waited, adm_threads, adm_job,
             adm_recent>>
migVars == <<mig_schema, mig_ledger, mig_lock, mig_pc, mig_known>>

others == <<ansVars, admVars, migVars>>

\* A part that rests starts in one of its initial states.  Questions begin with
\* the same category: nothing depends on which it is.
ApiInit ==
  /\ turn \in {"reads", "answers", "admission", "migrate"}
  /\ Init /\ A!Init /\ G!Init /\ M!Init
  /\ ans_category = [q \in Question |-> CHOOSE c \in Category : TRUE]
  /\ turn = "answers" \/ ans_answered = {}
  /\ turn = "migrate" \/ mig_schema = << >>

ApiNext ==
  /\ UNCHANGED turn
  /\ \/ turn = "reads" /\ Next /\ UNCHANGED others
     \/ turn = "answers" /\ A!Next /\ UNCHANGED <<vars, admVars, migVars>>
     \/ turn = "admission" /\ G!Next /\ UNCHANGED <<vars, ansVars, migVars>>
     \/ turn = "migrate" /\ M!Next /\ UNCHANGED <<vars, ansVars, admVars>>

\* The fairness of each part, while it is the one that moves.
ApiFairness ==
  /\ \A w \in Writer :
       /\ SF_vars(turn = "reads" /\ Proceed(w)) /\ WF_vars(turn = "reads" /\ Ends(w))
  /\ \A j \in Run \ Regenerating : WF_ansVars(turn = "answers" /\ A!FetchAny(j))
  /\ \A q \in Question :
       /\ \A j \in Run : WF_ansVars(turn = "answers" /\ A!Start(j, q))
       /\ \A j \in A!Job : WF_ansVars(turn = "answers" /\ A!Answer(j, q))
       /\ \A c \in Category : WF_ansVars(turn = "answers" /\ A!Lapse(<<q, c>>))
  /\ WF_admVars(turn = "admission" /\ G!Tick)
  /\ \A c \in Caller : /\ WF_admVars(turn = "admission" /\ G!Reply(c))
                      /\ WF_admVars(turn = "admission" /\ G!TimesOut(c))

ApiSpec == ApiInit /\ [][ApiNext]_<<turn, vars, others>> /\ ApiFairness

-----------------------------------------------------------------------------
(* The properties of the parts.                                            *)

\* The types of the parts.
ApiTypeOK == TypeOK /\ A!TypeOK /\ G!TypeOK /\ M!TypeOK

\* Admission: rates and slots hold (check_rate, bounded_search_embed).
CapacityIsKept == G!CapacityIsKept

\* Migrate: the database is that of one release, as its ledger says, and one
\* without a ledger is left alone (migrate.run).
SchemaIsOfOneRelease == M!SchemaIsOfOneRelease

=============================================================================
