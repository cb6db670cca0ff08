------------------------------- MODULE Migrate -------------------------------
(***************************************************************************)
(* Migrations of the database (db/migrate.py): deployments of several      *)
(* releases apply their files under an advisory lock, each file and its    *)
(* row of the ledger in one transaction; an old database without a ledger  *)
(* is given one explicitly.  A file is named by its checksum.              *)
(*                                                                         *)
(* Operators named Mut_... are mistakes a developer could make in the      *)
(* definition that follows them; the specification does not use them.      *)
(***************************************************************************)
EXTENDS Integers, Sequences, SequencesExt

CONSTANTS
  Migrator, None, File,
  Files,     \* of a migrator's release, in order
  Legacy     \* the version a baseline records (13)

VARIABLES
  schema,    \* the files whose statements the database has executed, in order
  ledger,    \* the files it has a row of; << >> if there is no ledger
  lock, pc,
  known      \* what a migrator has read of the ledger

vars == <<schema, ledger, lock, pc, known>>

Action == {"apply", "status", "baseline"}

TypeOK ==
  /\ schema \in Seq(File) /\ ledger \in Seq(File) /\ lock \in Migrator \cup {None}
  /\ pc \in [Migrator -> Action \cup {"idle", "applying", "unlock"}]
  /\ known \in [Migrator -> Seq(File)]

\* New, migrated by one of the releases up to some file, or from before the ledger.
Init ==
  /\ \E m \in Migrator : \E n \in 0..Len(Files[m]) :
       /\ schema = SubSeq(Files[m], 1, n)
       /\ ledger = schema \/ (ledger = << >> /\ n <= Legacy)
  /\ lock = None /\ pc = [m \in Migrator |-> "idle"] /\ known = [m \in Migrator |-> << >>]

Goto(m, l) == pc' = [pc EXCEPT ![m] = l]

Begin(m, a) ==
  /\ pc[m] = "idle" /\ lock = None /\ lock' = m /\ Goto(m, a)
  /\ UNCHANGED <<schema, ledger, known>>

Mut_Matches(m) == Len(ledger) <= Len(Files[m])
\* Every checksum of the ledger is that of the release, which is not older.
Matches(m) == IsPrefix(ledger, Files[m])

Mut_MayApply(m) == Matches(m)
\* A database with posts and without a ledger is left alone.
MayApply(m) == Matches(m) /\ (ledger # << >> \/ schema = << >>)

Read(m) ==
  /\ pc[m] = "apply" /\ known' = [known EXCEPT ![m] = ledger]
  /\ Goto(m, IF MayApply(m) THEN "applying" ELSE "unlock")
  /\ UNCHANGED <<schema, ledger, lock>>

Status(m) == pc[m] = "status" /\ Goto(m, "unlock") /\ UNCHANGED <<schema, ledger, lock, known>>

Mut_Row(m, f) == ledger' = ledger
\* The row is in the transaction of the file.
LedgerRow(m, f) == ledger' = Append(ledger, f)

\* The next file that was not in the ledger when it was read.
ApplyFile(m) ==
  /\ pc[m] = "applying" /\ Len(known[m]) < Len(Files[m])
  /\ LET f == Files[m][Len(known[m]) + 1]
     IN /\ schema' = Append(schema, f) /\ LedgerRow(m, f)
        /\ known' = [known EXCEPT ![m] = Append(@, f)]
  /\ UNCHANGED <<lock, pc>>

Applied(m) ==
  /\ pc[m] = "applying" /\ Len(known[m]) = Len(Files[m]) /\ Goto(m, "unlock")
  /\ UNCHANGED <<schema, ledger, lock, known>>

\* verify_current: what the first Legacy files create is there.
Verified(m) == IsPrefix(SubSeq(Files[m], 1, Legacy), schema)

Baseline(m) ==
  /\ pc[m] = "baseline" /\ Goto(m, "unlock")
  /\ ledger' = IF Matches(m) /\ ledger = << >> /\ Len(Files[m]) >= Legacy /\ Verified(m)
               THEN SubSeq(Files[m], 1, Legacy) ELSE ledger
  /\ UNCHANGED <<schema, lock, known>>

End(m) ==
  /\ Goto(m, "idle") /\ known' = [known EXCEPT ![m] = << >>]
  /\ lock' = (IF lock = m THEN None ELSE lock) /\ UNCHANGED <<schema, ledger>>

Unlock(m) == pc[m] = "unlock" /\ End(m)

\* A statement fails, or the connection ends: its transaction is rolled back.
Fail(m) == pc[m] # "idle" /\ End(m)

Next ==
  \E m \in Migrator :
    \/ Read(m) \/ Status(m) \/ ApplyFile(m) \/ Applied(m) \/ Baseline(m) \/ Unlock(m) \/ Fail(m)
    \/ \E a \in Action : Begin(m, a)

Spec == Init /\ [][Next]_vars

-----------------------------------------------------------------------------
(* Properties.                                                             *)

\* Whatever deployments run, fail and crash, the ledger says what the database
\* has executed, every file once and in order (migrate.py: "Ordered,
\* checksum-verified SQL migrations").
LedgerIsSchema == ledger # << >> => schema = ledger

\* Releases whose files differ never mix: the database is that of one release,
\* and the others refuse.
OneRelease == \E m \in Migrator : IsPrefix(schema, Files[m])

\* A database from before the ledger is not migrated before its baseline
\* ("startup never silently treats an unknown schema as up to date").
LegacyIsLeftAlone ==
  [][ledger = << >> /\ schema # << >> => schema' = schema]_vars

\* All that migrate.run promises of a database.
SchemaIsOfOneRelease == [](LedgerIsSchema /\ OneRelease) /\ LegacyIsLeftAlone
=============================================================================
