------------------------------ MODULE Resolver ------------------------------
(***************************************************************************)
(* The resolver of company and position names (normalizer/resolver.py):    *)
(* alias table, nearest vectors, the model's decision, a new canonical.    *)
(* Several workers resolve names at the same time; `il seed-aliases` runs  *)
(* beside them.                                                            *)
(*                                                                         *)
(* A canonical row is named by its name, which is unique; committed rows   *)
(* are not deleted.  The order of the similarities is data; rows beyond    *)
(* the five nearest are not modelled.                                      *)
(*                                                                         *)
(* Operators named Mut_... are mistakes a developer could make in the      *)
(* definition that follows them; the specification does not use them.      *)
(***************************************************************************)
EXTENDS Integers, FiniteSets

CONSTANTS
  Name,
  Resolver,
  Seeder,            \* a run of seed-aliases
  SeedName, Seeds,   \* the canonical it loads, and its aliases
  None,
  Languages, Roles,  \* of a position's name: the tags rules.py finds in it
  Exclusive,         \* the pairs of roles that exclude each other
  Enterprises,       \* of a company's name: the places of the known groups it matches
  Similarity,        \* of two names: 0 too low for the model, 1, or 2 for a match
  Anchored           \* the pairs of names with a lexical anchor

Worker == Resolver \cup {Seeder}

ASSUME ResolverAssumption ==
  /\ None \notin Name /\ None \notin Worker /\ Seeder \notin Resolver
  /\ SeedName \in Name /\ Seeds \subseteq Name /\ SeedName \in Seeds

VARIABLES
  canonical, vector,  \* committed: rows, those with an embedding
  alias,              \* committed: the alias table
  generation,         \* who holds the advisory lock of the writers
  pc, arg,            \* where a worker is, the name it resolves
  target,             \* the canonical it means to use
  created, embedding, \* its transaction: has inserted the row, has a vector
  claims,             \* its uncommitted aliases
  pending,            \* the aliases the seeder found missing
  result,             \* what a resolver has returned
  matched             \* history: the aliases taught by a match, of the vectors or of the model

rows  == <<canonical, vector, alias, matched>>
tx    == <<generation, target, created, embedding, claims, pending>>
vars  == <<rows, tx, pc, arg, result>>

Place == {"idle", "lookup", "search", "model", "attach", "create", "claim", "second",
          "commit", "lost", "aliases", "insert"}

TypeOK ==
  /\ canonical \in SUBSET Name /\ vector \in SUBSET canonical
  /\ alias \in [Name -> canonical \cup {None}]
  /\ generation \in Worker \cup {None}
  /\ pc \in [Worker -> Place] /\ arg \in [Worker -> Name \cup {None}]
  /\ target \in [Worker -> Name \cup {None}]
  /\ created \in [Worker -> BOOLEAN] /\ embedding \in [Worker -> BOOLEAN]
  /\ claims \in [Worker -> SUBSET Name] /\ pending \in [Worker -> SUBSET Name]
  /\ result \in [Worker -> Name \cup {None}] /\ matched \in SUBSET Name

Nobody == [w \in Worker |-> None]

\* What earlier runs have left: canonicals, each with an alias.
Init ==
  /\ canonical \in SUBSET Name /\ vector \in SUBSET canonical
  /\ alias \in [Name -> canonical \cup {None}]
  /\ \A c \in canonical : \E a \in Name : alias[a] = c
  /\ generation = None /\ pc = [w \in Worker |-> "idle"] /\ arg = Nobody /\ target = Nobody
  /\ created = [w \in Worker |-> FALSE] /\ embedding = [w \in Worker |-> FALSE]
  /\ claims = [w \in Worker |-> {}] /\ pending = [w \in Worker |-> {}]
  /\ result = Nobody /\ matched = {}

-----------------------------------------------------------------------------
(* The rules (normalizer/rules.py).                                        *)

\* Two positions exclude each other if they name different languages, or
\* roles of an exclusive pair.
IncompatiblePositions(a, b) ==
  \/ Languages[a] # {} /\ Languages[b] # {} /\ Languages[a] \cap Languages[b] = {}
  \/ \E d \in Roles[a], e \in Roles[b] : {d, e} \in Exclusive

\* Two companies do if they belong to different groups; the last match counts.
Enterprise(a) == CHOOSE i \in Enterprises[a] : \A j \in Enterprises[a] : i >= j
IncompatibleCompanies(a, b) ==
  Enterprises[a] # {} /\ Enterprises[b] # {} /\ Enterprise(a) # Enterprise(b)

\* A position has no enterprises, a company no roles.
Incompatible(a, b) == IncompatiblePositions(a, b) \/ IncompatibleCompanies(a, b)

\* The nearest of the candidates that the rules leave.
Nearest(a, C) == {c \in C : \A d \in C : Similarity[a][c] >= Similarity[a][d]}

-----------------------------------------------------------------------------
(* A resolver up to its decision.  Nothing is locked meanwhile.            *)

Goto(w, l) == pc' = [pc EXCEPT ![w] = l]

Start(r, a) ==
  /\ pc[r] = "idle" /\ Goto(r, "lookup")
  /\ arg' = [arg EXCEPT ![r] = a] /\ result' = [result EXCEPT ![r] = None]
  /\ UNCHANGED <<rows, tx>>

Lookup(r) ==
  /\ pc[r] = "lookup"
  /\ \/ /\ alias[arg[r]] # None /\ Goto(r, "idle")
        /\ result' = [result EXCEPT ![r] = alias[arg[r]]]
     \/ alias[arg[r]] = None /\ Goto(r, "search") /\ UNCHANGED result
  /\ UNCHANGED <<rows, tx, arg>>

Candidates(a) == {c \in vector : ~Incompatible(a, c)}
Matches(a, c) == Similarity[a][c] = 2 /\ <<a, c>> \in Anchored

Aim(r, l, c) == Goto(r, l) /\ target' = [target EXCEPT ![r] = c]

\* Only the nearest candidate can match without the model.
Search(r) ==
  /\ pc[r] = "search"
  /\ \/ \E c \in Nearest(arg[r], Candidates(arg[r])) :
          Matches(arg[r], c) /\ Aim(r, "attach", c)
     \/ /\ Candidates(arg[r]) = {} \/ \E c \in Nearest(arg[r], Candidates(arg[r])) :
                                        ~Matches(arg[r], c)
        /\ Goto(r, "model") /\ UNCHANGED target
  /\ UNCHANGED <<rows, generation, created, embedding, claims, pending, arg, result>>

Mut_Accepted(a, c) == c \in canonical
Mut_AnyRow(a, c) == ~Incompatible(a, c)
\* The gates behind the model's match: the row exists, the rules allow it.
Accepted(a, c) == c \in canonical /\ ~Incompatible(a, c)

Match(r, c) ==
  /\ pc[r] = "model" /\ Accepted(arg[r], c) /\ Aim(r, "attach", c)
  /\ UNCHANGED <<rows, generation, created, embedding, claims, pending, arg, result>>

\* "new", or a match that was refused: the name the model gave, or the alias.
Propose(r, n) ==
  /\ pc[r] = "model" /\ Aim(r, "create", n)
  /\ UNCHANGED <<rows, generation, created, embedding, claims, pending, arg, result>>

-----------------------------------------------------------------------------
(* Transactions.  An insert waits for the transaction that has inserted    *)
(* the same key; writes to canonicals take the generation first.           *)

TakenBy(a, w) == {v \in Worker \ {w} : a \in claims[v]}
RowTakenBy(n, w) == {v \in Worker \ {w} : created[v] /\ target[v] = n}

Mut_Generation(w) == generation
\* Trigger il_lock_read_generation, before the statement.
Generation(w) == w

FreeGeneration(w) == generation \in {w, None}

CreateRow(r) ==
  /\ pc[r] = "create" /\ FreeGeneration(r) /\ RowTakenBy(target[r], r) = {}
  /\ generation' = Generation(r)
  /\ created' = [created EXCEPT ![r] = target[r] \notin canonical]
  /\ \E v \in BOOLEAN : embedding' = [embedding EXCEPT ![r] = v] \* the model may fail
  /\ Goto(r, "claim")
  /\ UNCHANGED <<rows, target, claims, pending, arg, result>>

Mut_Open(a) == TRUE
\* ON CONFLICT (alias) DO NOTHING.
Open(a) == alias[a] = None

ClaimAlias(r) ==
  /\ pc[r] \in {"attach", "claim"} /\ TakenBy(arg[r], r) = {}
  /\ \/ /\ Open(arg[r]) /\ claims' = [claims EXCEPT ![r] = {arg[r]}]
        /\ Goto(r, IF pc[r] = "claim" /\ target[r] # arg[r] THEN "second" ELSE "commit")
     \/ ~Open(arg[r]) /\ Goto(r, "lost") /\ UNCHANGED claims
  /\ UNCHANGED <<rows, generation, target, created, embedding, pending, arg, result>>

\* The new canonical's own name, unless it stands for something already.
ClaimName(r) ==
  /\ pc[r] = "second" /\ TakenBy(target[r], r) = {}
  /\ claims' = [claims EXCEPT ![r] = IF Open(target[r]) THEN @ \cup {target[r]} ELSE @]
  /\ Goto(r, "commit")
  /\ UNCHANGED <<rows, generation, target, created, embedding, pending, arg, result>>

End(w) ==
  /\ Goto(w, "idle") /\ target' = [target EXCEPT ![w] = None]
  /\ created' = [created EXCEPT ![w] = FALSE] /\ embedding' = [embedding EXCEPT ![w] = FALSE]
  /\ claims' = [claims EXCEPT ![w] = {}] /\ pending' = [pending EXCEPT ![w] = {}]
  /\ generation' = (IF generation = w THEN None ELSE generation)
  /\ UNCHANGED arg

Mut_KeepsRow(r) == created[r]
\* The loser deletes the row that it has inserted.
KeepsRow(r) == FALSE

Mut_Winner(r) == target[r]
\* The loser adopts what the database has.
Winner(r) == alias[arg[r]]

Vectors(w) == IF embedding[w] THEN {target[w]} ELSE {}

Lost(r) ==
  /\ pc[r] = "lost"
  /\ canonical' = canonical \cup (IF KeepsRow(r) THEN {target[r]} ELSE {})
  /\ vector' = vector \cup (Vectors(r) \cap canonical')
  /\ result' = [result EXCEPT ![r] = Winner(r)]
  /\ End(r) /\ UNCHANGED <<alias, matched>>

Learned(w) ==
  /\ canonical' = canonical \cup (IF created[w] THEN {target[w]} ELSE {})
  /\ vector' = vector \cup Vectors(w)
  /\ alias' = [a \in Name |-> IF a \in claims[w] THEN target[w] ELSE alias[a]]

Commit(r) ==
  /\ r \in Resolver /\ pc[r] = "commit" /\ Learned(r)
  /\ matched' = IF generation = r THEN matched ELSE matched \cup claims[r]
  /\ result' = [result EXCEPT ![r] = target[r]] /\ End(r)

\* An error, a lock timeout, a cancelled or a dead process.
Abort(w) == pc[w] # "idle" /\ End(w) /\ UNCHANGED <<rows, result>>

-----------------------------------------------------------------------------
(* seed-aliases, and the repair of missing vectors.                        *)

SeedRow ==
  /\ pc[Seeder] = "idle" /\ Aim(Seeder, "aliases", SeedName)
  /\ \/ SeedName \in canonical /\ UNCHANGED <<generation, created>>
     \/ /\ SeedName \notin canonical
        /\ FreeGeneration(Seeder) /\ RowTakenBy(SeedName, Seeder) = {}
        /\ generation' = Generation(Seeder) /\ created' = [created EXCEPT ![Seeder] = TRUE]
  /\ UNCHANGED <<rows, embedding, claims, pending, arg, result>>

SeedAliases ==
  /\ pc[Seeder] = "aliases" /\ Goto(Seeder, "insert")
  /\ pending' = [pending EXCEPT ![Seeder] = {a \in Seeds : alias[a] = None}]
  /\ UNCHANGED <<rows, generation, target, created, embedding, claims, arg, result>>

\* A plain insert: a conflict is an error, and the transaction is aborted.
SeedInsert(a) ==
  /\ pc[Seeder] = "insert" /\ a \in pending[Seeder] \ claims[Seeder]
  /\ TakenBy(a, Seeder) = {} /\ alias[a] = None
  /\ claims' = [claims EXCEPT ![Seeder] = @ \cup {a}]
  /\ UNCHANGED <<rows, generation, target, created, embedding, pending, pc, arg, result>>

SeedCommit ==
  /\ pc[Seeder] = "insert" /\ claims[Seeder] = pending[Seeder]
  /\ Learned(Seeder) /\ End(Seeder) /\ UNCHANGED <<matched, result>>

EmbedCanonical(c) ==
  /\ c \in canonical \ vector /\ generation = None /\ vector' = vector \cup {c}
  /\ UNCHANGED <<canonical, alias, matched, tx, pc, arg, result>>

-----------------------------------------------------------------------------
Resolve(r) ==
  \/ Lookup(r) \/ Search(r) \/ CreateRow(r) \/ ClaimAlias(r) \/ ClaimName(r)
  \/ Lost(r) \/ Commit(r)
  \/ \E n \in Name : Start(r, n) \/ Match(r, n) \/ Propose(r, n)

Next ==
  \/ \E r \in Resolver : Resolve(r)
  \/ \E w \in Worker : Abort(w)
  \/ SeedRow \/ SeedAliases \/ SeedCommit
  \/ \E n \in Name : SeedInsert(n) \/ EmbedCanonical(n)

Spec == Init /\ [][Next]_vars

-----------------------------------------------------------------------------
(* Properties.                                                             *)

\* Every caller gets what the alias table says of the name it asked for, also
\* the one whose insert came second (_claim_alias: "the caller must use the
\* row already stored in the database when another resolver won the race").
Agreement == \A r \in Resolver : result[r] # None => result[r] = alias[arg[r]]

\* Tier 4 leaves no canonical without an alias (_persist_new_canonical:
\* "without leaving a losing canonical orphan").
NoOrphan == \A c \in canonical \ {SeedName} : \E a \in Name : alias[a] = c

\* What the vectors or the model matched, the rules allow
\* (tests/test_normalizer_eval.py:6-9).
MatchesAllowed ==
  \A a \in matched : ~Incompatible(a, alias[a])

\* Who a worker waits for.
WaitsFor(w) ==
  CASE pc[w] = "create" /\ ~FreeGeneration(w) -> {generation}
    [] pc[w] = "create" /\ FreeGeneration(w)  -> RowTakenBy(target[w], w)
    [] pc[w] \in {"attach", "claim"}          -> TakenBy(arg[w], w)
    [] pc[w] = "second"                       -> TakenBy(target[w], w)
    [] OTHER                                  -> {}

\* Resolvers never wait for one another in a circle, although each claims two
\* aliases in the order of its own names: tier 4 is serialised by the
\* generation lock, and a match claims one alias only.
NoCircle ==
  \A S \in (SUBSET Resolver) \ {{}} : \E r \in S : WaitsFor(r) \cap S = {}

Promise == INSTANCE Registry WITH
  Client <- Worker, decided <- alias, asked <- arg, answer <- result

\* The resolver implements the registry: an alias, once it is taught, is never
\* changed or dropped, and every answer is the decision for its name.
ImplementsRegistry == Promise!Spec

\* What resolvers keep of the canonicals and aliases between them, beside the
\* registry (resolve_entity, _persist_new_canonical).
RegistryIsSound == Agreement /\ NoOrphan /\ MatchesAllowed /\ NoCircle
=============================================================================
