--------------------------- MODULE ContentProofs ---------------------------
(***************************************************************************)
(* What TLAPS proves about Content: the resolver for any names, rules,     *)
(* similarities and workers, the clustering for any questions, scores and  *)
(* posts, the attribution for any extractions, the profiles for any texts, *)
(* labels and editors.                                                     *)
(***************************************************************************)
EXTENDS Content, SumsAndRanks, TLAPS

-----------------------------------------------------------------------------
(* The resolver.                                                           *)

\* What a worker may rely on at each place: it claims only aliases that are
\* free, whoever has inserted a row holds the generation, and what it attaches
\* to is there and allowed.
Local(w) ==
  /\ w = Seeder => pc[w] \in {"idle", "aliases", "insert"}
  /\ w # Seeder => pc[w] \notin {"aliases", "insert"} /\ (pc[w] # "idle" => arg[w] \in Name)
  /\ pc[w] \notin {"second", "commit", "insert"} => claims[w] = {}
  /\ pc[w] \in {"idle", "lookup", "search", "model", "attach", "create"} =>
       generation # w /\ ~created[w] /\ ~embedding[w]
  /\ pc[w] \in {"claim", "second"} => generation = w
  /\ created[w] => generation = w
  /\ pc[w] \notin {"idle", "lookup", "search", "model"} => target[w] \in Name
  /\ pc[w] \notin {"idle", "lookup", "search", "model", "create"} =>
       created[w] \/ target[w] \in canonical
  /\ pc[w] = "attach" => ~Incompatible(arg[w], target[w])
  /\ pc[w] \in {"second", "commit"} => arg[w] \in claims[w]
  /\ pc[w] = "commit" /\ generation # w =>
       claims[w] = {arg[w]} /\ ~Incompatible(arg[w], target[w])
  /\ pc[w] \in {"aliases", "insert"} => target[w] = SeedName
  /\ pc[w] = "lost" => alias[arg[w]] # None
  /\ \A a \in claims[w] : alias[a] = None

Disjoint == \A v, w \in Worker : v # w => claims[v] \cap claims[w] = {}

AnswerInv == \A w \in Worker : result[w] # None => arg[w] \in Name

MatchedInv == \A a \in matched : alias[a] # None /\ ~Incompatible(a, alias[a])

IInv ==
  /\ TypeOK /\ (\A w \in Worker : Local(w)) /\ Disjoint
  /\ Agreement /\ AnswerInv /\ NoOrphan /\ MatchedInv

Mine(v) == <<pc[v], arg[v], target[v], created[v], embedding[v], claims[v]>>

\* What each step of a worker does to the others: an alias is taught once, by
\* the worker that has claimed it.
Considerate(w) ==
  /\ \A v \in Worker \ {w} : Mine(v)' = Mine(v) /\ (generation' = v <=> generation = v)
  /\ canonical \subseteq canonical'
  /\ \A a \in Name : alias[a] # None => alias'[a] = alias[a]
  /\ \A a \in Name : alias[a] = None /\ alias'[a] # None => a \in claims[w]
  /\ \A v \in Worker \ {w} : claims'[w] \cap claims[v] = {}

LEMMA Steps ==
  ASSUME IInv, NEW w \in Worker, Considerate(w), Local(w)'
  PROVE  (\A v \in Worker : Local(v)') /\ Disjoint'
<1>1. ASSUME NEW v \in Worker, v # w PROVE Local(v)'
  <2>1. /\ pc'[v] = pc[v] /\ arg'[v] = arg[v] /\ target'[v] = target[v]
        /\ created'[v] = created[v] /\ embedding'[v] = embedding[v] /\ claims'[v] = claims[v]
        /\ generation' = v <=> generation = v
    BY <1>1 DEF Considerate, Mine
  <2>2. claims[v] \subseteq Name /\ claims[v] \cap claims[w] = {} /\ Local(v)
    BY <1>1 DEF IInv, TypeOK, Disjoint
  <2>3. \A a \in claims[v] : alias'[a] = None
    BY <2>2 DEF Considerate, Local
  <2>4. pc[v] = "lost" => alias'[arg[v]] # None
    <3>1. pc[v] = "lost" => arg[v] \in Name /\ alias[arg[v]] # None
      BY <2>2 DEF Local
    <3>2. QED
      BY <3>1 DEF Considerate
  <2>5. created[v] \/ target[v] \in canonical => created'[v] \/ target'[v] \in canonical'
    BY <2>1 DEF Considerate
  <2>6. Incompatible(arg[v], target[v])' <=> Incompatible(arg[v], target[v])
    BY <2>1 DEF Incompatible, IncompatiblePositions, IncompatibleCompanies
  <2>7. QED
    BY <2>1, <2>2, <2>3, <2>4, <2>5, <2>6 DEF Local
<1>2. Disjoint'
  <2> SUFFICES ASSUME NEW u \in Worker, NEW v \in Worker, u # v
               PROVE  claims'[u] \cap claims'[v] = {}
    BY DEF Disjoint
  <2>1. \A x \in Worker \ {w} : claims'[x] = claims[x]
    BY DEF Considerate, Mine
  <2>2. CASE u = w
    BY <2>1, <2>2 DEF Considerate
  <2>3. CASE v = w
    BY <2>1, <2>3 DEF Considerate
  <2>4. CASE u # w /\ v # w
    BY <2>1, <2>4 DEF IInv, Disjoint
  <2>5. QED
    BY <2>2, <2>3, <2>4
<1>3. QED
  BY <1>1, <1>2

\* Nobody else's answer changes.
OthersRest(w) == \A v \in Worker \ {w} : result'[v] = result[v]

\* Aliases that stay keep the answers, the matches and the canonicals right.
LEMMA Kept ==
  ASSUME IInv, NEW w \in Worker, Considerate(w), OthersRest(w),
         result'[w] # None => arg'[w] \in Name /\ result'[w] = alias'[arg'[w]]
  PROVE  /\ Agreement' /\ AnswerInv'
         /\ \A a \in matched : alias'[a] # None /\ ~Incompatible(a, alias'[a])
         /\ \A c \in canonical \ {SeedName} : \E a \in Name : alias'[a] = c
<1>1. ASSUME NEW v \in Worker, v # w, result'[v] # None
      PROVE  arg'[v] \in Name /\ (v \in Resolver => result'[v] = alias'[arg'[v]])
  <2>1. result'[v] = result[v] /\ arg'[v] = arg[v]
    BY <1>1 DEF OthersRest, Considerate, Mine
  <2>2. arg[v] \in Name /\ (v \in Resolver => result[v] = alias[arg[v]])
    BY <1>1, <2>1 DEF IInv, AnswerInv, Agreement
  <2>3. v \in Resolver => alias[arg[v]] # None /\ alias'[arg[v]] = alias[arg[v]]
    BY <1>1, <2>1, <2>2 DEF Considerate
  <2>4. QED
    BY <2>1, <2>2, <2>3
<1>2. Agreement' /\ AnswerInv'
  BY <1>1 DEF Agreement, AnswerInv, Worker
<1>3. ASSUME NEW a \in matched PROVE alias'[a] # None /\ ~Incompatible(a, alias'[a])
  <2>1. a \in Name /\ alias[a] # None /\ ~Incompatible(a, alias[a])
    BY DEF IInv, TypeOK, MatchedInv
  <2>2. alias'[a] = alias[a]
    BY <2>1 DEF Considerate
  <2>3. QED
    BY <2>1, <2>2
<1>4. ASSUME NEW c \in canonical \ {SeedName} PROVE \E a \in Name : alias'[a] = c
  <2>1. PICK a \in Name : alias[a] = c
    BY DEF IInv, NoOrphan
  <2>2. c \in Name /\ c # None
    BY ResolverAssumption DEF IInv, TypeOK
  <2>3. alias'[a] = c
    BY <2>1, <2>2 DEF Considerate
  <2>4. QED
    BY <2>3
<1>5. QED
  BY <1>2, <1>3, <1>4

\* A step that commits nothing.
LEMMA Quiet ==
  ASSUME IInv, NEW w \in Worker, UNCHANGED rows, TypeOK', Local(w)', OthersRest(w),
         \A v \in Worker \ {w} : Mine(v)' = Mine(v) /\ (generation' = v <=> generation = v),
         \A a \in claims'[w] \ claims[w] : TakenBy(a, w) = {},
         result'[w] # None => arg'[w] \in Name /\ result'[w] = alias[arg'[w]]
  PROVE  IInv'
<1>1. canonical' = canonical /\ vector' = vector /\ alias' = alias /\ matched' = matched
  BY DEF rows
<1>2. \A v \in Worker \ {w} : claims'[w] \cap claims[v] = {}
  BY DEF IInv, Disjoint, TakenBy
<1>3. Considerate(w)
  BY <1>1, <1>2 DEF Considerate
<1>4. (\A v \in Worker : Local(v)') /\ Disjoint'
  BY <1>3, Steps
<1>5. Agreement' /\ AnswerInv'
  BY <1>1, <1>3, Kept
<1>6. NoOrphan' /\ MatchedInv'
  BY <1>1 DEF IInv, NoOrphan, MatchedInv
<1>7. QED
  BY <1>4, <1>5, <1>6 DEF IInv

-----------------------------------------------------------------------------
(* The steps of a resolver.                                                *)

LEMMA InitIInv == Init => IInv
<1> SUFFICES ASSUME Init PROVE IInv
  OBVIOUS
<1>1. TypeOK
  <2>1. created \in [Worker -> BOOLEAN] /\ embedding \in [Worker -> BOOLEAN]
    BY Zenon DEF Init
  <2>2. QED
    BY <2>1 DEF Init, TypeOK, Place, Nobody
<1>2. \A w \in Worker : Local(w)
  BY ResolverAssumption DEF Init, Local, Nobody
<1>3. Disjoint /\ Agreement /\ AnswerInv /\ NoOrphan /\ MatchedInv
  BY DEF Init, Disjoint, Agreement, AnswerInv, NoOrphan, MatchedInv, Nobody, Worker
<1>4. QED
  BY <1>1, <1>2, <1>3 DEF IInv

LEMMA Resolvers == ASSUME NEW r \in Resolver PROVE r \in Worker /\ r # Seeder /\ r # None
BY ResolverAssumption DEF Worker

LEMMA StartKeeps == ASSUME IInv, NEW r \in Resolver, NEW n \in Name, Start(r, n) PROVE IInv'
<1>1. /\ pc[r] = "idle" /\ pc' = [pc EXCEPT ![r] = "lookup"] /\ arg' = [arg EXCEPT ![r] = n]
      /\ result' = [result EXCEPT ![r] = None] /\ UNCHANGED rows
      /\ UNCHANGED <<generation, target, created, embedding, claims, pending>>
  BY DEF Start, Goto, tx
<1>2. TypeOK'
  BY <1>1 DEF IInv, TypeOK, Place, rows
<1>3. Local(r)'
  BY <1>1, Resolvers DEF IInv, TypeOK, Local, rows
<1>4. QED
  BY <1>1, <1>2, <1>3, Resolvers, Quiet DEF IInv, TypeOK, Mine, OthersRest

LEMMA LookupKeeps == ASSUME IInv, NEW r \in Resolver, Lookup(r) PROVE IInv'
<1>1. /\ pc[r] = "lookup" /\ UNCHANGED rows
      /\ UNCHANGED <<generation, target, created, embedding, claims, pending, arg>>
      /\ \/ /\ pc' = [pc EXCEPT ![r] = "idle"] /\ alias[arg[r]] # None
            /\ result' = [result EXCEPT ![r] = alias[arg[r]]]
         \/ pc' = [pc EXCEPT ![r] = "search"] /\ result' = result
  BY DEF Lookup, Goto, tx
<1>2. arg[r] \in Name
  BY <1>1, Resolvers DEF IInv, Local
<1>3. TypeOK'
  BY <1>1, <1>2 DEF IInv, TypeOK, Place, rows
<1>4. Local(r)'
  BY <1>1, <1>2, Resolvers DEF IInv, TypeOK, Local, rows
<1>5. result'[r] # None => arg'[r] \in Name /\ result'[r] = alias[arg'[r]]
  BY <1>1, <1>2, Resolvers DEF IInv, TypeOK, Agreement
<1>6. QED
  BY <1>1, <1>3, <1>4, <1>5, Resolvers, Quiet DEF IInv, TypeOK, Mine, OthersRest

\* The three ways to a decision: what is matched is there and allowed.
LEMMA DecisionKeeps ==
  ASSUME IInv, NEW r \in Resolver,
         Search(r) \/ \E n \in Name : Match(r, n) \/ Propose(r, n)
  PROVE  IInv'
<1>1. /\ pc[r] \in {"search", "model"} /\ UNCHANGED rows
      /\ UNCHANGED <<generation, created, embedding, claims, pending, arg, result>>
  BY DEF Search, Match, Propose
<1> DEFINE Asks     == pc' = [pc EXCEPT ![r] = "model"] /\ target' = target
           Attaches == \E c \in canonical :
                         /\ ~Incompatible(arg[r], c) /\ pc' = [pc EXCEPT ![r] = "attach"]
                         /\ target' = [target EXCEPT ![r] = c]
           Creates  == \E n \in Name : /\ pc' = [pc EXCEPT ![r] = "create"]
                                       /\ target' = [target EXCEPT ![r] = n]
<1>a. Asks \/ Attaches \/ Creates
  <2>1. \A S : Nearest(arg[r], S) \subseteq S
    BY DEF Nearest
  <2>2. \A c \in Candidates(arg[r]) : c \in canonical /\ ~Incompatible(arg[r], c)
    BY DEF Candidates, IInv, TypeOK
  <2>3. CASE Search(r)
    BY <2>1, <2>2, <2>3 DEF Search, Aim, Goto
  <2>4. ASSUME NEW n \in Name, Match(r, n) PROVE Attaches
    BY <2>4 DEF Match, Accepted, Aim, Goto
  <2>5. ASSUME NEW n \in Name, Propose(r, n) PROVE Creates
    BY <2>5 DEF Propose, Aim, Goto
  <2>6. QED
    BY <2>3, <2>4, <2>5
<1>2. canonical \subseteq Name
  BY DEF IInv, TypeOK
<1>3. TypeOK'
  BY <1>1, <1>a, <1>2 DEF IInv, TypeOK, Place, rows
<1>4. Local(r)'
  BY <1>1, <1>a, <1>2, Resolvers DEF IInv, TypeOK, Local, rows
<1>5. result'[r] # None => arg'[r] \in Name /\ result'[r] = alias[arg'[r]]
  BY <1>1, Resolvers DEF IInv, AnswerInv, Agreement
<1>6. QED
  BY <1>1, <1>a, <1>3, <1>4, <1>5, Resolvers, Quiet DEF IInv, TypeOK, Mine, OthersRest

LEMMA CreateKeeps == ASSUME IInv, NEW r \in Resolver, CreateRow(r) PROVE IInv'
<1>1. /\ pc[r] = "create" /\ pc' = [pc EXCEPT ![r] = "claim"] /\ UNCHANGED rows
      /\ generation \in {r, None} /\ generation' = r
      /\ created' = [created EXCEPT ![r] = target[r] \notin canonical]
      /\ \E v \in BOOLEAN : embedding' = [embedding EXCEPT ![r] = v]
      /\ UNCHANGED <<target, claims, pending, arg, result>>
  BY DEF CreateRow, Goto, FreeGeneration, Generation
<1>2. created' \in [Worker -> BOOLEAN] /\ embedding' \in [Worker -> BOOLEAN]
  <2>1. (target[r] \notin canonical) \in BOOLEAN
    OBVIOUS
  <2>2. QED
    BY <1>1, <2>1, Zenon DEF IInv, TypeOK
<1>3. TypeOK'
  BY <1>1, <1>2, Resolvers DEF IInv, TypeOK, Place, rows
<1>4. created'[r] <=> target[r] \notin canonical
  BY <1>1, Resolvers DEF IInv, TypeOK
<1>5. /\ pc'[r] = "claim" /\ target'[r] = target[r] /\ claims'[r] = claims[r] /\ arg'[r] = arg[r]
      /\ canonical' = canonical /\ alias' = alias
  BY <1>1, Resolvers DEF IInv, TypeOK, rows
<1>6. Local(r)'
  BY <1>1, <1>4, <1>5, Resolvers DEF IInv, Local
<1>7. \A v \in Worker \ {r} : Mine(v)' = Mine(v) /\ (generation' = v <=> generation = v)
  BY <1>1, Resolvers, ResolverAssumption DEF IInv, TypeOK, Mine
<1>8. result'[r] # None => arg'[r] \in Name /\ result'[r] = alias[arg'[r]]
  BY <1>1, Resolvers DEF IInv, AnswerInv, Agreement
<1>9. QED
  BY <1>1, <1>3, <1>6, <1>7, <1>8, Resolvers, Quiet DEF OthersRest

LEMMA ClaimKeeps ==
  ASSUME IInv, NEW r \in Resolver, ClaimAlias(r) \/ ClaimName(r) PROVE IInv'
<1>1. /\ pc[r] \in {"attach", "claim", "second"} /\ UNCHANGED rows
      /\ UNCHANGED <<generation, target, created, embedding, pending, arg, result>>
  BY DEF ClaimAlias, ClaimName
<1>2. Local(r) /\ arg[r] \in Name /\ target[r] \in Name /\ r \in Worker
  BY <1>1, Resolvers DEF IInv, Local
<1>3. /\ \A a \in claims'[r] \ claims[r] : TakenBy(a, r) = {}
      /\ TypeOK' /\ Local(r)'
      /\ \A v \in Worker \ {r} : pc'[v] = pc[v] /\ claims'[v] = claims[v]
  <2>1. CASE ClaimAlias(r) /\ Open(arg[r])
    <3>1. /\ claims' = [claims EXCEPT ![r] = {arg[r]}] /\ TakenBy(arg[r], r) = {}
          /\ alias[arg[r]] = None /\ pc[r] \in {"attach", "claim"}
          /\ pc' = [pc EXCEPT ![r] = IF pc[r] = "claim" /\ target[r] # arg[r] THEN "second" ELSE "commit"]
      BY <2>1 DEF ClaimAlias, Open, Goto
    <3>2. TypeOK'
      BY <1>1, <1>2, <3>1 DEF IInv, TypeOK, Place, rows
    <3>3. /\ claims'[r] = {arg[r]}
          /\ pc'[r] = IF pc[r] = "claim" /\ target[r] # arg[r] THEN "second" ELSE "commit"
      BY <1>2, <3>1 DEF IInv, TypeOK
    <3>4. Local(r)'
      BY <1>1, <1>2, <3>1, <3>3, Resolvers DEF Local, rows
    <3>5. QED
      BY <1>2, <3>1, <3>2, <3>3, <3>4 DEF IInv, TypeOK
  <2>2. CASE ClaimAlias(r) /\ ~Open(arg[r])
    <3>1. /\ claims' = claims /\ alias[arg[r]] # None /\ pc[r] \in {"attach", "claim"}
          /\ pc' = [pc EXCEPT ![r] = "lost"]
      BY <2>2 DEF ClaimAlias, Open, Goto
    <3>2. TypeOK'
      BY <1>1, <1>2, <3>1 DEF IInv, TypeOK, Place, rows
    <3>3. claims'[r] = claims[r] /\ pc'[r] = "lost"
      BY <1>2, <3>1 DEF IInv, TypeOK
    <3>4. Local(r)'
      BY <1>1, <1>2, <3>1, <3>3, Resolvers DEF Local, rows
    <3>5. QED
      BY <1>2, <3>1, <3>2, <3>4 DEF IInv, TypeOK
  <2>3. CASE ClaimName(r)
    <3>1. /\ pc[r] = "second" /\ TakenBy(target[r], r) = {} /\ pc' = [pc EXCEPT ![r] = "commit"]
          /\ claims' = [claims EXCEPT ![r] = IF alias[target[r]] = None THEN @ \cup {target[r]} ELSE @]
      BY <2>3 DEF ClaimName, Open, Goto
    <3>2. TypeOK'
      BY <1>1, <1>2, <3>1 DEF IInv, TypeOK, Place, rows
    <3>3. /\ claims'[r] = IF alias[target[r]] = None THEN claims[r] \cup {target[r]} ELSE claims[r]
          /\ pc'[r] = "commit"
      BY <1>2, <3>1 DEF IInv, TypeOK
    <3>4. Local(r)'
      BY <1>1, <1>2, <3>1, <3>3, Resolvers DEF Local, rows
    <3>5. QED
      BY <1>2, <3>1, <3>2, <3>3, <3>4 DEF IInv, TypeOK
  <2>4. QED
    BY <2>1, <2>2, <2>3
<1>4. \A v \in Worker \ {r} : Mine(v)' = Mine(v) /\ (generation' = v <=> generation = v)
  BY <1>1, <1>3 DEF Mine
<1>5. result'[r] # None => arg'[r] \in Name /\ result'[r] = alias[arg'[r]]
  BY <1>1, <1>2 DEF IInv, AnswerInv, Agreement
<1>6. QED
  BY <1>1, <1>2, <1>3, <1>4, <1>5, Quiet DEF OthersRest

\* The end of a transaction, whatever has become of it.
LEMMA Ends ==
  ASSUME IInv, NEW w \in Worker, End(w)
  PROVE  /\ pc' \in [Worker -> Place] /\ target' \in [Worker -> Name \cup {None}]
         /\ created' \in [Worker -> BOOLEAN] /\ embedding' \in [Worker -> BOOLEAN]
         /\ claims' \in [Worker -> SUBSET Name] /\ pending' \in [Worker -> SUBSET Name]
         /\ generation' \in Worker \cup {None} /\ arg' = arg /\ claims'[w] = {}
         /\ Local(w)'
         /\ \A v \in Worker \ {w} : Mine(v)' = Mine(v) /\ (generation' = v <=> generation = v)
<1>1. /\ pc' = [pc EXCEPT ![w] = "idle"] /\ target' = [target EXCEPT ![w] = None]
      /\ created' = [created EXCEPT ![w] = FALSE] /\ embedding' = [embedding EXCEPT ![w] = FALSE]
      /\ claims' = [claims EXCEPT ![w] = {}] /\ pending' = [pending EXCEPT ![w] = {}]
      /\ generation' = (IF generation = w THEN None ELSE generation) /\ arg' = arg
  BY DEF End, Goto
<1>2. created' \in [Worker -> BOOLEAN] /\ embedding' \in [Worker -> BOOLEAN]
  BY <1>1, Zenon DEF IInv, TypeOK
<1>3. /\ pc'[w] = "idle" /\ claims'[w] = {} /\ ~created'[w] /\ ~embedding'[w] /\ generation' # w
  BY <1>1, ResolverAssumption DEF IInv, TypeOK, Worker
<1>4. Local(w)'
  BY <1>3 DEF Local
<1>5. \A v \in Worker \ {w} : Mine(v)' = Mine(v) /\ (generation' = v <=> generation = v)
  BY <1>1, ResolverAssumption DEF IInv, TypeOK, Mine, Worker
<1>6. QED
  BY <1>1, <1>2, <1>3, <1>4, <1>5 DEF IInv, TypeOK, Place

LEMMA LostKeeps == ASSUME IInv, NEW r \in Resolver, Lost(r) PROVE IInv'
<1>1. /\ pc[r] = "lost" /\ End(r) /\ alias' = alias /\ matched' = matched
      /\ canonical' = canonical \cup {} /\ vector' = vector \cup (Vectors(r) \cap canonical')
      /\ result' = [result EXCEPT ![r] = alias[arg[r]]]
  BY DEF Lost, KeepsRow, Winner
<1>2. r \in Worker /\ arg[r] \in Name /\ alias[arg[r]] # None
  BY <1>1, Resolvers DEF IInv, Local
<1>3. canonical' = canonical /\ vector' \in SUBSET canonical'
  BY <1>1 DEF IInv, TypeOK
<1>4. TypeOK'
  BY <1>1, <1>2, <1>3, Ends DEF IInv, TypeOK
<1>5. Considerate(r)
  BY <1>1, <1>2, <1>3, Ends DEF Considerate
<1>6. /\ OthersRest(r)
      /\ result'[r] # None => arg'[r] \in Name /\ result'[r] = alias'[arg'[r]]
  BY <1>1, <1>2, Ends DEF OthersRest, IInv, TypeOK
<1>7. (\A v \in Worker : Local(v)') /\ Disjoint'
  BY <1>1, <1>2, <1>5, Ends, Steps
<1>8. Agreement' /\ AnswerInv'
  BY <1>2, <1>5, <1>6, Kept
<1>9. NoOrphan' /\ MatchedInv'
  BY <1>1, <1>3 DEF IInv, NoOrphan, MatchedInv
<1>10. QED
  BY <1>4, <1>7, <1>8, <1>9 DEF IInv

\* What a commit does to the tables: the claims are taught, all for the target.
LEMMA Learns ==
  ASSUME IInv, NEW w \in Worker, pc[w] \in {"commit", "insert"}, Learned(w), End(w)
  PROVE  /\ canonical' \in SUBSET Name /\ vector' \in SUBSET canonical'
         /\ alias' \in [Name -> canonical' \cup {None}]
         /\ Considerate(w) /\ target[w] \in canonical'
         /\ \A a \in claims[w] : alias[a] = None /\ alias'[a] = target[w]
         /\ canonical' \subseteq canonical \cup {target[w]}
<1>1. /\ canonical' = canonical \cup (IF created[w] THEN {target[w]} ELSE {})
      /\ vector' = vector \cup (IF embedding[w] THEN {target[w]} ELSE {})
      /\ alias' = [a \in Name |-> IF a \in claims[w] THEN target[w] ELSE alias[a]]
  BY DEF Learned, Vectors
<1>2. /\ target[w] \in Name /\ (created[w] \/ target[w] \in canonical)
      /\ \A a \in claims[w] : alias[a] = None
  BY DEF IInv, Local
<1>3. claims[w] \in SUBSET Name
  BY DEF IInv, TypeOK
<1>4. /\ canonical' \in SUBSET Name /\ target[w] \in canonical' /\ canonical \subseteq canonical'
      /\ canonical' \subseteq canonical \cup {target[w]}
  BY <1>1, <1>2 DEF IInv, TypeOK
<1>5. vector' \in SUBSET canonical'
  BY <1>1, <1>4 DEF IInv, TypeOK
<1>6. alias' \in [Name -> canonical' \cup {None}]
  BY <1>1, <1>4 DEF IInv, TypeOK
<1>7. \A a \in claims[w] : alias[a] = None /\ alias'[a] = target[w]
  BY <1>1, <1>2, <1>3
<1>8. /\ \A a \in Name : alias[a] # None => alias'[a] = alias[a]
      /\ \A a \in Name : alias[a] = None /\ alias'[a] # None => a \in claims[w]
  BY <1>1, <1>2
<1>9. Considerate(w)
  BY <1>4, <1>8, Ends DEF Considerate
<1>10. QED
  BY <1>4, <1>5, <1>6, <1>7, <1>9

LEMMA CommitKeeps == ASSUME IInv, NEW r \in Resolver, Commit(r) PROVE IInv'
<1>1. /\ pc[r] = "commit" /\ Learned(r) /\ End(r)
      /\ matched' = IF generation = r THEN matched ELSE matched \cup claims[r]
      /\ result' = [result EXCEPT ![r] = target[r]]
  BY DEF Commit
<1>2. /\ r \in Worker /\ Local(r) /\ arg[r] \in Name /\ arg[r] \in claims[r] /\ target[r] \in Name
  BY <1>1, Resolvers DEF IInv, Local
<1>3. matched' \in SUBSET Name /\ result' \in [Worker -> Name \cup {None}]
  BY <1>1, <1>2 DEF IInv, TypeOK
<1>4. TypeOK'
  BY <1>1, <1>2, <1>3, Ends, Learns DEF IInv, TypeOK
<1>5. Considerate(r) /\ alias'[arg[r]] = target[r]
  BY <1>1, <1>2, Learns
<1>6. /\ OthersRest(r)
      /\ result'[r] # None => arg'[r] \in Name /\ result'[r] = alias'[arg'[r]]
  BY <1>1, <1>2, <1>5, Ends DEF OthersRest, IInv, TypeOK
<1>7. (\A v \in Worker : Local(v)') /\ Disjoint'
  BY <1>1, <1>2, <1>5, Ends, Steps
<1>8. /\ Agreement' /\ AnswerInv'
      /\ \A a \in matched : alias'[a] # None /\ ~Incompatible(a, alias'[a])
      /\ \A c \in canonical \ {SeedName} : \E a \in Name : alias'[a] = c
  BY <1>2, <1>5, <1>6, Kept
<1>9. NoOrphan'
  <2>1. canonical' \subseteq canonical \cup {target[r]}
    BY <1>1, <1>2, Learns
  <2>2. QED
    BY <1>2, <1>5, <1>8, <2>1 DEF NoOrphan
<1>10. MatchedInv'
  <2>1. CASE generation = r
    BY <1>1, <1>8, <2>1 DEF MatchedInv
  <2>2. CASE generation # r
    <3>1. claims[r] = {arg[r]} /\ ~Incompatible(arg[r], target[r])
      BY <1>1, <1>2, <2>2 DEF Local
    <3>2. target[r] # None
      BY <1>2, ResolverAssumption
    <3>3. QED
      BY <1>1, <1>5, <1>8, <2>2, <3>1, <3>2 DEF MatchedInv
  <2>3. QED
    BY <2>1, <2>2
<1>11. QED
  BY <1>4, <1>7, <1>8, <1>9, <1>10 DEF IInv

LEMMA AbortKeeps == ASSUME IInv, NEW w \in Worker, Abort(w) PROVE IInv'
<1>1. End(w) /\ UNCHANGED rows /\ result' = result
  BY DEF Abort
<1>2. TypeOK'
  BY <1>1, Ends DEF IInv, TypeOK, rows
<1>3. w = Seeder \/ w \in Resolver
  BY DEF Worker
<1>4. OthersRest(w)
  BY <1>1 DEF OthersRest
<1>5. Considerate(w)
  BY <1>1, Ends DEF Considerate, rows
<1>6. (\A v \in Worker : Local(v)') /\ Disjoint'
  BY <1>1, <1>5, Ends, Steps
<1>7. Agreement' /\ AnswerInv'
  BY <1>1, Ends DEF IInv, Agreement, AnswerInv, rows
<1>8. NoOrphan' /\ MatchedInv'
  BY <1>1 DEF IInv, NoOrphan, MatchedInv, rows
<1>9. QED
  BY <1>2, <1>6, <1>7, <1>8 DEF IInv

-----------------------------------------------------------------------------
(* seed-aliases and the repair of vectors.                                 *)

LEMMA SeedKeeps ==
  ASSUME IInv, SeedRow \/ SeedAliases \/ \E n \in Name : SeedInsert(n) PROVE IInv'
<1>1. UNCHANGED rows /\ UNCHANGED <<embedding, arg, result>> /\ Seeder \in Worker /\ Seeder \notin Resolver
  BY ResolverAssumption DEF SeedRow, SeedAliases, SeedInsert, Worker
<1>2. Local(Seeder)
  BY <1>1 DEF IInv
<1>3. /\ TypeOK' /\ Local(Seeder)'
      /\ \A a \in claims'[Seeder] \ claims[Seeder] : TakenBy(a, Seeder) = {}
      /\ \A v \in Worker \ {Seeder} : Mine(v)' = Mine(v) /\ (generation' = v <=> generation = v)
  <2>1. CASE SeedRow
    <3>1. /\ pc[Seeder] = "idle" /\ pc' = [pc EXCEPT ![Seeder] = "aliases"]
          /\ target' = [target EXCEPT ![Seeder] = SeedName] /\ claims' = claims /\ pending' = pending
          /\ \/ SeedName \in canonical /\ generation' = generation /\ created' = created
             \/ /\ generation \in {Seeder, None} /\ generation' = Seeder
                /\ created' = [created EXCEPT ![Seeder] = TRUE]
      BY <2>1 DEF SeedRow, Aim, Goto, FreeGeneration, Generation
    <3>2. created' \in [Worker -> BOOLEAN]
      BY <3>1, Zenon DEF IInv, TypeOK
    <3>3. TypeOK'
      BY <1>1, <3>1, <3>2, ResolverAssumption DEF IInv, TypeOK, Place, rows
    <3>4. /\ pc'[Seeder] = "aliases" /\ target'[Seeder] = SeedName /\ claims'[Seeder] = {}
          /\ created'[Seeder] => generation' = Seeder
          /\ created'[Seeder] \/ SeedName \in canonical
      BY <1>1, <1>2, <3>1 DEF IInv, TypeOK, Local
    <3>5. Local(Seeder)'
      BY <1>1, <1>2, <3>4, ResolverAssumption DEF Local, rows
    <3>6. \A v \in Worker \ {Seeder} : Mine(v)' = Mine(v) /\ (generation' = v <=> generation = v)
      BY <1>1, <3>1, ResolverAssumption DEF IInv, TypeOK, Mine, Worker
    <3>7. QED
      BY <3>3, <3>4, <3>5, <3>6
  <2>2. CASE SeedAliases
    <3>1. /\ pc[Seeder] = "aliases" /\ pc' = [pc EXCEPT ![Seeder] = "insert"]
          /\ \E new \in SUBSET Name : pending' = [pending EXCEPT ![Seeder] = new]
          /\ UNCHANGED <<generation, target, created, claims>>
      <4>1. {a \in Seeds : alias[a] = None} \in SUBSET Name
        BY ResolverAssumption
      <4>2. QED
        BY <2>2, <4>1 DEF SeedAliases, Goto
    <3>2. TypeOK'
      BY <1>1, <3>1 DEF IInv, TypeOK, Place, rows
    <3>3. Local(Seeder)'
      BY <1>1, <1>2, <3>1 DEF IInv, TypeOK, Local, rows
    <3>4. QED
      BY <1>1, <3>1, <3>2, <3>3 DEF IInv, TypeOK, Mine
  <2>3. ASSUME NEW n \in Name, SeedInsert(n)
        PROVE  /\ TypeOK' /\ Local(Seeder)'
               /\ \A a \in claims'[Seeder] \ claims[Seeder] : TakenBy(a, Seeder) = {}
               /\ \A v \in Worker \ {Seeder} : Mine(v)' = Mine(v) /\ (generation' = v <=> generation = v)
    <3>1. /\ pc[Seeder] = "insert" /\ TakenBy(n, Seeder) = {} /\ alias[n] = None
          /\ claims' = [claims EXCEPT ![Seeder] = @ \cup {n}]
          /\ UNCHANGED <<generation, target, created, pending, pc>>
      BY <2>3 DEF SeedInsert
    <3>2. TypeOK'
      BY <1>1, <3>1 DEF IInv, TypeOK, rows
    <3>3. claims'[Seeder] = claims[Seeder] \cup {n}
      BY <1>1, <3>1 DEF IInv, TypeOK
    <3>4. Local(Seeder)'
      BY <1>1, <1>2, <3>1, <3>3 DEF Local, rows
    <3>5. QED
      BY <1>1, <3>1, <3>2, <3>3, <3>4 DEF IInv, TypeOK, Mine
  <2>4. QED
    BY <2>1, <2>2, <2>3
<1>4. Considerate(Seeder)
  <2>1. \A v \in Worker \ {Seeder} : claims'[Seeder] \cap claims[v] = {}
    BY <1>1, <1>3 DEF IInv, Disjoint, TakenBy
  <2>2. QED
    BY <1>1, <1>3, <2>1 DEF Considerate, rows
<1>5. (\A v \in Worker : Local(v)') /\ Disjoint'
  BY <1>1, <1>3, <1>4, Steps
<1>6. Agreement' /\ AnswerInv' /\ NoOrphan' /\ MatchedInv'
  BY <1>1 DEF IInv, Agreement, AnswerInv, NoOrphan, MatchedInv, rows
<1>7. QED
  BY <1>3, <1>5, <1>6 DEF IInv

LEMMA SeedCommitKeeps == ASSUME IInv, SeedCommit PROVE IInv'
<1>1. /\ pc[Seeder] = "insert" /\ Learned(Seeder) /\ End(Seeder) /\ matched' = matched
      /\ result' = result /\ Seeder \in Worker /\ Seeder \notin Resolver
  BY ResolverAssumption DEF SeedCommit, Worker
<1>2. target[Seeder] = SeedName
  BY <1>1 DEF IInv, Local
<1>3. TypeOK'
  BY <1>1, Ends, Learns DEF IInv, TypeOK
<1>4. Considerate(Seeder)
  BY <1>1, Learns
<1>5. (\A v \in Worker : Local(v)') /\ Disjoint'
  BY <1>1, <1>4, Ends, Steps
<1>6. arg' = arg
  BY <1>1, Ends
<1>7. Agreement' /\ AnswerInv'
  <2>1. AnswerInv'
    BY <1>1, <1>6 DEF IInv, AnswerInv
  <2>2. ASSUME NEW r \in Resolver, result[r] # None PROVE result[r] = alias'[arg[r]]
    <3>1. arg[r] \in Name /\ result[r] = alias[arg[r]]
      BY <2>2, Resolvers DEF IInv, Agreement, AnswerInv
    <3>2. QED
      BY <1>4, <2>2, <3>1 DEF Considerate
  <2>3. QED
    BY <1>1, <1>6, <2>1, <2>2 DEF Agreement
<1>8. MatchedInv'
  BY <1>1, <1>4 DEF IInv, TypeOK, MatchedInv, Considerate
<1>9. NoOrphan'
  <2>1. canonical' \subseteq canonical \cup {SeedName}
    BY <1>1, <1>2, Learns
  <2>2. \A c \in canonical \ {SeedName} : c \in Name /\ c # None /\ \E a \in Name : alias[a] = c
    BY ResolverAssumption DEF IInv, NoOrphan, TypeOK
  <2>3. QED
    BY <1>4, <2>1, <2>2 DEF NoOrphan, Considerate
<1>10. QED
  BY <1>3, <1>5, <1>7, <1>8, <1>9 DEF IInv

LEMMA RestKeeps ==
  ASSUME IInv, UNCHANGED vars \/ \E c \in Name : EmbedCanonical(c) PROVE IInv'
<1>1. /\ UNCHANGED <<canonical, alias, matched, tx, pc, arg, result>> /\ vector' \in SUBSET canonical
  BY DEF EmbedCanonical, vars, rows, IInv, TypeOK
<1>2. TypeOK'
  BY <1>1 DEF IInv, TypeOK, tx
<1>3. \A w \in Worker : Local(w)'
  BY <1>1 DEF IInv, Local, tx
<1>4. QED
  BY <1>1, <1>2, <1>3 DEF IInv, Disjoint, Agreement, AnswerInv, NoOrphan, MatchedInv, tx

LEMMA NextIInv == ASSUME IInv, [Next]_vars PROVE IInv'
<1>1. ASSUME NEW r \in Resolver, Resolve(r) PROVE IInv'
  BY <1>1, StartKeeps, LookupKeeps, DecisionKeeps, CreateKeeps, ClaimKeeps, LostKeeps, CommitKeeps
  DEF Resolve
<1>2. QED
  BY <1>1, AbortKeeps, SeedKeeps, SeedCommitKeeps, RestKeeps DEF Next

-----------------------------------------------------------------------------
(* The properties.                                                         *)

\* Whoever holds the generation waits for nobody who could wait for it.
LEMMA NoCircles == ASSUME IInv PROVE NoCircle
<1> SUFFICES ASSUME NEW S \in (SUBSET Resolver) \ {{}}
             PROVE  \E r \in S : WaitsFor(r) \cap S = {}
  BY DEF NoCircle
<1>1. \A r \in S : r \in Resolver /\ r \in Worker /\ Local(r) /\ r # Seeder
  BY Resolvers DEF IInv
<1>2. ASSUME NEW r \in S, pc[r] \notin {"create", "attach", "claim", "second"}
      PROVE  WaitsFor(r) = {}
  BY <1>2 DEF WaitsFor
<1>3. ASSUME NEW r \in S, \A v \in S : v # r => claims[v] = {}, pc[r] # "create"
      PROVE  WaitsFor(r) \cap S = {}
  <2>1. \A a : TakenBy(a, r) \cap S = {}
    BY <1>3 DEF TakenBy
  <2>2. QED
    BY <1>3, <2>1 DEF WaitsFor
<1>4. ASSUME NEW r \in S, pc[r] = "create", generation \notin S
      PROVE  WaitsFor(r) \cap S = {}
  <2>1. RowTakenBy(target[r], r) \cap S = {}
    BY <1>1, <1>4 DEF RowTakenBy, Local
  <2>2. QED
    BY <1>4, <2>1 DEF WaitsFor
<1>5. CASE \E r \in S : pc[r] \notin {"create", "attach", "claim", "second"}
  BY <1>2, <1>5
<1>6. CASE \A r \in S : pc[r] \in {"create", "attach", "claim", "second"}
  <2>1. \A v \in S : claims[v] # {} => generation = v
    BY <1>1, <1>6 DEF Local
  <2>2. CASE generation \in S
    <3>1. pc[generation] # "create"
      BY <1>1, <2>2 DEF Local
    <3>2. \A v \in S : v # generation => claims[v] = {}
      BY <2>1
    <3>3. QED
      BY <1>3, <2>2, <3>1, <3>2
  <2>3. CASE generation \notin S
    <3>1. PICK r \in S : TRUE
      OBVIOUS
    <3>2. \A v \in S : claims[v] = {}
      BY <2>1, <2>3
    <3>3. QED
      BY <1>3, <1>4, <2>3, <3>1, <3>2
  <2>4. QED
    BY <2>2, <2>3
<1>7. QED
  BY <1>5, <1>6

\* However many resolvers race, fail and wait, and whatever the model says:
\* every caller gets the stored decision, no canonical lacks an alias, a match
\* is an allowed one, and nobody waits in a circle.
THEOREM Sound == Spec => []RegistryIsSound
<1>1. Init => IInv
  BY InitIInv
<1>2. IInv /\ [Next]_vars => IInv'
  BY NextIInv
<1>3. IInv => RegistryIsSound
  BY NoCircles DEF RegistryIsSound, IInv, MatchesAllowed, MatchedInv
<1>4. QED
  BY <1>1, <1>2, <1>3, PTL DEF Spec

-----------------------------------------------------------------------------
(* The refinement of Registry.                                             *)

LEMMA CommitDecides ==
  ASSUME IInv, NEW r \in Resolver, Commit(r) PROVE Promise!Next
<1>1. /\ pc[r] = "commit" /\ Learned(r) /\ End(r) /\ r \in Worker
      /\ result' = [result EXCEPT ![r] = target[r]]
  BY Resolvers DEF Commit
<1>2. /\ arg[r] \in claims[r] /\ target[r] \in Name /\ claims[r] \in SUBSET Name /\ arg' = arg
      /\ \A a \in claims[r] : alias[a] = None
  BY <1>1, Ends DEF IInv, TypeOK, Local
<1>3. alias' = [a \in Name |-> IF a \in claims[r] THEN target[r] ELSE alias[a]]
  BY <1>1 DEF Learned
<1>4. Promise!DecideAndAnswer(r, claims[r], target[r])
  BY <1>1, <1>2, <1>3 DEF Promise!DecideAndAnswer, Promise!Decides
<1>5. QED
  BY <1>1, <1>2, <1>4 DEF Promise!Next

LEMMA SeedCommitDecides ==
  ASSUME IInv, SeedCommit PROVE [Promise!Next]_Promise!vars
<1>1. /\ pc[Seeder] = "insert" /\ Learned(Seeder) /\ End(Seeder) /\ result' = result
      /\ Seeder \in Worker
  BY DEF SeedCommit, Worker
<1>2. /\ target[Seeder] \in Name /\ claims[Seeder] \in SUBSET Name /\ arg' = arg
      /\ \A a \in claims[Seeder] : alias[a] = None
  BY <1>1, Ends DEF IInv, TypeOK, Local
<1>3. alias' = [a \in Name |-> IF a \in claims[Seeder] THEN target[Seeder] ELSE alias[a]]
  BY <1>1 DEF Learned
<1>4. CASE claims[Seeder] = {}
  <2>1. alias' = alias
    BY <1>3, <1>4 DEF IInv, TypeOK
  <2>2. QED
    BY <1>1, <1>2, <2>1 DEF Promise!vars
<1>5. CASE claims[Seeder] # {}
  <2>1. Promise!Decide(claims[Seeder], target[Seeder])
    BY <1>1, <1>2, <1>3, <1>5 DEF Promise!Decide, Promise!Decides
  <2>2. QED
    BY <1>2, <2>1 DEF Promise!Next
<1>6. QED
  BY <1>4, <1>5

LEMMA StepDecides == ASSUME IInv, [Next]_vars PROVE [Promise!Next]_Promise!vars
<1>1. ASSUME NEW r \in Resolver, NEW n \in Name, Start(r, n) PROVE Promise!Next
  <2>1. Promise!Ask(r, n)
    BY <1>1 DEF Start, rows, Promise!Ask
  <2>2. QED
    BY <2>1, Resolvers DEF Promise!Next
<1>2. ASSUME NEW r \in Resolver, Lookup(r) \/ Lost(r) PROVE [Promise!Next]_Promise!vars
  <2>1. arg[r] \in Name /\ r \in Worker /\ (pc[r] = "lost" => alias[arg[r]] # None)
    BY <1>2, Resolvers DEF IInv, Local, Lookup, Lost
  <2>2. arg[r] # None
    BY <2>1, ResolverAssumption
  <2>3. arg' = arg /\ alias' = alias
    BY <1>2 DEF Lookup, Lost, End, rows
  <2>4. \/ result' = result
        \/ alias[arg[r]] # None /\ result' = [result EXCEPT ![r] = alias[arg[r]]]
    BY <1>2, <2>1 DEF Lookup, Lost, Winner
  <2>5. QED
    BY <2>1, <2>2, <2>3, <2>4 DEF Promise!Next, Promise!Answer, Promise!vars
<1>3. ASSUME NEW r \in Resolver,
             \/ Search(r) \/ CreateRow(r) \/ ClaimAlias(r) \/ ClaimName(r)
             \/ \E n \in Name : Match(r, n) \/ Propose(r, n)
      PROVE  UNCHANGED Promise!vars
  BY <1>3 DEF Search, CreateRow, ClaimAlias, ClaimName, Match, Propose, rows, Promise!vars
<1>4. ASSUME \/ \E w \in Worker : Abort(w)
             \/ SeedRow \/ SeedAliases \/ UNCHANGED vars
             \/ \E n \in Name : SeedInsert(n) \/ EmbedCanonical(n)
      PROVE  UNCHANGED Promise!vars
  BY <1>4 DEF Abort, End, SeedRow, SeedAliases, SeedInsert, EmbedCanonical, vars, rows, Promise!vars
<1>5. QED
  BY <1>1, <1>2, <1>3, <1>4, CommitDecides, SeedCommitDecides DEF Next, Resolve

\* The resolver implements the registry: a name that has been decided keeps its
\* decision, and whatever a caller is told is the decision.
THEOREM Implements == Spec => ImplementsRegistry
<1>1. Init => Promise!Init
  BY DEF Init, Nobody, Promise!Init
<1>2. Init => IInv
  BY InitIInv
<1>3. IInv /\ [Next]_vars => IInv' /\ [Promise!Next]_Promise!vars
  BY NextIInv, StepDecides
<1>4. QED
  BY <1>1, <1>2, <1>3, PTL DEF Spec, ImplementsRegistry, Promise!Spec

\* The resolver in Content is the resolver.
LEMMA ResolverIn == ContentSpec => Spec
<1>1. ContentInit => Init
  BY DEF ContentInit
<1>2. [ContentNext]_<<turn, vars, others>> => [Next]_vars
  BY DEF ContentNext
<1>3. QED
  BY <1>1, <1>2, PTL DEF ContentSpec, Spec

-----------------------------------------------------------------------------
(* Clustering, for any questions, scores, posts and similarities.          *)

LEMMA SameCardinality == \A S : C!Cardinality(S) = Cardinality(S)
  BY DEF C!Cardinality, Cardinality

\* Questions are ordered by their scores and ids.
LEMMA BeforeOrders ==
  ASSUME C!TypeOK
  PROVE  /\ \A p \in Question : ~C!Before(p, p)
         /\ \A p, q, s \in Question : C!Before(p, q) /\ C!Before(q, s) => C!Before(p, s)
         /\ \A p, q \in Question : p # q => C!Before(p, q) \/ C!Before(q, p)
<1>1. \A q \in Question : q \in Nat /\ clu_score[q] \in Int
  BY ClusteringAssumption DEF C!TypeOK
<1>2. \A p, q \in Question : C!Before(p, q) <=>
        (clu_score[p] > clu_score[q] \/ (clu_score[p] = clu_score[q] /\ p < q))
  BY DEF C!Before
<1>3. QED
  BY <1>1, <1>2

\* Some question is the best of a set.
LEMMA BestIs ==
  ASSUME C!TypeOK, NEW S, S \subseteq Question, S # {}
  PROVE  C!Best(S) \in S /\ \A p \in S \ {C!Best(S)} : C!Before(C!Best(S), p)
<1> DEFINE R == {p \in S \X S : C!Before(p[1], p[2])}
<1>1. IsFiniteSet(S)
  BY FS_Subset, ClusteringAssumption
<1>2. \A x, y \in S : <<x, y>> \in R <=> C!Before(x, y)
  OBVIOUS
<1> HIDE DEF R
<1>3. Orders(R, S)
  <2>1. /\ \A p \in S : ~C!Before(p, p)
        /\ \A p, q, s \in S : C!Before(p, q) /\ C!Before(q, s) => C!Before(p, s)
        /\ \A p, q \in S : p # q => C!Before(p, q) \/ C!Before(q, p)
    BY BeforeOrders
  <2>2. QED
    BY <1>2, <2>1 DEF Orders
<1>4. Cardinality(S) \in Nat /\ Cardinality(S) # 0
  BY <1>1, FS_CardinalityType, FS_EmptySet
<1>5. \A k \in 1..Cardinality(S) : \E x \in S : Cardinality(Below(S, R, x)) = k - 1
  BY <1>1, <1>3, RankIs
<1>6. PICK x \in S : Cardinality(Below(S, R, x)) = 0
  <2>1. 1 \in 1..Cardinality(S) /\ 1 - 1 = 0
    BY <1>4
  <2>2. QED
    BY <1>5, <2>1
<1>7. Below(S, R, x) = {}
  <2>1. IsFiniteSet(Below(S, R, x))
    BY <1>1, FS_Subset DEF Below
  <2>2. QED
    BY <1>6, <2>1, FS_EmptySet
<1>8. \A p \in S \ {x} : C!Before(x, p)
  BY <1>2, <1>3, <1>7 DEF Below, Orders
<1>9. QED
  BY <1>8 DEF C!Best

\* Representatives, members and free questions while the clusters are made.
CluParts ==
  /\ \A r \in DOMAIN clu_members : r \in clu_members[r] /\ clu_members[r] \cap clu_free = {}
  /\ \A q \in Question \ clu_free : \E r \in DOMAIN clu_members : q \in clu_members[r]
  /\ \A r, s \in DOMAIN clu_members : r # s => clu_members[r] \cap clu_members[s] = {}

\* A member is near its representative, which is better; what is still free is
\* near no representative, and neither was what a later one has taken.
CluNear ==
  /\ \A r \in DOMAIN clu_members : \A q \in clu_members[r] \ {r} : C!Similar(r, q) /\ C!Before(r, q)
  /\ \A r \in DOMAIN clu_members, q \in clu_free : C!Before(r, q) /\ ~C!Similar(r, q)
  /\ \A r, s \in DOMAIN clu_members : C!Before(r, s) => \A q \in clu_members[s] : ~C!Similar(r, q)

CluOrder ==
  clu_clusters # << >> =>
    /\ clu_free = {}
    /\ \A i, j \in DOMAIN clu_clusters : i < j => C!Ahead(clu_clusters[i], clu_clusters[j])

CluInv == C!TypeOK /\ CluParts /\ CluNear /\ CluOrder

LEMMA InitClu == C!Init => CluInv
<1> SUFFICES ASSUME C!Init PROVE CluInv
  OBVIOUS
<1>1. DOMAIN clu_members = {} /\ clu_free = Question /\ clu_clusters = << >>
  BY DEF C!Init
<1>2. C!TypeOK
  BY <1>1 DEF C!Init, C!TypeOK
<1>3. QED
  BY <1>1, <1>2 DEF CluInv, CluParts, CluNear, CluOrder

LEMMA OpenClu == ASSUME CluInv, NEW r \in Question, C!Open(r) PROVE CluInv'
<1> DEFINE D == DOMAIN clu_members
           M == {r} \cup {q \in clu_free \ {r} : C!Joins(q, r, clu_free)}
<1>0. C!TypeOK /\ CluParts /\ CluNear /\ clu_free \subseteq Question /\ D \subseteq Question
  BY DEF CluInv, C!TypeOK
<1>1. /\ clu_free # {} /\ r = C!Best(clu_free)
      /\ clu_members' = [x \in D \cup {r} |-> IF x = r THEN M ELSE clu_members[x]]
      /\ clu_free' = clu_free \ M /\ UNCHANGED <<clu_score, clu_near, clu_vectors, clu_clusters>>
  BY DEF C!Open, C!input
<1>2. r \in clu_free /\ \A q \in clu_free \ {r} : C!Before(r, q)
  BY <1>0, <1>1, BestIs
<1>3. M \subseteq clu_free /\ r \in M /\ \A q \in clu_free : q \in M \ {r} <=> (q # r /\ C!Similar(r, q))
  BY <1>2 DEF C!Joins
<1>4. r \notin D
  BY <1>0, <1>2 DEF CluParts
<1>5. /\ DOMAIN clu_members' = D \cup {r} /\ clu_members'[r] = M
      /\ \A x \in D : clu_members'[x] = clu_members[x]
  BY <1>1, <1>4
<1>6. \A p, q : (C!Similar(p, q)' <=> C!Similar(p, q)) /\ (C!Before(p, q)' <=> C!Before(p, q))
  BY <1>1 DEF C!Similar, C!Before
<1> HIDE DEF M, D
<1>7. clu_clusters = << >>
  BY <1>1 DEF CluInv, CluOrder
<1>8. C!TypeOK'
  <2>1. DOMAIN clu_members' \subseteq Question /\ clu_free' \subseteq Question
    BY <1>0, <1>1, <1>5
  <2>2. \A x \in D \cup {r} : clu_members'[x] \subseteq Question
    BY <1>0, <1>3, <1>5 DEF C!TypeOK, D
  <2>3. QED
    BY <1>0, <1>1, <1>5, <1>7, <2>1, <2>2 DEF C!TypeOK
<1>9. CluParts'
  <2>1. \A x \in D : x \in clu_members[x] /\ clu_members[x] \cap clu_free = {}
    BY <1>0 DEF CluParts, D
  <2>2. \A x \in D \cup {r} : x \in clu_members'[x] /\ clu_members'[x] \cap clu_free' = {}
    BY <1>1, <1>3, <1>5, <2>1
  <2>3. \A q \in Question \ clu_free' : \E x \in D \cup {r} : q \in clu_members'[x]
    <3>1. \A q \in Question \ clu_free : \E x \in D : q \in clu_members[x]
      BY <1>0 DEF CluParts, D
    <3>2. QED
      BY <1>1, <1>5, <3>1
  <2>4. \A x, y \in D \cup {r} : x # y => clu_members'[x] \cap clu_members'[y] = {}
    <3>1. \A x, y \in D : x # y => clu_members[x] \cap clu_members[y] = {}
      BY <1>0 DEF CluParts, D
    <3>2. QED
      BY <1>3, <1>5, <2>1, <3>1
  <2>5. QED
    BY <1>5, <2>2, <2>3, <2>4 DEF CluParts
<1>10. CluNear'
  <2>0. /\ \A x \in D : \A q \in clu_members[x] \ {x} : C!Similar(x, q) /\ C!Before(x, q)
        /\ \A x \in D, q \in clu_free : C!Before(x, q) /\ ~C!Similar(x, q)
        /\ \A x, y \in D : C!Before(x, y) => \A q \in clu_members[y] : ~C!Similar(x, q)
    BY <1>0 DEF CluNear, D
  <2>1. \A x \in D \cup {r} : \A q \in clu_members'[x] \ {x} : C!Similar(x, q) /\ C!Before(x, q)
    BY <1>2, <1>3, <1>5, <2>0
  <2>2. \A x \in D \cup {r}, q \in clu_free' : C!Before(x, q) /\ ~C!Similar(x, q)
    BY <1>1, <1>2, <1>3, <2>0
  <2>3. \A x, y \in D \cup {r} : C!Before(x, y) => \A q \in clu_members'[y] : ~C!Similar(x, q)
    <3> SUFFICES ASSUME NEW x \in D \cup {r}, NEW y \in D \cup {r}, C!Before(x, y), NEW q \in clu_members'[y]
                 PROVE  ~C!Similar(x, q)
      OBVIOUS
    <3>1. CASE x \in D /\ y \in D
      BY <1>5, <2>0, <3>1
    <3>2. CASE x \in D /\ y = r
      BY <1>3, <1>5, <2>0, <3>2
    <3>3. CASE x = r /\ y \in D
      <4>1. C!Before(y, r)
        BY <1>2, <2>0, <3>3
      <4>2. FALSE
        BY <1>0, <3>3, <4>1, BeforeOrders
      <4>3. QED
        BY <4>2
    <3>4. x # r \/ y # r
      BY BeforeOrders, <1>0
    <3>5. QED
      BY <3>1, <3>2, <3>3, <3>4
  <2>4. QED
    BY <1>5, <1>6, <2>1, <2>2, <2>3 DEF CluNear
<1>11. CluOrder'
  BY <1>1, <1>7 DEF CluOrder
<1>12. QED
  BY <1>8, <1>9, <1>10, <1>11 DEF CluInv

\* Clusters are ordered by their questions, posts and scores.
LEMMA AheadOrders ==
  ASSUME C!TypeOK
  PROVE  /\ \A r \in DOMAIN clu_members : C!Size(r) \in Nat
         /\ \A r \in DOMAIN clu_members : ~C!Ahead(r, r)
         /\ \A r, s, t \in DOMAIN clu_members : C!Ahead(r, s) /\ C!Ahead(s, t) => C!Ahead(r, t)
         /\ \A r, s \in DOMAIN clu_members : r # s => C!Ahead(r, s) \/ C!Ahead(s, r)
<1> DEFINE D == DOMAIN clu_members
<1>1. ASSUME NEW r \in D PROVE C!Size(r) \in Nat /\ C!PostCount(r) \in Nat /\ r \in Question
  <2>1. IsFiniteSet(clu_members[r]) /\ r \in Question
    BY FS_Subset, ClusteringAssumption DEF C!TypeOK
  <2>2. IsFiniteSet({Posts[q] : q \in clu_members[r]})
    <3> DEFINE M == clu_members[r]
               U == {Posts[q] : q \in M}
               h == [q \in M |-> Posts[q]]
    <3>1. h \in Surjection(M, U)
      BY DEF Surjection
    <3>2. IsFiniteSet(M)
      BY <2>1
    <3> HIDE DEF h, M, U
    <3>3. IsFiniteSet(U)
      BY <3>1, <3>2, FS_Surjection
    <3>4. QED
      BY <3>3 DEF U, M
  <2>3. QED
    BY <2>1, <2>2, FS_CardinalityType, SameCardinality DEF C!Size, C!PostCount
<1>2. /\ \A r \in D : ~C!Before(r, r)
      /\ \A r, s, t \in D : C!Before(r, s) /\ C!Before(s, t) => C!Before(r, t)
      /\ \A r, s \in D : r # s => C!Before(r, s) \/ C!Before(s, r)
  BY <1>1, BeforeOrders
<1>3. \A r, s \in D : C!Ahead(r, s) <=>
        \/ C!Size(r) > C!Size(s)
        \/ /\ C!Size(r) = C!Size(s)
           /\ C!PostCount(r) > C!PostCount(s) \/ (C!PostCount(r) = C!PostCount(s) /\ C!Before(r, s))
  BY DEF C!Ahead
<1>4. \A r \in D : ~C!Ahead(r, r)
  BY <1>1, <1>2, <1>3
<1>5. \A r, s, t \in D : C!Ahead(r, s) /\ C!Ahead(s, t) => C!Ahead(r, t)
  BY <1>1, <1>2, <1>3
<1>6. \A r, s \in D : r # s => C!Ahead(r, s) \/ C!Ahead(s, r)
  BY <1>1, <1>2, <1>3
<1>7. QED
  BY <1>1, <1>4, <1>5, <1>6

LEMMA FinishClu == ASSUME CluInv, C!Finish PROVE CluInv'
<1> DEFINE D == DOMAIN clu_members
           R == {p \in D \X D : C!Ahead(p[1], p[2])}
           N == Cardinality(D)
           s == C!Ordered(D)
<1>0. C!TypeOK /\ CluParts /\ CluNear /\ clu_free = {} /\ clu_clusters' = s
      /\ UNCHANGED <<clu_score, clu_near, clu_vectors, clu_free, clu_members>>
  BY DEF CluInv, C!Finish, C!input
<1>1. IsFiniteSet(D)
  BY <1>0, FS_Subset, ClusteringAssumption DEF C!TypeOK
<1>2. \A x, y \in D : <<x, y>> \in R <=> C!Ahead(x, y)
  OBVIOUS
<1>3. \A q \in D : C!Leading(D, q) = Below(D, R, q)
  BY DEF C!Leading, Below
<1> HIDE DEF R
<1>4. Orders(R, D)
  <2>1. /\ \A r \in D : ~C!Ahead(r, r)
        /\ \A r, x, t \in D : C!Ahead(r, x) /\ C!Ahead(x, t) => C!Ahead(r, t)
        /\ \A r, x \in D : r # x => C!Ahead(r, x) \/ C!Ahead(x, r)
    BY <1>0, AheadOrders
  <2> HIDE DEF D
  <2>2. QED
    BY <1>2, <2>1 DEF Orders
<1>5. s = [k \in 1..N |-> CHOOSE r \in D : C!Cardinality(C!Leading(D, r)) = k - 1]
  BY SameCardinality DEF C!Ordered
<1> HIDE DEF D, s
<1>6. \A k \in 1..N : \E q \in D : Cardinality(Below(D, R, q)) = k - 1
  BY <1>1, <1>4, RankIs
<1>7. \A k \in 1..N : s[k] \in D /\ Cardinality(Below(D, R, s[k])) = k - 1
  <2> SUFFICES ASSUME NEW k \in 1..N PROVE s[k] \in D /\ Cardinality(Below(D, R, s[k])) = k - 1
    OBVIOUS
  <2>1. \E q \in D : C!Cardinality(C!Leading(D, q)) = k - 1
    BY <1>3, <1>6, SameCardinality
  <2>2. s[k] = CHOOSE r \in D : C!Cardinality(C!Leading(D, r)) = k - 1
    BY <1>5
  <2>3. s[k] \in D /\ C!Cardinality(C!Leading(D, s[k])) = k - 1
    BY <2>1, <2>2
  <2>4. QED
    BY <1>3, <2>3, SameCardinality
<1>8. s = [k \in 1..N |-> s[k]]
  BY <1>5
<1>9. /\ s \in Seq(D) /\ Len(s) = N /\ N \in Nat
      /\ \A x \in D : \E k \in 1..Len(s) : s[k] = x
      /\ \A i, j \in 1..Len(s) : i < j => <<s[i], s[j]>> \in R
  BY <1>1, <1>4, <1>7, <1>8, InOrder
<1>10. DOMAIN s = 1..N
  BY <1>5
<1>11. C!Range(s) = D
  <2>1. C!Range(s) = {s[k] : k \in DOMAIN s}
    BY DEF C!Range
  <2>2. QED
    BY <1>7, <1>9, <1>10, <2>1
<1>12. C!TypeOK'
  BY <1>0, <1>11 DEF C!TypeOK, D
<1>13. CluParts' /\ CluNear'
  BY <1>0 DEF CluParts, CluNear, C!Similar, C!Before
<1>14. \A i, j \in DOMAIN s : i < j => C!Ahead(s[i], s[j])
  BY <1>2, <1>7, <1>9, <1>10
<1>15. CluOrder'
  <2>1. \A p, q : C!Ahead(p, q)' <=> C!Ahead(p, q)
    BY <1>0 DEF C!Ahead, C!Size, C!PostCount, C!Before
  <2>2. QED
    BY <1>0, <1>14, <2>1 DEF CluOrder
<1>16. QED
  BY <1>12, <1>13, <1>15 DEF CluInv

LEMMA NextClu == ASSUME CluInv, [C!Next]_(C!vars) PROVE CluInv'
<1>1. CASE UNCHANGED C!vars
  <2>1. UNCHANGED <<clu_score, clu_near, clu_vectors, clu_free, clu_members, clu_clusters>>
    BY <1>1 DEF C!vars, C!input
  <2>2. (C!TypeOK)' /\ CluParts'
    BY <2>1 DEF CluInv, C!TypeOK, CluParts
  <2>3. CluNear'
    BY <2>1 DEF CluInv, CluNear, C!Similar, C!Before
  <2>4. CluOrder'
    <3>1. \A p, q : C!Ahead(p, q)' <=> C!Ahead(p, q)
      BY <2>1 DEF C!Ahead, C!Size, C!PostCount, C!Before
    <3>2. QED
      BY <2>1, <3>1 DEF CluInv, CluOrder
  <2>5. QED
    BY <2>2, <2>3, <2>4 DEF CluInv
<1>2. CASE C!Next
  BY <1>2, OpenClu, FinishClu DEF C!Next
<1>3. QED
  BY <1>1, <1>2

LEMMA StepOfClu ==
  ASSUME [ContentNext]_<<turn, vars, others>> PROVE [C!Next]_(C!vars)
  BY DEF ContentNext, others, cluVars, C!vars, C!input

\* When all are assigned, the loop has found what its definition says.
LEMMA BestAnchors == ASSUME CluInv PROVE C!RepresentativesAnchor
<1> DEFINE D == DOMAIN clu_members
<1> SUFFICES ASSUME clu_clusters # << >>, NEW q \in Question
             PROVE  LET better == {r \in D : C!Before(r, q) /\ C!Similar(r, q)}
                    IN /\ \E r \in D : q \in clu_members[r]
                       /\ \A r, s \in D : q \in clu_members[r] \cap clu_members[s] => r = s
                       /\ C!Representative(q) = IF better = {} THEN q ELSE C!Best(better)
  BY DEF C!RepresentativesAnchor
<1> DEFINE better == {r \in D : C!Before(r, q) /\ C!Similar(r, q)}
<1>0. C!TypeOK /\ CluParts /\ CluNear /\ clu_free = {} /\ D \subseteq Question
  BY DEF CluInv, CluOrder, C!TypeOK
<1>1. PICK r \in D : q \in clu_members[r]
  BY <1>0 DEF CluParts
<1>2. \A s, t \in D : q \in clu_members[s] \cap clu_members[t] => s = t
  BY <1>0 DEF CluParts
<1>3. C!Representative(q) = r
  BY <1>1, <1>2 DEF C!Representative
<1>4. r = IF better = {} THEN q ELSE C!Best(better)
  <2>1. CASE q = r
    <3>1. better = {}
      BY <1>0, <1>1, <2>1 DEF CluNear
    <3>2. QED
      BY <2>1, <3>1
  <2>2. CASE q # r
    <3>1. r \in better
      BY <1>0, <1>1, <2>2 DEF CluNear
    <3>2. better \subseteq Question /\ better # {}
      BY <1>0, <3>1
    <3> DEFINE b == C!Best(better)
    <3>3. b \in better /\ \A p \in better \ {b} : C!Before(b, p)
      BY <1>0, <3>2, BestIs
    <3>4. ~C!Before(b, r)
      BY <1>0, <1>1, <3>3 DEF CluNear
    <3>5. b = r
      BY <3>1, <3>3, <3>4
    <3>6. QED
      BY <3>2, <3>5
  <2>3. QED
    BY <2>1, <2>2
<1>5. QED
  BY <1>1, <1>2, <1>3, <1>4

\* However the questions are alike: each belongs to the best representative it
\* is near, whichever was taken first, and the clusters come by their size
\* (_cluster_questions).
THEOREM Clustered == ContentSpec => []ClustersAreRight
<1>1. ContentInit => CluInv
  BY InitClu DEF ContentInit
<1>2. CluInv /\ [ContentNext]_<<turn, vars, others>> => CluInv'
  BY NextClu, StepOfClu
<1>3. CluInv => ClustersAreRight
  <2> SUFFICES ASSUME CluInv PROVE ClustersAreRight
    OBVIOUS
  <2>1. C!RepresentativesAnchor
    BY BestAnchors
  <2>2. C!FrequentFirst
    <3> SUFFICES ASSUME NEW i \in DOMAIN clu_clusters, NEW j \in DOMAIN clu_clusters, i < j
                 PROVE  C!Size(clu_clusters[i]) >= C!Size(clu_clusters[j])
      BY DEF C!FrequentFirst
    <3>1. C!TypeOK /\ clu_clusters # << >>
      BY DEF CluInv
    <3>2. clu_clusters[i] \in DOMAIN clu_members /\ clu_clusters[j] \in DOMAIN clu_members
      BY <3>1 DEF C!TypeOK, C!Range
    <3>3. C!Ahead(clu_clusters[i], clu_clusters[j])
      BY <3>1 DEF CluInv, CluOrder
    <3>4. C!Size(clu_clusters[i]) \in Nat /\ C!Size(clu_clusters[j]) \in Nat
      BY <3>1, <3>2, AheadOrders
    <3>5. QED
      BY <3>3, <3>4 DEF C!Ahead
  <2>3. QED
    BY <2>1, <2>2 DEF ClustersAreRight, C!ClustersAreRight
<1>4. QED
  BY <1>1, <1>2, <1>3, PTL DEF ContentSpec

-----------------------------------------------------------------------------
(* Attribution, for any extractions.                                       *)

ValidPlaces(x) == {n \in DOMAIN x.interviews : A!Valid(x, x.interviews[n])}

\* What the tables hold when the extraction x is normalised.
AttOf(x) ==
  /\ att_mode # "none"
  /\ att_one = <<A!The(x.companies), A!The(x.positions)>>
  /\ \A e \in att_owner :
       /\ e[2] \in ValidPlaces(x) /\ e[1] \in A!Refs(x, x.interviews[e[2]])
       /\ att_interviews[e[2]] = <<x.interviews[e[2]].company, x.interviews[e[2]].position>>
  /\ att_owner # {} => att_mode = "explicit"

AttInv ==
  /\ A!TypeOK
  /\ att_extracted = None => att_mode = "none" /\ att_owner = {} /\ att_done
  /\ att_extracted # None /\ att_done => AttOf(att_extracted)

LEMMA CardinalityIs == \A S : A!Cardinality(S) = Cardinality(S)
  BY DEF A!Cardinality, Cardinality

\* What the assumption says of an extraction.
LEMMA ExtractionIs ==
  ASSUME NEW x \in Extraction
  PROVE  /\ x # None /\ IsFiniteSet(x.companies) /\ IsFiniteSet(x.positions)
         /\ x.companies \subseteq Company /\ x.positions \subseteq Position
         /\ IsFiniteSet(DOMAIN x.interviews) /\ DOMAIN x.interviews \subseteq Nat
         /\ \A n \in DOMAIN x.interviews : x.interviews[n] \in Interview
<1>1. x # None /\ x.companies \subseteq Company /\ x.positions \subseteq Position /\ x.interviews \in Seq(Interview)
  BY AttributionAssumption
<1>2. IsFiniteSet(x.companies) /\ IsFiniteSet(x.positions)
  BY <1>1, FS_Subset, AttributionAssumption
<1>3. PICK n \in Nat : DOMAIN x.interviews = 1..n
  <2>1. Len(x.interviews) \in Nat /\ DOMAIN x.interviews = 1..Len(x.interviews)
    BY <1>1
  <2>2. QED
    BY <2>1
<1>4. \A k \in DOMAIN x.interviews : x.interviews[k] \in Interview
  <2> DEFINE T == Interview
  <2> HIDE DEF T
  <2>1. ASSUME NEW s \in Seq(T), NEW k \in DOMAIN s PROVE s[k] \in T
    OBVIOUS
  <2>2. QED
    BY <1>1, <2>1 DEF T
<1>5. IsFiniteSet(1..n)
  BY FS_Interval
<1>6. QED
  BY <1>1, <1>2, <1>3, <1>4, <1>5

\* The only member of a set.
LEMMA TheIs ==
  ASSUME NEW S, IsFiniteSet(S), None \notin S
  PROVE  IF A!The(S) = None THEN Cardinality(S) # 1 ELSE S = {A!The(S)}
<1>1. CASE Cardinality(S) = 1
  <2>1. PICK e : S = {e}
    BY <1>1, FS_Singleton
  <2>2. A!The(S) = CHOOSE u \in S : TRUE
    BY <1>1, CardinalityIs DEF A!The
  <2>3. A!The(S) = e
    BY <2>1, <2>2
  <2>4. QED
    BY <2>1, <2>3
<1>2. CASE Cardinality(S) # 1
  BY <1>2, CardinalityIs DEF A!The
<1>3. QED
  BY <1>1, <1>2

LEMMA InitAtt == A!Init => AttInv
<1> SUFFICES ASSUME A!Init PROVE AttInv
  OBVIOUS
<1>1. DOMAIN att_interviews = {} /\ att_owner = {} /\ att_one = <<None, None>>
  BY DEF A!Init
<1>2. A!TypeOK
  BY <1>1, AttributionAssumption DEF A!Init, A!TypeOK
<1>3. QED
  BY <1>1, <1>2 DEF AttInv, A!Init

LEMMA ExtractAtt == ASSUME AttInv, NEW x \in Extraction, A!Extract(x) PROVE AttInv'
<1>0. A!TypeOK /\ x # None
  BY ExtractionIs DEF AttInv
<1>1. /\ att_extracted' = x /\ att_owner' \subseteq att_owner /\ att_done' = FALSE
      /\ att_rows' = UNION {i.questions : i \in A!Range(x.interviews)}
      /\ UNCHANGED <<att_mode, att_one, att_interviews, att_links>>
  BY DEF A!Extract
<1>2. att_runs' \in 0..MaxRuns
  BY <1>0, AttributionAssumption DEF A!Extract, A!TypeOK
<1>3. att_rows' \subseteq PostQuestion
  <2> SUFFICES ASSUME NEW i \in A!Range(x.interviews) PROVE i.questions \subseteq PostQuestion
    BY <1>1
  <2>1. PICK n \in DOMAIN x.interviews : i = x.interviews[n]
    BY DEF A!Range
  <2>2. i \in Interview
    BY <2>1, ExtractionIs
  <2>3. QED
    BY <2>2 DEF Interview
<1>4. A!TypeOK'
  BY <1>0, <1>1, <1>2, <1>3 DEF A!TypeOK
<1>5. QED
  BY <1>0, <1>1, <1>4 DEF AttInv

LEMMA NormalizeAtt == ASSUME AttInv, A!Normalize PROVE AttInv'
<1> DEFINE x == att_extracted
           V == ValidPlaces(x)
<1>0. A!TypeOK /\ x \in Extraction /\ att_done = FALSE
  BY DEF AttInv, A!TypeOK, A!Normalize
<1>1. /\ att_done' = TRUE /\ att_mode' = A!Mode(x, V) /\ att_one' = <<A!The(x.companies), A!The(x.positions)>>
      /\ att_interviews' = [n \in V |-> <<x.interviews[n].company, x.interviews[n].position>>]
      /\ att_owner' = {e \in att_rows \X V : e[1] \in A!Refs(x, x.interviews[e[2]])}
      /\ att_links' = A!Links(x, V)
      /\ UNCHANGED <<att_extracted, att_rows, att_runs>>
  BY DEF A!Normalize, A!Kept, ValidPlaces
<1>2. /\ V \subseteq DOMAIN x.interviews /\ V \subseteq Nat
      /\ \A n \in V : x.interviews[n] \in Interview /\ A!Valid(x, x.interviews[n])
  BY <1>0, ExtractionIs DEF ValidPlaces
<1> HIDE DEF V
<1>3. att_mode' \in {"explicit", "legacy_single", "ambiguous"} /\ (V # {} => att_mode' = "explicit")
  BY <1>1 DEF A!Mode
<1>4. att_one' \in (Company \cup {None}) \X (Position \cup {None})
  <2>1. IsFiniteSet(x.companies) /\ IsFiniteSet(x.positions) /\ None \notin x.companies /\ None \notin x.positions
        /\ x.companies \subseteq Company /\ x.positions \subseteq Position
    BY <1>0, ExtractionIs, AttributionAssumption
  <2>2. A!The(x.companies) \in Company \cup {None} /\ A!The(x.positions) \in Position \cup {None}
    BY <2>1, TheIs
  <2>3. QED
    BY <1>1, <2>2
<1>5. att_owner' \subseteq PostQuestion \X V
  BY <1>0, <1>1 DEF A!TypeOK
<1>6. DOMAIN att_interviews' = V
  BY <1>1
<1>7. att_links' \subseteq Company \X Position
  <2>1. A!Pairs(x, V) \subseteq Company \X Position
    <3> SUFFICES ASSUME NEW n \in V, x.interviews[n].company # None, x.interviews[n].position # None
                 PROVE  <<x.interviews[n].company, x.interviews[n].position>> \in Company \X Position
      BY DEF A!Pairs
    <3>1. x.interviews[n] \in Interview
      BY <1>2
    <3>2. QED
      BY <3>1 DEF Interview
  <2>2. x.companies \X x.positions \subseteq Company \X Position
    BY <1>0, ExtractionIs
  <2>3. att_links \subseteq Company \X Position
    BY <1>0 DEF A!TypeOK
  <2>4. A!Mode(x, V) \in {"explicit", "legacy_single", "ambiguous"}
    BY <1>1, <1>3
  <2>5. QED
    BY <1>1, <2>1, <2>2, <2>3, <2>4 DEF A!Links
<1>8. A!TypeOK'
  BY <1>0, <1>1, <1>2, <1>3, <1>4, <1>5, <1>6, <1>7 DEF A!TypeOK
<1>9. AttOf(x)'
  <2>1. ASSUME NEW e \in att_owner'
        PROVE  /\ e[2] \in V /\ e[1] \in A!Refs(x, x.interviews[e[2]])
               /\ att_interviews'[e[2]] = <<x.interviews[e[2]].company, x.interviews[e[2]].position>>
    BY <1>1, <2>1
  <2>2. att_owner' # {} => V # {}
    BY <2>1
  <2>3. att_extracted' = att_extracted
    BY <1>1
  <2>4. \A e : (e[1] \in A!Refs(x, x.interviews[e[2]]))' <=> e[1] \in A!Refs(x', x'.interviews[e[2]])
    BY DEF A!Refs, A!Claims
  <2>5. QED
    BY <1>1, <1>3, <2>1, <2>2, <2>3 DEF AttOf, V
<1>10. QED
  BY <1>0, <1>1, <1>8, <1>9, ExtractionIs DEF AttInv

LEMMA NextAtt == ASSUME AttInv, [A!Next]_(A!vars) PROVE AttInv'
<1>1. CASE UNCHANGED A!vars
  BY <1>1 DEF A!vars, A!tables, AttInv, A!TypeOK, AttOf
<1>2. CASE A!Next
  BY <1>2, ExtractAtt, NormalizeAtt DEF A!Next
<1>3. QED
  BY <1>1, <1>2

LEMMA StepOfAtt ==
  ASSUME [ContentNext]_<<turn, vars, others>> PROVE [A!Next]_(A!vars)
  BY DEF ContentNext, others, attVars, A!vars, A!tables

\* An interview that owns a question is the only one to claim it.
LEMMA OwnerClaims ==
  ASSUME NEW x \in Extraction, NEW n \in ValidPlaces(x), NEW q, q \in A!Refs(x, x.interviews[n])
  PROVE  /\ n \in DOMAIN x.interviews /\ q \in x.interviews[n].questions /\ x.interviews[n].quoted
         /\ A!Cardinality(A!Claims(x, q)) = 1
         /\ \A m \in DOMAIN x.interviews : q \in x.interviews[m].questions => m = n
<1>1. n \in DOMAIN x.interviews /\ q \in x.interviews[n].questions /\ x.interviews[n].quoted
  BY DEF ValidPlaces, A!Valid, A!Refs
<1>2. A!Cardinality(A!Claims(x, q)) = 1
  BY DEF A!Refs
<1>3. IsFiniteSet(A!Claims(x, q))
  <2>1. A!Claims(x, q) \subseteq DOMAIN x.interviews
    BY DEF A!Claims
  <2>2. QED
    BY <2>1, ExtractionIs, FS_Subset
<1>4. PICK m : A!Claims(x, q) = {m}
  BY <1>2, <1>3, CardinalityIs, FS_Singleton
<1>5. \A k \in DOMAIN x.interviews : q \in x.interviews[k].questions => k \in A!Claims(x, q)
  BY DEF A!Claims
<1>6. QED
  BY <1>1, <1>2, <1>4, <1>5

LEMMA NoneCrossed == ASSUME AttInv PROVE A!NoCrossProduct
<1> DEFINE x == att_extracted
<1> SUFFICES ASSUME att_done, x # None, NEW q \in att_rows, NEW c \in Company, NEW p \in Position, A!Scope(q, c, p)
             PROVE  A!Stated(q, c, p)
  BY DEF A!NoCrossProduct
<1>0. x \in Extraction /\ AttOf(x) /\ c # None /\ p # None
  BY AttributionAssumption DEF AttInv, A!TypeOK
<1>1. CASE \E e \in att_owner : e[1] = q /\ A!Fits(att_interviews[e[2]], c, p)
  <2>1. PICK e \in att_owner : e[1] = q /\ A!Fits(att_interviews[e[2]], c, p)
    BY <1>1
  <2> DEFINE n == e[2]
  <2>2. /\ n \in ValidPlaces(x) /\ q \in A!Refs(x, x.interviews[n])
        /\ att_interviews[n] = <<x.interviews[n].company, x.interviews[n].position>>
    BY <1>0, <2>1 DEF AttOf
  <2>3. x.interviews[n].company = c /\ x.interviews[n].position = p
    BY <1>0, <2>1, <2>2 DEF A!Fits
  <2> HIDE DEF n, x
  <2>4. /\ n \in DOMAIN x.interviews /\ q \in x.interviews[n].questions /\ x.interviews[n].quoted
        /\ A!Cardinality(A!Claims(x, q)) = 1
    BY <1>0, <2>2, OwnerClaims
  <2>5. x.interviews[n] \in A!Range(x.interviews)
    BY <2>4 DEF A!Range
  <2>6. QED
    BY <2>3, <2>4, <2>5 DEF A!Stated, x
<1>2. CASE A!Fits(att_one, c, p)
  <2>1. A!The(x.companies) = c /\ A!The(x.positions) = p
    BY <1>0, <1>2 DEF A!Fits, AttOf
  <2>2. IsFiniteSet(x.companies) /\ IsFiniteSet(x.positions) /\ None \notin x.companies /\ None \notin x.positions
    BY <1>0, ExtractionIs, AttributionAssumption
  <2> HIDE DEF x
  <2>3. x.companies = {c} /\ x.positions = {p}
    BY <1>0, <2>1, <2>2, TheIs
  <2>4. QED
    BY <2>3 DEF A!Stated, x
<1>3. QED
  BY <1>0, <1>1, <1>2 DEF A!Scope, AttOf

LEMMA CompanyIsOne == ASSUME AttInv PROVE A!OneCompany
<1> SUFFICES ASSUME att_done, NEW q \in att_rows, NEW c \in Company, NEW d \in Company,
                    A!Scope(q, c, None), A!Scope(q, d, None)
             PROVE  c = d
  BY DEF A!OneCompany
<1>0. A!TypeOK /\ c # None /\ d # None
  BY AttributionAssumption DEF AttInv
<1>1. CASE att_extracted = None
  <2>1. att_mode = "none" /\ att_owner = {}
    BY <1>1 DEF AttInv
  <2>2. A!Cardinality(A!Firsts(att_links)) = 1 /\ c \in A!Firsts(att_links) /\ d \in A!Firsts(att_links)
    BY <1>0, <2>1 DEF A!Scope, A!Fits, A!Firsts
  <2>3. IsFiniteSet(A!Firsts(att_links))
    <3>1. A!Firsts(att_links) \subseteq Company
      BY <1>0 DEF A!TypeOK, A!Firsts
    <3>2. QED
      BY <3>1, FS_Subset, AttributionAssumption
  <2>4. QED
    BY <2>2, <2>3, CardinalityIs, FS_Singleton
<1>2. CASE att_extracted # None
  <2> DEFINE x == att_extracted
  <2>1. x \in Extraction /\ AttOf(x)
    BY <1>0, <1>2 DEF AttInv, A!TypeOK
  <2>2. CASE att_mode = "explicit"
    <3>1. PICK e \in att_owner : e[1] = q /\ A!Fits(att_interviews[e[2]], c, None)
      BY <2>2 DEF A!Scope
    <3>2. PICK f \in att_owner : f[1] = q /\ A!Fits(att_interviews[f[2]], d, None)
      BY <2>2 DEF A!Scope
    <3> DEFINE n == e[2]
               m == f[2]
    <3>3. /\ n \in ValidPlaces(x) /\ q \in A!Refs(x, x.interviews[n])
          /\ m \in ValidPlaces(x) /\ q \in A!Refs(x, x.interviews[m])
      BY <2>1, <3>1, <3>2 DEF AttOf
    <3> HIDE DEF x
    <3>4. m \in DOMAIN x.interviews /\ q \in x.interviews[m].questions
      BY <2>1, <3>3, OwnerClaims
    <3>5. m = n
      BY <2>1, <3>3, <3>4, OwnerClaims
    <3>6. c = att_interviews[n][1] /\ d = att_interviews[n][1]
      BY <1>0, <3>1, <3>2, <3>5 DEF A!Fits
    <3>7. QED
      BY <3>6
  <2>3. CASE att_mode # "explicit"
    <3>1. att_owner = {} /\ att_mode # "none"
      BY <2>1, <2>3 DEF AttOf
    <3>2. A!Fits(att_one, c, None) /\ A!Fits(att_one, d, None)
      BY <3>1 DEF A!Scope
    <3>3. QED
      BY <1>0, <3>2 DEF A!Fits
  <2>4. QED
    BY <2>2, <2>3
<1>3. QED
  BY <1>1, <1>2

\* Whatever an extraction lists and whatever the ones before have left: a
\* question is found under a company and a position only if its own interview, or
\* a post that names no other, states them, and under one company only
\* (save_attribution, question_scope_sql).
THEOREM Attributed == ContentSpec => []QuestionsKeepTheirInterview
<1>1. ContentInit => AttInv
  BY InitAtt DEF ContentInit
<1>2. AttInv /\ [ContentNext]_<<turn, vars, others>> => AttInv'
  BY NextAtt, StepOfAtt
<1>3. AttInv => QuestionsKeepTheirInterview
  BY NoneCrossed, CompanyIsOne DEF QuestionsKeepTheirInterview, A!QuestionsKeepTheirInterview
<1>4. QED
  BY <1>1, <1>2, <1>3, PTL DEF ContentSpec

-----------------------------------------------------------------------------
(* Profiles, for any texts, labels and editors.                            *)

\* Who has the generation lock is the only editor that checks or saves; and
\* nothing has changed since its check.
ProLock ==
  /\ pro_seen \in [Editor -> (Text \cup {None}) \X (P!Row \cup {None})]
  /\ \A e \in Editor : pro_pc[e] \in {"check", "save"} => pro_lock = e
  /\ \A e \in Editor : pro_pc[e] = "save" => P!Current(e)

ProInv == P!TypeOK /\ ProLock /\ P!StaleIsMarked

-----------------------------------------------------------------------------
(* What a write leaves in the row.                                         *)

LEMMA NewRow ==
  ASSUME NEW origin \in P!Origin, NEW l \in Label, NEW reviewed \in BOOLEAN, NEW of \in Text
  PROVE  /\ P!New(origin, l, reviewed, of) \in P!Row
         /\ P!New(origin, l, reviewed, of).origin = origin
         /\ P!New(origin, l, reviewed, of).reviewed = reviewed
         /\ P!New(origin, l, reviewed, of).changed = FALSE
         /\ P!New(origin, l, reviewed, of).hash = of
BY DEF P!New, P!Row

\* An extraction keeps a review, and marks it if it is of another text.
LEMMA ExtractionWrites ==
  ASSUME P!TypeOK, NEW l \in Label \cup {None}, NEW of \in Text
  PROVE  /\ P!Extracted(l, of) \in P!Row \cup {None}
         /\ P!Reviewed =>
              /\ P!Extracted(l, of) \in {pro_profiles, [pro_profiles EXCEPT !.changed = TRUE]}
              /\ P!Extracted(l, of) # None /\ P!Extracted(l, of).reviewed = TRUE
              /\ P!Extracted(l, of).origin = pro_profiles.origin
              /\ P!Extracted(l, of).hash = pro_profiles.hash
              /\ pro_profiles.hash # of => P!Extracted(l, of).changed = TRUE
         /\ ~P!Reviewed /\ P!Extracted(l, of) # None =>
              /\ P!Extracted(l, of).reviewed = FALSE /\ P!Extracted(l, of).changed = FALSE
              /\ P!Extracted(l, of).origin = "extractor"
<1>1. CASE P!Reviewed
  <2>1. pro_profiles \in P!Row /\ pro_profiles.reviewed = TRUE
    BY <1>1 DEF P!Reviewed, P!TypeOK, P!Row
  <2>2. P!Extracted(l, of) = IF pro_profiles.hash = of THEN pro_profiles ELSE [pro_profiles EXCEPT !.changed = TRUE]
    BY <1>1 DEF P!Extracted, P!Marked
  <2>3. /\ [pro_profiles EXCEPT !.changed = TRUE] \in P!Row
        /\ [pro_profiles EXCEPT !.changed = TRUE].reviewed = TRUE
        /\ [pro_profiles EXCEPT !.changed = TRUE].origin = pro_profiles.origin
        /\ [pro_profiles EXCEPT !.changed = TRUE].hash = pro_profiles.hash
        /\ [pro_profiles EXCEPT !.changed = TRUE].changed = TRUE
    BY <2>1 DEF P!Row
  <2>4. QED
    BY <1>1, <2>1, <2>2, <2>3, ProfilesAssumption
<1>2. CASE ~P!Reviewed
  <2>1. P!Extracted(l, of) = IF l = None THEN None ELSE P!New("extractor", l, FALSE, of)
    BY <1>2 DEF P!Extracted
  <2>2. CASE l = None
    BY <1>2, <2>1, <2>2
  <2>3. CASE l # None
    <3>1. l \in Label /\ "extractor" \in P!Origin /\ FALSE \in BOOLEAN
      BY <2>3 DEF P!Origin
    <3>2. /\ P!Extracted(l, of) \in P!Row /\ P!Extracted(l, of).reviewed = FALSE
          /\ P!Extracted(l, of).changed = FALSE /\ P!Extracted(l, of).origin = "extractor"
      BY <2>1, <2>3, <3>1 DEF P!New, P!Row
    <3>3. QED
      BY <1>2, <3>2
  <2>4. QED
    BY <2>2, <2>3
<1>3. QED
  BY <1>1, <1>2

\* A preview replaces no review and no extraction.
LEMMA PreviewWrites ==
  ASSUME P!TypeOK, NEW b \in BOOLEAN, P!Replaceable(b), pro_profiles # None
  PROVE  ~P!Reviewed /\ pro_profiles.origin = "historical_preview"
BY DEF P!TypeOK, P!Replaceable, P!NeedsReview, P!Reviewed, P!Row

-----------------------------------------------------------------------------
(* The invariant.                                                          *)

LEMMA InitPro == P!Init => ProInv
BY ProfilesAssumption DEF P!Init, ProInv, P!TypeOK, ProLock, P!StaleIsMarked, P!Reviewed

\* What the invariant says of the row when it is written.
RowOK(p, c) ==
  /\ p \in P!Row \cup {None}
  /\ p # None => /\ p.changed => p.reviewed
                 /\ p.origin = "historical_preview" => ~p.reviewed
                 /\ p.reviewed /\ c # None /\ p.hash # c => p.changed

LEMMA RowOKNow == ASSUME ProInv PROVE RowOK(pro_profiles, pro_compared)
BY DEF ProInv, P!TypeOK, P!StaleIsMarked, P!Reviewed, RowOK

\* A writer that respects the lock, and leaves a sound row.
LEMMA Writes ==
  ASSUME ProInv, pro_lock = None, RowOK(pro_profiles', pro_compared'),
         UNCHANGED P!people, pro_text' \in Text, pro_writes' \in 0..MaxWrites,
         pro_exported' \in Text \cup {None}, pro_preview' \in Text \cup {None},
         pro_reading' \in Text \cup {None}, pro_compared' \in Text \cup {None}
  PROVE  ProInv'
<1>1. \A e \in Editor : pro_pc[e] \notin {"check", "save"}
  BY ProfilesAssumption DEF ProInv, ProLock
<1>2. pro_lock' = pro_lock /\ pro_pc' = pro_pc /\ pro_seen' = pro_seen
  BY DEF P!people
<1>3. P!TypeOK'
  BY <1>2 DEF ProInv, P!TypeOK, RowOK
<1>4. ProLock'
  BY <1>1, <1>2 DEF ProInv, ProLock
<1>5. P!StaleIsMarked'
  BY DEF RowOK, P!StaleIsMarked, P!Reviewed
<1>6. QED
  BY <1>3, <1>4, <1>5 DEF ProInv

LEMMA SaveExtractionKeeps ==
  ASSUME ProInv, NEW l \in Label \cup {None}, P!SaveExtraction(l) PROVE ProInv'
<1>1. /\ pro_reading \in Text /\ pro_lock = None /\ pro_profiles' = P!Extracted(l, pro_reading)
      /\ pro_compared' = IF P!Reviewed THEN pro_reading ELSE None
      /\ pro_reading' = None /\ pro_writes < MaxWrites /\ pro_writes' = pro_writes + 1
      /\ UNCHANGED P!people /\ UNCHANGED <<pro_text, pro_exported, pro_preview>>
  BY DEF P!SaveExtraction, P!Written, P!Free, ProInv, P!TypeOK
<1>2. RowOK(pro_profiles', pro_compared')
  <2>1. P!TypeOK /\ pro_profiles' \in P!Row \cup {None}
    BY <1>1, ExtractionWrites DEF ProInv
  <2>2. CASE P!Reviewed
    <3>1. /\ pro_profiles'.reviewed = TRUE /\ pro_profiles'.hash = pro_profiles.hash
          /\ pro_profiles'.origin = pro_profiles.origin
          /\ pro_profiles.hash # pro_reading => pro_profiles'.changed = TRUE
      BY <1>1, <2>1, <2>2, ExtractionWrites
    <3>2. pro_profiles.origin # "historical_preview"
      BY <2>1, <2>2 DEF P!TypeOK, P!Reviewed
    <3>3. QED
      BY <1>1, <2>1, <2>2, <3>1, <3>2 DEF RowOK
  <2>3. CASE ~P!Reviewed
    <3>1. pro_profiles' # None => /\ pro_profiles'.reviewed = FALSE /\ pro_profiles'.changed = FALSE
                              /\ pro_profiles'.origin = "extractor"
      BY <1>1, <2>1, <2>3, ExtractionWrites
    <3>2. QED
      BY <2>1, <3>1 DEF RowOK
  <2>4. QED
    BY <2>2, <2>3
<1>3. QED
  BY <1>1, <1>2, Writes, ProfilesAssumption DEF ProInv, P!TypeOK

LEMMA StorePreviewKeeps ==
  ASSUME ProInv, NEW l \in Label, NEW b \in BOOLEAN, P!StorePreview(l, b)
  PROVE  ProInv'
<1>1. /\ pro_preview \in Text /\ pro_lock = None
      /\ pro_profiles' = IF P!Replaceable(b) THEN P!New("historical_preview", l, FALSE, pro_preview) ELSE pro_profiles
      /\ pro_preview' = None /\ pro_writes < MaxWrites /\ pro_writes' = pro_writes + 1
      /\ UNCHANGED P!people /\ UNCHANGED <<pro_text, pro_exported, pro_reading, pro_compared>>
  BY DEF P!StorePreview, P!Written, P!Free, ProInv, P!TypeOK
<1>2. RowOK(pro_profiles', pro_compared')
  <2>1. "historical_preview" \in P!Origin /\ FALSE \in BOOLEAN
    BY DEF P!Origin
  <2>2. CASE P!Replaceable(b)
    BY <1>1, <2>1, <2>2, NewRow DEF RowOK
  <2>3. CASE ~P!Replaceable(b)
    BY <1>1, <2>3, RowOKNow
  <2>4. QED
    BY <2>2, <2>3
<1>3. /\ pro_text' \in Text /\ pro_writes' \in 0..MaxWrites /\ pro_exported' \in Text \cup {None}
      /\ pro_preview' \in Text \cup {None} /\ pro_reading' \in Text \cup {None}
      /\ pro_compared' \in Text \cup {None}
  BY <1>1, ProfilesAssumption DEF ProInv, P!TypeOK
<1>4. QED
  BY <1>1, <1>2, <1>3, Writes

LEMMA ImportKeeps ==
  ASSUME ProInv, NEW l \in Label, P!Import(l) PROVE ProInv'
<1>1. /\ pro_exported \in Text /\ pro_lock = None /\ pro_profiles' = P!New("extractor", l, TRUE, pro_exported)
      /\ pro_compared' = None /\ pro_writes < MaxWrites /\ pro_writes' = pro_writes + 1
      /\ UNCHANGED P!people /\ UNCHANGED <<pro_text, pro_exported, pro_preview, pro_reading>>
  BY DEF P!Import, P!Imports, P!Written, P!Free, ProInv, P!TypeOK
<1>2. "extractor" \in P!Origin /\ TRUE \in BOOLEAN /\ "extractor" # "historical_preview"
  BY DEF P!Origin
<1>3. RowOK(pro_profiles', pro_compared')
  BY <1>1, <1>2, NewRow DEF RowOK
<1>4. /\ pro_text' \in Text /\ pro_writes' \in 0..MaxWrites /\ pro_exported' \in Text \cup {None}
      /\ pro_preview' \in Text \cup {None} /\ pro_reading' \in Text \cup {None}
      /\ pro_compared' \in Text \cup {None}
  BY <1>1, ProfilesAssumption DEF ProInv, P!TypeOK
<1>5. QED
  BY <1>1, <1>3, <1>4, Writes

LEMMA SaveKeeps ==
  ASSUME ProInv, NEW e \in Editor, NEW l \in Label, P!Save(e, l) PROVE ProInv'
<1>1. /\ pro_pc[e] = "save" /\ pro_lock = e /\ pro_text \in Text /\ pro_profiles' = P!New("extractor", l, TRUE, pro_text)
      /\ pro_compared' = None /\ pro_writes < MaxWrites /\ pro_writes' = pro_writes + 1
      /\ pro_lock' = None /\ pro_pc' = [pro_pc EXCEPT ![e] = "closed"]
      /\ UNCHANGED <<pro_text, pro_seen, pro_exported, pro_preview, pro_reading>>
  BY DEF P!Save, P!Goto, ProInv, P!TypeOK, ProLock
<1>2. "extractor" \in P!Origin /\ TRUE \in BOOLEAN /\ "extractor" # "historical_preview"
  BY DEF P!Origin
<1>3. RowOK(pro_profiles', pro_compared')
  BY <1>1, <1>2, NewRow DEF RowOK
<1>4. P!TypeOK'
  <2>1. pro_pc' \in [Editor -> {"closed", "open", "check", "save"}]
    BY <1>1 DEF ProInv, P!TypeOK
  <2>2. \A d \in Editor : pro_pc'[d] # "closed" => pro_seen'[d][1] \in Text /\ pro_seen'[d][2] \in P!Row \cup {None}
    BY <1>1 DEF ProInv, P!TypeOK
  <2>3. pro_writes' \in 0..MaxWrites /\ pro_lock' \in Editor \cup {None} /\ pro_compared' \in Text \cup {None}
    BY <1>1, ProfilesAssumption DEF ProInv, P!TypeOK
  <2>4. QED
    BY <1>1, <1>3, <2>1, <2>2, <2>3 DEF ProInv, P!TypeOK, RowOK
<1>5. \A d \in Editor : pro_pc'[d] \notin {"check", "save"}
  BY <1>1 DEF ProInv, P!TypeOK, ProLock
<1>6. ProLock'
  BY <1>1, <1>5 DEF ProInv, ProLock
<1>7. P!StaleIsMarked'
  BY <1>3 DEF RowOK, P!StaleIsMarked, P!Reviewed
<1>8. QED
  BY <1>4, <1>6, <1>7 DEF ProInv

LEMMA NextPro == ASSUME ProInv, [P!Next]_(P!vars) PROVE ProInv'
<1> USE ProfilesAssumption
<1>1. ASSUME NEW t \in Text, P!Crawl(t) PROVE ProInv'
  BY <1>1, RowOKNow, Writes DEF P!Crawl, P!Written, P!Free, ProInv, P!TypeOK
<1>2. ASSUME P!ReadText \/ P!DropExtraction \/ P!ReadPreview \/ P!EndPreview PROVE ProInv'
  <2>1. /\ UNCHANGED <<pro_text, pro_profiles, pro_lock, pro_pc, pro_seen, pro_compared, pro_writes>>
        /\ pro_reading' \in Text \cup {None} /\ pro_preview' \in Text \cup {None}
        /\ pro_exported' \in Text \cup {None}
    BY <1>2 DEF P!ReadText, P!DropExtraction, P!ReadPreview, P!EndPreview, P!people, ProInv, P!TypeOK
  <2>2. QED
    BY <2>1 DEF ProInv, P!TypeOK, ProLock, P!Current, P!StaleIsMarked, P!Reviewed
<1>3. ASSUME NEW l \in Label \cup {None}, P!SaveExtraction(l) PROVE ProInv'
  BY <1>3, SaveExtractionKeeps
<1>4. ASSUME NEW l \in Label, NEW b \in BOOLEAN, P!Import(l) \/ P!StorePreview(l, b) PROVE ProInv'
  BY <1>4, ImportKeeps, StorePreviewKeeps
<1>5. ASSUME NEW e \in Editor, P!Load(e) PROVE ProInv'
  <2>1. /\ pro_pc[e] \notin {"check", "save"} /\ pro_pc' = [pro_pc EXCEPT ![e] = "open"]
        /\ pro_seen' = [pro_seen EXCEPT ![e] = <<pro_text, pro_profiles>>]
        /\ UNCHANGED <<pro_text, pro_profiles, pro_lock, pro_exported, pro_preview, pro_reading, pro_compared, pro_writes>>
    BY <1>5 DEF P!Load, P!Goto
  <2>2. pro_seen' \in [Editor -> (Text \cup {None}) \X (P!Row \cup {None})]
    BY <2>1 DEF ProInv, P!TypeOK, ProLock
  <2>3. P!TypeOK'
    BY <2>1 DEF ProInv, P!TypeOK, ProLock
  <2>4. \A d \in Editor : pro_pc'[d] \in {"check", "save"} => d # e /\ pro_pc'[d] = pro_pc[d] /\ pro_seen'[d] = pro_seen[d]
    BY <2>1 DEF ProInv, P!TypeOK, ProLock
  <2>5. ProLock'
    BY <2>1, <2>2, <2>4 DEF ProInv, ProLock, P!Current
  <2>6. QED
    BY <2>1, <2>3, <2>5 DEF ProInv, P!StaleIsMarked, P!Reviewed
<1>6. ASSUME NEW e \in Editor, P!Lock(e) PROVE ProInv'
  BY <1>6 DEF P!Lock, P!Goto, P!Free, ProInv, P!TypeOK, ProLock, P!Current, P!StaleIsMarked, P!Reviewed
<1>7. ASSUME NEW e \in Editor, P!Accept(e) PROVE ProInv'
  BY <1>7 DEF P!Accept, P!Goto, ProInv, P!TypeOK, ProLock, P!Current, P!StaleIsMarked, P!Reviewed
<1>8. ASSUME NEW e \in Editor, P!Conflict(e) \/ P!Drop(e) PROVE ProInv'
  BY <1>8 DEF P!Conflict, P!Drop, P!Goto, ProInv, P!TypeOK, ProLock, P!Current, P!StaleIsMarked, P!Reviewed
<1>9. ASSUME NEW e \in Editor, NEW l \in Label, P!Save(e, l) PROVE ProInv'
  BY <1>9, SaveKeeps
<1>10. CASE UNCHANGED P!vars
  BY <1>10 DEF P!vars, P!people, ProInv, P!TypeOK, ProLock, P!Current, P!StaleIsMarked, P!Reviewed
<1>11. QED
  BY <1>1, <1>2, <1>3, <1>4, <1>5, <1>6, <1>7, <1>8, <1>9, <1>10 DEF P!Next

-----------------------------------------------------------------------------
(* What each step may do to the row.                                       *)

\* Only four steps write it.
LEMMA Writers ==
  ASSUME [P!Next]_(P!vars), pro_profiles' # pro_profiles
  PROVE  \/ \E l \in Label \cup {None} : P!SaveExtraction(l)
         \/ \E l \in Label : P!Import(l) \/ \E b \in BOOLEAN : P!StorePreview(l, b)
         \/ \E e \in Editor, l \in Label : P!Save(e, l)
BY DEF P!Next, P!vars, P!Crawl, P!ReadText, P!DropExtraction, P!ReadPreview, P!EndPreview, P!Load, P!Lock, P!Accept,
       P!Conflict, P!Drop

LEMMA CorrectionStep ==
  ASSUME ProInv, [P!Next]_(P!vars), NEW e \in Editor, pro_lock = e, pro_profiles' # pro_profiles
  PROVE  pro_seen[e] = <<pro_text, pro_profiles>>
<1>1. pro_lock # None
  BY ProfilesAssumption
<1>2. PICK d \in Editor, l \in Label : P!Save(d, l)
  BY <1>1, Writers DEF P!SaveExtraction, P!Import, P!StorePreview, P!Written, P!Free
<1>3. pro_pc[d] = "save" /\ pro_lock = d
  BY <1>2 DEF P!Save, ProInv, ProLock
<1>4. QED
  BY <1>3 DEF ProInv, ProLock, P!Current

AuthorityStep ==
  /\ P!Reviewed => \/ P!PersonWrites
                 \/ pro_profiles' \in {pro_profiles, [pro_profiles EXCEPT !.changed = TRUE]}
  /\ pro_profiles # None /\ pro_profiles.origin = "extractor" =>
       \/ pro_profiles' = None
       \/ pro_profiles'.origin = "extractor"

TextStep == ~P!Reviewed /\ pro_profiles' # None /\ pro_profiles'.reviewed => pro_profiles'.hash = pro_text

LEMMA RowStep == ASSUME ProInv, [P!Next]_(P!vars) PROVE AuthorityStep /\ TextStep
<1>0. P!TypeOK
  BY DEF ProInv
<1>1. CASE pro_profiles' = pro_profiles
  BY <1>1 DEF AuthorityStep, TextStep, P!Reviewed
<1>2. ASSUME NEW l \in Label \cup {None}, P!SaveExtraction(l) PROVE AuthorityStep /\ TextStep
  <2>1. pro_reading \in Text /\ pro_profiles' = P!Extracted(l, pro_reading)
    BY <1>0, <1>2 DEF P!SaveExtraction, P!TypeOK
  <2>2. QED
    BY <1>0, <2>1, ExtractionWrites DEF AuthorityStep, TextStep
<1>3. ASSUME NEW l \in Label, P!Import(l) PROVE AuthorityStep /\ TextStep
  <2>1. /\ pro_exported \in Text /\ pro_exported = pro_text /\ pro_profiles' = P!New("extractor", l, TRUE, pro_exported)
    BY <1>0, <1>3 DEF P!Import, P!Imports, P!TypeOK
  <2>2. "extractor" \in P!Origin /\ TRUE \in BOOLEAN
    BY DEF P!Origin
  <2>3. pro_profiles' \in P!Row
    BY <2>1, <2>2 DEF P!New, P!Row
  <2>4. pro_profiles' # None /\ pro_profiles'.origin = "extractor" /\ pro_profiles'.hash = pro_text
    BY <2>1, <2>3, ProfilesAssumption DEF P!New
  <2>5. QED
    BY <2>1, <2>4 DEF AuthorityStep, TextStep, P!PersonWrites
<1>4. ASSUME NEW l \in Label, NEW b \in BOOLEAN, P!StorePreview(l, b), pro_profiles' # pro_profiles
      PROVE  AuthorityStep /\ TextStep
  <2>1. /\ pro_preview \in Text /\ P!Replaceable(b)
        /\ pro_profiles' = P!New("historical_preview", l, FALSE, pro_preview)
    BY <1>0, <1>4 DEF P!StorePreview, P!TypeOK
  <2>2. "historical_preview" \in P!Origin /\ FALSE \in BOOLEAN /\ "historical_preview" # "extractor"
    BY DEF P!Origin
  <2>3. pro_profiles'.reviewed = FALSE
    BY <2>1 DEF P!New
  <2>4. pro_profiles # None => ~P!Reviewed /\ pro_profiles.origin = "historical_preview"
    BY <1>0, <2>1, PreviewWrites
  <2>5. ~P!Reviewed
    BY <2>4 DEF P!Reviewed
  <2>6. QED
    BY <2>2, <2>3, <2>4, <2>5 DEF AuthorityStep, TextStep
<1>5. ASSUME NEW e \in Editor, NEW l \in Label, P!Save(e, l) PROVE AuthorityStep /\ TextStep
  <2>1. /\ pro_text \in Text /\ pro_lock = e /\ pro_profiles' = P!New("extractor", l, TRUE, pro_text)
    BY <1>0, <1>5 DEF P!Save, ProInv, ProLock, P!TypeOK
  <2>2. "extractor" \in P!Origin /\ TRUE \in BOOLEAN
    BY DEF P!Origin
  <2>3. pro_profiles'.origin = "extractor" /\ pro_profiles'.hash = pro_text /\ pro_lock # None
    BY <2>1, <2>2, ProfilesAssumption DEF P!New, P!Row
  <2>4. QED
    BY <2>3 DEF AuthorityStep, TextStep, P!PersonWrites
<1>6. QED
  BY <1>1, <1>2, <1>3, <1>4, <1>5, Writers

LEMMA StepOfPro ==
  ASSUME [ContentNext]_<<turn, vars, others>> PROVE [P!Next]_(P!vars)
BY DEF ContentNext, others, proVars, P!vars, P!people

\* Whoever extracts, previews, edits and imports in whatever order, while the
\* text changes: a person's review is replaced only by who has seen it or is
\* sure of the text, and is marked once an extraction has met another text
\* (save_profiles, correct_positions, import_reviews).
THEOREM Respected == ContentSpec => ReviewsAreRespected
<1>1. ContentInit => ProInv
  BY InitPro DEF ContentInit
<1>2. ProInv /\ [ContentNext]_<<turn, vars, others>> => ProInv'
  BY StepOfPro, NextPro
<1>3. ProInv => P!StaleIsMarked
  BY DEF ProInv
<1>4. ProInv /\ [ContentNext]_<<turn, vars, others>> =>
        [\A e \in Editor : pro_lock = e /\ pro_profiles' # pro_profiles =>
           pro_seen[e] = <<pro_text, pro_profiles>>]_(P!vars)
  BY StepOfPro, CorrectionStep
<1>5. ProInv /\ [ContentNext]_<<turn, vars, others>> => [AuthorityStep]_(P!vars)
  BY StepOfPro, RowStep
<1>6. ProInv /\ [ContentNext]_<<turn, vars, others>> => [TextStep]_(P!vars)
  BY StepOfPro, RowStep
<1>7. QED
  BY <1>1, <1>2, <1>3, <1>4, <1>5, <1>6, PTL
  DEF ContentSpec, ReviewsAreRespected, P!ReviewsAreRespected, P!NoLostCorrection, P!Authority,
      P!ReviewIsOfText, AuthorityStep, TextStep

-----------------------------------------------------------------------------
(* All parts.                                                              *)

\* Every state of the resolver, the clustering, the profiles and the
\* attribution is typed (resolver.py, aggregator.py, db/position_profiles.py,
\* attribution.py).
THEOREM ContentTypes == ContentSpec => []ContentTypeOK
<1> DEFINE J == IInv /\ CluInv /\ ProInv /\ AttInv
<1>1. ContentInit => J
  BY InitIInv, InitClu, InitPro, InitAtt DEF ContentInit
<1>2. J /\ [ContentNext]_<<turn, vars, others>> => J'
  <2> SUFFICES ASSUME J, [ContentNext]_<<turn, vars, others>> PROVE J'
    OBVIOUS
  <2>1. [Next]_vars
    BY DEF ContentNext
  <2>2. IInv'
    BY <2>1, NextIInv
  <2>3. CluInv' /\ ProInv' /\ AttInv'
    BY NextClu, StepOfClu, NextPro, StepOfPro, NextAtt, StepOfAtt
  <2>4. QED
    BY <2>2, <2>3
<1>3. J => ContentTypeOK
  BY DEF IInv, CluInv, ProInv, AttInv, ContentTypeOK
<1> HIDE DEF J
<1>4. QED
  BY <1>1, <1>2, <1>3, PTL DEF ContentSpec
=============================================================================
