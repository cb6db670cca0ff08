------------------------------ MODULE Registry ------------------------------
(***************************************************************************)
(* What the resolver promises its callers (docs/DAY6_NORMALIZER.md: the    *)
(* mapping in the database is the one that counts): a registry in which a  *)
(* name is decided once, for good, and every client is answered with the   *)
(* decision for the name it asked for.                                     *)
(***************************************************************************)
CONSTANTS Name, Client, None

VARIABLES
  decided, \* what each name stands for
  asked,   \* the name each client asks for
  answer   \* what it has been told

vars == <<decided, asked, answer>>

Init ==
  /\ decided \in [Name -> Name \cup {None}]
  /\ asked = [c \in Client |-> None] /\ answer = [c \in Client |-> None]

Ask(c, n) ==
  /\ asked' = [asked EXCEPT ![c] = n] /\ answer' = [answer EXCEPT ![c] = None]
  /\ UNCHANGED decided

\* Some names that were open are decided, all for v.
Decides(S, v) ==
  /\ S # {} /\ \A n \in S : decided[n] = None
  /\ decided' = [n \in Name |-> IF n \in S THEN v ELSE decided[n]]

Decide(S, v) == Decides(S, v) /\ UNCHANGED <<asked, answer>>

Answer(c) ==
  /\ asked[c] # None /\ decided[asked[c]] # None
  /\ answer' = [answer EXCEPT ![c] = decided[asked[c]]]
  /\ UNCHANGED <<decided, asked>>

\* A client decides the name that it asked for, and perhaps others.
DecideAndAnswer(c, S, v) ==
  /\ asked[c] \in S /\ Decides(S, v)
  /\ answer' = [answer EXCEPT ![c] = v] /\ UNCHANGED asked

Next ==
  \/ \E c \in Client : Answer(c) \/ \E n \in Name : Ask(c, n)
  \/ \E S \in SUBSET Name, v \in Name :
       Decide(S, v) \/ \E c \in Client : DecideAndAnswer(c, S, v)

Spec == Init /\ [][Next]_vars
=============================================================================
