------------------------------- MODULE MCApi -------------------------------
(* Small values for Api.                                                    *)
EXTENDS Api, TLC

CONSTANTS question, lease, w1, w2, q1, q2, a, b, backend, frontend, daily, admin,
          f1, f2, f3, f4, g3, g4

TwoRows == {question, lease}
Leases == {lease}
TwoWriters == {w1, w2}
OneReader == {q1}

TwoQuestions == {a, b}
TwoCategories == {backend, frontend}
OneRun == {daily}
OneRequest == {admin}
NoneRegenerates == {}

TwoCallers == {q1, q2}

\* A release, the next one, and one of another branch; the ledger came after f2.
AllFiles == {f1, f2, f3, f4, g3, g4}
Releases == <<<<f1, f2, f3>>, <<f1, f2, f3, f4>>, <<f1, f2, g3, g4, f3>>>>
ThreeMigrators == DOMAIN Releases
=============================================================================
