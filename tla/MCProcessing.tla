---------------------------- MODULE MCProcessing ----------------------------
(* Instances of Processing for TLC.                                        *)
EXTENDS Processing, TLC

CONSTANTS r1, r2, p1, p2, q1, q2

MCRun == {r1, r2}
MCPage == {p1, p2}
MCShortPage == {p2}
MCContent == {q1, q2}
MCExtractions == {{q1}, {q1, q2}}
OneContent == {q1}
OneExtraction == {{q1}}

RunSymmetry == Permutations(MCRun)
=============================================================================
