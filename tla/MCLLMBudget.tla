---------------------------- MODULE MCLLMBudget ----------------------------
(* Instances of LLMBudget for TLC.                                         *)
EXTENDS LLMBudget, TLC

CONSTANTS c1, c2, c3, c4, i1, i2, i3

ThreeCalls == {c1, c2, c3}
TwoInputs == {i1, i2}
ThreeInputs == {i1, i2, i3}
TokensOf == [i \in TwoInputs |-> IF i = i1 THEN 1 ELSE 2]
Costs == [i \in ThreeInputs |-> IF i = i3 THEN 2 ELSE 1]
Alike == Permutations(Call) \cup Permutations(TwoInputs)
CallSymmetry == Permutations(Call)
=============================================================================
