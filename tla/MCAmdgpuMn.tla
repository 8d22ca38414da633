----------------------------- MODULE MCAmdgpuMn -----------------------------
(* Model-checking instance of AmdgpuMn: three GFX userptr BOs where c       *)
(* overlaps both a and b (so registering c merges two nodes), one HSA BO    *)
(* spanning all of them, two host events and one submitter.                *)
EXTENDS AmdgpuMn, TLC

CONSTANTS a, b, c, k

MCBoRange == [x \in BOs |-> CASE x = a -> <<0, 1>> [] x = b -> <<2, 3>> [] x = c -> <<1, 2>> [] x = k -> <<0, 3>>]
MCBoKfd   == [x \in BOs |-> x = k]

\* [0, 1) ends just before c starts; [2, 4) covers b and c's tail.
MCHostRanges == {<<0, 1>>, <<2, 4>>}

MCSymmetry == Permutations(Inval)
=============================================================================
