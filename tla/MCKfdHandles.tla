---------------------------- MODULE MCKfdHandles ----------------------------
(* Two pdds, three kfd_bo allocations and three GPU VA ranges, two of     *)
(* which overlap, so lookups meet zero, one and two records.              *)
EXTENDS KfdHandles

MCRanges == {<<0, 2>>, <<1, 2>>, <<4, 1>>}
=============================================================================
