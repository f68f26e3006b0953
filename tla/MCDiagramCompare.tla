-------------------------- MODULE MCDiagramCompare --------------------------
(***************************************************************************)
(* DiagramCompare for TLC: every diagram of at most MaxChunks chunks whose *)
(* fees are in 0..MaxFee and whose sizes are in 1..MaxSize.                *)
(***************************************************************************)
EXTENDS DiagramCompare

CONSTANTS MaxChunks, MaxFee, MaxSize

SmallChunks == [fee : 0..MaxFee, size : 1..MaxSize]

ChunkLists == UNION {[1..n -> SmallChunks] : n \in 0..MaxChunks}

MCDiagrams == {BuildDiagram(SortChunks(l)) : l \in ChunkLists}

=============================================================================
