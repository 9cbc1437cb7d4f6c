---------------------------- MODULE MCNumaAlloc ----------------------------
(* Small instances of NumaAlloc for TLC.  Sizes are in units of 8 bytes: *)
(* a 16-byte header is 2, the 16- and 32-byte classes are 2 and 4.       *)
EXTENDS NumaAlloc

MCClasses == <<2, 4>>
MCCpuToNode == (0 :> 0) @@ (1 :> 1)
\* a configured CPU that numa_node_of_cpu reports as -1 (offline)
MCCpuToNodeOffline == (0 :> 0) @@ (1 :> -1)
MCSchedCpus == {1, 2}
MCCallocArgs == {<<2, 7>>, <<3, 11>>}
\* adds a calloc that is served by a recycled small block
MCCallocArgsRecycled == MCCallocArgs \cup {<<1, 2>>}
Symm == Permutations(Threads) \cup Permutations(MapIds)
=============================================================================
