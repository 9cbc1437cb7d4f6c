-------------------------------- MODULE Heap --------------------------------
(***************************************************************************)
(* What the facade of src/numa_allocator/numa_alloc.h promises its        *)
(* callers, with no pools, caches or headers: after a successful init,    *)
(* an allocation hands the caller a block nobody else holds; free gives   *)
(* it up; resize keeps the block or moves the caller to another block     *)
(* nobody holds; a failed call changes nothing.  Clients keep pointers in *)
(* slots and may pass them to each other.                                 *)
(***************************************************************************)
CONSTANTS
  Threads, Slots,
  Addrs,          \* the addresses blocks can have
  NULL

VARIABLES
  ready,          \* numalloc_init succeeded and no cleanup since
  owned           \* thread -> slot -> NULL or the block it holds

vars == <<ready, owned>>

InUse == {owned[t][s] : t \in Threads, s \in Slots} \ {NULL}
Fresh == Addrs \ InUse

(* Slot s of t comes to hold a block nobody holds; nothing else changes. *)
(* Stated as a constraint on owned' rather than a choice of block, so    *)
(* that checking it as a property of NumaAlloc does not enumerate Addrs. *)
TakesFresh(t, s) ==
  /\ owned' = [owned EXCEPT ![t][s] = owned'[t][s]]
  /\ owned'[t][s] \in Fresh

Init ==
  /\ ready = FALSE
  /\ owned = [t \in Threads |-> [s \in Slots |-> NULL]]

(* numalloc_init: "Must be called before any allocations"; may fail. *)
InitAlloc ==
  /\ ~ready
  /\ ready' \in BOOLEAN
  /\ UNCHANGED owned

(* numalloc / numalloc_calloc: "Pointer to allocated memory". *)
Allocate(t, s) ==
  /\ ready
  /\ owned[t][s] = NULL
  /\ TakesFresh(t, s)
  /\ UNCHANGED ready

(* numalloc_free. *)
Release(t, s) ==
  /\ owned[t][s] # NULL
  /\ owned' = [owned EXCEPT ![t][s] = NULL]
  /\ UNCHANGED ready

(* numalloc_realloc: "Pointer to resized memory": the block itself, or *)
(* one nobody holds once the old one is given up.                      *)
Resize(t, s) ==
  /\ ready
  /\ owned[t][s] # NULL
  /\ TakesFresh(t, s)
  /\ UNCHANGED ready

(* A client passes a pointer to another thread. *)
Pass(t, s, u, s2) ==
  /\ owned[t][s] # NULL /\ owned[u][s2] = NULL
  /\ owned' = [owned EXCEPT ![t][s] = NULL, ![u][s2] = owned[t][s]]
  /\ UNCHANGED ready

(* numalloc_cleanup: "free all allocator resources". *)
Cleanup ==
  /\ ready
  /\ InUse = {}
  /\ ready' = FALSE
  /\ UNCHANGED owned

Next ==
  \/ InitAlloc
  \/ Cleanup
  \/ \E t \in Threads, s \in Slots :
       \/ Allocate(t, s)
       \/ Release(t, s)
       \/ Resize(t, s)
       \/ \E u \in Threads, s2 \in Slots : Pass(t, s, u, s2)

Spec == Init /\ [][Next]_vars
=============================================================================
