---------------------------- MODULE ArenaAllocator ----------------------------
(***************************************************************************)
(* The reserve/commit linear arena of src/unnamed/part_003 (the arena_*    *)
(* functions declared in src/arena_allocator/arena_allocator.h).  The      *)
(* arena's header lives at offset 0 of its own reservation; position and   *)
(* commit_position are offsets into it.  One client owns the arena: it     *)
(* creates it, allocates, saves and restores the position, resets it and   *)
(* destroys it.  Sizes are in a scaled unit, size_t arithmetic is modulo   *)
(* 2^SizeBits, and align_up is the bit mask of the code.                   *)
(***************************************************************************)
EXTENDS Integers, Sequences, Bitwise

CONSTANTS
  NULL,
  PageSize,            \* platform_get_page_size()
  ARENA_HEADER_SIZE,   \* sizeof(arena_allocator_t)
  DEFAULT_ALIGNMENT,   \* sizeof(void*)
  SizeBits,            \* width of size_t
  CreateArgs,          \* <<reserve_size, commit_size>> passed to arena_create
  Sizes,               \* sizes passed to arena_alloc_aligned
  Alignments,          \* alignments passed to arena_alloc_aligned
  Positions,           \* positions passed to arena_set_position
  MaxLive              \* bound on the client's live allocations

SizeMax == 2^SizeBits
Wrap(x) == x % SizeMax

align_up(value, alignment) ==
  LET low == Wrap(alignment - 1) IN Wrap(value + low) & (SizeMax - 1 - low)
min_size(a, b) == IF a < b THEN a ELSE b

VARIABLES
  arena,      \* NULL or [reserve_size, commit_size, position, commit_position]
  live,       \* the client's live allocations <<[start, size], ...>>
  saved       \* the last value the client read with arena_get_position

vars == <<arena, live, saved>>

(* arena_create: page-align both sizes, clamp the commit size, reserve,  *)
(* commit the prefix and write the header; a failing reserve or commit   *)
(* returns NULL having released what it took, leaving no state.          *)
(* Variant: the commit size is not rounded to the page size. *)
arena_create_unaligned_commit(reserve_size0, commit_size0) ==
  LET reserve_size == align_up(reserve_size0, PageSize)
      commit_size == IF commit_size0 > reserve_size THEN reserve_size ELSE commit_size0
  IN /\ arena = NULL
     /\ reserve_size0 # 0 /\ commit_size0 # 0
     /\ reserve_size # 0
     /\ arena' = [reserve_size |-> reserve_size, commit_size |-> commit_size,
                  position |-> ARENA_HEADER_SIZE, commit_position |-> commit_size]
     /\ UNCHANGED <<live, saved>>

arena_create(reserve_size0, commit_size0) ==
  LET reserve_size == align_up(reserve_size0, PageSize)
      commit_size1 == align_up(commit_size0, PageSize)
      commit_size == IF commit_size1 > reserve_size THEN reserve_size ELSE commit_size1
  IN /\ arena = NULL
     /\ reserve_size0 # 0 /\ commit_size0 # 0
     /\ reserve_size # 0
     /\ arena' = [reserve_size |-> reserve_size, commit_size |-> commit_size,
                  position |-> ARENA_HEADER_SIZE, commit_position |-> commit_size]
     /\ UNCHANGED <<live, saved>>

(* Variant: grows the committed prefix only up to the aligned start. *)
arena_alloc_aligned_commit_to_start(size, alignment) ==
  LET aligned_position == align_up(arena.position, alignment)
      new_position == Wrap(aligned_position + size)
      new_commit_position ==
        min_size(align_up(aligned_position, arena.commit_size), arena.reserve_size)
  IN /\ arena # NULL
     /\ size # 0
     /\ Len(live) < MaxLive
     /\ new_position <= arena.reserve_size
     /\ arena' = [arena EXCEPT
                    !.commit_position = IF new_position > @ THEN new_commit_position ELSE @,
                    !.position = new_position]
     /\ live' = Append(live, [start |-> aligned_position, size |-> size])
     /\ UNCHANGED saved

(* arena_alloc_aligned: bump the position past the aligned slot, growing *)
(* the committed prefix in commit_size steps when the slot passes it.    *)
(* A slot past the reservation, or a failing commit, returns NULL.       *)
arena_alloc_aligned(size, alignment) ==
  LET aligned_position == align_up(arena.position, alignment)
      new_position == Wrap(aligned_position + size)
      new_commit_position ==
        min_size(align_up(new_position, arena.commit_size), arena.reserve_size)
  IN /\ arena # NULL
     /\ size # 0
     /\ Len(live) < MaxLive
     /\ new_position <= arena.reserve_size
     /\ arena' = [arena EXCEPT
                    !.commit_position = IF new_position > @ THEN new_commit_position ELSE @,
                    !.position = new_position]
     /\ live' = Append(live, [start |-> aligned_position, size |-> size])
     /\ UNCHANGED saved

arena_alloc(size) == arena_alloc_aligned(size, DEFAULT_ALIGNMENT)

(* Releasing the position releases every allocation that ends past it. *)
Below(p) == SelectSeq(live, LAMBDA a : a.start + a.size <= p)

(* Variant: reset rewinds to offset 0, over the arena's own header. *)
arena_reset_to_zero ==
  /\ arena # NULL
  /\ arena' = [arena EXCEPT !.position = 0]
  /\ live' = <<>>
  /\ UNCHANGED saved

arena_reset ==
  /\ arena # NULL
  /\ arena' = [arena EXCEPT !.position = ARENA_HEADER_SIZE]
  /\ live' = <<>>
  /\ UNCHANGED saved

arena_get_position ==
  /\ arena # NULL
  /\ saved' = arena.position
  /\ UNCHANGED <<arena, live>>

arena_set_position(position) ==
  /\ arena # NULL
  /\ position >= ARENA_HEADER_SIZE /\ position <= arena.reserve_size
  /\ arena' = [arena EXCEPT !.position = position]
  /\ live' = Below(position)
  /\ UNCHANGED saved

arena_destroy ==
  /\ arena # NULL
  /\ arena' = NULL
  /\ live' = <<>>
  /\ saved' = 0

Init ==
  /\ arena = NULL
  /\ live = <<>>
  /\ saved = 0

Next ==
  \/ \E a \in CreateArgs : arena_create(a[1], a[2])
  \/ \E n \in Sizes : arena_alloc(n)
  \/ \E n \in Sizes, al \in Alignments : arena_alloc_aligned(n, al)
  \/ arena_reset
  \/ arena_get_position
  \/ \E p \in Positions \cup {saved} : arena_set_position(p)
  \/ arena_destroy

Spec == Init /\ [][Next]_vars

-----------------------------------------------------------------------------
(* Properties. *)

(* Offsets handed to the client are past the arena's header. *)
Offset == ARENA_HEADER_SIZE .. SizeMax - 1
ArenaTypeOK ==
  /\ arena = NULL \/ arena \in [reserve_size : 0 .. SizeMax - 1, commit_size : 0 .. SizeMax - 1,
                                position : Offset, commit_position : 0 .. SizeMax - 1]
  /\ live \in Seq([start : Offset, size : Nat])
  /\ saved \in 0 .. SizeMax - 1

(* Every live allocation lies above the arena's header and inside the   *)
(* committed prefix of the reservation (memset writes all of it), and    *)
(* no two live allocations overlap, whatever the client's sequence of    *)
(* allocations, alignments, resets and position restores.               *)
SlotsDisjointCommitted ==
  /\ \A i \in DOMAIN live :
       /\ live[i].start >= ARENA_HEADER_SIZE
       /\ live[i].start + live[i].size <= arena.commit_position
       /\ arena.commit_position <= arena.reserve_size
  /\ \A i, j \in DOMAIN live : i < j =>
       live[i].start + live[i].size <= live[j].start \/ live[j].start + live[j].size <= live[i].start

(* The arena's own header, written by arena_create at offset 0, lies in *)
(* the committed prefix for the arena's whole life, whatever reserve and *)
(* commit sizes the caller passed: commit_position never falls below     *)
(* ARENA_HEADER_SIZE.                                                    *)
HeaderCommitted ==
  arena # NULL => ARENA_HEADER_SIZE <= arena.commit_position
==============================================================================
