-------------------------- MODULE MCArenaAllocator --------------------------
(* Sizes in units of 8 bytes: a 32-byte header is 4, pointer alignment 1. *)
EXTENDS ArenaAllocator

MCCreateArgs == {<<40, 20>>, <<10, 30>>, <<40, 2>>}
\* a commit size within a page of SIZE_MAX: align_up wraps it to 0
MCCreateArgsWrap == {<<40, 125>>}
=============================================================================
