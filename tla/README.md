# TLA+ models of the memory allocators

This directory holds TLA+ models of the two allocators in `src/`, together with
the TLC configurations that check them:

- the NUMA-aware allocator, in `src/numa_allocator/numa_alloc.c`;
- the reserve/commit linear arena, in `src/unnamed/part_003`. Its header is
  `src/arena_allocator/arena_allocator.h`.

A third module, `Heap.tla`, states the contract that `numa_alloc.h` documents.
`NumaAlloc` is checked to implement it.

`PROJECT.json` lists the components, the runs and the mutants, and maps each
definition to the source lines it translates. It also records the findings and
the hazards.

## Inventory of the code

### NUMA allocator (`numa_alloc.c`)

The global state is:

| Global | What it holds |
|---|---|
| `g_initialized` | whether the allocator is initialised |
| `g_topology` | the NUMA topology |
| `g_node_pools[MAX_NUMA_NODES]` | the per-node pools |
| `my_arena` | a thread-local pointer to the thread's cache |

The allocator has these parts:

- **Topology oracle.** `discover_numa_topology` (lines 79-114) fills the
  topology. It uses libnuma when `numa_available()` allows it. Otherwise it
  reports a single node. `numa_node_of_cpu` is stored unchecked, so a CPU that
  libnuma cannot place maps to node -1. `get_current_numa_node` (116-125) reads
  `sched_getcpu` and clamps the result into the CPU map.
- **Node pool.** `create_node_pool` (138-165) maps `pool_size` bytes on a
  node, touches them, and initialises a mutex. `slow_path_alloc` (277-326)
  works in four steps:
  1. It takes the mutex.
  2. It checks that `used + batch` fits.
  3. It advances the `used` watermark and unlocks.
  4. *After the unlock*, it threads the batch into a free list.
- **Size-class table.** `SIZE_CLASS_SIZES` (19-22) is the ladder.
  `get_size_class` (195-202) maps a size to the first class that fits, or to
  -1 for a large block.
- **Thread cache.** `create_arena` and `get_or_create_arena` (169-192) create
  the cache lazily. The cache has per-class singly-linked free stacks and no
  lock. It records its home node when it is created, and it counts
  allocations and frees. Its `calloc` can fail; `numalloc` then returns NULL
  and `numalloc_free` returns without freeing. The fast path is in
  `numalloc` (345-352). `numalloc_free` pushes onto the stacks (383-387).
- **Large-block path.** `allocate_large_block` (208-261):
  - computes `size + header`;
  - rounds it up to the huge-page size when it is larger than one huge page;
  - calls `mmap`, first with `MAP_HUGETLB` and then without it;
  - calls `mbind` and writes the header.

  `free_large_block` (263-271) unmaps `header->size` bytes.
- **Block header.** `block_header_t` (57-62) holds `{size, size_class,
  numa_node}`. It sits in front of every user pointer.
- **Facade:**
  - `numalloc_init` (394-423);
  - `numalloc` (333-360);
  - `numalloc_free` (366-388);
  - `numalloc_calloc` (425-437);
  - `numalloc_realloc` (439-466);
  - `numalloc_get_thread_stats` (468-477) and `numalloc_print_topology`;
  - `numalloc_cleanup` (496-526).

How the parts interact:

- Every client thread allocates through its own cache.
- A cache miss takes the home node's pool mutex.
- Large requests go straight to `mmap`, without the pool or its mutex.
- A small request whose node pool cannot fit another batch fails: the slow
  path unlocks and returns NULL (lines 296-298). There is no fallback to
  `mmap` or to another node.
- A free reads the header. A large block is unmapped. A small block is pushed
  onto the *freeing* thread's cache, whatever node or cache it came from.
- Init and cleanup replace the global state. Thread caches survive both.

### Linear arena (`part_003`)

| Function | What it does |
|---|---|
| `arena_create` | reserves a region, commits a prefix, and writes the `arena_allocator_t` header at offset 0 |
| `arena_alloc_aligned` | aligns the position with `align_up`, which is a bit mask; bumps the position; and when the position passes the committed prefix, commits up to `align_up(new_position, commit_size)` |
| `arena_reset` | rewinds the position |
| `arena_get_position` / `arena_set_position` | save and restore the position |
| `arena_destroy` | releases the region |

### What is hard in this code

- Slow-path refills race on one pool, and the batch is carved after the
  unlock.
- Frees from other threads move blocks between caches and nodes.
- Thread caches live longer than a `numalloc_cleanup` / `numalloc_init` cycle.
- A partial init failure followed by a retry.
- A free on a thread whose cache cannot be created.
- A CPU with no node (-1), used as an index into `g_node_pools`.
- `size_t` wraps in the large path, in calloc and in the arena.
- Realloc's idea of a large block's capacity.
- Free blocks carry their free-list link in the client's bytes. calloc must
  zero a recycled block, and realloc must copy before it frees.
- The bit-mask `align_up` applied to a commit size that is not a power of two,
  and a commit size that wraps to 0.
- `arena_set_position` can move the position past the committed prefix.

`PROJECT.json`'s "hazards" lists each of these at the line where it bites.

## Modules

### `NumaAlloc.tla`

The model's variables correspond to the code like this:

| Variable | Code |
|---|---|
| `initialized` | `g_initialized` |
| `topology` | whether `g_topology` has been filled |
| `pools[n]` | `g_node_pools[n]`: the base mapping, `used` |
| `lockHolder[n]` | the pool mutex |
| `mem` | the address space: each mapping id holds NULL or `{kind, len, hdr, body}`. `hdr` maps the offset of each block to its header, and `body` to the first word of its user bytes |
| `arena[t]` | `my_arena` of thread t: its home node, free stacks and stats counters (kept modulo `2^StatBits`) |
| `held[t][s]` | the client's pointer variables, each with the size it asked for and what the client knows its first word holds |
| `pc[t]`, `frame[t]` | where thread t is inside `slow_path_alloc`, and its locals |
| `inits` | the number of `numalloc_init` calls so far |

Addresses are `<<mapping, offset>>` pairs. Mapping ids are reused after
`munmap`, as `mmap` reuses addresses. Sizes are in a scaled unit, and all
`size_t` arithmetic is taken modulo `2^SizeBits`.

The actions correspond to the code like this:

- **`Malloc`** is a call of `numalloc`. It covers:
  - the fast-path pop;
  - the large path, which may fail;
  - the pool-NULL return;
  - a slow-path miss. `SlowLock`, `SlowReserve`, `SlowAdvance` and
    `SlowCarve` are the mutex lock, the check (with its unlock-and-NULL exit),
    the watermark advance with unlock, and the unlocked carve. Each is a step
    of its own, so other threads interleave between them. `Deliver` puts the
    result into the caller's slot.
- **`Free`** is `numalloc_free`, including the large unmap.
- **`Calloc`** and **`Realloc`** translate the whole function. `Realloc`
  includes the in-place return based on the code's `old_size`.
- **Block contents.** A block keeps one abstract word, its first word of user
  bytes. The value is `"zero"`, `"link"` (a non-NULL free-list pointer) or
  `"data"` (what a client wrote). This is the word the code threads the free
  stacks through (`free_list_t`):
  - `numalloc_free` writes the old stack head there, or NULL onto an empty
    stack (line 385).
  - The carve links each block of a batch to the previously carved one, and
    the first one carved to NULL.
  - A fresh large mapping is zero.
  - `Filled`, inside `Deliver`, does three things. It is calloc's memset, and
    it is realloc's memcpy, done before the old block is freed. For a plain
    numalloc, it is the client writing its data at once, as the tests and
    drivers do.
  - Every store goes through `SetWord`. A store into memory that is no
    longer mapped faults in the code. The model does not follow that outcome
    and leaves memory unchanged, and `HeldLive` reports the dangling pointer.
- **`Handoff`** passes a pointer to another thread, as a program does through
  shared memory. It is the only way a cross-thread free can arise.
- **`NumallocInit`** covers topology discovery and pool creation. The pool for
  node k may fail, which leaves the pools of nodes before k.
  **`NumallocCleanup`** covers the rest of the teardown. Both are enabled only
  when no thread is inside the allocator. This is the spec's contract (§5);
  the code does not enforce it.
- **`get_size_class`** is a RECURSIVE translation of the loop.
- **`ArenaOn`** is `get_or_create_arena`. It returns the set of possible
  outcomes: with `ArenaCallocFails`, NULL is one of them. `numalloc` then
  returns NULL, and `numalloc_free` of a small block returns without putting
  the block anywhere.
- **`PoolRead`** is the read of `g_node_pools[arena->numa_node]`. Reading
  outside the table is undefined behaviour. The model follows the outcome
  where the word read is NULL (numalloc returns NULL). It does not follow an
  outcome where garbage is used as a pool; the run that reaches that read
  stops at the invariant first.

### `Heap.tla` and the refinement

`Heap` is the facade's contract as `numa_alloc.h` documents it. Its state is
`ready` (init succeeded) and `owned`, which gives the block each client slot
holds. Its actions are:

- `InitAlloc`, which may fail;
- `Allocate` and `Resize`: the slot comes to hold a block no client holds, or
  for `Resize` keeps its own;
- `Release`;
- `Pass`, a client handing a pointer on;
- `Cleanup`, once nothing is held.

Failed calls are stutters. `NumaAlloc` defines
`H == INSTANCE Heap WITH Addrs <- Blk, ready <- initialized, owned <- ClientView`.
`ClientView` is the blocks named by `held`. `HeapSpec == H!Spec` is a
`PROPERTY` of the safety run. Every step of the detailed model must therefore
be a Heap step or leave the clients' view unchanged. This includes the
slow-path steps, cache pushes and pops, mappings and unmappings, and realloc's
allocate-then-free.

`TakesFresh` constrains `owned'` instead of choosing a block with
`\E a \in Fresh`. That keeps the property check from enumerating the
99 addresses on every transition. The cost is that `Heap` is used as a
property and is not run on its own.

### `ArenaAllocator.tla`

The variables are:

| Variable | What it holds |
|---|---|
| `arena` | the four header fields, or NULL |
| `live` | the client's live allocations, as a sequence of `[start, size]` |
| `saved` | the last value read by `arena_get_position` |

There is one action per function. `align_up` is the code's mask, computed with
`&` from the Bitwise module. A failing reserve or commit inside `arena_create`
or `arena_alloc_aligned` leaves no state behind, so the model only has the
successful step and the early returns. Moving the position back releases the
allocations that end past it (`Below`).

### MC modules

`MCNumaAlloc.tla` and `MCArenaAllocator.tla` give the constants that a cfg
cannot express, such as tuples and functions, and the symmetry set.

## Runs

| Run | cfg | Expect | What it shows |
|---|---|---|---|
| numa_safety | MCNumaAlloc.cfg | pass | `TypeOK`, `OwnedOnce` (every live block is in exactly one place: a client pointer or one cache stack entry), `CapacityCoversRequest`, `SizeClassCorrect` (get_size_class against the ladder's definition for every size), `ClientDataIntact` (spec invariants 3 and 4: each client's block holds what the client knows of it, zero after calloc and its data through realloc and handoff, despite the links frees and refills write), `HeapSpec` (refinement of Heap: no call hands out a block a client holds, and nothing is allocated before init or after cleanup) |
| numa_lock_liveness | MCNumaAllocLive.cfg | pass | `LockEventuallyReleased`: every pool mutex taken is released. `SlowPathReturns`: every thread inside the slow path returns once the other threads stop starting calls (`ClientsStop`, an `<>[][...]_vars` premise) |
| numa_reinit_stale_cache | MCNumaAllocReinit.cfg | violation | After cleanup and a second init, the fast path returns a block of a released pool |
| numa_init_retry_leak | MCNumaAllocInitLeak.cfg | violation | Partial init failure, then retry: the first pools are unreachable and never unmapped |
| numa_realloc_slack | MCNumaAllocReallocSlack.cfg | violation | Realloc of a large block stays in place for up to a header's bytes more than the block holds. This breaks the header's contract ("pointer to resized memory", `numa_alloc.h:57`); spec section 4.8 takes the mapping size as the capacity too, so the spec carries the same mismatch |
| numa_large_size_overflow | MCNumaAllocOverflow.cfg | violation | `size + header` wraps and a tiny mapping is returned |
| numa_arena_calloc_failure | MCNumaAllocArenaFail.cfg | violation | A thread whose cache cannot be created frees a small block handed to it; the block is leaked (`OwnedOnce`) |
| numa_cpu_without_node | MCNumaAllocNoNode.cfg | violation | A CPU that `numa_node_of_cpu` reports as -1 gives a cache home node -1 (`ArenaHomeInTopology`) |
| numa_stats_large_free | MCNumaAllocStats.cfg | violation | `numalloc_free` of a large block does not count it in `stats_frees` (`StatsBalance`, with 2-bit counters) |
| arena_safety | MCArenaAllocator.cfg | pass | Live arena allocations stay disjoint and inside the committed prefix; the arena header stays committed (`HeaderCommitted`) |
| arena_size_overflow | MCArenaAllocatorOverflow.cfg | violation | `aligned_position + size` wraps, the reserve check passes, and the slot lies outside committed memory |
| arena_commit_size_wrap | MCArenaAllocatorCommitWrap.cfg | violation | A commit size within a page of `SIZE_MAX` rounds to 0, and the header is written to uncommitted memory |

Each property of a passing run has a mutant in `PROJECT.json`. A mutant is a
plausible bug in the translated code, and TLC finds the property violated once
the mutant is substituted. The mutants are:

- the watermark check done against `used` only;
- realloc freeing the old block before copying it (`ClientDataIntact`: the
  new block gets the free-list link instead of the caller's data);
- no unlock on the exhaustion path (`LockEventuallyReleased` and `SlowPathReturns`);
- numalloc without its `g_initialized` check (`HeapSpec`: a large block is
  mapped and handed out before init, a step Heap does not allow);
- `arena_create` without page-rounding the commit size (`HeaderCommitted`);
- keeping the batch head on the free list;
- calloc without its overflow check;
- the size-class loop started at 1;
- the arena committing only up to the slot's start;
- reset to offset 0 (`ArenaTypeOK`).

## Bounds and why they are enough

**NUMA safety run.**

- Two threads on two nodes. The CPUs 1 and 2 map to nodes 0 and 1 (CPU 0 is
  never scheduled), so both home nodes occur and cross-node frees happen.
- One pointer slot per thread.
- Three mapping ids: two pools and one large block, or reuse after unmap.
- Two size classes (2, 4). The header is 2 and the pool size is 20.
- A batch of two, so a class-4 refill takes 12 bytes and the second refill on
  a node exhausts its pool.
- Requests 2, 4, 5 and 14. These cover both classes, a large block below the
  huge-page size (16) and one that rounds above it.
- `SizeBits = 5`.
- Calloc arguments (2, 7), (3, 11) and (1, 2). The first maps a fresh large
  block, the second overflows `size_t`, and the third is served by a small
  block carved or recycled from a cache, whose first word holds a free-list
  link or an earlier client's data until calloc's memset.
- One init, which may fail. A slot of a thread can hold a realloc'd,
  calloc'd or handed-off pointer.
- Symmetry over threads and mapping ids: both are interchangeable model values.

The run explores 278,307 distinct states and takes a little over two minutes. A second pointer slot per thread would let one thread
hold two blocks at once, but that run did not finish in ten minutes. The
cases it would add are reached in this run through realloc, which holds the
old and the new block at the same time, and through handoff.

**Liveness run.** It uses a pool of 20 and requests {2, 4}, with two mapping
ids and no symmetry. This lets two threads homed on one node each refill
before the pool is exhausted, so the lock is contended both while refills
succeed and after they fail. The run explores 66,119 states in about 30
seconds. With the large requests and a third mapping added as well, it did not
finish in 15 minutes.
Its cfg has `CHECK_DEADLOCK FALSE` because the safety run already checks
deadlock freedom. This keeps a mutant's stuck lock reported as a liveness
violation.

**Arena run.**

- Page 8, header 4, reserve sizes 40 and 10, and commit sizes 20 and 30. The
  commit size rounds to 24, which is not a power of two, and the commit is
  clamped to the reserve.
- Sizes 1, 3 and 9. Alignments 2 and 4.
- Positions 2 (rejected), 13, 40 (the reserve end) and 41 (rejected), plus the
  saved position.
- Creation arguments (40, 20), (10, 30) and (40, 2). The last commit size is
  smaller than the header before page rounding. The commit-wrap run uses
  (40, 125) instead: with `SizeBits = 7` the commit size rounds to 0.
- Up to three live allocations. `SizeBits = 7`.

**Counters.** `StatBits = 0` in every run except the stats run, where the
counters are not read. In that run `StatBits = 2` keeps two bits of each
counter: enough for the smallest imbalance (one large `malloc` and `free`) to
show.

## Fairness

`FairSpec` assumes weak fairness of each thread's slow-path steps (`SlowPath`)
only:

- A thread inside `slow_path_alloc` keeps running in the code; nothing it
  waits on other than the mutex can block it.
- Clients are under no obligation to call the allocator, so client actions get
  no fairness.
- The pthread mutex is not fair, so there is no strong fairness on acquiring
  it.

As a result, a thread waiting on a pool mutex may starve. While another thread
of its node keeps calling numalloc, TLC finds a lasso: that thread locks, finds
the pool exhausted, unlocks and calls again. The waiter only sees the mutex
free between these calls, and weak fairness does not force it in. Strong
fairness would rule this out, but the code does not provide it.
`SlowPathReturns` therefore asks only for what the code guarantees: once the
clients stop starting calls, every thread in the slow path returns. A lost
unlock, a wait on a mutex nobody releases, or a cycle of waiters would break
it. The no-unlock mutant does.

## Not modelled, and why

- **`numalloc_print_topology`** only prints. `numalloc_get_thread_stats`
  changes nothing: it is an operator, and `StatsBalance` is stated through
  it.
- **More NUMA nodes than `MAX_NUMA_NODES` (8)** (line 412). The init loop would
  write past `g_node_pools`. The model's table has exactly one entry per node.
  This is a documented platform limit rather than a behaviour the model can
  explore.
- **Init or cleanup concurrent with allocation** (lines 336, 421, 524). Spec §5
  makes these exclusive of allocation, which is a contract on the caller. The
  model runs them only when every thread is outside the allocator.
- **Block contents beyond the first word.** The model keeps one word per
  block, the one free-list links overwrite. calloc zeroes, and realloc copies,
  a whole prefix that contains it. Bytes past the request, and first-touch
  placement, are not modelled.
- **`mbind` and huge-page availability.** The `MAP_HUGETLB` attempt and its
  fallback produce the same mapping.
- **Drivers and tests.** The benchmarks and placement tests (`part_000`,
  `part_001`, `quick_test.c`) and the memalloc test suites. The shim those
  suites test (`memalloc.c`) is not in the repository.

## Divergences seen while modelling, not kept as runs

- `numalloc_free` pushes a small block onto the freeing thread's cache, whatever
  node its header names. This contradicts spec invariant 6, but spec §9 accepts
  it.
- Large mappings below the huge-page size are not page-rounded (lines 213-216),
  against spec invariant 2. `mmap`/`munmap` round the length internally, so
  nothing leaks, and the hazard list does not carry this as a hazard.
- `arena_set_position` accepts a position past the committed prefix, against
  spec invariant 7. The next allocation commits what it needs, so this is
  memory-safe.

## Plan for later sittings

1. **An abstract stack-of-regions specification for the arena**, refined by
   `ArenaAllocator`. It is worth writing only with a mapping that is not just
   `live` renamed. One option is spec §8's law that `set_position(p0)` undoes
   the allocations made since `p0` was read, stated over a snapshot.
2. **Arena contents** (the zero fill of `arena_alloc_aligned`). The arena run
   already explores 1.4 million states, so a smaller instance would be needed.
3. **Larger NUMA instances.** A second slot per thread did not finish in ten
   minutes. Three threads with symmetry might, in a run without the
   refinement property.
4. **Alignment arguments that are not powers of two** (`part_003:67`). The
   spec makes these a caller precondition.
