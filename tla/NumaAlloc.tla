------------------------------ MODULE NumaAlloc ------------------------------
(***************************************************************************)
(* The NUMA-aware allocator of src/numa_allocator/numa_alloc.c: topology,  *)
(* per-node pools bump-allocated in batches under a mutex, lock-free       *)
(* per-thread caches of per-class free stacks, header-tagged blocks, the   *)
(* large-block path, and the facade (init, numalloc, free, calloc,         *)
(* realloc, cleanup).  Client threads hold the returned pointers in a few  *)
(* slots, the way the tests and benchmarks keep them in local arrays.      *)
(*                                                                         *)
(* Addresses are <<mapping, offset>> pairs: a block is named by the        *)
(* address of its header; the user pointer is HEADER_SIZE bytes further.   *)
(* Sizes are counted in a scaled unit and computed modulo 2^SizeBits, the  *)
(* width of size_t.                                                        *)
(***************************************************************************)
EXTENDS Integers, Sequences, FiniteSets, Functions, TLC

CONSTANTS
  Threads,            \* client threads (model values)
  Slots,              \* pointer variables per client thread
  MapIds,             \* addresses at which mmap can place a mapping
  NULL, NoThread,
  NumaAvailable,      \* numa_available() != -1
  NumaMaxNode,        \* numa_max_node()
  CpuToNode,          \* [0..num_cpus-1 -> nodes], numa_node_of_cpu
  SchedCpus,          \* values sched_getcpu() may return
  SIZE_CLASS_SIZES, HEADER_SIZE, HUGE_PAGE_SIZE, REFILL_BATCH_SIZE,
  PAGE_SIZE,          \* kernel page size: mmap lengths are rounded to it
  PoolSize,           \* pool_size_per_node passed to numalloc_init
  SizeBits,           \* width of size_t
  Requests,           \* sizes passed to numalloc and numalloc_realloc
  CallocArgs,         \* <<num, size>> pairs passed to numalloc_calloc
  MaxInits,           \* bound on calls of numalloc_init
  ArenaCallocFails,   \* whether create_arena's calloc can return NULL
  StatBits            \* bits of the stats counters kept (0: not tracked)

ASSUME HUGE_PAGE_SIZE \in {2^k : k \in 1..SizeBits}

SizeMax == 2^SizeBits
Wrap(x) == x % SizeMax                 \* size_t arithmetic
RoundDown(x, a) == x - (x % a)         \* x & ~(a - 1), a a power of two
RoundUp(x, a) == IF x % a = 0 THEN x ELSE x + a - (x % a)

Classes == 0 .. Len(SIZE_CLASS_SIZES) - 1
ClassSize(c) == SIZE_CLASS_SIZES[c + 1]
Large == -1                            \* size_class of a large block
StatWrap(x) == x % (2^StatBits)        \* a size_t counter, low StatBits bits

(* get_size_class: the loop over the ladder, first class that fits. *)
RECURSIVE SizeClassFrom(_, _)
SizeClassFrom(size, i) ==
  IF i > Len(SIZE_CLASS_SIZES) - 1 THEN Large
  ELSE IF size <= ClassSize(i) THEN i
  ELSE SizeClassFrom(size, i + 1)
get_size_class_from_one(size) == SizeClassFrom(size, 1)  \* loop starts at 1
get_size_class(size) == SizeClassFrom(size, 0)

(* discover_numa_topology: the libnuma view, or one node when absent. *)
NumNodes == IF NumaAvailable THEN NumaMaxNode + 1 ELSE 1
NumCpus == Cardinality(DOMAIN CpuToNode)
Nodes == 0 .. NumNodes - 1
TopoMap == IF NumaAvailable THEN CpuToNode ELSE [c \in DOMAIN CpuToNode |-> 0]

Blk == MapIds \X (0 .. SizeMax)
(* The first word of a block's user bytes: NULL, a free-list link, or  *)
(* what a client wrote there.                                          *)
Word == {"zero", "link", "data"}
Header == [size : 0 .. SizeMax, size_class : Classes \cup {Large}, numa_node : Nodes \cup {-1}]
Frame == [op : {"alloc", "calloc", "realloc"}, slot : Slots, req : Nat, cls : Classes \cup {Large},
          batch : Blk \cup {NULL}, old : Blk \cup {NULL}]

VARIABLES
  initialized,   \* g_initialized
  topology,      \* g_topology != NULL
  pools,         \* g_node_pools: node -> NULL or [base, used]
  lockHolder,    \* node -> thread holding pool->lock, or NoThread
  mem,           \* mapping -> NULL (unmapped) or [kind, len, hdr, body], where
                 \* hdr and body map the offset of a block's header to the header
                 \* and to the first word of the block's user bytes
  arena,         \* my_arena of each thread: NULL or [numa_node, free_lists]
  held,          \* client pointer variables: thread -> slot -> NULL or [blk, req]
  pc,            \* where each thread is in numalloc's slow path
  frame,         \* the slow path's locals and the caller waiting on it
  inits          \* numalloc_init calls so far

vars == <<initialized, topology, pools, lockHolder, mem, arena, held, pc, frame, inits>>

HeaderAt(b) == mem[b[1]].hdr[b[2]]
BodyAt(b) == mem[b[1]].body[b[2]]

(* A store of w into the first word of b in the mappings m.  A store   *)
(* into memory that is no longer mapped faults; that outcome is not    *)
(* followed, memory stays as it was, and HeldLive reports the pointer. *)
SetWord(m, b, w) ==
  IF m[b[1]] # NULL /\ b[2] \in DOMAIN m[b[1]].body
  THEN [m EXCEPT ![b[1]].body[b[2]] = w] ELSE m

(* get_current_numa_node, sampled by create_arena. *)
CurrentNode(cpu) ==
  IF ~topology \/ cpu < 0 \/ cpu >= NumCpus THEN 0 ELSE TopoMap[cpu]

(* get_or_create_arena on a cpu: the thread's cache, or a new one; the  *)
(* calloc of create_arena may fail, and my_arena then stays NULL.        *)
ArenaOn(t, cpu) ==
  IF arena[t] # NULL THEN {arena[t]}
  ELSE {[numa_node |-> CurrentNode(cpu), free_lists |-> [c \in Classes |-> <<>>],
         stats_allocs |-> 0, stats_frees |-> 0]}
       \cup (IF ArenaCallocFails THEN {NULL} ELSE {})

(* g_node_pools[n].  For a node outside the table (numa_node_of_cpu     *)
(* gave -1) the read is undefined: a NULL word there makes numalloc      *)
(* return NULL; any other word would be used as a pool and is not        *)
(* followed.                                                             *)
PoolRead(n) == IF n \in Nodes THEN {pools[n]} ELSE {NULL}

(* numalloc_free of b on a thread whose cache is ar: a large block is   *)
(* unmapped, a small one pushed on the cache's stack of its header class,*)
(* its first word set to the old head (NULL when the stack was empty).    *)
FreeInto(ar, m, b) ==
  LET c == m[b[1]].hdr[b[2]].size_class IN
  IF c = Large
  THEN [ar |-> ar, mem |-> [m EXCEPT ![b[1]] = NULL]]
  ELSE [ar |-> [ar EXCEPT !.free_lists[c] = <<b>> \o @, !.stats_frees = StatWrap(@ + 1)],
        mem |-> SetWord(m, b, IF ar.free_lists[c] = <<>> THEN "zero" ELSE "link")]

(* numalloc(...) of operation fr of thread t returns b, its cache being  *)
(* ar and the mappings m: calloc zeroes the block; a realloc that got a  *)
(* new block copies the old one into it and then frees the old one; the  *)
(* client of a plain numalloc writes its data into the block, as every   *)
(* driver does before it reads it back.  The pointer goes to the         *)
(* caller's slot with what the caller knows of its first word.  A        *)
(* successful numalloc counts itself in the cache's stats_allocs.        *)
Filled(fr, b, m) ==
  SetWord(m, b, CASE fr.op = "calloc" -> "zero"
                  [] fr.op = "realloc" -> BodyAt(fr.old)
                  [] OTHER -> "data")
Known(t, fr) ==
  CASE fr.op = "calloc" -> "zero"
    [] fr.op = "realloc" -> held[t][fr.slot].know
    [] OTHER -> "data"

(* Variant: the old block is freed before it is copied. *)
DeliverFreeBeforeCopy(t, fr, b, ar, m) ==
  LET counted == IF b # NULL THEN [ar EXCEPT !.stats_allocs = StatWrap(@ + 1)] ELSE ar
      fx == IF b # NULL /\ fr.op = "realloc"
            THEN LET f == FreeInto(counted, m, fr.old) IN
                 [ar |-> f.ar, mem |-> SetWord(f.mem, b, f.mem[fr.old[1]].body[fr.old[2]])]
            ELSE [ar |-> counted, mem |-> IF b # NULL THEN Filled(fr, b, m) ELSE m]
  IN /\ held' = IF b = NULL THEN held
                ELSE [held EXCEPT ![t][fr.slot] = [blk |-> b, req |-> fr.req, know |-> Known(t, fr)]]
     /\ arena' = [arena EXCEPT ![t] = fx.ar]
     /\ mem' = fx.mem
     /\ pc' = [pc EXCEPT ![t] = "idle"]
     /\ frame' = [frame EXCEPT ![t] = NULL]

Deliver(t, fr, b, ar, m) ==
  LET counted == IF b # NULL THEN [ar EXCEPT !.stats_allocs = StatWrap(@ + 1)] ELSE ar
      filled == IF b # NULL THEN Filled(fr, b, m) ELSE m
      fx == IF b # NULL /\ fr.op = "realloc" THEN FreeInto(counted, filled, fr.old)
            ELSE [ar |-> counted, mem |-> filled]
  IN /\ held' = IF b = NULL THEN held
                ELSE [held EXCEPT ![t][fr.slot] = [blk |-> b, req |-> fr.req, know |-> Known(t, fr)]]
     /\ arena' = [arena EXCEPT ![t] = fx.ar]
     /\ mem' = fx.mem
     /\ pc' = [pc EXCEPT ![t] = "idle"]
     /\ frame' = [frame EXCEPT ![t] = NULL]

(* allocate_large_block: header + size, rounded to huge pages at or     *)
(* above HUGE_PAGE_SIZE; mmap (huge pages, else regular pages) may fail. *)
LargeAlignedSize(size) ==
  LET total == Wrap(size + HEADER_SIZE)
  IN IF total >= HUGE_PAGE_SIZE THEN RoundDown(Wrap(total + HUGE_PAGE_SIZE - 1), HUGE_PAGE_SIZE)
     ELSE total

AllocateLargeBlock(t, fr, ar, size) ==
  LET aligned == LargeAlignedSize(size) IN
  \/ /\ aligned > 0
     /\ \E id \in MapIds :
          /\ mem[id] = NULL
          /\ Deliver(t, fr, <<id, 0>>, ar,
               [mem EXCEPT ![id] = [kind |-> "large", len |-> aligned,
                  hdr |-> (0 :> [size |-> aligned, size_class |-> Large,
                                  numa_node |-> ar.numa_node]),
                  body |-> (0 :> "zero")]])
  \/ Deliver(t, fr, NULL, ar, mem)

(* numalloc(size) entered by operation fr of thread t running on cpu:   *)
(* the fast path pops the class stack; a miss enters the slow path.     *)
(* Variant: numalloc without the g_initialized check. *)
NumallocNoInitCheck(t, fr, size, cpu) ==
  /\ pc[t] = "idle"
  /\ IF size = 0 THEN Deliver(t, fr, NULL, arena[t], mem)
     ELSE
     \E ar \in ArenaOn(t, cpu) :
     LET c == get_size_class(size) IN
     CASE ar = NULL -> Deliver(t, fr, NULL, ar, mem)
       [] c # Large /\ ar.free_lists[c] # <<>> ->
            Deliver(t, fr, Head(ar.free_lists[c]),
                    [ar EXCEPT !.free_lists[c] = Tail(@)], mem)
       [] c = Large -> AllocateLargeBlock(t, fr, ar, size)
       [] OTHER ->
            \E pool \in PoolRead(ar.numa_node) :
              IF pool = NULL THEN Deliver(t, fr, NULL, ar, mem)
              ELSE /\ pc' = [pc EXCEPT ![t] = "lock"]
                   /\ frame' = [frame EXCEPT ![t] = [fr EXCEPT !.cls = c]]
                   /\ arena' = [arena EXCEPT ![t] = ar]
                   /\ UNCHANGED <<held, mem>>
  /\ UNCHANGED <<initialized, topology, pools, lockHolder, inits>>

Numalloc(t, fr, size, cpu) ==
  /\ pc[t] = "idle"
  /\ IF size = 0 \/ ~initialized THEN Deliver(t, fr, NULL, arena[t], mem)
     ELSE
     \E ar \in ArenaOn(t, cpu) :
     LET c == get_size_class(size) IN
     CASE ar = NULL -> Deliver(t, fr, NULL, ar, mem)
       [] c # Large /\ ar.free_lists[c] # <<>> ->
            Deliver(t, fr, Head(ar.free_lists[c]),
                    [ar EXCEPT !.free_lists[c] = Tail(@)], mem)
       [] c = Large -> AllocateLargeBlock(t, fr, ar, size)
       [] OTHER ->
            \E pool \in PoolRead(ar.numa_node) :
              IF pool = NULL THEN Deliver(t, fr, NULL, ar, mem)
              ELSE /\ pc' = [pc EXCEPT ![t] = "lock"]
                   /\ frame' = [frame EXCEPT ![t] = [fr EXCEPT !.cls = c]]
                   /\ arena' = [arena EXCEPT ![t] = ar]
                   /\ UNCHANGED <<held, mem>>
  /\ UNCHANGED <<initialized, topology, pools, lockHolder, inits>>

-----------------------------------------------------------------------------
(* slow_path_alloc for a small class: lock, check and read the watermark,*)
(* advance it and unlock, then carve the batch outside the lock.         *)

Home(t) == arena[t].numa_node
BatchBytes(c) == (ClassSize(c) + HEADER_SIZE) * REFILL_BATCH_SIZE

SlowLock(t) ==
  /\ pc[t] = "lock"
  /\ lockHolder[Home(t)] = NoThread
  /\ lockHolder' = [lockHolder EXCEPT ![Home(t)] = t]
  /\ pc' = [pc EXCEPT ![t] = "reserve"]
  /\ UNCHANGED <<initialized, topology, pools, mem, arena, held, frame, inits>>

(* Variant: tests the watermark alone, not the watermark plus the batch. *)
SlowReserveUsedOnly(t) ==
  LET n == Home(t)
      p == pools[n]
  IN /\ pc[t] = "reserve"
     /\ IF p.used > PoolSize
        THEN /\ lockHolder' = [lockHolder EXCEPT ![n] = NoThread]
             /\ Deliver(t, frame[t], NULL, arena[t], mem)
        ELSE /\ frame' = [frame EXCEPT ![t].batch = <<p.base, p.used>>]
             /\ pc' = [pc EXCEPT ![t] = "advance"]
             /\ UNCHANGED <<lockHolder, mem, arena, held>>
     /\ UNCHANGED <<initialized, topology, pools, inits>>

(* Variant: the exhaustion path returns without unlocking. *)
SlowReserveNoUnlock(t) ==
  LET n == Home(t)
      p == pools[n]
  IN /\ pc[t] = "reserve"
     /\ IF p.used + BatchBytes(frame[t].cls) > PoolSize
        THEN /\ Deliver(t, frame[t], NULL, arena[t], mem)
             /\ UNCHANGED lockHolder
        ELSE /\ frame' = [frame EXCEPT ![t].batch = <<p.base, p.used>>]
             /\ pc' = [pc EXCEPT ![t] = "advance"]
             /\ UNCHANGED <<lockHolder, mem, arena, held>>
     /\ UNCHANGED <<initialized, topology, pools, inits>>

SlowReserve(t) ==
  LET n == Home(t)
      p == pools[n]
  IN /\ pc[t] = "reserve"
     /\ IF p.used + BatchBytes(frame[t].cls) > PoolSize
        THEN /\ lockHolder' = [lockHolder EXCEPT ![n] = NoThread]
             /\ Deliver(t, frame[t], NULL, arena[t], mem)
        ELSE /\ frame' = [frame EXCEPT ![t].batch = <<p.base, p.used>>]
             /\ pc' = [pc EXCEPT ![t] = "advance"]
             /\ UNCHANGED <<lockHolder, mem, arena, held>>
     /\ UNCHANGED <<initialized, topology, pools, inits>>

SlowAdvance(t) ==
  LET n == Home(t) IN
  /\ pc[t] = "advance"
  /\ pools' = [pools EXCEPT ![n].used = @ + BatchBytes(frame[t].cls)]
  /\ lockHolder' = [lockHolder EXCEPT ![n] = NoThread]
  /\ pc' = [pc EXCEPT ![t] = "carve"]
  /\ UNCHANGED <<initialized, topology, mem, arena, held, frame, inits>>

(* Variant: installs the whole batch, returned head included. *)
SlowCarveKeepHead(t) ==
  LET fr == frame[t]
      c == fr.cls
      stride == ClassSize(c) + HEADER_SIZE
      base == fr.batch[1]
      Off(i) == fr.batch[2] + i * stride
      hdrs == [o \in {Off(i) : i \in 0 .. REFILL_BATCH_SIZE - 1} |->
                 [size |-> ClassSize(c), size_class |-> c, numa_node |-> Home(t)]]
      words == [o \in DOMAIN hdrs |-> IF o = Off(0) THEN "zero" ELSE "link"]
      stack == [k \in 1 .. REFILL_BATCH_SIZE |-> <<base, Off(REFILL_BATCH_SIZE - k)>>]
  IN /\ pc[t] = "carve"
     /\ Deliver(t, fr, Head(stack),
          [arena[t] EXCEPT !.free_lists[c] = stack],
          [mem EXCEPT ![base].hdr = hdrs @@ @, ![base].body = words @@ @])
     /\ UNCHANGED <<initialized, topology, pools, lockHolder, inits>>

SlowCarve(t) ==
  LET fr == frame[t]
      c == fr.cls
      stride == ClassSize(c) + HEADER_SIZE
      base == fr.batch[1]
      Off(i) == fr.batch[2] + i * stride
      hdrs == [o \in {Off(i) : i \in 0 .. REFILL_BATCH_SIZE - 1} |->
                 [size |-> ClassSize(c), size_class |-> c, numa_node |-> Home(t)]]
      words == [o \in DOMAIN hdrs |-> IF o = Off(0) THEN "zero" ELSE "link"]
      \* linked head-first: the last block carved is the head, the first
      \* one carved links to NULL
      stack == [k \in 1 .. REFILL_BATCH_SIZE |-> <<base, Off(REFILL_BATCH_SIZE - k)>>]
  IN /\ pc[t] = "carve"
     /\ Deliver(t, fr, Head(stack),
          [arena[t] EXCEPT !.free_lists[c] = Tail(stack)],
          [mem EXCEPT ![base].hdr = hdrs @@ @, ![base].body = words @@ @])
     /\ UNCHANGED <<initialized, topology, pools, lockHolder, inits>>

-----------------------------------------------------------------------------
(* numalloc_free, numalloc_calloc and numalloc_realloc. *)

NoFrame(s, req) == [op |-> "alloc", slot |-> s, req |-> req, cls |-> Large,
                    batch |-> NULL, old |-> NULL]

(* A large block is unmapped without a cache; a small one needs the    *)
(* thread's cache, and is dropped when it cannot be created.           *)
NumallocFree(t, b, cpu) ==
  IF HeaderAt(b).size_class = Large
  THEN /\ mem' = FreeInto(arena[t], mem, b).mem
       /\ UNCHANGED arena
  ELSE \E ar \in ArenaOn(t, cpu) :
         IF ar = NULL THEN UNCHANGED <<arena, mem>>
         ELSE /\ arena' = [arena EXCEPT ![t] = FreeInto(ar, mem, b).ar]
              /\ mem' = FreeInto(ar, mem, b).mem

Malloc(t, s, size, cpu) ==
  /\ held[t][s] = NULL
  /\ Numalloc(t, NoFrame(s, size), size, cpu)

Free(t, s, cpu) ==
  /\ pc[t] = "idle"
  /\ held[t][s] # NULL
  /\ NumallocFree(t, held[t][s].blk, cpu)
  /\ held' = [held EXCEPT ![t][s] = NULL]
  /\ UNCHANGED <<initialized, topology, pools, lockHolder, pc, frame, inits>>

(* The caller's need is num * size; numalloc receives the size_t product *)
(* once the division check has ruled out overflow.                      *)
(* Variant: no overflow check on num * size. *)
CallocNoOverflowCheck(t, s, num, size, cpu) ==
  LET total == Wrap(num * size) IN
  /\ held[t][s] = NULL
  /\ pc[t] = "idle"
  /\ num # 0 /\ size # 0
  /\ Numalloc(t, [NoFrame(s, num * size) EXCEPT !.op = "calloc"], total, cpu)

Calloc(t, s, num, size, cpu) ==
  LET total == Wrap(num * size) IN
  /\ held[t][s] = NULL
  /\ pc[t] = "idle"
  /\ num # 0 /\ size # 0
  /\ size = total \div num
  /\ Numalloc(t, [NoFrame(s, num * size) EXCEPT !.op = "calloc"], total, cpu)

(* Old capacity: the class size for a small block, header->size else. *)
OldSize(b) ==
  IF HeaderAt(b).size_class # Large THEN ClassSize(HeaderAt(b).size_class)
  ELSE HeaderAt(b).size

Realloc(t, s, size, cpu) ==
  LET p == held[t][s] IN
  /\ pc[t] = "idle"
  /\ CASE p = NULL -> Numalloc(t, NoFrame(s, size), size, cpu)
       [] size = 0 -> /\ NumallocFree(t, p.blk, cpu)
                      /\ held' = [held EXCEPT ![t][s] = NULL]
                      /\ UNCHANGED <<initialized, topology, pools, lockHolder, pc, frame, inits>>
       [] size <= OldSize(p.blk) ->
                      /\ held' = [held EXCEPT ![t][s].req = size]
                      /\ UNCHANGED <<initialized, topology, pools, lockHolder, mem, arena,
                                     pc, frame, inits>>
       [] OTHER -> Numalloc(t, [NoFrame(s, size) EXCEPT !.op = "realloc", !.old = p.blk],
                            size, cpu)

(* A client passes a pointer to another thread, which may free it. *)
Handoff(t, s, u, s2) ==
  /\ t # u
  /\ pc[t] = "idle" /\ pc[u] = "idle"
  /\ held[t][s] # NULL /\ held[u][s2] = NULL
  /\ held' = [held EXCEPT ![t][s] = NULL, ![u][s2] = held[t][s]]
  /\ UNCHANGED <<initialized, topology, pools, lockHolder, mem, arena, pc, frame, inits>>

-----------------------------------------------------------------------------
(* create_node_pool(node_id, size): a pool record with used = 0 over a  *)
(* fresh mapping of size bytes (numa_alloc_onnode, or mmap without      *)
(* libnuma), first-touch zeroed, with its mutex initialised; a failing   *)
(* calloc or mapping returns NULL, which is the k of NumallocInit below. *)
create_node_pool(id) == [base |-> id, used |-> 0]
PoolMapping == [kind |-> "pool", len |-> PoolSize, hdr |-> <<>>, body |-> <<>>]

-----------------------------------------------------------------------------
(* numalloc_init and numalloc_cleanup, called while no thread is inside  *)
(* the allocator.  Init discovers the topology (which may fail) and      *)
(* creates the pools in node order until one fails: k pools are made,    *)
(* g_node_pools[k] is set to NULL, and the others keep their old value.  *)

Quiescent == \A t \in Threads : pc[t] = "idle"

NumallocInit ==
  /\ inits < MaxInits
  /\ Quiescent
  /\ inits' = inits + 1
  /\ ~initialized    \* otherwise it only returns -1
  /\ \/ /\ topology' = FALSE
        /\ UNCHANGED <<initialized, pools, mem>>
     \/ /\ topology' = TRUE
        /\ \E k \in 0 .. NumNodes :
           \E ids \in [0 .. k - 1 -> {id \in MapIds : mem[id] = NULL}] :
             /\ IsInjective(ids)
             /\ pools' = [n \in Nodes |->
                            IF n < k THEN create_node_pool(ids[n])
                            ELSE IF n = k THEN NULL ELSE pools[n]]
             /\ mem' = [id \in MapIds |->
                          IF \E i \in DOMAIN ids : ids[i] = id
                          THEN PoolMapping
                          ELSE mem[id]]
             /\ initialized' = (k = NumNodes)
  /\ UNCHANGED <<lockHolder, arena, held, pc, frame>>

(* Clients free what they hold before cleanup, as every driver does. *)
NumallocCleanup ==
  /\ Quiescent
  /\ \A t \in Threads, s \in Slots : held[t][s] = NULL
  /\ initialized
  /\ mem' = [id \in MapIds |->
               IF \E n \in Nodes : pools[n] # NULL /\ pools[n].base = id
               THEN NULL ELSE mem[id]]
  /\ pools' = [n \in Nodes |-> NULL]
  /\ topology' = FALSE
  /\ initialized' = FALSE
  /\ UNCHANGED <<lockHolder, arena, held, pc, frame, inits>>

-----------------------------------------------------------------------------

Init ==
  /\ initialized = FALSE
  /\ topology = FALSE
  /\ pools = [n \in Nodes |-> NULL]
  /\ lockHolder = [n \in Nodes |-> NoThread]
  /\ mem = [id \in MapIds |-> NULL]
  /\ arena = [t \in Threads |-> NULL]
  /\ held = [t \in Threads |-> [s \in Slots |-> NULL]]
  /\ pc = [t \in Threads |-> "idle"]
  /\ frame = [t \in Threads |-> NULL]
  /\ inits = 0

SlowPath(t) == SlowLock(t) \/ SlowReserve(t) \/ SlowAdvance(t) \/ SlowCarve(t)

Client(t) ==
  \E s \in Slots, cpu \in SchedCpus :
    \/ \E n \in Requests : Malloc(t, s, n, cpu)
    \/ \E a \in CallocArgs : Calloc(t, s, a[1], a[2], cpu)
    \/ Free(t, s, cpu)
    \/ \E n \in Requests \cup {0} : Realloc(t, s, n, cpu)
    \/ \E u \in Threads, s2 \in Slots : Handoff(t, s, u, s2)

Next ==
  \/ NumallocInit
  \/ NumallocCleanup
  \/ \E t \in Threads : SlowPath(t) \/ Client(t)

(* A thread inside the slow path keeps running: the OS schedules it.  *)
(* The pthread mutex promises no fairness, so only weak fairness.     *)
Fairness == \A t \in Threads : WF_vars(SlowPath(t))

Spec == Init /\ [][Next]_vars
FairSpec == Spec /\ Fairness

-----------------------------------------------------------------------------
(* Properties. *)

Live(b) == mem[b[1]] # NULL /\ b[2] \in DOMAIN mem[b[1]].hdr
LiveBlocks == {<<id, o>> : id \in {i \in MapIds : mem[i] # NULL},
                           o \in UNION {DOMAIN mem[i].hdr : i \in {j \in MapIds : mem[j] # NULL}}}
HeldPtrs == {<<t, s>> : t \in Threads, s \in Slots}
Occurs(b, seq) == Len(SelectSeq(seq, LAMBDA x : x = b))
CachedCount(b) ==
  SumFunction([tc \in Threads \X Classes |->
                 IF arena[tc[1]] = NULL THEN 0 ELSE Occurs(b, arena[tc[1]].free_lists[tc[2]])])
HolderOf(b) == {ts \in HeldPtrs : held[ts[1]][ts[2]] # NULL /\ held[ts[1]][ts[2]].blk = b}

TypeOK ==
  /\ initialized \in BOOLEAN /\ topology \in BOOLEAN
  /\ pools \in [Nodes -> {NULL} \cup [base : MapIds, used : 0 .. PoolSize]]
  /\ lockHolder \in [Nodes -> Threads \cup {NoThread}]
  /\ \A id \in MapIds : mem[id] = NULL \/
       /\ mem[id].hdr \in [DOMAIN mem[id].hdr -> Header]
       /\ mem[id].body \in [DOMAIN mem[id].hdr -> Word]
  /\ \A t \in Threads : arena[t] = NULL \/ arena[t].free_lists \in [Classes -> Seq(Blk)]
  /\ held \in [Threads -> [Slots -> {NULL} \cup [blk : Blk, req : Nat, know : Word]]]
  /\ pc \in [Threads -> {"idle", "lock", "reserve", "advance", "carve"}]
  /\ \A t \in Threads : frame[t] = NULL \/ frame[t] \in Frame
  /\ inits \in 0 .. MaxInits

(* Every block carved from a live pool, and every live large mapping, is *)
(* in exactly one place: one client pointer or one entry of one thread   *)
(* cache's stack.  This is what the unlocked carve after the watermark   *)
(* advance, the head/next split of a fresh batch (slow_path_alloc), and   *)
(* frees and reallocs on any thread must together preserve: a block in   *)
(* two places is handed out twice, a block in none is leaked.            *)
OwnedOnce ==
  \A b \in LiveBlocks : Live(b) => Cardinality(HolderOf(b)) + CachedCount(b) = 1

(* No pointer a client holds lies in memory that has been unmapped: the *)
(* fast path never pops a block of a released pool, and a freed large  *)
(* block is never returned again.                                      *)
HeldLive ==
  \A t \in Threads, s \in Slots : held[t][s] # NULL => Live(held[t][s].blk)

(* The bytes a pointer may use cover what its caller asked for: the class *)
(* size of a small block, the page-rounded mapping minus the header of a *)
(* large one, against the request of numalloc, calloc (num * size before  *)
(* any wrap) or realloc (also when realloc keeps the pointer in place).   *)
Capacity(b) ==
  IF HeaderAt(b).size_class # Large THEN ClassSize(HeaderAt(b).size_class)
  ELSE RoundUp(mem[b[1]].len, PAGE_SIZE) - HEADER_SIZE
CapacityCoversRequest ==
  \A t \in Threads, s \in Slots :
    held[t][s] # NULL /\ Live(held[t][s].blk) => Capacity(held[t][s].blk) >= held[t][s].req

(* Spec section 8, invariants 3 and 4, and the no-corruption scenario:   *)
(* what a client knows of the block it holds (zero after calloc, its own *)
(* data after numalloc, either carried over by realloc or handed over by *)
(* another thread) is what the block holds, whatever the free-list links *)
(* that frees and refills write into the first word of free blocks on    *)
(* every thread, and whether realloc moved the block or kept it.         *)
ClientDataIntact ==
  \A t \in Threads, s \in Slots :
    LET p == held[t][s] IN
    p # NULL /\ Live(p.blk) => BodyAt(p.blk) = p.know

(* Spec section 3: the topology maps every CPU to a node in [0, N), so *)
(* the home node create_arena samples indexes g_node_pools in bounds.    *)
ArenaHomeInTopology ==
  \A t \in Threads : arena[t] # NULL => arena[t].numa_node \in Nodes

(* numalloc_get_thread_stats on thread t: <<allocs, frees>> of its cache, *)
(* or <<0, 0>> when the thread has none.                                 *)
numalloc_get_thread_stats(t) ==
  IF arena[t] # NULL THEN <<arena[t].stats_allocs, arena[t].stats_frees>> ELSE <<0, 0>>

(* Spec section 4.5: every successful allocation and every successful  *)
(* free is counted in the calling thread's cache, so over all caches the *)
(* allocations counted less the frees counted is the number of blocks    *)
(* the clients hold (modulo the counters' width), as the threads would   *)
(* read it from numalloc_get_thread_stats.                               *)
StatsBalance ==
  LET allocs == SumFunction([t \in Threads |-> numalloc_get_thread_stats(t)[1]])
      frees == SumFunction([t \in Threads |-> numalloc_get_thread_stats(t)[2]])
      holding == Cardinality({ts \in HeldPtrs : held[ts[1]][ts[2]] # NULL})
  IN StatWrap(allocs - frees) = StatWrap(holding)

(* Every live pool mapping is still reachable from g_node_pools, so that *)
(* cleanup can release it: none is leaked by a failed or repeated init.  *)
PoolsReachable ==
  \A id \in MapIds : mem[id] # NULL /\ mem[id].kind = "pool" =>
    \E n \in Nodes : pools[n] # NULL /\ pools[n].base = id

(* Once the allocator is initialised, so that numalloc classifies its   *)
(* requests, get_size_class agrees with the ladder's definition for every *)
(* size_t value: the smallest class whose size is at least the request, *)
(* else large.                                                           *)
SizeClassRef(size) ==
  LET fits == {c \in Classes : size <= ClassSize(c)} IN
  IF fits = {} THEN Large ELSE CHOOSE c \in fits : \A d \in fits : c <= d
SizeClassCorrect == initialized => \A size \in 1 .. SizeMax - 1 : get_size_class(size) = SizeClassRef(size)

(* The allocator implements the contract of numa_alloc.h (module Heap): *)
(* seen through the pointers its clients hold, every numalloc, calloc,   *)
(* realloc, free, init and cleanup, with all the slow-path steps, cache  *)
(* traffic and mappings behind it, is a step of Heap or leaves the      *)
(* clients' view unchanged; above all no call returns a block that some *)
(* client still holds, and nothing is allocated before numalloc_init    *)
(* succeeds or after numalloc_cleanup (the g_initialized check).       *)
ClientView ==
  [t \in Threads |-> [s \in Slots |-> IF held[t][s] = NULL THEN NULL ELSE held[t][s].blk]]
H == INSTANCE Heap WITH Addrs <- Blk, ready <- initialized, owned <- ClientView
HeapSpec == H!Spec

(* A pool mutex, once taken, is always released: the exhaustion path of *)
(* slow_path_alloc unlocks before it returns, as the success path does.  *)
LockEventuallyReleased ==
  \A n \in Nodes, t \in Threads : (lockHolder[n] = t) ~> (lockHolder[n] # t)

(* A thread inside numalloc's slow path returns once the other threads  *)
(* stop starting calls.  The pool mutex is not fair, so while threads of *)
(* its node keep refilling, a waiter may be overtaken forever; nothing    *)
(* else may hold it: no lost unlock, no wait on a mutex nobody releases, *)
(* no cycle of waiters across the nodes' mutexes.                        *)
ClientsStop == <>[][\A t \in Threads : ~Client(t)]_vars
SlowPathReturns ==
  ClientsStop => \A t \in Threads : (pc[t] # "idle") ~> (pc[t] = "idle")

==============================================================================
