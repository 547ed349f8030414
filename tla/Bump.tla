-------------------------------- MODULE Bump --------------------------------
(***************************************************************************)
(* The bump allocator of src/src/memalloc_bump2.c, which the parse jobs of *)
(* a package share for their syntax trees.  An allocation moves a->ptr     *)
(* under the read lock of tailmu, a new slab is made under its write lock, *)
(* and a free moves a->ptr back with a compare-and-swap and no lock.       *)
(*                                                                         *)
(* The lock is that of RWMutex, taken here as its readers and its writer.  *)
(* Addresses are numbers, relative to the first slab and in units of       *)
(* MIN_ALIGNMENT.                                                          *)
(***************************************************************************)
EXTENDS Integers

CONSTANTS BumpThreads,
          Sizes,        \* sizes that are asked for, aligned
          SlabSize,     \* a->head.size
          Header,       \* sizeof(slab_t); the first slab's is taken as large
          Bases,        \* where the operating system may map more slabs
          BumpMaxOps    \* bound: calls per thread

ASSUME BumpAssumptions ==
  /\ Sizes \subseteq Nat \ {0} /\ Header \in Nat \ {0} /\ SlabSize \in Nat
  /\ SlabSize > Header /\ Bases \subseteq Int /\ BumpMaxOps \in Nat

\* The locals of a call are zero or empty outside it.
VARIABLES slabs,        \* [base, size] of each slab
          tail, ptr,    \* a->tail, a->ptr
          readers, writers,
          bpc, size, old,       \* old[t]: t's local oldptr
          block,        \* block[t]: the block that t resizes or frees, if any
          blocks,       \* the memory in use: [at, size, by, call]
          bops,
          raced         \* history: two threads were between load and store of ptr

bumpVars == <<slabs, tail, ptr, readers, writers, bpc, size, old, block, blocks, bops, raced>>

Limit(s) == s.base + s.size
End == Limit(tail)      \* a->end, "== tail + tail->size"

\* memalloc_bump2
BumpInit ==
  /\ tail = [base |-> 0, size |-> SlabSize]
  /\ slabs = {tail}
  /\ ptr = Header
  /\ readers = {} /\ writers = {}
  /\ bpc = [t \in BumpThreads |-> "idle"]
  /\ size = [t \in BumpThreads |-> 0]
  /\ old = [t \in BumpThreads |-> 0]
  /\ block = [t \in BumpThreads |-> {}]
  /\ blocks = {}
  /\ bops = [t \in BumpThreads |-> 0]
  /\ raced = FALSE

BumpGoto(t, l) == bpc' = [bpc EXCEPT ![t] = l]

BumpReturn(t) ==
  /\ BumpGoto(t, "idle")
  /\ size' = [size EXCEPT ![t] = 0]
  /\ old' = [old EXCEPT ![t] = 0]
  /\ block' = [block EXCEPT ![t] = {}]

\* Bugs: a new slab is made while others allocate; a free stores what it
\* computed.
CanWriteAlways == writers = {}
StillAtAlways(t) == TRUE

CanRead == writers = {}
CanWrite == writers = {} /\ readers = {}
StillAt(t) == ptr = old[t]     \* AtomicCASAcqRel(&a->ptr, &oldptr, newptr)

-----------------------------------------------------------------------------
\* _memalloc_bump_impl: allocate, or allocate again for a block that grows ...
Alloc(t, n, own) ==
  /\ bpc[t] = "idle" /\ bops[t] < BumpMaxOps
  /\ own = {} \/ \E b \in blocks : own = {b} /\ b.by = t /\ b.size < n
  /\ bops' = [bops EXCEPT ![t] = @ + 1]
  /\ size' = [size EXCEPT ![t] = n]
  /\ block' = [block EXCEPT ![t] = own]
  /\ BumpGoto(t, "rlock")
  /\ UNCHANGED <<slabs, tail, ptr, readers, writers, old, blocks, raced>>

\* ... or free: only the last block is really given back.
Free(t, b) ==
  /\ bpc[t] = "idle" /\ bops[t] < BumpMaxOps
  /\ b \in blocks /\ b.by = t
  /\ bops' = [bops EXCEPT ![t] = @ + 1]
  /\ \/ /\ ptr = b.at + b.size
        /\ old' = [old EXCEPT ![t] = ptr]
        /\ block' = [block EXCEPT ![t] = {b}]
        /\ BumpGoto(t, "cas") /\ UNCHANGED blocks
     \/ /\ ptr # b.at + b.size
        /\ blocks' = blocks \ {b} /\ UNCHANGED <<old, block, bpc>>
  /\ UNCHANGED <<slabs, tail, ptr, readers, writers, size, raced>>

FreeCAS(t) ==
  /\ bpc[t] = "cas"
  /\ \E b \in block[t] : ptr' = IF StillAt(t) THEN old[t] - b.size ELSE ptr
  /\ blocks' = blocks \ block[t]
  /\ BumpReturn(t)
  /\ UNCHANGED <<slabs, tail, readers, writers, bops, raced>>

-----------------------------------------------------------------------------
\* bump_alloc
ReadLock(t) ==
  /\ bpc[t] = "rlock" /\ CanRead
  /\ readers' = readers \cup {t}
  /\ BumpGoto(t, "load")
  /\ UNCHANGED <<slabs, tail, ptr, writers, size, old, block, blocks, bops, raced>>

LoadPtr(t) ==
  /\ bpc[t] = "load"
  /\ old' = [old EXCEPT ![t] = ptr]
  /\ raced' = (raced \/ \E u \in BumpThreads : bpc[u] = "store")
  /\ BumpGoto(t, "store")
  /\ UNCHANGED <<slabs, tail, ptr, readers, writers, size, block, blocks, bops>>

\* With room in the slab the new pointer is stored, whatever it is by now;
\* bump_resize then lets the old block lie.
StorePtr(t) ==
  /\ bpc[t] = "store" /\ old[t] + size[t] <= End
  /\ ptr' = old[t] + size[t]
  /\ readers' = readers \ {t}
  /\ blocks' = (blocks \ block[t]) \cup
               {[at |-> old[t], size |-> size[t], by |-> t, call |-> bops[t]]}
  /\ BumpReturn(t)
  /\ UNCHANGED <<slabs, tail, writers, bops, raced>>

\* Without, the read lock is given up for the write lock.
NoRoom(t) ==
  /\ bpc[t] = "store" /\ old[t] + size[t] > End
  /\ readers' = readers \ {t}
  /\ BumpGoto(t, "grow")
  /\ UNCHANGED <<slabs, tail, ptr, writers, size, old, block, blocks, bops, raced>>

-----------------------------------------------------------------------------
\* bump_alloc_grow
NewSlab(t, base) ==
  [base |-> base,
   size |-> IF size[t] + Header > SlabSize THEN size[t] + Header ELSE SlabSize]

Disjoint(s, u) == Limit(s) <= u.base \/ Limit(u) <= s.base

\* The address asked for is only a hint: the new slab may be anywhere.
Grow(t) ==
  /\ bpc[t] = "grow" /\ CanWrite
  /\ \E base \in Bases :
       LET slab == NewSlab(t, base) IN
       /\ \A s \in slabs : Disjoint(slab, s)
       /\ slabs' = slabs \cup {slab}
       /\ tail' = slab
  /\ writers' = {t}
  /\ BumpGoto(t, "grown")
  /\ UNCHANGED <<ptr, readers, size, old, block, blocks, bops, raced>>

\* a->ptr follows a->tail and a->end; the caller takes the read lock again.
Grown(t) ==
  /\ bpc[t] = "grown"
  /\ ptr' = tail.base + Header
  /\ writers' = {}
  /\ BumpGoto(t, "rlock")
  /\ UNCHANGED <<slabs, tail, readers, size, old, block, blocks, bops, raced>>

\* sys_vm_alloc fails, and so does the allocation.
GrowFails(t) ==
  /\ bpc[t] = "grow" /\ CanWrite
  /\ BumpReturn(t)
  /\ UNCHANGED <<slabs, tail, ptr, readers, writers, blocks, bops, raced>>

BumpStep(t) ==
  \/ \E n \in Sizes, own \in {{}} \cup {{b} : b \in blocks} : Alloc(t, n, own)
  \/ \E b \in blocks : Free(t, b)
  \/ FreeCAS(t) \/ ReadLock(t) \/ LoadPtr(t) \/ StorePtr(t) \/ NoRoom(t)
  \/ Grow(t) \/ Grown(t) \/ GrowFails(t)

BumpNext == \E t \in BumpThreads : BumpStep(t)

BumpSpec == BumpInit /\ [][BumpNext]_bumpVars

-----------------------------------------------------------------------------
Block == [at : Int, size : Sizes, by : BumpThreads, call : 0..BumpMaxOps]

BumpTypeOK ==
  /\ slabs \subseteq [base : Int, size : Nat] /\ tail \in slabs
  /\ ptr \in Int
  /\ readers \subseteq BumpThreads /\ writers \subseteq BumpThreads
  /\ bpc \in [BumpThreads ->
               {"idle", "cas", "rlock", "load", "store", "grow", "grown"}]
  /\ size \in [BumpThreads -> Sizes \cup {0}]
  /\ old \in [BumpThreads -> Int]
  /\ block \in [BumpThreads -> SUBSET Block]
  /\ blocks \subseteq Block
  /\ bops \in [BumpThreads -> 0..BumpMaxOps]
  /\ raced \in BOOLEAN

\* A slab's memory begins behind its header.
InSlab(b, s) == s.base + Header <= b.at /\ b.at + b.size <= Limit(s)

Apart(b, c) == b.at + b.size <= c.at \/ c.at + c.size <= b.at

\* "thread safe bump allocator": no two blocks in use share memory.
NoOverlap == \A b, c \in blocks : b = c \/ Apart(b, c)

\* Every block lies in a slab, behind its header, also when threads race for
\* a->ptr and for a new slab; and blocks are apart, whatever is freed and grown
\* meanwhile, as long as no two threads load a->ptr before one of them has
\* stored it.
BlocksSound ==
  /\ \A b \in blocks : \E s \in slabs : InSlab(b, s)
  /\ ~raced => NoOverlap
=============================================================================
