------------------------------ MODULE MemoryMap ------------------------------
(***************************************************************************)
(* Memory for V8 on the console (mman-horizon.cc): mmap, munmap and        *)
(* mprotect over a reserved range of addresses that is backed slab by      *)
(* slab, and a region of executable memory that is handed out once.        *)
(*                                                                         *)
(* Data: a page is in use while some mapping has it.  A slab of pages is   *)
(* backed at the first access to one of them and stays so, so a page that  *)
(* is unmapped keeps its contents, and a mapping that takes it must clear  *)
(* them.  Every call holds one mutex for all it does.  Addresses count in  *)
(* pages from the start of the range.                                      *)
(***************************************************************************)
EXTENDS Integers, FiniteSets

CONSTANTS
  SlabPages,    \* pages of a slab
  ArenaSizes,   \* pages of the ranges that may be reserved
  CodeFloor,    \* least size of the executable region
  Headroom,     \* room in it for WebAssembly
  CodeCaps,     \* a third of the memory of the process, or the embedder's limit
  MaxCode       \* bound: the largest executable mapping asked for

\* What the model asks of its constants.
MemoryAssumption ==
  /\ SlabPages \in Nat \ {0} /\ ArenaSizes \subseteq Nat \ {0}
  /\ CodeFloor \in Nat \ {0} /\ Headroom \in Nat /\ CodeCaps \subseteq Nat /\ MaxCode \in Nat

VARIABLES
  arena,      \* pages of the range, 0 before it is reserved
  tried,      \* the reservation was tried
  used,       \* pages in use (page_used_)
  firstFree,  \* first_free_
  usedPages,  \* used_pages_
  backed,     \* slabs that are committed
  stained,    \* backed pages that are not zero
  usable,     \* pages the caller was told it may write to
  code        \* the executable region

memoryVars == <<arena, tried, used, firstFree, usedPages, backed, stained, usable, code>>
dataVars == <<arena, tried, used, firstFree, usedPages, backed, stained, usable>>

NoCode == [tried |-> FALSE, size |-> 0, next |-> 0]
Most(a, b) == IF a < b THEN b ELSE a
Least(a, b) == IF a < b THEN a ELSE b

AllPages == 0 .. arena - 1
Run(first, count) == first .. first + count - 1
Runs(P) ==
  {Run(f, n) : f \in AllPages, n \in 1 .. arena} \cap SUBSET P
SlabOf(p) == p \div SlabPages
SlabsOf(P) == {SlabOf(p) : p \in P}
InSlabs(S) == {p \in AllPages : SlabOf(p) \in S}

-----------------------------------------------------------------------------
(* first_free_ moves past the pages in use.                                *)
Skipped(first, u) ==
  IF \E p \in AllPages : p >= first /\ p \notin u
  THEN CHOOSE p \in AllPages :
         p >= first /\ p \notin u /\ \A q \in AllPages : q >= first /\ q \notin u => p <= q
  ELSE Most(first, arena)

(* Reserve takes the lowest run of free pages from first_free_ on.         *)
Fits(first, need, u) ==
  first >= firstFree /\ first + need <= arena /\ Run(first, need) \cap u = {}
Found(first, need) ==
  Fits(first, need, used) /\ \A f \in AllPages : Fits(f, need, used) => first <= f

(* Pages of a new mapping are cleared where their slabs are backed.        *)
Uncleared(P) == stained
Cleared(P) == stained \ P

(* The slabs of a range are backed one after the other, and each may fail. *)
(* A slab that is newly backed is zero.                                    *)
AllButLast(P) == {s \in SlabsOf(P) : \E t \in SlabsOf(P) : s < t}
Needed(P) == SlabsOf(P)
Commits(P, b) == b = backed \union Needed(P)
CommitFails(P, b) ==
  \E s \in SlabsOf(P) \ backed : b = backed \union {t \in SlabsOf(P) : t < s}

(* Release forgets the pages, whatever is in them.                         *)
KeptFirst(first) == firstFree
Lowered(first) == Least(firstFree, first)

-----------------------------------------------------------------------------
(* The range is reserved at the first call, and only tried once.           *)
ReserveRange ==
  /\ ~tried /\ tried' = TRUE
  /\ \E n \in ArenaSizes \union {0} : arena' = n
  /\ UNCHANGED <<used, firstFree, usedPages, backed, stained, usable, code>>

Take(first, need) ==
  /\ used' = used \union Run(first, need)
  /\ usedPages' = usedPages + need
  /\ firstFree' = Skipped(firstFree, used \union Run(first, need))

(* mmap without access reserves addresses only.                            *)
MapReserved(first, need) ==
  /\ Found(first, need)
  /\ Take(first, need)
  /\ stained' = Cleared(Run(first, need))
  /\ UNCHANGED <<arena, tried, backed, usable, code>>

(* mmap for writing backs the pages too, or gives them up again.           *)
MapWritable(first, need) ==
  LET P == Run(first, need) IN
  /\ Found(first, need)
  /\ stained' = Cleared(P)
  /\ \/ /\ Commits(P, backed') /\ Take(first, need)
        /\ usable' = usable \union P
     \/ /\ CommitFails(P, backed')
        /\ firstFree' = Least(Skipped(firstFree, used \union P), first)
        /\ UNCHANGED <<used, usedPages, usable>>
  /\ UNCHANGED <<arena, tried, code>>

(* mmap at an address inside a mapping: the pages start afresh and stay    *)
(* owned, also when they cannot be backed.                                 *)
MapFixed(P, writable) ==
  /\ used' = used \union P
  /\ usedPages' = usedPages + Cardinality(P \ used)
  /\ firstFree' = Skipped(firstFree, used \union P)
  /\ stained' = Cleared(P)
  /\ \/ /\ writable /\ Commits(P, backed')
        /\ usable' = usable \union P
     \/ /\ writable /\ CommitFails(P, backed')
        /\ usable' = usable \ P
     \/ /\ ~writable /\ backed' = backed
        /\ usable' = usable \ P
  /\ UNCHANGED <<arena, tried, code>>

Unmap(first, count) ==
  LET P == Run(first, count) IN
  /\ used' = used \ P
  /\ usedPages' = usedPages - Cardinality(P \cap used)
  /\ firstFree' = Lowered(first)
  /\ usable' = usable \ P
  /\ UNCHANGED <<arena, tried, backed, stained, code>>

(* mprotect backs what it makes accessible.  Taking access away does       *)
(* nothing: the pages stay as they are.                                    *)
Protect(P, writable) ==
  /\ \/ /\ writable /\ Commits(P, backed')
        /\ usable' = usable \union P
     \/ /\ writable /\ CommitFails(P, backed')
        /\ UNCHANGED usable
     \/ /\ ~writable /\ backed' = backed
        /\ usable' = usable \ P
  /\ UNCHANGED <<arena, tried, used, firstFree, usedPages, stained, code>>

(* The caller writes where it may.  A page that is not backed faults.      *)
Write(p) ==
  /\ SlabOf(p) \in backed
  /\ stained' = stained \union {p}
  /\ UNCHANGED <<arena, tried, used, firstFree, usedPages, backed, usable, code>>

-----------------------------------------------------------------------------
(* The executable region is made at the first call, as large as wanted or  *)
(* by halves as far as the floor, and never given back in parts.           *)
Wanted(need, cap) ==
  Least(Most(need, CodeFloor) + Headroom, Most(cap, CodeFloor))
Powers(want) == {d \in 2 .. want : \E i \in 1 .. want : d = 2^i}
HalvedFreely(want, d) == want \div d \* mutant: no floor
Halved(want, d) == Most(want \div d, CodeFloor)
MadeSizes(want) == {want} \union {Halved(want, d) : d \in Powers(want)}

MakeCode(need) ==
  /\ ~code.tried
  /\ \E cap \in CodeCaps :
       \E size \in MadeSizes(Wanted(need, cap)) \union {0} :
         code' = [tried |-> TRUE, size |-> size,
                  next |-> IF need <= size THEN need ELSE 0]
  /\ UNCHANGED dataVars

MapCode(need) ==
  /\ code.tried /\ code.next + need <= code.size
  /\ code' = [code EXCEPT !.next = @ + need]
  /\ UNCHANGED dataVars

(* horizon_mman_teardown, once V8 is gone.                                 *)
Teardown ==
  /\ tried
  /\ arena' = 0 /\ tried' = FALSE
  /\ used' = {} /\ firstFree' = 0 /\ usedPages' = 0
  /\ backed' = {} /\ stained' = {} /\ usable' = {}
  /\ code' = NoCode

-----------------------------------------------------------------------------
MemoryMapInit ==
  /\ arena = 0 /\ tried = FALSE
  /\ used = {} /\ firstFree = 0 /\ usedPages = 0
  /\ backed = {} /\ stained = {} /\ usable = {}
  /\ code = NoCode

\* V8 unmaps, protects and remaps pages of its own mappings.
Data ==
  \/ \E first \in AllPages, need \in 1 .. arena :
       MapReserved(first, need) \/ MapWritable(first, need)
  \/ \E first \in AllPages, count \in 1 .. arena :
       Run(first, count) \subseteq used /\ Unmap(first, count)
  \/ \E P \in Runs(used), writable \in BOOLEAN : MapFixed(P, writable) \/ Protect(P, writable)
  \/ \E p \in usable : Write(p)

MemoryMapNext ==
  \/ ReserveRange
  \/ Data
  \/ \E need \in 1 .. MaxCode : MakeCode(need) \/ MapCode(need)
  \/ Teardown

MemoryMapSpec == MemoryMapInit /\ [][MemoryMapNext]_memoryVars

-----------------------------------------------------------------------------
(* No free page lies below the place where the search begins, so a request *)
(* fails only if there is no room, and the count of pages is right         *)
(* (mman-horizon.cc:303, 337).                                             *)
FreePagesFound ==
  /\ \A p \in AllPages : p < firstFree => p \in used
  /\ usedPages = Cardinality(used)

(* What the caller was told it may write to is backed: V8 never faults on  *)
(* it (mman-horizon.cc:378).                                               *)
UsableIsBacked == usable \subseteq used /\ SlabsOf(usable) \subseteq backed

(* The arena is anonymous memory.  In particular pages that are used       *)
(* again do not show what was in them (mman-horizon.cc:312), and a         *)
(* mapping takes no page of another one.                                   *)
Memory == INSTANCE AnonymousMemory WITH
  Pages <- UNION {0 .. n - 1 : n \in ArenaSizes}, mapped <- used, written <- stained \cap used
ArenaIsMemory == Memory!MemorySpec

(* The executable region is never smaller than V8's code range needs, and  *)
(* what it hands out lies inside (mman-horizon.cc:92, 136).                *)
CodeFits ==
  /\ code.size # 0 => code.size >= CodeFloor
  /\ code.next <= code.size

(* The books of the arena and of the code heap are right after any         *)
(* sequence of calls (mman-horizon.cc).                                    *)
ArenaAccounted == FreePagesFound /\ UsableIsBacked /\ CodeFits
=============================================================================
