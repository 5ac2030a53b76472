------------------------- MODULE NativeServicesProofs -------------------------
(***************************************************************************)
(* Proofs about what the native program offers to scripts.  MemoryMap, for *)
(* every size of the slabs and of the range: what V8 may write to is       *)
(* backed, no free page is overlooked, and the arena is anonymous memory.  *)
(* HttpReader, for every length of a resource and every answer of a        *)
(* server: what is read is what is at the position.  AudioStream, for      *)
(* every capacity, quantum and size of a write: the two threads use the    *)
(* ring without a lock and it is a queue.  AudioSink, for every number of  *)
(* graphs and voices: the driver, its thread, the sinks and their voices   *)
(* belong together.                                                        *)
(***************************************************************************)
EXTENDS HttpReader, MemoryMap, AudioStream, AudioSink,
        FiniteSetTheorems, SequenceTheorems, WellFoundedInduction, TLAPS

-----------------------------------------------------------------------------
(* Every non-empty set of natural numbers has a least element. *)
LEMMA LeastNat ==
  ASSUME NEW T \in SUBSET Nat, T # {}
  PROVE  \E x \in T : \A y \in T : x <= y
<1>1. PICK x \in T : \A y \in T : <<y, x>> \notin OpToRel(<, Nat)
  BY NatLessThanWellFounded, WFMin
<1>2. \A y \in T : ~(y < x)
  BY <1>1 DEF OpToRel
<1> QED
  BY <1>2

-----------------------------------------------------------------------------
(* Pages lie in the range, and before it is reserved there are none.       *)
PagesInArena ==
  /\ arena \in ArenaSizes \union {0}
  /\ used \subseteq AllPages /\ stained \subseteq AllPages
  /\ firstFree \in Nat
  /\ ~tried => arena = 0 /\ used = {} /\ stained = {} /\ firstFree = 0

(* The executable region has sizes.                                        *)
CodeHasSize == code \in [tried : BOOLEAN, size : Nat, next : Nat]

(* The inductive invariant. *)
ArenaInv == PagesInArena /\ FreePagesFound /\ UsableIsBacked
CodeInv == CodeHasSize /\ CodeFits

-----------------------------------------------------------------------------
(* The pages of the range are finitely many.                               *)
LEMMA ArenaSize ==
  ASSUME MemoryAssumption, PagesInArena
  PROVE  arena \in Nat /\ IsFiniteSet(AllPages) /\ IsFiniteSet(used)
<1>1. arena \in Nat
  BY DEF MemoryAssumption, PagesInArena
<1>2. IsFiniteSet(AllPages)
  BY <1>1, FS_Interval DEF AllPages
<1>3. QED BY <1>1, <1>2, FS_Subset DEF PagesInArena

(* A run of pages has their number.                                        *)
LEMMA RunSize ==
  ASSUME NEW first \in Nat, NEW count \in Nat
  PROVE  /\ IsFiniteSet(Run(first, count)) /\ Cardinality(Run(first, count)) = count
         /\ \A p \in Run(first, count) : p \in Nat /\ first <= p /\ p < first + count
<1>1. first + count - 1 \in Int
  OBVIOUS
<1>2. IsFiniteSet(Run(first, count)) /\ Cardinality(Run(first, count)) = count
  BY <1>1, FS_Interval DEF Run
<1>3. QED BY <1>2 DEF Run

(* first_free_ moves to a page that is free, or past the range; it skips   *)
(* only pages in use.                                                      *)
LEMMA SkipsUsed ==
  ASSUME NEW first \in Nat, NEW u, arena \in Nat
  PROVE  /\ Skipped(first, u) \in Nat
         /\ \A p \in AllPages : first <= p /\ p < Skipped(first, u) => p \in u
<1> DEFINE free == {p \in AllPages : p >= first /\ p \notin u}
<1>1. AllPages \subseteq Nat
  BY DEF AllPages
<1>2. CASE free = {}
  BY <1>1, <1>2 DEF Skipped, Most, AllPages
<1>3. CASE free # {}
  <2>1. PICK x \in free : \A y \in free : x <= y
    BY <1>1, <1>3, LeastNat
  <2>2. \E p \in AllPages : p >= first /\ p \notin u
    BY <2>1
  <2> DEFINE least(p) == p >= first /\ p \notin u /\ \A q \in AllPages : q >= first /\ q \notin u => p <= q
  <2>3. Skipped(first, u) = CHOOSE p \in AllPages : least(p)
    BY <2>2 DEF Skipped
  <2>4. x \in AllPages /\ least(x)
    BY <2>1
  <2>5. Skipped(first, u) \in AllPages /\ least(Skipped(first, u))
    <3> HIDE DEF least
    <3>1. QED BY <2>3, <2>4
  <2>6. \A p \in AllPages : first <= p /\ p < Skipped(first, u) => p \in u
    <3>1. SUFFICES ASSUME NEW p \in AllPages, first <= p, p < Skipped(first, u), p \notin u
                   PROVE  FALSE
      OBVIOUS
    <3>2. p \in Nat /\ Skipped(first, u) \in Nat
      BY <1>1, <2>5
    <3>3. Skipped(first, u) <= p
      BY <2>5, <3>1
    <3>4. QED BY <3>1, <3>2, <3>3
  <2>7. Skipped(first, u) \in Nat
    BY <1>1, <2>5
  <2>8. QED BY <2>6, <2>7
<1>4. QED BY <1>2, <1>3

(* The run of pages a new mapping takes is free.                           *)
LEMMA FoundIsFree ==
  ASSUME MemoryAssumption, ArenaInv, NEW first \in AllPages, NEW need \in 1..arena, Found(first, need)
  PROVE  /\ first \in Nat /\ need \in Nat /\ firstFree <= first
         /\ Run(first, need) \subseteq AllPages /\ Run(first, need) \cap used = {}
<1>1. arena \in Nat /\ first \in Nat /\ need \in Nat
  BY ArenaSize DEF ArenaInv, AllPages
<1>2. firstFree <= first /\ first + need <= arena /\ Run(first, need) \cap used = {}
  BY DEF Found, Fits
<1>3. Run(first, need) \subseteq AllPages
  BY <1>1, <1>2 DEF Run, AllPages
<1>4. QED BY <1>1, <1>2, <1>3

(* Pages that are taken, from the first free one on, are all counted.      *)
LEMMA TakeCounts ==
  ASSUME MemoryAssumption, ArenaInv, NEW first \in AllPages, NEW need \in 1..arena,
         Found(first, need), Take(first, need), UNCHANGED arena
  PROVE  /\ FreePagesFound' /\ used' \subseteq AllPages /\ firstFree' \in Nat
         /\ used' = used \union Run(first, need)
<1> DEFINE P == Run(first, need)
<1>1. /\ first \in Nat /\ need \in Nat /\ firstFree <= first
      /\ P \subseteq AllPages /\ P \cap used = {}
  BY FoundIsFree
<1>2. /\ arena \in Nat /\ IsFiniteSet(used) /\ firstFree \in Nat
      /\ IsFiniteSet(P) /\ Cardinality(P) = need
  BY <1>1, ArenaSize, RunSize DEF ArenaInv, PagesInArena
<1> HIDE DEF P
<1>3. used' = used \union P /\ usedPages' = usedPages + need /\ firstFree' = Skipped(firstFree, used \union P)
  BY DEF Take, P
<1>4. Cardinality(used') = Cardinality(used) + need
  <2>1. Cardinality(used \union P) = Cardinality(used) + Cardinality(P) - Cardinality(used \cap P)
    BY <1>2, FS_Union
  <2>2. Cardinality(used \cap P) = 0
    <3>1. used \cap P = {}
      BY <1>1
    <3>2. QED BY <3>1, FS_EmptySet
  <2>3. Cardinality(used) \in Nat
    BY <1>2, FS_CardinalityType
  <2>4. QED BY <1>1, <1>2, <1>3, <2>1, <2>2, <2>3
<1>5. firstFree' \in Nat /\ \A p \in AllPages : firstFree <= p /\ p < firstFree' => p \in used'
  BY <1>2, <1>3, SkipsUsed
<1>6. \A p \in AllPages : p < firstFree' => p \in used'
  <2>1. SUFFICES ASSUME NEW p \in AllPages, p < firstFree' PROVE p \in used'
    OBVIOUS
  <2>2. p \in Nat
    BY DEF AllPages
  <2>3. CASE p < firstFree
    BY <1>3, <2>3 DEF ArenaInv, FreePagesFound
  <2>4. CASE firstFree <= p
    BY <1>5, <2>1, <2>4
  <2>5. QED BY <1>2, <2>2, <2>3, <2>4
<1>7. FreePagesFound'
  <2>1. AllPages' = AllPages
    BY DEF AllPages
  <2>2. usedPages = Cardinality(used)
    BY DEF ArenaInv, FreePagesFound
  <2>3. QED BY <1>3, <1>4, <1>6, <2>1, <2>2 DEF FreePagesFound
<1>8. QED BY <1>1, <1>3, <1>5, <1>7 DEF ArenaInv, PagesInArena, P

(* More slabs, with those of a run, back more pages.                       *)
LEMMA CommitsBack ==
  ASSUME UsableIsBacked, NEW P, NEW b, Commits(P, b)
  PROVE  SlabsOf(usable \union P) \subseteq b
BY DEF Commits, Needed, SlabsOf, UsableIsBacked

(* Slabs are never given back.                                             *)
LEMMA FailsKeep ==
  ASSUME NEW P, NEW b, CommitFails(P, b)
  PROVE  backed \subseteq b
BY DEF CommitFails

-----------------------------------------------------------------------------
(* A call that leaves the range, the pages in use and their count alone.   *)
LEMMA PagesKept ==
  ASSUME ArenaInv, UNCHANGED <<arena, tried, used, firstFree, usedPages>>,
         stained' \subseteq AllPages, tried \/ stained' = {},
         usable' \subseteq used, SlabsOf(usable') \subseteq backed'
  PROVE  ArenaInv'
<1>1. PagesInArena'
  BY DEF ArenaInv, PagesInArena, AllPages
<1>2. FreePagesFound'
  BY DEF ArenaInv, FreePagesFound, AllPages
<1>3. UsableIsBacked'
  BY DEF UsableIsBacked, SlabsOf, SlabOf
<1>4. QED BY <1>1, <1>2, <1>3 DEF ArenaInv

(* There are pages only in a range that was reserved.                      *)
LEMMA PagesAreReserved ==
  ASSUME ArenaInv, NEW p \in AllPages
  PROVE  tried
BY DEF ArenaInv, PagesInArena, AllPages

(* A mapping without access.                                               *)
LEMMA MapReservedKeepsArenaInv ==
  ASSUME MemoryAssumption, ArenaInv, NEW first \in AllPages, NEW need \in 1..arena,
         MapReserved(first, need)
  PROVE  ArenaInv'
<1>1. /\ Found(first, need) /\ Take(first, need)
      /\ UNCHANGED <<arena, tried, backed, usable, code>>
      /\ stained' = stained \ Run(first, need)
  BY DEF MapReserved, Cleared
<1>2. /\ FreePagesFound' /\ used' \subseteq AllPages /\ firstFree' \in Nat
      /\ used' = used \union Run(first, need)
  BY <1>1, TakeCounts
<1>3. tried
  BY PagesAreReserved
<1>4. PagesInArena'
  BY <1>1, <1>2, <1>3 DEF ArenaInv, PagesInArena, AllPages
<1>5. UsableIsBacked'
  <2>1. usable \subseteq used /\ SlabsOf(usable) \subseteq backed
    BY DEF ArenaInv, UsableIsBacked
  <2>2. SlabsOf(usable)' = SlabsOf(usable)
    BY <1>1 DEF SlabsOf, SlabOf
  <2>3. QED BY <1>1, <1>2, <2>1, <2>2 DEF UsableIsBacked
<1>6. QED BY <1>2, <1>4, <1>5 DEF ArenaInv

(* Pages below the new first free one are in use, when it moved past pages *)
(* in use and went no further than where a free run begins.                *)
LEMMA SkippedInUse ==
  ASSUME MemoryAssumption, ArenaInv, NEW u
  PROVE  /\ Skipped(firstFree, used \union u) \in Nat
         /\ \A p \in AllPages : p < Skipped(firstFree, used \union u) => p \in used \union u
<1>1. arena \in Nat /\ firstFree \in Nat
  BY ArenaSize DEF ArenaInv, PagesInArena
<1>2. Skipped(firstFree, used \union u) \in Nat
  BY <1>1, SkipsUsed
<1>3. ASSUME NEW p \in AllPages, p < Skipped(firstFree, used \union u)
      PROVE  p \in used \union u
  <2>1. p \in Nat
    BY DEF AllPages
  <2>2. CASE p < firstFree
    BY <2>2 DEF ArenaInv, FreePagesFound
  <2>3. CASE firstFree <= p
    BY <1>1, <1>3, <2>3, SkipsUsed
  <2>4. QED BY <1>1, <2>1, <2>2, <2>3
<1>4. QED BY <1>2, <1>3

(* A mapping for writing, backed or given up.                              *)
LEMMA MapWritableKeepsArenaInv ==
  ASSUME MemoryAssumption, ArenaInv, NEW first \in AllPages, NEW need \in 1..arena,
         MapWritable(first, need)
  PROVE  ArenaInv'
<1> DEFINE P == Run(first, need)
<1>1. Found(first, need) /\ UNCHANGED <<arena, tried, code>> /\ stained' = stained \ P
  BY DEF MapWritable, Cleared
<1>2. tried
  BY PagesAreReserved
<1>3. CASE Commits(P, backed') /\ Take(first, need) /\ usable' = usable \union P
  <2>1. /\ FreePagesFound' /\ used' \subseteq AllPages /\ firstFree' \in Nat
        /\ used' = used \union P
    BY <1>1, <1>3, TakeCounts
  <2>2. PagesInArena'
    BY <1>1, <1>2, <2>1 DEF ArenaInv, PagesInArena, AllPages
  <2>3. UsableIsBacked'
    <3>1. UsableIsBacked
      BY DEF ArenaInv
    <3>2. SlabsOf(usable \union P) \subseteq backed'
      BY <1>3, <3>1, CommitsBack
    <3>3. QED BY <1>3, <2>1, <3>1, <3>2 DEF UsableIsBacked, SlabsOf, SlabOf
  <2>4. QED BY <2>1, <2>2, <2>3 DEF ArenaInv
<1>4. CASE /\ CommitFails(P, backed')
           /\ firstFree' = Least(Skipped(firstFree, used \union P), first)
           /\ UNCHANGED <<used, usedPages, usable>>
  <2>1. /\ Skipped(firstFree, used \union P) \in Nat
        /\ \A p \in AllPages : p < Skipped(firstFree, used \union P) => p \in used \union P
    BY SkippedInUse
  <2>2. first \in Nat /\ need \in Nat
    BY <1>1, FoundIsFree
  <2>3. firstFree' \in Nat /\ firstFree' <= first /\ firstFree' <= Skipped(firstFree, used \union P)
    BY <1>4, <2>1, <2>2 DEF Least
  <2>4. PagesInArena'
    BY <1>1, <1>2, <1>4, <2>3 DEF ArenaInv, PagesInArena, AllPages
  <2>5. ASSUME NEW p \in AllPages, p < firstFree' PROVE p \in used
    <3>1. p \in Nat
      BY DEF AllPages
    <3>2. p \in used \union P
      BY <2>1, <2>3, <2>5, <3>1
    <3>3. p \notin P
      <4>1. p < first
        BY <2>2, <2>3, <2>5, <3>1
      <4>2. QED BY <2>2, <3>1, <4>1 DEF Run
    <3>4. QED BY <3>2, <3>3
  <2>6. FreePagesFound'
    <3>1. AllPages' = AllPages
      BY <1>1 DEF AllPages
    <3>2. QED BY <1>4, <2>5, <3>1 DEF ArenaInv, FreePagesFound
  <2>7. UsableIsBacked'
    BY <1>4, FailsKeep DEF ArenaInv, UsableIsBacked, SlabsOf, SlabOf
  <2>8. QED BY <2>4, <2>6, <2>7 DEF ArenaInv
<1>5. QED BY <1>3, <1>4 DEF MapWritable

(* A mapping over pages that are in use.                                   *)
LEMMA MapFixedKeepsArenaInv ==
  ASSUME MemoryAssumption, ArenaInv, NEW P \in Runs(used), NEW writable \in BOOLEAN,
         MapFixed(P, writable)
  PROVE  ArenaInv'
<1>1. P \subseteq used
  BY DEF Runs
<1>2. /\ UNCHANGED <<arena, tried, code>> /\ stained' = stained \ P /\ used' = used
      /\ usedPages' = usedPages + Cardinality(P \ used)
      /\ firstFree' = Skipped(firstFree, used \union P)
  BY <1>1 DEF MapFixed, Cleared
<1>3. usedPages' = usedPages
  <2>1. P \ used = {}
    BY <1>1
  <2>2. Cardinality(P \ used) = 0
    BY <2>1, FS_EmptySet
  <2>3. usedPages \in Nat
    BY ArenaSize, FS_CardinalityType DEF ArenaInv, FreePagesFound
  <2>4. QED BY <1>2, <2>2, <2>3
<1>4. firstFree' \in Nat /\ \A p \in AllPages : p < firstFree' => p \in used
  BY <1>1, <1>2, SkippedInUse
<1>5. PagesInArena'
  <2>1. AllPages' = AllPages
    BY <1>2 DEF AllPages
  <2>2. PagesInArena
    BY DEF ArenaInv
  <2>3. PICK first \in AllPages : \E n \in 1..arena : P = Run(first, n)
    BY DEF Runs
  <2>4. tried
    BY <2>3, PagesAreReserved
  <2>5. QED BY <1>2, <1>4, <2>1, <2>2, <2>4 DEF PagesInArena
<1>6. FreePagesFound'
  <2>1. AllPages' = AllPages
    BY <1>2 DEF AllPages
  <2>2. QED BY <1>2, <1>3, <1>4, <2>1 DEF ArenaInv, FreePagesFound
<1>7. UsableIsBacked'
  <2>1. UsableIsBacked
    BY DEF ArenaInv
  <2>2. CASE Commits(P, backed') /\ usable' = usable \union P
    <3>1. SlabsOf(usable \union P) \subseteq backed'
      BY <2>1, <2>2, CommitsBack
    <3>2. QED BY <1>1, <1>2, <2>1, <2>2, <3>1 DEF UsableIsBacked, SlabsOf, SlabOf
  <2>3. CASE backed \subseteq backed' /\ usable' = usable \ P
    BY <1>2, <2>1, <2>3 DEF UsableIsBacked, SlabsOf, SlabOf
  <2>4. QED BY <2>2, <2>3, FailsKeep DEF MapFixed
<1>8. QED BY <1>5, <1>6, <1>7 DEF ArenaInv

(* Pages are released.                                                     *)
LEMMA UnmapKeepsArenaInv ==
  ASSUME MemoryAssumption, ArenaInv, NEW first \in AllPages, NEW count \in 1..arena,
         Run(first, count) \subseteq used, Unmap(first, count)
  PROVE  ArenaInv'
<1> DEFINE P == Run(first, count)
<1>1. /\ UNCHANGED <<arena, tried, backed, stained, code>> /\ used' = used \ P
      /\ usedPages' = usedPages - Cardinality(P \cap used)
      /\ firstFree' = Least(firstFree, first) /\ usable' = usable \ P
  BY DEF Unmap, Lowered
<1>2. /\ arena \in Nat /\ first \in Nat /\ count \in Nat /\ firstFree \in Nat
      /\ IsFiniteSet(used)
  BY ArenaSize DEF ArenaInv, PagesInArena, AllPages
<1>3. firstFree' \in Nat /\ firstFree' <= firstFree /\ firstFree' <= first
  BY <1>1, <1>2 DEF Least
<1>4. PagesInArena'
  <2>1. AllPages' = AllPages
    BY <1>1 DEF AllPages
  <2>2. tried
    BY PagesAreReserved
  <2>3. QED BY <1>1, <1>3, <2>1, <2>2 DEF ArenaInv, PagesInArena
<1>5. FreePagesFound'
  <2>1. ASSUME NEW p \in AllPages, p < firstFree' PROVE p \in used \ P
    <3>1. p \in Nat
      BY DEF AllPages
    <3>2. p < firstFree /\ p < first
      BY <1>2, <1>3, <2>1, <3>1
    <3>3. p \in used
      BY <3>2 DEF ArenaInv, FreePagesFound
    <3>4. p \notin P
      BY <1>2, <3>1, <3>2 DEF Run
    <3>5. QED BY <3>3, <3>4
  <2>2. Cardinality(used \ P) = Cardinality(used) - Cardinality(used \cap P)
    BY <1>2, FS_Difference
  <2>3. AllPages' = AllPages
    BY <1>1 DEF AllPages
  <2>4. P \cap used = used \cap P
    OBVIOUS
  <2>5. usedPages' = Cardinality(used \ P)
    BY <1>1, <2>2, <2>4 DEF ArenaInv, FreePagesFound
  <2>6. QED BY <1>1, <2>1, <2>3, <2>5 DEF FreePagesFound
<1>6. UsableIsBacked'
  BY <1>1 DEF ArenaInv, UsableIsBacked, SlabsOf, SlabOf
<1>7. QED BY <1>4, <1>5, <1>6 DEF ArenaInv

(* Access to pages in use changes.                                         *)
LEMMA ProtectKeepsArenaInv ==
  ASSUME MemoryAssumption, ArenaInv, NEW P \in Runs(used), NEW writable \in BOOLEAN,
         Protect(P, writable)
  PROVE  ArenaInv'
<1>1. P \subseteq used
  BY DEF Runs
<1>2. UNCHANGED <<arena, tried, used, firstFree, usedPages, stained, code>>
  BY DEF Protect
<1>3. UsableIsBacked
  BY DEF ArenaInv
<1>4. usable' \subseteq used /\ SlabsOf(usable') \subseteq backed'
  <2>1. CASE Commits(P, backed') /\ usable' = usable \union P
    <3>1. SlabsOf(usable \union P) \subseteq backed'
      BY <1>3, <2>1, CommitsBack
    <3>2. QED BY <1>1, <1>3, <2>1, <3>1 DEF UsableIsBacked
  <2>2. CASE backed \subseteq backed' /\ usable' \subseteq usable
    BY <1>3, <2>2 DEF UsableIsBacked, SlabsOf
  <2>3. QED BY <2>1, <2>2, FailsKeep DEF Protect
<1>5. stained' \subseteq AllPages /\ (tried \/ stained' = {})
  BY <1>2 DEF ArenaInv, PagesInArena
<1>6. QED BY <1>2, <1>4, <1>5, PagesKept

(* The caller writes.                                                      *)
LEMMA WriteKeepsArenaInv ==
  ASSUME ArenaInv, NEW p \in usable, Write(p)
  PROVE  ArenaInv'
<1>1. p \in AllPages
  BY DEF ArenaInv, UsableIsBacked, PagesInArena
<1>2. /\ UNCHANGED <<arena, tried, used, firstFree, usedPages, backed, usable, code>>
      /\ stained' = stained \union {p}
  BY DEF Write
<1>3. stained' \subseteq AllPages /\ tried
  BY <1>1, <1>2, PagesAreReserved DEF ArenaInv, PagesInArena
<1>4. usable' \subseteq used /\ SlabsOf(usable') \subseteq backed'
  BY <1>2 DEF ArenaInv, UsableIsBacked, SlabsOf
<1>5. QED BY <1>2, <1>3, <1>4, PagesKept

(* A range without pages in use.                                           *)
LEMMA EmptyRange ==
  ASSUME MemoryAssumption, arena' \in ArenaSizes \union {0}, ~tried' => arena' = 0,
         used' = {}, firstFree' = 0, usedPages' = 0, stained' = {}, usable' = {}
  PROVE  ArenaInv'
<1>1. arena' \in Nat
  BY DEF MemoryAssumption
<1>2. PagesInArena'
  BY DEF PagesInArena
<1>3. FreePagesFound'
  <2>1. \A p \in AllPages' : ~(p < firstFree')
    BY <1>1 DEF AllPages
  <2>2. QED BY <2>1, FS_EmptySet DEF FreePagesFound
<1>4. UsableIsBacked'
  BY DEF UsableIsBacked, SlabsOf
<1>5. QED BY <1>2, <1>3, <1>4 DEF ArenaInv

-----------------------------------------------------------------------------
(* What the executable region is made as is no smaller than its floor.     *)
LEMMA MadeIsAboveFloor ==
  ASSUME MemoryAssumption, NEW need \in 1..MaxCode, NEW cap \in CodeCaps,
         NEW size \in MadeSizes(Wanted(need, cap))
  PROVE  size \in Nat /\ size >= CodeFloor
<1>1. CodeFloor \in Nat \ {0} /\ Headroom \in Nat /\ cap \in Nat /\ need \in Nat
  BY DEF MemoryAssumption
<1> DEFINE want == Wanted(need, cap)
<1>2. want \in Nat /\ want >= CodeFloor
  BY <1>1 DEF Wanted, Least, Most
<1> HIDE DEF want
<1>3. ASSUME NEW d \in 2..want, size = Halved(want, d)
      PROVE  size \in Nat /\ size >= CodeFloor
  <2>1. d \in Nat \ {0}
    BY <1>2
  <2>2. want \div d \in Nat
    BY <1>2, <2>1
  <2>3. QED BY <1>1, <1>3, <2>2 DEF Halved, Most
<1>4. size = want \/ \E d \in 2..want : size = Halved(want, d)
  BY DEF MadeSizes, Powers, want
<1>5. QED BY <1>2, <1>3, <1>4

(* Every call keeps the executable region's books.                         *)
LEMMA CodeKept ==
  ASSUME MemoryAssumption, CodeInv, MemoryMapNext
  PROVE  CodeInv'
<1>1. ASSUME NEW need \in 1..MaxCode, MakeCode(need) PROVE CodeInv'
  <2>1. PICK cap \in CodeCaps :
          \E size \in MadeSizes(Wanted(need, cap)) \union {0} :
            code' = [tried |-> TRUE, size |-> size, next |-> IF need <= size THEN need ELSE 0]
    BY <1>1 DEF MakeCode
  <2>2. PICK size \in MadeSizes(Wanted(need, cap)) \union {0} :
          code' = [tried |-> TRUE, size |-> size, next |-> IF need <= size THEN need ELSE 0]
    BY <2>1
  <2>3. size \in Nat /\ (size # 0 => size >= CodeFloor)
    BY <2>2, MadeIsAboveFloor
  <2>4. need \in Nat
    BY DEF MemoryAssumption
  <2>5. QED BY <2>2, <2>3, <2>4 DEF CodeInv, CodeHasSize, CodeFits
<1>2. ASSUME NEW need \in 1..MaxCode, MapCode(need) PROVE CodeInv'
  <2>1. need \in Nat
    BY DEF MemoryAssumption
  <2>2. QED BY <1>2, <2>1 DEF MapCode, CodeInv, CodeHasSize, CodeFits
<1>3. CASE UNCHANGED code
  BY <1>3 DEF CodeInv, CodeHasSize, CodeFits
<1>4. CASE code' = NoCode
  BY <1>4 DEF NoCode, CodeInv, CodeHasSize, CodeFits
<1>5. QED
  BY <1>1, <1>2, <1>3, <1>4
  DEF MemoryMapNext, Data, ReserveRange, MapReserved, MapWritable, MapFixed, Unmap, Protect,
      Write, Teardown

-----------------------------------------------------------------------------
(* Before the first call nothing is reserved.                              *)
THEOREM ArenaInvInit ==
  ASSUME MemoryAssumption, MemoryMapInit
  PROVE  ArenaInv /\ CodeInv
<1>1. ArenaInv
  BY FS_EmptySet DEF MemoryMapInit, ArenaInv, PagesInArena, FreePagesFound, UsableIsBacked, AllPages,
                     SlabsOf
<1>2. CodeInv
  BY DEF MemoryMapInit, NoCode, CodeInv, CodeHasSize, CodeFits
<1>3. QED BY <1>1, <1>2

(* One case for each call.                                                 *)
THEOREM ArenaInvStep ==
  ASSUME MemoryAssumption, ArenaInv, CodeInv, [MemoryMapNext]_memoryVars
  PROVE  ArenaInv' /\ CodeInv'
<1>1. CASE UNCHANGED memoryVars
  BY <1>1 DEF memoryVars, ArenaInv, CodeInv, PagesInArena, FreePagesFound, UsableIsBacked, AllPages,
              SlabsOf, SlabOf, CodeHasSize, CodeFits
<1>2. CASE MemoryMapNext
  <2>1. CodeInv'
    BY <1>2, CodeKept
  <2>2. CASE Data
    <3>1. ASSUME NEW first \in AllPages, NEW need \in 1..arena,
                 MapReserved(first, need) \/ MapWritable(first, need)
          PROVE  ArenaInv'
      BY <3>1, MapReservedKeepsArenaInv, MapWritableKeepsArenaInv
    <3>2. ASSUME NEW first \in AllPages, NEW count \in 1..arena,
                 Run(first, count) \subseteq used, Unmap(first, count)
          PROVE  ArenaInv'
      BY <3>2, UnmapKeepsArenaInv
    <3>3. ASSUME NEW P \in Runs(used), NEW writable \in BOOLEAN,
                 MapFixed(P, writable) \/ Protect(P, writable)
          PROVE  ArenaInv'
      BY <3>3, MapFixedKeepsArenaInv, ProtectKeepsArenaInv
    <3>4. ASSUME NEW p \in usable, Write(p) PROVE ArenaInv'
      BY <3>4, WriteKeepsArenaInv
    <3>5. ArenaInv'
      BY <2>2, <3>1, <3>2, <3>3, <3>4 DEF Data
    <3>6. QED BY <2>1, <3>5
  <2>3. CASE ReserveRange
    <3>1. /\ arena' \in ArenaSizes \union {0} /\ tried' = TRUE
          /\ used' = {} /\ firstFree' = 0 /\ stained' = {}
      BY <2>3 DEF ReserveRange, ArenaInv, PagesInArena
    <3>2. usable' = {} /\ usedPages' = 0
      <4>1. used = {} /\ usable' = usable /\ usedPages' = usedPages
        BY <2>3 DEF ReserveRange, ArenaInv, PagesInArena
      <4>2. usable = {} /\ usedPages = Cardinality({})
        BY <4>1 DEF ArenaInv, UsableIsBacked, FreePagesFound
      <4>3. QED BY <4>1, <4>2, FS_EmptySet
    <3>3. ArenaInv'
      BY <3>1, <3>2, EmptyRange
    <3>4. QED BY <2>1, <3>3
  <2>4. CASE \E need \in 1..MaxCode : MakeCode(need) \/ MapCode(need)
    <3>1. UNCHANGED dataVars
      BY <2>4 DEF MakeCode, MapCode
    <3>2. ArenaInv'
      BY <3>1 DEF dataVars, ArenaInv, PagesInArena, FreePagesFound, UsableIsBacked, AllPages,
                  SlabsOf, SlabOf
    <3>3. QED BY <2>1, <3>2
  <2>5. CASE Teardown
    <3>1. ArenaInv'
      BY <2>5, EmptyRange DEF Teardown
    <3>2. QED BY <2>1, <3>1
  <2>6. QED BY <1>2, <2>1, <2>2, <2>3, <2>4, <2>5 DEF MemoryMapNext
<1>3. QED BY <1>1, <1>2

(* The invariant holds in every state.                                     *)
THEOREM ArenaInvariance ==
  ASSUME MemoryAssumption
  PROVE  MemoryMapSpec => [](ArenaInv /\ CodeInv)
<1>1. MemoryMapInit => ArenaInv /\ CodeInv
  BY ArenaInvInit
<1>2. (ArenaInv /\ CodeInv) /\ [MemoryMapNext]_memoryVars => (ArenaInv /\ CodeInv)'
  BY ArenaInvStep
<1>3. QED BY <1>1, <1>2, PTL DEF MemoryMapSpec

(* For every size of slab and of range and any sequence of calls, no free  *)
(* page is overlooked, every page in use is counted, what may be written   *)
(* to is backed, and the executable region is as large as V8 needs         *)
(* (mman-horizon.cc).                                                      *)
THEOREM ArenaStaysAccounted ==
  ASSUME MemoryAssumption
  PROVE  MemoryMapSpec => []ArenaAccounted
<1>1. ArenaInv /\ CodeInv => ArenaAccounted
  BY DEF ArenaInv, CodeInv, ArenaAccounted
<1>2. QED BY <1>1, ArenaInvariance, PTL

-----------------------------------------------------------------------------
(* The refinement: a call maps, remaps, unmaps or protects pages of        *)
(* anonymous memory, or leaves them alone.                                 *)
EveryPage == UNION {0 .. n - 1 : n \in ArenaSizes}

(* The range lies in what the abstract memory calls pages.                 *)
LEMMA RangeInPages ==
  ASSUME MemoryAssumption, ArenaInv
  PROVE  AllPages \subseteq EveryPage
BY DEF ArenaInv, PagesInArena, AllPages, EveryPage, MemoryAssumption

(* A call on data is a step of anonymous memory, or none.                  *)
LEMMA DataIsMemory ==
  ASSUME MemoryAssumption, ArenaInv, Data
  PROVE  [Memory!MemoryNext]_<<used, usable, stained \cap used>>
<1> DEFINE Step == Memory!MemoryNext
           Same == UNCHANGED <<used, usable, stained \cap used>>
<1>0. used \subseteq EveryPage /\ usable \subseteq used
  BY RangeInPages DEF ArenaInv, PagesInArena, UsableIsBacked
<1>1. ASSUME NEW first \in AllPages, NEW need \in 1..arena,
             MapReserved(first, need) \/ MapWritable(first, need)
      PROVE  Step \/ Same
  <2> DEFINE P == Run(first, need)
  <2>1. Found(first, need)
    BY <1>1 DEF MapReserved, MapWritable
  <2>2. P \in SUBSET EveryPage /\ P \cap used = {}
    BY <2>1, FoundIsFree, RangeInPages
  <2> HIDE DEF P
  <2>3. stained' = stained \ P
    BY <1>1 DEF MapReserved, MapWritable, Cleared, P
  <2>4. CASE used' = used \union P /\ usable' \in {usable, usable \union P}
    <3>1. (stained \cap used)' = stained \cap used
      BY <2>2, <2>3, <2>4
    <3>2. PICK writable \in BOOLEAN : usable' = IF writable THEN usable \union P ELSE usable
      BY <2>4
    <3>3. Memory!MapPages(P, writable)
      BY <2>2, <2>4, <3>1, <3>2 DEF Memory!MapPages, EveryPage
    <3>4. QED BY <2>2, <3>3 DEF Memory!MemoryNext, EveryPage
  <2>5. CASE used' = used /\ usable' = usable
    BY <2>2, <2>3, <2>5
  <2>6. QED BY <1>1, <2>4, <2>5 DEF MapReserved, MapWritable, Take, P
<1>2. ASSUME NEW first \in AllPages, NEW count \in 1..arena,
             Run(first, count) \subseteq used, Unmap(first, count)
      PROVE  Step \/ Same
  <2> DEFINE P == Run(first, count)
  <2>1. P \in SUBSET EveryPage
    BY <1>0, <1>2
  <2>2. Memory!UnmapPages(P)
    BY <1>2 DEF Memory!UnmapPages, Unmap
  <2>3. QED BY <2>1, <2>2 DEF Memory!MemoryNext, EveryPage
<1>3. ASSUME NEW P \in Runs(used), NEW writable \in BOOLEAN, MapFixed(P, writable)
      PROVE  Step \/ Same
  <2>1. P \subseteq used /\ P \in SUBSET EveryPage
    BY <1>0 DEF Runs
  <2>2. used' = used /\ stained' = stained \ P
    BY <1>3, <2>1 DEF MapFixed, Cleared
  <2>3. PICK on \in BOOLEAN : usable' = IF on THEN usable \union P ELSE usable \ P
    BY <1>3 DEF MapFixed
  <2>4. Memory!RemapPages(P, on)
    BY <2>1, <2>2, <2>3 DEF Memory!RemapPages
  <2>5. QED BY <2>1, <2>4 DEF Memory!MemoryNext, EveryPage
<1>4. ASSUME NEW P \in Runs(used), NEW writable \in BOOLEAN, Protect(P, writable)
      PROVE  Step \/ Same
  <2>1. P \subseteq used /\ P \in SUBSET EveryPage
    BY <1>0 DEF Runs
  <2>2. used' = used /\ stained' = stained
    BY <1>4 DEF Protect
  <2>3. CASE usable' = usable
    BY <2>2, <2>3
  <2>4. CASE usable' \in {usable \union P, usable \ P}
    <3>1. PICK on \in BOOLEAN : usable' = IF on THEN usable \union P ELSE usable \ P
      BY <2>4
    <3>2. Memory!ProtectPages(P, on)
      BY <2>1, <2>2, <3>1 DEF Memory!ProtectPages
    <3>3. QED BY <2>1, <3>2 DEF Memory!MemoryNext, EveryPage
  <2>5. QED BY <1>4, <2>3, <2>4 DEF Protect
<1>5. ASSUME NEW p \in usable, Write(p)
      PROVE  Step \/ Same
  <2>1. p \in EveryPage /\ p \in used
    BY <1>0
  <2>2. Memory!WritePage(p)
    BY <1>5, <2>1 DEF Memory!WritePage, Write
  <2>3. QED BY <2>1, <2>2 DEF Memory!MemoryNext, EveryPage
<1> HIDE DEF Step, Same
<1>6. Step \/ Same
  BY <1>1, <1>2, <1>3, <1>4, <1>5 DEF Data
<1>7. QED BY <1>6 DEF Step, Same

(* The arena implements anonymous memory: pages that are used again do not *)
(* show what was in them, and no mapping takes a page of another           *)
(* (mman-horizon.cc:312).                                                  *)
THEOREM ArenaImplementsMemory ==
  ASSUME MemoryAssumption
  PROVE  MemoryMapSpec => ArenaIsMemory
<1>1. MemoryMapInit => Memory!MemoryInit
  BY DEF MemoryMapInit, Memory!MemoryInit
<1>2. ArenaInv /\ [MemoryMapNext]_memoryVars => [Memory!MemoryNext]_<<used, usable, stained \cap used>>
  <2> SUFFICES ASSUME ArenaInv, [MemoryMapNext]_memoryVars
               PROVE  [Memory!MemoryNext]_<<used, usable, stained \cap used>>
    OBVIOUS
  <2>1. CASE Data
    BY <2>1, DataIsMemory
  <2>2. CASE UNCHANGED <<used, usable, stained>>
    BY <2>2
  <2>3. CASE Teardown
    <3>1. used \in SUBSET EveryPage /\ usable \subseteq used
      BY RangeInPages DEF ArenaInv, PagesInArena, UsableIsBacked
    <3>2. Memory!UnmapPages(used)
      BY <2>3, <3>1 DEF Memory!UnmapPages, Teardown
    <3>3. QED BY <3>1, <3>2 DEF Memory!MemoryNext, EveryPage
  <2>4. QED BY <2>1, <2>2, <2>3
    DEF MemoryMapNext, ReserveRange, MakeCode, MapCode, dataVars, memoryVars
<1>3. QED
  BY <1>1, <1>2, ArenaInvariance, PTL DEF MemoryMapSpec, ArenaIsMemory, Memory!MemorySpec

-----------------------------------------------------------------------------
(* The range reader.  What a call makes of a reader is well formed and     *)
(* stands where its position says; a closed one has no body left.          *)
ReaderStates ==
  [fd : BOOLEAN, size : Nat \cup {-1}, pos : Nat, remaining : Nat, pending : Nat, wire : Nat]

InStep(s) ==
  /\ s.fd => /\ 1 <= s.remaining /\ s.remaining <= s.size - s.pos
             /\ s.pending <= s.remaining
             /\ s.pending < s.remaining => s.wire = s.pos + s.pending
  /\ ~s.fd => s.remaining = 0

(* The inductive invariant. *)
ReaderInv ==
  /\ length \in Nat
  /\ r = NoReader \/ (r \in ReaderStates /\ r.size >= 0 /\ InStep(r))

(* A closed reader keeps its size and position.                            *)
LEMMA ClosedKeeps ==
  ASSUME NEW s \in ReaderStates
  PROVE  /\ Closed(s) \in ReaderStates /\ InStep(Closed(s)) /\ ~Closed(s).fd
         /\ Closed(s).pos = s.pos /\ Closed(s).size = s.size
BY DEF Closed, ReaderStates, InStep

(* A reader in step but for a body that has ended is in step once closed.  *)
LEMMA ClosedIfDoneKeeps ==
  ASSUME NEW s \in ReaderStates, s.fd,
         s.remaining > 0 => InStep(s)
  PROVE  /\ ClosedIfDone(s) \in ReaderStates /\ InStep(ClosedIfDone(s))
         /\ ClosedIfDone(s).pos = s.pos /\ ClosedIfDone(s).size = s.size
         /\ ~ClosedIfDone(s).fd <=> s.remaining = 0
<1>1. s.remaining \in Nat
  BY DEF ReaderStates
<1>2. CASE s.remaining <= 0
  BY <1>1, <1>2, ClosedKeeps DEF ClosedIfDone
<1>3. CASE ~(s.remaining <= 0)
  BY <1>1, <1>3 DEF ClosedIfDone
<1>4. QED BY <1>2, <1>3

(* A connection that opened, with bytes that came with the head, is in     *)
(* step; one without a body says that there is nothing at the position.    *)
LEMMA AnswerKeeps ==
  ASSUME length \in Nat, NEW s \in ReaderStates, NEW h \in Heads(s.pos), Accepted(s, h),
         NEW extra \in Nat,
         NEW t, t = ClosedIfDone(WithPending([Applied(s, h) EXCEPT !.fd = TRUE], extra))
  PROVE  /\ t \in ReaderStates /\ InStep(t) /\ t.pos = s.pos /\ t.size >= 0
         /\ ~t.fd => s.pos >= length
<1> DEFINE a == [Applied(s, h) EXCEPT !.fd = TRUE]
           w == WithPending(a, extra)
<1>1. s.pos \in Nat /\ s.size \in Nat \cup {-1}
  BY DEF ReaderStates
<1>2. h.status \in {206, 200, 416} /\ (h.status = 416 => s.pos >= length /\ s.size >= 0)
      /\ (h.status = 200 => s.pos = 0)
      /\ (h.status = 206 => h.first \in Nat /\ h.end \in Nat /\ h.first = s.pos
                            /\ h.end >= h.first /\ h.end <= length - 1)
  BY DEF Heads, Accepted
<1>3. /\ a \in ReaderStates /\ a.fd /\ a.pos = s.pos /\ a.size >= 0
      /\ a.remaining > 0 => a.wire = s.pos /\ a.remaining <= a.size - s.pos
      /\ a.remaining = 0 => s.pos >= length
  <2>1. CASE h.status = 206
    <3>1. a = [[s EXCEPT !.size = length, !.remaining = h.end - h.first + 1,
                         !.wire = h.first] EXCEPT !.fd = TRUE]
      BY <2>1 DEF Applied
    <3>2. h.end - h.first + 1 \in Nat /\ h.end - h.first + 1 > 0
      BY <1>2, <2>1
    <3>3. [s EXCEPT !.size = length, !.remaining = h.end - h.first + 1, !.wire = h.first]
            \in ReaderStates
      BY <1>2, <2>1, <3>2 DEF ReaderStates
    <3>4. /\ a \in ReaderStates /\ a.fd /\ a.pos = s.pos /\ a.size = length
          /\ a.remaining = h.end - h.first + 1 /\ a.wire = h.first
      BY <3>1, <3>3 DEF ReaderStates
    <3> HIDE DEF a
    <3>5. QED BY <1>1, <1>2, <2>1, <3>2, <3>4
  <2>2. CASE h.status = 200
    <3>1. a = [[s EXCEPT !.size = length, !.remaining = length, !.wire = 0] EXCEPT !.fd = TRUE]
      BY <2>2 DEF Applied
    <3>2. [s EXCEPT !.size = length, !.remaining = length, !.wire = 0] \in ReaderStates
      BY DEF ReaderStates
    <3>3. /\ a \in ReaderStates /\ a.fd /\ a.pos = s.pos /\ a.size = length
          /\ a.remaining = length /\ a.wire = 0
      BY <3>1, <3>2 DEF ReaderStates
    <3> HIDE DEF a
    <3>4. QED BY <1>1, <1>2, <2>2, <3>3
  <2>3. CASE h.status = 416
    <3>1. a = [[s EXCEPT !.remaining = 0] EXCEPT !.fd = TRUE]
      BY <2>3 DEF Applied
    <3>2. a \in ReaderStates /\ a.fd /\ a.pos = s.pos /\ a.size = s.size /\ a.remaining = 0
      <4>1. [s EXCEPT !.remaining = 0] \in ReaderStates
        BY DEF ReaderStates
      <4>2. QED BY <3>1, <4>1 DEF ReaderStates
    <3> HIDE DEF a
    <3>3. QED BY <1>1, <1>2, <2>3, <3>2
  <2>4. QED BY <1>2, <2>1, <2>2, <2>3
<1> HIDE DEF a
<1>4. /\ w \in ReaderStates /\ w.fd /\ w.pos = a.pos /\ w.size = a.size
      /\ w.remaining = a.remaining /\ w.wire = a.wire + extra
      /\ w.pending = AtMost(extra, a.remaining)
  <2>1. a.remaining \in Nat /\ a.wire \in Nat
    BY <1>3 DEF ReaderStates
  <2>2. AtMost(extra, a.remaining) \in Nat
    BY <2>1 DEF AtMost
  <2>3. w = [a EXCEPT !.pending = AtMost(extra, a.remaining), !.wire = a.wire + extra]
    BY DEF WithPending
  <2>4. a.wire + extra \in Nat
    BY <2>1
  <2>5. QED BY <1>3, <2>2, <2>3, <2>4 DEF ReaderStates
<1>5. t = ClosedIfDone(w)
  BY DEF a
<1> HIDE DEF w
<1>6. w.remaining > 0 => InStep(w)
  <2>1. a.remaining \in Nat /\ a.wire \in Nat /\ a.size \in Int
    BY <1>3 DEF ReaderStates
  <2>2. QED BY <1>1, <1>3, <1>4, <2>1 DEF InStep, AtMost
<1>7. w.remaining \in Nat
  BY <1>4 DEF ReaderStates
<1>8. /\ t \in ReaderStates /\ InStep(t) /\ t.pos = w.pos /\ t.size = w.size
      /\ ~t.fd <=> w.remaining = 0
  BY <1>4, <1>5, <1>6, ClosedIfDoneKeeps
<1>9. QED BY <1>3, <1>4, <1>7, <1>8

(* Whatever a server answers, an opened range is in step.                  *)
LEMMA OpenedKeeps ==
  ASSUME length \in Nat, NEW s \in ReaderStates, NEW o \in Opened(s)
  PROVE  /\ o.s \in ReaderStates /\ InStep(o.s) /\ o.s.pos = s.pos
         /\ ~o.ok => o.s.size = s.size
         /\ o.ok => o.s.size >= 0 /\ (~o.s.fd => s.pos >= length)
<1>1. CASE o = [ok |-> FALSE, s |-> Closed(s)]
  BY <1>1, ClosedKeeps
<1>2. ASSUME NEW h \in Heads(s.pos), Accepted(s, h), NEW extra \in 0..(MaxRead + MaxExtra),
             o = [ok |-> TRUE,
                  s |-> ClosedIfDone(WithPending([Applied(s, h) EXCEPT !.fd = TRUE], extra))]
      PROVE  o.ok /\ o.s \in ReaderStates /\ InStep(o.s) /\ o.s.pos = s.pos /\ o.s.size >= 0
             /\ (~o.s.fd => s.pos >= length)
  <2>1. extra \in Nat
    BY ReaderAssumption
  <2>2. o.s = ClosedIfDone(WithPending([Applied(s, h) EXCEPT !.fd = TRUE], extra)) /\ o.ok
    BY <1>2
  <2>3. QED BY <1>2, <2>1, <2>2, AnswerKeeps
<1>3. SUFFICES ASSUME o # [ok |-> FALSE, s |-> Closed(s)]
               PROVE  \E h \in Heads(s.pos), extra \in 0..(MaxRead + MaxExtra) :
                        /\ Accepted(s, h)
                        /\ o = [ok |-> TRUE,
                                s |-> ClosedIfDone(WithPending(
                                        [Applied(s, h) EXCEPT !.fd = TRUE], extra))]
  BY <1>1, <1>2
<1>4. PICK h \in {x \in Heads(s.pos) : Accepted(s, x)}, extra \in 0..(MaxRead + MaxExtra) :
        o = [ok |-> TRUE,
             s |-> ClosedIfDone(WithPending([Applied(s, h) EXCEPT !.fd = TRUE], extra))]
  BY <1>3 DEF Opened
<1>5. QED BY <1>4

(* Handing out bytes of a body, pending ones first, moves the position by  *)
(* as many.                                                                *)
LEMMA AdvancedKeeps ==
  ASSUME NEW s \in ReaderStates, s.fd, InStep(s),
         NEW got \in Nat, got <= s.remaining,
         NEW held \in Nat, held <= got, held <= s.pending, held = got \/ held = s.pending
  PROVE  /\ Advanced(s, got, held) \in ReaderStates /\ InStep(Advanced(s, got, held))
         /\ Advanced(s, got, held).pos = s.pos + got /\ Advanced(s, got, held).size = s.size
<1> DEFINE m == [s EXCEPT !.pos = s.pos + got, !.remaining = s.remaining - got,
                          !.pending = s.pending - held, !.wire = s.wire + (got - held)]
<1>1. /\ s.pos \in Nat /\ s.remaining \in Nat /\ s.pending \in Nat /\ s.wire \in Nat
      /\ s.size \in Nat \cup {-1} /\ s.fd \in BOOLEAN
  BY DEF ReaderStates
<1>2. /\ s.remaining - got \in Nat /\ s.pos + got \in Nat
      /\ s.pending - held \in Nat /\ s.wire + (got - held) \in Nat
  BY <1>1
<1>3. /\ m \in ReaderStates /\ m.fd /\ m.pos = s.pos + got /\ m.size = s.size
      /\ m.remaining = s.remaining - got /\ m.pending = s.pending - held
      /\ m.wire = s.wire + (got - held)
  BY <1>2 DEF ReaderStates
<1>4. Advanced(s, got, held) = ClosedIfDone(m)
  BY DEF Advanced
<1> HIDE DEF m
<1>5. m.remaining > 0 => InStep(m)
  BY <1>1, <1>3 DEF InStep
<1>6. QED BY <1>3, <1>4, <1>5, ClosedIfDoneKeeps

(* A read of a body returns bytes, or the connection broke off; it returns *)
(* nothing only if there was no body.                                      *)
LEMMA BodyKeeps ==
  ASSUME NEW s \in ReaderStates, InStep(s), NEW n \in Nat \ {0}, NEW x \in Body(s, n)
  PROVE  /\ x.s \in ReaderStates /\ InStep(x.s) /\ x.s.size = s.size /\ x.ret \in Int
         /\ x.s.pos = s.pos + (IF x.ret > 0 THEN x.ret ELSE 0)
         /\ x.ret = 0 => ~s.fd /\ x.s = s
<1>1. s.pos \in Nat /\ s.remaining \in Nat /\ s.pending \in Nat
  BY DEF ReaderStates
<1>2. CASE s.remaining <= 0
  <2>1. x.ret = 0 /\ x.s = s
    BY <1>2 DEF Body, Result
  <2>2. ~s.fd
    BY <1>1, <1>2 DEF InStep, ReaderStates
  <2>3. QED BY <1>1, <2>1, <2>2
<1>3. CASE s.remaining > 0 /\ s.pending > 0
  <2> DEFINE got == AtMost(n, s.pending)
  <2>1. got \in Nat /\ got > 0 /\ got <= s.pending
    BY <1>1, <1>3 DEF AtMost
  <2>2. x.ret = got /\ x.s = Advanced(s, got, got)
    <3>1. ~(s.remaining <= 0)
      BY <1>1, <1>3
    <3>2. Body(s, n) = {Result(got, Advanced(s, got, got))}
      BY <1>3, <3>1, Zenon DEF Body
    <3>3. QED BY <3>2 DEF Result
  <2> HIDE DEF got
  <2>3. s.fd /\ got <= s.remaining
    BY <1>1, <1>3, <2>1 DEF InStep, ReaderStates
  <2>4. x.s \in ReaderStates /\ InStep(x.s) /\ x.s.pos = s.pos + got /\ x.s.size = s.size
    BY <2>1, <2>2, <2>3, AdvancedKeeps
  <2>5. QED BY <2>1, <2>2, <2>4
<1>4. CASE s.remaining > 0 /\ ~(s.pending > 0)
  <2>1. s.fd
    BY <1>1, <1>4 DEF InStep, ReaderStates
  <2>2. CASE x = Result(-1, Closed(s))
    <3>1. x.ret = -1 /\ x.s = Closed(s)
      BY <2>2 DEF Result
    <3>2. QED BY <1>1, <3>1, ClosedKeeps
  <2>3. ASSUME NEW got \in 1..AtMost(n, s.remaining), x = Result(got, Advanced(s, got, 0))
        PROVE  /\ x.s \in ReaderStates /\ InStep(x.s) /\ x.s.size = s.size
               /\ x.s.pos = s.pos + got /\ x.ret = got /\ got > 0 /\ got \in Nat
    <3>1. got \in Nat /\ got > 0 /\ got <= s.remaining
      BY <1>1 DEF AtMost
    <3>2. x.ret = got /\ x.s = Advanced(s, got, 0) /\ s.pending = 0
      BY <1>1, <1>4, <2>3 DEF Result
    <3>3. 0 \in Nat /\ 0 <= got /\ 0 <= s.pending
      BY <1>1, <3>1
    <3>4. /\ x.s \in ReaderStates /\ InStep(x.s) /\ x.s.pos = s.pos + got
          /\ x.s.size = s.size
      BY <2>1, <3>1, <3>2, <3>3, AdvancedKeeps
    <3>5. QED BY <3>1, <3>2, <3>4
  <2>4. x = Result(-1, Closed(s))
        \/ \E got \in 1..AtMost(n, s.remaining) : x = Result(got, Advanced(s, got, 0))
    <3>1. Body(s, n) = {Result(-1, Closed(s))} \cup
                         {Result(got, Advanced(s, got, 0)) : got \in 1..AtMost(n, s.remaining)}
      <4>1. ~(s.remaining <= 0)
        BY <1>1, <1>4
      <4>2. QED BY <1>4, <4>1, Zenon DEF Body
    <3>2. QED BY <3>1
  <2>5. QED BY <1>1, <2>1, <2>2, <2>3, <2>4
<1>5. QED BY <1>1, <1>2, <1>3, <1>4

(* A read moves the position by what it returned, and returns nothing only *)
(* at the end, as the reader or the server knows it.                       *)
LEMMA ReadsKeep ==
  ASSUME length \in Nat, NEW s \in ReaderStates, s.size >= 0, InStep(s),
         NEW n \in Nat \ {0}, NEW x \in Reads(s, n)
  PROVE  /\ x.s \in ReaderStates /\ InStep(x.s) /\ x.s.size >= 0 /\ x.ret \in Int
         /\ x.s.pos = s.pos + (IF x.ret > 0 THEN x.ret ELSE 0)
         /\ x.ret = 0 => x.s.pos >= x.s.size \/ x.s.pos >= length
<1>1. s.pos \in Nat
  BY DEF ReaderStates
<1>2. CASE s.size >= 0 /\ s.pos >= s.size
  <2>1. x.ret = 0 /\ x.s = s
    BY <1>2 DEF Reads, Result
  <2>2. QED BY <1>1, <1>2, <2>1
<1>3. CASE ~(s.size >= 0 /\ s.pos >= s.size) /\ s.fd
  <2>1. x \in Body(s, n)
    BY <1>3 DEF Reads
  <2>2. QED BY <1>3, <2>1, BodyKeeps
<1>4. CASE ~(s.size >= 0 /\ s.pos >= s.size) /\ ~s.fd
  <2>1. PICK o \in Opened(s) : x \in (IF o.ok THEN Body(o.s, n) ELSE {Result(-1, o.s)})
    BY <1>4 DEF Reads
  <2>2. /\ o.s \in ReaderStates /\ InStep(o.s) /\ o.s.pos = s.pos
        /\ ~o.ok => o.s.size = s.size
        /\ o.ok => o.s.size >= 0 /\ (~o.s.fd => s.pos >= length)
    BY OpenedKeeps
  <2>3. CASE o.ok
    <3>1. x \in Body(o.s, n)
      BY <2>1, <2>3
    <3>2. /\ x.s \in ReaderStates /\ InStep(x.s) /\ x.s.size = o.s.size /\ x.ret \in Int
          /\ x.s.pos = o.s.pos + (IF x.ret > 0 THEN x.ret ELSE 0)
          /\ x.ret = 0 => ~o.s.fd /\ x.s = o.s
      BY <2>2, <3>1, BodyKeeps
    <3>3. QED BY <2>2, <2>3, <3>2
  <2>4. CASE ~o.ok
    <3>1. x.ret = -1 /\ x.s = o.s
      BY <2>1, <2>4 DEF Result
    <3>2. QED BY <1>1, <2>2, <2>4, <3>1
  <2>5. QED BY <2>3, <2>4
<1>5. QED BY <1>2, <1>3, <1>4

(* Bytes read through on the way to an offset are bytes of the body.       *)
LEMMA SkippedKeeps ==
  ASSUME r \in ReaderStates, r.fd, InStep(r), NEW p \in Nat, p >= r.pos,
         p - r.pos <= r.remaining
  PROVE  /\ SkippedTo(p) \in ReaderStates /\ InStep(SkippedTo(p))
         /\ SkippedTo(p).pos = p /\ SkippedTo(p).size = r.size
<1> DEFINE step == p - r.pos
           held == AtMost(step, r.pending)
<1>1. r.pos \in Nat /\ r.remaining \in Nat /\ r.pending \in Nat
  BY DEF ReaderStates
<1>2. /\ step \in Nat /\ step <= r.remaining /\ r.pos + step = p
      /\ held \in Nat /\ held <= step /\ held <= r.pending /\ (held = step \/ held = r.pending)
  BY <1>1 DEF AtMost
<1>3. SkippedTo(p) = Advanced(r, step, held)
  BY DEF SkippedTo
<1> HIDE DEF step, held
<1>4. QED BY <1>2, <1>3, AdvancedKeeps

(* A seek lands where it said, over its connection or without one.         *)
LEMMA RepositionKeeps ==
  ASSUME r \in ReaderStates, InStep(r), NEW to \in Nat, NEW x \in Reposition(to)
  PROVE  x \in ReaderStates /\ InStep(x) /\ x.pos = to /\ x.size = r.size
<1>1. r.pos \in Nat /\ r.remaining \in Nat /\ r.pending \in Nat
  BY DEF ReaderStates
<1>2. ASSUME NEW s \in ReaderStates
      PROVE  LET c == [Closed(s) EXCEPT !.pos = to]
             IN  c \in ReaderStates /\ InStep(c) /\ c.pos = to /\ c.size = s.size
  BY DEF Closed, ReaderStates, InStep
<1>3. ASSUME NEW s \in ReaderStates, InStep(s), s.size = r.size, x = Landed(to, s)
      PROVE  x \in ReaderStates /\ InStep(x) /\ x.pos = to /\ x.size = r.size
  <2>1. CASE s.pos = to
    BY <1>3, <2>1 DEF Landed
  <2>2. CASE s.pos # to
    BY <1>2, <1>3, <2>2 DEF Landed
  <2>3. QED BY <2>1, <2>2
<1>4. CASE ~ReadThrough(to)
  BY <1>2, <1>4 DEF Reposition
<1>5. CASE ReadThrough(to)
  <2>1. r.fd /\ to > r.pos /\ to - r.pos <= r.remaining
    BY <1>5 DEF ReadThrough
  <2>2. CASE x = Landed(to, SkippedTo(to))
    <3>1. SkippedTo(to) \in ReaderStates /\ InStep(SkippedTo(to)) /\ SkippedTo(to).size = r.size
      BY <1>1, <2>1, SkippedKeeps
    <3>2. QED BY <1>3, <2>2, <3>1
  <2>3. ASSUME NEW p \in (r.pos + AtMost(r.pending, to - r.pos))..(to - 1),
               x = Landed(to, Closed(SkippedTo(p)))
        PROVE  x \in ReaderStates /\ InStep(x) /\ x.pos = to /\ x.size = r.size
    <3>1. p \in Nat /\ p >= r.pos /\ p - r.pos <= r.remaining
      BY <1>1, <2>1 DEF AtMost
    <3>2. SkippedTo(p) \in ReaderStates /\ SkippedTo(p).size = r.size
      BY <2>1, <3>1, SkippedKeeps
    <3>3. /\ Closed(SkippedTo(p)) \in ReaderStates /\ InStep(Closed(SkippedTo(p)))
          /\ Closed(SkippedTo(p)).size = r.size
      BY <3>2, ClosedKeeps
    <3>4. QED BY <1>3, <2>3, <3>3
  <2>4. QED BY <1>5, <2>2, <2>3 DEF Reposition
<1>6. QED BY <1>4, <1>5

-----------------------------------------------------------------------------
(* What a call promises, of the step that makes it.                        *)
CallKept ==
  length' = length =>
    /\ last'.op = "read" /\ last'.ret = 0 => r'.pos >= r'.size \/ r'.pos >= length
    /\ last'.op = "seek" => IF last'.ret = 1 THEN r'.pos = last'.arg ELSE r' = r
    /\ last'.op = "read" => r'.pos = r.pos + (IF last'.ret > 0 THEN last'.ret ELSE 0)

(* Opening makes a reader in step, or none.                                *)
LEMMA OpenKeeps ==
  ASSUME ReaderInv, Open
  PROVE  ReaderInv' /\ CallKept
<1>1. NewReader \in ReaderStates
  BY DEF NewReader, ReaderStates
<1>2. PICK o \in Opened(NewReader) :
        /\ r' = (IF o.ok /\ o.s.size >= 0 THEN o.s ELSE NoReader)
        /\ last' = Called("open", 0, IF o.ok /\ o.s.size >= 0 THEN 1 ELSE -1)
  BY DEF Open
<1>3. o.s \in ReaderStates /\ InStep(o.s)
  BY <1>1, OpenedKeeps DEF ReaderInv
<1>4. length' = length /\ last'.op = "open"
  BY <1>2 DEF Open, Called
<1>5. ReaderInv'
  BY <1>2, <1>3, <1>4 DEF ReaderInv, InStep
<1>6. QED BY <1>4, <1>5 DEF CallKept

(* A read keeps its promises.                                              *)
LEMMA ReadKeeps ==
  ASSUME ReaderInv, NEW n \in 1..MaxRead, Read(n)
  PROVE  ReaderInv' /\ CallKept
<1>1. r \in ReaderStates /\ r.size >= 0 /\ InStep(r) /\ length \in Nat /\ n \in Nat \ {0}
  BY ReaderAssumption DEF ReaderInv, Read
<1>2. PICK x \in Reads(r, n) : r' = x.s /\ last' = Called("read", n, x.ret)
  BY DEF Read
<1>3. /\ x.s \in ReaderStates /\ InStep(x.s) /\ x.s.size >= 0
      /\ x.s.pos = r.pos + (IF x.ret > 0 THEN x.ret ELSE 0)
      /\ x.ret = 0 => x.s.pos >= x.s.size \/ x.s.pos >= length
  BY <1>1, ReadsKeep
<1>4. length' = length /\ last'.op = "read" /\ last'.ret = x.ret
  BY <1>2 DEF Read, Called
<1>5. ReaderInv'
  BY <1>1, <1>2, <1>3, <1>4 DEF ReaderInv, InStep
<1>6. QED BY <1>2, <1>3, <1>4, <1>5 DEF CallKept

(* A seek keeps its promises.                                              *)
LEMMA SeekKeeps ==
  ASSUME ReaderInv, NEW to \in Targets, Seek(to)
  PROVE  ReaderInv' /\ CallKept
<1>1. r \in ReaderStates /\ r.size >= 0 /\ InStep(r) /\ length \in Nat /\ to \in Int
  BY ReaderAssumption DEF ReaderInv, Seek
<1>2. length' = length
  BY DEF Seek
<1>3. CASE to < 0 \/ (r.size >= 0 /\ to > r.size)
  <2>1. r' = r /\ last'.op = "seek" /\ last'.ret = -1
    BY <1>3 DEF Seek, Called
  <2>2. ReaderInv'
    BY <1>1, <1>2, <2>1 DEF ReaderInv, InStep
  <2>3. QED BY <2>1, <2>2 DEF CallKept
<1>4. CASE ~(to < 0 \/ (r.size >= 0 /\ to > r.size))
  <2>1. PICK x \in (IF to = r.pos THEN {r} ELSE Reposition(to)) : r' = x
    BY <1>4 DEF Seek
  <2>2. last'.op = "seek" /\ last'.arg = to /\ last'.ret = 1
    BY <1>4 DEF Seek, Called
  <2>3. x \in ReaderStates /\ InStep(x) /\ x.pos = to /\ x.size = r.size
    <3>1. CASE to = r.pos
      BY <1>1, <2>1, <3>1
    <3>2. CASE to # r.pos
      <4>1. to \in Nat /\ x \in Reposition(to)
        BY <1>1, <1>4, <2>1, <3>2
      <4>2. QED BY <1>1, <4>1, RepositionKeeps
    <3>3. QED BY <3>1, <3>2
  <2>4. ReaderInv'
    BY <1>1, <1>2, <2>1, <2>3 DEF ReaderInv, InStep
  <2>5. QED BY <2>1, <2>2, <2>3, <2>4 DEF CallKept
<1>5. QED BY <1>3, <1>4

(* Every step keeps the invariant and its promises.                        *)
LEMMA ReaderInvStep == ReaderInv /\ [ReaderNext]_readerVars => ReaderInv' /\ [CallKept]_readerVars
<1>1. SUFFICES ASSUME ReaderInv, [ReaderNext]_readerVars PROVE ReaderInv' /\ [CallKept]_readerVars
  OBVIOUS
<1>2. CASE Open
  BY <1>1, <1>2, OpenKeeps
<1>3. CASE Close
  <2>1. r' = NoReader /\ length' = length /\ last'.op = "close"
    BY <1>3 DEF Close, Called
  <2>2. QED BY <1>1, <2>1 DEF ReaderInv, CallKept
<1>4. CASE Replace
  <2>1. r' = r /\ length' \in Nat /\ length' # length
    BY <1>4, ReaderAssumption DEF Replace
  <2>2. QED BY <1>1, <2>1 DEF ReaderInv, InStep, CallKept
<1>5. ASSUME NEW n \in 1..MaxRead, Read(n) PROVE ReaderInv' /\ CallKept
  BY <1>1, <1>5, ReadKeeps
<1>6. ASSUME NEW to \in Targets, Seek(to) PROVE ReaderInv' /\ CallKept
  BY <1>1, <1>6, SeekKeeps
<1>7. CASE UNCHANGED readerVars
  BY <1>1, <1>7 DEF readerVars, ReaderInv, InStep
<1>8. QED BY <1>1, <1>2, <1>3, <1>4, <1>5, <1>6, <1>7 DEF ReaderNext

(* The reader hands out the bytes at its position and the end only there,  *)
(* whatever ranges the server answers with, wherever it breaks off, and    *)
(* when the resource is replaced between two connections                   *)
(* (http-reader.cc:318-413).                                               *)
THEOREM ReaderFollowsPosition == ReaderSpec => StreamFollowsPosition
<1>1. ReaderInit => ReaderInv
  BY ReaderAssumption DEF ReaderInit, ReaderInv
<1>2. ReaderInv => StreamAligned /\ BodyInBounds
  <2>1. SUFFICES ASSUME ReaderInv, r.fd PROVE StreamAligned /\ BodyInBounds
    BY DEF StreamAligned, BodyInBounds
  <2>2. r \in ReaderStates /\ InStep(r)
    BY <2>1 DEF ReaderInv, NoReader
  <2>3. r.pos \in Nat /\ r.size \in Int /\ r.remaining \in Nat
    BY <2>2 DEF ReaderStates
  <2>4. QED BY <2>1, <2>2, <2>3 DEF InStep, StreamAligned, BodyInBounds
<1>3. [CallKept]_readerVars =>
        [length' = length /\ last'.op = "read" /\ last'.ret = 0
           => r'.pos >= r'.size \/ r'.pos >= length]_readerVars
  BY DEF CallKept
<1>4. [CallKept]_readerVars =>
        [length' = length =>
           /\ last'.op = "seek" => IF last'.ret = 1 THEN r'.pos = last'.arg ELSE r' = r
           /\ last'.op = "read" =>
                r'.pos = r.pos + (IF last'.ret > 0 THEN last'.ret ELSE 0)]_readerVars
  BY DEF CallKept
<1>5. QED BY <1>1, <1>2, <1>3, <1>4, ReaderInvStep, PTL
  DEF ReaderSpec, StreamFollowsPosition, NoFalseEnd, PositionFollowsCalls

-----------------------------------------------------------------------------
(* A write in progress starts where the counter is, fits into the room     *)
(* there was, and has its frames in place as far as it copied.  The reader *)
(* can only make more room meanwhile.                                      *)
WriteInPlace ==
  \/ producer = Idle
  \/ /\ producer.at = "copying" /\ producer.from = writePos
     /\ producer.done <= producer.frames
     /\ writePos + producer.frames <= readPos + Capacity
     /\ \A i \in 0..(producer.done - 1) :
          ring[(writePos + i) % Capacity] = writePos + i

(* A quantum in progress starts where the counter is and reads only frames *)
(* that were published.                                                    *)
QuantumPublished ==
  \/ consumer = Idle
  \/ /\ consumer.at = "copying" /\ consumer.from = readPos
     /\ consumer.done <= consumer.frames
     /\ readPos + consumer.frames <= writePos

(* The counters are at most a ring apart, and what lies between them is in *)
(* its slots.                                                              *)
CountersOK == readPos <= writePos /\ writePos <= readPos + Capacity
PublishedInPlace == \A p \in readPos..(writePos - 1) : ring[p % Capacity] = p

(* The inductive invariant. *)
RingInv == StreamTypeOK /\ WriteInPlace /\ QuantumPublished /\ CountersOK /\ PublishedInPlace

-----------------------------------------------------------------------------
(* A slot is one of the ring's.                                            *)
LEMMA SlotInRing ==
  ASSUME StreamAssumption, NEW p \in Nat
  PROVE  p % Capacity \in 0..(Capacity - 1)
BY DEF StreamAssumption

(* Frames less than a ring apart have different slots.                     *)
LEMMA SlotsDiffer ==
  ASSUME StreamAssumption, NEW p \in Nat, NEW q \in Nat, p < q, q < p + Capacity
  PROVE  p % Capacity # q % Capacity
<1> DEFINE a == p \div Capacity
           b == q \div Capacity
<1>1. Capacity \in Nat /\ Capacity > 0
  BY DEF StreamAssumption
<1>2. a \in Int /\ b \in Int /\ p = Capacity * a + (p % Capacity) /\ q = Capacity * b + (q % Capacity)
  BY <1>1
<1>3. SUFFICES ASSUME p % Capacity = q % Capacity PROVE FALSE
  OBVIOUS
<1> HIDE DEF a, b
<1>4. p % Capacity \in Int
  BY <1>1
<1>5. q - p = Capacity * b - Capacity * a
  BY <1>1, <1>2, <1>3, <1>4
<1>6. Capacity * b - Capacity * a = Capacity * (b - a)
  BY <1>1, <1>2
<1>7. CASE b - a >= 1
  <2>1. Capacity * (b - a) >= Capacity
    BY <1>1, <1>2, <1>7
  <2>2. QED BY <2>1, <1>1, <1>2, <1>5, <1>6
<1>8. CASE b - a <= 0
  <2>1. Capacity * (b - a) <= 0
    BY <1>1, <1>2, <1>8
  <2>2. QED BY <2>1, <1>1, <1>2, <1>5, <1>6
<1>9. QED BY <1>2, <1>7, <1>8

(* The fields of a copy in progress.                                       *)
LEMMA CopyFields ==
  ASSUME NEW most \in Nat, NEW s \in CopyStates(most)
  PROVE  /\ s.at \in {"idle", "copying"} /\ s.from \in Nat
         /\ s.frames \in 0..most /\ s.done \in 0..most
         /\ \A d \in 0..most : [s EXCEPT !.done = d] \in CopyStates(most)
BY DEF CopyStates

(* A copy that begins is one, as is none.                                  *)
LEMMA CopyBegins ==
  ASSUME NEW most \in Nat, NEW from \in Nat, NEW frames \in 0..most
  PROVE  Copying(from, frames) \in CopyStates(most) /\ Idle \in CopyStates(most)
BY DEF CopyStates, Copying, Idle

-----------------------------------------------------------------------------
(* At the start nothing is written and nobody copies.                      *)
LEMMA InitEstablishesRingInv ==
  ASSUME StreamAssumption, Init
  PROVE  RingInv
<1>1. StreamTypeOK
  <2>1. producer \in CopyStates(MaxWrite) /\ consumer \in CopyStates(Quantum)
    BY CopyBegins DEF Init, StreamAssumption
  <2>2. ring \in [0..(Capacity - 1) -> Nat \cup {NoFrame}]
    BY DEF Init
  <2>3. QED BY <2>1, <2>2 DEF Init, StreamTypeOK
<1>2. CountersOK /\ PublishedInPlace
  BY DEF Init, StreamAssumption, CountersOK, PublishedInPlace
<1>3. QED BY <1>1, <1>2 DEF Init, RingInv, WriteInPlace, QuantumPublished

(* A write begins: it is clipped to the room between the counters.         *)
LEMMA BeginWriteKeepsRingInv ==
  ASSUME StreamAssumption, RingInv, NEW n \in 1..MaxWrite, BeginWrite(n)
  PROVE  RingInv'
<1> DEFINE frames == LeastOf(n, Writable(readPos))
<1>1. MaxWrite \in Nat /\ Capacity \in Nat /\ readPos \in Nat /\ writePos \in Nat
  BY DEF StreamAssumption, RingInv, StreamTypeOK
<1>2. frames \in 0..MaxWrite /\ writePos + frames <= readPos + Capacity
  BY <1>1 DEF LeastOf, Writable, RingInv, CountersOK
<1>3. producer' = Copying(writePos, frames) /\ UNCHANGED <<ring, writePos, readPos, playing, consumer>>
  BY DEF BeginWrite
<1> HIDE DEF frames
<1>4. StreamTypeOK'
  BY <1>1, <1>2, <1>3, CopyBegins DEF RingInv, StreamTypeOK
<1>5. WriteInPlace'
  BY <1>1, <1>2, <1>3 DEF WriteInPlace, Copying
<1>6. QED BY <1>3, <1>4, <1>5 DEF RingInv, QuantumPublished, CountersOK, PublishedInPlace

(* The slot of the next frame is one of the ring's that holds no frame     *)
(* that is published or copied already.                                    *)
LEMMA WriteFrameKeepsRingInv ==
  ASSUME StreamAssumption, RingInv, WriteFrame
  PROVE  RingInv'
<1> DEFINE next == writePos + producer.done
<1>1. /\ MaxWrite \in Nat /\ Capacity \in Nat /\ readPos \in Nat /\ writePos \in Nat
      /\ producer.done \in 0..MaxWrite /\ producer.frames \in 0..MaxWrite
      /\ producer \in CopyStates(MaxWrite)
  BY CopyFields DEF StreamAssumption, RingInv, StreamTypeOK
<1>2. /\ producer.from = writePos /\ producer.done < producer.frames
      /\ writePos + producer.frames <= readPos + Capacity
      /\ \A i \in 0..(producer.done - 1) : ring[(writePos + i) % Capacity] = writePos + i
  BY DEF WriteFrame, RingInv, WriteInPlace, Idle
<1>3. /\ ring' = [ring EXCEPT ![next % Capacity] = next]
      /\ producer' = [producer EXCEPT !.done = producer.done + 1]
      /\ producer.at = "copying"
      /\ UNCHANGED <<writePos, readPos, playing, consumer>>
  BY <1>2 DEF WriteFrame
<1>4. next \in Nat /\ next < readPos + Capacity /\ writePos <= next /\ next = writePos + producer.done
  BY <1>1, <1>2
<1> HIDE DEF next
<1>5. next % Capacity \in 0..(Capacity - 1)
  BY <1>4, SlotInRing
<1>6. \A p \in Nat : readPos <= p /\ p < next => ring'[p % Capacity] = ring[p % Capacity]
  <2>1. SUFFICES ASSUME NEW p \in Nat, readPos <= p, p < next
                 PROVE  ring'[p % Capacity] = ring[p % Capacity]
    OBVIOUS
  <2>2. next < p + Capacity
    BY <1>1, <1>4, <2>1
  <2>3. p % Capacity # next % Capacity
    BY <1>4, <2>1, <2>2, SlotsDiffer
  <2>4. p % Capacity \in 0..(Capacity - 1)
    BY SlotInRing
  <2>5. ring \in [0..(Capacity - 1) -> Nat \cup {NoFrame}]
    BY DEF RingInv, StreamTypeOK
  <2>6. QED BY <1>3, <1>5, <2>3, <2>4, <2>5
<1>7. ring'[next % Capacity] = next
  BY <1>3, <1>5 DEF RingInv, StreamTypeOK
<1>8. StreamTypeOK'
  <2>1. producer' \in CopyStates(MaxWrite)
    <3>1. producer.done + 1 \in 0..MaxWrite
      BY <1>1, <1>2
    <3>2. QED BY <1>1, <1>3, <3>1, CopyFields
  <2>2. ring' \in [0..(Capacity - 1) -> Nat \cup {NoFrame}]
    BY <1>3, <1>4, <1>5 DEF RingInv, StreamTypeOK
  <2>3. QED BY <1>3, <2>1, <2>2 DEF RingInv, StreamTypeOK
<1>9. PublishedInPlace'
  BY <1>1, <1>3, <1>4, <1>6 DEF RingInv, PublishedInPlace
<1>10. WriteInPlace'
  <2>1. /\ producer'.done = producer.done + 1 /\ producer'.at = "copying"
        /\ producer'.from = writePos /\ producer'.frames = producer.frames
    BY <1>1, <1>2, <1>3 DEF CopyStates
  <2>2. \A i \in 0..producer.done : ring'[(writePos + i) % Capacity] = writePos + i
    <3>1. SUFFICES ASSUME NEW i \in 0..producer.done
                   PROVE  ring'[(writePos + i) % Capacity] = writePos + i
      OBVIOUS
    <3>2. CASE i = producer.done
      BY <1>4, <1>7, <3>2
    <3>3. CASE i # producer.done
      <4>1. writePos + i \in Nat /\ readPos <= writePos + i /\ writePos + i < next
        BY <1>1, <1>4, <3>3 DEF RingInv, CountersOK
      <4>2. i \in 0..(producer.done - 1)
        BY <1>1, <3>3
      <4>3. QED BY <1>2, <1>6, <4>1, <4>2
    <3>4. QED BY <3>2, <3>3
  <2>3. \A i \in 0..(producer'.done - 1) : ring'[(writePos' + i) % Capacity] = writePos' + i
    BY <1>1, <1>3, <2>1, <2>2
  <2>4. QED BY <1>1, <1>2, <1>3, <2>1, <2>3 DEF WriteInPlace
<1>11. QED BY <1>3, <1>8, <1>9, <1>10 DEF RingInv, QuantumPublished, CountersOK

(* A write ends: the frames it copied are published.                       *)
LEMMA EndWriteKeepsRingInv ==
  ASSUME StreamAssumption, RingInv, EndWrite
  PROVE  RingInv'
<1>1. /\ MaxWrite \in Nat /\ Capacity \in Nat /\ readPos \in Nat /\ writePos \in Nat
      /\ producer.frames \in 0..MaxWrite
  BY CopyFields DEF StreamAssumption, RingInv, StreamTypeOK
<1>2. /\ producer.done = producer.frames
      /\ writePos + producer.frames <= readPos + Capacity
      /\ \A i \in 0..(producer.frames - 1) : ring[(writePos + i) % Capacity] = writePos + i
  BY DEF EndWrite, RingInv, WriteInPlace, Idle
<1>3. /\ writePos' = writePos + producer.frames /\ producer' = Idle
      /\ UNCHANGED <<ring, readPos, playing, consumer>>
  BY DEF EndWrite, RingInv, WriteInPlace, Idle
<1>4. StreamTypeOK'
  BY <1>1, <1>3, CopyBegins DEF RingInv, StreamTypeOK
<1>5. CountersOK' /\ QuantumPublished'
  <2>1. consumer = Idle \/ consumer.frames \in Nat
    BY CopyFields DEF RingInv, StreamTypeOK, StreamAssumption
  <2>2. QED BY <1>1, <1>2, <1>3, <2>1 DEF RingInv, CountersOK, QuantumPublished
<1>6. PublishedInPlace'
  <2>1. SUFFICES ASSUME NEW p \in readPos..(writePos + producer.frames - 1)
                 PROVE  ring[p % Capacity] = p
    BY <1>1, <1>3 DEF PublishedInPlace
  <2>2. CASE p < writePos
    BY <1>1, <2>2 DEF RingInv, PublishedInPlace
  <2>3. CASE p >= writePos
    <3>1. p - writePos \in 0..(producer.frames - 1) /\ writePos + (p - writePos) = p
      BY <1>1, <2>3
    <3>2. QED BY <1>2, <3>1
  <2>4. QED BY <1>1, <2>2, <2>3
<1>7. QED BY <1>3, <1>4, <1>5, <1>6 DEF RingInv, WriteInPlace

(* A flush comes between two quanta, so no frame is taken from under one.  *)
LEMMA FlushKeepsRingInv ==
  ASSUME StreamAssumption, RingInv, Flush
  PROVE  RingInv'
<1>1. Capacity \in Nat /\ readPos \in Nat /\ writePos \in Nat
  BY DEF StreamAssumption, RingInv, StreamTypeOK
<1>2. StreamTypeOK'
  BY <1>1 DEF RingInv, StreamTypeOK, Flush
<1>3. CountersOK' /\ PublishedInPlace'
  BY <1>1 DEF Flush, CountersOK, PublishedInPlace
<1>4. WriteInPlace' /\ QuantumPublished'
  BY DEF Flush, WriteInPlace, QuantumPublished
<1>5. QED BY <1>2, <1>3, <1>4 DEF RingInv

(* A quantum begins: it takes no more frames than are published.           *)
LEMMA BeginQuantumKeepsRingInv ==
  ASSUME StreamAssumption, RingInv, BeginQuantum
  PROVE  RingInv'
<1> DEFINE frames == Available(writePos)
<1>1. Quantum \in Nat /\ readPos \in Nat /\ writePos \in Nat
  BY DEF StreamAssumption, RingInv, StreamTypeOK
<1>2. frames \in 0..Quantum /\ readPos + frames <= writePos
  BY <1>1 DEF Available, LeastOf, RingInv, CountersOK
<1>3. consumer' = Copying(readPos, frames) /\ UNCHANGED <<ring, writePos, readPos, playing, producer>>
  BY DEF BeginQuantum
<1> HIDE DEF frames
<1>4. StreamTypeOK'
  BY <1>1, <1>2, <1>3, CopyBegins DEF RingInv, StreamTypeOK
<1>5. QuantumPublished'
  BY <1>1, <1>2, <1>3 DEF QuantumPublished, Copying
<1>6. QED BY <1>3, <1>4, <1>5 DEF RingInv, WriteInPlace, CountersOK, PublishedInPlace

(* A quantum copies a frame.                                               *)
LEMMA ReadFrameKeepsRingInv ==
  ASSUME StreamAssumption, RingInv, ReadFrame
  PROVE  RingInv'
<1>1. /\ Quantum \in Nat /\ consumer \in CopyStates(Quantum)
      /\ consumer.done \in 0..Quantum /\ consumer.frames \in 0..Quantum
  BY CopyFields DEF StreamAssumption, RingInv, StreamTypeOK
<1>2. /\ consumer' = [consumer EXCEPT !.done = consumer.done + 1]
      /\ consumer.at = "copying" /\ consumer.done < consumer.frames
      /\ UNCHANGED <<ring, writePos, readPos, playing, producer>>
  BY DEF ReadFrame
<1>3. consumer' \in CopyStates(Quantum)
  <2>1. consumer.done + 1 \in 0..Quantum
    BY <1>1, <1>2
  <2>2. QED BY <1>1, <1>2, <2>1, CopyFields
<1>4. QuantumPublished'
  <2>1. consumer.from = readPos /\ readPos + consumer.frames <= writePos
    BY <1>2 DEF RingInv, QuantumPublished, Idle
  <2>2. /\ consumer'.done = consumer.done + 1 /\ consumer'.at = "copying"
        /\ consumer'.from = consumer.from /\ consumer'.frames = consumer.frames
    BY <1>1, <1>2 DEF CopyStates
  <2>3. QED BY <1>1, <1>2, <2>1, <2>2 DEF QuantumPublished
<1>5. StreamTypeOK'
  BY <1>2, <1>3 DEF RingInv, StreamTypeOK
<1>6. QED BY <1>2, <1>4, <1>5 DEF RingInv, WriteInPlace, CountersOK, PublishedInPlace

(* A quantum ends: its frames leave the queue.                             *)
LEMMA EndQuantumKeepsRingInv ==
  ASSUME StreamAssumption, RingInv, EndQuantum
  PROVE  RingInv'
<1>1. /\ Capacity \in Nat /\ Quantum \in Nat /\ readPos \in Nat /\ writePos \in Nat
      /\ consumer.frames \in 0..Quantum
  BY CopyFields DEF StreamAssumption, RingInv, StreamTypeOK
<1>2. readPos + consumer.frames <= writePos
  BY DEF EndQuantum, RingInv, QuantumPublished, Idle
<1>3. /\ readPos' = readPos + consumer.frames /\ consumer' = Idle
      /\ UNCHANGED <<ring, writePos, playing, producer>>
  BY DEF EndQuantum, RingInv, QuantumPublished, Idle
<1>4. StreamTypeOK'
  BY <1>1, <1>3, CopyBegins DEF RingInv, StreamTypeOK
<1>5. CountersOK'
  BY <1>1, <1>2, <1>3 DEF RingInv, CountersOK
<1>6. WriteInPlace'
  <2>1. producer = Idle \/ producer.frames \in Nat
    BY CopyFields DEF RingInv, StreamTypeOK, StreamAssumption
  <2>2. QED BY <1>1, <1>3, <2>1 DEF RingInv, WriteInPlace
<1>7. PublishedInPlace'
  BY <1>1, <1>3 DEF RingInv, PublishedInPlace
<1>8. QED BY <1>3, <1>4, <1>5, <1>6, <1>7 DEF RingInv, QuantumPublished

(* Every step keeps the invariant.                                         *)
LEMMA NextKeepsRingInv ==
  ASSUME StreamAssumption, RingInv, [Next]_vars
  PROVE  RingInv'
<1>1. CASE \E n \in 1..MaxWrite : BeginWrite(n)
  BY <1>1, BeginWriteKeepsRingInv
<1>2. CASE WriteFrame
  BY <1>2, WriteFrameKeepsRingInv
<1>3. CASE EndWrite
  BY <1>3, EndWriteKeepsRingInv
<1>4. CASE Flush
  BY <1>4, FlushKeepsRingInv
<1>5. CASE BeginQuantum
  BY <1>5, BeginQuantumKeepsRingInv
<1>6. CASE ReadFrame
  BY <1>6, ReadFrameKeepsRingInv
<1>7. CASE EndQuantum
  BY <1>7, EndQuantumKeepsRingInv
<1>8. ASSUME NEW on \in BOOLEAN, SetPlaying(on) PROVE RingInv'
  BY <1>8 DEF SetPlaying, RingInv, StreamTypeOK, WriteInPlace, QuantumPublished, CountersOK,
              PublishedInPlace
<1>9. CASE UNCHANGED vars
  BY <1>9 DEF vars, RingInv, StreamTypeOK, WriteInPlace, QuantumPublished, CountersOK,
              PublishedInPlace
<1>10. QED
  BY <1>1, <1>2, <1>3, <1>4, <1>5, <1>6, <1>7, <1>8, <1>9 DEF Next, Producer, Consumer

(* The invariant says what FramesInPlace does: a quantum reads published   *)
(* frames.                                                                 *)
LEMMA RingInvImpliesFramesInPlace ==
  ASSUME StreamAssumption, RingInv
  PROVE  FramesInPlace
<1>1. /\ Capacity \in Nat /\ readPos \in Nat /\ writePos \in Nat
      /\ consumer.frames \in Nat /\ consumer.done \in Nat
  BY CopyFields DEF StreamAssumption, RingInv, StreamTypeOK
<1>2. \A i \in consumer.done..(consumer.frames - 1) :
        ring[(consumer.from + i) % Capacity] = consumer.from + i
  <2>1. SUFFICES ASSUME NEW i \in consumer.done..(consumer.frames - 1)
                 PROVE  ring[(consumer.from + i) % Capacity] = consumer.from + i
    OBVIOUS
  <2>2. consumer.from = readPos /\ readPos + consumer.frames <= writePos
    BY <1>1, <2>1 DEF RingInv, QuantumPublished, Idle
  <2>3. readPos + i \in readPos..(writePos - 1)
    BY <1>1, <2>1, <2>2
  <2>4. QED BY <2>2, <2>3 DEF RingInv, PublishedInPlace
<1>3. QED BY <1>2 DEF FramesInPlace, RingInv, CountersOK, PublishedInPlace

-----------------------------------------------------------------------------
(* The invariant holds in every state.                                     *)
THEOREM RingInvariance ==
  ASSUME StreamAssumption
  PROVE  Spec => []RingInv
<1>1. Init => RingInv
  BY InitEstablishesRingInv
<1>2. RingInv /\ [Next]_vars => RingInv'
  BY NextKeepsRingInv
<1>3. QED BY <1>1, <1>2, PTL DEF Spec

(* The state is of its type; in particular a quantum holds no more frames  *)
(* than its bus.                                                           *)
THEOREM RingTypeCorrect ==
  ASSUME StreamAssumption
  PROVE  Spec => []StreamTypeOK
<1>1. RingInv => StreamTypeOK
  BY DEF RingInv
<1>2. QED BY <1>1, RingInvariance, PTL

(* The producer never writes over a frame that is published or being read, *)
(* without a lock and in every interleaving (audio-graph.cc:264-283,       *)
(* 635-670).                                                               *)
THEOREM RingIsSafe ==
  ASSUME StreamAssumption
  PROVE  Spec => []FramesInPlace
<1>1. RingInv => FramesInPlace
  BY RingInvImpliesFramesInPlace
<1>2. QED BY <1>1, RingInvariance, PTL

(* The two threads share the ring without a lock, for every capacity,      *)
(* every quantum and every size of a write.                                *)
THEOREM StreamStaysConsistent ==
  ASSUME StreamAssumption
  PROVE  Spec => []StreamConsistent
<1>1. RingInv => StreamConsistent
  BY RingInvImpliesFramesInPlace DEF RingInv, StreamConsistent
<1>2. QED BY <1>1, RingInvariance, PTL

-----------------------------------------------------------------------------
(* The queue that the ring stands for: the frames from one counter to the  *)
(* other; what is pushed on it and what is left of it.                     *)
Counted(from, n) == [i \in 1..n |-> from + i - 1]
Held(slots, from, to) == [i \in 1..(to - from) |-> slots[(from + i - 1) % Capacity]]
Queued == Held(ring, readPos, writePos)
Pushed(queue, more) == queue \o more
Popped(queue, k, n) == SubSeq(queue, k + 1, n)

(* Frames that are counted are a sequence of their number.                 *)
LEMMA CountedIsSeq ==
  ASSUME NEW from \in Nat, NEW n \in Nat
  PROVE  Counted(from, n) \in Seq(Nat) /\ Len(Counted(from, n)) = n
<1>1. Counted(from, n) \in [1..n -> Nat]
  BY DEF Counted
<1>2. QED BY <1>1, SeqDef, LenProperties

(* Counting on gives a longer sequence.                                    *)
LEMMA CountedPushed ==
  ASSUME NEW from \in Nat, NEW n \in Nat, NEW k \in Nat, NEW all \in Nat, NEW next \in Nat,
         all = n + k, next = from + n
  PROVE  Counted(from, all) = Pushed(Counted(from, n), Counted(next, k))
<1> DEFINE queue == Counted(from, n)
           more == Counted(next, k)
           longer == Counted(from, all)
<1>1. queue \in Seq(Nat) /\ Len(queue) = n
  BY CountedIsSeq
<1>2. more \in Seq(Nat) /\ Len(more) = k
  BY <1>1, CountedIsSeq
<1>3. longer \in Seq(Nat) /\ Len(longer) = n + k
  BY CountedIsSeq
<1>4. /\ \A i \in 1..n : queue[i] = from + i - 1
      /\ \A i \in 1..k : more[i] = from + n + i - 1
      /\ \A i \in 1..(n + k) : longer[i] = from + i - 1
  BY <1>1 DEF Counted
<1> HIDE DEF queue, more, longer
<1>5. queue \o more \in Seq(Nat) /\ Len(queue \o more) = n + k
  BY <1>1, <1>2, ConcatProperties
<1>6. ASSUME NEW i \in 1..(n + k) PROVE longer[i] = (queue \o more)[i]
  <2>1. (queue \o more)[i] = IF i <= n THEN queue[i] ELSE more[i - n]
    <3>1. i \in 1..(Len(queue) + Len(more))
      BY <1>1, <1>2
    <3>2. (queue \o more)[i] = IF i <= Len(queue) THEN queue[i] ELSE more[i - Len(queue)]
      BY <1>1, <1>2, <3>1, ConcatProperties
    <3>3. QED BY <1>1, <3>2
  <2>2. longer[i] = from + i - 1
    BY <1>4
  <2>3. CASE i <= n
    <3>1. i \in 1..n
      BY <2>3
    <3>2. QED BY <1>4, <2>1, <2>2, <2>3, <3>1
  <2>4. CASE ~(i <= n)
    <3>1. i - n \in 1..k
      BY <2>4
    <3>2. more[i - n] = from + n + (i - n) - 1
      BY <1>4, <3>1
    <3>3. (queue \o more)[i] = more[i - n]
      BY <2>1, <2>4
    <3>4. QED BY <2>2, <3>2, <3>3
  <2>5. QED BY <2>3, <2>4
<1>7. longer = queue \o more
  BY <1>3, <1>5, <1>6, SeqEqual
<1>8. QED BY <1>7 DEF queue, longer, more, Pushed

(* Without its first k frames, it counts from k further on.                *)
LEMMA CountedPopped ==
  ASSUME NEW from \in Nat, NEW n \in Nat, NEW k \in Nat, NEW left \in Nat, NEW next \in Nat,
         n = left + k, next = from + k
  PROVE  Counted(next, left) = Popped(Counted(from, n), k, n)
<1> DEFINE queue == Counted(from, n)
           rest == SubSeq(queue, k + 1, n)
<1>1. queue \in Seq(Nat) /\ Len(queue) = n
  BY CountedIsSeq
<1>2. /\ rest \in Seq(Nat) /\ Len(rest) = left
      /\ \A i \in 1..left : rest[i] = queue[k + i]
  BY <1>1, SubSeqProperties
<1>3. /\ Counted(next, left) \in Seq(Nat) /\ Len(Counted(next, left)) = left
      /\ \A i \in 1..left : Counted(next, left)[i] = from + k + i - 1
  BY CountedIsSeq DEF Counted
<1>4. \A i \in 1..left : rest[i] = from + k + i - 1
  BY <1>2 DEF Counted
<1> HIDE DEF rest
<1>5. rest = Counted(next, left)
  BY <1>2, <1>3, <1>4, SeqEqual
<1>6. QED BY <1>1, <1>5 DEF rest, Popped

(* A ring whose slots hold what lies between its counters is counted.      *)
LEMMA QueuedIsCounted ==
  ASSUME NEW slots, NEW from \in Nat, NEW to \in Nat,
         \A p \in from..(to - 1) : slots[p % Capacity] = p
  PROVE  Held(slots, from, to) = Counted(from, to - from)
<1>1. \A i \in 1..(to - from) : slots[(from + i - 1) % Capacity] = from + i - 1
  OBVIOUS
<1>2. QED BY <1>1 DEF Held, Counted

(* A counter that moves by no more than a ring moves by so many frames.    *)
LEMMA MovesBy ==
  ASSUME NEW a \in Nat, NEW b \in Nat, NEW c \in Nat, a < b, b <= a + c
  PROVE  \E k \in 1..c : b = a + k
<1>1. b - a \in 1..c /\ b = a + (b - a)
  OBVIOUS
<1>2. QED BY <1>1

(* A step of the threads pushes frames, takes frames or leaves the queue   *)
(* as it is.                                                               *)
LEMMA StepsOfTheQueue ==
  ASSUME StreamAssumption, RingInv, RingInv', [Next]_vars
  PROVE  \/ writePos' = writePos /\ readPos' = readPos
         \/ \E k \in 1..Capacity : readPos' = readPos /\ writePos' = writePos + k
         \/ \E k \in 1..Capacity : /\ writePos' = writePos /\ readPos' = readPos + k
                                   /\ k <= writePos - readPos
<1>1. /\ Capacity \in Nat /\ readPos \in Nat /\ writePos \in Nat
      /\ readPos' \in Nat /\ writePos' \in Nat
      /\ readPos <= writePos /\ writePos <= readPos + Capacity
      /\ readPos' <= writePos' /\ writePos' <= readPos' + Capacity
  BY DEF StreamAssumption, RingInv, StreamTypeOK, CountersOK
<1>2. CASE EndWrite
  <2>1. readPos' = readPos /\ writePos' >= writePos
    <3>1. producer.frames \in Nat /\ writePos' = writePos + producer.frames
      BY <1>2, CopyFields DEF EndWrite, RingInv, StreamTypeOK, StreamAssumption, WriteInPlace, Idle
    <3>2. QED BY <1>1, <1>2, <3>1 DEF EndWrite
  <2>2. CASE writePos' = writePos
    BY <2>1, <2>2
  <2>3. CASE writePos' > writePos
    <3>1. writePos < writePos' /\ writePos' <= writePos + Capacity
      BY <1>1, <2>1, <2>3
    <3>2. QED BY <1>1, <2>1, <3>1, MovesBy
  <2>4. QED BY <1>1, <2>1, <2>2, <2>3
<1>3. CASE Flush \/ EndQuantum
  <2>1. writePos' = writePos /\ readPos' >= readPos
    <3>1. CASE Flush
      BY <1>1, <3>1 DEF Flush
    <3>2. CASE EndQuantum
      <4>1. consumer.frames \in Nat /\ readPos' = readPos + consumer.frames
        BY <3>2, CopyFields DEF EndQuantum, RingInv, StreamTypeOK, StreamAssumption, QuantumPublished, Idle
      <4>2. QED BY <1>1, <3>2, <4>1 DEF EndQuantum
    <3>3. QED BY <1>3, <3>1, <3>2
  <2>2. CASE readPos' = readPos
    BY <2>1, <2>2
  <2>3. CASE readPos' > readPos
    <3>1. readPos < readPos' /\ readPos' <= readPos + Capacity
      BY <1>1, <2>1, <2>3
    <3>2. PICK k \in 1..Capacity : readPos' = readPos + k
      BY <1>1, <3>1, MovesBy
    <3>3. k <= writePos - readPos
      BY <1>1, <2>1, <3>2
    <3>4. QED BY <2>1, <3>2, <3>3
  <2>4. QED BY <1>1, <2>1, <2>2, <2>3
<1>4. CASE ~EndWrite /\ ~Flush /\ ~EndQuantum
  BY <1>4 DEF Next, Producer, Consumer, BeginWrite, WriteFrame, BeginQuantum, ReadFrame,
              SetPlaying, vars
<1>5. QED BY <1>2, <1>3, <1>4

(* The ring implements the queue the media element relies on               *)
(* (audio-graph.cc:279-281, 658-660).                                      *)
THEOREM ImplementsQueue ==
  ASSUME StreamAssumption
  PROVE  Spec => StreamIsQueue
<1>1. Init => Frames!QueueInit
  <2>1. SUFFICES ASSUME Init PROVE Queued = <<>> /\ readPos = 0
    BY DEF Frames!QueueInit, Queued, Held
  <2>2. readPos = 0 /\ writePos = 0
    BY <2>1 DEF Init
  <2>3. Queued = Counted(0, 0)
    BY <2>2 DEF Queued, Held, Counted
  <2>4. Counted(0, 0) \in Seq(Nat) /\ Len(Counted(0, 0)) = 0
    BY CountedIsSeq
  <2>5. QED BY <2>2, <2>3, <2>4, EmptySeq
<1>2. RingInv /\ RingInv' /\ [Next]_vars => [Frames!QueueNext]_<<Queued, readPos>>
  <2>1. SUFFICES ASSUME RingInv, RingInv', [Next]_vars
                 PROVE  [Frames!QueueNext]_<<Queued, readPos>>
    OBVIOUS
  <2>2. /\ readPos \in Nat /\ writePos \in Nat /\ readPos <= writePos
        /\ readPos' \in Nat /\ writePos' \in Nat /\ Capacity \in Nat
        /\ readPos' <= writePos' /\ writePos' <= readPos' + Capacity
    BY <2>1 DEF StreamAssumption, RingInv, StreamTypeOK, CountersOK
  <2>3. Queued = Counted(readPos, writePos - readPos)
    <3>1. \A p \in readPos..(writePos - 1) : ring[p % Capacity] = p
      BY <2>1 DEF RingInv, PublishedInPlace
    <3>2. QED BY <2>2, <3>1, QueuedIsCounted DEF Queued
  <2>4. Queued' = Counted(readPos', writePos' - readPos')
    <3>1. \A p \in readPos'..(writePos' - 1) : ring'[p % Capacity] = p
      BY <2>1 DEF RingInv, PublishedInPlace
    <3>2. QED BY <2>2, <3>1, QueuedIsCounted DEF Queued
  <2>5. Len(Queued) = writePos - readPos
    BY <2>2, <2>3, CountedIsSeq
  <2>6. CASE writePos' = writePos /\ readPos' = readPos
    BY <2>3, <2>4, <2>6
  <2>7. ASSUME NEW k \in 1..Capacity, readPos' = readPos, writePos' = writePos + k
        PROVE  Frames!Push(k)
    <3>1. PICK n \in Nat, all \in Nat, next \in Nat :
            /\ n = writePos - readPos /\ all = writePos' - readPos'
            /\ all = n + k /\ next = readPos + n /\ k \in Nat
      BY <2>2, <2>7
    <3>2. Counted(readPos, all) = Pushed(Counted(readPos, n), Counted(next, k))
      <4>1. readPos \in Nat /\ k \in Nat /\ all = n + k /\ next = readPos + n
        BY <2>2, <3>1
      <4>2. QED BY <4>1, CountedPushed
    <3>3. next = readPos + Len(Queued) /\ Len(Queued) + k <= Capacity
      BY <2>2, <2>5, <2>7, <3>1
    <3>4. Queued' = Pushed(Queued, Counted(readPos + Len(Queued), k))
      BY <2>3, <2>4, <2>7, <3>1, <3>2, <3>3
    <3>5. QED BY <2>7, <3>3, <3>4 DEF Frames!Push, Queued, Held, Counted, Pushed
  <2>8. ASSUME NEW k \in 1..Capacity, writePos' = writePos, readPos' = readPos + k,
               k <= writePos - readPos
        PROVE  Frames!Pop(k)
    <3>1. PICK n \in Nat, left \in Nat, next \in Nat :
            /\ n = writePos - readPos /\ left = writePos' - readPos'
            /\ n = left + k /\ next = readPos + k /\ next = readPos' /\ k \in Nat
      BY <2>2, <2>8
    <3>2. Counted(next, left) = Popped(Counted(readPos, n), k, n)
      <4>1. readPos \in Nat /\ k \in Nat /\ n = left + k /\ next = readPos + k
        BY <2>2, <3>1
      <4>2. QED BY <4>1, CountedPopped
    <3>3. Queued' = Popped(Queued, k, Len(Queued)) /\ k <= Len(Queued)
      BY <2>3, <2>4, <2>5, <2>8, <3>1, <3>2
    <3>4. QED BY <2>8, <3>3 DEF Frames!Pop, Queued, Held, Popped
  <2>9. QED BY <2>1, <2>6, <2>7, <2>8, StepsOfTheQueue DEF Frames!QueueNext
<1>3. QED BY <1>1, <1>2, RingInvariance, PTL DEF Spec, StreamIsQueue, Frames!QueueSpec, Queued, Held

-----------------------------------------------------------------------------
(* The sink.  While the script waits for the thread, no sink is left and   *)
(* the driver is told to stop; a driver nobody waits for goes on.          *)
SinkTypeOK ==
  /\ up \in BOOLEAN /\ stop \in BOOLEAN
  /\ thread \in {"none", "looping", "waiting", "ended"}
  /\ sinks \subseteq Graphs
  /\ voice \in [Graphs -> Voices \cup {NoVoice}]
  /\ voiceUsed \subseteq Voices
  /\ caller \in {"idle", "joining"}
JoiningStops == caller = "joining" => up /\ stop /\ sinks = {}
UpGoesOn == caller = "idle" /\ up => ~stop

(* The inductive invariant. *)
SinkInv == SinkTypeOK /\ SinksConsistent /\ JoiningStops /\ UpGoesOn

-----------------------------------------------------------------------------
(* The voice an attach takes was free.                                     *)
LEMMA VoiceTaken ==
  ASSUME NEW S \in SUBSET Voices, S # {}
  PROVE  LeastVoice(S) \in S
<1>1. S \in SUBSET Nat
  BY SinkAssumption
<1>2. \E v \in S : \A w \in S : v <= w
  BY <1>1, LeastNat
<1>3. QED BY <1>2 DEF LeastVoice

(* A number that says "no voice" is no voice.                              *)
LEMMA NoVoiceIsNone == NoVoice \notin Voices
BY SinkAssumption DEF NoVoice

(* The program starts without a driver.                                    *)
LEMMA SinkInvInit == SinkInit => SinkInv
BY DEF SinkInit, SinkInv, SinkTypeOK, SinksConsistent, SinksHaveDriver, VoicesAccounted,
       ThreadNeedsDriver, JoiningStops, UpGoesOn

(* A pass, a wait and a buffer played out leave sinks and voices alone.    *)
LEMMA RenderKeepsSinkInv ==
  ASSUME SinkInv,
         Pass \/ WaitFrame \/ (\E g \in Graphs, b \in Buffers : PlayBuffer(g, b))
  PROVE  SinkInv'
<1>1. /\ UNCHANGED <<up, stop, sinks, voice, voiceUsed, caller>>
      /\ thread' \in {"looping", "waiting", "ended", thread}
      /\ thread' # thread => thread # "none"
  BY DEF Pass, WaitFrame, PlayBuffer
<1>2. SinkTypeOK'
  BY <1>1 DEF SinkInv, SinkTypeOK
<1>3. SinksHaveDriver' /\ VoicesAccounted' /\ ThreadNeedsDriver' /\ JoiningStops' /\ UpGoesOn'
  BY <1>1 DEF SinkInv, SinksConsistent, SinksHaveDriver, VoicesAccounted, ThreadNeedsDriver,
              JoiningStops, UpGoesOn
<1>4. QED BY <1>2, <1>3 DEF SinkInv, SinksConsistent

(* The join ends the thread and the driver together.                       *)
LEMMA JoinKeepsSinkInv ==
  ASSUME SinkInv, Join
  PROVE  SinkInv'
BY DEF Join, SinkInv, SinkTypeOK, SinksConsistent, SinksHaveDriver, VoicesAccounted,
       ThreadNeedsDriver, JoiningStops, UpGoesOn

(* A failed attach leaves nothing behind, or tells the driver to stop.     *)
LEMMA AttachFailedKeepsSinkInv ==
  ASSUME SinkInv, caller = "idle", AttachFailed, UNCHANGED <<sinks, voice, buffer>>
  PROVE  SinkInv'
<1>1. CASE UNCHANGED <<up, stop, thread, voiceUsed, caller>>
  BY <1>1 DEF SinkInv, SinkTypeOK, SinksConsistent, SinksHaveDriver, VoicesAccounted,
              ThreadNeedsDriver, JoiningStops, UpGoesOn
<1>2. CASE /\ sinks = {} /\ ExitDriver /\ thread' = IF up THEN thread ELSE "looping"
           /\ voiceUsed' = UsedVoices /\ caller' = "joining"
  <2>1. voiceUsed' = {}
    BY <1>2 DEF UsedVoices, SinkInv, SinksConsistent, VoicesAccounted
  <2>2. SinkTypeOK'
    BY <1>2, <2>1 DEF SinkInv, SinkTypeOK, ExitDriver
  <2>3. VoicesAccounted'
    BY <1>2, <2>1 DEF SinkInv, SinksConsistent, VoicesAccounted
  <2>4. SinksHaveDriver' /\ ThreadNeedsDriver' /\ JoiningStops' /\ UpGoesOn'
    BY <1>2 DEF SinkInv, SinksConsistent, SinksHaveDriver, ThreadNeedsDriver, JoiningStops,
                UpGoesOn, ExitDriver
  <2>5. QED BY <2>2, <2>3, <2>4 DEF SinkInv, SinksConsistent
<1>3. QED BY <1>1, <1>2 DEF AttachFailed

(* An attach that succeeds takes a voice no sink has.                      *)
LEMMA AttachKeepsSinkInv ==
  ASSUME SinkInv, NEW g \in Graphs, Attach(g)
  PROVE  SinkInv'
<1> DEFINE v == LeastVoice(Voices \ UsedVoices)
<1>1. CASE AttachFailed /\ UNCHANGED <<sinks, voice, buffer>>
  BY <1>1, AttachFailedKeepsSinkInv DEF Attach
<1>2. CASE /\ Voices \ UsedVoices # {} /\ InitDriver /\ sinks' = sinks \cup {g}
           /\ voice' = [voice EXCEPT ![g] = v] /\ voiceUsed' = UsedVoices \cup {v}
           /\ UNCHANGED caller
  <2>1. v \in Voices /\ v \notin UsedVoices /\ v # NoVoice
    BY <1>2, VoiceTaken, NoVoiceIsNone
  <2> HIDE DEF v
  <2>2. caller = "idle" /\ g \notin sinks
    BY DEF Attach
  <2>3. UsedVoices = {voice[h] : h \in sinks}
    BY DEF UsedVoices, SinkInv, SinksConsistent, SinksHaveDriver, VoicesAccounted
  <2>4. \A h \in Graphs : voice'[h] = IF h = g THEN v ELSE voice[h]
    BY <1>2 DEF SinkInv, SinkTypeOK
  <2>5. SinkTypeOK'
    <3>1. voice' \in [Graphs -> Voices \cup {NoVoice}] /\ sinks' \subseteq Graphs
      BY <1>2, <2>1 DEF SinkInv, SinkTypeOK
    <3>2. voiceUsed' \subseteq Voices
      BY <1>2, <2>1 DEF SinkInv, SinkTypeOK, UsedVoices
    <3>3. QED BY <1>2, <3>1, <3>2 DEF SinkInv, SinkTypeOK, InitDriver
  <2>6. VoicesAccounted'
    <3>1. voiceUsed' = {voice'[h] : h \in sinks'}
      <4>1. {voice'[h] : h \in sinks'} = {voice[h] : h \in sinks} \cup {v}
        BY <1>2, <2>2, <2>4 DEF SinkInv, SinkTypeOK
      <4>2. QED BY <1>2, <2>3, <4>1
    <3>2. \A h, k \in sinks' : voice'[h] = voice'[k] => h = k
      BY <1>2, <2>1, <2>2, <2>3, <2>4 DEF SinkInv, SinkTypeOK, SinksConsistent, VoicesAccounted
    <3>3. \A h \in Graphs : h \in sinks' <=> voice'[h] # NoVoice
      BY <1>2, <2>1, <2>4 DEF SinkInv, SinksConsistent, VoicesAccounted
    <3>4. QED BY <3>1, <3>2, <3>3 DEF VoicesAccounted
  <2>7. SinksHaveDriver' /\ ThreadNeedsDriver' /\ JoiningStops' /\ UpGoesOn'
    BY <1>2, <2>2 DEF SinkInv, SinksConsistent, SinksHaveDriver, ThreadNeedsDriver,
                      JoiningStops, UpGoesOn, InitDriver
  <2>8. QED BY <2>5, <2>6, <2>7 DEF SinkInv, SinksConsistent
<1>3. QED BY <1>1, <1>2 DEF Attach

(* A detach gives its voice back, and the last one stops the driver.       *)
LEMMA DetachKeepsSinkInv ==
  ASSUME SinkInv, NEW g \in Graphs, Detach(g)
  PROVE  SinkInv'
<1>1. /\ caller = "idle" /\ g \in sinks /\ up /\ ~stop
      /\ sinks' = sinks \ {g} /\ voiceUsed' = voiceUsed \ {voice[g]}
      /\ voice' = [voice EXCEPT ![g] = NoVoice] /\ UNCHANGED thread
  BY DEF Detach, VoicesLeft, SinkInv, SinksConsistent, SinksHaveDriver, SinkTypeOK
<1>2. \A h \in Graphs : voice'[h] = IF h = g THEN NoVoice ELSE voice[h]
  BY <1>1 DEF SinkInv, SinkTypeOK
<1>3. up' = TRUE /\ (sinks = {g} => stop' = TRUE /\ caller' = "joining")
      /\ (sinks # {g} => UNCHANGED <<stop, caller>>)
  BY <1>1 DEF Detach, ExitDriver
<1>4. SinkTypeOK'
  <2>1. voice' \in [Graphs -> Voices \cup {NoVoice}] /\ sinks' \subseteq Graphs
        /\ voiceUsed' \subseteq Voices
    BY <1>1 DEF SinkInv, SinkTypeOK
  <2>2. up' \in BOOLEAN /\ stop' \in BOOLEAN /\ caller' \in {"idle", "joining"}
        /\ thread' \in {"none", "looping", "waiting", "ended"}
    BY <1>1, <1>3 DEF SinkInv, SinkTypeOK
  <2>3. QED BY <2>1, <2>2 DEF SinkTypeOK
<1>5. VoicesAccounted'
  <2>1. \A h, k \in sinks : voice[h] = voice[k] => h = k
    BY DEF SinkInv, SinksConsistent, VoicesAccounted
  <2>2. voiceUsed = {voice[h] : h \in sinks}
    BY <1>1 DEF SinkInv, SinksConsistent, VoicesAccounted
  <2>3. sinks \subseteq Graphs
    BY DEF SinkInv, SinkTypeOK
  <2>4. voiceUsed' = {voice'[h] : h \in sinks'}
    <3>1. {voice'[h] : h \in sinks'} = {voice[h] : h \in sinks \ {g}}
      BY <1>1, <1>2, <2>3
    <3>2. QED BY <1>1, <2>1, <2>2, <3>1
  <2>5. \A h, k \in sinks' : voice'[h] = voice'[k] => h = k
    BY <1>1, <1>2, <2>1, <2>3
  <2>6. \A h \in Graphs : h \in sinks' <=> voice'[h] # NoVoice
    BY <1>1, <1>2 DEF SinkInv, SinksConsistent, VoicesAccounted
  <2>7. QED BY <2>4, <2>5, <2>6 DEF VoicesAccounted
<1>6. SinksHaveDriver' /\ JoiningStops' /\ UpGoesOn'
  BY <1>1, <1>3 DEF SinksHaveDriver, JoiningStops, UpGoesOn
<1>7. ThreadNeedsDriver'
  BY <1>1, <1>3 DEF SinkInv, SinksConsistent, ThreadNeedsDriver
<1>8. QED BY <1>4, <1>5, <1>6, <1>7 DEF SinkInv, SinksConsistent

(* Every step keeps the invariant.                                         *)
LEMMA SinkInvStep == SinkInv /\ [SinkNext]_sinkVars => SinkInv'
<1>1. SUFFICES ASSUME SinkInv, [SinkNext]_sinkVars PROVE SinkInv'
  OBVIOUS
<1>2. CASE Pass \/ WaitFrame \/ (\E g \in Graphs, b \in Buffers : PlayBuffer(g, b))
  BY <1>1, <1>2, RenderKeepsSinkInv
<1>3. CASE Join
  BY <1>1, <1>3, JoinKeepsSinkInv
<1>4. ASSUME NEW g \in Graphs, Attach(g) PROVE SinkInv'
  BY <1>1, <1>4, AttachKeepsSinkInv
<1>5. ASSUME NEW g \in Graphs, Detach(g) PROVE SinkInv'
  BY <1>1, <1>5, DetachKeepsSinkInv
<1>6. CASE UNCHANGED sinkVars
  BY <1>1, <1>6 DEF sinkVars, SinkInv, SinkTypeOK, SinksConsistent, SinksHaveDriver,
                    VoicesAccounted, ThreadNeedsDriver, JoiningStops, UpGoesOn
<1>7. QED BY <1>1, <1>2, <1>3, <1>4, <1>5, <1>6 DEF SinkNext

(* Sinks, voices, driver and render thread belong together in every state, *)
(* although attach and detach give the lock away while they wait for the   *)
(* thread (audio-sink-audren.cc:86-229), for every number of graphs,       *)
(* voices and buffers.                                                     *)
THEOREM SinksStayConsistent == SinkSpec => []SinksConsistent
<1>1. SinkInv => SinksConsistent
  BY DEF SinkInv
<1>2. QED BY <1>1, SinkInvInit, SinkInvStep, PTL DEF SinkSpec
===============================================================================
