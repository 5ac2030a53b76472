--------------------------- MODULE PeerSlotsProofs ---------------------------
(***************************************************************************)
(* Proofs about PeerSlots, for every swarm and every limit.                *)
(***************************************************************************)
EXTENDS PeerSlots, FiniteSetTheorems, SequenceTheorems, WellFoundedInduction, TLAPS

-----------------------------------------------------------------------------
(* Every non-empty set of natural numbers has a least element. *)
LEMMA LeastNat ==
  ASSUME NEW T \in SUBSET Nat, T # {}
  PROVE  \E x \in T : \A y \in T : x <= y
<1>1. PICK x \in T : \A y \in T : <<y, x>> \notin OpToRel(<, Nat)
  BY NatLessThanWellFounded, WFMin
<1>2. \A y \in T : ~(y < x)
  BY <1>1 DEF OpToRel
<1> QED
  BY <1>2

-----------------------------------------------------------------------------
(* The inductive invariant: the three claims need each other. *)
IInv == TypeOK /\ SlotsBounded /\ SlotsAccounted

(* The loop of connectMore stops, at the first address that fills a slot   *)
(* too many or at the end of the queue.                                    *)
LEMMA ConsumedStops ==
  ASSUME NEW q \in Seq(Addrs)
  PROVE  /\ Consumed(q) \in 0..Len(q)
         /\ \A j \in 0..(Consumed(q) - 1) : ~Full(q, j)
<1> DEFINE Stops(k) == k = Len(q) \/ Full(q, k)
<1> DEFINE IsFirst(k) == Stops(k) /\ \A j \in 0..(k - 1) : ~Full(q, j)
<1> DEFINE c == CHOOSE k \in 0..Len(q) : IsFirst(k)
<1> DEFINE T == {k \in 0..Len(q) : Stops(k)}
<1>0. Len(q) \in Nat
  OBVIOUS
<1>1. T \in SUBSET Nat /\ Len(q) \in T
  BY <1>0
<1>2. PICK k \in T : \A j \in T : k <= j
  BY <1>1, LeastNat
<1>3. \A j \in 0..(k - 1) : ~Full(q, j)
  <2>1. SUFFICES ASSUME NEW j \in 0..(k - 1), Full(q, j) PROVE FALSE
    OBVIOUS
  <2>2. j \in T
    BY <1>0, <1>1, <2>1
  <2>3. QED BY <1>1, <1>2, <2>1, <2>2
<1>4. \E x \in 0..Len(q) : IsFirst(x)
  BY <1>2, <1>3
<1>5. c \in 0..Len(q) /\ IsFirst(c)
  BY <1>4
<1>6. Consumed(q) = c
  BY DEF Consumed
<1> HIDE DEF c
<1>7. QED BY <1>5, <1>6

(* What is dialled is not in use yet, and fits.                            *)
LEMMA DialledFits ==
  ASSUME IInv, NEW q \in Seq(Addrs)
  PROVE  /\ Dialled(q) \subseteq Addrs
         /\ Dialled(q) \cap (connecting \cup peers) = {}
         /\ IsFiniteSet(Dialled(q))
         /\ Cardinality(Dialled(q)) <= Room
         /\ Room \in Nat
<1>0. /\ IsFiniteSet(Addrs)
      /\ IsFiniteSet(connecting) /\ IsFiniteSet(peers)
      /\ Cardinality(connecting) \in Nat /\ Cardinality(peers) \in Nat
      /\ MaxPeers \in Nat /\ MaxConnecting \in Nat
  BY SlotsAssumption, FS_Subset, FS_CardinalityType DEF IInv, TypeOK
<1>1. Room \in Nat
  BY <1>0 DEF IInv, SlotsBounded, Room, LeastOf
<1>2. Consumed(q) \in 0..Len(q) /\ \A j \in 0..(Consumed(q) - 1) : ~Full(q, j)
  BY ConsumedStops
<1>3. \A k \in 0..Len(q) : /\ Tried(q, k) \subseteq Addrs
                           /\ Tried(q, k) \cap (connecting \cup peers) = {}
  BY DEF Tried, InUse
<1>4. \A k \in 0..Len(q) : IsFiniteSet(Tried(q, k)) /\ Cardinality(Tried(q, k)) \in Nat
  BY <1>0, <1>3, FS_Subset, FS_CardinalityType
<1>5. CASE Consumed(q) = 0
  <2>1. Tried(q, 0) = {}
    BY DEF Tried
  <2>2. Cardinality(Dialled(q)) = 0
    BY <1>5, <2>1, FS_EmptySet DEF Dialled
  <2>3. QED BY <1>1, <1>2, <1>3, <1>4, <2>2 DEF Dialled
<1>6. CASE Consumed(q) # 0
  <2> DEFINE c == Consumed(q)
  <2>1. c \in 1..Len(q) /\ c - 1 \in 0..Len(q) /\ c - 1 \in 0..(c - 1)
    BY <1>2, <1>6
  <2> HIDE DEF c
  <2>2. Cardinality(Tried(q, c - 1)) < Room
    <3>1. ~Full(q, c - 1)
      BY <1>2, <2>1 DEF c
    <3>2. QED BY <3>1, <2>1, <1>1, <1>4 DEF Full
  <2>3. Tried(q, c) \subseteq Tried(q, c - 1) \cup {q[c]}
    <3>1. \A j \in 1..c : j \in 1..(c - 1) \/ j = c
      BY <2>1
    <3>2. QED BY <3>1 DEF Tried
  <2>4. /\ IsFiniteSet(Tried(q, c - 1) \cup {q[c]})
        /\ Cardinality(Tried(q, c - 1) \cup {q[c]}) <= Cardinality(Tried(q, c - 1)) + 1
    <3>1. IsFiniteSet(Tried(q, c - 1)) /\ Cardinality(Tried(q, c - 1)) \in Nat
      BY <1>4, <2>1
    <3> DEFINE S == Tried(q, c - 1)
    <3> HIDE DEF S
    <3>2. \A x : /\ IsFiniteSet(S \cup {x})
                 /\ Cardinality(S \cup {x}) = IF x \in S THEN Cardinality(S) ELSE Cardinality(S) + 1
      BY <3>1, FS_AddElement DEF S
    <3>3. IsFiniteSet(S \cup {q[c]}) /\ Cardinality(S \cup {q[c]}) <= Cardinality(S) + 1
      <4>1. Cardinality(S) \in Nat
        BY <3>1 DEF S
      <4>2. /\ IsFiniteSet(S \cup {q[c]})
            /\ Cardinality(S \cup {q[c]}) = IF q[c] \in S THEN Cardinality(S) ELSE Cardinality(S) + 1
        BY <3>2
      <4>3. QED BY <4>1, <4>2
    <3>4. QED BY <3>3 DEF S
  <2>5. Cardinality(Tried(q, c)) <= Cardinality(Tried(q, c - 1) \cup {q[c]})
    BY <2>3, <2>4, FS_Subset
  <2>6. /\ Cardinality(Tried(q, c)) \in Nat /\ Cardinality(Tried(q, c - 1)) \in Nat
        /\ Cardinality(Tried(q, c - 1) \cup {q[c]}) \in Nat
    BY <1>4, <2>1, <2>4, FS_CardinalityType
  <2>7. Cardinality(Tried(q, c)) <= Room
    BY <2>2, <2>4, <2>5, <2>6, <1>1
  <2>8. QED BY <1>1, <1>3, <1>4, <2>1, <2>7 DEF Dialled, c
<1>7. QED BY <1>5, <1>6

(* ... so connectMore keeps the bounds, also when peers leave in the step. *)
LEMMA ConnectMoreKeeps ==
  ASSUME IInv, NEW q \in Seq(Addrs), Len(q) <= MaxKnown, ConnectMore(q), peers' \subseteq peers
  PROVE  SlotsBounded' /\ known' \in Seq(Addrs) /\ Len(known') <= MaxKnown
<1>0. /\ IsFiniteSet(connecting) /\ IsFiniteSet(peers) /\ IsFiniteSet(peers')
      /\ Cardinality(connecting) \in Nat /\ Cardinality(peers) \in Nat
      /\ Cardinality(peers') \in Nat /\ Cardinality(peers') <= Cardinality(peers)
      /\ MaxPeers \in Nat /\ MaxConnecting \in Nat /\ MaxKnown \in Nat
  <2>1. IsFiniteSet(connecting) /\ IsFiniteSet(peers)
    BY SlotsAssumption, FS_Subset DEF IInv, TypeOK
  <2>2. IsFiniteSet(peers') /\ Cardinality(peers') <= Cardinality(peers)
    BY <2>1, FS_Subset
  <2>3. QED BY <2>1, <2>2, SlotsAssumption, FS_CardinalityType
<1> DEFINE D == Dialled(q)
<1>1. /\ D \cap connecting = {} /\ IsFiniteSet(D)
      /\ Cardinality(D) <= Room /\ Room \in Nat /\ Cardinality(D) \in Nat
  BY DialledFits, FS_CardinalityType
<1>2. connecting' = connecting \cup D
  BY DEF ConnectMore
<1> HIDE DEF D
<1>3. Cardinality(connecting') = Cardinality(connecting) + Cardinality(D)
  <2>1. connecting \cap D = {} /\ Cardinality({}) = 0
    BY <1>1, FS_EmptySet
  <2>2. Cardinality(connecting \cup D) = Cardinality(connecting) + Cardinality(D) - Cardinality(connecting \cap D)
    BY <1>0, <1>1, FS_Union
  <2>3. Cardinality(connecting \cap D) = 0
    BY <2>1
  <2>4. Cardinality(connecting') = Cardinality(connecting \cup D)
    BY <1>2
  <2>5. QED BY <1>0, <1>1, <2>2, <2>3, <2>4
<1>4. SlotsBounded'
  <2>1. /\ Room <= MaxPeers - Cardinality(peers) - Cardinality(connecting)
        /\ Room <= MaxConnecting - Cardinality(connecting)
    BY <1>0 DEF Room, LeastOf
  <2> HIDE DEF Room
  <2>2. /\ Cardinality(connecting) + Cardinality(D) <= MaxConnecting
        /\ Cardinality(connecting) + Cardinality(D) + Cardinality(peers') <= MaxPeers
    BY <1>0, <1>1, <2>1
  <2>3. QED BY <1>3, <2>2 DEF SlotsBounded
<1>5. Consumed(q) \in 0..Len(q)
  BY ConsumedStops
<1>6. known' = SubSeq(q, Consumed(q) + 1, Len(q))
  BY DEF ConnectMore, Left
<1> DEFINE m == Consumed(q) + 1
<1>7. m \in 1..(Len(q) + 1)
  BY <1>5
<1> HIDE DEF m
<1>8. /\ SubSeq(q, m, Len(q)) \in Seq(Addrs)
      /\ Len(SubSeq(q, m, Len(q))) <= Len(q)
  <2>1. Len(q) \in Nat /\ \A i \in m..Len(q) : i \in 1..Len(q) /\ q[i] \in Addrs
    BY <1>7
  <2>2. /\ SubSeq(q, m, Len(q)) \in Seq(Addrs)
        /\ Len(SubSeq(q, m, Len(q))) = IF m <= Len(q) THEN Len(q) - m + 1 ELSE 0
    BY <1>7, <2>1, SubSeqProperties
  <2>3. QED BY <1>7, <2>1, <2>2
<1>9. Len(q) \in Nat /\ Len(known') \in Nat /\ known' = SubSeq(q, m, Len(q))
  BY <1>6, <1>8 DEF m
<1>10. QED BY <1>0, <1>4, <1>8, <1>9

(* The queue stays a bounded queue of addresses. *)
LEMMA MergedBounded ==
  ASSUME IInv, NEW fresh \in Seq(Addrs)
  PROVE  Merged(fresh) \in Seq(Addrs) /\ Len(Merged(fresh)) <= MaxKnown
<1> DEFINE s == known \o fresh
<1>1. s \in Seq(Addrs) /\ Len(s) \in Nat /\ MaxKnown \in Nat
  BY SlotsAssumption DEF IInv, TypeOK
<1> HIDE DEF s
<1>2. LeastOf(MaxKnown, Len(s)) \in 0..Len(s) /\ LeastOf(MaxKnown, Len(s)) <= MaxKnown
  BY <1>1 DEF LeastOf
<1>3. /\ SubSeq(s, 1, LeastOf(MaxKnown, Len(s))) \in Seq(Addrs)
      /\ Len(SubSeq(s, 1, LeastOf(MaxKnown, Len(s)))) <= MaxKnown
  <2> DEFINE n == LeastOf(MaxKnown, Len(s))
  <2>1. n \in 0..Len(s) /\ n <= MaxKnown /\ n \in Int
    BY <1>1, <1>2
  <2> HIDE DEF n
  <2>2. \A i \in 1..n : s[i] \in Addrs
    BY <1>1, <2>1
  <2>3. /\ SubSeq(s, 1, n) \in Seq(Addrs)
        /\ Len(SubSeq(s, 1, n)) = IF 1 <= n THEN n - 1 + 1 ELSE 0
    BY <2>1, <2>2, SubSeqProperties
  <2>4. QED BY <1>1, <2>1, <2>3 DEF n
<1>4. QED BY <1>3 DEF Merged, UpTo, s

(* Adding addresses dials the ones that fit, and nothing else.             *)
LEMMA AddPeersKeeps ==
  ASSUME IInv, NEW fresh \in Seq(Addrs), AddPeers(fresh)
  PROVE  IInv'
<1> DEFINE q == Merged(fresh)
<1>1. q \in Seq(Addrs) /\ Len(q) <= MaxKnown
  BY MergedBounded
<1>2. ConnectMore(q) /\ peers' = peers
  BY DEF AddPeers
<1> HIDE DEF q
<1>3. SlotsBounded' /\ known' \in Seq(Addrs) /\ Len(known') <= MaxKnown
  BY <1>1, <1>2, ConnectMoreKeeps
<1>4. Dialled(q) \subseteq Addrs /\ Dialled(q) \cap (connecting \cup peers) = {}
  BY <1>1, DialledFits
<1>5. /\ link' = [a \in Addrs |-> IF a \in Dialled(q) THEN Dialling ELSE link[a]]
      /\ connecting' = connecting \cup Dialled(q)
      /\ UNCHANGED <<running, haveInfo, peers, lastUseful, searching, age>>
  BY <1>2 DEF AddPeers, ConnectMore, q
<1>6. TypeOK'
  BY <1>3, <1>4, <1>5 DEF IInv, TypeOK, Dialling
<1>7. SlotsAccounted'
  BY <1>4, <1>5 DEF IInv, TypeOK, SlotsAccounted, Dialling
<1>8. QED BY <1>3, <1>6, <1>7 DEF IInv

(* A tick dials, searches and recycles; the peers it drops leave no trace. *)
LEMMA TickKeeps ==
  ASSUME IInv, Tick
  PROVE  IInv'
<1> DEFINE D == Dialled(known)
<1> PICK dropped \in SUBSET peers :
      /\ peers' = peers \ dropped
      /\ Forget(dropped)
      /\ link' = [a \in Addrs |-> IF a \in dropped THEN Gone ELSE IF a \in D THEN Dialling ELSE link[a]]
  BY DEF Tick
<1>1. known \in Seq(Addrs) /\ Len(known) <= MaxKnown /\ ConnectMore(known)
  BY DEF IInv, TypeOK, Tick
<1>2. SlotsBounded' /\ known' \in Seq(Addrs) /\ Len(known') <= MaxKnown
  BY <1>1, ConnectMoreKeeps
<1>3. D \subseteq Addrs /\ D \cap (connecting \cup peers) = {}
  BY <1>1, DialledFits
<1>4. connecting' = connecting \cup D
  BY <1>1 DEF ConnectMore
<1> HIDE DEF D
<1>5. /\ searching' \subseteq Sources
      /\ age' \in [Sources -> Ages]
      /\ UNCHANGED <<running, haveInfo>>
  BY DEF IInv, TypeOK, Tick, Due, Ages
<1>6. /\ DOMAIN lastUseful' = DOMAIN lastUseful \ dropped
      /\ \A p \in DOMAIN lastUseful' : lastUseful'[p] = lastUseful[p]
  BY DEF Forget
<1>7. TypeOK'
  BY <1>2, <1>3, <1>4, <1>5, <1>6 DEF IInv, TypeOK, Dialling, Gone
<1>8. SlotsAccounted'
  BY <1>3, <1>4, <1>6 DEF IInv, TypeOK, SlotsAccounted, Dialling, Gone
<1>9. QED BY <1>2, <1>7, <1>8 DEF IInv

(* The bounds when the sets shrink, and when an address moves over.        *)
LEMMA ShrinkingKeeps ==
  ASSUME IInv, connecting' \subseteq connecting, peers' \subseteq peers
  PROVE  SlotsBounded'
<1>1. IsFiniteSet(connecting) /\ IsFiniteSet(peers)
  BY SlotsAssumption, FS_Subset DEF IInv, TypeOK
<1>2. /\ IsFiniteSet(connecting') /\ Cardinality(connecting') <= Cardinality(connecting)
      /\ IsFiniteSet(peers') /\ Cardinality(peers') <= Cardinality(peers)
  BY <1>1, FS_Subset
<1>3. /\ Cardinality(connecting) \in Nat /\ Cardinality(connecting') \in Nat
      /\ Cardinality(peers) \in Nat /\ Cardinality(peers') \in Nat
      /\ MaxPeers \in Nat /\ MaxConnecting \in Nat
  BY <1>1, <1>2, FS_CardinalityType, SlotsAssumption
<1>4. QED BY <1>2, <1>3 DEF IInv, SlotsBounded

(* A greeted peer keeps the slot it was dialled in.                        *)
LEMMA MovingKeeps ==
  ASSUME IInv, NEW a \in connecting, a \notin peers,
         connecting' = connecting \ {a}, peers' = peers \cup {a}
  PROVE  SlotsBounded'
<1>1. IsFiniteSet(connecting) /\ IsFiniteSet(peers)
  BY SlotsAssumption, FS_Subset DEF IInv, TypeOK
<1>2. Cardinality(connecting \ {a}) = Cardinality(connecting) - 1
  BY <1>1, FS_RemoveElement
<1>3. Cardinality(peers \cup {a}) = Cardinality(peers) + 1
  BY <1>1, FS_AddElement
<1>4. /\ Cardinality(connecting) \in Nat /\ Cardinality(peers) \in Nat
      /\ MaxPeers \in Nat /\ MaxConnecting \in Nat
  BY <1>1, FS_CardinalityType, SlotsAssumption
<1>5. /\ Cardinality(connecting') = Cardinality(connecting) - 1
      /\ Cardinality(peers') = Cardinality(peers) + 1
  BY <1>2, <1>3
<1>6. QED BY <1>4, <1>5 DEF IInv, SlotsBounded

(* A peer that is not greeted after all leaves nothing behind.             *)
LEMMA UngreetedKeeps ==
  ASSUME IInv, NEW a \in connecting, a \notin peers, SlotsBounded',
         link' = [link EXCEPT ![a] = Gone], connecting' = connecting \ {a}, Forget({a}),
         UNCHANGED <<running, haveInfo, known, peers, searching, age>>
  PROVE  IInv'
<1>1. /\ DOMAIN lastUseful' = DOMAIN lastUseful \ {a}
      /\ \A p \in DOMAIN lastUseful' : lastUseful'[p] = lastUseful[p]
  BY DEF Forget
<1>2. TypeOK'
  BY <1>1 DEF IInv, Gone, TypeOK
<1>3. SlotsAccounted'
  BY <1>1 DEF IInv, Gone, TypeOK, SlotsAccounted
<1>4. QED BY <1>2, <1>3 DEF IInv

(* The engine that prepare() leaves has no sockets.                        *)
THEOREM InvInit == Init => IInv
<1> SUFFICES ASSUME Init PROVE IInv
  OBVIOUS
<1>1. TypeOK
  BY SlotsAssumption DEF Init, TypeOK, Gone, Sources, Ages
<1>2. SlotsBounded
  BY SlotsAssumption, FS_EmptySet DEF Init, SlotsBounded
<1>3. SlotsAccounted
  BY DEF Init, SlotsAccounted, Gone
<1>4. QED BY <1>1, <1>2, <1>3 DEF IInv

(* One case for each action of the engine and of its peers.                *)
THEOREM InvStep == IInv /\ [Next]_vars => IInv'
<1> SUFFICES ASSUME IInv, [Next]_vars PROVE IInv'
  OBVIOUS
<1> USE DEF IInv
<1>1. ASSUME NEW s \in Sources, NEW fresh \in Findings, SearchAnswers(s, fresh) PROVE IInv'
  BY <1>1, AddPeersKeeps DEF SearchAnswers, Findings
<1>2. ASSUME NEW s \in Sources, SearchEnds(s) PROVE IInv'
  BY <1>2, ShrinkingKeeps DEF SearchEnds, TypeOK, SlotsAccounted
<1>3. ASSUME NEW s \in Sources, Older(s) PROVE IInv'
  BY <1>3, ShrinkingKeeps DEF Older, TypeOK, SlotsAccounted, Ages
<1>4. ASSUME NEW a \in Addrs, NEW fresh \in Findings, PeerExchange(a, fresh) PROVE IInv'
  BY <1>4, AddPeersKeeps DEF PeerExchange, Findings
<1>5. ASSUME NEW a \in Addrs, DialFails(a) PROVE IInv'
  BY <1>5, ShrinkingKeeps DEF DialFails, Freed, Gone, TypeOK, SlotsAccounted
<1>6. ASSUME NEW a \in Addrs, DialSucceeds(a) PROVE IInv'
  <2>1. SlotsBounded'
    BY <1>6, ShrinkingKeeps DEF DialSucceeds
  <2>2. PICK l \in {Gone, Connected} :
          /\ link' = [link EXCEPT ![a] = l]
          /\ connecting' = IF l = Gone THEN connecting \ {a} ELSE connecting
    <3>1. CASE running
      BY <1>6, <3>1 DEF DialSucceeds, Gone, Connected
    <3>2. CASE ~running
      BY <1>6, <3>2 DEF DialSucceeds, Freed
    <3>3. QED BY <3>1, <3>2
  <2>3. l \in [stage : {"none", "dialling", "greeting", "live"}, open : BOOLEAN, choking : BOOLEAN]
    <3>1. l = Gone \/ l = Connected
      BY <2>2
    <3> DEFINE R == [stage : {"none", "dialling", "greeting", "live"}, open : BOOLEAN, choking : BOOLEAN]
    <3>2. Gone \in R
      BY DEF Gone
    <3>3. Connected \in R
      BY DEF Connected
    <3> HIDE DEF R
    <3>4. l \in R
      BY <3>1, <3>2, <3>3
    <3>5. QED BY <3>4 DEF R
  <2>4. TypeOK'
    BY <1>6, <2>2, <2>3 DEF DialSucceeds, TypeOK
  <2>5. SlotsAccounted'
    <3>1. a \in connecting /\ a \notin peers
      BY <1>6 DEF DialSucceeds, SlotsAccounted
    <3>2. CASE l = Gone
      BY <1>6, <2>2, <3>1, <3>2 DEF DialSucceeds, Gone, TypeOK, SlotsAccounted
    <3>3. CASE l = Connected
      BY <1>6, <2>2, <3>1, <3>3 DEF DialSucceeds, Gone, Connected, TypeOK, SlotsAccounted
    <3>4. QED BY <3>2, <3>3
  <2>6. QED BY <2>1, <2>4, <2>5
<1>7. ASSUME NEW a \in Addrs, Greets(a) PROVE IInv'
  <2>1. a \in connecting /\ a \notin peers
    BY <1>7 DEF Greets, SlotsAccounted
  <2>2. CASE running
    <3>1. SlotsBounded'
      BY <1>7, <2>1, <2>2, MovingKeeps DEF Greets, Occupy
    <3>2. link' = [link EXCEPT ![a] = [stage |-> "live", open |-> link[a].open, choking |-> link[a].choking]]
      BY <1>7, <2>2 DEF Greets, Occupy
    <3>3. link[a].open \in BOOLEAN /\ link[a].choking \in BOOLEAN
      BY DEF TypeOK
    <3>4. TypeOK'
      BY <1>7, <2>2, <3>2, <3>3 DEF Greets, Occupy, TypeOK
    <3>5. SlotsAccounted'
      BY <1>7, <2>2, <3>2 DEF Greets, Occupy, TypeOK, SlotsAccounted
    <3>6. QED BY <3>1, <3>4, <3>5
  <2>3. CASE ~running
    <3>1. SlotsBounded'
      BY <1>7, <2>3, ShrinkingKeeps DEF Greets
    <3>2. /\ link' = [link EXCEPT ![a] = Gone] /\ connecting' = connecting \ {a}
          /\ Forget({a})
          /\ UNCHANGED <<running, haveInfo, known, peers, searching, age>>
      BY <1>7, <2>3 DEF Greets, Freed
    <3>3. QED BY <2>1, <3>1, <3>2, UngreetedKeeps
  <2>4. QED BY <2>2, <2>3 DEF TypeOK
<1>8. ASSUME NEW a \in Addrs, GreetFails(a) PROVE IInv'
  <2>1. a \in connecting /\ a \notin peers
    BY <1>8 DEF GreetFails, SlotsAccounted
  <2>2. SlotsBounded'
    BY <1>8, ShrinkingKeeps DEF GreetFails
  <2>3. QED BY <1>8, <2>1, <2>2, UngreetedKeeps DEF GreetFails, Freed
<1>9. ASSUME NEW a \in Addrs, RemoteCloses(a) PROVE IInv'
  <2>1. SlotsBounded'
    BY <1>9, ShrinkingKeeps DEF RemoteCloses
  <2>2. /\ link[a].stage \in {"none", "dialling", "greeting", "live"}
        /\ link[a].choking \in BOOLEAN
    BY DEF TypeOK
  <2>3. TypeOK'
    BY <1>9, <2>2 DEF RemoteCloses, Forget, Gone, TypeOK
  <2>4. SlotsAccounted'
    BY <1>9, <2>2 DEF RemoteCloses, Forget, Gone, TypeOK, SlotsAccounted
  <2>5. QED BY <2>1, <2>3, <2>4
<1>10. ASSUME NEW a \in Addrs, NEW choking \in BOOLEAN, SetChoking(a, choking) PROVE IInv'
  BY <1>10, ShrinkingKeeps DEF SetChoking, TypeOK, SlotsAccounted
<1>11. ASSUME NEW a \in Addrs, DeliversBlock(a) PROVE IInv'
  BY <1>11, ShrinkingKeeps DEF DeliversBlock, TypeOK, SlotsAccounted
<1>12. ASSUME NEW a \in Addrs, Idles(a) PROVE IInv'
  BY <1>12, ShrinkingKeeps DEF Idles, TypeOK, SlotsAccounted
<1>13. ASSUME MetadataReady PROVE IInv'
  BY <1>13, ShrinkingKeeps DEF MetadataReady, TypeOK, SlotsAccounted
<1>14. ASSUME Tick PROVE IInv'
  BY <1>14, TickKeeps
<1>15. ASSUME Stop PROVE IInv'
  <2>1. SlotsBounded'
    BY <1>15, ShrinkingKeeps DEF Stop
  <2>2. known' \in Seq(Addrs) /\ Len(known') <= MaxKnown
    BY <1>15, SlotsAssumption DEF Stop
  <2>3. DOMAIN lastUseful' = {}
    BY <1>15 DEF Stop
  <2>4. TypeOK'
    BY <1>15, <2>2, <2>3 DEF Stop, Gone, TypeOK
  <2>5. SlotsAccounted'
    BY <1>15, <2>3 DEF Stop, Gone, TypeOK, SlotsAccounted
  <2>6. QED BY <2>1, <2>4, <2>5
<1>16. CASE UNCHANGED vars
  BY <1>16, ShrinkingKeeps DEF vars, TypeOK, SlotsAccounted
<1>17. QED
  BY <1>1, <1>2, <1>3, <1>4, <1>5, <1>6, <1>7, <1>8, <1>9, <1>10, <1>11, <1>12, <1>13, <1>14, <1>15, <1>16
  DEF Next, Unchoke, Choke

-----------------------------------------------------------------------------
(* The types of all variables are kept, the bound on #knownAddrs included. *)
THEOREM TypeCorrect == Spec => []TypeOK
<1>1. IInv => TypeOK
  BY DEF IInv
<1>2. QED BY InvInit, InvStep, <1>1, PTL DEF Spec

(* connectMore never exceeds maxPeers or MAX_CONNECTING, whoever calls it. *)
THEOREM SocketsBounded == Spec => []SlotsBounded
<1>1. IInv => SlotsBounded
  BY DEF IInv
<1>2. QED BY InvInit, InvStep, <1>1, PTL DEF Spec

(* No way out of connectPeer, close or stop leaks a slot or a socket.      *)
THEOREM NoSlotLeaks == Spec => []SlotsAccounted
<1>1. IInv => SlotsAccounted
  BY DEF IInv
<1>2. QED BY InvInit, InvStep, <1>1, PTL DEF Spec

(* No step dials an address that an open socket leads to.                  *)
THEOREM DialsOnce == Spec => OneSocketPerAddress
<1> DEFINE NoRedial == \A a \in Addrs : link[a].open => link'[a].stage # "dialling"
<1>1. IInv /\ [Next]_vars => [NoRedial]_vars
  <2> SUFFICES ASSUME IInv, Next, NEW a \in Addrs, link[a].open PROVE link'[a].stage # "dialling"
    OBVIOUS
  <2> DEFINE Safe == link'[a].stage # "dialling"
  <2>0. /\ a \in connecting \cup peers
        /\ link[a].stage \in {"greeting", "live"}
        /\ link \in [Addrs -> [stage : {"none", "dialling", "greeting", "live"},
                               open : BOOLEAN, choking : BOOLEAN]]
    <3>1. TypeOK /\ SlotsAccounted
      BY DEF IInv
    <3>2. link[a].stage \in {"greeting", "live"}
      BY <3>1 DEF SlotsAccounted
    <3>3. a \in connecting \cup peers
      BY <3>1, <3>2 DEF SlotsAccounted
    <3>4. QED BY <3>1, <3>2, <3>3 DEF TypeOK
  <2>1. CASE UNCHANGED link
    BY <2>0, <2>1
  <2>2. ASSUME NEW fresh \in Findings, AddPeers(fresh) PROVE Safe
    <3>1. fresh \in Seq(Addrs)
      BY DEF Findings
    <3>2. a \notin Dialled(Merged(fresh))
      BY <2>0, <3>1, MergedBounded, DialledFits
    <3>3. QED BY <2>0, <2>2, <3>2 DEF AddPeers
  <2>3. CASE Tick
    <3>1. a \notin Dialled(known)
      BY <2>0, DialledFits DEF IInv, TypeOK
    <3>2. QED BY <2>0, <2>3, <3>1 DEF Tick, Gone
  <2>4. ASSUME NEW b \in Addrs,
               DialFails(b) \/ DialSucceeds(b) \/ Greets(b) \/ GreetFails(b) \/ RemoteCloses(b) \/ Unchoke(b) \/ Choke(b)
        PROVE  Safe
    <3>1. link'[b].stage # "dialling" \/ b # a
      BY <2>0, <2>4 DEF DialFails, DialSucceeds, Greets, GreetFails, RemoteCloses, Unchoke, Choke, SetChoking,
         Freed, Gone, Connected, Occupy
    <3>2. b # a => link'[a] = link[a]
      BY <2>0, <2>4 DEF DialFails, DialSucceeds, Greets, GreetFails, RemoteCloses, Unchoke, Choke, SetChoking,
         Freed, Gone, Connected, Occupy
    <3>3. QED BY <2>0, <3>1, <3>2
  <2>5. CASE Stop
    BY <2>0, <2>5 DEF Stop, Gone
  <2>6. QED
    BY <2>1, <2>2, <2>3, <2>4, <2>5 DEF Next, SearchAnswers, SearchEnds, Older, PeerExchange, DeliversBlock, Idles, MetadataReady
<1>2. QED BY InvInit, InvStep, <1>1, PTL DEF Spec, OneSocketPerAddress

(* Slots, sockets and addresses agree, for every swarm and every limit.    *)
THEOREM SlotsStayConsistent == Spec => SlotsConsistent
<1> QED
  BY TypeCorrect, SocketsBounded, NoSlotLeaks, DialsOnce, PTL DEF SlotsConsistent
=============================================================================
