----------------------------- MODULE KmallocProofs -----------------------------
(***************************************************************************)
(* Proofs about the kernel heap (Kmalloc.tla), for every heap size that is a *)
(* multiple of 8 and every set of request sizes.                             *)
(***************************************************************************)
EXTENDS Kmalloc, TLAPS

\* ALIGN8 (kmalloc.c:3) rounds up to a multiple of 8.
LEMMA Align8Facts ==
  ASSUME NEW n \in Nat
  PROVE  Align8(n) \in Nat /\ Align8(n) >= n /\ Align8(n) % 8 = 0
  BY DEF Align8

\* A block that starts and is sized on 8 bytes ends on 8 bytes: the header is 24.
LEMMA Mod8Sum ==
  ASSUME NEW a \in Nat, NEW b \in Nat, a % 8 = 0, b % 8 = 0
  PROVE  (a + Hdr + b) % 8 = 0 /\ (a + Hdr) % 8 = 0
  BY DEF Hdr

\* What a split leaves is a multiple of 8.
LEMMA Mod8Diff ==
  ASSUME NEW a \in Nat, NEW b \in Nat, a % 8 = 0, b % 8 = 0
  PROVE  (a - b - Hdr) % 8 = 0
  BY DEF Hdr

\* What a walk has seen, by where its cursor is: with a moving cursor, "no
\* fitting block" and "no mergeable pair" hold only behind it, so the two
\* properties at the end of a call are not inductive without this.
Walked ==
  /\ pc = "idle" => cur = NULL
  /\ pc = "coalesce" => cur # NULL
  /\ pc = "find" => \A a \in DOMAIN blk : (cur = NULL \/ a < cur) => ~Fits(a)
  /\ pc = "coalesce" =>
       \A a \in DOMAIN blk : a < cur /\ blk[a].next # NULL => ~Mergeable(a)
  /\ NoAdjacentFree

IInv == TypeOK /\ Tiled /\ HeldBlocks /\ Walked

\* The types of one block's fields.
LEMMA BlockFacts ==
  ASSUME TypeOK, NEW a \in DOMAIN blk
  PROVE  /\ a \in Nat
         /\ blk[a].size \in Nat /\ blk[a].free \in BOOLEAN
         /\ blk[a].next \in Nat \cup {NULL}
         /\ End(a) \in Nat
         /\ End(a) = a + 24 + blk[a].size
  BY HeapAssumption DEF TypeOK, Block, End, Hdr

\* No block reaches past the heap.
LEMMA EndBound ==
  ASSUME TypeOK, Tiled, NEW a \in DOMAIN blk
  PROVE  End(a) <= HeapSize
  BY BlockFacts, HeapAssumption DEF TypeOK, Tiled, NULL

\* kmalloc_init leaves one free block that is the whole heap.
LEMMA InitInv == Init => IInv
<1> SUFFICES ASSUME Init PROVE IInv
  OBVIOUS
<1> USE HeapAssumption DEF Init, Hdr, NULL
<1>1. TypeOK
  BY DEF TypeOK, Block
<1>2. Tiled
  BY DEF Tiled, End
<1>3. HeldBlocks
  BY DEF HeldBlocks
<1>4. Walked
  BY DEF Walked, NoAdjacentFree, Mergeable
<1> QED BY <1>1, <1>2, <1>3, <1>4 DEF IInv

\* A walk of find_free starts at the head, having passed over nothing.
LEMMA KmallocCallInv == ASSUME IInv, NEW n \in Requests, KmallocCall(n) PROVE IInv'
<1> USE DEF IInv, KmallocCall
<1>1. TypeOK'
  BY DEF TypeOK
<1>2. Tiled'
  BY DEF Tiled, End
<1>3. HeldBlocks'
  BY DEF HeldBlocks
<1>4. Walked'
  BY BlockFacts DEF Walked, NoAdjacentFree, Mergeable, NULL
<1> QED BY <1>1, <1>2, <1>3, <1>4

\* The cursor of a walk moves past one block only.
LEMMA Advance ==
  ASSUME TypeOK, Tiled, cur \in DOMAIN blk
  PROVE  \A a \in DOMAIN blk :
           blk[cur].next = NULL \/ a < blk[cur].next => a <= cur
<1> TAKE a \in DOMAIN blk
<1>1. cur < a => End(cur) <= a
  BY DEF Tiled
<1>2. /\ a \in Nat /\ cur \in Nat /\ End(cur) \in Nat /\ End(a) \in Nat
      /\ a < End(a) /\ End(a) <= HeapSize
  BY BlockFacts, EndBound, HeapAssumption
<1>3. blk[cur].next = IF End(cur) = HeapSize THEN NULL ELSE End(cur)
  BY DEF Tiled
<1> QED BY <1>1, <1>2, <1>3, HeapAssumption DEF NULL

\* find_free passes over a block that does not fit.
LEMMA FindNextInv == ASSUME IInv, FindNext PROVE IInv'
<1> USE DEF IInv, FindNext
<1>0. cur \in DOMAIN blk
  BY DEF TypeOK
<1>1. TypeOK'
  BY <1>0 DEF TypeOK, Tiled
<1>2. Tiled'
  BY DEF Tiled, End
<1>3. HeldBlocks'
  BY DEF HeldBlocks
<1>4. Walked'
  BY <1>0, Advance, BlockFacts DEF Walked, NoAdjacentFree, Mergeable, Fits
<1> QED BY <1>1, <1>2, <1>3, <1>4

\* find_free has come to the end of the list.
LEMMA FindFailInv == ASSUME IInv, FindFail PROVE IInv'
  BY DEF IInv, FindFail, TypeOK, Tiled, End, HeldBlocks, Walked, NoAdjacentFree, Mergeable

\* A block handed out whole keeps its place in the tiling.
LEMMA TakeWholeInv == ASSUME IInv, TakeWhole PROVE IInv'
<1> USE DEF IInv, TakeWhole, Hand
<1>0. cur \in DOMAIN blk /\ cur \in Nat /\ req \in Nat
  BY HeapAssumption, BlockFacts DEF TypeOK
<1>1. /\ DOMAIN blk' = DOMAIN blk
      /\ \A a \in DOMAIN blk : /\ blk'[a].size = blk[a].size
                               /\ blk'[a].next = blk[a].next
                               /\ blk'[a].free = IF a = cur THEN FALSE ELSE blk[a].free
      /\ blk' \in [DOMAIN blk -> Block]
  BY <1>0 DEF TypeOK, Block
<1>2. TypeOK'
  BY <1>0, <1>1, BlockFacts, EndBound, HeapAssumption DEF TypeOK, Hdr
<1>3. Tiled'
  BY <1>1 DEF Tiled, End
<1>4. HeldBlocks'
  BY <1>0, <1>1, BlockFacts, Align8Facts DEF HeldBlocks, Fits, Hdr
<1>5. Walked'
  BY <1>0, <1>1, BlockFacts DEF Walked, NoAdjacentFree, Mergeable, Tiled
<1> QED BY <1>2, <1>3, <1>4, <1>5
\* kfree frees the block in front of the pointer it is given.
LEMMA KfreeCallInv == ASSUME IInv, NEW p \in DOMAIN live, KfreeCall(p) PROVE IInv'
<1> USE DEF IInv, KfreeCall
<1>0. p - Hdr \in DOMAIN blk
  BY DEF HeldBlocks
<1>1. /\ DOMAIN blk' = DOMAIN blk
      /\ \A a \in DOMAIN blk : /\ blk'[a].size = blk[a].size
                               /\ blk'[a].next = blk[a].next
                               /\ blk'[a].free = IF a = p - Hdr THEN TRUE ELSE blk[a].free
      /\ blk' \in [DOMAIN blk -> Block]
  BY <1>0 DEF TypeOK, Block
<1>2. TypeOK'
  BY <1>1, HeapAssumption DEF TypeOK
<1>3. Tiled'
  BY <1>1 DEF Tiled, End
<1>4. HeldBlocks'
  BY <1>0, <1>1, BlockFacts, HeapAssumption DEF HeldBlocks, Hdr, TypeOK
<1>5. Walked'
  BY <1>1, BlockFacts DEF Walked, NoAdjacentFree, TypeOK, NULL
<1> QED BY <1>2, <1>3, <1>4, <1>5

\* A split tiles the block it cuts: request, header and tail.
LEMMA TakeSplitInv == ASSUME IInv, TakeSplit PROVE IInv'
<1> USE DEF IInv
<1> DEFINE need == Align8(req)
           rest == cur + Hdr + need
<1>0. /\ cur \in DOMAIN blk /\ cur \in Nat /\ req \in Nat /\ req \in Requests
      /\ need \in Nat /\ need >= req /\ need % 8 = 0
      /\ rest \in Nat /\ cur < rest /\ rest + Hdr + 8 <= End(cur)
      /\ blk[cur].free /\ pc = "find"
  BY HeapAssumption, BlockFacts, Align8Facts DEF TypeOK, Splits, Hdr, TakeSplit, Fits
<1>1. \A b \in DOMAIN blk : (b <= cur \/ b >= End(cur)) /\ b # rest
  BY <1>0, BlockFacts DEF Tiled, Hdr
<1> HIDE DEF need
<1>2. /\ DOMAIN blk' = DOMAIN blk \cup {rest}
      /\ \A a \in DOMAIN blk : a # cur => blk'[a] = blk[a]
      /\ blk'[cur] = [size |-> need, free |-> FALSE, next |-> rest]
      /\ blk'[rest] = [size |-> blk[cur].size - need - Hdr, free |-> TRUE,
                       next |-> blk[cur].next]
      /\ blk' = [a \in DOMAIN blk' |-> blk'[a]]
  BY <1>0, <1>1 DEF need, TakeSplit, Tail
<1>3. /\ DOMAIN live' = DOMAIN live \cup {cur + Hdr}
      /\ live' = [q \in DOMAIN live' |-> live'[q]]
      /\ \A q \in DOMAIN live' : live'[q] = IF q = cur + Hdr THEN req ELSE live[q]
      /\ pc' = "idle" /\ cur' = NULL /\ req' = NoReq /\ ret' = cur + Hdr
  BY DEF TakeSplit, Hand
<1>4. TypeOK'
  <2>1. blk'[cur] \in Block /\ blk'[rest] \in Block
    BY <1>0, <1>2, BlockFacts DEF Block, End, Hdr
  <2>2. \A a \in DOMAIN blk' : blk'[a] \in Block
    BY <2>1, <1>2 DEF TypeOK
  <2>3. DOMAIN blk' \subseteq 0..HeapSize
    BY <1>0, <1>2, EndBound, BlockFacts, HeapAssumption DEF TypeOK, Hdr
  <2>4. cur + Hdr \in Hdr..HeapSize
    BY <1>0, EndBound, BlockFacts, HeapAssumption DEF Hdr
  <2> QED BY <1>0, <1>2, <1>3, <2>2, <2>3, <2>4, HeapAssumption DEF TypeOK, Hdr
<1>5. \A a \in DOMAIN blk' :
         (End(a))' = IF a = cur THEN rest ELSE IF a = rest THEN End(cur) ELSE End(a)
  BY <1>0, <1>1, <1>2, BlockFacts DEF End, Hdr
<1>6. Tiled'
  <2> SUFFICES ASSUME NEW a \in DOMAIN blk'
               PROVE  (/\ a % 8 = 0 /\ blk[a].size % 8 = 0
                       /\ blk[a].next = IF End(a) = HeapSize THEN NULL ELSE End(a)
                       /\ blk[a].next # NULL => blk[a].next \in DOMAIN blk
                       /\ \A b \in DOMAIN blk : a < b => End(a) <= b)'
    BY DEF Tiled
  <2>1. CASE a = cur
    BY <2>1, <1>0, <1>1, <1>2, <1>5, EndBound, BlockFacts DEF Tiled, Hdr
  <2>2. CASE a = rest
    <3>1. rest % 8 = 0 /\ (blk[cur].size - need - Hdr) % 8 = 0
      BY <1>0, Mod8Sum, Mod8Diff, BlockFacts DEF Tiled
    <3> QED BY <3>1, <2>2, <1>0, <1>1, <1>2, <1>5, EndBound, BlockFacts DEF Tiled, Hdr
  <2>3. CASE a \in DOMAIN blk /\ a # cur
    BY <2>3, <1>0, <1>1, <1>2, <1>5, BlockFacts DEF Tiled, Hdr
  <2> QED BY <2>1, <2>2, <2>3, <1>2
<1>7. HeldBlocks'
  <2>1. \A q \in DOMAIN live : q - Hdr \in DOMAIN blk /\ q - Hdr # cur
    BY <1>0, HeapAssumption DEF HeldBlocks, TypeOK, Hdr
  <2>2. rest + Hdr \notin DOMAIN live'
    BY <2>1, <1>0, <1>1, <1>3 DEF Hdr
  <2> QED BY <2>1, <2>2, <1>0, <1>1, <1>2, <1>3, BlockFacts DEF HeldBlocks, Hdr
<1>8. Walked'
  BY <1>0, <1>1, <1>2, <1>3, BlockFacts DEF Walked, NoAdjacentFree, Mergeable, Tiled, NULL
<1> QED BY <1>4, <1>6, <1>7, <1>8
\* A merge tiles: the absorbed header lies inside the block that grew.
LEMMA CoalesceMergeInv == ASSUME IInv, CoalesceMerge PROVE IInv'
<1> USE DEF IInv
<1> DEFINE n == blk[cur].next
<1>0. /\ cur \in DOMAIN blk /\ cur \in Nat /\ n \in DOMAIN blk /\ n \in Nat
      /\ n = End(cur) /\ cur < n
      /\ blk[cur].free /\ blk[n].free /\ pc = "coalesce"
  BY BlockFacts DEF TypeOK, Tiled, Mergeable, CoalesceMerge, Hdr, NULL
<1>1. \A b \in DOMAIN blk : b < n => b <= cur
  BY <1>0, BlockFacts DEF Tiled
<1>2. /\ DOMAIN blk' = DOMAIN blk \ {n}
      /\ \A a \in DOMAIN blk' : a # cur => blk'[a] = blk[a]
      /\ blk'[cur] = [size |-> blk[cur].size + Hdr + blk[n].size, free |-> TRUE,
                      next |-> blk[n].next]
      /\ blk' = [a \in DOMAIN blk' |-> blk'[a]]
      /\ UNCHANGED <<live, pc, cur, req, ret>>
  BY <1>0 DEF CoalesceMerge, Merged
<1>4. TypeOK'
  <2>1. blk'[cur] \in Block
    BY <1>0, <1>2, BlockFacts DEF Block, Hdr
  <2>2. \A a \in DOMAIN blk' : blk'[a] \in Block
    BY <2>1, <1>2 DEF TypeOK
  <2> QED BY <1>0, <1>2, <2>2 DEF TypeOK
<1>5. \A a \in DOMAIN blk' : (End(a))' = IF a = cur THEN End(n) ELSE End(a)
  BY <1>0, <1>2, BlockFacts DEF End, Hdr
<1>6. Tiled'
  <2> SUFFICES ASSUME NEW a \in DOMAIN blk'
               PROVE  (/\ a % 8 = 0 /\ blk[a].size % 8 = 0
                       /\ blk[a].next = IF End(a) = HeapSize THEN NULL ELSE End(a)
                       /\ blk[a].next # NULL => blk[a].next \in DOMAIN blk
                       /\ \A b \in DOMAIN blk : a < b => End(a) <= b)'
    BY DEF Tiled
  <2>0. n < End(n)
    BY <1>0, BlockFacts DEF Hdr
  <2>1. CASE a = cur
    <3>1. (blk[cur].size + Hdr + blk[n].size) % 8 = 0
      BY <1>0, Mod8Sum, BlockFacts DEF Tiled
    <3> QED BY <3>1, <2>1, <2>0, <1>0, <1>1, <1>2, <1>5, BlockFacts DEF Tiled
  <2>2. CASE a # cur
    <3>1. a \in DOMAIN blk /\ End(a) # n
      BY <2>2, <1>0, <1>1, <1>2, BlockFacts DEF Tiled, Hdr
    <3> QED BY <3>1, <2>2, <1>0, <1>2, <1>5, BlockFacts DEF Tiled
  <2> QED BY <2>1, <2>2
<1>7. HeldBlocks'
  BY <1>0, <1>2, BlockFacts, HeapAssumption DEF HeldBlocks, Hdr, TypeOK
<1>8. Walked'
  BY <1>0, <1>1, <1>2, BlockFacts DEF Walked, NoAdjacentFree, Mergeable, Tiled, NULL
<1> QED BY <1>4, <1>6, <1>7, <1>8

\* The pass of kfree leaves no mergeable pair behind its cursor.
LEMMA CoalesceNextInv == ASSUME IInv, CoalesceNext PROVE IInv'
<1> USE DEF IInv, CoalesceNext
<1>0. cur \in DOMAIN blk
  BY DEF TypeOK
<1>1. TypeOK'
  BY <1>0 DEF TypeOK, Tiled
<1>2. Tiled'
  BY DEF Tiled, End
<1>3. HeldBlocks'
  BY DEF HeldBlocks
<1>4. Walked'
  BY <1>0, Advance, BlockFacts DEF Walked, NoAdjacentFree, Mergeable
<1> QED BY <1>1, <1>2, <1>3, <1>4

\* When the pass ends, every pair lies behind the cursor.
LEMMA CoalesceDoneInv == ASSUME IInv, CoalesceDone PROVE IInv'
<1> USE DEF IInv, CoalesceDone
<1>0. cur \in DOMAIN blk /\ blk[cur].next = NULL
  BY DEF TypeOK, Walked
<1>1. \A a \in DOMAIN blk : blk[a].next # NULL => ~Mergeable(a)
  BY <1>0, Advance, BlockFacts DEF Walked
<1> QED BY <1>1 DEF TypeOK, Tiled, End, HeldBlocks, Walked, NoAdjacentFree, Mergeable

\* IInv is an invariant of the specification.
THEOREM Invariance == Spec => []IInv
<1>1. IInv /\ [Next]_vars => IInv'
  <2> SUFFICES ASSUME IInv, [Next]_vars PROVE IInv'
    OBVIOUS
  <2>1. CASE UNCHANGED vars
    BY <2>1 DEF vars, IInv, TypeOK, Tiled, End, HeldBlocks, Walked, NoAdjacentFree,
                Mergeable, Fits
  <2>2. CASE Next
    BY <2>2, KmallocCallInv, KfreeCallInv, FindNextInv, FindFailInv, TakeSplitInv,
       TakeWholeInv, CoalesceMergeInv, CoalesceNextInv, CoalesceDoneInv DEF Next, Step
  <2> QED BY <2>1, <2>2
<1> QED BY InitInv, <1>1, PTL DEF Spec

\* Headers, pointers and the cursor stay inside the heap.
THEOREM TypeCorrect == Spec => []TypeOK
  BY Invariance, PTL DEF IInv

\* The block list tiles the heap (kmalloc.c:50-54, 82-83).
THEOREM HeapIsTiled == Spec => []Tiled
  BY Invariance, PTL DEF IInv

\* Used blocks are exactly the ones callers hold, each large enough.
THEOREM HeldBlocksDistinct == Spec => []HeldBlocks
  BY Invariance, PTL DEF IInv

\* Between calls no two neighbouring blocks are both free (kmalloc.c:80-88).
THEOREM Coalesced == Spec => []NoAdjacentFree
<1>1. IInv => NoAdjacentFree
  BY DEF IInv, Walked
<1> QED BY <1>1, Invariance, PTL

\* kmalloc returns NULL only when no block fits (kmalloc.c:46-48).
THEOREM FullWhenNull == Spec => []FailsOnlyWhenFull
<1>1. IInv => FailsOnlyWhenFull
  BY DEF IInv, Walked, FailsOnlyWhenFull
<1> QED BY <1>1, Invariance, PTL

\* A heap from which everything was given back is one free block again.
LEMMA EmptyHeapIsWhole ==
  ASSUME IInv, pc # "coalesce", DOMAIN live = {}
  PROVE  DOMAIN blk = {0} /\ blk[0].free /\ blk[0].size = HeapSize - Hdr
<1>1. \A a \in DOMAIN blk : blk[a].free
  BY BlockFacts DEF IInv, HeldBlocks
<1>2. blk[0].next = NULL
  BY <1>1 DEF IInv, TypeOK, Tiled, Walked, NoAdjacentFree, Mergeable
<1>3. End(0) = HeapSize /\ 0 \in DOMAIN blk
  BY <1>2, BlockFacts DEF IInv, Tiled, TypeOK, NULL
<1>4. \A a \in DOMAIN blk : a = 0
  <2> TAKE a \in DOMAIN blk
  <2>1. a \in Nat /\ End(a) \in Nat /\ a + 24 <= End(a) /\ End(a) <= HeapSize
    BY BlockFacts, EndBound, HeapAssumption DEF IInv
  <2>2. 0 < a => End(0) <= a
    BY <1>3 DEF IInv, Tiled
  <2> QED BY <1>3, <2>1, <2>2, HeapAssumption
<1>5. DOMAIN blk = {0}
  BY <1>3, <1>4
<1>6. HeapSize = 0 + 24 + blk[0].size /\ blk[0].size \in Nat
  BY <1>3, BlockFacts DEF IInv
<1>7. blk[0].size = HeapSize - 24
  BY <1>6, HeapAssumption
<1> QED BY <1>1, <1>3, <1>5, <1>7 DEF Hdr

\* The block list implements the abstract allocator.
THEOREM Refinement == Spec => AbsSpec
<1>1. Init => Abs!Init
  BY DEF Init, Abs!Init, NULL, Abs!NULL, NoReq, Abs!NoReq
<1>2. IInv /\ IInv' /\ [Next]_vars => [Abs!Next]_Abs!absVars
  <2> SUFFICES ASSUME IInv, IInv', [Next]_vars PROVE [Abs!Next]_Abs!absVars
    OBVIOUS
  <2> USE DEF Abs!absVars
  <2>1. CASE UNCHANGED <<live, req, ret>>
    BY <2>1
  <2>0. ASSUME NEW n \in Requests, KmallocCall(n) PROVE Abs!Next
    <3>1. Abs!Request(n)
      BY <2>0 DEF KmallocCall, IInv, TypeOK, Abs!Request, NoReq, Abs!NoReq
    <3> QED BY <3>1 DEF Abs!Next
  <2>2. ASSUME NEW p \in DOMAIN live, KfreeCall(p) PROVE Abs!Next
    <3>1. Abs!Free(p)
      BY <2>2 DEF KfreeCall, IInv, TypeOK, Abs!Free, NoReq, Abs!NoReq
    <3> QED BY <3>1 DEF Abs!Next
  <2>3. CASE FindFail
    <3>1. Abs!Fail
      <4>1. ASSUME DOMAIN live = {} PROVE req > HeapSize - Hdr
        <5>1. ~Fits(0)
          BY <2>3, <4>1, EmptyHeapIsWhole DEF FindFail, IInv, Walked
        <5>2. HeapSize - Hdr < Align8(req)
          BY <2>3, <4>1, <5>1, EmptyHeapIsWhole, Align8Facts, HeapAssumption
          DEF Fits, FindFail, IInv, TypeOK, Hdr
        <5> QED BY <2>3, <5>2, HeapAssumption
                DEF FindFail, IInv, TypeOK, Hdr, Align8
      <4>2. req # NoReq
        BY <2>3, HeapAssumption DEF FindFail, IInv, TypeOK, NoReq
      <4> QED BY <2>3, <4>1, <4>2
              DEF FindFail, Abs!Fail, NULL, Abs!NULL, NoReq, Abs!NoReq, Hdr, Abs!Hdr
    <3> QED BY <3>1 DEF Abs!Next
  <2>4. CASE TakeSplit \/ TakeWhole
    <3> DEFINE p == cur + Hdr
    <3>1. /\ cur \in DOMAIN blk /\ cur \in Nat /\ blk[cur].free
          /\ blk[cur].size >= req /\ req \in Requests /\ req \in Nat
          /\ live' = [q \in DOMAIN live \cup {p} |-> IF q = p THEN req ELSE live[q]]
          /\ ret' = p /\ req # NoReq /\ req' = NoReq
      BY <2>4, BlockFacts, Align8Facts, HeapAssumption
      DEF TakeSplit, TakeWhole, Hand, Fits, IInv, TypeOK, NoReq
    <3>2. p \notin DOMAIN live /\ p \in Hdr..HeapSize /\ p % 8 = 0 /\ p + req <= HeapSize
      <4>1. p % 8 = 0
        BY <3>1, Mod8Sum DEF IInv, Tiled
      <4>2. p \notin DOMAIN live
        BY <3>1 DEF IInv, HeldBlocks, Hdr
      <4> QED BY <3>1, <4>1, <4>2, BlockFacts, EndBound, HeapAssumption DEF IInv, Hdr
    <3>3. ASSUME NEW q \in DOMAIN live PROVE Abs!Disjoint(p, req, q, live[q])
      <4>1. /\ q - Hdr \in DOMAIN blk /\ q - Hdr # cur /\ q \in Nat
            /\ live[q] <= blk[q - Hdr].size /\ live[q] \in Nat
        BY <3>1, BlockFacts, HeapAssumption DEF IInv, HeldBlocks, TypeOK, Hdr
      <4> QED BY <3>1, <4>1, BlockFacts DEF IInv, Tiled, Abs!Disjoint, Hdr
    <3>4. Abs!Alloc(p)
      BY <3>1, <3>2, <3>3, HeapAssumption DEF Abs!Alloc, Hdr, Abs!Hdr, NoReq, Abs!NoReq
    <3> QED BY <3>1, <3>2, <3>4 DEF Abs!Next, Abs!Hdr, Hdr
  <2> QED BY <2>0, <2>1, <2>2, <2>3, <2>4
          DEF Next, Step, vars, FindNext, CoalesceMerge, CoalesceNext,
              CoalesceDone
<1> QED BY <1>1, <1>2, Invariance, PTL DEF Spec, AbsSpec, Abs!Spec
================================================================================
