------------------------------- MODULE PmmProofs -------------------------------
(***************************************************************************)
(* Proofs about the physical memory manager (Pmm.tla), for every memory map, *)
(* every size of the bitmap and every set of run lengths.                    *)
(***************************************************************************)
EXTENDS Pmm, FiniteSetTheorems, TLAPS

\* Frames pmm_init's loops have come past.
Cleared ==
  {p \in Pages : \E k \in DOMAIN MemMap :
     /\ MemMap[k].usable
     /\ \/ k < ent /\ p \in Run(MemMap[k].base, MemMap[k].pages)
        \/ k = ent /\ p \in Run(MemMap[k].base, pg) \cap Run(MemMap[k].base, MemMap[k].pages)}

\* The inductive invariant: what the bitmap is at every point of the boot loop,
\* who may own a frame, and that the ghost count is a count.
BootBits == pc = "init" => bits = Pages \ Cleared /\ held = {}
Lent     == held \subseteq Usable /\ lent = Cardinality(held)
IInv     == TypeOK /\ CounterExact /\ BootBits /\ BitmapExact /\ Lent

\* Entries of the map are what PmmAssumption says.
LEMMA MapFacts ==
  /\ Len(MemMap) \in Nat /\ DOMAIN MemMap = 1 .. Len(MemMap)
  /\ \A k \in 1 .. Len(MemMap) :
       MemMap[k].base \in Nat /\ MemMap[k].pages \in Nat /\ MemMap[k].usable \in BOOLEAN
<1>1. MemMap \in Seq(Entry)
  BY PmmAssumption
<1>2. Len(MemMap) \in Nat /\ DOMAIN MemMap = 1 .. Len(MemMap)
  BY <1>1
<1>3. \A k \in 1 .. Len(MemMap) : MemMap[k] \in Entry
  BY <1>1
<1> QED BY <1>2, <1>3 DEF Entry

\* Sets of frames are finite.
LEMMA FrameSets ==
  ASSUME NEW S \in SUBSET Pages
  PROVE  IsFiniteSet(S) /\ Cardinality(S) \in Nat /\ Cardinality(S) <= Total
<1>1. IsFiniteSet(Pages) /\ Cardinality(Pages) = Total
  BY FS_Interval, PmmAssumption DEF Pages
<1> QED BY <1>1, FS_Subset, FS_CardinalityType

\* A run of n frames outside S adds n to S.
LEMMA AddRun ==
  ASSUME NEW S \in SUBSET Pages, NEW b \in Nat, NEW n \in Nat \ {0},
         Run(b, n) \cap S = {}
  PROVE  Cardinality(S \cup Run(b, n)) = Cardinality(S) + n
<1>1. IsFiniteSet(Run(b, n)) /\ Cardinality(Run(b, n)) = n
  <2>1. b \in Int /\ b + n - 1 \in Int /\ ~(b > b + n - 1) /\ b + n - 1 - b + 1 = n
    OBVIOUS
  <2> QED BY <2>1, FS_Interval DEF Run
<1>2. IsFiniteSet(S) /\ Cardinality(S) \in Nat
  BY FrameSets
<1>3. Cardinality(S \cap Run(b, n)) = 0
  BY FS_EmptySet
<1>4. Cardinality(S \cup Run(b, n)) = Cardinality(S) + n - 0
  BY <1>1, <1>2, <1>3, FS_Union
<1> QED BY <1>2, <1>4

\* Before pmm_init every bit is set, and the counter says so.
LEMMA InitInv == Init => IInv
<1> SUFFICES ASSUME Init PROVE IInv
  OBVIOUS
<1>1. Cardinality(Pages) = Total
  BY FS_Interval, PmmAssumption DEF Pages
<1>2. TypeOK
  BY PmmAssumption, MapFacts DEF Init, TypeOK, Pages, NoAns, Ans
<1>3. Cleared = {}
  BY MapFacts DEF Init, Cleared, Run
<1>4. Lent
  BY FS_EmptySet DEF Init, Lent
<1> QED BY <1>1, <1>2, <1>3, <1>4 DEF Init, IInv, CounterExact, BootBits, BitmapExact

\* One iteration of the inner loop clears one bit and counts it once.
LEMMA InitPageInv == ASSUME IInv, InitPage PROVE IInv'
<1> USE DEF IInv
<1>1. /\ ent \in 1 .. Len(MemMap) /\ pg \in Nat /\ MemMap[ent].usable
      /\ pg < MemMap[ent].pages /\ Frame \in Pages
      /\ MemMap[ent].base \in Nat /\ MemMap[ent].pages \in Nat
  BY MapFacts, PmmAssumption DEF InitPage, InEntry, Frame, TypeOK, Pages
<1>2. TypeOK'
  <2>1. CASE Frame \in bits
    <3>1. Cardinality(bits) \in Nat /\ Cardinality(bits) # 0
      BY <2>1, FrameSets, FS_EmptySet DEF TypeOK
    <3> QED BY <2>1, <3>1, <1>1, PmmAssumption DEF InitPage, TypeOK, CounterExact
  <2>2. CASE Frame \notin bits
    BY <2>2, <1>1 DEF InitPage, TypeOK
  <2> QED BY <2>1, <2>2
<1>3. CounterExact'
  <2>1. IsFiniteSet(bits)
    BY FrameSets DEF TypeOK
  <2> QED BY <2>1, FS_RemoveElement DEF InitPage, CounterExact
<1>4. Cleared' = Cleared \cup {Frame}
  <2>1. ent' = ent /\ pg' = pg + 1
    BY DEF InitPage
  <2>2. Run(MemMap[ent].base, pg + 1) = Run(MemMap[ent].base, pg) \cup {Frame}
    BY <1>1 DEF Run, Frame
  <2>3. Frame \in Run(MemMap[ent].base, MemMap[ent].pages)
    BY <1>1 DEF Run, Frame
  <2> QED BY <1>1, <2>1, <2>2, <2>3, MapFacts DEF Cleared
<1>5. BootBits' /\ BitmapExact' /\ Lent'
  BY <1>4 DEF InitPage, BootBits, BitmapExact, Lent
<1> QED BY <1>2, <1>3, <1>5

\* Leaving an entry early or at its end skips none of its frames that has a bit.
LEMMA InitEntryDoneInv == ASSUME IInv, InitEntryDone PROVE IInv'
<1> USE DEF IInv
<1>1. /\ ent \in 1 .. Len(MemMap) /\ pg \in Nat /\ ent' = ent + 1 /\ pg' = 0
      /\ MemMap[ent].base \in Nat /\ MemMap[ent].pages \in Nat
  BY MapFacts DEF InitEntryDone, TypeOK
<1>2. TypeOK'
  BY <1>1, MapFacts DEF InitEntryDone, TypeOK
<1>3. Cleared' = Cleared
  <2>1. ASSUME NEW p \in Pages, MemMap[ent].usable,
               p \in Run(MemMap[ent].base, MemMap[ent].pages)
        PROVE  p \in Run(MemMap[ent].base, pg)
    BY <1>1, <2>1, PmmAssumption DEF InitEntryDone, InEntry, Frame, Run, Pages
  <2>2. \A p : p \notin Run(MemMap[ent + 1].base, 0) \/ ~(ent + 1 \in DOMAIN MemMap)
    BY <1>1, MapFacts DEF Run
  <2>3. \A k \in DOMAIN MemMap : k < ent + 1 <=> k < ent \/ k = ent
    BY <1>1, MapFacts
  <2> QED BY <1>1, <2>1, <2>2, <2>3 DEF Cleared
<1>4. CounterExact' /\ BootBits' /\ BitmapExact' /\ Lent'
  BY <1>3 DEF InitEntryDone, CounterExact, BootBits, BitmapExact, Lent
<1> QED BY <1>2, <1>4

\* At the end of the loops every usable frame has been cleared.
LEMMA InitDoneInv == ASSUME IInv, InitDone PROVE IInv'
<1> USE DEF IInv
<1>1. Cleared = Usable
  BY MapFacts DEF InitDone, TypeOK, Cleared, Usable
<1>2. BitmapExact'
  BY <1>1 DEF InitDone, BootBits, BitmapExact
<1> QED BY <1>2 DEF InitDone, TypeOK, CounterExact, BootBits, Lent

\* A run that is handed out was free, hence usable and owned by nobody.
LEMMA FreeRunFacts ==
  ASSUME IInv, pc = "ready", NEW b \in Pages, NEW n \in RunLengths, FreeRun(b, n)
  PROVE  Run(b, n) \subseteq Pages /\ Run(b, n) \subseteq Usable \ held
  BY PmmAssumption DEF IInv, TypeOK, BitmapExact, FreeRun, Run, Pages

\* The run lent was free and becomes owned; the counter grows by its length.
LEMMA AllocInv ==
  ASSUME IInv, NEW n \in RunLengths, NEW b \in Pages, Alloc(b, n) PROVE IInv'
<1> USE DEF IInv
<1>1. /\ n \in Nat \ {0} /\ b \in Nat /\ pc = "ready"
      /\ Run(b, n) \cap bits = {} /\ Run(b, n) \cap held = {}
      /\ Run(b, n) \subseteq Pages /\ Run(b, n) \subseteq Usable
  BY FreeRunFacts, PmmAssumption DEF Alloc, FirstFreeRun, FreeRun, Pages
<1>2. CounterExact'
  BY <1>1, AddRun DEF Alloc, CounterExact, TypeOK
<1>3. Lent'
  BY <1>1, AddRun DEF Alloc, Lent, TypeOK
<1>4. TypeOK'
  <2>1. bits' \subseteq Pages /\ held' \subseteq Pages
    BY <1>1 DEF Alloc, TypeOK
  <2>2. pmm_used' \in 0 .. Total /\ lent' \in Nat
    BY <1>2, <1>3, <2>1, FrameSets, PmmAssumption DEF CounterExact, Lent
  <2> QED BY <2>1, <2>2 DEF Alloc, TypeOK, Ans
<1>5. BootBits' /\ BitmapExact'
  BY <1>1 DEF Alloc, BootBits, BitmapExact
<1> QED BY <1>2, <1>3, <1>4, <1>5

\* A frame given back is freed once; freeing what is free changes nothing.
LEMMA FreeInv == ASSUME IInv, NEW p \in 0 .. Total, Free(p) PROVE IInv'
<1> USE DEF IInv
<1>1. IsFiniteSet(bits) /\ IsFiniteSet(held)
  BY FrameSets DEF TypeOK
<1>2. CounterExact'
  BY <1>1, FS_RemoveElement DEF Free, CounterExact
<1>3. Lent'
  BY <1>1, FS_RemoveElement DEF Free, Lent
<1>4. TypeOK'
  <2>1. bits' \subseteq Pages /\ held' \subseteq Pages
    BY DEF Free, TypeOK
  <2>2. pmm_used' \in 0 .. Total /\ lent' \in Nat
    BY <1>2, <1>3, <2>1, FrameSets, PmmAssumption DEF CounterExact, Lent
  <2>3. 0 \in Pages
    BY PmmAssumption DEF Pages
  <2> QED BY <2>1, <2>2, <2>3 DEF Free, TypeOK, NoAns, Ans
<1>5. BootBits' /\ BitmapExact'
  BY PmmAssumption DEF Free, BootBits, BitmapExact, TypeOK, Lent, Pages
<1> QED BY <1>2, <1>3, <1>4, <1>5

\* IInv is an invariant of the specification.
THEOREM Invariance == Spec => []IInv
<1>1. IInv /\ [Next]_vars => IInv'
  <2> SUFFICES ASSUME IInv, [Next]_vars PROVE IInv'
    OBVIOUS
  <2>1. CASE UNCHANGED vars
    BY <2>1 DEF vars, IInv, TypeOK, CounterExact, BootBits, BitmapExact, Lent, Cleared
  <2>2. ASSUME NEW n \in RunLengths, AllocFail(n) PROVE IInv'
    BY <2>2, PmmAssumption
    DEF AllocFail, Ans, IInv, TypeOK, CounterExact, BootBits, BitmapExact, Lent, Cleared, Pages
  <2> QED BY <2>1, <2>2, InitPageInv, InitEntryDoneInv, InitDoneInv, AllocInv, FreeInv
          DEF Next, InitStep
<1> QED BY InitInv, <1>1, PTL DEF Spec

\* pmm_used is always the number of set bits (pmm.c:47-49, 70, 82-84, 98).
THEOREM CounterIsExact == Spec => []CounterExact
  BY Invariance, PTL DEF IInv

\* After boot the set bits are exactly the non-memory and the owned frames.
THEOREM BitmapIsExact == Spec => []BitmapExact
  BY Invariance, PTL DEF IInv

\* The bitmap scan implements the abstract frame pool.
THEOREM Refinement == Spec => AbsSpec
<1>1. Init => Abs!Init
  BY DEF Init, Abs!Init, NoAns, Ans, Abs!Ans
<1>2. IInv /\ [Next]_vars => [Abs!Next]_Abs!absVars
  <2> SUFFICES ASSUME IInv, [Next]_vars PROVE [Abs!Next]_Abs!absVars
    OBVIOUS
  <2> USE DEF Abs!absVars
  <2>1. CASE UNCHANGED <<held, lent, ret>>
    BY <2>1
  <2>2. ASSUME NEW n \in RunLengths, NEW b \in Pages, Alloc(b, n) PROVE Abs!Next
    <3>1. Run(b, n) \subseteq Usable \ held /\ b \in Run(b, n)
      BY <2>2, FreeRunFacts, PmmAssumption DEF Alloc, FirstFreeRun, Run, Pages
    <3>2. Abs!Lend(b, n)
      BY <2>2, <3>1 DEF Alloc, Abs!Lend, Abs!Run, Run, Ans, Abs!Ans
    <3> QED BY <3>1, <3>2 DEF Abs!Next
  <2>3. ASSUME NEW n \in RunLengths, AllocFail(n) PROVE Abs!Next
    <3>1. ASSUME NEW b \in Usable PROVE ~(Run(b, n) \subseteq Usable \ held)
      <4> SUFFICES ASSUME Run(b, n) \subseteq Usable \ held PROVE FALSE
        OBVIOUS
      <4>1. b \in Pages /\ b + n - 1 \in Run(b, n) /\ n \in Nat \ {0}
        BY PmmAssumption DEF Usable, Pages, Run
      <4>2. b + n <= Total
        BY <4>1, PmmAssumption DEF Usable, Pages
      <4>3. Run(b, n) \cap bits = {}
        BY <2>3 DEF AllocFail, IInv, BitmapExact
      <4> QED BY <2>3, <4>1, <4>2, <4>3 DEF AllocFail, FreeRun
    <3>2. Abs!Refuse(n)
      BY <2>3, <3>1 DEF AllocFail, Abs!Refuse, Abs!Run, Run, Ans, Abs!Ans
    <3> QED BY <3>2 DEF Abs!Next
  <2>4. ASSUME NEW p \in 0 .. Total, Free(p) PROVE [Abs!Next]_Abs!absVars
    <3>1. CASE p \in held
      BY <2>4, <3>1 DEF Free, Abs!Next, Abs!Return, NoAns, Ans, Abs!Ans
    <3>2. CASE p \notin held
      BY <2>4, <3>2 DEF Free, Abs!Next, Abs!Ignore, NoAns, Ans, Abs!Ans
    <3> QED BY <3>1, <3>2
  <2> QED BY <2>1, <2>2, <2>3, <2>4
          DEF Next, InitStep, vars, InitPage, InitEntryDone, InitDone
<1> QED BY <1>1, <1>2, Invariance, PTL DEF Spec, AbsSpec, Abs!Spec
================================================================================
