------------------------------- MODULE ExecProofs ------------------------------
(***************************************************************************)
(* Proofs about exec and the page tables (Exec.tla, Vmm.tla), for any number of  *)
(* levels and entries, any frames, images and arguments, and however the memory  *)
(* runs out.                                                                    *)
(***************************************************************************)
EXTENDS Exec, FiniteSetTheorems, WellFoundedInduction, TLAPS

--------------------------------------------------------------------------------
(* The inductive invariant.                                                     *)
EntryRec == [frame : Nat, flags : SUBSET Bit]
MapRec   == [pg : Nat, frame : Nat, flags : SUBSET Bit, at : Nat, lvl : Nat]

Typed ==
  /\ used \subseteq Frames /\ DOMAIN table \subseteq used /\ DOMAIN page \subseteq used
  /\ DOMAIN table \cap DOMAIN page = {}
  /\ table \in [DOMAIN table -> [Idx -> EntryRec]]
  /\ map \in MapRec
  /\ map # NoMap => map.at \in DOMAIN table /\ map.lvl \in 1 .. Levels
  /\ pc \in {"boot", "user", "pages", "halted"} /\ caller \in {"boot", "exec", "exit"}
  /\ cr3 \in spaces \cup {NONE} /\ pml4 \in spaces \cup {NONE}
  /\ spaces \subseteq DOMAIN table /\ kernel \subseteq used
  /\ img \in Images \cup {NoImage} /\ seg \in 0 .. Len(img.segs) /\ pg \in Nat

\* What holds while boot maps, while a program runs and while an exec maps.
Phases ==
  /\ kernel = {} => spaces = {pml4} /\ cr3 = NONE
  /\ kernel # {} => cr3 \in spaces
  /\ pc = "boot" => kernel = {} /\ pg # 0
  /\ pc \in {"user", "pages"} => kernel # {}
  /\ pc = "user" => map = NoMap /\ seg = 0
  /\ pc = "pages" => pml4 \in spaces \ kernel /\ pml4 # cr3 /\ img \in Images
  /\ buf => pc \in {"pages", "halted"}

\* Entry i of table t is present and not the kernel's.
UserEntry(t, i) ==
  /\ t \in DOMAIN table \ kernel /\ i \in Idx
  /\ Present(table[t][i]) /\ ~(t \in spaces /\ i \in KernelIdx)

\* A walk begins at the root, in the half its page is in; exec's stays out of the
\* kernel's tables, and its frame is nobody's yet.
Mapping ==
  map # NoMap =>
    /\ map.lvl = 1 => map.at = pml4
    /\ pc = "boot" => Ix(map.pg, 1) \in KernelIdx
    /\ pc = "pages" =>
         /\ Ix(map.pg, 1) \notin KernelIdx
         /\ map.at \notin kernel /\ (map.at \in spaces => map.at = pml4 /\ map.lvl = 1)
         /\ map.frame \in used \ (kernel \cup spaces \cup DOMAIN table)
         /\ \A t \in DOMAIN table, i \in Idx : UserEntry(t, i) => table[t][i].frame # map.frame

\* The tables are trees: own gives each its root, dep its level. An entry above the
\* last level leads to a table one level down, of the same root when it is no entry
\* of the kernel's.
Trees(own, dep) ==
  /\ own \in [DOMAIN table -> spaces] /\ dep \in [DOMAIN table -> 1 .. Levels]
  /\ \A s \in spaces : own[s] = s /\ dep[s] = 1
  /\ \A t \in DOMAIN table, i \in Idx :
       Present(table[t][i]) /\ dep[t] < Levels =>
         /\ table[t][i].frame \in DOMAIN table /\ dep[table[t][i].frame] = dep[t] + 1
         /\ UserEntry(t, i) => own[table[t][i].frame] = own[t]
  /\ map # NoMap => dep[map.at] = map.lvl /\ (pc = "pages" => own[map.at] = pml4)

\* The space boot made has nothing in the half of programs.
LowerEmpty ==
  \A s \in spaces : kernel = {} \/ s \in kernel =>
    \A i \in Idx \ KernelIdx : ~Present(table[s][i])

\* Entries of programs lead to frames of their own.
Apart ==
  kernel # {} =>
    /\ \A t \in DOMAIN table, i \in Idx :
         UserEntry(t, i) => table[t][i].frame \in used \ (kernel \cup spaces)
    /\ \A t, u \in DOMAIN table, i, j \in Idx :
         UserEntry(t, i) /\ UserEntry(u, j) /\ table[t][i].frame = table[u][j].frame
           => t = u /\ i = j

IInv == /\ Typed /\ Phases /\ Mapping /\ LowerEmpty /\ Apart /\ KernelShared
        /\ \E own, dep : Trees(own, dep)

--------------------------------------------------------------------------------
(* Numbers, induction and the recursive definitions.                            *)
\* A set of numbers has a least one.
LEMMA LeastNat ==
  ASSUME NEW T \in SUBSET Nat, T # {}
  PROVE  \E x \in T : \A y \in T : x <= y
<1>1. PICK x \in T : \A y \in T : ~(<<y, x>> \in OpToRel(<, Nat))
  BY NatLessThanWellFounded, WFMin
<1>2. \A y \in T : ~(y < x)
  BY <1>1 DEF OpToRel
<1> QED BY <1>2

\* What holds of 0 and goes on from each number to the next holds up to n.
LEMMA UpTo ==
  ASSUME NEW n \in Nat, NEW T, 0 \in T, \A i \in 1 .. n : i - 1 \in T => i \in T
  PROVE  \A i \in 0 .. n : i \in T
<1> DEFINE Bad == {i \in 0 .. n : i \notin T}
<1> SUFFICES ASSUME Bad # {} PROVE FALSE
  OBVIOUS
<1>1. PICK x \in Bad : \A y \in Bad : x <= y
  <2>1. Bad \in SUBSET Nat
    OBVIOUS
  <2> QED BY <2>1, LeastNat
<1>2. x \in 1 .. n /\ x - 1 \in 0 .. n
  BY <1>1
<1>3. x - 1 \in T
  BY <1>1, <1>2
<1> QED BY <1>1, <1>2, <1>3

\* f begins with a and each further value follows from the one before by g.
Steps(n, S, a, g) == n \in Nat /\ a \in S /\ \A x \in S, i \in 1 .. n : g[<<x, i>>] \in S
Run(f, n, S, a, g) ==
  f \in [0 .. n -> S] /\ f[0] = a /\ \A i \in 1 .. n : f[i] = g[<<f[i - 1], i>>]

\* There is such a function.
LEMMA Iterated ==
  ASSUME NEW n, NEW S, NEW a, NEW g, Steps(n, S, a, g)
  PROVE  \E f : Run(f, n, S, a, g)
<1>s. n \in Nat /\ a \in S /\ \A x \in S, i \in 1 .. n : g[<<x, i>>] \in S
  BY DEF Steps
<1> DEFINE Good(f, k) == f[0] = a /\ \A i \in 1 .. k : f[i] = g[<<f[i - 1], i>>]
           T == {k \in 0 .. n : \E f \in [0 .. k -> S] : Good(f, k)}
<1>1. 0 \in T
  <2> DEFINE f == [i \in 0 .. 0 |-> a]
  <2>1. f \in [0 .. 0 -> S] /\ f[0] = a
    BY <1>s
  <2> HIDE DEF f
  <2>2. Good(f, 0)
    BY <2>1
  <2> QED BY <1>s, <2>1, <2>2
<1>2. ASSUME NEW k \in 1 .. n, k - 1 \in T PROVE k \in T
  <2>0. k \in Nat /\ k \in 0 .. n
    BY <1>s
  <2>1. PICK f \in [0 .. (k - 1) -> S] : Good(f, k - 1)
    BY <1>2
  <2> DEFINE h == [i \in 0 .. k |-> IF i < k THEN f[i] ELSE g[<<f[k - 1], k>>]]
  <2>2. f[k - 1] \in S /\ g[<<f[k - 1], k>>] \in S
    <3>1. k - 1 \in 0 .. (k - 1)
      BY <2>0
    <3> QED BY <1>s, <3>1
  <2>3. h \in [0 .. k -> S]
    BY <2>0, <2>2
  <2>4. \A i \in 0 .. k : h[i] = IF i < k THEN f[i] ELSE g[<<f[k - 1], k>>]
    OBVIOUS
  <2> HIDE DEF h
  <2>5. Good(h, k)
    <3>1. h[0] = a
      BY <2>0, <2>1, <2>4
    <3>2. ASSUME NEW i \in 1 .. k PROVE h[i] = g[<<h[i - 1], i>>]
      <4>1. h[i - 1] = f[i - 1] /\ i \in 0 .. k
        BY <2>0, <2>4, <3>2
      <4>2. CASE i < k
        BY <2>0, <2>1, <2>4, <4>1, <4>2
      <4>3. CASE i = k
        BY <2>4, <4>1, <4>3
      <4> QED BY <2>0, <4>2, <4>3
    <3> QED BY <3>1, <3>2
  <2> QED BY <2>0, <2>3, <2>5
<1>3. \A k \in 0 .. n : k \in T
  <2> HIDE DEF T
  <2> QED BY <1>s, <1>1, <1>2, UpTo
<1>4. n \in 0 .. n
  BY <1>s
<1> QED BY <1>3, <1>4 DEF Run

\* Min of such a set is a member.
LEMMA MinFacts ==
  ASSUME NEW T \in SUBSET Nat, T # {}
  PROVE  Min(T) \in T
<1>1. \E x \in T : \A y \in T : x <= y
  BY LeastNat
<1> QED BY <1>1 DEF Min

\* The quotient of a number that lies between two multiples of s.
LEMMA DivBetween ==
  ASSUME NEW p \in Nat, NEW s \in Nat \ {0}, NEW lo \in Nat, NEW hi \in Nat,
         lo * s <= p, p < hi * s
  PROVE  p \div s \in lo .. (hi - 1)
<1> DEFINE q == p \div s
<1>1. q \in Nat /\ q * s <= p /\ p < q * s + s
  OBVIOUS
<1> HIDE DEF q
<1>2. lo <= q
  <2>1. SUFFICES ASSUME q + 1 <= lo PROVE FALSE
    BY <1>1
  <2>2. (q + 1) * s <= lo * s
    BY <2>1, <1>1
  <2>3. (q + 1) * s = q * s + s
    BY <1>1
  <2> QED BY <1>1, <2>2, <2>3
<1>3. q < hi
  <2>1. SUFFICES ASSUME hi <= q PROVE FALSE
    BY <1>1
  <2>2. hi * s <= q * s
    BY <2>1, <1>1
  <2> QED BY <1>1, <2>2
<1> QED BY <1>1, <1>2, <1>3 DEF q

\* The pages an entry covers, level by level.
LEMMA SpanFacts ==
  /\ \A k \in 0 .. Levels : Span[k] \in Nat \ {0}
  /\ Span[0] = 1 /\ \A k \in 1 .. Levels : Span[k] = NIdx * Span[k - 1]
<1> DEFINE Is(u) == u = [k \in 0 .. Levels |-> IF k = 0 THEN 1 ELSE NIdx * u[k - 1]]
           u == CHOOSE u : Is(u)
           g == [x \in (Nat \ {0}) \X (1 .. Levels) |-> NIdx * x[1]]
<1>1. Levels \in Nat \ {0} /\ NIdx \in Nat \ {0}
  BY VmmAssumption DEF VmmAssumption
<1>2. Span = u
  BY DEF Span
<1>3. \A x \in Nat \ {0}, i \in 1 .. Levels : g[<<x, i>>] = NIdx * x
  OBVIOUS
<1>4. \A x \in Nat \ {0} : NIdx * x \in Nat \ {0}
  BY <1>1
<1> HIDE DEF g
<1>5. Steps(Levels, Nat \ {0}, 1, g)
  BY <1>1, <1>3, <1>4 DEF Steps
<1>6. PICK f : Run(f, Levels, Nat \ {0}, 1, g)
  BY <1>5, Iterated
<1>7. \A k \in 1 .. Levels : k - 1 \in 0 .. Levels /\ k \in 0 .. Levels
  BY <1>1
<1>8. Is(f)
  <2>1. ASSUME NEW k \in 0 .. Levels PROVE f[k] = IF k = 0 THEN 1 ELSE NIdx * f[k - 1]
    <3>1. CASE k = 0
      BY <1>6, <3>1 DEF Run
    <3>2. CASE k # 0
      <4>1. k \in 1 .. Levels
        BY <1>1, <2>1, <3>2
      <4>2. f[k - 1] \in Nat \ {0}
        BY <1>6, <1>7, <4>1 DEF Run
      <4> QED BY <1>3, <1>6, <3>2, <4>1, <4>2 DEF Run
    <3> QED BY <3>1, <3>2
  <2> QED BY <1>6, <2>1 DEF Run
<1>9. Is(u)
  BY <1>8
<1> HIDE DEF u
<1>10. \A k \in 0 .. Levels : u[k] = IF k = 0 THEN 1 ELSE NIdx * u[k - 1]
  BY <1>9
<1>11. u[0] = 1 /\ \A k \in 1 .. Levels : u[k] = NIdx * u[k - 1]
  BY <1>1, <1>7, <1>10
<1>12. \A k \in 0 .. Levels : u[k] \in Nat \ {0}
  <2> DEFINE T == {k \in 0 .. Levels : u[k] \in Nat \ {0}}
  <2>1. 0 \in T
    BY <1>1, <1>11
  <2>2. \A k \in 1 .. Levels : k - 1 \in T => k \in T
    BY <1>4, <1>7, <1>11
  <2> HIDE DEF T
  <2>3. \A k \in 0 .. Levels : k \in T
    BY <1>1, <2>1, <2>2, UpTo
  <2> QED BY <2>3 DEF T
<1> QED BY <1>2, <1>11, <1>12

\* An index lies in the table; at the first level it tells the halves apart.
LEMMA IxFacts ==
  /\ \A p \in Nat, l \in 1 .. Levels : Ix(p, l) \in Idx
  /\ \A p \in UserPages : p \in Nat /\ Ix(p, 1) \in Idx \ KernelIdx
  /\ \A p \in UserEnd .. (NIdx * Span[Levels - 1] - 1) : p \in Nat /\ Ix(p, 1) \in KernelIdx
<1> DEFINE half == NIdx \div 2
           s    == Span[Levels - 1]
<1>1. Levels \in Nat \ {0} /\ NIdx \in Nat \ {0} /\ half \in Nat /\ half < NIdx
  BY VmmAssumption DEF VmmAssumption
<1>2. \A l \in 1 .. Levels : Levels - l \in 0 .. Levels
  BY <1>1
<1>3. s \in Nat \ {0}
  BY <1>1, <1>2, SpanFacts
<1>4. UserEnd = half * s /\ UserEnd \in Nat
  <2>1. UserEnd = half * s
    BY DEF UserEnd
  <2> HIDE DEF half, s
  <2> QED BY <1>1, <1>3, <2>1
<1>5. KernelIdx = half .. (NIdx - 1) /\ Idx = 0 .. (NIdx - 1)
  BY DEF KernelIdx, Idx
<1>6. \A p : Ix(p, 1) = (p \div s) % NIdx
  BY DEF Ix
<1> HIDE DEF half, s
<1>7. ASSUME NEW p \in Nat, NEW l \in 1 .. Levels PROVE Ix(p, l) \in Idx
  <2>1. Span[Levels - l] \in Nat \ {0}
    BY <1>2, SpanFacts
  <2>2. p \div Span[Levels - l] \in Int
    BY <2>1
  <2>3. (p \div Span[Levels - l]) % NIdx \in 0 .. (NIdx - 1)
    BY <1>1, <2>2
  <2> QED BY <1>5, <2>3 DEF Ix
<1>8. ASSUME NEW p \in UserPages PROVE p \in Nat /\ Ix(p, 1) \in Idx \ KernelIdx
  <2>1. p \in Nat /\ 0 * s <= p /\ p < half * s
    BY <1>3, <1>4, <1>8 DEF UserPages
  <2>2. p \div s \in 0 .. (half - 1)
    BY <1>1, <1>3, <2>1, DivBetween
  <2>3. (p \div s) % NIdx = p \div s
    BY <1>1, <2>2
  <2> QED BY <1>1, <1>5, <1>6, <2>1, <2>2, <2>3
<1>9. ASSUME NEW p \in UserEnd .. (NIdx * s - 1) PROVE p \in Nat /\ Ix(p, 1) \in KernelIdx
  <2>1. p \in Nat /\ half * s <= p /\ p < NIdx * s
    BY <1>1, <1>3, <1>4, <1>9
  <2>2. p \div s \in half .. (NIdx - 1)
    BY <1>1, <1>3, <2>1, DivBetween
  <2>3. (p \div s) % NIdx = p \div s
    BY <1>1, <2>2
  <2> QED BY <1>1, <1>5, <1>6, <2>1, <2>2, <2>3
<1> QED BY <1>7, <1>8, <1>9 DEF s

\* One level of the walk the processor makes in tables tab.
Hop(tab, x, p, k) ==
  IF x = NONE \/ ~Present(tab[x][Ix(p, k)]) THEN NONE ELSE tab[x][Ix(p, k)].frame

WalkIn(tab, root, p) ==
  LET at[k \in 0 .. Levels] ==
        IF k = 0 THEN root
        ELSE IF at[k - 1] = NONE \/ ~Present(tab[at[k - 1]][Ix(p, k)]) THEN NONE
        ELSE tab[at[k - 1]][Ix(p, k)].frame
  IN  at

\* It goes from the root level by level, and stays in the sets A[k] when each level
\* leads from one to the next.
LEMMA WalkFacts ==
  ASSUME NEW tab, NEW root, NEW p, NEW S, NEW A \in [0 .. Levels -> SUBSET S], root \in A[0],
         \A k \in 1 .. Levels : \A x \in A[k - 1] : Hop(tab, x, p, k) \in A[k]
  PROVE  /\ WalkIn(tab, root, p)[0] = root
         /\ \A k \in 1 .. Levels :
              WalkIn(tab, root, p)[k] = Hop(tab, WalkIn(tab, root, p)[k - 1], p, k)
         /\ \A k \in 0 .. Levels : WalkIn(tab, root, p)[k] \in A[k]
<1> DEFINE Is(u) == u = [k \in 0 .. Levels |->
                           IF k = 0 THEN root
                           ELSE IF u[k - 1] = NONE \/ ~Present(tab[u[k - 1]][Ix(p, k)]) THEN NONE
                           ELSE tab[u[k - 1]][Ix(p, k)].frame]
           Goes(u) == u = [k \in 0 .. Levels |-> IF k = 0 THEN root ELSE Hop(tab, u[k - 1], p, k)]
           u == CHOOSE u : Is(u)
           g == [x \in S \X (1 .. Levels) |->
                   IF x[1] \in A[x[2] - 1] THEN Hop(tab, x[1], p, x[2]) ELSE root]
<1>1. Levels \in Nat \ {0}
  BY VmmAssumption DEF VmmAssumption
<1>2. WalkIn(tab, root, p) = u
  BY DEF WalkIn
<1>3. \A v : Is(v) <=> Goes(v)
  BY DEF Hop
<1>4. \A k \in 1 .. Levels : k - 1 \in 0 .. Levels /\ k \in 0 .. Levels
  BY <1>1
<1>5. \A x \in S, i \in 1 .. Levels :
        g[<<x, i>>] = IF x \in A[i - 1] THEN Hop(tab, x, p, i) ELSE root
  OBVIOUS
<1>6. \A k \in 0 .. Levels : A[k] \subseteq S
  OBVIOUS
<1>7. root \in S
  BY <1>1, <1>6
<1>8. \A x \in S, i \in 1 .. Levels : g[<<x, i>>] \in S
  BY <1>4, <1>5, <1>6, <1>7
<1> HIDE DEF g, Is
<1>9. Steps(Levels, S, root, g)
  BY <1>1, <1>7, <1>8 DEF Steps
<1>10. PICK f : Run(f, Levels, S, root, g)
  BY <1>9, Iterated
<1>11. \A k \in 0 .. Levels : f[k] \in A[k]
  <2> DEFINE T == {k \in 0 .. Levels : f[k] \in A[k]}
  <2>1. 0 \in T
    BY <1>1, <1>10 DEF Run
  <2>2. ASSUME NEW k \in 1 .. Levels, k - 1 \in T PROVE k \in T
    <3>1. f[k] = g[<<f[k - 1], k>>] /\ f[k - 1] \in A[k - 1]
      BY <1>10, <2>2 DEF Run
    <3>2. f[k - 1] \in S
      BY <1>4, <1>6, <3>1
    <3>3. f[k] = Hop(tab, f[k - 1], p, k)
      BY <1>5, <3>1, <3>2
    <3> QED BY <1>4, <3>1, <3>3
  <2> HIDE DEF T
  <2>3. \A k \in 0 .. Levels : k \in T
    BY <1>1, <2>1, <2>2, UpTo
  <2> QED BY <2>3 DEF T
<1>12. Goes(f)
  <2>1. ASSUME NEW k \in 0 .. Levels
        PROVE  f[k] = IF k = 0 THEN root ELSE Hop(tab, f[k - 1], p, k)
    <3>1. CASE k = 0
      BY <1>10, <3>1 DEF Run
    <3>2. CASE k # 0
      <4>1. k \in 1 .. Levels
        BY <1>1, <2>1, <3>2
      <4>2. f[k - 1] \in A[k - 1] /\ f[k - 1] \in S /\ f[k] = g[<<f[k - 1], k>>]
        BY <1>4, <1>6, <1>10, <1>11, <4>1 DEF Run
      <4> QED BY <1>5, <3>2, <4>1, <4>2
    <3> QED BY <3>1, <3>2
  <2>2. f = [k \in 0 .. Levels |-> f[k]]
    BY <1>10 DEF Run
  <2> QED BY <2>1, <2>2
<1>13. Goes(u)
  BY <1>3, <1>12
<1> HIDE DEF u
<1>14. \A k \in 0 .. Levels : u[k] = IF k = 0 THEN root ELSE Hop(tab, u[k - 1], p, k)
  BY <1>13
<1>15. u[0] = root /\ \A k \in 1 .. Levels : u[k] = Hop(tab, u[k - 1], p, k)
  <2>1. \A k \in 1 .. Levels : k # 0 /\ k \in 0 .. Levels
    BY <1>1
  <2>2. 0 \in 0 .. Levels
    BY <1>1
  <2> HIDE DEF Goes
  <2> QED BY <1>14, <2>1, <2>2
<1>16. \A k \in 0 .. Levels : u[k] \in A[k]
  <2> DEFINE T == {k \in 0 .. Levels : u[k] \in A[k]}
  <2>1. 0 \in T
    BY <1>1, <1>15
  <2>2. \A k \in 1 .. Levels : k - 1 \in T => k \in T
    BY <1>4, <1>15
  <2> HIDE DEF T
  <2>3. \A k \in 0 .. Levels : k \in T
    BY <1>1, <2>1, <2>2, UpTo
  <2> QED BY <2>3 DEF T
<1> QED BY <1>2, <1>15, <1>16

--------------------------------------------------------------------------------
(* What the steps have in common.                                               *)

\* Frames are positive numbers, the levels too, and images name pages.
LEMMA Numbers ==
  /\ Frames \subseteq Nat /\ NONE \notin Frames /\ Frames # {}
  /\ Levels \in Nat \ {0} /\ NIdx \in Nat \ {0} /\ PageSize \in Nat \ {0}
  /\ StackTop \in Nat /\ StackBottom \in Nat
<1>1. Frames \subseteq Nat /\ NONE \notin Frames /\ Frames # {}
  BY VmmAssumption DEF VmmAssumption, NONE
<1>2. Levels \in Nat \ {0} /\ NIdx \in Nat \ {0}
  BY VmmAssumption DEF VmmAssumption
<1>3. PageSize \in Nat \ {0} /\ StackTop \in Nat /\ StackPages \in 1 .. StackTop
  BY ExecAssumption DEF ExecAssumption
<1> QED BY <1>1, <1>2, <1>3 DEF StackBottom

\* pmm_alloc gives a frame that is not in use.
LEMMA FrameFacts ==
  ASSUME HasFrame
  PROVE  Frame \in Frames \ used
<1>1. Frames \ used \in SUBSET Nat /\ Frames \ used # {}
  BY Numbers DEF HasFrame
<1>2. Min(Frames \ used) \in Frames \ used
  BY <1>1, MinFacts
<1> QED BY <1>2 DEF Frame

\* The segments of an image, the stack as segment 0, are pages of the programs' half.
LEMMA SegFacts ==
  ASSUME NEW m \in Images
  PROVE  /\ Len(m.segs) \in Nat
         /\ \A i \in 0 .. Len(m.segs) : Base(m, i) \in Nat
         /\ \A i \in 0 .. Len(m.segs), p \in Nat : p < End(m, i) => p \in UserPages
<1>1. m.segs \in Seq(Segment)
  BY ExecAssumption DEF ExecAssumption
<1>2. \A i \in 1 .. Len(m.segs) :
        i \in DOMAIN m.segs /\ m.segs[i].vaddr \in Nat /\ m.segs[i].memsz \in Nat
  <2>1. \A i \in 1 .. Len(m.segs) : i \in DOMAIN m.segs /\ m.segs[i] \in Segment
    BY <1>1
  <2> QED BY <2>1 DEF Segment
<1>3. \A i \in 1 .. Len(m.segs) : m.segs[i].vaddr \div PageSize \in Nat
  <2>1. \A v \in Nat : v \div PageSize \in Nat
    BY Numbers
  <2> QED BY <1>2, <2>1
<1>4. Len(m.segs) \in Nat
  BY <1>1
<1>5. \A i \in 0 .. Len(m.segs) : Base(m, i) \in Nat
  BY <1>3, <1>4, Numbers DEF Base
<1>6. UserEnd \in Nat
  <2>1. NIdx \div 2 \in Nat /\ Levels - 1 \in 0 .. Levels
    BY Numbers
  <2>2. Span[Levels - 1] \in Nat \ {0}
    BY <2>1, SpanFacts
  <2> QED BY <2>1, <2>2 DEF UserEnd
<1>7. ASSUME NEW i \in 0 .. Len(m.segs), NEW p \in Nat, p < End(m, i) PROVE p \in UserPages
  <2>1. CASE i = 0
    <3>1. End(m, i) = StackTop
      BY <2>1 DEF End
    <3>2. StackTop <= UserEnd
      BY Halves DEF Halves
    <3> QED BY <1>6, <1>7, <3>1, <3>2, Numbers DEF UserPages
  <2>2. CASE i # 0
    <3>1. i \in DOMAIN m.segs
      BY <1>2, <1>4, <2>2
    <3>2. End(m, i) <= UserEnd
      BY <3>1, Halves DEF Halves
    <3>3. End(m, i) \in Int
      <4>1. m.segs[i].vaddr \in Nat /\ m.segs[i].memsz \in Nat
        BY <1>2, <1>4, <2>2
      <4>2. \A v, w \in Nat : (v + w + PageSize - 1) \div PageSize \in Int
        <5>1. \A v, w \in Nat : v + w + PageSize - 1 \in Nat
          BY Numbers
        <5>2. \A v \in Nat : v \div PageSize \in Int
          BY Numbers
        <5> QED BY <5>1, <5>2
      <4> QED BY <1>5, <2>2, <4>1, <4>2 DEF End
    <3> QED BY <1>6, <1>7, <3>2, <3>3 DEF UserPages
  <2> QED BY <2>1, <2>2
<1> QED BY <1>4, <1>5, <1>7

\* Boot and every exec leave all roots alike in the kernel half.
LEMMA RootsAlike ==
  ASSUME IInv
  PROVE  \A s, t \in spaces, i \in KernelIdx : table[s][i] = table[t][i]
<1>1. CASE pc = "boot"
  BY <1>1 DEF IInv, Phases
<1>2. CASE pc # "boot"
  BY <1>2 DEF IInv, KernelShared
<1> QED BY <1>1, <1>2

\* A step that leaves the tables alone leaves what is said of them alone.
LEMMA SameTables ==
  ASSUME IInv, table' = table, spaces' = spaces, kernel' = kernel, used \subseteq used'
  PROVE  LowerEmpty' /\ Apart' /\ KernelShared' /\ \A t, i : UserEntry(t, i)' <=> UserEntry(t, i)
<1>1. \A t, i : UserEntry(t, i)' <=> UserEntry(t, i)
  BY DEF UserEntry
<1>2. KernelShared'
  BY RootsAlike DEF KernelShared
<1>3. LowerEmpty'
  BY DEF LowerEmpty, IInv
<1>4. Apart'
  BY <1>1 DEF Apart, IInv
<1> QED BY <1>1, <1>2, <1>3, <1>4

\* The same of the trees, when the walk under way stands where it may.
LEMMA SameTrees ==
  ASSUME NEW own, NEW dep, Trees(own, dep),
         table' = table, spaces' = spaces, kernel' = kernel,
         map' # NoMap => dep[map'.at] = map'.lvl /\ (pc' = "pages" => own[map'.at] = pml4')
  PROVE  Trees(own, dep)'
<1>1. \A t, i : UserEntry(t, i)' <=> UserEntry(t, i)
  BY DEF UserEntry
<1> QED BY <1>1 DEF Trees

\* At the first state.
LEMMA InitInv == Init => IInv
<1> SUFFICES ASSUME Init PROVE IInv
  OBVIOUS
<1>1. PICK r : r = Min(Frames)
  OBVIOUS
<1>2. r \in Frames /\ r \in Nat /\ r # NONE
  BY <1>1, Numbers, MinFacts
<1>3. used = {r} /\ DOMAIN table = {r} /\ table[r] = Zeroed /\ spaces = {r} /\ pml4 = r
  BY <1>1 DEF Init
<1>4. Zeroed \in [Idx -> EntryRec] /\ \A i \in Idx : ~Present(Zeroed[i])
  BY DEF Zeroed, EntryRec, Entry, Present, NONE
<1>5. NoMap \in MapRec
  BY DEF NoMap, MapRec, NONE
<1>6. Typed
  <2>1. table \in [DOMAIN table -> [Idx -> EntryRec]]
    BY <1>1, <1>3, <1>4 DEF Init
  <2>2. Len(img.segs) = 0 /\ img = NoImage
    BY DEF Init, NoImage
  <2>3. DOMAIN page = {}
    BY DEF Init
  <2> QED BY <1>2, <1>3, <1>5, <2>1, <2>2, <2>3 DEF Init, Typed
<1>7. Phases /\ Mapping /\ KernelShared /\ Apart
  BY <1>3 DEF Init, Phases, Mapping, KernelShared, Apart
<1>8. LowerEmpty
  BY <1>3, <1>4 DEF LowerEmpty
<1>9. Trees([t \in {r} |-> r], [t \in {r} |-> 1])
  BY <1>3, <1>4, Numbers DEF Init, Trees
<1> QED BY <1>6, <1>7, <1>8, <1>9 DEF IInv

\* vmm_map goes one level down: only the table it stands at and the level change.
LEMMA DownFacts ==
  ASSUME map \in MapRec, NEW f \in Nat, Down(f)
  PROVE  /\ map' \in MapRec /\ map'.at = f /\ map'.lvl = map.lvl + 1
         /\ map'.pg = map.pg /\ map'.frame = map.frame /\ map'.flags = map.flags
<1>1. /\ map.pg \in Nat /\ map.frame \in Nat /\ map.flags \in SUBSET Bit /\ map.at \in Nat
      /\ map.lvl \in Nat
      /\ map = [pg |-> map.pg, frame |-> map.frame, flags |-> map.flags, at |-> map.at,
                lvl |-> map.lvl]
  BY DEF MapRec
<1>2. map' = [pg |-> map.pg, frame |-> map.frame, flags |-> map.flags, at |-> f,
              lvl |-> map.lvl + 1]
  BY <1>1, Zenon DEF Down
<1>3. map.lvl + 1 \in Nat
  BY <1>1
<1> QED BY <1>1, <1>2, <1>3, Zenon DEF MapRec

\* vmm_map is called with the table at lvl 1.
LEMMA CallFacts ==
  ASSUME NEW root \in Nat \ {NONE}, NEW p \in Nat, NEW f \in Nat, NEW fl \in SUBSET Bit,
         MapCall(root, p, f, fl)
  PROVE  /\ map' \in MapRec /\ map'.at = root /\ map'.lvl = 1 /\ map'.pg = p /\ map'.frame = f
         /\ map' # NoMap
<1>1. map' = [pg |-> p, frame |-> f, flags |-> fl, at |-> root, lvl |-> 1]
  BY DEF MapCall
<1>2. map' \in MapRec
  BY <1>1 DEF MapRec
<1>3. map'.at = root /\ map'.lvl = 1 /\ map'.pg = p /\ map'.frame = f
  BY <1>1
<1>4. NoMap.at = NONE
  BY DEF NoMap
<1> QED BY <1>2, <1>3, <1>4

\* The call that was made before boot's or exec's next one returned.
LEMMA NoMapIsRec == NoMap \in MapRec
BY DEF NoMap, MapRec, NONE

--------------------------------------------------------------------------------
(* One lemma for each action.                                                   *)

\* vmm_init calls vmm_map for the next page of the kernel.
LEMMA BootMapInv ==
  ASSUME IInv, BootMap
  PROVE  IInv'
<1>1. PICK own, dep : Trees(own, dep)
  BY DEF IInv
<1>2. pg \in DOMAIN KernelMap /\ pml4 \in spaces /\ pml4 \in Nat \ {NONE}
  <2>1. KernelMap \in Seq([pg : Nat, frame : Nat, flags : SUBSET Bit])
    BY ExecAssumption DEF ExecAssumption
  <2>2. pg \in Nat /\ pg <= Len(KernelMap) /\ pg # 0
    BY DEF BootMap, IInv, Typed, Phases
  <2>3. pml4 \in spaces /\ spaces \subseteq Frames
    BY DEF BootMap, IInv, Typed, Phases
  <2> QED BY <2>1, <2>2, <2>3, Numbers
<1>3. PICK k : k = KernelMap[pg]
  OBVIOUS
<1>4. k.pg \in Nat /\ k.frame \in Nat /\ k.flags \in SUBSET Bit /\ Ix(k.pg, 1) \in KernelIdx
  <2>1. KernelMap \in Seq([pg : Nat, frame : Nat, flags : SUBSET Bit])
    BY ExecAssumption DEF ExecAssumption
  <2>2. k \in [pg : Nat, frame : Nat, flags : SUBSET Bit]
    <3> DEFINE R == [pg : Nat, frame : Nat, flags : SUBSET Bit]
    <3>1. KernelMap \in Seq(R)
      BY <2>1
    <3> HIDE DEF R
    <3>2. k \in R
      BY <1>2, <1>3, <3>1
    <3> QED BY <3>2 DEF R
  <2>3. k.pg \in UserEnd .. (NIdx * Span[Levels - 1] - 1)
    BY <1>2, <1>3, Halves DEF Halves
  <2> QED BY <2>2, <2>3, IxFacts
<1>5. /\ map' \in MapRec /\ map'.at = pml4 /\ map'.lvl = 1 /\ map'.pg = k.pg
      /\ map' # NoMap
  <2>1. MapCall(pml4, k.pg, k.frame, k.flags)
    BY <1>3 DEF BootMap
  <2> QED BY <1>2, <1>4, <2>1, CallFacts
<1>6. /\ table' = table /\ spaces' = spaces /\ kernel' = kernel /\ used' = used /\ cr3' = cr3
      /\ page' = page /\ pc' = pc /\ pc = "boot" /\ caller' = caller /\ img' = img /\ pml4' = pml4
      /\ seg' = seg /\ pg' = pg /\ buf' = buf
  BY DEF BootMap, call
<1>7. Typed'
  BY <1>2, <1>5, <1>6, Numbers DEF IInv, Typed
<1>8. Phases'
  BY <1>6 DEF IInv, Phases
<1>9. Mapping'
  BY <1>4, <1>5, <1>6 DEF Mapping
<1>10. LowerEmpty' /\ Apart' /\ KernelShared'
  BY <1>6, SameTables
<1>11. Trees(own, dep)'
  <2>1. dep[map'.at] = map'.lvl /\ pc' # "pages"
    BY <1>1, <1>2, <1>5, <1>6 DEF Trees
  <2> QED BY <1>1, <1>6, <2>1, SameTrees
<1> QED BY <1>7, <1>8, <1>9, <1>10, <1>11 DEF IInv

\* A step after which no vmm_map is under way, or the same one, and the tables are
\* the same.
LEMMA StillInv ==
  ASSUME IInv, map' \in {map, NoMap}, table' = table, spaces' = spaces,
         kernel' = kernel, used' = used,
         pc' = "pages" => map' = NoMap \/ (pc = "pages" /\ pml4' = pml4),
         pc' = "boot" => pc = "boot", map' = NoMap \/ pml4' = pml4
  PROVE  Mapping' /\ LowerEmpty' /\ Apart' /\ KernelShared' /\ \E own, dep : Trees(own, dep)'
<1>1. PICK own, dep : Trees(own, dep)
  BY DEF IInv
<1>2. LowerEmpty' /\ Apart' /\ KernelShared' /\ \A t, i : UserEntry(t, i)' <=> UserEntry(t, i)
  BY SameTables
<1>3. Mapping'
  BY <1>2 DEF IInv, Mapping
<1>4. map' # NoMap => dep[map'.at] = map'.lvl /\ (pc' = "pages" => own[map'.at] = pml4')
  BY <1>1 DEF Trees
<1>5. Trees(own, dep)'
  BY <1>1, <1>4, SameTrees
<1> QED BY <1>2, <1>3, <1>5

\* vmm_init loads the root, and what it has taken is the kernel's.
LEMMA BootDoneInv ==
  ASSUME IInv, BootDone
  PROVE  IInv'
<1>1. PICK own, dep : Trees(own, dep)
  BY DEF IInv
<1>2. /\ table' = table /\ spaces' = spaces /\ used' = used /\ page' = page /\ map' = NoMap
      /\ map = NoMap
      /\ pc = "boot" /\ pc' = "user" /\ kernel' = used /\ cr3' = pml4
      /\ caller' = "boot" /\ img' = NoImage /\ pml4' = NONE /\ seg' = 0 /\ pg' = 0 /\ buf' = FALSE
  BY DEF BootDone, Returned
<1>3. spaces = {pml4} /\ kernel = {} /\ pml4 \in used
  BY <1>2 DEF IInv, Typed, Phases
<1>4. Len(NoImage.segs) = 0
  BY DEF NoImage
<1>5. Typed'
  BY <1>2, <1>3, <1>4 DEF IInv, Typed
<1>6. Phases'
  BY <1>2, <1>3 DEF Phases
<1>7. \A t, i : ~UserEntry(t, i)'
  BY <1>2 DEF UserEntry, IInv, Typed
<1>8. Mapping' /\ Apart' /\ KernelShared' /\ LowerEmpty'
  BY <1>2, <1>3, <1>7 DEF Mapping, Apart, KernelShared, LowerEmpty, IInv
<1>9. Trees(own, dep)'
  BY <1>1, <1>2, <1>7 DEF Trees
<1> QED BY <1>5, <1>6, <1>8, <1>9 DEF IInv

\* The file of the next program cannot be had.
LEMMA NotStartedInv ==
  ASSUME IInv, NEW c, NotStarted(c)
  PROVE  IInv'
<1>1. /\ table' = table /\ spaces' = spaces /\ used' = used /\ page' = page /\ map' = map
      /\ pc = "user" /\ pc' = "halted" /\ kernel' = kernel /\ cr3' = cr3
      /\ caller' = caller /\ img' = img /\ pml4' = pml4 /\ seg' = seg /\ pg' = pg /\ buf' = buf
  BY DEF NotStarted, vmmVars, call
<1>2. Typed'
  BY <1>1 DEF IInv, Typed
<1>3. Phases'
  BY <1>1 DEF IInv, Phases
<1>4. Mapping' /\ LowerEmpty' /\ Apart' /\ KernelShared' /\ \E own, dep : Trees(own, dep)'
  BY <1>1, StillInv
<1> QED BY <1>2, <1>3, <1>4 DEF IInv

\* A table cannot be made.
LEMMA HaltInv ==
  ASSUME IInv, Halt
  PROVE  IInv'
<1>1. /\ table' = table /\ spaces' = spaces /\ used' = used /\ page' = page /\ map' = map
      /\ pc' = "halted" /\ kernel' = kernel /\ cr3' = cr3
      /\ caller' = caller /\ img' = img /\ pml4' = pml4 /\ seg' = seg /\ pg' = pg /\ buf' = buf
  BY DEF Halt, NoTable, vmmVars, call
<1>2. Typed'
  BY <1>1 DEF IInv, Typed
<1>3. Phases'
  BY <1>1 DEF IInv, Phases
<1>4. Mapping' /\ LowerEmpty' /\ Apart' /\ KernelShared' /\ \E own, dep : Trees(own, dep)'
  BY <1>1, StillInv
<1> QED BY <1>2, <1>3, <1>4 DEF IInv

\* elf_load goes on to the next segment.
LEMMA NextSegmentInv ==
  ASSUME IInv, NextSegment
  PROVE  IInv'
<1>1. /\ table' = table /\ spaces' = spaces /\ used' = used /\ page' = page /\ map' = map
      /\ pc' = pc /\ pc = "pages" /\ kernel' = kernel /\ cr3' = cr3 /\ seg < Len(img.segs)
      /\ caller' = caller /\ img' = img /\ pml4' = pml4 /\ seg' = seg + 1
      /\ pg' = Base(img, seg + 1) /\ buf' = buf
  BY DEF NextSegment, vmmVars, call
<1>2. img \in Images /\ seg \in 0 .. Len(img.segs)
  BY <1>1 DEF IInv, Typed, Phases
<1>3. seg + 1 \in 0 .. Len(img.segs)
  BY <1>1, <1>2, SegFacts
<1>4. Base(img, seg + 1) \in Nat
  BY <1>2, <1>3, SegFacts
<1>5. seg' \in 0 .. Len(img'.segs) /\ pg' \in Nat
  BY <1>1, <1>3, <1>4
<1>6. Typed'
  BY <1>1, <1>5 DEF IInv, Typed
<1>7. Phases'
  BY <1>1 DEF IInv, Phases
<1>8. Mapping' /\ LowerEmpty' /\ Apart' /\ KernelShared' /\ \E own, dep : Trees(own, dep)'
  BY <1>1, StillInv
<1> QED BY <1>6, <1>7, <1>8 DEF IInv

\* The call gives up.
LEMMA FailInv ==
  ASSUME IInv, Fail
  PROVE  IInv'
<1>1. /\ table' = table /\ spaces' = spaces /\ used' = used /\ page' = page /\ map' = map
      /\ map = NoMap /\ pc = "pages" /\ pc' \in {"user", "halted"} /\ kernel' = kernel /\ cr3' = cr3
      /\ caller' = "boot" /\ img' = NoImage /\ pml4' = NONE /\ seg' = 0 /\ pg' = 0 /\ buf' = FALSE
  BY DEF Fail, Returned, vmmVars
<1>2. Len(NoImage.segs) = 0
  BY DEF NoImage
<1>3. Typed'
  BY <1>1, <1>2 DEF IInv, Typed
<1>4. Phases'
  BY <1>1 DEF IInv, Phases
<1>5. Mapping' /\ LowerEmpty' /\ Apart' /\ KernelShared' /\ \E own, dep : Trees(own, dep)'
  BY <1>1, StillInv
<1> QED BY <1>3, <1>4, <1>5 DEF IInv

\* The new program starts.
LEMMA JumpInv ==
  ASSUME IInv, Jump
  PROVE  IInv'
<1>1. /\ table' = table /\ spaces' = spaces /\ used' = used /\ map' = map
      /\ map = NoMap /\ pc = "pages" /\ pc' = "user" /\ kernel' = kernel /\ cr3' = pml4
      /\ caller' = "boot" /\ img' = NoImage /\ pml4' = NONE /\ seg' = 0 /\ pg' = 0 /\ buf' = FALSE
  BY DEF Jump, Returned
<1>2. Len(NoImage.segs) = 0 /\ DOMAIN page' = DOMAIN page
  BY DEF NoImage, Jump
<1>3. pml4 \in spaces \ kernel /\ kernel # {}
  BY <1>1 DEF IInv, Phases
<1>4. Typed'
  BY <1>1, <1>2, <1>3 DEF IInv, Typed
<1>5. Phases'
  BY <1>1, <1>3 DEF IInv, Phases
<1>6. Mapping' /\ LowerEmpty' /\ Apart' /\ KernelShared' /\ \E own, dep : Trees(own, dep)'
  BY <1>1, StillInv
<1> QED BY <1>4, <1>5, <1>6 DEF IInv

\* exec takes the frame of the next page and calls vmm_map.
LEMMA PageCallInv ==
  ASSUME IInv, PageCall
  PROVE  IInv'
<1>1. PICK own, dep : Trees(own, dep)
  BY DEF IInv
<1>2. PICK f : f = Frame
  OBVIOUS
<1>3. f \in Frames \ used /\ f \in Nat
  BY <1>2, FrameFacts, Numbers DEF PageCall
<1>4. /\ table' = table /\ spaces' = spaces /\ used' = used \cup {f} /\ page' = page
      /\ pc' = pc /\ pc = "pages" /\ kernel' = kernel /\ cr3' = cr3
      /\ caller' = caller /\ img' = img /\ pml4' = pml4 /\ seg' = seg /\ pg' = pg /\ buf' = buf
  BY <1>2 DEF PageCall, call, Take
<1>5. /\ img \in Images /\ seg \in 0 .. Len(img.segs) /\ pml4 \in spaces \ kernel
      /\ pml4 \in Nat \ {NONE} /\ pg \in Nat /\ kernel # {}
  BY <1>4, Numbers DEF IInv, Typed, Phases
<1>6. Ix(pg, 1) \notin KernelIdx
  <2>1. pg \in UserPages
    BY <1>5, SegFacts DEF PageCall
  <2> QED BY <2>1, IxFacts
<1>7. Flags(img, seg) \in SUBSET Bit
  BY DEF Flags, USER_FLAGS, Bit
<1>8. /\ map' \in MapRec /\ map'.at = pml4 /\ map'.lvl = 1 /\ map'.pg = pg /\ map'.frame = f
      /\ map' # NoMap
  <2>1. MapCall(pml4, pg, f, Flags(img, seg))
    BY <1>2 DEF PageCall
  <2> QED BY <1>3, <1>5, <1>7, <2>1, CallFacts
<1>9. LowerEmpty' /\ Apart' /\ KernelShared' /\ \A t, i : UserEntry(t, i)' <=> UserEntry(t, i)
  BY <1>4, SameTables
<1>10. Typed'
  BY <1>3, <1>4, <1>5, <1>8, Numbers DEF IInv, Typed
<1>11. Phases'
  BY <1>4 DEF IInv, Phases
<1>12. Mapping'
  <2>1. f \in used' \ (kernel' \cup spaces' \cup DOMAIN table')
    BY <1>3, <1>4 DEF IInv, Typed
  <2>2. ASSUME NEW t \in DOMAIN table, NEW i \in Idx, UserEntry(t, i) PROVE table[t][i].frame # f
    BY <1>3, <1>5, <2>2 DEF IInv, Apart
  <2> QED BY <1>4, <1>5, <1>6, <1>8, <1>9, <2>1, <2>2 DEF Mapping
<1>13. Trees(own, dep)'
  <2>1. dep[map'.at] = map'.lvl /\ own[map'.at] = pml4'
    BY <1>1, <1>4, <1>5, <1>8 DEF Trees
  <2> QED BY <1>1, <1>4, <2>1, SameTrees
<1> QED BY <1>9, <1>10, <1>11, <1>12, <1>13 DEF IInv

\* The entry a walk is at.
LEMMA SlotFacts ==
  ASSUME IInv, map # NoMap, NEW at, NEW ix, at = map.at, ix = Ix(map.pg, map.lvl)
  PROVE  /\ Slot = table[at][ix] /\ at \in DOMAIN table /\ ix \in Idx
         /\ at \in Nat /\ map.lvl \in 1 .. Levels /\ map \in MapRec
         /\ table[at][ix] \in EntryRec
         /\ pc = "pages" /\ at \in spaces => ix \notin KernelIdx
         /\ pc = "boot" /\ map.lvl = 1 => ix \in KernelIdx
<1>1. map.at \in DOMAIN table /\ map.lvl \in 1 .. Levels /\ map \in MapRec /\ map.pg \in Nat
      /\ map.at \in Nat
  BY DEF IInv, Typed, MapRec
<1>2. ix \in Idx
  BY <1>1, IxFacts
<1>3. table[at][ix] \in EntryRec
  BY <1>1, <1>2 DEF IInv, Typed
<1>4. Slot = table[at][ix]
  BY DEF Slot
<1>5. pc = "pages" /\ at \in spaces => ix \notin KernelIdx
  BY DEF IInv, Mapping
<1>6. pc = "boot" /\ map.lvl = 1 => ix \in KernelIdx
  BY DEF IInv, Mapping
<1> QED BY <1>1, <1>2, <1>3, <1>4, <1>5, <1>6

\* The next table is there.
LEMMA DescendInv ==
  ASSUME IInv, Walk, Descend
  PROVE  IInv'
<1>1. PICK own, dep : Trees(own, dep)
  BY DEF IInv
<1>2. PICK at : at = map.at
  OBVIOUS
<1>3. PICK ix : ix = Ix(map.pg, map.lvl)
  OBVIOUS
<1>4. PICK to : to = table[at][ix].frame
  OBVIOUS
<1>5. /\ map # NoMap /\ map.lvl < Levels /\ Present(table[at][ix]) /\ pc \in {"boot", "pages"}
      /\ Down(to)
      /\ table' = table /\ spaces' = spaces /\ used' = used /\ page' = page
      /\ pc' = pc /\ kernel' = kernel /\ cr3' = cr3
      /\ caller' = caller /\ img' = img /\ pml4' = pml4 /\ seg' = seg /\ pg' = pg /\ buf' = buf
  BY <1>2, <1>3, <1>4 DEF Walk, Descend, call, Slot
<1>6. /\ at \in DOMAIN table /\ ix \in Idx /\ map.lvl \in 1 .. Levels /\ map \in MapRec
      /\ table[at][ix] \in EntryRec /\ (pc = "pages" /\ at \in spaces => ix \notin KernelIdx)
  BY <1>2, <1>3, <1>5, SlotFacts
<1>7. to \in Nat
  BY <1>4, <1>6 DEF EntryRec
<1>8. to \in DOMAIN table /\ dep[to] = map.lvl + 1 /\ (UserEntry(at, ix) => own[to] = own[at])
      /\ (pc = "pages" => own[at] = pml4)
  BY <1>1, <1>2, <1>4, <1>5, <1>6 DEF Trees
<1>9. /\ map' \in MapRec /\ map'.at = to /\ map'.lvl = map.lvl + 1
      /\ map'.pg = map.pg /\ map'.frame = map.frame
  BY <1>5, <1>6, <1>7, DownFacts
<1>10. map'.lvl \in 2 .. Levels
  BY <1>5, <1>6, <1>9, Numbers
<1>11. pc = "pages" => to \notin kernel /\ to \notin spaces /\ own[to] = pml4
  <2> HAVE pc = "pages"
  <2>1. UserEntry(at, ix) /\ kernel # {}
    BY <1>2, <1>5, <1>6 DEF UserEntry, IInv, Mapping, Phases
  <2>2. to \in used \ (kernel \cup spaces)
    BY <1>4, <1>6, <2>1 DEF IInv, Apart
  <2> QED BY <1>8, <2>1, <2>2
<1>12. LowerEmpty' /\ Apart' /\ KernelShared' /\ \A t, i : UserEntry(t, i)' <=> UserEntry(t, i)
  BY <1>5, SameTables
<1>13. Typed'
  BY <1>5, <1>8, <1>9, <1>10 DEF IInv, Typed
<1>14. Phases'
  BY <1>5 DEF IInv, Phases
<1>15. Mapping'
  BY <1>5, <1>9, <1>10, <1>11, <1>12 DEF IInv, Mapping
<1>16. Trees(own, dep)'
  BY <1>1, <1>5, <1>8, <1>9, <1>11, SameTrees
<1> QED BY <1>12, <1>13, <1>14, <1>15, <1>16 DEF IInv

\* The next table is made.
LEMMA CreateInv ==
  ASSUME IInv, Walk, Create
  PROVE  IInv'
<1>1. PICK own, dep : Trees(own, dep)
  BY DEF IInv
<1>2. PICK at : at = map.at
  OBVIOUS
<1>3. PICK ix : ix = Ix(map.pg, map.lvl)
  OBVIOUS
<1>4. PICK f : f = Frame
  OBVIOUS
<1>5. PICK e : e = Entry(f, TableFlags)
  OBVIOUS
<1>6. /\ map # NoMap /\ map.lvl < Levels /\ ~Present(table[at][ix]) /\ pc \in {"boot", "pages"}
      /\ Down(f) /\ used' = used \cup {f}
      /\ spaces' = spaces /\ page' = page
      /\ pc' = pc /\ kernel' = kernel /\ cr3' = cr3
      /\ caller' = caller /\ img' = img /\ pml4' = pml4 /\ seg' = seg /\ pg' = pg /\ buf' = buf
  BY <1>2, <1>3, <1>4 DEF Walk, Create, call, Slot, Take
<1>7. f \in Frames \ used /\ f \in Nat
  BY <1>4, FrameFacts, Numbers DEF Create
<1>8. /\ at \in DOMAIN table /\ ix \in Idx /\ map.lvl \in 1 .. Levels /\ map \in MapRec
      /\ (pc = "pages" /\ at \in spaces => ix \notin KernelIdx)
      /\ (pc = "boot" /\ map.lvl = 1 => ix \in KernelIdx)
  BY <1>2, <1>3, <1>6, SlotFacts
<1>9. e \in EntryRec /\ e.frame = f
  <2>1. TableFlags \in SUBSET Bit
    BY <1>8 DEF TableFlags, MapRec, Bit
  <2> QED BY <1>5, <1>7, <2>1 DEF Entry, EntryRec
<1>10. DOMAIN table \subseteq used /\ spaces \subseteq DOMAIN table /\ kernel \subseteq used
       /\ DOMAIN page \subseteq used /\ used \subseteq Frames
       /\ table \in [DOMAIN table -> [Idx -> EntryRec]] /\ DOMAIN table \cap DOMAIN page = {}
  BY DEF IInv, Typed
<1>11. Zeroed \in [Idx -> EntryRec] /\ \A i \in Idx : ~Present(Zeroed[i])
  BY DEF Zeroed, EntryRec, Entry, Present, NONE
<1>12. /\ DOMAIN table' = DOMAIN table \cup {f} /\ table'[f] = Zeroed
       /\ table' \in [DOMAIN table' -> [Idx -> EntryRec]]
       /\ \A t \in DOMAIN table, i \in Idx :
            table'[t][i] = IF t = at /\ i = ix THEN e ELSE table[t][i]
  <2>1. table' = [t \in DOMAIN table \cup {f} |->
                    IF t = f THEN Zeroed
                    ELSE IF t = at THEN [table[t] EXCEPT ![ix] = e] ELSE table[t]]
    BY <1>2, <1>3, <1>4, <1>5 DEF Create
  <2>2. \A t \in DOMAIN table : t # f
    BY <1>7, <1>10
  <2>3. \A t \in DOMAIN table : table[t] \in [Idx -> EntryRec]
    BY <1>10
  <2>4. [table[at] EXCEPT ![ix] = e] \in [Idx -> EntryRec]
    BY <1>8, <1>9, <2>3
  <2>5. DOMAIN table' = DOMAIN table \cup {f} /\ table'[f] = Zeroed
    BY <2>1
  <2>6. ASSUME NEW t \in DOMAIN table'
        PROVE  table'[t] \in [Idx -> EntryRec]
    BY <1>11, <2>1, <2>3, <2>4, <2>6
  <2>7. ASSUME NEW t \in DOMAIN table, NEW i \in Idx
        PROVE  table'[t][i] = IF t = at /\ i = ix THEN e ELSE table[t][i]
    BY <1>8, <2>1, <2>2, <2>3, <2>7
  <2>8. table' \in [DOMAIN table' -> [Idx -> EntryRec]]
    <3>1. table' = [t \in DOMAIN table' |-> table'[t]]
      BY <2>1
    <3> QED BY <2>6, <3>1
  <2> QED BY <2>5, <2>7, <2>8
<1>13. /\ map' \in MapRec /\ map'.at = f /\ map'.lvl = map.lvl + 1
       /\ map'.pg = map.pg /\ map'.frame = map.frame
  BY <1>6, <1>7, <1>8, DownFacts
<1>14. map'.lvl \in 2 .. Levels /\ map' # NoMap
  <2>1. map'.lvl \in 2 .. Levels
    BY <1>6, <1>8, <1>13, Numbers
  <2> QED BY <2>1 DEF NoMap
<1>15. /\ \A i \in Idx : ~UserEntry(f, i)'
       /\ \A t \in DOMAIN table, i \in Idx : t # at \/ i # ix =>
            (UserEntry(t, i)' <=> UserEntry(t, i)) /\ table'[t][i] = table[t][i]
       /\ table'[at][ix] = e /\ ~UserEntry(at, ix)
       /\ UserEntry(at, ix)' => at \notin kernel
  <2>1. \A i \in Idx : ~Present(table'[f][i])
    BY <1>11, <1>12
  <2> QED BY <1>6, <1>7, <1>8, <1>10, <1>12, <2>1 DEF UserEntry
<1>16. Typed'
  BY <1>6, <1>7, <1>10, <1>12, <1>13, <1>14 DEF IInv, Typed
<1>17. Phases'
  BY <1>6 DEF IInv, Phases
<1>18. Mapping'
  <2>1. pc = "pages" =>
          /\ f \notin kernel /\ f \notin spaces
          /\ map.frame \in used \ (kernel \cup spaces \cup DOMAIN table)
          /\ Ix(map.pg, 1) \notin KernelIdx
          /\ \A t \in DOMAIN table, i \in Idx : UserEntry(t, i) => table[t][i].frame # map.frame
    BY <1>6, <1>7, <1>10 DEF IInv, Mapping
  <2>2. pc = "pages" => map.frame \in used' \ (kernel' \cup spaces' \cup DOMAIN table')
    BY <1>6, <1>7, <1>10, <1>12, <2>1
  <2>3. pc = "pages" => \A t \in DOMAIN table', i \in Idx :
                          UserEntry(t, i)' => table'[t][i].frame # map.frame
    BY <1>7, <1>9, <1>10, <1>12, <1>15, <2>1
  <2>4. pc = "boot" => Ix(map.pg, 1) \in KernelIdx
    BY <1>6 DEF IInv, Mapping
  <2> QED BY <1>6, <1>13, <1>14, <2>1, <2>2, <2>3, <2>4 DEF Mapping
<1>19. LowerEmpty'
  <2>1. ASSUME NEW s \in spaces, kernel = {} \/ s \in kernel, NEW i \in Idx \ KernelIdx
        PROVE  ~Present(table'[s][i])
    <3>1. ~(s = at /\ i = ix)
      <4>1. SUFFICES ASSUME s = at, i = ix PROVE FALSE
        OBVIOUS
      <4>2. CASE pc = "boot"
        <5>1. map.lvl = 1
          BY <1>1, <1>2, <1>6, <2>1, <4>1 DEF Trees
        <5> QED BY <1>8, <2>1, <4>1, <4>2, <5>1
      <4>3. CASE pc = "pages"
        BY <1>2, <1>6, <2>1, <4>1, <4>3 DEF IInv, Mapping, Phases
      <4> QED BY <1>6, <4>2, <4>3
    <3>2. table'[s][i] = table[s][i]
      BY <1>10, <1>12, <2>1, <3>1
    <3> QED BY <2>1, <3>2 DEF IInv, LowerEmpty
  <2> QED BY <1>6, <2>1 DEF LowerEmpty
<1>20. Apart'
  <2>1. ASSUME kernel # {}, NEW t \in DOMAIN table', NEW i \in Idx, UserEntry(t, i)'
        PROVE  /\ t \in DOMAIN table /\ table'[t][i].frame \in used' \ (kernel \cup spaces)
               /\ IF t = at /\ i = ix THEN table'[t][i].frame = f
                  ELSE /\ UserEntry(t, i) /\ table'[t][i] = table[t][i]
                       /\ table[t][i].frame \in used
    <3>1. t \in DOMAIN table
      BY <1>12, <1>15, <2>1
    <3>2. CASE t = at /\ i = ix
      BY <1>6, <1>7, <1>9, <1>10, <1>15, <3>1, <3>2
    <3>3. CASE ~(t = at /\ i = ix)
      <4>1. UserEntry(t, i) /\ table'[t][i] = table[t][i]
        BY <1>15, <2>1, <3>1, <3>3
      <4>2. table[t][i].frame \in used \ (kernel \cup spaces)
        BY <2>1, <3>1, <4>1 DEF IInv, Apart
      <4> QED BY <1>6, <3>1, <3>3, <4>1, <4>2
    <3> QED BY <3>2, <3>3
  <2>2. ASSUME kernel # {}, NEW t \in DOMAIN table', NEW i \in Idx, UserEntry(t, i)',
               NEW u \in DOMAIN table', NEW j \in Idx, UserEntry(u, j)',
               table'[t][i].frame = table'[u][j].frame
        PROVE  t = u /\ i = j
    <3>1. CASE ~(t = at /\ i = ix) /\ ~(u = at /\ j = ix)
      BY <2>1, <2>2, <3>1 DEF IInv, Apart
    <3>2. CASE t = at /\ i = ix
      BY <1>7, <2>1, <2>2, <3>2
    <3>3. CASE u = at /\ j = ix
      BY <1>7, <2>1, <2>2, <3>3
    <3> QED BY <3>1, <3>2, <3>3
  <2> QED BY <1>6, <2>1, <2>2 DEF Apart
<1>21. KernelShared'
  <2>1. CASE pc = "boot"
    BY <1>6, <2>1 DEF KernelShared
  <2>2. CASE pc = "pages"
    <3>1. ASSUME NEW s \in spaces, NEW i \in KernelIdx PROVE table'[s][i] = table[s][i]
      <4>1. i \in Idx
        BY Numbers DEF KernelIdx, Idx
      <4>2. ~(s = at /\ i = ix)
        BY <1>8, <2>2, <3>1
      <4> QED BY <1>10, <1>12, <4>1, <4>2
    <3> QED BY <1>6, <3>1, RootsAlike DEF KernelShared
  <2> QED BY <1>6, <2>1, <2>2
<1>22. \E own2, dep2 : Trees(own2, dep2)'
  <2>1. PICK own2 : own2 = [t \in DOMAIN table \cup {f} |-> IF t = f THEN own[at] ELSE own[t]]
    OBVIOUS
  <2>2. PICK dep2 : dep2 = [t \in DOMAIN table \cup {f} |->
                                IF t = f THEN map.lvl + 1 ELSE dep[t]]
    OBVIOUS
  <2>3. \A t \in DOMAIN table : t # f /\ own2[t] = own[t] /\ dep2[t] = dep[t]
    BY <1>7, <1>10, <2>1, <2>2
  <2>4. own2[f] = own[at] /\ dep2[f] = map.lvl + 1 /\ dep[at] = map.lvl
        /\ (pc = "pages" => own[at] = pml4)
    BY <1>1, <1>2, <1>6, <2>1, <2>2 DEF Trees
  <2>5. own2 \in [DOMAIN table' -> spaces] /\ dep2 \in [DOMAIN table' -> 1 .. Levels]
    <3>1. own[at] \in spaces /\ map.lvl + 1 \in 1 .. Levels
      BY <1>1, <1>6, <1>8, Numbers DEF Trees
    <3> QED BY <1>1, <1>12, <2>1, <2>2, <3>1 DEF Trees
  <2>6. \A s \in spaces : own2[s] = s /\ dep2[s] = 1
    BY <1>1, <1>10, <2>3 DEF Trees
  <2>7. ASSUME NEW t \in DOMAIN table', NEW i \in Idx, Present(table'[t][i]), dep2[t] < Levels
        PROVE  /\ table'[t][i].frame \in DOMAIN table' /\ dep2[table'[t][i].frame] = dep2[t] + 1
               /\ UserEntry(t, i)' => own2[table'[t][i].frame] = own2[t]
    <3>1. t \in DOMAIN table
      BY <1>11, <1>12, <2>7
    <3>2. CASE t = at /\ i = ix
      BY <1>8, <1>9, <1>12, <2>3, <2>4, <3>2
    <3>3. CASE ~(t = at /\ i = ix)
      <4>1. (UserEntry(t, i)' <=> UserEntry(t, i)) /\ table'[t][i] = table[t][i]
        BY <1>15, <3>1, <3>3
      <4>2. /\ table[t][i].frame \in DOMAIN table /\ dep[table[t][i].frame] = dep[t] + 1
            /\ UserEntry(t, i) => own[table[t][i].frame] = own[t]
        BY <1>1, <2>3, <2>7, <3>1, <4>1 DEF Trees
      <4> QED BY <1>12, <2>3, <3>1, <4>1, <4>2
    <3> QED BY <3>2, <3>3
  <2>8. dep2[map'.at] = map'.lvl /\ (pc' = "pages" => own2[map'.at] = pml4')
    BY <1>6, <1>13, <2>4
  <2>9. Trees(own2, dep2)'
    BY <1>6, <2>5, <2>6, <2>7, <2>8 DEF Trees
  <2> QED BY <2>9
<1> QED BY <1>16, <1>17, <1>18, <1>19, <1>20, <1>21, <1>22 DEF IInv

\* vmm_map writes the entry and returns: the tables stay trees and the roots alike.
LEMMA SetInv ==
  ASSUME IInv, SetEntry, spaces' = spaces, kernel' = kernel, pml4' = pml4, pc' = pc,
         pc \in {"boot", "pages"}
  PROVE  /\ DOMAIN table' = DOMAIN table /\ table' \in [DOMAIN table -> [Idx -> EntryRec]]
         /\ Mapping' /\ LowerEmpty' /\ Apart' /\ KernelShared' /\ \E own, dep : Trees(own, dep)'
<1>1. PICK own, dep : Trees(own, dep)
  BY DEF IInv
<1>2. PICK at : at = map.at
  OBVIOUS
<1>3. PICK ix : ix = Ix(map.pg, map.lvl)
  OBVIOUS
<1>4. PICK e : e = Entry(map.frame, map.flags)
  OBVIOUS
<1>5. /\ map # NoMap /\ map.lvl = Levels /\ map' = NoMap /\ used' = used
      /\ table' = [table EXCEPT ![at][ix] = e]
  BY <1>2, <1>3, <1>4 DEF SetEntry
<1>6. /\ at \in DOMAIN table /\ ix \in Idx /\ map.lvl \in 1 .. Levels /\ map \in MapRec
      /\ (pc = "pages" /\ at \in spaces => ix \notin KernelIdx)
      /\ (pc = "boot" /\ map.lvl = 1 => ix \in KernelIdx)
  BY <1>2, <1>3, <1>5, SlotFacts
<1>7. e \in EntryRec /\ e.frame = map.frame
  BY <1>4, <1>6 DEF Entry, EntryRec, MapRec
<1>8. DOMAIN table \subseteq used /\ spaces \subseteq DOMAIN table /\ kernel \subseteq used
      /\ table \in [DOMAIN table -> [Idx -> EntryRec]]
  BY DEF IInv, Typed
<1>9. /\ DOMAIN table' = DOMAIN table /\ table' \in [DOMAIN table -> [Idx -> EntryRec]]
      /\ \A t \in DOMAIN table, i \in Idx :
           table'[t][i] = IF t = at /\ i = ix THEN e ELSE table[t][i]
  <2>1. \A t \in DOMAIN table : table[t] \in [Idx -> EntryRec]
    BY <1>8
  <2> QED BY <1>5, <1>6, <1>7, <1>8, <2>1
<1>10. /\ \A t \in DOMAIN table, i \in Idx : t # at \/ i # ix =>
            (UserEntry(t, i)' <=> UserEntry(t, i)) /\ table'[t][i] = table[t][i]
       /\ table'[at][ix] = e /\ (UserEntry(at, ix)' => at \notin kernel)
  BY <1>6, <1>8, <1>9 DEF UserEntry
<1>11. Mapping'
  BY <1>5 DEF Mapping
<1>12. LowerEmpty'
  <2>1. ASSUME NEW s \in spaces, kernel = {} \/ s \in kernel, NEW i \in Idx \ KernelIdx
        PROVE  ~Present(table'[s][i])
    <3>1. ~(s = at /\ i = ix)
      <4>1. SUFFICES ASSUME s = at, i = ix PROVE FALSE
        OBVIOUS
      <4>2. CASE pc = "boot"
        <5>1. map.lvl = 1
          BY <1>1, <1>2, <1>5, <2>1, <4>1 DEF Trees
        <5> QED BY <1>6, <2>1, <4>1, <4>2, <5>1
      <4>3. CASE pc = "pages"
        BY <1>2, <1>5, <2>1, <4>1, <4>3 DEF IInv, Mapping, Phases
      <4> QED BY <4>2, <4>3
    <3>2. table'[s][i] = table[s][i]
      BY <1>8, <1>9, <2>1, <3>1
    <3> QED BY <2>1, <3>2 DEF IInv, LowerEmpty
  <2> QED BY <2>1 DEF LowerEmpty
<1>13. Apart'
  <2>1. ASSUME kernel # {}, NEW t \in DOMAIN table, NEW i \in Idx, UserEntry(t, i)'
        PROVE  /\ table'[t][i].frame \in used \ (kernel \cup spaces)
               /\ IF t = at /\ i = ix THEN table'[t][i].frame = map.frame
                  ELSE /\ UserEntry(t, i) /\ table'[t][i] = table[t][i]
                       /\ table[t][i].frame # map.frame
    <3>1. pc = "pages"
      BY <2>1 DEF IInv, Phases
    <3>2. CASE t = at /\ i = ix
      <4>1. map.frame \in used \ (kernel \cup spaces \cup DOMAIN table)
        BY <1>5, <3>1 DEF IInv, Mapping
      <4> QED BY <1>7, <1>10, <3>2, <4>1
    <3>3. CASE ~(t = at /\ i = ix)
      <4>1. UserEntry(t, i) /\ table'[t][i] = table[t][i]
        BY <1>10, <2>1, <3>3
      <4>2. table[t][i].frame \in used \ (kernel \cup spaces)
        BY <2>1, <4>1 DEF IInv, Apart
      <4>3. table[t][i].frame # map.frame
        BY <1>5, <3>1, <4>1 DEF IInv, Mapping
      <4> QED BY <3>3, <4>1, <4>2, <4>3
    <3> QED BY <3>2, <3>3
  <2>2. ASSUME kernel # {}, NEW t \in DOMAIN table, NEW i \in Idx, UserEntry(t, i)',
               NEW u \in DOMAIN table, NEW j \in Idx, UserEntry(u, j)',
               table'[t][i].frame = table'[u][j].frame
        PROVE  t = u /\ i = j
    <3>1. CASE ~(t = at /\ i = ix) /\ ~(u = at /\ j = ix)
      BY <2>1, <2>2, <3>1 DEF IInv, Apart
    <3>2. CASE t = at /\ i = ix
      BY <2>1, <2>2, <3>2
    <3>3. CASE u = at /\ j = ix
      BY <2>1, <2>2, <3>3
    <3> QED BY <3>1, <3>2, <3>3
  <2> QED BY <1>5, <1>9, <2>1, <2>2 DEF Apart
<1>14. KernelShared'
  <2>1. CASE pc = "boot"
    BY <2>1 DEF KernelShared
  <2>2. CASE pc = "pages"
    <3>1. ASSUME NEW s \in spaces, NEW i \in KernelIdx PROVE table'[s][i] = table[s][i]
      <4>1. i \in Idx
        BY Numbers DEF KernelIdx, Idx
      <4>2. ~(s = at /\ i = ix)
        BY <1>6, <2>2, <3>1
      <4> QED BY <1>8, <1>9, <4>1, <4>2
    <3> QED BY <3>1, RootsAlike DEF KernelShared
  <2> QED BY <2>1, <2>2
<1>15. Trees(own, dep)'
  <2>1. ASSUME NEW t \in DOMAIN table, NEW i \in Idx, Present(table'[t][i]), dep[t] < Levels
        PROVE  /\ table'[t][i].frame \in DOMAIN table /\ dep[table'[t][i].frame] = dep[t] + 1
               /\ UserEntry(t, i)' => own[table'[t][i].frame] = own[t]
    <3>1. t # at
      BY <1>1, <1>2, <1>5, <2>1, Numbers DEF Trees
    <3> QED BY <1>1, <1>10, <2>1, <3>1 DEF Trees
  <2> QED BY <1>1, <1>5, <1>9, <2>1 DEF Trees
<1> QED BY <1>9, <1>11, <1>12, <1>13, <1>14, <1>15

\* vmm_init has mapped a page.
LEMMA BootPageInv ==
  ASSUME IInv, BootPage
  PROVE  IInv'
<1>1. /\ spaces' = spaces /\ page' = page /\ pc' = pc /\ pc = "boot" /\ kernel' = kernel
      /\ SetEntry /\ cr3' = cr3 /\ used' = used /\ map' = NoMap
      /\ caller' = caller /\ img' = img /\ pml4' = pml4 /\ seg' = seg /\ pg' = pg + 1 /\ buf' = buf
  BY DEF BootPage, SetEntry
<1>2. /\ DOMAIN table' = DOMAIN table /\ table' \in [DOMAIN table -> [Idx -> EntryRec]]
      /\ Mapping' /\ LowerEmpty' /\ Apart' /\ KernelShared' /\ \E own, dep : Trees(own, dep)'
  BY <1>1, SetInv
<1>3. Typed'
  BY <1>1, <1>2, NoMapIsRec DEF IInv, Typed
<1>4. Phases'
  <2>1. pg' # 0
    BY <1>1 DEF IInv, Typed
  <2> QED BY <1>1, <2>1 DEF IInv, Phases
<1> QED BY <1>2, <1>3, <1>4 DEF IInv

\* exec has mapped a page, and fills it.
LEMMA PageDoneInv ==
  ASSUME IInv, PageDone
  PROVE  IInv'
<1>1. /\ spaces' = spaces /\ pc' = pc /\ pc = "pages" /\ kernel' = kernel
      /\ SetEntry /\ cr3' = cr3 /\ used' = used /\ map' = NoMap /\ map # NoMap
      /\ DOMAIN page' = DOMAIN page \cup {map.frame}
      /\ caller' = caller /\ img' = img /\ pml4' = pml4 /\ seg' = seg /\ pg' = pg + 1 /\ buf' = buf
  BY DEF PageDone, SetEntry
<1>2. /\ DOMAIN table' = DOMAIN table /\ table' \in [DOMAIN table -> [Idx -> EntryRec]]
      /\ Mapping' /\ LowerEmpty' /\ Apart' /\ KernelShared' /\ \E own, dep : Trees(own, dep)'
  BY <1>1, SetInv
<1>3. map.frame \in used \ DOMAIN table
  BY <1>1 DEF IInv, Mapping
<1>4. Typed'
  BY <1>1, <1>2, <1>3, NoMapIsRec DEF IInv, Typed
<1>5. Phases'
  BY <1>1 DEF IInv, Phases
<1> QED BY <1>2, <1>4, <1>5 DEF IInv

\* elf_exec_argv begins: a new space, or none to be had.
LEMMA StartInv ==
  ASSUME IInv, NEW c \in {"boot", "exec", "exit"}, NEW m \in Images, NEW a \in Argvs,
         Start(c, m, a)
  PROVE  IInv'
<1>1. PICK own, dep : Trees(own, dep)
  BY DEF IInv
<1>2. /\ pc = "user" /\ map = NoMap /\ map' = map /\ cr3' = cr3 /\ page' = page /\ kernel' = kernel
      /\ caller' = c /\ img' = m /\ buf' = TRUE /\ cr3 \in spaces /\ kernel # {}
  BY DEF Start, IInv, Phases
<1>3. CASE ~HasFrame
  <2>1. /\ table' = table /\ spaces' = spaces /\ used' = used /\ pc' = "halted"
        /\ pml4' = pml4 /\ seg' = seg /\ pg' = pg
    BY <1>3 DEF Start
  <2>2. Mapping' /\ LowerEmpty' /\ Apart' /\ KernelShared' /\ \E o, d : Trees(o, d)'
    BY <1>2, <2>1, StillInv
  <2>3. seg' \in 0 .. Len(img'.segs)
    <3>1. Len(m.segs) \in Nat /\ seg = 0
      BY <1>2, SegFacts DEF IInv, Phases
    <3> QED BY <1>2, <2>1, <3>1
  <2>4. Typed'
    BY <1>2, <2>1, <2>3 DEF IInv, Typed
  <2>5. Phases'
    BY <1>2, <2>1 DEF IInv, Phases
  <2> QED BY <2>2, <2>4, <2>5 DEF IInv
<1>4. CASE HasFrame
  <2>1. PICK f : f = Frame
    OBVIOUS
  <2>2. /\ pml4' = f /\ spaces' = spaces \cup {f} /\ used' = used \cup {f}
        /\ pc' = "pages" /\ seg' = 0 /\ pg' = StackBottom
        /\ table' = [t \in DOMAIN table \cup {f} |->
                       IF t = f THEN [i \in Idx |-> Shared(i)] ELSE table[t]]
    BY <1>4, <2>1 DEF Start, NewSpace, Take
  <2>3. f \in Frames \ used /\ f \in Nat
    BY <1>4, <2>1, FrameFacts, Numbers
  <2>4. /\ DOMAIN table \subseteq used /\ spaces \subseteq DOMAIN table /\ kernel \subseteq used
        /\ DOMAIN page \subseteq used /\ used \subseteq Frames
        /\ table \in [DOMAIN table -> [Idx -> EntryRec]] /\ DOMAIN table \cap DOMAIN page = {}
    BY DEF IInv, Typed
  <2>5. KernelIdx \subseteq Idx
    BY Numbers DEF KernelIdx, Idx
  <2>6. /\ \A i \in Idx : Shared(i) \in EntryRec
        /\ \A i \in KernelIdx : Shared(i) = table[cr3][i]
        /\ \A i \in Idx \ KernelIdx : ~Present(Shared(i))
    <3>1. \A i \in Idx : table[cr3][i] \in EntryRec
      BY <1>2, <2>4
    <3>2. Entry(NONE, {}) \in EntryRec /\ ~Present(Entry(NONE, {}))
      BY DEF Entry, EntryRec, Present, NONE
    <3> QED BY <3>1, <3>2 DEF Shared
  <2>7. /\ DOMAIN table' = DOMAIN table \cup {f}
        /\ \A t \in DOMAIN table : t # f /\ table'[t] = table[t]
        /\ \A i \in KernelIdx : table'[f][i] = table[cr3][i]
        /\ \A i \in Idx \ KernelIdx : ~Present(table'[f][i])
        /\ table' \in [DOMAIN table' -> [Idx -> EntryRec]]
    <3>1. DOMAIN table' = DOMAIN table \cup {f} /\ \A i \in Idx : table'[f][i] = Shared(i)
      BY <2>2
    <3>2. \A t \in DOMAIN table : t # f /\ table'[t] = table[t]
      BY <2>2, <2>3, <2>4
    <3>3. [i \in Idx |-> Shared(i)] \in [Idx -> EntryRec]
      BY <2>6
    <3>4. table' \in [DOMAIN table' -> [Idx -> EntryRec]]
      BY <2>2, <2>4, <3>1, <3>3
    <3> QED BY <2>5, <2>6, <3>1, <3>2, <3>4
  <2>8. /\ \A i \in Idx : ~UserEntry(f, i)'
        /\ \A t \in DOMAIN table, i \in Idx : UserEntry(t, i)' <=> UserEntry(t, i)
    BY <1>2, <2>2, <2>7 DEF UserEntry
  <2>9. Typed'
    <3>1. Len(m.segs) \in Nat
      BY SegFacts
    <3>2. seg' \in 0 .. Len(img'.segs) /\ pg' \in Nat
      BY <1>2, <2>2, <3>1, Numbers
    <3> QED BY <1>2, <2>2, <2>3, <2>4, <2>7, <3>2, NoMapIsRec DEF IInv, Typed
  <2>10. Phases'
    BY <1>2, <2>2, <2>3, <2>4 DEF IInv, Phases
  <2>11. Mapping'
    BY <1>2 DEF Mapping
  <2>12. LowerEmpty'
    BY <1>2, <2>2, <2>3, <2>4, <2>7 DEF IInv, LowerEmpty
  <2>13. Apart'
    <3>1. \A t \in DOMAIN table', i \in Idx : UserEntry(t, i)' =>
            /\ t \in DOMAIN table /\ UserEntry(t, i) /\ table'[t][i] = table[t][i]
            /\ table[t][i].frame \in used \ (kernel \cup spaces)
      BY <1>2, <2>7, <2>8 DEF IInv, Apart
    <3>2. \A t \in DOMAIN table', i \in Idx : UserEntry(t, i)' =>
            table'[t][i].frame \in used' \ (kernel' \cup spaces')
      <4>1. \A x \in used \ (kernel \cup spaces) : x \in used' \ (kernel' \cup spaces')
        BY <1>2, <2>2, <2>3
      <4> QED BY <3>1, <4>1
    <3>3. \A t, u \in DOMAIN table', i, j \in Idx :
            UserEntry(t, i)' /\ UserEntry(u, j)' /\ table'[t][i].frame = table'[u][j].frame
              => t = u /\ i = j
      <4>1. \A t, u \in DOMAIN table, i, j \in Idx :
              UserEntry(t, i) /\ UserEntry(u, j) /\ table[t][i].frame = table[u][j].frame
                => t = u /\ i = j
        BY <1>2 DEF IInv, Apart
      <4> QED BY <3>1, <4>1
    <3> QED BY <3>2, <3>3 DEF Apart
  <2>14. KernelShared'
    <3>1. ASSUME NEW s \in spaces', NEW i \in KernelIdx PROVE table'[s][i] = table[cr3][i]
      <4>1. CASE s = f
        BY <2>7, <4>1
      <4>2. CASE s \in spaces
        <5>1. table'[s] = table[s]
          BY <2>4, <2>7, <4>2
        <5>2. table[s][i] = table[cr3][i]
          BY <1>2, <4>2, RootsAlike
        <5> QED BY <5>1, <5>2
      <4> QED BY <2>2, <4>1, <4>2
    <3> QED BY <3>1 DEF KernelShared
  <2>15. \E o, d : Trees(o, d)'
    <3>1. PICK o : o = [t \in DOMAIN table \cup {f} |-> IF t = f THEN f ELSE own[t]]
      OBVIOUS
    <3>2. PICK d : d = [t \in DOMAIN table \cup {f} |-> IF t = f THEN 1 ELSE dep[t]]
      OBVIOUS
    <3>3. o \in [DOMAIN table' -> spaces'] /\ d \in [DOMAIN table' -> 1 .. Levels]
      <4>1. 1 \in 1 .. Levels
        BY Numbers
      <4> QED BY <1>1, <2>2, <2>7, <3>1, <3>2, <4>1 DEF Trees
    <3>4. o[f] = f /\ d[f] = 1 /\ \A t \in DOMAIN table : o[t] = own[t] /\ d[t] = dep[t]
      BY <2>7, <3>1, <3>2
    <3>5. \A s \in spaces' : o[s] = s /\ d[s] = 1
      BY <1>1, <2>2, <2>4, <3>4 DEF Trees
    <3>6. ASSUME NEW t \in DOMAIN table', NEW i \in Idx, Present(table'[t][i]), d[t] < Levels
          PROVE  /\ table'[t][i].frame \in DOMAIN table' /\ d[table'[t][i].frame] = d[t] + 1
                 /\ UserEntry(t, i)' => o[table'[t][i].frame] = o[t]
      <4>1. CASE t = f
        <5>1. i \in KernelIdx /\ table'[t][i] = table[cr3][i] /\ cr3 \in DOMAIN table
              /\ dep[cr3] = 1 /\ ~UserEntry(t, i)'
          BY <1>1, <1>2, <2>4, <2>7, <2>8, <3>6, <4>1 DEF Trees
        <5>2. table[cr3][i].frame \in DOMAIN table /\ dep[table[cr3][i].frame] = 2
          BY <1>1, <3>4, <3>6, <4>1, <5>1 DEF Trees
        <5> QED BY <2>7, <3>4, <4>1, <5>1, <5>2
      <4>2. CASE t # f
        <5>1. /\ t \in DOMAIN table /\ table'[t][i] = table[t][i]
              /\ (UserEntry(t, i)' <=> UserEntry(t, i)) /\ d[t] = dep[t] /\ o[t] = own[t]
          BY <2>7, <2>8, <3>4, <3>6, <4>2
        <5>2. /\ table[t][i].frame \in DOMAIN table /\ dep[table[t][i].frame] = dep[t] + 1
              /\ UserEntry(t, i) => own[table[t][i].frame] = own[t]
          BY <1>1, <3>6, <5>1 DEF Trees
        <5> QED BY <2>7, <3>4, <5>1, <5>2
      <4> QED BY <4>1, <4>2
    <3>7. Trees(o, d)'
      BY <1>2, <3>3, <3>5, <3>6 DEF Trees
    <3> QED BY <3>7
  <2> QED BY <2>9, <2>10, <2>11, <2>12, <2>13, <2>14, <2>15 DEF IInv
<1> QED BY <1>3, <1>4

\* Every step keeps the invariant.
LEMMA NextInv == IInv /\ [Next]_vars => IInv'
<1> SUFFICES ASSUME IInv, [Next]_vars PROVE IInv'
  OBVIOUS
<1>1. CASE Step
  <2>1. ASSUME Walk PROVE IInv'
    <3>1. Descend \/ Create
      BY <2>1 DEF Walk
    <3> QED BY <2>1, <3>1, DescendInv, CreateInv
  <2> QED BY <1>1, <2>1, BootMapInv, BootPageInv, BootDoneInv, PageCallInv, PageDoneInv,
             NextSegmentInv, FailInv, JumpInv, HaltInv DEF Step
<1>2. ASSUME NEW c \in {"boot", "exec", "exit"}, NotStarted(c) PROVE IInv'
  BY <1>2, NotStartedInv
<1>3. ASSUME NEW c \in {"boot", "exec", "exit"}, NEW m \in Images, NEW a \in Argvs, Start(c, m, a)
      PROVE  IInv'
  BY <1>3, StartInv
<1>4. CASE UNCHANGED vars
  <2>1. /\ table' = table /\ spaces' = spaces /\ used' = used /\ page' = page /\ map' = map
        /\ pc' = pc /\ kernel' = kernel /\ cr3' = cr3
        /\ caller' = caller /\ img' = img /\ pml4' = pml4 /\ seg' = seg /\ pg' = pg /\ buf' = buf
    BY <1>4 DEF vars, vmmVars, call
  <2>2. Typed' /\ Phases'
    BY <2>1 DEF IInv, Typed, Phases
  <2>3. Mapping' /\ LowerEmpty' /\ Apart' /\ KernelShared' /\ \E own, dep : Trees(own, dep)'
    BY <2>1, StillInv
  <2> QED BY <2>2, <2>3 DEF IInv
<1> QED BY <1>1, <1>2, <1>3, <1>4 DEF Next

--------------------------------------------------------------------------------
(* Theorems.                                                                    *)

\* The invariant holds of exec in every state.
THEOREM ExecInvariant == Spec => []IInv
<1>1. Init => IInv
  BY InitInv
<1>2. IInv /\ [Next]_vars => IInv'
  BY NextInv
<1> QED BY <1>1, <1>2, PTL DEF Spec

\* It gives the types and OneUse.
LEMMA InvOneUse == IInv => OneUse
<1> SUFFICES ASSUME IInv PROVE OneUse
  OBVIOUS
<1>1. TypeOK
  <2>1. \A t \in DOMAIN table : table[t] \in [Idx -> [frame : Nat, flags : SUBSET Bit]]
    BY DEF IInv, Typed, EntryRec
  <2> QED BY <2>1 DEF IInv, Typed, Phases, TypeOK
<1>2. \A e \in UserEntries : e[1] \in DOMAIN table /\ e[2] \in Idx /\ UserEntry(e[1], e[2])
                             /\ e = <<e[1], e[2]>> /\ To(e) = table[e[1]][e[2]].frame
  BY DEF UserEntries, UserEntry, To
<1>3. kernel # {} => \A e \in UserEntries : To(e) \in used \ (kernel \cup spaces)
  BY <1>2 DEF IInv, Apart
<1>4. kernel # {} => \A e, d \in UserEntries : To(e) = To(d) => e = d
  <2> SUFFICES ASSUME kernel # {}, NEW e \in UserEntries, NEW d \in UserEntries, To(e) = To(d)
               PROVE  e = d
    OBVIOUS
  <2>1. e[1] = d[1] /\ e[2] = d[2]
    BY <1>2 DEF IInv, Apart
  <2> QED BY <1>2, <2>1
<1> QED BY <1>1, <1>3, <1>4 DEF OneUse

\* No frame serves twice: OneUse, with the types, always holds.
THEOREM FramesServeOnce == Spec => []OneUse
<1>1. IInv => OneUse
  BY InvOneUse
<1> QED BY <1>1, ExecInvariant, PTL

\* All spaces have the kernel half that boot made.
THEOREM KernelHalfShared == Spec => []KernelShared
<1>1. IInv => KernelShared
  BY DEF IInv
<1> QED BY <1>1, ExecInvariant, PTL

--------------------------------------------------------------------------------
(* What a program sees.                                                         *)

\* What the walk from root r to a page of a program has found after k levels: nothing,
\* a table of the root's own or, at the end, a frame that a program's entry leads to.
Stage(own, dep, r, k) ==
  IF k < Levels
  THEN {NONE} \cup {t \in DOMAIN table : own[t] = r /\ dep[t] = k + 1 /\ (t \in kernel => t = r)}
  ELSE {NONE} \cup {f \in Nat : \E t \in DOMAIN table, i \in Idx :
                                  UserEntry(t, i) /\ f = table[t][i].frame}

\* An entry on a program's way is an entry of its own, and leads on to a table of its
\* own or, at the last level, to its page.
LEMMA UserHop ==
  ASSUME IInv, NEW own, NEW dep, Trees(own, dep), NEW r \in spaces, kernel # {},
         NEW p \in UserPages, NEW k \in 1 .. Levels, NEW x \in Stage(own, dep, r, k - 1), x # NONE
  PROVE  /\ x \in DOMAIN table /\ own[x] = r /\ dep[x] = k /\ Ix(p, k) \in Idx
         /\ Present(table[x][Ix(p, k)]) =>
              UserEntry(x, Ix(p, k)) /\ table[x][Ix(p, k)].frame \in Stage(own, dep, r, k)
<1>1. k - 1 < Levels /\ (k - 1) + 1 = k
  BY Numbers
<1>2. x \in DOMAIN table /\ own[x] = r /\ dep[x] = k /\ (x \in kernel => x = r)
  BY <1>1 DEF Stage
<1>3. PICK i : i = Ix(p, k)
  OBVIOUS
<1>4. i \in Idx /\ (k = 1 => i \notin KernelIdx)
  BY <1>3, IxFacts
<1>5. ASSUME Present(table[x][i])
      PROVE  UserEntry(x, i) /\ table[x][i].frame \in Stage(own, dep, r, k)
  <2>1. x \in spaces => x = r /\ k = 1
    BY <1>2 DEF Trees
  <2>2. x \notin kernel
    BY <1>2, <1>4, <1>5, <2>1 DEF IInv, LowerEmpty
  <2>3. UserEntry(x, i)
    BY <1>2, <1>4, <1>5, <2>1, <2>2 DEF UserEntry
  <2>4. table[x][i].frame \notin kernel
    BY <1>2, <1>4, <2>3 DEF IInv, Apart
  <2>5. CASE k < Levels
    <3>1. /\ table[x][i].frame \in DOMAIN table /\ dep[table[x][i].frame] = k + 1
          /\ own[table[x][i].frame] = r
      BY <1>2, <1>4, <1>5, <2>3, <2>5 DEF Trees
    <3> QED BY <2>3, <2>4, <2>5, <3>1 DEF Stage
  <2>6. CASE ~(k < Levels)
    <3>1. table[x][i] \in EntryRec
      BY <1>2, <1>4 DEF IInv, Typed
    <3>2. table[x][i].frame \in Nat
      BY <3>1 DEF EntryRec
    <3> QED BY <1>2, <1>4, <2>3, <2>6, <3>2 DEF Stage
  <2> QED BY <2>5, <2>6
<1> QED BY <1>2, <1>3, <1>4, <1>5

\* The walk goes so, also in tables tab that are as these are wherever they are of the
\* root.
LEMMA UserWalk ==
  ASSUME IInv, NEW own, NEW dep, Trees(own, dep), NEW r \in spaces, kernel # {},
         NEW p \in UserPages, NEW tab, \A t \in DOMAIN table : own[t] = r => tab[t] = table[t]
  PROVE  /\ WalkIn(tab, r, p)[0] = r
         /\ \A k \in 1 .. Levels : WalkIn(tab, r, p)[k] = Hop(tab, WalkIn(tab, r, p)[k - 1], p, k)
         /\ \A k \in 0 .. Levels : WalkIn(tab, r, p)[k] \in Stage(own, dep, r, k)
<1>1. PICK A : A = [k \in 0 .. Levels |-> Stage(own, dep, r, k)]
  OBVIOUS
<1>2. DOMAIN table \subseteq Nat /\ NONE \notin DOMAIN table /\ NONE \in Nat
      /\ r \in DOMAIN table
  BY Numbers DEF IInv, Typed, NONE
<1>3. \A t \in DOMAIN table, i \in Idx : table[t][i].frame \in Nat
  <2>1. \A t \in DOMAIN table, i \in Idx : table[t][i] \in EntryRec
    BY DEF IInv, Typed
  <2> QED BY <2>1 DEF EntryRec
<1>4. A \in [0 .. Levels -> SUBSET Nat]
  <2>1. \A k \in 0 .. Levels : Stage(own, dep, r, k) \subseteq Nat
    BY <1>2, <1>3 DEF Stage
  <2> QED BY <1>1, <2>1
<1>5. r \in A[0]
  BY <1>1, <1>2, Numbers DEF Trees, Stage
<1>6. ASSUME NEW k \in 1 .. Levels, NEW x \in A[k - 1]
      PROVE  Hop(tab, x, p, k) \in A[k]
  <2>1. k - 1 \in 0 .. Levels /\ k \in 0 .. Levels
    BY Numbers
  <2>2. NONE \in A[k]
    BY <1>1, <2>1 DEF Stage
  <2>3. CASE x = NONE
    BY <2>2, <2>3 DEF Hop
  <2>4. CASE x # NONE
    <3>1. x \in Stage(own, dep, r, k - 1)
      BY <1>1, <1>6, <2>1
    <3>2. x \in DOMAIN table /\ own[x] = r
          /\ (Present(table[x][Ix(p, k)]) => table[x][Ix(p, k)].frame \in Stage(own, dep, r, k))
      BY <2>4, <3>1, UserHop
    <3>3. tab[x] = table[x]
      BY <3>2
    <3> QED BY <1>1, <2>1, <2>2, <2>4, <3>2, <3>3 DEF Hop
  <2> QED BY <2>3, <2>4
<1>7. /\ WalkIn(tab, r, p)[0] = r
      /\ \A k \in 1 .. Levels : WalkIn(tab, r, p)[k] = Hop(tab, WalkIn(tab, r, p)[k - 1], p, k)
      /\ \A k \in 0 .. Levels : WalkIn(tab, r, p)[k] \in A[k]
  BY <1>4, <1>5, <1>6, WalkFacts
<1> QED BY <1>1, <1>7

\* So it goes where it went.
LEMMA SameWalk ==
  ASSUME IInv, NEW own, NEW dep, Trees(own, dep), NEW r \in spaces, kernel # {},
         NEW p \in UserPages, NEW tab, \A t \in DOMAIN table : own[t] = r => tab[t] = table[t]
  PROVE  \A k \in 0 .. Levels : /\ WalkIn(tab, r, p)[k] = WalkIn(table, r, p)[k]
                                /\ WalkIn(table, r, p)[k] \in Stage(own, dep, r, k)
<1>1. PICK v : v = WalkIn(tab, r, p)
  OBVIOUS
<1>2. PICK w : w = WalkIn(table, r, p)
  OBVIOUS
<1>3. /\ v[0] = r /\ \A k \in 1 .. Levels : v[k] = Hop(tab, v[k - 1], p, k)
      /\ \A k \in 0 .. Levels : v[k] \in Stage(own, dep, r, k)
  BY <1>1, UserWalk
<1>4. /\ w[0] = r /\ \A k \in 1 .. Levels : w[k] = Hop(table, w[k - 1], p, k)
      /\ \A k \in 0 .. Levels : w[k] \in Stage(own, dep, r, k)
  BY <1>2, UserWalk
<1> DEFINE T == {k \in 0 .. Levels : v[k] = w[k]}
<1>5. 0 \in T
  BY <1>3, <1>4, Numbers
<1>6. ASSUME NEW k \in 1 .. Levels, k - 1 \in T PROVE k \in T
  <2>1. k - 1 \in 0 .. Levels /\ k \in 0 .. Levels /\ k - 1 < Levels
    BY Numbers
  <2>2. v[k - 1] = w[k - 1] /\ v[k - 1] \in Stage(own, dep, r, k - 1)
    BY <1>3, <1>6, <2>1
  <2>3. v[k - 1] # NONE => tab[v[k - 1]] = table[v[k - 1]]
    BY <2>1, <2>2 DEF Stage
  <2>4. Hop(tab, v[k - 1], p, k) = Hop(table, v[k - 1], p, k)
    BY <2>3 DEF Hop
  <2> QED BY <1>3, <1>4, <2>1, <2>2, <2>4
<1> HIDE DEF T
<1>7. \A k \in 0 .. Levels : k \in T
  BY <1>5, <1>6, Numbers, UpTo
<1>8. \A k \in 0 .. Levels : v[k] = w[k]
  BY <1>7 DEF T
<1> QED BY <1>1, <1>2, <1>4, <1>8

\* What a program finds at a page is the frame at the end of the walk.
SeenByWalk ==
  \A p : Seen(cr3, p) = IF WalkIn(table, cr3, p)[Levels] \in DOMAIN page
                        THEN page[WalkIn(table, cr3, p)[Levels]] ELSE <<>>

LEMMA SeenIs == SeenByWalk
<1>1. \A p : Translate(cr3, p) = WalkIn(table, cr3, p)[Levels]
  BY DEF Translate, Reach, WalkIn
<1> QED BY <1>1 DEF Seen, SeenByWalk

\* A step writes no table of the running program and no page its entries lead to.
LEMMA NotTouched ==
  ASSUME IInv, [Next]_vars, NEW own, NEW dep, Trees(own, dep), cr3' = cr3, kernel # {}
  PROVE  /\ \A t \in DOMAIN table : own[t] = cr3 => table'[t] = table[t]
         /\ \A t \in DOMAIN table, i \in Idx : UserEntry(t, i) =>
              /\ (table[t][i].frame \in DOMAIN page' <=> table[t][i].frame \in DOMAIN page)
              /\ table[t][i].frame \in DOMAIN page =>
                   page'[table[t][i].frame] = page[table[t][i].frame]
<1>1. pc # "boot" /\ cr3 \in spaces /\ DOMAIN table \subseteq used
  BY DEF IInv, Typed, Phases
<1>2. CASE table' = table /\ page' = page
  BY <1>2
<1>3. CASE Walk /\ Create
  <2>1. pc = "pages" /\ page' = page /\ map # NoMap
    BY <1>1, <1>3 DEF Walk, Create
  <2>2. own[map.at] = pml4 /\ pml4 # cr3
    BY <2>1 DEF Trees, IInv, Phases
  <2>3. Frame \notin used
    BY <1>3, FrameFacts DEF Create
  <2>4. \A t \in DOMAIN table : t # map.at => table'[t] = table[t]
    BY <1>1, <1>3, <2>3 DEF Create
  <2> QED BY <2>1, <2>2, <2>4
<1>4. CASE PageDone
  <2>1. pc = "pages" /\ map # NoMap
    BY <1>4 DEF PageDone, SetEntry
  <2>2. own[map.at] = pml4 /\ pml4 # cr3
    BY <2>1 DEF Trees, IInv, Phases
  <2>3. \A t \in DOMAIN table : t # map.at => table'[t] = table[t]
    BY <1>4 DEF PageDone, SetEntry
  <2>4. \A t \in DOMAIN table, i \in Idx : UserEntry(t, i) => table[t][i].frame # map.frame
    BY <2>1 DEF IInv, Mapping
  <2>5. \A x : x # map.frame => (x \in DOMAIN page' <=> x \in DOMAIN page)
    BY <1>4 DEF PageDone
  <2>6. \A x \in DOMAIN page : x # map.frame => page'[x] = page[x]
    BY <1>4 DEF PageDone
  <2> QED BY <2>2, <2>3, <2>4, <2>5, <2>6
<1>5. ASSUME NEW c \in {"boot", "exec", "exit"}, NEW m \in Images, NEW a \in Argvs, Start(c, m, a)
      PROVE  page' = page /\ \A t \in DOMAIN table : table'[t] = table[t]
  <2>1. page' = page
    BY <1>5 DEF Start
  <2>2. CASE ~HasFrame
    BY <1>5, <2>1, <2>2 DEF Start
  <2>3. CASE HasFrame
    <3>1. Frame \notin used
      BY <2>3, FrameFacts
    <3>2. \A t \in DOMAIN table : t # Frame /\ table'[t] = table[t]
      BY <1>1, <1>5, <2>3, <3>1 DEF Start, NewSpace
    <3> QED BY <2>1, <3>2
  <2> QED BY <2>2, <2>3
<1>6. ~Jump
  <2>1. Jump => pc = "pages" /\ cr3' = pml4
    BY DEF Jump
  <2> QED BY <2>1 DEF IInv, Phases
<1>7. ~BootMap /\ ~BootPage /\ ~BootDone
  BY <1>1 DEF BootMap, BootPage, BootDone
<1>8. ASSUME PageCall \/ NextSegment \/ Fail \/ (Walk /\ Descend) \/ Halt \/ UNCHANGED vars
             \/ \E c \in {"boot", "exec", "exit"} : NotStarted(c)
      PROVE  table' = table /\ page' = page
  BY <1>8 DEF PageCall, NextSegment, Fail, Walk, Descend, Halt, NoTable, NotStarted, vars, vmmVars
<1>9. CASE Step
  <2>1. Walk => (Walk /\ Descend) \/ (Walk /\ Create)
    BY DEF Walk
  <2> QED BY <1>2, <1>3, <1>4, <1>6, <1>7, <1>8, <1>9, <2>1 DEF Step
<1> QED BY <1>2, <1>5, <1>8, <1>9 DEF Next

\* Until vmm_switch, and when the exec fails, the running program's memory is as it
\* was, page by page: CallerUntouched, for every step.
THEOREM CallerUntouchedAlways == Spec => CallerUntouched
<1>1. SeenByWalk'
  BY SeenIs, PTL
<1>2. ASSUME IInv, [Next]_vars
      PROVE  [cr3' = cr3 /\ cr3 # NONE => \A p \in UserPages : Seen(cr3, p)' = Seen(cr3, p)]_vars
  <2> SUFFICES ASSUME cr3' = cr3, cr3 # NONE, NEW p \in UserPages
               PROVE  Seen(cr3, p)' = Seen(cr3, p)
    OBVIOUS
  <2>1. PICK own, dep : Trees(own, dep)
    BY <1>2 DEF IInv
  <2>2. kernel # {} /\ cr3 \in spaces
    BY <1>2 DEF IInv, Phases
  <2>3. /\ \A t \in DOMAIN table : own[t] = cr3 => table'[t] = table[t]
        /\ \A t \in DOMAIN table, i \in Idx : UserEntry(t, i) =>
             /\ (table[t][i].frame \in DOMAIN page' <=> table[t][i].frame \in DOMAIN page)
             /\ table[t][i].frame \in DOMAIN page =>
                  page'[table[t][i].frame] = page[table[t][i].frame]
    BY <1>2, <2>1, <2>2, NotTouched
  <2>4. PICK r : r = cr3
    OBVIOUS
  <2>5. PICK x : x = WalkIn(table, r, p)[Levels]
    OBVIOUS
  <2>6. WalkIn(table', r, p)[Levels] = x /\ x \in Stage(own, dep, r, Levels)
    BY <1>2, <2>1, <2>2, <2>3, <2>4, <2>5, SameWalk, Numbers
  <2>7. NONE \notin DOMAIN page /\ NONE \notin DOMAIN page'
    <3>1. IInv'
      BY <1>2, NextInv
    <3>2. DOMAIN page \subseteq Frames /\ DOMAIN page' \subseteq Frames
      BY <1>2, <3>1 DEF IInv, Typed
    <3> QED BY <3>2, Numbers
  <2>8. \/ x = NONE
        \/ (x \in DOMAIN page' <=> x \in DOMAIN page) /\ (x \in DOMAIN page => page'[x] = page[x])
    BY <2>3, <2>6, Numbers DEF Stage
  <2>9. Seen(cr3, p) = IF x \in DOMAIN page THEN page[x] ELSE <<>>
    BY <2>4, <2>5, SeenIs DEF SeenByWalk
  <2>10. Seen(cr3, p)' = IF x \in DOMAIN page' THEN page'[x] ELSE <<>>
    <3>1. cr3' = r
      BY <2>4
    <3> QED BY <1>1, <2>6, <3>1 DEF SeenByWalk
  <2> QED BY <2>7, <2>8, <2>9, <2>10
<1>3. IInv /\ [Next]_vars =>
        [cr3' = cr3 /\ cr3 # NONE => \A p \in UserPages : Seen(cr3, p)' = Seen(cr3, p)]_vars
  BY <1>2
<1> QED BY <1>3, ExecInvariant, PTL DEF Spec, CallerUntouched

--------------------------------------------------------------------------------
(* The pages of a program lie apart.                                            *)

\* What a quotient and a remainder are.
LEMMA DivFacts ==
  ASSUME NEW x \in Nat, NEW d \in Nat \ {0}
  PROVE  /\ x \div d \in Nat /\ (x \div d) * d <= x /\ x < (x \div d) * d + d
         /\ x = d * (x \div d) + (x % d) /\ x % d \in 0 .. (d - 1)
OBVIOUS

\* A quotient and its remainder give the number, whatever multiple it is taken by.
LEMMA DivStep ==
  ASSUME NEW p \in Nat, NEW q \in Nat, NEW s \in Nat \ {0}, NEW d \in Nat \ {0},
         p \div (d * s) = q \div (d * s), (p \div s) % d = (q \div s) % d
  PROVE  p \div s = q \div s
<1>1. ASSUME NEW x \in Nat PROVE x \div s = d * (x \div (d * s)) + ((x \div s) % d)
  <2> DEFINE a == x \div s
             b == x \div (d * s)
             c == a \div d
  <2>1. a \in Nat /\ a * s <= x /\ x < a * s + s
    OBVIOUS
  <2>2. d * s \in Nat \ {0}
    OBVIOUS
  <2>3. b \in Nat /\ b * (d * s) <= x /\ x < b * (d * s) + d * s
    <3> DEFINE m == d * s
    <3>1. m \in Nat \ {0}
      BY <2>2
    <3> HIDE DEF m
    <3>2. x \div m \in Nat /\ (x \div m) * m <= x /\ x < (x \div m) * m + m
      BY <3>1, DivFacts
    <3> QED BY <3>2 DEF m
  <2> HIDE DEF a, b
  <2>4. c \in Nat /\ a = d * c + (a % d) /\ a % d \in 0 .. (d - 1)
    BY <2>1, DivFacts
  <2> HIDE DEF c
  <2>5. b * d <= a
    <3>1. SUFFICES ASSUME a + 1 <= b * d PROVE FALSE
      BY <2>1, <2>3
    <3>2. (a + 1) * s <= (b * d) * s
      BY <2>1, <2>3, <3>1
    <3>3. (a + 1) * s = a * s + s /\ (b * d) * s = b * (d * s)
      BY <2>1, <2>3
    <3> QED BY <2>1, <2>2, <2>3, <3>2, <3>3
  <2>6. a < b * d + d
    <3>1. SUFFICES ASSUME b * d + d <= a PROVE FALSE
      BY <2>1, <2>3
    <3>2. (b * d + d) * s <= a * s
      BY <2>1, <2>3, <3>1
    <3>3. (b * d + d) * s = b * (d * s) + d * s
      BY <2>3
    <3> QED BY <2>1, <2>2, <2>3, <3>2, <3>3
  <2>7. b = c
    <3>1. d * c <= a /\ a < d * c + d
      BY <2>1, <2>4
    <3>2. b <= c
      <4>1. SUFFICES ASSUME c + 1 <= b PROVE FALSE
        BY <2>3, <2>4
      <4>2. (c + 1) * d <= b * d
        BY <2>3, <2>4, <4>1
      <4>3. (c + 1) * d = d * c + d
        BY <2>4
      <4> QED BY <2>1, <2>3, <2>4, <2>5, <3>1, <4>2, <4>3
    <3>3. c <= b
      <4>1. SUFFICES ASSUME b + 1 <= c PROVE FALSE
        BY <2>3, <2>4
      <4>2. (b + 1) * d <= c * d
        BY <2>3, <2>4, <4>1
      <4>3. (b + 1) * d = b * d + d /\ c * d = d * c
        BY <2>3, <2>4
      <4> QED BY <2>1, <2>3, <2>4, <2>6, <3>1, <4>2, <4>3
    <3> QED BY <2>3, <2>4, <3>2, <3>3
  <2> QED BY <2>4, <2>7 DEF a, b
<1> QED BY <1>1

\* A page of a program is known by its indices.
LEMMA PageUnique ==
  ASSUME NEW p \in UserPages, NEW q \in UserPages, \A l \in 1 .. Levels : Ix(p, l) = Ix(q, l)
  PROVE  p = q
<1> DEFINE D(x, k) == x \div Span[Levels - 1 - k]
           T == {k \in 0 .. (Levels - 1) : D(p, k) = D(q, k)}
<1>1. Levels \in Nat \ {0} /\ NIdx \in Nat \ {0} /\ p \in Nat /\ q \in Nat
  BY Numbers, IxFacts
<1>2. 0 \in T
  <2> DEFINE s == Span[Levels - 1]
             half == NIdx \div 2
  <2>1. Levels - 1 \in 0 .. Levels /\ half \in Nat /\ half <= NIdx
    BY <1>1
  <2>2. s \in Nat \ {0}
    BY <2>1, SpanFacts
  <2>3. ASSUME NEW x \in UserPages PROVE x \div s = Ix(x, 1)
    <3>1. x \in Nat /\ 0 * s <= x /\ x < half * s
      <4>1. UserEnd = half * s
        BY DEF UserEnd
      <4>2. x \in Nat /\ x < half * s
        <5> HIDE DEF half, s
        <5>1. half * s \in Nat
          BY <2>1, <2>2
        <5> QED BY <2>3, <4>1, <5>1 DEF UserPages
      <4> HIDE DEF half, s
      <4> QED BY <2>2, <4>2
    <3> HIDE DEF half, s
    <3>2. x \div s \in 0 .. (half - 1)
      BY <2>1, <2>2, <3>1, DivBetween
    <3>3. (x \div s) % NIdx = x \div s
      BY <1>1, <2>1, <3>2
    <3> QED BY <3>3 DEF Ix, s
  <2>4. Levels - 1 - 0 = Levels - 1 /\ 0 \in 0 .. (Levels - 1) /\ 1 \in 1 .. Levels
    BY <1>1
  <2>5. p \div s = q \div s
    BY <2>3, <2>4
  <2> QED BY <2>4, <2>5
<1>3. ASSUME NEW k \in 1 .. (Levels - 1), k - 1 \in T PROVE k \in T
  <2> DEFINE s == Span[Levels - 1 - k]
  <2>1. /\ Levels - 1 - k \in 0 .. Levels /\ Levels - 1 - (k - 1) \in 1 .. Levels
        /\ (Levels - 1 - (k - 1)) - 1 = Levels - 1 - k
        /\ k + 1 \in 1 .. Levels /\ Levels - (k + 1) = Levels - 1 - k /\ k \in 0 .. (Levels - 1)
    BY <1>1
  <2>2. s \in Nat \ {0} /\ Span[Levels - 1 - (k - 1)] = NIdx * s
    BY <2>1, SpanFacts
  <2>3. p \div (NIdx * s) = q \div (NIdx * s)
    BY <1>3, <2>2
  <2>4. Ix(p, k + 1) = (p \div s) % NIdx /\ Ix(q, k + 1) = (q \div s) % NIdx
    BY <2>1 DEF Ix
  <2>5. (p \div s) % NIdx = (q \div s) % NIdx
    BY <2>1, <2>4
  <2> HIDE DEF s
  <2>6. p \div s = q \div s
    BY <1>1, <2>2, <2>3, <2>5, DivStep
  <2> QED BY <2>1, <2>6 DEF s
<1>4. \A k \in 0 .. (Levels - 1) : k \in T
  <2> HIDE DEF T
  <2> QED BY <1>1, <1>2, <1>3, UpTo
<1>5. Levels - 1 \in 0 .. (Levels - 1) /\ Levels - 1 - (Levels - 1) = 0
  BY <1>1
<1>6. p \div Span[0] = q \div Span[0]
  BY <1>4, <1>5
<1> QED BY <1>1, <1>6, SpanFacts

--------------------------------------------------------------------------------
(* The entries on the way to a page.                                            *)

\* The entry that leads on from table x towards page q, if there is one.
Absent == Entry(NONE, {})
EntryAt(tab, x, q, k) ==
  IF x # NONE /\ Present(tab[x][Ix(q, k)]) THEN tab[x][Ix(q, k)] ELSE Absent
On(tab, r, q, k) == EntryAt(tab, WalkIn(tab, r, q)[k - 1], q, k)
Leaf(tab, r, q)  == On(tab, r, q, Levels)

\* The walk goes by those entries, from any root to any page of a program.
WalkGoes ==
  IInv /\ kernel # {} =>
    \A r \in spaces, q \in UserPages :
      /\ WalkIn(table, r, q)[0] = r
      /\ \A k \in 1 .. Levels : WalkIn(table, r, q)[k] = On(table, r, q, k).frame

LEMMA HopEntry ==
  ASSUME NEW tab, NEW x, NEW q, NEW k
  PROVE  Hop(tab, x, q, k) = EntryAt(tab, x, q, k).frame
BY DEF Hop, EntryAt, Absent, Entry

LEMMA WalkGoesOn == WalkGoes
<1> SUFFICES ASSUME IInv, kernel # {}, NEW r \in spaces, NEW q \in UserPages
             PROVE  /\ WalkIn(table, r, q)[0] = r
                    /\ \A k \in 1 .. Levels : WalkIn(table, r, q)[k] = On(table, r, q, k).frame
  BY DEF WalkGoes
<1>1. PICK own, dep : Trees(own, dep)
  BY DEF IInv
<1>2. /\ WalkIn(table, r, q)[0] = r
      /\ \A k \in 1 .. Levels :
           WalkIn(table, r, q)[k] = Hop(table, WalkIn(table, r, q)[k - 1], q, k)
  BY <1>1, UserWalk
<1> QED BY <1>2, HopEntry DEF On

\* Two walks that meet have come the same way: the tables of a space are a tree.
LEMMA PathUnique ==
  ASSUME IInv, kernel # {}, NEW r \in spaces, NEW p \in UserPages, NEW q \in UserPages,
         NEW k \in 0 .. Levels,
         WalkIn(table, r, p)[k] = WalkIn(table, r, q)[k], WalkIn(table, r, p)[k] # NONE
  PROVE  \A l \in 1 .. k : Ix(p, l) = Ix(q, l)
<1>1. PICK own, dep : Trees(own, dep)
  BY DEF IInv
<1>2. PICK v : v = WalkIn(table, r, p)
  OBVIOUS
<1>3. PICK w : w = WalkIn(table, r, q)
  OBVIOUS
<1>4. /\ v[0] = r /\ \A l \in 1 .. Levels : v[l] = Hop(table, v[l - 1], p, l)
      /\ \A l \in 0 .. Levels : v[l] \in Stage(own, dep, r, l)
  BY <1>1, <1>2, UserWalk
<1>5. /\ w[0] = r /\ \A l \in 1 .. Levels : w[l] = Hop(table, w[l - 1], q, l)
      /\ \A l \in 0 .. Levels : w[l] \in Stage(own, dep, r, l)
  BY <1>1, <1>3, UserWalk
<1> DEFINE T == {l \in 0 .. Levels : v[l] = w[l] /\ v[l] # NONE =>
                                       \A j \in 1 .. l : Ix(p, j) = Ix(q, j)}
<1>6. 0 \in T
  BY Numbers
<1>7. ASSUME NEW l \in 1 .. Levels, l - 1 \in T PROVE l \in T
  <2>1. l \in 0 .. Levels /\ l - 1 \in 0 .. Levels /\ \A j \in 1 .. l : j \in 1 .. (l - 1) \/ j = l
    BY Numbers
  <2> SUFFICES ASSUME v[l] = w[l], v[l] # NONE PROVE \A j \in 1 .. l : Ix(p, j) = Ix(q, j)
    BY <2>1
  <2>2. /\ v[l - 1] # NONE /\ Present(table[v[l - 1]][Ix(p, l)])
        /\ v[l] = table[v[l - 1]][Ix(p, l)].frame
    BY <1>4 DEF Hop
  <2>3. /\ w[l - 1] # NONE /\ Present(table[w[l - 1]][Ix(q, l)])
        /\ w[l] = table[w[l - 1]][Ix(q, l)].frame
    BY <1>5 DEF Hop
  <2>4. v[l - 1] \in DOMAIN table /\ Ix(p, l) \in Idx /\ UserEntry(v[l - 1], Ix(p, l))
    BY <1>1, <1>4, <2>1, <2>2, UserHop
  <2>5. w[l - 1] \in DOMAIN table /\ Ix(q, l) \in Idx /\ UserEntry(w[l - 1], Ix(q, l))
    BY <1>1, <1>5, <2>1, <2>3, UserHop
  <2>6. v[l - 1] = w[l - 1] /\ Ix(p, l) = Ix(q, l)
    BY <2>2, <2>3, <2>4, <2>5 DEF IInv, Apart
  <2> QED BY <1>7, <2>1, <2>2, <2>6
<1> HIDE DEF T
<1>8. \A l \in 0 .. Levels : l \in T
  BY <1>6, <1>7, Numbers, UpTo
<1> QED BY <1>2, <1>3, <1>8 DEF T

\* A page whose table at the last level is that of p and has it at p's index is p.
LEMMA SamePlace ==
  ASSUME IInv, kernel # {}, NEW r \in spaces, NEW p \in UserPages, NEW q \in UserPages,
         WalkIn(table, r, p)[Levels - 1] = WalkIn(table, r, q)[Levels - 1],
         WalkIn(table, r, p)[Levels - 1] # NONE, Ix(p, Levels) = Ix(q, Levels)
  PROVE  p = q
<1>1. Levels - 1 \in 0 .. Levels /\ \A l \in 1 .. Levels : l \in 1 .. (Levels - 1) \/ l = Levels
  BY Numbers
<1>2. \A l \in 1 .. (Levels - 1) : Ix(p, l) = Ix(q, l)
  BY <1>1, PathUnique
<1>3. \A l \in 1 .. Levels : Ix(p, l) = Ix(q, l)
  BY <1>1, <1>2
<1> QED BY <1>3, PageUnique

\* The exec under way stands where the walk to its page has got.
Stands == map # NoMap => map.pg \in UserPages /\ WalkIn(table, pml4, map.pg)[map.lvl - 1] = map.at

\* A new table adds one entry above the last level, where there was none, and the walk
\* goes on from it.
LEMMA CreateOn ==
  IInv /\ [Next]_vars /\ Walk /\ Create /\ pc = "pages" /\ Stands =>
    /\ \A q \in UserPages, k \in 1 .. Levels :
         \/ On(table', pml4, q, k) = On(table, pml4, q, k)
         \/ /\ k = map.lvl /\ On(table, pml4, q, k) = Absent
            /\ On(table', pml4, q, k) = Entry(Frame, TableFlags)
    /\ Stands'
<1>1. WalkGoes'
  BY WalkGoesOn, PTL
<1> SUFFICES ASSUME IInv, [Next]_vars, Walk, Create, pc = "pages", Stands
             PROVE  /\ \A q \in UserPages, k \in 1 .. Levels :
                         \/ On(table', pml4, q, k) = On(table, pml4, q, k)
                         \/ /\ k = map.lvl /\ On(table, pml4, q, k) = Absent
                            /\ On(table', pml4, q, k) = Entry(Frame, TableFlags)
                    /\ Stands'
  OBVIOUS
<1>2. PICK own, dep : Trees(own, dep)
  BY DEF IInv
<1>3. PICK tab : tab = table'
  OBVIOUS
<1>4. PICK f : f = Frame
  OBVIOUS
<1>5. PICK e : e = Entry(f, TableFlags)
  OBVIOUS
<1>6. PICK at : at = map.at
  OBVIOUS
<1>7. PICK ix : ix = Ix(map.pg, map.lvl)
  OBVIOUS
<1>8. PICK r : r = pml4
  OBVIOUS
<1>9. /\ map # NoMap /\ map.lvl < Levels /\ ~Present(table[at][ix]) /\ Down(f)
      /\ pml4' = r /\ kernel' = kernel /\ spaces' = spaces
  BY <1>4, <1>6, <1>7, <1>8 DEF Walk, Create, call, Slot
<1>10. r \in spaces /\ kernel # {} /\ DOMAIN table \subseteq used
       /\ table \in [DOMAIN table -> [Idx -> EntryRec]]
  BY <1>8 DEF IInv, Phases, Typed
<1>11. at \in DOMAIN table /\ ix \in Idx /\ map.lvl \in 1 .. Levels /\ map \in MapRec
       /\ dep[at] = map.lvl
  BY <1>2, <1>6, <1>7, <1>9, SlotFacts DEF Trees
<1>12. f \notin used /\ f # NONE
  BY <1>4, FrameFacts, Numbers DEF Create
<1>13. /\ tab[f] = Zeroed
       /\ \A t \in DOMAIN table, i \in Idx : tab[t][i] = IF t = at /\ i = ix THEN e ELSE table[t][i]
  <2>1. tab = [t \in DOMAIN table \cup {f} |->
                 IF t = f THEN Zeroed
                 ELSE IF t = at THEN [table[t] EXCEPT ![ix] = e] ELSE table[t]]
    BY <1>3, <1>4, <1>5, <1>6, <1>7 DEF Create
  <2>2. \A t \in DOMAIN table : t # f /\ table[t] \in [Idx -> EntryRec]
    BY <1>10, <1>12
  <2> QED BY <1>11, <2>1, <2>2
<1>14. Present(e) /\ e.frame = f
  BY <1>5 DEF Present, TableFlags, Entry
<1>15. IInv'
  BY NextInv
<1>16. \A q \in UserPages : /\ WalkIn(tab, r, q)[0] = r
                            /\ \A k \in 1 .. Levels : WalkIn(tab, r, q)[k] = On(tab, r, q, k).frame
  BY <1>1, <1>3, <1>9, <1>10, <1>15 DEF WalkGoes
<1>17. \A q \in UserPages : /\ WalkIn(table, r, q)[0] = r
                            /\ \A k \in 1 .. Levels :
                                 WalkIn(table, r, q)[k] = On(table, r, q, k).frame
  BY <1>10, WalkGoesOn DEF WalkGoes
<1> DEFINE Both(q, k) == \/ WalkIn(tab, r, q)[k] = WalkIn(table, r, q)[k]
                         \/ /\ k = map.lvl /\ WalkIn(table, r, q)[k] = NONE
                            /\ WalkIn(tab, r, q)[k] = f
           Add(q, k)  == \/ On(tab, r, q, k) = On(table, r, q, k)
                         \/ k = map.lvl /\ On(table, r, q, k) = Absent /\ On(tab, r, q, k) = e
<1>18. ASSUME NEW q \in UserPages, NEW k \in 1 .. Levels, Both(q, k - 1)
       PROVE  Add(q, k)
  <2>1. PICK x : x = WalkIn(table, r, q)[k - 1]
    OBVIOUS
  <2>2. k - 1 \in 0 .. Levels /\ Ix(q, k) \in Idx
    BY Numbers, IxFacts
  <2>3. CASE WalkIn(tab, r, q)[k - 1] = x
    <3>1. CASE x = NONE
      BY <2>1, <2>3, <3>1 DEF On, EntryAt
    <3>2. CASE x # NONE
      <4>1. x \in Stage(own, dep, r, k - 1)
        BY <1>2, <1>10, <2>1, <2>2, UserWalk
      <4>2. x \in DOMAIN table /\ dep[x] = k
        BY <1>2, <1>10, <3>2, <4>1, UserHop
      <4>3. tab[x][Ix(q, k)] = IF x = at /\ Ix(q, k) = ix THEN e ELSE table[x][Ix(q, k)]
        BY <1>13, <2>2, <4>2
      <4>4. On(table, r, q, k) = EntryAt(table, x, q, k) /\ On(tab, r, q, k) = EntryAt(tab, x, q, k)
        BY <2>1, <2>3 DEF On
      <4>5. CASE x = at /\ Ix(q, k) = ix
        BY <1>9, <1>11, <1>14, <3>2, <4>2, <4>3, <4>4, <4>5 DEF EntryAt
      <4>6. CASE ~(x = at /\ Ix(q, k) = ix)
        BY <4>3, <4>4, <4>6 DEF EntryAt
      <4> QED BY <4>5, <4>6
    <3> QED BY <3>1, <3>2
  <2>4. CASE x = NONE /\ WalkIn(tab, r, q)[k - 1] = f
    <3>1. ~Present(tab[f][Ix(q, k)])
      BY <1>13, <2>2 DEF Zeroed, Present, Entry
    <3> QED BY <2>1, <2>4, <3>1 DEF On, EntryAt
  <2> QED BY <1>18, <2>1, <2>3, <2>4
<1>19. ASSUME NEW q \in UserPages, NEW k \in 1 .. Levels, Add(q, k)
       PROVE  Both(q, k)
  <2>1. /\ WalkIn(tab, r, q)[k] = On(tab, r, q, k).frame
        /\ WalkIn(table, r, q)[k] = On(table, r, q, k).frame
    BY <1>16, <1>17
  <2>2. Absent.frame = NONE
    BY DEF Absent, Entry
  <2> QED BY <1>14, <1>19, <2>1, <2>2
<1> HIDE DEF Both, Add
<1>20. ASSUME NEW q \in UserPages
       PROVE  \A k \in 0 .. Levels : Both(q, k)
  <2> DEFINE T == {k \in 0 .. Levels : Both(q, k)}
  <2>1. 0 \in T
    BY <1>16, <1>17, Numbers DEF Both
  <2>2. \A k \in 1 .. Levels : k - 1 \in T => k \in T
    BY <1>18, <1>19, Numbers
  <2> HIDE DEF T
  <2>3. \A k \in 0 .. Levels : k \in T
    BY <2>1, <2>2, Numbers, UpTo
  <2> QED BY <2>3 DEF T
<1>21. \A q \in UserPages, k \in 1 .. Levels : k - 1 \in 0 .. Levels /\ Add(q, k)
  BY <1>18, <1>20, Numbers
<1>22. Stands'
  <2>1. PICK p : p = map.pg
    OBVIOUS
  <2>2. PICK l : l = map.lvl
    OBVIOUS
  <2>3. p \in UserPages /\ WalkIn(table, r, p)[l - 1] = at
    BY <1>6, <1>8, <1>9, <2>1, <2>2 DEF Stands
  <2>4. l \in 1 .. Levels /\ l - 1 \in 0 .. Levels /\ l - 1 # l /\ l = (l + 1) - 1
    BY <1>11, <2>2, Numbers
  <2>5. WalkIn(tab, r, p)[l - 1] = at
    BY <1>20, <2>2, <2>3, <2>4 DEF Both
  <2>6. at # NONE /\ tab[at][Ix(p, l)] = e
    BY <1>7, <1>10, <1>11, <1>13, <2>1, <2>2, Numbers DEF IInv, Typed
  <2>7. On(tab, r, p, l) = e
    BY <1>14, <2>5, <2>6 DEF On, EntryAt
  <2>8. WalkIn(tab, r, p)[l] = f
    BY <1>14, <1>16, <2>3, <2>4, <2>7
  <2>9. map'.at = f /\ map'.lvl = l + 1 /\ map'.pg = p
    BY <1>9, <1>11, <2>1, <2>2, DownFacts, <1>4, FrameFacts, Numbers DEF Create
  <2> QED BY <1>3, <1>9, <2>3, <2>4, <2>8, <2>9 DEF Stands
<1> QED BY <1>3, <1>4, <1>5, <1>8, <1>21, <1>22 DEF Add

\* The last level: of all the entries on the ways of a space, the step changes the last
\* one of the page that is mapped, and no other.
LEMMA SetOn ==
  IInv /\ [Next]_vars /\ PageDone /\ Stands /\ "PRESENT" \in map.flags =>
    \A q \in UserPages, k \in 1 .. Levels :
      On(table', pml4, q, k) = IF q = map.pg /\ k = Levels THEN Entry(map.frame, map.flags)
                               ELSE On(table, pml4, q, k)
<1>1. WalkGoes'
  BY WalkGoesOn, PTL
<1> SUFFICES ASSUME IInv, [Next]_vars, PageDone, Stands, "PRESENT" \in map.flags, NEW q \in UserPages
             PROVE  \A k \in 1 .. Levels :
                      On(table', pml4, q, k) = IF q = map.pg /\ k = Levels
                                               THEN Entry(map.frame, map.flags)
                                               ELSE On(table, pml4, q, k)
  OBVIOUS
<1>2. PICK own, dep : Trees(own, dep)
  BY DEF IInv
<1>3. PICK tab : tab = table'
  OBVIOUS
<1>4. PICK e : e = Entry(map.frame, map.flags)
  OBVIOUS
<1>5. PICK at : at = map.at
  OBVIOUS
<1>6. PICK p : p = map.pg
  OBVIOUS
<1>7. PICK r : r = pml4
  OBVIOUS
<1>8. PICK ix : ix = Ix(p, Levels)
  OBVIOUS
<1>9. /\ map # NoMap /\ map.lvl = Levels /\ pc = "pages" /\ "PRESENT" \in map.flags
      /\ tab = [table EXCEPT ![at][ix] = e]
      /\ pml4' = r /\ kernel' = kernel /\ spaces' = spaces
  BY <1>3, <1>4, <1>5, <1>6, <1>7, <1>8 DEF PageDone, SetEntry
<1>10. r \in spaces /\ kernel # {} /\ DOMAIN table \subseteq used
       /\ table \in [DOMAIN table -> [Idx -> EntryRec]]
  BY <1>7, <1>9 DEF IInv, Phases, Typed
<1>11. at \in DOMAIN table /\ ix \in Idx /\ dep[at] = Levels /\ at # NONE
  <2>1. at \in DOMAIN table /\ ix \in Idx
    BY <1>5, <1>6, <1>8, <1>9, SlotFacts
  <2> QED BY <1>2, <1>5, <1>9, <2>1, Numbers DEF Trees, IInv, Typed
<1>12. \A t \in DOMAIN table, i \in Idx : tab[t][i] = IF t = at /\ i = ix THEN e ELSE table[t][i]
  <2>1. \A t \in DOMAIN table : table[t] \in [Idx -> EntryRec]
    BY <1>10
  <2> QED BY <1>9, <1>11, <2>1
<1>13. IInv'
  BY NextInv
<1>14. \A x \in UserPages :
         /\ WalkIn(tab, r, x)[0] = r
         /\ \A k \in 1 .. Levels : WalkIn(tab, r, x)[k] = On(tab, r, x, k).frame
  <2>1. kernel' # {} /\ r \in spaces'
    BY <1>9, <1>10
  <2> QED BY <1>1, <1>3, <1>13, <2>1 DEF WalkGoes
<1>15. /\ WalkIn(table, r, q)[0] = r
       /\ \A k \in 1 .. Levels : WalkIn(table, r, q)[k] = On(table, r, q, k).frame
  BY <1>10, WalkGoesOn DEF WalkGoes
<1>16. p \in UserPages /\ WalkIn(table, r, p)[Levels - 1] = at
  BY <1>5, <1>6, <1>7, <1>9 DEF Stands
<1> DEFINE Same(k) == WalkIn(tab, r, q)[k] = WalkIn(table, r, q)[k]
<1>17. ASSUME NEW k \in 1 .. Levels, Same(k - 1)
       PROVE  On(tab, r, q, k) = IF q = p /\ k = Levels THEN e ELSE On(table, r, q, k)
  <2>1. PICK x : x = WalkIn(table, r, q)[k - 1]
    OBVIOUS
  <2>2. k - 1 \in 0 .. Levels /\ Ix(q, k) \in Idx
    BY Numbers, IxFacts
  <2>3. On(table, r, q, k) = EntryAt(table, x, q, k) /\ On(tab, r, q, k) = EntryAt(tab, x, q, k)
    BY <1>17, <2>1 DEF On
  <2>4. CASE x = NONE
    <3>1. ~(q = p /\ k = Levels)
      BY <1>11, <1>16, <2>1, <2>4
    <3> QED BY <2>3, <2>4, <3>1 DEF EntryAt
  <2>5. CASE x # NONE
    <3>1. x \in Stage(own, dep, r, k - 1)
      BY <1>2, <1>10, <2>1, <2>2, UserWalk
    <3>2. x \in DOMAIN table /\ dep[x] = k
      BY <1>2, <1>10, <2>5, <3>1, UserHop
    <3>3. tab[x][Ix(q, k)] = IF x = at /\ Ix(q, k) = ix THEN e ELSE table[x][Ix(q, k)]
      BY <1>12, <2>2, <3>2
    <3>4. CASE x = at /\ Ix(q, k) = ix
      <4>1. k = Levels
        BY <1>11, <3>2, <3>4
      <4>2. q = p
        BY <1>8, <1>10, <1>11, <1>16, <2>1, <3>4, <4>1, SamePlace
      <4>3. Present(e)
        BY <1>4, <1>9 DEF Present, Entry
      <4> QED BY <2>3, <2>5, <3>3, <3>4, <4>1, <4>2, <4>3 DEF EntryAt
    <3>5. CASE ~(x = at /\ Ix(q, k) = ix)
      <4>1. ~(q = p /\ k = Levels)
        BY <1>8, <1>16, <2>1, <3>5
      <4> QED BY <2>3, <3>3, <3>5, <4>1 DEF EntryAt
    <3> QED BY <3>4, <3>5
  <2> QED BY <2>4, <2>5
<1> DEFINE T == {k \in 0 .. (Levels - 1) : Same(k)}
<1>18. 0 \in T
  BY <1>14, <1>15, Numbers
<1>19. ASSUME NEW k \in 1 .. (Levels - 1), k - 1 \in T PROVE k \in T
  <2>1. k \in 1 .. Levels /\ k # Levels /\ k \in 0 .. (Levels - 1)
    BY Numbers
  <2>2. On(tab, r, q, k) = On(table, r, q, k)
    BY <1>17, <1>19, <2>1
  <2> QED BY <1>14, <1>15, <2>1, <2>2
<1>20. \A k \in 0 .. (Levels - 1) : k \in T
  <2>1. Levels - 1 \in Nat
    BY Numbers
  <2> HIDE DEF T
  <2> QED BY <1>18, <1>19, <2>1, UpTo
<1>21. \A k \in 1 .. Levels : k - 1 \in 0 .. (Levels - 1)
  BY Numbers
<1>22. \A k \in 1 .. Levels :
         On(tab, r, q, k) = IF q = p /\ k = Levels THEN e ELSE On(table, r, q, k)
  BY <1>17, <1>20, <1>21
<1> QED BY <1>3, <1>4, <1>6, <1>7, <1>22

\* A new space has no entry on the way to any page of a program.
LEMMA FreshOn ==
  ASSUME IInv, kernel # {}, HasFrame, NewSpace, NEW f, f = Frame
  PROVE  \A q \in UserPages, k \in 1 .. Levels :
           On(table', f, q, k) = Absent /\ WalkIn(table', f, q)[0] = f
<1>1. PICK tab : tab = table'
  OBVIOUS
<1>2. \A i \in Idx \ KernelIdx : tab[f][i] = Absent
  <2>1. tab[f] = [i \in Idx |-> Shared(i)]
    BY <1>1 DEF NewSpace
  <2> QED BY <2>1 DEF Shared, Absent
<1>3. ~Present(Absent) /\ Absent.frame = NONE
  BY DEF Present, Absent, Entry
<1> SUFFICES ASSUME NEW q \in UserPages
             PROVE  /\ \A k \in 1 .. Levels : On(tab, f, q, k) = Absent
                    /\ WalkIn(tab, f, q)[0] = f
  BY <1>1, Numbers
<1> DEFINE S == {f, NONE}
           B(k) == IF k = 0 THEN {f} ELSE {NONE}
           A == [k \in 0 .. Levels |-> B(k)]
<1>4. \A k \in 1 .. Levels : k - 1 \in 0 .. Levels /\ k \in 0 .. Levels /\ k # 0 /\ (k # 1 => k - 1 # 0)
  BY Numbers
<1>5. ASSUME NEW k \in 1 .. Levels, NEW x \in B(k - 1)
      PROVE  EntryAt(tab, x, q, k) = Absent
  <2>1. CASE k = 1
    <3>1. x = f /\ Ix(q, k) \in Idx \ KernelIdx
      BY <1>5, <2>1, IxFacts
    <3> QED BY <1>2, <1>3, <3>1 DEF EntryAt
  <2>2. CASE k # 1
    <3>1. x = NONE
      BY <1>4, <1>5, <2>2
    <3> QED BY <3>1 DEF EntryAt
  <2> QED BY <2>1, <2>2
<1>6. A \in [0 .. Levels -> SUBSET S] /\ f \in A[0]
  BY Numbers
<1>7. \A k \in 1 .. Levels : \A x \in A[k - 1] : Hop(tab, x, q, k) \in A[k]
  BY <1>3, <1>4, <1>5, HopEntry
<1>8. \A k \in 0 .. Levels : A[k] = B(k)
  OBVIOUS
<1> HIDE DEF A
<1>9. WalkIn(tab, f, q)[0] = f /\ \A k \in 0 .. Levels : WalkIn(tab, f, q)[k] \in A[k]
  BY <1>6, <1>7, WalkFacts
<1> QED BY <1>4, <1>5, <1>8, <1>9 DEF On

\* Quotients grow with the number divided.
LEMMA DivMono ==
  ASSUME NEW d \in Nat \ {0}
  PROVE  \A x, y \in Nat : x <= y => x \div d <= y \div d
<1> SUFFICES ASSUME NEW x \in Nat, NEW y \in Nat, x <= y, y \div d + 1 <= x \div d PROVE FALSE
  BY DivFacts
<1> DEFINE a == x \div d
           b == y \div d
<1>1. a \in Nat /\ b \in Nat /\ a * d <= x /\ y < b * d + d
  BY DivFacts
<1> HIDE DEF a, b
<1>2. (b + 1) * d <= a * d
  BY <1>1 DEF a, b
<1>3. (b + 1) * d = b * d + d /\ a * d \in Nat /\ b * d \in Nat
  BY <1>1
<1> QED BY <1>1, <1>2, <1>3

--------------------------------------------------------------------------------
(* What an exec has made, and what a program runs on.                           *)

\* Segment i of m has page q when the segments up to n are mapped, the last up to page upto.
Upto(m, n, upto, i)   == IF i = n THEN upto ELSE End(m, i)
Has(m, n, upto, i, q) == i \in 0 .. n /\ Base(m, i) <= q /\ q < Upto(m, n, upto, i)
\* It is the last that has it.
Lies(m, n, upto, i, q) == /\ Has(m, n, upto, i, q)
                         /\ \A j \in 0 .. n : j > i => ~Has(m, n, upto, j, q)

\* What segment i puts in page q.
FromFile(m, i, a) == i # 0 /\ m.segs[i].vaddr <= a /\ a - m.segs[i].vaddr < m.segs[i].filesz
FilledOf(m, i, q) ==
  [w \in 0 .. (PageSize - 1) |->
     LET a == q * PageSize + w
     IN  IF FromFile(m, i, a) THEN Word("file", i, a - m.segs[i].vaddr) ELSE Num(0)]
Blank == [w \in 0 .. (PageSize - 1) |-> Num(0)]

\* The entries of the space at r, in tables tab: a page's last entry has the flags of
\* the segment it lies in, a page of no segment has none, and where the whole image may
\* be written every entry lets a program write.
AllWrite(m) == \A i \in DOMAIN m.segs : m.segs[i].write
Mapped(tab, r, m, n, upto) ==
  \A q \in UserPages :
    /\ \A i \in 0 .. n : Lies(m, n, upto, i, q) => Leaf(tab, r, q).flags = Flags(m, i)
    /\ Leaf(tab, r, q) # Absent => \E i \in 0 .. n : Has(m, n, upto, i, q)
    /\ AllWrite(m) => \A k \in 1 .. Levels : On(tab, r, q, k).flags \in {{}, USER_FLAGS}

\* The page behind it holds what the segment puts there, and the top page of the stack
\* holds top.
Holding(tab, pgs, r, m, n, upto, top) ==
  \A q \in UserPages, i \in 0 .. n : Lies(m, n, upto, i, q) =>
    LET f == Leaf(tab, r, q).frame
    IN  f \in DOMAIN pgs /\ pgs[f] = IF i = 0 /\ q = StackTop - 1 THEN top ELSE FilledOf(m, i, q)

\* The last page of the stack that is mapped is st.
Stacked(tab, r, m, n, upto, st) ==
  \A q \in UserPages, i \in 0 .. n : Lies(m, n, upto, i, q) =>
    (Leaf(tab, r, q).frame = st <=> (i = 0 /\ q = Upto(m, n, upto, 0) - 1))

\* An exec under way.
Building ==
  pc = "pages" =>
    /\ argv \in Argvs /\ pg \in Base(img, seg) .. End(img, seg)
    /\ map # NoMap => /\ map.pg = pg /\ pg < End(img, seg) /\ map.flags = Flags(img, seg)
                      /\ map.frame # stk
    /\ Stands
    /\ stk \in used \cup {NONE}
    /\ Mapped(table, pml4, img, seg, pg)
    /\ Holding(table, page, pml4, img, seg, pg, Blank)
    /\ Stacked(table, pml4, img, seg, pg, stk)

\* What the top page of the stack holds when the program starts.
StackPage(a) ==
  [w \in 0 .. (PageSize - 1) |->
     IF Top - PageSize + w >= Sp(a) THEN ArgWord(a, Top - PageSize + w) ELSE Num(0)]

\* The program that runs.
Running ==
  prog # NoProg =>
    /\ kernel # {} /\ prog.img \in Images /\ prog.argv \in Argvs /\ prog.sp = Sp(prog.argv)
    /\ LET m == prog.img
           n == Len(m.segs)
       IN  /\ Mapped(table, cr3, m, n, End(m, n))
           /\ Holding(table, page, cr3, m, n, End(m, n), StackPage(prog.argv))

PInv == Building /\ Running /\ (pc = "user" => stk = NONE)

\* A segment ends no lower than it begins, and has its first word's page if it has a word.
LEMMA EndFacts ==
  ASSUME NEW m \in Images, NEW i \in 0 .. Len(m.segs)
  PROVE  Base(m, i) \in Nat /\ End(m, i) \in Nat /\ Base(m, i) <= End(m, i)
<1>1. Base(m, i) \in Nat
  BY SegFacts
<1>2. CASE i = 0
  <2>1. StackPages \in 1 .. StackTop
    BY ExecAssumption DEF ExecAssumption
  <2> QED BY <1>2, <2>1, Numbers DEF Base, End, StackBottom
<1>3. CASE i # 0
  <2>1. PICK v : v = m.segs[i].vaddr
    OBVIOUS
  <2>2. PICK z : z = m.segs[i].memsz
    OBVIOUS
  <2>3. v \in Nat /\ z \in Nat
    <3>1. m.segs \in Seq(Segment)
      BY ExecAssumption DEF ExecAssumption
    <3>2. i \in 1 .. Len(m.segs)
      BY <1>3, SegFacts
    <3>3. m.segs[i] \in Segment
      BY <3>1, <3>2
    <3> QED BY <2>1, <2>2, <3>3 DEF Segment
  <2>4. CASE z = 0
    BY <1>1, <1>3, <2>2, <2>4 DEF End
  <2>5. CASE z # 0
    <3>1. v + z + PageSize - 1 \in Nat /\ v <= v + z + PageSize - 1
      BY <2>3, <2>5, Numbers
    <3>2. \A x, y \in Nat : x <= y => x \div PageSize <= y \div PageSize
      BY Numbers, DivMono
    <3>3. v \div PageSize <= (v + z + PageSize - 1) \div PageSize
          /\ (v + z + PageSize - 1) \div PageSize \in Nat
      BY <2>3, <3>1, <3>2, DivFacts, Numbers
    <3> QED BY <1>1, <1>3, <2>1, <2>2, <2>5, <3>3 DEF End, Base
  <2> QED BY <2>4, <2>5
<1> QED BY <1>1, <1>2, <1>3

\* One more page of the last segment is mapped.
LEMMA OneMore ==
  ASSUME NEW m \in Images, NEW n \in 0 .. Len(m.segs), NEW p \in Nat, Base(m, n) <= p
  PROVE  \A i \in 0 .. n, q \in Nat :
           /\ Has(m, n, p + 1, i, q) <=> Has(m, n, p, i, q) \/ (i = n /\ q = p)
           /\ q = p => (Lies(m, n, p + 1, i, q) <=> i = n)
           /\ q # p => (Lies(m, n, p + 1, i, q) <=> Lies(m, n, p, i, q))
<1>1. n \in Nat
  BY SegFacts
<1>2. \A i \in 0 .. n, q \in Nat :
        Has(m, n, p + 1, i, q) <=> (Has(m, n, p, i, q) \/ (i = n /\ q = p))
  <2>1. \A q \in Nat : q < p + 1 <=> q < p \/ q = p
    OBVIOUS
  <2> QED BY <1>1, <2>1 DEF Has, Upto
<1>3. n \in 0 .. n /\ \A i \in 0 .. n : ~(i > n) /\ (i # n => n > i)
  BY <1>1
<1> QED BY <1>1, <1>2, <1>3 DEF Lies

\* The next segment has no page yet.
LEMMA NextHas ==
  ASSUME NEW m \in Images, NEW n \in Nat, n + 1 \in 0 .. Len(m.segs)
  PROVE  \A i \in 0 .. (n + 1), q \in Nat :
           /\ Has(m, n + 1, Base(m, n + 1), i, q) <=> i \in 0 .. n /\ Has(m, n, End(m, n), i, q)
           /\ Lies(m, n + 1, Base(m, n + 1), i, q) <=> i \in 0 .. n /\ Lies(m, n, End(m, n), i, q)
<1>1. Base(m, n + 1) \in Nat /\ n + 1 \in 0 .. (n + 1) /\ n + 1 \notin 0 .. n
      /\ (\A i \in 0 .. n : i \in 0 .. (n + 1) /\ i # n + 1)
      /\ (\A i \in 0 .. (n + 1) : i = n + 1 \/ i \in 0 .. n)
  BY SegFacts
<1>2. \A i \in 0 .. (n + 1), q \in Nat :
        Has(m, n + 1, Base(m, n + 1), i, q) <=> (i \in 0 .. n /\ Has(m, n, End(m, n), i, q))
  BY <1>1 DEF Has, Upto
<1>3. \A i \in 0 .. (n + 1), q \in Nat :
        Lies(m, n + 1, Base(m, n + 1), i, q) <=> (i \in 0 .. n /\ Lies(m, n, End(m, n), i, q))
  BY <1>1, <1>2 DEF Lies
<1> QED BY <1>2, <1>3

\* What is said of a space goes by the entries on the ways of its pages.
LEMMA MappedBy ==
  ASSUME NEW tab, NEW tab2, NEW r, NEW m, NEW n, NEW upto, Mapped(tab, r, m, n, upto),
         \A q \in UserPages : Leaf(tab2, r, q) = Leaf(tab, r, q),
         \A q \in UserPages, k \in 1 .. Levels :
           \/ On(tab2, r, q, k) = On(tab, r, q, k)
           \/ AllWrite(m) => On(tab2, r, q, k).flags = USER_FLAGS
  PROVE  Mapped(tab2, r, m, n, upto)
BY DEF Mapped

\* And what it holds by its last entries and the pages they lead to.
LEMMA HoldingBy ==
  ASSUME NEW tab, NEW tab2, NEW pgs, NEW pgs2, NEW r, NEW m, NEW n, NEW upto, NEW top,
         Holding(tab, pgs, r, m, n, upto, top),
         \A q \in UserPages : Leaf(tab2, r, q) = Leaf(tab, r, q),
         \A q \in UserPages : Leaf(tab, r, q).frame \in DOMAIN pgs =>
            /\ Leaf(tab, r, q).frame \in DOMAIN pgs2
            /\ pgs2[Leaf(tab, r, q).frame] = pgs[Leaf(tab, r, q).frame]
  PROVE  Holding(tab2, pgs2, r, m, n, upto, top)
BY DEF Holding

\* The last entry on a way leads to no frame but its own: not to the one being mapped.
LEMMA LeafFrames ==
  ASSUME IInv, kernel # {}, NEW r \in spaces, NEW q \in UserPages
  PROVE  \/ Leaf(table, r, q).frame = NONE
         \/ \E t \in DOMAIN table, i \in Idx :
              UserEntry(t, i) /\ Leaf(table, r, q).frame = table[t][i].frame
<1>1. PICK own, dep : Trees(own, dep)
  BY DEF IInv
<1>2. Levels \in 0 .. Levels /\ Levels \in 1 .. Levels /\ ~(Levels < Levels)
  BY Numbers
<1>3. WalkIn(table, r, q)[Levels] \in Stage(own, dep, r, Levels)
  BY <1>1, <1>2, UserWalk
<1>4. WalkIn(table, r, q)[Levels] = Leaf(table, r, q).frame
  BY <1>2, WalkGoesOn DEF WalkGoes, Leaf
<1> QED BY <1>2, <1>3, <1>4 DEF Stage

\* What an exec under way knows of the segment it maps.
LEMMA BuildFacts ==
  ASSUME IInv, Building, pc = "pages"
  PROVE  /\ img \in Images /\ seg \in 0 .. Len(img.segs) /\ pg \in Nat /\ kernel # {}
         /\ pml4 \in spaces /\ Base(img, seg) <= pg /\ pg <= End(img, seg)
         /\ map # NoMap => pg \in UserPages
<1>1. img \in Images /\ seg \in 0 .. Len(img.segs) /\ pg \in Nat /\ kernel # {} /\ pml4 \in spaces
  BY DEF IInv, Typed, Phases
<1>2. pg \in Base(img, seg) .. End(img, seg)
  BY DEF Building
<1>3. map # NoMap => pg < End(img, seg)
  BY DEF Building
<1>4. map # NoMap => pg \in UserPages
  BY <1>1, <1>3, SegFacts
<1> QED BY <1>1, <1>2, <1>4, EndFacts

\* An exec begins with an empty space.
LEMMA StartBuild ==
  ASSUME IInv, PInv, NEW c, NEW m \in Images, NEW a \in Argvs, Start(c, m, a)
  PROVE  Building'
<1>1. CASE ~HasFrame
  BY <1>1 DEF Start, Building
<1>2. CASE HasFrame
  <2>1. PICK f : f = Frame
    OBVIOUS
  <2>2. PICK tab : tab = table'
    OBVIOUS
  <2>3. /\ pc = "user" /\ pml4' = f /\ img' = m /\ argv' = a /\ seg' = 0 /\ pg' = StackBottom
        /\ map' = map /\ stk' = stk /\ page' = page /\ NewSpace
    BY <1>2, <2>1 DEF Start
  <2>4. map = NoMap /\ stk = NONE /\ kernel # {}
    BY <2>3 DEF IInv, PInv, Phases
  <2>5. \A q \in UserPages, k \in 1 .. Levels : On(tab, f, q, k) = Absent
    BY <1>2, <2>1, <2>2, <2>3, <2>4, FreshOn
  <2>6. Base(m, 0) = StackBottom /\ StackBottom \in Nat /\ 0 \in 0 .. Len(m.segs)
        /\ StackBottom \in Base(m, 0) .. End(m, 0)
    <3>1. 0 \in 0 .. Len(m.segs) /\ Base(m, 0) = StackBottom
      BY SegFacts DEF Base
    <3> QED BY <3>1, EndFacts, Numbers
  <2>7. \A i \in 0 .. 0, q \in UserPages : ~Has(m, 0, StackBottom, i, q)
    BY <2>6, Numbers, IxFacts DEF Has, Upto
  <2>8. Absent.flags = {} /\ Levels \in 1 .. Levels
    BY Numbers DEF Absent, Entry
  <2>9. Mapped(tab, f, m, 0, StackBottom)
    BY <2>5, <2>7, <2>8 DEF Mapped, Lies, Leaf
  <2>10. Holding(tab, page, f, m, 0, StackBottom, Blank) /\ Stacked(tab, f, m, 0, StackBottom, NONE)
    BY <2>7 DEF Holding, Stacked, Lies
  <2> QED BY <2>2, <2>3, <2>4, <2>6, <2>9, <2>10 DEF Building, Stands
<1> QED BY <1>1, <1>2

\* vmm_map is called for the next page, with a new frame.
LEMMA PageCallBuild ==
  IInv /\ Building /\ PageCall /\ IInv' => Building'
<1>1. WalkGoes'
  BY WalkGoesOn, PTL
<1> SUFFICES ASSUME IInv, Building, PageCall, IInv' PROVE Building'
  OBVIOUS
<1>2. PICK r : r = pml4
  OBVIOUS
<1>3. PICK p : p = pg
  OBVIOUS
<1>4. /\ pc = "pages" /\ p < End(img, seg) /\ HasFrame /\ MapCall(r, p, Frame, Flags(img, seg))
      /\ table' = table /\ pc' = pc /\ img' = img /\ argv' = argv /\ pml4' = r /\ seg' = seg
      /\ pg' = p /\ stk' = stk /\ page' = page /\ spaces' = spaces /\ kernel' = kernel
      /\ used' = used \cup {Frame}
  BY <1>2, <1>3 DEF PageCall, call, Take
<1>5. /\ img \in Images /\ seg \in 0 .. Len(img.segs) /\ p \in Nat /\ kernel # {} /\ r \in spaces
  BY <1>2, <1>3, <1>4, BuildFacts
<1>6. p \in UserPages
  BY <1>4, <1>5, SegFacts
<1>7. map' = [pg |-> p, frame |-> Frame, flags |-> Flags(img, seg), at |-> r, lvl |-> 1]
  BY <1>4 DEF MapCall
<1>8. map'.pg = p /\ map'.frame = Frame /\ map'.flags = Flags(img, seg) /\ map'.at = r /\ map'.lvl = 1
  BY <1>7
<1>9. WalkIn(table, r, p)[0] = r
  BY <1>5, <1>6, WalkGoesOn DEF WalkGoes
<1>10. Stands'
  BY <1>4, <1>6, <1>8, <1>9 DEF Stands
<1>11. Frame \notin used /\ Frame # NONE
  BY <1>4, FrameFacts, Numbers
<1>12. stk \in used \cup {NONE}
  BY <1>4 DEF Building
<1> QED BY <1>2, <1>3, <1>4, <1>8, <1>10, <1>11, <1>12 DEF Building

\* The walk goes on to a table that is there.
LEMMA DescendBuild ==
  ASSUME IInv, Building, Walk, Descend
  PROVE  Building'
<1> SUFFICES ASSUME pc = "pages" PROVE Building'
  BY DEF Building, Walk
<1>1. /\ map # NoMap /\ map.lvl < Levels /\ Present(Slot) /\ Down(Slot.frame)
      /\ table' = table /\ pc' = pc /\ img' = img /\ argv' = argv /\ pml4' = pml4 /\ seg' = seg
      /\ pg' = pg /\ stk' = stk /\ page' = page /\ used' = used
  BY DEF Walk, Descend, call
<1>2. PICK p : p = map.pg
  OBVIOUS
<1>3. PICK l : l = map.lvl
  OBVIOUS
<1>4. PICK at : at = map.at
  OBVIOUS
<1>5. PICK e : e = table[at][Ix(p, l)]
  OBVIOUS
<1>6. PICK r : r = pml4
  OBVIOUS
<1>7. /\ at \in DOMAIN table /\ l \in 1 .. Levels /\ map \in MapRec /\ Slot = e /\ e \in EntryRec
      /\ at # NONE
  <2>1. at \in DOMAIN table /\ l \in 1 .. Levels /\ map \in MapRec /\ Slot = e /\ e \in EntryRec
    BY <1>1, <1>2, <1>3, <1>4, <1>5, SlotFacts
  <2> QED BY <2>1, Numbers DEF IInv, Typed
<1>8. p \in UserPages /\ WalkIn(table, r, p)[l - 1] = at /\ r \in spaces /\ kernel # {}
  BY <1>1, <1>2, <1>3, <1>4, <1>6, BuildFacts DEF Building, Stands
<1>9. On(table, r, p, l) = e
  BY <1>1, <1>5, <1>7, <1>8 DEF On, EntryAt
<1>10. WalkIn(table, r, p)[l] = e.frame
  BY <1>7, <1>8, <1>9, WalkGoesOn DEF WalkGoes
<1>11. /\ map'.at = e.frame /\ map'.lvl = l + 1 /\ map'.pg = p
       /\ map'.frame = map.frame /\ map'.flags = map.flags
  BY <1>1, <1>2, <1>3, <1>7, DownFacts DEF EntryRec
<1>12. (l + 1) - 1 = l
  BY <1>7
<1>13. Stands'
  BY <1>1, <1>6, <1>8, <1>10, <1>11, <1>12 DEF Stands
<1> QED BY <1>1, <1>2, <1>11, <1>13 DEF Building

\* The table that is made adds an entry to the ways, with the segment's flags.
LEMMA CreateBuild ==
  ASSUME IInv, [Next]_vars, Building, Walk, Create
  PROVE  Building'
<1> SUFFICES ASSUME pc = "pages" PROVE Building'
  BY DEF Building, Walk
<1>1. /\ map # NoMap /\ map.lvl < Levels /\ Down(Frame) /\ used' = used \cup {Frame}
      /\ pc' = pc /\ img' = img /\ argv' = argv /\ pml4' = pml4 /\ seg' = seg
      /\ pg' = pg /\ stk' = stk /\ page' = page
  BY DEF Walk, Create, call, Take
<1>2. Stands
  BY DEF Building
<1>3. /\ \A q \in UserPages, k \in 1 .. Levels :
           \/ On(table', pml4, q, k) = On(table, pml4, q, k)
           \/ /\ k = map.lvl /\ On(table, pml4, q, k) = Absent
              /\ On(table', pml4, q, k) = Entry(Frame, TableFlags)
      /\ Stands'
  BY <1>2, CreateOn
<1>4. Levels \in 1 .. Levels /\ Levels # map.lvl
  <2>1. map.lvl \in Nat
    BY <1>1 DEF IInv, Typed, MapRec
  <2> QED BY <1>1, <2>1, Numbers
<1>5. \A q \in UserPages : Leaf(table', pml4, q) = Leaf(table, pml4, q)
  BY <1>3, <1>4 DEF Leaf
<1>6. ASSUME AllWrite(img)
      PROVE  Entry(Frame, TableFlags).flags = USER_FLAGS
  <2>1. Flags(img, seg) = USER_FLAGS
    <3>1. seg = 0 \/ seg \in DOMAIN img.segs
      <4>1. img.segs \in Seq(Segment) /\ seg \in 0 .. Len(img.segs)
        BY BuildFacts, ExecAssumption DEF ExecAssumption
      <4> QED BY <4>1
    <3> QED BY <1>6, <3>1 DEF Flags, AllWrite
  <2>2. map.flags = USER_FLAGS
    BY <1>1, <2>1 DEF Building
  <2> QED BY <2>2 DEF TableFlags, USER_FLAGS, Entry
<1>7. Mapped(table, pml4, img, seg, pg) /\ Holding(table, page, pml4, img, seg, pg, Blank)
      /\ Stacked(table, pml4, img, seg, pg, stk)
  BY DEF Building
<1>8. Mapped(table', pml4, img, seg, pg)
  BY <1>3, <1>5, <1>6, <1>7, MappedBy
<1>9. Holding(table', page, pml4, img, seg, pg, Blank)
  BY <1>5, <1>7, HoldingBy
<1>10. Stacked(table', pml4, img, seg, pg, stk)
  BY <1>5, <1>7 DEF Stacked
<1>11. map'.pg = map.pg /\ map'.frame = map.frame /\ map'.flags = map.flags
  BY <1>1, FrameFacts, Numbers, DownFacts DEF IInv, Typed, Create
<1> QED BY <1>1, <1>3, <1>8, <1>9, <1>10, <1>11 DEF Building

\* The next segment begins with no page.
LEMMA NextSegmentBuild ==
  ASSUME IInv, Building, NextSegment
  PROVE  Building'
<1>1. PICK m : m = img
  OBVIOUS
<1>2. PICK n : n = seg
  OBVIOUS
<1>3. /\ pc = "pages" /\ map = NoMap /\ pg >= End(m, n) /\ n < Len(m.segs)
      /\ seg' = n + 1 /\ pg' = Base(m, n + 1)
      /\ table' = table /\ pc' = pc /\ img' = m /\ argv' = argv /\ pml4' = pml4
      /\ stk' = stk /\ page' = page /\ used' = used /\ map' = map
  BY <1>1, <1>2 DEF NextSegment, vmmVars
<1>4. m \in Images /\ n \in 0 .. Len(m.segs) /\ pg <= End(m, n) /\ pg \in Nat
  BY <1>1, <1>2, <1>3, BuildFacts
<1>5. n \in Nat /\ n + 1 \in 0 .. Len(m.segs) /\ End(m, n) \in Nat /\ pg = End(m, n)
  <2>1. Len(m.segs) \in Nat
    BY <1>4, SegFacts
  <2>2. End(m, n) \in Nat
    BY <1>4, EndFacts
  <2> QED BY <1>3, <1>4, <2>1, <2>2
<1>6. Base(m, n + 1) \in Base(m, n + 1) .. End(m, n + 1)
  BY <1>4, <1>5, EndFacts
<1>7. \A q \in UserPages : q \in Nat
  BY IxFacts
<1>8. \A i \in 0 .. (n + 1), q \in UserPages :
        /\ Has(m, n + 1, Base(m, n + 1), i, q) <=> i \in 0 .. n /\ Has(m, n, pg, i, q)
        /\ Lies(m, n + 1, Base(m, n + 1), i, q) <=> i \in 0 .. n /\ Lies(m, n, pg, i, q)
  BY <1>4, <1>5, <1>7, NextHas
<1>9. \A i \in 0 .. n : i \in 0 .. (n + 1)
  BY <1>5
<1>10. Mapped(table, pml4, m, n, pg) /\ Holding(table, page, pml4, m, n, pg, Blank)
       /\ Stacked(table, pml4, m, n, pg, stk)
  BY <1>1, <1>2, <1>3 DEF Building
<1>11. Mapped(table, pml4, m, n + 1, Base(m, n + 1))
  BY <1>8, <1>9, <1>10 DEF Mapped
<1>12. Holding(table, page, pml4, m, n + 1, Base(m, n + 1), Blank)
  BY <1>8, <1>10 DEF Holding
<1>13. Upto(m, n + 1, Base(m, n + 1), 0) = Upto(m, n, pg, 0)
  BY <1>5 DEF Upto
<1>14. Stacked(table, pml4, m, n + 1, Base(m, n + 1), stk)
  BY <1>8, <1>10, <1>13 DEF Stacked
<1>15. argv \in Argvs /\ stk \in used \cup {NONE}
  BY <1>3 DEF Building
<1> QED BY <1>3, <1>6, <1>11, <1>12, <1>14, <1>15 DEF Building, Stands

\* The page is mapped and holds its part of the file; the others are as they were.
LEMMA PageDoneBuild ==
  ASSUME IInv, [Next]_vars, Building, PageDone
  PROVE  Building'
<1>1. PICK m : m = img
  OBVIOUS
<1>2. PICK n : n = seg
  OBVIOUS
<1>3. PICK p : p = pg
  OBVIOUS
<1>4. PICK f : f = map.frame
  OBVIOUS
<1>5. PICK r : r = pml4
  OBVIOUS
<1>6. PICK tab : tab = table'
  OBVIOUS
<1>7. PICK st : st = stk
  OBVIOUS
<1>8. PICK pgs : pgs = page'
  OBVIOUS
<1>9. PICK st2 : st2 = IF n = 0 THEN f ELSE st
  OBVIOUS
<1>10. /\ pc = "pages" /\ map # NoMap /\ map.lvl = Levels /\ map' = NoMap /\ used' = used
       /\ pgs = [x \in DOMAIN page \cup {f} |-> IF x = f THEN Filled ELSE page[x]]
       /\ stk' = st2 /\ pg' = p + 1
       /\ pc' = pc /\ img' = m /\ argv' = argv /\ pml4' = r /\ seg' = n
  BY <1>1, <1>2, <1>3, <1>4, <1>5, <1>7, <1>8, <1>9 DEF PageDone, SetEntry
<1>11. /\ m \in Images /\ n \in 0 .. Len(m.segs) /\ p \in Nat /\ kernel # {} /\ r \in spaces
       /\ Base(m, n) <= p /\ p \in UserPages
  BY <1>1, <1>2, <1>3, <1>5, <1>10, BuildFacts
<1>12. /\ map.pg = p /\ p < End(m, n) /\ map.flags = Flags(m, n) /\ f # st /\ Stands
       /\ argv \in Argvs /\ st \in used \cup {NONE}
       /\ Mapped(table, r, m, n, p) /\ Holding(table, page, r, m, n, p, Blank)
       /\ Stacked(table, r, m, n, p, st)
  BY <1>1, <1>2, <1>3, <1>4, <1>5, <1>7, <1>10 DEF Building
<1>13. "PRESENT" \in map.flags
  BY <1>12 DEF Flags, USER_FLAGS
<1>14. PICK e : e = Entry(f, Flags(m, n))
  OBVIOUS
<1>15. \A q \in UserPages, k \in 1 .. Levels :
         On(tab, r, q, k) = IF q = p /\ k = Levels THEN e ELSE On(table, r, q, k)
  BY <1>4, <1>5, <1>6, <1>12, <1>13, <1>14, SetOn
<1>16. Levels \in 1 .. Levels /\ e.frame = f /\ e.flags = Flags(m, n) /\ e # Absent
  BY <1>14, Numbers DEF Entry, Absent, Flags, USER_FLAGS
<1>17. \A q \in UserPages : Leaf(tab, r, q) = IF q = p THEN e ELSE Leaf(table, r, q)
  BY <1>15, <1>16 DEF Leaf
<1>18. n \in 0 .. n /\ n \in Nat /\ \A q \in UserPages : q \in Nat
  BY <1>11, SegFacts, IxFacts
<1>19. \A i \in 0 .. n, q \in UserPages :
         /\ Has(m, n, p + 1, i, q) <=> Has(m, n, p, i, q) \/ (i = n /\ q = p)
         /\ q = p => (Lies(m, n, p + 1, i, q) <=> i = n)
         /\ q # p => (Lies(m, n, p + 1, i, q) <=> Lies(m, n, p, i, q))
  BY <1>11, <1>18, OneMore
<1>20. AllWrite(m) => Flags(m, n) = USER_FLAGS
  <2>1. n = 0 \/ n \in DOMAIN m.segs
    <3>1. m.segs \in Seq(Segment)
      BY <1>11, ExecAssumption DEF ExecAssumption
    <3> QED BY <1>11, <3>1
  <2> QED BY <2>1 DEF Flags, AllWrite
<1>21. Mapped(tab, r, m, n, p + 1)
  <2> SUFFICES ASSUME NEW q \in UserPages
               PROVE  /\ \A i \in 0 .. n :
                           Lies(m, n, p + 1, i, q) => Leaf(tab, r, q).flags = Flags(m, i)
                      /\ Leaf(tab, r, q) # Absent => \E i \in 0 .. n : Has(m, n, p + 1, i, q)
                      /\ AllWrite(m) =>
                           \A k \in 1 .. Levels : On(tab, r, q, k).flags \in {{}, USER_FLAGS}
    BY DEF Mapped
  <2>1. \A i \in 0 .. n : Lies(m, n, p + 1, i, q) => Leaf(tab, r, q).flags = Flags(m, i)
    BY <1>12, <1>16, <1>17, <1>19 DEF Mapped
  <2>2. Leaf(tab, r, q) # Absent => \E i \in 0 .. n : Has(m, n, p + 1, i, q)
    BY <1>12, <1>17, <1>18, <1>19 DEF Mapped
  <2>3. AllWrite(m) => \A k \in 1 .. Levels : On(tab, r, q, k).flags \in {{}, USER_FLAGS}
    BY <1>12, <1>15, <1>16, <1>20 DEF Mapped
  <2> QED BY <2>1, <2>2, <2>3
<1>22. \A q \in UserPages : Leaf(table, r, q).frame # f
  <2>1. \A t \in DOMAIN table, i \in Idx : UserEntry(t, i) => table[t][i].frame # f
    BY <1>4, <1>10 DEF IInv, Mapping
  <2>2. f # NONE
    <3>1. f \in used
      BY <1>4, <1>10 DEF IInv, Mapping
    <3> QED BY <3>1, Numbers DEF IInv, Typed
  <2> QED BY <1>11, <2>1, <2>2, LeafFrames
<1>23. Filled = FilledOf(m, n, p)
  BY <1>1, <1>2, <1>3 DEF Filled, FilledOf, InFile, FromFile
<1>24. f \in DOMAIN pgs /\ pgs[f] = FilledOf(m, n, p)
       /\ \A x \in DOMAIN page : x # f => x \in DOMAIN pgs /\ pgs[x] = page[x]
  BY <1>10, <1>23
<1>25. FilledOf(m, 0, p) = Blank
  BY DEF FilledOf, FromFile, Blank
<1>26. Holding(tab, pgs, r, m, n, p + 1, Blank)
  <2> SUFFICES ASSUME NEW q \in UserPages, NEW i \in 0 .. n, Lies(m, n, p + 1, i, q)
               PROVE  /\ Leaf(tab, r, q).frame \in DOMAIN pgs
                      /\ pgs[Leaf(tab, r, q).frame] =
                           IF i = 0 /\ q = StackTop - 1 THEN Blank ELSE FilledOf(m, i, q)
    BY DEF Holding
  <2>1. CASE q = p
    <3>1. i = n /\ Leaf(tab, r, q).frame = f
      BY <1>16, <1>17, <1>19, <2>1
    <3> QED BY <1>24, <1>25, <2>1, <3>1
  <2>2. CASE q # p
    <3>1. Lies(m, n, p, i, q) /\ Leaf(tab, r, q) = Leaf(table, r, q)
      BY <1>17, <1>19, <2>2
    <3> QED BY <1>12, <1>22, <1>24, <3>1 DEF Holding
  <2> QED BY <2>1, <2>2
<1>27. Stacked(tab, r, m, n, p + 1, st2)
  <2> SUFFICES ASSUME NEW q \in UserPages, NEW i \in 0 .. n, Lies(m, n, p + 1, i, q)
               PROVE  Leaf(tab, r, q).frame = st2 <=> (i = 0 /\ q = Upto(m, n, p + 1, 0) - 1)
    BY DEF Stacked
  <2>1. CASE n = 0
    <3>1. Upto(m, n, p + 1, 0) - 1 = p /\ i = 0 /\ st2 = f
      BY <1>9, <1>11, <2>1 DEF Upto
    <3> QED BY <1>16, <1>17, <1>22, <3>1
  <2>2. CASE n # 0
    <3>1. Upto(m, n, p + 1, 0) = Upto(m, n, p, 0) /\ st2 = st
      BY <1>9, <2>2 DEF Upto
    <3>2. CASE q = p
      BY <1>12, <1>16, <1>17, <1>19, <2>2, <3>1, <3>2
    <3>3. CASE q # p
      BY <1>12, <1>17, <1>19, <3>1, <3>3 DEF Stacked
    <3> QED BY <3>2, <3>3
  <2> QED BY <2>1, <2>2
<1>28. p + 1 \in Base(m, n) .. End(m, n)
  <2>1. Base(m, n) \in Nat /\ End(m, n) \in Nat
    BY <1>11, EndFacts
  <2> QED BY <1>11, <1>12, <2>1
<1>29. st2 \in used \cup {NONE}
  BY <1>4, <1>9, <1>10, <1>12 DEF IInv, Mapping
<1> QED BY <1>6, <1>8, <1>10, <1>12, <1>21, <1>26, <1>27, <1>28, <1>29 DEF Building, Stands

\* A step that does not change the space in use leaves the program that runs what it has.
LEMMA KeepRunning ==
  ASSUME IInv, [Next]_vars, Running, cr3' = cr3, prog' = prog, kernel' = kernel
  PROVE  Running'
<1> SUFFICES ASSUME prog # NoProg PROVE Running'
  BY DEF Running
<1>1. PICK own, dep : Trees(own, dep)
  BY DEF IInv
<1>2. kernel # {} /\ cr3 \in spaces
  BY DEF Running, IInv, Phases
<1>3. /\ \A t \in DOMAIN table : own[t] = cr3 => table'[t] = table[t]
      /\ \A t \in DOMAIN table, i \in Idx : UserEntry(t, i) =>
           /\ (table[t][i].frame \in DOMAIN page' <=> table[t][i].frame \in DOMAIN page)
           /\ table[t][i].frame \in DOMAIN page =>
                page'[table[t][i].frame] = page[table[t][i].frame]
  BY <1>1, <1>2, NotTouched
<1>4. PICK r : r = cr3
  OBVIOUS
<1>5. PICK tab : tab = table'
  OBVIOUS
<1>6. \A k \in 1 .. Levels : k - 1 \in 0 .. Levels /\ k - 1 < Levels
  BY Numbers
<1>7. ASSUME NEW q \in UserPages, NEW k \in 1 .. Levels
      PROVE  On(tab, r, q, k) = On(table, r, q, k)
  <2>1. PICK x : x = WalkIn(table, r, q)[k - 1]
    OBVIOUS
  <2>2. WalkIn(tab, r, q)[k - 1] = x /\ x \in Stage(own, dep, r, k - 1)
    BY <1>1, <1>2, <1>3, <1>4, <1>5, <1>6, <2>1, SameWalk
  <2>3. x # NONE => tab[x] = table[x]
    BY <1>3, <1>4, <1>5, <1>6, <2>2 DEF Stage
  <2> QED BY <2>1, <2>2, <2>3 DEF On, EntryAt
<1>8. \A q \in UserPages : Leaf(tab, r, q) = Leaf(table, r, q)
  BY <1>7, Numbers DEF Leaf
<1>9. \A q \in UserPages : Leaf(table, r, q).frame \in DOMAIN page =>
        /\ Leaf(table, r, q).frame \in DOMAIN page'
        /\ page'[Leaf(table, r, q).frame] = page[Leaf(table, r, q).frame]
  <2>1. NONE \notin DOMAIN page
    BY Numbers DEF IInv, Typed
  <2> QED BY <1>2, <1>3, <1>4, <2>1, LeafFrames
<1>10. PICK m : m = prog.img
  OBVIOUS
<1>11. PICK n : n = Len(m.segs)
  OBVIOUS
<1>12. /\ prog.img \in Images /\ prog.argv \in Argvs /\ prog.sp = Sp(prog.argv)
       /\ Mapped(table, r, m, n, End(m, n))
       /\ Holding(table, page, r, m, n, End(m, n), StackPage(prog.argv))
  BY <1>4, <1>10, <1>11 DEF Running
<1>13. Mapped(tab, r, m, n, End(m, n))
  BY <1>7, <1>8, <1>12, MappedBy
<1>14. Holding(tab, page', r, m, n, End(m, n), StackPage(prog.argv))
  BY <1>8, <1>9, <1>12, HoldingBy
<1> QED BY <1>2, <1>4, <1>5, <1>10, <1>11, <1>12, <1>13, <1>14 DEF Running

\* The program that is started has every segment, and its arguments on top of its stack.
LEMMA JumpRunning ==
  ASSUME IInv, Building, Jump
  PROVE  Running'
<1>1. PICK m : m = img
  OBVIOUS
<1>2. PICK n : n = Len(m.segs)
  OBVIOUS
<1>3. PICK a : a = argv
  OBVIOUS
<1>4. PICK r : r = pml4
  OBVIOUS
<1>5. PICK st : st = stk
  OBVIOUS
<1>6. PICK pgs : pgs = page'
  OBVIOUS
<1>7. /\ pc = "pages" /\ pg >= End(m, n) /\ seg = n /\ cr3' = r /\ table' = table
      /\ pgs = [page EXCEPT ![st] =
                  [w \in 0 .. (PageSize - 1) |->
                     IF Top - PageSize + w >= Sp(a) THEN ArgWord(a, Top - PageSize + w) ELSE @[w]]]
      /\ prog' = [img |-> m, argv |-> a, sp |-> Sp(a)] /\ kernel' = kernel
  BY <1>1, <1>2, <1>3, <1>4, <1>5, <1>6 DEF Jump
<1>8. /\ m \in Images /\ n \in 0 .. Len(m.segs) /\ kernel # {} /\ pg \in Nat /\ pg <= End(m, n)
  BY <1>1, <1>7, BuildFacts
<1>9. pg = End(m, n)
  <2>1. End(m, n) \in Nat
    BY <1>8, EndFacts
  <2> QED BY <1>7, <1>8, <2>1
<1>10. /\ a \in Argvs /\ Mapped(table, r, m, n, End(m, n))
       /\ Holding(table, page, r, m, n, End(m, n), Blank)
       /\ Stacked(table, r, m, n, End(m, n), st)
  BY <1>1, <1>2, <1>3, <1>4, <1>5, <1>7, <1>9 DEF Building
<1>11. Upto(m, n, End(m, n), 0) = StackTop
  BY DEF Upto, End
<1>12. Holding(table, pgs, r, m, n, End(m, n), StackPage(a))
  <2> SUFFICES ASSUME NEW q \in UserPages, NEW i \in 0 .. n, Lies(m, n, End(m, n), i, q),
                      NEW f, f = Leaf(table, r, q).frame
               PROVE  f \in DOMAIN pgs /\ pgs[f] = IF i = 0 /\ q = StackTop - 1
                                                   THEN StackPage(a) ELSE FilledOf(m, i, q)
    BY DEF Holding
  <2>1. f \in DOMAIN page /\ page[f] = IF i = 0 /\ q = StackTop - 1 THEN Blank ELSE FilledOf(m, i, q)
    BY <1>10 DEF Holding
  <2>2. f = st <=> (i = 0 /\ q = StackTop - 1)
    BY <1>10, <1>11 DEF Stacked
  <2>3. CASE f = st
    <3>1. page[st] = Blank
      BY <2>1, <2>2, <2>3
    <3>2. pgs[st] = [w \in 0 .. (PageSize - 1) |->
                       IF Top - PageSize + w >= Sp(a) THEN ArgWord(a, Top - PageSize + w)
                       ELSE Blank[w]]
      BY <1>7, <2>1, <2>3, <3>1
    <3>3. pgs[st] = StackPage(a)
      BY <3>2 DEF StackPage, Blank
    <3> QED BY <1>7, <2>1, <2>2, <2>3, <3>3
  <2>4. CASE f # st
    BY <1>7, <2>1, <2>2, <2>4
  <2> QED BY <2>3, <2>4
<1>13. /\ prog'.img = m /\ prog'.argv = a /\ prog'.sp = Sp(a)
  BY <1>7
<1> QED BY <1>2, <1>6, <1>7, <1>8, <1>10, <1>12, <1>13 DEF Running

\* Every step keeps what an exec has made and what the program runs on.
LEMMA NextPInv == IInv /\ PInv /\ [Next]_vars => PInv'
<1> SUFFICES ASSUME IInv, PInv, [Next]_vars PROVE PInv'
  OBVIOUS
<1>1. IInv' /\ Building /\ Running
  BY NextInv DEF PInv
<1>2. ASSUME cr3' = cr3, prog' = prog, kernel' = kernel PROVE Running'
  BY <1>1, <1>2, KeepRunning
<1>3. CASE UNCHANGED vars
  BY <1>3 DEF vars, vmmVars, call, PInv, Building, Running, Stands
<1>4. CASE BootMap \/ BootPage
  <2>1. pc' = "boot" /\ cr3' = cr3 /\ prog' = prog /\ kernel' = kernel
    BY <1>4 DEF BootMap, BootPage, SetEntry
  <2> QED BY <1>2, <2>1 DEF PInv, Building
<1>5. CASE BootDone
  <2>1. pc' = "user" /\ stk' = NONE /\ prog' = prog /\ kernel = {}
    BY <1>5 DEF BootDone, Returned, IInv, Phases
  <2>2. Running'
    BY <1>1, <2>1 DEF Running
  <2> QED BY <2>1, <2>2 DEF PInv, Building
<1>6. CASE PageCall
  <2>1. cr3' = cr3 /\ prog' = prog /\ kernel' = kernel /\ pc' = "pages"
    BY <1>6 DEF PageCall
  <2>2. Building'
    BY <1>1, <1>6, PageCallBuild
  <2> QED BY <1>2, <2>1, <2>2 DEF PInv
<1>7. CASE PageDone
  <2>1. cr3' = cr3 /\ prog' = prog /\ kernel' = kernel /\ pc' = "pages"
    BY <1>7 DEF PageDone, SetEntry
  <2>2. Building'
    BY <1>1, <1>7, PageDoneBuild
  <2> QED BY <1>2, <2>1, <2>2 DEF PInv
<1>8. CASE NextSegment
  <2>1. cr3' = cr3 /\ prog' = prog /\ kernel' = kernel /\ pc' = "pages"
    BY <1>8 DEF NextSegment, vmmVars
  <2>2. Building'
    BY <1>1, <1>8, NextSegmentBuild
  <2> QED BY <1>2, <2>1, <2>2 DEF PInv
<1>9. CASE Fail
  <2>1. cr3' = cr3 /\ prog' = prog /\ kernel' = kernel /\ pc' # "pages" /\ stk' = NONE
    BY <1>9 DEF Fail, Returned, vmmVars
  <2> QED BY <1>2, <2>1 DEF PInv, Building
<1>10. CASE Jump
  <2>1. pc' # "pages" /\ stk' = NONE
    BY <1>10 DEF Jump, Returned
  <2> QED BY <1>1, <1>10, <2>1, JumpRunning DEF PInv, Building
<1>11. CASE Walk
  <2>1. cr3' = cr3 /\ prog' = prog /\ kernel' = kernel /\ pc' = pc /\ pc # "user"
    BY <1>11 DEF Walk, Descend, Create
  <2>2. Building'
    BY <1>1, <1>11, DescendBuild, CreateBuild DEF Walk
  <2> QED BY <1>2, <2>1, <2>2 DEF PInv
<1>12. CASE Halt
  <2>1. cr3' = cr3 /\ prog' = prog /\ kernel' = kernel /\ pc' = "halted"
    BY <1>12 DEF Halt, NoTable, vmmVars
  <2> QED BY <1>2, <2>1 DEF PInv, Building
<1>13. CASE \E c \in {"boot", "exec", "exit"} : NotStarted(c)
  <2>1. cr3' = cr3 /\ prog' = prog /\ kernel' = kernel /\ pc' = "halted"
    BY <1>13 DEF NotStarted, vmmVars
  <2> QED BY <1>2, <2>1 DEF PInv, Building
<1>14. ASSUME NEW c \in {"boot", "exec", "exit"}, NEW m \in Images, NEW a \in Argvs, Start(c, m, a)
       PROVE  PInv'
  <2>1. cr3' = cr3 /\ prog' = prog /\ kernel' = kernel /\ pc' # "user"
    BY <1>14 DEF Start
  <2>2. Building'
    BY <1>14, StartBuild
  <2> QED BY <1>2, <2>1, <2>2 DEF PInv
<1> QED
  BY <1>3, <1>4, <1>5, <1>6, <1>7, <1>8, <1>9, <1>10, <1>11, <1>12, <1>13, <1>14 DEF Next, Step

\* What an exec has made, page by page, and what the program that runs was given, hold
\* of every state.
LEMMA PInvAlways == Spec => [](IInv /\ PInv)
<1>1. Init => PInv
  BY DEF Init, PInv, Building, Running
<1>2. Init => IInv
  BY InitInv
<1>3. IInv /\ [Next]_vars => IInv'
  BY NextInv
<1>4. IInv /\ PInv /\ [Next]_vars => PInv'
  BY NextPInv
<1> QED BY <1>1, <1>2, <1>3, <1>4, PTL DEF Spec

--------------------------------------------------------------------------------
(* The image, as its program sees it.                                           *)

\* The greatest of a set of numbers that has one.
LEMMA MaxFacts ==
  ASSUME NEW T \in SUBSET Int, NEW y \in T, \A z \in T : z <= y
  PROVE  Max(T) \in T /\ \A z \in T : z <= Max(T)
BY DEF Max

\* The greatest of a set of segments, 0 when there is none.
LEMMA GreatestOf ==
  ASSUME NEW n \in Nat, NEW T \in SUBSET (1 .. n), NEW x, x = Max({0} \cup T)
  PROVE  x \in {0} \cup T /\ \A j \in T : j <= x
<1> DEFINE U == {0} \cup T
<1>1. PICK y \in U : \A z \in U : z <= y
  <2> DEFINE V == {n - z : z \in U}
  <2>1. V \in SUBSET Nat /\ V # {}
    OBVIOUS
  <2>2. PICK v \in V : \A w \in V : v <= w
    <3> HIDE DEF V
    <3> QED BY <2>1, LeastNat
  <2>3. PICK y \in U : v = n - y
    OBVIOUS
  <2>4. \A z \in U : n - z \in V /\ z \in Nat /\ z <= n
    OBVIOUS
  <2>5. \A z \in U : z <= y
    BY <2>2, <2>3, <2>4
  <2> QED BY <2>5
<1>2. U \in SUBSET Int
  OBVIOUS
<1>3. Max(U) \in U /\ \A z \in U : z <= Max(U)
  <2> HIDE DEF U
  <2> QED BY <1>1, <1>2, MaxFacts
<1> QED BY <1>3

\* LastOver is the segment a page of the finished image lies in.
LEMMA LastLies ==
  ASSUME NEW m \in Images, NEW n, n = Len(m.segs), NEW q \in UserPages,
         NEW x, x = LastOver(m, q)
  PROVE  /\ x # 0 => Lies(m, n, End(m, n), x, q) /\ x \in 1 .. n
         /\ \A i \in 0 .. n : Lies(m, n, End(m, n), i, q) => i = x
         /\ (\E i \in 0 .. n : Has(m, n, End(m, n), i, q))
              => \E i \in 0 .. n : Lies(m, n, End(m, n), i, q)
<1> DEFINE T == {i \in DOMAIN m.segs : q \in Base(m, i) .. (End(m, i) - 1)}
<1>1. n \in Nat /\ DOMAIN m.segs = 1 .. n
  <2>1. m.segs \in Seq(Segment)
    BY ExecAssumption DEF ExecAssumption
  <2> QED BY <2>1
<1>2. x \in {0} \cup T /\ \A j \in T : j <= x
  <2>1. T \in SUBSET (1 .. n) /\ x = Max({0} \cup T)
    BY <1>1 DEF LastOver
  <2> HIDE DEF T
  <2> QED BY <1>1, <2>1, GreatestOf
<1>3. \A i \in 0 .. n : Has(m, n, End(m, n), i, q) <=> Base(m, i) <= q /\ q < End(m, i)
  BY DEF Has, Upto
<1>4. \A i \in 1 .. n : i \in T <=> Has(m, n, End(m, n), i, q)
  <2>1. \A i \in 0 .. n : Base(m, i) \in Nat /\ End(m, i) \in Nat
    BY <1>1, EndFacts
  <2>2. q \in Nat
    BY IxFacts
  <2> QED BY <1>1, <1>3, <2>1, <2>2
<1>5. \A i \in 0 .. n : Has(m, n, End(m, n), i, q) => i <= x
  BY <1>1, <1>2, <1>4
<1>6. x # 0 => Lies(m, n, End(m, n), x, q) /\ x \in 1 .. n
  <2> HAVE x # 0
  <2>1. x \in T /\ x \in 1 .. n
    BY <1>1, <1>2
  <2> QED BY <1>1, <1>4, <1>5, <2>1 DEF Lies
<1>7. \A i \in 0 .. n : Lies(m, n, End(m, n), i, q) => i = x
  <2> TAKE i \in 0 .. n
  <2> HAVE Lies(m, n, End(m, n), i, q)
  <2>1. i <= x /\ i \in Nat
    BY <1>1, <1>5 DEF Lies
  <2>2. x # 0 => ~(x > i)
    BY <1>1, <1>6 DEF Lies
  <2> QED BY <1>1, <1>2, <2>1, <2>2
<1>8. ASSUME NEW i \in 0 .. n, Has(m, n, End(m, n), i, q)
      PROVE  \E j \in 0 .. n : Lies(m, n, End(m, n), j, q)
  <2>1. CASE x # 0
    BY <1>1, <1>6, <2>1
  <2>2. CASE x = 0
    <3>1. i = 0
      BY <1>1, <1>5, <1>8, <2>2
    <3> QED BY <1>1, <1>5, <1>8, <2>2, <3>1 DEF Lies
  <2> QED BY <2>1, <2>2
<1> QED BY <1>6, <1>7, <1>8

\* The word at address a of a page that is mapped.
LEMMA HoldsAt ==
  ASSUME IInv, kernel # {}, NEW a \in Nat, NEW q \in UserPages, q = a \div PageSize,
         NEW f, f = Leaf(table, cr3, q).frame, f \in DOMAIN page, NEW g,
         page[f] = [w \in 0 .. (PageSize - 1) |-> g[w]]
  PROVE  Holds(a) = g[a % PageSize]
<1>1. cr3 \in spaces /\ Levels \in 1 .. Levels
  BY Numbers DEF IInv, Phases
<1>2. WalkIn(table, cr3, q)[Levels] = f
  BY <1>1, WalkGoesOn DEF WalkGoes, Leaf
<1>3. Seen(cr3, q) = page[f]
  BY <1>2, SeenIs DEF SeenByWalk
<1>4. a % PageSize \in 0 .. (PageSize - 1) /\ 0 \in 0 .. (PageSize - 1)
  BY Numbers, DivFacts
<1>5. page[f] # <<>>
  <2>1. DOMAIN page[f] = 0 .. (PageSize - 1)
    OBVIOUS
  <2>2. DOMAIN <<>> = {}
    OBVIOUS
  <2> QED BY <1>4, <2>1, <2>2
<1> QED BY <1>3, <1>4, <1>5 DEF Holds

\* A word of a segment lies in a page of it.
LEMMA WordPage ==
  ASSUME NEW m \in Images, NEW i \in DOMAIN m.segs, NEW k \in 0 .. (m.segs[i].memsz - 1),
         NEW a, a = m.segs[i].vaddr + k, NEW q, q = a \div PageSize
  PROVE  /\ a \in Nat /\ q \in UserPages /\ Base(m, i) <= q /\ q < End(m, i)
         /\ i \in 1 .. Len(m.segs) /\ m.segs[i] \in Segment
<1>1. i \in 1 .. Len(m.segs) /\ m.segs[i] \in Segment
  <2>1. m.segs \in Seq(Segment)
    BY ExecAssumption DEF ExecAssumption
  <2> QED BY <2>1
<1>2. PICK v : v = m.segs[i].vaddr
  OBVIOUS
<1>3. PICK z : z = m.segs[i].memsz
  OBVIOUS
<1>4. v \in Nat /\ z \in Nat /\ k \in 0 .. (z - 1) /\ i # 0
  BY <1>1, <1>2, <1>3 DEF Segment
<1>5. a \in Nat /\ v <= a /\ a + PageSize <= v + z + PageSize - 1 /\ z # 0
      /\ v + z + PageSize - 1 \in Nat /\ a + PageSize \in Nat
  BY <1>2, <1>4, Numbers
<1>6. v \div PageSize <= a \div PageSize
      /\ (a + PageSize) \div PageSize <= (v + z + PageSize - 1) \div PageSize
  BY <1>4, <1>5, DivMono, Numbers
<1>7. (a + PageSize) \div PageSize = (a \div PageSize) + 1
  BY <1>5, Numbers
<1>8. Base(m, i) <= q
  BY <1>2, <1>4, <1>6 DEF Base
<1>9. q \in Nat /\ End(m, i) \in Nat /\ i \in 0 .. Len(m.segs)
  <2>1. q \in Nat
    BY <1>5, DivFacts, Numbers
  <2>2. i \in 0 .. Len(m.segs)
    BY <1>1, SegFacts
  <2> QED BY <2>1, <2>2, EndFacts
<1>10. q < End(m, i)
  <2>1. End(m, i) = (v + z + PageSize - 1) \div PageSize
    BY <1>2, <1>3, <1>4, <1>5 DEF End
  <2> QED BY <1>6, <1>7, <1>9, <2>1
<1> QED BY <1>1, <1>5, <1>8, <1>9, <1>10, SegFacts

\* The running program finds at every address of a segment the file's word, and zero
\* past filesz: ImageSeen, for every image and however its pages were taken.
THEOREM ImageIsSeen == Spec => []ImageSeen
<1>1. ASSUME IInv, PInv PROVE ImageSeen
  <2> SUFFICES ASSUME NEW i \in DOMAIN prog.img.segs,
                      NEW k \in 0 .. (prog.img.segs[i].memsz - 1),
                      NEW a, a = prog.img.segs[i].vaddr + k,
                      LastOver(prog.img, a \div PageSize) = i
               PROVE  Holds(a) = IF k < prog.img.segs[i].filesz THEN Word("file", i, k) ELSE Num(0)
    BY DEF ImageSeen
  <2>1. PICK m : m = prog.img
    OBVIOUS
  <2>2. PICK n : n = Len(m.segs)
    OBVIOUS
  <2>3. PICK q : q = a \div PageSize
    OBVIOUS
  <2>4. prog # NoProg
    <3>1. NoProg.img.segs = <<>>
      BY DEF NoProg, NoImage
    <3>2. DOMAIN <<>> = {}
      OBVIOUS
    <3> QED BY <3>1, <3>2
  <2>5. /\ m \in Images /\ kernel # {}
        /\ Holding(table, page, cr3, m, n, End(m, n), StackPage(prog.argv))
    BY <1>1, <2>1, <2>2, <2>4 DEF PInv, Running
  <2>6. /\ a \in Nat /\ q \in UserPages /\ i \in 1 .. n /\ m.segs[i] \in Segment
        /\ k \in 0 .. (m.segs[i].memsz - 1) /\ a = m.segs[i].vaddr + k
    BY <2>1, <2>2, <2>3, <2>5, WordPage
  <2>7. n \in Nat
    BY <2>2, <2>5, SegFacts
  <2>8. Lies(m, n, End(m, n), i, q)
    BY <2>1, <2>2, <2>3, <2>5, <2>6, <2>7, LastLies
  <2>9. PICK f : f = Leaf(table, cr3, q).frame
    OBVIOUS
  <2>10. f \in DOMAIN page /\ page[f] = FilledOf(m, i, q) /\ i # 0
    BY <2>5, <2>6, <2>7, <2>8, <2>9 DEF Holding
  <2> DEFINE g == [w \in 0 .. (PageSize - 1) |->
                     LET b == q * PageSize + w
                     IN  IF FromFile(m, i, b) THEN Word("file", i, b - m.segs[i].vaddr)
                         ELSE Num(0)]
  <2>11. page[f] = [w \in 0 .. (PageSize - 1) |-> g[w]]
    BY <2>10 DEF FilledOf
  <2>12. a % PageSize \in 0 .. (PageSize - 1) /\ q * PageSize + (a % PageSize) = a
    <3>1. PICK d \in Nat \ {0} : d = PageSize
      BY Numbers
    <3>2. a = d * (a \div d) + (a % d) /\ a % d \in 0 .. (d - 1) /\ a \div d \in Nat
      BY <2>6, DivFacts
    <3>3. d * (a \div d) = (a \div d) * d
      BY <3>2
    <3> QED BY <2>3, <3>1, <3>2, <3>3
  <2>13. g[a % PageSize] = IF FromFile(m, i, a) THEN Word("file", i, a - m.segs[i].vaddr) ELSE Num(0)
    BY <2>12
  <2> HIDE DEF g
  <2>14. Holds(a) = g[a % PageSize]
    BY <1>1, <2>3, <2>5, <2>6, <2>9, <2>10, <2>11, HoldsAt
  <2>15. m.segs[i].vaddr \in Nat /\ m.segs[i].filesz \in Nat /\ k \in Nat
    BY <2>6 DEF Segment
  <2>16. a - m.segs[i].vaddr = k /\ m.segs[i].vaddr <= a
    BY <2>6, <2>15
  <2> QED BY <2>1, <2>10, <2>13, <2>14, <2>16 DEF FromFile
<1>2. IInv /\ PInv => ImageSeen
  BY <1>1
<1> QED BY <1>2, PInvAlways, PTL

\* What a program may do with its pages is what their segments ask for: PermissionsKept,
\* through every level of the tables.
THEOREM PermissionsAreKept == Spec => []PermissionsKept
<1>1. ASSUME IInv, PInv PROVE PermissionsKept
  <2> SUFFICES ASSUME prog # NoProg, NEW q \in UserPages, Translate(cr3, q) # NONE,
                      NEW flags, flags = IF q >= StackBottom THEN USER_FLAGS
                                         ELSE Flags(prog.img, LastOver(prog.img, q))
               PROVE  /\ Allowed(cr3, q) \subseteq flags
                      /\ AllWrite(prog.img) => Allowed(cr3, q) = flags
    BY DEF PermissionsKept, AllWrite
  <2>1. PICK m : m = prog.img
    OBVIOUS
  <2>2. PICK n : n = Len(m.segs)
    OBVIOUS
  <2>3. PICK r : r = cr3
    OBVIOUS
  <2>4. m \in Images /\ kernel # {} /\ Mapped(table, r, m, n, End(m, n)) /\ r \in spaces
    BY <1>1, <2>1, <2>2, <2>3 DEF PInv, Running, IInv, Phases
  <2>5. n \in Nat /\ q \in Nat /\ Levels \in 1 .. Levels /\ Levels \in Nat
    BY <2>2, <2>4, SegFacts, IxFacts, Numbers
  <2>6. PICK w : w = WalkIn(table, r, q)
    OBVIOUS
  <2>7. \A k \in 1 .. Levels : w[k] = On(table, r, q, k).frame
    BY <1>1, <2>4, <2>6, WalkGoesOn DEF WalkGoes
  <2>8. \A l : Reach(r, q, l) = w[l]
    BY <2>6 DEF Reach, WalkIn
  <2>9. w[Levels] # NONE
    BY <2>3, <2>8 DEF Translate
  <2>10. \A k \in 1 .. Levels : w[k] # NONE =>
           /\ w[k - 1] # NONE /\ On(table, r, q, k) = table[w[k - 1]][Ix(q, k)]
           /\ Present(On(table, r, q, k))
    <3>1. Absent.frame = NONE
      BY DEF Absent, Entry
    <3> QED BY <2>6, <2>7, <3>1 DEF On, EntryAt
  <2>11. \A k \in 1 .. Levels : w[k] # NONE
    <3> DEFINE T == {j \in 0 .. Levels : w[Levels - j] # NONE}
    <3>1. 0 \in T
      BY <2>5, <2>9
    <3>2. ASSUME NEW j \in 1 .. Levels, j - 1 \in T PROVE j \in T
      <4>1. CASE j = Levels
        <5>1. w[0] = r
          BY <1>1, <2>4, <2>6, WalkGoesOn DEF WalkGoes
        <5>2. r # NONE
          BY <1>1, <2>4, Numbers DEF IInv, Typed
        <5> QED BY <2>5, <4>1, <5>1, <5>2
      <4>2. CASE j # Levels
        <5>1. Levels - (j - 1) \in 1 .. Levels /\ (Levels - (j - 1)) - 1 = Levels - j
              /\ j \in 0 .. Levels
          BY <2>5, <4>2
        <5> QED BY <2>10, <3>2, <5>1
      <4> QED BY <4>1, <4>2
    <3> HIDE DEF T
    <3>3. \A j \in 0 .. Levels : j \in T
      BY <2>5, <3>1, <3>2, UpTo
    <3>4. \A k \in 1 .. Levels : Levels - k \in 0 .. Levels /\ Levels - (Levels - k) = k
      BY <2>5
    <3> QED BY <3>3, <3>4 DEF T
  <2>12. Allowed(r, q) = {b \in Bit : \A k \in 1 .. Levels : b \in On(table, r, q, k).flags}
    BY <2>8, <2>10, <2>11 DEF Allowed
  <2>13. Leaf(table, r, q) # Absent /\ Allowed(r, q) \subseteq Leaf(table, r, q).flags
    <3>1. Present(Leaf(table, r, q)) /\ ~Present(Absent)
      BY <2>5, <2>10, <2>11 DEF Leaf, Absent, Entry, Present
    <3> QED BY <2>5, <2>12, <3>1 DEF Leaf
  <2>14. PICK i \in 0 .. n : Lies(m, n, End(m, n), i, q) /\ i = LastOver(m, q)
    <3>1. \E i \in 0 .. n : Has(m, n, End(m, n), i, q)
      BY <2>4, <2>13 DEF Mapped
    <3> QED BY <2>2, <2>4, <3>1, LastLies
  <2>15. Leaf(table, r, q).flags = Flags(m, i)
    BY <2>4, <2>14 DEF Mapped
  <2>16. Flags(m, i) \subseteq flags
    <3>1. Flags(m, i) \subseteq USER_FLAGS
      BY DEF Flags, USER_FLAGS
    <3> QED BY <2>1, <2>14, <3>1
  <2>17. ASSUME AllWrite(m) PROVE Allowed(r, q) = flags
    <3>1. \A k \in 1 .. Levels : On(table, r, q, k).flags = USER_FLAGS
      BY <2>4, <2>10, <2>11, <2>17 DEF Mapped, Present
    <3>2. USER_FLAGS \subseteq Bit
      BY DEF USER_FLAGS, Bit
    <3>3. Allowed(r, q) = USER_FLAGS
      BY <2>5, <2>12, <3>1, <3>2
    <3>4. i = 0 \/ i \in DOMAIN m.segs
      <4>1. m.segs \in Seq(Segment)
        BY <2>4, ExecAssumption DEF ExecAssumption
      <4> QED BY <2>2, <2>14, <4>1
    <3>5. flags = USER_FLAGS
      BY <2>1, <2>14, <2>17, <3>4 DEF Flags, AllWrite
    <3> QED BY <3>3, <3>5
  <2> QED BY <2>1, <2>3, <2>13, <2>15, <2>16, <2>17
<1>2. IInv /\ PInv => PermissionsKept
  BY <1>1
<1> QED BY <1>2, PInvAlways, PTL

--------------------------------------------------------------------------------
(* The arguments, as their program finds them.                                  *)

\* The strings lie one below the other, the last one's end at the top of the stack.
LEMMA StrFacts ==
  ASSUME NEW a \in Argvs
  PROVE  /\ Len(a) \in Nat \ {0} /\ DOMAIN a = 1 .. Len(a) /\ \A k \in 1 .. Len(a) : a[k] \in Nat \ {0}
         /\ StrAt(a, Len(a) + 1) = Top /\ \A k \in 1 .. (Len(a) + 1) : StrAt(a, k) \in Int
         /\ \A k \in 1 .. Len(a) : StrAt(a, k) = StrAt(a, k + 1) - a[k]
<1> DEFINE n == Len(a)
           Is(u) == u = [k \in 1 .. (n + 1) |-> IF k > n THEN Top ELSE u[k + 1] - a[k]]
           at == CHOOSE u : Is(u)
           g == [x \in Int \X (1 .. n) |-> x[1] - a[n + 1 - x[2]]]
<1>1. n \in Nat \ {0} /\ DOMAIN a = 1 .. n /\ \A k \in 1 .. n : a[k] \in Nat \ {0}
  <2> DEFINE S == Nat \ {0}
  <2>1. a \in Seq(S) /\ Len(a) \in 1 .. 15
    BY ExecAssumption DEF ExecAssumption
  <2> HIDE DEF S
  <2>2. DOMAIN a = 1 .. Len(a) /\ \A k \in 1 .. Len(a) : a[k] \in S
    BY <2>1
  <2> QED BY <2>1, <2>2 DEF S
<1>2. Top \in Int
  BY Numbers DEF Top
<1>3. \A k : StrAt(a, k) = at[k]
  BY DEF StrAt
<1> HIDE DEF n
<1>4. \A x \in Int, j \in 1 .. n : g[<<x, j>>] = x - a[n + 1 - j]
  OBVIOUS
<1>5. \A j \in 1 .. n : n + 1 - j \in 1 .. n
  BY <1>1
<1> HIDE DEF g
<1>6. \A x \in Int, j \in 1 .. n : g[<<x, j>>] \in Int
  <2> TAKE x \in Int, j \in 1 .. n
  <2>1. a[n + 1 - j] \in Nat
    BY <1>1, <1>5
  <2> QED BY <1>4, <2>1
<1>7. PICK h : Run(h, n, Int, Top, g)
  <2>1. Steps(n, Int, Top, g)
    BY <1>1, <1>2, <1>6 DEF Steps
  <2> QED BY <2>1, Iterated
<1>8. h \in [0 .. n -> Int] /\ h[0] = Top /\ \A j \in 1 .. n : h[j] = h[j - 1] - a[n + 1 - j]
  <2>1. h \in [0 .. n -> Int] /\ h[0] = Top /\ \A j \in 1 .. n : h[j] = g[<<h[j - 1], j>>]
    BY <1>7 DEF Run
  <2>2. \A j \in 1 .. n : h[j - 1] \in Int
    BY <1>1, <2>1
  <2> QED BY <1>4, <2>1, <2>2
<1> DEFINE u == [k \in 1 .. (n + 1) |-> h[n + 1 - k]]
<1>9. Is(u)
  <2>1. ASSUME NEW k \in 1 .. (n + 1) PROVE u[k] = IF k > n THEN Top ELSE u[k + 1] - a[k]
    <3>1. CASE k > n
      <4>1. n + 1 - k = 0
        BY <1>1, <3>1
      <4> QED BY <1>8, <3>1, <4>1
    <3>2. CASE ~(k > n)
      <4>1. n + 1 - k \in 1 .. n /\ (n + 1 - k) - 1 = n + 1 - (k + 1) /\ n + 1 - (n + 1 - k) = k
            /\ k + 1 \in 1 .. (n + 1)
        BY <1>1, <3>2
      <4>2. h[n + 1 - k] = h[n + 1 - (k + 1)] - a[k]
        BY <1>8, <4>1
      <4> QED BY <3>2, <4>1, <4>2
    <3> QED BY <3>1, <3>2
  <2> QED BY <2>1
<1> HIDE DEF u
<1>10. Is(at)
  BY <1>9
<1> HIDE DEF at
<1>11. \A k \in 1 .. (n + 1) : at[k] = IF k > n THEN Top ELSE at[k + 1] - a[k]
  BY <1>10
<1>12. n + 1 \in 1 .. (n + 1) /\ n + 1 > n /\ \A k \in 1 .. n : k \in 1 .. (n + 1) /\ ~(k > n)
  BY <1>1
<1>13. at[n + 1] = Top /\ \A k \in 1 .. n : at[k] = at[k + 1] - a[k]
  BY <1>11, <1>12
<1>14. \A k \in 1 .. (n + 1) : at[k] \in Int
  <2> DEFINE T == {j \in 0 .. n : at[n + 1 - j] \in Int}
  <2>1. 0 \in T
    BY <1>1, <1>2, <1>13
  <2>2. ASSUME NEW j \in 1 .. n, j - 1 \in T PROVE j \in T
    <3>1. n + 1 - j \in 1 .. n /\ (n + 1 - j) + 1 = n + 1 - (j - 1) /\ j \in 0 .. n
      BY <1>1
    <3>2. at[n + 1 - j] = at[n + 1 - (j - 1)] - a[n + 1 - j]
      BY <1>13, <3>1
    <3> QED BY <1>1, <2>2, <3>1, <3>2
  <2> HIDE DEF T
  <2>3. \A j \in 0 .. n : j \in T
    BY <1>1, <2>1, <2>2, UpTo
  <2>4. \A k \in 1 .. (n + 1) : n + 1 - k \in 0 .. n /\ n + 1 - (n + 1 - k) = k
    BY <1>1
  <2> QED BY <2>3, <2>4 DEF T
<1> QED BY <1>1, <1>3, <1>13, <1>14 DEF n

\* They go up from the first.
LEMMA StrUp ==
  ASSUME NEW a \in Argvs, NEW i \in 1 .. (Len(a) + 1), NEW j \in i .. (Len(a) + 1)
  PROVE  StrAt(a, i) <= StrAt(a, j)
<1> DEFINE n == Len(a)
           T == {d \in 0 .. (n + 1 - i) : StrAt(a, i) <= StrAt(a, i + d)}
<1>1. /\ n \in Nat \ {0} /\ \A k \in 1 .. (n + 1) : StrAt(a, k) \in Int
      /\ \A k \in 1 .. n : StrAt(a, k) <= StrAt(a, k + 1)
  <2>1. n \in Nat \ {0} /\ \A k \in 1 .. (n + 1) : StrAt(a, k) \in Int
    BY StrFacts
  <2>2. ASSUME NEW k \in 1 .. n PROVE StrAt(a, k) <= StrAt(a, k + 1)
    <3>1. a[k] \in Nat \ {0} /\ StrAt(a, k) = StrAt(a, k + 1) - a[k]
      BY StrFacts
    <3>2. StrAt(a, k + 1) \in Int
      BY <2>1
    <3> QED BY <3>1, <3>2
  <2> QED BY <2>1, <2>2
<1> HIDE DEF n
<1>2. 0 \in T
  BY <1>1 DEF n
<1>3. ASSUME NEW d \in 1 .. (n + 1 - i), d - 1 \in T PROVE d \in T
  <2>1. i + (d - 1) \in 1 .. n /\ (i + (d - 1)) + 1 = i + d /\ i + d \in 1 .. (n + 1)
        /\ d \in 0 .. (n + 1 - i) /\ i \in 1 .. (n + 1) /\ i + (d - 1) \in 1 .. (n + 1)
    BY <1>1 DEF n
  <2>2. StrAt(a, i + (d - 1)) <= StrAt(a, i + d)
    BY <1>1, <2>1
  <2>3. /\ StrAt(a, i) \in Int /\ StrAt(a, i + (d - 1)) \in Int /\ StrAt(a, i + d) \in Int
        /\ StrAt(a, i) <= StrAt(a, i + (d - 1))
    BY <1>1, <1>3, <2>1
  <2> QED BY <2>1, <2>2, <2>3
<1>4. n + 1 - i \in Nat /\ j - i \in 0 .. (n + 1 - i) /\ i + (j - i) = j
  BY <1>1 DEF n
<1> HIDE DEF T
<1>5. \A d \in 0 .. (n + 1 - i) : d \in T
  BY <1>2, <1>3, <1>4, UpTo
<1> QED BY <1>4, <1>5 DEF T

\* What the block of arguments holds: the count, the pointers, a null, and the strings.
LEMMA ArgFacts ==
  ASSUME NEW a \in Argvs
  PROVE  /\ Sp(a) \in Int /\ Top - PageSize <= Sp(a) /\ Sp(a) + Len(a) + 1 < Top
         /\ ArgWord(a, Sp(a)) = Num(Len(a)) /\ ArgWord(a, Sp(a) + Len(a) + 1) = Num(0)
         /\ \A i \in 1 .. Len(a) :
              /\ ArgWord(a, Sp(a) + i) = Num(StrAt(a, i))
              /\ StrAt(a, i) \in Int /\ Sp(a) <= StrAt(a, i)
              /\ \A w \in Nat : w < a[i] => /\ StrAt(a, i) + w < Top
                                            /\ ArgWord(a, StrAt(a, i) + w) = Word("str", i, w)
<1>1. PICK n : n = Len(a)
  OBVIOUS
<1>2. PICK s : s = StrAt(a, 1)
  OBVIOUS
<1>3. /\ n \in Nat \ {0} /\ \A k \in 1 .. n : a[k] \in Nat \ {0}
      /\ StrAt(a, n + 1) = Top /\ \A k \in 1 .. (n + 1) : StrAt(a, k) \in Int
      /\ \A k \in 1 .. n : StrAt(a, k) = StrAt(a, k + 1) - a[k]
  BY <1>1, StrFacts
<1>4. DOMAIN a = 1 .. n
  BY <1>1, StrFacts
<1>5. s \in Int /\ Sp(a) = s - n - 2 /\ Top \in Int /\ PageSize \in Nat
  BY <1>1, <1>2, <1>3, Numbers DEF Sp, Top
<1>6. \A i \in 1 .. (n + 1) : s <= StrAt(a, i) /\ StrAt(a, i) <= Top
  <2> TAKE i \in 1 .. (n + 1)
  <2>1. 1 \in 1 .. (n + 1) /\ i \in 1 .. (n + 1) /\ n + 1 \in i .. (n + 1)
    BY <1>3
  <2> QED BY <1>1, <1>2, <1>3, <2>1, StrUp
<1>7. Top - PageSize <= Sp(a)
  BY <1>5, ArgsFit DEF ArgsFit
<1>8. Sp(a) + n + 1 < Top
  <2>1. s <= Top
    BY <1>3, <1>6
  <2> QED BY <1>3, <1>5, <2>1
<1>9. ArgWord(a, Sp(a)) = Num(n)
  <2>1. ~(Sp(a) >= s) /\ Sp(a) # Sp(a) + n + 1
    BY <1>3, <1>5
  <2> QED BY <1>1, <1>2, <2>1 DEF ArgWord
<1>10. ArgWord(a, Sp(a) + n + 1) = Num(0)
  <2>1. ~(Sp(a) + n + 1 >= s) /\ Sp(a) # Sp(a) + n + 1
    BY <1>3, <1>5
  <2> QED BY <1>1, <1>2, <2>1 DEF ArgWord
<1>11. ASSUME NEW i \in 1 .. n PROVE ArgWord(a, Sp(a) + i) = Num(StrAt(a, i)) /\ Sp(a) <= StrAt(a, i)
  <2>1. /\ ~(Sp(a) + i >= s) /\ Sp(a) + i # Sp(a) + n + 1 /\ Sp(a) + i # Sp(a)
        /\ (Sp(a) + i) - Sp(a) = i
    BY <1>3, <1>5
  <2>2. ArgWord(a, Sp(a) + i) = Num(StrAt(a, i))
    BY <1>1, <1>2, <2>1 DEF ArgWord
  <2>3. i \in 1 .. (n + 1)
    BY <1>3
  <2>4. s <= StrAt(a, i) /\ StrAt(a, i) \in Int
    BY <1>3, <1>6, <2>3
  <2> QED BY <1>3, <1>5, <2>2, <2>4
<1>12. ASSUME NEW i \in 1 .. n, NEW w \in Nat, w < a[i]
       PROVE  StrAt(a, i) + w < Top /\ ArgWord(a, StrAt(a, i) + w) = Word("str", i, w)
  <2>1. PICK x : x = StrAt(a, i) + w
    OBVIOUS
  <2>2. i \in 1 .. (n + 1) /\ i + 1 \in 1 .. (n + 1) /\ a[i] \in Nat
    BY <1>3
  <2>3. StrAt(a, i) \in Int /\ StrAt(a, i + 1) \in Int /\ StrAt(a, i) = StrAt(a, i + 1) - a[i]
        /\ s <= StrAt(a, i) /\ StrAt(a, i + 1) <= Top
    BY <1>3, <1>6, <2>2
  <2>4. x \in Int /\ x >= s /\ x < StrAt(a, i + 1) /\ x < Top /\ x - StrAt(a, i) = w
        /\ StrAt(a, i) <= x
    BY <1>5, <1>12, <2>1, <2>2, <2>3
  <2> DEFINE J == {j \in DOMAIN a : StrAt(a, j) <= x}
  <2>5. i \in J /\ \A j \in J : j \in 1 .. n /\ StrAt(a, j) <= x
    BY <1>4, <2>4
  <2> HIDE DEF J
  <2>6. \A j \in J : j <= i
    <3> SUFFICES ASSUME NEW j \in J, i < j PROVE FALSE
      BY <1>3, <2>5
    <3>1. j \in 1 .. n /\ j \in 1 .. (n + 1) /\ j \in (i + 1) .. (n + 1) /\ StrAt(a, j) <= x
      BY <1>3, <2>5
    <3>2. StrAt(a, i + 1) <= StrAt(a, j) /\ StrAt(a, j) \in Int
      BY <1>1, <1>3, <2>2, <3>1, StrUp
    <3> QED BY <2>3, <2>4, <3>1, <3>2
  <2>7. Max(J) = i
    <3>1. J \in SUBSET Int
      BY <1>3, <2>5
    <3>2. Max(J) \in J /\ \A z \in J : z <= Max(J)
      BY <2>5, <2>6, <3>1, MaxFacts
    <3>3. Max(J) \in Int /\ i \in Int /\ Max(J) <= i /\ i <= Max(J)
      BY <2>5, <2>6, <3>1, <3>2
    <3> QED BY <3>3
  <2>8. ArgWord(a, x) = Word("str", i, x - StrAt(a, i))
    <3>1. ArgWord(a, x) = Word("str", Max(J), x - StrAt(a, Max(J)))
      <4>1. x >= StrAt(a, 1) /\ x # Sp(a) + Len(a) + 1 /\ x # Sp(a)
        <5>1. Sp(a) < s - 1 /\ Sp(a) + n + 1 < s /\ Sp(a) \in Int
          BY <1>3, <1>5
        <5>2. x >= s /\ x # Sp(a) + n + 1 /\ x # Sp(a)
          BY <1>3, <1>5, <2>4, <5>1
        <5> QED BY <1>1, <1>2, <5>2
      <4> QED BY <4>1 DEF ArgWord, J
    <3> QED BY <2>7, <3>1
  <2> QED BY <2>1, <2>4, <2>8
<1>13. \A i \in 1 .. n : StrAt(a, i) \in Int
  BY <1>3
<1> QED BY <1>1, <1>3, <1>5, <1>7, <1>8, <1>9, <1>10, <1>11, <1>12, <1>13

\* A multiple grows with its factor.
LEMMA Monotone ==
  ASSUME NEW x \in Nat, NEW y \in Nat, NEW d \in Nat, x <= y
  PROVE  x * d <= y * d
<1>1. PICK e \in Nat : y = x + e
  <2>1. y - x \in Nat /\ y = x + (y - x)
    OBVIOUS
  <2> QED BY <2>1
<1>2. (x + e) * d = x * d + e * d /\ e * d \in Nat /\ x * d \in Nat
  BY <1>1
<1> QED BY <1>1, <1>2

\* A word of the stack is zero, or in its top page what the arguments put there.
LEMMA StackHolds ==
  ASSUME IInv, PInv, prog # NoProg, NEW a, a = prog.argv, NEW x \in Nat,
         StackBottom * PageSize <= x, x < Top
  PROVE  /\ x >= Top - PageSize => Holds(x) = IF x >= Sp(a) THEN ArgWord(a, x) ELSE Num(0)
         /\ x < Top - PageSize => Holds(x) = Num(0)
<1>1. PICK m : m = prog.img
  OBVIOUS
<1>2. PICK n : n = Len(m.segs)
  OBVIOUS
<1>3. PICK q : q = x \div PageSize
  OBVIOUS
<1>4. m \in Images /\ kernel # {} /\ Holding(table, page, cr3, m, n, End(m, n), StackPage(a))
  BY <1>1, <1>2 DEF PInv, Running
<1>5. PICK d \in Nat \ {0} : d = PageSize
  BY Numbers
<1>6. PICK t \in Nat : t = StackTop
  BY Numbers
<1>7. StackBottom \in Nat /\ Top = t * d /\ StackBottom * d <= x /\ x < t * d
  BY <1>5, <1>6, Numbers DEF Top
<1>8. q = x \div d /\ q \in Nat /\ q * d <= x /\ x < q * d + d
  BY <1>3, <1>5, DivFacts
<1>9. StackBottom <= q /\ q < t
  <2>1. PICK b \in Nat : b = StackBottom
    BY <1>7
  <2>2. q \in b .. (t - 1)
    BY <1>7, <1>8, <2>1, DivBetween
  <2> QED BY <1>6, <1>8, <2>1, <2>2
<1>10. q \in UserPages
  <2>1. 0 \in 0 .. Len(m.segs) /\ q < End(m, 0)
    BY <1>4, <1>6, <1>9, SegFacts DEF End
  <2> QED BY <1>4, <1>8, <2>1, SegFacts
<1>11. n \in Nat /\ Lies(m, n, End(m, n), 0, q)
  <2>1. n \in Nat /\ DOMAIN m.segs = 1 .. n
    <3>1. m.segs \in Seq(Segment)
      BY <1>4, ExecAssumption DEF ExecAssumption
    <3> QED BY <1>2, <3>1
  <2>2. Has(m, n, End(m, n), 0, q)
    BY <1>6, <1>9, <2>1 DEF Has, Upto, Base, End
  <2>3. ASSUME NEW j \in 0 .. n, j > 0 PROVE ~Has(m, n, End(m, n), j, q)
    <3>1. j \in DOMAIN m.segs
      BY <2>1, <2>3
    <3>2. End(m, j) <= StackBottom
      BY <1>4, <3>1, BelowStack DEF BelowStack
    <3>3. End(m, j) \in Nat
      BY <1>2, <1>4, <2>3, EndFacts
    <3>4. ~(q < End(m, j))
      BY <1>7, <1>8, <1>9, <3>2, <3>3
    <3> QED BY <3>4 DEF Has, Upto
  <2> QED BY <2>1, <2>2, <2>3 DEF Lies
<1>12. PICK f : f = Leaf(table, cr3, q).frame
  OBVIOUS
<1>13. f \in DOMAIN page
       /\ page[f] = IF q = StackTop - 1 THEN StackPage(a) ELSE FilledOf(m, 0, q)
  BY <1>4, <1>10, <1>11, <1>12 DEF Holding
<1>14. x = q * d + (x % d) /\ x % d \in 0 .. (d - 1)
  <2>1. x = d * (x \div d) + (x % d) /\ x % d \in 0 .. (d - 1)
    BY DivFacts
  <2>2. d * (x \div d) = q * d
    BY <1>8
  <2> QED BY <2>1, <2>2
<1>15. x >= Top - PageSize <=> q = t - 1
  <2>1. ASSUME q = t - 1 PROVE x >= Top - PageSize
    <3>1. q * d = t * d - d
      BY <1>6, <2>1
    <3> QED BY <1>5, <1>7, <1>8, <3>1
  <2>2. ASSUME q # t - 1 PROVE x < Top - PageSize
    <3>1. q + 1 \in Nat /\ t - 1 \in Nat /\ q + 1 <= t - 1
      BY <1>6, <1>8, <1>9, <2>2
    <3>2. (q + 1) * d <= (t - 1) * d
      BY <1>5, <3>1, Monotone
    <3>3. (q + 1) * d = q * d + d /\ (t - 1) * d = t * d - d /\ q * d \in Nat /\ t * d \in Nat
      BY <1>6, <1>8
    <3> QED BY <1>5, <1>7, <1>8, <3>2, <3>3
  <2>3. Top - PageSize \in Int
    BY <1>5, <1>7
  <2> QED BY <2>1, <2>2, <2>3
<1>16. CASE q = t - 1
  <2> DEFINE g == [w \in 0 .. (PageSize - 1) |->
                     IF Top - PageSize + w >= Sp(a) THEN ArgWord(a, Top - PageSize + w) ELSE Num(0)]
  <2>1. page[f] = [w \in 0 .. (PageSize - 1) |-> g[w]]
    BY <1>6, <1>13, <1>16 DEF StackPage
  <2>2. Top - PageSize + (x % PageSize) = x
    <3>1. q * d = t * d - d /\ t * d \in Nat
      BY <1>6, <1>16
    <3> QED BY <1>5, <1>7, <1>14, <3>1
  <2>3. g[x % PageSize] = IF x >= Sp(a) THEN ArgWord(a, x) ELSE Num(0)
    BY <1>5, <1>14, <2>2
  <2> HIDE DEF g
  <2>4. Holds(x) = g[x % PageSize]
    BY <1>3, <1>4, <1>10, <1>12, <1>13, <2>1, HoldsAt
  <2>5. ~(x < Top - PageSize)
    BY <1>5, <1>7, <1>15, <1>16
  <2> QED BY <2>3, <2>4, <2>5
<1>17. CASE q # t - 1
  <2> DEFINE g == [w \in 0 .. (PageSize - 1) |-> Num(0)]
  <2>1. page[f] = [w \in 0 .. (PageSize - 1) |-> g[w]]
    BY <1>6, <1>13, <1>17 DEF FilledOf, FromFile
  <2>2. g[x % PageSize] = Num(0)
    BY <1>5, <1>14
  <2> HIDE DEF g
  <2>3. Holds(x) = g[x % PageSize]
    BY <1>3, <1>4, <1>10, <1>12, <1>13, <2>1, HoldsAt
  <2> QED BY <1>15, <1>17, <2>2, <2>3
<1> QED BY <1>16, <1>17

\* At its first instruction rsp leads a program to its arguments, and the rest of its
\* stack is zero: ArgsSeen, for any arguments that fit and any image below the stack.
THEOREM ArgsAreSeen == Spec => []ArgsSeen
<1>1. ASSUME IInv, PInv PROVE ArgsSeen
  <2> SUFFICES ASSUME prog # NoProg, NEW a, a = prog.argv
               PROVE  /\ Holds(prog.sp) = Num(Len(a))
                      /\ \A i \in DOMAIN a : \A w \in 0 .. (a[i] - 1) :
                           Holds(Holds(prog.sp + i).n + w) = Word("str", i, w)
                      /\ Holds(prog.sp + Len(a) + 1) = Num(0)
                      /\ \A x \in (StackBottom * PageSize) .. (prog.sp - 1) : Holds(x) = Num(0)
    BY DEF ArgsSeen
  <2>1. PICK s : s = prog.sp
    OBVIOUS
  <2>2. PICK n : n = Len(a)
    OBVIOUS
  <2>3. a \in Argvs /\ s = Sp(a)
    BY <1>1, <2>1 DEF PInv, Running
  <2>4. /\ s \in Int /\ Top - PageSize <= s /\ s + n + 1 < Top
        /\ ArgWord(a, s) = Num(n) /\ ArgWord(a, s + n + 1) = Num(0)
        /\ \A i \in 1 .. n :
             /\ ArgWord(a, s + i) = Num(StrAt(a, i)) /\ StrAt(a, i) \in Int /\ s <= StrAt(a, i)
             /\ \A w \in Nat : w < a[i] => /\ StrAt(a, i) + w < Top
                                           /\ ArgWord(a, StrAt(a, i) + w) = Word("str", i, w)
    BY <2>2, <2>3, ArgFacts
  <2>5. n \in Nat /\ DOMAIN a = 1 .. n
    BY <2>2, <2>3, StrFacts
  <2>6. PICK low : low = StackBottom * PageSize
    OBVIOUS
  <2>7. PICK tp : tp = Top - PageSize
    OBVIOUS
  <2>8. low \in Nat /\ tp \in Int /\ Top \in Int /\ low <= tp
    <3>1. PICK d \in Nat \ {0} : d = PageSize
      BY Numbers
    <3>2. PICK t \in Nat, b \in Nat : t = StackTop /\ b = StackBottom /\ b <= t - 1
      <4>1. StackPages \in 1 .. StackTop
        BY ExecAssumption DEF ExecAssumption
      <4> QED BY <4>1, Numbers DEF StackBottom
    <3>3. t - 1 \in Nat
      BY <3>2
    <3>4. b * d <= (t - 1) * d
      BY <3>2, <3>3, Monotone
    <3>5. (t - 1) * d = t * d - d /\ t * d \in Nat /\ b * d \in Nat
      BY <3>2
    <3> QED BY <2>6, <2>7, <3>1, <3>2, <3>4, <3>5 DEF Top
  <2>9. ASSUME NEW x \in Int, s <= x, x < Top
        PROVE  Holds(x) = ArgWord(a, x)
    <3>1. x \in Nat /\ low <= x /\ x >= tp
      BY <2>4, <2>7, <2>8, <2>9
    <3> QED BY <1>1, <2>3, <2>6, <2>7, <2>9, <3>1, StackHolds
  <2>10. Holds(s) = Num(n) /\ Holds(s + n + 1) = Num(0)
    <3>1. s < Top /\ s + n + 1 \in Int /\ s <= s + n + 1 /\ s <= s
      BY <2>4, <2>5, <2>8
    <3> QED BY <2>4, <2>9, <3>1
  <2>11. ASSUME NEW i \in DOMAIN a, NEW w \in 0 .. (a[i] - 1)
         PROVE  Holds(Holds(s + i).n + w) = Word("str", i, w)
    <3>0. a[i] \in Nat
      BY <2>3, StrFacts
    <3>1. i \in 1 .. n /\ w \in Nat /\ w < a[i]
      BY <2>5, <3>0
    <3>2. s + i \in Int /\ s <= s + i /\ s + i < Top
      BY <2>4, <2>5, <2>8, <3>1
    <3>3. Holds(s + i) = Num(StrAt(a, i))
      BY <2>4, <2>9, <3>1, <3>2
    <3>4. Holds(s + i).n = StrAt(a, i)
      BY <3>3 DEF Num, Word
    <3>5. /\ StrAt(a, i) + w \in Int /\ s <= StrAt(a, i) + w /\ StrAt(a, i) + w < Top
          /\ ArgWord(a, StrAt(a, i) + w) = Word("str", i, w)
      BY <2>4, <3>1
    <3> QED BY <2>9, <3>4, <3>5
  <2>12. ASSUME NEW x \in low .. (s - 1)
         PROVE  Holds(x) = Num(0)
    <3>1. x \in Nat /\ low <= x /\ x < Top /\ ~(x >= s) /\ (x >= tp \/ x < tp)
      BY <2>4, <2>5, <2>8
    <3> QED BY <1>1, <2>3, <2>6, <2>7, <3>1, StackHolds
  <2> QED BY <2>1, <2>2, <2>6, <2>10, <2>11, <2>12
<1>2. IInv /\ PInv => ArgsSeen
  BY <1>1
<1> QED BY <1>2, PInvAlways, PTL

================================================================================
