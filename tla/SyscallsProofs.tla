----------------------------- MODULE SyscallsProofs ----------------------------
(***************************************************************************)
(* Proofs about the filesystem calls (Syscalls.tla), for every tree, mount       *)
(* table, descriptor table and every set of paths that programs pass.            *)
(***************************************************************************)
EXTENDS Syscalls, WellFoundedInduction, SequenceTheorems, TLAPS

--------------------------------------------------------------------------------
(* Induction, for sets: the walks below are functions defined by recursion.      *)
\* A set of numbers has a least one.
LEMMA LeastNat ==
  ASSUME NEW T \in SUBSET Nat, T # {}
  PROVE  \E x \in T : \A y \in T : x <= y
<1>1. PICK x \in T : \A y \in T : ~(<<y, x>> \in OpToRel(<, Nat))
  BY NatLessThanWellFounded, WFMin
<1>2. \A y \in T : ~(y < x)
  BY <1>1 DEF OpToRel
<1> QED BY <1>2

\* What holds of 0 and goes on from each number to the next holds up to n.
LEMMA UpTo ==
  ASSUME NEW n \in Nat, NEW T, 0 \in T, \A i \in 1 .. n : i - 1 \in T => i \in T
  PROVE  \A i \in 0 .. n : i \in T
<1> DEFINE Bad == {i \in 0 .. n : i \notin T}
<1> SUFFICES ASSUME Bad # {} PROVE FALSE
  OBVIOUS
<1>1. PICK x \in Bad : \A y \in Bad : x <= y
  <2>1. Bad \in SUBSET Nat
    OBVIOUS
  <2> QED BY <2>1, LeastNat
<1>2. x \in 1 .. n /\ x - 1 \in 0 .. n
  BY <1>1
<1>3. x - 1 \in T
  BY <1>1, <1>2
<1> QED BY <1>1, <1>2, <1>3

\* f begins with a and each further value follows from the one before by g.
Steps(n, S, a, g) == n \in Nat /\ a \in S /\ \A x \in S, i \in 1 .. n : g[<<x, i>>] \in S
Run(f, n, S, a, g) ==
  f \in [0 .. n -> S] /\ f[0] = a /\ \A i \in 1 .. n : f[i] = g[<<f[i - 1], i>>]

\* There is such a function.
LEMMA Iterated ==
  ASSUME NEW n, NEW S, NEW a, NEW g, Steps(n, S, a, g)
  PROVE  \E f : Run(f, n, S, a, g)
<1>s. n \in Nat /\ a \in S /\ \A x \in S, i \in 1 .. n : g[<<x, i>>] \in S
  BY DEF Steps
<1> DEFINE Good(f, k) == f[0] = a /\ \A i \in 1 .. k : f[i] = g[<<f[i - 1], i>>]
           T == {k \in 0 .. n : \E f \in [0 .. k -> S] : Good(f, k)}
<1>1. 0 \in T
  <2> DEFINE f == [i \in 0 .. 0 |-> a]
  <2>1. f \in [0 .. 0 -> S] /\ f[0] = a
    BY <1>s
  <2> HIDE DEF f
  <2>2. Good(f, 0)
    BY <2>1
  <2> QED BY <1>s, <2>1, <2>2
<1>2. ASSUME NEW k \in 1 .. n, k - 1 \in T PROVE k \in T
  <2>0. k \in Nat /\ k \in 0 .. n
    BY <1>s
  <2>1. PICK f \in [0 .. (k - 1) -> S] : Good(f, k - 1)
    BY <1>2
  <2> DEFINE h == [i \in 0 .. k |-> IF i < k THEN f[i] ELSE g[<<f[k - 1], k>>]]
  <2>2. f[k - 1] \in S /\ g[<<f[k - 1], k>>] \in S
    <3>1. k - 1 \in 0 .. (k - 1)
      BY <2>0
    <3> QED BY <1>s, <3>1
  <2>3. h \in [0 .. k -> S]
    BY <2>0, <2>2
  <2>4. \A i \in 0 .. k : h[i] = IF i < k THEN f[i] ELSE g[<<f[k - 1], k>>]
    OBVIOUS
  <2> HIDE DEF h
  <2>5. Good(h, k)
    <3>1. h[0] = a
      BY <2>0, <2>1, <2>4
    <3>2. ASSUME NEW i \in 1 .. k PROVE h[i] = g[<<h[i - 1], i>>]
      <4>1. h[i - 1] = f[i - 1] /\ i \in 0 .. k
        BY <2>0, <2>4, <3>2
      <4>2. CASE i < k
        BY <2>0, <2>1, <2>4, <4>1, <4>2
      <4>3. CASE i = k
        BY <2>4, <4>1, <4>3
      <4> QED BY <2>0, <4>2, <4>3
    <3> QED BY <3>1, <3>2
  <2> QED BY <2>0, <2>3, <2>5
<1>3. \A k \in 0 .. n : k \in T
  <2> HIDE DEF T
  <2> QED BY <1>s, <1>1, <1>2, UpTo
<1>4. n \in 0 .. n
  BY <1>s
<1> QED BY <1>3, <1>4 DEF Run
--------------------------------------------------------------------------------
(* The invariant, over any sequence ns of vnodes, so that it can be followed      *)
(* through the steps of one call.                                               *)
NodeSet == [name : Names, dir : BOOLEAN, fs : {"tmpfs", "proc"}, mountpt : BOOLEAN,
            mount : Nat, kids : Seq(Nat), data : Seq(Nat)]
Ids     == VnodeIds \cup {NULL}

\* Vnodes have their fields' types and none holds more than the heap allows.
Typed(ns) ==
  /\ ns \in Seq(NodeSet) /\ Len(ns) <= MaxNodes
  /\ \A n \in DOMAIN ns : Len(ns[n].data) <= MaxFile

\* Every vnode pointer names a vnode that exists, and the entries of a tmpfs
\* directory are tmpfs vnodes: no directory entry is the root of a procfs mount.
Linked(ns) ==
  \A n \in DOMAIN ns :
    /\ ns[n].mount \in DOMAIN ns \cup {NULL}
    /\ ns[n].fs = "proc" => ns[n].kids = <<>>
    /\ \A i \in DOMAIN ns[n].kids :
         ns[n].kids[i] \in DOMAIN ns /\ ns[ns[n].kids[i]].fs = "tmpfs"

\* The parts of TreeSound and MountFlagExact.
Ordered(ns) ==
  \A n \in DOMAIN ns :
    /\ Len(ns[n].kids) <= MaxKids
    /\ \A i \in 2 .. Len(ns[n].kids) : ns[n].kids[i - 1] < ns[n].kids[i]
Apart(ns) ==
  \A d, e \in DOMAIN ns : d # e =>
    \A i \in DOMAIN ns[d].kids, j \in DOMAIN ns[e].kids : ns[d].kids[i] # ns[e].kids[j]
Flags(ns) ==
  \A n \in DOMAIN ns :
    ns[n].mountpt <=> ns[n].mount # NULL \/ (ns[n].fs = "proc" /\ ns[n].dir)

Tree(ns) == Typed(ns) /\ Linked(ns) /\ Ordered(ns) /\ Apart(ns) /\ Flags(ns)

\* The roots and the mount table.
Roots ==
  /\ vfs_root \in VnodeIds /\ proc_root \in Ids
  /\ mounts \in Seq(Nat) /\ Len(mounts) <= MaxMounts
  /\ \A i \in DOMAIN mounts : mounts[i] \in VnodeIds

\* The list of procfs files.
ProcFilesListed ==
  /\ procs \in Seq(Nat) /\ Len(procs) <= MaxProc
  /\ \A i \in DOMAIN procs :
       procs[i] \in VnodeIds /\ nodes[procs[i]].fs = "proc" /\ ~nodes[procs[i]].dir

\* A descriptor in use holds a file and stands inside it; a free one is blank.
FdSet == [used : BOOLEAN, node : Nat, offset : Nat]
Descriptor(ns, d) ==
  /\ d.offset <= MaxFile
  /\ d.used => /\ d.node \in DOMAIN ns /\ ~ns[d.node].dir
               /\ ns[d.node].fs = "tmpfs" => d.offset <= Len(ns[d.node].data)
  /\ ~d.used => d = FreeFd
Descriptors == fds \in [Fds -> FdSet] /\ \A f \in Fds : Descriptor(nodes, fds[f])

\* The inductive invariant.
IInv == Tree(nodes) /\ Roots /\ ProcFilesListed /\ ProcNamesDistinct /\ Descriptors

\* What the constants give.
LEMMA Constants ==
  /\ MaxParts \in Nat \ {0} /\ MaxMounts \in Nat \ {0} /\ MaxKids \in Nat
  /\ MaxProc \in Nat /\ MaxNodes \in Nat \ {0} /\ MaxFile \in Nat
  /\ FdMax \in Nat /\ Paths \subseteq Seq(STRING) /\ Buffers \subseteq Seq(Nat)
  /\ ReadSizes \subseteq Nat /\ ProcFiles \in Seq(STRING)
BY VfsAssumption, SyscallsAssumption
--------------------------------------------------------------------------------
(* Lookups.                                                                     *)
\* What split_path has after the component at i, given what it had before.
NextPart(parts, path, i) ==
  IF path[i] = "" \/ Len(parts) = MaxParts THEN parts ELSE Append(parts, path[i])

\* u is what split_path has found after each component of the path.
Splits(u, path) ==
  /\ u[0] = <<>> /\ \A i \in 0 .. Len(path) : u[i] \in Seq(STRING)
  /\ \A i \in 1 .. Len(path) : u[i] = NextPart(u[i - 1], path, i)
  /\ Parts(path) = u[Len(path)]

\* split_path goes through the path component by component.
LEMMA SplitExists ==
  ASSUME NEW path \in Seq(STRING)
  PROVE  \E u : Splits(u, path)
<1> DEFINE n == Len(path)
           S == Seq(STRING)
           Next1(parts, i) == NextPart(parts, path, i)
           Is(u) == u = [i \in 0 .. n |-> IF i = 0 THEN <<>> ELSE Next1(u[i - 1], i)]
           u == CHOOSE u : Is(u)
           g == [x \in S \X (1 .. n) |-> Next1(x[1], x[2])]
<1>1. n \in Nat /\ <<>> \in S
  OBVIOUS
<1>2. \A parts \in S, i \in 1 .. n : Next1(parts, i) \in S
  <2> TAKE parts \in S, i \in 1 .. n
  <2>1. path[i] \in STRING
    OBVIOUS
  <2>2. Append(parts, path[i]) \in S
    BY <2>1
  <2> QED BY <2>2 DEF NextPart
<1>3. Parts(path) = u[n]
  BY DEF Parts, NextPart
<1> HIDE DEF S, Next1, n
<1>4. g \in [S \X (1 .. n) -> S] /\ \A parts \in S, i \in 1 .. n : g[<<parts, i>>] = Next1(parts, i)
  BY <1>2
<1> HIDE DEF g
<1>5. Steps(n, S, <<>>, g)
  BY <1>1, <1>2, <1>4 DEF Steps
<1> PICK f : Run(f, n, S, <<>>, g)
  BY <1>5, Iterated
<1> USE DEF Run
<1>6. Is(f)
  <2>1. \A i \in 0 .. n : f[i] = IF i = 0 THEN <<>> ELSE Next1(f[i - 1], i)
    <3>1. \A i \in 1 .. n : i - 1 \in 0 .. n
      BY <1>1
    <3>2. \A i \in 1 .. n : f[i - 1] \in S
      BY <3>1
    <3>3. ASSUME NEW i \in 0 .. n PROVE f[i] = IF i = 0 THEN <<>> ELSE Next1(f[i - 1], i)
      <4>1. CASE i = 0
        BY <4>1
      <4>2. CASE i # 0
        <5>1. i \in 1 .. n
          BY <1>1, <4>2
        <5> QED BY <1>4, <3>2, <4>2, <5>1
      <4> QED BY <4>1, <4>2
    <3> QED BY <3>3
  <2>2. f = [i \in 0 .. n |-> f[i]]
    OBVIOUS
  <2> QED BY <2>1, <2>2
<1>7. Is(u)
  <2> HIDE DEF Is
  <2> QED BY <1>6
<1> HIDE DEF u
<1>8. \A i \in 0 .. n : u[i] = IF i = 0 THEN <<>> ELSE Next1(u[i - 1], i)
  BY <1>7
<1> HIDE DEF Is
<1> DEFINE T == {i \in 0 .. n : u[i] \in S}
<1>9. 0 \in T /\ \A i \in 1 .. n : i - 1 \in T => i \in T
  <2>1. 0 \in T
    BY <1>1, <1>8
  <2>2. ASSUME NEW i \in 1 .. n, i - 1 \in T PROVE i \in T
    <3>1. u[i] = Next1(u[i - 1], i) /\ i \in 0 .. n
      BY <1>1, <1>8
    <3> QED BY <1>2, <2>2, <3>1
  <2> QED BY <2>1, <2>2
<1>10. \A i \in 0 .. n : u[i] \in S
  <2> HIDE DEF T
  <2>1. \A i \in 0 .. n : i \in T
    BY <1>1, <1>9, UpTo
  <2> QED BY <2>1 DEF T
<1>11. u[0] = <<>> /\ \A i \in 1 .. n : u[i] = Next1(u[i - 1], i)
  BY <1>1, <1>8
<1> QED BY <1>3, <1>10, <1>11 DEF Splits, S, n, Next1

\* A path's components are names.
LEMMA PartsType ==
  ASSUME NEW path \in Seq(STRING)
  PROVE  Parts(path) \in Seq(STRING)
<1>1. PICK u : Splits(u, path)
  BY SplitExists
<1>2. Len(path) \in 0 .. Len(path)
  OBVIOUS
<1> QED BY <1>1, <1>2 DEF Splits

\* The components of a path are those of its parent and, unless it is empty or
\* one too many, its last.
LEMMA PartsOfParent ==
  ASSUME NEW path \in Seq(STRING), path # <<>>
  PROVE  /\ ParentPath(path) \in Seq(STRING)
         /\ \/ Parts(path) = Parts(ParentPath(path))
            \/ Parts(path) = Append(Parts(ParentPath(path)), LastName(path))
<1> DEFINE n == Len(path)
           F == ParentPath(path)
<1>1. n \in Nat /\ n # 0 /\ n \in 1 .. n /\ n - 1 \in Nat /\ n \in 0 .. n
  OBVIOUS
<1>2. F \in Seq(STRING) /\ Len(F) = n - 1 /\ \A i \in 1 .. (n - 1) : F[i] = path[i]
  <2>1. F = SubSeq(path, 1, n - 1)
    BY DEF ParentPath, Front
  <2>2. \A i \in 1 .. (n - 1) : path[i] \in STRING
    OBVIOUS
  <2> DEFINE G == SubSeq(path, 1, n - 1)
  <2>0. 1 \in Int /\ n - 1 \in Int
    OBVIOUS
  <2>3. /\ G \in Seq(STRING) /\ Len(G) = (IF 1 <= n - 1 THEN n - 1 - 1 + 1 ELSE 0)
        /\ \A i \in 1 .. (n - 1 - 1 + 1) : G[i] = path[1 + i - 1]
    BY <2>0, <2>2, SubSeqProperties
  <2> HIDE DEF F, G, n
  <2>4. n - 1 - 1 + 1 = n - 1 /\ \A i \in 1 .. (n - 1) : 1 + i - 1 = i
    BY <1>1
  <2>5. Len(G) = n - 1
    BY <1>1, <2>3, <2>4
  <2>6. \A i \in 1 .. (n - 1) : G[i] = path[i]
    <3>1. ASSUME NEW i \in 1 .. (n - 1) PROVE G[i] = path[i]
      <4>1. G[i] = path[1 + i - 1]
        BY <2>3, <2>4
      <4>2. 1 + i - 1 = i
        OBVIOUS
      <4> QED BY <4>1, <4>2
    <3> QED BY <3>1
  <2> QED BY <2>1, <2>3, <2>5, <2>6 DEF G
<1>3. LastName(path) = path[n]
  BY DEF LastName, Last
<1>4. PICK u : Splits(u, path)
  BY SplitExists
<1> HIDE DEF F
<1>5. PICK v : Splits(v, F)
  BY <1>2, SplitExists
<1>6. /\ u[0] = <<>> /\ Parts(path) = u[n]
      /\ \A i \in 1 .. n : u[i] = NextPart(u[i - 1], path, i)
  BY <1>4 DEF Splits
<1>7. /\ v[0] = <<>> /\ Parts(F) = v[n - 1]
      /\ \A i \in 1 .. (n - 1) : v[i] = NextPart(v[i - 1], F, i)
  BY <1>2, <1>5 DEF Splits
<1> HIDE DEF n
<1> DEFINE T == {i \in 0 .. (n - 1) : u[i] = v[i]}
<1>8. 0 \in T
  BY <1>1, <1>6, <1>7
<1>9. ASSUME NEW i \in 1 .. (n - 1), i - 1 \in T PROVE i \in T
  <2>1. i \in 0 .. (n - 1) /\ i \in 1 .. n /\ u[i - 1] = v[i - 1] /\ F[i] = path[i]
    BY <1>1, <1>2, <1>9
  <2> QED BY <1>6, <1>7, <2>1 DEF NextPart
<1>10. u[n - 1] = v[n - 1]
  <2> HIDE DEF T
  <2>1. \A i \in 0 .. (n - 1) : i \in T
    BY <1>1, <1>8, <1>9, UpTo
  <2>2. n - 1 \in T
    BY <1>1, <2>1
  <2> QED BY <2>2 DEF T
<1>11. Parts(path) = NextPart(Parts(F), path, n)
  BY <1>1, <1>6, <1>7, <1>10
<1> QED BY <1>2, <1>3, <1>11 DEF NextPart, F
--------------------------------------------------------------------------------
\* The smallest of a set of numbers is in it.
LEMMA MinFacts ==
  ASSUME NEW T \in SUBSET Nat, T # {}
  PROVE  Min(T) \in T /\ \A y \in T : Min(T) <= y
<1>1. \E x \in T : \A y \in T : x =< y
  BY LeastNat
<1> QED BY <1>1 DEF Min

\* The first child of a name is a child of that name.
LEMMA FinddirFacts ==
  ASSUME Tree(nodes), ProcFilesListed, NEW d \in VnodeIds, NEW name
  PROVE  Finddir(d, name) # NULL =>
           \E i \in DOMAIN Kids(d) : Finddir(d, name) = Kids(d)[i]
<1> DEFINE hits == {i \in DOMAIN Kids(d) : nodes[Kids(d)[i]].name = name}
<1>1. Kids(d) \in Seq(Nat)
  <2>1. nodes[d] \in NodeSet
    BY DEF Tree, Typed, VnodeIds
  <2>2. nodes[d].kids \in Seq(Nat)
    BY <2>1 DEF NodeSet
  <2> QED BY <2>2 DEF Kids, ProcFilesListed
<1>2. hits \in SUBSET Nat
  BY <1>1
<1>3. Finddir(d, name) = IF hits = {} THEN NULL ELSE Kids(d)[Min(hits)]
  BY DEF Finddir
<1>4. hits # {} => Min(hits) \in hits
  <2> HIDE DEF hits
  <2> QED BY <1>2, MinFacts
<1> QED BY <1>3, <1>4

\* So it is a vnode, or none, and never the root of a procfs mount.
LEMMA FinddirType ==
  ASSUME Tree(nodes), ProcFilesListed, NEW d \in VnodeIds, NEW name
  PROVE  /\ Finddir(d, name) \in Ids
         /\ Finddir(d, name) # NULL =>
              nodes[Finddir(d, name)].fs = "tmpfs" \/ ~nodes[Finddir(d, name)].dir
<1>1. CASE Finddir(d, name) = NULL
  BY <1>1 DEF Ids
<1>2. CASE Finddir(d, name) # NULL
  <2>1. PICK i \in DOMAIN Kids(d) : Finddir(d, name) = Kids(d)[i]
    BY <1>2, FinddirFacts
  <2>2. CASE nodes[d].fs = "proc"
    BY <2>1, <2>2 DEF Kids, ProcFilesListed, Ids
  <2>3. CASE nodes[d].fs # "proc"
    BY <2>1, <2>3 DEF Kids, Tree, Linked, Ids, VnodeIds
  <2> QED BY <2>2, <2>3
<1> QED BY <1>1, <1>2

\* One round of the walk leads to a vnode or to none.
LEMMA HopType ==
  ASSUME Tree(nodes), ProcFilesListed, NEW d \in Ids, NEW name
  PROVE  Hop(d, name) \in Ids
<1>1. CASE d = NULL \/ ~nodes[d].dir
  BY <1>1 DEF Hop, Ids
<1>2. CASE ~(d = NULL \/ ~nodes[d].dir)
  <2>1. d \in VnodeIds
    BY <1>2 DEF Ids
  <2>2. Finddir(d, name) \in Ids
    BY <2>1, FinddirType
  <2>3. Follow(Finddir(d, name)) \in Ids
    BY <2>2 DEF Follow, Ids, Tree, Linked, VnodeIds
  <2> QED BY <1>2, <2>3 DEF Hop
<1> QED BY <1>1, <1>2

\* w is where vfs_resolve stands after each component of the path.
Walks(w, path) ==
  /\ w[0] = vfs_root /\ \A i \in 0 .. Len(Parts(path)) : w[i] \in Ids
  /\ \A i \in 1 .. Len(Parts(path)) : w[i] = Hop(w[i - 1], Parts(path)[i])
  /\ Resolve(path) = w[Len(Parts(path))]

\* It stands on a vnode, or on none, at every component.
LEMMA WalkExists ==
  ASSUME Tree(nodes), ProcFilesListed, Roots, NEW path \in Seq(STRING)
  PROVE  \E w : Walks(w, path)
<1> DEFINE p == Parts(path)
           n == Len(p)
           Is(u) == u = [i \in 0 .. n |-> IF i = 0 THEN vfs_root ELSE Hop(u[i - 1], p[i])]
           u == CHOOSE u : Is(u)
           g == [x \in Ids \X (1 .. n) |-> Hop(x[1], p[x[2]])]
<1>1. n \in Nat /\ vfs_root \in Ids
  BY PartsType DEF Roots, Ids
<1>2. \A d \in Ids, i \in 1 .. n : Hop(d, p[i]) \in Ids
  BY HopType
<1>3. Resolve(path) = u[n]
  BY DEF Resolve
<1> HIDE DEF n, p
<1>4. \A d \in Ids, i \in 1 .. n : g[<<d, i>>] = Hop(d, p[i])
  OBVIOUS
<1> HIDE DEF g
<1>5. Steps(n, Ids, vfs_root, g)
  BY <1>1, <1>2, <1>4 DEF Steps
<1> PICK f : Run(f, n, Ids, vfs_root, g)
  BY <1>5, Iterated
<1> USE DEF Run
<1>6. Is(f)
  <2>1. \A i \in 0 .. n : f[i] = IF i = 0 THEN vfs_root ELSE Hop(f[i - 1], p[i])
    <3>1. \A i \in 1 .. n : i - 1 \in 0 .. n
      BY <1>1
    <3>2. \A i \in 1 .. n : f[i - 1] \in Ids
      BY <3>1
    <3>3. ASSUME NEW i \in 0 .. n PROVE f[i] = IF i = 0 THEN vfs_root ELSE Hop(f[i - 1], p[i])
      <4>1. CASE i = 0
        BY <4>1
      <4>2. CASE i # 0
        <5>1. i \in 1 .. n
          BY <1>1, <4>2
        <5> QED BY <1>4, <3>2, <4>2, <5>1
      <4> QED BY <4>1, <4>2
    <3> QED BY <3>3
  <2>2. f = [i \in 0 .. n |-> f[i]]
    OBVIOUS
  <2> QED BY <2>1, <2>2
<1>7. Is(u)
  <2> HIDE DEF Is
  <2> QED BY <1>6
<1> HIDE DEF u
<1>8. \A i \in 0 .. n : u[i] = IF i = 0 THEN vfs_root ELSE Hop(u[i - 1], p[i])
  BY <1>7
<1> HIDE DEF Is
<1> DEFINE T == {i \in 0 .. n : u[i] \in Ids}
<1>9. 0 \in T /\ \A i \in 1 .. n : i - 1 \in T => i \in T
  <2>1. 0 \in T
    BY <1>1, <1>8
  <2>2. ASSUME NEW i \in 1 .. n, i - 1 \in T PROVE i \in T
    <3>1. u[i] = Hop(u[i - 1], p[i]) /\ i \in 0 .. n
      BY <1>1, <1>8
    <3> QED BY <1>2, <2>2, <3>1
  <2> QED BY <2>1, <2>2
<1>10. \A i \in 0 .. n : u[i] \in Ids
  <2> HIDE DEF T
  <2>1. \A i \in 0 .. n : i \in T
    BY <1>1, <1>9, UpTo
  <2> QED BY <2>1 DEF T
<1>11. u[0] = vfs_root /\ \A i \in 1 .. n : u[i] = Hop(u[i - 1], p[i])
  BY <1>1, <1>8
<1> QED BY <1>3, <1>10, <1>11 DEF Walks, n, p

\* A path resolves to a vnode or to none, however long it is.
LEMMA ResolveType ==
  ASSUME Tree(nodes), ProcFilesListed, Roots, NEW path \in Seq(STRING)
  PROVE  Resolve(path) \in Ids
<1>1. PICK w : Walks(w, path)
  BY WalkExists
<1>2. Len(Parts(path)) \in 0 .. Len(Parts(path))
  BY PartsType
<1> QED BY <1>1, <1>2 DEF Walks

\* Whether a path has a component more than its parent.
Extends(path) ==
  path # <<>> /\ Parts(path) = Append(Parts(ParentPath(path)), LastName(path))

\* A path leads one round further than its parent, or, with nothing but a slash
\* or a component too many behind it, to the same vnode.
LEMMA ResolveLast ==
  ASSUME Tree(nodes), ProcFilesListed, Roots, NEW path \in Seq(STRING)
  PROVE  Resolve(path) = IF Extends(path) THEN Hop(Resolve(ParentPath(path)), LastName(path))
                         ELSE Resolve(ParentPath(path))
<1>1. CASE path = <<>>
  BY <1>1 DEF ParentPath, Extends
<1>2. CASE path # <<>>
  <2> DEFINE F == ParentPath(path)
             p == Parts(path)
             P == Parts(F)
             m == Len(P)
  <2>1. /\ F \in Seq(STRING) /\ (p = P \/ p = Append(P, LastName(path)))
        /\ Extends(path) <=> p = Append(P, LastName(path))
    BY <1>2, PartsOfParent DEF Extends
  <2>2. PICK w : Walks(w, path)
    BY WalkExists
  <2> HIDE DEF F
  <2>3. PICK v : Walks(v, F)
    BY <2>1, WalkExists
  <2>4. P \in Seq(STRING)
    BY <2>1, PartsType
  <2>5. /\ w[0] = vfs_root /\ \A i \in 1 .. Len(p) : w[i] = Hop(w[i - 1], p[i])
        /\ Resolve(path) = w[Len(p)]
    BY <2>2 DEF Walks
  <2>6. /\ v[0] = vfs_root /\ \A i \in 1 .. m : v[i] = Hop(v[i - 1], P[i])
        /\ Resolve(F) = v[m]
    BY <2>3 DEF Walks
  <2> HIDE DEF p, P
  <2>7. /\ m \in Nat /\ m <= Len(p) /\ Len(p) \in Nat /\ \A i \in 1 .. m : p[i] = P[i]
        /\ IF Extends(path) THEN Len(p) = m + 1 /\ p[m + 1] = LastName(path)
                            ELSE Len(p) = m
    <3>1. CASE p = P
      <4>1. ~Extends(path)
        <5>1. Len(Append(P, LastName(path))) = Len(P) + 1 /\ Len(P) \in Nat
          BY <2>4
        <5> QED BY <2>1, <3>1, <5>1
      <4> QED BY <2>4, <3>1, <4>1
    <3>2. CASE p = Append(P, LastName(path))
      BY <2>1, <2>4, <3>2
    <3> QED BY <2>1, <3>1, <3>2
  <2> HIDE DEF m
  <2> DEFINE T == {i \in 0 .. m : w[i] = v[i]}
  <2>8. 0 \in T
    BY <2>5, <2>6, <2>7
  <2>9. ASSUME NEW i \in 1 .. m, i - 1 \in T PROVE i \in T
    <3>1. i \in 0 .. m /\ i \in 1 .. Len(p) /\ w[i - 1] = v[i - 1] /\ p[i] = P[i]
      BY <2>7, <2>9
    <3> QED BY <2>5, <2>6, <3>1
  <2>10. w[m] = v[m]
    <3> HIDE DEF T
    <3>1. \A i \in 0 .. m : i \in T
      BY <2>7, <2>8, <2>9, UpTo
    <3>2. m \in T
      BY <2>7, <3>1
    <3> QED BY <3>2 DEF T
  <2>11. CASE Extends(path)
    <3>1. m + 1 \in 1 .. Len(p) /\ m + 1 - 1 = m
      BY <2>7, <2>11
    <3>2. w[m + 1] = Hop(w[m], LastName(path))
      BY <2>5, <2>7, <2>11, <3>1
    <3> QED BY <2>5, <2>6, <2>7, <2>10, <2>11, <3>2 DEF F
  <2>12. CASE ~Extends(path)
    BY <2>5, <2>6, <2>7, <2>10, <2>12 DEF F
  <2> QED BY <2>11, <2>12
<1> QED BY <1>1, <1>2

\* The parent of a path is a path and its last component a name.
LEMMA SplitParent ==
  ASSUME NEW path \in Paths
  PROVE  ParentPath(path) \in Seq(STRING) /\ LastName(path) \in Names
<1>1. path \in Seq(STRING)
  BY Constants
<1>2. ParentPath(path) \in Seq(STRING)
  <2>1. CASE path = <<>>
    BY <1>1, <2>1 DEF ParentPath
  <2>2. CASE path # <<>>
    <3>1. \A i \in 1 .. (Len(path) - 1) : path[i] \in STRING
      BY <1>1
    <3>2. SubSeq(path, 1, Len(path) - 1) \in Seq(STRING)
      BY <1>1, <3>1, SubSeqProperties
    <3> QED BY <2>2, <3>2 DEF ParentPath, Front
  <2> QED BY <2>1, <2>2
<1>3. LastName(path) \in Names
  BY DEF Names
<1> QED BY <1>2, <1>3
--------------------------------------------------------------------------------
(* What the calls do to the vnodes.                                             *)
\* The vnodes of ns go on in ms as what they were, none with a shorter file.
Keeps(ns, ms) ==
  \A n \in DOMAIN ns :
    /\ n \in DOMAIN ms
    /\ ms[n].name = ns[n].name /\ ms[n].dir = ns[n].dir /\ ms[n].fs = ns[n].fs
    /\ Len(ns[n].data) <= Len(ms[n].data)

\* No vnode of ns has more entries in ms.
Thins(ns, ms) == \A n \in DOMAIN ns : Len(ms[n].kids) <= Len(ns[n].kids)

\* The vnodes of ns keep their mounts, and each its entries or gets one more.
Grows(ns, ms) ==
  \A n \in DOMAIN ns :
    /\ ms[n].mount = ns[n].mount
    /\ ms[n].kids = ns[n].kids \/ ms[n].kids = Append(ns[n].kids, Len(ns) + 1)

\* A vnode just made: no entries, nothing mounted on it, its flag right.
Fresh(r) ==
  /\ r \in NodeSet /\ r.kids = <<>> /\ r.mount = NULL /\ Len(r.data) <= MaxFile
  /\ r.mountpt <=> r.fs = "proc" /\ r.dir

\* What Node makes.
LEMMA NodeFacts ==
  ASSUME NEW name \in Names, NEW dir \in BOOLEAN, NEW fs \in {"tmpfs", "proc"}
  PROVE  LET r == Node(name, dir, fs)
         IN  /\ r \in NodeSet /\ r.name = name /\ r.dir = dir /\ r.fs = fs
             /\ r.mountpt = FALSE /\ r.mount = NULL /\ r.kids = <<>> /\ r.data = <<>>
BY DEF Node, NodeSet, NULL

\* A vnode that is not the root of a procfs mount is fresh as Node leaves it, and
\* so is a file that SYS_WRITE has filled and a root that procfs_create has marked.
LEMMA FreshNode ==
  ASSUME NEW name \in Names, NEW dir \in BOOLEAN, NEW fs \in {"tmpfs", "proc"},
         fs = "tmpfs" \/ ~dir
  PROVE  LET r == Node(name, dir, fs)
         IN  Fresh(r) /\ r.fs = fs /\ r.name = name /\ r.dir = dir /\ r.data = <<>>
<1> DEFINE r == Node(name, dir, fs)
<1>1. /\ r \in NodeSet /\ r.name = name /\ r.dir = dir /\ r.fs = fs
      /\ r.mountpt = FALSE /\ r.mount = NULL /\ r.kids = <<>> /\ r.data = <<>>
  BY NodeFacts, ZenonT(30)
<1> HIDE DEF r
<1>2. Len(r.data) <= MaxFile
  BY <1>1, Constants
<1>3. Fresh(r)
  BY <1>1, <1>2 DEF Fresh
<1> QED BY <1>1, <1>3 DEF r

\* SYS_WRITE may fill a file before it is in the tree.
LEMMA FreshFile ==
  ASSUME NEW name \in Names, NEW D \in Seq(Nat), Len(D) <= MaxFile
  PROVE  LET q == [Node(name, FALSE, "tmpfs") EXCEPT !.data = D]
         IN  Fresh(q) /\ q.fs = "tmpfs" /\ q.name = name /\ ~q.dir /\ q.data = D
<1> DEFINE r == Node(name, FALSE, "tmpfs")
           q == [r EXCEPT !.data = D]
<1>1. /\ r \in NodeSet /\ r.name = name /\ r.dir = FALSE /\ r.fs = "tmpfs"
      /\ r.mountpt = FALSE /\ r.mount = NULL /\ r.kids = <<>>
  BY NodeFacts
<1> HIDE DEF r
<1>2. q \in NodeSet
  BY <1>1, Zenon DEF NodeSet
<1>3. /\ q.fs = "tmpfs" /\ q.dir = FALSE /\ q.mountpt = FALSE /\ q.mount = NULL
      /\ q.kids = <<>> /\ q.data = D /\ q.name = name
  BY <1>1 DEF NodeSet
<1> HIDE DEF q
<1>4. Fresh(q) /\ q.fs = "tmpfs" /\ q.name = name /\ ~q.dir /\ q.data = D
  BY <1>2, <1>3 DEF Fresh
<1> QED BY <1>4 DEF q, r

\* procfs_create marks its root as a mount point at once.
LEMMA FreshRoot ==
  Fresh([Node("proc", TRUE, "proc") EXCEPT !.mountpt = TRUE])
<1> DEFINE r == Node("proc", TRUE, "proc")
           q == [r EXCEPT !.mountpt = TRUE]
<1>1. /\ r \in NodeSet /\ r.dir = TRUE /\ r.fs = "proc"
      /\ r.mount = NULL /\ r.kids = <<>> /\ r.data = <<>>
  <2>1. "proc" \in Names /\ TRUE \in BOOLEAN /\ "proc" \in {"tmpfs", "proc"}
    BY DEF Names
  <2> QED BY <2>1, NodeFacts
<1> HIDE DEF r
<1>2. q \in NodeSet
  BY <1>1, Zenon DEF NodeSet
<1>3. /\ q.fs = "proc" /\ q.dir = TRUE /\ q.mountpt = TRUE /\ q.mount = NULL
      /\ q.kids = <<>> /\ q.data = <<>>
  BY <1>1 DEF NodeSet
<1> HIDE DEF q
<1>4. Len(q.data) <= MaxFile
  BY <1>3, Constants
<1>5. Fresh(q)
  BY <1>2, <1>3, <1>4 DEF Fresh
<1> QED BY <1>5 DEF q, r

\* The lengths of a vnode's entries and bytes are numbers.
LEMMA Lengths ==
  ASSUME NEW ns \in Seq(NodeSet), NEW n \in DOMAIN ns
  PROVE  /\ Len(ns[n].kids) \in Nat /\ Len(ns[n].data) \in Nat
         /\ Len(ns[n].data) <= Len(ns[n].data)
<1>1. ns[n] \in NodeSet
  OBVIOUS
<1>2. ns[n].kids \in Seq(Nat) /\ ns[n].data \in Seq(Nat)
  BY <1>1 DEF NodeSet
<1>3. Len(ns[n].kids) \in Nat /\ Len(ns[n].data) \in Nat
  BY <1>2
<1> QED BY <1>3

\* Vnodes just made keep the tree a tree.
LEMMA TreeExtends ==
  ASSUME NEW ns, NEW ms, Tree(ns), ms \in Seq(NodeSet),
         Len(ns) <= Len(ms), Len(ms) <= MaxNodes,
         \A n \in DOMAIN ns : ms[n] = ns[n],
         \A n \in DOMAIN ms \ DOMAIN ns : Fresh(ms[n])
  PROVE  Tree(ms) /\ Keeps(ns, ms) /\ Thins(ns, ms)
<1>1. ns \in Seq(NodeSet)
  BY DEF Tree, Typed
<1>2. DOMAIN ns = 1 .. Len(ns) /\ DOMAIN ms = 1 .. Len(ms) /\ Len(ns) \in Nat /\ Len(ms) \in Nat
  BY <1>1
<1>3. DOMAIN ns \subseteq DOMAIN ms
  BY <1>2
<1>4. \A n \in DOMAIN ms \ DOMAIN ns : ms[n].kids = <<>> /\ ms[n].mount = NULL
  BY DEF Fresh
<1>5. Typed(ms)
  <2>1. \A n \in DOMAIN ms : Len(ms[n].data) <= MaxFile
    BY DEF Tree, Typed, Fresh
  <2> QED BY <2>1 DEF Typed
<1>6. Linked(ms)
  <2> SUFFICES ASSUME NEW n \in DOMAIN ms
               PROVE  /\ ms[n].mount \in DOMAIN ms \cup {NULL}
                      /\ ms[n].fs = "proc" => ms[n].kids = <<>>
                      /\ \A i \in DOMAIN ms[n].kids :
                           ms[n].kids[i] \in DOMAIN ms /\ ms[ms[n].kids[i]].fs = "tmpfs"
    BY DEF Linked
  <2>1. CASE n \in DOMAIN ns
    BY <1>3, <2>1 DEF Tree, Linked
  <2>2. CASE n \notin DOMAIN ns
    BY <1>4, <2>2
  <2> QED BY <2>1, <2>2
<1>7. Ordered(ms)
  <2> SUFFICES ASSUME NEW n \in DOMAIN ms
               PROVE  /\ Len(ms[n].kids) <= MaxKids
                      /\ \A i \in 2 .. Len(ms[n].kids) : ms[n].kids[i - 1] < ms[n].kids[i]
    BY DEF Ordered
  <2>1. CASE n \in DOMAIN ns
    BY <2>1 DEF Tree, Ordered
  <2>2. CASE n \notin DOMAIN ns
    BY <1>4, <2>2, Constants
  <2> QED BY <2>1, <2>2
<1>8. Apart(ms)
  BY <1>4 DEF Tree, Apart
<1>9. Flags(ms)
  BY DEF Tree, Flags, Fresh
<1>10. Keeps(ns, ms)
  <2>1. \A n \in DOMAIN ns : Len(ns[n].data) <= Len(ns[n].data)
    BY <1>1, Lengths
  <2> QED BY <1>3, <2>1 DEF Keeps
<1>11. Thins(ns, ms)
  <2>1. \A n \in DOMAIN ns : ns[n] \in NodeSet
    BY <1>1
  <2>2. \A n \in DOMAIN ns : Len(ns[n].kids) <= Len(ns[n].kids)
    BY <2>1 DEF NodeSet
  <2> QED BY <2>2 DEF Thins
<1> QED BY <1>5, <1>6, <1>7, <1>8, <1>9, <1>10, <1>11 DEF Tree

\* One new vnode.
LEMMA TreeAlloc ==
  ASSUME NEW ns, NEW r, Tree(ns), Len(ns) < MaxNodes, Fresh(r)
  PROVE  LET ms == Append(ns, r) IN Tree(ms) /\ Keeps(ns, ms) /\ Thins(ns, ms)
<1>1. ns \in Seq(NodeSet) /\ r \in NodeSet
  BY DEF Tree, Typed, Fresh
<1>2. /\ Append(ns, r) \in Seq(NodeSet) /\ Len(Append(ns, r)) = Len(ns) + 1
      /\ \A n \in DOMAIN ns : Append(ns, r)[n] = ns[n]
      /\ \A n \in DOMAIN Append(ns, r) \ DOMAIN ns : Append(ns, r)[n] = r
  BY <1>1
<1>3. Len(ns) <= Len(Append(ns, r)) /\ Len(Append(ns, r)) <= MaxNodes
  BY <1>1, <1>2, Constants
<1>4. \A n \in DOMAIN Append(ns, r) \ DOMAIN ns : Fresh(Append(ns, r)[n])
  BY <1>2
<1> QED BY <1>2, <1>3, <1>4, TreeExtends

\* Cover and Uncover write the mount and its flag together.
Mounted(ns, d, m, b) == [ns EXCEPT ![d].mount = m, ![d].mountpt = b]

\* A vnode of which only the entries, the data, or the mount have been set.
LEMMA SetKids ==
  ASSUME NEW ns \in Seq(NodeSet), NEW d \in DOMAIN ns, NEW K \in Seq(Nat)
  PROVE  LET ms == [ns EXCEPT ![d].kids = K]
         IN  /\ ms \in Seq(NodeSet) /\ Len(ms) = Len(ns)
             /\ \A n \in DOMAIN ns :
                  /\ ms[n].name = ns[n].name /\ ms[n].dir = ns[n].dir /\ ms[n].fs = ns[n].fs
                  /\ ms[n].mountpt = ns[n].mountpt /\ ms[n].mount = ns[n].mount
                  /\ ms[n].kids = (IF n = d THEN K ELSE ns[n].kids)
                  /\ ms[n].data = ns[n].data
<1> DEFINE q == [ns[d] EXCEPT !.kids = K]
<1>1. ns[d] \in NodeSet
  OBVIOUS
<1>2. q \in NodeSet
  BY <1>1, Zenon DEF NodeSet
<1>3. /\ q.name = ns[d].name /\ q.dir = ns[d].dir /\ q.fs = ns[d].fs
      /\ q.mountpt = ns[d].mountpt /\ q.mount = ns[d].mount
      /\ q.kids = K /\ q.data = ns[d].data
  BY <1>1 DEF NodeSet
<1>4. [ns EXCEPT ![d].kids = K] = [ns EXCEPT ![d] = q]
  OBVIOUS
<1> HIDE DEF q
<1>5. /\ [ns EXCEPT ![d] = q] \in Seq(NodeSet) /\ Len([ns EXCEPT ![d] = q]) = Len(ns)
      /\ \A n \in DOMAIN ns : [ns EXCEPT ![d] = q][n] = IF n = d THEN q ELSE ns[n]
  BY <1>2
<1> QED BY <1>3, <1>4, <1>5, SMTT(30)

\* Of the vnodes, tmpfs_write changes one's bytes.
LEMMA SetData ==
  ASSUME NEW ns \in Seq(NodeSet), NEW d \in DOMAIN ns, NEW D \in Seq(Nat)
  PROVE  LET ms == [ns EXCEPT ![d].data = D]
         IN  /\ ms \in Seq(NodeSet) /\ Len(ms) = Len(ns)
             /\ \A n \in DOMAIN ns :
                  /\ ms[n].name = ns[n].name /\ ms[n].dir = ns[n].dir /\ ms[n].fs = ns[n].fs
                  /\ ms[n].mountpt = ns[n].mountpt /\ ms[n].mount = ns[n].mount
                  /\ ms[n].kids = ns[n].kids
                  /\ ms[n].data = (IF n = d THEN D ELSE ns[n].data)
<1> DEFINE q == [ns[d] EXCEPT !.data = D]
<1>1. ns[d] \in NodeSet
  OBVIOUS
<1>2. q \in NodeSet
  BY <1>1, Zenon DEF NodeSet
<1>3. /\ q.name = ns[d].name /\ q.dir = ns[d].dir /\ q.fs = ns[d].fs
      /\ q.mountpt = ns[d].mountpt /\ q.mount = ns[d].mount
      /\ q.kids = ns[d].kids /\ q.data = D
  BY <1>1 DEF NodeSet
<1>4. [ns EXCEPT ![d].data = D] = [ns EXCEPT ![d] = q]
  OBVIOUS
<1> HIDE DEF q
<1>5. /\ [ns EXCEPT ![d] = q] \in Seq(NodeSet) /\ Len([ns EXCEPT ![d] = q]) = Len(ns)
      /\ \A n \in DOMAIN ns : [ns EXCEPT ![d] = q][n] = IF n = d THEN q ELSE ns[n]
  BY <1>2
<1> QED BY <1>3, <1>4, <1>5, SMTT(30)

\* vfs_mount and SYS_UMOUNT change one's mount and flag.
LEMMA SetMount ==
  ASSUME NEW ns \in Seq(NodeSet), NEW d \in DOMAIN ns, NEW m \in Nat, NEW b \in BOOLEAN
  PROVE  LET ms == Mounted(ns, d, m, b)
         IN  /\ ms \in Seq(NodeSet) /\ Len(ms) = Len(ns)
             /\ \A n \in DOMAIN ns :
                  /\ ms[n].name = ns[n].name /\ ms[n].dir = ns[n].dir /\ ms[n].fs = ns[n].fs
                  /\ ms[n].mountpt = (IF n = d THEN b ELSE ns[n].mountpt)
                  /\ ms[n].mount = (IF n = d THEN m ELSE ns[n].mount)
                  /\ ms[n].kids = ns[n].kids /\ ms[n].data = ns[n].data
<1> DEFINE q == [ns[d] EXCEPT !.mount = m, !.mountpt = b]
<1>1. ns[d] \in NodeSet
  OBVIOUS
<1>2. q \in NodeSet
  BY <1>1, Zenon DEF NodeSet
<1>3. /\ q.name = ns[d].name /\ q.dir = ns[d].dir /\ q.fs = ns[d].fs
      /\ q.mountpt = b /\ q.mount = m /\ q.kids = ns[d].kids /\ q.data = ns[d].data
  BY <1>1 DEF NodeSet
<1>4. Mounted(ns, d, m, b) = [ns EXCEPT ![d] = q]
  BY DEF Mounted
<1> HIDE DEF q
<1>5. /\ [ns EXCEPT ![d] = q] \in Seq(NodeSet) /\ Len([ns EXCEPT ![d] = q]) = Len(ns)
      /\ \A n \in DOMAIN ns : [ns EXCEPT ![d] = q][n] = IF n = d THEN q ELSE ns[n]
  BY <1>2
<1> QED BY <1>3, <1>4, <1>5

\* tmpfs_mkdir and tmpfs_mkfile: the new vnode has the largest number yet, so it
\* is in no directory and comes last in its own.
LEMMA TreeLink ==
  ASSUME NEW ns, NEW d \in DOMAIN ns, NEW r, Tree(ns), Len(ns) < MaxNodes,
         ns[d].fs = "tmpfs", Len(ns[d].kids) < MaxKids, Fresh(r), r.fs = "tmpfs"
  PROVE  LET ms == Append([ns EXCEPT ![d].kids = Append(@, Len(ns) + 1)], r)
         IN  /\ Tree(ms) /\ Keeps(ns, ms) /\ Grows(ns, ms)
             /\ Len(ns) + 1 \in DOMAIN ms /\ ms[Len(ns) + 1] = r
             /\ ms[d].kids = Append(ns[d].kids, Len(ns) + 1)
<1> DEFINE k  == Len(ns) + 1
           K  == Append(ns[d].kids, k)
           xs == [ns EXCEPT ![d].kids = K]
           ms == Append(xs, r)
<1>1. ns \in Seq(NodeSet) /\ r \in NodeSet /\ ns[d].kids \in Seq(Nat)
  <2>1. ns \in Seq(NodeSet) /\ r \in NodeSet
    BY DEF Tree, Typed, Fresh
  <2>2. ns[d] \in NodeSet
    BY <2>1
  <2> QED BY <2>1, <2>2 DEF NodeSet
<1>2. k \in Nat /\ K \in Seq(Nat)
  BY <1>1
<1>6. /\ Len(K) = Len(ns[d].kids) + 1 /\ K[Len(K)] = k
      /\ \A i \in 1 .. (Len(K) - 1) : K[i] = ns[d].kids[i]
      /\ Len(ns[d].kids) \in Nat /\ DOMAIN K = 1 .. Len(K)
      /\ DOMAIN ns[d].kids = 1 .. (Len(K) - 1)
  BY <1>1, <1>2
<1> HIDE DEF K
<1>3. /\ xs \in Seq(NodeSet) /\ Len(xs) = Len(ns)
      /\ \A n \in DOMAIN ns :
           /\ xs[n].name = ns[n].name /\ xs[n].dir = ns[n].dir /\ xs[n].fs = ns[n].fs
           /\ xs[n].mountpt = ns[n].mountpt /\ xs[n].mount = ns[n].mount
           /\ xs[n].kids = (IF n = d THEN K ELSE ns[n].kids)
           /\ xs[n].data = ns[n].data
  BY <1>1, <1>2, SetKids
<1> HIDE DEF xs
<1>4. /\ ms \in Seq(NodeSet) /\ Len(ms) = k /\ ms[k] = r
      /\ \A n \in DOMAIN ns : ms[n] = xs[n]
  <2>1. xs \in Seq(NodeSet) /\ Len(xs) = Len(ns)
    BY <1>3
  <2> QED BY <1>1, <2>1
<1>5. DOMAIN ns = 1 .. (k - 1) /\ DOMAIN ms = 1 .. k
  BY <1>1, <1>4
<1> HIDE DEF ms
<1>7. \A n \in DOMAIN ns : \A i \in DOMAIN ns[n].kids : ns[n].kids[i] \in 1 .. (k - 1)
  BY <1>5 DEF Tree, Linked
<1> HIDE DEF k
<1>8. r.kids = <<>> /\ r.mount = NULL
  BY DEF Fresh
<1>9. Typed(ms)
  <2>1. Len(ms) <= MaxNodes
    BY <1>1, <1>4, Constants DEF k
  <2>2. ASSUME NEW n \in DOMAIN ms PROVE Len(ms[n].data) <= MaxFile
    <3>1. CASE n \in DOMAIN ns
      BY <1>3, <1>4, <3>1 DEF Tree, Typed
    <3>2. CASE n \notin DOMAIN ns
      <4>1. n = k
        BY <1>2, <1>5, <3>2
      <4> QED BY <1>4, <4>1 DEF Fresh
    <3> QED BY <3>1, <3>2
  <2> QED BY <1>4, <2>1, <2>2 DEF Typed
<1>10. Linked(ms)
  <2> SUFFICES ASSUME NEW n \in DOMAIN ms
               PROVE  /\ ms[n].mount \in DOMAIN ms \cup {NULL}
                      /\ ms[n].fs = "proc" => ms[n].kids = <<>>
                      /\ \A i \in DOMAIN ms[n].kids :
                           ms[n].kids[i] \in DOMAIN ms /\ ms[ms[n].kids[i]].fs = "tmpfs"
    BY DEF Linked
  <2>1. CASE n = k
    BY <1>4, <1>8, <2>1
  <2>2. CASE n = d
    <3>1. ms[n].kids = K /\ ms[n].fs = "tmpfs" /\ ms[n].mount = ns[n].mount /\ n \in DOMAIN ns
      BY <1>3, <1>4, <2>2
    <3>2. ASSUME NEW i \in DOMAIN K PROVE K[i] \in DOMAIN ms /\ ms[K[i]].fs = "tmpfs"
      <4>1. CASE i = Len(K)
        BY <1>2, <1>4, <1>5, <1>6, <4>1
      <4>2. CASE i # Len(K)
        <5>1. i \in 1 .. (Len(K) - 1)
          BY <1>6, <3>2, <4>2
        <5>2. K[i] \in DOMAIN ns /\ ns[K[i]].fs = "tmpfs"
          BY <1>6, <5>1 DEF Tree, Linked
        <5> QED BY <1>2, <1>3, <1>4, <1>5, <5>2
      <4> QED BY <4>1, <4>2
    <3>3. ns[n].mount \in DOMAIN ms \cup {NULL}
      BY <1>2, <1>5, <3>1 DEF Tree, Linked
    <3> QED BY <3>1, <3>2, <3>3
  <2>3. CASE n # k /\ n # d
    <3>1. n \in DOMAIN ns /\ DOMAIN ns \subseteq DOMAIN ms
      BY <1>2, <1>5, <2>3
    <3> QED BY <1>3, <1>4, <2>3, <3>1 DEF Tree, Linked
  <2> QED BY <2>1, <2>2, <2>3
<1>11. Ordered(ms)
  <2> SUFFICES ASSUME NEW n \in DOMAIN ms
               PROVE  /\ Len(ms[n].kids) <= MaxKids
                      /\ \A i \in 2 .. Len(ms[n].kids) : ms[n].kids[i - 1] < ms[n].kids[i]
    BY DEF Ordered
  <2>1. CASE n = k
    BY <1>4, <1>8, <2>1, Constants
  <2>2. CASE n = d
    <3>1. ms[n].kids = K
      BY <1>3, <1>4, <2>2
    <3>2. Len(K) <= MaxKids
      BY <1>6, Constants
    <3>3. ASSUME NEW i \in 2 .. Len(K) PROVE K[i - 1] < K[i]
      <4>1. i - 1 \in 1 .. (Len(K) - 1) /\ K[i - 1] = ns[d].kids[i - 1]
        BY <1>6, <3>3
      <4>2. CASE i = Len(K)
        <5>1. K[i - 1] \in 1 .. (k - 1)
          BY <1>6, <1>7, <4>1
        <5> QED BY <1>2, <1>6, <4>2, <5>1
      <4>3. CASE i # Len(K)
        <5>1. i \in 2 .. Len(ns[d].kids) /\ K[i] = ns[d].kids[i]
          BY <1>6, <3>3, <4>3
        <5> QED BY <4>1, <5>1 DEF Tree, Ordered
      <4> QED BY <4>2, <4>3
    <3> QED BY <3>1, <3>2, <3>3
  <2>3. CASE n # k /\ n # d
    <3>1. n \in DOMAIN ns
      BY <1>2, <1>5, <2>3
    <3> QED BY <1>3, <1>4, <2>3, <3>1 DEF Tree, Ordered
  <2> QED BY <2>1, <2>2, <2>3
<1>12. Apart(ms)
  <2>1. ASSUME NEW e \in DOMAIN ms, e # d, NEW i \in DOMAIN ms[e].kids
        PROVE  e \in DOMAIN ns /\ ms[e].kids = ns[e].kids /\ ms[e].kids[i] \in 1 .. (k - 1)
    <3>1. e # k
      BY <1>4, <1>8, <2>1
    <3>2. e \in DOMAIN ns
      BY <1>2, <1>5, <3>1
    <3>3. ms[e].kids = ns[e].kids
      BY <1>3, <1>4, <2>1, <3>2
    <3> QED BY <1>7, <2>1, <3>2, <3>3
  <2>2. ASSUME NEW e \in DOMAIN ms, e # d, NEW i \in DOMAIN ms[e].kids, NEW j \in DOMAIN K
        PROVE  ms[e].kids[i] # K[j]
    <3>1. e \in DOMAIN ns /\ ms[e].kids = ns[e].kids /\ ms[e].kids[i] \in 1 .. (k - 1)
      BY <2>1, <2>2
    <3>2. CASE j = Len(K)
      BY <1>2, <1>6, <3>1, <3>2
    <3>3. CASE j # Len(K)
      <4>1. j \in DOMAIN ns[d].kids /\ K[j] = ns[d].kids[j]
        BY <1>6, <3>3
      <4> QED BY <2>2, <3>1, <4>1 DEF Tree, Apart
    <3> QED BY <3>2, <3>3
  <2>3. ms[d].kids = K
    BY <1>3, <1>4
  <2> SUFFICES ASSUME NEW e \in DOMAIN ms, NEW f \in DOMAIN ms, e # f,
                      NEW i \in DOMAIN ms[e].kids, NEW j \in DOMAIN ms[f].kids
               PROVE  ms[e].kids[i] # ms[f].kids[j]
    BY DEF Apart
  <2>4. CASE e = d
    BY <2>2, <2>3, <2>4
  <2>5. CASE f = d
    BY <2>2, <2>3, <2>5
  <2>6. CASE e # d /\ f # d
    <3>1. e \in DOMAIN ns /\ ms[e].kids = ns[e].kids /\ f \in DOMAIN ns /\ ms[f].kids = ns[f].kids
      BY <2>1, <2>6
    <3> QED BY <3>1 DEF Tree, Apart
  <2> QED BY <2>4, <2>5, <2>6
<1>13. Flags(ms)
  <2> SUFFICES ASSUME NEW n \in DOMAIN ms
               PROVE  ms[n].mountpt <=> ms[n].mount # NULL \/ (ms[n].fs = "proc" /\ ms[n].dir)
    BY DEF Flags
  <2>1. CASE n = k
    BY <1>4, <2>1 DEF Fresh
  <2>2. CASE n # k
    <3>1. n \in DOMAIN ns
      BY <1>2, <1>5, <2>2
    <3> QED BY <1>3, <1>4, <3>1 DEF Tree, Flags
  <2> QED BY <2>1, <2>2
<1>14. Keeps(ns, ms)
  <2>1. \A n \in DOMAIN ns : n \in DOMAIN ms /\ Len(ns[n].data) <= Len(ns[n].data)
    BY <1>1, <1>2, <1>5 DEF NodeSet
  <2> QED BY <1>3, <1>4, <2>1 DEF Keeps
<1>16. Grows(ns, ms)
  BY <1>3, <1>4 DEF Grows, K, k
<1>17. /\ Len(ns) + 1 \in DOMAIN ms /\ ms[Len(ns) + 1] = r
       /\ ms[d].kids = Append(ns[d].kids, Len(ns) + 1)
  <2>1. k \in DOMAIN ms /\ ms[k] = r
    BY <1>2, <1>4, <1>5
  <2>2. ms[d].kids = K
    BY <1>3, <1>4
  <2> QED BY <2>1, <2>2 DEF K, k
<1>15. Append([ns EXCEPT ![d].kids = Append(@, Len(ns) + 1)], r) = ms
  BY DEF ms, xs, K, k
<1> QED BY <1>9, <1>10, <1>11, <1>12, <1>13, <1>14, <1>15, <1>16, <1>17 DEF Tree

\* What is left when one entry goes: the others, in their order.
LEMMA RemoveKidFacts ==
  ASSUME NEW kids \in Seq(Nat), NEW i \in DOMAIN kids
  PROVE  /\ RemoveKid(kids, i) \in Seq(Nat) /\ Len(RemoveKid(kids, i)) = Len(kids) - 1
         /\ \A j \in 1 .. (Len(kids) - 1) :
              RemoveKid(kids, i)[j] = IF j < i THEN kids[j] ELSE kids[j + 1]
<1> DEFINE before == SubSeq(kids, 1, i - 1)
           after  == SubSeq(kids, i + 1, Len(kids))
<1>1. i \in 1 .. Len(kids) /\ Len(kids) \in Nat /\ i \in Int
  OBVIOUS
<1>2. /\ before \in Seq(Nat) /\ Len(before) = i - 1
      /\ \A j \in 1 .. (i - 1) : before[j] = kids[j]
  <2>1. \A j \in 1 .. (i - 1) : kids[j] \in Nat
    BY <1>1
  <2> QED BY <1>1, <2>1, SubSeqProperties
<1>3. /\ after \in Seq(Nat) /\ Len(after) = Len(kids) - i
      /\ \A j \in 1 .. (Len(kids) - i) : after[j] = kids[j + i]
  <2>1. \A j \in (i + 1) .. Len(kids) : kids[j] \in Nat
    BY <1>1
  <2>0. i + 1 \in Int /\ Len(kids) \in Int
    BY <1>1
  <2>2. /\ after \in Seq(Nat)
        /\ Len(after) = IF i + 1 <= Len(kids) THEN Len(kids) - (i + 1) + 1 ELSE 0
        /\ \A j \in 1 .. (Len(kids) - (i + 1) + 1) : after[j] = kids[i + 1 + j - 1]
    BY <2>0, <2>1, SubSeqProperties, SMTT(30)
  <2> HIDE DEF after
  <2>3. Len(after) = Len(kids) - i
    BY <1>1, <2>2, SMTT(30)
  <2>4. ASSUME NEW j \in 1 .. (Len(kids) - i) PROVE after[j] = kids[j + i]
    <3>1. j \in 1 .. (Len(kids) - (i + 1) + 1) /\ i + 1 + j - 1 = j + i
      BY <1>1
    <3> QED BY <2>2, <3>1
  <2> QED BY <2>2, <2>3, <2>4
<1>4. RemoveKid(kids, i) = before \o after
  BY DEF RemoveKid, RemoveAt
<1> HIDE DEF before, after
<1>5. /\ before \o after \in Seq(Nat) /\ Len(before \o after) = Len(kids) - 1
      /\ \A j \in 1 .. (Len(kids) - 1) :
           (before \o after)[j] = IF j < i THEN before[j] ELSE after[j - (i - 1)]
  <2>1. before \in Seq(Nat) /\ after \in Seq(Nat)
        /\ Len(before) = i - 1 /\ Len(after) = Len(kids) - i
    BY <1>2, <1>3
  <2>2. /\ before \o after \in Seq(Nat) /\ Len(before \o after) = Len(before) + Len(after)
        /\ \A j \in 1 .. (Len(before) + Len(after)) :
             (before \o after)[j] = IF j <= Len(before) THEN before[j] ELSE after[j - Len(before)]
    BY <2>1, ConcatProperties
  <2>3. Len(before) + Len(after) = Len(kids) - 1
    BY <1>1, <2>1
  <2>4. ASSUME NEW j \in 1 .. (Len(kids) - 1)
        PROVE  (before \o after)[j] = IF j < i THEN before[j] ELSE after[j - (i - 1)]
    <3>1. j <= Len(before) <=> j < i
      BY <1>1, <2>1, SMTT(30)
    <3> QED BY <2>1, <2>2, <2>3, <3>1
  <2> QED BY <2>2, <2>3, <2>4
<1>6. ASSUME NEW j \in 1 .. (Len(kids) - 1)
      PROVE  (before \o after)[j] = IF j < i THEN kids[j] ELSE kids[j + 1]
  <2>1. CASE j < i
    BY <1>1, <1>2, <1>5, <2>1
  <2>2. CASE ~(j < i)
    <3>1. j - (i - 1) \in 1 .. (Len(kids) - i) /\ (j - (i - 1)) + i = j + 1
      BY <1>1, <2>2
    <3> QED BY <1>3, <1>5, <2>2, <3>1
  <2> QED BY <2>1, <2>2
<1> QED BY <1>4, <1>5, <1>6

\* tmpfs_unlink.
LEMMA TreeUnlink ==
  ASSUME NEW ns, NEW d \in DOMAIN ns, NEW i \in DOMAIN ns[d].kids, Tree(ns)
  PROVE  LET ms == [ns EXCEPT ![d].kids = RemoveKid(ns[d].kids, i)]
         IN  Tree(ms) /\ Keeps(ns, ms) /\ Thins(ns, ms)
<1> DEFINE O  == ns[d].kids
           K  == RemoveKid(O, i)
           ms == [ns EXCEPT ![d].kids = K]
<1>1. ns \in Seq(NodeSet) /\ O \in Seq(Nat)
  <2>1. ns \in Seq(NodeSet)
    BY DEF Tree, Typed
  <2>2. ns[d] \in NodeSet
    BY <2>1
  <2> QED BY <2>1, <2>2 DEF NodeSet
<1>2. /\ K \in Seq(Nat) /\ Len(K) = Len(O) - 1
      /\ \A j \in 1 .. (Len(O) - 1) : K[j] = IF j < i THEN O[j] ELSE O[j + 1]
  <2> HIDE DEF O
  <2> QED BY <1>1, RemoveKidFacts DEF O
<1>3. Len(O) \in Nat /\ DOMAIN K = 1 .. (Len(O) - 1) /\ DOMAIN O = 1 .. Len(O)
  BY <1>1, <1>2
<1> HIDE DEF K
<1>4. /\ ms \in Seq(NodeSet) /\ Len(ms) = Len(ns)
      /\ \A n \in DOMAIN ns :
           /\ ms[n].name = ns[n].name /\ ms[n].dir = ns[n].dir /\ ms[n].fs = ns[n].fs
           /\ ms[n].mountpt = ns[n].mountpt /\ ms[n].mount = ns[n].mount
           /\ ms[n].kids = (IF n = d THEN K ELSE ns[n].kids)
           /\ ms[n].data = ns[n].data
  BY <1>1, <1>2, SetKids
<1> HIDE DEF ms, O
<1>5. DOMAIN ms = DOMAIN ns
  BY <1>1, <1>4
<1>6. \A j \in DOMAIN K : \E k \in DOMAIN O : K[j] = O[k]
  <2> TAKE j \in DOMAIN K
  <2>1. j \in DOMAIN O /\ j + 1 \in DOMAIN O
    BY <1>3
  <2> QED BY <1>2, <1>3, <2>1
<1>7. Typed(ms)
  BY <1>4, <1>5 DEF Tree, Typed
<1>8. Linked(ms)
  <2> SUFFICES ASSUME NEW n \in DOMAIN ns
               PROVE  /\ ms[n].mount \in DOMAIN ms \cup {NULL}
                      /\ ms[n].fs = "proc" => ms[n].kids = <<>>
                      /\ \A j \in DOMAIN ms[n].kids :
                           ms[n].kids[j] \in DOMAIN ms /\ ms[ms[n].kids[j]].fs = "tmpfs"
    BY <1>5 DEF Linked
  <2>1. CASE n = d
    <3>1. \A j \in DOMAIN K : K[j] \in DOMAIN ms /\ ms[K[j]].fs = "tmpfs"
      BY <1>4, <1>5, <1>6 DEF Tree, Linked, O
    <3>2. ns[d].fs # "proc"
      <4>1. ns[d].kids # <<>>
        BY <1>1, <1>3 DEF O
      <4> QED BY <4>1 DEF Tree, Linked
    <3> QED BY <1>4, <1>5, <2>1, <3>1, <3>2 DEF Tree, Linked
  <2>2. CASE n # d
    BY <1>4, <1>5, <2>2, SMTT(30) DEF Tree, Linked
  <2> QED BY <2>1, <2>2
<1>9. Ordered(ms)
  <2> SUFFICES ASSUME NEW n \in DOMAIN ns
               PROVE  /\ Len(ms[n].kids) <= MaxKids
                      /\ \A j \in 2 .. Len(ms[n].kids) : ms[n].kids[j - 1] < ms[n].kids[j]
    BY <1>5 DEF Ordered
  <2>1. CASE n = d
    <3>1. /\ Len(O) <= MaxKids
          /\ \A j \in 2 .. Len(O) : O[j - 1] < O[j]
      BY DEF Tree, Ordered, O
    <3>2. Len(K) <= MaxKids
      BY <1>2, <1>3, <3>1, Constants
    <3>3. ASSUME NEW j \in 2 .. Len(K) PROVE K[j - 1] < K[j]
      <4>1. j \in 1 .. (Len(O) - 1) /\ j - 1 \in 1 .. (Len(O) - 1) /\ (j - 1) + 1 = j
        BY <1>2, <1>3, <3>3
      <4>2. O[j - 1] < O[j] /\ O[j] < O[j + 1]
        <5>1. j \in 2 .. Len(O) /\ j + 1 \in 2 .. Len(O) /\ (j + 1) - 1 = j
          BY <1>2, <1>3, <3>3
        <5> QED BY <3>1, <5>1
      <4>3. O[j - 1] \in Nat /\ O[j] \in Nat /\ O[j + 1] \in Nat
        <5>1. j - 1 \in 1 .. Len(O) /\ j \in 1 .. Len(O) /\ j + 1 \in 1 .. Len(O)
          BY <1>3, <4>1
        <5> QED BY <1>1, <1>3, <5>1, SMTT(30)
      <4>4. K[j - 1] = (IF j - 1 < i THEN O[j - 1] ELSE O[j])
            /\ K[j] = (IF j < i THEN O[j] ELSE O[j + 1])
        BY <1>2, <4>1
      <4>5. i \in Int /\ j \in Int
        BY <1>1, <1>3 DEF O
      <4> QED BY <4>2, <4>3, <4>4, <4>5
    <3> QED BY <1>4, <2>1, <3>2, <3>3
  <2>2. CASE n # d
    BY <1>4, <2>2 DEF Tree, Ordered
  <2> QED BY <2>1, <2>2
<1>10. Apart(ms)
  <2>1. ASSUME NEW e \in DOMAIN ns
        PROVE  \A j \in DOMAIN ms[e].kids : \E k \in DOMAIN ns[e].kids : ms[e].kids[j] = ns[e].kids[k]
    BY <1>4, <1>6 DEF O
  <2> QED BY <1>5, <2>1 DEF Tree, Apart
<1>11. Flags(ms)
  BY <1>4, <1>5 DEF Tree, Flags
<1>12. Keeps(ns, ms)
  <2>1. \A n \in DOMAIN ns : Len(ns[n].data) <= Len(ns[n].data)
    BY <1>1, Lengths
  <2> QED BY <1>4, <1>5, <2>1 DEF Keeps
<1>13. Thins(ns, ms)
  <2>1. \A n \in DOMAIN ns : Len(ns[n].kids) \in Nat
    BY <1>1, Lengths
  <2>2. Len(K) <= Len(O)
    BY <1>2, <1>3
  <2> QED BY <1>4, <2>1, <2>2 DEF Thins, O
<1> QED BY <1>7, <1>8, <1>9, <1>10, <1>11, <1>12, <1>13 DEF Tree, ms, K, O

\* tmpfs_write: the longer of what was there and what is written.
LEMMA WrittenFacts ==
  ASSUME NEW data \in Seq(Nat), NEW off \in Nat, NEW buf \in Seq(Nat)
  PROVE  /\ Written(data, off, buf) \in Seq(Nat)
         /\ Len(Written(data, off, buf)) =
              IF off + Len(buf) > Len(data) THEN off + Len(buf) ELSE Len(data)
<1> DEFINE n == IF off + Len(buf) > Len(data) THEN off + Len(buf) ELSE Len(data)
<1>1. n \in Nat
  OBVIOUS
<1>2. ASSUME NEW i \in 1 .. n
      PROVE  (IF off < i /\ i <= off + Len(buf) THEN buf[i - off] ELSE ByteAt(data, i)) \in Nat
  <2>1. CASE off < i /\ i <= off + Len(buf)
    <3>1. i - off \in 1 .. Len(buf)
      BY <1>1, <2>1
    <3> QED BY <2>1, <3>1
  <2>2. CASE ~(off < i /\ i <= off + Len(buf))
    <3>1. ByteAt(data, i) \in Nat
      BY <1>1 DEF ByteAt
    <3> QED BY <2>2, <3>1
  <2> QED BY <2>1, <2>2
<1>3. Written(data, off, buf) =
        [i \in 1 .. n |->
           IF off < i /\ i <= off + Len(buf) THEN buf[i - off] ELSE ByteAt(data, i)]
  BY DEF Written
<1> HIDE DEF n
<1> QED BY <1>1, <1>2, <1>3 DEF n

\* tmpfs_write: a file that got longer, within what the heap gives.
LEMMA TreeWrite ==
  ASSUME NEW ns, NEW d \in DOMAIN ns, NEW D \in Seq(Nat), Tree(ns),
         Len(ns[d].data) <= Len(D), Len(D) <= MaxFile
  PROVE  LET ms == [ns EXCEPT ![d].data = D]
         IN  Tree(ms) /\ Keeps(ns, ms) /\ Thins(ns, ms)
<1> DEFINE ms == [ns EXCEPT ![d].data = D]
<1>1. ns \in Seq(NodeSet)
  BY DEF Tree, Typed
<1>2. /\ ms \in Seq(NodeSet) /\ Len(ms) = Len(ns)
      /\ \A n \in DOMAIN ns :
           /\ ms[n].name = ns[n].name /\ ms[n].dir = ns[n].dir /\ ms[n].fs = ns[n].fs
           /\ ms[n].mountpt = ns[n].mountpt /\ ms[n].mount = ns[n].mount
           /\ ms[n].kids = ns[n].kids
           /\ ms[n].data = (IF n = d THEN D ELSE ns[n].data)
  BY <1>1, SetData
<1> HIDE DEF ms
<1>3. DOMAIN ms = DOMAIN ns
  BY <1>1, <1>2
<1>4. Typed(ms)
  <2>1. ASSUME NEW n \in DOMAIN ns PROVE Len(ms[n].data) <= MaxFile
    <3>1. CASE n = d
      BY <1>2, <3>1
    <3>2. CASE n # d
      BY <1>2, <3>2 DEF Tree, Typed
    <3> QED BY <3>1, <3>2
  <2> QED BY <1>2, <1>3, <2>1 DEF Tree, Typed
<1>5. Linked(ms)
  <2>1. ASSUME NEW n \in DOMAIN ns
        PROVE  /\ ms[n].mount \in DOMAIN ms \cup {NULL}
               /\ ms[n].fs = "proc" => ms[n].kids = <<>>
    BY <1>2, <1>3 DEF Tree, Linked
  <2>2. ASSUME NEW n \in DOMAIN ns, NEW i \in DOMAIN ms[n].kids
        PROVE  ms[n].kids[i] \in DOMAIN ms /\ ms[ms[n].kids[i]].fs = "tmpfs"
    <3>1. ms[n].kids = ns[n].kids
      BY <1>2
    <3>2. ns[n].kids[i] \in DOMAIN ns /\ ns[ns[n].kids[i]].fs = "tmpfs"
      BY <2>2, <3>1 DEF Tree, Linked
    <3> QED BY <1>2, <1>3, <3>1, <3>2
  <2> QED BY <1>3, <2>1, <2>2 DEF Linked
<1>6. Ordered(ms)
  BY <1>2, <1>3 DEF Tree, Ordered
<1>7. Apart(ms)
  BY <1>2, <1>3 DEF Tree, Apart
<1>8. Flags(ms)
  BY <1>2, <1>3 DEF Tree, Flags
<1>9. Keeps(ns, ms)
  <2>1. \A n \in DOMAIN ns : Len(ns[n].data) <= Len(ns[n].data)
    BY <1>1, Lengths
  <2> QED BY <1>2, <1>3, <2>1 DEF Keeps
<1>10. Thins(ns, ms)
  <2>1. \A n \in DOMAIN ns : Len(ns[n].kids) \in Nat
    BY <1>1, Lengths
  <2> QED BY <1>2, <2>1 DEF Thins
<1> QED BY <1>4, <1>5, <1>6, <1>7, <1>8, <1>9, <1>10 DEF Tree, ms

\* vfs_mount and vfs_umount: the flag follows the pointer.
LEMMA TreeMount ==
  ASSUME NEW ns, NEW d \in DOMAIN ns, NEW m \in DOMAIN ns \cup {NULL}, NEW b \in BOOLEAN,
         Tree(ns), b <=> m # NULL \/ (ns[d].fs = "proc" /\ ns[d].dir)
  PROVE  LET ms == Mounted(ns, d, m, b)
         IN  Tree(ms) /\ Keeps(ns, ms) /\ Thins(ns, ms)
<1> DEFINE ms == Mounted(ns, d, m, b)
<1>1. ns \in Seq(NodeSet)
  BY DEF Tree, Typed
<1>2. m \in Nat
  BY <1>1 DEF NULL
<1>3. /\ ms \in Seq(NodeSet) /\ Len(ms) = Len(ns)
      /\ \A n \in DOMAIN ns :
           /\ ms[n].name = ns[n].name /\ ms[n].dir = ns[n].dir /\ ms[n].fs = ns[n].fs
           /\ ms[n].mountpt = (IF n = d THEN b ELSE ns[n].mountpt)
           /\ ms[n].mount = (IF n = d THEN m ELSE ns[n].mount)
           /\ ms[n].kids = ns[n].kids /\ ms[n].data = ns[n].data
  BY <1>1, <1>2, SetMount
<1> HIDE DEF ms
<1>4. DOMAIN ms = DOMAIN ns
  BY <1>1, <1>3
<1>5. Typed(ms) /\ Ordered(ms)
  BY <1>3, <1>4 DEF Tree, Typed, Ordered
<1>6. Linked(ms)
  BY <1>3, <1>4 DEF Tree, Linked
<1>7. Apart(ms)
  BY <1>3, <1>4 DEF Tree, Apart
<1>8. Flags(ms)
  BY <1>3, <1>4 DEF Tree, Flags
<1>9. Keeps(ns, ms)
  <2>1. \A n \in DOMAIN ns : Len(ns[n].data) <= Len(ns[n].data)
    BY <1>1, Lengths
  <2> QED BY <1>3, <1>4, <2>1 DEF Keeps
<1>10. Thins(ns, ms)
  <2>1. \A n \in DOMAIN ns : Len(ns[n].kids) \in Nat
    BY <1>1, Lengths
  <2> QED BY <1>3, <2>1 DEF Thins
<1> QED BY <1>5, <1>6, <1>7, <1>8, <1>9, <1>10 DEF Tree, ms
--------------------------------------------------------------------------------
(* What stays of the invariant when vnodes go on as what they were.             *)
LEMMA KeepsTransitive ==
  ASSUME NEW ns, NEW ms, NEW xs, Tree(ns), Tree(ms), Tree(xs),
         Keeps(ns, ms), Keeps(ms, xs), Thins(ns, ms), Thins(ms, xs)
  PROVE  Keeps(ns, xs) /\ Thins(ns, xs)
<1> SUFFICES ASSUME NEW n \in DOMAIN ns
             PROVE  /\ n \in DOMAIN xs
                    /\ xs[n].name = ns[n].name /\ xs[n].dir = ns[n].dir /\ xs[n].fs = ns[n].fs
                    /\ Len(ns[n].data) <= Len(xs[n].data)
                    /\ Len(xs[n].kids) <= Len(ns[n].kids)
  BY DEF Keeps, Thins
<1>1. n \in DOMAIN ms /\ n \in DOMAIN xs
  BY DEF Keeps
<1>2. ns[n] \in NodeSet /\ ms[n] \in NodeSet /\ xs[n] \in NodeSet
  BY <1>1 DEF Tree, Typed
<1>3. Len(ns[n].data) \in Nat /\ Len(ms[n].data) \in Nat /\ Len(xs[n].data) \in Nat
  BY <1>2, SMTT(30) DEF NodeSet
<1>4. Len(ns[n].data) <= Len(ms[n].data) /\ Len(ms[n].data) <= Len(xs[n].data)
  BY <1>1 DEF Keeps
<1>5. xs[n].name = ns[n].name /\ xs[n].dir = ns[n].dir /\ xs[n].fs = ns[n].fs
  BY <1>1 DEF Keeps
<1>6. Len(ms[n].kids) <= Len(ns[n].kids) /\ Len(xs[n].kids) <= Len(ms[n].kids)
  BY <1>1 DEF Thins
<1>7. Len(ns[n].kids) \in Nat /\ Len(ms[n].kids) \in Nat /\ Len(xs[n].kids) \in Nat
  BY <1>2 DEF NodeSet
<1>8. Len(ns[n].data) <= Len(xs[n].data) /\ Len(xs[n].kids) <= Len(ns[n].kids)
  BY <1>3, <1>4, <1>6, <1>7, SMTT(30)
<1> QED BY <1>1, <1>5, <1>8

\* A step that leaves the vnodes alone is such a step.
LEMMA KeepsSame ==
  ASSUME NEW ns, Tree(ns)
  PROVE  Keeps(ns, ns) /\ Thins(ns, ns)
<1>1. \A n \in DOMAIN ns : ns[n] \in NodeSet
  BY DEF Tree, Typed
<1>2. \A n \in DOMAIN ns : Len(ns[n].data) <= Len(ns[n].data) /\ Len(ns[n].kids) <= Len(ns[n].kids)
  BY <1>1 DEF NodeSet
<1> QED BY <1>2 DEF Keeps, Thins

\* A descriptor's file goes on as a file that is no shorter.
LEMMA KeepsDescriptor ==
  ASSUME NEW ns, NEW ms, Tree(ns), Tree(ms), Keeps(ns, ms), NEW d \in FdSet, Descriptor(ns, d)
  PROVE  Descriptor(ms, d)
<1>1. d.offset <= MaxFile /\ (~d.used => d = FreeFd)
  BY DEF Descriptor
<1>2. ASSUME d.used
      PROVE  /\ d.node \in DOMAIN ms /\ ~ms[d.node].dir
             /\ ms[d.node].fs = "tmpfs" => d.offset <= Len(ms[d.node].data)
  <2> DEFINE n == d.node
  <2>1. n \in DOMAIN ns /\ ~ns[n].dir
        /\ (ns[n].fs = "tmpfs" => d.offset <= Len(ns[n].data))
    BY <1>2 DEF Descriptor
  <2> HIDE DEF n
  <2>2. /\ n \in DOMAIN ms /\ ms[n].dir = ns[n].dir /\ ms[n].fs = ns[n].fs
        /\ Len(ns[n].data) <= Len(ms[n].data)
    BY <2>1 DEF Keeps
  <2>3. ns[n] \in NodeSet /\ ms[n] \in NodeSet
    BY <2>1, <2>2 DEF Tree, Typed
  <2>4. Len(ns[n].data) \in Nat /\ Len(ms[n].data) \in Nat /\ d.offset \in Nat
    BY <2>3 DEF NodeSet, FdSet
  <2> QED BY <2>1, <2>2, <2>4 DEF n
<1> QED BY <1>1, <1>2 DEF Descriptor

\* So all descriptors stay good.
LEMMA KeepsDescriptors ==
  ASSUME Tree(nodes), Tree(nodes'), Keeps(nodes, nodes'), Descriptors, UNCHANGED fds
  PROVE  Descriptors'
<1>1. ASSUME NEW f \in Fds PROVE Descriptor(nodes', fds[f])
  <2>1. fds[f] \in FdSet /\ Descriptor(nodes, fds[f])
    BY DEF Descriptors
  <2> QED BY <2>1, KeepsDescriptor
<1> QED BY <1>1 DEF Descriptors, Fds

\* The list of procfs files goes on as it was.
LEMMA KeepsProcs ==
  ASSUME Keeps(nodes, nodes'), ProcFilesListed, ProcNamesDistinct, UNCHANGED procs
  PROVE  ProcFilesListed' /\ ProcNamesDistinct'
<1>1. ASSUME NEW i \in DOMAIN procs
      PROVE  /\ procs[i] \in DOMAIN nodes' /\ nodes'[procs[i]].fs = "proc"
             /\ ~nodes'[procs[i]].dir /\ nodes'[procs[i]].name = nodes[procs[i]].name
  BY DEF ProcFilesListed, Keeps, VnodeIds
<1>2. ProcFilesListed'
  BY <1>1 DEF ProcFilesListed, VnodeIds
<1>3. ProcNamesDistinct'
  BY <1>1 DEF ProcNamesDistinct
<1> QED BY <1>2, <1>3

\* A call that only adds to the vnodes keeps the invariant.
LEMMA KeepsInvariant ==
  ASSUME IInv, Tree(nodes'), Keeps(nodes, nodes'),
         UNCHANGED <<vfs_root, mounts, proc_root, procs, fds>>
  PROVE  IInv'
<1>1. Roots'
  <2>1. DOMAIN nodes \subseteq DOMAIN nodes'
    BY DEF Keeps
  <2> QED BY <2>1 DEF IInv, Roots, Ids, VnodeIds
<1>2. ProcFilesListed' /\ ProcNamesDistinct'
  BY KeepsProcs DEF IInv
<1>3. Descriptors'
  BY KeepsDescriptors DEF IInv
<1> QED BY <1>1, <1>2, <1>3 DEF IInv
--------------------------------------------------------------------------------
(* The calls, one by one.                                                       *)
\* What SYS_MKDIR, SYS_MKFILE and SYS_WRITE of a new file do to the tree.
MadeOne == /\ Keeps(nodes, nodes') /\ Grows(nodes, nodes')
           /\ UNCHANGED <<vfs_root, procs>>

\* SYS_MKDIR and SYS_MKFILE keep the invariant, and make one entry.
LEMMA MkKeeps ==
  ASSUME IInv, NEW path \in Paths, NEW dir \in BOOLEAN, SysMk(path, dir)
  PROVE  IInv' /\ MadeOne
<1> DEFINE d == Resolve(ParentPath(path))
           r == Node(LastName(path), dir, "tmpfs")
<1>1. path \in Seq(STRING)
  BY Constants
<1>2. ParentPath(path) \in Seq(STRING) /\ LastName(path) \in Names
  BY SplitParent
<1>3. d \in Ids
  BY <1>2, ResolveType DEF IInv
<1>4. Fresh(r) /\ r.fs = "tmpfs"
  BY <1>2, FreshNode
<1>5. CanMake(d) /\ Make(d, r) /\ UNCHANGED <<vfs_root, mounts, proc_root, procs, fds>>
  BY DEF SysMk
<1> HIDE DEF d, r
<1>6. /\ d \in DOMAIN nodes /\ nodes[d].fs = "tmpfs" /\ Len(nodes[d].kids) < MaxKids
      /\ Len(nodes) < MaxNodes
  <2>1. Len(nodes) \in Nat
    BY DEF IInv, Tree, Typed
  <2> QED BY <1>3, <1>5, <2>1, Constants DEF CanMake, IsTmpDir, IsDir, HasRoom, Ids, VnodeIds
<1>7. nodes' = Append([nodes EXCEPT ![d].kids = Append(@, Len(nodes) + 1)], r)
  BY <1>5 DEF Make, NewNode
<1>8. Tree(nodes') /\ Keeps(nodes, nodes') /\ Grows(nodes, nodes')
  BY <1>4, <1>6, <1>7, TreeLink DEF IInv
<1>9. MadeOne
  BY <1>5, <1>8 DEF MadeOne
<1> QED BY <1>5, <1>8, <1>9, KeepsInvariant

\* SYS_RM keeps the invariant, and takes one entry away.
LEMMA RmKeeps ==
  ASSUME IInv, NEW path \in Paths, SysRm(path)
  PROVE  IInv' /\ Thins(nodes, nodes')
<1> DEFINE d == Resolve(ParentPath(path))
           name == LastName(path)
           hits == {i \in DOMAIN nodes[d].kids : nodes[nodes[d].kids[i]].name = name}
<1>1. ParentPath(path) \in Seq(STRING)
  BY Constants, SplitParent
<1>2. d \in Ids
  BY <1>1, ResolveType DEF IInv
<1>3. IsTmpDir(d) /\ Unlink(d, name) /\ UNCHANGED <<vfs_root, mounts, proc_root, procs, fds>>
  BY DEF SysRm
<1> HIDE DEF d, name
<1>4. d \in DOMAIN nodes /\ nodes[d].fs = "tmpfs"
  BY <1>2, <1>3 DEF IsTmpDir, IsDir, Ids, VnodeIds
<1>5. nodes[d].kids \in Seq(Nat)
  <2>1. nodes[d] \in NodeSet
    BY <1>4 DEF IInv, Tree, Typed
  <2> QED BY <2>1 DEF NodeSet
<1>6. Kids(d) = nodes[d].kids
  BY <1>4 DEF Kids
<1>7. hits # {}
  BY <1>3, <1>6 DEF Unlink, Finddir
<1>8. nodes' = [nodes EXCEPT ![d].kids = RemoveKid(nodes[d].kids, Min(hits))]
  BY <1>3 DEF Unlink
<1>9. Min(hits) \in DOMAIN nodes[d].kids
  <2>1. hits \in SUBSET Nat /\ \A i \in hits : i \in DOMAIN nodes[d].kids
    BY <1>5
  <2> HIDE DEF hits
  <2> QED BY <1>7, <2>1, MinFacts
<1> HIDE DEF hits
<1>10. Tree(nodes') /\ Keeps(nodes, nodes') /\ Thins(nodes, nodes')
  BY <1>4, <1>8, <1>9, TreeUnlink DEF IInv
<1> QED BY <1>3, <1>10, KeepsInvariant

\* A write to a file that is there, through a path or a descriptor.
LEMMA WriteTree ==
  ASSUME Tree(nodes), NEW n \in DOMAIN nodes, NEW off \in Nat, NEW buf \in Seq(Nat),
         CanWrite(n, off, buf), Write(n, off, buf)
  PROVE  /\ Tree(nodes') /\ Keeps(nodes, nodes') /\ Thins(nodes, nodes')
         /\ Grows(nodes, nodes') /\ off + Len(buf) <= Len(nodes'[n].data)
         /\ nodes'[n].data = Written(nodes[n].data, off, buf)
<1> DEFINE D == Written(nodes[n].data, off, buf)
<1>1. nodes \in Seq(NodeSet) /\ nodes[n].data \in Seq(Nat) /\ Len(nodes[n].data) <= MaxFile
  <2>1. nodes \in Seq(NodeSet) /\ Len(nodes[n].data) <= MaxFile
    BY DEF Tree, Typed
  <2>2. nodes[n] \in NodeSet
    BY <2>1
  <2> QED BY <2>1, <2>2 DEF NodeSet
<1>2. /\ D \in Seq(Nat)
      /\ Len(D) = IF off + Len(buf) > Len(nodes[n].data) THEN off + Len(buf)
                  ELSE Len(nodes[n].data)
  BY <1>1, WrittenFacts
<1>3. nodes' = [nodes EXCEPT ![n].data = D]
  BY DEF Write
<1>4. off + Len(buf) > Len(nodes[n].data) => off + Len(buf) <= MaxFile
  BY DEF CanWrite
<1> HIDE DEF D
<1>5. Len(nodes[n].data) \in Nat /\ Len(buf) \in Nat /\ Len(D) \in Nat
  BY <1>1, <1>2
<1>6. Len(nodes[n].data) <= Len(D) /\ Len(D) <= MaxFile /\ off + Len(buf) <= Len(D)
  <2>1. CASE off + Len(buf) > Len(nodes[n].data)
    BY <1>2, <1>4, <1>5, <2>1
  <2>2. CASE ~(off + Len(buf) > Len(nodes[n].data))
    BY <1>1, <1>2, <1>5, <2>2
  <2> QED BY <2>1, <2>2
<1>7. Tree(nodes') /\ Keeps(nodes, nodes') /\ Thins(nodes, nodes')
  BY <1>2, <1>3, <1>6, TreeWrite
<1>8. nodes'[n].data = D /\ Grows(nodes, nodes')
  <2> DEFINE ms == [nodes EXCEPT ![n].data = D]
  <2>1. nodes \in Seq(NodeSet) /\ D \in Seq(Nat)
    BY <1>1, <1>2
  <2>2. \A k \in DOMAIN nodes :
          /\ ms[k].data = (IF k = n THEN D ELSE nodes[k].data)
          /\ ms[k].mount = nodes[k].mount /\ ms[k].kids = nodes[k].kids
    BY <2>1, SetData
  <2>3. nodes' = ms
    BY <1>3
  <2> HIDE DEF ms
  <2> QED BY <2>2, <2>3 DEF Grows
<1> QED BY <1>6, <1>7, <1>8 DEF D

\* SYS_WRITE to a file there is keeps the invariant and every entry.
LEMMA WriteOldKeeps ==
  ASSUME IInv, NEW path \in Paths, NEW buf \in Buffers, SysWriteOld(path, buf)
  PROVE  IInv' /\ Thins(nodes, nodes') /\ MadeOne
<1> DEFINE n == Resolve(path)
<1>1. path \in Seq(STRING) /\ buf \in Seq(Nat)
  BY Constants
<1>2. n \in Ids
  BY <1>1, ResolveType DEF IInv
<1>3. /\ IsFile(n) /\ CanWrite(n, 0, buf) /\ Write(n, 0, buf)
      /\ UNCHANGED <<vfs_root, mounts, proc_root, procs, fds>>
  BY DEF SysWriteOld
<1> HIDE DEF n
<1>4. n \in DOMAIN nodes
  BY <1>2, <1>3 DEF IsFile, Ids, VnodeIds
<1>5. Tree(nodes') /\ Keeps(nodes, nodes') /\ Thins(nodes, nodes') /\ Grows(nodes, nodes')
  BY <1>1, <1>3, <1>4, WriteTree DEF IInv
<1>6. MadeOne
  BY <1>3, <1>5 DEF MadeOne
<1> QED BY <1>3, <1>5, <1>6, KeepsInvariant

\* The entry that SYS_WRITE makes for a path that named nothing.
NewEntry(d, name, buf) ==
  LET k == Len(nodes) + 1
  IN  /\ d \in DOMAIN nodes /\ nodes[d].fs = "tmpfs" /\ nodes[d].dir
      /\ k \in DOMAIN nodes' /\ nodes'[d].kids = Append(nodes[d].kids, k)
      /\ nodes'[k].name = name /\ nodes'[k].mount = NULL /\ ~nodes'[k].dir
      /\ nodes'[k].data = Written(<<>>, 0, IF Len(buf) <= MaxFile THEN buf ELSE <<>>)

\* SYS_WRITE that makes its file keeps the invariant, whether it can fill it or not.
LEMMA WriteNewKeeps ==
  ASSUME IInv, NEW path \in Paths, NEW buf \in Buffers, SysWriteNew(path, buf)
  PROVE  IInv' /\ MadeOne /\ NewEntry(Resolve(ParentPath(path)), LastName(path), buf)
<1> DEFINE d == Resolve(ParentPath(path))
           node == Node(LastName(path), FALSE, "tmpfs")
           D == Written(<<>>, 0, buf)
           r == IF Len(buf) <= MaxFile THEN [node EXCEPT !.data = D] ELSE node
<1>1. path \in Seq(STRING) /\ buf \in Seq(Nat)
  BY Constants
<1>2. ParentPath(path) \in Seq(STRING) /\ LastName(path) \in Names
  BY SplitParent
<1>3. d \in Ids
  BY <1>2, ResolveType DEF IInv
<1>4. /\ Fresh(r) /\ r.fs = "tmpfs" /\ r.name = LastName(path)
      /\ ~r.dir /\ r.data = Written(<<>>, 0, IF Len(buf) <= MaxFile THEN buf ELSE <<>>)
  <2>1. /\ Fresh(node) /\ node.fs = "tmpfs" /\ node.name = LastName(path)
        /\ ~node.dir /\ node.data = <<>>
    BY <1>2, FreshNode
  <2>2. ASSUME Len(buf) <= MaxFile
        PROVE  /\ Fresh([node EXCEPT !.data = D]) /\ [node EXCEPT !.data = D].fs = "tmpfs"
               /\ [node EXCEPT !.data = D].name = LastName(path)
               /\ ~[node EXCEPT !.data = D].dir /\ [node EXCEPT !.data = D].data = D
    <3>0. <<>> \in Seq(Nat) /\ 0 \in Nat /\ Len(<<>>) = 0 /\ Len(buf) \in Nat
      BY <1>1
    <3>1. D \in Seq(Nat) /\ Len(D) = IF 0 + Len(buf) > Len(<<>>) THEN 0 + Len(buf) ELSE Len(<<>>)
      BY <1>1, <3>0, WrittenFacts
    <3>2. Len(D) <= MaxFile
      BY <2>2, <3>0, <3>1
    <3> HIDE DEF D
    <3> QED BY <1>2, <3>1, <3>2, FreshFile
  <2>3. Written(<<>>, 0, <<>>) = <<>>
    <3>1. <<>> \in Seq(Nat) /\ 0 \in Nat /\ Len(<<>>) = 0
      OBVIOUS
    <3>2. PICK z \in Seq(Nat) : z = <<>> /\ Len(z) = 0
      BY <3>1
    <3>3. /\ Written(z, 0, z) \in Seq(Nat)
          /\ Len(Written(z, 0, z)) = IF 0 + Len(z) > Len(z) THEN 0 + Len(z) ELSE Len(z)
      BY <3>1, WrittenFacts
    <3>4. Written(z, 0, z) \in Seq(Nat) /\ Len(Written(z, 0, z)) = 0
      BY <3>2, <3>3
    <3> QED BY <3>2, <3>4
  <2> DEFINE q == [node EXCEPT !.data = D]
             e == Written(<<>>, 0, IF Len(buf) <= MaxFile THEN buf ELSE <<>>)
  <2>4. Len(buf) <= MaxFile => r = q /\ e = D
    OBVIOUS
  <2>5. ~(Len(buf) <= MaxFile) => r = node /\ e = <<>>
    BY <2>3
  <2> HIDE DEF node, D, r, q, e
  <2>6. CASE Len(buf) <= MaxFile
    <3>1. Fresh(q) /\ q.fs = "tmpfs" /\ q.name = LastName(path) /\ ~q.dir /\ q.data = D
      BY <2>2, <2>6 DEF q
    <3> QED BY <2>4, <2>6, <3>1, Zenon DEF e
  <2>7. CASE ~(Len(buf) <= MaxFile)
    BY <2>1, <2>5, <2>7, Zenon DEF e
  <2> QED BY <2>6, <2>7
<1>5. CanMake(d) /\ Make(d, r) /\ UNCHANGED <<vfs_root, mounts, proc_root, procs, fds>>
  BY DEF SysWriteNew
<1> HIDE DEF d, r
<1>6. /\ d \in DOMAIN nodes /\ nodes[d].fs = "tmpfs" /\ nodes[d].dir /\ Len(nodes[d].kids) < MaxKids
      /\ Len(nodes) < MaxNodes
  <2>1. Len(nodes) \in Nat
    BY DEF IInv, Tree, Typed
  <2> QED BY <1>3, <1>5, <2>1, Constants DEF CanMake, IsTmpDir, IsDir, HasRoom, Ids, VnodeIds
<1>7. nodes' = Append([nodes EXCEPT ![d].kids = Append(@, Len(nodes) + 1)], r)
  BY <1>5 DEF Make, NewNode
<1>8. /\ Tree(nodes') /\ Keeps(nodes, nodes') /\ Grows(nodes, nodes')
      /\ Len(nodes) + 1 \in DOMAIN nodes' /\ nodes'[Len(nodes) + 1] = r
      /\ nodes'[d].kids = Append(nodes[d].kids, Len(nodes) + 1)
  <2>1. Fresh(r) /\ r.fs = "tmpfs"
    BY <1>4
  <2>2. Tree(nodes)
    BY DEF IInv
  <2> QED BY <1>6, <1>7, <2>1, <2>2, TreeLink
<1>9. MadeOne
  BY <1>5, <1>8 DEF MadeOne
<1>10. NewEntry(Resolve(ParentPath(path)), LastName(path), buf)
  BY <1>4, <1>6, <1>8 DEF NewEntry, Fresh, d
<1> QED BY <1>5, <1>8, <1>9, <1>10, KeepsInvariant

\* SYS_UMOUNT keeps the invariant: it finds no root of a procfs mount.
LEMMA UmountKeeps ==
  ASSUME IInv, NEW path \in Paths, SysUmount(path)
  PROVE  IInv' /\ Thins(nodes, nodes')
<1> DEFINE d == Resolve(ParentPath(path))
           t == Finddir(d, LastName(path))
<1>1. ParentPath(path) \in Seq(STRING)
  BY Constants, SplitParent
<1>2. d \in Ids
  BY <1>1, ResolveType DEF IInv
<1>3. UmountTarget(path) = (IF IsDir(d) THEN t ELSE NULL)
  BY DEF UmountTarget
<1>4. /\ UmountTarget(path) # NULL /\ Uncover(UmountTarget(path))
      /\ UNCHANGED <<vfs_root, mounts, proc_root, procs, fds>>
  BY DEF SysUmount
<1>5. IsDir(d) /\ UmountTarget(path) = t /\ t # NULL
  BY <1>3, <1>4
<1>6. d \in VnodeIds
  BY <1>2, <1>5 DEF IsDir, Ids
<1>7. t \in Ids /\ (nodes[t].fs = "tmpfs" \/ ~nodes[t].dir)
  BY <1>5, <1>6, FinddirType DEF IInv
<1> HIDE DEF d, t
<1>8. t \in DOMAIN nodes
  BY <1>5, <1>7 DEF Ids, VnodeIds
<1>9. nodes' = Mounted(nodes, t, NULL, FALSE)
  BY <1>4, <1>5 DEF Uncover, Mounted
<1>10. FALSE <=> NULL # NULL \/ (nodes[t].fs = "proc" /\ nodes[t].dir)
  BY <1>7
<1>11. Tree(nodes') /\ Keeps(nodes, nodes') /\ Thins(nodes, nodes')
  BY <1>8, <1>9, <1>10, TreeMount DEF IInv
<1> QED BY <1>4, <1>11, KeepsInvariant

\* vfs_mount of the root m, the filesystem having left the vnodes ns.
LEMMA MountTree ==
  ASSUME Tree(nodes), Roots, NEW ns, Tree(ns), Keeps(nodes, ns), Thins(nodes, ns), NEW m \in DOMAIN ns,
         NEW path, NEW t \in DOMAIN nodes, CanMount, Mount(path, t, ns, m)
  PROVE  /\ Tree(nodes') /\ Keeps(ns, nodes') /\ Keeps(nodes, nodes') /\ Thins(nodes, nodes')
         /\ vfs_root' \in DOMAIN nodes'
         /\ mounts' \in Seq(Nat) /\ Len(mounts') <= MaxMounts
         /\ \A i \in DOMAIN mounts' : mounts'[i] \in DOMAIN nodes'
<1>1. ns \in Seq(NodeSet) /\ m \in Nat /\ m # NULL /\ t \in DOMAIN ns
  <2>1. ns \in Seq(NodeSet)
    BY DEF Tree, Typed
  <2>2. t \in DOMAIN ns
    BY DEF Keeps
  <2> QED BY <2>1, <2>2 DEF NULL
<1>2. Tree(nodes') /\ Keeps(ns, nodes') /\ Thins(ns, nodes') /\ vfs_root' \in DOMAIN nodes'
  <2>1. CASE path = <<>>
    <3>1. vfs_root' = m /\ nodes' = ns
      BY <2>1 DEF Mount
    <3>2. Keeps(ns, ns) /\ Thins(ns, ns)
      BY KeepsSame
    <3> QED BY <3>1, <3>2
  <2>2. CASE path # <<>>
    <3>1. vfs_root' = vfs_root /\ nodes' = Mounted(ns, t, m, TRUE)
      BY <2>2 DEF Mount, Cover, Mounted
    <3>2. m \in DOMAIN ns \cup {NULL} /\ TRUE \in BOOLEAN
          /\ (TRUE <=> m # NULL \/ (ns[t].fs = "proc" /\ ns[t].dir))
      BY <1>1
    <3>3. Tree(nodes') /\ Keeps(ns, nodes') /\ Thins(ns, nodes')
      BY <1>1, <3>1, <3>2, TreeMount
    <3> QED BY <3>1, <3>3 DEF Keeps, Roots, VnodeIds
  <2> QED BY <2>1, <2>2
<1>3. Keeps(nodes, nodes') /\ Thins(nodes, nodes')
  BY <1>2, KeepsTransitive
<1>4. mounts' = Append(mounts, m) /\ Len(mounts) < MaxMounts
  BY DEF Mount, CanMount
<1>5. /\ mounts \in Seq(Nat)
      /\ \A i \in DOMAIN mounts : mounts[i] \in DOMAIN nodes'
      /\ m \in DOMAIN nodes'
  BY <1>2, <1>3 DEF Roots, VnodeIds, Keeps
<1>6. mounts' \in Seq(Nat) /\ Len(mounts') <= MaxMounts
  BY <1>1, <1>4, <1>5, Constants
<1>7. \A i \in DOMAIN mounts' : mounts'[i] \in DOMAIN nodes'
  <2>1. \A i \in DOMAIN mounts' : mounts'[i] = m \/ (i \in DOMAIN mounts /\ mounts'[i] = mounts[i])
    BY <1>1, <1>4, <1>5
  <2> QED BY <1>5, <2>1
<1> QED BY <1>2, <1>3, <1>6, <1>7

\* The vnode a mount goes on.
LEMMA TargetType ==
  ASSUME IInv, NEW path \in Paths, IsDir(Resolve(path))
  PROVE  Resolve(path) \in DOMAIN nodes
<1>1. Resolve(path) \in Ids
  BY Constants, ResolveType DEF IInv
<1> QED BY <1>1 DEF IsDir, Ids, VnodeIds

\* Mounting a tmpfs keeps the invariant, also when the mount table is full.
LEMMA MountTmpfsKeeps ==
  ASSUME IInv, NEW path \in Paths, MountTmpfs(path)
  PROVE  IInv' /\ Thins(nodes, nodes')
<1> DEFINE r == Node("/", TRUE, "tmpfs")
           ns == Append(nodes, r)
           t == Resolve(path)
<1>1. /\ IsDir(t) /\ HasRoom(1) /\ UNCHANGED <<proc_root, procs, fds>>
      /\ IF CanMount THEN Mount(path, t, ns, NewNode)
         ELSE nodes' = ns /\ UNCHANGED <<vfs_root, mounts>>
  BY DEF MountTmpfs, Alloc
<1>2. t \in DOMAIN nodes
  BY <1>1, TargetType
<1>3. nodes \in Seq(NodeSet) /\ Len(nodes) < MaxNodes
  <2>1. nodes \in Seq(NodeSet)
    BY DEF IInv, Tree, Typed
  <2> QED BY <1>1, <2>1, Constants DEF HasRoom
<1>4. Fresh(r)
  <2>1. "/" \in Names /\ TRUE \in BOOLEAN /\ "tmpfs" \in {"tmpfs", "proc"}
    BY DEF Names
  <2> QED BY <2>1, FreshNode
<1>5. Tree(ns) /\ Keeps(nodes, ns) /\ Thins(nodes, ns)
  BY <1>3, <1>4, TreeAlloc DEF IInv
<1>6. NewNode \in DOMAIN ns
  BY <1>3, <1>4 DEF NewNode, Fresh
<1> HIDE DEF ns, t
<1>7. Tree(nodes') /\ Keeps(nodes, nodes') /\ Thins(nodes, nodes') /\ Roots'
  <2>1. CASE CanMount
    <3>1. /\ Tree(nodes') /\ Keeps(nodes, nodes') /\ Thins(nodes, nodes') /\ vfs_root' \in DOMAIN nodes'
          /\ mounts' \in Seq(Nat) /\ Len(mounts') <= MaxMounts
          /\ \A i \in DOMAIN mounts' : mounts'[i] \in DOMAIN nodes'
      BY <1>1, <1>2, <1>5, <1>6, <2>1, MountTree DEF IInv
    <3> QED BY <1>1, <3>1 DEF IInv, Roots, Ids, VnodeIds, Keeps
  <2>2. CASE ~CanMount
    BY <1>1, <1>5, <2>2 DEF IInv, Roots, Ids, VnodeIds, Keeps
  <2> QED BY <2>1, <2>2
<1>8. ProcFilesListed' /\ ProcNamesDistinct'
  BY <1>1, <1>7, KeepsProcs DEF IInv
<1>9. Descriptors'
  BY <1>1, <1>7, KeepsDescriptors DEF IInv
<1> QED BY <1>7, <1>8, <1>9 DEF IInv

\* Binding what another path names keeps the invariant.
LEMMA MountBindKeeps ==
  ASSUME IInv, NEW source \in Paths, NEW path \in Paths, MountBind(source, path)
  PROVE  IInv' /\ Thins(nodes, nodes')
<1> DEFINE t == Resolve(path)
           m == Resolve(source)
<1>1. /\ IsDir(t) /\ m # NULL /\ CanMount /\ Mount(path, t, nodes, m)
      /\ UNCHANGED <<proc_root, procs, fds>>
  BY DEF MountBind
<1>2. t \in DOMAIN nodes
  BY <1>1, TargetType
<1>3. m \in DOMAIN nodes
  <2>1. m \in Ids
    BY Constants, ResolveType DEF IInv
  <2> QED BY <1>1, <2>1 DEF Ids, VnodeIds
<1> HIDE DEF t, m
<1>4. Keeps(nodes, nodes) /\ Thins(nodes, nodes)
  BY KeepsSame DEF IInv
<1>5. /\ Tree(nodes') /\ Keeps(nodes, nodes') /\ Thins(nodes, nodes') /\ vfs_root' \in DOMAIN nodes'
      /\ mounts' \in Seq(Nat) /\ Len(mounts') <= MaxMounts
      /\ \A i \in DOMAIN mounts' : mounts'[i] \in DOMAIN nodes'
  BY <1>1, <1>2, <1>3, <1>4, MountTree DEF IInv
<1>6. Roots'
  BY <1>1, <1>5 DEF IInv, Roots, Ids, VnodeIds, Keeps
<1>7. ProcFilesListed' /\ ProcNamesDistinct'
  BY <1>1, <1>5, KeepsProcs DEF IInv
<1>8. Descriptors'
  BY <1>1, <1>5, KeepsDescriptors DEF IInv
<1> QED BY <1>5, <1>6, <1>7, <1>8 DEF IInv

\* A proc mount that the heap refuses keeps the invariant.
LEMMA MountProcRefusedKeeps ==
  ASSUME IInv, NEW path \in Paths, MountProcRefused(path)
  PROVE  IInv' /\ Thins(nodes, nodes')
<1>1. proc_root' = NULL /\ UNCHANGED <<nodes, vfs_root, mounts, procs, fds>>
  BY DEF MountProcRefused
<1>2. Roots'
  BY <1>1 DEF IInv, Roots, Ids, VnodeIds
<1>3. Tree(nodes') /\ ProcFilesListed' /\ ProcNamesDistinct' /\ Descriptors'
  BY <1>1 DEF IInv, ProcFilesListed, ProcNamesDistinct, Descriptors, VnodeIds, Fds
<1>4. Thins(nodes, nodes')
  BY <1>1, KeepsSame DEF IInv
<1> QED BY <1>2, <1>3, <1>4 DEF IInv

\* Mounting proc makes a root and after it the files that fit, which the list names.
LEMMA ProcMade ==
  ASSUME Tree(nodes), HasRoom(1)
  PROVE  LET ns == nodes \o ProcNodes
         IN  /\ Tree(ns) /\ Keeps(nodes, ns) /\ Thins(nodes, ns) /\ NewNode \in DOMAIN ns
             /\ ProcList \in Seq(Nat) /\ Len(ProcList) <= MaxProc
             /\ \A i \in DOMAIN ProcList :
                  /\ i \in DOMAIN ProcFiles
                  /\ ProcList[i] \in DOMAIN ns /\ ns[ProcList[i]].fs = "proc"
                  /\ ~ns[ProcList[i]].dir /\ ns[ProcList[i]].name = ProcFiles[i]
<1> DEFINE k == ProcRegistered
           R == [Node("proc", TRUE, "proc") EXCEPT !.mountpt = TRUE]
           files == [i \in 1 .. k |-> Node(ProcFiles[i], FALSE, "proc")]
           ns == nodes \o ProcNodes
<1>1. nodes \in Seq(NodeSet) /\ Len(nodes) \in Nat /\ Len(nodes) + 1 <= MaxNodes
  BY DEF Tree, Typed, HasRoom
<1>2. /\ k \in Nat /\ k <= Len(ProcFiles) /\ k <= MaxProc /\ Len(nodes) + 1 + k <= MaxNodes
      /\ Len(ProcFiles) \in Nat
  <2> DEFINE room == MaxNodes - (Len(nodes) + 1)
             cap  == IF room < MaxProc THEN room ELSE MaxProc
             n    == Len(ProcFiles)
  <2>1. n \in Nat /\ room \in Nat /\ MaxProc \in Nat /\ MaxNodes \in Nat
    BY <1>1, Constants
  <2>2. Len(nodes) + 1 + room = MaxNodes
    BY <1>1, <2>1
  <2>3. k = IF n < cap THEN n ELSE cap
    BY DEF ProcRegistered
  <2> HIDE DEF room, n, k
  <2>4. cap \in Nat /\ cap <= room /\ cap <= MaxProc
    BY <2>1
  <2> HIDE DEF cap
  <2>5. k \in Nat /\ k <= n /\ k <= cap
    BY <2>1, <2>3, <2>4
  <2> QED BY <1>1, <2>1, <2>2, <2>4, <2>5 DEF n
<1>3. ProcNodes = <<R>> \o files /\ ProcList = [i \in 1 .. k |-> Len(nodes) + 1 + i]
  BY DEF ProcNodes, ProcList, NewNode
<1>4. Fresh(R)
  BY FreshRoot
<1>5. ASSUME NEW i \in 1 .. k
      PROVE  /\ i \in DOMAIN ProcFiles
             /\ Fresh(Node(ProcFiles[i], FALSE, "proc"))
             /\ Node(ProcFiles[i], FALSE, "proc").fs = "proc"
             /\ ~Node(ProcFiles[i], FALSE, "proc").dir
             /\ Node(ProcFiles[i], FALSE, "proc").name = ProcFiles[i]
  <2>1. i \in DOMAIN ProcFiles
    BY <1>2, Constants
  <2>2. ProcFiles[i] \in Names /\ FALSE \in BOOLEAN /\ "proc" \in {"tmpfs", "proc"}
    <3>1. ProcFiles[i] \in Range(ProcFiles)
      BY <2>1 DEF Range
    <3> QED BY <3>1 DEF Names
  <2>3. Fresh(Node(ProcFiles[i], FALSE, "proc"))
    BY <2>2, FreshNode
  <2>4. /\ Node(ProcFiles[i], FALSE, "proc").fs = "proc"
        /\ Node(ProcFiles[i], FALSE, "proc").dir = FALSE
        /\ Node(ProcFiles[i], FALSE, "proc").name = ProcFiles[i]
    BY <2>2, NodeFacts
  <2> QED BY <2>1, <2>3, <2>4
<1> HIDE DEF k, R
<1>6. /\ files \in Seq(NodeSet) /\ Len(files) = k
      /\ \A i \in 1 .. k : files[i] = Node(ProcFiles[i], FALSE, "proc")
  <2>1. \A i \in 1 .. k : Node(ProcFiles[i], FALSE, "proc") \in NodeSet
    BY <1>5 DEF Fresh
  <2>2. files \in [1 .. k -> NodeSet]
    BY <2>1
  <2>3. \A i \in 1 .. k : files[i] = Node(ProcFiles[i], FALSE, "proc")
    OBVIOUS
  <2> HIDE DEF files
  <2>4. files \in Seq(NodeSet) /\ Len(files) = k
    BY <1>2, <2>2
  <2> QED BY <2>3, <2>4
<1> HIDE DEF files
<1>7. /\ ProcNodes \in Seq(NodeSet) /\ Len(ProcNodes) = 1 + k /\ ProcNodes[1] = R
      /\ \A i \in 1 .. k : ProcNodes[1 + i] = files[i]
  BY <1>2, <1>3, <1>4, <1>6 DEF Fresh
<1>8. /\ ns \in Seq(NodeSet) /\ Len(ns) = Len(nodes) + (1 + k)
      /\ \A n \in DOMAIN nodes : ns[n] = nodes[n]
      /\ \A i \in 1 .. (1 + k) : ns[Len(nodes) + i] = ProcNodes[i]
  BY <1>1, <1>2, <1>7, SMTT(30)
<1> HIDE DEF ns
<1>9. \A i \in 1 .. k : ns[Len(nodes) + 1 + i] = Node(ProcFiles[i], FALSE, "proc")
  <2> TAKE i \in 1 .. k
  <2>1. 1 + i \in 1 .. (1 + k) /\ Len(nodes) + (1 + i) = Len(nodes) + 1 + i
    BY <1>1, <1>2
  <2> QED BY <1>6, <1>7, <1>8, <2>1
<1>10. \A n \in DOMAIN ns \ DOMAIN nodes : Fresh(ns[n])
  <2> TAKE n \in DOMAIN ns \ DOMAIN nodes
  <2>1. CASE n = Len(nodes) + 1
    BY <1>2, <1>4, <1>7, <1>8, <2>1
  <2>2. CASE n # Len(nodes) + 1
    <3>1. n - (Len(nodes) + 1) \in 1 .. k /\ Len(nodes) + 1 + (n - (Len(nodes) + 1)) = n
      BY <1>1, <1>2, <1>8, <2>2, SMTT(30)
    <3> QED BY <1>5, <1>9, <3>1
  <2> QED BY <2>1, <2>2
<1>11. Len(nodes) <= Len(ns) /\ Len(ns) <= MaxNodes
  BY <1>1, <1>2, <1>8, Constants
<1>12. Tree(ns) /\ Keeps(nodes, ns) /\ Thins(nodes, ns)
  BY <1>8, <1>10, <1>11, TreeExtends
<1>13. NewNode \in DOMAIN ns
  BY <1>1, <1>2, <1>8 DEF NewNode
<1>14. ProcList \in Seq(Nat) /\ Len(ProcList) <= MaxProc /\ DOMAIN ProcList = 1 .. k
  <2>1. \A i \in 1 .. k : Len(nodes) + 1 + i \in Nat
    BY <1>1
  <2> QED BY <1>2, <1>3, <2>1
<1>15. \A i \in 1 .. k : ProcList[i] = Len(nodes) + 1 + i /\ ProcList[i] \in DOMAIN ns
  <2>1. \A i \in 1 .. k : Len(nodes) + 1 + i \in 1 .. Len(ns)
    BY <1>1, <1>2, <1>8
  <2>2. DOMAIN ns = 1 .. Len(ns)
    BY <1>8
  <2> QED BY <1>3, <2>1, <2>2
<1>16. ASSUME NEW i \in DOMAIN ProcList
       PROVE  /\ i \in DOMAIN ProcFiles
              /\ ProcList[i] \in DOMAIN ns /\ ns[ProcList[i]].fs = "proc"
              /\ ~ns[ProcList[i]].dir /\ ns[ProcList[i]].name = ProcFiles[i]
  <2>1. i \in 1 .. k
    BY <1>14
  <2>2. ProcList[i] \in DOMAIN ns /\ ns[ProcList[i]] = Node(ProcFiles[i], FALSE, "proc")
    BY <1>9, <1>15, <2>1
  <2> QED BY <1>5, <2>1, <2>2
<1> QED BY <1>12, <1>13, <1>14, <1>16 DEF ns

\* Mounting proc keeps the invariant: the list it remakes names what it made.
LEMMA MountProcKeeps ==
  ASSUME IInv, NEW path \in Paths, MountProc(path)
  PROVE  IInv' /\ Thins(nodes, nodes')
<1> DEFINE ns == nodes \o ProcNodes
           t == Resolve(path)
<1>1. /\ IsDir(t) /\ HasRoom(1) /\ UNCHANGED fds
      /\ proc_root' = NewNode /\ procs' = ProcList
      /\ IF CanMount THEN Mount(path, t, ns, NewNode)
         ELSE nodes' = ns /\ UNCHANGED <<vfs_root, mounts>>
  BY DEF MountProc
<1>2. t \in DOMAIN nodes
  BY <1>1, TargetType
<1>3. /\ Tree(ns) /\ Keeps(nodes, ns) /\ Thins(nodes, ns) /\ NewNode \in DOMAIN ns
      /\ ProcList \in Seq(Nat) /\ Len(ProcList) <= MaxProc
      /\ \A i \in DOMAIN ProcList :
           /\ i \in DOMAIN ProcFiles
           /\ ProcList[i] \in DOMAIN ns /\ ns[ProcList[i]].fs = "proc"
           /\ ~ns[ProcList[i]].dir /\ ns[ProcList[i]].name = ProcFiles[i]
  BY <1>1, ProcMade DEF IInv
<1> HIDE DEF ns, t
<1>4. Keeps(ns, ns)
  BY <1>3, KeepsSame
<1>5. /\ Tree(nodes') /\ Keeps(ns, nodes') /\ Keeps(nodes, nodes') /\ Thins(nodes, nodes')
      /\ Roots'
  <2>1. CASE CanMount
    <3>1. /\ Tree(nodes') /\ Keeps(ns, nodes') /\ Keeps(nodes, nodes') /\ Thins(nodes, nodes')
          /\ vfs_root' \in DOMAIN nodes'
          /\ mounts' \in Seq(Nat) /\ Len(mounts') <= MaxMounts
          /\ \A i \in DOMAIN mounts' : mounts'[i] \in DOMAIN nodes'
      BY <1>1, <1>2, <1>3, <2>1, MountTree DEF IInv
    <3> QED BY <1>1, <1>3, <3>1 DEF Roots, Ids, VnodeIds, Keeps
  <2>2. CASE ~CanMount
    BY <1>1, <1>3, <1>4, <2>2 DEF IInv, Roots, Ids, VnodeIds, Keeps
  <2> QED BY <2>1, <2>2
<1>6. ASSUME NEW i \in DOMAIN procs'
      PROVE  /\ i \in DOMAIN ProcFiles
             /\ procs'[i] \in DOMAIN nodes' /\ nodes'[procs'[i]].fs = "proc"
             /\ ~nodes'[procs'[i]].dir /\ nodes'[procs'[i]].name = ProcFiles[i]
  BY <1>1, <1>3, <1>5 DEF Keeps
<1>7. ProcFilesListed'
  BY <1>1, <1>3, <1>6 DEF ProcFilesListed, VnodeIds
<1>8. ProcNamesDistinct'
  <2>1. \A i, j \in DOMAIN ProcFiles : ProcFiles[i] = ProcFiles[j] => i = j
    BY SyscallsAssumption DEF IsInjective
  <2> QED BY <1>6, <2>1 DEF ProcNamesDistinct
<1>9. Descriptors'
  BY <1>1, <1>5, KeepsDescriptors DEF IInv
<1> QED BY <1>5, <1>7, <1>8, <1>9 DEF IInv

\* A descriptor's slot is written and the vnodes go on.
LEMMA SlotKeeps ==
  ASSUME Descriptors, Tree(nodes), Tree(nodes'), Keeps(nodes, nodes'),
         NEW f \in Fds, NEW q \in FdSet, Descriptor(nodes', q), fds' = [fds EXCEPT ![f] = q]
  PROVE  Descriptors'
<1>1. fds \in [Fds -> FdSet]
  BY DEF Descriptors
<1>2. fds' \in [Fds -> FdSet] /\ \A g \in Fds : fds'[g] = IF g = f THEN q ELSE fds[g]
  BY <1>1
<1>3. ASSUME NEW g \in Fds PROVE Descriptor(nodes', fds'[g])
  <2>1. CASE g = f
    BY <1>2, <2>1
  <2>2. CASE g # f
    <3>1. fds[g] \in FdSet /\ Descriptor(nodes, fds[g])
      BY <1>1 DEF Descriptors
    <3>2. Descriptor(nodes', fds[g])
      BY <3>1, KeepsDescriptor
    <3> QED BY <1>2, <2>2, <3>2
  <2> QED BY <2>1, <2>2
<1> QED BY <1>2, <1>3 DEF Descriptors, Fds

\* A call that writes one slot and leaves the vnodes alone.
LEMMA SlotInvariant ==
  ASSUME IInv, UNCHANGED vfsVars,
         NEW f \in Fds, NEW q \in FdSet, Descriptor(nodes, q), fds' = [fds EXCEPT ![f] = q]
  PROVE  IInv' /\ Thins(nodes, nodes')
<1>1. UNCHANGED <<nodes, vfs_root, mounts, proc_root, procs>>
  BY DEF vfsVars
<1>2. Keeps(nodes, nodes) /\ Thins(nodes, nodes)
  BY KeepsSame DEF IInv
<1>3. Tree(nodes') /\ Keeps(nodes, nodes') /\ Thins(nodes, nodes') /\ Descriptor(nodes', q)
  BY <1>1, <1>2 DEF IInv
<1>4. Descriptors'
  BY <1>3, SlotKeeps DEF IInv
<1>5. Roots' /\ ProcFilesListed' /\ ProcNamesDistinct'
  BY <1>1 DEF IInv, Roots, ProcFilesListed, ProcNamesDistinct, Ids, VnodeIds
<1> QED BY <1>3, <1>4, <1>5 DEF IInv

\* SYS_OPEN keeps the invariant: a descriptor starts at a file's first byte.
LEMMA OpenKeeps ==
  ASSUME IInv, NEW path \in Paths, SysOpen(path)
  PROVE  IInv' /\ Thins(nodes, nodes')
<1> DEFINE n == Resolve(path)
           q == [used |-> TRUE, node |-> n, offset |-> 0]
<1>1. PICK f \in Fds : fds' = [fds EXCEPT ![f] = q] /\ IsFile(n) /\ UNCHANGED vfsVars
  BY DEF SysOpen
<1>2. n \in DOMAIN nodes /\ ~nodes[n].dir
  <2>1. n \in Ids
    BY Constants, ResolveType DEF IInv
  <2> QED BY <1>1, <2>1 DEF IsFile, Ids, VnodeIds
<1> HIDE DEF n
<1>3. n \in Nat /\ 0 <= Len(nodes[n].data)
  <2>1. nodes \in Seq(NodeSet)
    BY DEF IInv, Tree, Typed
  <2>2. n \in Nat /\ nodes[n] \in NodeSet
    BY <1>2, <2>1
  <2> QED BY <2>2 DEF NodeSet
<1>4. q \in FdSet /\ q.used /\ q.node = n /\ q.offset = 0
  BY <1>3 DEF FdSet
<1> HIDE DEF q
<1>5. Descriptor(nodes, q)
  BY <1>2, <1>3, <1>4, Constants DEF Descriptor
<1> QED BY <1>1, <1>4, <1>5, SlotInvariant

\* SYS_CLOSE keeps the invariant.
LEMMA CloseKeeps ==
  ASSUME IInv, NEW f \in Fds, SysClose(f)
  PROVE  IInv' /\ Thins(nodes, nodes')
<1>1. FreeFd \in FdSet /\ ~FreeFd.used /\ FreeFd.offset = 0
  BY DEF FreeFd, FdSet, NULL
<1>2. Descriptor(nodes, FreeFd)
  BY <1>1, Constants DEF Descriptor
<1>3. fds' = [fds EXCEPT ![f] = FreeFd] /\ UNCHANGED vfsVars
  BY DEF SysClose, Close
<1> QED BY <1>1, <1>2, <1>3, SlotInvariant

\* A descriptor moved on by k.
LEMMA Moved ==
  ASSUME NEW d \in FdSet, NEW k \in Nat
  PROVE  LET q == [d EXCEPT !.offset = @ + k]
         IN  q \in FdSet /\ q.used = d.used /\ q.node = d.node /\ q.offset = d.offset + k
<1>1. d.offset + k \in Nat
  BY DEF FdSet
<1>2. [d EXCEPT !.offset = d.offset + k] \in FdSet
  BY <1>1, Zenon DEF FdSet
<1>3. /\ [d EXCEPT !.offset = d.offset + k].used = d.used
      /\ [d EXCEPT !.offset = d.offset + k].node = d.node
      /\ [d EXCEPT !.offset = d.offset + k].offset = d.offset + k
  BY DEF FdSet
<1> QED BY <1>2, <1>3

\* A read never goes past the end of the file it starts in.
LEMMA GotFacts ==
  ASSUME IInv, NEW f \in Fds, fds[f].used, NEW size \in Nat, NEW k \in Got(f, size)
  PROVE  /\ k \in Nat /\ fds[f].offset + k <= MaxFile
         /\ nodes[fds[f].node].fs = "tmpfs" =>
              fds[f].offset + k <= Len(nodes[fds[f].node].data)
<1> DEFINE n == fds[f].node
           off == fds[f].offset
           D == nodes[n].data
<1>1. /\ fds[f] \in FdSet /\ n \in DOMAIN nodes
      /\ nodes[n].fs = "tmpfs" => off <= Len(D)
  BY DEF IInv, Descriptors, Descriptor
<1>2. off \in Nat /\ D \in Seq(Nat) /\ Len(D) \in Nat /\ Len(D) <= MaxFile
  <2>1. nodes[n] \in NodeSet /\ Len(D) <= MaxFile
    BY <1>1 DEF IInv, Tree, Typed
  <2> QED BY <1>1, <2>1 DEF NodeSet, FdSet
<1>3. CASE nodes[n].fs = "tmpfs"
  <2> DEFINE e == IF off + size < Len(D) THEN off + size ELSE Len(D)
  <2>1. k = Len(SubSeq(D, off + 1, e))
    BY <1>3 DEF Got, ReadOf
  <2> HIDE DEF D, off
  <2>2. e \in Nat /\ off <= e /\ e <= Len(D)
    BY <1>1, <1>2, <1>3
  <2> HIDE DEF e
  <2>3. \A i \in (off + 1) .. e : D[i] \in Nat
    BY <1>2, <2>2
  <2>4. off + 1 \in Int /\ e \in Int
    BY <1>2, <2>2
  <2>5. Len(SubSeq(D, off + 1, e)) = IF off + 1 <= e THEN e - (off + 1) + 1 ELSE 0
    BY <2>3, <2>4, SubSeqProperties
  <2>6. k \in Nat /\ off + k = e
    BY <1>2, <2>1, <2>2, <2>5
  <2>7. e <= MaxFile
    BY <1>2, <2>2, Constants
  <2> QED BY <2>2, <2>6, <2>7 DEF off, D
<1>4. CASE nodes[n].fs # "tmpfs"
  BY <1>4 DEF Got
<1> QED BY <1>3, <1>4

\* SYS_FREAD keeps the invariant: it moves by what it got.
LEMMA FreadKeeps ==
  ASSUME IInv, NEW f \in Fds, NEW size \in ReadSizes, SysFread(f, size)
  PROVE  IInv' /\ Thins(nodes, nodes')
<1>1. PICK k \in Got(f, size) : /\ fds' = [fds EXCEPT ![f].offset = @ + k]
                                /\ fds[f].used /\ UNCHANGED vfsVars
  BY DEF SysFread, InUse
<1> DEFINE d == fds[f]
           q == [d EXCEPT !.offset = @ + k]
<1>2. size \in Nat
  BY Constants
<1>3. /\ k \in Nat /\ d.offset + k <= MaxFile
      /\ nodes[d.node].fs = "tmpfs" => d.offset + k <= Len(nodes[d.node].data)
  BY <1>1, <1>2, GotFacts
<1>4. d \in FdSet /\ Descriptor(nodes, d)
  BY DEF IInv, Descriptors
<1>5. q \in FdSet /\ q.used = d.used /\ q.node = d.node /\ q.offset = d.offset + k
  <2> HIDE DEF d
  <2> QED BY <1>3, <1>4, Moved
<1>6. fds' = [fds EXCEPT ![f] = q]
  BY <1>1
<1> HIDE DEF q
<1>7. Descriptor(nodes, q)
  BY <1>1, <1>3, <1>4, <1>5 DEF Descriptor
<1> QED BY <1>1, <1>5, <1>6, <1>7, SlotInvariant

\* SYS_FWRITE keeps the invariant: the file is then as long as the offset.
LEMMA FwriteKeeps ==
  ASSUME IInv, NEW f \in Fds, NEW buf \in Buffers, SysFwrite(f, buf)
  PROVE  IInv' /\ Thins(nodes, nodes')
<1> DEFINE d == fds[f]
           q == [d EXCEPT !.offset = @ + Len(buf)]
<1>1. /\ d.used /\ CanWrite(d.node, d.offset, buf) /\ Write(d.node, d.offset, buf)
      /\ fds' = [fds EXCEPT ![f].offset = @ + Len(buf)]
      /\ UNCHANGED <<vfs_root, mounts, proc_root, procs>>
  BY DEF SysFwrite, InUse
<1>2. buf \in Seq(Nat) /\ Len(buf) \in Nat
  BY Constants
<1>3. d \in FdSet /\ Descriptor(nodes, d)
  BY DEF IInv, Descriptors
<1>4. d.node \in DOMAIN nodes /\ ~nodes[d.node].dir /\ d.offset \in Nat
  BY <1>1, <1>3 DEF Descriptor, FdSet
<1>5. fds' = [fds EXCEPT ![f] = q]
  BY <1>1
<1> HIDE DEF d
<1>6. /\ Tree(nodes') /\ Keeps(nodes, nodes') /\ Thins(nodes, nodes')
      /\ d.offset + Len(buf) <= Len(nodes'[d.node].data)
  BY <1>1, <1>2, <1>4, WriteTree DEF IInv
<1>7. q \in FdSet /\ q.used = d.used /\ q.node = d.node /\ q.offset = d.offset + Len(buf)
  BY <1>2, <1>3, Moved
<1> HIDE DEF q
<1>8. d.node \in DOMAIN nodes' /\ ~nodes'[d.node].dir
  BY <1>4, <1>6 DEF Keeps
<1>9. q.offset <= MaxFile
  <2>1. nodes'[d.node] \in NodeSet /\ Len(nodes'[d.node].data) <= MaxFile
    BY <1>6, <1>8 DEF Tree, Typed
  <2>2. Len(nodes'[d.node].data) \in Nat
    BY <2>1 DEF NodeSet
  <2> QED BY <1>2, <1>4, <1>6, <1>7, <2>1, <2>2, Constants
<1>10. Descriptor(nodes', q)
  BY <1>1, <1>6, <1>7, <1>8, <1>9 DEF Descriptor
<1>11. Descriptors'
  BY <1>5, <1>6, <1>7, <1>10, SlotKeeps DEF IInv
<1>12. Roots'
  BY <1>1, <1>6 DEF IInv, Roots, Ids, VnodeIds, Keeps
<1>13. ProcFilesListed' /\ ProcNamesDistinct'
  BY <1>1, <1>6, KeepsProcs DEF IInv
<1> QED BY <1>6, <1>11, <1>12, <1>13 DEF IInv
--------------------------------------------------------------------------------
\* At boot: a tmpfs root, an empty list and no descriptor in use.
LEMMA InitInv == Init => IInv
<1> SUFFICES ASSUME Init PROVE IInv
  OBVIOUS
<1> DEFINE r == Node("/", TRUE, "tmpfs")
<1>1. /\ nodes = <<r>> /\ vfs_root = 1 /\ mounts = <<1>> /\ proc_root = NULL /\ procs = <<>>
      /\ fds = [f \in Fds |-> FreeFd]
  BY DEF Init, VfsInit
<1>2. Fresh(r) /\ r \in NodeSet
  <2>1. "/" \in Names /\ TRUE \in BOOLEAN /\ "tmpfs" \in {"tmpfs", "proc"}
    BY DEF Names
  <2>2. Fresh(r)
    BY <2>1, FreshNode
  <2> QED BY <2>2 DEF Fresh
<1> HIDE DEF r
<1>3. nodes \in Seq(NodeSet) /\ Len(nodes) = 1 /\ DOMAIN nodes = {1} /\ nodes[1] = r
  BY <1>1, <1>2
<1>4. Tree(<<>>)
  BY Constants DEF Tree, Typed, Linked, Ordered, Apart, Flags
<1>5. Tree(nodes)
  <2>1. nodes = Append(<<>>, r) /\ Len(<<>>) < MaxNodes
    BY <1>1, Constants
  <2> QED BY <1>2, <1>4, <2>1, TreeAlloc
<1>6. Roots
  BY <1>1, <1>3, Constants DEF Roots, Ids, VnodeIds
<1>7. ProcFilesListed /\ ProcNamesDistinct
  BY <1>1, Constants DEF ProcFilesListed, ProcNamesDistinct
<1>8. Descriptors
  <2>1. FreeFd \in FdSet /\ ~FreeFd.used /\ FreeFd.offset = 0
    BY DEF FreeFd, FdSet, NULL
  <2>2. Descriptor(nodes, FreeFd)
    BY <2>1, Constants DEF Descriptor
  <2> QED BY <1>1, <2>1, <2>2 DEF Descriptors
<1> QED BY <1>5, <1>6, <1>7, <1>8 DEF IInv

\* No call breaks the invariant, and a call makes one entry or none.
LEMMA NextInv == IInv /\ [Next]_vars => IInv' /\ (Thins(nodes, nodes') \/ MadeOne)
<1> SUFFICES ASSUME IInv, [Next]_vars PROVE IInv' /\ (Thins(nodes, nodes') \/ MadeOne)
  OBVIOUS
<1> DEFINE Goal == IInv' /\ (Thins(nodes, nodes') \/ MadeOne)
<1>1. CASE UNCHANGED vars
  <2>1. UNCHANGED <<nodes, vfs_root, mounts, proc_root, procs, fds>>
    BY <1>1 DEF vars, vfsVars
  <2>2. Thins(nodes, nodes')
    BY <2>1, KeepsSame DEF IInv
  <2>3. IInv'
    BY <2>1 DEF IInv, Roots, ProcFilesListed, ProcNamesDistinct, Descriptors, Ids, VnodeIds, Fds
  <2> QED BY <2>2, <2>3
<1>2. ASSUME NEW p \in Paths, NEW dir \in BOOLEAN, SysMk(p, dir) PROVE Goal
  BY <1>2, MkKeeps
<1>3. ASSUME NEW p \in Paths, SysRm(p) PROVE Goal
  BY <1>3, RmKeeps
<1>4. ASSUME NEW p \in Paths, NEW b \in Buffers, SysWriteOld(p, b) \/ SysWriteNew(p, b)
      PROVE  Goal
  BY <1>4, WriteOldKeeps, WriteNewKeeps
<1>5. ASSUME NEW p \in Paths, MountTmpfs(p) PROVE Goal
  BY <1>5, MountTmpfsKeeps
<1>6. ASSUME NEW p \in Paths, MountProc(p) PROVE Goal
  BY <1>6, MountProcKeeps
<1>7. ASSUME NEW p \in Paths, MountProcRefused(p) PROVE Goal
  BY <1>7, MountProcRefusedKeeps
<1>8. ASSUME NEW p \in Paths, SysUmount(p) PROVE Goal
  BY <1>8, UmountKeeps
<1>9. ASSUME NEW p \in Paths, NEW s \in Paths, MountBind(s, p) PROVE Goal
  BY <1>9, MountBindKeeps
<1>10. ASSUME NEW p \in Paths, SysOpen(p) PROVE Goal
  BY <1>10, OpenKeeps
<1>11. ASSUME NEW f \in Fds, SysClose(f) PROVE Goal
  BY <1>11, CloseKeeps
<1>12. ASSUME NEW f \in Fds, NEW k \in ReadSizes, SysFread(f, k) PROVE Goal
  BY <1>12, FreadKeeps
<1>13. ASSUME NEW f \in Fds, NEW b \in Buffers, SysFwrite(f, b) PROVE Goal
  BY <1>13, FwriteKeeps
<1> HIDE DEF Goal
<1>14. Goal
  BY <1>2, <1>3, <1>4, <1>5, <1>6, <1>7, <1>8, <1>9, <1>10, <1>11, <1>12, <1>13, <1>1
     DEF Next, Goal
<1> QED BY <1>14 DEF Goal

\* In every state any sequence of calls reaches, by whatever programs, the
\* invariant holds.
THEOREM InvariantHolds == Spec => []IInv
<1> QED BY InitInv, NextInv, PTL DEF Spec

\* Every vnode is well formed, every vnode pointer names a vnode, and a descriptor
\* in use holds a file.
LEMMA WellTyped == IInv => TypeOK
<1> SUFFICES ASSUME IInv PROVE TypeOK
  OBVIOUS
<1>1. nodes \in Seq(NodeSet) /\ Len(nodes) <= MaxNodes
  BY DEF IInv, Tree, Typed
<1>2. ASSUME NEW n \in VnodeIds PROVE nodes[n] \in Vnode
  <2>1. nodes[n] \in NodeSet
    BY <1>1 DEF VnodeIds
  <2>2. nodes[n].mount \in VnodeIds \cup {NULL}
    BY DEF IInv, Tree, Linked, VnodeIds
  <2>3. nodes[n].kids \in Seq(VnodeIds)
    <3>1. nodes[n].kids \in Seq(Nat)
      BY <2>1 DEF NodeSet
    <3>2. \A i \in 1 .. Len(nodes[n].kids) : nodes[n].kids[i] \in VnodeIds
      BY <3>1 DEF IInv, Tree, Linked, VnodeIds
    <3> DEFINE k == nodes[n].kids
    <3>3. k \in Seq(Nat) /\ \A i \in 1 .. Len(k) : k[i] \in VnodeIds
      BY <3>1, <3>2
    <3> HIDE DEF k
    <3>4. k = [i \in 1 .. Len(k) |-> k[i]] /\ Len(k) \in Nat
      BY <3>3
    <3>5. k \in [1 .. Len(k) -> VnodeIds]
      BY <3>3, <3>4
    <3>6. k \in Seq(VnodeIds)
      BY <3>4, <3>5, SeqDef
    <3> QED BY <3>6 DEF k
  <2> QED BY <2>1, <2>2, <2>3, Zenon DEF NodeSet, Vnode
<1>3. vfs_root \in VnodeIds /\ proc_root \in VnodeIds \cup {NULL}
  BY DEF IInv, Roots, Ids
<1>4. Len(mounts) <= MaxMounts /\ Range(mounts) \subseteq VnodeIds
  BY DEF IInv, Roots, Range
<1>5. Len(procs) <= MaxProc /\ Range(procs) \subseteq VnodeIds
  BY DEF IInv, ProcFilesListed, Range
<1>6. ASSUME NEW f \in Fds
      PROVE  /\ fds[f].used \in BOOLEAN /\ fds[f].offset \in 0 .. MaxFile
             /\ IF fds[f].used THEN IsFile(fds[f].node) /\ fds[f].node \in VnodeIds
                               ELSE fds[f] = FreeFd
  <2> DEFINE d == fds[f]
  <2>1. d \in FdSet /\ Descriptor(nodes, d)
    BY DEF IInv, Descriptors
  <2> HIDE DEF d
  <2>2. d.used \in BOOLEAN /\ d.offset \in Nat /\ d.offset <= MaxFile
    BY <2>1 DEF FdSet, Descriptor
  <2>3. d.offset \in 0 .. MaxFile
    BY <2>2, Constants
  <2>4. d.used => d.node \in VnodeIds /\ ~nodes[d.node].dir
    BY <2>1 DEF Descriptor, VnodeIds
  <2>5. d.used => d.node # NULL
    BY <1>1, <2>4 DEF VnodeIds, NULL
  <2>6. ~d.used => d = FreeFd
    BY <2>1 DEF Descriptor
  <2> QED BY <2>2, <2>3, <2>4, <2>5, <2>6 DEF IsFile, d
<1> QED BY <1>1, <1>2, <1>3, <1>4, <1>5, <1>6 DEF TypeOK

\* No descriptor's offset ever lies past the end of its tmpfs file, whatever
\* writes, reads, opens and closes programs make through paths and descriptors.
THEOREM OffsetsStayInFiles == Spec => []OffsetInFile
<1>1. IInv => OffsetInFile
  <2> SUFFICES ASSUME IInv PROVE OffsetInFile
    OBVIOUS
  <2>1. \A f \in Fds : fds[f].used /\ nodes[fds[f].node].fs = "tmpfs"
          => fds[f].offset <= Len(nodes[fds[f].node].data)
    BY DEF IInv, Descriptors, Descriptor
  <2> QED BY <2>1, WellTyped DEF OffsetInFile
<1> QED BY <1>1, InvariantHolds, PTL

\* Directories stay a forest with their entries in the order they were made,
\* however often entries are removed and slots filled again.
THEOREM TreeStaysSound == Spec => []TreeSound
<1>1. IInv => TreeSound
  <2> SUFFICES ASSUME IInv PROVE TreeSound
    OBVIOUS
  <2>1. \A n \in VnodeIds : /\ Len(nodes[n].kids) <= MaxKids
                            /\ \A i \in 2 .. Len(nodes[n].kids) :
                                 nodes[n].kids[i - 1] < nodes[n].kids[i]
    BY DEF IInv, Tree, Ordered, VnodeIds
  <2>2. \A d, e \in VnodeIds :
          d # e => Range(nodes[d].kids) \cap Range(nodes[e].kids) = {}
    BY DEF IInv, Tree, Apart, VnodeIds, Range
  <2> QED BY <2>1, <2>2 DEF TreeSound
<1> QED BY <1>1, InvariantHolds, PTL

\* The MOUNTPT flag that SYS_UMOUNT trusts is set exactly on what is covered and
\* on procfs roots, in every order of mounts, binds and umounts.
THEOREM FlagStaysExact == Spec => []MountFlagExact
<1>1. IInv => MountFlagExact
  BY DEF IInv, Tree, Flags, MountFlagExact, VnodeIds
<1> QED BY <1>1, InvariantHolds, PTL

\* However often proc is mounted, and whether the mounts succeed or not, no name
\* is twice in the list that all procfs mounts share.
THEOREM ProcNamesStayDistinct == Spec => []ProcNamesDistinct
<1>1. IInv => ProcNamesDistinct
  BY DEF IInv
<1> QED BY <1>1, InvariantHolds, PTL
--------------------------------------------------------------------------------
(* What a new entry hides: nothing.                                             *)
\* The first child of a name stays the first: a new entry comes after it.
LEMMA FinddirStays ==
  ASSUME IInv, MadeOne, NEW d \in VnodeIds, NEW name, Finddir(d, name) # NULL
  PROVE  Finddir(d, name)' = Finddir(d, name)
<1> DEFINE K == Kids(d)
           L == Kids(d)'
           hits == {i \in DOMAIN K : nodes[K[i]].name = name}
           more == {i \in DOMAIN L : nodes'[L[i]].name = name}
<1>1. nodes \in Seq(NodeSet) /\ nodes[d].kids \in Seq(Nat)
  <2>1. nodes \in Seq(NodeSet)
    BY DEF IInv, Tree, Typed
  <2>2. nodes[d] \in NodeSet
    BY <2>1 DEF VnodeIds
  <2> QED BY <2>1, <2>2 DEF NodeSet
<1>2. K \in Seq(Nat) /\ \A i \in DOMAIN K : K[i] \in DOMAIN nodes
  BY <1>1 DEF Kids, IInv, ProcFilesListed, Tree, Linked, VnodeIds
<1>3. L = K \/ L = Append(K, Len(nodes) + 1)
  BY DEF Kids, MadeOne, Keeps, Grows, VnodeIds
<1> HIDE DEF K, L
<1>4. /\ Len(K) \in Nat /\ DOMAIN K = 1 .. Len(K) /\ DOMAIN K \subseteq DOMAIN L
      /\ DOMAIN L \subseteq 1 .. (Len(K) + 1) /\ \A i \in DOMAIN K : L[i] = K[i]
  <2>1. CASE L = K
    BY <1>2, <2>1
  <2>2. CASE L = Append(K, Len(nodes) + 1)
    BY <1>1, <1>2, <2>2
  <2> QED BY <1>3, <2>1, <2>2
<1>5. \A i \in DOMAIN K : nodes'[L[i]].name = nodes[K[i]].name
  BY <1>2, <1>4 DEF MadeOne, Keeps
<1>6. hits # {} /\ Finddir(d, name) = K[Min(hits)]
  BY DEF Finddir, K
<1>7. hits \in SUBSET Nat /\ hits \subseteq DOMAIN K /\ more \in SUBSET Nat
      /\ hits \subseteq more /\ more \subseteq DOMAIN L /\ more \cap DOMAIN K \subseteq hits
  BY <1>4, <1>5
<1>8. Finddir(d, name)' = IF more = {} THEN NULL ELSE L[Min(more)]
  BY DEF Finddir, L, NULL
<1> HIDE DEF hits, more
<1>9. Min(hits) \in hits /\ \A i \in hits : Min(hits) <= i
  BY <1>6, <1>7, MinFacts
<1>10. Min(more) \in more /\ \A i \in more : Min(more) <= i
  <2>1. more # {}
    BY <1>6, <1>7
  <2> QED BY <1>7, <2>1, MinFacts
<1>11. Min(more) = Min(hits)
  <2> DEFINE a == Min(hits)
             b == Min(more)
  <2>1. a \in 1 .. Len(K) /\ b \in 1 .. (Len(K) + 1) /\ b <= a
    BY <1>4, <1>7, <1>9, <1>10
  <2> HIDE DEF a, b
  <2>2. b \in DOMAIN K
    BY <1>4, <2>1
  <2>3. a <= b
    BY <1>7, <1>9, <1>10, <2>2 DEF a, b
  <2> QED BY <1>4, <2>1, <2>3 DEF a, b
<1> QED BY <1>4, <1>6, <1>7, <1>8, <1>9, <1>11

\* Neither does a round of the walk lead elsewhere.
LEMMA HopStays ==
  ASSUME IInv, MadeOne, NEW d \in Ids, NEW name, Hop(d, name) # NULL
  PROVE  d # NULL /\ Hop(d, name)' = Hop(d, name)
<1>1. d # NULL /\ nodes[d].dir /\ Hop(d, name) = Follow(Finddir(d, name))
  BY DEF Hop
<1>2. d \in VnodeIds
  BY <1>1 DEF Ids
<1>3. Finddir(d, name) # NULL
  BY <1>1 DEF Follow
<1>4. Finddir(d, name)' = Finddir(d, name)
  BY <1>2, <1>3, FinddirStays
<1>5. Finddir(d, name) \in DOMAIN nodes
  BY <1>2, <1>3, FinddirType DEF IInv, Ids, VnodeIds
<1>6. nodes'[d].dir /\ nodes'[Finddir(d, name)].mount = nodes[Finddir(d, name)].mount
  BY <1>1, <1>2, <1>5 DEF MadeOne, Keeps, Grows, VnodeIds
<1>7. Hop(d, name)' = Follow(Finddir(d, name))'
  BY <1>1, <1>6 DEF Hop, NULL
<1>8. Follow(Finddir(d, name))' = Follow(Finddir(d, name))
  BY <1>4, <1>6 DEF Follow, NULL
<1> QED BY <1>1, <1>7, <1>8

\* The walk exists in the next state as well.
LEMMA WalkNext == \A path \in Seq(STRING) : IInv' => \E w : Walks(w, path)'
<1>1. \A path \in Seq(STRING) : IInv => \E w : Walks(w, path)
  <2> TAKE path \in Seq(STRING)
  <2> QED BY WalkExists DEF IInv
<1>2. (\A path \in Seq(STRING) : IInv => \E w : Walks(w, path))'
  BY <1>1, PTL
<1> QED BY <1>2

\* A path that resolves still resolves to the same vnode.
LEMMA ResolveStays ==
  ASSUME IInv, IInv', MadeOne, NEW path \in Seq(STRING), Resolve(path) # NULL
  PROVE  Resolve(path)' = Resolve(path)
<1> DEFINE p == Parts(path)
           n == Len(p)
<1>1. n \in Nat
  BY PartsType
<1>2. PICK w : Walks(w, path)
  BY WalkExists DEF IInv
<1>3. PICK v : Walks(v, path)'
  BY WalkNext
<1>4. /\ w[0] = vfs_root /\ \A i \in 0 .. n : w[i] \in Ids
      /\ \A i \in 1 .. n : w[i] = Hop(w[i - 1], p[i])
      /\ Resolve(path) = w[n]
  BY <1>2 DEF Walks
<1>5. /\ v[0] = vfs_root' /\ \A i \in 1 .. n : v[i] = Hop(v[i - 1], p[i])'
      /\ Resolve(path)' = v[n]
  BY <1>3 DEF Walks
<1> HIDE DEF n, p
<1> DEFINE T == {i \in 0 .. n : w[i] # NULL => v[i] = w[i]}
<1>6. 0 \in T
  BY <1>1, <1>4, <1>5 DEF MadeOne
<1>7. ASSUME NEW i \in 1 .. n, i - 1 \in T PROVE i \in T
  <2>1. i \in 0 .. n /\ i - 1 \in 0 .. n
    BY <1>1
  <2> SUFFICES ASSUME w[i] # NULL PROVE v[i] = w[i]
    BY <2>1
  <2>2. w[i - 1] \in Ids /\ w[i] = Hop(w[i - 1], p[i])
    BY <1>4, <2>1
  <2>3. w[i - 1] # NULL /\ Hop(w[i - 1], p[i])' = Hop(w[i - 1], p[i])
    BY <2>2, HopStays
  <2>4. v[i - 1] = w[i - 1]
    BY <1>7, <2>3
  <2> QED BY <1>5, <2>2, <2>3, <2>4
<1>8. n \in T
  <2> HIDE DEF T
  <2>1. \A i \in 0 .. n : i \in T
    BY <1>1, <1>6, <1>7, UpTo
  <2> QED BY <1>1, <2>1
<1> QED BY <1>4, <1>5, <1>8

\* Making a file or directory never changes what a path that resolved before
\* resolves to, whatever is mounted, bound or listed twice along it.
THEOREM NothingIsHidden == Spec => NothingHidden
<1> DEFINE Act == (\E d \in VnodeIds : Len(nodes'[d].kids) > Len(nodes[d].kids))
                    => \A q \in Paths : Resolve(q) # NULL => Resolve(q)' = Resolve(q)
<1>1. IInv /\ [Next]_vars => [Act]_vars
  <2> SUFFICES ASSUME IInv, [Next]_vars PROVE Act
    OBVIOUS
  <2>1. IInv' /\ (Thins(nodes, nodes') \/ MadeOne)
    BY NextInv
  <2>2. CASE MadeOne
    BY <2>1, <2>2, Constants, ResolveStays
  <2>3. CASE Thins(nodes, nodes')
    <3>1. ASSUME NEW d \in VnodeIds PROVE ~(Len(nodes'[d].kids) > Len(nodes[d].kids))
      <4>1. Len(nodes'[d].kids) <= Len(nodes[d].kids)
        BY <2>3 DEF Thins, VnodeIds
      <4>2. nodes[d] \in NodeSet
        BY DEF IInv, Tree, Typed, VnodeIds
      <4> QED BY <4>1, <4>2 DEF NodeSet
    <3> QED BY <3>1
  <2> QED BY <2>1, <2>2, <2>3
<1> QED BY <1>1, InvariantHolds, PTL DEF Spec, NothingHidden
--------------------------------------------------------------------------------
(* What SYS_WRITE wrote is what the path then names.                            *)
\* The larger of two numbers.
LEMMA Larger ==
  ASSUME NEW x \in Nat, NEW y \in Nat
  PROVE  Max({x, y}) = IF y > x THEN y ELSE x
<1> DEFINE m == IF y > x THEN y ELSE x
           T == {x, y}
<1>1. m \in T /\ \A z \in T : m >= z
  OBVIOUS
<1>2. ASSUME NEW z \in T, \A w \in T : z >= w PROVE z = m
  <2>1. z >= x /\ z >= y /\ (z = x \/ z = y)
    BY <1>2
  <2> QED BY <2>1
<1>3. Max(T) = CHOOSE z \in T : \A w \in T : z >= w
  BY DEF Max
<1> HIDE DEF m, T
<1>4. Max(T) \in T /\ \A w \in T : Max(T) >= w
  BY <1>1, <1>3
<1> QED BY <1>2, <1>4 DEF m, T

\* Written from the first byte: the bytes written, then what was there.
LEMMA WrittenBytes ==
  ASSUME NEW data \in Seq(Nat), NEW buf \in Seq(Nat)
  PROVE  /\ Len(Written(data, 0, buf)) = Max({Len(data), Len(buf)})
         /\ \A i \in 1 .. Len(buf) : Written(data, 0, buf)[i] = buf[i]
         /\ \A i \in (Len(buf) + 1) .. Len(data) : Written(data, 0, buf)[i] = data[i]
<1> DEFINE n == IF 0 + Len(buf) > Len(data) THEN 0 + Len(buf) ELSE Len(data)
           Byte(i) == IF 0 < i /\ i <= 0 + Len(buf) THEN buf[i - 0] ELSE ByteAt(data, i)
<1>1. Len(buf) \in Nat /\ Len(data) \in Nat /\ n \in Nat
  OBVIOUS
<1>2. Written(data, 0, buf) = [i \in 1 .. n |-> Byte(i)]
  BY DEF Written
<1>3. ASSUME NEW i \in 1 .. Len(buf) PROVE Written(data, 0, buf)[i] = buf[i]
  <2>1. i \in 1 .. n /\ Byte(i) = buf[i]
    BY <1>1
  <2> HIDE DEF n, Byte
  <2> QED BY <1>2, <2>1
<1>4. ASSUME NEW i \in (Len(buf) + 1) .. Len(data) PROVE Written(data, 0, buf)[i] = data[i]
  <2>1. i \in 1 .. n /\ Byte(i) = data[i]
    BY <1>1 DEF ByteAt
  <2> HIDE DEF n, Byte
  <2> QED BY <1>2, <2>1
<1>5. Len(Written(data, 0, buf)) = n
  BY WrittenFacts
<1>6. n = Max({Len(data), Len(buf)})
  BY <1>1, Larger
<1> QED BY <1>3, <1>4, <1>5, <1>6

\* The first entry of a name that its directory did not have is found there.
LEMMA NewEntryFound ==
  ASSUME IInv, MadeOne, NEW d, NEW name, NEW buf, NewEntry(d, name, buf),
         Finddir(d, name) = NULL
  PROVE  Finddir(d, name)' = Len(nodes) + 1
<1> DEFINE k == Len(nodes) + 1
           K == nodes[d].kids
           L == nodes'[d].kids
           hits == {i \in DOMAIN K : nodes[K[i]].name = name}
           more == {i \in DOMAIN L : nodes'[L[i]].name = name}
<1>1. /\ d \in DOMAIN nodes /\ nodes[d].fs = "tmpfs" /\ nodes'[d].fs = "tmpfs"
      /\ k \in DOMAIN nodes' /\ L = Append(K, k) /\ nodes'[k].name = name
  BY DEF NewEntry, MadeOne, Keeps
<1>2. nodes \in Seq(NodeSet) /\ K \in Seq(Nat) /\ \A i \in DOMAIN K : K[i] \in DOMAIN nodes
  <2>1. nodes \in Seq(NodeSet)
    BY DEF IInv, Tree, Typed
  <2>2. nodes[d] \in NodeSet
    BY <1>1, <2>1
  <2> QED BY <1>1, <2>1, <2>2 DEF NodeSet, IInv, Tree, Linked
<1>3. Finddir(d, name) = IF hits = {} THEN NULL ELSE K[Min(hits)]
  BY <1>1 DEF Finddir, Kids
<1>4. Finddir(d, name)' = IF more = {} THEN NULL ELSE L[Min(more)]
  BY <1>1 DEF Finddir, Kids, NULL
<1> HIDE DEF K, L
<1>5. hits = {}
  <2> SUFFICES ASSUME hits # {} PROVE FALSE
    OBVIOUS
  <2>1. hits \in SUBSET Nat /\ hits \subseteq DOMAIN K
    BY <1>2
  <2> HIDE DEF hits
  <2>2. Min(hits) \in DOMAIN K
    BY <2>1, MinFacts
  <2>3. K[Min(hits)] = 0 /\ K[Min(hits)] \in DOMAIN nodes
    BY <1>2, <1>3, <2>2 DEF NULL
  <2> QED BY <1>2, <2>3
<1>6. /\ Len(K) \in Nat /\ DOMAIN K = 1 .. Len(K) /\ DOMAIN L = 1 .. (Len(K) + 1)
      /\ L[Len(K) + 1] = k /\ \A i \in DOMAIN K : L[i] = K[i]
  <2>1. k \in Nat
    BY <1>2
  <2> QED BY <1>1, <1>2, <2>1
<1>7. \A i \in DOMAIN K : nodes'[L[i]].name # name
  BY <1>2, <1>5, <1>6 DEF MadeOne, Keeps
<1>8. more = {Len(K) + 1}
  <2>1. Len(K) + 1 \in more
    BY <1>1, <1>6
  <2>2. ASSUME NEW i \in more PROVE i = Len(K) + 1
    <3>1. i \in DOMAIN L /\ i \notin DOMAIN K
      BY <1>7
    <3> QED BY <1>6, <3>1
  <2> HIDE DEF more
  <2> QED BY <2>1, <2>2
<1>9. Min(more) = Len(K) + 1
  <2> HIDE DEF more
  <2>1. more \in SUBSET Nat /\ more # {}
    BY <1>6, <1>8
  <2> QED BY <1>8, <2>1, MinFacts
<1> HIDE DEF more
<1> QED BY <1>4, <1>6, <1>8, <1>9 DEF k

\* In the next state, too, a path leads one round further than its parent.
LEMMA ResolveLastNext ==
  \A path \in Seq(STRING) : IInv' /\ Extends(path) =>
    Resolve(path)' = Hop(Resolve(ParentPath(path)), LastName(path))'
<1>1. \A path \in Seq(STRING) : IInv /\ Extends(path) =>
        Resolve(path) = Hop(Resolve(ParentPath(path)), LastName(path))
  <2> TAKE path \in Seq(STRING)
  <2> QED BY ResolveLast DEF IInv
<1>2. (\A path \in Seq(STRING) : IInv /\ Extends(path) =>
        Resolve(path) = Hop(Resolve(ParentPath(path)), LastName(path)))'
  BY <1>1, PTL
<1> QED BY <1>2 DEF Extends

\* The file that SYS_WRITE makes is what its path names from then on.
LEMMA NewResolves ==
  ASSUME IInv, NEW path \in Paths, NEW buf \in Buffers, SysWriteNew(path, buf)
  PROVE  Resolve(path)' = Len(nodes) + 1
<1> DEFINE F == ParentPath(path)
           name == LastName(path)
           d == Resolve(F)
           k == Len(nodes) + 1
<1>1. path \in Seq(STRING) /\ F \in Seq(STRING)
  BY Constants, SplitParent
<1>2. IInv' /\ MadeOne /\ NewEntry(d, name, buf)
  BY WriteNewKeeps
<1>3. d \in DOMAIN nodes /\ nodes[d].dir /\ d # NULL /\ d \in VnodeIds
  <2>1. nodes \in Seq(NodeSet)
    BY DEF IInv, Tree, Typed
  <2> QED BY <1>2, <2>1 DEF NewEntry, NULL, VnodeIds
<1>4. Resolve(path) = NULL
  BY DEF SysWriteNew
<1>5. Resolve(path) = IF Extends(path) THEN Hop(d, name) ELSE d
  BY <1>1, ResolveLast DEF IInv
<1>6. Extends(path) /\ Hop(d, name) = NULL
  BY <1>3, <1>4, <1>5
<1>7. Resolve(F)' = d
  BY <1>1, <1>2, <1>3, ResolveStays
<1>8. Resolve(path)' = Hop(d, name)'
  BY <1>1, <1>2, <1>6, ResolveLastNext
<1> HIDE DEF F, name
<1>9. PICK e : e = d
  OBVIOUS
<1> HIDE DEF d
<1>10. Finddir(e, name) = NULL
  BY <1>3, <1>6, <1>9 DEF Hop, Follow
<1>11. Finddir(e, name)' = k
  BY <1>2, <1>9, <1>10, NewEntryFound
<1>12. nodes'[e].dir /\ e # NULL /\ nodes'[k].mount = NULL
  BY <1>2, <1>3, <1>9 DEF MadeOne, Keeps, NewEntry
<1>13. Hop(e, name)' = k
  BY <1>11, <1>12 DEF Hop, Follow, NULL
<1> QED BY <1>7, <1>8, <1>9, <1>13 DEF d, F, name

\* What the path of a write names holds what was written and the rest of what was there.
ReadsBack(path, buf) ==
  LET n == Resolve(path)'
      old == IF Resolve(path) = NULL THEN <<>> ELSE nodes[Resolve(path)].data
      got == IF Resolve(path) = NULL /\ Len(buf) > MaxFile THEN <<>> ELSE buf
  IN  /\ n # NULL /\ ~nodes'[n].dir
      /\ Len(nodes'[n].data) = Max({Len(old), Len(got)})
      /\ \A i \in 1 .. Len(got) : nodes'[n].data[i] = got[i]
      /\ \A i \in (Len(got) + 1) .. Len(old) : nodes'[n].data[i] = old[i]

\* A write to a file there is reads back.
LEMMA OldReadsBack ==
  ASSUME IInv, NEW path \in Paths, NEW buf \in Buffers, SysWriteOld(path, buf)
  PROVE  ReadsBack(path, buf)
<1> DEFINE n == Resolve(path)
<1>1. path \in Seq(STRING) /\ buf \in Seq(Nat)
  BY Constants
<1>2. IInv' /\ MadeOne
  BY WriteOldKeeps
<1>3. n # NULL /\ IsFile(n) /\ CanWrite(n, 0, buf) /\ Write(n, 0, buf)
  BY DEF SysWriteOld, IsFile
<1>4. Resolve(path)' = n
  BY <1>1, <1>2, <1>3, ResolveStays
<1>5. n \in DOMAIN nodes
  BY <1>1, <1>3, ResolveType DEF IInv, Ids, VnodeIds
<1> HIDE DEF n
<1>6. nodes'[n].data = Written(nodes[n].data, 0, buf)
  BY <1>1, <1>3, <1>5, WriteTree DEF IInv
<1>7. nodes[n].data \in Seq(Nat)
  <2>1. nodes[n] \in NodeSet
    BY <1>5 DEF IInv, Tree, Typed
  <2> QED BY <2>1 DEF NodeSet
<1>8. /\ Len(nodes'[n].data) = Max({Len(nodes[n].data), Len(buf)})
      /\ \A i \in 1 .. Len(buf) : nodes'[n].data[i] = buf[i]
      /\ \A i \in (Len(buf) + 1) .. Len(nodes[n].data) : nodes'[n].data[i] = nodes[n].data[i]
  <2>1. PICK data \in Seq(Nat) : data = nodes[n].data
    BY <1>7
  <2>2. PICK w : w = Written(data, 0, buf)
    OBVIOUS
  <2>3. /\ Len(w) = Max({Len(data), Len(buf)}) /\ \A i \in 1 .. Len(buf) : w[i] = buf[i]
        /\ \A i \in (Len(buf) + 1) .. Len(data) : w[i] = data[i]
    BY <1>1, <2>2, WrittenBytes
  <2>4. nodes'[n].data = w
    BY <1>6, <2>1, <2>2
  <2> QED BY <2>1, <2>3, <2>4
<1>9. Resolve(path) = n
  BY DEF n
<1>10. ~nodes'[n].dir
  BY <1>2, <1>3, <1>5 DEF IsFile, MadeOne, Keeps
<1> HIDE DEF ReadsBack
<1>11. PICK N : N = nodes'
  OBVIOUS
<1>12. LET old == nodes[n].data
       IN  /\ Resolve(path)' # NULL /\ ~N[Resolve(path)'].dir
           /\ Len(N[Resolve(path)'].data) = Max({Len(old), Len(buf)})
           /\ \A i \in 1 .. Len(buf) : N[Resolve(path)'].data[i] = buf[i]
           /\ \A i \in (Len(buf) + 1) .. Len(old) : N[Resolve(path)'].data[i] = old[i]
  BY <1>3, <1>4, <1>8, <1>10, <1>11
<1> QED BY <1>3, <1>9, <1>11, <1>12 DEF ReadsBack

\* A write that makes its file reads back; when the buffer is refused the file is empty.
LEMMA NewReadsBack ==
  ASSUME IInv, NEW path \in Paths, NEW buf \in Buffers, SysWriteNew(path, buf)
  PROVE  ReadsBack(path, buf)
<1> DEFINE k == Len(nodes) + 1
           got == IF Len(buf) <= MaxFile THEN buf ELSE <<>>
<1>1. buf \in Seq(Nat) /\ <<>> \in Seq(Nat) /\ Len(<<>>) = 0
  BY Constants
<1>2. Resolve(path) = NULL
  BY DEF SysWriteNew
<1>3. Resolve(path)' = k
  BY NewResolves
<1>4. nodes'[k].data = Written(<<>>, 0, got) /\ ~nodes'[k].dir
  <2>1. NewEntry(Resolve(ParentPath(path)), LastName(path), buf)
    BY WriteNewKeeps
  <2> QED BY <2>1 DEF NewEntry
<1>5. k # NULL
  <2>1. Len(nodes) \in Nat
    BY DEF IInv, Tree, Typed
  <2> QED BY <2>1 DEF NULL
<1>6. got \in Seq(Nat) /\ got = (IF Resolve(path) = NULL /\ Len(buf) > MaxFile THEN <<>> ELSE buf)
  <2>1. Len(buf) \in Nat /\ MaxFile \in Nat
    BY <1>1, Constants
  <2> QED BY <1>1, <1>2, <2>1
<1> HIDE DEF k, got
<1>7. /\ Len(nodes'[k].data) = Max({Len(<<>>), Len(got)})
      /\ \A i \in 1 .. Len(got) : nodes'[k].data[i] = got[i]
  <2>1. /\ Len(Written(<<>>, 0, got)) = Max({Len(<<>>), Len(got)})
        /\ \A i \in 1 .. Len(got) : Written(<<>>, 0, got)[i] = got[i]
    BY <1>1, <1>6, WrittenBytes
  <2> QED BY <1>4, <2>1
<1>8. (Len(got) + 1) .. Len(<<>>) = {}
  BY <1>1, <1>6
<1>9. PICK old : old = <<>>
  OBVIOUS
<1>10. PICK N : N = nodes'
  OBVIOUS
<1>11. /\ k # NULL /\ ~N[k].dir /\ Len(N[k].data) = Max({Len(old), Len(got)})
       /\ \A i \in 1 .. Len(got) : N[k].data[i] = got[i]
       /\ \A i \in (Len(got) + 1) .. Len(old) : N[k].data[i] = old[i]
  BY <1>4, <1>5, <1>7, <1>8, <1>9, <1>10
<1> QED BY <1>2, <1>3, <1>6, <1>9, <1>10, <1>11, Zenon DEF ReadsBack

\* After SYS_WRITE the path names a file that begins with the bytes written, goes on
\* with what it held and is no longer than either: whether the call found the file or
\* made it, and wherever mounts, binds and names listed twice lead its two resolutions.
\* A file that the call made and could not fill is there and empty.
THEOREM WritesReadBack == Spec => WriteReadBack
<1> DEFINE Act ==
      UNCHANGED fds /\ (\E n \in DOMAIN nodes' :
                            n \notin VnodeIds \/ nodes'[n].data # nodes[n].data) =>
         \A p \in Paths, b \in Buffers :
           SysWriteOld(p, b) \/ SysWriteNew(p, b) =>
             LET n == Resolve(p)'
                 old == IF Resolve(p) = NULL THEN <<>> ELSE nodes[Resolve(p)].data
                 got == IF Resolve(p) = NULL /\ Len(b) > MaxFile THEN <<>> ELSE b
             IN  /\ n # NULL /\ ~nodes'[n].dir
                 /\ Len(nodes'[n].data) = Max({Len(old), Len(got)})
                 /\ \A i \in 1 .. Len(got) : nodes'[n].data[i] = got[i]
                 /\ \A i \in (Len(got) + 1) .. Len(old) : nodes'[n].data[i] = old[i]
<1>1. IInv /\ [Next]_vars => [Act]_vars
  <2> SUFFICES ASSUME IInv, NEW p \in Paths, NEW b \in Buffers,
                      SysWriteOld(p, b) \/ SysWriteNew(p, b)
               PROVE  ReadsBack(p, b)
    BY DEF ReadsBack
  <2> QED BY OldReadsBack, NewReadsBack
<1> QED BY <1>1, InvariantHolds, PTL DEF Spec, WriteReadBack
================================================================================
