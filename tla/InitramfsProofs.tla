---------------------------- MODULE InitramfsProofs ----------------------------
(***************************************************************************)
(* Proofs about the unpacker (Initramfs.tla), for every archive, every set of    *)
(* directories made at boot and every limit.                                    *)
(***************************************************************************)
EXTENDS Initramfs, FiniteSetTheorems, SequenceTheorems, WellFoundedInduction, TLAPS

--------------------------------------------------------------------------------
(* Induction, for sets: the walks below are functions defined by recursion.      *)
\* A set of numbers has a least one.
LEMMA LeastNat ==
  ASSUME NEW T \in SUBSET Nat, T # {}
  PROVE  \E x \in T : \A y \in T : x <= y
<1>1. PICK x \in T : \A y \in T : ~(<<y, x>> \in OpToRel(<, Nat))
  BY NatLessThanWellFounded, WFMin
<1>2. \A y \in T : ~(y < x)
  BY <1>1 DEF OpToRel
<1> QED BY <1>2

\* What holds of 0 and goes on from each number to the next holds up to n.
LEMMA UpTo ==
  ASSUME NEW n \in Nat, NEW T, 0 \in T, \A i \in 1 .. n : i - 1 \in T => i \in T
  PROVE  \A i \in 0 .. n : i \in T
<1> DEFINE Bad == {i \in 0 .. n : i \notin T}
<1> SUFFICES ASSUME Bad # {} PROVE FALSE
  OBVIOUS
<1>1. PICK x \in Bad : \A y \in Bad : x <= y
  <2>1. Bad \in SUBSET Nat
    OBVIOUS
  <2> QED BY <2>1, LeastNat
<1>2. x \in 1 .. n /\ x - 1 \in 0 .. n
  BY <1>1
<1>3. x - 1 \in T
  BY <1>1, <1>2
<1> QED BY <1>1, <1>2, <1>3

\* f begins with a and each further value follows from the one before by g.
Steps(n, S, a, g) == n \in Nat /\ a \in S /\ \A x \in S, i \in 1 .. n : g[<<x, i>>] \in S
Run(f, n, S, a, g) ==
  f \in [0 .. n -> S] /\ f[0] = a /\ \A i \in 1 .. n : f[i] = g[<<f[i - 1], i>>]

\* There is such a function.
LEMMA Iterated ==
  ASSUME NEW n, NEW S, NEW a, NEW g, Steps(n, S, a, g)
  PROVE  \E f : Run(f, n, S, a, g)
<1>s. n \in Nat /\ a \in S /\ \A x \in S, i \in 1 .. n : g[<<x, i>>] \in S
  BY DEF Steps
<1> DEFINE Good(f, k) == f[0] = a /\ \A i \in 1 .. k : f[i] = g[<<f[i - 1], i>>]
           T == {k \in 0 .. n : \E f \in [0 .. k -> S] : Good(f, k)}
<1>1. 0 \in T
  <2> DEFINE f == [i \in 0 .. 0 |-> a]
  <2>1. f \in [0 .. 0 -> S] /\ f[0] = a
    BY <1>s
  <2> HIDE DEF f
  <2>2. Good(f, 0)
    BY <2>1
  <2> QED BY <1>s, <2>1, <2>2
<1>2. ASSUME NEW k \in 1 .. n, k - 1 \in T PROVE k \in T
  <2>0. k \in Nat /\ k \in 0 .. n
    BY <1>s
  <2>1. PICK f \in [0 .. (k - 1) -> S] : Good(f, k - 1)
    BY <1>2
  <2> DEFINE h == [i \in 0 .. k |-> IF i < k THEN f[i] ELSE g[<<f[k - 1], k>>]]
  <2>2. f[k - 1] \in S /\ g[<<f[k - 1], k>>] \in S
    <3>1. k - 1 \in 0 .. (k - 1)
      BY <2>0
    <3> QED BY <1>s, <3>1
  <2>3. h \in [0 .. k -> S]
    BY <2>0, <2>2
  <2>4. \A i \in 0 .. k : h[i] = IF i < k THEN f[i] ELSE g[<<f[k - 1], k>>]
    OBVIOUS
  <2> HIDE DEF h
  <2>5. Good(h, k)
    <3>1. h[0] = a
      BY <2>0, <2>1, <2>4
    <3>2. ASSUME NEW i \in 1 .. k PROVE h[i] = g[<<h[i - 1], i>>]
      <4>1. h[i - 1] = f[i - 1] /\ i \in 0 .. k
        BY <2>0, <2>4, <3>2
      <4>2. CASE i < k
        BY <2>0, <2>1, <2>4, <4>1, <4>2
      <4>3. CASE i = k
        BY <2>4, <4>1, <4>3
      <4> QED BY <2>0, <4>2, <4>3
    <3> QED BY <3>1, <3>2
  <2> QED BY <2>0, <2>3, <2>5
<1>3. \A k \in 0 .. n : k \in T
  <2> HIDE DEF T
  <2> QED BY <1>s, <1>1, <1>2, UpTo
<1>4. n \in 0 .. n
  BY <1>s
<1> QED BY <1>3, <1>4 DEF Run
--------------------------------------------------------------------------------
(* The invariant.                                                               *)
\* The unpacker knows nothing but tmpfs, and nothing is mounted yet.
Names   == STRING \cup {"/"}
NodeSet == [name : Names, dir : BOOLEAN, fs : {"tmpfs"}, mountpt : BOOLEAN,
            mount : {NULL}, kids : Seq(Nat), data : Seq(Nat)]
Typed ==
  /\ nodes \in Seq(NodeSet) /\ Len(nodes) \in 1 .. MaxNodes /\ vfs_root = 1
  /\ \A n \in VnodeIds : /\ Len(nodes[n].kids) <= MaxKids
                         /\ nodes[n].kids # <<>> => nodes[n].dir

\* An entry names a vnode other than the root, no two entries name the same one,
\* and every vnode but the root has an entry.
Entry(d, i) == d \in VnodeIds /\ i \in DOMAIN nodes[d].kids
Linked == \A d, i : Entry(d, i) => nodes[d].kids[i] \in VnodeIds \ {1}
Once ==
  \A d, i, e, j : Entry(d, i) /\ Entry(e, j) /\ nodes[d].kids[i] = nodes[e].kids[j]
                    => d = e /\ i = j
Found == \A n \in VnodeIds \ {1} : \E d, i : Entry(d, i) /\ nodes[d].kids[i] = n
Tree  == Typed /\ Linked /\ Once /\ Found

\* What mkpath is asked to walk along, and how far it has got.
Target == Along(mem)
From(k) == k \in 0 .. Len(Target) /\ rest = SubSeq(Target, k + 1, Len(Target))
Walking ==
  \/ mem = NoMember /\ at = NULL /\ rest = <<>>
  \/ mem \in Members /\ at \in VnodeIds /\ \E k : From(k)

\* The inductive invariant.
IInv == Tree /\ DirsDistinct /\ Walking

\* What the constants give.
LEMMA Constants ==
  /\ MaxParts \in Nat \ {0} /\ MaxKids \in Nat /\ MaxNodes \in Nat \ {0} /\ MaxFile \in Nat
  /\ BootDirs \in Seq(STRING) /\ Len(BootDirs) < MaxNodes /\ Len(BootDirs) <= MaxKids
  /\ \A i, j \in DOMAIN BootDirs : BootDirs[i] = BootDirs[j] => i = j
  /\ \A m \in Members : /\ m.dir \in BOOLEAN /\ m.path \in Seq(STRING) /\ m.path # <<>>
                        /\ m.data \in Seq(Nat)
BY VfsAssumption, InitramfsAssumption DEF VfsAssumption, InitramfsAssumption
\* What mkpath is given is a path.
LEMMA AlongType ==
  ASSUME NEW m \in Members
  PROVE  Along(m) \in Seq(STRING)
<1> DEFINE p == m.path
<1>1. p \in Seq(STRING) /\ p # <<>> /\ Len(p) \in Nat
  BY Constants
<1>2. Along(m) = p \/ Along(m) = <<>> \/ Along(m) = SubSeq(p, 1, Len(p) - 1)
  BY DEF Along, Front
<1> HIDE DEF p
<1>3. 1 \in Int /\ Len(p) - 1 \in Int /\ \A i \in 1 .. (Len(p) - 1) : p[i] \in STRING
  BY <1>1
<1>4. SubSeq(p, 1, Len(p) - 1) \in Seq(STRING)
  BY <1>3, SubSeqProperties
<1>5. <<>> \in Seq(STRING)
  OBVIOUS
<1>6. CASE Along(m) = p
  BY <1>1, <1>6, Zenon
<1>7. CASE Along(m) = <<>>
  BY <1>5, <1>7, Zenon
<1>8. CASE Along(m) = SubSeq(p, 1, Len(p) - 1)
  BY <1>4, <1>8, Zenon
<1> QED BY <1>2, <1>6, <1>7, <1>8, Zenon
--------------------------------------------------------------------------------
(* Lookups.                                                                     *)
\* The smallest of a set of numbers is in it.
LEMMA MinFacts ==
  ASSUME NEW T \in SUBSET Nat, T # {}
  PROVE  Min(T) \in T /\ \A y \in T : Min(T) <= y
<1>1. \E x \in T : \A y \in T : x =< y
  BY LeastNat
<1> QED BY <1>1 DEF Min

\* A vnode's fields.
LEMMA NodeFacts ==
  ASSUME Typed, NEW n \in VnodeIds
  PROVE  /\ n \in Nat \ {0} /\ nodes[n] \in NodeSet
         /\ nodes[n].kids \in Seq(Nat) /\ nodes[n].fs = "tmpfs" /\ nodes[n].mount = NULL
         /\ nodes[n].dir \in BOOLEAN /\ nodes[n].data \in Seq(Nat)
         /\ Kids(n) = nodes[n].kids
<1>1. n \in Nat \ {0} /\ nodes[n] \in NodeSet
  BY DEF Typed, VnodeIds
<1> QED BY <1>1 DEF NodeSet, Kids

\* The first entry of a name, when there is one.
LEMMA FinddirFacts ==
  ASSUME Tree, NEW d \in VnodeIds, NEW name
  PROVE  LET K == nodes[d].kids
         IN  IF \E i \in DOMAIN K : nodes[K[i]].name = name
             THEN \E i \in DOMAIN K : /\ Finddir(d, name) = K[i] /\ nodes[K[i]].name = name
                                      /\ \A j \in DOMAIN K : nodes[K[j]].name = name => i <= j
             ELSE Finddir(d, name) = NULL
<1> DEFINE K == nodes[d].kids
           hits == {i \in DOMAIN K : nodes[K[i]].name = name}
<1>1. K \in Seq(Nat)
  BY NodeFacts DEF Tree
<1>2. hits \in SUBSET Nat
  BY <1>1
<1>3. Finddir(d, name) = IF hits = {} THEN NULL ELSE K[Min(hits)]
  BY NodeFacts DEF Finddir, Tree
<1>4. CASE hits = {}
  BY <1>3, <1>4
<1>5. CASE hits # {}
  <2>1. Min(hits) \in hits /\ \A j \in hits : Min(hits) <= j
    <3> HIDE DEF hits
    <3> QED BY <1>2, <1>5, MinFacts
  <2>2. PICK i : i = Min(hits)
    OBVIOUS
  <2> QED BY <1>3, <1>5, <2>1, <2>2
<1> QED BY <1>4, <1>5

\* What is found is a vnode other than the root.
LEMMA FinddirType ==
  ASSUME Tree, NEW d \in VnodeIds, NEW name, Finddir(d, name) # NULL
  PROVE  Finddir(d, name) \in VnodeIds \ {1}
<1>1. PICK i \in DOMAIN nodes[d].kids : Finddir(d, name) = nodes[d].kids[i]
  BY FinddirFacts
<1> QED BY <1>1 DEF Tree, Linked, Entry
--------------------------------------------------------------------------------
(* What a new entry does to the tree.                                           *)
\* The vnode is new, it comes last in its directory, and nothing else changes.
Same(n) ==
  /\ nodes'[n].name = nodes[n].name /\ nodes'[n].dir = nodes[n].dir
  /\ nodes'[n].fs = nodes[n].fs /\ nodes'[n].mount = nodes[n].mount
  /\ nodes'[n].data = nodes[n].data
Grown(d, node) ==
  /\ nodes' \in Seq(NodeSet) /\ Len(nodes') = Len(nodes) + 1
  /\ VnodeIds' = VnodeIds \cup {NewNode} /\ NewNode \notin VnodeIds /\ NewNode \in Nat \ {0, 1}
  /\ nodes'[NewNode] = node
  /\ \A n \in VnodeIds : Same(n)
  /\ \A n \in VnodeIds \ {d} : nodes'[n].kids = nodes[n].kids
  /\ nodes'[d].kids = Append(nodes[d].kids, NewNode)

\* That is what tmpfs_mkdir and tmpfs_mkfile do.
LEMMA MakeGrows ==
  ASSUME Typed, NEW d \in VnodeIds, NEW node \in NodeSet, Make(d, node)
  PROVE  Grown(d, node)
<1>1. /\ nodes \in Seq(NodeSet) /\ Len(nodes) \in Nat \ {0} /\ VnodeIds = 1 .. Len(nodes)
      /\ NewNode = Len(nodes) + 1
  BY DEF Typed, VnodeIds, NewNode
<1> DEFINE k == NewNode
           kids == Append(nodes[d].kids, k)
           grown == [nodes[d] EXCEPT !.kids = kids]
           base == [nodes EXCEPT ![d] = grown]
<1>2. nodes' = Append(base, node)
  BY DEF Make
<1>3. nodes[d] \in NodeSet /\ nodes[d].kids \in Seq(Nat)
  BY NodeFacts
<1>4. k \in Nat /\ kids \in Seq(Nat)
  BY <1>1, <1>3
<1> HIDE DEF kids
<1>5. /\ grown \in NodeSet /\ grown.kids = kids /\ grown.name = nodes[d].name
      /\ grown.dir = nodes[d].dir /\ grown.fs = nodes[d].fs /\ grown.mount = nodes[d].mount
      /\ grown.data = nodes[d].data
  BY <1>3, <1>4 DEF NodeSet
<1> HIDE DEF grown
<1>6. /\ base \in Seq(NodeSet) /\ Len(base) = Len(nodes)
      /\ \A n \in 1 .. Len(nodes) : base[n] = IF n = d THEN grown ELSE nodes[n]
  <2>1. d \in 1 .. Len(nodes)
    BY <1>1
  <2> HIDE DEF base
  <2> DEFINE NS == NodeSet
  <2>2. nodes \in Seq(NS) /\ grown \in NS
    BY <1>1, <1>5
  <2> HIDE DEF NS
  <2>3. base = [nodes EXCEPT ![d] = grown]
    BY DEF base
  <2>4. /\ base \in Seq(NS) /\ Len(base) = Len(nodes)
        /\ \A n \in 1 .. Len(nodes) : base[n] = IF n = d THEN grown ELSE nodes[n]
    BY <2>1, <2>2, <2>3, ExceptSeq
  <2> QED BY <2>4 DEF NS
<1> HIDE DEF base
<1>7. /\ nodes' \in Seq(NodeSet) /\ Len(nodes') = Len(nodes) + 1 /\ DOMAIN nodes' = 1 .. k
      /\ nodes'[k] = node /\ \A n \in 1 .. Len(nodes) : nodes'[n] = base[n]
  <2> DEFINE NS == NodeSet
  <2>1. base \in Seq(NS) /\ node \in NS /\ Len(base) = Len(nodes)
    BY <1>6
  <2> HIDE DEF NS
  <2>2. /\ nodes' \in Seq(NS) /\ Len(nodes') = Len(nodes) + 1 /\ DOMAIN nodes' = 1 .. k
        /\ nodes'[k] = node /\ \A n \in 1 .. Len(nodes) : nodes'[n] = base[n]
    BY <1>1, <1>2, <2>1
  <2> QED BY <2>2 DEF NS
<1>8. VnodeIds' = VnodeIds \cup {k} /\ k \notin VnodeIds /\ k \in Nat \ {0, 1}
  <2>1. VnodeIds' = 1 .. k
    BY <1>7 DEF VnodeIds
  <2> HIDE DEF k
  <2> QED BY <1>1, <2>1 DEF k
<1>9. \A n \in VnodeIds : Same(n)
  <2>1. ASSUME NEW n \in VnodeIds PROVE Same(n)
    <3>1. nodes'[n] = IF n = d THEN grown ELSE nodes[n]
      BY <1>1, <1>6, <1>7
    <3> QED BY <1>5, <3>1 DEF Same
  <2> QED BY <2>1
<1>10. \A n \in VnodeIds \ {d} : nodes'[n].kids = nodes[n].kids
  BY <1>1, <1>6, <1>7
<1>11. nodes'[d].kids = kids
  <2>1. nodes'[d] = grown
    BY <1>1, <1>6, <1>7
  <2> QED BY <1>5, <2>1
<1> HIDE DEF k
<1>12. nodes'[d].kids = Append(nodes[d].kids, k)
  BY <1>11 DEF kids
<1> QED BY <1>7, <1>8, <1>9, <1>10, <1>12 DEF Grown, k

\* The entries there are afterwards.
LEMMA GrownEntries ==
  ASSUME Typed, NEW d \in VnodeIds, NEW node \in NodeSet, node.kids = <<>>, Grown(d, node),
         NEW new, new = Len(nodes[d].kids) + 1
  PROVE  /\ Entry(d, new)' /\ nodes'[d].kids[new] = NewNode /\ ~Entry(d, new)
         /\ \A e, i : Entry(e, i) => Entry(e, i)' /\ nodes'[e].kids[i] = nodes[e].kids[i]
         /\ \A e, i : Entry(e, i)' => Entry(e, i) \/ (e = d /\ i = new)
<1> DEFINE K == nodes[d].kids
<1>1. /\ K \in Seq(Nat) /\ NewNode \in Nat /\ nodes'[d].kids = Append(K, NewNode)
      /\ VnodeIds' = VnodeIds \cup {NewNode} /\ NewNode \notin VnodeIds
      /\ nodes'[NewNode].kids = <<>>
      /\ \A n \in VnodeIds \ {d} : nodes'[n].kids = nodes[n].kids
  BY NodeFacts DEF Grown
<1>0. new = Len(K) + 1
  OBVIOUS
<1> HIDE DEF K
<1>2. /\ DOMAIN Append(K, NewNode) = DOMAIN K \cup {new} /\ new \notin DOMAIN K
      /\ Append(K, NewNode)[new] = NewNode
      /\ \A i \in DOMAIN K : Append(K, NewNode)[i] = K[i]
  BY <1>0, <1>1
<1>3. \A e, i : Entry(e, i)' <=> e \in VnodeIds' /\ i \in DOMAIN nodes'[e].kids
  BY DEF Entry
<1>4. Entry(d, new)' /\ nodes'[d].kids[new] = NewNode /\ ~Entry(d, new)
  BY <1>1, <1>2, <1>3 DEF Entry, K
<1>5. ASSUME NEW e, NEW i, Entry(e, i)
      PROVE  Entry(e, i)' /\ nodes'[e].kids[i] = nodes[e].kids[i]
  <2>1. CASE e = d
    BY <1>1, <1>2, <1>3, <1>5, <2>1 DEF Entry, K
  <2>2. CASE e # d
    BY <1>1, <1>3, <1>5, <2>2 DEF Entry
  <2> QED BY <2>1, <2>2
<1>6. ASSUME NEW e, NEW i, Entry(e, i)' PROVE Entry(e, i) \/ (e = d /\ i = new)
  <2>1. e \in VnodeIds' /\ i \in DOMAIN nodes'[e].kids
    BY <1>3, <1>6
  <2>2. CASE e = NewNode
    <3>1. DOMAIN <<>> = {}
      OBVIOUS
    <3> QED BY <1>1, <2>1, <2>2, <3>1
  <2>3. CASE e = d
    BY <1>1, <1>2, <2>1, <2>3 DEF Entry, K
  <2>4. CASE e # NewNode /\ e # d
    BY <1>1, <2>1, <2>4 DEF Entry
  <2> QED BY <2>2, <2>3, <2>4
<1> QED BY <1>4, <1>5, <1>6

\* So it stays a tree in which directories are told apart by name, as long as a
\* directory is made only where the name is free.
LEMMA MakeTree ==
  ASSUME Tree, DirsDistinct, NEW d \in VnodeIds, NEW node \in NodeSet, node.kids = <<>>,
         Grown(d, node), CanMake(d), vfs_root' = vfs_root,
         node.dir => \A i \in DOMAIN nodes[d].kids : nodes[nodes[d].kids[i]].name # node.name
  PROVE  Tree' /\ DirsDistinct'
<1> DEFINE K == nodes[d].kids
<1> PICK new : new = Len(nodes[d].kids) + 1
  OBVIOUS
<1>0. Typed /\ Linked /\ Once /\ Found
  BY DEF Tree
<1>1. /\ Entry(d, new)' /\ nodes'[d].kids[new] = NewNode /\ ~Entry(d, new)
      /\ \A e, i : Entry(e, i) => Entry(e, i)' /\ nodes'[e].kids[i] = nodes[e].kids[i]
      /\ \A e, i : Entry(e, i)' => Entry(e, i) \/ (e = d /\ i = new)
  BY <1>0, GrownEntries
<1>2. /\ VnodeIds' = VnodeIds \cup {NewNode} /\ NewNode \notin VnodeIds /\ NewNode \in Nat \ {0, 1}
  BY DEF Grown
<1>3. Typed'
  <2>1. nodes' \in Seq(NodeSet) /\ Len(nodes') \in 1 .. MaxNodes /\ vfs_root' = 1
    BY <1>0 DEF Grown, Typed, CanMake, HasRoom
  <2>2. ASSUME NEW n \in VnodeIds'
        PROVE  Len(nodes'[n].kids) <= MaxKids /\ (nodes'[n].kids # <<>> => nodes'[n].dir)
    <3>1. CASE n = NewNode
      <4>1. Len(<<>>) = 0 /\ MaxKids \in Nat
        BY Constants
      <4> QED BY <3>1, <4>1 DEF Grown
    <3>2. CASE n = d
      <4>1. K \in Seq(Nat) /\ NewNode \in Nat /\ Len(K) < MaxKids /\ MaxKids \in Nat
        BY <1>0, <1>2, NodeFacts, Constants DEF CanMake
      <4>2. Len(Append(K, NewNode)) <= MaxKids
        BY <4>1
      <4>3. nodes'[d].kids = Append(K, NewNode) /\ nodes'[d].dir
        BY DEF Grown, Same, CanMake, IsTmpDir, IsDir
      <4> QED BY <3>2, <4>2, <4>3
    <3>3. CASE n \in VnodeIds \ {d}
      BY <1>0, <3>3 DEF Grown, Same, Typed
    <3> QED BY <1>2, <3>1, <3>2, <3>3
  <2> QED BY <2>1, <2>2 DEF Typed
<1> HIDE DEF K
<1>4. Linked'
  <2>1. ASSUME NEW e, NEW i, Entry(e, i)' PROVE nodes'[e].kids[i] \in VnodeIds' \ {1}
    BY <1>0, <1>1, <1>2, <2>1 DEF Linked
  <2> QED BY <2>1 DEF Linked
<1>5. Once'
  <2>1. ASSUME NEW e, NEW i, NEW f, NEW j, Entry(e, i)', Entry(f, j)',
               nodes'[e].kids[i] = nodes'[f].kids[j]
        PROVE  e = f /\ i = j
    <3>1. CASE Entry(e, i) /\ Entry(f, j)
      BY <1>0, <1>1, <2>1, <3>1 DEF Once
    <3>2. CASE Entry(e, i) /\ f = d /\ j = new
      BY <1>0, <1>1, <1>2, <2>1, <3>2 DEF Linked
    <3>3. CASE Entry(f, j) /\ e = d /\ i = new
      BY <1>0, <1>1, <1>2, <2>1, <3>3 DEF Linked
    <3> QED BY <1>1, <2>1, <3>1, <3>2, <3>3
  <2> QED BY <2>1 DEF Once
<1>6. Found'
  <2>1. ASSUME NEW n \in VnodeIds' \ {1} PROVE \E e, i : Entry(e, i)' /\ nodes'[e].kids[i] = n
    <3>1. CASE n = NewNode
      BY <1>1, <3>1
    <3>2. CASE n \in VnodeIds
      <4>1. PICK e, i : Entry(e, i) /\ nodes[e].kids[i] = n
        BY <1>0, <2>1, <3>2 DEF Found
      <4> QED BY <1>1, <4>1
    <3> QED BY <1>2, <3>1, <3>2
  <2> QED BY <2>1 DEF Found
<1>7. DirsDistinct'
  <2>1. \A e \in VnodeIds' : Kid(e)' = {nodes'[e].kids[i] : i \in DOMAIN nodes'[e].kids}
    BY DEF Kid, Range
  <2>2. \A e \in VnodeIds : Kid(e) = {nodes[e].kids[i] : i \in DOMAIN nodes[e].kids}
    BY DEF Kid, Range
  <2>3. ASSUME NEW e \in VnodeIds', NEW n \in Kid(e)', NEW o \in Kid(e)', n # o,
               nodes'[n].dir, nodes'[o].dir
        PROVE  nodes'[n].name # nodes'[o].name
    <3>1. PICK i : Entry(e, i)' /\ nodes'[e].kids[i] = n
      BY <2>1, <2>3 DEF Entry
    <3>2. PICK j : Entry(e, j)' /\ nodes'[e].kids[j] = o
      BY <2>1, <2>3 DEF Entry
    <3>3. \A p \in VnodeIds : nodes'[p].dir = nodes[p].dir /\ nodes'[p].name = nodes[p].name
      BY DEF Grown, Same
    <3>4. CASE Entry(e, i) /\ Entry(e, j)
      <4>1. e \in VnodeIds /\ n \in Kid(e) /\ o \in Kid(e) /\ n \in VnodeIds /\ o \in VnodeIds
        BY <1>0, <1>1, <2>2, <3>1, <3>2, <3>4 DEF Entry, Linked
      <4> QED BY <2>3, <3>3, <4>1 DEF DirsDistinct
    <3>5. ASSUME NEW a, NEW b, NEW x, Entry(e, a), nodes'[e].kids[a] = x, e = d, b = NewNode,
                 nodes'[b].dir
          PROVE  nodes'[x].name # nodes'[b].name
      <4>1. x \in VnodeIds /\ a \in DOMAIN nodes[d].kids /\ nodes[d].kids[a] = x
        BY <1>0, <1>1, <3>5 DEF Linked, Entry
      <4>2. nodes'[b] = node
        BY <3>5 DEF Grown
      <4> QED BY <3>3, <3>5, <4>1, <4>2
    <3>6. CASE Entry(e, i) /\ e = d /\ j = new
      <4>1. o = NewNode
        BY <1>1, <3>2, <3>6
      <4> QED BY <2>3, <3>1, <3>5, <3>6, <4>1
    <3>7. CASE Entry(e, j) /\ e = d /\ i = new
      <4>1. n = NewNode
        BY <1>1, <3>1, <3>7
      <4> QED BY <2>3, <3>2, <3>5, <3>7, <4>1
    <3> QED BY <1>1, <2>3, <3>1, <3>2, <3>4, <3>6, <3>7
  <2> QED BY <2>3 DEF DirsDistinct
<1> QED BY <1>3, <1>4, <1>5, <1>6, <1>7 DEF Tree
--------------------------------------------------------------------------------
(* The initial states.                                                          *)
\* The vnodes boot makes, field by field.
LEMMA InitNodes ==
  ASSUME Init
  PROVE  /\ nodes \in Seq(NodeSet) /\ Len(nodes) = Len(BootDirs) + 1
         /\ nodes[1].dir /\ nodes[1].kids = [i \in DOMAIN BootDirs |-> i + 1]
         /\ \A i \in DOMAIN BootDirs : /\ nodes[i + 1].name = BootDirs[i]
                                       /\ nodes[i + 1].kids = <<>>
<1> DEFINE B == BootDirs
           kids == [i \in DOMAIN B |-> i + 1]
           root == [Node("/", TRUE, "tmpfs") EXCEPT !.kids = kids]
           dir(name) == Node(name, TRUE, "tmpfs")
           first == <<root>>
           dirs == [i \in DOMAIN B |-> dir(B[i])]
           NS == NodeSet
<1>1. B \in Seq(STRING) /\ Len(B) \in Nat /\ DOMAIN B = 1 .. Len(B)
  BY Constants
<1>2. kids \in Seq(Nat)
  BY <1>1
<1>3. PICK blank \in NodeSet : blank.dir /\ blank = Node("/", TRUE, "tmpfs")
  <2>1. \A name \in Names : Node(name, TRUE, "tmpfs") \in NodeSet /\ Node(name, TRUE, "tmpfs").dir
    BY DEF NodeSet, Node
  <2>2. "/" \in Names
    BY DEF Names
  <2> QED BY <2>1, <2>2, Zenon
<1>4. root \in NS /\ root.kids = kids /\ root.dir
  <2> HIDE DEF kids
  <2>1. root = [blank EXCEPT !.kids = kids]
    BY <1>3, Zenon
  <2>2. blank \in NodeSet /\ blank.dir
    BY <1>3
  <2> HIDE DEF root
  <2> QED BY <1>2, <2>1, <2>2 DEF NodeSet
<1> HIDE DEF kids
<1>5. \A name \in Names : dir(name) \in NS /\ dir(name).name = name /\ dir(name).kids = <<>>
  BY DEF NodeSet, Node
<1> HIDE DEF root, dir, NS
<1>6. \A i \in DOMAIN B : dir(B[i]) \in NS /\ dir(B[i]).name = B[i] /\ dir(B[i]).kids = <<>>
  <2>1. \A i \in DOMAIN B : B[i] \in Names
    BY <1>1 DEF Names
  <2> QED BY <1>5, <2>1
<1>7. dirs \in Seq(NS) /\ Len(dirs) = Len(B) /\ \A i \in 1 .. Len(B) : dirs[i] = dir(B[i])
  <2>1. dirs = [i \in 1 .. Len(B) |-> dir(B[i])]
    BY <1>1
  <2>2. dirs \in [1 .. Len(B) -> NS] /\ \A i \in 1 .. Len(B) : dirs[i] = dir(B[i])
    BY <1>1, <1>6, <2>1
  <2> HIDE DEF dirs
  <2> QED BY <1>1, <2>2
<1>8. first \in Seq(NS) /\ Len(first) = 1 /\ first[1] = root
  BY <1>4
<1>9. nodes = first \o dirs
  BY DEF Init, root, kids, dir
<1> HIDE DEF first, dirs
<1>10. /\ nodes \in Seq(NS) /\ Len(nodes) = Len(B) + 1
       /\ \A i \in 1 .. 1 + Len(B) : nodes[i] = IF i <= 1 THEN first[i] ELSE dirs[i - 1]
  <2>1. /\ nodes \in Seq(NS) /\ Len(nodes) = Len(first) + Len(dirs)
        /\ \A i \in 1 .. Len(first) + Len(dirs) :
             nodes[i] = IF i <= Len(first) THEN first[i] ELSE dirs[i - Len(first)]
    <3>1. PICK s, t : s = first /\ t = dirs
      OBVIOUS
    <3>2. s \in Seq(NS) /\ t \in Seq(NS) /\ nodes = s \o t
      BY <1>7, <1>8, <1>9, <3>1
    <3>3. /\ nodes \in Seq(NS) /\ Len(nodes) = Len(s) + Len(t)
          /\ \A i \in 1 .. Len(s) + Len(t) : nodes[i] = IF i <= Len(s) THEN s[i] ELSE t[i - Len(s)]
      BY <3>2, ConcatProperties
    <3> QED BY <3>1, <3>3
  <2> QED BY <1>1, <1>7, <1>8, <2>1
<1>11. nodes[1] = root
  BY <1>1, <1>8, <1>10
<1>12. \A i \in DOMAIN B : nodes[i + 1] = dirs[i]
  BY <1>1, <1>10
<1>13. \A i \in DOMAIN B : nodes[i + 1].name = B[i] /\ nodes[i + 1].kids = <<>>
  <2>1. \A i \in DOMAIN B : nodes[i + 1] = dir(B[i])
    BY <1>1, <1>7, <1>12
  <2> QED BY <1>6, <2>1
<1> QED BY <1>4, <1>10, <1>11, <1>13 DEF NS, kids

\* They are a tree, and the unpacker has not begun.
LEMMA InitInv == Init => IInv
<1> SUFFICES ASSUME Init PROVE IInv
  OBVIOUS
<1> DEFINE B == BootDirs
<1>1. /\ Len(B) \in Nat /\ DOMAIN B = 1 .. Len(B) /\ Len(B) < MaxNodes /\ Len(B) <= MaxKids
      /\ MaxNodes \in Nat /\ \A i, j \in DOMAIN B : B[i] = B[j] => i = j
  BY Constants
<1>2. /\ nodes \in Seq(NodeSet) /\ Len(nodes) = Len(B) + 1
      /\ nodes[1].dir /\ nodes[1].kids = [i \in DOMAIN B |-> i + 1]
      /\ \A i \in DOMAIN B : nodes[i + 1].name = B[i] /\ nodes[i + 1].kids = <<>>
  BY InitNodes
<1> HIDE DEF B
<1>3. VnodeIds = 1 .. (Len(B) + 1) /\ \A n \in VnodeIds \ {1} : n - 1 \in DOMAIN B /\ n = (n - 1) + 1
  BY <1>1, <1>2 DEF VnodeIds
<1>4. \A n \in VnodeIds \ {1} : nodes[n].kids = <<>> /\ nodes[n].name = B[n - 1]
  <2>1. ASSUME NEW n \in VnodeIds \ {1} PROVE nodes[n].kids = <<>> /\ nodes[n].name = B[n - 1]
    <3>1. PICK i : i = n - 1
      OBVIOUS
    <3>2. i \in DOMAIN B /\ n = i + 1
      BY <1>3, <3>1
    <3> QED BY <1>2, <3>1, <3>2
  <2> QED BY <2>1
<1>5. DOMAIN nodes[1].kids = DOMAIN B /\ \A i \in DOMAIN B : nodes[1].kids[i] = i + 1
  BY <1>2
<1>6. \A d, i : Entry(d, i) <=> (d = 1 /\ i \in DOMAIN B)
  <2>1. DOMAIN <<>> = {} /\ 1 \in VnodeIds
    BY <1>1, <1>3
  <2> QED BY <1>4, <1>5, <2>1 DEF Entry
<1>7. Typed
  <2>1. Len(nodes[1].kids) = Len(B)
    <3>1. nodes[1].kids \in Seq(Nat)
      BY <1>1, <1>2
    <3> QED BY <1>1, <1>5, <3>1
  <2>2. Len(<<>>) = 0 /\ MaxKids \in Nat
    BY Constants
  <2>3. vfs_root = 1
    BY DEF Init
  <2>4. \A n \in VnodeIds : Len(nodes[n].kids) <= MaxKids /\ (nodes[n].kids # <<>> => nodes[n].dir)
    BY <1>1, <1>2, <1>3, <1>4, <2>1, <2>2
  <2> QED BY <1>1, <1>2, <2>3, <2>4 DEF Typed
<1>8. Linked
  BY <1>1, <1>3, <1>5, <1>6 DEF Linked
<1>9. Once
  BY <1>1, <1>5, <1>6 DEF Once
<1>10. Found
  BY <1>3, <1>5, <1>6 DEF Found
<1>11. DirsDistinct
  <2>1. \A d \in VnodeIds : Kid(d) = {nodes[d].kids[i] : i \in DOMAIN nodes[d].kids}
    BY DEF Kid, Range
  <2>2. ASSUME NEW d \in VnodeIds, NEW n \in Kid(d), NEW o \in Kid(d), n # o
        PROVE  nodes[n].name # nodes[o].name
    <3>1. PICK i : Entry(d, i) /\ n = nodes[d].kids[i]
      BY <2>1 DEF Entry
    <3>2. PICK j : Entry(d, j) /\ o = nodes[d].kids[j]
      BY <2>1 DEF Entry
    <3>3. i \in DOMAIN B /\ j \in DOMAIN B /\ n = i + 1 /\ o = j + 1
      BY <1>5, <1>6, <3>1, <3>2
    <3> QED BY <1>1, <1>2, <2>2, <3>3
  <2> QED BY <2>2 DEF DirsDistinct
<1>12. Walking
  BY DEF Init, Walking
<1> QED BY <1>7, <1>8, <1>9, <1>10, <1>11, <1>12 DEF IInv, Tree
--------------------------------------------------------------------------------
(* The steps.                                                                   *)
\* A member under way has a path to walk along, and what is left of it is a tail.
LEMMA WalkFacts ==
  ASSUME Walking, mem # NoMember
  PROVE  /\ mem \in Members /\ at \in VnodeIds /\ Target \in Seq(STRING)
         /\ mem.path \in Seq(STRING) /\ mem.path # <<>> /\ mem.data \in Seq(Nat)
         /\ mem.dir \in BOOLEAN
         /\ \A k : From(k) =>
              /\ k \in Nat /\ Len(rest) = Len(Target) - k /\ Len(Target) \in Nat
              /\ rest # <<>> => /\ k + 1 \in 1 .. Len(Target) /\ Head(rest) = Target[k + 1]
                                /\ Tail(rest) = SubSeq(Target, k + 2, Len(Target))
                                /\ Head(rest) \in STRING
              /\ rest = <<>> => k = Len(Target)
<1>1. mem \in Members /\ at \in VnodeIds
  BY DEF Walking
<1>2. /\ mem.path \in Seq(STRING) /\ mem.path # <<>> /\ mem.data \in Seq(Nat)
      /\ mem.dir \in BOOLEAN
  BY <1>1, Constants
<1>3. Target \in Seq(STRING)
  BY <1>1, AlongType DEF Target
<1>4. ASSUME NEW k, From(k)
      PROVE  /\ k \in Nat /\ Len(rest) = Len(Target) - k /\ Len(Target) \in Nat
             /\ rest # <<>> => /\ k + 1 \in 1 .. Len(Target) /\ Head(rest) = Target[k + 1]
                               /\ Tail(rest) = SubSeq(Target, k + 2, Len(Target))
                               /\ Head(rest) \in STRING
             /\ rest = <<>> => k = Len(Target)
  <2> DEFINE T == Target
  <2>1. T \in Seq(STRING) /\ Len(T) \in Nat /\ k \in 0 .. Len(T) /\ rest = SubSeq(T, k + 1, Len(T))
    BY <1>3, <1>4 DEF From
  <2> HIDE DEF T
  <2>2. k + 1 \in Int /\ Len(T) \in Int /\ \A i \in (k + 1) .. Len(T) : T[i] \in STRING
    BY <2>1
  <2>3. rest \in Seq(STRING) /\ Len(rest) = IF k + 1 <= Len(T) THEN Len(T) - (k + 1) + 1 ELSE 0
    BY <2>1, <2>2, SubSeqProperties
  <2>4. k \in Nat /\ Len(rest) = Len(T) - k
    BY <2>1, <2>3
  <2>5. rest = <<>> => k = Len(T)
    <3>1. Len(<<>>) = 0
      OBVIOUS
    <3>2. Len(T) \in Nat
      BY <2>1
    <3> QED BY <2>4, <3>1, <3>2
  <2>6. ASSUME rest # <<>>
        PROVE  /\ k + 1 \in 1 .. Len(T) /\ Head(rest) = T[k + 1]
               /\ Tail(rest) = SubSeq(T, k + 2, Len(T)) /\ Head(rest) \in STRING
    <3>1. Len(rest) # 0
      BY <2>3, <2>6, EmptySeq
    <3>2. k + 1 \in 1 .. Len(T) /\ Len(T) \in (k + 1) .. Len(T)
      BY <2>1, <2>4, <3>1
    <3>3. /\ Head(SubSeq(T, k + 1, Len(T))) = T[k + 1]
          /\ Tail(SubSeq(T, k + 1, Len(T))) = SubSeq(T, k + 1 + 1, Len(T))
      BY <2>1, <3>2, HeadTailOfSubSeq
    <3>4. k + 1 + 1 = k + 2
      BY <2>1
    <3> QED BY <2>1, <3>2, <3>3, <3>4
  <2> QED BY <2>1, <2>4, <2>5, <2>6 DEF T
<1> QED BY <1>1, <1>2, <1>3, <1>4

\* One level further along the path.
LEMMA NextLevel ==
  ASSUME Walking, mem # NoMember, rest # <<>>, rest' = Tail(rest), mem' = mem,
         at' \in VnodeIds'
  PROVE  Walking' /\ \A k : From(k) => From(k + 1)'
<1>1. mem \in Members /\ Target' = Target
  BY WalkFacts DEF Target
<1>2. ASSUME NEW k, From(k) PROVE From(k + 1)'
  <2>1. /\ k \in Nat /\ k + 1 \in 1 .. Len(Target) /\ Len(Target) \in Nat
        /\ Tail(rest) = SubSeq(Target, k + 2, Len(Target))
    BY <1>2, WalkFacts
  <2>2. k + 1 + 1 = k + 2 /\ k + 1 \in 0 .. Len(Target)
    BY <2>1
  <2> QED BY <1>1, <2>1, <2>2 DEF From
<1>3. \E k : From(k)
  BY DEF Walking
<1> QED BY <1>1, <1>2, <1>3 DEF Walking

\* A step that makes nothing leaves the tree as it is.
LEMMA SameTree ==
  ASSUME Tree, DirsDistinct, UNCHANGED vfsVars
  PROVE  Tree' /\ DirsDistinct' /\ VnodeIds' = VnodeIds
<1>1. nodes' = nodes /\ vfs_root' = vfs_root
  BY DEF vfsVars
<1>2. /\ VnodeIds' = VnodeIds /\ Typed' = Typed /\ Linked' = Linked /\ Once' = Once
      /\ Found' = Found /\ DirsDistinct' = DirsDistinct
  BY <1>1 DEF VnodeIds, Typed, Linked, Once, Found, Entry, DirsDistinct, Kid
<1> QED BY <1>2 DEF Tree

\* What a step that makes something makes.
Made(d, node) ==
  /\ d \in VnodeIds /\ node \in NodeSet /\ node.kids = <<>> /\ CanMake(d) /\ Grown(d, node)
  /\ UNCHANGED <<vfs_root, mounts, proc_root, procs>>

\* A directory on the way: no vnode there has its name.
LEMMA ParentMade ==
  ASSUME Tree, Walking, MakeParent
  PROVE  /\ Made(at, Node(Head(rest), TRUE, "tmpfs")) /\ rest # <<>> /\ mem # NoMember
         /\ \A i \in DOMAIN nodes[at].kids : nodes[nodes[at].kids[i]].name # Head(rest)
<1>1. mem # NoMember /\ Len(rest) > 1 /\ Child = NULL /\ CanMake(at)
  BY DEF MakeParent
<1>2. rest # <<>>
  <2>1. Len(<<>>) = 0
    OBVIOUS
  <2> QED BY <1>1, <2>1
<1>3. at \in VnodeIds /\ Head(rest) \in STRING
  <2>1. PICK k : From(k)
    BY <1>1 DEF Walking
  <2> QED BY <1>1, <1>2, <2>1, WalkFacts
<1> DEFINE node == Node(Head(rest), TRUE, "tmpfs")
<1>4. node \in NodeSet /\ node.kids = <<>>
  <2>1. Head(rest) \in Names
    BY <1>3 DEF Names
  <2> QED BY <2>1 DEF NodeSet, Node
<1>5. Make(at, node)
  BY DEF MakeParent
<1> HIDE DEF node
<1>6. Grown(at, node)
  BY <1>3, <1>4, <1>5, MakeGrows DEF Tree
<1>7. UNCHANGED <<vfs_root, mounts, proc_root, procs>>
  BY DEF MakeParent
<1>8. \A i \in DOMAIN nodes[at].kids : nodes[nodes[at].kids[i]].name # Head(rest)
  <2> SUFFICES ASSUME NEW j \in DOMAIN nodes[at].kids,
                      nodes[nodes[at].kids[j]].name = Head(rest)
               PROVE  FALSE
    OBVIOUS
  <2>1. PICK i \in DOMAIN nodes[at].kids : Finddir(at, Head(rest)) = nodes[at].kids[i]
    BY <1>3, FinddirFacts
  <2>2. Entry(at, i)
    BY <1>3 DEF Entry
  <2>3. nodes[at].kids[i] \in VnodeIds
    BY <2>2 DEF Tree, Linked
  <2>4. 0 \notin VnodeIds
    BY DEF Tree, Typed, VnodeIds
  <2> QED BY <1>1, <2>1, <2>3, <2>4 DEF Child, NULL
<1> QED BY <1>1, <1>2, <1>3, <1>4, <1>6, <1>7, <1>8 DEF Made, node

\* The file at the end.
LEMMA FileMade ==
  ASSUME Tree, Walking, PlaceFile
  PROVE  Made(at, File) /\ ~File.dir /\ mem # NoMember
<1>1. mem # NoMember /\ CanMake(at) /\ Make(at, File)
      /\ UNCHANGED <<vfs_root, mounts, proc_root, procs>>
  BY DEF PlaceFile
<1>2. at \in VnodeIds /\ mem.path \in Seq(STRING) /\ mem.path # <<>> /\ mem.data \in Seq(Nat)
  BY <1>1, WalkFacts
<1>3. Last(mem.path) \in Names
  <2> DEFINE p == mem.path
  <2>1. p \in Seq(STRING) /\ Len(p) \in 1 .. Len(p)
    BY <1>2
  <2> HIDE DEF p
  <2>2. p[Len(p)] \in STRING
    BY <2>1
  <2> QED BY <2>2 DEF Last, Names, p
<1>4. File \in NodeSet /\ File.kids = <<>> /\ ~File.dir
  <2>1. PICK D \in Seq(Nat) : D = IF Len(mem.data) <= MaxFile THEN mem.data ELSE <<>>
    <3>1. <<>> \in Seq(Nat)
      OBVIOUS
    <3> QED BY <1>2, <3>1, Zenon
  <2>2. PICK blank \in NodeSet : /\ blank.kids = <<>> /\ ~blank.dir
                                 /\ blank = Node(Last(mem.path), FALSE, "tmpfs")
    <3>1. /\ Node(Last(mem.path), FALSE, "tmpfs") \in NodeSet
          /\ Node(Last(mem.path), FALSE, "tmpfs").kids = <<>>
          /\ ~Node(Last(mem.path), FALSE, "tmpfs").dir
      BY <1>3 DEF NodeSet, Node
    <3> QED BY <3>1, Zenon
  <2>3. File = [blank EXCEPT !.data = D]
    BY <2>1, <2>2, Zenon DEF File
  <2> QED BY <2>1, <2>2, <2>3 DEF NodeSet
<1> HIDE DEF File
<1>5. Grown(at, File)
  BY <1>1, <1>2, <1>4, MakeGrows DEF Tree
<1> QED BY <1>1, <1>2, <1>4, <1>5 DEF Made

\* A walk stands on a vnode at every step.
LEMMA StepWalks ==
  ASSUME IInv, Next
  PROVE  Walking' /\ (UNCHANGED vfsVars \/ \E d, node : Made(d, node))
<1> USE DEF IInv
<1>1. ASSUME NEW m \in Members, Take(m) PROVE Walking' /\ UNCHANGED vfsVars
  <2>1. /\ mem' = m /\ at' = vfs_root /\ UNCHANGED vfsVars
        /\ rest' = Along(m)
    BY <1>1 DEF Take
  <2>2. Target' = rest' /\ at' \in VnodeIds'
    BY <2>1 DEF Target, Tree, Typed, VnodeIds, vfsVars
  <2>3. PICK T : T = Target'
    OBVIOUS
  <2>4. T \in Seq(STRING) /\ rest' = T
    BY <2>1, <2>2, <2>3, AlongType
  <2>5. From(0)'
    <3>1. T = SubSeq(T, 1, Len(T)) /\ Len(T) \in Nat
      BY <2>4, SubSeqFull
    <3>2. From(0)' <=> 0 \in 0 .. Len(Target') /\ rest' = SubSeq(Target', 0 + 1, Len(Target'))
      BY DEF From
    <3>3. 0 + 1 = 1 /\ 0 \in 0 .. Len(T)
      BY <3>1
    <3> QED BY <2>3, <2>4, <3>1, <3>2, <3>3
  <2> QED BY <2>1, <2>2, <2>5 DEF Walking
<1>2. ASSUME Descend PROVE Walking' /\ UNCHANGED vfsVars
  <2>1. /\ mem # NoMember /\ rest # <<>> /\ Child # NULL /\ at' = Child /\ rest' = Tail(rest)
        /\ mem' = mem /\ UNCHANGED vfsVars
    BY <1>2 DEF Descend
  <2>2. Child \in VnodeIds
    <3>1. at \in VnodeIds
      BY <2>1, WalkFacts
    <3> QED BY <2>1, <3>1, FinddirType DEF Child
  <2>3. at' \in VnodeIds'
    BY <2>1, <2>2, SameTree
  <2> QED BY <2>1, <2>3, NextLevel
<1>3. ASSUME MakeParent PROVE Walking' /\ \E d, node : Made(d, node)
  <2>1. Made(at, Node(Head(rest), TRUE, "tmpfs")) /\ mem # NoMember /\ rest # <<>>
    BY <1>3, ParentMade
  <2>2. at' = NewNode /\ rest' = Tail(rest) /\ mem' = mem
    BY <1>3 DEF MakeParent
  <2>3. at' \in VnodeIds'
    BY <2>1, <2>2 DEF Made, Grown
  <2> QED BY <2>1, <2>2, <2>3, NextLevel
<1>4. ASSUME PlaceFile PROVE Walking' /\ \E d, node : Made(d, node)
  <2>1. Made(at, File)
    BY <1>4, FileMade
  <2> QED BY <1>4, <2>1 DEF PlaceFile, Done, Walking
<1>5. ASSUME LastMissing PROVE Walking' /\ UNCHANGED vfsVars
  <2>1. /\ mem # NoMember /\ Len(rest) = 1 /\ rest' = <<>> /\ at' = at /\ mem' = mem
        /\ UNCHANGED vfsVars
    BY <1>5 DEF LastMissing
  <2>2. PICK k : From(k)
    BY <2>1 DEF Walking
  <2>3. rest # <<>>
    <3>1. Len(<<>>) = 0
      OBVIOUS
    <3> QED BY <2>1, <3>1
  <2>4. Tail(rest) = <<>>
    <3>1. rest \in Seq(STRING)
      <4> DEFINE T == Target
      <4>1. T \in Seq(STRING) /\ k \in Nat /\ rest = SubSeq(T, k + 1, Len(T)) /\ Len(T) \in Nat
        BY <2>1, <2>2, WalkFacts DEF From
      <4> HIDE DEF T
      <4>2. k + 1 \in Int /\ Len(T) \in Int /\ \A i \in (k + 1) .. Len(T) : T[i] \in STRING
        BY <4>1
      <4> QED BY <4>1, <4>2, SubSeqProperties
    <3>2. Tail(rest) \in Seq(STRING) /\ Len(Tail(rest)) = 0
      BY <2>1, <2>3, <3>1, HeadTailProperties
    <3> QED BY <3>2, EmptySeq
  <2>5. at' \in VnodeIds'
    BY <2>1, WalkFacts, SameTree
  <2> QED BY <2>1, <2>3, <2>4, <2>5, NextLevel
<1>6. ASSUME NoParent \/ DirDone \/ NoFile PROVE Walking' /\ UNCHANGED vfsVars
  BY <1>6 DEF NoParent, DirDone, NoFile, Done, Walking
<1> QED BY <1>1, <1>2, <1>3, <1>4, <1>5, <1>6 DEF Next

\* Directories are made only where their name is free.
LEMMA StepTree ==
  ASSUME IInv, Next
  PROVE  Tree' /\ DirsDistinct'
<1>1. CASE UNCHANGED vfsVars
  BY <1>1, SameTree DEF IInv
<1>2. CASE MakeParent
  <2>1. PICK node : node = Node(Head(rest), TRUE, "tmpfs")
    OBVIOUS
  <2>2. /\ Made(at, node)
        /\ \A i \in DOMAIN nodes[at].kids : nodes[nodes[at].kids[i]].name # Head(rest)
    BY <1>2, <2>1, ParentMade DEF IInv
  <2>3. node.name = Head(rest)
    BY <2>1 DEF Node
  <2>4. PICK d : d = at
    OBVIOUS
  <2> QED BY <2>2, <2>3, <2>4, MakeTree DEF IInv, Made
<1>3. CASE PlaceFile
  <2>1. PICK d, node : d = at /\ node = File
    OBVIOUS
  <2>2. Made(d, node) /\ ~node.dir
    BY <1>3, <2>1, FileMade DEF IInv
  <2> QED BY <2>2, MakeTree DEF IInv, Made
<1>4. Next => MakeParent \/ PlaceFile \/ UNCHANGED vfsVars
  BY DEF Next, Take, Descend, NoParent, LastMissing, DirDone, NoFile
<1> QED BY <1>1, <1>2, <1>3, <1>4

\* Every step keeps the invariant, and what it does to the vnodes is to make one or
\* nothing.
LEMMA NextInv ==
  ASSUME IInv, [Next]_vars
  PROVE  IInv' /\ (UNCHANGED vfsVars \/ \E d, node : Made(d, node))
<1>1. CASE Next
  BY <1>1, StepWalks, StepTree DEF IInv
<1>2. CASE UNCHANGED vars
  <2>1. UNCHANGED vfsVars /\ mem' = mem /\ at' = at /\ rest' = rest
    BY <1>2 DEF vars
  <2>2. Tree' /\ DirsDistinct' /\ VnodeIds' = VnodeIds
    BY <2>1, SameTree DEF IInv
  <2>3. Walking'
    BY <2>1, <2>2 DEF IInv, Walking, From, Target
  <2> QED BY <2>1, <2>2, <2>3 DEF IInv
<1> QED BY <1>1, <1>2

\* It holds in every state.
LEMMA InvariantHolds == Spec => []IInv
<1>1. IInv /\ [Next]_vars => IInv'
  BY NextInv
<1> QED BY <1>1, InitInv, PTL DEF Spec
--------------------------------------------------------------------------------
(* The tree is one.                                                             *)
\* What is left of a path after some of its components is a suffix of it.
LEMMA RestIsSuffix ==
  ASSUME NEW T \in Seq(STRING), NEW k \in 0 .. Len(T)
  PROVE  IsSuffix(SubSeq(T, k + 1, Len(T)), T)
<1> DEFINE n == Len(T)
           s == SubSeq(T, k + 1, n)
           R == Reverse(T)
           r == Reverse(s)
<1>1. n \in Nat /\ k \in Nat /\ k <= n
  OBVIOUS
<1>2. \A i \in (k + 1) .. n : T[i] \in STRING
  BY <1>1
<1>3. /\ s \in Seq(STRING) /\ Len(s) = n - k
      /\ \A i \in 1 .. (n - k) : s[i] = T[k + i]
  <2> HIDE DEF n
  <2>1. k + 1 \in Int /\ n \in Int
    BY <1>1
  <2>2. /\ s \in Seq(STRING) /\ Len(s) = IF k + 1 <= n THEN n - (k + 1) + 1 ELSE 0
        /\ \A i \in 1 .. (n - (k + 1) + 1) : s[i] = T[k + 1 + i - 1]
    BY <1>2, <2>1, SubSeqProperties
  <2> HIDE DEF s
  <2>3. n - (k + 1) + 1 = n - k /\ \A i \in 1 .. (n - k) : k + 1 + i - 1 = k + i
    BY <1>1
  <2>4. \A i \in 1 .. (n - k) : s[i] = T[k + i]
    <3> TAKE i \in 1 .. (n - k)
    <3>1. s[i] = T[k + 1 + i - 1]
      BY <2>2, <2>3
    <3>2. k + 1 + i - 1 = k + i
      BY <2>3
    <3> QED BY <3>1, <3>2
  <2> QED BY <1>1, <2>2, <2>4
<1>4. R = [i \in 1 .. n |-> T[(n - i) + 1]]
  BY DEF Reverse
<1>5. r = [i \in 1 .. (n - k) |-> s[(n - k - i) + 1]]
  BY <1>3 DEF Reverse
<1>6. \A i \in 1 .. n : T[(n - i) + 1] \in STRING
  BY <1>1
<1>7. \A i \in 1 .. (n - k) : s[(n - k - i) + 1] = T[(n - i) + 1]
  <2> HIDE DEF s, n
  <2> TAKE i \in 1 .. (n - k)
  <2>1. PICK j : j = (n - k - i) + 1
    OBVIOUS
  <2>2. j \in 1 .. (n - k) /\ k + j = (n - i) + 1
    BY <1>1, <2>1
  <2>3. s[j] = T[k + j]
    BY <1>3, <2>2
  <2> QED BY <2>1, <2>2, <2>3
<1> HIDE DEF R, r, s, n
<1>8. R \in Seq(STRING) /\ Len(R) = n /\ \A i \in 1 .. n : R[i] = T[(n - i) + 1]
  <2>1. R \in [1 .. n -> STRING]
    BY <1>4, <1>6
  <2> QED BY <1>1, <1>4, <2>1
<1>9. r \in Seq(STRING) /\ Len(r) = n - k /\ \A i \in 1 .. (n - k) : r[i] = R[i]
  <2>1. \A i \in 1 .. (n - k) : i \in 1 .. n
    BY <1>1
  <2>2. \A i \in 1 .. (n - k) : r[i] = R[i] /\ r[i] \in STRING
    BY <1>5, <1>6, <1>7, <1>8, <2>1
  <2>3. r \in [1 .. (n - k) -> STRING]
    BY <1>5, <2>2
  <2> QED BY <1>1, <2>2, <2>3
<1>10. SubSeq(r, 1, Len(r)) = r
  BY <1>9, SubSeqFull
<1>11. SubSeq(R, 1, Len(r)) = r
  <2>1. PICK q : q = Len(r)
    OBVIOUS
  <2>2. q = n - k /\ q \in Nat /\ q <= n
    BY <1>1, <1>9, <2>1
  <2>3. 1 \in Int /\ q \in Int /\ \A i \in 1 .. q : R[i] \in STRING
    BY <1>6, <1>8, <2>2
  <2> DEFINE S == SubSeq(R, 1, q)
  <2>4. /\ S \in Seq(STRING) /\ Len(S) = IF 1 <= q THEN q - 1 + 1 ELSE 0
        /\ \A i \in 1 .. (q - 1 + 1) : S[i] = R[1 + i - 1]
    BY <2>3, SubSeqProperties
  <2> HIDE DEF S
  <2>5. Len(S) = q /\ \A i \in 1 .. q : S[i] = r[i]
    <3>1. Len(S) = q /\ q - 1 + 1 = q
      BY <2>2, <2>4
    <3>2. ASSUME NEW i \in 1 .. q PROVE S[i] = r[i]
      <4>1. S[i] = R[1 + i - 1] /\ 1 + i - 1 = i
        BY <2>4, <3>1
      <4> QED BY <1>9, <2>2, <4>1
    <3> QED BY <3>1, <3>2
  <2>6. S = r
    BY <1>9, <2>1, <2>4, <2>5, SeqEqual
  <2> QED BY <2>1, <2>6 DEF S
<1>12. Len(r) <= Len(R)
  BY <1>1, <1>8, <1>9
<1> QED BY <1>10, <1>11, <1>12 DEF IsSuffix, IsPrefix, R, r, s, n

\* The type invariant.
LEMMA TypeInv == IInv => TypeOK
<1> SUFFICES ASSUME IInv PROVE TypeOK
  OBVIOUS
<1>1. Len(nodes) <= MaxNodes
  <2>1. MaxNodes \in Nat
    BY Constants
  <2> QED BY <2>1 DEF IInv, Tree, Typed
<1>2. \A n \in VnodeIds : Kid(n) = {nodes[n].kids[i] : i \in DOMAIN nodes[n].kids}
  BY DEF Kid, Range
<1>3. ASSUME NEW n \in VnodeIds PROVE Kid(n) \subseteq VnodeIds /\ (Kid(n) # {} => nodes[n].dir)
  <2>1. ASSUME NEW e \in Kid(n) PROVE e \in VnodeIds /\ nodes[n].dir
    <3>1. PICK i : Entry(n, i) /\ e = nodes[n].kids[i]
      BY <1>2 DEF Entry
    <3>2. nodes[n].kids # <<>>
      BY <3>1 DEF Entry
    <3> QED BY <3>1, <3>2 DEF IInv, Tree, Linked, Typed
  <2> QED BY <2>1
<1>4. mem \in Members \cup {NoMember}
  BY DEF IInv, Walking
<1>5. IF mem = NoMember THEN at = NULL /\ rest = <<>>
      ELSE at \in VnodeIds /\ IsSuffix(rest, Along(mem))
  <2>1. CASE mem = NoMember
    <3>1. NoMember \notin Members
      BY Constants DEF NoMember
    <3> QED BY <2>1, <3>1 DEF IInv, Walking
  <2>2. CASE mem # NoMember
    <3>1. at \in VnodeIds /\ Target \in Seq(STRING)
      BY <2>2, WalkFacts DEF IInv
    <3>2. PICK k : From(k)
      BY <2>2 DEF IInv, Walking
    <3>3. IsSuffix(rest, Target)
      BY <3>1, <3>2, RestIsSuffix DEF From
    <3> QED BY <2>2, <3>1, <3>3 DEF Target
  <2> QED BY <2>1, <2>2
<1> QED BY <1>1, <1>3, <1>4, <1>5 DEF TypeOK

\* Every vnode the unpacker or boot made has exactly one place in one directory,
\* whatever was refused on the way and whatever the archive holds.
THEOREM EveryVnodePlaced == Spec => []AllPlaced
<1>1. IInv => AllPlaced
  <2> SUFFICES ASSUME IInv PROVE AllPlaced
    OBVIOUS
  <2>1. TypeOK
    BY TypeInv
  <2>2. ASSUME NEW n \in VnodeIds \ {vfs_root}
        PROVE  Cardinality({e \in VnodeIds \X (1 .. MaxKids) :
                   e[2] \in DOMAIN nodes[e[1]].kids /\ nodes[e[1]].kids[e[2]] = n}) = 1
    <3> DEFINE P == {e \in VnodeIds \X (1 .. MaxKids) :
                       e[2] \in DOMAIN nodes[e[1]].kids /\ nodes[e[1]].kids[e[2]] = n}
    <3>1. PICK d, i : Entry(d, i) /\ nodes[d].kids[i] = n
      BY <2>2 DEF IInv, Tree, Typed, Found
    <3>2. d \in VnodeIds /\ i \in DOMAIN nodes[d].kids
      BY <3>1 DEF Entry
    <3>3. i \in 1 .. MaxKids
      <4>1. /\ nodes[d].kids \in Seq(Nat) /\ Len(nodes[d].kids) <= MaxKids /\ MaxKids \in Nat
        BY <3>2, NodeFacts, Constants DEF IInv, Tree, Typed
      <4>2. PICK K : K = nodes[d].kids
        OBVIOUS
      <4>3. i \in 1 .. Len(K) /\ Len(K) \in Nat
        BY <3>2, <4>1, <4>2
      <4> QED BY <4>1, <4>2, <4>3
    <3>4. <<d, i>> \in P
      BY <3>1, <3>2, <3>3
    <3>5. \A e \in P : e = <<d, i>>
      <4> TAKE e \in P
      <4>1. e = <<e[1], e[2]>> /\ e[1] \in VnodeIds /\ e[2] \in DOMAIN nodes[e[1]].kids
            /\ nodes[e[1]].kids[e[2]] = n
        OBVIOUS
      <4>2. Entry(e[1], e[2])
        BY <4>1 DEF Entry
      <4>3. e[1] = d /\ e[2] = i
        BY <3>1, <4>1, <4>2 DEF IInv, Tree, Once
      <4> QED BY <4>1, <4>3
    <3>6. P = {<<d, i>>}
      BY <3>4, <3>5
    <3> QED BY <3>6, FS_Singleton
  <2> QED BY <2>1, <2>2 DEF AllPlaced
<1> QED BY <1>1, InvariantHolds, PTL

\* No directory has two directories of one name, however the archive orders its
\* members and however often one path comes up.
THEOREM DirsStayDistinct == Spec => []DirsDistinct
<1>1. IInv => DirsDistinct
  BY DEF IInv
<1> QED BY <1>1, InvariantHolds, PTL
--------------------------------------------------------------------------------
(* Where paths lead.                                                            *)
\* What split_path has after the component at i, given what it had before.
NextPart(parts, path, i) ==
  IF path[i] = "" \/ Len(parts) = MaxParts THEN parts ELSE Append(parts, path[i])

\* u is what split_path has found after each component of the path.
Splits(u, path) ==
  /\ u[0] = <<>> /\ \A i \in 0 .. Len(path) : u[i] \in Seq(STRING)
  /\ \A i \in 1 .. Len(path) : u[i] = NextPart(u[i - 1], path, i)
  /\ Parts(path) = u[Len(path)]

\* split_path goes through the path component by component.
LEMMA SplitExists ==
  ASSUME NEW path \in Seq(STRING)
  PROVE  \E u : Splits(u, path)
<1> DEFINE n == Len(path)
           S == Seq(STRING)
           Next1(parts, i) == NextPart(parts, path, i)
           Is(u) == u = [i \in 0 .. n |-> IF i = 0 THEN <<>> ELSE Next1(u[i - 1], i)]
           u == CHOOSE u : Is(u)
           g == [x \in S \X (1 .. n) |-> Next1(x[1], x[2])]
<1>1. n \in Nat /\ <<>> \in S
  OBVIOUS
<1>2. \A parts \in S, i \in 1 .. n : Next1(parts, i) \in S
  <2> TAKE parts \in S, i \in 1 .. n
  <2>1. path[i] \in STRING
    OBVIOUS
  <2>2. Append(parts, path[i]) \in S
    BY <2>1
  <2> QED BY <2>2 DEF NextPart
<1>3. Parts(path) = u[n]
  BY DEF Parts, NextPart
<1> HIDE DEF S, Next1, n
<1>4. g \in [S \X (1 .. n) -> S] /\ \A parts \in S, i \in 1 .. n : g[<<parts, i>>] = Next1(parts, i)
  BY <1>2
<1> HIDE DEF g
<1>5. Steps(n, S, <<>>, g)
  BY <1>1, <1>2, <1>4 DEF Steps
<1> PICK f : Run(f, n, S, <<>>, g)
  BY <1>5, Iterated
<1> USE DEF Run
<1>6. Is(f)
  <2>1. \A i \in 0 .. n : f[i] = IF i = 0 THEN <<>> ELSE Next1(f[i - 1], i)
    <3>1. \A i \in 1 .. n : i - 1 \in 0 .. n
      BY <1>1
    <3>2. \A i \in 1 .. n : f[i - 1] \in S
      BY <3>1
    <3>3. ASSUME NEW i \in 0 .. n PROVE f[i] = IF i = 0 THEN <<>> ELSE Next1(f[i - 1], i)
      <4>1. CASE i = 0
        BY <4>1
      <4>2. CASE i # 0
        <5>1. i \in 1 .. n
          BY <1>1, <4>2
        <5> QED BY <1>4, <3>2, <4>2, <5>1
      <4> QED BY <4>1, <4>2
    <3> QED BY <3>3
  <2>2. f = [i \in 0 .. n |-> f[i]]
    OBVIOUS
  <2> QED BY <2>1, <2>2
<1>7. Is(u)
  <2> HIDE DEF Is
  <2> QED BY <1>6
<1> HIDE DEF u
<1>8. \A i \in 0 .. n : u[i] = IF i = 0 THEN <<>> ELSE Next1(u[i - 1], i)
  BY <1>7
<1> HIDE DEF Is
<1> DEFINE T == {i \in 0 .. n : u[i] \in S}
<1>9. 0 \in T /\ \A i \in 1 .. n : i - 1 \in T => i \in T
  <2>1. 0 \in T
    BY <1>1, <1>8
  <2>2. ASSUME NEW i \in 1 .. n, i - 1 \in T PROVE i \in T
    <3>1. u[i] = Next1(u[i - 1], i) /\ i \in 0 .. n
      BY <1>1, <1>8
    <3> QED BY <1>2, <2>2, <3>1
  <2> QED BY <2>1, <2>2
<1>10. \A i \in 0 .. n : u[i] \in S
  <2> HIDE DEF T
  <2>1. \A i \in 0 .. n : i \in T
    BY <1>1, <1>9, UpTo
  <2> QED BY <2>1 DEF T
<1>11. u[0] = <<>> /\ \A i \in 1 .. n : u[i] = Next1(u[i - 1], i)
  BY <1>1, <1>8
<1> QED BY <1>3, <1>10, <1>11 DEF Splits, S, n, Next1

\* A path's components are names.
LEMMA PartsType ==
  ASSUME NEW path \in Seq(STRING)
  PROVE  Parts(path) \in Seq(STRING)
<1>1. PICK u : Splits(u, path)
  BY SplitExists
<1>2. Len(path) \in 0 .. Len(path)
  OBVIOUS
<1> QED BY <1>1, <1>2 DEF Splits

\* One round of the walk leads to a vnode or to none.
Ids == VnodeIds \cup {NULL}
LEMMA HopType ==
  ASSUME Tree, NEW d \in Ids, NEW name
  PROVE  Hop(d, name) \in Ids
<1>1. CASE d = NULL \/ ~nodes[d].dir \/ Finddir(d, name) = NULL
  BY <1>1 DEF Hop, Ids, Follow
<1>2. CASE ~(d = NULL \/ ~nodes[d].dir \/ Finddir(d, name) = NULL)
  <2>1. d \in VnodeIds
    BY <1>2 DEF Ids
  <2>2. Finddir(d, name) \in VnodeIds
    BY <1>2, <2>1, FinddirType
  <2>3. nodes[Finddir(d, name)].mount = NULL
    BY <2>2, NodeFacts DEF Tree
  <2> QED BY <1>2, <2>2, <2>3 DEF Hop, Follow, Ids
<1> QED BY <1>1, <1>2

\* w is where vfs_resolve stands after each component of the path.
Walks(w, path) ==
  /\ w[0] = vfs_root /\ \A i \in 0 .. Len(Parts(path)) : w[i] \in Ids
  /\ \A i \in 1 .. Len(Parts(path)) : w[i] = Hop(w[i - 1], Parts(path)[i])
  /\ Resolve(path) = w[Len(Parts(path))]

\* It stands on a vnode, or on none, at every component.
LEMMA WalkExists ==
  ASSUME Tree, NEW path \in Seq(STRING)
  PROVE  \E w : Walks(w, path)
<1> DEFINE p == Parts(path)
           n == Len(p)
           Is(u) == u = [i \in 0 .. n |-> IF i = 0 THEN vfs_root ELSE Hop(u[i - 1], p[i])]
           u == CHOOSE u : Is(u)
           g == [x \in Ids \X (1 .. n) |-> Hop(x[1], p[x[2]])]
<1>1. n \in Nat /\ vfs_root \in Ids
  BY PartsType DEF Tree, Typed, VnodeIds, Ids
<1>2. \A d \in Ids, i \in 1 .. n : Hop(d, p[i]) \in Ids
  BY HopType
<1>3. Resolve(path) = u[n]
  BY DEF Resolve
<1> HIDE DEF n, p
<1>4. \A d \in Ids, i \in 1 .. n : g[<<d, i>>] = Hop(d, p[i])
  OBVIOUS
<1> HIDE DEF g
<1>5. Steps(n, Ids, vfs_root, g)
  BY <1>1, <1>2, <1>4 DEF Steps
<1> PICK f : Run(f, n, Ids, vfs_root, g)
  BY <1>5, Iterated
<1> USE DEF Run
<1>6. Is(f)
  <2>1. \A i \in 0 .. n : f[i] = IF i = 0 THEN vfs_root ELSE Hop(f[i - 1], p[i])
    <3>1. \A i \in 1 .. n : i - 1 \in 0 .. n
      BY <1>1
    <3>2. \A i \in 1 .. n : f[i - 1] \in Ids
      BY <3>1
    <3>3. ASSUME NEW i \in 0 .. n PROVE f[i] = IF i = 0 THEN vfs_root ELSE Hop(f[i - 1], p[i])
      <4>1. CASE i = 0
        BY <4>1
      <4>2. CASE i # 0
        <5>1. i \in 1 .. n
          BY <1>1, <4>2
        <5> QED BY <1>4, <3>2, <4>2, <5>1
      <4> QED BY <4>1, <4>2
    <3> QED BY <3>3
  <2>2. f = [i \in 0 .. n |-> f[i]]
    OBVIOUS
  <2> QED BY <2>1, <2>2
<1>7. Is(u)
  <2> HIDE DEF Is
  <2> QED BY <1>6
<1> HIDE DEF u
<1>8. \A i \in 0 .. n : u[i] = IF i = 0 THEN vfs_root ELSE Hop(u[i - 1], p[i])
  BY <1>7
<1> HIDE DEF Is
<1> DEFINE T == {i \in 0 .. n : u[i] \in Ids}
<1>9. 0 \in T /\ \A i \in 1 .. n : i - 1 \in T => i \in T
  <2>1. 0 \in T
    BY <1>1, <1>8
  <2>2. ASSUME NEW i \in 1 .. n, i - 1 \in T PROVE i \in T
    <3>1. u[i] = Hop(u[i - 1], p[i]) /\ i \in 0 .. n
      BY <1>1, <1>8
    <3> QED BY <1>2, <2>2, <3>1
  <2> QED BY <2>1, <2>2
<1>10. \A i \in 0 .. n : u[i] \in Ids
  <2> HIDE DEF T
  <2>1. \A i \in 0 .. n : i \in T
    BY <1>1, <1>9, UpTo
  <2> QED BY <2>1 DEF T
<1>11. u[0] = vfs_root /\ \A i \in 1 .. n : u[i] = Hop(u[i - 1], p[i])
  BY <1>1, <1>8
<1> QED BY <1>3, <1>10, <1>11 DEF Walks, n, p

\* A path resolves to a vnode or to none, however long it is.
LEMMA ResolveType ==
  ASSUME Tree, NEW path \in Seq(STRING)
  PROVE  Resolve(path) \in Ids
<1>1. PICK w : Walks(w, path)
  BY WalkExists
<1>2. Len(Parts(path)) \in 0 .. Len(Parts(path))
  BY PartsType
<1> QED BY <1>1, <1>2 DEF Walks

\* The walk exists in the next state as well.
LEMMA WalkNext == \A path \in Seq(STRING) : Tree' => \E w : Walks(w, path)'
<1>1. \A path \in Seq(STRING) : Tree => \E w : Walks(w, path)
  BY WalkExists
<1>2. (\A path \in Seq(STRING) : Tree => \E w : Walks(w, path))'
  BY <1>1, PTL
<1> QED BY <1>2

\* And what a look into a directory finds in the next state, too, is the first
\* entry of that name.
LEMMA FinddirNext ==
  \A d, name : Tree' /\ d \in VnodeIds' =>
    LET K == nodes'[d].kids
    IN  IF \E i \in DOMAIN K : nodes'[K[i]].name = name
        THEN \E i \in DOMAIN K : /\ Finddir(d, name)' = K[i] /\ nodes'[K[i]].name = name
                                 /\ \A j \in DOMAIN K : nodes'[K[j]].name = name => i <= j
        ELSE Finddir(d, name)' = NULL
<1> DEFINE F(d, name) == Tree /\ d \in VnodeIds =>
      LET K == nodes[d].kids
      IN  IF \E i \in DOMAIN K : nodes[K[i]].name = name
          THEN \E i \in DOMAIN K : /\ Finddir(d, name) = K[i] /\ nodes[K[i]].name = name
                                   /\ \A j \in DOMAIN K : nodes[K[j]].name = name => i <= j
          ELSE Finddir(d, name) = NULL
<1>1. \A d, name : F(d, name)
  BY FinddirFacts
<1>2. (\A d, name : F(d, name))'
  BY <1>1, PTL
<1> QED BY <1>2 DEF NULL
--------------------------------------------------------------------------------
(* What a new entry hides: nothing.                                             *)
\* The first child of a name stays the first: a new entry comes after it.
LEMMA FinddirStays ==
  ASSUME Tree, Tree', NEW p, NEW node, Made(p, node), NEW d \in VnodeIds, NEW name,
         Finddir(d, name) # NULL
  PROVE  Finddir(d, name)' = Finddir(d, name)
<1> DEFINE K == nodes[d].kids
           L == nodes'[d].kids
<1>1. K \in Seq(Nat)
  BY NodeFacts DEF Tree
<1>2. PICK i \in DOMAIN K : /\ Finddir(d, name) = K[i] /\ nodes[K[i]].name = name
                            /\ \A j \in DOMAIN K : nodes[K[j]].name = name => i <= j
  BY FinddirFacts
<1>3. d \in VnodeIds' /\ NewNode \in Nat
  BY DEF Made, Grown
<1>4. L = K \/ L = Append(K, NewNode)
  BY DEF Made, Grown
<1>5. \A j \in DOMAIN K : K[j] \in VnodeIds
  BY DEF Tree, Linked, Entry
<1>6. \A n \in VnodeIds : nodes'[n].name = nodes[n].name
  BY DEF Made, Grown, Same
<1>7. IF \E j \in DOMAIN L : nodes'[L[j]].name = name
      THEN \E j \in DOMAIN L : /\ Finddir(d, name)' = L[j] /\ nodes'[L[j]].name = name
                               /\ \A h \in DOMAIN L : nodes'[L[h]].name = name => j <= h
      ELSE Finddir(d, name)' = NULL
  BY <1>3, FinddirNext
<1> HIDE DEF K, L
<1>8. /\ DOMAIN K = 1 .. Len(K) /\ Len(K) \in Nat /\ DOMAIN L \subseteq Nat \ {0}
      /\ DOMAIN K \subseteq DOMAIN L /\ \A j \in DOMAIN K : L[j] = K[j]
  BY <1>1, <1>3, <1>4
<1>9. \A j \in DOMAIN K : nodes'[L[j]].name = nodes[K[j]].name
  BY <1>5, <1>6, <1>8
<1>10. PICK j \in DOMAIN L : /\ Finddir(d, name)' = L[j] /\ nodes'[L[j]].name = name
                             /\ \A h \in DOMAIN L : nodes'[L[h]].name = name => j <= h
  BY <1>2, <1>7, <1>8, <1>9
<1>11. j <= i /\ j \in DOMAIN K
  BY <1>2, <1>8, <1>9, <1>10
<1>12. i <= j
  BY <1>2, <1>9, <1>10, <1>11
<1>13. i = j
  BY <1>8, <1>11, <1>12
<1> QED BY <1>2, <1>8, <1>10, <1>13

\* Neither does a round of the walk lead elsewhere.
LEMMA HopStays ==
  ASSUME Tree, Tree', NEW p, NEW node, Made(p, node), NEW d \in Ids, NEW name,
         Hop(d, name) # NULL
  PROVE  d # NULL /\ Hop(d, name)' = Hop(d, name)
<1>1. d # NULL /\ nodes[d].dir /\ Hop(d, name) = Follow(Finddir(d, name))
  BY DEF Hop
<1>2. d \in VnodeIds
  BY <1>1 DEF Ids
<1>3. Finddir(d, name) # NULL
  BY <1>1 DEF Follow
<1>4. Finddir(d, name)' = Finddir(d, name)
  BY <1>2, <1>3, FinddirStays
<1>5. Finddir(d, name) \in VnodeIds
  BY <1>2, <1>3, FinddirType
<1>6. nodes'[d].dir /\ nodes'[Finddir(d, name)].mount = nodes[Finddir(d, name)].mount
  BY <1>1, <1>2, <1>5 DEF Made, Grown, Same
<1>7. Hop(d, name)' = Follow(Finddir(d, name))'
  BY <1>1, <1>6 DEF Hop, NULL
<1>8. Follow(Finddir(d, name))' = Follow(Finddir(d, name))
  BY <1>4, <1>6 DEF Follow, NULL
<1> QED BY <1>1, <1>7, <1>8

\* A path that resolves still resolves to the same vnode.
LEMMA ResolveStays ==
  ASSUME Tree, Tree', NEW d, NEW node, Made(d, node), NEW path \in Seq(STRING),
         Resolve(path) # NULL
  PROVE  Resolve(path)' = Resolve(path)
<1> DEFINE p == Parts(path)
           n == Len(p)
<1>1. n \in Nat
  BY PartsType
<1>2. PICK w : Walks(w, path)
  BY WalkExists
<1>3. PICK v : Walks(v, path)'
  BY WalkNext
<1>4. /\ w[0] = vfs_root /\ \A i \in 0 .. n : w[i] \in Ids
      /\ \A i \in 1 .. n : w[i] = Hop(w[i - 1], p[i])
      /\ Resolve(path) = w[n]
  BY <1>2 DEF Walks
<1>5. /\ v[0] = vfs_root' /\ \A i \in 1 .. n : v[i] = Hop(v[i - 1], p[i])'
      /\ Resolve(path)' = v[n]
  BY <1>3 DEF Walks
<1> HIDE DEF n, p
<1> DEFINE T == {i \in 0 .. n : w[i] # NULL => v[i] = w[i]}
<1>6. 0 \in T
  BY <1>1, <1>4, <1>5 DEF Made
<1>7. ASSUME NEW i \in 1 .. n, i - 1 \in T PROVE i \in T
  <2>1. i \in 0 .. n /\ i - 1 \in 0 .. n
    BY <1>1
  <2> SUFFICES ASSUME w[i] # NULL PROVE v[i] = w[i]
    BY <2>1
  <2>2. w[i - 1] \in Ids /\ w[i] = Hop(w[i - 1], p[i])
    BY <1>4, <2>1
  <2>3. w[i - 1] # NULL /\ Hop(w[i - 1], p[i])' = Hop(w[i - 1], p[i])
    BY <2>2, HopStays
  <2>4. v[i - 1] = w[i - 1]
    BY <1>7, <2>3
  <2> QED BY <1>5, <2>2, <2>3, <2>4
<1>8. n \in T
  <2> HIDE DEF T
  <2>1. \A i \in 0 .. n : i \in T
    BY <1>1, <1>6, <1>7, UpTo
  <2> QED BY <1>1, <2>1
<1> QED BY <1>4, <1>5, <1>8

\* A step that makes nothing changes no path.
LEMMA ResolveSame == ASSUME UNCHANGED vfsVars, NEW path PROVE Resolve(path)' = Resolve(path)
BY DEF vfsVars, Resolve, Hop, Finddir, Kids, Follow, NULL

\* Whatever a later member does, a path that led to a vnode leads to it still, and
\* the bytes there are the same.
THEOREM EarlierMembersKept == Spec => KeepsEarlier
<1> DEFINE Act == \A p \in Paths : Resolve(p) # NULL =>
        Resolve(p)' = Resolve(p) /\ nodes'[Resolve(p)].data = nodes[Resolve(p)].data
<1>1. IInv /\ [Next]_vars => [Act]_vars
  <2> SUFFICES ASSUME IInv, [Next]_vars, NEW p \in Paths, Resolve(p) # NULL
               PROVE  Resolve(p)' = Resolve(p) /\ nodes'[Resolve(p)].data = nodes[Resolve(p)].data
    OBVIOUS
  <2>1. IInv' /\ (UNCHANGED vfsVars \/ \E d, node : Made(d, node))
    BY NextInv
  <2>2. p \in Seq(STRING)
    BY Constants DEF Paths
  <2>3. CASE UNCHANGED vfsVars
    BY <2>3, ResolveSame DEF vfsVars
  <2>4. CASE \E d, node : Made(d, node)
    <3>1. PICK d, node : Made(d, node)
      BY <2>4
    <3>2. Resolve(p)' = Resolve(p)
      BY <2>1, <2>2, <3>1, ResolveStays DEF IInv
    <3>3. Resolve(p) \in VnodeIds
      BY <2>2, ResolveType DEF IInv, Ids
    <3> QED BY <3>1, <3>2, <3>3 DEF Made, Grown, Same
  <2> QED BY <2>1, <2>3, <2>4
<1> QED BY <1>1, InvariantHolds, PTL DEF Spec, KeepsEarlier
--------------------------------------------------------------------------------
(* Where a file lands.                                                          *)
\* A path that vfs_resolve looks at as it stands.
Plain(path) == Len(path) <= MaxParts /\ \A i \in DOMAIN path : path[i] # ""

\* Its components are those that were written.
LEMMA PlainParts ==
  ASSUME NEW path \in Seq(STRING), Plain(path)
  PROVE  Parts(path) = path
<1> DEFINE n == Len(path)
<1>1. n \in Nat /\ n <= MaxParts /\ MaxParts \in Nat
  <2>1. n <= MaxParts
    BY Zenon DEF Plain
  <2> QED BY <2>1, Constants
<1>2. PICK u : Splits(u, path)
  BY SplitExists
<1>3. /\ u[0] = <<>> /\ \A i \in 0 .. n : u[i] \in Seq(STRING)
      /\ \A i \in 1 .. n : u[i] = NextPart(u[i - 1], path, i)
      /\ Parts(path) = u[n]
  BY <1>2 DEF Splits
<1>4. \A i \in 1 .. n : path[i] # ""
  <2>1. DOMAIN path = 1 .. n
    OBVIOUS
  <2> QED BY <2>1, Zenon DEF Plain
<1>5. \A i \in 1 .. n : path[i] \in STRING
  OBVIOUS
<1> HIDE DEF n
<1> DEFINE T == {i \in 0 .. n : Len(u[i]) = i /\ \A j \in 1 .. i : u[i][j] = path[j]}
<1>6. 0 \in T
  <2>1. Len(<<>>) = 0
    OBVIOUS
  <2> QED BY <1>1, <1>3, <2>1
<1>7. ASSUME NEW i \in 1 .. n, i - 1 \in T PROVE i \in T
  <2>1. PICK h : h = i - 1
    OBVIOUS
  <2>2. /\ i \in Nat /\ h \in Nat /\ i = h + 1 /\ i \in 0 .. n /\ h \in 0 .. n /\ h < MaxParts
        /\ Len(u[h]) = h /\ \A j \in 1 .. h : u[h][j] = path[j]
    BY <1>1, <1>7, <2>1
  <2>3. u[i] = Append(u[h], path[i])
    <3>1. Len(u[h]) # MaxParts
      BY <1>1, <2>2
    <3>2. u[i] = NextPart(u[h], path, i)
      BY <1>3, <2>1
    <3>3. path[i] # ""
      BY <1>4, Zenon
    <3> QED BY <3>1, <3>2, <3>3, Zenon DEF NextPart
  <2>4. PICK s : s = u[h]
    OBVIOUS
  <2>5. s \in Seq(STRING) /\ path[i] \in STRING
    BY <1>3, <1>5, <2>2, <2>4
  <2>6. Len(u[i]) = h + 1 /\ u[i][h + 1] = path[i] /\ \A j \in 1 .. h : u[i][j] = s[j]
    BY <2>2, <2>3, <2>4, <2>5
  <2>7. \A j \in 1 .. i : u[i][j] = path[j]
    <3> TAKE j \in 1 .. i
    <3>1. CASE j = h + 1
      BY <2>2, <2>6, <3>1
    <3>2. CASE j # h + 1
      <4>1. j \in 1 .. h
        BY <2>2, <3>2
      <4> QED BY <2>2, <2>4, <2>6, <4>1
    <3> QED BY <3>1, <3>2
  <2> QED BY <2>2, <2>6, <2>7
<1>8. n \in T
  <2> HIDE DEF T
  <2>1. \A i \in 0 .. n : i \in T
    BY <1>1, <1>6, <1>7, UpTo
  <2> QED BY <1>1, <2>1
<1>9. PICK s : s = u[n]
  OBVIOUS
<1>10. s \in Seq(STRING) /\ Len(s) = n /\ \A j \in 1 .. n : s[j] = path[j]
  BY <1>1, <1>3, <1>8, <1>9
<1>11. s = path
  BY <1>10, SeqEqual DEF n
<1> QED BY <1>3, <1>9, <1>11

\* The first components of such a path are one, too.
Upto(path, k) == SubSeq(path, 1, k)
LEMMA PlainUpto ==
  ASSUME NEW path \in Seq(STRING), Plain(path), NEW k \in 0 .. Len(path)
  PROVE  /\ Upto(path, k) \in Seq(STRING) /\ Len(Upto(path, k)) = k
         /\ \A i \in 1 .. k : Upto(path, k)[i] = path[i]
         /\ Parts(Upto(path, k)) = Upto(path, k)
<1> DEFINE q == Upto(path, k)
<1>1. k \in Nat /\ Len(path) \in Nat /\ k <= Len(path) /\ \A i \in 1 .. k : path[i] \in STRING
  OBVIOUS
<1>2. /\ q \in Seq(STRING) /\ Len(q) = IF 1 <= k THEN k - 1 + 1 ELSE 0
      /\ \A i \in 1 .. (k - 1 + 1) : q[i] = path[1 + i - 1]
  <2>1. 1 \in Int /\ k \in Int
    BY <1>1
  <2> QED BY <1>1, <2>1, SubSeqProperties DEF Upto
<1> HIDE DEF q
<1>3. Len(q) = k /\ \A i \in 1 .. k : q[i] = path[i]
  <2>1. Len(q) = k /\ k - 1 + 1 = k
    BY <1>1, <1>2
  <2>2. ASSUME NEW i \in 1 .. k PROVE q[i] = path[i]
    <3>1. q[i] = path[1 + i - 1] /\ 1 + i - 1 = i
      BY <1>2, <2>1
    <3> QED BY <3>1
  <2> QED BY <2>1, <2>2
<1>4. Plain(q)
  <2>1. Len(q) <= MaxParts
    <3>1. Len(path) <= MaxParts /\ MaxParts \in Nat
      BY Constants, Zenon DEF Plain
    <3> QED BY <1>1, <1>3, <3>1
  <2>2. DOMAIN q = 1 .. k /\ \A i \in 1 .. k : i \in DOMAIN path
    BY <1>1, <1>2, <1>3
  <2>3. \A i \in 1 .. k : path[i] # ""
    BY <2>2, Zenon DEF Plain
  <2> QED BY <1>3, <2>1, <2>2, <2>3, Zenon DEF Plain
<1> QED BY <1>2, <1>3, <1>4, PlainParts DEF q

\* Each component leads one round further.
LEMMA ResolveStep ==
  ASSUME Tree, NEW path \in Seq(STRING), Plain(path)
  PROVE  /\ Resolve(Upto(path, 0)) = vfs_root
         /\ \A k \in 1 .. Len(path) :
              Resolve(Upto(path, k)) = Hop(Resolve(Upto(path, k - 1)), path[k])
<1>1. \A k \in 0 .. Len(path) :
        /\ Upto(path, k) \in Seq(STRING) /\ Len(Upto(path, k)) = k
        /\ \A i \in 1 .. k : Upto(path, k)[i] = path[i]
        /\ Parts(Upto(path, k)) = Upto(path, k)
  BY PlainUpto
<1>2. \A k \in 0 .. Len(path) : \E w :
        /\ w[0] = vfs_root /\ \A i \in 1 .. k : w[i] = Hop(w[i - 1], path[i])
        /\ Resolve(Upto(path, k)) = w[k]
  <2> TAKE k \in 0 .. Len(path)
  <2>1. PICK w : Walks(w, Upto(path, k))
    BY <1>1, WalkExists
  <2>2. /\ w[0] = vfs_root /\ Resolve(Upto(path, k)) = w[k]
        /\ \A i \in 1 .. k : w[i] = Hop(w[i - 1], Upto(path, k)[i])
    BY <1>1, <2>1 DEF Walks
  <2>3. \A i \in 1 .. k : w[i] = Hop(w[i - 1], path[i])
    BY <1>1, <2>2
  <2> QED BY <2>2, <2>3
<1>3. Len(path) \in Nat /\ 0 \in 0 .. Len(path)
  OBVIOUS
<1>4. Resolve(Upto(path, 0)) = vfs_root
  BY <1>2, <1>3
<1>5. ASSUME NEW k \in 1 .. Len(path)
      PROVE  Resolve(Upto(path, k)) = Hop(Resolve(Upto(path, k - 1)), path[k])
  <2>1. PICK n : n = k - 1
    OBVIOUS
  <2>2. n \in Nat /\ n \in 0 .. Len(path) /\ k \in 0 .. Len(path) /\ k = n + 1
    BY <1>3, <2>1
  <2>3. PICK w : /\ w[0] = vfs_root /\ \A i \in 1 .. k : w[i] = Hop(w[i - 1], path[i])
                 /\ Resolve(Upto(path, k)) = w[k]
    BY <1>2, <2>2
  <2>4. PICK v : /\ v[0] = vfs_root /\ \A i \in 1 .. n : v[i] = Hop(v[i - 1], path[i])
                 /\ Resolve(Upto(path, n)) = v[n]
    BY <1>2, <2>2
  <2> DEFINE T == {i \in 0 .. n : v[i] = w[i]}
  <2>5. 0 \in T
    BY <2>2, <2>3, <2>4
  <2>6. ASSUME NEW i \in 1 .. n, i - 1 \in T PROVE i \in T
    <3>1. i \in 0 .. n /\ i \in 1 .. k /\ v[i - 1] = w[i - 1]
      BY <2>2, <2>6
    <3> QED BY <2>3, <2>4, <3>1
  <2>7. v[n] = w[n]
    <3> HIDE DEF T
    <3>1. \A i \in 0 .. n : i \in T
      BY <2>2, <2>5, <2>6, UpTo
    <3>2. n \in T
      BY <2>2, <3>1
    <3> QED BY <3>2 DEF T
  <2>8. w[k] = Hop(w[n], path[k])
    BY <2>1, <2>2, <2>3
  <2> QED BY <2>1, <2>3, <2>4, <2>7, <2>8
<1> QED BY <1>4, <1>5

\* The same of the next state.
LEMMA ResolveStepNext ==
  \A path \in Seq(STRING) : Tree' /\ Plain(path) =>
    \A k \in 1 .. Len(path) :
      Resolve(Upto(path, k))' = Hop(Resolve(Upto(path, k - 1)), path[k])'
<1> DEFINE F(path) == Tree /\ Plain(path) =>
      \A k \in 1 .. Len(path) : Resolve(Upto(path, k)) = Hop(Resolve(Upto(path, k - 1)), path[k])
<1>1. \A path \in Seq(STRING) : F(path)
  BY ResolveStep
<1>2. (\A path \in Seq(STRING) : F(path))'
  BY <1>1, PTL
<1> QED BY <1>2 DEF Plain, Upto

\* Without mounts a round is a look into a directory; a file has no entries.
LEMMA HopIsFinddir ==
  ASSUME Tree, NEW d \in VnodeIds, NEW name
  PROVE  Hop(d, name) = Finddir(d, name)
<1>1. d # NULL /\ nodes[d].kids \in Seq(Nat)
  BY NodeFacts DEF NULL, Tree
<1>2. CASE ~nodes[d].dir
  <2>1. nodes[d].kids = <<>> /\ DOMAIN <<>> = {}
    BY <1>2 DEF Tree, Typed
  <2>2. Finddir(d, name) = NULL
    BY <2>1, FinddirFacts
  <2> QED BY <1>1, <1>2, <2>2 DEF Hop
<1>3. CASE nodes[d].dir
  <2>1. Finddir(d, name) # NULL => nodes[Finddir(d, name)].mount = NULL
    <3>1. Finddir(d, name) # NULL => Finddir(d, name) \in VnodeIds
      BY FinddirType
    <3> QED BY <3>1, NodeFacts DEF Tree
  <2> QED BY <1>1, <1>3, <2>1 DEF Hop, Follow
<1> QED BY <1>2, <1>3

\* The directory just made is found under its name, which nothing there had.
LEMMA NewEntryFound ==
  ASSUME Tree, Tree', NEW d, NEW node, Made(d, node),
         \A i \in DOMAIN nodes[d].kids : nodes[nodes[d].kids[i]].name # node.name
  PROVE  Hop(d, node.name)' = NewNode
<1> DEFINE K == nodes[d].kids
           L == nodes'[d].kids
<1>1. /\ d \in VnodeIds /\ d \in VnodeIds' /\ L = Append(K, NewNode) /\ NewNode \in Nat \ {0, 1}
      /\ NewNode \in VnodeIds' /\ nodes'[NewNode] = node /\ nodes[d].dir /\ nodes'[d].dir
      /\ node.mount = NULL /\ d # NULL /\ node.name \in Names
  <2>1. node.mount = NULL /\ node.name \in Names
    BY DEF Made, NodeSet
  <2>2. d # NULL /\ nodes[d].dir
    BY DEF Made, CanMake, IsTmpDir, IsDir
  <2> QED BY <2>1, <2>2 DEF Made, Grown, Same
<1>2. K \in Seq(Nat) /\ \A j \in DOMAIN K : K[j] \in VnodeIds
  BY <1>1, NodeFacts DEF Tree, Linked, Entry
<1>3. \A n \in VnodeIds : nodes'[n].name = nodes[n].name
  BY DEF Made, Grown, Same
<1> PICK name : name = node.name
  OBVIOUS
<1>4. IF \E j \in DOMAIN L : nodes'[L[j]].name = name
      THEN \E j \in DOMAIN L : /\ Finddir(d, name)' = L[j] /\ nodes'[L[j]].name = name
                               /\ \A h \in DOMAIN L : nodes'[L[h]].name = name => j <= h
      ELSE Finddir(d, name)' = NULL
  <2>1. d \in VnodeIds'
    BY <1>1
  <2> QED BY <2>1, FinddirNext
<1>5. \A j \in DOMAIN K : nodes[K[j]].name # name
  OBVIOUS
<1> HIDE DEF K, L
<1>6. /\ DOMAIN L = DOMAIN K \cup {Len(K) + 1} /\ L[Len(K) + 1] = NewNode
      /\ \A j \in DOMAIN K : L[j] = K[j]
  BY <1>1, <1>2
<1>7. \A j \in DOMAIN L : nodes'[L[j]].name = name => L[j] = NewNode
  BY <1>2, <1>3, <1>5, <1>6
<1>8. Finddir(d, name)' = NewNode
  BY <1>1, <1>4, <1>6, <1>7
<1>9. Hop(d, name)' = Follow(Finddir(d, name))'
  BY <1>1 DEF Hop, NULL
<1>10. Follow(Finddir(d, name))' = NewNode
  BY <1>1, <1>8 DEF Follow, NULL
<1> QED BY <1>9, <1>10

\* What mkpath has to do with the path: it stands where the components it has passed
\* lead, or, when only the last one is missing, one above.
Reached ==
  mem # NoMember =>
    \/ \E k : From(k) /\ at = Resolve(Upto(Target, k))
    \/ /\ rest = <<>> /\ Target # <<>>
       /\ Resolve(Target) = NULL /\ at = Resolve(Front(Target))

\* The paths of the archive can be walked component by component.
LEMMA TargetPlain ==
  ASSUME Walking, mem # NoMember
  PROVE  Plain(Target)
<1>1. mem \in Members /\ mem.path \in Seq(STRING) /\ mem.path # <<>>
  BY WalkFacts
<1>2. Plain(mem.path)
  BY <1>1, PlainPaths, Zenon DEF PlainPaths, Plain
<1>3. CASE mem.dir
  BY <1>2, <1>3 DEF Target, Along
<1>4. CASE ~mem.dir /\ Front(mem.path) \notin LongDirs
  <2> DEFINE p == mem.path
  <2>1. p \in Seq(STRING) /\ Plain(p) /\ Len(p) \in Nat \ {0}
    BY <1>1, <1>2, EmptySeq
  <2>2. Target = Upto(p, Len(p) - 1)
    BY <1>4 DEF Target, Along, Front, Upto
  <2> HIDE DEF p
  <2> DEFINE q == Target
  <2>3. q \in Seq(STRING) /\ Len(q) = Len(p) - 1 /\ \A i \in 1 .. (Len(p) - 1) : q[i] = p[i]
    <3>1. Len(p) - 1 \in 0 .. Len(p)
      BY <2>1
    <3> QED BY <2>1, <2>2, <3>1, PlainUpto
  <2> HIDE DEF q
  <2>4. Len(q) <= MaxParts
    <3>1. Len(p) <= MaxParts /\ MaxParts \in Nat
      BY <2>1, Constants, Zenon DEF Plain
    <3> QED BY <2>1, <2>3, <3>1
  <2>5. DOMAIN q = 1 .. (Len(p) - 1) /\ \A i \in 1 .. (Len(p) - 1) : i \in DOMAIN p
    BY <2>1, <2>3
  <2>6. \A i \in 1 .. (Len(p) - 1) : p[i] # ""
    BY <2>1, <2>5, Zenon DEF Plain
  <2>7. Plain(q)
    BY <2>3, <2>4, <2>5, <2>6, Zenon DEF Plain
  <2> QED BY <2>7 DEF q
<1>5. CASE ~mem.dir /\ Front(mem.path) \in LongDirs
  <2>1. Target = <<>>
    BY <1>5 DEF Target, Along
  <2>2. 0 <= MaxParts /\ Len(<<>>) = 0 /\ DOMAIN <<>> = {}
    BY Constants
  <2> QED BY <2>1, <2>2 DEF Plain
<1> QED BY <1>3, <1>4, <1>5

\* The walk as it goes on.
LEMMA StepReaches ==
  ASSUME IInv, IInv', Reached, Next
  PROVE  Reached'
<1> SUFFICES ASSUME mem' # NoMember PROVE Reached'
  BY DEF Reached, NoMember
<1>1. ASSUME NEW m \in Members, Take(m) PROVE Reached'
  <2>1. at' = vfs_root /\ UNCHANGED vfsVars /\ mem' = m /\ rest' = Target'
    BY <1>1 DEF Take, Target
  <2>2. PICK T : T = Target'
    OBVIOUS
  <2>3. T \in Seq(STRING)
    BY <2>1, <2>2, AlongType DEF Target
  <2>4. From(0)'
    <3>1. T = SubSeq(T, 1, Len(T)) /\ Len(T) \in Nat
      BY <2>3, SubSeqFull
    <3>2. From(0)' <=> 0 \in 0 .. Len(Target') /\ rest' = SubSeq(Target', 0 + 1, Len(Target'))
      BY DEF From
    <3>3. 0 + 1 = 1 /\ 0 \in 0 .. Len(T)
      BY <3>1
    <3> QED BY <2>1, <2>2, <3>1, <3>2, <3>3
  <2>5. Resolve(Upto(T, 0)) = vfs_root
    <3>1. Upto(T, 0) = <<>>
      BY <2>3, SubSeqEmpty DEF Upto
    <3>2. PICK E : E \in Seq(STRING) /\ E = <<>> /\ Len(E) = 0
      <4>1. <<>> \in Seq(STRING) /\ Len(<<>>) = 0
        BY EmptySeq
      <4> QED BY <4>1
    <3>3. Plain(E)
      <4>1. 0 <= MaxParts /\ DOMAIN E = {}
        BY <3>2, Constants
      <4> QED BY <3>2, <4>1, Zenon DEF Plain
    <3>4. Resolve(Upto(E, 0)) = vfs_root
      BY <3>2, <3>3, ResolveStep DEF IInv
    <3>5. Upto(E, 0) = <<>>
      BY <3>2, SubSeqEmpty DEF Upto
    <3> QED BY <3>1, <3>4, <3>5
  <2>6. Resolve(Upto(T, 0))' = Resolve(Upto(T, 0))
    <3>1. PICK q : q = Upto(T, 0)
      OBVIOUS
    <3> QED BY <2>1, <3>1, ResolveSame DEF Upto
  <2>7. at' = Resolve(Upto(T, 0))'
    BY <2>1, <2>5, <2>6
  <2>8. Upto(T, 0) = Upto(Target, 0)'
    BY <2>2 DEF Upto
  <2>9. Resolve(Upto(T, 0))' = Resolve(Upto(Target, 0))'
    BY <2>2 DEF Upto
  <2> QED BY <2>4, <2>7, <2>9 DEF Reached
<1>2. ASSUME mem' = mem, mem # NoMember, rest # <<>>, Descend \/ MakeParent \/ LastMissing
      PROVE  Reached'
  <2>1. Tree /\ Tree' /\ Walking
    BY DEF IInv
  <2>2. PICK k : From(k) /\ at = Resolve(Upto(Target, k))
    BY <1>2 DEF Reached
  <2>3. PICK T : T = Target
    OBVIOUS
  <2>4. T \in Seq(STRING) /\ Plain(T) /\ at \in VnodeIds /\ Target' = T
    BY <1>2, <2>1, <2>3, WalkFacts, TargetPlain DEF Target
  <2>5. /\ k \in Nat /\ k + 1 \in 1 .. Len(T) /\ Len(T) \in Nat /\ Head(rest) = T[k + 1]
        /\ Len(rest) = Len(T) - k
    BY <1>2, <2>1, <2>2, <2>3, WalkFacts
  <2>6. PICK n : n = k + 1
    OBVIOUS
  <2>7. n \in 1 .. Len(T) /\ n - 1 = k /\ Head(rest) = T[n] /\ k \in 0 .. Len(T)
    BY <2>5, <2>6
  <2>8. at = Resolve(Upto(T, k)) /\ Resolve(Upto(T, n)) = Finddir(at, T[n])
    <3>1. Resolve(Upto(T, n)) = Hop(Resolve(Upto(T, n - 1)), T[n])
      BY <2>1, <2>4, <2>7, ResolveStep
    <3> QED BY <2>1, <2>2, <2>3, <2>4, <2>7, <3>1, HopIsFinddir
  <2>9. ASSUME Descend \/ MakeParent PROVE From(n)'
    <3>1. rest' = Tail(rest) /\ at' \in VnodeIds'
      BY <1>2, <2>9 DEF Descend, MakeParent, IInv, Walking
    <3> QED BY <1>2, <2>1, <2>2, <2>6, <3>1, NextLevel
  <2>10. CASE Descend
    <3>1. at' = Finddir(at, T[n]) /\ UNCHANGED vfsVars
      BY <2>7, <2>10 DEF Descend, Child
    <3>2. PICK q : q = Upto(T, n)
      OBVIOUS
    <3>3. Resolve(q)' = Resolve(q)
      BY <3>1, ResolveSame
    <3>4. Upto(Target, n)' = q
      BY <2>4, <3>2 DEF Upto
    <3>5. at' = Resolve(Upto(Target, n))'
      BY <2>8, <3>1, <3>2, <3>3, <3>4
    <3> QED BY <2>9, <2>10, <3>5 DEF Reached
  <2>11. CASE MakeParent
    <3>1. PICK d, node : d = at /\ node = Node(Head(rest), TRUE, "tmpfs")
      OBVIOUS
    <3>2. /\ Made(d, node)
          /\ \A i \in DOMAIN nodes[d].kids : nodes[nodes[d].kids[i]].name # node.name
      <4>1. node.name = Head(rest)
        BY <3>1 DEF Node
      <4> QED BY <2>1, <2>11, <3>1, <4>1, ParentMade
    <3>3. node.name = T[n] /\ at' = NewNode
      BY <2>7, <2>11, <3>1 DEF Node, MakeParent
    <3>4. Hop(d, T[n])' = NewNode
      <4>1. PICK name : name = node.name
        OBVIOUS
      <4>2. Hop(d, node.name)' = NewNode
        BY <2>1, <3>2, NewEntryFound
      <4> QED BY <3>3, <4>2
    <3>5. Resolve(Upto(T, n))' = Hop(Resolve(Upto(T, n - 1)), T[n])'
      BY <2>1, <2>4, <2>7, ResolveStepNext
    <3>6. PICK q : q = Upto(T, k)
      OBVIOUS
    <3>7. Resolve(q)' = d
      <4>1. q \in Seq(STRING)
        BY <2>4, <2>7, <3>6, PlainUpto
      <4>2. Resolve(q) = d /\ d # NULL
        BY <2>1, <2>4, <2>8, <3>1, <3>6, NodeFacts DEF NULL, Tree
      <4> QED BY <2>1, <3>2, <4>1, <4>2, ResolveStays
    <3>8. Upto(T, n - 1)' = q /\ Upto(T, n - 1) = q
      BY <2>7, <3>6 DEF Upto
    <3>9. Resolve(Upto(T, n))' = NewNode
      <4>1. Resolve(Upto(T, n - 1))' = d
        BY <3>7, <3>8
      <4>2. Hop(Resolve(Upto(T, n - 1)), T[n])' = Hop(d, T[n])'
        BY <4>1 DEF Hop
      <4> QED BY <3>4, <3>5, <4>2
    <3>10. Resolve(Upto(Target, n))' = Resolve(Upto(T, n))'
      BY <2>4 DEF Upto
    <3>11. at' = Resolve(Upto(Target, n))'
      BY <3>3, <3>9, <3>10
    <3> QED BY <2>9, <2>11, <3>11 DEF Reached
  <2>12. CASE LastMissing
    <3>1. /\ Len(rest) = 1 /\ rest' = <<>> /\ at' = at /\ UNCHANGED vfsVars
          /\ Finddir(at, T[n]) = NULL
      BY <2>7, <2>12 DEF LastMissing, Child
    <3>2. n = Len(T) /\ k = Len(T) - 1 /\ T # <<>>
      <4>0. PICK l : l = Len(T)
        OBVIOUS
      <4>3. k \in Nat /\ l \in Nat /\ 1 = l - k /\ n = k + 1
        BY <2>5, <2>6, <3>1, <4>0
      <4>1. n = Len(T) /\ k = Len(T) - 1 /\ Len(T) # 0
        BY <4>0, <4>3
      <4>2. Len(<<>>) = 0
        OBVIOUS
      <4> QED BY <4>1, <4>2
    <3>3. Upto(T, n) = T /\ Upto(T, k) = Front(T)
      BY <2>4, <3>2, SubSeqFull DEF Upto, Front
    <3>4. Resolve(T) = NULL /\ at = Resolve(Front(T))
      BY <2>8, <3>1, <3>3
    <3>5. PICK f : f = Front(T)
      OBVIOUS
    <3>6. Resolve(T)' = NULL /\ at' = Resolve(f)'
      BY <3>1, <3>4, <3>5, ResolveSame
    <3>7. Resolve(Target)' = Resolve(T)' /\ Front(Target)' = f
      BY <2>4, <3>5 DEF Front, Resolve, Parts
    <3>8. Resolve(Front(Target))' = Resolve(f)'
      BY <3>7
    <3>9. Target' # <<>> /\ NULL' = NULL
      BY <2>4, <3>2 DEF NULL
    <3> QED BY <3>1, <3>6, <3>7, <3>8, <3>9 DEF Reached
  <2> QED BY <1>2, <2>10, <2>11, <2>12
<1>3. CASE Descend
  BY <1>2, <1>3 DEF Descend
<1>4. CASE MakeParent
  <2>1. mem' = mem /\ mem # NoMember /\ rest # <<>>
    BY <1>4, ParentMade DEF MakeParent, IInv
  <2> QED BY <1>2, <1>4, <2>1
<1>5. CASE LastMissing
  <2>1. Len(<<>>) = 0
    OBVIOUS
  <2>2. mem' = mem /\ mem # NoMember /\ rest # <<>>
    BY <1>5, <2>1 DEF LastMissing
  <2> QED BY <1>2, <1>5, <2>2
<1>6. CASE NoParent \/ DirDone \/ PlaceFile \/ NoFile
  BY <1>6 DEF NoParent, DirDone, PlaceFile, NoFile, Done
<1> QED BY <1>1, <1>3, <1>4, <1>5, <1>6 DEF Next

\* It holds in every state.
LEMMA ReachedHolds == Spec => []Reached
<1>1. Init => Reached
  BY DEF Init, Reached
<1>2. IInv /\ IInv' /\ Reached /\ [Next]_vars => Reached'
  <2> SUFFICES ASSUME IInv, IInv', Reached, [Next]_vars PROVE Reached'
    OBVIOUS
  <2>1. CASE Next
    BY <2>1, StepReaches
  <2>2. CASE UNCHANGED vars
    <3>1. UNCHANGED vfsVars /\ mem' = mem /\ at' = at /\ rest' = rest
      BY <2>2 DEF vars
    <3>2. PICK T, f : T = Target /\ f = Front(T)
      OBVIOUS
    <3>3. Target' = T /\ Front(Target)' = f /\ \A k : Upto(Target, k)' = Upto(T, k)
      BY <3>1, <3>2 DEF Target, Front, Upto
    <3>4. CASE \E k : From(k) /\ at = Resolve(Upto(Target, k))
      <4>1. PICK k, q : From(k) /\ at = Resolve(q) /\ q = Upto(T, k)
        BY <3>2, <3>4
      <4>2. Resolve(q)' = Resolve(q)
        BY <3>1, ResolveSame
      <4>3. From(k)' /\ Resolve(Upto(Target, k))' = Resolve(q)'
        BY <3>1, <3>3, <4>1 DEF From, Target
      <4> QED BY <3>1, <4>1, <4>2, <4>3 DEF Reached
    <3>5. CASE /\ rest = <<>> /\ Target # <<>>
               /\ Resolve(Target) = NULL /\ at = Resolve(Front(Target))
      <4>1. Resolve(T)' = Resolve(T) /\ Resolve(f)' = Resolve(f)
        BY <3>1, ResolveSame
      <4>2. Resolve(Target)' = Resolve(T)' /\ Resolve(Front(Target))' = Resolve(f)' /\ NULL' = NULL
        BY <3>3 DEF NULL
      <4> QED BY <3>1, <3>2, <3>3, <3>5, <4>1, <4>2 DEF Reached
    <3>6. CASE mem = NoMember
      BY <3>1, <3>6 DEF Reached, NoMember
    <3> QED BY <3>4, <3>5, <3>6 DEF Reached
  <2> QED BY <2>1, <2>2
<1> QED BY <1>1, <1>2, InvariantHolds, PTL DEF Spec

\* Where the walk for a member ends, the directories above the last one lead there.
LEMMA WalkEnds ==
  ASSUME IInv, Reached, mem # NoMember, rest = <<>>
  PROVE  /\ Target # <<>> => Resolve(Front(Target)) # NULL
         /\ Resolve(Target) \in {NULL, at}
<1>1. /\ Target \in Seq(STRING) /\ Plain(Target) /\ at \in VnodeIds
  BY WalkFacts, TargetPlain DEF IInv
<1>2. at # NULL
  BY <1>1 DEF VnodeIds, NULL, IInv, Tree, Typed
<1>3. CASE \E k : From(k) /\ at = Resolve(Upto(Target, k))
  <2>1. PICK k : From(k) /\ at = Resolve(Upto(Target, k))
    BY <1>3
  <2>2. k = Len(Target)
    BY <2>1, WalkFacts DEF IInv
  <2>3. PICK T : T = Target
    OBVIOUS
  <2>4. T \in Seq(STRING) /\ Plain(T) /\ Len(T) \in Nat
    BY <1>1, <2>3
  <2>5. Upto(T, Len(T)) = T
    BY <2>4, SubSeqFull DEF Upto
  <2>6. at = Resolve(T)
    BY <2>1, <2>2, <2>3, <2>5
  <2>7. ASSUME T # <<>> PROVE Resolve(Front(T)) # NULL
    <3>1. Len(T) \in 1 .. Len(T)
      BY <2>4, <2>7
    <3>2. Resolve(Upto(T, Len(T))) = Hop(Resolve(Upto(T, Len(T) - 1)), T[Len(T)])
      BY <2>4, <3>1, ResolveStep DEF IInv
    <3>3. Upto(T, Len(T) - 1) = Front(T)
      BY DEF Upto, Front
    <3> QED BY <1>2, <2>5, <2>6, <3>2, <3>3 DEF Hop
  <2> QED BY <2>3, <2>6, <2>7
<1>4. CASE Target # <<>> /\ Resolve(Target) = NULL /\ at = Resolve(Front(Target))
  BY <1>2, <1>4
<1> QED BY <1>3, <1>4 DEF Reached

\* Wherever the members before it have left the tree, the walk for a member ends in
\* the directory it names, if there is one, and all those above are there.
THEOREM ParentsAreMade == Spec => ParentsMade
<1> DEFINE Act ==
       (PlaceFile \/ DirDone) /\ (mem.dir \/ Front(mem.path) \notin LongDirs) =>
         LET dir == Along(mem)
         IN  /\ dir # <<>> => Resolve(Front(dir)) # NULL
             /\ Resolve(dir) \in {NULL, at}
<1>1. IInv /\ Reached /\ [Next]_vars => [Act]_vars
  <2> SUFFICES ASSUME IInv, Reached, PlaceFile \/ DirDone PROVE Act
    OBVIOUS
  <2>1. mem # NoMember /\ rest = <<>>
    BY DEF PlaceFile, DirDone
  <2> QED BY <2>1, WalkEnds DEF Target
<1> QED BY <1>1, InvariantHolds, ReachedHolds, PTL DEF Spec, ParentsMade
================================================================================
