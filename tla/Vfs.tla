---------------------------------- MODULE Vfs ----------------------------------
(***************************************************************************)
(* The virtual filesystem (src/src/fs/vfs.c) and the two in-memory           *)
(* filesystems under it (tmpfs.c, procfs.c): vnodes, directories, mounts and  *)
(* path resolution. The calls made on them are in Syscalls.tla.              *)
(*                                                                           *)
(* A path is the sequence of its components; a final "" is a trailing slash. *)
(* nodes[n] is vnode n; a vnode is never freed, so ids only grow. The ops    *)
(* pointer is the pair of dir and fs. A definition named ...Bug is a mistake  *)
(* the properties are known to catch (PROJECT.json); no action uses it.      *)
(***************************************************************************)
EXTENDS Integers, SequencesExt, FiniteSetsExt

CONSTANTS
  MaxParts,   \* components vfs_resolve looks at: parts[32]
  MaxMounts,  \* VFS_MAX_MOUNTS
  MaxKids,    \* TMPFS_MAX_CHILDREN
  MaxProc,    \* PROCFS_MAX_ENTRIES
  ProcFiles,  \* names SYS_MOUNT registers for a "proc" mount, in order
  MaxNodes,   \* bound: vnodes the heap has room for
  MaxFile     \* bound: bytes of one file the heap has room for

ASSUME VfsAssumption ==
  /\ MaxParts \in Nat \ {0} /\ MaxMounts \in Nat \ {0} /\ MaxKids \in Nat
  /\ MaxProc \in Nat /\ MaxNodes \in Nat \ {0} /\ MaxFile \in Nat

VARIABLES
  nodes,      \* vnodes ever allocated
  vfs_root,
  mounts,     \* mount_table: roots only, its paths are never read
  proc_root,
  procs       \* proc_dir_data: one list for every procfs mount

vfsVars == <<nodes, vfs_root, mounts, proc_root, procs>>

NULL == 0

\* A vnode as kzalloc and the *_alloc_node functions leave it.
Node(name, dir, fs) ==
  [name |-> name, dir |-> dir, fs |-> fs, mountpt |-> FALSE, mount |-> NULL,
   kids |-> <<>>, data |-> <<>>]

Alloc(node) == nodes' = Append(nodes, node)
HasRoom(k)  == Len(nodes) + k <= MaxNodes
NewNode     == Len(nodes) + 1

\* The state early_vfs_init leaves: a tmpfs mounted at "/".
VfsInit ==
  /\ nodes = <<Node("/", TRUE, "tmpfs")>>
  /\ vfs_root = 1 /\ mounts = <<1>>
  /\ proc_root = NULL /\ procs = <<>>

--------------------------------------------------------------------------------
\* What readdir enumerates: procfs ignores which of its roots it is asked about.
Kids(d) == IF nodes[d].fs = "proc" THEN procs ELSE nodes[d].kids

\* The first child of that name, or NULL.
Finddir(d, name) ==
  LET hits == {i \in DOMAIN Kids(d) : nodes[Kids(d)[i]].name = name}
  IN  IF hits = {} THEN NULL ELSE Kids(d)[Min(hits)]

\* One hop over a mount; the root it lands on may itself be covered.
Follow(n) == IF n # NULL /\ nodes[n].mount # NULL THEN nodes[n].mount ELSE n

\* split_path: empty components vanish, those past the last slot too.
Parts(path) ==
  LET upto[i \in 0 .. Len(path)] ==
        IF i = 0 THEN <<>>
        ELSE LET parts == upto[i - 1]
             IN  IF path[i] = "" \/ Len(parts) = MaxParts THEN parts
                 ELSE Append(parts, path[i])
  IN  upto[Len(path)]

\* One round of vfs_resolve's loop.
Hop(d, name) ==
  IF d = NULL \/ ~nodes[d].dir THEN NULL ELSE Follow(Finddir(d, name))

Resolve(path) ==
  LET p == Parts(path)
      walk[i \in 0 .. Len(p)] == IF i = 0 THEN vfs_root ELSE Hop(walk[i - 1], p[i])
  IN  walk[Len(p)]

IsDir(n)  == n # NULL /\ nodes[n].dir
IsFile(n) == n # NULL /\ ~nodes[n].dir

\* split_parent.
ParentPath(path) == IF path = <<>> THEN <<>> ELSE Front(path)
LastName(path)   == IF path = <<>> THEN "" ELSE Last(path)

--------------------------------------------------------------------------------
(* tmpfs. Only its directories have mkdir, mkfile and unlink.                   *)
IsTmpDir(d) == IsDir(d) /\ nodes[d].fs = "tmpfs"

CanMake(d) == IsTmpDir(d) /\ Len(nodes[d].kids) < MaxKids /\ HasRoom(1)

\* child_count is not incremented.
MakeLost(d, node) == Alloc(node)
\* The new entry goes first.
MakeBug(d, node) ==
  nodes' = Append([nodes EXCEPT ![d].kids = <<NewNode>> \o @], node)
\* tmpfs_mkdir and tmpfs_mkfile: no look at the names already there.
Make(d, node) ==
  nodes' = Append([nodes EXCEPT ![d].kids = Append(@, NewNode)], node)

\* child_count is not decremented.
RemoveKidBug(kids, i) ==
  [j \in DOMAIN kids |-> IF j >= i /\ j < Len(kids) THEN kids[j + 1] ELSE kids[j]]
RemoveKid(kids, i)    == RemoveAt(kids, i)

\* tmpfs_unlink: the first entry of that name goes; what it named stays allocated.
Unlink(d, name) ==
  /\ Finddir(d, name) # NULL
  /\ nodes' = [nodes EXCEPT ![d].kids =
                 RemoveKid(@, Min({i \in DOMAIN @ : nodes[@[i]].name = name}))]

ByteAt(data, i) == IF i <= Len(data) THEN data[i] ELSE 0

\* The new buffer is as long as this write needs, even when the old was longer.
WrittenTruncates(data, off, buf) ==
  [i \in 1 .. (off + Len(buf)) |->
     IF i > off THEN buf[i - off] ELSE ByteAt(data, i)]
\* The old contents are not copied to the new buffer.
WrittenForgets(data, off, buf) ==
  [i \in 1 .. (IF off + Len(buf) > Len(data) THEN off + Len(buf) ELSE Len(data)) |->
     IF off < i /\ i <= off + Len(buf) THEN buf[i - off] ELSE 0]
\* tmpfs_write: the buffer grows, zero filled, and never shrinks.
Written(data, off, buf) ==
  [i \in 1 .. (IF off + Len(buf) > Len(data) THEN off + Len(buf) ELSE Len(data)) |->
     IF off < i /\ i <= off + Len(buf) THEN buf[i - off] ELSE ByteAt(data, i)]

\* The heap may refuse a longer buffer; procfs files have no write.
CanWrite(n, off, buf) ==
  nodes[n].fs = "tmpfs" /\ (off + Len(buf) > Len(nodes[n].data) => off + Len(buf) <= MaxFile)
Write(n, off, buf) == nodes' = [nodes EXCEPT ![n].data = Written(@, off, buf)]

\* tmpfs_read.
ReadOf(n, off, size) ==
  SubSeq(nodes[n].data, off + 1,
         IF off + size < Len(nodes[n].data) THEN off + size ELSE Len(nodes[n].data))

--------------------------------------------------------------------------------
(* procfs: mounting it makes a root and registers the files, one by one, until  *)
(* the heap or the list is full; SYS_MOUNT does not look at the results.        *)
ProcRegistered ==
  LET room == MaxNodes - (Len(nodes) + 1)
      cap  == IF room < MaxProc THEN room ELSE MaxProc
  IN  IF Len(ProcFiles) < cap THEN Len(ProcFiles) ELSE cap

ProcNodes == <<[Node("proc", TRUE, "proc") EXCEPT !.mountpt = TRUE]>>
               \o [i \in 1 .. ProcRegistered |-> Node(ProcFiles[i], FALSE, "proc")]

\* proc_dir_data.count is not reset.
ProcListBug == procs \o [i \in 1 .. ProcRegistered |-> NewNode + i]
ProcList    == [i \in 1 .. ProcRegistered |-> NewNode + i]

--------------------------------------------------------------------------------
(* vfs_mount, given the vnodes ns as the filesystem left them.                   *)
CanMount == Len(mounts) < MaxMounts

Cover(ns, n, fs) == [ns EXCEPT ![n].mount = fs, ![n].mountpt = TRUE]

\* target is what vfs_resolve finds at the path: the root of what is mounted
\* there already, if anything is.
Mount(path, target, ns, fs) ==
  /\ mounts' = Append(mounts, fs)
  /\ IF path = <<>>
     THEN vfs_root' = fs /\ nodes' = ns
     ELSE vfs_root' = vfs_root /\ nodes' = Cover(ns, target, fs)

\* SYS_UMOUNT looks the last component up itself and follows no mount from it.
UmountTarget(path) ==
  LET d == Resolve(ParentPath(path))
  IN  IF IsDir(d) THEN Finddir(d, LastName(path)) ELSE NULL

\* The mount pointer stays.
UncoverBug(n) == nodes' = [nodes EXCEPT ![n].mountpt = FALSE]
Uncover(n)    == nodes' = [nodes EXCEPT ![n].mount = NULL, ![n].mountpt = FALSE]
================================================================================
