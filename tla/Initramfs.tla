------------------------------- MODULE Initramfs -------------------------------
(***************************************************************************)
(* The unpacker that fills the root filesystem at boot, src/src/fs/           *)
(* initramfs.c: members of a cpio archive, in whatever order the archive has  *)
(* them, put into the tmpfs of Vfs.tla. One level of mkpath is one step.      *)
(*                                                                           *)
(* A member is [dir, path, data], its path without "./" or "/". Headers and   *)
(* hexadecimal numbers are left out; the archive ends, at its trailer or at   *)
(* the first member that does not parse, after any number of members.         *)
(***************************************************************************)
EXTENDS Vfs

CONSTANTS
  BootDirs,  \* the names early_vfs_init makes in the root
  Members,   \* what an archive can hold
  LongDirs   \* paths of VFS_MAX_PATH characters or more: 1024

\* Boot's directories fit the heap and the root and have different names.
ASSUME InitramfsAssumption ==
  /\ BootDirs \in Seq(STRING)
  /\ \A i, j \in DOMAIN BootDirs : BootDirs[i] = BootDirs[j] => i = j
  /\ Len(BootDirs) < MaxNodes /\ Len(BootDirs) <= MaxKids
  /\ \A m \in Members : /\ m \in [dir : BOOLEAN, path : Seq(STRING), data : Seq(Nat)]
                        /\ m.path # <<>>
  /\ <<>> \notin LongDirs

\* A path as cpio writes it has no empty components, and none is so deep that
\* vfs_resolve would not look at all of it. Only ParentsMade rests on this. No
\* component is "." or longer than a vnode's name either.
ASSUME PlainPaths ==
  \A m \in Members : Len(m.path) <= MaxParts /\ \A i \in DOMAIN m.path : m.path[i] # ""

VARIABLES
  mem,   \* the member being unpacked, or NoMember
  at,    \* mkpath's root: the directory it has got to
  rest   \* mkpath's path: what is left of it

vars == <<vfsVars, mem, at, rest>>

NoMember == [dir |-> FALSE, path |-> <<>>, data |-> <<>>]

\* early_vfs_init up to the call of initramfs_unpack.
Init ==
  /\ nodes = <<[Node("/", TRUE, "tmpfs") EXCEPT !.kids = [i \in DOMAIN BootDirs |-> i + 1]]>>
               \o [i \in DOMAIN BootDirs |-> Node(BootDirs[i], TRUE, "tmpfs")]
  /\ vfs_root = 1 /\ mounts = <<1>> /\ proc_root = NULL /\ procs = <<>>
  /\ mem = NoMember /\ at = NULL /\ rest = <<>>

--------------------------------------------------------------------------------
Done == mem' = NoMember /\ at' = NULL /\ rest' = <<>>

\* What mkpath is given: all of a directory's path, of a file's its directory, and
\* nothing when that does not fit dir_path: the file then goes to the root.
Along(m) == IF m.dir THEN m.path ELSE IF Front(m.path) \in LongDirs THEN <<>> ELSE Front(m.path)

\* The next member.
Take(m) ==
  /\ mem = NoMember
  /\ mem' = m /\ at' = vfs_root /\ rest' = Along(m)
  /\ UNCHANGED vfsVars

\* The look stops before the last entry.
ChildBug == LET found == Finddir(at, Head(rest))
            IN  IF found # NULL /\ found = Last(nodes[at].kids) THEN NULL ELSE found
Child    == Finddir(at, Head(rest))

Descend ==
  /\ mem # NoMember /\ rest # <<>> /\ Child # NULL
  /\ at' = Child /\ rest' = Tail(rest)
  /\ UNCHANGED <<vfsVars, mem>>

\* The directory made is not the one the walk goes on from.
MakeParentBug ==
  /\ mem # NoMember /\ Len(rest) > 1 /\ Child = NULL /\ CanMake(at)
  /\ Make(at, Node(Head(rest), TRUE, "tmpfs"))
  /\ rest' = Tail(rest)
  /\ UNCHANGED <<vfs_root, mounts, proc_root, procs, mem, at>>
\* A component that is missing is made, unless it is the last.
MakeParent ==
  /\ mem # NoMember /\ Len(rest) > 1 /\ Child = NULL /\ CanMake(at)
  /\ Make(at, Node(Head(rest), TRUE, "tmpfs"))
  /\ at' = NewNode /\ rest' = Tail(rest)
  /\ UNCHANGED <<vfs_root, mounts, proc_root, procs, mem>>

\* mkpath returns NULL and the member is passed over.
NoParent ==
  /\ mem # NoMember /\ Len(rest) > 1 /\ Child = NULL /\ ~CanMake(at)
  /\ Done /\ UNCHANGED vfsVars

\* The last component is missing: mkpath returns the directory it looked in.
LastMissing ==
  /\ mem # NoMember /\ Len(rest) = 1 /\ Child = NULL
  /\ rest' = <<>>
  /\ UNCHANGED <<vfsVars, mem, at>>

DirDone == mem # NoMember /\ rest = <<>> /\ mem.dir /\ Done /\ UNCHANGED vfsVars

\* mkfile and write; a buffer the heap refuses leaves the file empty.
File == [Node(Last(mem.path), FALSE, "tmpfs") EXCEPT !.data =
           IF Len(mem.data) <= MaxFile THEN mem.data ELSE <<>>]

PlaceFile ==
  /\ mem # NoMember /\ rest = <<>> /\ ~mem.dir /\ CanMake(at)
  /\ Make(at, File)
  /\ Done /\ UNCHANGED <<vfs_root, mounts, proc_root, procs>>

NoFile ==
  /\ mem # NoMember /\ rest = <<>> /\ ~mem.dir /\ ~CanMake(at)
  /\ Done /\ UNCHANGED vfsVars

Next == \/ \E m \in Members : Take(m)
        \/ Descend \/ MakeParent \/ NoParent \/ LastMissing
        \/ DirDone \/ PlaceFile \/ NoFile

Spec == Init /\ [][Next]_vars
--------------------------------------------------------------------------------
VnodeIds == DOMAIN nodes
Kid(d)   == Range(nodes[d].kids)

\* The walk stands on a vnode while a member is under way, and what is left of its
\* path is a tail of it.
TypeOK ==
  /\ Len(nodes) <= MaxNodes
  /\ \A n \in VnodeIds : Kid(n) \subseteq VnodeIds /\ (Kid(n) # {} => nodes[n].dir)
  /\ mem \in Members \cup {NoMember}
  /\ IF mem = NoMember THEN at = NULL /\ rest = <<>>
     ELSE at \in VnodeIds /\ IsSuffix(rest, Along(mem))

\* Every vnode the unpacker makes has one place in one directory, whatever is
\* refused on the way: none is lost and none is shared.
AllPlaced ==
  TypeOK /\ \A n \in VnodeIds \ {vfs_root} :
    Cardinality({e \in VnodeIds \X (1 .. MaxKids) :
                   e[2] \in DOMAIN nodes[e[1]].kids /\ nodes[e[1]].kids[e[2]] = n}) = 1

\* tmpfs_mkdir takes a name twice, and only mkpath's lookups keep a directory that
\* many members lie in from being made again for each of them.
DirsDistinct ==
  \A d \in VnodeIds : \A n, o \in Kid(d) :
    n # o /\ nodes[n].dir /\ nodes[o].dir => nodes[n].name # nodes[o].name

Paths == {m.path : m \in Members}

\* Unpacking a member takes nothing from the members before it: a path that led to
\* a vnode goes on leading to it, with the same bytes, also when a later member has
\* the same path or goes through it.
KeepsEarlier ==
  [][\A p \in Paths : Resolve(p) # NULL =>
        Resolve(p)' = Resolve(p) /\ nodes'[Resolve(p)].data = nodes[Resolve(p)].data]_vars

\* Parents are made as needed (docs.typ:588), all but the last: where the walk for a
\* member ends, the directories above the last one lead there, and the last one, if
\* there is one, is where it ends. A file in a directory that exists lands in it, and
\* one in a directory that was made on the way does. Left out are files whose
\* directory does not fit dir_path.
ParentsMade ==
  [][(PlaceFile \/ DirDone) /\ (mem.dir \/ Front(mem.path) \notin LongDirs) =>
       LET dir == Along(mem)
       IN  /\ dir # <<>> => Resolve(Front(dir)) # NULL
           /\ Resolve(dir) \in {NULL, at}]_vars
================================================================================
