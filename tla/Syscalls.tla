-------------------------------- MODULE Syscalls -------------------------------
(***************************************************************************)
(* The filesystem half of syscall_dispatch (src/src/kernel/syscall.c) and    *)
(* the descriptor table (fd.c). int 0x80 enters through an interrupt gate    *)
(* with interrupts off, so a call is one step; what is hard is the sequence   *)
(* of calls that several programs make on one tree, mount table and           *)
(* descriptor table, which exec does not reset. A call that fails and changes  *)
(* nothing is a stuttering step. Mounts of type ext2 are left to Ext2.tla.     *)
(***************************************************************************)
EXTENDS Vfs

CONSTANTS
  FdMax,      \* FD_MAX
  Paths,      \* paths programs pass
  Buffers,    \* byte sequences programs write
  ReadSizes   \* sizes programs ask SYS_FREAD for

\* Programs read at offsets that fit; the names SYS_MOUNT registers are distinct.
ASSUME SyscallsAssumption ==
  /\ FdMax \in Nat /\ Paths \subseteq Seq(STRING) /\ Buffers \subseteq Seq(Nat)
  /\ ReadSizes \subseteq Nat
  /\ ProcFiles \in Seq(STRING) /\ IsInjective(ProcFiles)

VARIABLES fds  \* fd_table: fd -> [used, node, offset]

vars == <<vfsVars, fds>>

Fds    == 0 .. (FdMax - 1)
FreeFd == [used |-> FALSE, node |-> NULL, offset |-> 0]

Init == VfsInit /\ fds = [f \in Fds |-> FreeFd]

--------------------------------------------------------------------------------
\* SYS_MKDIR, SYS_MKFILE; a call that fails changes nothing and is no step.
SysMk(path, dir) ==
  LET d == Resolve(ParentPath(path)) IN
  /\ CanMake(d)
  /\ Make(d, Node(LastName(path), dir, "tmpfs"))
  /\ UNCHANGED <<vfs_root, mounts, proc_root, procs, fds>>

SysRm(path) ==
  LET d == Resolve(ParentPath(path)) IN
  /\ IsTmpDir(d) /\ Unlink(d, LastName(path))
  /\ UNCHANGED <<vfs_root, mounts, proc_root, procs, fds>>

\* SYS_WRITE to what the path names already.
SysWriteOld(path, buf) ==
  LET n == Resolve(path) IN
  /\ IsFile(n) /\ CanWrite(n, 0, buf)
  /\ Write(n, 0, buf)
  /\ UNCHANGED <<vfs_root, mounts, proc_root, procs, fds>>

\* SYS_WRITE makes the file it does not find; when the buffer is then refused
\* the call fails and the empty file stays.
SysWriteNew(path, buf) ==
  LET d    == Resolve(ParentPath(path))
      node == Node(LastName(path), FALSE, "tmpfs")
  IN
  /\ Resolve(path) = NULL /\ CanMake(d)
  /\ Make(d, IF Len(buf) <= MaxFile THEN [node EXCEPT !.data = Written(<<>>, 0, buf)]
             ELSE node)
  /\ UNCHANGED <<vfs_root, mounts, proc_root, procs, fds>>

--------------------------------------------------------------------------------
MountTmpfs(path) ==
  /\ IsDir(Resolve(path)) /\ HasRoom(1)
  /\ IF CanMount
     THEN Mount(path, Resolve(path), Append(nodes, Node("/", TRUE, "tmpfs")), NewNode)
     ELSE Alloc(Node("/", TRUE, "tmpfs")) /\ UNCHANGED <<vfs_root, mounts>>
  /\ UNCHANGED <<proc_root, procs, fds>>

\* The list of every procfs mount is remade, also when the mount then fails.
MountProc(path) ==
  /\ IsDir(Resolve(path)) /\ HasRoom(1)
  /\ proc_root' = NewNode /\ procs' = ProcList
  /\ IF CanMount
     THEN Mount(path, Resolve(path), nodes \o ProcNodes, NewNode)
     ELSE nodes' = nodes \o ProcNodes /\ UNCHANGED <<vfs_root, mounts>>
  /\ UNCHANGED fds

\* procfs_create loses the old root before it looks at what kzalloc said.
MountProcRefused(path) ==
  /\ IsDir(Resolve(path)) /\ ~HasRoom(1)
  /\ proc_root' = NULL
  /\ UNCHANGED <<nodes, vfs_root, mounts, procs, fds>>

\* Any other type: the source path's vnode, of whatever kind, is the root.
MountBind(source, path) ==
  /\ IsDir(Resolve(path)) /\ Resolve(source) # NULL /\ CanMount
  /\ Mount(path, Resolve(path), nodes, Resolve(source))
  /\ UNCHANGED <<proc_root, procs, fds>>

SysUmount(path) ==
  LET t == UmountTarget(path) IN
  /\ t # NULL /\ nodes[t].mountpt
  /\ Uncover(t)
  /\ UNCHANGED <<vfs_root, mounts, proc_root, procs, fds>>

--------------------------------------------------------------------------------
\* alloc_fd takes the lowest free slot; get_fd refuses a slot that is free.
InUse(f)  == fds[f].used
Lowest(f) == ~InUse(f) /\ \A g \in 0 .. (f - 1) : InUse(g)

SysOpen(path) ==
  LET n == Resolve(path) IN
  /\ IsFile(n)
  /\ \E f \in Fds :
       /\ Lowest(f)
       /\ fds' = [fds EXCEPT ![f] = [used |-> TRUE, node |-> n, offset |-> 0]]
  /\ UNCHANGED vfsVars

Close(f) == fds' = [fds EXCEPT ![f] = FreeFd]

SysClose(f) ==
  /\ InUse(f) /\ Close(f)
  /\ UNCHANGED vfsVars

\* A procfs file's text may have any length each time it is read.
Got(f, size) ==
  IF nodes[fds[f].node].fs = "tmpfs"
  THEN {Len(ReadOf(fds[f].node, fds[f].offset, size))}
  ELSE {k \in 0 .. size : fds[f].offset + k <= MaxFile}

SysFread(f, size) ==
  /\ InUse(f)
  /\ \E k \in Got(f, size) : fds' = [fds EXCEPT ![f].offset = @ + k]
  /\ UNCHANGED vfsVars

SysFwrite(f, buf) ==
  /\ InUse(f) /\ CanWrite(fds[f].node, fds[f].offset, buf)
  /\ Write(fds[f].node, fds[f].offset, buf)
  /\ fds' = [fds EXCEPT ![f].offset = @ + Len(buf)]
  /\ UNCHANGED <<vfs_root, mounts, proc_root, procs>>

Next ==
  \/ \E p \in Paths :
       \/ \E dir \in BOOLEAN : SysMk(p, dir)
       \/ SysRm(p)
       \/ \E b \in Buffers : SysWriteOld(p, b) \/ SysWriteNew(p, b)
       \/ MountTmpfs(p) \/ MountProc(p) \/ MountProcRefused(p) \/ SysUmount(p)
       \/ \E s \in Paths : MountBind(s, p)
       \/ SysOpen(p)
  \/ \E f \in Fds :
       \/ SysClose(f)
       \/ \E k \in ReadSizes : SysFread(f, k)
       \/ \E b \in Buffers : SysFwrite(f, b)

Spec == Init /\ [][Next]_vars
--------------------------------------------------------------------------------
VnodeIds == DOMAIN nodes
Names == {LastName(p) : p \in Paths} \cup Range(ProcFiles) \cup {"/", "proc"}
Vnode == [name : Names, dir : BOOLEAN, fs : {"tmpfs", "proc"}, mountpt : BOOLEAN,
          mount : VnodeIds \cup {NULL}, kids : Seq(VnodeIds), data : Seq(Nat)]

\* Every vnode pointer, in the mount table, in proc_dir_data or in a descriptor,
\* names a vnode that exists; a slot in use holds a file and a free one is blank.
TypeOK ==
  /\ Len(nodes) <= MaxNodes /\ \A n \in VnodeIds : nodes[n] \in Vnode
  /\ vfs_root \in VnodeIds /\ proc_root \in VnodeIds \cup {NULL}
  /\ Len(mounts) <= MaxMounts /\ Range(mounts) \subseteq VnodeIds
  /\ Len(procs) <= MaxProc /\ Range(procs) \subseteq VnodeIds
  /\ \A f \in Fds :
       /\ fds[f].used \in BOOLEAN /\ fds[f].offset \in 0 .. MaxFile
       /\ IF fds[f].used THEN IsFile(fds[f].node) /\ fds[f].node \in VnodeIds
                         ELSE fds[f] = FreeFd

\* A vnode has at most one place in at most one directory, no directory is full
\* past its array, and the entries of a directory that were not removed keep
\* their order: the shifting loop of tmpfs_unlink (tmpfs.c:115-117) against
\* mkdir, mkfile and SYS_WRITE filling the slots again.
TreeSound ==
  /\ \A n \in VnodeIds : Len(nodes[n].kids) <= MaxKids 
                           /\ \A i \in 2 .. Len(nodes[n].kids) :
                                nodes[n].kids[i - 1] < nodes[n].kids[i]
  /\ \A d, e \in VnodeIds :
       d # e => Range(nodes[d].kids) \cap Range(nodes[e].kids) = {}

\* SYS_UMOUNT trusts the MOUNTPT flag, which vfs_mount, vfs_umount and
\* procfs_create each write: it is set exactly on vnodes something is mounted on
\* and on procfs roots, so umount never fails on a mount nor succeeds on nothing.
MountFlagExact ==
  \A n \in VnodeIds :
    nodes[n].mountpt <=> nodes[n].mount # NULL \/ (nodes[n].fs = "proc" /\ nodes[n].dir)

\* All procfs mounts share one list of files: mounting /proc again, whether the
\* mount succeeds or not, never leaves a name in it twice (procfs.c:87, 110).
ProcNamesDistinct ==
  \A i, j \in DOMAIN procs : i # j => nodes[procs[i]].name # nodes[procs[j]].name

\* A descriptor's offset never lies past the end of its tmpfs file, whoever else
\* writes the file, by path or through another descriptor: no write ever skips
\* bytes and no read ever starts beyond the buffer (tmpfs.c:24, 35, 50).
OffsetInFile ==
  /\ TypeOK
  /\ \A f \in Fds :
       fds[f].used /\ nodes[fds[f].node].fs = "tmpfs"
         => fds[f].offset <= Len(nodes[fds[f].node].data)

\* After SYS_WRITE the path names a file that begins with the bytes written and goes
\* on with what the file held before, and no byte is added, wherever mounts, binds,
\* duplicate names or a trailing slash lead the two resolutions of the call. When
\* the file is new and its buffer is refused, the call fails, and the path names an
\* empty file, from which the call can be tried again (syscall.c:98-106).
WriteReadBack ==
  [][UNCHANGED fds /\ (\E n \in DOMAIN nodes' :
                          n \notin VnodeIds \/ nodes'[n].data # nodes[n].data) =>
       \A p \in Paths, b \in Buffers :
         SysWriteOld(p, b) \/ SysWriteNew(p, b) =>
           LET n   == Resolve(p)'
               old == IF Resolve(p) = NULL THEN <<>> ELSE nodes[Resolve(p)].data
               got == IF Resolve(p) = NULL /\ Len(b) > MaxFile THEN <<>> ELSE b
           IN  /\ n # NULL /\ ~nodes'[n].dir
               /\ Len(nodes'[n].data) = Max({Len(old), Len(got)})
               /\ \A i \in 1 .. Len(got) : nodes'[n].data[i] = got[i]
               /\ \A i \in (Len(got) + 1) .. Len(old) : nodes'[n].data[i] = old[i]]_vars

\* Making a file or directory never changes what a path that resolved before
\* resolves to, although tmpfs accepts a name twice (tmpfs.c:77-107): the older
\* entry wins.
NothingHidden ==
  [][(\E d \in VnodeIds : Len(nodes'[d].kids) > Len(nodes[d].kids))
       => \A q \in Paths : Resolve(q) # NULL => Resolve(q)' = Resolve(q)]_vars
================================================================================
