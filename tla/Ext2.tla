---------------------------------- MODULE Ext2 ----------------------------------
(***************************************************************************)
(* The ext2 driver (src/src/fs/ext2.c): one block group, the disk as the      *)
(* driver sees it and the vnodes the kernel holds on it. A call of the driver *)
(* is the list of blocks it writes, one step each; the power can fail before   *)
(* any of them, and any write can be lost, because no result of               *)
(* ext2_write_block or ext2_write_inode is looked at.                         *)
(*                                                                           *)
(* Every entry takes one slot of a directory block, "." and ".." are not       *)
(* listed, a file's bytes and size are left out: its block is written or not.  *)
(* A block that holds no directory reads as one with rec_len 0.                *)
(***************************************************************************)
EXTENDS Integers, SequencesExt, FiniteSetsExt

CONSTANTS
  MaxIno,     \* inodes_per_group
  MaxBlock,   \* blocks_per_group, block 1 the root directory's
  DirSlots,   \* entries a directory block has room for
  Names,      \* names programs use
  MaxVnode,   \* bound: vnodes the kernel holds at once, 1 the mounted root
  MaxCrash,   \* bound: power failures
  MaxLost     \* bound: writes that are lost, each of another kind of block

CountMax == 65535   \* the descriptor's two counts of free have 16 bits

ASSUME Ext2Assumption ==
  /\ MaxIno \in 2 .. CountMax /\ MaxBlock \in 1 .. CountMax /\ DirSlots \in Nat
  /\ MaxVnode \in Nat \ {0} /\ MaxCrash \in Nat /\ MaxLost \in Nat

VARIABLES
  ibmap, ifree,   \* inode bitmap and bg_free_inodes_count
  bbmap, bfree,   \* block bitmap and bg_free_blocks_count
  inode,          \* inode table
  block,          \* the blocks
  vnode,          \* vnodes held: inode number and the copy made at ext2_make_vnode
  call,           \* the call under way and what it has left to write
  ret,            \* what the last call returned
  lost, crashes   \* history: the kinds of block a write was lost on, power failures

disk == <<ibmap, ifree, bbmap, bfree, inode, block>>
vars == <<disk, vnode, call, ret, lost, crashes>>

EXT2_ROOT_INO == 2
Inodes == 1 .. MaxIno
Blocks == 1 .. MaxBlock
Slots  == 1 .. MaxVnode

RawInode == [mode |-> "raw", block |-> 0]
RawBlock == [kind |-> "raw", ents |-> <<>>]
EmptyDir == [kind |-> "dir", ents |-> <<>>]
NoName   == ""   \* a write has none
NoVnode  == [ino |-> 0, inode |-> RawInode]
NoCall   == [op |-> "none", v |-> 1, name |-> NoName, ino |-> 0, blk |-> 0, todo |-> <<>>]

\* ext2_make_vnode: a copy of the inode, never refreshed but for its size.
Load(ino) == [ino |-> ino, inode |-> inode[ino]]

\* A formatted disk, mounted.
Init ==
  /\ ibmap = {1, EXT2_ROOT_INO} /\ ifree = MaxIno - 2
  /\ bbmap = {1} /\ bfree = MaxBlock - 1
  /\ inode = [i \in Inodes |-> IF i = EXT2_ROOT_INO THEN [mode |-> "dir", block |-> 1]
                                                    ELSE RawInode]
  /\ block = [b \in Blocks |-> IF b = 1 THEN EmptyDir ELSE RawBlock]
  /\ vnode = [s \in Slots |-> IF s = 1 THEN Load(EXT2_ROOT_INO) ELSE NoVnode]
  /\ call = NoCall /\ ret = "none" /\ lost = {} /\ crashes = 0

--------------------------------------------------------------------------------
IsDirV(v)  == vnode[v].inode.mode = "dir"
IsFileV(v) == vnode[v].ino # 0 /\ ~IsDirV(v)
Idle       == call.todo = <<>>
AtStep(s)  == ~Idle /\ Head(call.todo) = s

\* The blocks each call writes, in order. "ibit" and "bbit" are the bitmaps,
\* "icount" and "bcount" the group descriptor.
MkfileStepsBug == <<"ibit", "icount", "dirent", "inode">>
MkfileSteps    == <<"ibit", "icount", "inode", "dirent">>
MkdirSteps     == <<"ibit", "icount", "bbit", "bcount", "dirblock", "inode", "dirent">>
\* i_block[0] is not looked at.
WriteStepsBlind(i) == <<"bbit", "bcount", "data", "inode">>
\* The inode goes out before the data.
WriteStepsBug(i)   == IF i.block = 0 THEN <<"bbit", "bcount", "inode", "data">>
                                     ELSE <<"inode", "data">>
WriteSteps(i)      == IF i.block = 0 THEN <<"bbit", "bcount", "data", "inode">>
                                     ELSE <<"data", "inode">>

Begin(op, v, name, ino, blk, steps) ==
  /\ Idle /\ ret' = "none"
  /\ call' = [op |-> op, v |-> v, name |-> name, ino |-> ino, blk |-> blk, todo |-> steps]
  /\ UNCHANGED <<disk, vnode, lost, crashes>>

\* ext2_vfs_mkfile and ext2_vfs_mkdir on a directory vnode, ext2_vfs_write on a
\* file vnode; none of them looks whether the name is there already.
Mkfile(v, name) == IsDirV(v) /\ Begin("mkfile", v, name, 0, 0, MkfileSteps)
Mkdir(v, name)  == IsDirV(v) /\ Begin("mkdir", v, name, 0, 0, MkdirSteps)
Write(v) ==
  LET i == vnode[v].ino IN
  IsFileV(v) /\ Begin("write", v, NoName, i, inode[i].block, WriteSteps(inode[i]))

\* A block goes out: it reaches the disk or the drive refuses it, and the driver goes
\* on alike.
Out(kind, landed, kept) ==
  \/ landed /\ lost' = lost
  \/ kept /\ kind \notin lost /\ Cardinality(lost) < MaxLost /\ lost' = lost \cup {kind}

Return(value) == call' = NoCall /\ ret' = value

\* mkfile and mkdir hand a new vnode to the caller, which may keep it; there is memory
\* for it where the call's buffers were, which are larger.
Done ==
  IF Len(call.todo) > 1
  THEN call' = [call EXCEPT !.todo = Tail(@)] /\ UNCHANGED <<ret, vnode>>
  ELSE /\ Return("ok")
       /\ \/ UNCHANGED vnode
          \/ /\ call.op \in {"mkfile", "mkdir"}
             /\ \E s \in Slots \ {1} :
                  vnode' = [vnode EXCEPT ![s] = [ino |-> call.ino, inode |-> inode'[call.ino]]]

Failed == Return("fail") /\ UNCHANGED <<disk, vnode, lost>>

\* alloc_inode, alloc_block: the first clear bit, 0 if there is none.
FirstFree(map, all) == IF all \ map = {} THEN 0 ELSE Min(all \ map)
MarkedBug(map, i)   == map
Marked(map, i)      == map \cup {i}

AllocInode ==
  LET i == FirstFree(ibmap, Inodes) IN
  /\ AtStep("ibit")
  /\ \/ i = 0 /\ Failed
     \/ /\ i # 0
        /\ Out("ibmap", ibmap' = Marked(ibmap, i), ibmap' = ibmap)
        /\ call' = [call EXCEPT !.ino = i, !.todo = Tail(@)]
        /\ UNCHANGED <<ifree, bbmap, bfree, inode, block, vnode, ret>>
  /\ UNCHANGED crashes

AllocBlock ==
  LET b == FirstFree(bbmap, Blocks) IN
  /\ AtStep("bbit")
  /\ \/ b = 0 /\ Failed
     \/ /\ b # 0
        /\ Out("bbmap", bbmap' = Marked(bbmap, b), bbmap' = bbmap)
        /\ call' = [call EXCEPT !.blk = b, !.todo = Tail(@)]
        /\ UNCHANGED <<ibmap, ifree, bfree, inode, block, vnode, ret>>
  /\ UNCHANGED crashes

DecBug(n) == n
Dec(n)    == (n + CountMax) % (CountMax + 1)

CountInode ==
  /\ AtStep("icount") /\ Out("bgd", ifree' = Dec(ifree), ifree' = ifree)
  /\ Done /\ UNCHANGED <<ibmap, bbmap, bfree, inode, block, crashes>>

CountBlock ==
  /\ AtStep("bcount") /\ Out("bgd", bfree' = Dec(bfree), bfree' = bfree)
  /\ Done /\ UNCHANGED <<ibmap, ifree, bbmap, inode, block, crashes>>

\* What ext2_write_inode is given.
NewInode ==
  IF call.op = "write" THEN [inode[call.ino] EXCEPT !.block = call.blk]
  ELSE [mode |-> IF call.op = "mkdir" THEN "dir" ELSE "file", block |-> call.blk]

WriteInode ==
  /\ AtStep("inode")
  /\ Out("inode", inode' = [inode EXCEPT ![call.ino] = NewInode], inode' = inode)
  /\ Done /\ UNCHANGED <<ibmap, ifree, bbmap, bfree, block, crashes>>

WriteBlock(step, contents) ==
  /\ AtStep(step)
  /\ Out(step, block' = [block EXCEPT ![call.blk] = contents], block' = block)
  /\ Done /\ UNCHANGED <<ibmap, ifree, bbmap, bfree, inode, crashes>>

WriteDirBlock == WriteBlock("dirblock", EmptyDir)
WriteData     == WriteBlock("data", [kind |-> "data", ents |-> <<>>])

\* ext2_dir_add_entry on the directory's inode as the disk has it.
HasSlot(b) == b # 0 /\ block[b].kind = "dir" /\ Len(block[b].ents) < DirSlots

\* mkdir does not look at the result, create_file does.
EntryMatters(op) == op # "mkdir"

AddEntry ==
  LET b == inode[vnode[call.v].ino].block
      e == [name |-> call.name, ino |-> call.ino]
  IN
  /\ AtStep("dirent")
  /\ UNCHANGED <<ibmap, ifree, bbmap, bfree, inode, crashes>>
  /\ \/ /\ HasSlot(b)
        /\ Out("dirent", block' = [block EXCEPT ![b].ents = Append(@, e)], block' = block)
        /\ Done
     \/ /\ ~HasSlot(b) /\ block' = block /\ lost' = lost
        /\ IF EntryMatters(call.op) THEN Return("fail") /\ UNCHANGED vnode ELSE Done

\* The heap refuses the call's first buffers. It cannot refuse a later one: they all
\* have the size of a block, no more than two are held at once, as many were
\* granted and freed before, and nothing else runs.
Fresh ==
  \/ call.todo \in {MkfileSteps, MkdirSteps}
  \/ call.op = "write" /\ call.todo = WriteSteps(inode[call.ino])

Refused == ~Idle /\ Fresh /\ Failed /\ UNCHANGED crashes

--------------------------------------------------------------------------------
\* ext2_vfs_finddir through the vnode's own copy of the directory's inode.
Lookup(dir, name) ==
  LET hits == {k \in DOMAIN dir.ents : dir.ents[k].name = name}
  IN  IF hits = {} THEN 0 ELSE dir.ents[Min(hits)].ino

Finddir(v, name, s) ==
  LET i == Lookup(block[vnode[v].inode.block], name) IN
  /\ Idle /\ IsDirV(v) /\ i # 0
  /\ vnode' = [vnode EXCEPT ![s] = Load(i)]
  /\ UNCHANGED <<disk, call, ret, lost, crashes>>

\* ext2_mount of a disk that may be mounted already.
Remount(s) ==
  /\ Idle /\ vnode' = [vnode EXCEPT ![s] = Load(EXT2_ROOT_INO)]
  /\ UNCHANGED <<disk, call, ret, lost, crashes>>

\* The power fails and the machine boots and mounts again.
Crash ==
  /\ crashes < MaxCrash /\ crashes' = crashes + 1
  /\ vnode' = [s \in Slots |-> IF s = 1 THEN Load(EXT2_ROOT_INO) ELSE NoVnode]
  /\ call' = NoCall /\ ret' = "none"
  /\ UNCHANGED <<disk, lost>>

Next ==
  \/ \E v \in Slots :
       \/ \E n \in Names : Mkfile(v, n) \/ Mkdir(v, n)
       \/ \E n \in Names, s \in Slots \ {1} : Finddir(v, n, s)
       \/ Write(v)
  \/ \E s \in Slots \ {1} : Remount(s)
  \/ AllocInode \/ CountInode \/ AllocBlock \/ CountBlock
  \/ WriteDirBlock \/ WriteData \/ WriteInode \/ AddEntry
  \/ Refused \/ Crash

Spec == Init /\ [][Next]_vars
--------------------------------------------------------------------------------
Kinds == {"ibmap", "bbmap", "bgd", "inode", "dirblock", "data", "dirent"}
InodeRec == [mode : {"raw", "file", "dir"}, block : Blocks \cup {0}]

\* The two bitmaps, the table, the blocks, the vnodes and the call have the
\* shapes the driver gives them; no directory block is written past its end.
TypeOK ==
  /\ ibmap \subseteq Inodes /\ bbmap \subseteq Blocks
  /\ ifree \in 0 .. CountMax /\ bfree \in 0 .. CountMax
  /\ inode \in [Inodes -> InodeRec]
  /\ \A b \in Blocks :
       /\ block[b].kind \in {"raw", "dir", "data"} /\ Len(block[b].ents) <= DirSlots
       /\ Range(block[b].ents) \subseteq [name : Names, ino : Inodes]
  /\ vnode \in [Slots -> [ino : Inodes \cup {0}, inode : InodeRec]]
  /\ ret \in {"none", "ok", "fail"} /\ lost \subseteq Kinds

Entries == UNION {Range(block[b].ents) : b \in Blocks}

\* Whenever the power fails, a name in a directory leads to an inode that is
\* marked used and was written: the bitmap and the inode go out before the entry
\* (ext2.c:132, 300, 305 and 402, 406). Only the loss of that very write breaks it.
EntriesNameInodes ==
  \A e \in Entries :
    /\ "ibmap" \in lost \/ e.ino \in ibmap
    /\ "inode" \in lost \/ inode[e.ino].mode # "raw"

\* Two names never lead to one inode and two inodes never own one block, through
\* crashes and refused buffers, unless a write of that bitmap was lost.
OneOwner ==
  /\ TypeOK
  /\ "ibmap" \in lost \/
     \A b, c \in Blocks : \A i \in DOMAIN block[b].ents, j \in DOMAIN block[c].ents :
       block[b].ents[i].ino = block[c].ents[j].ino => b = c /\ i = j
  /\ "bbmap" \in lost \/
     \A i, j \in Inodes : i # j => inode[i].block = 0 \/ inode[i].block # inode[j].block

\* An inode never points at a block it has not written: a crash inside a write or
\* a mkdir leaves the block unreachable, not a file or a directory made of what
\* was on the disk before (ext2.c:329 before 333, 399 before 402).
NoStaleBlock ==
  \A i \in Inodes :
    inode[i].block # 0 /\ lost \cap {"ibmap", "bbmap", "inode"} = {} =>
      IF inode[i].mode = "dir"
      THEN "dirblock" \in lost \/ block[inode[i].block].kind = "dir"
      ELSE "data" \in lost \/ block[inode[i].block].kind = "data"

FreeInodes == MaxIno - Cardinality(ibmap)
FreeBlocks == MaxBlock - Cardinality(bbmap)

\* The descriptor's two counts follow the bitmaps: with no write lost, a count is
\* too high by at most one for each power failure, and never too low, so it never
\* wraps below zero.
CountsFollowBitmaps ==
  lost \cap {"ibmap", "bbmap", "bgd"} = {} =>
    /\ FreeInodes <= ifree /\ ifree <= FreeInodes + crashes + 1
    /\ FreeBlocks <= bfree /\ bfree <= FreeBlocks + crashes + 1
    /\ Idle => ifree + bfree <= FreeInodes + FreeBlocks + crashes

\* A vnode keeps the copy of the inode it was made with. However stale, the copy
\* has no block or the block the file still has, so a read through an old
\* descriptor finds the file's bytes or none, never another file's (ext2.c:344).
CacheNeverForeign ==
  "ibmap" \in lost \/
  \A s \in Slots : vnode[s].ino # 0 =>
    /\ vnode[s].inode.block \in {0, inode[vnode[s].ino].block}
    /\ vnode[s].inode.mode = inode[vnode[s].ino].mode

\* docs.typ:771, SYS_MKDIR "Create directory" returns "0 / -1": when mkdir returns
\* success and no write was lost, its parent has the name. ext2_vfs_mkdir does not
\* look at what ext2_dir_add_entry returns (ext2.c:406).
MkdirMakes ==
  [][call.op = "mkdir" /\ ret' = "ok" /\ lost' = {} =>
       Lookup(block'[inode[vnode[call.v].ino].block], call.name) # 0]_vars
================================================================================
