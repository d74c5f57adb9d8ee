------------------------------- MODULE Ext2Proofs ------------------------------
(***************************************************************************)
(* Proofs about the ext2 driver (Ext2.tla), for every number of inodes, blocks,  *)
(* entries, names and vnodes, and any number of power failures and lost writes.  *)
(***************************************************************************)
EXTENDS Ext2, FiniteSetTheorems, WellFoundedInduction, TLAPS

--------------------------------------------------------------------------------
(* The inductive invariant.                                                     *)
Entry    == [name : Names, ino : Inodes]
BlockRec == [kind : {"raw", "dir", "data"}, ents : Seq(Entry)]
VnodeRec == [ino : Inodes \cup {0}, inode : InodeRec]

\* What is left of each call: the lists of steps that it has from its start on.
MkfileLeft == { <<"ibit", "icount", "inode", "dirent">>, <<"icount", "inode", "dirent">>,
                <<"inode", "dirent">>, <<"dirent">> }
MkdirLeft  == { <<"ibit", "icount", "bbit", "bcount", "dirblock", "inode", "dirent">>,
                <<"icount", "bbit", "bcount", "dirblock", "inode", "dirent">>,
                <<"bbit", "bcount", "dirblock", "inode", "dirent">>,
                <<"bcount", "dirblock", "inode", "dirent">>,
                <<"dirblock", "inode", "dirent">>, <<"inode", "dirent">>, <<"dirent">> }
WriteLeft  == { <<"bbit", "bcount", "data", "inode">>, <<"bcount", "data", "inode">>,
                <<"data", "inode">>, <<"inode">> }
Left == MkfileLeft \cup MkdirLeft \cup WriteLeft \cup {<<>>}

CallRec == [op : {"none", "mkfile", "mkdir", "write"}, v : Slots, name : Names \cup {NoName},
            ino : Inodes \cup {0}, blk : Blocks \cup {0}, todo : Left]

Typed ==
  /\ ibmap \subseteq Inodes /\ bbmap \subseteq Blocks
  /\ ifree \in 0 .. CountMax /\ bfree \in 0 .. CountMax
  /\ inode \in [Inodes -> InodeRec] /\ block \in [Blocks -> BlockRec]
  /\ \A b \in Blocks : Len(block[b].ents) <= DirSlots
  /\ vnode \in [Slots -> VnodeRec] /\ call \in CallRec
  /\ ret \in {"none", "ok", "fail"} /\ lost \subseteq Kinds /\ crashes \in Nat

\* A directory has a block, and a slot without a vnode is no directory.
DirsHaveBlocks ==
  /\ \A i \in Inodes : inode[i].mode = "dir" => inode[i].block # 0
  /\ \A s \in Slots : vnode[s].inode.mode = "dir" => vnode[s].inode.block # 0 /\ vnode[s].ino # 0

\* Whatever leads to an inode, and every inode that leads to a block, leads to one
\* that is marked.
Marks ==
  /\ EXT2_ROOT_INO \in ibmap
  /\ \/ "ibmap" \in lost
     \/ /\ \A b \in Blocks : \A k \in DOMAIN block[b].ents : block[b].ents[k].ino \in ibmap
        /\ \A s \in Slots : vnode[s].ino # 0 => vnode[s].ino \in ibmap
  /\ "bbmap" \in lost \/ \A i \in Inodes : inode[i].block # 0 => inode[i].block \in bbmap

Written ==
  "inode" \in lost \/
  \A b \in Blocks : \A k \in DOMAIN block[b].ents : inode[block[b].ents[k].ino].mode # "raw"

Owned ==
  /\ "ibmap" \in lost \/
     \A b, c \in Blocks : \A i \in DOMAIN block[b].ents, j \in DOMAIN block[c].ents :
       block[b].ents[i].ino = block[c].ents[j].ino => b = c /\ i = j
  /\ "bbmap" \in lost \/
     \A i, j \in Inodes : i # j => inode[i].block = 0 \/ inode[i].block # inode[j].block

\* The counts are too high by one for a bit that is set and not yet counted, and by
\* one for each power failure at that point; PendingI and PendingB are those bits.
PendingI == IF AtStep("icount") THEN 1 ELSE 0
PendingB == IF AtStep("bcount") THEN 1 ELSE 0
CountLost == "ibmap" \in lost \/ "bbmap" \in lost \/ "bgd" \in lost
Balanced  ==
  /\ FreeInodes + PendingI <= ifree /\ FreeBlocks + PendingB <= bfree
  /\ ifree + bfree <= FreeInodes + FreeBlocks + PendingI + PendingB + crashes
Counted   == CountLost \/ Balanced

\* No entry and no vnode leads to inode i.
Unnamed(i) ==
  /\ \A b \in Blocks : \A k \in DOMAIN block[b].ents : block[b].ents[k].ino # i
  /\ \A s \in Slots : vnode[s].ino # i

\* What mkfile and mkdir have done by the step they are at.
MakingIno ==
  call.op \in {"mkfile", "mkdir"} =>
    /\ IsDirV(call.v) /\ call.name \in Names
    /\ ~AtStep("ibit") => /\ call.ino \in Inodes
                          /\ "ibmap" \in lost \/ (call.ino \in ibmap /\ Unnamed(call.ino))
    /\ AtStep("dirent") => "inode" \in lost \/ inode[call.ino].mode # "raw"

MakingBlk ==
  call.op = "mkdir" =>
    /\ AtStep("bcount") \/ AtStep("dirblock") \/ AtStep("inode") =>
         /\ call.blk \in Blocks
         /\ "bbmap" \in lost \/ (call.blk \in bbmap /\ \A i \in Inodes : inode[i].block # call.blk)
    /\ AtStep("inode") => "dirblock" \in lost \/ block[call.blk].kind = "dir"

\* What write has done.
Writing ==
  call.op = "write" =>
    /\ call.ino \in Inodes /\ ("ibmap" \in lost \/ inode[call.ino].mode # "dir")
    /\ IF AtStep("bbit") THEN inode[call.ino].block = 0
       ELSE /\ call.blk \in Blocks /\ inode[call.ino].block \in {0, call.blk}
            /\ \/ "bbmap" \in lost
               \/ /\ call.blk \in bbmap
                  /\ \A i \in Inodes : inode[i].block = call.blk => i = call.ino
    /\ AtStep("inode") => "data" \in lost \/ block[call.blk].kind = "data"

\* The steps left are those of the call.
Shape ==
  /\ call.op = "none"   => call = NoCall
  /\ call.op = "mkfile" => call.todo \in MkfileLeft /\ call.blk = 0
  /\ call.op = "mkdir"  => call.todo \in MkdirLeft
  /\ call.op = "write"  => call.todo \in WriteLeft

InCall == Shape /\ MakingIno /\ MakingBlk /\ Writing

IInv ==
  /\ Typed /\ DirsHaveBlocks /\ Marks /\ Written /\ Owned /\ NoStaleBlock /\ CacheNeverForeign
  /\ Counted /\ InCall

--------------------------------------------------------------------------------
(* Operators of the module.                                                     *)

\* Every non-empty set of naturals has a least member.
LEMMA LeastNat ==
  ASSUME NEW T \in SUBSET Nat, T # {}
  PROVE  \E x \in T : \A y \in T : x <= y
<1>1. PICK x \in T : \A y \in T : ~(<<y, x>> \in OpToRel(<, Nat))
  BY NatLessThanWellFounded, WFMin
<1>2. \A y \in T : ~(y < x)
  BY <1>1 DEF OpToRel
<1> QED BY <1>2

\* Min of such a set is a member.
LEMMA MinFacts ==
  ASSUME NEW T \in SUBSET Nat, T # {}
  PROVE  Min(T) \in T
<1>1. \E x \in T : \A y \in T : x <= y
  BY LeastNat
<1> QED BY <1>1 DEF Min

\* alloc_inode and alloc_block hand out a number whose bit is clear, or 0.
LEMMA FirstFreeFacts ==
  ASSUME NEW n \in Nat, NEW map
  PROVE  FirstFree(map, 1 .. n) = 0 \/ FirstFree(map, 1 .. n) \in (1 .. n) \ map
<1>1. (1 .. n) \ map \in SUBSET Nat
  OBVIOUS
<1>2. CASE (1 .. n) \ map = {}
  BY <1>2 DEF FirstFree
<1>3. CASE (1 .. n) \ map # {}
  <2>1. Min((1 .. n) \ map) \in (1 .. n) \ map
    BY <1>1, <1>3, MinFacts
  <2> QED BY <1>3, <2>1 DEF FirstFree
<1> QED BY <1>2, <1>3

\* The steps a call has left, and the one that follows each.
MkfileNext(t) ==
  /\ t # <<>> /\ Head(t) \in {"ibit", "icount", "inode", "dirent"}
  /\ IF Head(t) = "dirent" THEN ~(Len(t) > 1)
     ELSE Len(t) > 1 /\ Tail(t) \in MkfileLeft /\ Tail(t) # <<>>
  /\ Head(t) = "ibit" => Head(Tail(t)) = "icount"
  /\ Head(t) = "icount" => Head(Tail(t)) = "inode"
  /\ Head(t) = "inode" => Head(Tail(t)) = "dirent"
MkdirNext(t) ==
  /\ t # <<>>
  /\ Head(t) \in {"ibit", "icount", "bbit", "bcount", "dirblock", "inode", "dirent"}
  /\ IF Head(t) = "dirent" THEN ~(Len(t) > 1)
     ELSE Len(t) > 1 /\ Tail(t) \in MkdirLeft /\ Tail(t) # <<>>
  /\ Head(t) = "ibit" => Head(Tail(t)) = "icount"
  /\ Head(t) = "icount" => Head(Tail(t)) = "bbit"
  /\ Head(t) = "bbit" => Head(Tail(t)) = "bcount"
  /\ Head(t) = "bcount" => Head(Tail(t)) = "dirblock"
  /\ Head(t) = "dirblock" => Head(Tail(t)) = "inode"
  /\ Head(t) = "inode" => Head(Tail(t)) = "dirent"
WriteNext(t) ==
  /\ t # <<>> /\ Head(t) \in {"bbit", "bcount", "data", "inode"}
  /\ IF Head(t) = "inode" THEN ~(Len(t) > 1)
     ELSE Len(t) > 1 /\ Tail(t) \in WriteLeft /\ Tail(t) # <<>>
  /\ Head(t) = "bbit" => Head(Tail(t)) = "bcount"
  /\ Head(t) = "bcount" => Head(Tail(t)) = "data"
  /\ Head(t) = "data" => Head(Tail(t)) = "inode"

\* The steps of mkfile in their order.
LEMMA MkfileOrder ==
  ASSUME NEW t \in MkfileLeft PROVE MkfileNext(t)
<1>1. CASE t = <<"ibit", "icount", "inode", "dirent">>
  <2>1. Tail(t) = <<"icount", "inode", "dirent">>
    BY <1>1
  <2> QED BY <1>1, <2>1 DEF MkfileLeft, MkfileNext
<1>2. CASE t = <<"icount", "inode", "dirent">>
  <2>1. Tail(t) = <<"inode", "dirent">>
    BY <1>2
  <2> QED BY <1>2, <2>1 DEF MkfileLeft, MkfileNext
<1>3. CASE t = <<"inode", "dirent">>
  <2>1. Tail(t) = <<"dirent">>
    BY <1>3
  <2> QED BY <1>3, <2>1 DEF MkfileLeft, MkfileNext
<1>4. CASE t = <<"dirent">>
  BY <1>4 DEF MkfileNext
<1> QED BY <1>1, <1>2, <1>3, <1>4 DEF MkfileLeft
\* The steps of mkdir in their order.
LEMMA MkdirOrder ==
  ASSUME NEW t \in MkdirLeft PROVE MkdirNext(t)
<1>1. CASE t = <<"ibit", "icount", "bbit", "bcount", "dirblock", "inode", "dirent">>
  <2>1. Tail(t) = <<"icount", "bbit", "bcount", "dirblock", "inode", "dirent">>
    BY <1>1
  <2> QED BY <1>1, <2>1 DEF MkdirLeft, MkdirNext
<1>2. CASE t = <<"icount", "bbit", "bcount", "dirblock", "inode", "dirent">>
  <2>1. Tail(t) = <<"bbit", "bcount", "dirblock", "inode", "dirent">>
    BY <1>2
  <2> QED BY <1>2, <2>1 DEF MkdirLeft, MkdirNext
<1>3. CASE t = <<"bbit", "bcount", "dirblock", "inode", "dirent">>
  <2>1. Tail(t) = <<"bcount", "dirblock", "inode", "dirent">>
    BY <1>3
  <2> QED BY <1>3, <2>1 DEF MkdirLeft, MkdirNext
<1>4. CASE t = <<"bcount", "dirblock", "inode", "dirent">>
  <2>1. Tail(t) = <<"dirblock", "inode", "dirent">>
    BY <1>4
  <2> QED BY <1>4, <2>1 DEF MkdirLeft, MkdirNext
<1>5. CASE t = <<"dirblock", "inode", "dirent">>
  <2>1. Tail(t) = <<"inode", "dirent">>
    BY <1>5
  <2> QED BY <1>5, <2>1 DEF MkdirLeft, MkdirNext
<1>6. CASE t = <<"inode", "dirent">>
  <2>1. Tail(t) = <<"dirent">>
    BY <1>6
  <2> QED BY <1>6, <2>1 DEF MkdirLeft, MkdirNext
<1>7. CASE t = <<"dirent">>
  BY <1>7 DEF MkdirNext
<1> QED BY <1>1, <1>2, <1>3, <1>4, <1>5, <1>6, <1>7 DEF MkdirLeft

\* The steps of write in their order.
LEMMA WriteOrder ==
  ASSUME NEW t \in WriteLeft PROVE WriteNext(t)
<1>1. CASE t = <<"bbit", "bcount", "data", "inode">>
  <2>1. Tail(t) = <<"bcount", "data", "inode">>
    BY <1>1
  <2> QED BY <1>1, <2>1 DEF WriteLeft, WriteNext
<1>2. CASE t = <<"bcount", "data", "inode">>
  <2>1. Tail(t) = <<"data", "inode">>
    BY <1>2
  <2> QED BY <1>2, <2>1 DEF WriteLeft, WriteNext
<1>3. CASE t = <<"data", "inode">>
  <2>1. Tail(t) = <<"inode">>
    BY <1>3
  <2> QED BY <1>3, <2>1 DEF WriteLeft, WriteNext
<1>4. CASE t = <<"inode">>
  BY <1>4 DEF WriteNext
<1> QED BY <1>1, <1>2, <1>3, <1>4 DEF WriteLeft

\* Which calls are at a step, and whether it is their last.
LEMMA StepsOf ==
  ASSUME Shape, call \in CallRec
  PROVE  /\ call.op = "none" => Idle /\ call.todo = <<>>
         /\ call.op # "none" => ~Idle
         /\ AtStep("ibit") \/ AtStep("icount") => call.op \in {"mkfile", "mkdir"}
         /\ AtStep("bbit") \/ AtStep("bcount") => call.op \in {"mkdir", "write"}
         /\ AtStep("dirblock") => call.op = "mkdir"
         /\ AtStep("data") => call.op = "write"
         /\ AtStep("inode") => call.op \in {"mkfile", "mkdir", "write"}
         /\ AtStep("dirent") => call.op \in {"mkfile", "mkdir"}
         /\ ~Idle => (Len(call.todo) > 1 <=>
                        ~(AtStep("dirent") \/ (AtStep("inode") /\ call.op = "write")))
<1>1. call.op \in {"none", "mkfile", "mkdir", "write"}
  BY DEF CallRec
<1>2. CASE call.op = "none"
  BY <1>2 DEF Shape, NoCall, Idle, AtStep
<1>3. CASE call.op = "mkfile"
  <2>1. MkfileNext(call.todo)
    BY <1>3, MkfileOrder DEF Shape
  <2>2. call.todo # <<>> /\ call.op # "none"
    BY <1>3, <2>1 DEF MkfileNext
  <2>3. Len(call.todo) > 1 <=> Head(call.todo) # "dirent"
    BY <2>1 DEF MkfileNext
  <2> QED BY <1>3, <2>1, <2>2, <2>3 DEF MkfileNext, Idle, AtStep
<1>4. CASE call.op = "mkdir"
  <2>1. MkdirNext(call.todo)
    BY <1>4, MkdirOrder DEF Shape
  <2>2. call.todo # <<>> /\ call.op # "none"
    BY <1>4, <2>1 DEF MkdirNext
  <2>3. Len(call.todo) > 1 <=> Head(call.todo) # "dirent"
    BY <2>1 DEF MkdirNext
  <2> QED BY <1>4, <2>1, <2>2, <2>3 DEF MkdirNext, Idle, AtStep
<1>5. CASE call.op = "write"
  <2>1. WriteNext(call.todo)
    BY <1>5, WriteOrder DEF Shape
  <2>2. call.todo # <<>> /\ call.op # "none"
    BY <1>5, <2>1 DEF WriteNext
  <2>3. Len(call.todo) > 1 <=> Head(call.todo) # "inode"
    BY <2>1 DEF WriteNext
  <2> QED BY <1>5, <2>1, <2>2, <2>3 DEF WriteNext, Idle, AtStep
<1> QED BY <1>1, <1>2, <1>3, <1>4, <1>5

\* A call goes on with its next step; i and b are what it has allocated.
Onward(i, b) ==
  /\ call'.op = call.op /\ call'.v = call.v /\ call'.name = call.name
  /\ call'.ino = i /\ call'.blk = b /\ call'.todo = Tail(call.todo)
NextIs ==
  /\ AtStep("ibit")     => AtStep("icount")'
  /\ AtStep("icount")   => IF call.op = "mkfile" THEN AtStep("inode")' ELSE AtStep("bbit")'
  /\ AtStep("bbit")     => AtStep("bcount")'
  /\ AtStep("bcount")   => IF call.op = "mkdir" THEN AtStep("dirblock")' ELSE AtStep("data")'
  /\ AtStep("dirblock") => AtStep("inode")'
  /\ AtStep("data")     => AtStep("inode")'
  /\ AtStep("inode")    => AtStep("dirent")'

\* What the call is then at, in the shape it has.
LEMMA OnwardFacts ==
  ASSUME Shape, call \in CallRec, ~Idle, Len(call.todo) > 1,
         NEW i \in Inodes \cup {0}, NEW b \in Blocks \cup {0},
         call.op = "mkfile" => b = 0, Onward(i, b)
  PROVE  /\ call'.todo \in Left /\ Shape' /\ NextIs /\ ~Idle' /\ call.op # "none"
<1>1. call.op \in {"none", "mkfile", "mkdir", "write"} /\ call'.op = call.op
      /\ call'.todo = Tail(call.todo) /\ call'.blk = b
  BY DEF CallRec, Onward
<1>2. call.op # "none"
  BY StepsOf
<1>3. CASE call.op = "mkfile"
  <2>1. MkfileNext(call.todo)
    BY <1>3, MkfileOrder DEF Shape
  <2>2. call'.todo \in MkfileLeft /\ call'.todo # <<>>
    BY <1>1, <1>3, <2>1, StepsOf DEF MkfileNext, AtStep
  <2>3. NextIs
    BY <1>1, <1>3, <2>1, <2>2 DEF MkfileNext, NextIs, Idle, AtStep
  <2> QED BY <1>1, <1>3, <2>2, <2>3 DEF Shape, Left, Idle
<1>4. CASE call.op = "mkdir"
  <2>1. MkdirNext(call.todo)
    BY <1>4, MkdirOrder DEF Shape
  <2>2. call'.todo \in MkdirLeft /\ call'.todo # <<>>
    BY <1>1, <1>4, <2>1, StepsOf DEF MkdirNext, AtStep
  <2>3. NextIs
    BY <1>1, <1>4, <2>1, <2>2 DEF MkdirNext, NextIs, Idle, AtStep
  <2> QED BY <1>1, <1>4, <2>2, <2>3 DEF Shape, Left, Idle
<1>5. CASE call.op = "write"
  <2>1. WriteNext(call.todo)
    BY <1>5, WriteOrder DEF Shape
  <2>2. call'.todo \in WriteLeft /\ call'.todo # <<>>
    BY <1>1, <1>5, <2>1, StepsOf DEF WriteNext, AtStep
  <2>3. NextIs
    BY <1>1, <1>5, <2>1, <2>2 DEF WriteNext, NextIs, Idle, AtStep
  <2> QED BY <1>1, <1>5, <2>2, <2>3 DEF Shape, Left, Idle
<1> QED BY <1>1, <1>2, <1>3, <1>4, <1>5

--------------------------------------------------------------------------------
(* What the steps keep of the invariant.                                        *)
DiskInv == DirsHaveBlocks /\ Marks /\ Written /\ Owned /\ NoStaleBlock /\ CacheNeverForeign

\* This part of the invariant is about the table, the blocks and the vnodes; a bit
\* that is set in a bitmap and a write that is lost only weaken it.
LEMMA DiskKept ==
  ASSUME DiskInv, UNCHANGED <<inode, block, vnode>>, lost \subseteq lost',
         ibmap \subseteq ibmap', bbmap \subseteq bbmap'
  PROVE  DiskInv'
<1>1. DirsHaveBlocks' /\ CacheNeverForeign' /\ Written'
  BY DEF DiskInv, DirsHaveBlocks, CacheNeverForeign, Written
<1>2. Marks'
  <2>1. EXT2_ROOT_INO \in ibmap'
    BY DEF DiskInv, Marks
  <2>2. "ibmap" \in lost' \/
          /\ \A b \in Blocks : \A k \in DOMAIN block'[b].ents : block'[b].ents[k].ino \in ibmap'
          /\ \A s \in Slots : vnode'[s].ino # 0 => vnode'[s].ino \in ibmap'
    BY DEF DiskInv, Marks
  <2>3. "bbmap" \in lost' \/ \A i \in Inodes : inode'[i].block # 0 => inode'[i].block \in bbmap'
    BY DEF DiskInv, Marks
  <2> QED BY <2>1, <2>2, <2>3 DEF Marks, EXT2_ROOT_INO
<1>3. Owned'
  BY DEF DiskInv, Owned
<1>4. NoStaleBlock'
  BY DEF DiskInv, NoStaleBlock
<1> QED BY <1>1, <1>2, <1>3, <1>4 DEF DiskInv

\* The types of what a step leaves alone.
LEMMA TypedKept ==
  ASSUME /\ call' \in CallRec /\ vnode' \in [Slots -> VnodeRec]
         /\ ibmap' \subseteq Inodes /\ bbmap' \subseteq Blocks
         /\ ifree' \in 0 .. CountMax /\ bfree' \in 0 .. CountMax
         /\ inode' \in [Inodes -> InodeRec] /\ block' \in [Blocks -> BlockRec]
         /\ \A b \in Blocks : Len(block'[b].ents) <= DirSlots
         /\ ret' \in {"none", "ok", "fail"} /\ lost' \subseteq Kinds /\ crashes' \in Nat
  PROVE  Typed'
BY DEF Typed

\* No call is under way after a return.
LEMMA NoCallFacts ==
  ASSUME call' = NoCall
  PROVE  call' \in CallRec /\ InCall' /\ Idle'
<1>1. /\ call'.op = "none" /\ call'.v = 1 /\ call'.name = NoName /\ call'.ino = 0
      /\ call'.blk = 0 /\ call'.todo = <<>>
  BY DEF NoCall
<1>2. 1 \in Slots /\ <<>> \in Left
  BY Ext2Assumption DEF Ext2Assumption, Slots, Left
<1>3. call' \in CallRec
  BY <1>2, Zenon DEF NoCall, CallRec
<1>4. InCall'
  BY <1>1 DEF InCall, Shape, MakingIno, MakingBlk, Writing
<1> QED BY <1>1, <1>3, <1>4 DEF Idle

\* A step that is not the last one leaves the rest of the call to do.
LEMMA MovedFacts ==
  ASSUME call \in CallRec, Tail(call.todo) \in Left, NEW i \in Inodes \cup {0},
         NEW b \in Blocks \cup {0},
         \/ call' = [call EXCEPT !.ino = i, !.todo = Tail(@)] /\ b = call.blk
         \/ call' = [call EXCEPT !.blk = b, !.todo = Tail(@)] /\ i = call.ino
         \/ call' = [call EXCEPT !.todo = Tail(@)] /\ i = call.ino /\ b = call.blk
  PROVE  call' \in CallRec /\ Onward(i, b)
<1>1. CASE call' = [call EXCEPT !.ino = i, !.todo = Tail(@)] /\ b = call.blk
  BY <1>1, Zenon DEF CallRec, Onward
<1>2. CASE call' = [call EXCEPT !.blk = b, !.todo = Tail(@)] /\ i = call.ino
  BY <1>2, Zenon DEF CallRec, Onward
<1>3. CASE call' = [call EXCEPT !.todo = Tail(@)] /\ i = call.ino /\ b = call.blk
  BY <1>3, Zenon DEF CallRec, Onward
<1> QED BY <1>1, <1>2, <1>3

--------------------------------------------------------------------------------
(* The counts of free inodes and blocks.                                        *)

\* A bitmap has at most as many bits set as it has; setting a clear one adds one.
LEMMA BitmapFacts ==
  ASSUME NEW n \in Nat, NEW map \in SUBSET (1 .. n)
  PROVE  /\ Cardinality(map) \in 0 .. n
         /\ \A i \in (1 .. n) \ map : Cardinality(map \cup {i}) = Cardinality(map) + 1
<1>1. IsFiniteSet(1 .. n) /\ Cardinality(1 .. n) = n
  <2>1. IF 1 > n THEN Cardinality(1 .. n) = 0 ELSE Cardinality(1 .. n) = n - 1 + 1
    BY FS_Interval
  <2> QED BY <2>1, FS_Interval
<1>2. IsFiniteSet(map) /\ Cardinality(map) <= Cardinality(1 .. n)
  BY <1>1, FS_Subset
<1>3. Cardinality(map) \in Nat
  BY <1>2, FS_CardinalityType
<1>4. \A i \in (1 .. n) \ map : Cardinality(map \cup {i}) = Cardinality(map) + 1
  BY <1>2, FS_AddElement
<1> QED BY <1>1, <1>2, <1>3, <1>4

\* The numbers of clear bits, and what setting one does to them.
LEMMA FreeFacts ==
  ASSUME ibmap \subseteq Inodes, bbmap \subseteq Blocks
  PROVE  /\ MaxIno \in Nat /\ MaxBlock \in Nat
         /\ FreeInodes \in Nat /\ FreeBlocks \in Nat
         /\ PendingI \in {0, 1} /\ PendingB \in {0, 1}
         /\ \A i \in Inodes \ ibmap : ibmap' = ibmap \cup {i} => FreeInodes' = FreeInodes - 1
         /\ \A b \in Blocks \ bbmap : bbmap' = bbmap \cup {b} => FreeBlocks' = FreeBlocks - 1
<1>1. MaxIno \in Nat /\ MaxBlock \in Nat
  <2>1. CountMax \in Nat
    BY DEF CountMax
  <2> QED BY <2>1, Ext2Assumption DEF Ext2Assumption
<1>2. /\ Cardinality(ibmap) \in 0 .. MaxIno
      /\ \A i \in Inodes \ ibmap : Cardinality(ibmap \cup {i}) = Cardinality(ibmap) + 1
  BY <1>1, BitmapFacts DEF Inodes
<1>3. /\ Cardinality(bbmap) \in 0 .. MaxBlock
      /\ \A b \in Blocks \ bbmap : Cardinality(bbmap \cup {b}) = Cardinality(bbmap) + 1
  BY <1>1, BitmapFacts DEF Blocks
<1>4. FreeInodes \in Nat /\ FreeBlocks \in Nat
  BY <1>1, <1>2, <1>3 DEF FreeInodes, FreeBlocks
<1>5. PendingI \in {0, 1} /\ PendingB \in {0, 1}
  BY DEF PendingI, PendingB
<1>6. ASSUME NEW i \in Inodes \ ibmap, ibmap' = ibmap \cup {i}
      PROVE  FreeInodes' = FreeInodes - 1
  BY <1>1, <1>2, <1>6 DEF FreeInodes
<1>7. ASSUME NEW b \in Blocks \ bbmap, bbmap' = bbmap \cup {b}
      PROVE  FreeBlocks' = FreeBlocks - 1
  BY <1>1, <1>3, <1>7 DEF FreeBlocks
<1> QED BY <1>1, <1>4, <1>5, <1>6, <1>7

\* A step that leaves bitmaps and counts alone keeps Counted; a bit not counted yet
\* may turn into a power failure.
LEMMA CountedKept ==
  ASSUME Typed, Counted, UNCHANGED <<ibmap, bbmap, ifree, bfree>>, lost \subseteq lost',
         crashes' \in Nat,
         /\ PendingI' <= PendingI /\ PendingB' <= PendingB
         /\ PendingI + PendingB + crashes <= PendingI' + PendingB' + crashes'
  PROVE  Counted'
<1>1. /\ FreeInodes \in Nat /\ FreeBlocks \in Nat /\ PendingI \in {0, 1} /\ PendingB \in {0, 1}
      /\ crashes \in Nat /\ ifree \in Int /\ bfree \in Int
  BY FreeFacts DEF Typed
<1>2. FreeInodes' = FreeInodes /\ FreeBlocks' = FreeBlocks
  BY DEF FreeInodes, FreeBlocks
<1>3. PendingI' \in {0, 1} /\ PendingB' \in {0, 1}
  BY DEF PendingI, PendingB
<1>4. CountLost => CountLost'
  BY DEF CountLost
<1>5. ASSUME Balanced PROVE Balanced'
  <2>1. PICK p \in Int, q \in Int, c \in Int : p = PendingI' /\ q = PendingB' /\ c = crashes'
    BY <1>3
  <2>2. p <= PendingI /\ q <= PendingB /\ PendingI + PendingB + crashes <= p + q + c
    BY <2>1
  <2>3. /\ FreeInodes + p <= ifree /\ FreeBlocks + q <= bfree
        /\ ifree + bfree <= FreeInodes + FreeBlocks + p + q + c
    BY <1>1, <1>5, <2>2 DEF Balanced
  <2>4. ifree' = ifree /\ bfree' = bfree
    OBVIOUS
  <2> QED BY <1>2, <2>1, <2>3, <2>4, Zenon DEF Balanced
<1> QED BY <1>4, <1>5 DEF Counted

\* What Dec computes of a count that is not 0.
LEMMA DecDown ==
  ASSUME NEW n \in Nat, n <= CountMax, n # 0 PROVE Dec(n) = n - 1
BY DEF Dec, CountMax

\* Counting down a count that is not 0 does not wrap.
LEMMA DecFacts ==
  ASSUME NEW n \in 0 .. CountMax
  PROVE  Dec(n) \in 0 .. CountMax /\ (n # 0 => Dec(n) = n - 1)
<1>1. n \in Nat /\ n <= CountMax /\ CountMax \in Nat
  <2>1. CountMax \in Nat
    BY DEF CountMax
  <2> QED BY <2>1
<1>2. CASE n = 0
  <2>1. Dec(n) = CountMax
    BY <1>2 DEF Dec, CountMax
  <2> QED BY <1>1, <1>2, <2>1
<1>3. CASE n # 0
  <2>1. Dec(n) = n - 1
    BY <1>1, <1>3, DecDown
  <2> QED BY <1>1, <1>3, <2>1
<1> QED BY <1>2, <1>3

--------------------------------------------------------------------------------
(* The invariant holds at the start of each call and after it.                  *)

\* The first step of each call.
LEMMA FirstSteps ==
  /\ MkfileSteps \in MkfileLeft /\ MkfileSteps # <<>> /\ Head(MkfileSteps) = "ibit"
  /\ MkdirSteps \in MkdirLeft /\ MkdirSteps # <<>> /\ Head(MkdirSteps) = "ibit"
  /\ \A i : /\ WriteSteps(i) \in WriteLeft /\ WriteSteps(i) # <<>>
            /\ Head(WriteSteps(i)) = IF i.block = 0 THEN "bbit" ELSE "data"
<1>1. MkfileSteps \in MkfileLeft /\ MkfileSteps # <<>> /\ Head(MkfileSteps) = "ibit"
  BY DEF MkfileSteps, MkfileLeft
<1>2. MkdirSteps \in MkdirLeft /\ MkdirSteps # <<>> /\ Head(MkdirSteps) = "ibit"
  BY DEF MkdirSteps, MkdirLeft
<1>3. ASSUME NEW i
      PROVE  /\ WriteSteps(i) \in WriteLeft /\ WriteSteps(i) # <<>>
             /\ Head(WriteSteps(i)) = IF i.block = 0 THEN "bbit" ELSE "data"
  <2>1. CASE i.block = 0
    BY <2>1 DEF WriteSteps, WriteLeft
  <2>2. CASE i.block # 0
    BY <2>2 DEF WriteSteps, WriteLeft
  <2> QED BY <2>1, <2>2
<1> QED BY <1>1, <1>2, <1>3

\* When no call is under way, there is none.
LEMMA IdleFacts ==
  ASSUME Typed, InCall, Idle
  PROVE  call = NoCall /\ PendingI = 0 /\ PendingB = 0
<1>1. call.op = "none"
  BY StepsOf DEF Typed, InCall
<1> QED BY <1>1 DEF InCall, Shape, PendingI, PendingB, AtStep

\* What a new call is.
LEMMA BeginFacts ==
  ASSUME IInv, NEW op \in {"mkfile", "mkdir", "write"}, NEW v \in Slots,
         NEW name \in Names \cup {NoName}, NEW i \in Inodes \cup {0}, NEW b \in Blocks \cup {0},
         NEW steps \in Left, Begin(op, v, name, i, b, steps),
         steps # <<>>, Head(steps) \in {"ibit", "bbit", "data"}
  PROVE  /\ Typed' /\ DiskInv' /\ Counted'
         /\ call'.op = op /\ call'.v = v /\ call'.name = name /\ call'.ino = i
         /\ call'.blk = b /\ call'.todo = steps
         /\ UNCHANGED <<ibmap, bbmap, inode, block, vnode, lost>>
         /\ AtStep(Head(steps))' /\ \A s : AtStep(s)' => s = Head(steps)
<1>1. /\ UNCHANGED <<ibmap, bbmap, ifree, bfree, inode, block, vnode, lost, crashes>>
      /\ ret' = "none" /\ Idle
      /\ call' = [op |-> op, v |-> v, name |-> name, ino |-> i, blk |-> b, todo |-> steps]
  BY DEF Begin, disk
<1>2. call' \in CallRec
  BY <1>1, Zenon DEF CallRec
<1>3. /\ call'.op = op /\ call'.v = v /\ call'.name = name /\ call'.ino = i
      /\ call'.blk = b /\ call'.todo = steps
  BY <1>1
<1>4. Typed'
  BY <1>1, <1>2, TypedKept DEF IInv, Typed
<1>5. DiskInv'
  BY <1>1, DiskKept DEF IInv, DiskInv
<1>6. AtStep(Head(steps))' /\ \A s : AtStep(s)' => s = Head(steps)
  BY <1>3 DEF AtStep, Idle
<1>7. PendingI = 0 /\ PendingB = 0 /\ PendingI' = 0 /\ PendingB' = 0
  BY <1>1, <1>6, IdleFacts DEF IInv, PendingI, PendingB
<1>8. Counted'
  BY <1>1, <1>7, CountedKept DEF IInv, Typed
<1> QED BY <1>1, <1>3, <1>4, <1>5, <1>6, <1>8

\* mkfile and mkdir begin with a directory vnode and a name.
LEMMA MkfileInv ==
  ASSUME IInv, NEW v \in Slots, NEW name \in Names, Mkfile(v, name)
  PROVE  IInv'
<1>1. IsDirV(v) /\ Begin("mkfile", v, name, 0, 0, MkfileSteps) /\ MkfileSteps \in Left
  BY FirstSteps DEF Mkfile, Left
<1>2. /\ Typed' /\ DiskInv' /\ Counted'
      /\ call'.op = "mkfile" /\ call'.v = v /\ call'.name = name /\ call'.ino = 0
      /\ call'.blk = 0 /\ call'.todo = MkfileSteps
      /\ UNCHANGED <<ibmap, bbmap, inode, block, vnode, lost>>
      /\ AtStep("ibit")' /\ \A s : AtStep(s)' => s = "ibit"
  BY <1>1, BeginFacts, FirstSteps
<1>3. Shape'
  BY <1>2, FirstSteps DEF Shape
<1>4. MakingIno' /\ MakingBlk' /\ Writing'
  BY <1>1, <1>2 DEF MakingIno, MakingBlk, Writing, IsDirV
<1> QED BY <1>2, <1>3, <1>4 DEF IInv, InCall, DiskInv

\* The same of mkdir.
LEMMA MkdirInv ==
  ASSUME IInv, NEW v \in Slots, NEW name \in Names, Mkdir(v, name)
  PROVE  IInv'
<1>1. IsDirV(v) /\ Begin("mkdir", v, name, 0, 0, MkdirSteps) /\ MkdirSteps \in Left
  BY FirstSteps DEF Mkdir, Left
<1>2. /\ Typed' /\ DiskInv' /\ Counted'
      /\ call'.op = "mkdir" /\ call'.v = v /\ call'.name = name /\ call'.ino = 0
      /\ call'.blk = 0 /\ call'.todo = MkdirSteps
      /\ UNCHANGED <<ibmap, bbmap, inode, block, vnode, lost>>
      /\ AtStep("ibit")' /\ \A s : AtStep(s)' => s = "ibit"
  BY <1>1, BeginFacts, FirstSteps
<1>3. Shape'
  BY <1>2, FirstSteps DEF Shape
<1>4. MakingIno' /\ MakingBlk' /\ Writing'
  BY <1>1, <1>2 DEF MakingIno, MakingBlk, Writing, IsDirV
<1> QED BY <1>2, <1>3, <1>4 DEF IInv, InCall, DiskInv

\* What a well-typed inode number leads to.
LEMMA InodeTyped ==
  ASSUME Typed, NEW i \in Inodes
  PROVE  /\ inode[i] \in InodeRec /\ inode[i].mode \in {"raw", "file", "dir"}
         /\ inode[i].block \in Blocks \cup {0} /\ 0 \notin Blocks /\ 0 \notin Inodes
BY DEF Typed, InodeRec, Blocks, Inodes

\* An entry is a name and an inode number.
LEMMA EntryTyped ==
  ASSUME Typed, NEW b \in Blocks, NEW k \in DOMAIN block[b].ents
  PROVE  /\ block[b].ents \in Seq(Entry) /\ block[b].ents[k] \in Entry
         /\ block[b].ents[k].ino \in Inodes
<1>1. block[b].ents \in Seq(Entry)
  BY DEF Typed, BlockRec
<1>2. block[b].ents[k] \in Entry
  BY <1>1
<1> QED BY <1>1, <1>2 DEF Entry

\* A write begins with a file vnode: its inode is a file, and the block it has, if
\* any, is its own.
LEMMA WriteInv ==
  ASSUME IInv, NEW v \in Slots, Write(v)
  PROVE  IInv'
<1> DEFINE i == vnode[v].ino
<1>1. /\ IsFileV(v)
      /\ Begin("write", v, NoName, i, inode[i].block, WriteSteps(inode[i]))
  BY DEF Write
<1>2. i \in Inodes /\ vnode[v].inode.mode # "dir"
  <2>1. vnode[v] \in VnodeRec
    BY DEF IInv, Typed
  <2> QED BY <1>1, <2>1 DEF IsFileV, IsDirV, VnodeRec
<1>3. inode[i].block \in Blocks \cup {0} /\ 0 \notin Blocks /\ WriteSteps(inode[i]) \in Left
  BY <1>2, InodeTyped, FirstSteps DEF IInv, Left
<1>4. "ibmap" \in lost \/ inode[i].mode # "dir"
  BY <1>2, InodeTyped DEF IInv, CacheNeverForeign
<1>5. inode[i].block # 0 =>
        \/ "bbmap" \in lost
        \/ /\ inode[i].block \in bbmap
           /\ \A j \in Inodes : inode[j].block = inode[i].block => j = i
  BY <1>2 DEF IInv, Marks, Owned
<1>6. PICK first \in {"bbit", "data"} :
        first = IF inode[i].block = 0 THEN "bbit" ELSE "data"
  OBVIOUS
<1>a. Head(WriteSteps(inode[i])) = first
  BY <1>6, FirstSteps
<1> HIDE DEF i
<1>b. PICK steps \in Left, k \in Inodes \cup {0}, b \in Blocks \cup {0} :
        steps = WriteSteps(inode[i]) /\ k = i /\ b = inode[i].block
  BY <1>2, <1>3
<1>c. steps # <<>> /\ Head(steps) = first /\ steps \in WriteLeft
  BY <1>a, <1>b, FirstSteps
<1>7. /\ Typed' /\ DiskInv' /\ Counted'
      /\ call'.op = "write" /\ call'.v = v /\ call'.name = NoName /\ call'.ino = k
      /\ call'.blk = b /\ call'.todo = steps
      /\ UNCHANGED <<ibmap, bbmap, inode, block, vnode, lost>>
      /\ AtStep(first)' /\ \A s : AtStep(s)' => s = first
  BY <1>1, <1>b, <1>c, BeginFacts
<1>8. Shape'
  BY <1>7, <1>c DEF Shape
<1>9. MakingIno' /\ MakingBlk'
  BY <1>7 DEF MakingIno, MakingBlk
<1>10. Writing'
  BY <1>2, <1>3, <1>4, <1>5, <1>6, <1>7, <1>b DEF Writing
<1> QED BY <1>7, <1>8, <1>9, <1>10 DEF IInv, InCall, DiskInv

--------------------------------------------------------------------------------
(* The steps of a call keep the invariant.                                      *)

\* A call that returns without having written anything more.
LEMMA ReturnsInv ==
  ASSUME IInv, ~AtStep("icount"), ~AtStep("bcount"), call' = NoCall,
         ret' \in {"none", "ok", "fail"}, UNCHANGED <<disk, vnode, crashes>>,
         lost \subseteq lost', lost' \subseteq Kinds
  PROVE  IInv'
<1>1. UNCHANGED <<ibmap, bbmap, ifree, bfree, inode, block, vnode, crashes>>
  BY DEF disk
<1>2. call' \in CallRec /\ InCall' /\ Idle'
  BY NoCallFacts
<1>3. Typed'
  BY <1>1, <1>2, TypedKept DEF IInv, Typed
<1>4. DiskInv'
  BY <1>1, DiskKept DEF IInv, DiskInv
<1>5. PendingI = 0 /\ PendingB = 0 /\ PendingI' = 0 /\ PendingB' = 0
  BY <1>2 DEF PendingI, PendingB, AtStep
<1>6. Counted'
  BY <1>1, <1>5, CountedKept DEF IInv, Typed
<1> QED BY <1>2, <1>3, <1>4, <1>6 DEF IInv, DiskInv

\* A call that fails before the write it is at.
LEMMA FailedInv ==
  ASSUME IInv, Failed, UNCHANGED crashes, ~AtStep("icount"), ~AtStep("bcount")
  PROVE  IInv'
<1>1. /\ call' = NoCall /\ ret' = "fail" /\ UNCHANGED <<disk, vnode, crashes>>
      /\ lost' = lost
  BY DEF Failed, Return
<1> QED BY <1>1, ReturnsInv DEF IInv, Typed

\* A buffer the heap refuses.
LEMMA RefusedInv ==
  ASSUME IInv, Refused
  PROVE  IInv'
<1>1. Failed /\ UNCHANGED crashes /\ Fresh
  BY DEF Refused
<1>2. Head(call.todo) \in {"ibit", "bbit", "data"}
  <2>1. CASE call.todo \in {MkfileSteps, MkdirSteps}
    BY <2>1 DEF MkfileSteps, MkdirSteps
  <2>2. CASE call.todo = WriteSteps(inode[call.ino])
    BY <2>2 DEF WriteSteps
  <2> QED BY <1>1, <2>1, <2>2 DEF Fresh
<1>3. ~AtStep("icount") /\ ~AtStep("bcount")
  BY <1>2 DEF AtStep
<1> QED BY <1>1, <1>3, FailedInv

\* alloc_inode: the inode it hands out is one that nothing leads to.
LEMMA AllocInodeInv ==
  ASSUME IInv, AllocInode
  PROVE  IInv'
<1>1. PICK i \in Inodes \cup {0} : i = FirstFree(ibmap, Inodes)
                                   /\ (i # 0 => i \in Inodes \ ibmap)
  BY FreeFacts, FirstFreeFacts DEF IInv, Typed, Inodes
<1>2. AtStep("ibit") /\ UNCHANGED crashes /\ ~AtStep("icount") /\ ~AtStep("bcount") /\ ~Idle
  BY DEF AllocInode, AtStep
<1>3. CASE i = 0
  <2>1. Failed
    BY <1>1, <1>3 DEF AllocInode
  <2> QED BY <1>2, <2>1, FailedInv
<1>4. CASE i # 0
  <2>1. /\ i \in Inodes \ ibmap
        /\ \/ ibmap' = ibmap \cup {i} /\ lost' = lost
           \/ ibmap' = ibmap /\ lost' = lost \cup {"ibmap"}
        /\ call' = [call EXCEPT !.ino = i, !.todo = Tail(@)]
        /\ UNCHANGED <<ifree, bbmap, bfree, inode, block, vnode, ret, crashes>>
    BY <1>1, <1>4, <1>2 DEF AllocInode, Out, Marked
  <2>2. /\ call \in CallRec /\ call.op \in {"mkfile", "mkdir"} /\ Len(call.todo) > 1
        /\ call.blk \in Blocks \cup {0} /\ (call.op = "mkfile" => call.blk = 0)
    <3>1. call \in CallRec /\ Shape
      BY DEF IInv, Typed, InCall
    <3>2. call.op \in {"mkfile", "mkdir"} /\ Len(call.todo) > 1
      BY <1>2, <3>1, StepsOf DEF AtStep
    <3> QED BY <3>1, <3>2 DEF CallRec, Shape
  <2>3. Tail(call.todo) \in Left
    BY <1>2, <2>2, MkfileOrder, MkdirOrder DEF IInv, InCall, Shape, MkfileNext, MkdirNext, AtStep, Left
  <2>4. call' \in CallRec /\ Onward(i, call.blk)
    BY <2>1, <2>2, <2>3, MovedFacts
  <2>5. Shape' /\ NextIs
    BY <1>2, <2>2, <2>4, OnwardFacts DEF IInv, InCall
  <2>6. AtStep("icount")' /\ \A s : AtStep(s)' => s = "icount"
    BY <1>2, <2>5 DEF NextIs, AtStep
  <2>7. Typed'
    <3>1. ibmap' \subseteq Inodes /\ lost' \subseteq Kinds
      BY <2>1 DEF IInv, Typed, Kinds
    <3> QED BY <2>1, <2>4, <3>1, TypedKept DEF IInv, Typed
  <2>8. DiskInv'
    BY <2>1, DiskKept DEF IInv, DiskInv
  <2>9. "ibmap" \in lost' \/ (i \in ibmap' /\ Unnamed(i)')
    <3>1. "ibmap" \in lost \/ Unnamed(i)
      BY <2>1 DEF IInv, Marks, Unnamed, Inodes
    <3> QED BY <2>1, <3>1 DEF Unnamed
  <2>10. MakingIno'
    BY <2>1, <2>2, <2>4, <2>6, <2>9 DEF IInv, InCall, MakingIno, Onward, IsDirV
  <2>11. MakingBlk' /\ Writing'
    BY <2>2, <2>4, <2>6 DEF MakingBlk, Writing, Onward
  <2>12. Counted'
    <3>1. CASE ibmap' = ibmap
      BY <2>1, <3>1, <1>4 DEF Counted, CountLost
    <3>2. CASE ibmap' = ibmap \cup {i}
      <4>1. FreeInodes' = FreeInodes - 1 /\ FreeBlocks' = FreeBlocks
        BY <2>1, <3>2, FreeFacts DEF IInv, Typed, FreeBlocks
      <4>2. PendingI = 0 /\ PendingB = 0 /\ PendingI' = 1 /\ PendingB' = 0
        BY <1>2, <2>6 DEF PendingI, PendingB
      <4>3. FreeInodes \in Int /\ FreeBlocks \in Int /\ ifree \in Int /\ bfree \in Int /\ crashes \in Int
        BY FreeFacts DEF IInv, Typed
      <4>4. ASSUME Balanced PROVE Balanced'
        <5>1. /\ (FreeInodes - 1) + 1 <= ifree /\ FreeBlocks + 0 <= bfree
              /\ ifree + bfree <= (FreeInodes - 1) + FreeBlocks + 1 + 0 + crashes
          BY <4>2, <4>3, <4>4 DEF Balanced
        <5>2. ifree' = ifree /\ bfree' = bfree /\ crashes' = crashes
          BY <2>1
        <5> QED BY <4>1, <4>2, <5>1, <5>2, Zenon DEF Balanced
      <4>5. CountLost => CountLost'
        BY <2>1 DEF CountLost
      <4> QED BY <4>4, <4>5 DEF IInv, Counted
    <3> QED BY <2>1, <3>1, <3>2
  <2> QED BY <2>5, <2>7, <2>8, <2>10, <2>11, <2>12 DEF IInv, DiskInv, InCall
<1> QED BY <1>3, <1>4

\* alloc_block: the block it hands out is one that no inode leads to.
LEMMA AllocBlockInv ==
  ASSUME IInv, AllocBlock
  PROVE  IInv'
<1>1. PICK b \in Blocks \cup {0} : b = FirstFree(bbmap, Blocks)
                                   /\ (b # 0 => b \in Blocks \ bbmap)
  BY FreeFacts, FirstFreeFacts DEF IInv, Typed, Blocks
<1>2. AtStep("bbit") /\ UNCHANGED crashes /\ ~AtStep("icount") /\ ~AtStep("bcount") /\ ~Idle
  BY DEF AllocBlock, AtStep
<1>3. CASE b = 0
  <2>1. Failed
    BY <1>1, <1>3 DEF AllocBlock
  <2> QED BY <1>2, <2>1, FailedInv
<1>4. CASE b # 0
  <2>1. /\ b \in Blocks \ bbmap
        /\ \/ bbmap' = bbmap \cup {b} /\ lost' = lost
           \/ bbmap' = bbmap /\ lost' = lost \cup {"bbmap"}
        /\ call' = [call EXCEPT !.blk = b, !.todo = Tail(@)]
        /\ UNCHANGED <<ibmap, ifree, bfree, inode, block, vnode, ret, crashes>>
    BY <1>1, <1>4, <1>2 DEF AllocBlock, Out, Marked
  <2>2. /\ call \in CallRec /\ call.op \in {"mkdir", "write"} /\ Len(call.todo) > 1
        /\ call.ino \in Inodes \cup {0}
    <3>1. call \in CallRec /\ Shape
      BY DEF IInv, Typed, InCall
    <3>2. call.op \in {"mkdir", "write"} /\ Len(call.todo) > 1
      BY <1>2, <3>1, StepsOf DEF AtStep
    <3> QED BY <3>1, <3>2 DEF CallRec
  <2>3. Tail(call.todo) \in Left
    BY <1>2, <2>2, WriteOrder, MkdirOrder DEF IInv, InCall, Shape, WriteNext, MkdirNext, AtStep, Left
  <2>a. PICK i \in Inodes \cup {0} : i = call.ino
    BY <2>2
  <2>4. call' \in CallRec /\ Onward(i, b)
    BY <2>1, <2>2, <2>3, <2>a, MovedFacts
  <2>5. Shape' /\ NextIs
    BY <1>2, <2>2, <2>4, OnwardFacts DEF IInv, InCall
  <2>6. AtStep("bcount")' /\ \A s : AtStep(s)' => s = "bcount"
    BY <1>2, <2>5 DEF NextIs, AtStep
  <2>7. Typed'
    <3>1. bbmap' \subseteq Blocks /\ lost' \subseteq Kinds
      BY <2>1 DEF IInv, Typed, Kinds
    <3> QED BY <2>1, <2>4, <3>1, TypedKept DEF IInv, Typed
  <2>8. DiskInv'
    BY <2>1, DiskKept DEF IInv, DiskInv
  <2>9. "bbmap" \in lost' \/ (b \in bbmap' /\ \A j \in Inodes : inode'[j].block # b)
    <3>1. "bbmap" \in lost \/ \A j \in Inodes : inode[j].block # b
      BY <2>1 DEF IInv, Marks, Blocks
    <3> QED BY <2>1, <3>1
  <2>10. MakingIno'
    <3>1. ASSUME call.op = "mkdir"
          PROVE  /\ IsDirV(call.v) /\ call.name \in Names /\ call.ino \in Inodes
                 /\ "ibmap" \in lost \/ (call.ino \in ibmap /\ Unnamed(call.ino))
      BY <1>2, <3>1 DEF IInv, InCall, MakingIno, AtStep
    <3>2. /\ call'.op = call.op /\ call'.ino = call.ino /\ call'.v = call.v
          /\ call'.name = call.name
          /\ UNCHANGED <<ibmap, block, vnode>> /\ lost \subseteq lost'
      BY <2>1, <2>4, <2>a DEF Onward
    <3>3. ~AtStep("dirent")'
      BY <2>6
    <3> QED BY <2>2, <3>1, <3>2, <3>3 DEF MakingIno, IsDirV, Unnamed
  <2>11. MakingBlk'
    BY <2>1, <2>4, <2>6, <2>9 DEF MakingBlk, Onward
  <2>12. Writing'
    <3>1. ASSUME call.op = "write"
          PROVE  /\ call.ino \in Inodes /\ ("ibmap" \in lost \/ inode[call.ino].mode # "dir")
                 /\ inode[call.ino].block = 0
      BY <1>2, <3>1 DEF IInv, InCall, Writing
    <3>2. /\ call'.op = call.op /\ call'.ino = call.ino /\ call'.blk = b /\ inode' = inode
          /\ lost \subseteq lost' /\ b \in Blocks
      BY <2>1, <2>4, <2>a DEF Onward
    <3>3. ~AtStep("bbit")' /\ ~AtStep("inode")'
      BY <2>6
    <3> QED BY <2>9, <3>1, <3>2, <3>3 DEF Writing
  <2>13. Counted'
    <3>1. CASE bbmap' = bbmap
      BY <2>1, <3>1, <1>4 DEF Counted, CountLost
    <3>2. CASE bbmap' = bbmap \cup {b}
      <4>1. FreeInodes' = FreeInodes /\ FreeBlocks' = FreeBlocks - 1
        BY <2>1, <3>2, FreeFacts DEF IInv, Typed, FreeInodes
      <4>2. PendingI = 0 /\ PendingB = 0 /\ PendingI' = 0 /\ PendingB' = 1
        BY <1>2, <2>6 DEF PendingI, PendingB
      <4>3. FreeInodes \in Int /\ FreeBlocks \in Int /\ ifree \in Int /\ bfree \in Int /\ crashes \in Int
        BY FreeFacts DEF IInv, Typed
      <4>4. ASSUME Balanced PROVE Balanced'
        <5>1. /\ FreeInodes + 0 <= ifree /\ (FreeBlocks - 1) + 1 <= bfree
              /\ ifree + bfree <= FreeInodes + (FreeBlocks - 1) + 0 + 1 + crashes
          BY <4>2, <4>3, <4>4 DEF Balanced
        <5>2. ifree' = ifree /\ bfree' = bfree /\ crashes' = crashes
          BY <2>1
        <5> QED BY <4>1, <4>2, <5>1, <5>2, Zenon DEF Balanced
      <4>5. CountLost => CountLost'
        BY <2>1 DEF CountLost
      <4> QED BY <4>4, <4>5 DEF IInv, Counted
    <3> QED BY <2>1, <3>1, <3>2
  <2> QED BY <2>5, <2>7, <2>8, <2>10, <2>11, <2>12, <2>13 DEF IInv, DiskInv, InCall
<1> QED BY <1>3, <1>4

\* A step that is not the last of its call.
LEMMA AdvanceFacts ==
  ASSUME IInv, ~Idle, Done, Len(call.todo) > 1
  PROVE  /\ call' \in CallRec /\ Shape' /\ NextIs /\ UNCHANGED <<ret, vnode>>
         /\ call.op # "none" /\ call'.op = call.op /\ call'.v = call.v /\ call'.name = call.name
         /\ call'.ino = call.ino /\ call'.blk = call.blk
<1>1. call' = [call EXCEPT !.todo = Tail(@)] /\ UNCHANGED <<ret, vnode>>
  BY DEF Done
<1>2. call \in CallRec /\ Shape
  BY DEF IInv, Typed, InCall
<1>3. call.op # "none" /\ call.op \in {"none", "mkfile", "mkdir", "write"}
  BY <1>2, StepsOf DEF CallRec
<1>4. Tail(call.todo) \in Left
  BY <1>2, <1>3, MkfileOrder, MkdirOrder, WriteOrder
     DEF Shape, MkfileNext, MkdirNext, WriteNext, Left
<1>5. PICK i \in Inodes \cup {0}, b \in Blocks \cup {0} : i = call.ino /\ b = call.blk
  BY <1>2 DEF CallRec
<1>6. call' \in CallRec /\ Onward(i, b)
  BY <1>1, <1>2, <1>4, <1>5, MovedFacts
<1>7. Shape' /\ NextIs
  BY <1>2, <1>5, <1>6, OnwardFacts DEF Shape
<1> QED BY <1>1, <1>3, <1>5, <1>6, <1>7 DEF Onward

\* Counting a bit leaves what the call has made so far as it was.
LEMMA CallKept ==
  ASSUME IInv, ~Idle, Done, AtStep("icount") \/ AtStep("bcount"),
         UNCHANGED <<ibmap, bbmap, inode, block>>, lost \subseteq lost'
  PROVE  /\ InCall' /\ call' \in CallRec /\ UNCHANGED <<ret, vnode>>
         /\ PendingI = (IF AtStep("icount") THEN 1 ELSE 0) /\ PendingI' = 0
         /\ PendingB = (IF AtStep("bcount") THEN 1 ELSE 0) /\ PendingB' = 0
<1>1. Len(call.todo) > 1
  BY StepsOf DEF IInv, Typed, InCall, AtStep
<1>2. /\ call' \in CallRec /\ Shape' /\ NextIs /\ UNCHANGED <<ret, vnode>>
      /\ call.op # "none" /\ call'.op = call.op /\ call'.v = call.v /\ call'.name = call.name
      /\ call'.ino = call.ino /\ call'.blk = call.blk
  BY <1>1, AdvanceFacts
<1>3. CASE AtStep("icount")
  <2>1. call.op \in {"mkfile", "mkdir"}
    BY <1>3, StepsOf DEF IInv, Typed, InCall
  <2>2. \A s : AtStep(s)' => s = IF call.op = "mkfile" THEN "inode" ELSE "bbit"
    BY <1>2, <1>3 DEF NextIs, AtStep
  <2>3. MakingIno'
    BY <1>2, <1>3, <2>1, <2>2 DEF IInv, InCall, MakingIno, AtStep, IsDirV, Unnamed
  <2>4. MakingBlk' /\ Writing'
    BY <1>2, <2>1, <2>2 DEF MakingBlk, Writing
  <2> QED BY <1>2, <1>3, <2>2, <2>3, <2>4 DEF InCall, PendingI, PendingB, AtStep
<1>4. CASE AtStep("bcount")
  <2>1. call.op \in {"mkdir", "write"}
    BY <1>4, StepsOf DEF IInv, Typed, InCall
  <2>2. \A s : AtStep(s)' => s = IF call.op = "mkdir" THEN "dirblock" ELSE "data"
    BY <1>2, <1>4 DEF NextIs, AtStep
  <2>3. MakingIno'
    BY <1>2, <1>4, <2>1, <2>2 DEF IInv, InCall, MakingIno, AtStep, IsDirV, Unnamed
  <2>4. MakingBlk'
    BY <1>2, <1>4, <2>1, <2>2 DEF IInv, InCall, MakingBlk
  <2>5. Writing'
    BY <1>2, <1>4, <2>1, <2>2 DEF IInv, InCall, Writing, AtStep
  <2> QED BY <1>2, <1>4, <2>2, <2>3, <2>4, <2>5 DEF InCall, PendingI, PendingB, AtStep
<1> QED BY <1>3, <1>4

\* The count of free inodes goes down by one, for the bit just set.
LEMMA CountInodeInv ==
  ASSUME IInv, CountInode
  PROVE  IInv'
<1>1. /\ AtStep("icount") /\ ~Idle /\ Done
      /\ UNCHANGED <<ibmap, bbmap, bfree, inode, block, crashes>>
      /\ \/ ifree' = Dec(ifree) /\ lost' = lost
         \/ ifree' = ifree /\ lost' = lost \cup {"bgd"}
  BY DEF CountInode, Out, AtStep
<1>2. /\ InCall' /\ call' \in CallRec /\ UNCHANGED <<ret, vnode>>
      /\ PendingI = (IF AtStep("icount") THEN 1 ELSE 0) /\ PendingI' = 0
      /\ PendingB = (IF AtStep("bcount") THEN 1 ELSE 0) /\ PendingB' = 0
  BY <1>1, CallKept
<1>3. Typed'
  <2>1. ifree' \in 0 .. CountMax /\ lost' \subseteq Kinds
    BY <1>1, DecFacts DEF IInv, Typed, Kinds
  <2> QED BY <1>1, <1>2, <2>1, TypedKept DEF IInv, Typed
<1>4. DiskInv'
  BY <1>1, <1>2, DiskKept DEF IInv, DiskInv
<1>5. Counted'
  <2>1. CASE ifree' = ifree /\ lost' = lost \cup {"bgd"}
    BY <2>1 DEF Counted, CountLost
  <2>2. CASE ifree' = Dec(ifree) /\ lost' = lost
    <3>1. FreeInodes' = FreeInodes /\ FreeBlocks' = FreeBlocks
      BY <1>1 DEF FreeInodes, FreeBlocks
    <3>2. PendingI = 1 /\ PendingB = 0 /\ PendingI' = 0 /\ PendingB' = 0
      BY <1>1, <1>2 DEF AtStep
    <3>3. /\ FreeInodes \in Nat /\ FreeBlocks \in Nat /\ crashes \in Int
          /\ ifree \in 0 .. CountMax /\ bfree \in 0 .. CountMax
      BY FreeFacts DEF IInv, Typed
    <3>4. ASSUME Balanced PROVE Balanced'
      <4>1. ifree # 0
        BY <3>2, <3>3, <3>4 DEF Balanced
      <4>2. ifree' = ifree - 1 /\ bfree' = bfree /\ crashes' = crashes
        BY <1>1, <2>2, <3>3, <4>1, DecFacts
      <4>3. /\ FreeInodes + 0 <= ifree - 1 /\ FreeBlocks + 0 <= bfree
            /\ (ifree - 1) + bfree <= FreeInodes + FreeBlocks + 0 + 0 + crashes
        <5>1. ifree \in Int /\ bfree \in Int
          BY <3>3
        <5> QED BY <3>2, <3>3, <3>4, <5>1 DEF Balanced
      <4> QED BY <3>1, <3>2, <4>2, <4>3, Zenon DEF Balanced
    <3>5. CountLost => CountLost'
      BY <2>2 DEF CountLost
    <3> QED BY <3>4, <3>5 DEF IInv, Counted
  <2> QED BY <1>1, <2>1, <2>2
<1> QED BY <1>2, <1>3, <1>4, <1>5 DEF IInv, DiskInv

\* The count of free blocks goes down by one, for the bit just set.
LEMMA CountBlockInv ==
  ASSUME IInv, CountBlock
  PROVE  IInv'
<1>1. /\ AtStep("bcount") /\ ~Idle /\ Done
      /\ UNCHANGED <<ibmap, bbmap, ifree, inode, block, crashes>>
      /\ \/ bfree' = Dec(bfree) /\ lost' = lost
         \/ bfree' = bfree /\ lost' = lost \cup {"bgd"}
  BY DEF CountBlock, Out, AtStep
<1>2. /\ InCall' /\ call' \in CallRec /\ UNCHANGED <<ret, vnode>>
      /\ PendingI = (IF AtStep("icount") THEN 1 ELSE 0) /\ PendingI' = 0
      /\ PendingB = (IF AtStep("bcount") THEN 1 ELSE 0) /\ PendingB' = 0
  BY <1>1, CallKept
<1>3. Typed'
  <2>1. bfree' \in 0 .. CountMax /\ lost' \subseteq Kinds
    BY <1>1, DecFacts DEF IInv, Typed, Kinds
  <2> QED BY <1>1, <1>2, <2>1, TypedKept DEF IInv, Typed
<1>4. DiskInv'
  BY <1>1, <1>2, DiskKept DEF IInv, DiskInv
<1>5. Counted'
  <2>1. CASE bfree' = bfree /\ lost' = lost \cup {"bgd"}
    BY <2>1 DEF Counted, CountLost
  <2>2. CASE bfree' = Dec(bfree) /\ lost' = lost
    <3>1. FreeInodes' = FreeInodes /\ FreeBlocks' = FreeBlocks
      BY <1>1 DEF FreeInodes, FreeBlocks
    <3>2. PendingI = 0 /\ PendingB = 1 /\ PendingI' = 0 /\ PendingB' = 0
      BY <1>1, <1>2 DEF AtStep
    <3>3. /\ FreeInodes \in Nat /\ FreeBlocks \in Nat /\ crashes \in Int
          /\ ifree \in 0 .. CountMax /\ bfree \in 0 .. CountMax
      BY FreeFacts DEF IInv, Typed
    <3>4. ASSUME Balanced PROVE Balanced'
      <4>1. bfree # 0
        BY <3>2, <3>3, <3>4 DEF Balanced
      <4>2. bfree' = bfree - 1 /\ ifree' = ifree /\ crashes' = crashes
        BY <1>1, <2>2, <3>3, <4>1, DecFacts
      <4>3. /\ FreeInodes + 0 <= ifree /\ FreeBlocks + 0 <= bfree - 1
            /\ ifree + (bfree - 1) <= FreeInodes + FreeBlocks + 0 + 0 + crashes
        <5>1. ifree \in Int /\ bfree \in Int
          BY <3>3
        <5> QED BY <3>2, <3>3, <3>4, <5>1 DEF Balanced
      <4> QED BY <3>1, <3>2, <4>2, <4>3, Zenon DEF Balanced
    <3>5. CountLost => CountLost'
      BY <2>2 DEF CountLost
    <3> QED BY <3>4, <3>5 DEF IInv, Counted
  <2> QED BY <1>1, <2>1, <2>2
<1> QED BY <1>2, <1>3, <1>4, <1>5 DEF IInv, DiskInv

\* A block that is overwritten has no entries any more, and no other block changes.
LEMMA BlockWritten ==
  ASSUME IInv, NEW b \in Blocks, NEW kind \in {"dir", "data"},
         \/ block' = [block EXCEPT ![b] = [kind |-> kind, ents |-> <<>>]]
         \/ block' = block,
         UNCHANGED <<ibmap, bbmap, inode, vnode>>, lost \subseteq lost'
  PROVE  /\ block' \in [Blocks -> BlockRec] /\ \A c \in Blocks : Len(block'[c].ents) <= DirSlots
         /\ \A c \in Blocks : c # b => block'[c] = block[c]
         /\ block' = block \/ block'[b].kind = kind
         /\ \A i : Unnamed(i) => Unnamed(i)'
         /\ DirsHaveBlocks' /\ Marks' /\ Written' /\ Owned' /\ CacheNeverForeign'
<1>1. /\ DirSlots \in Nat /\ block \in [Blocks -> BlockRec]
      /\ \A c \in Blocks : Len(block[c].ents) <= DirSlots
  BY Ext2Assumption DEF Ext2Assumption, IInv, Typed
<1>2. PICK w : w = [kind |-> kind, ents |-> <<>>]
  OBVIOUS
<1>3. w \in BlockRec /\ w.kind = kind /\ w.ents = <<>> /\ Len(w.ents) = 0 /\ DOMAIN w.ents = {}
  BY <1>2 DEF BlockRec
<1>4. /\ \A c \in Blocks : c # b => block'[c] = block[c]
      /\ block' \in [Blocks -> BlockRec]
      /\ block' = block \/ block'[b] = w
  BY <1>1, <1>2, <1>3
<1>5. \A c \in Blocks : block'[c] = block[c] \/ block'[c] = w
  BY <1>4
<1>6. \A c \in Blocks : Len(block'[c].ents) <= DirSlots
  BY <1>1, <1>3, <1>5
<1>7. \A c \in Blocks : \A k \in DOMAIN block'[c].ents : block'[c] = block[c]
  BY <1>3, <1>5
<1>8. \A i : Unnamed(i) => Unnamed(i)'
  BY <1>7 DEF Unnamed
<1>9. DirsHaveBlocks' /\ CacheNeverForeign'
  BY DEF IInv, DirsHaveBlocks, CacheNeverForeign
<1>10. Marks'
  <2>1. EXT2_ROOT_INO \in ibmap'
    BY DEF IInv, Marks
  <2>2. "ibmap" \in lost' \/
          /\ \A c \in Blocks : \A k \in DOMAIN block'[c].ents : block'[c].ents[k].ino \in ibmap'
          /\ \A s \in Slots : vnode'[s].ino # 0 => vnode'[s].ino \in ibmap'
    BY <1>7 DEF IInv, Marks
  <2>3. "bbmap" \in lost' \/ \A i \in Inodes : inode'[i].block # 0 => inode'[i].block \in bbmap'
    BY DEF IInv, Marks
  <2> QED BY <2>1, <2>2, <2>3 DEF Marks, EXT2_ROOT_INO
<1>11. Written'
  BY <1>7 DEF IInv, Written
<1>12. Owned'
  BY <1>7 DEF IInv, Owned
<1> QED BY <1>3, <1>4, <1>6, <1>8, <1>9, <1>10, <1>11, <1>12

\* A step between two that are not about a count keeps the counts balanced.
LEMMA CountedKeptBy ==
  ASSUME IInv, UNCHANGED <<ibmap, bbmap, ifree, bfree, crashes>>, lost \subseteq lost',
         ~AtStep("icount"), ~AtStep("bcount"), ~AtStep("icount")', ~AtStep("bcount")'
  PROVE  Counted'
<1>1. PendingI = 0 /\ PendingB = 0 /\ PendingI' = 0 /\ PendingB' = 0
  BY DEF PendingI, PendingB
<1> QED BY <1>1, CountedKept DEF IInv, Typed

\* mkdir makes its block a directory before any inode leads to it.
LEMMA WriteDirBlockInv ==
  ASSUME IInv, WriteDirBlock
  PROVE  IInv'
<1>1. /\ AtStep("dirblock") /\ ~Idle /\ Done
      /\ UNCHANGED <<ibmap, ifree, bbmap, bfree, inode, crashes>>
      /\ \/ block' = [block EXCEPT ![call.blk] = [kind |-> "dir", ents |-> <<>>]] /\ lost' = lost
         \/ block' = block /\ lost' = lost \cup {"dirblock"}
  BY DEF WriteDirBlock, WriteBlock, Out, AtStep, EmptyDir
<1>2. call.op = "mkdir" /\ Len(call.todo) > 1
  BY <1>1, StepsOf DEF IInv, Typed, InCall, AtStep
<1>3. /\ call' \in CallRec /\ Shape' /\ NextIs /\ UNCHANGED <<ret, vnode>>
      /\ call'.op = call.op /\ call'.v = call.v /\ call'.name = call.name
      /\ call'.ino = call.ino /\ call'.blk = call.blk
  BY <1>1, <1>2, AdvanceFacts
<1>4. \A s : AtStep(s)' => s = "inode"
  BY <1>1, <1>3 DEF NextIs, AtStep
<1>5. /\ call.blk \in Blocks
      /\ "bbmap" \in lost \/ (call.blk \in bbmap /\ \A i \in Inodes : inode[i].block # call.blk)
  BY <1>1, <1>2 DEF IInv, InCall, MakingBlk
<1>6. PICK b \in Blocks : b = call.blk
  BY <1>5
<1>7. /\ block' \in [Blocks -> BlockRec] /\ \A c \in Blocks : Len(block'[c].ents) <= DirSlots
      /\ \A c \in Blocks : c # b => block'[c] = block[c]
      /\ block' = block \/ block'[b].kind = "dir"
      /\ \A i : Unnamed(i) => Unnamed(i)'
      /\ DirsHaveBlocks' /\ Marks' /\ Written' /\ Owned' /\ CacheNeverForeign'
  BY <1>1, <1>3, <1>6, BlockWritten
<1>8. Typed'
  <2>1. lost' \subseteq Kinds
    BY <1>1 DEF IInv, Typed, Kinds
  <2> QED BY <1>1, <1>3, <1>7, <2>1, TypedKept DEF IInv, Typed
<1>9. NoStaleBlock'
  <2>1. ASSUME NEW i \in Inodes, inode[i].block # 0, "bbmap" \notin lost
        PROVE  inode[i].block \in Blocks /\ inode[i].block # b
    BY <1>5, <1>6, <2>1, InodeTyped DEF IInv
  <2>2. ASSUME NEW i \in Inodes, inode[i].block # 0, lost \cap {"ibmap", "bbmap", "inode"} = {}
        PROVE  block'[inode[i].block] = block[inode[i].block]
    BY <1>7, <2>1, <2>2
  <2>3. /\ lost \subseteq lost' /\ inode' = inode
        /\ lost' \cap {"ibmap", "bbmap", "inode"} = {} => lost \cap {"ibmap", "bbmap", "inode"} = {}
    BY <1>1
  <2> QED BY <2>2, <2>3 DEF IInv, NoStaleBlock
<1>10. Counted'
  BY <1>1, <1>4, CountedKeptBy DEF AtStep
<1>11. MakingIno'
  <2>1. /\ IsDirV(call.v) /\ call.name \in Names /\ call.ino \in Inodes
        /\ "ibmap" \in lost \/ (call.ino \in ibmap /\ Unnamed(call.ino))
    BY <1>1, <1>2 DEF IInv, InCall, MakingIno, AtStep
  <2>2. PICK i \in Inodes : i = call.ino
    BY <2>1
  <2>3. "ibmap" \in lost' \/ (i \in ibmap' /\ Unnamed(i)')
    BY <1>1, <1>7, <2>1, <2>2
  <2>4. IsDirV(call.v)'
    BY <1>3, <2>1 DEF IsDirV
  <2>5. "ibmap" \in lost' \/ (call'.ino \in ibmap' /\ Unnamed(call.ino)')
    BY <1>3, <2>2, <2>3 DEF Unnamed
  <2> QED BY <1>2, <1>3, <1>4, <2>1, <2>4, <2>5 DEF MakingIno
<1>12. MakingBlk' /\ Writing'
  <2>1. "dirblock" \in lost' \/ block'[b].kind = "dir"
    BY <1>1, <1>3, <1>6, <1>7 DEF IInv, Typed
  <2> QED BY <1>1, <1>2, <1>3, <1>5, <1>6, <2>1 DEF MakingBlk, Writing
<1> QED BY <1>3, <1>7, <1>8, <1>9, <1>10, <1>11, <1>12 DEF IInv, InCall

\* write puts the data in a block that is its own or that no inode leads to yet.
LEMMA WriteDataInv ==
  ASSUME IInv, WriteData
  PROVE  IInv'
<1>1. /\ AtStep("data") /\ ~Idle /\ Done
      /\ UNCHANGED <<ibmap, ifree, bbmap, bfree, inode, crashes>>
      /\ \/ block' = [block EXCEPT ![call.blk] = [kind |-> "data", ents |-> <<>>]] /\ lost' = lost
         \/ block' = block /\ lost' = lost \cup {"data"}
  BY DEF WriteData, WriteBlock, Out, AtStep
<1>2. call.op = "write" /\ Len(call.todo) > 1
  BY <1>1, StepsOf DEF IInv, Typed, InCall, AtStep
<1>3. /\ call' \in CallRec /\ Shape' /\ NextIs /\ UNCHANGED <<ret, vnode>>
      /\ call'.op = call.op /\ call'.v = call.v /\ call'.name = call.name
      /\ call'.ino = call.ino /\ call'.blk = call.blk
  BY <1>1, <1>2, AdvanceFacts
<1>4. \A s : AtStep(s)' => s = "inode"
  BY <1>1, <1>3 DEF NextIs, AtStep
<1>5. /\ call.blk \in Blocks /\ call.ino \in Inodes
      /\ "ibmap" \in lost \/ inode[call.ino].mode # "dir"
      /\ inode[call.ino].block \in {0, call.blk}
      /\ \/ "bbmap" \in lost
         \/ /\ call.blk \in bbmap
            /\ \A i \in Inodes : inode[i].block = call.blk => i = call.ino
  BY <1>1, <1>2 DEF IInv, InCall, Writing, AtStep
<1>6. PICK b \in Blocks : b = call.blk
  BY <1>5
<1>7. /\ block' \in [Blocks -> BlockRec] /\ \A c \in Blocks : Len(block'[c].ents) <= DirSlots
      /\ \A c \in Blocks : c # b => block'[c] = block[c]
      /\ block' = block \/ block'[b].kind = "data"
      /\ DirsHaveBlocks' /\ Marks' /\ Written' /\ Owned' /\ CacheNeverForeign'
  BY <1>1, <1>3, <1>6, BlockWritten
<1>8. Typed'
  <2>1. lost' \subseteq Kinds
    BY <1>1 DEF IInv, Typed, Kinds
  <2> QED BY <1>1, <1>3, <1>7, <2>1, TypedKept DEF IInv, Typed
<1>9. NoStaleBlock'
  <2>1. ASSUME NEW i \in Inodes, inode[i].block = b, lost \cap {"ibmap", "bbmap", "inode"} = {}
        PROVE  inode[i].mode # "dir"
    BY <1>5, <1>6, <2>1
  <2>2. \A i \in Inodes : inode[i].block # 0 => inode[i].block \in Blocks
    BY InodeTyped DEF IInv
  <2>3. /\ lost \subseteq lost' /\ inode' = inode
        /\ lost' \cap {"ibmap", "bbmap", "inode"} = {} => lost \cap {"ibmap", "bbmap", "inode"} = {}
    BY <1>1
  <2>4. ASSUME NEW i \in Inodes, inode[i].block # 0, lost \cap {"ibmap", "bbmap", "inode"} = {}
        PROVE  IF inode[i].mode = "dir"
               THEN "dirblock" \in lost \/ block'[inode[i].block].kind = "dir"
               ELSE "data" \in lost \/ block'[inode[i].block].kind = "data"
    <3>1. CASE inode[i].block = b
      <4>1. inode[i].mode # "dir"
        BY <2>1, <2>4, <3>1
      <4> QED BY <1>7, <2>4, <3>1, <4>1 DEF IInv, NoStaleBlock
    <3>2. CASE inode[i].block # b
      BY <1>7, <2>2, <2>4, <3>2 DEF IInv, NoStaleBlock
    <3> QED BY <3>1, <3>2
  <2> QED BY <2>3, <2>4 DEF NoStaleBlock
<1>10. Counted'
  BY <1>1, <1>4, CountedKeptBy DEF AtStep
<1>11. MakingIno' /\ MakingBlk'
  BY <1>2, <1>3 DEF MakingIno, MakingBlk
<1>12. Writing'
  <2>1. "data" \in lost' \/ block'[b].kind = "data"
    BY <1>1, <1>3, <1>6, <1>7 DEF IInv, Typed
  <2>2. inode' = inode /\ bbmap' = bbmap /\ lost \subseteq lost'
    BY <1>1
  <2>3. ~AtStep("bbit")'
    BY <1>4
  <2> QED BY <1>2, <1>3, <1>5, <1>6, <2>1, <2>2, <2>3 DEF Writing
<1> QED BY <1>3, <1>7, <1>8, <1>9, <1>10, <1>11, <1>12 DEF IInv, InCall

\* The inode ext2_write_inode is given, n for inode i: a directory has a block, the
\* block is its own and was written, and a vnode that leads to i still fits it.
Fits(i, n) ==
  /\ i \in Inodes /\ n \in InodeRec
  /\ n.mode = "dir" => n.block # 0
  /\ n.mode # "raw" \/ n.mode = inode[i].mode
  /\ \/ "bbmap" \in lost \/ n.block = 0
     \/ n.block \in bbmap /\ \A j \in Inodes : inode[j].block = n.block => j = i
  /\ \/ "ibmap" \in lost \/ Unnamed(i)
     \/ n.mode = inode[i].mode /\ inode[i].block \in {0, n.block}
  /\ n.block # 0 /\ lost \cap {"ibmap", "bbmap", "inode"} = {} =>
       IF n.mode = "dir" THEN "dirblock" \in lost \/ block[n.block].kind = "dir"
                         ELSE "data" \in lost \/ block[n.block].kind = "data"

\* What each call gives it.
LEMMA NewInodeFits ==
  ASSUME IInv, AtStep("inode")
  PROVE  /\ Fits(call.ino, NewInode)
         /\ call.op # "write" => NewInode.mode # "raw"
<1>1. call.op \in {"mkfile", "mkdir", "write"} /\ Shape /\ ~Idle
  BY StepsOf DEF IInv, Typed, InCall, AtStep
<1>2. CASE call.op = "write"
  <2>1. /\ call.blk \in Blocks /\ call.ino \in Inodes
        /\ "ibmap" \in lost \/ inode[call.ino].mode # "dir"
        /\ inode[call.ino].block \in {0, call.blk}
        /\ \/ "bbmap" \in lost
           \/ /\ call.blk \in bbmap
              /\ \A i \in Inodes : inode[i].block = call.blk => i = call.ino
        /\ "data" \in lost \/ block[call.blk].kind = "data"
    BY <1>2 DEF IInv, InCall, Writing, AtStep
  <2>2. NewInode = [inode[call.ino] EXCEPT !.block = call.blk]
    BY <1>2 DEF NewInode
  <2>3. inode[call.ino] \in InodeRec /\ call.blk \in Blocks \cup {0} /\ 0 \notin Blocks
    BY <2>1, InodeTyped DEF IInv
  <2>4. NewInode \in InodeRec
    BY <2>2, <2>3, Zenon DEF InodeRec
  <2>5. NewInode.mode = inode[call.ino].mode /\ NewInode.block = call.blk
    BY <2>2, <2>3, Zenon DEF InodeRec
  <2> HIDE DEF NewInode
  <2> QED BY <1>2, <2>1, <2>3, <2>4, <2>5 DEF Fits
<1>3. CASE call.op = "mkfile"
  <2>1. /\ call.ino \in Inodes /\ call.blk = 0
        /\ "ibmap" \in lost \/ (call.ino \in ibmap /\ Unnamed(call.ino))
    BY <1>1, <1>3 DEF IInv, InCall, MakingIno, AtStep, Shape
  <2>2. NewInode = [mode |-> "file", block |-> 0]
    BY <1>3, <2>1 DEF NewInode
  <2>3. NewInode \in InodeRec /\ NewInode.mode = "file" /\ NewInode.block = 0
    BY <2>2 DEF InodeRec
  <2> QED BY <2>1, <2>3 DEF Fits
<1>4. CASE call.op = "mkdir"
  <2>1. /\ call.ino \in Inodes
        /\ "ibmap" \in lost \/ (call.ino \in ibmap /\ Unnamed(call.ino))
    BY <1>1, <1>4 DEF IInv, InCall, MakingIno, AtStep
  <2>2. /\ call.blk \in Blocks
        /\ "bbmap" \in lost \/ (call.blk \in bbmap /\ \A i \in Inodes : inode[i].block # call.blk)
        /\ "dirblock" \in lost \/ block[call.blk].kind = "dir"
    BY <1>1, <1>4 DEF IInv, InCall, MakingBlk
  <2>3. NewInode = [mode |-> "dir", block |-> call.blk]
    BY <1>4 DEF NewInode
  <2>4. NewInode \in InodeRec /\ NewInode.mode = "dir" /\ NewInode.block = call.blk /\ 0 \notin Blocks
    BY <2>2, <2>3 DEF InodeRec, Blocks
  <2> QED BY <2>1, <2>2, <2>4 DEF Fits
<1> QED BY <1>1, <1>2, <1>3, <1>4

\* The table with such an inode written keeps the invariant of the disk.
LEMMA InodeWritten ==
  ASSUME IInv, NEW i, NEW n, Fits(i, n), inode' = [inode EXCEPT ![i] = n],
         UNCHANGED <<ibmap, bbmap, block, vnode, lost>>
  PROVE  DiskInv' /\ inode' \in [Inodes -> InodeRec] /\ inode'[i] = n
<1>1. inode \in [Inodes -> InodeRec] /\ i \in Inodes /\ n \in InodeRec
  BY DEF IInv, Typed, Fits
<1>2. /\ inode' \in [Inodes -> InodeRec] /\ inode'[i] = n
      /\ \A j \in Inodes : j # i => inode'[j] = inode[j]
  BY <1>1
<1>3. DirsHaveBlocks'
  <2>1. \A j \in Inodes : inode'[j].mode = "dir" => inode'[j].block # 0
    BY <1>2 DEF IInv, DirsHaveBlocks, Fits
  <2> QED BY <2>1 DEF IInv, DirsHaveBlocks
<1>4. Marks'
  <2>1. EXT2_ROOT_INO \in ibmap'
    BY DEF IInv, Marks
  <2>2. "ibmap" \in lost' \/
          /\ \A c \in Blocks : \A k \in DOMAIN block'[c].ents : block'[c].ents[k].ino \in ibmap'
          /\ \A s \in Slots : vnode'[s].ino # 0 => vnode'[s].ino \in ibmap'
    BY DEF IInv, Marks
  <2>3. "bbmap" \in lost' \/ \A j \in Inodes : inode'[j].block # 0 => inode'[j].block \in bbmap'
    BY <1>2 DEF IInv, Marks, Fits
  <2> QED BY <2>1, <2>2, <2>3 DEF Marks, EXT2_ROOT_INO
<1>5. Written'
  <2>1. \A j \in Inodes : inode[j].mode # "raw" => inode'[j].mode # "raw"
    BY <1>2 DEF Fits
  <2>2. \A c \in Blocks : \A k \in DOMAIN block[c].ents : block[c].ents[k].ino \in Inodes
    BY EntryTyped DEF IInv
  <2> QED BY <2>1, <2>2 DEF IInv, Written
<1>6. Owned'
  BY <1>2 DEF IInv, Owned, Fits
<1>7. NoStaleBlock'
  BY <1>2 DEF IInv, NoStaleBlock, Fits
<1>8. CacheNeverForeign'
  <2>1. ASSUME NEW s \in Slots, vnode[s].ino # 0, "ibmap" \notin lost
        PROVE  /\ vnode[s].inode.block \in {0, inode'[vnode[s].ino].block}
               /\ vnode[s].inode.mode = inode'[vnode[s].ino].mode
    <3>1. vnode[s].ino \in Inodes
      BY <2>1 DEF IInv, Typed, VnodeRec
    <3>2. /\ vnode[s].inode.block \in {0, inode[vnode[s].ino].block}
          /\ vnode[s].inode.mode = inode[vnode[s].ino].mode
      BY <2>1 DEF IInv, CacheNeverForeign
    <3>3. CASE vnode[s].ino # i
      BY <1>2, <3>1, <3>2, <3>3
    <3>4. CASE vnode[s].ino = i
      <4>1. n.mode = inode[i].mode /\ inode[i].block \in {0, n.block}
        BY <2>1, <3>4 DEF Fits, Unnamed
      <4> QED BY <1>2, <3>2, <3>4, <4>1
    <3> QED BY <3>3, <3>4
  <2> QED BY <2>1 DEF CacheNeverForeign
<1> QED BY <1>2, <1>3, <1>4, <1>5, <1>6, <1>7, <1>8 DEF DiskInv

\* ext2_write_inode, in the middle of mkfile and mkdir and at the end of write.
LEMMA WriteInodeInv ==
  ASSUME IInv, WriteInode
  PROVE  IInv'
<1>1. /\ AtStep("inode") /\ ~Idle /\ Done
      /\ UNCHANGED <<ibmap, ifree, bbmap, bfree, block, crashes>>
      /\ \/ inode' = [inode EXCEPT ![call.ino] = NewInode] /\ lost' = lost
         \/ inode' = inode /\ lost' = lost \cup {"inode"}
  BY DEF WriteInode, Out, AtStep
<1>2. /\ call.op \in {"mkfile", "mkdir", "write"}
      /\ Len(call.todo) > 1 <=> call.op # "write"
  BY <1>1, StepsOf DEF IInv, Typed, InCall, AtStep
<1>3. vnode' = vnode /\ lost' \subseteq Kinds /\ ret' \in {"none", "ok", "fail"}
  BY <1>1, <1>2 DEF Done, Return, IInv, Typed, Kinds
<1>4. /\ DiskInv' /\ inode' \in [Inodes -> InodeRec]
      /\ call.op # "write" => "inode" \in lost' \/ inode'[call.ino].mode # "raw"
  <2>1. CASE inode' = inode /\ lost' = lost \cup {"inode"}
    BY <1>1, <1>3, <2>1, DiskKept DEF IInv, DiskInv, Typed
  <2>2. CASE inode' = [inode EXCEPT ![call.ino] = NewInode] /\ lost' = lost
    <3>1. PICK i, n : i = call.ino /\ n = NewInode
      OBVIOUS
    <3>2. Fits(i, n) /\ (call.op # "write" => n.mode # "raw")
      BY <1>1, <3>1, NewInodeFits
    <3> QED BY <1>1, <1>3, <2>2, <3>1, <3>2, InodeWritten
  <2> QED BY <1>1, <2>1, <2>2
<1>5. call' \in CallRec /\ InCall' /\ ~AtStep("icount")' /\ ~AtStep("bcount")'
  <2>1. CASE call.op = "write"
    <3>1. call' = NoCall
      BY <1>1, <1>2, <2>1 DEF Done, Return
    <3> QED BY <3>1, NoCallFacts DEF AtStep
  <2>2. CASE call.op # "write"
    <3>1. /\ call' \in CallRec /\ Shape' /\ NextIs
          /\ call'.op = call.op /\ call'.v = call.v /\ call'.name = call.name
          /\ call'.ino = call.ino /\ call'.blk = call.blk
      BY <1>1, <1>2, <2>2, AdvanceFacts
    <3>2. \A s : AtStep(s)' => s = "dirent"
      BY <1>1, <3>1 DEF NextIs, AtStep
    <3>3. /\ IsDirV(call.v) /\ call.name \in Names /\ call.ino \in Inodes
          /\ "ibmap" \in lost \/ (call.ino \in ibmap /\ Unnamed(call.ino))
      BY <1>1, <1>2, <2>2 DEF IInv, InCall, MakingIno, AtStep
    <3>4. IsDirV(call.v)' /\ lost \subseteq lost'
      BY <1>1, <1>3, <3>1, <3>3 DEF IsDirV
    <3>5. "ibmap" \in lost' \/ (call'.ino \in ibmap' /\ Unnamed(call.ino)')
      BY <1>1, <1>3, <3>1, <3>3, <3>4 DEF Unnamed
    <3>6. MakingIno'
      BY <1>4, <2>2, <3>1, <3>3, <3>4, <3>5 DEF MakingIno
    <3>7. MakingBlk' /\ Writing'
      BY <2>2, <3>1, <3>2 DEF MakingBlk, Writing
    <3> QED BY <3>1, <3>2, <3>6, <3>7 DEF InCall
  <2> QED BY <2>1, <2>2
<1>6. Typed'
  BY <1>1, <1>3, <1>4, <1>5, TypedKept DEF IInv, Typed
<1>7. Counted'
  <2>1. lost \subseteq lost' /\ ~AtStep("icount") /\ ~AtStep("bcount")
    BY <1>1 DEF AtStep
  <2> QED BY <1>1, <1>5, <2>1, CountedKeptBy
<1> QED BY <1>4, <1>5, <1>6, <1>7 DEF IInv, DiskInv

--------------------------------------------------------------------------------
(* The last step of mkfile and mkdir, and the vnodes.                           *)

\* The part of the invariant that is about the vnodes.
VnodeInv ==
  /\ \A s \in Slots : vnode[s].inode.mode = "dir" => vnode[s].inode.block # 0 /\ vnode[s].ino # 0
  /\ "ibmap" \in lost \/ \A s \in Slots : vnode[s].ino # 0 => vnode[s].ino \in ibmap
  /\ CacheNeverForeign

\* A vnode made from an inode that is marked keeps that part, and so does one let go.
LEMMA VnodesKept ==
  ASSUME IInv, NEW i \in Inodes, "ibmap" \in lost \/ i \in ibmap,
         vnode' = [s \in Slots |-> vnode'[s]],
         \A s \in Slots : vnode'[s] = vnode[s] \/ vnode'[s] = NoVnode \/ vnode'[s] = Load(i),
         UNCHANGED <<ibmap, inode>>, lost \subseteq lost'
  PROVE  VnodeInv' /\ vnode' \in [Slots -> VnodeRec]
<1>1. PICK w, z : w = Load(i) /\ z = NoVnode
  OBVIOUS
<1>2. /\ w \in VnodeRec /\ w.ino = i /\ w.inode = inode[i] /\ w.inode.mode = inode[i].mode
      /\ w.inode.block = inode[i].block /\ i # 0
  BY <1>1, InodeTyped DEF IInv, Load, VnodeRec
<1>3. z \in VnodeRec /\ z.ino = 0 /\ z.inode.mode = "raw"
  BY <1>1 DEF NoVnode, RawInode, VnodeRec, InodeRec
<1>4. \A s \in Slots : vnode'[s] \in {vnode[s], z, w} /\ vnode[s] \in VnodeRec
  BY <1>1 DEF IInv, Typed
<1>5. vnode' \in [Slots -> VnodeRec]
  BY <1>2, <1>3, <1>4
<1>6. ASSUME NEW s \in Slots
      PROVE  /\ vnode'[s].inode.mode = "dir" => vnode'[s].inode.block # 0 /\ vnode'[s].ino # 0
             /\ "ibmap" \in lost \/ (vnode'[s].ino # 0 =>
                  /\ vnode'[s].ino \in ibmap
                  /\ vnode'[s].inode.block \in {0, inode[vnode'[s].ino].block}
                  /\ vnode'[s].inode.mode = inode[vnode'[s].ino].mode)
  <2>1. CASE vnode'[s] = vnode[s]
    BY <2>1 DEF IInv, DirsHaveBlocks, Marks, CacheNeverForeign
  <2>2. CASE vnode'[s] = z
    BY <1>3, <2>2
  <2>3. CASE vnode'[s] = w
    BY <1>2, <2>3 DEF IInv, DirsHaveBlocks
  <2> QED BY <1>4, <2>1, <2>2, <2>3
<1>7. ibmap' = ibmap /\ inode' = inode /\ lost \subseteq lost'
  OBVIOUS
<1>8. CacheNeverForeign'
  BY <1>6, <1>7 DEF CacheNeverForeign
<1>9. /\ \A s \in Slots : vnode'[s].inode.mode = "dir" =>
           vnode'[s].inode.block # 0 /\ vnode'[s].ino # 0
      /\ "ibmap" \in lost' \/ \A s \in Slots : vnode'[s].ino # 0 => vnode'[s].ino \in ibmap'
  BY <1>6, <1>7
<1> QED BY <1>5, <1>8, <1>9 DEF VnodeInv

\* The entries of a block with one more at its end.
LEMMA EntryAdded ==
  ASSUME IInv, NEW b \in Blocks, NEW e \in Entry, Len(block[b].ents) < DirSlots,
         block' = [block EXCEPT ![b].ents = Append(@, e)]
  PROVE  /\ block' \in [Blocks -> BlockRec] /\ \A c \in Blocks : Len(block'[c].ents) <= DirSlots
         /\ \A c \in Blocks : block'[c].kind = block[c].kind
         /\ \A c \in Blocks : \A k \in DOMAIN block'[c].ents :
              \/ k \in DOMAIN block[c].ents /\ block'[c].ents[k] = block[c].ents[k]
              \/ c = b /\ k = Len(block[b].ents) + 1 /\ block'[c].ents[k] = e
<1>1. PICK es : es = Append(block[b].ents, e)
  OBVIOUS
<1>2. /\ block \in [Blocks -> BlockRec] /\ block[b] \in BlockRec /\ block[b].ents \in Seq(Entry)
      /\ \A c \in Blocks : Len(block[c].ents) <= DirSlots
      /\ DirSlots \in Nat
  BY Ext2Assumption DEF IInv, Typed, BlockRec, Ext2Assumption
<1>3. /\ es \in Seq(Entry) /\ Len(es) = Len(block[b].ents) + 1
      /\ \A k \in DOMAIN es : \/ k \in DOMAIN block[b].ents /\ es[k] = block[b].ents[k]
                              \/ k = Len(block[b].ents) + 1 /\ es[k] = e
  BY <1>1, <1>2
<1>4. PICK w : w = [block[b] EXCEPT !.ents = es]
  OBVIOUS
<1>5. w \in BlockRec
  BY <1>2, <1>3, <1>4, Zenon DEF BlockRec
<1>6. w.kind = block[b].kind /\ w.ents = es
  BY <1>2, <1>4, Zenon DEF BlockRec
<1>7. block' = [block EXCEPT ![b] = w]
  BY <1>1, <1>4
<1>8. /\ block' \in [Blocks -> BlockRec] /\ block'[b] = w
      /\ \A c \in Blocks : c # b => block'[c] = block[c]
  BY <1>2, <1>5, <1>7
<1>9. \A c \in Blocks : Len(block'[c].ents) <= DirSlots
  <2>1. Len(es) <= DirSlots
    BY <1>2, <1>3
  <2> QED BY <1>2, <1>6, <1>8, <2>1
<1> QED BY <1>3, <1>6, <1>8, <1>9

\* The new name leads to an inode that is marked, written and not named yet, and
\* so does the vnode the caller gets.
LEMMA AddEntryInv ==
  ASSUME IInv, AddEntry
  PROVE  IInv'
<1>1. /\ AtStep("dirent") /\ ~Idle /\ UNCHANGED <<ibmap, ifree, bbmap, bfree, inode, crashes>>
  BY DEF AddEntry, AtStep
<1>2. call.op \in {"mkfile", "mkdir"} /\ ~(Len(call.todo) > 1)
  BY <1>1, StepsOf DEF IInv, Typed, InCall
<1>3. /\ IsDirV(call.v) /\ call.name \in Names /\ call.ino \in Inodes /\ call.v \in Slots
      /\ "ibmap" \in lost \/ (call.ino \in ibmap /\ Unnamed(call.ino))
      /\ "inode" \in lost \/ inode[call.ino].mode # "raw"
  BY <1>1, <1>2 DEF IInv, Typed, CallRec, InCall, MakingIno, AtStep
<1>4. PICK i \in Inodes, e \in Entry : i = call.ino /\ e = [name |-> call.name, ino |-> call.ino]
  BY <1>3 DEF Entry
<1>5. PICK b \in Blocks \cup {0} : b = inode[vnode[call.v].ino].block
  <2>1. vnode[call.v].ino \in Inodes
    BY <1>3 DEF IInv, Typed, VnodeRec, DirsHaveBlocks, IsDirV
  <2> QED BY <2>1, InodeTyped DEF IInv
<1>6. /\ \/ b # 0 /\ Len(block[b].ents) < DirSlots /\ block' = [block EXCEPT ![b].ents = Append(@, e)]
         \/ block' = block
      /\ lost' = lost \/ (block' = block /\ lost' = lost \cup {"dirent"})
      /\ Done \/ (Return("fail") /\ UNCHANGED vnode)
  BY <1>4, <1>5 DEF AddEntry, HasSlot, Out
<1>7. lost \subseteq lost' /\ lost' \subseteq Kinds
  BY <1>6 DEF IInv, Typed, Kinds
<1>8. /\ call' = NoCall /\ ret' \in {"ok", "fail"}
      /\ vnode' = vnode
         \/ \E s \in Slots \ {1} : vnode' = [vnode EXCEPT ![s] = Load(i)]
  BY <1>1, <1>2, <1>4, <1>6 DEF Done, Return, Load
<1>9. call' \in CallRec /\ InCall' /\ ~AtStep("icount")' /\ ~AtStep("bcount")'
  BY <1>8, NoCallFacts DEF AtStep
<1>10. VnodeInv' /\ vnode' \in [Slots -> VnodeRec]
  <2>1. /\ vnode' = [s \in Slots |-> vnode'[s]]
        /\ \A s \in Slots : vnode'[s] = vnode[s] \/ vnode'[s] = Load(i)
    BY <1>8 DEF IInv, Typed
  <2> QED BY <1>1, <1>3, <1>4, <1>7, <2>1, VnodesKept
<1>11. /\ block' \in [Blocks -> BlockRec] /\ \A c \in Blocks : Len(block'[c].ents) <= DirSlots
       /\ \A c \in Blocks : block'[c].kind = block[c].kind
       /\ \A c \in Blocks : \A k \in DOMAIN block'[c].ents :
            \/ k \in DOMAIN block[c].ents /\ block'[c].ents[k] = block[c].ents[k]
            \/ c = b /\ k = Len(block[b].ents) + 1 /\ block'[c].ents[k] = e
  <2>1. CASE block' = block
    BY <2>1 DEF IInv, Typed
  <2>2. CASE /\ b # 0 /\ Len(block[b].ents) < DirSlots
             /\ block' = [block EXCEPT ![b].ents = Append(@, e)]
    BY <1>5, <2>2, EntryAdded
  <2> QED BY <1>6, <2>1, <2>2
<1>12. Typed'
  BY <1>1, <1>7, <1>8, <1>9, <1>10, <1>11, TypedKept DEF IInv, Typed
<1>13. DirsHaveBlocks' /\ CacheNeverForeign'
  <2>1. \A j \in Inodes : inode'[j].mode = "dir" => inode'[j].block # 0
    BY <1>1 DEF IInv, DirsHaveBlocks
  <2> QED BY <1>10, <2>1 DEF VnodeInv, DirsHaveBlocks
<1>14. e.ino = i /\ (\A c \in Blocks : \A k \in DOMAIN block[c].ents :
                       block[c].ents[k].ino = i => "ibmap" \in lost)
  BY <1>3, <1>4 DEF Unnamed
<1>15. Marks'
  <2>1. EXT2_ROOT_INO \in ibmap'
    BY <1>1 DEF IInv, Marks
  <2>2. "ibmap" \in lost' \/
          /\ \A c \in Blocks : \A k \in DOMAIN block'[c].ents : block'[c].ents[k].ino \in ibmap'
          /\ \A s \in Slots : vnode'[s].ino # 0 => vnode'[s].ino \in ibmap'
    BY <1>1, <1>3, <1>4, <1>7, <1>10, <1>11, <1>14 DEF IInv, Marks, VnodeInv
  <2>3. "bbmap" \in lost' \/ \A j \in Inodes : inode'[j].block # 0 => inode'[j].block \in bbmap'
    BY <1>1, <1>7 DEF IInv, Marks
  <2> QED BY <2>1, <2>2, <2>3 DEF Marks, EXT2_ROOT_INO
<1>16. Written'
  BY <1>1, <1>3, <1>4, <1>7, <1>11, <1>14 DEF IInv, Written
<1>17. Owned'
  <2>1. "ibmap" \in lost' \/
          \A c, d \in Blocks : \A k \in DOMAIN block'[c].ents, l \in DOMAIN block'[d].ents :
            block'[c].ents[k].ino = block'[d].ents[l].ino => c = d /\ k = l
    BY <1>7, <1>11, <1>14 DEF IInv, Owned
  <2>2. "bbmap" \in lost' \/
          \A j, k \in Inodes : j # k => inode'[j].block = 0 \/ inode'[j].block # inode'[k].block
    BY <1>1, <1>7 DEF IInv, Owned
  <2> QED BY <2>1, <2>2 DEF Owned
<1>18. NoStaleBlock'
  <2>1. \A j \in Inodes : inode[j].block # 0 => block'[inode[j].block].kind = block[inode[j].block].kind
    BY <1>11, InodeTyped DEF IInv
  <2>2. /\ inode' = inode /\ lost \subseteq lost'
        /\ lost' \cap {"ibmap", "bbmap", "inode"} = {} => lost \cap {"ibmap", "bbmap", "inode"} = {}
    BY <1>1, <1>7
  <2> QED BY <2>1, <2>2 DEF IInv, NoStaleBlock
<1>19. Counted'
  <2>1. ~AtStep("icount") /\ ~AtStep("bcount")
    BY <1>1 DEF AtStep
  <2> QED BY <1>1, <1>7, <1>9, <2>1, CountedKeptBy
<1> QED BY <1>9, <1>12, <1>13, <1>15, <1>16, <1>17, <1>18, <1>19 DEF IInv

\* Vnodes that are made or let go between the calls; c is the power failures so far.
LEMMA VnodesInv ==
  ASSUME IInv, NEW i \in Inodes, "ibmap" \in lost \/ i \in ibmap,
         vnode' = [s \in Slots |-> vnode'[s]],
         \A s \in Slots : vnode'[s] = vnode[s] \/ vnode'[s] = NoVnode \/ vnode'[s] = Load(i),
         call' = NoCall, ret' \in {"none", "ok", "fail"}, UNCHANGED <<disk, lost>>,
         NEW c \in Nat, crashes' = c, PendingI + PendingB + crashes <= c
  PROVE  IInv'
<1>1. UNCHANGED <<ibmap, bbmap, ifree, bfree, inode, block, lost>>
  BY DEF disk
<1>2. call' \in CallRec /\ InCall' /\ Idle'
  BY NoCallFacts
<1>3. VnodeInv' /\ vnode' \in [Slots -> VnodeRec]
  BY <1>1, VnodesKept
<1>4. Typed'
  BY <1>1, <1>2, <1>3, TypedKept DEF IInv, Typed
<1>5. DirsHaveBlocks' /\ CacheNeverForeign'
  <2>1. \A j \in Inodes : inode'[j].mode = "dir" => inode'[j].block # 0
    BY <1>1 DEF IInv, DirsHaveBlocks
  <2> QED BY <1>3, <2>1 DEF VnodeInv, DirsHaveBlocks
<1>6. Marks'
  <2>1. EXT2_ROOT_INO \in ibmap'
    BY <1>1 DEF IInv, Marks
  <2>2. "ibmap" \in lost' \/
          /\ \A d \in Blocks : \A k \in DOMAIN block'[d].ents : block'[d].ents[k].ino \in ibmap'
          /\ \A s \in Slots : vnode'[s].ino # 0 => vnode'[s].ino \in ibmap'
    BY <1>1, <1>3 DEF IInv, Marks, VnodeInv
  <2>3. "bbmap" \in lost' \/ \A j \in Inodes : inode'[j].block # 0 => inode'[j].block \in bbmap'
    BY <1>1 DEF IInv, Marks
  <2> QED BY <2>1, <2>2, <2>3 DEF Marks, EXT2_ROOT_INO
<1>7. Written' /\ Owned' /\ NoStaleBlock'
  BY <1>1 DEF IInv, Written, Owned, NoStaleBlock
<1>8. Counted'
  <2>1. PendingI' = 0 /\ PendingB' = 0 /\ PendingI \in {0, 1} /\ PendingB \in {0, 1}
    BY <1>2 DEF PendingI, PendingB, AtStep
  <2> QED BY <1>1, <2>1, CountedKept DEF IInv
<1> QED BY <1>2, <1>4, <1>5, <1>6, <1>7, <1>8 DEF IInv

\* The root directory's inode is an inode, and marked.
LEMMA RootFacts ==
  EXT2_ROOT_INO \in Inodes /\ 1 \in Inodes /\ 1 \in Blocks /\ 1 \in Slots
<1>1. CountMax \in Nat
  BY DEF CountMax
<1> QED BY <1>1, Ext2Assumption DEF Ext2Assumption, EXT2_ROOT_INO, Inodes, Blocks, Slots

\* A lookup finds the inode of an entry, or 0.
LEMMA LookupFacts ==
  ASSUME NEW dir, NEW name, dir.ents \in Seq(Entry)
  PROVE  Lookup(dir, name) # 0 => \E k \in DOMAIN dir.ents : Lookup(dir, name) = dir.ents[k].ino
<1> DEFINE hits == {k \in DOMAIN dir.ents : dir.ents[k].name = name}
<1>1. hits \in SUBSET Nat
  OBVIOUS
<1>2. Lookup(dir, name) = IF hits = {} THEN 0 ELSE dir.ents[Min(hits)].ino
  BY DEF Lookup
<1>3. hits # {} => Min(hits) \in hits
  <2> HIDE DEF hits
  <2> QED BY <1>1, MinFacts
<1> QED BY <1>2, <1>3

\* finddir makes a vnode of an inode that an entry leads to.
LEMMA FinddirInv ==
  ASSUME IInv, NEW v \in Slots, NEW name, NEW s \in Slots, Finddir(v, name, s)
  PROVE  IInv'
<1>1. PICK i : i = Lookup(block[vnode[v].inode.block], name)
  OBVIOUS
<1>2. /\ i # 0 /\ IsDirV(v) /\ Idle /\ vnode' = [vnode EXCEPT ![s] = Load(i)]
      /\ UNCHANGED <<disk, call, ret, lost, crashes>>
  BY <1>1 DEF Finddir
<1>3. PICK b \in Blocks : b = vnode[v].inode.block
  BY <1>2 DEF IInv, Typed, VnodeRec, InodeRec, DirsHaveBlocks, IsDirV
<1>4. block[b].ents \in Seq(Entry)
  BY DEF IInv, Typed, BlockRec
<1>5. PICK k \in DOMAIN block[b].ents : i = block[b].ents[k].ino
  BY <1>1, <1>2, <1>3, <1>4, LookupFacts
<1>6. i \in Inodes /\ ("ibmap" \in lost \/ i \in ibmap)
  BY <1>5, EntryTyped DEF IInv, Marks
<1>7. call' = NoCall /\ PendingI = 0 /\ PendingB = 0 /\ crashes \in Nat /\ crashes' = crashes
      /\ ret' \in {"none", "ok", "fail"}
  BY <1>2, IdleFacts DEF IInv, Typed
<1>8. /\ vnode' = [t \in Slots |-> vnode'[t]]
      /\ \A t \in Slots : vnode'[t] = vnode[t] \/ vnode'[t] = Load(i)
  BY <1>2 DEF IInv, Typed
<1>9. PendingI + PendingB + crashes <= crashes
  BY <1>7
<1> QED BY <1>2, <1>6, <1>7, <1>8, <1>9, VnodesInv

\* A second mount of the disk makes a vnode of the root directory.
LEMMA RemountInv ==
  ASSUME IInv, NEW s \in Slots, Remount(s)
  PROVE  IInv'
<1>1. /\ Idle /\ vnode' = [vnode EXCEPT ![s] = Load(EXT2_ROOT_INO)]
      /\ UNCHANGED <<disk, call, ret, lost, crashes>>
  BY DEF Remount
<1>2. PICK i \in Inodes : i = EXT2_ROOT_INO /\ i \in ibmap
  BY RootFacts DEF IInv, Marks
<1>3. call' = NoCall /\ PendingI = 0 /\ PendingB = 0 /\ crashes \in Nat /\ crashes' = crashes
      /\ ret' \in {"none", "ok", "fail"}
  BY <1>1, IdleFacts DEF IInv, Typed
<1>4. /\ vnode' = [t \in Slots |-> vnode'[t]]
      /\ \A t \in Slots : vnode'[t] = vnode[t] \/ vnode'[t] = Load(i)
  BY <1>1, <1>2 DEF IInv, Typed
<1>5. PendingI + PendingB + crashes <= crashes
  BY <1>3
<1> QED BY <1>1, <1>2, <1>3, <1>4, <1>5, VnodesInv

\* After a power failure the disk is as it was and only the root is held; a bit that
\* was set and not counted stays so, which is what the failure is counted for.
LEMMA CrashInv ==
  ASSUME IInv, Crash
  PROVE  IInv'
<1>1. /\ crashes' = crashes + 1 /\ call' = NoCall /\ ret' = "none" /\ UNCHANGED <<disk, lost>>
      /\ vnode' = [s \in Slots |-> IF s = 1 THEN Load(EXT2_ROOT_INO) ELSE NoVnode]
  BY DEF Crash
<1>2. PICK i \in Inodes : i = EXT2_ROOT_INO /\ i \in ibmap
  BY RootFacts DEF IInv, Marks
<1>3. /\ vnode' = [t \in Slots |-> vnode'[t]]
      /\ \A t \in Slots : vnode'[t] = NoVnode \/ vnode'[t] = Load(i)
  BY <1>1, <1>2
<1>4. crashes \in Nat
  BY DEF IInv, Typed
<1>5. PICK c \in Nat : c = crashes + 1
  BY <1>4
<1>6. PendingI + PendingB + crashes <= c
  BY <1>4, <1>5 DEF PendingI, PendingB, AtStep
<1> QED BY <1>1, <1>2, <1>3, <1>5, <1>6, VnodesInv

--------------------------------------------------------------------------------
(* The invariant holds always, and what follows from it.                        *)

\* It holds of a disk just formatted and mounted.
LEMMA InitInv ==
  ASSUME Init
  PROVE  IInv
<1>1. /\ ibmap = {1, EXT2_ROOT_INO} /\ ifree = MaxIno - 2 /\ bbmap = {1} /\ bfree = MaxBlock - 1
      /\ call = NoCall /\ ret = "none" /\ lost = {} /\ crashes = 0
  BY DEF Init
<1>2. /\ CountMax \in Nat /\ MaxIno \in 2 .. CountMax /\ MaxBlock \in 1 .. CountMax
      /\ DirSlots \in Nat
  <2>1. CountMax \in Nat
    BY DEF CountMax
  <2> QED BY <2>1, Ext2Assumption DEF Ext2Assumption
<1>3. PICK r : r = EXT2_ROOT_INO /\ r = 2
  BY DEF EXT2_ROOT_INO
<1>4. r \in Inodes /\ 1 \in Inodes /\ 1 \in Blocks /\ 1 \in Slots /\ 0 \notin Inodes /\ 0 \notin Blocks
  BY <1>3, RootFacts DEF Inodes, Blocks
<1>5. PICK raw, dir : raw = RawInode /\ dir = [mode |-> "dir", block |-> 1]
  OBVIOUS
<1>6. /\ raw \in InodeRec /\ raw.mode = "raw" /\ raw.block = 0
      /\ dir \in InodeRec /\ dir.mode = "dir" /\ dir.block = 1
  BY <1>4, <1>5 DEF RawInode, InodeRec
<1>7. inode = [j \in Inodes |-> IF j = r THEN dir ELSE raw]
  BY <1>3, <1>5 DEF Init
<1>8. inode \in [Inodes -> InodeRec] /\ inode[r] = dir /\ \A j \in Inodes : j # r => inode[j] = raw
  BY <1>4, <1>6, <1>7
<1>9. PICK eb, rb : eb = EmptyDir /\ rb = RawBlock
  OBVIOUS
<1>10. /\ eb \in BlockRec /\ eb.kind = "dir" /\ eb.ents = <<>>
       /\ rb \in BlockRec /\ rb.ents = <<>>
  BY <1>9 DEF EmptyDir, RawBlock, BlockRec
<1>11. block = [b \in Blocks |-> IF b = 1 THEN eb ELSE rb]
  BY <1>9 DEF Init
<1>12. /\ block \in [Blocks -> BlockRec] /\ block[1] = eb
       /\ \A b \in Blocks : block[b].ents = <<>>
  BY <1>4, <1>10, <1>11
<1>13. PICK rv, nv : rv = Load(EXT2_ROOT_INO) /\ nv = NoVnode
  OBVIOUS
<1>14. /\ rv \in VnodeRec /\ rv.ino = r /\ rv.inode = dir /\ nv \in VnodeRec /\ nv.ino = 0
       /\ nv.inode.mode = "raw"
  BY <1>3, <1>4, <1>5, <1>6, <1>8, <1>13 DEF Load, NoVnode, VnodeRec
<1>15. vnode = [s \in Slots |-> IF s = 1 THEN rv ELSE nv]
  BY <1>13 DEF Init
<1>16. vnode \in [Slots -> VnodeRec] /\ \A s \in Slots : vnode[s] = rv \/ vnode[s] = nv
  BY <1>14, <1>15
<1>17. \A b \in Blocks : Len(block[b].ents) = 0 /\ DOMAIN block[b].ents = {}
  BY <1>12
<1>18. call \in CallRec /\ InCall
  <2>1. /\ call.op = "none" /\ call.v = 1 /\ call.name = NoName /\ call.ino = 0
        /\ call.blk = 0 /\ call.todo = <<>>
    BY <1>1 DEF NoCall
  <2>2. <<>> \in Left
    BY DEF Left
  <2>3. call \in CallRec
    BY <1>1, <1>4, <2>2, Zenon DEF NoCall, CallRec
  <2> QED BY <1>1, <2>1, <2>3 DEF InCall, Shape, MakingIno, MakingBlk, Writing
<1>19. Typed
  <2>1. ifree \in 0 .. CountMax /\ bfree \in 0 .. CountMax
    BY <1>1, <1>2
  <2> QED BY <1>1, <1>2, <1>3, <1>4, <1>8, <1>12, <1>16, <1>17, <1>18, <2>1 DEF Typed, Kinds
<1>20. DirsHaveBlocks
  BY <1>4, <1>6, <1>8, <1>14, <1>16 DEF DirsHaveBlocks
<1>21. Marks /\ Written
  BY <1>1, <1>3, <1>4, <1>6, <1>8, <1>14, <1>16, <1>17 DEF Marks, Written
<1>22. Owned
  BY <1>6, <1>8, <1>17 DEF Owned
<1>23. NoStaleBlock
  BY <1>6, <1>8, <1>10, <1>12 DEF NoStaleBlock
<1>24. CacheNeverForeign
  BY <1>6, <1>8, <1>14, <1>16 DEF CacheNeverForeign
<1>25. Counted
  <2>1. Cardinality({1}) = 1 /\ IsFiniteSet({1})
    BY FS_Singleton
  <2>2. Cardinality({1} \cup {r}) = 2
    BY <1>3, <2>1, FS_AddElement
  <2>3. ibmap = {1} \cup {r}
    BY <1>1, <1>3
  <2>4. FreeInodes = ifree /\ FreeBlocks = bfree /\ ifree \in Int /\ bfree \in Int
    <3>1. PICK mi \in Int, mb \in Int : mi = MaxIno /\ mb = MaxBlock
      BY <1>2
    <3>2. FreeInodes = mi - 2 /\ FreeBlocks = mb - 1
      BY <1>1, <2>1, <2>2, <2>3, <3>1 DEF FreeInodes, FreeBlocks
    <3>3. ifree = mi - 2 /\ bfree = mb - 1
      BY <1>1, <3>1
    <3> QED BY <3>1, <3>2, <3>3
  <2>5. PendingI = 0 /\ PendingB = 0
    BY <1>1 DEF PendingI, PendingB, AtStep, Idle, NoCall
  <2> QED BY <1>1, <2>4, <2>5 DEF Counted, Balanced
<1> QED BY <1>18, <1>19, <1>20, <1>21, <1>22, <1>23, <1>24, <1>25 DEF IInv

\* Every step keeps it.
LEMMA NextInv ==
  ASSUME IInv, [Next]_vars
  PROVE  IInv'
<1>1. CASE UNCHANGED vars
  <2>1. /\ UNCHANGED <<ibmap, bbmap, ifree, bfree, inode, block, vnode, call, ret, crashes>>
        /\ lost' = lost
    BY <1>1 DEF vars, disk
  <2>2. Typed'
    BY <2>1, TypedKept DEF IInv, Typed
  <2>3. DiskInv'
    BY <2>1, DiskKept DEF IInv, DiskInv
  <2>4. Counted'
    BY <2>1 DEF IInv, Counted, CountLost, Balanced, PendingI, PendingB, FreeInodes, FreeBlocks,
       AtStep, Idle
  <2>5. Shape' /\ MakingIno'
    BY <2>1 DEF IInv, InCall, Shape, MakingIno, AtStep, Idle, Unnamed, IsDirV
  <2>6. MakingBlk' /\ Writing'
    BY <2>1 DEF IInv, InCall, MakingBlk, Writing, AtStep, Idle
  <2> QED BY <2>2, <2>3, <2>4, <2>5, <2>6 DEF IInv, DiskInv, InCall
<1>2. ASSUME NEW v \in Slots, NEW n \in Names, Mkfile(v, n) PROVE IInv'
  BY <1>2, MkfileInv
<1>3. ASSUME NEW v \in Slots, NEW n \in Names, Mkdir(v, n) PROVE IInv'
  BY <1>3, MkdirInv
<1>4. ASSUME NEW v \in Slots, NEW n \in Names, NEW s \in Slots \ {1}, Finddir(v, n, s)
      PROVE  IInv'
  BY <1>4, FinddirInv
<1>5. ASSUME NEW v \in Slots, Write(v) PROVE IInv'
  BY <1>5, WriteInv
<1>6. ASSUME NEW s \in Slots \ {1}, Remount(s) PROVE IInv'
  BY <1>6, RemountInv
<1>7. ASSUME Next PROVE IInv'
  BY <1>2, <1>3, <1>4, <1>5, <1>6, <1>7, AllocInodeInv, CountInodeInv, AllocBlockInv,
     CountBlockInv, WriteDirBlockInv, WriteDataInv, WriteInodeInv, AddEntryInv, RefusedInv,
     CrashInv DEF Next
<1> QED BY <1>1, <1>7

\* The inductive invariant holds of every state of the driver.
THEOREM Ext2Invariant == Spec => []IInv
<1>1. Init => IInv
  BY InitInv
<1>2. IInv /\ [Next]_vars => IInv'
  BY NextInv
<1> QED BY <1>1, <1>2, PTL DEF Spec

\* The names of a block are well typed.
LEMMA RangeTyped ==
  ASSUME Typed, NEW b \in Blocks
  PROVE  /\ Range(block[b].ents) = {block[b].ents[k] : k \in DOMAIN block[b].ents}
         /\ Range(block[b].ents) \subseteq Entry
  BY EntryTyped DEF Range

\* Whenever the power fails, a name leads to an inode that is marked and written.
THEOREM NamesNameInodes == Spec => []EntriesNameInodes
<1>1. IInv => EntriesNameInodes
  BY RangeTyped DEF IInv, Marks, Written, EntriesNameInodes, Entries
<1> QED BY <1>1, Ext2Invariant, PTL

\* Two names never lead to one inode and two inodes never own one block.
THEOREM OneOwnerAlways == Spec => []OneOwner
<1>1. ASSUME IInv PROVE TypeOK
  <2>1. /\ ibmap \subseteq Inodes /\ bbmap \subseteq Blocks
        /\ ifree \in 0 .. CountMax /\ bfree \in 0 .. CountMax
        /\ inode \in [Inodes -> InodeRec]
    BY <1>1 DEF IInv, Typed
  <2>2. ASSUME NEW b \in Blocks
        PROVE  /\ block[b].kind \in {"raw", "dir", "data"} /\ Len(block[b].ents) <= DirSlots
               /\ Range(block[b].ents) \subseteq [name : Names, ino : Inodes]
    BY <1>1, RangeTyped DEF IInv, Typed, BlockRec, Entry
  <2>3. vnode \in [Slots -> [ino : Inodes \cup {0}, inode : InodeRec]]
        /\ ret \in {"none", "ok", "fail"} /\ lost \subseteq Kinds
    BY <1>1 DEF IInv, Typed, VnodeRec
  <2> QED BY <2>1, <2>2, <2>3 DEF TypeOK
<1>2. IInv => OneOwner
  BY <1>1 DEF IInv, Owned, OneOwner
<1> QED BY <1>2, Ext2Invariant, PTL

\* An inode never points at a block it has not written.
THEOREM NoStaleBlockAlways == Spec => []NoStaleBlock
<1>1. IInv => NoStaleBlock
  BY DEF IInv
<1> QED BY <1>1, Ext2Invariant, PTL

\* A vnode's copy of its inode, however old, has no block or the file's.
THEOREM CacheNeverForeignAlways == Spec => []CacheNeverForeign
<1>1. IInv => CacheNeverForeign
  BY DEF IInv
<1> QED BY <1>1, Ext2Invariant, PTL

\* The counts of free inodes and blocks follow the bitmaps, off by at most one for
\* each power failure and never too low.
THEOREM CountsFollow == Spec => []CountsFollowBitmaps
<1>1. ASSUME IInv, lost \cap {"ibmap", "bbmap", "bgd"} = {}
      PROVE  /\ FreeInodes <= ifree /\ ifree <= FreeInodes + crashes + 1
             /\ FreeBlocks <= bfree /\ bfree <= FreeBlocks + crashes + 1
             /\ Idle => ifree + bfree <= FreeInodes + FreeBlocks + crashes
  <2>1. Balanced
    BY <1>1 DEF IInv, Counted, CountLost
  <2>2. /\ FreeInodes \in Int /\ FreeBlocks \in Int /\ crashes \in Int /\ ifree \in Int
        /\ bfree \in Int /\ PendingI \in {0, 1} /\ PendingB \in {0, 1}
    BY <1>1, FreeFacts DEF IInv, Typed
  <2>3. PendingI + PendingB <= 1 /\ (Idle => PendingI = 0 /\ PendingB = 0)
    BY DEF PendingI, PendingB, AtStep
  <2> QED BY <2>1, <2>2, <2>3 DEF Balanced
<1>2. IInv => CountsFollowBitmaps
  BY <1>1 DEF CountsFollowBitmaps
<1> QED BY <1>2, Ext2Invariant, PTL
================================================================================
