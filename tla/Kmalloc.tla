-------------------------------- MODULE Kmalloc --------------------------------
(***************************************************************************)
(* The kernel heap, src/src/lib/kmalloc.c: a singly linked list of blocks    *)
(* laid end to end over one region, first fit with splitting, and one        *)
(* coalescing pass over the whole list on every kfree.                       *)
(*                                                                           *)
(* blk maps the address of every header on the list to its three fields.     *)
(* One iteration of a list walk is one action, so that the walks (find_free  *)
(* and the loop of kfree) are part of what is checked. A definition named    *)
(* ...Bug is a mistake the properties are known to catch (PROJECT.json); no   *)
(* action uses it.                                                           *)
(***************************************************************************)
EXTENDS Integers, FiniteSets, FiniteSetsExt

CONSTANTS HeapSize,  \* kmalloc_init's size argument, in bytes
          Requests   \* sizes the callers pass to kmalloc

Hdr  == 24           \* sizeof(block_header_t): size, free, next
NoReq == -1          \* no kmalloc is running
NULL == -1           \* addresses are offsets from heap_base, which is not NULL

\* Rounds to the nearest.
Align8Bug(n) == ((n + 3) \div 8) * 8
Align8(n) == ((n + 7) \div 8) * 8

\* main.c hands over 256 whole pages, whose size is a multiple of 8.
ASSUME HeapAssumption ==
  /\ HeapSize \in Nat /\ HeapSize > Hdr /\ HeapSize % 8 = 0
  /\ Requests \subseteq Nat

VARIABLES
  blk,   \* header address -> [size, free, next]
  live,  \* ghost: pointers callers hold -> the size they asked for
  pc,    \* where the running call is
  cur,   \* the walk's cursor
  req,   \* the size asked for by the running kmalloc, or NoReq
  ret    \* what the last kmalloc returned

vars == <<blk, live, pc, cur, req, ret>>

Block == [size : Nat, free : BOOLEAN, next : Nat \cup {NULL}]
End(a) == a + Hdr + blk[a].size          \* first byte after a's payload
Fits(a) == blk[a].free /\ blk[a].size >= Align8(req)

--------------------------------------------------------------------------------
\* kmalloc_init: one free block over the whole region.
Init ==
  /\ blk = [a \in {0} |-> [size |-> HeapSize - Hdr, free |-> TRUE, next |-> NULL]]
  /\ live = [p \in {} |-> 0]
  /\ pc = "idle" /\ cur = NULL /\ req = NoReq /\ ret = NULL

KmallocCall(n) ==
  /\ pc = "idle"
  /\ pc' = "find" /\ cur' = 0 /\ req' = n
  /\ UNCHANGED <<blk, live, ret>>

\* The walk starts over at the head.
FindNextBug ==
  /\ pc = "find" /\ cur # NULL /\ ~Fits(cur)
  /\ cur' = 0
  /\ UNCHANGED <<blk, live, pc, req, ret>>

\* find_free passes over a block that is in use or too small.
FindNext ==
  /\ pc = "find" /\ cur # NULL /\ ~Fits(cur)
  /\ cur' = blk[cur].next
  /\ UNCHANGED <<blk, live, pc, req, ret>>

FindFail ==
  /\ pc = "find" /\ cur = NULL
  /\ ret' = NULL /\ pc' = "idle" /\ req' = NoReq
  /\ UNCHANGED <<blk, live, cur>>

Hand(p) ==
  /\ live' = [q \in DOMAIN live \cup {p} |-> IF q = p THEN req ELSE live[q]]
  /\ ret' = p /\ pc' = "idle" /\ cur' = NULL /\ req' = NoReq

SplitsBug(a) == blk[a].size >= Align8(req) + 8  \* no room for the header
Splits(a) == blk[a].size >= Align8(req) + Hdr + 8

\* The header is not taken off the tail.
TailBug(a) == [size |-> blk[a].size - Align8(req), free |-> TRUE, next |-> blk[a].next]
\* What is left of block a once the request is cut off its front.
Tail(a) == [size |-> blk[a].size - Align8(req) - Hdr, free |-> TRUE,
            next |-> blk[a].next]

\* The first fit is cut in two: the tail becomes a free block of its own.
TakeSplit ==
  /\ pc = "find" /\ cur # NULL /\ Fits(cur) /\ Splits(cur)
  /\ LET rest == cur + Hdr + Align8(req) IN
       blk' = [a \in DOMAIN blk \cup {rest} |->
                 IF a = rest THEN Tail(cur)
                 ELSE IF a = cur
                 THEN [size |-> Align8(req), free |-> FALSE, next |-> rest]
                 ELSE blk[a]]
  /\ Hand(cur + Hdr)

\* The first fit is too small to be cut: the caller gets all of it.
TakeWhole ==
  /\ pc = "find" /\ cur # NULL /\ Fits(cur) /\ ~Splits(cur)
  /\ blk' = [blk EXCEPT ![cur].free = FALSE]
  /\ Hand(cur + Hdr)

\* The pass starts at the block just freed.
KfreeCallBug(p) ==
  /\ pc = "idle" /\ p \in DOMAIN live
  /\ blk' = [blk EXCEPT ![p - Hdr].free = TRUE]
  /\ live' = [q \in DOMAIN live \ {p} |-> live[q]]
  /\ pc' = "coalesce" /\ cur' = p - Hdr
  /\ UNCHANGED <<req, ret>>

\* Callers free what they hold, once. kfree(NULL) returns at once.
KfreeCall(p) ==
  /\ pc = "idle" /\ p \in DOMAIN live
  /\ blk' = [blk EXCEPT ![p - Hdr].free = TRUE]
  /\ live' = [q \in DOMAIN live \ {p} |-> live[q]]
  /\ pc' = "coalesce" /\ cur' = 0
  /\ UNCHANGED <<req, ret>>

Mergeable(a) == blk[a].free /\ blk[blk[a].next].free

\* Block a with its successor folded in.
Merged(a) == [size |-> blk[a].size + Hdr + blk[blk[a].next].size, free |-> TRUE,
              next |-> blk[blk[a].next].next]

\* Two free neighbours become one; the cursor stays, so a run of them folds.
CoalesceMerge ==
  /\ pc = "coalesce" /\ cur # NULL /\ blk[cur].next # NULL /\ Mergeable(cur)
  /\ blk' = [a \in DOMAIN blk \ {blk[cur].next} |->
               IF a = cur THEN Merged(cur) ELSE blk[a]]
  /\ UNCHANGED <<live, pc, cur, req, ret>>

CoalesceNext ==
  /\ pc = "coalesce" /\ cur # NULL /\ blk[cur].next # NULL /\ ~Mergeable(cur)
  /\ cur' = blk[cur].next
  /\ UNCHANGED <<blk, live, pc, req, ret>>

CoalesceDone ==
  /\ pc = "coalesce" /\ (cur = NULL \/ blk[cur].next = NULL)
  /\ pc' = "idle" /\ cur' = NULL
  /\ UNCHANGED <<blk, live, req, ret>>

Step == FindNext \/ FindFail \/ TakeSplit \/ TakeWhole
          \/ CoalesceMerge \/ CoalesceNext \/ CoalesceDone

Next ==
  \/ \E n \in Requests : KmallocCall(n)
  \/ \E p \in DOMAIN live : KfreeCall(p)
  \/ Step

Spec == Init /\ [][Next]_vars

\* The CPU keeps executing the call it is in; callers owe nothing.
FairSpec == Spec /\ WF_vars(Step)

--------------------------------------------------------------------------------
\* Every pointer that is stored or held lies inside the heap and names a block:
\* sizes stay natural numbers (they are unsigned in the code and would wrap).
TypeOK ==
  /\ DOMAIN blk \subseteq 0..HeapSize /\ 0 \in DOMAIN blk
  /\ blk \in [DOMAIN blk -> Block]
  /\ DOMAIN live \subseteq Hdr..HeapSize
  /\ live \in [DOMAIN live -> Requests]
  /\ pc \in {"idle", "find", "coalesce"}
  /\ cur \in DOMAIN blk \cup {NULL}
  /\ (pc = "find" => req \in Requests) /\ (pc # "find" => req = NoReq)
  /\ ret \in Nat \cup {NULL}

\* The list is the heap: headers lie end to end from the base to the end of the
\* region, in address order, aligned, none inside another block. Every split and
\* merge rewrites two sizes and two links, and one that disagrees sends a later
\* walk through payload bytes (kmalloc.c:50-54, 82-83).
Tiled ==
  \A a \in DOMAIN blk :
    /\ a % 8 = 0 /\ blk[a].size % 8 = 0
    /\ blk[a].next = IF End(a) = HeapSize THEN NULL ELSE End(a)
    /\ blk[a].next # NULL => blk[a].next \in DOMAIN blk
    /\ \A b \in DOMAIN blk : a < b => End(a) <= b

\* A block is in use exactly when a caller holds the pointer just past its
\* header, and it is large enough for what that caller asked for: no pointer into
\* a free block, no block in use that nobody can free.
HeldBlocks ==
  /\ \A p \in DOMAIN live :
       p - Hdr \in DOMAIN blk /\ live[p] <= blk[p - Hdr].size
  /\ \A a \in DOMAIN blk : ~blk[a].free <=> a + Hdr \in DOMAIN live

\* Between calls no two neighbours are both free: one pass of kfree's loop is
\* enough to fold a run of free blocks, whatever was freed in whatever order.
NoAdjacentFree ==
  pc # "coalesce" =>
    \A a \in DOMAIN blk : blk[a].next # NULL => ~Mergeable(a)

\* kmalloc answers NULL only when no block, and hence (by NoAdjacentFree) no run
\* of unheld bytes, is large enough.
FailsOnlyWhenFull ==
  pc = "find" /\ cur = NULL => \A a \in DOMAIN blk : ~Fits(a)

\* Every call returns: the list has no cycle for a walk to run round.
CallsReturn == pc # "idle" ~> pc = "idle"

Abs == INSTANCE Allocator WITH
         HeapSize <- HeapSize, Requests <- Requests, live <- live, req <- req, ret <- ret
\* The heap keeps the allocator's promise (Allocator.tla): every request is met
\* with a region nobody holds or refused as it allows, in particular a heap that got
\* everything back can give it all again.
AbsSpec == Abs!Spec
================================================================================
