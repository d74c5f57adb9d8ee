------------------------------- MODULE Allocator -------------------------------
(***************************************************************************)
(* What the kernel heap promises its callers (tmpfs, ext2, the ELF loader),  *)
(* with no blocks, headers or list: a set of live regions, each starting at  *)
(* an aligned address inside the heap and disjoint from every other one.     *)
(* Kmalloc.tla is the code; it implements this specification.                *)
(***************************************************************************)
EXTENDS Integers

CONSTANTS HeapSize,  \* bytes handed to kmalloc_init
          Requests   \* sizes callers ask for

VARIABLES live,      \* pointers callers hold, each with the size it was asked for
          req,       \* the request being met, or NoReq
          ret        \* value the last kmalloc returned

absVars == <<live, req, ret>>

NULL == -1           \* the null pointer; addresses are offsets from heap_base
NoReq == -1
Hdr  == 24           \* sizeof(block_header_t)

Disjoint(p, n, q, m) == p + n <= q \/ q + m <= p

Init == live = [p \in {} |-> 0] /\ req = NoReq /\ ret = NULL

Request(n) == req = NoReq /\ req' = n /\ UNCHANGED <<live, ret>>

\* A request of n bytes is met with a region nobody else holds.
Alloc(p) ==
  /\ req # NoReq /\ p \notin DOMAIN live
  /\ p >= Hdr /\ p % 8 = 0 /\ p + req <= HeapSize
  /\ \A q \in DOMAIN live : Disjoint(p, req, q, live[q])
  /\ live' = [q \in DOMAIN live \cup {p} |-> IF q = p THEN req ELSE live[q]]
  /\ req' = NoReq /\ ret' = p

\* A request may fail, but never on a heap from which everything was given
\* back: whatever was allocated and freed before, the heap is whole again.
Fail ==
  /\ req # NoReq /\ (DOMAIN live = {} => req > HeapSize - Hdr)
  /\ req' = NoReq /\ ret' = NULL
  /\ UNCHANGED live

Free(p) ==
  /\ req = NoReq
  /\ live' = [q \in DOMAIN live \ {p} |-> live[q]]
  /\ UNCHANGED <<req, ret>>

Next ==
  \/ \E n \in Requests : Request(n)
  \/ Fail \/ (\E p \in Hdr..HeapSize : Alloc(p))
  \/ \E p \in DOMAIN live : Free(p)

Spec == Init /\ [][Next]_absVars
================================================================================
