---------------------------------- MODULE Pmm ----------------------------------
(***************************************************************************)
(* The physical memory manager, src/src/mm/pmm.c: one bit per 4 KiB frame,   *)
(* all set at first, cleared from the boot loader's memory map, then scanned *)
(* for the first clear bit or the first run of clear bits.                   *)
(*                                                                           *)
(* Addresses are frame numbers (address / PAGE_SIZE). bits is the set of     *)
(* frames whose bit is 1. A definition named ...Bug is a mistake the          *)
(* properties are known to catch (PROJECT.json); no action uses it.          *)
(***************************************************************************)
EXTENDS Integers, Sequences, FiniteSets

CONSTANTS
  Total,      \* pmm_total: the frames the bitmap has a bit for
  MemMap,     \* the boot loader's map: a sequence of [usable, base, pages]
  RunLengths  \* lengths asked of pmm_alloc_n; pmm_alloc asks for 1

Pages == 0 .. (Total - 1)
Entry == [usable : BOOLEAN, base : Nat, pages : Nat]
Run(b, n) == b .. (b + n - 1)

\* Usable entries are page aligned (the boot protocol) but may reach past the
\* last bit. Frame 0 is never usable: 0 is also how an allocator says no.
Usable ==
  {p \in Pages : \E k \in DOMAIN MemMap :
     MemMap[k].usable /\ p \in Run(MemMap[k].base, MemMap[k].pages)}

ASSUME PmmAssumption ==
  /\ Total \in Nat \ {0}
  /\ MemMap \in Seq(Entry)
  /\ RunLengths \subseteq Nat \ {0} /\ 1 \in RunLengths
  /\ 0 \notin Usable

\* An answer: the run asked for and its first frame, 0 for a refusal.
Ans(n, b) == [n |-> n, frame |-> b]
NoAns == Ans(0, 0)

VARIABLES
  bits,      \* pmm_bitmap
  pmm_used,  \* the counter kept beside it
  pc,        \* "init" while pmm_init runs, then "ready"
  ent, pg,   \* pmm_init's loop variables i (from 1) and pg
  held,      \* ghost: frames some caller owns
  lent,      \* ghost: frames handed out and not given back
  ret        \* ghost: the last call's n and the frame it returned

vars == <<bits, pmm_used, pc, ent, pg, held, lent, ret>>

--------------------------------------------------------------------------------
Init ==
  /\ bits = Pages /\ pmm_used = Total
  /\ pc = "init" /\ ent = 1 /\ pg = 0
  /\ held = {} /\ lent = 0 /\ ret = NoAns

Frame == MemMap[ent].base + pg                     \* idx
InEntryBug == MemMap[ent].usable /\ pg + 1 < MemMap[ent].pages /\ Frame < Total
InEntry == MemMap[ent].usable /\ pg < MemMap[ent].pages /\ Frame < Total

\* The counter goes down whether or not the bit was still set.
InitPageBug ==
  /\ pc = "init" /\ ent <= Len(MemMap) /\ InEntry
  /\ bits' = bits \ {Frame} /\ pmm_used' = pmm_used - 1
  /\ pg' = pg + 1
  /\ UNCHANGED <<pc, ent, held, lent, ret>>

\* One iteration of the inner loop: overlapping entries clear a bit once.
InitPage ==
  /\ pc = "init" /\ ent <= Len(MemMap) /\ InEntry
  /\ bits' = bits \ {Frame}
  /\ pmm_used' = IF Frame \in bits THEN pmm_used - 1 ELSE pmm_used
  /\ pg' = pg + 1
  /\ UNCHANGED <<pc, ent, held, lent, ret>>

\* Not usable, exhausted, or past the last bit.
InitEntryDone ==
  /\ pc = "init" /\ ent <= Len(MemMap) /\ ~InEntry
  /\ ent' = ent + 1 /\ pg' = 0
  /\ UNCHANGED <<bits, pmm_used, pc, held, lent, ret>>

InitDone ==
  /\ pc = "init" /\ ent > Len(MemMap)
  /\ pc' = "ready"
  /\ UNCHANGED <<bits, pmm_used, ent, pg, held, lent, ret>>

\* A run of n clear bits, all of them within the bitmap (i + n <= pmm_total).
FreeRun(b, n) == b + n <= Total /\ Run(b, n) \cap bits = {}

\* Only the last bit of the run is looked at.
FirstFreeRunBug(b, n) == b + n <= Total /\ b + n - 1 \notin bits
\* The scan stops at the lowest run.
FirstFreeRun(b, n) == FreeRun(b, n) /\ \A c \in 0 .. (b - 1) : ~FreeRun(c, n)

\* pmm_alloc is the case n = 1.
Alloc(b, n) ==
  /\ pc = "ready" /\ FirstFreeRun(b, n)
  /\ bits' = bits \cup Run(b, n) /\ pmm_used' = pmm_used + n
  /\ held' = held \cup Run(b, n) /\ lent' = lent + n /\ ret' = Ans(n, b)
  /\ UNCHANGED <<pc, ent, pg>>

AllocFail(n) ==
  /\ pc = "ready" /\ \A b \in Pages : ~FreeRun(b, n)
  /\ ret' = Ans(n, 0)
  /\ UNCHANGED <<bits, pmm_used, pc, ent, pg, held, lent>>

\* pmm_free of a frame the caller owns; of one that is free already or that has
\* no bit it does nothing.
Free(p) ==
  /\ pc = "ready" /\ (p \in held \/ p \notin bits \/ p >= Total)
  /\ IF p < Total /\ p \in bits
     THEN bits' = bits \ {p} /\ pmm_used' = pmm_used - 1
     ELSE UNCHANGED <<bits, pmm_used>>
  /\ held' = held \ {p} /\ lent' = IF p \in held THEN lent - 1 ELSE lent
  /\ ret' = NoAns /\ UNCHANGED <<pc, ent, pg>>

InitStep == InitPage \/ InitEntryDone \/ InitDone

Next ==
  \/ InitStep
  \/ \E n \in RunLengths : AllocFail(n) \/ (\E b \in Pages : Alloc(b, n))
  \/ \E p \in 0 .. Total : Free(p)

Spec == Init /\ [][Next]_vars
--------------------------------------------------------------------------------
\* Bits and owners are frames of the bitmap and the counter stays between 0 and
\* pmm_total: it is unsigned in the code and would wrap.
TypeOK ==
  /\ bits \subseteq Pages /\ pmm_used \in 0 .. Total
  /\ pc \in {"init", "ready"}
  /\ ent \in 1 .. (Len(MemMap) + 1) /\ pg \in Nat
  /\ held \subseteq Pages /\ lent \in Nat
  /\ ret \in [n : RunLengths \cup {0}, frame : Pages]

\* The counter /proc/mem reports is the number of set bits, through overlapping
\* map entries, runs, and frees of frames that are already free.
CounterExact == pmm_used = Cardinality(bits)

\* After boot a bit is set exactly for the frames that are not memory and those
\* somebody owns: no frame is lost, and none is free while it is owned.
BitmapExact == pc = "ready" => bits = (Pages \ Usable) \cup held

Abs == INSTANCE FramePool WITH
         Usable <- Usable, RunLengths <- RunLengths, held <- held, lent <- lent, ret <- ret
\* The manager keeps the promise of FramePool.tla: a run lent is usable and
\* nobody's, and a refusal means that no such run exists.
AbsSpec == Abs!Spec
================================================================================
