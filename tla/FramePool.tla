------------------------------- MODULE FramePool -------------------------------
(***************************************************************************)
(* What the physical memory manager promises its callers (heap, TSS stack,   *)
(* page tables, process images): runs of usable frames, each frame lent to   *)
(* one caller at a time, and a refusal only when no run is long enough.      *)
(* Pmm.tla is the code; it implements this specification.                    *)
(***************************************************************************)
EXTENDS Integers

CONSTANTS Usable,    \* frames the boot loader reports as usable
          RunLengths \* lengths of the runs callers ask for

VARIABLES held,  \* frames some caller owns
          lent,  \* how many frames were handed out and not given back
          ret    \* the last call's n and the first frame it got, 0 for a refusal

absVars == <<held, lent, ret>>

Ans(n, b) == [n |-> n, frame |-> b]

Run(b, n) == b .. (b + n - 1)

Init == held = {} /\ lent = 0 /\ ret = Ans(0, 0)

Lend(b, n) ==
  /\ Run(b, n) \subseteq Usable \ held
  /\ held' = held \cup Run(b, n) /\ lent' = lent + n /\ ret' = Ans(n, b)

Refuse(n) ==
  /\ \A b \in Usable : ~(Run(b, n) \subseteq Usable \ held)
  /\ ret' = Ans(n, 0) /\ UNCHANGED <<held, lent>>

Return(p) ==
  /\ held' = held \ {p} /\ lent' = lent - 1 /\ ret' = Ans(0, 0)

\* Giving back what nobody owns changes nothing.
Ignore == ret' = Ans(0, 0) /\ UNCHANGED <<held, lent>>

Next ==
  \/ \E n \in RunLengths : Refuse(n) \/ (\E b \in Usable : Lend(b, n))
  \/ \E p \in held : Return(p)
  \/ Ignore

Spec == Init /\ [][Next]_absVars
================================================================================
