---------------------------------- MODULE Vmm ----------------------------------
(***************************************************************************)
(* Page tables, src/src/mm/vmm.c: a tree of tables in frames of the physical *)
(* memory manager, made on demand under each page that is mapped. One level  *)
(* of vmm_map is one action. The callers are boot (vmm_init) and exec         *)
(* (Exec.tla); vmm_unmap has none. A definition named ...Bug is a mistake the *)
(* properties are known to catch (PROJECT.json); no action uses it.           *)
(*                                                                           *)
(* A virtual address is a page number and a word; a physical one a frame.    *)
(***************************************************************************)
EXTENDS Integers, FiniteSets, FiniteSetsExt

CONSTANTS
  Levels,   \* 4: PML4, PDPT, PD, PT
  NIdx,     \* 512: entries of a table
  Frames    \* frames pmm_init found usable

ASSUME VmmAssumption ==
  /\ Levels \in Nat \ {0} /\ NIdx \in Nat /\ NIdx > 1 /\ NIdx % 2 = 0
  /\ Frames \subseteq Nat \ {0} /\ Frames # {}   \* there is one for the first root

VARIABLES
  used,   \* frames pmm_alloc has handed out; none is ever given back
  table,  \* frame of a page table -> its entries
  cr3,    \* the root in use
  map     \* the vmm_map under way: what is asked, and the table it has got to

vmmVars == <<used, table, cr3, map>>

Idx       == 0 .. (NIdx - 1)
KernelIdx == (NIdx \div 2) .. (NIdx - 1)
Bit       == {"PRESENT", "WRITE", "USER"}
NONE      == 0
NoMap     == [pg |-> 0, frame |-> NONE, flags |-> {}, at |-> NONE, lvl |-> 0]

KERNEL_FLAGS == {"PRESENT", "WRITE"}
USER_FLAGS   == {"PRESENT", "WRITE", "USER"}

Entry(f, flags) == [frame |-> f, flags |-> flags]
Zeroed          == [i \in Idx |-> Entry(NONE, {})]
Present(e)      == "PRESENT" \in e.flags

\* The pages an entry covers, k levels above the last.
Span == LET s[k \in 0 .. Levels] == IF k = 0 THEN 1 ELSE NIdx * s[k - 1] IN s

\* The index of page pg in a table of level l.
Ix(pg, l) == (pg \div Span[Levels - l]) % NIdx

\* The kernel half begins here.
UserEnd == (NIdx \div 2) * Span[Levels - 1]

\* pmm_alloc: the first clear bit of the bitmap (Pmm.tla).
HasFrame == Frames \ used # {}
Frame    == Min(Frames \ used)
Take     == used' = used \cup {Frame}

--------------------------------------------------------------------------------
\* vmm_map is called for page pg of the space rooted at root.
MapCall(root, pg, frame, flags) ==
  map' = [pg |-> pg, frame |-> frame, flags |-> flags, at |-> root, lvl |-> 1]

Slot == table[map.at][Ix(map.pg, map.lvl)]
Down(f) == map' = [map EXCEPT !.at = f, !.lvl = @ + 1]

\* get_or_create finds the next table.
Descend ==
  /\ map # NoMap /\ map.lvl < Levels /\ Present(Slot)
  /\ Down(Slot.frame)
  /\ UNCHANGED <<used, table, cr3>>

\* Tables of programs are the kernel's too.
TableFlagsBug == KERNEL_FLAGS
TableFlags    == map.flags \cup {"PRESENT"}

\* get_or_create makes the next table, with the flags of the page being mapped.
Create ==
  /\ map # NoMap /\ map.lvl < Levels /\ ~Present(Slot) /\ HasFrame
  /\ Take
  /\ table' = [t \in DOMAIN table \cup {Frame} |->
                 IF t = Frame THEN Zeroed
                 ELSE IF t = map.at
                 THEN [table[t] EXCEPT ![Ix(map.pg, map.lvl)] =
                         Entry(Frame, TableFlags)]
                 ELSE table[t]]
  /\ Down(Frame) /\ UNCHANGED cr3

\* alloc_table: without a frame the machine stops, whoever asked.
NoTable ==
  /\ map # NoMap /\ map.lvl < Levels /\ ~Present(Slot) /\ ~HasFrame
  /\ UNCHANGED vmmVars

\* The last level: whatever the entry held is overwritten.
SetEntry ==
  /\ map # NoMap /\ map.lvl = Levels
  /\ table' = [table EXCEPT ![map.at][Ix(map.pg, Levels)] = Entry(map.frame, map.flags)]
  /\ map' = NoMap
  /\ UNCHANGED <<used, cr3>>

\* The lower half is copied too.
SharedBug(i) == table[cr3][i]
\* The loop starts one entry late.
SharedLate(i) == IF i > NIdx \div 2 THEN table[cr3][i] ELSE Entry(NONE, {})
\* What a new root takes from the space in use: the kernel half.
Shared(i) == IF i \in KernelIdx THEN table[cr3][i] ELSE Entry(NONE, {})

\* vmm_new_space
NewSpace ==
  /\ HasFrame /\ Take
  /\ table' = [t \in DOMAIN table \cup {Frame} |->
                 IF t = Frame THEN [i \in Idx |-> Shared(i)] ELSE table[t]]

--------------------------------------------------------------------------------
\* What the processor finds: the table or page reached after l levels, or NONE.
Reach(root, pg, l) ==
  LET at[k \in 0 .. Levels] ==
        IF k = 0 THEN root
        ELSE IF at[k - 1] = NONE \/ ~Present(table[at[k - 1]][Ix(pg, k)]) THEN NONE
        ELSE table[at[k - 1]][Ix(pg, k)].frame
  IN  at[l]

Translate(root, pg) == Reach(root, pg, Levels)

\* A page has the flags that all the entries on its way have.
Allowed(root, pg) ==
  {b \in Bit : \A l \in 1 .. Levels :
     Reach(root, pg, l) # NONE /\ b \in table[Reach(root, pg, l - 1)][Ix(pg, l)].flags}
================================================================================
