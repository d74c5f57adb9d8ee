---------------------------------- MODULE Exec ---------------------------------
(***************************************************************************)
(* elf_exec_argv and elf_load (src/src/exec/elf.c) over the page tables of    *)
(* Vmm.tla, from the page tables boot makes (vmm_init) on. The running        *)
(* program asks for the next one (SYS_EXEC), or ends and the kernel starts    *)
(* the shell (SYS_EXIT). Nothing else runs meanwhile, and exec takes frames   *)
(* that nobody ever gives back.                                              *)
(*                                                                           *)
(* Memory is counted in words, PageSize of them to a page. A SYS_EXEC that     *)
(* fails before it takes a frame (no such file, a directory, an empty file, a  *)
(* full heap) is a stuttering step. A definition named ...Bug is a mistake the *)
(* properties are known to catch (PROJECT.json); no action uses it.            *)
(***************************************************************************)
EXTENDS Vmm, Sequences

CONSTANTS
  PageSize,   \* words in a page
  KernelMap,  \* pages vmm_init maps, in order: [pg, frame, flags]
  StackTop,   \* USER_STACK_TOP, as a page number
  StackPages, \* USER_STACK_PAGES
  Images,     \* files programs exec: [ok, segs], ok when the header is accepted
  Argvs       \* argument vectors: the length in words of each string

\* In words, but for the flag.
Segment == [vaddr : Nat, filesz : Nat, memsz : Nat, write : BOOLEAN]

ASSUME ExecAssumption ==
  /\ PageSize \in Nat \ {0} /\ StackTop \in Nat /\ StackPages \in 1 .. StackTop
  /\ KernelMap \in Seq([pg : Nat, frame : Nat, flags : SUBSET Bit])
  /\ \A a \in Argvs : a \in Seq(Nat \ {0}) /\ Len(a) \in 1 .. 15   \* what the shell passes
  /\ \A m \in Images : /\ m.segs \in Seq(Segment)
                       /\ \A i \in DOMAIN m.segs : m.segs[i].filesz <= m.segs[i].memsz

VARIABLES
  pc,      \* "boot", "user", "pages" (an exec is under way) or "halted"
  caller,  \* who called the exec: "boot", "exec" or "exit"
  img,     \* the file being loaded
  argv,    \* its arguments
  pml4,    \* the space being made
  seg,     \* the segment being mapped, 0 for the stack
  pg,      \* the next page of it; at boot, the next page of KernelMap
  stk,     \* the last entry of stack_phys: the frame of the top stack page
  buf,     \* the heap holds the file
  page,    \* frame of a page -> its words
  prog,    \* what the running program was started from, and its first rsp
  spaces,  \* ghost: every root made so far
  kernel   \* ghost: the frames boot took

call == <<caller, img, argv, pml4, seg, pg, stk, buf>>
vars == <<vmmVars, pc, call, page, prog, spaces, kernel>>

NoImage     == [ok |-> FALSE, segs |-> <<>>]
NoProg      == [img |-> NoImage, argv |-> <<>>, sp |-> 0]
StackBottom == StackTop - StackPages
Top         == StackTop * PageSize

\* A word of memory: what it is and which one of those.
Word(kind, i, n) == [kind |-> kind, i |-> i, n |-> n]
Num(n)           == Word("int", 0, n)

--------------------------------------------------------------------------------
\* vmm_init: the root, then the kernel's pages one by one, then the switch.
Init ==
  /\ used = {Min(Frames)} /\ table = [t \in used |-> Zeroed]
  /\ cr3 = NONE /\ map = NoMap
  /\ pc = "boot" /\ caller = "boot" /\ img = NoImage /\ argv = <<>>
  /\ pml4 = Min(Frames) /\ seg = 0 /\ pg = 1 /\ stk = NONE /\ buf = FALSE
  /\ page = [f \in {} |-> <<>>] /\ prog = NoProg
  /\ spaces = used /\ kernel = {}

BootMap ==
  /\ pc = "boot" /\ map = NoMap /\ pg <= Len(KernelMap)
  /\ MapCall(pml4, KernelMap[pg].pg, KernelMap[pg].frame, KernelMap[pg].flags)
  /\ UNCHANGED <<used, table, cr3, pc, call, page, prog, spaces, kernel>>

BootPage ==
  /\ pc = "boot" /\ SetEntry /\ pg' = pg + 1
  /\ UNCHANGED <<pc, caller, img, argv, pml4, seg, stk, buf, page, prog, spaces, kernel>>

\* The locals of the call are gone and the buffer is freed.
Returned ==
  /\ caller' = "boot" /\ img' = NoImage /\ argv' = <<>> /\ buf' = FALSE
  /\ pml4' = NONE /\ seg' = 0 /\ pg' = 0 /\ stk' = NONE

\* vmm_switch, after which _start execs init.
BootDone ==
  /\ pc = "boot" /\ map = NoMap /\ pg > Len(KernelMap)
  /\ cr3' = pml4 /\ pc' = "user" /\ kernel' = used /\ Returned
  /\ UNCHANGED <<used, table, map, page, prog, spaces>>

--------------------------------------------------------------------------------
Callers == IF prog = NoProg THEN {"boot"} ELSE {"exec", "exit"}

\* The file has been read into a heap buffer; vmm_new_space.
Start(c, m, a) ==
  /\ pc = "user" /\ c \in Callers
  /\ caller' = c /\ img' = m /\ argv' = a /\ buf' = TRUE
  /\ IF HasFrame
     THEN /\ NewSpace /\ pml4' = Frame /\ spaces' = spaces \cup {Frame}
          /\ pc' = "pages" /\ seg' = 0 /\ pg' = StackBottom
     ELSE pc' = "halted" /\ UNCHANGED <<used, table, pml4, spaces, seg, pg>>
  /\ UNCHANGED <<cr3, map, stk, page, prog, kernel>>

\* The file cannot be had: boot and SYS_EXIT stop the machine, SYS_EXEC returns.
NotStarted(c) ==
  /\ pc = "user" /\ c \in Callers \ {"exec"} /\ pc' = "halted"
  /\ UNCHANGED <<vmmVars, call, page, prog, spaces, kernel>>

\* The pages of segment i of m: from Base up to End.
Base(m, i) == IF i = 0 THEN StackBottom ELSE m.segs[i].vaddr \div PageSize
End(m, i) ==
  IF i = 0 THEN StackTop
  ELSE IF m.segs[i].memsz = 0 THEN Base(m, i)
  ELSE (m.segs[i].vaddr + m.segs[i].memsz + PageSize - 1) \div PageSize

\* vmm_init maps the kernel's half, and programs lie in the other: elf_load does not
\* look at an address, but link.ld puts every program the tree builds at 4 MB.
ASSUME Halves ==
  /\ StackTop <= UserEnd
  /\ \A i \in DOMAIN KernelMap : KernelMap[i].pg \in UserEnd .. (NIdx * Span[Levels - 1] - 1)
  /\ \A m \in Images : \A i \in DOMAIN m.segs : End(m, i) <= UserEnd

\* Nor does elf_load keep a segment off the stack: they are 128 TB apart.
ASSUME BelowStack == \A m \in Images : \A i \in DOMAIN m.segs : End(m, i) <= StackBottom

Flags(m, i) == IF i = 0 \/ m.segs[i].write THEN USER_FLAGS ELSE {"PRESENT", "USER"}

PageCall ==
  /\ pc = "pages" /\ map = NoMap /\ pg < End(img, seg) /\ HasFrame
  /\ Take /\ MapCall(pml4, pg, Frame, Flags(img, seg))
  /\ UNCHANGED <<table, cr3, pc, call, page, prog, spaces, kernel>>

InFile(a) ==
  seg # 0 /\ img.segs[seg].vaddr <= a
    /\ a - img.segs[seg].vaddr < img.segs[seg].filesz

\* The page is not zeroed before the file's bytes are copied.
FilledBug ==
  [w \in 0 .. (PageSize - 1) |->
     LET a == pg * PageSize + w
     IN  IF InFile(a) THEN Word("file", seg, a - img.segs[seg].vaddr)
         ELSE Word("junk", 0, 0)]
\* The page zeroed, then the part of it that the file has.
Filled ==
  [w \in 0 .. (PageSize - 1) |->
     LET a == pg * PageSize + w
     IN  IF InFile(a) THEN Word("file", seg, a - img.segs[seg].vaddr) ELSE Num(0)]

PageDone ==
  /\ pc = "pages" /\ SetEntry
  /\ page' = [f \in DOMAIN page \cup {map.frame} |->
                IF f = map.frame THEN Filled ELSE page[f]]
  /\ stk' = IF seg = 0 THEN map.frame ELSE stk
  /\ pg' = pg + 1
  /\ UNCHANGED <<pc, caller, img, argv, pml4, seg, buf, prog, spaces, kernel>>

\* An empty segment is looked at again and again.
NextSegmentBug ==
  /\ pc = "pages" /\ map = NoMap /\ pg >= End(img, seg)
  /\ img.ok /\ seg < Len(img.segs)
  /\ IF seg # 0 /\ img.segs[seg].memsz = 0
     THEN UNCHANGED <<seg, pg>>
     ELSE seg' = seg + 1 /\ pg' = Base(img, seg + 1)
  /\ UNCHANGED <<vmmVars, pc, caller, img, argv, pml4, stk, buf, page, prog, spaces, kernel>>
\* elf_load looks at the header after the stack is mapped.
NextSegment ==
  /\ pc = "pages" /\ map = NoMap /\ pg >= End(img, seg)
  /\ img.ok /\ seg < Len(img.segs)
  /\ seg' = seg + 1 /\ pg' = Base(img, seg + 1)
  /\ UNCHANGED <<vmmVars, pc, caller, img, argv, pml4, stk, buf, page, prog, spaces, kernel>>

\* The call returns -1: SYS_EXEC to its caller, the others to a loop of hlt.
\* What was taken stays taken.
Fail ==
  /\ pc = "pages" /\ map = NoMap
  /\ IF pg < End(img, seg) THEN ~HasFrame ELSE seg = 0 /\ ~img.ok
  /\ pc' = IF caller = "exec" THEN "user" ELSE "halted"
  /\ Returned
  /\ UNCHANGED <<vmmVars, page, prog, spaces, kernel>>

--------------------------------------------------------------------------------
\* Where string i of a goes: the last one ends at the top of the stack.
StrAt(a, i) ==
  LET at[k \in 1 .. (Len(a) + 1)] == IF k > Len(a) THEN Top ELSE at[k + 1] - a[k]
  IN  at[i]

\* No room is left for the null pointer.
SpBug(a) == StrAt(a, 1) - Len(a) - 1
\* Below the strings a null pointer, the pointers, and the count, where rsp is.
Sp(a) == StrAt(a, 1) - Len(a) - 2

\* The block lies in the top page: the shell's 256-byte line fills less.
ASSUME ArgsFit == \A a \in Argvs : Sp(a) >= Top - PageSize

ArgWord(a, x) ==
  CASE x >= StrAt(a, 1) ->
         LET i == Max({j \in DOMAIN a : StrAt(a, j) <= x})
         IN  Word("str", i, x - StrAt(a, i))
    [] x = Sp(a) + Len(a) + 1 -> Num(0)
    [] x = Sp(a)              -> Num(Len(a))
    [] OTHER                  -> Num(StrAt(a, x - Sp(a)))

\* Every segment is there: the arguments, vmm_switch, jump_usermode.
Jump ==
  /\ pc = "pages" /\ map = NoMap /\ pg >= End(img, seg)
  /\ img.ok /\ seg = Len(img.segs)
  /\ page' = [page EXCEPT ![stk] =
                [w \in 0 .. (PageSize - 1) |->
                   LET x == Top - PageSize + w
                   IN  IF x >= Sp(argv) THEN ArgWord(argv, x) ELSE @[w]]]
  /\ cr3' = pml4 /\ pc' = "user" /\ Returned
  /\ prog' = [img |-> img, argv |-> argv, sp |-> Sp(argv)]
  /\ UNCHANGED <<used, table, map, spaces, kernel>>

\* The steps vmm_map takes on the way to its last level.
Walk ==
  /\ pc \in {"boot", "pages"} /\ (Descend \/ Create)
  /\ UNCHANGED <<pc, call, page, prog, spaces, kernel>>

Halt ==
  /\ pc \in {"boot", "pages"} /\ NoTable /\ pc' = "halted"
  /\ UNCHANGED <<call, page, prog, spaces, kernel>>

Step == \/ BootMap \/ BootPage \/ BootDone
        \/ PageCall \/ PageDone \/ NextSegment \/ Fail \/ Jump \/ Walk \/ Halt

Next ==
  \/ Step
  \/ \E c \in {"boot", "exec", "exit"} :
       NotStarted(c) \/ (\E m \in Images, a \in Argvs : Start(c, m, a))

Spec == Init /\ [][Next]_vars

\* The CPU goes on with the call it is in.
FairSpec == Spec /\ WF_vars(Step)
--------------------------------------------------------------------------------
\* Frames named by an entry, a root or a call are frames the manager handed out,
\* and a table is never also a page.
TypeOK ==
  /\ used \subseteq Frames /\ DOMAIN table \subseteq used /\ DOMAIN page \subseteq used
  /\ DOMAIN table \cap DOMAIN page = {}
  /\ \A t \in DOMAIN table : table[t] \in [Idx -> [frame : Nat, flags : SUBSET Bit]]
  /\ map = NoMap \/ (map.at \in DOMAIN table /\ map.lvl \in 1 .. Levels)
  /\ pc \in {"boot", "user", "pages", "halted"} /\ caller \in {"boot", "exec", "exit"}
  /\ cr3 \in spaces \cup {NONE} /\ pml4 \in spaces \cup {NONE}
  /\ spaces \subseteq DOMAIN table /\ kernel \subseteq used
  /\ seg \in 0 .. Len(img.segs) /\ (buf => pc \in {"pages", "halted"})

\* The entries outside the kernel's tables, by table and index.
UserEntries ==
  {e \in (DOMAIN table \ kernel) \X Idx :
     Present(table[e[1]][e[2]]) /\ ~(e[1] \in spaces /\ e[2] \in KernelIdx)}
To(e) == table[e[1]][e[2]].frame

\* No frame serves twice: an entry of a program's tables leads to a frame no other
\* entry leads to, in the same space or in an older one, and never to a table of
\* the kernel's or to a root. A table made between pmm_alloc and vmm_map of a page
\* is what could get in between.
OneUse ==
  /\ TypeOK
  /\ kernel # {} =>
       /\ \A e \in UserEntries : To(e) \in used \ (kernel \cup spaces)
       /\ \A e, d \in UserEntries : To(e) = To(d) => e = d

\* Every space has the kernel half that boot made, whatever space was in use when
\* it was made: a system call runs on the tables of the program that makes it.
KernelShared ==
  pc = "boot" \/ \A s, t \in spaces, i \in KernelIdx : table[s][i] = table[t][i]

UserPages == 0 .. (UserEnd - 1)
Seen(root, p) == IF Translate(root, p) \in DOMAIN page THEN page[Translate(root, p)] ELSE <<>>

\* Until vmm_switch the running program's memory is as it was, page by page: an
\* exec that fails, at whatever point, has not touched its caller.
CallerUntouched ==
  [][cr3' = cr3 /\ cr3 # NONE => \A p \in UserPages : Seen(cr3, p)' = Seen(cr3, p)]_vars

Holds(a) == LET words == Seen(cr3, a \div PageSize)
            IN  IF words = <<>> THEN Word("none", 0, 0) ELSE words[a % PageSize]

\* The segment that was mapped last over page p of image m.
LastOver(m, p) == Max({0} \cup {i \in DOMAIN m.segs : p \in Base(m, i) .. (End(m, i) - 1)})

\* The running program finds at every address of a segment the file's word, and
\* zero past filesz, though pages of several segments, the stack and all their
\* tables are taken in turn from one pool. Where two segments share a page it
\* finds the last one's: the page of the other was replaced (elf.c:46-48).
ImageSeen ==
  \A i \in DOMAIN prog.img.segs :
    \A k \in 0 .. (prog.img.segs[i].memsz - 1) :
      LET s == prog.img.segs[i]
          a == s.vaddr + k
      IN  LastOver(prog.img, a \div PageSize) = i =>
            Holds(a) = IF k < s.filesz THEN Word("file", i, k) ELSE Num(0)

\* At its first instruction rsp leads a program to its argument count, pointers to
\* each of its strings, and the null pointer that ends them; the rest of the stack
\* is zero. They are written through stack_phys, and read through its tables.
ArgsSeen ==
  prog # NoProg =>
    LET a == prog.argv IN
    /\ Holds(prog.sp) = Num(Len(a))
    /\ \A i \in DOMAIN a : \A w \in 0 .. (a[i] - 1) :
         Holds(Holds(prog.sp + i).n + w) = Word("str", i, w)
    /\ Holds(prog.sp + Len(a) + 1) = Num(0)
    /\ \A x \in (StackBottom * PageSize) .. (prog.sp - 1) : Holds(x) = Num(0)

\* A program linked by link.ld, which makes one writable segment, may read and
\* write all of its image and stack, and no page of any program may be written
\* that its segment did not ask for.
PermissionsKept ==
  prog # NoProg => \A p \in UserPages :
    Translate(cr3, p) # NONE =>
      LET flags == IF p >= StackBottom THEN USER_FLAGS
                   ELSE Flags(prog.img, LastOver(prog.img, p))
      IN  /\ Allowed(cr3, p) \subseteq flags
          /\ (\A i \in DOMAIN prog.img.segs : prog.img.segs[i].write)
                => Allowed(cr3, p) = flags

\* An exec ends, in a new program, in a return or in a halt.
ExecEnds == pc = "pages" ~> pc # "pages"
================================================================================
