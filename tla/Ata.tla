---------------------------------- MODULE Ata ----------------------------------
(***************************************************************************)
(* The PIO driver (src/src/drivers/ata.c) and the drives it talks to over     *)
(* the ports. One poll that changes nothing is no step; a word moved is one.    *)
(* The drives are external: they do what the code expects of the protocol, at   *)
(* their own speed, and take no command while they are busy or ask for data.    *)
(* A drive shows BSY by the first time its status is read after a command.      *)
(* A place without a drive reads as 0, and as all ones on a bus without any.    *)
(***************************************************************************)
EXTENDS Integers, Sequences

CONSTANTS
  NumBuses,  \* 2
  Words,     \* words of a sector: 256
  RegSize,   \* values of one LBA register: 256
  TopSize,   \* values of the LBA bits in the drive select register: 16
  Lbas,      \* sectors callers name
  Buffers,   \* what callers write to a sector
  Blank,     \* what a sector holds before
  Answering  \* the kinds of place callers name

Buses   == 0 .. (NumBuses - 1)
Slots   == Buses \X {0, 1}
Sectors == 0 .. (RegSize * RegSize * RegSize * TopSize - 1)
Kinds   == {"disk", "packet", "absent", "floating"}

\* No caller names a sector past 2^28: IDENTIFY gives the size in 28 bits.
ASSUME AtaAssumption ==
  /\ NumBuses \in Nat \ {0} /\ Words \in Nat \ {0}
  /\ RegSize \in Nat \ {0} /\ TopSize \in Nat \ {0}
  /\ Lbas \subseteq Sectors /\ Answering \subseteq Kinds
  /\ Buffers \cup {Blank} \subseteq [1 .. Words -> Int]

VARIABLES
  kind,     \* what is at each slot
  port,     \* per bus: selected unit and LBA registers, which both drives see
  drive,    \* per slot: status bits, command under way, words moved, buffer
  medium,   \* per slot: what the sectors hold
  present,  \* ata_disks[][].present
  pc, call, \* where the driver is, and in which call
  ret       \* what the last call gave its caller

vars == <<kind, port, drive, medium, present, pc, call, ret>>

NoCall == [op |-> "none", slot |-> <<0, 0>>, lba |-> 0, buf |-> <<>>, i |-> 0]
Idle   == [status |-> {}, op |-> "none", pos |-> 0, buf |-> <<>>]

\* The status a slot shows before its first command, and an empty one for ever.
Rest(k) == [Idle EXCEPT !.status = IF k = "floating" THEN {"BSY", "DRQ", "ERR"} ELSE {}]

Init ==
  /\ kind \in [Slots -> Kinds]
  /\ \A b \in Buses : kind[<<b, 0>>] = "floating" <=> kind[<<b, 1>>] = "floating"
  /\ port = [b \in Buses |-> [unit |-> 0, lba |-> <<0, 0, 0, 0>>]]
  /\ drive = [s \in Slots |-> Rest(kind[s])]
  /\ medium = [s \in Slots |-> [n \in Sectors |-> Blank]]
  /\ present = [s \in Slots |-> FALSE]
  /\ pc = "probe" /\ call = [NoCall EXCEPT !.op = "identify"]
  /\ ret = [code |-> 0, data |-> <<>>]

--------------------------------------------------------------------------------
(* The drive.                                                                   *)
IsDrive(s) == kind[s] \in {"disk", "packet"}
Status     == drive[call.slot].status
Asks(d)    == "DRQ" \in d.status /\ "BSY" \notin d.status

\* A command a drive is sent: dropped while it is busy or asks for data.
Sent(s, c) ==
  IF IsDrive(s) /\ drive[s].status \cap {"BSY", "DRQ"} = {}
  THEN [drive EXCEPT ![s] = [Idle EXCEPT !.status = {"BSY"}, !.op = c]]
  ELSE drive

\* The sector the registers name.
Addressed(lba) ==
  lba[1] + RegSize * (lba[2] + RegSize * (lba[3] + RegSize * lba[4]))

\* It asks for the data of a write, or has those of a read or of IDENTIFY.
DriveAsks(s) ==
  /\ kind[s] = "disk" /\ "BSY" \in drive[s].status
  /\ drive[s].op \in {"read", "write", "identify"}
  /\ drive' = [drive EXCEPT ![s].status = {"DRQ"}, ![s].buf =
       IF drive[s].op = "read" THEN medium[s][Addressed(port[s[1]].lba)] ELSE Blank]
  /\ UNCHANGED <<kind, port, medium, present, pc, call, ret>>

\* It gives up; a packet device refuses all of these commands. A disk that works
\* answers IDENTIFY.
DriveFails(s) ==
  /\ IsDrive(s) /\ "BSY" \in drive[s].status
  /\ kind[s] = "disk" => drive[s].op # "identify"
  /\ drive' = [drive EXCEPT ![s] = [Idle EXCEPT !.status = {"ERR"}]]
  /\ UNCHANGED <<kind, port, medium, present, pc, call, ret>>

\* A write's data reaches the sector.
DriveStores(s) ==
  /\ "BSY" \in drive[s].status /\ drive[s].op = "store"
  /\ medium' = [medium EXCEPT ![s][Addressed(port[s[1]].lba)] = drive[s].buf]
  /\ drive' = [drive EXCEPT ![s] = Idle]
  /\ UNCHANGED <<kind, port, present, pc, call, ret>>

DriveFlushes(s) ==
  /\ "BSY" \in drive[s].status /\ drive[s].op = "flush"
  /\ drive' = [drive EXCEPT ![s] = Idle]
  /\ UNCHANGED <<kind, port, medium, present, pc, call, ret>>

Drive(s) == DriveAsks(s) \/ DriveFails(s) \/ DriveStores(s) \/ DriveFlushes(s)
--------------------------------------------------------------------------------
(* ata_init: IDENTIFY to every slot.                                            *)
SlotAfter(s) == IF s[2] = 0 THEN <<s[1], 1>> ELSE <<s[1] + 1, 0>>

\* present of the slot is set; the driver goes to the next slot or is done.
NextSlot(found) ==
  /\ present' = [present EXCEPT ![call.slot] = found]
  /\ IF SlotAfter(call.slot) \in Slots
     THEN pc' = "probe" /\ call' = [NoCall EXCEPT !.op = "identify",
                                                  !.slot = SlotAfter(call.slot)]
     ELSE pc' = "idle" /\ call' = NoCall
  /\ UNCHANGED ret

Probe ==
  /\ pc = "probe" /\ pc' = "check"
  /\ port' = [port EXCEPT ![call.slot[1]].unit = call.slot[2]]
  /\ drive' = Sent(call.slot, "identify")
  /\ UNCHANGED <<kind, medium, present, call, ret>>

NothingThere ==
  /\ pc = "check" /\ Status = {} /\ NextSlot(FALSE)
  /\ UNCHANGED <<kind, port, drive, medium>>

SomethingThere ==
  /\ pc = "check" /\ Status # {} /\ pc' = "drq"
  /\ UNCHANGED <<kind, port, drive, medium, present, call, ret>>
--------------------------------------------------------------------------------
(* ata_read_sector and ata_write_sector.                                        *)
\* Bits 16 to 23 do not get into their register.
LbaRegsBug(n) ==
  <<n % RegSize, (n \div RegSize) % RegSize, 0,
    (n \div (RegSize * RegSize * RegSize)) % TopSize>>
LbaRegs(n) ==
  <<n % RegSize, (n \div RegSize) % RegSize, (n \div (RegSize * RegSize)) % RegSize,
    (n \div (RegSize * RegSize * RegSize)) % TopSize>>

Issue(op, s, n, data) ==
  /\ pc = "idle" /\ pc' = "busy"
  /\ call' = [op |-> op, slot |-> s, lba |-> n, buf |-> data, i |-> 0]
  /\ port' = [port EXCEPT ![s[1]] = [unit |-> s[2], lba |-> LbaRegs(n)]]
  /\ drive' = Sent(s, op)
  /\ UNCHANGED <<kind, medium, present, ret>>

Return(code, data) ==
  /\ pc' = "idle" /\ call' = NoCall /\ ret' = [code |-> code, data |-> data]
  /\ UNCHANGED present

\* ata_wait_busy before the transfer.
WaitBusy ==
  /\ pc = "busy" /\ "BSY" \notin Status /\ pc' = "drq"
  /\ UNCHANGED <<kind, port, drive, medium, present, call, ret>>

\* ata_wait_drq, its two ways out.
WaitDrq ==
  /\ pc = "drq" /\ Asks(drive[call.slot]) /\ pc' = "move"
  /\ UNCHANGED <<kind, port, drive, medium, present, call, ret>>

\* A refusal is only noticed in a drive that asks for data at the same time.
WaitErrBug ==
  /\ pc = "drq" /\ ~Asks(drive[call.slot]) /\ {"ERR", "DRQ"} \subseteq Status
  /\ IF call.op = "identify" THEN NextSlot(FALSE) ELSE Return(-1, <<>>)
  /\ UNCHANGED <<kind, port, drive, medium>>
WaitErr ==
  /\ pc = "drq" /\ ~Asks(drive[call.slot]) /\ "ERR" \in Status
  /\ IF call.op = "identify" THEN NextSlot(FALSE) ELSE Return(-1, <<>>)
  /\ UNCHANGED <<kind, port, drive, medium>>

\* The drive on the other end of one inw or outw.
Moved(d, word) ==
  LET e == [d EXCEPT !.pos = @ + 1, !.buf[d.pos + 1] = word]
  IN  IF ~Asks(d) THEN d
      ELSE IF e.pos < Words THEN e
      ELSE IF d.op = "write" THEN [e EXCEPT !.op = "store", !.status = {"BSY"}]
      ELSE Idle

\* What the port reads as when no drive asks.
Junk == -1
Word == LET d == drive[call.slot] IN IF Asks(d) THEN d.buf[d.pos + 1] ELSE Junk

Moving == pc = "move" /\ call.i < Words

MoveIn ==
  /\ Moving /\ call.op \in {"read", "identify"}
  /\ call' = [call EXCEPT !.i = @ + 1, !.buf = Append(@, Word)]
  /\ drive' = [drive EXCEPT ![call.slot] = Moved(@, Word)]
  /\ UNCHANGED <<kind, port, medium, present, pc, ret>>

MoveOut ==
  /\ Moving /\ call.op = "write"
  /\ call' = [call EXCEPT !.i = @ + 1]
  /\ drive' = [drive EXCEPT ![call.slot] = Moved(@, call.buf[call.i + 1])]
  /\ UNCHANGED <<kind, port, medium, present, pc, ret>>

Identified ==
  /\ pc = "move" /\ ~Moving /\ call.op = "identify" /\ NextSlot(TRUE)
  /\ UNCHANGED <<kind, port, drive, medium>>

ReadDone ==
  /\ pc = "move" /\ ~Moving /\ call.op = "read" /\ Return(0, call.buf)
  /\ UNCHANGED <<kind, port, drive, medium>>

\* CACHE FLUSH is sent without a look at the status: the drive may be busy
\* storing the sector, and then drops it.
Flush ==
  /\ pc = "move" /\ ~Moving /\ call.op = "write" /\ pc' = "settle"
  /\ drive' = Sent(call.slot, "flush")
  /\ UNCHANGED <<kind, port, medium, present, call, ret>>

\* The call returns with the drive still at work.
SettleBug == /\ pc = "settle" /\ Return(0, <<>>)
             /\ UNCHANGED <<kind, port, drive, medium>>
\* ata_wait_busy after it: whether the drive failed is not looked at.
Settle == /\ pc = "settle" /\ "BSY" \notin Status /\ Return(0, <<>>)
          /\ UNCHANGED <<kind, port, drive, medium>>

Driver == \/ Probe \/ NothingThere \/ SomethingThere
          \/ WaitBusy \/ WaitDrq \/ WaitErr
          \/ MoveIn \/ MoveOut \/ Identified \/ ReadDone \/ Flush \/ Settle

\* Callers are ext2_mount, which looks at no present flag, and ext2 after it.
Caller == \E s \in Slots, n \in Lbas :
            /\ kind[s] \in Answering
            /\ Issue("read", s, n, <<>>) \/ (\E b \in Buffers : Issue("write", s, n, b))

Next == Driver \/ Caller \/ (\E s \in Slots : Drive(s))

Spec == Init /\ [][Next]_vars

\* The CPU goes on polling and moving words; a drive that is busy gets done.
FairSpec == Spec /\ WF_vars(Driver) /\ \A s \in Slots : WF_vars(Drive(s))
--------------------------------------------------------------------------------
TypeOK ==
  /\ kind \in [Slots -> Kinds] /\ present \in [Slots -> BOOLEAN]
  /\ pc \in {"probe", "check", "idle", "busy", "drq", "move", "settle"}
  /\ call.op \in {"none", "identify", "read", "write"} /\ call.slot \in Slots
  /\ call.lba \in Sectors /\ call.i \in 0 .. Words
  /\ \A s \in Slots :
       /\ medium[s] \in [Sectors -> Buffers \cup {Blank}]
       /\ drive[s].status \subseteq {"BSY", "DRQ", "ERR"}
       /\ drive[s].pos \in 0 .. Words

\* A call leaves no drive busy or asking, whatever it failed at and however slow
\* the drive: the next command, which is sent without a look at the status
\* (ata.c:90, 110), is never one that a drive drops.
QuietBetweenCalls ==
  /\ TypeOK
  /\ pc = "idle" => \A s \in Slots : IsDrive(s) => drive[s].status \cap {"BSY", "DRQ"} = {}

\* ata_init ends, and so does every call made on a slot that answers: each loop
\* on the status register (ata.c:37, 43) gets to see the bits it waits for.
CallReturns == pc # "idle" ~> pc = "idle"

\* The requests, and how far each got, in the words of Disk.tla.
Request ==
  IF call.op = "read" THEN [op |-> "read", slot |-> call.slot, sector |-> call.lba]
  ELSE IF call.op = "write"
  THEN [op |-> "write", slot |-> call.slot, sector |-> call.lba, data |-> call.buf]
  ELSE [op |-> "none"]

Abs == INSTANCE Disk WITH
         Contents <- Buffers \cup {Blank},
         store <- medium,
         req   <- Request,
         taken <- call.op = "write" /\ call.i = Words

\* The driver and a drive of any speed keep the promise of Disk.tla: a read gives
\* back the sector it names, a write touches no other sector, on no other drive.
AbsSpec == Abs!Spec
--------------------------------------------------------------------------------
\* init/main.c:66 "WARNING: no ext2 disk found": init tries the four slots in turn
\* and goes on without a disk. ext2_mount reads a slot whatever ata_init found
\* there, and ata_wait_drq (ata.c:43) waits for DRQ or ERR of a drive that is not
\* there for ever, as ata_wait_busy does on an empty bus.
NoDiskIsReported == call.op = "read" /\ kind[call.slot] # "disk" ~> pc = "idle"
================================================================================
