-------------------------------- MODULE AtaProofs --------------------------------
(***************************************************************************)
(* Proofs about the disk driver (Ata.tla), for every number of buses, size of a *)
(* sector and of the registers, and for every arrangement of drives.            *)
(***************************************************************************)
EXTENDS Ata, TLAPS

Contents == Buffers \cup {Blank}
Data     == [1 .. Words -> Int]
Ops      == {"none", "read", "write", "identify", "store", "flush"}
Drives   == [status : SUBSET {"BSY", "DRQ", "ERR"}, op : Ops, pos : 0 .. Words,
             buf : Data \cup {<<>>}]
Calls    == [op : {"none", "identify", "read", "write"}, slot : Slots, lba : Sectors,
             buf : Seq(Int), i : 0 .. Words]

\* What the variables are; TypeOK says less of what it does not need.
Typed ==
  /\ kind \in [Slots -> Kinds] /\ present \in [Slots -> BOOLEAN]
  /\ port \in [Buses -> [unit : {0, 1}, lba : Int \X Int \X Int \X Int]]
  /\ drive \in [Slots -> Drives] /\ medium \in [Slots -> [Sectors -> Contents]]
  /\ pc \in {"probe", "check", "idle", "busy", "drq", "move", "settle"}
  /\ call \in Calls

\* Where the driver is in which call, and how far that call got.
Phase ==
  /\ pc = "idle" => call = NoCall
  /\ pc \in {"probe", "check"} => call.op = "identify"
  /\ pc = "busy" => call.op \in {"read", "write"}
  /\ pc \in {"drq", "move"} => call.op # "none"
  /\ pc = "settle" => call.op = "write" /\ call.i = Words
  /\ pc \in {"probe", "check", "busy", "drq"} => call.i = 0

AtRest(d)      == d.status \in {{}, {"ERR"}}
Accepted(d, c) == \/ d.status \in {{"BSY"}, {"DRQ"}} /\ d.op = c /\ d.pos = 0
                  \/ d.status = {"ERR"}
Storing(d)     == d.status = {"BSY"} /\ d.op = "store"
Flushing(d)    == d.status = {"BSY"} /\ d.op = "flush"

\* What the drive of the call is doing at each point of it.
InStep(d) ==
  /\ pc \in {"idle", "probe"} => AtRest(d)
  /\ pc \in {"check", "busy", "drq"} => Accepted(d, call.op)
  /\ pc = "move" /\ call.i < Words => d.status = {"DRQ"} /\ d.op = call.op /\ d.pos = call.i
  /\ pc = "move" /\ call.i = Words => AtRest(d) \/ (call.op = "write" /\ Storing(d))
  /\ pc = "settle" => AtRest(d) \/ Storing(d) \/ Flushing(d)

\* All the drives: one works for the driver, the others rest.
InProtocol ==
  /\ \A s \in Slots : ~IsDrive(s) => drive[s] = Rest(kind[s])
  /\ \A s \in Slots : IsDrive(s) /\ s # call.slot => AtRest(drive[s])
  /\ IsDrive(call.slot) => InStep(drive[call.slot])
  /\ pc \in {"move", "settle"} => IsDrive(call.slot)

\* The words that were moved are the sector's, or the caller's.
InData ==
  LET d == drive[call.slot]
      sector == medium[call.slot][call.lba]
  IN  /\ d.status = {"DRQ"} \/ Storing(d) => d.buf \in Data
      /\ call.op \in {"read", "write"} => port[call.slot[1]].lba = LbaRegs(call.lba)
      /\ call.op = "read" =>
           /\ d.status = {"DRQ"} => \A k \in 1 .. Words : d.buf[k] = sector[k]
           /\ Len(call.buf) = call.i /\ \A k \in 1 .. call.i : call.buf[k] = sector[k]
      /\ call.op = "write" =>
           /\ call.buf \in Buffers
           /\ d.status = {"DRQ"} \/ Storing(d) =>
                \A k \in 1 .. call.i : d.buf[k] = call.buf[k]

\* The inductive invariant.
IInv == Typed /\ Phase /\ InProtocol /\ InData
--------------------------------------------------------------------------------
(* The sector a caller names is the sector the registers name.                  *)
\* A number is what its quotient and its remainder say.
LEMMA DivMod ==
  ASSUME NEW b \in Nat \ {0}, NEW n \in Int
  PROVE  \E q \in Int, r \in 0 .. (b - 1) : n = b * q + r /\ q = n \div b /\ r = n % b
<1> DEFINE q == n \div b
           r == n % b
<1>1. q \in Int /\ r \in 0 .. (b - 1) /\ r = n - b * q
  OBVIOUS
<1> HIDE DEF q, r
<1>2. n = b * q + r
  BY <1>1
<1> QED BY <1>1, <1>2 DEF q, r

\* A quotient is determined by the bounds of its remainder.
LEMMA QuotientUnique ==
  ASSUME NEW b \in Nat \ {0}, NEW q \in Int, NEW r \in 0 .. (b - 1)
  PROVE  (b * q + r) \div b = q
<1>1. PICK d \in Int, m \in 0 .. (b - 1) :
        b * q + r = b * d + m /\ d = (b * q + r) \div b
  <2>1. b * q + r \in Int
    OBVIOUS
  <2> QED BY <2>1, DivMod
<1>2. CASE d > q
  <2>1. b * (d - q) >= b
    BY <1>2
  <2>2. b * (d - q) = b * d - b * q
    OBVIOUS
  <2> QED BY <2>1, <2>2, <1>1
<1>3. CASE d < q
  <2>1. b * (q - d) >= b
    BY <1>3
  <2>2. b * (q - d) = b * q - b * d
    OBVIOUS
  <2> QED BY <2>1, <2>2, <1>1
<1> QED BY <1>1, <1>2, <1>3

\* Dividing twice is dividing by the product.
LEMMA DivDiv ==
  ASSUME NEW a \in Nat \ {0}, NEW b \in Nat \ {0}, NEW n \in Int
  PROVE  n \div (a * b) = (n \div a) \div b
<1>1. PICK q \in Int, r \in 0 .. (a - 1) : n = a * q + r /\ q = n \div a
  BY DivMod
<1>2. PICK d \in Int, m \in 0 .. (b - 1) : q = b * d + m /\ d = q \div b
  BY DivMod
<1>3. a * b \in Nat \ {0} /\ a * m \in Int
  OBVIOUS
<1>4. a * m + r \in 0 .. (a * b - 1)
  <2>1. a * m >= 0 /\ a * m <= a * (b - 1)
    OBVIOUS
  <2>2. a * (b - 1) = a * b - a
    OBVIOUS
  <2> QED BY <1>3, <2>1, <2>2
<1>5. n = (a * b) * d + (a * m + r)
  <2>1. a * (b * d + m) = (a * b) * d + a * m
    OBVIOUS
  <2> QED BY <1>1, <1>2, <1>3, <2>1
<1>6. ((a * b) * d + (a * m + r)) \div (a * b) = d
  BY <1>3, <1>4, QuotientUnique
<1> QED BY <1>1, <1>2, <1>5, <1>6

\* No bit of a sector number is lost on its way through the registers.
LEMMA LbaKept ==
  ASSUME NEW n \in Sectors
  PROVE  Addressed(LbaRegs(n)) = n /\ LbaRegs(n) \in Int \X Int \X Int \X Int
<1> DEFINE R == RegSize
<1>1. R \in Nat \ {0} /\ TopSize \in Nat \ {0} /\ n \in Int /\ n >= 0
      /\ n < R * R * R * TopSize
  BY AtaAssumption DEF Sectors
<1>2. R * R \in Nat \ {0} /\ R * R * R \in Nat \ {0}
  BY <1>1
<1> HIDE DEF R
<1>3. PICK q1 \in Int, r1 \in 0 .. (R - 1) : n = R * q1 + r1 /\ q1 = n \div R /\ r1 = n % R
  BY <1>1, DivMod
<1>4. PICK q2 \in Int, r2 \in 0 .. (R - 1) : q1 = R * q2 + r2 /\ q2 = q1 \div R /\ r2 = q1 % R
  BY <1>1, DivMod
<1>5. PICK q3 \in Int, r3 \in 0 .. (R - 1) : q2 = R * q3 + r3 /\ q3 = q2 \div R /\ r3 = q2 % R
  BY <1>1, DivMod
<1>6. n \div (R * R) = q2 /\ n \div (R * R * R) = q3
  <2>1. R \in Nat \ {0} /\ n \in Int
    BY <1>1
  <2>2. (n \div R) \div R = q2
    BY <1>3, <1>4
  <2>3. n \div (R * R) = (n \div R) \div R
    BY <2>1, DivDiv
  <2>4. n \div ((R * R) * R) = (n \div (R * R)) \div R
    BY <2>1, <1>2, DivDiv
  <2> QED BY <2>2, <2>3, <2>4, <1>5
<1>7. q3 \in 0 .. (TopSize - 1)
  <2>1. PICK q \in Int, r \in 0 .. (R * R * R - 1) :
          n = (R * R * R) * q + r /\ q = n \div (R * R * R)
    BY <1>1, <1>2, DivMod
  <2>2. q = q3
    BY <2>1, <1>6
  <2> DEFINE C == R * R * R
  <2>3. C \in Nat \ {0} /\ n = C * q3 + r /\ r \in 0 .. (C - 1) /\ n < C * TopSize /\ n >= 0
    BY <2>1, <2>2, <1>1, <1>2
  <2> HIDE DEF C
  <2>4. CASE q3 >= TopSize
    <3>1. C * q3 >= C * TopSize
      BY <2>3, <2>4, <1>1
    <3> QED BY <3>1, <2>3, <1>1
  <2>5. CASE q3 < 0
    <3>1. C * q3 <= -C
      BY <2>3, <2>5
    <3> QED BY <3>1, <2>3, <1>1
  <2> QED BY <2>4, <2>5, <1>1
<1>8. q3 % TopSize = q3
  BY <1>1, <1>7
<1>9. LbaRegs(n) = <<r1, r2, r3, q3>>
  BY <1>3, <1>4, <1>5, <1>6, <1>8 DEF LbaRegs, R
<1>10. Addressed(<<r1, r2, r3, q3>>) = r1 + R * (r2 + R * (r3 + R * q3))
  BY DEF Addressed, R
<1>11. r1 + R * (r2 + R * (r3 + R * q3)) = n
  <2>1. r3 + R * q3 = q2 /\ r2 + R * q2 = q1 /\ r1 + R * q1 = n
    <3>1. R \in Int /\ r1 \in Int /\ r2 \in Int /\ r3 \in Int
      BY <1>1
    <3>2. r3 + R * q3 = q2
      BY <3>1, <1>5
    <3>3. r2 + R * q2 = q1
      BY <3>1, <1>4
    <3>4. r1 + R * q1 = n
      BY <3>1, <1>3
    <3> QED BY <3>2, <3>3, <3>4
  <2> QED BY <2>1
<1> QED BY <1>9, <1>10, <1>11
--------------------------------------------------------------------------------
(* The invariant.                                                               *)
\* What the constants give.
LEMMA Constants ==
  /\ Words \in Nat \ {0} /\ <<0, 0>> \in Slots /\ 0 \in Sectors
  /\ Contents \subseteq Data /\ Data \subseteq Seq(Int)
<1>1. 0 \in Sectors
  <2>1. RegSize * RegSize \in Nat \ {0}
    BY AtaAssumption
  <2>2. RegSize * RegSize * RegSize \in Nat \ {0}
    BY <2>1, AtaAssumption
  <2>3. RegSize * RegSize * RegSize * TopSize \in Nat \ {0}
    BY <2>2, AtaAssumption
  <2> QED BY <2>3 DEF Sectors
<1>2. Data \subseteq Seq(Int)
  BY AtaAssumption DEF Data
<1> QED BY <1>1, <1>2, AtaAssumption DEF Slots, Buses, Contents, Data

\* A drive between commands is a drive, at rest; a place without one never asks.
LEMMA RestFacts ==
  ASSUME NEW k
  PROVE  /\ Rest(k) \in Drives /\ Idle \in Drives /\ AtRest(Idle)
         /\ k # "floating" => AtRest(Rest(k))
         /\ Rest(k).status # {"DRQ"} /\ ~Storing(Rest(k)) /\ ~Asks(Rest(k))
         /\ Rest(k).op = "none"
<1>1. Idle \in Drives /\ Idle.status = {}
  BY Constants DEF Idle, Drives, Ops
<1>2. Rest(k).status = IF k = "floating" THEN {"BSY", "DRQ", "ERR"} ELSE {}
  BY DEF Rest, Idle
<1>3. Rest(k).status \in SUBSET {"BSY", "DRQ", "ERR"}
  BY <1>2
<1>4. Rest(k) \in Drives
  BY <1>3, Constants DEF Rest, Idle, Drives, Ops
<1>5. Rest(k).op = "none"
  BY DEF Rest, Idle
<1>6. "BSY" \notin {"DRQ"} /\ "DRQ" \notin {"BSY"}
  OBVIOUS
<1>7. Rest(k).status # {"DRQ"} /\ Rest(k).status # {"BSY"} /\ ~Asks(Rest(k))
  BY <1>2, <1>6 DEF Asks
<1> QED BY <1>1, <1>2, <1>4, <1>5, <1>7 DEF AtRest, Storing

\* Before ata_init every place is as it is without commands.
LEMMA InitInv == Init => IInv
<1> SUFFICES ASSUME Init PROVE IInv
  OBVIOUS
<1>1. NoCall \in Calls
  BY Constants DEF NoCall, Calls
<1>2. call = [NoCall EXCEPT !.op = "identify"] /\ call \in Calls
  BY <1>1 DEF Init, NoCall, Calls
<1>3. \A s \in Slots : drive[s] = Rest(kind[s])
  BY DEF Init
<1>4. Typed
  <2>1. drive \in [Slots -> Drives]
    BY <1>3, RestFacts DEF Init
  <2>2. [unit |-> 0, lba |-> <<0, 0, 0, 0>>] \in [unit : {0, 1}, lba : Int \X Int \X Int \X Int]
    OBVIOUS
  <2>3. port \in [Buses -> [unit : {0, 1}, lba : Int \X Int \X Int \X Int]]
    BY <2>2 DEF Init
  <2>4. medium \in [Slots -> [Sectors -> Contents]]
    BY DEF Init, Contents
  <2> QED BY <1>2, <2>1, <2>3, <2>4 DEF Init, Typed
<1>5. Phase
  BY <1>2 DEF Init, Phase, NoCall
<1>6. call.slot \in Slots /\ call.op = "identify"
  BY <1>2 DEF Calls, NoCall
<1>7. InProtocol
  BY <1>3, <1>6, RestFacts DEF Init, InProtocol, InStep, IsDrive
<1>8. InData
  BY <1>3, <1>6, RestFacts DEF InData
<1> QED BY <1>4, <1>5, <1>7, <1>8 DEF IInv

\* NextSlot starts the IDENTIFY of another slot, or ata_init is over.
LEMMA NextSlotTypes ==
  ASSUME Typed, NEW found \in BOOLEAN, NextSlot(found)
  PROVE  /\ present' \in [Slots -> BOOLEAN] /\ call' \in Calls
         /\ call'.i = 0 /\ pc' \in {"probe", "idle"}
         /\ pc' = "probe" => call'.op = "identify"
         /\ pc' = "idle" => call' = NoCall
         /\ call'.op \in {"identify", "none"}
<1>1. NoCall \in Calls
  BY Constants DEF NoCall, Calls
<1>2. CASE SlotAfter(call.slot) \in Slots
  <2>1. call' = [NoCall EXCEPT !.op = "identify", !.slot = SlotAfter(call.slot)] /\ pc' = "probe"
    BY <1>2 DEF NextSlot
  <2>2. call' \in Calls /\ call'.i = 0 /\ call'.op = "identify"
    BY <2>1, <1>1, <1>2 DEF NoCall, Calls
  <2> QED BY <2>1, <2>2 DEF NextSlot, Typed
<1>3. CASE SlotAfter(call.slot) \notin Slots
  <2>1. call' = NoCall /\ pc' = "idle"
    BY <1>3 DEF NextSlot
  <2>2. call'.i = 0 /\ call'.op = "none"
    BY <2>1 DEF NoCall
  <2> QED BY <2>1, <2>2, <1>1 DEF NextSlot, Typed
<1> QED BY <1>2, <1>3

Leaves == \/ \E found \in BOOLEAN : NextSlot(found)
          \/ \E code \in Int, data \in Seq(Int) : Return(code, data)

\* A call ends, or the driver leaves a slot, only when the drive is at rest.
LEMMA LeaveSlot ==
  ASSUME IInv, UNCHANGED <<kind, port, drive, medium>>,
         Leaves, IsDrive(call.slot) => AtRest(drive[call.slot])
  PROVE  IInv'
<1> USE DEF IInv
<1>1. /\ present' \in [Slots -> BOOLEAN] /\ call' \in Calls
      /\ call'.i = 0 /\ pc' \in {"probe", "idle"}
      /\ pc' = "probe" => call'.op = "identify"
      /\ pc' = "idle" => call' = NoCall
      /\ call'.op \in {"identify", "none"}
  <2>1. CASE \E found \in BOOLEAN : NextSlot(found)
    BY <2>1, NextSlotTypes
  <2>2. CASE \E code \in Int, data \in Seq(Int) : Return(code, data)
    BY <2>2, Constants DEF Return, Typed, NoCall, Calls
  <2> QED BY <2>1, <2>2 DEF Leaves
<1>2. Typed' /\ Phase'
  BY <1>1 DEF Typed, Phase
<1>3. \A s \in Slots : IsDrive(s) => AtRest(drive[s])
  BY DEF InProtocol
<1>4. call'.slot \in Slots
  BY <1>1 DEF Calls
<1>5. InProtocol'
  BY <1>1, <1>3, <1>4 DEF InProtocol, InStep, IsDrive, AtRest, Rest
<1>6. drive[call'.slot].status # {"DRQ"} /\ ~Storing(drive[call'.slot])
  BY <1>3, <1>4, RestFacts DEF InProtocol, AtRest, Storing
<1>7. InData'
  BY <1>1, <1>6 DEF InData, Storing
<1> QED BY <1>2, <1>5, <1>7

\* A drive at rest takes the command; no other drive notices.
LEMMA SentFacts ==
  ASSUME Typed, NEW s \in Slots, NEW c \in Ops, IsDrive(s) => AtRest(drive[s])
  PROVE  /\ Sent(s, c) \in [Slots -> Drives]
         /\ \A t \in Slots : t # s \/ ~IsDrive(s) => Sent(s, c)[t] = drive[t]
         /\ IsDrive(s) => LET d == Sent(s, c)[s] IN d.status = {"BSY"} /\ d.op = c /\ d.pos = 0
<1> DEFINE d == [Idle EXCEPT !.status = {"BSY"}, !.op = c]
<1>1. d \in Drives /\ d.status = {"BSY"} /\ d.op = c /\ d.pos = 0
  <2>1. Idle \in Drives /\ Idle.pos = 0
    BY RestFacts DEF Idle
  <2>2. {"BSY"} \in SUBSET {"BSY", "DRQ", "ERR"}
    OBVIOUS
  <2> QED BY <2>1, <2>2 DEF Drives
<1> HIDE DEF d
<1>2. CASE IsDrive(s)
  <2>1. Sent(s, c) = [drive EXCEPT ![s] = d]
    BY <1>2 DEF Sent, AtRest, d
  <2> QED BY <2>1, <1>1, <1>2 DEF Typed
<1>3. CASE ~IsDrive(s)
  BY <1>3 DEF Sent, Typed
<1> QED BY <1>2, <1>3

\* IDENTIFY goes to a drive at rest, which takes it, or to nobody.
LEMMA ProbeInv == ASSUME IInv, Probe PROVE IInv'
<1> USE DEF IInv
<1>1. call.slot \in Slots /\ call.slot[1] \in Buses /\ call.slot[2] \in {0, 1} /\ call.op = "identify"
      /\ call' = call /\ call.i = 0 /\ call \in Calls
  BY DEF Typed, Phase, Calls, Probe, Slots
<1>2. drive' = Sent(call.slot, "identify") /\ pc' = "check" /\ pc = "probe"
      /\ UNCHANGED <<kind, medium, present, call>>
  BY DEF Probe
<1>3. IsDrive(call.slot) => AtRest(drive[call.slot])
  BY <1>2 DEF InProtocol, InStep
<1>4. /\ drive' \in [Slots -> Drives]
      /\ \A t \in Slots : t # call.slot \/ ~IsDrive(call.slot) => drive'[t] = drive[t]
      /\ IsDrive(call.slot) => LET d == drive'[call.slot] IN
           d.status = {"BSY"} /\ d.op = "identify" /\ d.pos = 0
  BY <1>1, <1>2, <1>3, SentFacts DEF Ops
<1>5. port' \in [Buses -> [unit : {0, 1}, lba : Int \X Int \X Int \X Int]]
  BY <1>1 DEF Probe, Typed
<1>6. Typed' /\ Phase'
  BY <1>1, <1>2, <1>4, <1>5 DEF Typed, Phase
<1>7. InProtocol'
  BY <1>1, <1>2, <1>4 DEF InProtocol, InStep, IsDrive, Rest, Accepted
<1>8. InData'
  <2>1. CASE IsDrive(call.slot)
    BY <2>1, <1>1, <1>2, <1>4 DEF InData, Storing
  <2>2. CASE ~IsDrive(call.slot)
    BY <2>2, <1>1, <1>2, <1>4, RestFacts DEF InData, InProtocol, Storing
  <2> QED BY <2>1, <2>2
<1> QED BY <1>6, <1>7, <1>8

\* A call begins with every drive at rest, so that the command is taken.
LEMMA IssueInv ==
  ASSUME IInv, NEW s \in Slots, NEW n \in Lbas,
         \/ Issue("read", s, n, <<>>)
         \/ \E b \in Buffers : Issue("write", s, n, b)
  PROVE  IInv'
<1> USE DEF IInv
<1>1. PICK op \in {"read", "write"}, buf \in Seq(Int) :
        Issue(op, s, n, buf) /\ (op = "write" => buf \in Buffers) /\ (op = "read" => buf = <<>>)
  <2>1. <<>> \in Seq(Int) /\ Buffers \subseteq Seq(Int)
    BY Constants DEF Contents
  <2>2. CASE Issue("read", s, n, <<>>)
    BY <2>1, <2>2
  <2>3. CASE \E b \in Buffers : Issue("write", s, n, b)
    BY <2>1, <2>3
  <2> QED BY <2>2, <2>3
<1>2. n \in Sectors /\ s[1] \in Buses /\ s[2] \in {0, 1}
  BY AtaAssumption DEF Slots
<1>3. /\ pc = "idle" /\ pc' = "busy" /\ drive' = Sent(s, op)
      /\ call' = [op |-> op, slot |-> s, lba |-> n, buf |-> buf, i |-> 0]
      /\ port' = [port EXCEPT ![s[1]] = [unit |-> s[2], lba |-> LbaRegs(n)]]
      /\ UNCHANGED <<kind, medium, present>>
  BY <1>1 DEF Issue
<1>4. \A t \in Slots : IsDrive(t) => AtRest(drive[t])
  BY <1>3 DEF InProtocol, InStep
<1>5. /\ drive' \in [Slots -> Drives]
      /\ \A t \in Slots : t # s \/ ~IsDrive(s) => drive'[t] = drive[t]
      /\ IsDrive(s) => LET d == drive'[s] IN
           d.status = {"BSY"} /\ d.op = op /\ d.pos = 0
  BY <1>3, <1>4, SentFacts DEF Ops
<1>6. /\ call' \in Calls /\ call'.slot = s /\ call'.op = op /\ call'.i = 0
      /\ call'.lba = n /\ call'.buf = buf
  BY <1>2, <1>3, Constants DEF Calls
<1>7. /\ port' \in [Buses -> [unit : {0, 1}, lba : Int \X Int \X Int \X Int]]
      /\ port'[s[1]].lba = LbaRegs(n)
  <2> DEFINE new == [unit |-> s[2], lba |-> LbaRegs(n)]
  <2>1. new \in [unit : {0, 1}, lba : Int \X Int \X Int \X Int] /\ new.lba = LbaRegs(n)
    BY <1>2, LbaKept
  <2> HIDE DEF new
  <2>2. port' = [port EXCEPT ![s[1]] = new]
    BY <1>3 DEF new
  <2> QED BY <2>1, <2>2, <1>2 DEF Typed
<1>8. Typed' /\ Phase'
  BY <1>3, <1>5, <1>6, <1>7 DEF Typed, Phase
<1>9. InProtocol'
  BY <1>3, <1>4, <1>5, <1>6 DEF InProtocol, InStep, IsDrive, Rest, Accepted
<1>10. drive'[s].status # {"DRQ"} /\ ~Storing(drive'[s])
  BY <1>5, RestFacts DEF InProtocol, Storing
<1>11. InData'
  BY <1>1, <1>6, <1>7, <1>10 DEF InData
<1> QED BY <1>8, <1>9, <1>11

\* What ends a wait, or a call, shows that the drive is at rest.
LEMMA EndsInv ==
  ASSUME IInv, NothingThere \/ WaitErr \/ Identified \/ ReadDone \/ Settle
  PROVE  IInv'
<1>1. call.i \in 0 .. Words /\ call.buf \in Seq(Int) /\ Words \in Nat
  BY Constants DEF IInv, Typed, Calls
<1>2. UNCHANGED <<kind, port, drive, medium>>
  BY DEF NothingThere, WaitErr, Identified, ReadDone, Settle
<1>3. \A code \in {0, -1}, data \in {<<>>, call.buf} : Return(code, data) => Leaves
  <2>1. \A code \in {0, -1} : code \in Int
    OBVIOUS
  <2>2. <<>> \in Seq(Int)
    OBVIOUS
  <2> QED BY <1>1, <2>1, <2>2 DEF Leaves
<1>4. \A found \in BOOLEAN : NextSlot(found) => Leaves
  BY DEF Leaves
<1>5. Leaves
  BY <1>3, <1>4 DEF NothingThere, WaitErr, Identified, ReadDone, Settle
<1>6. IsDrive(call.slot) => AtRest(drive[call.slot])
  <2>1. CASE NothingThere
    BY <2>1 DEF IInv, NothingThere, Status, InProtocol, InStep, Accepted
  <2>2. CASE WaitErr
    BY <2>2 DEF IInv, WaitErr, Status, InProtocol, InStep, Accepted, AtRest
  <2>3. CASE Identified \/ ReadDone
    <3>1. pc = "move" /\ ~(call.i < Words) /\ call.op \in {"identify", "read"}
      BY <2>3 DEF Identified, ReadDone, Moving
    <3>2. call.i = Words /\ call.op # "write"
      BY <3>1, <1>1
    <3> QED BY <3>1, <3>2 DEF IInv, InProtocol, InStep
  <2>4. CASE Settle
    BY <2>4 DEF IInv, Settle, Status, InProtocol, InStep, Storing, Flushing
  <2> QED BY <2>1, <2>2, <2>3, <2>4
<1> QED BY <1>2, <1>5, <1>6, LeaveSlot

\* A wait that is over changes nothing but the driver's place. Only a drive asks.
LEMMA WaitsInv ==
  ASSUME IInv, SomethingThere \/ WaitBusy \/ WaitDrq
  PROVE  IInv'
<1> USE DEF IInv
<1>1. UNCHANGED <<kind, port, drive, medium, present, call>> /\ pc' \in {"drq", "move"}
  BY DEF SomethingThere, WaitBusy, WaitDrq
<1>2. call \in Calls /\ call.slot \in Slots /\ call.i = 0 /\ Words \in Nat \ {0} /\ call.op # "none"
  BY Constants DEF Typed, Phase, Calls, SomethingThere, WaitBusy, WaitDrq
<1>3. Typed' /\ InData'
  BY <1>1 DEF Typed, InData, Storing
<1>4. Phase'
  BY <1>1, <1>2 DEF Phase
<1>5. CASE WaitDrq
  <2>1. pc = "drq" /\ pc' = "move" /\ Asks(drive[call.slot])
    BY <1>5 DEF WaitDrq
  <2>2. IsDrive(call.slot)
    BY <2>1, <1>2, RestFacts DEF InProtocol
  <2>3. LET d == drive[call.slot] IN d.status = {"DRQ"} /\ d.op = call.op /\ d.pos = 0
    BY <2>1, <2>2 DEF InProtocol, InStep, Accepted, Asks
  <2> QED BY <1>1, <1>2, <1>3, <1>4, <2>1, <2>2, <2>3 DEF InProtocol, InStep, IsDrive, AtRest
<1>6. CASE SomethingThere \/ WaitBusy
  <2>1. pc \in {"check", "busy"} /\ pc' = "drq"
    BY <1>6 DEF SomethingThere, WaitBusy
  <2>2. InProtocol'
    BY <1>1, <2>1 DEF InProtocol, InStep, IsDrive, AtRest, Accepted
  <2> QED BY <1>3, <1>4, <2>2
<1> QED BY <1>5, <1>6

\* Nothing is sent to a drive that is still storing the sector: it drops it.
LEMMA FlushInv == ASSUME IInv, Flush PROVE IInv'
<1> USE DEF IInv
<1>1. /\ pc = "move" /\ pc' = "settle" /\ call.op = "write" /\ call.i = Words
      /\ drive' = Sent(call.slot, "flush") /\ UNCHANGED <<kind, port, medium, present, call>>
  BY Constants DEF Flush, Moving, Typed, Calls
<1>2. IsDrive(call.slot) /\ call.slot \in Slots
  BY <1>1 DEF InProtocol, Typed, Calls
<1>3. /\ drive' \in [Slots -> Drives]
      /\ \A t \in Slots : t # call.slot => drive'[t] = drive[t]
      /\ LET d == drive'[call.slot] IN
           AtRest(d) \/ (Storing(d) /\ d = drive[call.slot]) \/ Flushing(d)
  <2>1. CASE AtRest(drive[call.slot])
    BY <2>1, <1>1, <1>2, SentFacts DEF Ops, Flushing
  <2>2. CASE Storing(drive[call.slot])
    <3>1. Sent(call.slot, "flush") = drive
      BY <2>2 DEF Sent, Storing
    <3> QED BY <3>1, <2>2, <1>1 DEF Typed
  <2> QED BY <2>1, <2>2, <1>1, <1>2 DEF InProtocol, InStep
<1>4. Typed' /\ Phase'
  BY <1>1, <1>3 DEF Typed, Phase
<1>5. InProtocol'
  BY <1>1, <1>2, <1>3 DEF InProtocol, InStep, IsDrive, Rest
<1>6. drive'[call.slot].status # {"DRQ"}
  BY <1>3 DEF AtRest, Storing, Flushing
<1>7. Storing(drive'[call.slot]) => drive'[call.slot] = drive[call.slot]
  BY <1>3 DEF AtRest, Storing, Flushing
<1>8. InData'
  BY <1>1, <1>6, <1>7 DEF InData
<1> QED BY <1>4, <1>5, <1>8
--------------------------------------------------------------------------------
(* Words moved, and the drives' own steps.                                      *)
\* One word goes over the port; the last one of a write sets the drive to work.
LEMMA MovedFacts ==
  ASSUME NEW d \in Drives, d.status = {"DRQ"}, d.buf \in Data, d.pos < Words, NEW w \in Int
  PROVE  LET m   == Moved(d, w)
             new == [d.buf EXCEPT ![d.pos + 1] = w]
         IN  /\ m \in Drives /\ new \in Data
             /\ d.pos + 1 < Words =>
                  m.status = {"DRQ"} /\ m.op = d.op /\ m.pos = d.pos + 1 /\ m.buf = new
             /\ d.pos + 1 = Words /\ d.op = "write" => Storing(m) /\ m.buf = new
             /\ d.pos + 1 = Words /\ d.op # "write" => m = Idle
<1> DEFINE new == [d.buf EXCEPT ![d.pos + 1] = w]
<1>1. d.pos \in 0 .. Words /\ d.pos + 1 \in 1 .. Words /\ Words \in Nat
  BY Constants DEF Drives
<1>2. new \in Data
  BY <1>1 DEF Data
<1> HIDE DEF new
<1> DEFINE e == [d EXCEPT !.pos = d.pos + 1, !.buf = new]
<1>3. /\ e \in Drives /\ e.status = {"DRQ"} /\ e.op = d.op /\ e.pos = d.pos + 1
      /\ e.buf = new
  <2>1. d.pos + 1 \in 0 .. Words
    BY <1>1
  <2> QED BY <1>2, <2>1 DEF Drives
<1>4. Moved(d, w) = IF e.pos < Words THEN e
                    ELSE IF d.op = "write" THEN [e EXCEPT !.op = "store", !.status = {"BSY"}]
                    ELSE Idle
  BY DEF Moved, Asks, new
<1> HIDE DEF e
<1> DEFINE m == Moved(d, w)
<1>5. d.pos + 1 < Words => m = e
  BY <1>1, <1>3, <1>4
<1>6. d.pos + 1 = Words /\ d.op = "write" => m \in Drives /\ Storing(m) /\ m.buf = new
  <2>1. "store" \in Ops /\ {"BSY"} \in SUBSET {"BSY", "DRQ", "ERR"}
    BY DEF Ops
  <2> SUFFICES ASSUME d.pos + 1 = Words, d.op = "write"
               PROVE  m \in Drives /\ Storing(m) /\ m.buf = new
    OBVIOUS
  <2>2. m = [e EXCEPT !.op = "store", !.status = {"BSY"}]
    BY <1>1, <1>3, <1>4
  <2> HIDE DEF m
  <2> QED BY <1>3, <2>1, <2>2 DEF Drives, Storing
<1>7. d.pos + 1 = Words /\ d.op # "write" => m = Idle
  BY <1>1, <1>3, <1>4
<1>8. m \in Drives
  <2> HIDE DEF m
  <2> QED BY <1>1, <1>3, <1>5, <1>6, <1>7, RestFacts
<1>9. new \in Data /\ (d.pos + 1 < Words =>
        m.status = {"DRQ"} /\ m.op = d.op /\ m.pos = d.pos + 1 /\ m.buf = new)
  <2> HIDE DEF m
  <2> QED BY <1>2, <1>3, <1>5
<1> HIDE DEF m
<1> USE DEF new
<1> QED BY <1>6, <1>7, <1>8, <1>9 DEF m

\* While words are left the drive is at the same word as the driver.
LEMMA MovingFacts ==
  ASSUME IInv, Moving
  PROVE  /\ call.slot \in Slots /\ IsDrive(call.slot) /\ call.i \in 0 .. (Words - 1)
         /\ LET d == drive[call.slot]
            IN  /\ d \in Drives /\ d.status = {"DRQ"} /\ d.op = call.op /\ d.pos = call.i
                /\ d.buf \in Data /\ Word = d.buf[call.i + 1] /\ Word \in Int
<1>1. call.slot \in Slots /\ call.i \in 0 .. (Words - 1) /\ pc = "move"
  BY Constants DEF IInv, Typed, Calls, Moving
<1>2. IsDrive(call.slot)
  BY <1>1 DEF IInv, InProtocol
<1>3. LET d == drive[call.slot] IN d.status = {"DRQ"} /\ d.op = call.op /\ d.pos = call.i
  BY <1>1, <1>2 DEF IInv, InProtocol, InStep, Moving
<1>4. drive[call.slot] \in Drives /\ drive[call.slot].buf \in Data
  BY <1>1, <1>3 DEF IInv, Typed, InData
<1>5. Word = drive[call.slot].buf[call.i + 1]
  BY <1>3 DEF Word, Asks
<1> QED BY <1>1, <1>2, <1>3, <1>4, <1>5, Constants DEF Data

\* The word the driver moves is the word the drive counts.
LEMMA MoveInv == ASSUME IInv, MoveIn \/ MoveOut PROVE IInv'
<1> DEFINE s == call.slot
           d == drive[s]
           w == IF call.op = "write" THEN call.buf[call.i + 1] ELSE Word
           m == Moved(d, w)
           new == [d.buf EXCEPT ![call.i + 1] = w]
<1>1. Moving /\ pc = "move" /\ pc' = "move" /\ UNCHANGED <<kind, port, medium, present>>
  BY DEF MoveIn, MoveOut, Moving
<1>2. /\ s \in Slots /\ IsDrive(s) /\ call.i \in 0 .. (Words - 1) /\ d \in Drives
      /\ d.status = {"DRQ"} /\ d.op = call.op /\ d.pos = call.i /\ d.buf \in Data
      /\ Word = d.buf[call.i + 1] /\ Word \in Int /\ Words \in Nat
  BY <1>1, MovingFacts, Constants
<1>3. call \in Calls /\ call.op \in {"read", "write", "identify"}
  BY DEF IInv, Typed, MoveIn, MoveOut
<1>4. w \in Int
  <2>1. call.op = "write" => call.buf \in Data
    BY Constants DEF IInv, InData, Contents
  <2> QED BY <1>2, <2>1 DEF Data
<1>5. /\ call' \in Calls /\ call'.slot = s /\ call'.op = call.op /\ call'.lba = call.lba
      /\ call'.i = call.i + 1
      /\ call'.buf = IF call.op = "write" THEN call.buf ELSE Append(call.buf, w)
  <2>1. call.i + 1 \in 0 .. Words
    BY <1>2
  <2>2. Append(call.buf, w) \in Seq(Int)
    BY <1>3, <1>4 DEF Calls
  <2> HIDE DEF w
  <2>3. call' = [call EXCEPT !.i = call.i + 1,
                   !.buf = IF call.op = "write" THEN call.buf ELSE Append(call.buf, w)]
    BY <1>3 DEF MoveIn, MoveOut, Calls, w
  <2> QED BY <1>3, <2>1, <2>2, <2>3 DEF Calls
<1>6. drive' = [drive EXCEPT ![s] = m]
  BY DEF MoveIn, MoveOut
<1>7. /\ m \in Drives /\ new \in Data
      /\ call.i + 1 < Words =>
           m.status = {"DRQ"} /\ m.op = call.op /\ m.pos = call.i + 1 /\ m.buf = new
      /\ call.i + 1 = Words /\ call.op = "write" => Storing(m) /\ m.buf = new
      /\ call.i + 1 = Words /\ call.op # "write" => m = Idle
  BY <1>2, <1>4, MovedFacts
<1>8. \A k \in 1 .. Words : new[k] = IF k = call.i + 1 THEN w ELSE d.buf[k]
  BY <1>2 DEF Data
<1> HIDE DEF m, new, w
<1>9. drive' \in [Slots -> Drives] /\ drive'[s] = m /\ \A t \in Slots \ {s} : drive'[t] = drive[t]
  BY <1>2, <1>6, <1>7 DEF IInv, Typed
<1>10. Typed' /\ Phase'
  BY <1>1, <1>3, <1>5, <1>9 DEF IInv, Typed, Phase
<1>11. InProtocol'
  BY <1>1, <1>2, <1>5, <1>7, <1>9, RestFacts DEF IInv, InProtocol, InStep, IsDrive, Rest
<1>12. m.status = {"DRQ"} \/ Storing(m) => m.buf = new
  <2>1. Idle.status # {"DRQ"} /\ ~Storing(Idle)
    BY RestFacts DEF AtRest, Storing
  <2> QED BY <1>2, <1>7, <2>1
<1> DEFINE dn == drive'[call'.slot]
<1>13. /\ dn = m /\ (dn.status = {"DRQ"} \/ Storing(dn) => dn.buf = new /\ dn.buf \in Data)
       /\ call'.op \in {"read", "write"} => port'[call'.slot[1]].lba = LbaRegs(call'.lba)
       /\ medium'[call'.slot][call'.lba] = medium[s][call.lba]
  <2>1. dn = m
    BY <1>5, <1>9
  <2>2. call'.op \in {"read", "write"} => port'[call'.slot[1]].lba = LbaRegs(call'.lba)
    BY <1>1, <1>5 DEF IInv, InData
  <2> HIDE DEF dn
  <2> QED BY <1>1, <1>5, <1>7, <1>12, <2>1, <2>2
<1>14. call.op = "identify" => InData'
  <2> SUFFICES ASSUME call.op = "identify" PROVE InData'
    OBVIOUS
  <2>1. call'.op = "identify"
    BY <1>5
  <2> QED BY <1>13, <2>1 DEF InData
<1>15. call.op = "read" => InData'
  <2> SUFFICES ASSUME call.op = "read" PROVE InData'
    OBVIOUS
  <2> DEFINE sector == medium[s][call.lba]
  <2>1. /\ \A k \in 1 .. Words : d.buf[k] = sector[k]
        /\ call.buf \in Seq(Int) /\ Len(call.buf) = call.i
        /\ \A k \in 1 .. call.i : call.buf[k] = sector[k]
    BY <1>2, <1>3 DEF IInv, InData, Calls
  <2>2. w = d.buf[call.i + 1]
    BY <1>2 DEF w
  <2> HIDE DEF sector
  <2>3. \A k \in 1 .. Words : new[k] = sector[k]
    BY <1>2, <1>8, <2>1, <2>2
  <2>4. w = sector[call.i + 1]
    BY <1>2, <2>1, <2>2
  <2>5. call'.buf = Append(call.buf, w)
    BY <1>5
  <2>6. Len(call'.buf) = call'.i
    BY <1>4, <1>5, <2>1, <2>5
  <2>7. \A k \in 1 .. call'.i : call'.buf[k] = sector[k]
    BY <1>2, <1>4, <1>5, <2>1, <2>4, <2>5
  <2>8. call'.op = "read" /\ sector = medium'[call'.slot][call'.lba]
    BY <1>5, <1>13 DEF sector
  <2>9. dn.status = {"DRQ"} => \A k \in 1 .. Words : dn.buf[k] = sector[k]
    BY <1>13, <2>3
  <2> QED BY <1>13, <2>6, <2>7, <2>8, <2>9 DEF InData
<1>16. call.op = "write" => InData'
  <2> SUFFICES ASSUME call.op = "write" PROVE InData'
    OBVIOUS
  <2>1. call.buf \in Buffers /\ \A k \in 1 .. call.i : d.buf[k] = call.buf[k]
    BY <1>2 DEF IInv, InData
  <2>2. w = call.buf[call.i + 1]
    BY DEF w
  <2>3. \A k \in 1 .. call'.i : new[k] = call'.buf[k]
    BY <1>2, <1>5, <1>8, <2>1, <2>2
  <2>4. call'.op = "write" /\ call'.buf \in Buffers
    BY <1>5, <2>1
  <2>5. dn.status = {"DRQ"} \/ Storing(dn) => \A k \in 1 .. call'.i : dn.buf[k] = call'.buf[k]
    BY <1>13, <2>3
  <2> QED BY <1>13, <2>4, <2>5 DEF InData
<1> QED BY <1>3, <1>10, <1>11, <1>14, <1>15, <1>16 DEF IInv

\* Only the drive of the call is at work, and the driver is waiting for it.
LEMMA DriveFacts ==
  ASSUME IInv, NEW s \in Slots, Drive(s)
  PROVE  /\ s = call.slot /\ IsDrive(s)
         /\ \/ /\ pc \in {"check", "busy", "drq"} /\ call.i = 0
               /\ drive[s].status = {"BSY"} /\ drive[s].op = call.op /\ drive[s].pos = 0
            \/ /\ pc \in {"move", "settle"} /\ call.i = Words /\ call.op = "write"
               /\ Storing(drive[s])
            \/ pc = "settle" /\ call.op = "write" /\ Flushing(drive[s])
<1>1. "BSY" \in drive[s].status
  BY DEF Drive, DriveAsks, DriveFails, DriveStores, DriveFlushes
<1>2. IsDrive(s)
  <2>1. CASE DriveAsks(s) \/ DriveFails(s)
    BY <2>1 DEF DriveAsks, DriveFails, IsDrive
  <2>2. CASE DriveStores(s) \/ DriveFlushes(s)
    <3>1. drive[s].op # "none"
      BY <2>2 DEF DriveStores, DriveFlushes
    <3> QED BY <3>1, RestFacts DEF IInv, InProtocol
  <2> QED BY <2>1, <2>2 DEF Drive
<1>3. ~AtRest(drive[s])
  BY <1>1 DEF AtRest
<1>4. s = call.slot
  BY <1>2, <1>3 DEF IInv, InProtocol
<1>5. InStep(drive[s]) /\ call.i \in 0 .. Words
  BY <1>2, <1>4 DEF IInv, InProtocol, Typed, Calls
<1>6. CASE pc \in {"check", "busy", "drq"}
  BY <1>1, <1>2, <1>4, <1>5, <1>6 DEF InStep, Accepted, IInv, Phase
<1>7. CASE pc = "move"
  <2>1. ~(call.i < Words)
    BY <1>1, <1>5, <1>7 DEF InStep
  <2>2. call.i = Words
    BY <1>5, <2>1, Constants
  <2> QED BY <1>2, <1>3, <1>4, <1>5, <1>7, <2>2 DEF InStep
<1>8. CASE pc = "settle"
  BY <1>2, <1>3, <1>4, <1>5, <1>8 DEF InStep, IInv, Phase
<1> QED BY <1>3, <1>5, <1>6, <1>7, <1>8 DEF InStep, IInv, Typed

\* Data of the sector that was named, or a refusal.
LEMMA DriveAsksInv == ASSUME IInv, NEW s \in Slots, DriveAsks(s) PROVE IInv'
<1> DEFINE b == IF drive[s].op = "read" THEN medium[s][Addressed(port[s[1]].lba)] ELSE Blank
<1>1. /\ drive' = [drive EXCEPT ![s].status = {"DRQ"}, ![s].buf = b]
      /\ drive[s].op \in {"read", "write", "identify"}
      /\ UNCHANGED <<kind, port, medium, present, pc, call>>
  BY DEF DriveAsks
<1>2. /\ s = call.slot /\ IsDrive(s) /\ pc \in {"check", "busy", "drq"} /\ call.i = 0
      /\ drive[s].op = call.op /\ drive[s].pos = 0
  <2>1. drive[s].op \notin {"store", "flush"}
    BY <1>1
  <2> QED BY <2>1, DriveFacts DEF Drive, Storing, Flushing
<1>3. call.lba \in Sectors /\ call.op \in {"read", "write", "identify"}
  BY <1>1, <1>2 DEF IInv, Typed, Calls
<1>4. b \in Data /\ (call.op = "read" => b = medium[s][call.lba])
  <2>1. CASE call.op = "read"
    <3>1. Addressed(port[s[1]].lba) = call.lba
      BY <2>1, <1>2, <1>3, LbaKept DEF IInv, InData
    <3> QED BY <3>1, <2>1, <1>2, <1>3, Constants DEF IInv, Typed
  <2>2. CASE call.op # "read"
    BY <2>2, <1>2, Constants DEF Contents
  <2> QED BY <2>1, <2>2
<1> HIDE DEF b
<1>5. /\ drive' \in [Slots -> Drives] /\ \A t \in Slots \ {s} : drive'[t] = drive[t]
      /\ drive'[s].status = {"DRQ"} /\ drive'[s].op = call.op /\ drive'[s].pos = 0
      /\ drive'[s].buf = b
  <2>1. {"DRQ"} \in SUBSET {"BSY", "DRQ", "ERR"}
    OBVIOUS
  <2> QED BY <1>1, <1>2, <1>4, <2>1 DEF IInv, Typed, Drives
<1>6. Typed' /\ Phase'
  BY <1>1, <1>5 DEF IInv, Typed, Phase
<1>7. InProtocol'
  BY <1>1, <1>2, <1>5 DEF IInv, InProtocol, InStep, IsDrive, Accepted
<1>8. InData'
  BY <1>1, <1>2, <1>4, <1>5 DEF IInv, InData
<1> QED BY <1>6, <1>7, <1>8 DEF IInv

\* A drive that stopped working for the driver is at rest at any point of a call.
LEMMA StopsInv ==
  ASSUME IInv, NEW s \in Slots, Drive(s), NEW d \in Drives,
         \/ d.status = {"ERR"}
         \/ d.status = {} /\ drive[s].op \in {"store", "flush"},
         drive' = [drive EXCEPT ![s] = d], medium' \in [Slots -> [Sectors -> Contents]],
         UNCHANGED <<kind, port, present, pc, call>>, medium' = medium \/ call.op = "write"
  PROVE  IInv'
<1>1. /\ s = call.slot /\ IsDrive(s) /\ pc \in {"check", "busy", "drq", "move", "settle"}
      /\ pc = "move" => call.i = Words
      /\ pc \in {"check", "busy", "drq"} => drive[s].op = call.op
  BY DriveFacts
<1>2. drive' \in [Slots -> Drives] /\ drive'[s] = d /\ \A t \in Slots \ {s} : drive'[t] = drive[t]
  BY DEF IInv, Typed
<1>3. call.op \notin {"store", "flush"} /\ Words \in Nat
  BY Constants DEF IInv, Typed, Calls
<1>4. Typed' /\ Phase'
  BY <1>2 DEF IInv, Typed, Phase
<1>5. InProtocol'
  BY <1>1, <1>2, <1>3 DEF IInv, InProtocol, InStep, IsDrive, Accepted, AtRest
<1>6. d.status # {"DRQ"} /\ ~Storing(d)
  BY DEF Storing
<1>7. InData'
  BY <1>1, <1>2, <1>6 DEF IInv, InData
<1> QED BY <1>4, <1>5, <1>7 DEF IInv

\* Two sectors' worth of words that agree at every word are the same.
LEMMA SameData ==
  ASSUME NEW f \in Data, NEW g \in Data, \A k \in 1 .. Words : f[k] = g[k]
  PROVE  f = g
<1>1. f = [k \in 1 .. Words |-> f[k]] /\ g = [k \in 1 .. Words |-> g[k]]
  BY DEF Data
<1> QED BY <1>1, Zenon

\* What reaches the medium is the caller's data, in the sector the caller named.
LEMMA StoreFacts ==
  ASSUME IInv, NEW s \in Slots, DriveStores(s)
  PROVE  /\ medium' = [medium EXCEPT ![call.slot][call.lba] = call.buf]
         /\ call.op = "write" /\ call.i = Words /\ call.buf \in Buffers
         /\ call.lba \in Sectors /\ s = call.slot
<1>1. drive[s].op = "store" /\ call \in Calls
  BY DEF DriveStores, IInv, Typed
<1>2. s = call.slot /\ call.op = "write" /\ call.i = Words /\ Storing(drive[s])
  BY <1>1, DriveFacts DEF Drive, Calls, Flushing
<1>3. call.buf \in Buffers /\ drive[s].buf \in Data /\ \A k \in 1 .. Words : drive[s].buf[k] = call.buf[k]
  BY <1>2 DEF IInv, InData
<1>4. drive[s].buf = call.buf
  <2>1. call.buf \in Data
    BY <1>3, Constants DEF Contents
  <2> QED BY <1>3, <2>1, SameData
<1>5. call.lba \in Sectors
  BY <1>1 DEF Calls
<1>6. Addressed(port[s[1]].lba) = call.lba
  BY <1>2, <1>5, LbaKept DEF IInv, InData
<1> QED BY <1>2, <1>3, <1>4, <1>5, <1>6 DEF DriveStores

\* Whatever a drive does by itself, the driver is waiting for it.
LEMMA DriveInv == ASSUME IInv, NEW s \in Slots, Drive(s) PROVE IInv'
<1>1. medium \in [Slots -> [Sectors -> Contents]]
  BY DEF IInv, Typed
<1>2. Idle \in Drives /\ Idle.status = {}
  BY RestFacts DEF Idle
<1>3. CASE DriveAsks(s)
  BY <1>3, DriveAsksInv
<1>4. CASE DriveFails(s)
  <2> DEFINE d == [Idle EXCEPT !.status = {"ERR"}]
  <2>1. {"ERR"} \in SUBSET {"BSY", "DRQ", "ERR"}
    OBVIOUS
  <2>2. d \in Drives /\ d.status = {"ERR"}
    BY <1>2, <2>1 DEF Drives
  <2>3. drive' = [drive EXCEPT ![s] = d] /\ UNCHANGED <<kind, port, medium, present, pc, call>>
    BY <1>4 DEF DriveFails
  <2> HIDE DEF d
  <2> QED BY <1>1, <2>2, <2>3, StopsInv
<1>5. CASE DriveStores(s)
  <2>1. medium' \in [Slots -> [Sectors -> Contents]] /\ call.op = "write"
    BY <1>1, <1>5, StoreFacts DEF Contents
  <2>2. drive' = [drive EXCEPT ![s] = Idle] /\ drive[s].op = "store"
        /\ UNCHANGED <<kind, port, present, pc, call>>
    BY <1>5 DEF DriveStores
  <2> QED BY <1>2, <2>1, <2>2, StopsInv
<1>6. CASE DriveFlushes(s)
  <2>1. drive' = [drive EXCEPT ![s] = Idle] /\ drive[s].op = "flush"
        /\ UNCHANGED <<kind, port, medium, present, pc, call>>
    BY <1>6 DEF DriveFlushes
  <2> QED BY <1>1, <1>2, <2>1, StopsInv
<1> QED BY <1>3, <1>4, <1>5, <1>6 DEF Drive

\* Every step of the driver, of its callers and of a drive keeps the invariant.
LEMMA NextInv == IInv /\ [Next]_vars => IInv'
<1> SUFFICES ASSUME IInv, [Next]_vars PROVE IInv'
  OBVIOUS
<1>1. CASE Driver
  BY <1>1, ProbeInv, EndsInv, WaitsInv, MoveInv, FlushInv DEF Driver
<1>2. CASE Caller
  BY <1>2, IssueInv DEF Caller
<1>3. CASE \E s \in Slots : Drive(s)
  BY <1>3, DriveInv
<1>4. CASE UNCHANGED vars
  <2> USE <1>4 DEF vars
  <2>1. Typed' /\ Phase'
    BY DEF IInv, Typed, Phase
  <2>2. InProtocol'
    BY DEF IInv, InProtocol, InStep, IsDrive, AtRest, Accepted, Storing, Flushing, Rest, Idle
  <2>3. InData'
    BY DEF IInv, InData, Storing
  <2> QED BY <2>1, <2>2, <2>3 DEF IInv
<1> QED BY <1>1, <1>2, <1>3, <1>4 DEF Next

\* The invariant holds in every state of every behaviour of the driver.
THEOREM InvariantHolds == Spec => []IInv
BY InitInv, NextInv, PTL DEF Spec

\* However a call ends (ata.c:49, 80, 104, 126), and however slow the drives are,
\* none is left busy or asking for data, so that the command of the next call is
\* taken: on any number of buses, with drives of any kind in any place.
THEOREM QuietDrives == Spec => []QuietBetweenCalls
<1>1. IInv => QuietBetweenCalls
  <2> SUFFICES ASSUME IInv PROVE QuietBetweenCalls
    OBVIOUS
  <2>1. TypeOK
    BY DEF IInv, Typed, TypeOK, Calls, Drives, Contents
  <2>2. ASSUME pc = "idle", NEW s \in Slots, IsDrive(s)
        PROVE  drive[s].status \cap {"BSY", "DRQ"} = {}
    <3>1. AtRest(drive[s])
      BY <2>2 DEF IInv, InProtocol, InStep
    <3> QED BY <3>1 DEF AtRest
  <2> QED BY <2>1, <2>2 DEF QuietBetweenCalls
<1> QED BY <1>1, InvariantHolds, PTL
--------------------------------------------------------------------------------
(* The driver implements Disk.tla.                                              *)
Taken == call.op = "write" /\ call.i = Words

\* IDENTIFY is no request, nor is the time between calls.
LEMMA NoRequest == call.op \in {"none", "identify"} => Request = [op |-> "none"] /\ ~Taken
BY DEF Request, Taken

\* Any step that leaves the medium, the request and what was taken is a stutter.
LEMMA Stutters ==
  ASSUME medium' = medium, ret' = ret, Request' = Request, Taken' <=> Taken
  PROVE  UNCHANGED Abs!absVars
BY DEF Abs!absVars, Taken

\* A call on a free driver is a request.
LEMMA CallIsAsk ==
  ASSUME IInv, NEW s \in Slots, NEW n \in Lbas,
         \/ Issue("read", s, n, <<>>)
         \/ \E b \in Buffers : Issue("write", s, n, b)
  PROVE  Abs!Ask
<1>1. Words \in Nat \ {0} /\ n \in Sectors
  BY AtaAssumption
<1>2. call.op = "none"
  BY DEF Issue, IInv, Phase, NoCall
<1>3. Request = [op |-> "none"] /\ ~Taken
  BY <1>2, NoRequest
<1>4. medium' = medium /\ ret' = ret /\ call'.i = 0 /\ ~Taken'
  BY <1>1 DEF Issue, Taken
<1>5. \/ Request' = [op |-> "read", slot |-> s, sector |-> n]
      \/ \E b \in Buffers :
           Request' = [op |-> "write", slot |-> s, sector |-> n, data |-> b]
  BY DEF Issue, Request
<1> QED BY <1>1, <1>3, <1>4, <1>5 DEF Abs!Ask, Abs!NoReq, Taken

\* A read that got all its words gives back what the sector holds.
LEMMA ReadIsAnswer == ASSUME IInv, ReadDone PROVE Abs!AnswerRead(TRUE)
<1>1. call.op = "read" /\ call \in Calls /\ pc = "move" /\ ~(call.i < Words)
  BY DEF ReadDone, Moving, IInv, Typed
<1>2. call.i = Words /\ call.slot \in Slots /\ call.lba \in Sectors /\ call.buf \in Seq(Int)
  BY <1>1, Constants DEF Calls
<1> DEFINE sector == medium[call.slot][call.lba]
<1>3. Len(call.buf) = Words /\ \A k \in 1 .. Words : call.buf[k] = sector[k]
  BY <1>1, <1>2 DEF IInv, InData
<1>4. sector \in Data
  BY <1>2, Constants DEF IInv, Typed
<1>5. call.buf \in Data
  BY <1>2, <1>3 DEF Data
<1>6. call.buf = sector
  BY <1>3, <1>4, <1>5, SameData
<1>7. Request = [op |-> "read", slot |-> call.slot, sector |-> call.lba]
  BY <1>1 DEF Request
<1>8. call' = NoCall /\ ret' = [code |-> 0, data |-> call.buf] /\ medium' = medium
  BY DEF ReadDone, Return
<1>9. call'.op = "none"
  BY <1>8 DEF NoCall
<1>10. Request' = [op |-> "none"] /\ ~Taken'
  BY <1>9 DEF Request, Taken
<1>11. ~Taken
  BY <1>1 DEF Taken
<1> QED BY <1>6, <1>7, <1>8, <1>10, <1>11 DEF Abs!AnswerRead, Abs!NoReq, Taken

\* A call that failed, before any word was moved, or a write that is over.
LEMMA EndIsAnswer ==
  ASSUME IInv, WaitErr \/ Settle, call.op \in {"read", "write"}
  PROVE  Abs!AnswerRead(FALSE) \/ Abs!AnswerWrite
<1>1. medium' = medium /\ call' = NoCall
      /\ ret' = [code |-> IF Taken THEN 0 ELSE -1, data |-> <<>>]
  <2>1. CASE WaitErr
    <3>1. call.i = 0 /\ ~Taken
      BY <2>1, Constants DEF WaitErr, IInv, Phase, Taken
    <3> QED BY <2>1, <3>1 DEF WaitErr, Return
  <2>2. CASE Settle
    <3>1. Taken
      BY <2>2 DEF Settle, IInv, Phase, Taken
    <3> QED BY <2>2, <3>1 DEF Settle, Return
  <2> QED BY <2>1, <2>2
<1>2. call.op = "read" => ~Taken
  BY DEF Taken
<1>3. call'.op = "none"
  BY <1>1 DEF NoCall
<1>4. Request' = [op |-> "none"] /\ ~Taken'
  BY <1>3 DEF Request, Taken
<1>5. Request.op = call.op
  BY DEF Request
<1>6. CASE call.op = "read"
  BY <1>1, <1>2, <1>4, <1>5, <1>6 DEF Abs!AnswerRead, Abs!NoReq, Taken
<1>7. CASE call.op = "write"
  BY <1>1, <1>4, <1>5, <1>7 DEF Abs!AnswerWrite, Abs!NoReq, Taken
<1> QED BY <1>6, <1>7

\* A word of a write that is not the last is a stutter, the last is the taking.
LEMMA MoveIsTake ==
  ASSUME IInv, MoveIn \/ MoveOut
  PROVE  Abs!TakeData \/ UNCHANGED Abs!absVars
<1>1. medium' = medium /\ ret' = ret /\ call \in Calls
  BY DEF MoveIn, MoveOut, IInv, Typed
<1>2. CASE MoveIn
  <2>1. /\ call'.op = call.op /\ call'.slot = call.slot /\ call'.lba = call.lba
        /\ call.op # "write"
    BY <1>1, <1>2 DEF MoveIn, Calls
  <2>2. Request' = Request /\ ~Taken /\ ~Taken'
    BY <2>1 DEF Request, Taken
  <2> QED BY <1>1, <2>2, Stutters
<1>3. CASE MoveOut
  <2>1. /\ call'.op = "write" /\ call'.slot = call.slot /\ call'.lba = call.lba
        /\ call'.buf = call.buf /\ call.op = "write" /\ call.i < Words
    BY <1>1, <1>3 DEF MoveOut, Moving, Calls
  <2>2. Request' = Request /\ Request.op = "write"
    BY <2>1 DEF Request
  <2>3. ~Taken
    BY <2>1, <1>1, Constants DEF Taken, Calls
  <2>4. CASE Taken'
    BY <1>1, <2>2, <2>3, <2>4 DEF Abs!TakeData, Taken
  <2>5. CASE ~Taken'
    BY <1>1, <2>2, <2>3, <2>5, Stutters
  <2> QED BY <2>4, <2>5
<1> QED BY <1>2, <1>3

\* Each step of the driver, its callers and the drives is one of Disk.tla or none.
LEMMA StepRefines == IInv /\ [Next]_vars => [Abs!Next]_Abs!absVars
<1> SUFFICES ASSUME IInv, [Next]_vars PROVE Abs!Next \/ UNCHANGED Abs!absVars
  OBVIOUS
<1>1. ASSUME medium' = medium, ret' = ret, call' = call PROVE UNCHANGED Abs!absVars
  <2>1. Request' = Request /\ (Taken' <=> Taken)
    BY <1>1 DEF Request, Taken
  <2> QED BY <1>1, <2>1, Stutters
<1>2. ASSUME NEW found \in BOOLEAN, NextSlot(found), medium' = medium, call.op = "identify"
      PROVE  UNCHANGED Abs!absVars
  <2>1. call'.op \in {"none", "identify"}
    BY <1>2, NextSlotTypes DEF IInv
  <2>2. Request' = [op |-> "none"] /\ ~Taken'
    BY <2>1 DEF Request, Taken
  <2>3. Request = [op |-> "none"] /\ ~Taken
    BY <1>2, NoRequest
  <2> QED BY <1>2, <2>2, <2>3, Stutters DEF NextSlot
<1>3. CASE Caller
  BY <1>3, CallIsAsk DEF Caller, Abs!Next
<1>4. CASE \E s \in Slots : Drive(s)
  <2>1. PICK s \in Slots : Drive(s)
    BY <1>4
  <2>2. CASE DriveStores(s)
    <3>1. /\ medium' = [medium EXCEPT ![call.slot][call.lba] = call.buf]
          /\ call.op = "write" /\ Taken
      BY <2>2, StoreFacts DEF Taken
    <3>2. Request = [op |-> "write", slot |-> call.slot, sector |-> call.lba, data |-> call.buf]
      BY <3>1 DEF Request
    <3>3. ret' = ret /\ call' = call
      BY <2>2 DEF DriveStores
    <3>4. Request' = Request /\ (Taken' <=> Taken)
      BY <3>3 DEF Request, Taken
    <3> QED BY <3>1, <3>2, <3>3, <3>4 DEF Abs!Next, Abs!Put, Taken
  <2>3. CASE DriveAsks(s) \/ DriveFails(s) \/ DriveFlushes(s)
    BY <2>3, <1>1 DEF DriveAsks, DriveFails, DriveFlushes
  <2> QED BY <2>1, <2>2, <2>3 DEF Drive
<1>5. CASE Driver
  <2>1. CASE Probe \/ SomethingThere \/ WaitBusy \/ WaitDrq \/ Flush
    BY <2>1, <1>1 DEF Probe, SomethingThere, WaitBusy, WaitDrq, Flush
  <2>2. CASE NothingThere
    BY <2>2, <1>2 DEF NothingThere, IInv, Phase
  <2>3. CASE Identified
    BY <2>3, <1>2 DEF Identified
  <2>4. CASE MoveIn \/ MoveOut
    BY <2>4, MoveIsTake DEF Abs!Next
  <2>5. CASE ReadDone
    BY <2>5, ReadIsAnswer DEF Abs!Next
  <2>6. CASE WaitErr /\ call.op = "identify"
    BY <2>6, <1>2 DEF WaitErr
  <2>7. CASE Settle \/ (WaitErr /\ call.op # "identify")
    <3>1. call.op \in {"read", "write"}
      BY <2>7 DEF Settle, WaitErr, IInv, Phase, Typed, Calls
    <3> QED BY <2>7, <3>1, EndIsAnswer DEF Abs!Next
  <2> QED BY <1>5, <2>1, <2>2, <2>3, <2>4, <2>5, <2>6, <2>7 DEF Driver
<1>6. CASE UNCHANGED vars
  BY <1>6, <1>1 DEF vars
<1> QED BY <1>3, <1>4, <1>5, <1>6 DEF Next

\* ata_read_sector gives back the sector its caller names or fails, and
\* ata_write_sector writes that sector, whole, and no other (ata.c:86-128):
\* with any number of buses and of words in a sector, with drives that take any
\* time between two looks at their status and may refuse any command.
THEOREM DiskRefined == Spec => AbsSpec
<1>1. Init => Abs!Init
  <2> SUFFICES ASSUME Init PROVE Abs!Init
    OBVIOUS
  <2>1. call.op = "identify"
    BY DEF Init, NoCall
  <2>2. Request = [op |-> "none"] /\ ~Taken
    BY <2>1, NoRequest
  <2>3. medium \in [Slots -> [Sectors -> Contents]] /\ ret = [code |-> 0, data |-> <<>>]
    BY DEF Init, Contents
  <2> QED BY <2>2, <2>3 DEF Abs!Init, Abs!NoReq, Taken, Contents
<1> QED BY <1>1, StepRefines, InvariantHolds, PTL DEF Spec, AbsSpec, Abs!Spec
================================================================================
