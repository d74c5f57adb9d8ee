---------------------------------- MODULE Disk ---------------------------------
(***************************************************************************)
(* What a driver of sector disks promises the filesystem above it: requests   *)
(* are served one at a time; a read gives back what the sector named in the    *)
(* request holds or fails; a write touches that sector only, as a whole and    *)
(* only once the drive has taken all of it, and a write that fails touched      *)
(* nothing. It does not promise that a write which succeeded is on the disk:    *)
(* Ext2.tla lets any write be lost.                                             *)
(***************************************************************************)
EXTENDS Integers

CONSTANTS
  Slots,     \* places a drive can be
  Sectors,   \* sector numbers requests name
  Contents   \* what a sector can be given

VARIABLES
  store,  \* slot -> sector -> contents
  req,    \* the request being served, or NoReq
  taken,  \* the drive has all of the write's data
  ret     \* [code, data] of the last request

absVars == <<store, req, taken, ret>>

NoReq == [op |-> "none"]

Ask == /\ req = NoReq
       /\ \E s \in Slots, n \in Sectors :
            \/ req' = [op |-> "read", slot |-> s, sector |-> n]
            \/ \E c \in Contents :
                 req' = [op |-> "write", slot |-> s, sector |-> n, data |-> c]
       /\ UNCHANGED <<store, taken, ret>>

AnswerRead(ok) ==
  /\ req.op = "read"
  /\ ret' = IF ok THEN [code |-> 0, data |-> store[req.slot][req.sector]]
                  ELSE [code |-> -1, data |-> <<>>]
  /\ req' = NoReq /\ UNCHANGED <<store, taken>>

TakeData == /\ req.op = "write" /\ ~taken /\ taken' = TRUE
            /\ UNCHANGED <<store, req, ret>>

Put == /\ taken
       /\ store' = [store EXCEPT ![req.slot][req.sector] = req.data]
       /\ UNCHANGED <<req, taken, ret>>

AnswerWrite ==
  /\ req.op = "write"
  /\ ret' = [code |-> IF taken THEN 0 ELSE -1, data |-> <<>>]
  /\ req' = NoReq /\ taken' = FALSE /\ UNCHANGED store

Init == /\ store \in [Slots -> [Sectors -> Contents]]
        /\ req = NoReq /\ taken = FALSE /\ ret = [code |-> 0, data |-> <<>>]
Next == Ask \/ (\E ok \in BOOLEAN : AnswerRead(ok)) \/ TakeData \/ Put \/ AnswerWrite
Spec == Init /\ [][Next]_absVars
================================================================================
