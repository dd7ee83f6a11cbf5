------------------------------ MODULE W5500Bus ------------------------------
(***************************************************************************)
(* How a program reaches the W5500's registers: w5500.c over tsspilib and  *)
(* one of its drivers.  A transaction lowers the chip's select line, sends *)
(* a header that names a block, an offset and a direction, moves data      *)
(* bytes, and raises the line.  The chip takes the first bytes after the   *)
(* line falls for a header and all that follow, until it rises, for data   *)
(* of that header.                                                         *)
(*                                                                         *)
(* Every transfer over USB may fail, the ones that move the select line    *)
(* too.  w5500.c drops their results: all its functions return W5500_OK.   *)
(* The chip changes some of its registers at any time.                     *)
(*                                                                         *)
(* A definition marked "Slip" is a plausible mistake in the one after it;  *)
(* no action uses it.  The properties are tried against these.             *)
(***************************************************************************)
EXTENDS Integers

CONSTANTS
    Block,           \* register blocks: common, and those of each socket
    Size,            \* registers in a block; offsets wrap at its end
    Byte,            \* values the program writes
    Noise,           \* a byte that nobody chose
    Zero, Resetting, \* 0; the mode register's 0x80
    Common,          \* the block of the mode register, which is at offset 0
    Volatile,        \* registers the chip changes by itself
    MAX_LEN          \* bound: bytes in one call

ASSUME BusAssumption ==
    /\ Size \in Nat \ {0} /\ MAX_LEN \in Nat \ {0}
    /\ Common \in Block /\ Volatile \subseteq Block \X (0 .. Size - 1)
    /\ Zero # Resetting /\ <<Common, 0>> \notin Volatile

VARIABLES
    regs,     \* the chip's registers
    slave,    \* what the chip is doing: Off, Awaiting a header, Lost half
              \* way through one, or at a position in its registers
    call,     \* the program's call, or Nothing
    stage,    \* the transfer it is at
    byte,     \* the last byte read
    device,   \* a driver is loaded (_spiDevice)
    missed,   \* history: the chip did not see the last transaction end
    spoilt    \* history: a transfer of this call failed, or the call began
              \* with the chip still in another's transaction

busVars == <<regs, slave, call, stage, byte, device, missed, spoilt>>
-----------------------------------------------------------------------------
Offset == 0 .. Size - 1
Cell == Block \X Offset
Value == Byte \cup {Noise, Zero, Resetting}
Header == [op : {"write", "read"}, block : Block, offset : Offset]
Off == [op |-> "off"]
Awaiting == [op |-> "awaiting"]
Lost == [op |-> "lost"]
ModeCell == <<Common, 0>>
Forward(offset, n) == (offset + n) % Size
CellOf(h) == <<h.block, h.offset>>
At(h, n) == [h EXCEPT !.offset = Forward(h.offset, n)]

(* A call: header of its next byte, the bytes left, and the value of those *)
(* it writes.  burst: one transaction moves them all, else each has one of *)
(* its own.                                                                *)
Call == [header : Header, left : 0 .. MAX_LEN, value : Value,
         burst : BOOLEAN, reset : BOOLEAN]
Nothing == [left |-> 0]
Active == call # Nothing
Advanced(c, n) == [c EXCEPT !.header = At(c.header, n), !.left = c.left - n]
Writes == call.header.op = "write"

(* What one transaction moves.                                             *)
Burst == IF call.burst THEN call.left ELSE 1
-----------------------------------------------------------------------------
(* A chip still in another transaction takes n bytes of a header for data. *)
TakesForData(n) ==
    /\ slave \in Header
    /\ slave' = At(slave, n)
    /\ regs' = [cell \in Cell |->
          IF slave.op = "write" /\ \E k \in 0 .. n - 1 : cell = CellOf(At(slave, k))
          THEN Noise ELSE regs[cell]]

(* A header arrives.  A chip half way through another completes it with    *)
(* these bytes.                                                            *)
HearsHeader(h) ==
    \/ slave = Awaiting /\ slave' = h /\ UNCHANGED regs
    \/ slave = Off /\ UNCHANGED <<slave, regs>>
    \/ slave = Lost /\ slave' \in Header \cup {Lost} /\ UNCHANGED regs
    \/ TakesForData(3)

(* A data byte arrives.                                                    *)
HearsByte(v) ==
    /\ slave' = IF slave \in Header THEN At(slave, 1) ELSE slave
    /\ regs' = IF slave \in Header /\ slave.op = "write"
               THEN [regs EXCEPT ![CellOf(slave)] = v] ELSE regs

(* A byte is clocked out of the chip.                                      *)
Answer == IF slave \in Header /\ slave.op = "read" THEN regs[CellOf(slave)]
          ELSE Noise
-----------------------------------------------------------------------------
BusInit ==
    /\ regs = [cell \in Cell |-> Zero]
    /\ slave = Off /\ call = Nothing /\ stage = "idle" /\ byte = Zero
    /\ device = FALSE /\ missed = FALSE /\ spoilt = FALSE

(* spi_init shuts the driver before down.  Setting up the pins raises the  *)
(* select line, unless the set-up fails.                                   *)
spi_init ==
    /\ ~Active
    /\ device' = TRUE
    /\ \/ slave' = Off /\ missed' = FALSE
       \/ UNCHANGED <<slave, missed>>
    /\ UNCHANGED <<regs, call, stage, byte, spoilt>>

spi_shutdown ==
    /\ ~Active
    /\ device' = FALSE
    /\ UNCHANGED <<regs, slave, call, stage, byte, missed, spoilt>>

Start(c) ==
    /\ ~Active
    /\ call' = c /\ stage' = "select" /\ spoilt' = missed
    /\ UNCHANGED <<regs, slave, byte, device, missed>>

(* One transaction for a buffer.  Only w5500_reset writes the mode         *)
(* register.                                                               *)
w5500_write_mult(cell, n, v) ==
    /\ \A k \in 0 .. n - 1 : <<cell[1], Forward(cell[2], k)>> # ModeCell
    /\ Start([header |-> [op |-> "write", block |-> cell[1], offset |-> cell[2]],
              left |-> n, value |-> v, burst |-> TRUE, reset |-> FALSE])
w5500_read_mult(cell, n) ==
    Start([header |-> [op |-> "read", block |-> cell[1], offset |-> cell[2]],
           left |-> n, value |-> Zero, burst |-> TRUE, reset |-> FALSE])

(* The accessors of registers of several bytes move them one by one.       *)
w5500_set(cell, n, v) ==
    /\ \A k \in 0 .. n - 1 : <<cell[1], Forward(cell[2], k)>> # ModeCell
    /\ Start([header |-> [op |-> "write", block |-> cell[1], offset |-> cell[2]],
              left |-> n, value |-> v, burst |-> FALSE, reset |-> FALSE])
w5500_get(cell, n) ==
    Start([header |-> [op |-> "read", block |-> cell[1], offset |-> cell[2]],
           left |-> n, value |-> Zero, burst |-> FALSE, reset |-> FALSE])

(* The chip is told to reset, then asked until it has.                     *)
w5500_reset ==
    Start([header |-> [op |-> "write", block |-> Common, offset |-> 0],
           left |-> 1, value |-> Resetting, burst |-> FALSE, reset |-> TRUE])
-----------------------------------------------------------------------------
(* spi_begin_trans; a chip selected already sees no edge.                  *)
SelectWorks ==
    /\ stage = "select" /\ device
    /\ slave' = IF slave = Off THEN Awaiting ELSE slave
    /\ stage' = "header"
    /\ UNCHANGED <<regs, call, byte, device, missed, spoilt>>
SelectFails ==
    /\ stage = "select"
    /\ stage' = "header" /\ spoilt' = TRUE
    /\ UNCHANGED <<regs, slave, call, byte, device, missed>>

HeaderPasses ==
    /\ stage = "header" /\ device
    /\ HearsHeader(call.header)
    /\ stage' = "data"
    /\ UNCHANGED <<call, byte, device, missed, spoilt>>

(* None or a part of the header passes.  A write sends it with the data,   *)
(* so that none of these do either; a read goes on all the same, and its   *)
(* clocks fill up the header with a block that is not there.               *)
HeaderFails ==
    /\ stage = "header"
    /\ stage' = IF Writes THEN "deselect" ELSE "data"
    /\ call' = IF Writes THEN Advanced(call, Burst) ELSE call
    /\ \/ (~Writes /\ device => slave # Awaiting) /\ UNCHANGED <<slave, regs>>
       \/ device /\ slave = Awaiting /\ slave' = Lost /\ UNCHANGED regs
       \/ device /\ \E n \in 1 .. 2 : TakesForData(n)
    /\ spoilt' = TRUE
    /\ UNCHANGED <<byte, device, missed>>

(* The transaction of an accessor ends after each byte.                    *)
AfterByte == IF call.burst /\ call.left > 1 THEN "data" ELSE "deselect"

WriteByte ==
    /\ stage = "data" /\ device /\ Writes
    /\ HearsByte(call.value)
    /\ call' = Advanced(call, 1) /\ stage' = AfterByte
    /\ UNCHANGED <<byte, device, missed, spoilt>>

ReadByte ==
    /\ stage = "data" /\ device /\ ~Writes
    /\ HearsByte(Noise)
    /\ byte' = Answer
    /\ call' = Advanced(call, 1) /\ stage' = AfterByte
    /\ UNCHANGED <<device, missed, spoilt>>

(* The rest of the bytes do not pass.  A wait for a reset set its variable *)
(* to 0 before it read it.                                                 *)
DataFails ==
    /\ stage = "data"
    /\ call' = Advanced(call, Burst) /\ stage' = "deselect"
    /\ byte' = IF call.reset THEN Zero ELSE byte
    /\ spoilt' = TRUE
    /\ UNCHANGED <<regs, slave, device, missed>>

(* The transactions to come: the accessor's next byte, or another look at  *)
(* the mode register.  A byte of noise may have the bit set, or not.       *)
Goes == \/ call.left > 0
        \/ call.reset /\ (Writes \/ byte \in {Resetting, Noise})
Ends == /\ call.left = 0
        /\ call.reset => ~Writes /\ byte # Resetting
Following ==
    IF call.left > 0 THEN call
    ELSE [call EXCEPT !.header = [op |-> "read", block |-> Common, offset |-> 0],
                      !.left = 1]
(* Slip: reset does not wait.                                              *)
NextTransactionNow ==
    IF call.left > 0 THEN call' = call /\ stage' = "select"
    ELSE call' = Nothing /\ stage' = "idle"

NextTransaction ==
    \/ Goes /\ call' = Following /\ stage' = "select"
    \/ Ends /\ call' = Nothing /\ stage' = "idle"

(* Slip: the line is left low between two bytes of an accessor.            *)
DeselectAtTheEnd ==
    /\ stage = "deselect" /\ device
    /\ slave' = IF call.left > 0 THEN slave ELSE Off
    /\ missed' = FALSE
    /\ NextTransaction
    /\ UNCHANGED <<regs, byte, device, spoilt>>

(* spi_end_trans.                                                          *)
DeselectWorks ==
    /\ stage = "deselect" /\ device
    /\ slave' = Off /\ missed' = FALSE
    /\ NextTransaction
    /\ UNCHANGED <<regs, byte, device, spoilt>>
DeselectFails ==
    /\ stage = "deselect"
    /\ missed' = (slave # Off)
    /\ spoilt' = TRUE
    /\ NextTransaction
    /\ UNCHANGED <<regs, slave, byte, device>>

(* The chip's own doing.                                                   *)
ChipChanges ==
    /\ \E cell \in Volatile, v \in Byte : regs' = [regs EXCEPT ![cell] = v]
    /\ UNCHANGED <<slave, call, stage, byte, device, missed, spoilt>>
ChipResets ==
    /\ regs[ModeCell] \in {Resetting, Noise}
    /\ regs' = [cell \in Cell |-> Zero]
    /\ UNCHANGED <<slave, call, stage, byte, device, missed, spoilt>>
-----------------------------------------------------------------------------
Transfer ==
    \/ SelectWorks \/ SelectFails \/ HeaderPasses \/ HeaderFails
    \/ WriteByte \/ ReadByte \/ DataFails \/ DeselectWorks \/ DeselectFails

BusNext ==
    \/ spi_init \/ spi_shutdown \/ w5500_reset
    \/ \E cell \in Cell, n \in 1 .. MAX_LEN :
          \/ \E v \in Byte : w5500_write_mult(cell, n, v) \/ w5500_set(cell, n, v)
          \/ w5500_read_mult(cell, n) \/ w5500_get(cell, n)
    \/ Transfer
    \/ ChipChanges \/ ChipResets

BusSpec == BusInit /\ [][BusNext]_busVars
-----------------------------------------------------------------------------
BusTypeOK ==
    /\ regs \in [Cell -> Value]
    /\ slave \in {Off, Awaiting, Lost} \cup Header
    /\ call \in Call \cup {Nothing}
    /\ stage \in {"idle", "select", "header", "data", "deselect"}
    /\ byte \in Value
    /\ device \in BOOLEAN /\ missed \in BOOLEAN /\ spoilt \in BOOLEAN

(* As long as no transfer of a call failed, and the one before was seen to *)
(* end, the chip and the program agree on the register the next byte is    *)
(* for: every byte of w5500_write_mult lands where it should and every one *)
(* read is the register's.                                                 *)
InAgreement ==
    ~spoilt => CASE stage = "select" -> slave = Off
                 [] stage = "header" -> slave = Awaiting
                 [] stage = "data" -> slave = call.header
                 [] OTHER -> TRUE

(* What the program does reaches only registers its call names for         *)
(* writing, however its transfers fail, unless the chip missed the end of  *)
(* the transaction before: then headers are taken for data.                *)
Named == { CellOf(At(call.header, n)) : n \in 0 .. call.left - 1 }
DamageStep ==
    \/ missed
    \/ \A cell \in Cell : regs'[cell] # regs[cell] =>
          Active /\ Writes /\ cell \in Named
DamageIsLocal == [][Transfer => DamageStep]_busVars

(* A reset all of whose transfers passed ends only when the chip has       *)
(* reset: no register keeps what it held before.                           *)
ResetStep ==
    Active /\ call.reset /\ ~Active' /\ ~spoilt' =>
        \A cell \in Cell \ Volatile : regs[cell] = Zero
ResetWaits == [][ResetStep]_busVars
=============================================================================
