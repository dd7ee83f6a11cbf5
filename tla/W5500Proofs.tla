---------------------------- MODULE W5500Proofs ----------------------------
(***************************************************************************)
(* Proofs about the programs' use of the chip: the access to its           *)
(* registers, for every set of blocks, every size of a block and every     *)
(* length of a transfer, and its hardware sockets, for every number of     *)
(* them.                                                                   *)
(***************************************************************************)
EXTENDS W5500Bus, W5500Sockets, TLAPS

Stages == {"idle", "select", "header", "data", "deselect"}

LEMMA ForwardStays ==
    ASSUME NEW offset \in Offset, NEW n \in Nat
    PROVE  Forward(offset, n) \in Offset
<1>1. Size \in Nat \ {0} /\ offset + n \in Nat
  BY BusAssumption DEF Offset
<1>2. (offset + n) % Size \in 0 .. Size - 1
  BY <1>1
<1> QED
  BY <1>2 DEF Forward, Offset

LEMMA ForwardNone ==
    ASSUME NEW offset \in Offset
    PROVE  Forward(offset, 0) = offset
<1>1. Size \in Nat \ {0} /\ offset \in 0 .. Size - 1
  BY BusAssumption DEF Offset
<1>2. (offset + 0) % Size = offset
  BY <1>1
<1> QED
  BY <1>2 DEF Forward

LEMMA HeaderMoves ==
    ASSUME NEW h \in Header, NEW n \in Nat
    PROVE  At(h, n) \in Header /\ At(h, n).op = h.op
<1>1. Forward(h.offset, n) \in Offset
  BY ForwardStays DEF Header
<1> QED
  BY <1>1 DEF At, Header

LEMMA HeaderStays ==
    ASSUME NEW h \in Header
    PROVE  At(h, 0) = h /\ CellOf(h) \in Cell
<1>1. Forward(h.offset, 0) = h.offset
  BY ForwardNone DEF Header
<1> QED
  BY <1>1 DEF At, Header, CellOf, Cell

(* A chip that is at a position is not off, waiting or lost.               *)
LEMMA PositionIsNone ==
    /\ Off \notin Header /\ Awaiting \notin Header /\ Lost \notin Header
    /\ Off # Awaiting /\ Off # Lost /\ Awaiting # Lost
<1>1. Off.op = "off" /\ Awaiting.op = "awaiting" /\ Lost.op = "lost"
  BY DEF Off, Awaiting, Lost
<1>2. \A h \in Header : h.op = "read" \/ h.op = "write"
  BY DEF Header
<1> QED
  BY <1>1, <1>2

LEMMA NothingIsNoCall == Nothing \notin Call
BY DEF Nothing, Call

LEMMA CallAdvances ==
    ASSUME NEW c \in Call, NEW n \in 0 .. c.left
    PROVE  /\ Advanced(c, n) \in Call
           /\ Advanced(c, n).left = c.left - n
           /\ Advanced(c, n).header = At(c.header, n)
           /\ Advanced(c, n).header.op = c.header.op
           /\ Advanced(c, n).value = c.value
           /\ Advanced(c, n).burst = c.burst
           /\ Advanced(c, n).reset = c.reset
<1>1. /\ c.header \in Header /\ c.left \in 0 .. MAX_LEN /\ n \in Nat
      /\ MAX_LEN \in Nat
  BY BusAssumption DEF Call
<1>2. At(c.header, n) \in Header /\ At(c.header, n).op = c.header.op
  BY <1>1, HeaderMoves
<1>3. c.left - n \in 0 .. MAX_LEN
  BY <1>1
<1> HIDE DEF Header
<1>4. Advanced(c, n) = [c EXCEPT !.header = At(c.header, n), !.left = c.left - n]
  BY DEF Advanced
<1> QED
  BY <1>2, <1>3, <1>4 DEF Call
-----------------------------------------------------------------------------
(* A call as a program starts it.                                          *)
StartsWith(c) ==
    /\ Start(c) /\ c \in Call /\ c.left >= 1
    /\ c.reset => /\ ~c.burst /\ c.left = 1 /\ c.value = Resetting
                  /\ c.header = [op |-> "write", block |-> Common, offset |-> 0]

AnyCall ==
    \/ w5500_reset
    \/ \E cell \in Cell, n \in 1 .. MAX_LEN :
          \/ \E v \in Byte : w5500_write_mult(cell, n, v) \/ w5500_set(cell, n, v)
          \/ w5500_read_mult(cell, n) \/ w5500_get(cell, n)

LEMMA CallFields ==
    ASSUME NEW op \in {"write", "read"}, NEW block \in Block, NEW offset \in Offset,
           NEW n \in 1 .. MAX_LEN, NEW v \in Value,
           NEW burst \in BOOLEAN, NEW reset \in BOOLEAN
    PROVE  LET h == [op |-> op, block |-> block, offset |-> offset]
               c == [header |-> h, left |-> n, value |-> v, burst |-> burst,
                     reset |-> reset]
           IN  /\ c \in Call /\ c.left = n /\ c.left >= 1 /\ c.header = h
               /\ c.value = v /\ c.burst = burst /\ c.reset = reset
<1>1. n \in 0 .. MAX_LEN /\ n >= 1
  BY BusAssumption
<1>2. [op |-> op, block |-> block, offset |-> offset] \in Header
  BY DEF Header
<1> QED
  BY <1>1, <1>2 DEF Call

LEMMA CallsStart == ASSUME AnyCall PROVE \E c \in Call : StartsWith(c)
<1>1. ASSUME NEW cell \in Cell, NEW n \in 1 .. MAX_LEN,
             \/ \E v \in Byte : w5500_write_mult(cell, n, v) \/ w5500_set(cell, n, v)
             \/ w5500_read_mult(cell, n) \/ w5500_get(cell, n)
      PROVE  \E c \in Call : StartsWith(c)
  <2>1. cell[1] \in Block /\ cell[2] \in Offset
    BY DEF Cell
  <2>2. PICK op \in {"write", "read"}, v \in Value, burst \in BOOLEAN :
           Start([header |-> [op |-> op, block |-> cell[1], offset |-> cell[2]],
                  left |-> n, value |-> v, burst |-> burst, reset |-> FALSE])
    BY <1>1 DEF w5500_write_mult, w5500_set, w5500_read_mult, w5500_get, Value
  <2>3. PICK c : c = [header |-> [op |-> op, block |-> cell[1], offset |-> cell[2]],
                      left |-> n, value |-> v, burst |-> burst, reset |-> FALSE]
    OBVIOUS
  <2>4. c \in Call /\ c.left >= 1 /\ c.reset = FALSE
    BY <2>1, <2>3, CallFields
  <2>5. Start(c)
    BY <2>2, <2>3
  <2> QED
    BY <2>4, <2>5 DEF StartsWith
<1>2. CASE w5500_reset
  <2>1. Common \in Block /\ 0 \in Offset /\ 1 \in 1 .. MAX_LEN /\ Resetting \in Value
    BY BusAssumption DEF Offset, Value
  <2>2. PICK c : c = [header |-> [op |-> "write", block |-> Common, offset |-> 0],
                      left |-> 1, value |-> Resetting, burst |-> FALSE,
                      reset |-> TRUE]
    OBVIOUS
  <2>3. /\ c \in Call /\ c.left = 1 /\ c.value = Resetting /\ c.burst = FALSE
        /\ c.header = [op |-> "write", block |-> Common, offset |-> 0]
    BY <2>1, <2>2, CallFields
  <2>4. Start(c)
    BY <1>2, <2>2 DEF w5500_reset
  <2> QED
    BY <2>3, <2>4 DEF StartsWith
<1> QED
  BY <1>1, <1>2 DEF AnyCall
-----------------------------------------------------------------------------
(* The call under way and the transfer it is at.                           *)
StageInv ==
    /\ stage = "idle" => call = Nothing
    /\ stage # "idle" => call \in Call
    /\ stage \in {"select", "header", "data"} => call.left >= 1

(* What the chip may be doing, unless it missed the end of a transaction:  *)
(* it takes nothing for data but the bytes of the call's own header.       *)
ChipInv ==
    ~missed =>
        /\ stage \in {"idle", "select"} => slave = Off
        /\ stage = "header" => slave \in {Off, Awaiting}
        /\ stage = "data" => slave \in {Off, Awaiting, Lost, call.header}

(* What it does as long as nothing failed.                                 *)
AgreementInv ==
    ~spoilt =>
        /\ stage # "idle" => ~missed
        /\ stage = "header" => slave = Awaiting
        /\ stage = "data" => slave = call.header

BusInv == BusTypeOK /\ StageInv /\ ChipInv /\ AgreementInv

LEMMA ActiveIsNotIdle == StageInv => (Active <=> stage # "idle")
BY NothingIsNoCall DEF StageInv, Active

(* The call after a transaction.                                           *)
LEMMA AfterTransaction ==
    ASSUME call \in Call, NextTransaction
    PROVE  \/ stage' = "idle" /\ call' = Nothing /\ Ends
           \/ /\ stage' = "select" /\ call' \in Call /\ call'.left >= 1
              /\ call'.reset = call.reset /\ call'.burst = call.burst
              /\ \/ call.left > 0 /\ call' = call
                 \/ /\ call.left = 0 /\ call'.left = 1
                    /\ call'.header =
                          [op |-> "read", block |-> Common, offset |-> 0]
<1>1. call.left \in 0 .. MAX_LEN /\ MAX_LEN \in Nat \ {0}
  BY BusAssumption DEF Call
<1>2. CASE Ends /\ call' = Nothing /\ stage' = "idle"
  BY <1>2
<1>3. CASE call.left > 0 /\ call' = Following /\ stage' = "select"
  BY <1>1, <1>3 DEF Following
<1>4. CASE ~(call.left > 0) /\ call' = Following /\ stage' = "select"
  <2> DEFINE h == [op |-> "read", block |-> Common, offset |-> 0]
  <2>1. h \in Header
    BY BusAssumption DEF Header, Offset
  <2>2. call' = [call EXCEPT !.header = h, !.left = 1]
    BY <1>4 DEF Following
  <2>3. 1 \in 0 .. MAX_LEN /\ call.left = 0
    BY <1>1, <1>4
  <2> HIDE DEF h
  <2>4. /\ call' \in Call /\ call'.left = 1 /\ call'.header = h
        /\ call'.reset = call.reset /\ call'.burst = call.burst
    BY <2>1, <2>2, <2>3 DEF Call
  <2> QED
    BY <1>4, <2>3, <2>4 DEF h
<1> QED
  BY <1>2, <1>3, <1>4 DEF NextTransaction

(* The registers after a byte of data.                                     *)
LEMMA ByteHeard ==
    ASSUME BusTypeOK, NEW v \in Value, HearsByte(v)
    PROVE  /\ regs' \in [Cell -> Value]
           /\ slave' \in {Off, Awaiting, Lost} \cup Header
           /\ slave' = IF slave \in Header THEN At(slave, 1) ELSE slave
           /\ slave \notin Header \/ slave.op # "write" => regs' = regs
           /\ slave \in Header => \A cell \in Cell :
                 regs'[cell] = IF slave.op = "write" /\ cell = CellOf(slave)
                               THEN v ELSE regs[cell]
<1>1. slave \in Header => At(slave, 1) \in Header /\ CellOf(slave) \in Cell
  BY HeaderMoves, HeaderStays
<1>2. regs \in [Cell -> Value] /\ slave \in {Off, Awaiting, Lost} \cup Header
  BY DEF BusTypeOK
<1> HIDE DEF Header
<1> QED
  BY <1>1, <1>2 DEF HearsByte

(* The registers after bytes of a header that the chip takes for data.     *)
LEMMA NoiseHeard ==
    ASSUME BusTypeOK, NEW n \in Nat, TakesForData(n)
    PROVE  regs' \in [Cell -> Value] /\ slave' \in Header /\ slave \in Header
<1>1. slave \in Header /\ slave' \in Header
  BY HeaderMoves DEF TakesForData
<1>2. regs' \in [Cell -> Value]
  BY DEF TakesForData, BusTypeOK, Value
<1> QED
  BY <1>1, <1>2
-----------------------------------------------------------------------------
LEMMA DriverKeeps == ASSUME BusInv, spi_init \/ spi_shutdown PROVE BusInv'
<1>1. stage = "idle" /\ stage' = "idle" /\ call' = call
  BY ActiveIsNotIdle DEF BusInv, spi_init, spi_shutdown
<1> QED
  BY <1>1 DEF BusInv, BusTypeOK, StageInv, ChipInv, AgreementInv, spi_init, spi_shutdown

LEMMA StartKeeps == ASSUME BusInv, NEW c \in Call, StartsWith(c) PROVE BusInv'
<1>1. stage = "idle"
  BY ActiveIsNotIdle DEF BusInv, StartsWith, Start
<1> QED
  BY <1>1 DEF BusInv, BusTypeOK, StageInv, ChipInv, AgreementInv, StartsWith, Start

LEMMA SelectKeeps == ASSUME BusInv, SelectWorks \/ SelectFails PROVE BusInv'
<1>1. /\ stage = "select" /\ stage' = "header"
      /\ UNCHANGED <<regs, call, byte, device, missed>>
  BY DEF SelectWorks, SelectFails
<1>2. call' \in Call /\ call'.left >= 1
  BY <1>1 DEF BusInv, StageInv
<1>3. \/ slave' = slave /\ spoilt' = TRUE
      \/ slave' = (IF slave = Off THEN Awaiting ELSE slave) /\ spoilt' = spoilt
  BY DEF SelectWorks, SelectFails
<1>4. slave' \in {Off, Awaiting, Lost} \cup Header
  BY <1>3 DEF BusInv, BusTypeOK
<1>5. BusTypeOK'
  BY <1>1, <1>2, <1>3, <1>4 DEF BusInv, BusTypeOK
<1>6. ~missed => slave = Off
  BY <1>1 DEF BusInv, ChipInv
<1>7. ~spoilt => ~missed
  BY <1>1 DEF BusInv, AgreementInv
<1>8. StageInv' /\ ChipInv' /\ AgreementInv'
  BY <1>1, <1>2, <1>3, <1>6, <1>7 DEF StageInv, ChipInv, AgreementInv
<1> QED
  BY <1>5, <1>8 DEF BusInv

LEMMA HeaderPassesKeeps == ASSUME BusInv, HeaderPasses PROVE BusInv'
<1>1. call \in Call /\ call.left >= 1 /\ call.header \in Header
  BY DEF BusInv, StageInv, HeaderPasses, Call
<1>2. /\ regs' \in [Cell -> Value]
      /\ slave' \in {Off, Awaiting, Lost} \cup Header
      /\ slave \in {Off, Awaiting} => slave' \in {Off, call.header}
      /\ slave = Awaiting => slave' = call.header
  BY <1>1, NoiseHeard, PositionIsNone DEF BusInv, BusTypeOK, HeaderPasses, HearsHeader
<1> QED
  BY <1>1, <1>2 DEF BusInv, BusTypeOK, StageInv, ChipInv, AgreementInv, HeaderPasses

LEMMA HeaderFailsKeeps == ASSUME BusInv, HeaderFails PROVE BusInv'
<1>1. call \in Call /\ call.left >= 1 /\ call.left \in 0 .. MAX_LEN /\ MAX_LEN \in Nat
  BY BusAssumption DEF BusInv, StageInv, HeaderFails, Call
<1>2. call' \in Call /\ (stage' = "data" => call'.left >= 1)
  <2>1. CASE Writes
    <3>1. Burst \in 0 .. call.left
      BY <1>1 DEF Burst
    <3> QED
      BY <1>1, <2>1, <3>1, CallAdvances DEF HeaderFails
  <2>2. CASE ~Writes
    BY <1>1, <2>2 DEF HeaderFails
  <2> QED
    BY <2>1, <2>2
<1>3. /\ regs' \in [Cell -> Value]
      /\ slave' \in {Off, Awaiting, Lost} \cup Header
      /\ slave \in {Off, Awaiting} => slave' \in {Off, Awaiting, Lost}
  BY NoiseHeard, PositionIsNone DEF BusInv, BusTypeOK, HeaderFails
<1> QED
  BY <1>1, <1>2, <1>3 DEF BusInv, BusTypeOK, StageInv, ChipInv, AgreementInv, HeaderFails

LEMMA ByteKeeps == ASSUME BusInv, WriteByte \/ ReadByte PROVE BusInv'
<1>1. /\ call \in Call /\ call.left >= 1 /\ call.left \in 0 .. MAX_LEN
      /\ MAX_LEN \in Nat /\ call.header \in Header /\ call.value \in Value
  BY BusAssumption DEF BusInv, StageInv, WriteByte, ReadByte, Call
<1>2. call' = Advanced(call, 1) /\ stage' = AfterByte
  BY DEF WriteByte, ReadByte
<1>3. /\ call' \in Call /\ call'.left = call.left - 1
      /\ call'.header = At(call.header, 1)
  BY <1>1, <1>2, CallAdvances
<1>4. PICK v \in Value : HearsByte(v)
  BY <1>1 DEF WriteByte, ReadByte, Value
<1>5. /\ regs' \in [Cell -> Value]
      /\ slave' \in {Off, Awaiting, Lost} \cup Header
      /\ slave' = IF slave \in Header THEN At(slave, 1) ELSE slave
  BY <1>4, ByteHeard DEF BusInv
<1>6. byte' \in Value
  <2>1. slave \in Header => CellOf(slave) \in Cell
    BY HeaderStays
  <2>2. Answer \in Value
    BY <2>1 DEF BusInv, BusTypeOK, Answer, Value
  <2> QED
    BY <2>2 DEF BusInv, BusTypeOK, WriteByte, ReadByte
<1>7. /\ stage' \in {"data", "deselect"} /\ stage = "data"
      /\ stage' = "data" => call'.left >= 1
      /\ UNCHANGED <<device, missed, spoilt>>
  BY <1>1, <1>2, <1>3 DEF AfterByte, WriteByte, ReadByte
<1>8. slave \in {Off, Awaiting, Lost, call.header} =>
         slave' \in {Off, Awaiting, Lost, call'.header}
  BY <1>1, <1>3, <1>5, PositionIsNone
<1>9. slave = call.header => slave' = call'.header
  BY <1>1, <1>3, <1>5
<1> QED
  BY <1>3, <1>5, <1>6, <1>7, <1>8, <1>9
     DEF BusInv, BusTypeOK, StageInv, ChipInv, AgreementInv

LEMMA DataFailsKeeps == ASSUME BusInv, DataFails PROVE BusInv'
<1>1. call \in Call /\ call.left >= 1 /\ call.left \in 0 .. MAX_LEN /\ MAX_LEN \in Nat
  BY BusAssumption DEF BusInv, StageInv, DataFails, Call
<1>2. Burst \in 0 .. call.left
  BY <1>1 DEF Burst
<1>3. call' \in Call
  BY <1>1, <1>2, CallAdvances DEF DataFails
<1> QED
  BY <1>3 DEF BusInv, BusTypeOK, StageInv, ChipInv, AgreementInv, DataFails, Value

LEMMA DeselectKeeps == ASSUME BusInv, DeselectWorks \/ DeselectFails PROVE BusInv'
<1>1. call \in Call /\ NextTransaction
  BY DEF BusInv, StageInv, DeselectWorks, DeselectFails
<1>2. \/ stage' = "idle" /\ call' = Nothing
      \/ stage' = "select" /\ call' \in Call /\ call'.left >= 1
  BY <1>1, AfterTransaction
<1>3. ~missed' => slave' = Off
  BY DEF DeselectWorks, DeselectFails
<1>4. ~spoilt' => ~missed'
  BY DEF DeselectWorks, DeselectFails
<1>5. /\ slave' \in {Off, slave} /\ UNCHANGED <<regs, byte, device>>
      /\ missed' \in BOOLEAN /\ spoilt' \in BOOLEAN
  BY DEF DeselectWorks, DeselectFails, BusInv, BusTypeOK
<1> QED
  BY <1>2, <1>3, <1>4, <1>5 DEF BusInv, BusTypeOK, StageInv, ChipInv, AgreementInv

LEMMA ChipKeeps == ASSUME BusInv, ChipChanges \/ ChipResets PROVE BusInv'
<1>1. regs' \in [Cell -> Value]
  BY DEF BusInv, BusTypeOK, ChipChanges, ChipResets, Value
<1> QED
  BY <1>1 DEF BusInv, BusTypeOK, StageInv, ChipInv, AgreementInv, ChipChanges, ChipResets

LEMMA BusInvariant == BusSpec => []BusInv
<1>1. BusInit => BusInv
  BY DEF BusInit, BusInv, BusTypeOK, StageInv, ChipInv, AgreementInv, Value
<1>2. BusInv /\ [BusNext]_busVars => BusInv'
  <2> SUFFICES ASSUME BusInv, [BusNext]_busVars PROVE BusInv'
    OBVIOUS
  <2>1. CASE AnyCall
    BY <2>1, CallsStart, StartKeeps
  <2>2. CASE Transfer
    BY <2>2, SelectKeeps, HeaderPassesKeeps, HeaderFailsKeeps, ByteKeeps,
       DataFailsKeeps, DeselectKeeps DEF Transfer
  <2>3. CASE UNCHANGED busVars
    BY <2>3 DEF BusInv, BusTypeOK, StageInv, ChipInv, AgreementInv, busVars
  <2> QED
    BY <2>1, <2>2, <2>3, DriverKeeps, ChipKeeps DEF BusNext, AnyCall
<1> QED
  BY <1>1, <1>2, PTL DEF BusSpec

(* As long as nothing failed, chip and program agree on the register the   *)
(* next byte is for.                                                       *)
THEOREM AlwaysInAgreement == BusSpec => []InAgreement
<1>1. BusInv => InAgreement
  BY DEF BusInv, ChipInv, AgreementInv, InAgreement
<1> QED
  BY <1>1, BusInvariant, PTL
-----------------------------------------------------------------------------
LEMMA NoHeaderIsTaken ==
    ASSUME BusInv, ~missed, HeaderPasses \/ HeaderFails PROVE regs' = regs
<1>1. slave \in {Off, Awaiting}
  BY DEF BusInv, ChipInv, HeaderPasses, HeaderFails
<1>2. ASSUME NEW n \in Nat PROVE ~TakesForData(n)
  BY <1>1, PositionIsNone DEF TakesForData
<1>3. 3 \in Nat /\ 1 .. 2 \subseteq Nat
  OBVIOUS
<1> QED
  BY <1>2, <1>3 DEF HeaderPasses, HeaderFails, HearsHeader

LEMMA BytesAreNamed ==
    ASSUME BusInv, ~missed, WriteByte \/ ReadByte, NEW cell \in Cell,
           regs'[cell] # regs[cell]
    PROVE  Active /\ Writes /\ cell \in Named
<1>1. stage = "data" /\ Active
  BY ActiveIsNotIdle DEF BusInv, WriteByte, ReadByte
<1>2. /\ call.left >= 1 /\ call.left \in 0 .. MAX_LEN /\ MAX_LEN \in Nat
      /\ call.header \in Header /\ call.value \in Value
  BY <1>1, BusAssumption DEF BusInv, StageInv, Call
<1>3. PICK v \in Value : HearsByte(v)
  BY <1>2 DEF WriteByte, ReadByte, Value
<1>4. slave \in Header /\ slave.op = "write" /\ cell = CellOf(slave)
  BY <1>3, ByteHeard DEF BusInv
<1>5. slave = call.header
  BY <1>1, <1>4, PositionIsNone DEF BusInv, ChipInv
<1>6. Writes
  BY <1>4, <1>5 DEF Writes
<1>7. cell = CellOf(At(call.header, 0)) /\ 0 \in 0 .. call.left - 1
  BY <1>2, <1>4, <1>5, HeaderStays
<1> QED
  BY <1>1, <1>6, <1>7 DEF Named

(* Whatever fails, only registers that the call names for writing change,  *)
(* unless the chip missed the end of the transaction before.               *)
THEOREM FailuresStayLocal == BusSpec => DamageIsLocal
<1>1. ASSUME BusInv, Transfer PROVE DamageStep
  <2> SUFFICES ASSUME ~missed, NEW cell \in Cell, regs'[cell] # regs[cell]
               PROVE  Active /\ Writes /\ cell \in Named
    BY DEF DamageStep
  <2>1. ~HeaderPasses /\ ~HeaderFails
    BY <1>1, NoHeaderIsTaken
  <2>2. WriteByte \/ ReadByte
    BY <1>1, <2>1
       DEF Transfer, SelectWorks, SelectFails, DataFails, DeselectWorks, DeselectFails
  <2> QED
    BY <1>1, <2>2, BytesAreNamed
<1>2. BusInv /\ [BusNext]_busVars => [Transfer => DamageStep]_busVars
  BY <1>1
<1> QED
  BY <1>2, BusInvariant, PTL DEF BusSpec, DamageIsLocal
-----------------------------------------------------------------------------
(* A reset: the write, then reads, of the mode register.                   *)
ResetWrite == [op |-> "write", block |-> Common, offset |-> 0]
ResetRead == [op |-> "read", block |-> Common, offset |-> 0]
HasReset == \A cell \in Cell \ Volatile : regs[cell] = Zero
Pending == regs[ModeCell] = Resetting \/ HasReset
ResetInv ==
    stage # "idle" /\ call.reset =>
        /\ ~call.burst /\ call.value = Resetting
        /\ stage \in {"select", "header", "data"} =>
              call.left = 1 /\ call.header \in {ResetWrite, ResetRead}
        /\ stage = "deselect" => call.left = 0
        /\ ~spoilt /\ (~Writes \/ stage = "deselect") => Pending
        /\ ~spoilt /\ ~Writes /\ stage = "deselect" /\ byte # Resetting => HasReset

LEMMA ModeStays == ModeCell \in Cell /\ ModeCell \notin Volatile
BY BusAssumption DEF ModeCell, Cell, Offset

LEMMA StartWaits ==
    ASSUME NEW c \in Call, StartsWith(c) PROVE ResetInv'
<1>1. call' = c /\ stage' = "select"
  BY DEF StartsWith, Start
<1>2. Writes' <=> c.header.op = "write"
  BY <1>1 DEF Writes
<1>3. c.reset => /\ ~c.burst /\ c.value = Resetting /\ c.left = 1
                 /\ c.header = ResetWrite /\ c.header.op = "write"
  BY DEF StartsWith, ResetWrite
<1> QED
  BY <1>1, <1>2, <1>3 DEF ResetInv

LEMMA QuietWaits ==
    ASSUME ResetInv, UNCHANGED <<regs, call>>, spoilt' = spoilt \/ spoilt' = TRUE,
           stage = "select" /\ stage' = "header"
    PROVE  ResetInv'
BY DEF ResetInv, Pending, HasReset, Writes

LEMMA HeaderWaits == ASSUME BusInv, ResetInv, HeaderPasses PROVE ResetInv'
<1>1. CASE ~spoilt
  <2>1. slave = Awaiting
    BY <1>1 DEF BusInv, AgreementInv, HeaderPasses
  <2>2. regs' = regs
    BY <2>1, PositionIsNone DEF HeaderPasses, HearsHeader, TakesForData
  <2> QED
    BY <2>2 DEF ResetInv, Pending, HasReset, Writes, HeaderPasses
<1>2. CASE spoilt
  BY <1>2 DEF ResetInv, HeaderPasses
<1> QED
  BY <1>1, <1>2 DEF BusInv, BusTypeOK

LEMMA SpoiltWaits == ASSUME BusInv, ResetInv, HeaderFails \/ DataFails PROVE ResetInv'
<1>1. /\ call \in Call /\ call.left >= 1 /\ call.left \in 0 .. MAX_LEN
      /\ MAX_LEN \in Nat
  BY BusAssumption DEF BusInv, StageInv, HeaderFails, DataFails, Call
<1>2. spoilt' = TRUE /\ stage # "idle" /\ stage \in {"header", "data"}
  BY DEF HeaderFails, DataFails
<1>3. \/ call' = call /\ stage' = "data"
      \/ call' = Advanced(call, Burst) /\ stage' = "deselect"
  BY DEF HeaderFails, DataFails
<1>4. Burst \in 0 .. call.left
  BY <1>1 DEF Burst
<1>5. call.reset => ~call.burst /\ call.value = Resetting /\ call.left = 1
                    /\ call.header \in {ResetWrite, ResetRead}
  BY <1>2 DEF ResetInv
<1>6. CASE call' = call /\ stage' = "data"
  BY <1>2, <1>5, <1>6 DEF ResetInv
<1>7. CASE call' = Advanced(call, Burst) /\ stage' = "deselect"
  <2>1. /\ call'.left = call.left - Burst /\ call'.reset = call.reset
        /\ call'.burst = call.burst /\ call'.value = call.value
    BY <1>1, <1>4, <1>7, CallAdvances
  <2>2. call.reset => Burst = 1
    BY <1>5 DEF Burst
  <2> QED
    BY <1>2, <1>5, <1>7, <2>1, <2>2 DEF ResetInv
<1> QED
  BY <1>3, <1>6, <1>7

LEMMA ByteWaits == ASSUME BusInv, ResetInv, WriteByte \/ ReadByte PROVE ResetInv'
<1> SUFFICES ASSUME stage' # "idle", call'.reset PROVE ResetInv'
  BY DEF ResetInv
<1>1. /\ call \in Call /\ call.left >= 1 /\ call.left \in 0 .. MAX_LEN
      /\ MAX_LEN \in Nat /\ stage = "data" /\ call.header \in Header
      /\ call.value \in Value
  BY BusAssumption DEF BusInv, StageInv, WriteByte, ReadByte, Call
<1>2. call' = Advanced(call, 1) /\ stage' = AfterByte /\ spoilt' = spoilt
  BY DEF WriteByte, ReadByte
<1>3. /\ call'.left = call.left - 1 /\ call'.reset = call.reset
      /\ call'.burst = call.burst /\ call'.value = call.value
      /\ call'.header.op = call.header.op
  <2>1. call \in Call /\ 1 \in 0 .. call.left
    BY <1>1
  <2>2. /\ Advanced(call, 1).left = call.left - 1
        /\ Advanced(call, 1).reset = call.reset
        /\ Advanced(call, 1).burst = call.burst
        /\ Advanced(call, 1).value = call.value
        /\ Advanced(call, 1).header.op = call.header.op
    BY <2>1, CallAdvances
  <2> QED
    BY <1>2, <2>2
<1>4. /\ ~call.burst /\ call.value = Resetting /\ call.left = 1
      /\ call.header \in {ResetWrite, ResetRead}
      /\ ~spoilt /\ ~Writes => Pending
  BY <1>1, <1>3 DEF ResetInv
<1>5. stage' = "deselect" /\ call'.left = 0
  BY <1>2, <1>3, <1>4 DEF AfterByte
<1>6. Writes' <=> Writes
  BY <1>3 DEF Writes
<1>7. CASE spoilt
  BY <1>2, <1>3, <1>4, <1>5, <1>7 DEF ResetInv
<1>8. CASE ~spoilt
  <2>1. slave = call.header /\ CellOf(slave) = ModeCell
    BY <1>1, <1>4, <1>8
       DEF BusInv, AgreementInv, ResetWrite, ResetRead, CellOf, ModeCell
  <2>2. CASE WriteByte
    <3>1. Writes /\ HearsByte(Resetting)
      BY <1>4, <2>2 DEF WriteByte
    <3>2. regs'[ModeCell] = Resetting
      <4>1. Resetting \in Value /\ slave.op = "write"
        BY <2>1, <3>1 DEF Value, Writes
      <4> QED
        BY <1>1, <2>1, <3>1, <4>1, ByteHeard, ModeStays DEF BusInv
    <3> QED
      BY <1>2, <1>3, <1>4, <1>5, <1>6, <3>1, <3>2 DEF ResetInv, Pending
  <2>3. CASE ReadByte
    <3>1. ~Writes /\ HearsByte(Noise) /\ byte' = Answer
      BY <2>3 DEF ReadByte
    <3>2. slave.op = "read" /\ slave \in Header
      BY <1>1, <2>1, <3>1 DEF Writes, Header
    <3>3. regs' = regs /\ byte' = regs[ModeCell]
      <4>1. Noise \in Value
        BY DEF Value
      <4> QED
        BY <2>1, <3>1, <3>2, <4>1, ByteHeard DEF BusInv, Answer
    <3>4. Pending' /\ (byte' # Resetting => HasReset')
      BY <1>4, <1>8, <3>1, <3>3 DEF Pending, HasReset
    <3> QED
      BY <1>2, <1>3, <1>4, <1>5, <3>4 DEF ResetInv
  <2> QED
    BY <2>2, <2>3
<1> QED
  BY <1>7, <1>8 DEF BusInv, BusTypeOK

LEMMA NextTransactionWaits ==
    ASSUME BusInv, ResetInv, DeselectWorks \/ DeselectFails PROVE ResetInv'
<1> SUFFICES ASSUME stage' # "idle", call'.reset PROVE ResetInv'
  BY DEF ResetInv
<1>1. stage = "deselect" /\ call \in Call /\ NextTransaction /\ regs' = regs
  BY DEF BusInv, StageInv, DeselectWorks, DeselectFails
<1>2. /\ stage' = "select" /\ call'.reset = call.reset
      /\ call'.burst = call.burst
      /\ \/ call.left > 0
         \/ call'.left = 1 /\ call'.header = ResetRead
  BY <1>1, AfterTransaction DEF ResetRead
<1>3. /\ ~call.burst /\ call.value = Resetting /\ call.left = 0
      /\ ~spoilt => Pending
  BY <1>1, <1>2 DEF ResetInv
<1>4. call' = Following
  BY <1>1, <1>2 DEF NextTransaction
<1>5. call'.value = call.value
  BY <1>1, <1>4 DEF Following, Call
<1>6. spoilt' = spoilt \/ spoilt' = TRUE
  BY DEF DeselectWorks, DeselectFails
<1>7. ~spoilt' => Pending'
  BY <1>1, <1>3, <1>6 DEF BusInv, BusTypeOK, Pending, HasReset
<1> QED
  BY <1>2, <1>3, <1>5, <1>7 DEF ResetInv

LEMMA ChipWaits == ASSUME BusInv, ResetInv, ChipChanges \/ ChipResets PROVE ResetInv'
<1>1. regs \in [Cell -> Value]
  BY DEF BusInv, BusTypeOK
<1>2. HasReset => HasReset'
  BY <1>1 DEF ChipChanges, ChipResets, HasReset
<1>3. Pending => Pending'
  BY <1>1, <1>2, ModeStays DEF ChipChanges, ChipResets, Pending, HasReset
<1> QED
  BY <1>2, <1>3 DEF ResetInv, ChipChanges, ChipResets, Writes

(* A reset whose transfers all passed ends only when the chip has reset.   *)
THEOREM ResetAlwaysWaits == BusSpec => ResetWaits
<1>1. BusInit => ResetInv
  BY DEF BusInit, ResetInv
<1>2. BusInv /\ ResetInv /\ [BusNext]_busVars => ResetInv'
  <2> SUFFICES ASSUME BusInv, ResetInv, [BusNext]_busVars PROVE ResetInv'
    OBVIOUS
  <2>1. CASE AnyCall
    BY <2>1, CallsStart, StartWaits
  <2>2. CASE SelectWorks \/ SelectFails
    BY <2>2, QuietWaits DEF SelectWorks, SelectFails
  <2>3. CASE spi_init \/ spi_shutdown
    <3>1. stage' = "idle"
      BY <2>3, ActiveIsNotIdle DEF BusInv, spi_init, spi_shutdown
    <3> QED
      BY <3>1 DEF ResetInv
  <2>4. CASE UNCHANGED busVars
    BY <2>4 DEF ResetInv, Pending, HasReset, Writes, busVars
  <2> QED
    BY <2>1, <2>2, <2>3, <2>4, HeaderWaits, SpoiltWaits, ByteWaits,
       NextTransactionWaits, ChipWaits DEF BusNext, AnyCall, Transfer
<1>3. BusInv /\ ResetInv /\ BusInv' /\ [BusNext]_busVars => [ResetStep]_busVars
  <2> SUFFICES ASSUME BusInv, ResetInv, BusInv', [BusNext]_busVars,
                      Active, call.reset, ~Active', ~spoilt'
               PROVE  HasReset
    BY DEF ResetStep, HasReset
  <2>1. stage # "idle" /\ stage' = "idle"
    BY NothingIsNoCall DEF BusInv, StageInv, Active
  <2>2. DeselectWorks \/ DeselectFails
    <3>1. ASSUME NEW c \in Call, StartsWith(c) PROVE FALSE
      BY <3>1 DEF StartsWith, Start
    <3>2. ~AnyCall
      BY <3>1, CallsStart
    <3>3. ~UNCHANGED busVars
      BY <2>1 DEF busVars
    <3>4. AfterByte # "idle"
      BY DEF AfterByte
    <3> QED
      BY <2>1, <3>2, <3>3, <3>4
         DEF BusNext, AnyCall, Transfer, spi_init, spi_shutdown, SelectWorks,
             SelectFails, HeaderPasses, HeaderFails, WriteByte, ReadByte, DataFails,
             ChipChanges, ChipResets
  <2>3. ~Writes /\ byte # Resetting /\ stage = "deselect"
    BY <2>1, <2>2 DEF DeselectWorks, DeselectFails, NextTransaction, Ends
  <2>4. ~spoilt
    BY <2>2 DEF DeselectWorks, DeselectFails, BusInv, BusTypeOK
  <2> QED
    BY <2>3, <2>4 DEF ResetInv
<1> QED
  BY <1>1, <1>2, <1>3, BusInvariant, PTL DEF BusSpec, ResetWaits
-----------------------------------------------------------------------------
USE SocketsAssumption

Tasks == {"none", "searching", "reclaiming", "opening", "listening"}

SocketsTypeOK ==
    /\ status \in [SocketNumber -> Status]
    /\ handles \in Seq(SocketNumber)
    /\ task \in Tasks
    /\ sn \in 0 .. W5500_MAX_SOCKETS
    /\ inUse \subseteq SocketNumber

(* What a create knows.  While it searches, it saw every socket before     *)
(* this one in use; while it reclaims, all of them.  The socket it is      *)
(* about to open was closed, and the chip does nothing to a closed socket  *)
(* unless told; else it saw all of them in use.                            *)
CreateKnows ==
    /\ task = "searching" => inUse = 0 .. sn - 1
    /\ task = "reclaiming" => inUse = SocketNumber
    /\ task = "opening" =>
          \/ inUse = SocketNumber
          \/ sn \in SocketNumber /\ status[sn] = "closed"

SocketsInv == SocketsTypeOK /\ CreateKnows

(* The chip leaves a closed socket alone.                                  *)
LEMMA ChipLeavesClosed == ChipMoves("closed") = {}
BY DEF ChipMoves

LEMMA ChipKeepsStatus ==
    ASSUME NEW from \in Status, NEW to \in ChipMoves(from)
    PROVE  to \in Status
BY DEF ChipMoves, Status

LEMMA SocketsTypeStep == SocketsTypeOK /\ [SocketsNext]_socketVars => SocketsTypeOK'
<1> SUFFICES ASSUME SocketsTypeOK, [SocketsNext]_socketVars PROVE SocketsTypeOK'
  OBVIOUS
<1> USE DEF SocketsTypeOK, Tasks
<1>1. CASE ChipMovesSocket
  <2>0. PICK s \in SocketNumber : \E to \in ChipMoves(status[s]) :
           status' = [status EXCEPT ![s] = to]
    BY <1>1 DEF ChipMovesSocket
  <2>1. PICK to \in ChipMoves(status[s]) : status' = [status EXCEPT ![s] = to]
    BY <2>0
  <2>2. to \in Status
    BY <2>1, ChipKeepsStatus
  <2> QED
    BY <1>1, <2>1, <2>2 DEF ChipMovesSocket
<1>2. CASE Create
  <2>1. 0 \in SocketNumber /\ SocketNumber \subseteq 0 .. W5500_MAX_SOCKETS
    BY DEF SocketNumber
  <2>2. CASE socket_create_raw
    <3>1. status' \in [SocketNumber -> {"macraw", "closed"}]
      BY <2>2 DEF socket_create_raw
    <3>2. handles' \in Seq(SocketNumber)
      BY <2>1, <2>2 DEF socket_create_raw, Handle
    <3>3. status' \in [SocketNumber -> Status]
      BY <3>1 DEF Status
    <3> QED
      BY <2>2, <3>2, <3>3 DEF socket_create_raw
  <2>3. CASE socket_create
    <3>1. /\ sn' = 0 /\ inUse' = {} /\ task' = "searching"
          /\ status' = status /\ handles' = handles
      BY <2>3 DEF socket_create
    <3>2. 0 \in 0 .. W5500_MAX_SOCKETS
      OBVIOUS
    <3> QED
      BY <3>1, <3>2
  <2>4. CASE Search
    <3>1. sn \in SocketNumber /\ sn + 1 \in 0 .. W5500_MAX_SOCKETS
      BY <2>4 DEF Search, SocketNumber
    <3>2. /\ sn' \in {sn, sn + 1} /\ inUse' \subseteq inUse \cup {sn}
          /\ task' \in {"opening", "searching"}
          /\ status' = status /\ handles' = handles
      BY <2>4 DEF Search
    <3> QED
      BY <3>1, <3>2
  <2>5. CASE SearchFails
    BY <2>5 DEF SearchFails
  <2>6. CASE Reclaim
    <3>1. status' \in [SocketNumber -> Status]
      BY <2>6 DEF Reclaim, Becomes, Status
    <3>2. /\ sn' \in 0 .. W5500_MAX_SOCKETS /\ inUse' = inUse
          /\ task' \in {"opening", "reclaiming"} /\ handles' = handles
      BY <2>6 DEF Reclaim
    <3> QED
      BY <3>1, <3>2
  <2>7. CASE Open
    <3>1. sn \in SocketNumber
      BY <2>7 DEF Open, SocketNumber
    <3> QED
      <4>1. status' \in [SocketNumber -> Status]
        BY <2>7 DEF Open, Becomes, Status
      <4>2. handles' \in Seq(SocketNumber)
        BY <2>7, <3>1 DEF Open, Handle
      <4> QED
        BY <2>7, <4>1, <4>2 DEF Open
  <2>8. CASE NoneAvailable
    BY <2>8 DEF NoneAvailable
  <2> QED
    BY <1>2, <2>2, <2>3, <2>4, <2>5, <2>6, <2>7, <2>8 DEF Create
<1>3. CASE ListenReturns
  BY <1>3 DEF ListenReturns
<1>4. ASSUME NEW h \in 1 .. Len(handles),
             \/ socket_close(h) \/ socket_connect(h)
             \/ socket_disconnect(h) \/ socket_listen(h)
      PROVE  SocketsTypeOK'
  <2>1. handles[h] \in SocketNumber
    OBVIOUS
  <2>2. CASE socket_close(h)
    BY <2>2 DEF socket_close, Becomes, Status
  <2>3. CASE socket_connect(h)
    BY <2>3 DEF socket_connect, Becomes, Status
  <2>4. CASE socket_disconnect(h)
    BY <2>4 DEF socket_disconnect, Becomes, Status
  <2>5. CASE socket_listen(h)
    BY <2>1, <2>5 DEF socket_listen, Status, SocketNumber
  <2> QED
    BY <1>4, <2>2, <2>3, <2>4, <2>5
<1>5. CASE UNCHANGED socketVars
  BY <1>5 DEF socketVars
<1> QED
  BY <1>1, <1>2, <1>3, <1>4, <1>5 DEF SocketsNext

LEMMA CreateKnowsStep ==
    SocketsInv /\ [SocketsNext]_socketVars => CreateKnows'
<1> SUFFICES ASSUME SocketsInv, [SocketsNext]_socketVars PROVE CreateKnows'
  OBVIOUS
<1> USE DEF SocketsInv, SocketsTypeOK, CreateKnows
<1>1. CASE ChipMovesSocket
  <2>0. PICK s \in SocketNumber : \E to \in ChipMoves(status[s]) :
           status' = [status EXCEPT ![s] = to]
    BY <1>1 DEF ChipMovesSocket
  <2>1. PICK to \in ChipMoves(status[s]) : status' = [status EXCEPT ![s] = to]
    BY <2>0
  <2>2. \A t \in SocketNumber : status[t] = "closed" => status'[t] = "closed"
    BY <2>1, ChipLeavesClosed
  <2> QED
    BY <1>1, <2>2 DEF ChipMovesSocket
<1>2. CASE socket_create_raw
  BY <1>2 DEF socket_create_raw, Calls
<1>3. CASE socket_create
  BY <1>3 DEF socket_create
<1>4. CASE Search
  <2>1. CASE IsFree(status[sn])
    BY <1>4, <2>1 DEF Search, IsFree, SocketNumber
  <2>2. CASE ~IsFree(status[sn])
    <3>1. /\ task' = "searching" /\ sn' = sn + 1
          /\ inUse' = (0 .. sn - 1) \cup {sn}
      BY <1>4, <2>2 DEF Search
    <3>2. 0 .. (sn + 1) - 1 = (0 .. sn - 1) \cup {sn}
      OBVIOUS
    <3> QED
      BY <3>1, <3>2
  <2> QED
    BY <2>1, <2>2
<1>5. CASE SearchFails
  BY <1>5 DEF SearchFails, SocketNumber
<1>6. CASE Reclaim
  BY <1>6 DEF Reclaim
<1>7. CASE Open \/ NoneAvailable \/ ListenReturns
  BY <1>7 DEF Open, NoneAvailable, ListenReturns
<1>8. ASSUME NEW h \in 1 .. Len(handles),
             \/ socket_close(h) \/ socket_connect(h)
             \/ socket_disconnect(h) \/ socket_listen(h)
      PROVE  CreateKnows'
  BY <1>8 DEF socket_close, socket_connect, socket_disconnect, socket_listen, Calls
<1>9. CASE UNCHANGED socketVars
  BY <1>9 DEF socketVars
<1> QED
  BY <1>1, <1>2, <1>3, <1>4, <1>5, <1>6, <1>7, <1>8, <1>9 DEF SocketsNext, Create

(* Whatever the chip does between the looks of a create, it opens a socket *)
(* that is not closed, or gives up, only after it saw every one in use.    *)
THEOREM CreateHarmsOnlyWhenFull == SocketsSpec => HarmsOnlyWhenFull
<1>1. SocketsInit => SocketsInv
  BY DEF SocketsInit, SocketsInv, SocketsTypeOK, CreateKnows, Status, Tasks
<1>2. SocketsInv /\ [SocketsNext]_socketVars => SocketsInv'
  BY SocketsTypeStep, CreateKnowsStep DEF SocketsInv
<1>3. SocketsInv /\ [SocketsNext]_socketVars =>
         [/\ Open /\ status[sn] # "closed" => inUse = SocketNumber
          /\ NoneAvailable => inUse = SocketNumber]_socketVars
  BY DEF SocketsInv, SocketsTypeOK, CreateKnows, Open, NoneAvailable, SocketNumber
<1> QED
  BY <1>1, <1>2, <1>3, PTL DEF SocketsSpec, HarmsOnlyWhenFull
=============================================================================
