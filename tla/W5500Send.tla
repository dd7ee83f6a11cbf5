----------------------------- MODULE W5500Send -----------------------------
(***************************************************************************)
(* Sending through a socket of the W5500: w5500_raw_socket_send and its    *)
(* twin socket_send (src/tssocketlib/src/tssocketlib_main.c), over         *)
(* w5500_socket_write_data.  The loop asks how much of the chip's          *)
(* transmit memory is free, writes as much as fits at the chip's write     *)
(* pointer, moves the pointer and gives the SEND command, until all is     *)
(* written.  The chip transmits, byte after byte, between any two of the   *)
(* accesses, and so between those to the two bytes of its free size.       *)
(*                                                                         *)
(* The loop is to wait for the chip's SENDOK first, but its condition is   *)
(* always false, so that it reads nothing.                                 *)
(*                                                                         *)
(* A definition marked "Slip" is a plausible mistake in the one after it;  *)
(* no action uses it.  The properties are tried against these.             *)
(***************************************************************************)
EXTENDS Integers, Sequences, SequencesExt

CONSTANTS
    Buffers,         \* what send is called with
    TX_SIZE,         \* the chip's transmit memory
    POINTERS,        \* the values of a pointer into it (65536)
    FREE_BYTE,       \* the values of a byte of the free size (256)
    MAX_SENDS        \* bound: calls of send

ASSUME SendAssumption ==
    /\ TX_SIZE \in Nat \ {0} /\ FREE_BYTE \in Nat \ {0}
    /\ POINTERS \in Nat /\ POINTERS > TX_SIZE /\ POINTERS % TX_SIZE = 0
    /\ Buffers \subseteq Seq(0 .. 255)

VARIABLES
    protocol,        \* of the socket: MACRAW, or TCP
    established,     \* the connection of a TCP socket lasts
    memory,          \* the chip's transmit memory
    wr, rd,          \* TX_WRITEPTR and TX_READPTR
    latched,         \* the write pointer of the last SEND
    upto,            \* where the packet the chip is sending ends
    packet, wire,    \* what it sent of it; the packets it sent
    step,            \* where send is
    left,            \* bytes left to send
    size,            \* the high byte of the free size, then all of it
    given,           \* history: what send was called with
    short,           \* history: a free size below what was left was read
    overlapped       \* history: SEND was given before the chip was done

hostVars == <<step, left, size, given, short>>
sendVars == <<protocol, established, memory, wr, rd, latched, upto, packet,
              wire, step, left, size, given, short, overlapped>>
-----------------------------------------------------------------------------
Between(from, to) == (to - from) % POINTERS
FreeSize == TX_SIZE - Between(rd, latched)
Written(m, from, bytes) ==
    [a \in 0 .. TX_SIZE - 1 |->
        LET n == (a - from) % TX_SIZE
        IN IF n < Len(bytes) THEN bytes[n + 1] ELSE m[a]]
Fits == IF Len(left) > size THEN size ELSE Len(left)
Pass == SubSeq(left, 1, Fits)

SendInit ==
    /\ protocol \in {"TCP", "MACRAW"} /\ established = TRUE
    /\ memory = [a \in 0 .. TX_SIZE - 1 |-> 0]
    /\ \E p \in 0 .. POINTERS - 1 :
          wr = p /\ rd = p /\ latched = p /\ upto = p
    /\ packet = <<>> /\ wire = <<>>
    /\ step = "idle" /\ left = <<>> /\ size = 0
    /\ given = <<>> /\ short = FALSE /\ overlapped = FALSE

chipVars == <<protocol, established, memory, wr, rd, latched, upto, packet,
              wire, overlapped>>

(* A call with nothing to send returns at once.                            *)
send(buf) ==
    /\ step = "idle" /\ Len(given) < MAX_SENDS /\ buf # <<>>
    /\ left' = buf /\ given' = Append(given, buf) /\ step' = "status"
    /\ UNCHANGED <<chipVars, size, short>>

(* A TCP socket that is not established ends the call with an error.       *)
CheckStatus ==
    /\ step = "status"
    /\ IF established \/ protocol = "MACRAW"
       THEN step' = "high" /\ UNCHANGED left
       ELSE step' = "idle" /\ left' = <<>>
    /\ UNCHANGED <<chipVars, size, given, short>>

(* w5500_get_socket_TX_FREESIZE, a byte at a time.                         *)
FreeHigh ==
    /\ step = "high"
    /\ size' = (FreeSize \div FREE_BYTE) * FREE_BYTE /\ step' = "low"
    /\ UNCHANGED <<chipVars, left, given, short>>

(* Slip: the loop waits until all that is left fits.                       *)
FreeLowForAll ==
    /\ step = "low"
    /\ size' = size + (FreeSize % FREE_BYTE)
    /\ step' = IF size' < Len(left) THEN "status" ELSE "data"
    /\ UNCHANGED <<chipVars, left, given, short>>

(* Nothing free: the loop begins again.                                    *)
FreeLow ==
    /\ step = "low"
    /\ size' = size + (FreeSize % FREE_BYTE)
    /\ step' = IF size' = 0 THEN "status" ELSE "data"
    /\ short' = (short \/ size' < Len(left))
    /\ UNCHANGED <<chipVars, left, given>>

(* Slip: the bytes are not cut to what is free.                            *)
WriteAll ==
    /\ step = "data"
    /\ memory' = Written(memory, wr, left)
    /\ step' = "pointer"
    /\ UNCHANGED <<protocol, established, wr, rd, latched, upto, packet, wire,
                   overlapped, left, size, given, short>>

(* The first accesses of w5500_socket_write_data.                          *)
WriteData ==
    /\ step = "data"
    /\ memory' = Written(memory, wr, Pass)
    /\ step' = "pointer"
    /\ UNCHANGED <<protocol, established, wr, rd, latched, upto, packet, wire,
                   overlapped, left, size, given, short>>

(* Its last.                                                               *)
MovePointer ==
    /\ step = "pointer"
    /\ wr' = (wr + Fits) % POINTERS
    /\ step' = "command"
    /\ UNCHANGED <<protocol, established, memory, rd, latched, upto, packet,
                   wire, overlapped, left, size, given, short>>

(* SEND.  A chip that is sending already may take the new bytes for part   *)
(* of the packet it is at, or for another.                                 *)
Command ==
    /\ step = "command"
    /\ latched' = wr
    /\ upto' \in {upto} \cup (IF upto = rd THEN {} ELSE {wr})
    /\ overlapped' = (overlapped \/ rd # latched \/ packet # <<>>)
    /\ left' = SubSeq(left, Fits + 1, Len(left))
    /\ step' = IF left' = <<>> THEN "idle" ELSE "status"
    /\ UNCHANGED <<protocol, established, memory, wr, rd, packet, wire, size,
                   given, short>>
-----------------------------------------------------------------------------
(* The chip: it begins a packet, sends its bytes, ends it; a connection    *)
(* breaks.                                                                 *)
ChipBegins ==
    /\ established /\ packet = <<>> /\ rd = upto /\ upto # latched
    /\ upto' = latched
    /\ UNCHANGED <<hostVars, protocol, established, memory, wr, rd, latched,
                   packet, wire, overlapped>>
ChipSends ==
    /\ established /\ rd # upto
    /\ packet' = Append(packet, memory[rd % TX_SIZE])
    /\ rd' = (rd + 1) % POINTERS
    /\ UNCHANGED <<hostVars, protocol, established, memory, wr, latched, upto,
                   wire, overlapped>>
ChipEnds ==
    /\ established /\ rd = upto /\ packet # <<>>
    /\ wire' = Append(wire, packet) /\ packet' = <<>>
    /\ UNCHANGED <<hostVars, protocol, established, memory, wr, rd, latched,
                   upto, overlapped>>
ChipBreaks ==
    /\ protocol = "TCP" /\ established
    /\ established' = FALSE
    /\ UNCHANGED <<hostVars, protocol, memory, wr, rd, latched, upto, packet,
                   wire, overlapped>>

Chip == ChipBegins \/ ChipSends \/ ChipEnds
Loop == CheckStatus \/ FreeHigh \/ FreeLow \/ WriteData \/ MovePointer \/ Command
SendNext == (\E buf \in Buffers : send(buf)) \/ Loop \/ Chip \/ ChipBreaks

SendSpec == SendInit /\ [][SendNext]_sendVars
(* The processor goes on with a call, the chip with what it was told to    *)
(* send.                                                                   *)
SendingSpec == SendSpec /\ WF_sendVars(Loop) /\ WF_sendVars(Chip)
-----------------------------------------------------------------------------
(* What leaves the chip is what send was given, in order, nothing missing  *)
(* or doubled and no byte overwritten before it was sent; when all is      *)
(* sent, all has left.                                                     *)
OnTheWire == FlattenSeq(wire) \o packet
StreamIntact ==
    /\ IsPrefix(OnTheWire, FlattenSeq(given))
    /\ step = "idle" /\ established /\ rd = wr => OnTheWire = FlattenSeq(given)

(* A frame leaves as one packet, whole and alone, unless a free size below *)
(* its length was read or SEND came before the chip was done.              *)
FramesWhole ==
    ~short /\ ~overlapped => \A k \in 1 .. Len(wire) : wire[k] = given[k]

SentAsGiven == StreamIntact /\ FramesWhole

(* send returns: the loop that waits for memory ends, since the chip frees *)
(* it.                                                                     *)
SendReturns == step # "idle" ~> step = "idle"
=============================================================================
