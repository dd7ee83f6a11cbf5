---------------------------- MODULE W5500Driver ----------------------------
(***************************************************************************)
(* Reception through the W5500's MACRAW socket                             *)
(* (src/tsiplib_driver_w5500/src/tsiplib_w5500_driver.c over               *)
(* w5500_raw_socket.c).  The chip appends every frame it accepts to a      *)
(* stream of bytes; recv_packet reads what the stream holds into a         *)
(* temporary buffer, cuts that into frames, queues them in a ring and      *)
(* hands out the first.  Frames arrive between any two accesses to the     *)
(* chip, and so between those to the two bytes of its size register.       *)
(*                                                                         *)
(* The ring is taken at the level of Fifo, which TsRingBuf implements: a   *)
(* sequence of at most MAX_RING_FRAMES frames.  Any push of it may fail    *)
(* for want of memory; the code's does only for a frame longer than all    *)
(* that its element held before.  Bytes are numbers, since the driver      *)
(* reads lengths from the stream wherever it believes them to be.          *)
(*                                                                         *)
(* A definition marked "Slip" is a plausible mistake in the one after it;  *)
(* no action uses it.  The properties are tried against these.             *)
(***************************************************************************)
EXTENDS Integers, Sequences, SequencesExt

CONSTANTS
    Frames,              \* the frames on the network, each seen at most once
    ETH_MAX_FRAME_LEN,
    TEMP_SIZE,           \* sizeof(temp_buffer)
    RX_SIZE,             \* the chip's receive memory
    MAX_RING_FRAMES,
    REGISTER             \* the values of a byte of the size register (256)

ASSUME FramesAssumption == \A f \in Frames : f \in Seq(0 .. 255) /\ f # <<>>
ASSUME SizesAssumption ==
    /\ ETH_MAX_FRAME_LEN \in Nat \ {0} /\ MAX_RING_FRAMES \in Nat \ {0}
    /\ TEMP_SIZE \in Nat \ {0} /\ TEMP_SIZE < 65536 /\ TEMP_SIZE % 2 = 0
    /\ REGISTER \in Nat \ {0} /\ RX_SIZE \in 0 .. REGISTER * REGISTER - 1

VARIABLES
    chip,                \* the bytes in the chip's receive memory
    phase,               \* where recv_packet is
    high,                \* the high byte of the size register, once read
    rx_bytes_available,  \* of the raw socket: the size last read from the chip
    temp_buffer,         \* the bytes read by this call, total_read of them
    offset,              \* where the next frame is cut
    ring,                \* the frames cut and not yet handed out
    arrived,             \* history: the frames the chip accepted
    handed,              \* history: the frames handed to the stack
    cut, spilled         \* history: reading stopped short of what the chip had;
                         \* bytes of a read were left when cutting stopped

recvVars == <<chip, phase, high, rx_bytes_available, temp_buffer, offset, ring>>
driverVars == <<recvVars, arrived, handed, cut, spilled>>
-----------------------------------------------------------------------------
(* What the chip puts in its memory for a frame: a length that counts its  *)
(* own two bytes, the frame, and a byte to make the whole even, as the     *)
(* driver expects.                                                         *)
Stored(f) ==
    LET n == Len(f) + 2 IN
    <<n \div 256, n % 256>> \o f \o (IF Len(f) % 2 = 1 THEN <<0>> ELSE <<>>)

(* The chip accepts a frame it has room for.                               *)
Arrive(f) ==
    /\ f \notin ToSet(arrived)
    /\ Len(chip \o Stored(f)) <= RX_SIZE
    /\ chip' = chip \o Stored(f) /\ arrived' = Append(arrived, f)
    /\ UNCHANGED <<phase, high, rx_bytes_available, temp_buffer, offset, ring,
                   handed, cut, spilled>>
-----------------------------------------------------------------------------
DriverInit ==
    /\ chip = <<>> /\ phase = "idle" /\ high = 0 /\ rx_bytes_available = 0
    /\ temp_buffer = <<>> /\ offset = 0 /\ ring = <<>>
    /\ arrived = <<>> /\ handed = <<>> /\ cut = FALSE /\ spilled = FALSE

(* Slip: the ring is emptied with its first frame.                         *)
HandOutAndClear(r) ==
    IF r = <<>> THEN UNCHANGED handed /\ ring' = r
    ELSE handed' = Append(handed, Head(r)) /\ ring' = <<>>

(* Pop a frame of r and return it; 0 when there is none.                   *)
HandOut(r) ==
    IF r = <<>> THEN UNCHANGED handed /\ ring' = r
    ELSE handed' = Append(handed, Head(r)) /\ ring' = Tail(r)

RecvFromRing ==
    /\ phase = "idle" /\ ring # <<>>
    /\ HandOut(ring)
    /\ UNCHANGED <<chip, phase, high, rx_bytes_available, temp_buffer, offset,
                   arrived, cut, spilled>>

Room == TEMP_SIZE - Len(temp_buffer)

(* With an empty ring, raw_socket->refresh: the high byte of RX_RECVSIZE.  *)
RecvFromChip ==
    /\ phase = "idle" /\ ring = <<>>
    /\ high' = Len(chip) \div REGISTER
    /\ phase' = "sizing" /\ temp_buffer' = <<>> /\ offset' = 0
    /\ UNCHANGED <<chip, rx_bytes_available, ring, arrived, handed, cut, spilled>>

(* Its low byte, by now that of another size, perhaps.  Nothing to read    *)
(* ends the reading, or the call if nothing has been read.                 *)
ReadSize ==
    /\ phase = "sizing"
    /\ rx_bytes_available' = high * REGISTER + (Len(chip) % REGISTER)
    /\ phase' = IF rx_bytes_available' > 0 /\ Room > 0 THEN "reading"
                ELSE IF temp_buffer = <<>> THEN "idle" ELSE "cutting"
    /\ cut' = (cut \/ (phase' = "cutting" /\ chip # <<>>))
    /\ UNCHANGED <<chip, high, temp_buffer, offset, ring, arrived, handed, spilled>>

to_read == IF rx_bytes_available > Room THEN Room ELSE rx_bytes_available

(* w5500_raw_socket_receive.  Torn or not, a size is never more than the   *)
(* chip holds, so its loop gets all the bytes asked for.                   *)
ReadChunk ==
    /\ phase = "reading"
    /\ temp_buffer' = temp_buffer \o SubSeq(chip, 1, to_read)
    /\ chip' = SubSeq(chip, to_read + 1, Len(chip))
    /\ phase' = "refreshing"
    /\ UNCHANGED <<high, rx_bytes_available, offset, ring, arrived, handed,
                   cut, spilled>>

(* raw_socket->refresh again.                                              *)
Refresh ==
    /\ phase = "refreshing"
    /\ high' = Len(chip) \div REGISTER /\ phase' = "sizing"
    /\ UNCHANGED <<chip, rx_bytes_available, temp_buffer, offset, ring,
                   arrived, handed, cut, spilled>>
-----------------------------------------------------------------------------
(* process_w5500_macraw_data_to_ring, a step for each round of its loop.   *)
HasHeader == offset + 2 <= Len(temp_buffer)
(* Slip: the length is taken not to count its own two bytes.               *)
FrameLenPlain == temp_buffer[offset + 1] * 256 + temp_buffer[offset + 2]

(* frame_len is a uint16_t, so a length below 2 becomes a huge one.        *)
frame_len == (temp_buffer[offset + 1] * 256 + temp_buffer[offset + 2] - 2) % 65536

(* Slip: a frame that ends the buffer is taken to be incomplete.           *)
FrameAtBefore ==
    /\ HasHeader
    /\ frame_len # 0 /\ frame_len <= ETH_MAX_FRAME_LEN
    /\ offset + 2 + frame_len < Len(temp_buffer)

FrameAt ==
    /\ HasHeader
    /\ frame_len # 0 /\ frame_len <= ETH_MAX_FRAME_LEN
    /\ offset + 2 + frame_len <= Len(temp_buffer)
(* Slip: no padding is expected.                                           *)
PastPlain(o) == o

(* The padding byte, if there may be one.                                  *)
Past(o) == IF o < Len(temp_buffer) /\ o % 2 # 0 THEN o + 1 ELSE o

ring_is_full == Len(ring) = MAX_RING_FRAMES

(* Another round of the loop: a frame, and room for it.                    *)
AnotherFrame == phase = "cutting" /\ ~ring_is_full /\ FrameAt

CutFrame ==
    /\ AnotherFrame
    /\ ring' = Append(ring, SubSeq(temp_buffer, offset + 3, offset + 2 + frame_len))
    /\ offset' = Past(offset + 2 + frame_len)
    /\ UNCHANGED <<chip, phase, high, rx_bytes_available, temp_buffer,
                   arrived, handed, cut, spilled>>

(* frame_ring->push finds room for the frame and no memory: the loop ends. *)
PushFails ==
    /\ AnotherFrame
    /\ phase' = "no_memory"
    /\ UNCHANGED <<chip, high, rx_bytes_available, temp_buffer, offset, ring,
                   arrived, handed, cut, spilled>>

(* No room, no frame or no memory: the rest of the buffer is dropped, and  *)
(* the first frame of the ring handed out.                                 *)
StopCutting ==
    /\ phase \in {"cutting", "no_memory"} /\ ~AnotherFrame
    /\ spilled' = (spilled \/ offset < Len(temp_buffer))
    /\ HandOut(ring)
    /\ phase' = "idle"
    /\ UNCHANGED <<chip, high, rx_bytes_available, temp_buffer, offset,
                   arrived, cut>>

DriverNext ==
    \/ \E f \in Frames : Arrive(f)
    \/ RecvFromRing \/ RecvFromChip \/ ReadSize \/ ReadChunk \/ Refresh
    \/ CutFrame \/ PushFails \/ StopCutting

DriverSpec == DriverInit /\ [][DriverNext]_driverVars

(* The stack goes on polling, and a call of recv_packet goes on to its end. *)
PollingSpec ==
    /\ DriverSpec
    /\ WF_driverVars(RecvFromRing) /\ WF_driverVars(RecvFromChip)
    /\ WF_driverVars(ReadSize \/ ReadChunk \/ Refresh \/ CutFrame \/ PushFails
                     \/ StopCutting)
-----------------------------------------------------------------------------
(* Everything the chip accepted is, in order, handed out, in the ring, in  *)
(* the part of the temporary buffer not yet cut, or in the chip, and the   *)
(* driver's idea of where frames begin is the chip's; unless reading       *)
(* stopped short or bytes were dropped.                                    *)
Bytes(frames) == FlattenSeq([k \in 1 .. Len(frames) |-> Stored(frames[k])])
Uncut ==
    IF phase = "idle" THEN <<>>
    ELSE SubSeq(temp_buffer, offset + 1, Len(temp_buffer))
Held == Bytes(handed \o ring) \o Uncut \o chip
NothingMissing == ~cut /\ ~spilled => Bytes(arrived) = Held

(* As long as no read stopped short, every frame handed out or queued is   *)
(* one that arrived, and they keep their order, whatever had to be dropped *)
(* for want of room or memory for the ring.                                *)
Position(f) == CHOOSE k \in 1 .. Len(arrived) : arrived[k] = f
InOrder ==
    ~cut => LET taken == handed \o ring IN
            /\ ToSet(taken) \subseteq ToSet(arrived)
            /\ \A i, j \in 1 .. Len(taken) :
                  i < j => Position(taken[i]) < Position(taken[j])

(* What is handed to the stack is an "Ethernet frame" of the chip's        *)
(* (tsiplib_w5500_driver.c:228), since "all available data" is read        *)
(* (:93).  The code stops at TEMP_SIZE bytes, or at a size that seems to   *)
(* be 0, and forgets the beginning of a frame it has not read whole.       *)
FramesAreReal == ToSet(handed) \subseteq ToSet(arrived)

(* As long as no read stopped short, no step loses a byte, or puts it out  *)
(* of its order, unless cutting stops at a full ring, at a push that found *)
(* no memory, or at a frame longer than Ethernet allows; that holds of     *)
(* every loss, after others too.                                           *)
DropsForAReason ==
    [][ (~cut' /\ ~IsPrefix(Held, Held')) =>
            \/ phase = "no_memory"
            \/ phase = "cutting" /\ ring_is_full
            \/ phase = "cutting" /\ HasHeader /\ frame_len > ETH_MAX_FRAME_LEN
      ]_driverVars

(* A frame that arrives is handed out in the end or something was dropped: *)
(* the driver never sits on a frame.                                       *)
AllHandedOut ==
    \A f \in Frames :
        f \in ToSet(arrived) ~> (f \in ToSet(handed) \/ cut \/ spilled)
=============================================================================
