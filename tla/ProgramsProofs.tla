--------------------------- MODULE ProgramsProofs ---------------------------
(***************************************************************************)
(* Proofs about the two programs on TCP sockets.                           *)
(*                                                                         *)
(* SpiDownload, for every file, every set of wrong totals and every size   *)
(* of packet numbers that can count the file's packets.  That the output   *)
(* file is a beginning of the file rests on the checksum: whatever is in   *)
(* the buffer carries a checksum that the host computed (SumInv), and the  *)
(* one that passes the client's check can only be that of the block asked  *)
(* for (PassingBlock).  That the host computes sums of no other numbers    *)
(* rests on the order of questions and answers (StepInv).                  *)
(*                                                                         *)
(* WebServer, for every size of its request buffer, any peers and whatever *)
(* a failed receive is taken for, if no more than that waits in the chip.  *)
(***************************************************************************)
EXTENDS SpiDownload, WebServer, SequenceTheorems, FiniteSetTheorems,
        WellFoundedInduction, TLAPS

L == Len(File)

(* The checksums the host computes, and that of an uninitialised buffer.   *)
Sums == {Crc(0, Zeros), Crc(0, Empty)} \cup { Crc(n, DataOf(n)) : n \in 1 .. L + 1 }
Contents == Blocks \cup {Empty, Zeros, Garbage}
GoodPacket == [num : Nat \cup {NoPacket}, total : Nat, data : Contents, crc : Sums]

SumInv == buf \in GoodPacket /\ packets \in Seq(GoodPacket)

WrittenInv ==
    /\ work \in 1 .. L + 1
    /\ written \in Seq(Blocks) /\ Len(written) = work - 1
    /\ \A k \in 1 .. work - 1 : written[k] = File[k]

(* Where the two programs are while the connection lasts, and what is      *)
(* under way between them.                                                 *)
RequestLines == <<"SENDFILE", "name", "size">>
Quiet == lines = <<>> /\ packets = <<>>
Answered(n) == lines = <<>> /\ Len(packets) = 1 /\ packets[1].num = n
StepInv ==
    link = "up" =>
        /\ pc = "start" => host = "start" /\ Quiet
        /\ pc = "header" =>
              \/ host = "start" /\ lines = RequestLines /\ packets = <<>>
              \/ host = "serving" /\ Answered(0)
        /\ pc \in {"asking", "checking", "refused", "crashed"} =>
              host = "serving" /\ Quiet
        /\ pc = "receiving" =>
              /\ host = "serving"
              /\ \/ lines = <<"sendpacket", work>> /\ packets = <<>>
                 \/ Answered(work)
        /\ pc = "done" =>
              host = "serving" /\ lines = <<"quit">> /\ packets = <<>>

ControlInv ==
    /\ pc \in Ended \cup {"start", "header", "asking", "receiving", "checking"}
    /\ host \in {"start", "serving", "ended"} /\ link \in {"up", "down"}

Inv == ControlInv /\ WrittenInv /\ SumInv /\ StepInv
-----------------------------------------------------------------------------
(* A checksum names its packet's number, as long as there are fewer        *)
(* packets than numbers.                                                   *)
LEMMA SmallNumber ==
    ASSUME NEW n \in 0 .. L + 1
    PROVE  n % WORD = n /\ n < WORD
  BY FileAssumption, NumbersAssumption, SMT DEF L

(* A block that passes the client's check is the one asked for.            *)
LEMMA PassingBlock ==
    ASSUME SumInv, work \in 1 .. L + 1,
           buf.data # Empty, buf.crc = Crc(work, buf.data)
    PROVE  work \in 1 .. L /\ buf.data = File[work]
  <1>1. work % WORD = work /\ 0 % WORD = 0
    BY SmallNumber, FileAssumption, SMT DEF L
  <1>2. buf.crc = <<work, buf.data>>
    BY <1>1 DEF Crc
  <1>3. PICK n \in 1 .. L + 1 : buf.crc = Crc(n, DataOf(n))
    BY <1>1, <1>2 DEF SumInv, GoodPacket, Sums, Crc
  <1>4. n % WORD = n
    BY SmallNumber, FileAssumption, SMT DEF L
  <1>5. n = work /\ DataOf(n) = buf.data
    BY <1>2, <1>3, <1>4 DEF Crc
  <1>6. work \in 1 .. L
    BY <1>5 DEF DataOf, L
  <1> QED BY <1>5, <1>6 DEF DataOf, L

(* Corruption and torn reads leave checksums among those computed.         *)
LEMMA SeenIsGood ==
    ASSUME NEW p \in GoodPacket
    PROVE  Seen(p) \subseteq GoodPacket
  BY NumbersAssumption DEF Seen, GoodPacket, Contents

(* The buffer left by a receive in which the connection ends.              *)
LEMMA TornIsGood ==
    ASSUME SumInv
    PROVE  Torn \subseteq GoodPacket
  <1>1. ASSUME NEW p \in GoodPacket, NEW d \in {buf.data, Garbage}
        PROVE  [p EXCEPT !.data = d] \in GoodPacket
    BY DEF SumInv, GoodPacket, Contents
  <1>2. CASE packets = <<>>
    BY <1>2 DEF Torn, SumInv
  <1>3. CASE packets # <<>>
    <2>1. Head(packets) \in GoodPacket
      BY <1>3 DEF SumInv
    <2>2. ASSUME NEW t \in Torn, t # buf
          PROVE  \E d \in {buf.data, Garbage} : t = [Head(packets) EXCEPT !.data = d]
      BY <1>3, <2>2 DEF Torn
    <2>3. ASSUME NEW t \in Torn PROVE t \in GoodPacket
      BY <1>1, <2>1, <2>2 DEF SumInv
    <2> QED BY <2>3
  <1> QED BY <1>2, <1>3

(* socket_receive leaves no checksums but the host's and the first one.    *)
LEMMA ReceivedIsGood ==
    ASSUME SumInv, Receive
    PROVE  SumInv'
  <1>1. CASE link = "up" /\ packets # <<>>
             /\ buf' \in Seen(Head(packets)) /\ packets' = Tail(packets)
    <2>1. Head(packets) \in GoodPacket /\ Tail(packets) \in Seq(GoodPacket)
      BY <1>1 DEF SumInv
    <2> QED BY <1>1, <2>1, SeenIsGood DEF SumInv
  <1>2. CASE link = "down" /\ buf' \in Torn /\ UNCHANGED packets
    BY <1>2, TornIsGood DEF SumInv
  <1> QED BY <1>1, <1>2 DEF Receive

(* What the host sends carries the checksum of the block asked for.        *)
LEMMA SentIsGood ==
    /\ SendPacketData(0, Zeros) \in GoodPacket
    /\ \A n \in 1 .. L + 1 : SendPacketData(n, DataOf(n)) \in GoodPacket
  <1>1. \A n : DataOf(n) \in Contents
    BY FileAssumption DEF DataOf, Contents
  <1>2. L \in Nat
    BY FileAssumption DEF L
  <1>3. Crc(0, Zeros) \in Sums /\ \A n \in 1 .. L + 1 : Crc(n, DataOf(n)) \in Sums
    BY DEF Sums
  <1> QED BY <1>1, <1>2, <1>3 DEF SendPacketData, GoodPacket, Contents, L
-----------------------------------------------------------------------------
(* A connection that has just been established.                            *)
LEMMA InitInv == DownloadInit => Inv
  <1> SUFFICES ASSUME DownloadInit PROVE Inv
    OBVIOUS
  <1>1. ControlInv /\ StepInv
    BY DEF DownloadInit, ControlInv, StepInv, Quiet, Ended
  <1>2. WrittenInv
    BY FileAssumption, SMT DEF DownloadInit, WrittenInv, L
  <1>3. SumInv
    <2>1. Crc(0, Empty) \in Sums
      BY DEF Sums
    <2>2. {0, NoPacket} \subseteq Nat \cup {NoPacket} /\ WrongTotals \cup {0} \subseteq Nat
      BY NumbersAssumption
    <2>3. ASSUME NEW p \in Uninitialised PROVE p \in GoodPacket
      BY <2>1, <2>2, <2>3 DEF Uninitialised, GoodPacket, Contents
    <2> QED BY <2>3 DEF DownloadInit, SumInv
  <1> QED BY <1>1, <1>2, <1>3 DEF Inv

(* The client's steps that neither receive nor check.                      *)
LEMMA ClientInv ==
    ASSUME Inv, Request \/ Ask \/ Crash \/ Finish
    PROVE  Inv'
  <1>1. WrittenInv' /\ SumInv'
    BY DEF Inv, WrittenInv, SumInv, Request, Ask, Crash, Finish
  <1>2. ControlInv'
    BY DEF Inv, ControlInv, Request, Ask, Crash, Finish, Ended
  <1>3. CASE Request
    <2>1. StepInv'
      BY <1>3 DEF Inv, StepInv, Request, Send, Quiet, RequestLines
    <2> QED BY <1>1, <1>2, <2>1 DEF Inv
  <1>4. CASE Ask
    <2>1. StepInv'
      BY <1>4 DEF Inv, StepInv, Ask, Send, Quiet
    <2> QED BY <1>1, <1>2, <2>1 DEF Inv
  <1>5. CASE Crash
    <2>1. StepInv'
      BY <1>5 DEF Inv, StepInv, Crash, Quiet
    <2> QED BY <1>1, <1>2, <2>1 DEF Inv
  <1>6. CASE Finish
    <2>1. StepInv'
      BY <1>6 DEF Inv, StepInv, Finish, Send, Quiet
    <2> QED BY <1>1, <1>2, <2>1 DEF Inv
  <1> QED BY <1>3, <1>4, <1>5, <1>6

(* Receiving the header or a packet.                                       *)
LEMMA ReceiveInv ==
    ASSUME Inv, ReceiveHeader \/ ReceivePacket
    PROVE  Inv'
  <1>1. WrittenInv'
    BY DEF Inv, WrittenInv, ReceiveHeader, ReceivePacket
  <1>2. SumInv'
    BY ReceivedIsGood DEF Inv, ReceiveHeader, ReceivePacket
  <1>3. ControlInv'
    BY DEF Inv, ControlInv, ReceiveHeader, ReceivePacket, Ended
  <1>4. ASSUME link' = "up"
        PROVE  host' = "serving" /\ Quiet'
    <2>1. /\ link = "up" /\ packets # <<>> /\ packets' = Tail(packets)
          /\ lines' = lines /\ host' = host
      BY <1>4 DEF ReceiveHeader, ReceivePacket, Receive
    <2>2. lines = <<>> /\ Len(packets) = 1 /\ host = "serving"
      BY <2>1 DEF Inv, StepInv, Answered, ReceiveHeader, ReceivePacket
    <2>3. Tail(packets) = <<>>
      BY <2>1, <2>2 DEF Inv, SumInv
    <2> QED BY <2>1, <2>2, <2>3 DEF Quiet
  <1>5. pc' \in {"asking", "refused", "checking"}
    BY DEF ReceiveHeader, ReceivePacket
  <1>6. StepInv'
    BY <1>4, <1>5 DEF StepInv
  <1> QED BY <1>1, <1>2, <1>3, <1>6 DEF Inv

(* The only step that writes: what passes is the block asked for.          *)
LEMMA CheckInv ==
    ASSUME Inv, Check
    PROVE  Inv'
  <1>1. ControlInv' /\ SumInv'
    BY DEF Inv, ControlInv, SumInv, Check
  <1>2. StepInv'
    BY DEF Inv, StepInv, Quiet, Check
  <1>3. WrittenInv'
    <2>1. CASE buf.crc = Crc(work, buf.data)
      <3>1. work \in 1 .. L /\ buf.data = File[work]
        BY <2>1, PassingBlock DEF Inv, WrittenInv, Check
      <3>2. L \in Nat /\ File[work] \in Blocks
        BY <3>1, FileAssumption DEF L
      <3>3. work' = work + 1
        <4>1. (work + 1) % WORD = work + 1
          BY <3>1, <3>2, SmallNumber, SMT
        <4> QED BY <2>1, <4>1 DEF Check
      <3>4. written' = Append(written, File[work])
        BY <2>1, <3>1 DEF Check
      <3> QED BY <3>1, <3>2, <3>3, <3>4, SMT DEF Inv, WrittenInv
    <2>2. CASE buf.crc # Crc(work, buf.data)
      BY <2>2 DEF Inv, WrittenInv, Check
    <2> QED BY <2>1, <2>2
  <1> QED BY <1>1, <1>2, <1>3 DEF Inv

(* The host's answers are to the question asked last.                      *)
LEMMA HostInv ==
    ASSUME Inv, HostStart \/ HostServes
    PROVE  Inv'
  <1>1. ControlInv' /\ WrittenInv'
    BY DEF Inv, ControlInv, WrittenInv, HostStart, HostServes, clientVars
  <1>2. CASE HostStart
    <2>1. pc = "header" /\ lines = RequestLines /\ packets = <<>>
      BY <1>2 DEF Inv, ControlInv, StepInv, HostStart, Quiet, Answered, Ended
    <2>2. /\ lines' = <<>> /\ packets' = <<SendPacketData(0, Zeros)>>
          /\ host' = "serving" /\ pc' = pc /\ buf' = buf /\ link' = link
      BY <1>2, <2>1 DEF HostStart, RequestLines, clientVars
    <2>3. SumInv'
      BY <2>2, SentIsGood DEF Inv, SumInv
    <2>4. Answered(0)'
      BY <2>2 DEF Answered, SendPacketData
    <2>5. StepInv'
      BY <2>1, <2>2, <2>4 DEF StepInv
    <2> QED BY <1>1, <2>3, <2>5 DEF Inv
  <1>3. CASE HostServes
    <2>1. pc = "receiving" /\ lines = <<"sendpacket", work>> /\ packets = <<>>
      BY <1>3 DEF Inv, ControlInv, StepInv, HostServes, Quiet, Answered, Ended
    <2>2. /\ lines' = <<>> /\ packets' = <<SendPacketData(work, DataOf(work))>>
          /\ host' = "serving" /\ pc' = pc /\ work' = work /\ buf' = buf
      BY <1>3, <2>1 DEF HostServes, clientVars
    <2>3. SumInv'
      BY <2>2, SentIsGood DEF Inv, SumInv, WrittenInv
    <2>4. Answered(work)'
      BY <2>2 DEF Answered, SendPacketData
    <2>5. StepInv'
      BY <2>1, <2>2, <2>4 DEF StepInv
    <2> QED BY <1>1, <2>3, <2>5 DEF Inv
  <1> QED BY <1>2, <1>3

(* Steps that end the connection, and stuttering.                          *)
LEMMA BreakInv ==
    ASSUME Inv, HostRefuses \/ HostTimesOut \/ HostFails \/ Break
    PROVE  Inv'
  <1>1. /\ UNCHANGED clientVars /\ packets' = packets /\ link' = "down"
        /\ host' \in {host, "ended"}
    BY DEF HostRefuses, HostTimesOut, HostFails, Break, HostEnd
  <1> QED
    BY <1>1 DEF Inv, ControlInv, WrittenInv, SumInv, StepInv, clientVars

(* Steps that change nothing.                                              *)
LEMMA StutterInv ==
    ASSUME Inv, UNCHANGED downloadVars
    PROVE  Inv'
  BY DEF Inv, ControlInv, WrittenInv, SumInv, StepInv, Quiet, Answered,
         downloadVars, clientVars

(* Every step.                                                             *)
LEMMA NextInv ==
    ASSUME Inv, [DownloadNext]_downloadVars
    PROVE  Inv'
  BY ClientInv, ReceiveInv, CheckInv, HostInv, BreakInv, StutterInv
     DEF DownloadNext, Client, Host, HostStops

(* The inductive invariant: client and host take turns, checksums are the  *)
(* host's, and what is written is the beginning of the file                *)
(* (spidl_main.c, main; SocketThread32.cs, DoSocketLoop).                  *)
THEOREM InvHolds == DownloadSpec => []Inv
  <1> QED BY InitInv, NextInv, PTL DEF DownloadSpec
-----------------------------------------------------------------------------
(* The output file is at all times a beginning of the file, in spite of    *)
(* corruption, torn reads and leftovers (spidl_main.c, main).              *)
THEOREM OutputIsPrefix == DownloadSpec => []FileIsPrefix
  <1>1. ASSUME Inv PROVE FileIsPrefix
    <2>1. /\ work \in 1 .. L + 1 /\ L \in Nat
          /\ written \in Seq(Blocks) /\ Len(written) = work - 1
          /\ \A k \in 1 .. work - 1 : written[k] = File[k]
      BY <1>1, FileAssumption DEF Inv, WrittenInv, L
    <2>2. /\ SubSeq(File, 1, work - 1) \in Seq(Blocks)
          /\ Len(SubSeq(File, 1, work - 1)) = work - 1
          /\ \A k \in 1 .. work - 1 : SubSeq(File, 1, work - 1)[k] = File[k]
      BY <2>1, FileAssumption, SMT DEF L
    <2>3. written = SubSeq(File, 1, work - 1)
      BY <2>1, <2>2, SeqEqual
    <2> QED BY <2>1, <2>3 DEF FileIsPrefix
  <1> QED BY <1>1, InvHolds, PTL

(* Client and host never wait for each other, and an answer is always to   *)
(* the question asked last (spidl_main.c, main; SocketThread32.cs,         *)
(* DoSocketLoop).                                                          *)
THEOREM ProgramsKeepInStep == DownloadSpec => []InStep
  <1>1. ASSUME Inv PROVE InStep
    <2> SUFFICES ASSUME link = "up" PROVE InStep
      BY DEF InStep
    <2>1. CASE pc = "header"
      BY <1>1, <2>1 DEF Inv, StepInv, InStep, Answered, RequestLines
    <2>2. CASE pc = "receiving"
      BY <1>1, <2>2 DEF Inv, StepInv, InStep, Answered
    <2>3. CASE pc \notin {"header", "receiving"}
      <3>1. Len(lines) < 2 /\ packets = <<>>
        BY <1>1, <2>3 DEF Inv, ControlInv, StepInv, Quiet, Ended
      <3> QED BY <2>3, <3>1 DEF InStep
    <2> QED BY <2>1, <2>2, <2>3
  <1> QED BY <1>1, InvHolds, PTL

(* A client that is done on the file's own total has asked past the last   *)
(* packet.                                                                 *)
DoneInv == pc = "done" /\ ~misled => work = L + 1

LEMMA DoneHolds == DownloadSpec => []DoneInv
  <1>1. DownloadInit => DoneInv
    BY DEF DownloadInit, DoneInv
  <1>2. Inv /\ DoneInv /\ [DownloadNext]_downloadVars => DoneInv'
    <2> SUFFICES ASSUME Inv, DoneInv, [DownloadNext]_downloadVars, pc' = "done", ~misled'
                 PROVE  work' = L' + 1
      BY DEF DoneInv
    <2>1. L' = L /\ L \in Nat
      BY FileAssumption DEF L
    <2>2. CASE Finish
      <3>1. ~(work <= buf.total) /\ buf.total = L /\ work' = work
        BY <2>2 DEF Finish, More, L
      <3>2. work \in 1 .. L + 1
        BY DEF Inv, WrittenInv
      <3> QED BY <2>1, <3>1, <3>2
    <2>3. CASE ~Finish
      <3>1. UNCHANGED <<pc, work, misled>>
        BY <2>3 DEF DownloadNext, Client, Crash, Host, HostStops, Request,
           ReceiveHeader, Ask, ReceivePacket, Check, HostStart, HostServes, HostRefuses,
           HostTimesOut, HostFails, Break, clientVars, downloadVars
      <3> QED BY <2>1, <3>1 DEF DoneInv
    <2> QED BY <2>2, <2>3
  <1> QED BY <1>1, <1>2, InvHolds, PTL DEF DownloadSpec

(* A transfer that completes on the totals the host sent has written the   *)
(* whole file (spidl_main.c, main).                                        *)
THEOREM DoneMeansWhole == DownloadSpec => []DoneIsWhole
  <1>1. ASSUME Inv, DoneInv PROVE DoneIsWhole
    <2> SUFFICES ASSUME pc = "done", ~misled PROVE written = File
      BY DEF DoneIsWhole
    <2>1. /\ work = L + 1 /\ L \in Nat /\ File \in Seq(Blocks)
          /\ written \in Seq(Blocks) /\ Len(written) = work - 1
          /\ \A k \in 1 .. work - 1 : written[k] = File[k]
      BY <1>1, FileAssumption DEF DoneInv, Inv, WrittenInv, L
    <2>2. Len(written) = Len(File) /\ \A k \in 1 .. Len(written) : written[k] = File[k]
      BY <2>1 DEF L
    <2> QED BY <2>1, <2>2, SeqEqual
  <1> QED BY <1>1, InvHolds, DoneHolds, PTL

(* The variables of the client and of the host keep to their ranges; in    *)
(* particular nothing but blocks of the host's is ever written to the      *)
(* output (spidl_main.c, main).                                            *)
THEOREM DownloadTypeCorrect == DownloadSpec => []DownloadTypeOK
  <1>1. ASSUME Inv PROVE DownloadTypeOK
    <2>1. L \in Nat /\ WORD \in Nat
      BY FileAssumption, NumbersAssumption DEF L
    <2>2. \A n \in 0 .. L + 1 : n % WORD \in 0 .. WORD - 1
      BY SmallNumber, <2>1
    <2>3. \A n : DataOf(n) \in Blocks \cup {Empty, Zeros}
      BY FileAssumption DEF DataOf
    <2>4. Sums \subseteq (0 .. WORD - 1) \X (Blocks \cup {Empty, Zeros})
      BY <2>1, <2>2, <2>3 DEF Sums, Crc
    <2>5. GoodPacket \subseteq Packet
      BY <2>4 DEF GoodPacket, Packet, Contents
    <2> QED
      BY <1>1, <2>5 DEF Inv, ControlInv, WrittenInv, SumInv, DownloadTypeOK, L
  <1> QED BY <1>1, InvHolds, PTL

-----------------------------------------------------------------------------
(* The web server.                                                         *)

LEMMA Bounds ==
    BUFFER_SIZE \in Nat \ {0} /\ SIZE_BYTE \in Nat \ {0} /\ FAILED \in Nat \ {0}
BY ServerAssumption

USE Bounds

Receiving == where \in {"receiving", "available", "available_low"}

(* A call of receive has room for all it was asked for, wanted of which is *)
(* to come; what was received, up to the part this call has stored, is the *)
(* buffer's beginning.  The high byte of a size never counts more than is  *)
(* pending, which only grows before the low byte is read.                  *)
HighFits == where = "available_low" => high * SIZE_BYTE <= Len(pending)
ServerInv ==
    /\ requestBuffer \in [0 .. BUFFER_SIZE - 1 -> Chars]
    /\ pending \in Seq(Chars) /\ received \in Seq(Chars)
    /\ fillPos \in Nat /\ available \in Nat /\ wanted \in Nat /\ high \in Nat
    /\ HighFits
    /\ Receiving => fillPos + available <= BUFFER_SIZE /\ wanted <= available
    /\ ~cutOff =>
          /\ Len(received) = fillPos + (IF Receiving THEN available - wanted ELSE 0)
          /\ Len(received) <= BUFFER_SIZE
          /\ \A i \in 1 .. Len(received) : requestBuffer[i - 1] = received[i]

(* A size read a byte at a time, from a register that grows meanwhile, is  *)
(* never more than the register's last value.                              *)
LEMMA DivMod ==
    ASSUME NEW n \in Nat
    PROVE  /\ n \div SIZE_BYTE \in Nat /\ n % SIZE_BYTE \in 0 .. SIZE_BYTE - 1
           /\ n = SIZE_BYTE * (n \div SIZE_BYTE) + (n % SIZE_BYTE)
OBVIOUS

LEMMA TornSizeIsSmall ==
    ASSUME NEW h \in Nat, NEW n \in Nat, h * SIZE_BYTE <= n
    PROVE  h * SIZE_BYTE + (n % SIZE_BYTE) \in 0 .. n
<1> DEFINE q == n \div SIZE_BYTE
           r == n % SIZE_BYTE
<1>1. q \in Nat /\ r \in 0 .. SIZE_BYTE - 1 /\ n = SIZE_BYTE * q + r
  BY DivMod
<1> HIDE DEF q, r
<1>2. /\ h * SIZE_BYTE \in Nat /\ SIZE_BYTE * q \in Nat
      /\ SIZE_BYTE * (q + 1) = SIZE_BYTE * q + SIZE_BYTE
  BY <1>1
<1>3. ASSUME h >= q + 1 PROVE FALSE
  <2>1. h * SIZE_BYTE >= SIZE_BYTE * (q + 1)
    BY <1>1, <1>3
  <2> QED
    BY <1>1, <1>2, <2>1
<1>4. h * SIZE_BYTE <= SIZE_BYTE * q
  BY <1>1, <1>3
<1>5. h * SIZE_BYTE + r \in 0 .. n
  BY <1>1, <1>2, <1>4
<1> QED
  BY <1>5 DEF r
-----------------------------------------------------------------------------
LEMMA InitServer == ServerInit => ServerInv
BY DEF ServerInit, ServerInv, HighFits, Receiving, Chars

(* The peer only adds to what is pending.                                  *)
LEMMA PeerKeeps ==
    ASSUME ServerInv, PeerConnects \/ PeerSends \/ PeerCloses
    PROVE  ServerInv'
<1>1. /\ UNCHANGED <<where, requestBuffer, fillPos, received, cutOff,
                     available, wanted, high>>
      /\ pending' = pending \/ \E c \in Chars : pending' = Append(pending, c)
  BY DEF PeerConnects, PeerSends, PeerCloses, bufferVars, readingVars
<1>2. pending \in Seq(Chars) /\ Len(pending) \in Nat /\ HighFits /\ high \in Nat
  BY DEF ServerInv
<1>3. pending' \in Seq(Chars) /\ Len(pending') \in Nat /\ Len(pending) <= Len(pending')
  BY <1>1, <1>2
<1> QED
  BY <1>1, <1>2, <1>3 DEF ServerInv, HighFits, Receiving

(* The server, outside a call of receive and as it begins one.             *)
LEMMA RefreshKeeps ==
    ASSUME ServerInv, Accept \/ RefreshStatus \/ RefreshHigh \/ RefreshLow
    PROVE  ServerInv'
<1>1. CASE Accept \/ RefreshStatus
  <2>1. /\ where \in {"listening", "status"} /\ where' \in {"status", "size", "closing"}
        /\ UNCHANGED <<requestBuffer, fillPos, received, cutOff, readingVars, pending>>
    BY <1>1 DEF Accept, RefreshStatus, Goes, bufferVars, chipVarsOfServer
  <2> QED
    BY <2>1 DEF ServerInv, HighFits, Receiving, readingVars
<1>2. CASE RefreshHigh
  <2>1. /\ where = "size" /\ where' = "size_low"
        /\ UNCHANGED <<requestBuffer, fillPos, received, cutOff, wanted, high, pending>>
        /\ available' = Len(pending) \div SIZE_BYTE
    BY <1>2 DEF RefreshHigh, Goes, bufferVars, chipVarsOfServer
  <2>2. available' \in Nat
    <3>1. Len(pending) \in Nat
      BY DEF ServerInv
    <3> QED
      BY <2>1, <3>1, DivMod
  <2> QED
    BY <2>1, <2>2 DEF ServerInv, HighFits, Receiving
<1>3. CASE RefreshLow
  <2> DEFINE n == available * SIZE_BYTE + (Len(pending) % SIZE_BYTE)
  <2>1. /\ available' = n /\ wanted' = n /\ where = "size_low"
        /\ \/ where' \in {"parsing", "status"}
           \/ where' = "receiving" /\ fillPos + n <= BUFFER_SIZE
        /\ UNCHANGED <<requestBuffer, fillPos, received, cutOff, high, pending>>
    BY <1>3 DEF RefreshLow, Goes, HasRoom, bufferVars, chipVarsOfServer
  <2>2. n \in Nat
    <3>1. Len(pending) \in Nat /\ available \in Nat
      BY DEF ServerInv
    <3>2. Len(pending) % SIZE_BYTE \in Nat
      BY <3>1, DivMod
    <3>3. available * SIZE_BYTE \in Nat
      BY <3>1
    <3> QED
      BY <3>2, <3>3
  <2> HIDE DEF n
  <2> QED
    BY <2>1, <2>2 DEF ServerInv, HighFits, Receiving
<1> QED
  BY <1>1, <1>2, <1>3

LEMMA ReceiveKeeps ==
    ASSUME ServerInv, ReceiveStatus \/ ReceiveHigh
    PROVE  ServerInv'
<1>1. CASE ReceiveStatus
  <2>1. /\ where = "receiving" /\ UNCHANGED <<requestBuffer, received, readingVars, pending>>
        /\ \/ where' = "available" /\ UNCHANGED <<fillPos, cutOff>>
           \/ where' = "parsing" /\ fillPos' = fillPos + FAILED /\ cutOff' = TRUE
    BY <1>1 DEF ReceiveStatus, chipVarsOfServer
  <2>2. fillPos \in Nat /\ fillPos + FAILED \in Nat
    BY DEF ServerInv
  <2> QED
    BY <2>1, <2>2 DEF ServerInv, HighFits, Receiving, readingVars
<1>2. CASE ReceiveHigh
  <2>1. /\ where = "available" /\ where' = "available_low"
        /\ UNCHANGED <<requestBuffer, fillPos, received, cutOff, available, wanted, pending>>
        /\ high' = Len(pending) \div SIZE_BYTE
    BY <1>2 DEF ReceiveHigh, Goes, bufferVars, chipVarsOfServer
  <2>2. high' \in Nat /\ high' * SIZE_BYTE <= Len(pending)
    <3> DEFINE q == Len(pending) \div SIZE_BYTE
               r == Len(pending) % SIZE_BYTE
    <3>1. Len(pending) \in Nat
      BY DEF ServerInv
    <3>2. q \in Nat /\ r \in 0 .. SIZE_BYTE - 1 /\ Len(pending) = SIZE_BYTE * q + r
      BY <3>1, DivMod
    <3>3. high' = q
      BY <2>1
    <3> HIDE DEF q, r
    <3>4. SIZE_BYTE * q \in Nat /\ q * SIZE_BYTE = SIZE_BYTE * q
      BY <3>2
    <3> QED
      BY <3>1, <3>2, <3>3, <3>4
  <2> QED
    BY <2>1, <2>2 DEF ServerInv, HighFits, Receiving
<1> QED
  BY <1>1, <1>2

LEMMA DataKeeps ==
    ASSUME ServerInv, ReceiveData
    PROVE  ServerInv'
<1> DEFINE size == high * SIZE_BYTE + (Len(pending) % SIZE_BYTE)
           n == IF size > wanted THEN wanted ELSE size
           bufpos == fillPos + available - wanted
           data == SubSeq(pending, 1, n)
<1>1. size \in 0 .. Len(pending)
  <2>1. /\ high \in Nat /\ Len(pending) \in Nat /\ high * SIZE_BYTE <= Len(pending)
    BY DEF ServerInv, HighFits, ReceiveData
  <2> QED
    BY <2>1, TornSizeIsSmall
<1>2. /\ fillPos \in Nat /\ available \in Nat /\ wanted \in Nat
      /\ fillPos + available <= BUFFER_SIZE /\ wanted <= available
      /\ pending \in Seq(Chars) /\ received \in Seq(Chars)
      /\ where = "available_low"
  BY DEF ServerInv, ReceiveData, Receiving
<1> HIDE DEF size
<1>3. n \in 0 .. wanted /\ n <= Len(pending) /\ bufpos \in Nat
      /\ bufpos + wanted = fillPos + available
  BY <1>1, <1>2
<1>4. /\ requestBuffer' = Stored(n)
      /\ received' = received \o data
      /\ pending' = SubSeq(pending, n + 1, Len(pending))
      /\ wanted' = wanted - n
      /\ IF wanted' = 0
         THEN where' = "parsing" /\ fillPos' = fillPos + available
         ELSE where' = "receiving" /\ UNCHANGED fillPos
      /\ UNCHANGED <<cutOff, available, high>>
  BY DEF ReceiveData, size
<1> HIDE DEF n
<1>5. /\ data \in Seq(Chars) /\ Len(data) = n
      /\ \A i \in 1 .. n : data[i] = pending[i] /\ pending[i] \in Chars
  BY <1>2, <1>3
<1>6. pending' \in Seq(Chars)
  BY <1>2, <1>3, <1>4
<1>7. /\ requestBuffer' \in [0 .. BUFFER_SIZE - 1 -> Chars]
      /\ \A i \in 0 .. BUFFER_SIZE - 1 :
            requestBuffer'[i] = IF i \in bufpos .. bufpos + n - 1
                                THEN pending[i - bufpos + 1] ELSE requestBuffer[i]
  <2>1. requestBuffer \in [0 .. BUFFER_SIZE - 1 -> Chars]
    BY DEF ServerInv
  <2>2. requestBuffer' = [i \in 0 .. BUFFER_SIZE - 1 |->
           IF i \in bufpos .. bufpos + n - 1
           THEN pending[i - bufpos + 1] ELSE requestBuffer[i]]
    BY <1>4, <2>1 DEF Stored
  <2>3. \A i \in bufpos .. bufpos + n - 1 : i - bufpos + 1 \in 1 .. n
    BY <1>3
  <2> QED
    BY <1>5, <2>1, <2>2, <2>3
<1> HIDE DEF data
<1>8. /\ received' \in Seq(Chars) /\ Len(received') = Len(received) + n
      /\ \A i \in 1 .. Len(received') :
            received'[i] = IF i <= Len(received) THEN received[i]
                           ELSE data[i - Len(received)]
  <2>1. /\ received \o data \in Seq(Chars)
        /\ Len(received \o data) = Len(received) + Len(data)
    BY <1>2, <1>5, ConcatProperties, Zenon
  <2>2. \A i \in 1 .. Len(received) + Len(data) :
           (received \o data)[i] = IF i <= Len(received) THEN received[i]
                                   ELSE data[i - Len(received)]
    BY <1>2, <1>5, ConcatProperties, Zenon
  <2> QED
    BY <1>4, <1>5, <2>1, <2>2
<1>9. ASSUME ~cutOff
      PROVE  /\ Len(received) = bufpos /\ Len(received') = bufpos + n
             /\ \A i \in 1 .. Len(received') : requestBuffer'[i - 1] = received'[i]
  <2>1. Len(received) = bufpos
    BY <1>2, <1>9 DEF ServerInv, Receiving
  <2>2. \A i \in 1 .. Len(received) : requestBuffer[i - 1] = received[i]
    BY <1>9 DEF ServerInv
  <2>3. ASSUME NEW i \in 1 .. Len(received')
        PROVE  requestBuffer'[i - 1] = received'[i]
    <3>1. i \in 1 .. bufpos + n /\ i - 1 \in 0 .. BUFFER_SIZE - 1
      BY <1>2, <1>3, <1>8, <2>1, <2>3
    <3>2. CASE i <= bufpos
      <4>1. i \in 1 .. Len(received) /\ i - 1 \notin bufpos .. bufpos + n - 1
        BY <1>3, <2>1, <3>1, <3>2
      <4> QED
        BY <1>7, <1>8, <2>1, <2>2, <2>3, <3>1, <3>2, <4>1
    <3>3. CASE ~(i <= bufpos)
      <4>1. /\ i - 1 \in bufpos .. bufpos + n - 1 /\ i - bufpos \in 1 .. n
            /\ (i - 1) - bufpos + 1 = i - bufpos
        BY <1>3, <3>1, <3>3
      <4>2. requestBuffer'[i - 1] = pending[i - bufpos]
        BY <1>7, <3>1, <4>1
      <4> QED
        BY <1>5, <1>8, <2>1, <2>3, <3>3, <4>1, <4>2
    <3> QED
      BY <3>2, <3>3
  <2> QED
    BY <1>8, <2>1, <2>3
<1>10. /\ wanted' \in Nat /\ wanted' <= available /\ fillPos' \in Nat
       /\ bufpos + n <= BUFFER_SIZE
       /\ bufpos + n = fillPos' + (IF where' = "receiving"
                                   THEN available - wanted' ELSE 0)
  BY <1>2, <1>3, <1>4
<1> HIDE DEF bufpos
<1> QED
  BY <1>2, <1>4, <1>6, <1>7, <1>8, <1>9, <1>10 DEF ServerInv, HighFits, Receiving

LEMMA RestKeeps ==
    ASSUME ServerInv, SkipNull \/ NoLine \/ TakeLine \/ Answer \/ Reopen
    PROVE  ServerInv'
<1>1. /\ where \in {"parsing", "answering", "closing"}
      /\ where' \in {"status", "answering", "closing", "listening"}
      /\ UNCHANGED <<requestBuffer, fillPos, received, cutOff, readingVars>>
      /\ pending' \in {pending, <<>>}
  BY DEF SkipNull, NoLine, TakeLine, Answer, Reopen, Goes, bufferVars,
     chipVarsOfServer
<1>2. pending' \in Seq(Chars)
  BY <1>1 DEF ServerInv
<1> QED
  BY <1>1, <1>2 DEF ServerInv, HighFits, Receiving, readingVars

(* What was received lies in the buffer, as it came.                       *)
THEOREM StreamStaysInBuffer == ServerSpec => []StreamInBuffer
<1>1. ServerInv /\ [ServerNext]_serverVars => ServerInv'
  <2> SUFFICES ASSUME ServerInv, [ServerNext]_serverVars PROVE ServerInv'
    OBVIOUS
  <2>1. CASE UNCHANGED serverVars
    BY <2>1 DEF serverVars, bufferVars, readingVars, chipVarsOfServer,
       ServerInv, HighFits, Receiving
  <2> QED
    BY <2>1, PeerKeeps, RefreshKeeps, ReceiveKeeps, DataKeeps, RestKeeps
    DEF ServerNext, Server, Handle
<1>2. ServerInv => StreamInBuffer
  BY DEF ServerInv, StreamInBuffer, Receiving
<1> QED
  BY <1>1, <1>2, InitServer, PTL DEF ServerSpec
-----------------------------------------------------------------------------
(* The reader.  Every cell that nothing was stored in is a NUL: those      *)
(* behind the filled part, because no receive stores more than a failed    *)
(* one counts.  The reader stands at the beginning of a line in the filled *)
(* part, and has answered the short lines before it, until it was led out  *)
(* of the buffer.                                                          *)
Filled == fillPos + (IF Receiving THEN available - wanted ELSE 0)
ReaderInv ==
    /\ readPos \in Nat /\ answers \in Nat
    /\ Len(pending) <= SOCKET_MEMORY
    /\ where = "size_low" => available * SIZE_BYTE <= Len(pending)
    /\ Receiving => available <= SOCKET_MEMORY
    /\ \A i \in Filled .. BUFFER_SIZE - 1 : requestBuffer[i] = "nul"
    /\ readPos <= BUFFER_SIZE =>
          /\ readPos <= fillPos /\ LineBegins(readPos)
          /\ answers = Cardinality(ShortLines)

LEMMA MemoryIsSmall == SOCKET_MEMORY \in Nat \ {0} /\ SOCKET_MEMORY <= FAILED
BY ServerAssumption

(* The least number, of which a search from below finds the first.         *)
LEMMA LeastNumber ==
    ASSUME NEW S, S \subseteq Nat, S # {}
    PROVE  \E x \in S : \A y \in S : x <= y
<1> DEFINE R == { ss \in Nat \X Nat : ss[1] < ss[2] }
<1>1. IsWellFoundedOn(R, Nat)
  BY NatLessThanWellFounded, Zenon DEF OpToRel
<1> HIDE DEF R
<1>2. PICK x \in S : \A y \in S : ~ (<<y, x>> \in R)
  BY <1>1, WFMin, Zenon
<1>3. \A y \in S : ~ (y < x)
  BY <1>2 DEF R
<1> QED
  BY <1>3

(* The loop that looks for the end of a line stops, at the first place     *)
(* where it may.                                                           *)
LEMMA LineEndIsFirst ==
    ASSUME NEW behind \in Chars, readPos \in Nat
    PROVE  /\ LineEnd(behind) \in readPos .. readPos + BUFFER_SIZE
           /\ Stops(LineEnd(behind), behind)
           /\ \A j \in readPos .. LineEnd(behind) - 1 : ~Stops(j, behind)
<1> DEFINE S == { i \in readPos .. readPos + BUFFER_SIZE : Stops(i, behind) }
           Ends(i) == Stops(i, behind) /\ \A j \in readPos .. i - 1 : ~Stops(j, behind)
<1>1. readPos + BUFFER_SIZE \in S
  BY DEF Stops
<1>2. PICK x \in S : \A y \in S : x <= y
  <2>1. S \subseteq Nat /\ S # {}
    BY <1>1
  <2> HIDE DEF S
  <2> QED
    BY <2>1, LeastNumber
<1>3. x \in readPos .. readPos + BUFFER_SIZE
  OBVIOUS
<1>4. \A j \in readPos .. x - 1 : j \in readPos .. readPos + BUFFER_SIZE /\ ~(x <= j)
  BY <1>3
<1>5. Ends(x)
  BY <1>2, <1>4
<1>6. LineEnd(behind) = CHOOSE i \in readPos .. readPos + BUFFER_SIZE : Ends(i)
  BY DEF LineEnd
<1> HIDE DEF Ends
<1>7. LineEnd(behind) \in readPos .. readPos + BUFFER_SIZE /\ Ends(LineEnd(behind))
  BY <1>3, <1>5, <1>6, Zenon
<1> QED
  BY <1>7 DEF Ends

(* What the reader has parsed does not depend on the cells behind it.      *)
LEMMA ParsedStays ==
    ASSUME ServerInv, ServerInv', readPos' = readPos, answers' = answers,
           readPos \in Nat, readPos <= BUFFER_SIZE, fillPos' >= fillPos,
           \A i \in 0 .. readPos - 1 : requestBuffer'[i] = requestBuffer[i],
           readPos <= fillPos, LineBegins(readPos), answers = Cardinality(ShortLines)
    PROVE  /\ readPos' <= fillPos' /\ LineBegins(readPos)'
           /\ answers' = Cardinality(ShortLines)'
<1>1. /\ DOMAIN requestBuffer = 0 .. BUFFER_SIZE - 1
      /\ DOMAIN requestBuffer' = 0 .. BUFFER_SIZE - 1
      /\ fillPos \in Nat /\ fillPos' \in Nat
  BY DEF ServerInv
<1>2. ShortLines' = ShortLines
  <2>1. ASSUME NEW i \in 0 .. BUFFER_SIZE - 1, i + 1 < readPos
        PROVE  /\ LineBegins(i)' <=> LineBegins(i)
               /\ requestBuffer'[i] = requestBuffer[i]
               /\ requestBuffer'[i + 1] = requestBuffer[i + 1]
    <3>1. i \in 0 .. readPos - 1 /\ i + 1 \in 0 .. readPos - 1
      BY <2>1
    <3>2. i # 0 => i - 1 \in 0 .. readPos - 1
      BY <2>1
    <3> QED
      BY <3>1, <3>2 DEF LineBegins
  <2> QED
    BY <1>1, <2>1 DEF ShortLines
<1>3. LineBegins(readPos)'
  <2>1. readPos # 0 => readPos - 1 \in 0 .. readPos - 1
    OBVIOUS
  <2> QED
    BY <2>1 DEF LineBegins
<1> QED
  BY <1>1, <1>2, <1>3

LEMMA InitReader == ServerInit => ReaderInv
<1> SUFFICES ASSUME ServerInit PROVE ReaderInv
  OBVIOUS
<1>1. ShortLines = {}
  BY DEF ServerInit, ShortLines
<1>2. Cardinality(ShortLines) = 0
  BY <1>1, FS_EmptySet
<1>3. LineBegins(0)
  BY DEF LineBegins
<1> QED
  BY <1>2, <1>3, MemoryIsSmall DEF ServerInit, ReaderInv, Receiving, Filled

(* Every step but the reader's leaves the parsed part as it is.            *)
ParsedKept ==
    /\ readPos' = readPos /\ answers' = answers /\ fillPos' >= fillPos
    /\ \A i \in 0 .. readPos - 1 : i < fillPos => requestBuffer'[i] = requestBuffer[i]

LEMMA KeptIsEnough ==
    ASSUME ServerInv, ServerInv', ReaderInv, ParsedKept,
           Len(pending') <= SOCKET_MEMORY,
           where' = "size_low" => available' * SIZE_BYTE <= Len(pending'),
           Receiving' => available' <= SOCKET_MEMORY,
           \A i \in Filled' .. BUFFER_SIZE - 1 : requestBuffer'[i] = "nul"
    PROVE  ReaderInv'
<1>1. readPos \in Nat /\ answers \in Nat /\ fillPos \in Nat
  BY DEF ServerInv, ReaderInv
<1>2. ASSUME readPos' <= BUFFER_SIZE
      PROVE  /\ readPos' <= fillPos' /\ LineBegins(readPos)'
             /\ answers' = Cardinality(ShortLines)'
  <2>1. /\ readPos <= BUFFER_SIZE /\ readPos <= fillPos /\ LineBegins(readPos)
        /\ answers = Cardinality(ShortLines)
    BY <1>2 DEF ReaderInv, ParsedKept
  <2>2. \A i \in 0 .. readPos - 1 : requestBuffer'[i] = requestBuffer[i]
    BY <1>1, <2>1 DEF ParsedKept
  <2> QED
    BY <1>1, <2>1, <2>2, ParsedStays DEF ParsedKept
<1> QED
  BY <1>1, <1>2 DEF ReaderInv, ParsedKept

LEMMA PeerLeavesReader ==
    ASSUME ServerInv, ServerInv', ReaderInv, PeerConnects \/ PeerSends \/ PeerCloses
    PROVE  ReaderInv'
<1>1. /\ UNCHANGED <<where, requestBuffer, fillPos, readPos, answers, available, wanted>>
      /\ \/ pending' = pending
         \/ Len(pending) < SOCKET_MEMORY /\ \E c \in Chars : pending' = Append(pending, c)
  BY DEF PeerConnects, PeerSends, PeerCloses, bufferVars, readingVars
<1>2. pending \in Seq(Chars) /\ Len(pending) \in Nat /\ available \in Nat
      /\ fillPos \in Nat /\ Len(pending) <= SOCKET_MEMORY
  BY DEF ServerInv, ReaderInv
<1>3. Len(pending') \in Nat /\ Len(pending) <= Len(pending') /\ Len(pending') <= SOCKET_MEMORY
  BY <1>1, <1>2, MemoryIsSmall
<1>4. available * SIZE_BYTE \in Nat
  BY <1>2
<1>5. ParsedKept
  BY <1>1, <1>2 DEF ParsedKept
<1>6. Filled' = Filled /\ (Receiving' <=> Receiving)
  BY <1>1 DEF Filled, Receiving
<1>7. where' = "size_low" => available' * SIZE_BYTE <= Len(pending')
  <2>1. where' = "size_low" => available * SIZE_BYTE <= Len(pending)
    BY <1>1 DEF ReaderInv
  <2> DEFINE m == available * SIZE_BYTE
  <2>2. available' * SIZE_BYTE = m
    BY <1>1
  <2> HIDE DEF m
  <2> QED
    BY <1>2, <1>3, <1>4, <2>1, <2>2 DEF m
<1>8. \A i \in Filled' .. BUFFER_SIZE - 1 : requestBuffer'[i] = "nul"
  BY <1>1, <1>6 DEF ReaderInv
<1>9. Receiving' => available' <= SOCKET_MEMORY
  BY <1>1, <1>6 DEF ReaderInv
<1> QED
  BY <1>3, <1>5, <1>7, <1>8, <1>9, KeptIsEnough

LEMMA RefreshLeavesReader ==
    ASSUME ServerInv, ServerInv', ReaderInv,
           Accept \/ RefreshStatus \/ RefreshHigh \/ RefreshLow
    PROVE  ReaderInv'
<1>1. /\ UNCHANGED <<requestBuffer, fillPos, readPos, answers, pending>>
      /\ where \in {"listening", "status", "size", "size_low"}
  BY DEF Accept, RefreshStatus, RefreshHigh, RefreshLow, Goes, bufferVars, chipVarsOfServer
<1>2. pending \in Seq(Chars) /\ Len(pending) \in Nat /\ available \in Nat
      /\ fillPos \in Nat /\ Len(pending) <= SOCKET_MEMORY
  BY DEF ServerInv, ReaderInv
<1>3. ParsedKept
  BY <1>1, <1>2 DEF ParsedKept
<1>4. Filled' = Filled
  <2>1. Filled = fillPos
    BY <1>1, <1>2 DEF Filled, Receiving
  <2>2. Receiving' => where' = "receiving" /\ available' = wanted' /\ wanted' \in Nat
    BY <1>1 DEF Accept, RefreshStatus, RefreshHigh, RefreshLow, Goes, Receiving, ServerInv
  <2> QED
    BY <1>1, <1>2, <2>1, <2>2 DEF Filled
<1>5. \A i \in Filled' .. BUFFER_SIZE - 1 : requestBuffer'[i] = "nul"
  BY <1>1, <1>4 DEF ReaderInv
<1>6. where' = "size_low" => available' * SIZE_BYTE <= Len(pending')
  <2>1. where' = "size_low" => available' = Len(pending) \div SIZE_BYTE
    BY DEF Accept, RefreshStatus, RefreshHigh, RefreshLow, Goes
  <2> DEFINE q == Len(pending) \div SIZE_BYTE
             r == Len(pending) % SIZE_BYTE
  <2>2. q \in Nat /\ r \in 0 .. SIZE_BYTE - 1 /\ Len(pending) = SIZE_BYTE * q + r
    BY <1>2, DivMod
  <2>3. where' = "size_low" => available' = q
    BY <2>1
  <2> HIDE DEF q, r
  <2>4. SIZE_BYTE * q \in Nat /\ q * SIZE_BYTE = SIZE_BYTE * q
    BY <2>2
  <2>5. q * SIZE_BYTE <= Len(pending)
    BY <1>2, <2>2, <2>4
  <2> QED
    BY <1>1, <2>3, <2>5
<1>7. Receiving' => available' <= SOCKET_MEMORY
  <2>1. Receiving' => RefreshLow
    BY DEF Accept, RefreshStatus, RefreshHigh, RefreshLow, Goes, Receiving
  <2>2. ASSUME RefreshLow PROVE available' \in 0 .. Len(pending)
    <3>1. /\ where = "size_low"
          /\ available' = available * SIZE_BYTE + (Len(pending) % SIZE_BYTE)
      BY <2>2 DEF RefreshLow, Goes
    <3>2. available * SIZE_BYTE <= Len(pending)
      BY <3>1 DEF ReaderInv
    <3> QED
      BY <1>2, <3>1, <3>2, TornSizeIsSmall
  <2> QED
    BY <1>2, <2>1, <2>2, MemoryIsSmall
<1>8. Len(pending') <= SOCKET_MEMORY
  BY <1>1, <1>2
<1> QED
  BY <1>3, <1>5, <1>6, <1>7, <1>8, KeptIsEnough

(* A failed receive counts more than the call may have stored.             *)
LEMMA ReceiveLeavesReader ==
    ASSUME ServerInv, ServerInv', ReaderInv, ReceiveStatus \/ ReceiveHigh
    PROVE  ReaderInv'
<1>1. /\ UNCHANGED <<requestBuffer, readPos, answers, pending, available, wanted>>
      /\ where \in {"receiving", "available"}
      /\ \/ where' \in {"available", "available_low"} /\ fillPos' = fillPos
         \/ where' = "parsing" /\ fillPos' = fillPos + FAILED
  BY DEF ReceiveStatus, ReceiveHigh, Goes, bufferVars, readingVars, chipVarsOfServer
<1>2. /\ fillPos \in Nat /\ available \in Nat /\ wanted \in Nat
      /\ wanted <= available /\ available <= SOCKET_MEMORY
      /\ Len(pending) <= SOCKET_MEMORY
  BY <1>1 DEF ServerInv, ReaderInv, Receiving
<1>3. ParsedKept
  BY <1>1, <1>2 DEF ParsedKept
<1>4. Filled \in Nat /\ Filled' \in Nat /\ Filled' >= Filled
  BY <1>1, <1>2, MemoryIsSmall DEF Filled, Receiving
<1>5. \A i \in Filled' .. BUFFER_SIZE - 1 : requestBuffer'[i] = "nul"
  <2>1. \A i \in Filled' .. BUFFER_SIZE - 1 : i \in Filled .. BUFFER_SIZE - 1
    BY <1>4
  <2> QED
    BY <1>1, <2>1 DEF ReaderInv
<1>6. Len(pending') <= SOCKET_MEMORY /\ where' # "size_low"
      /\ available' <= SOCKET_MEMORY
  BY <1>1, <1>2
<1> QED
  BY <1>3, <1>5, <1>6, KeptIsEnough

LEMMA DataLeavesReader ==
    ASSUME ServerInv, ServerInv', ReaderInv, ReceiveData
    PROVE  ReaderInv'
<1> DEFINE size == high * SIZE_BYTE + (Len(pending) % SIZE_BYTE)
           n == IF size > wanted THEN wanted ELSE size
<1>1. size \in 0 .. Len(pending)
  <2>1. /\ high \in Nat /\ Len(pending) \in Nat /\ high * SIZE_BYTE <= Len(pending)
    BY DEF ServerInv, HighFits, ReceiveData
  <2> QED
    BY <2>1, TornSizeIsSmall
<1>2. /\ fillPos \in Nat /\ available \in Nat /\ wanted \in Nat
      /\ wanted <= available /\ available <= SOCKET_MEMORY
      /\ pending \in Seq(Chars) /\ Len(pending) <= SOCKET_MEMORY
      /\ where = "available_low"
      /\ requestBuffer \in [0 .. BUFFER_SIZE - 1 -> Chars]
  BY DEF ServerInv, ReaderInv, ReceiveData, Receiving
<1> HIDE DEF size
<1>3. n \in 0 .. wanted /\ n <= Len(pending)
  BY <1>1, <1>2
<1>4. /\ requestBuffer' = Stored(n)
      /\ pending' = SubSeq(pending, n + 1, Len(pending))
      /\ wanted' = wanted - n
      /\ IF wanted' = 0
         THEN where' = "parsing" /\ fillPos' = fillPos + available
         ELSE where' = "receiving" /\ UNCHANGED fillPos
      /\ UNCHANGED <<readPos, answers, available>>
  BY DEF ReceiveData, size
<1> HIDE DEF n
<1>5. \A i \in 0 .. BUFFER_SIZE - 1 :
         i \notin (fillPos + available - wanted) .. ((fillPos + available - wanted) + n - 1)
         => requestBuffer'[i] = requestBuffer[i]
  BY <1>2, <1>4 DEF Stored
<1>6. ParsedKept
  <2>1. ASSUME NEW i \in 0 .. readPos - 1, i < fillPos
        PROVE  requestBuffer'[i] = requestBuffer[i]
    <3>1. CASE i \in 0 .. BUFFER_SIZE - 1
      BY <1>2, <1>3, <1>5, <2>1, <3>1
    <3>2. CASE i \notin 0 .. BUFFER_SIZE - 1
      <4>1. fillPos <= BUFFER_SIZE
        BY <1>2 DEF ServerInv, Receiving
      <4>2. i \in Nat
        BY DEF ReaderInv
      <4> QED
        BY <1>2, <2>1, <3>2, <4>1, <4>2
    <3> QED
      BY <3>1, <3>2
  <2> QED
    BY <1>2, <1>4, <2>1 DEF ParsedKept
<1>7. Filled' = Filled + n /\ Filled = fillPos + available - wanted
  <2>1. Filled = fillPos + available - wanted
    BY <1>2 DEF Filled, Receiving
  <2>2. CASE wanted' = 0
    <3>1. Filled' = fillPos' /\ fillPos' = fillPos + available
      BY <1>2, <1>4, <2>2 DEF Filled, Receiving
    <3>2. n = wanted
      BY <1>2, <1>3, <1>4, <2>2
    <3> QED
      BY <1>2, <2>1, <3>1, <3>2
  <2>3. CASE wanted' # 0
    <3>1. Filled' = fillPos' + (available' - wanted') /\ fillPos' = fillPos
      BY <1>4, <2>3 DEF Filled, Receiving
    <3> QED
      BY <1>2, <1>3, <1>4, <2>1, <3>1
  <2> QED
    BY <2>2, <2>3, <2>1
<1>8. \A i \in Filled' .. BUFFER_SIZE - 1 : requestBuffer'[i] = "nul"
  <2>1. ASSUME NEW i \in Filled' .. BUFFER_SIZE - 1
        PROVE  /\ i \in Filled .. BUFFER_SIZE - 1 /\ i \in 0 .. BUFFER_SIZE - 1
               /\ i \notin (fillPos + available - wanted) .. ((fillPos + available - wanted) + n - 1)
    BY <1>2, <1>3, <1>7
  <2> QED
    BY <1>5, <2>1 DEF ReaderInv
<1>9. Len(pending') <= SOCKET_MEMORY
  <2>1. n \in Nat /\ Len(pending) \in Nat
    BY <1>2, <1>3
  <2>2. Len(SubSeq(pending, n + 1, Len(pending))) = Len(pending) - n
    BY <1>2, <1>3, <2>1
  <2> QED
    BY <1>2, <1>4, <2>1, <2>2, MemoryIsSmall
<1>10. where' # "size_low" /\ available' <= SOCKET_MEMORY
  BY <1>2, <1>4
<1> QED
  BY <1>6, <1>8, <1>9, <1>10, KeptIsEnough

LEMMA RestLeavesReader ==
    ASSUME ServerInv, ServerInv', ReaderInv, SkipNull \/ NoLine \/ Answer \/ Reopen
    PROVE  ReaderInv'
<1>1. /\ where \in {"parsing", "answering", "closing"}
      /\ where' \in {"status", "closing", "listening"}
      /\ UNCHANGED <<requestBuffer, fillPos, readPos, answers, available, wanted>>
      /\ pending' \in {pending, <<>>}
  BY DEF SkipNull, NoLine, Answer, Reopen, Goes, bufferVars, readingVars,
     chipVarsOfServer
<1>2. fillPos \in Nat /\ Len(pending) <= SOCKET_MEMORY
  BY DEF ServerInv, ReaderInv
<1>3. ParsedKept
  BY <1>1, <1>2 DEF ParsedKept
<1>4. Filled' = Filled /\ ~Receiving'
  BY <1>1 DEF Filled, Receiving
<1>5. \A i \in Filled' .. BUFFER_SIZE - 1 : requestBuffer'[i] = "nul"
  BY <1>1, <1>4 DEF ReaderInv
<1>6. Len(pending') <= SOCKET_MEMORY /\ where' # "size_low"
  BY <1>1, <1>2, MemoryIsSmall
<1> QED
  BY <1>3, <1>4, <1>5, <1>6, KeptIsEnough

(* A line that ends in the buffer ends in its filled part, where the next  *)
(* one begins; it has one byte just if it is the one short line that the   *)
(* parsed part gains.                                                      *)
LEMMA TakeLineCounts ==
    ASSUME ServerInv, ServerInv', ReaderInv, TakeLine
    PROVE  ReaderInv'
<1>1. PICK behind \in Chars :
         /\ ~NullAt(behind) /\ Char(LineEnd(behind), behind) = "lf"
         /\ readPos' = PastLineEnd(LineEnd(behind))
         /\ IF LineEnd(behind) - readPos = 1
            THEN Goes("parsing", "answering") /\ answers' = answers + 1
            ELSE Goes("parsing", "status") /\ UNCHANGED answers
  BY DEF TakeLine
<1> DEFINE end == LineEnd(behind)
<1>2. /\ readPos < fillPos
      /\ UNCHANGED <<requestBuffer, fillPos, available, wanted, pending>>
      /\ where = "parsing" /\ where' \in {"answering", "status"}
  BY DEF TakeLine, Goes, readingVars, chipVarsOfServer
<1>3. /\ readPos \in Nat /\ answers \in Nat /\ fillPos \in Nat
      /\ requestBuffer \in [0 .. BUFFER_SIZE - 1 -> Chars]
      /\ Len(pending) <= SOCKET_MEMORY
  BY DEF ServerInv, ReaderInv
<1>4. /\ end \in readPos .. readPos + BUFFER_SIZE
      /\ \A j \in readPos .. end - 1 : ~Stops(j, behind)
  BY <1>3, LineEndIsFirst
<1>5. readPos' = end + 1
  BY <1>1 DEF PastLineEnd
<1>6. answers' = (IF end - readPos = 1 THEN answers + 1 ELSE answers)
  BY <1>1
<1>7. Char(end, behind) = "lf"
  BY <1>1
<1> HIDE DEF end
<1>8. readPos' \in Nat /\ answers' \in Nat
  BY <1>3, <1>4, <1>5, <1>6
<1>9. Filled' = Filled /\ Filled = fillPos /\ ~Receiving'
  BY <1>2, <1>3 DEF Filled, Receiving
<1>10. \A i \in Filled' .. BUFFER_SIZE - 1 : requestBuffer'[i] = "nul"
  BY <1>2, <1>9 DEF ReaderInv
<1>11. ASSUME readPos' <= BUFFER_SIZE
       PROVE  /\ readPos' <= fillPos' /\ LineBegins(readPos)'
              /\ answers' = Cardinality(ShortLines)'
  <2>1. end \in 0 .. BUFFER_SIZE - 1 /\ readPos <= BUFFER_SIZE
    BY <1>3, <1>4, <1>5, <1>11
  <2>2. requestBuffer[end] = "lf"
    BY <1>7, <2>1 DEF Char
  <2>3. end < fillPos
    <3> SUFFICES ASSUME end >= fillPos PROVE FALSE
      BY <1>3, <2>1
    <3>1. end \in Filled .. BUFFER_SIZE - 1
      BY <1>3, <1>9, <2>1
    <3> QED
      BY <2>2, <3>1 DEF ReaderInv
  <2>4. \A j \in readPos .. end - 1 : j \in 0 .. BUFFER_SIZE - 1 /\ requestBuffer[j] # "lf"
    BY <1>3, <1>4, <2>1 DEF Stops, Char
  <2>5. LineBegins(readPos) /\ answers = Cardinality(ShortLines)
    BY <2>1 DEF ReaderInv
  <2>6. LineBegins(readPos)'
    <3>1. readPos' - 1 = end
      BY <1>3, <1>4, <1>5
    <3> QED
      BY <1>2, <2>2, <3>1 DEF LineBegins
  <2> DEFINE New == IF end - readPos = 1 THEN {readPos} ELSE {}
  <2>7. ShortLines' = ShortLines \cup New
    <3>1. /\ DOMAIN requestBuffer = 0 .. BUFFER_SIZE - 1
          /\ DOMAIN requestBuffer' = 0 .. BUFFER_SIZE - 1
      BY <1>2, <1>3
    <3>2. ASSUME NEW i \in 0 .. BUFFER_SIZE - 1
          PROVE  i \in ShortLines' <=> i \in ShortLines \/ i \in New
      <4>1. i \in ShortLines' <=>
               /\ i + 1 < end + 1 /\ i + 1 < BUFFER_SIZE /\ LineBegins(i)
               /\ requestBuffer[i] # "lf" /\ requestBuffer[i + 1] = "lf"
        BY <1>2, <1>5, <3>1 DEF ShortLines, LineBegins
      <4>2. i \in ShortLines <=>
               /\ i + 1 < readPos /\ i + 1 < BUFFER_SIZE /\ LineBegins(i)
               /\ requestBuffer[i] # "lf" /\ requestBuffer[i + 1] = "lf"
        BY <3>1 DEF ShortLines
      <4>3. CASE i + 1 < readPos
        BY <1>3, <1>4, <4>1, <4>2, <4>3
      <4>4. CASE i + 1 = readPos
        <5>1. requestBuffer[i] = "lf"
          BY <2>5, <4>4 DEF LineBegins
        <5>2. i \notin New
          BY <1>3, <4>4
        <5> QED
          BY <4>1, <4>2, <5>1, <5>2
      <4>5. CASE i = readPos
        <5>1. end - readPos = 1 =>
                 /\ i + 1 = end /\ requestBuffer[i] # "lf" /\ i + 1 < BUFFER_SIZE
                 /\ i \in readPos .. end - 1
          BY <1>3, <1>4, <2>1, <2>4, <4>5
        <5>2. i + 1 < end + 1 /\ end - readPos # 1 => i + 1 \in readPos .. end - 1
          BY <1>3, <1>4, <4>5
        <5>3. ~(i + 1 < readPos)
          BY <1>3, <4>5
        <5>4. i \in ShortLines' <=> end - readPos = 1
          <6>1. CASE end - readPos = 1
            BY <2>2, <2>5, <4>1, <4>5, <5>1, <6>1, <1>3, <1>4
          <6>2. CASE end - readPos # 1
            BY <2>4, <4>1, <5>2, <6>2
          <6> QED
            BY <6>1, <6>2
        <5> QED
          BY <4>2, <4>5, <5>3, <5>4
      <4>6. CASE i > readPos
        <5>1. i < end => i - 1 \in readPos .. end - 1 /\ i # 0
          BY <1>3, <1>4, <4>6
        <5>2. i < end => ~LineBegins(i)
          BY <2>4, <5>1 DEF LineBegins
        <5>3. i + 1 < end + 1 <=> i < end
          BY <1>3, <1>4
        <5> QED
          BY <1>3, <4>1, <4>2, <4>6, <5>2, <5>3
      <4> QED
        BY <1>3, <4>3, <4>4, <4>5, <4>6
    <3>3. New \subseteq 0 .. BUFFER_SIZE - 1
      BY <1>3, <1>4, <2>1
    <3>4. ShortLines \subseteq 0 .. BUFFER_SIZE - 1 /\ ShortLines' \subseteq 0 .. BUFFER_SIZE - 1
      BY <3>1 DEF ShortLines
    <3> HIDE DEF New
    <3> QED
      BY <3>2, <3>3, <3>4
  <2>8. IsFiniteSet(ShortLines) /\ readPos \notin ShortLines
    <3>1. ShortLines \subseteq 0 .. BUFFER_SIZE - 1
      BY <1>3 DEF ShortLines
    <3>2. readPos \notin ShortLines
      BY <1>3 DEF ShortLines
    <3>3. IsFiniteSet(0 .. BUFFER_SIZE - 1)
      BY FS_Interval
    <3> QED
      BY <3>1, <3>2, <3>3, FS_Subset
  <2>9. answers' = Cardinality(ShortLines')
    <3>1. CASE end - readPos = 1
      BY <1>3, <1>6, <2>5, <2>7, <2>8, <3>1, FS_AddElement
    <3>2. CASE end - readPos # 1
      BY <1>6, <2>5, <2>7, <3>2
    <3> QED
      BY <3>1, <3>2
  <2> QED
    BY <1>2, <1>3, <1>4, <1>5, <2>3, <2>6, <2>9
<1>12. Len(pending') <= SOCKET_MEMORY /\ where' # "size_low"
  BY <1>2, <1>3
<1> QED
  BY <1>8, <1>9, <1>10, <1>11, <1>12 DEF ReaderInv

(* Both invariants, of the buffer and of its reader, are inductive         *)
(* together.                                                               *)
LEMMA ServerStep ==
    ServerInv /\ ReaderInv /\ [ServerNext]_serverVars => (ServerInv /\ ReaderInv)'
<1> SUFFICES ASSUME ServerInv, ReaderInv, [ServerNext]_serverVars
             PROVE  ServerInv' /\ ReaderInv'
  OBVIOUS
<1>1. CASE UNCHANGED serverVars
  <2>1. ServerInv'
    BY <1>1 DEF serverVars, bufferVars, readingVars, chipVarsOfServer,
       ServerInv, HighFits, Receiving
  <2>2. ReaderInv'
    BY <1>1 DEF serverVars, bufferVars, readingVars, chipVarsOfServer,
       ReaderInv, Filled, Receiving, ShortLines, LineBegins
  <2> QED
    BY <2>1, <2>2
<1>2. CASE PeerConnects \/ PeerSends \/ PeerCloses
  BY <1>2, PeerKeeps, PeerLeavesReader
<1>3. CASE Accept \/ RefreshStatus \/ RefreshHigh \/ RefreshLow
  BY <1>3, RefreshKeeps, RefreshLeavesReader
<1>4. CASE ReceiveStatus \/ ReceiveHigh
  BY <1>4, ReceiveKeeps, ReceiveLeavesReader
<1>5. CASE ReceiveData
  BY <1>5, DataKeeps, DataLeavesReader
<1>6. CASE SkipNull \/ NoLine \/ Answer \/ Reopen
  BY <1>6, RestKeeps, RestLeavesReader
<1>7. CASE TakeLine
  BY <1>7, RestKeeps, TakeLineCounts
<1> QED
  BY <1>1, <1>2, <1>3, <1>4, <1>5, <1>6, <1>7 DEF ServerNext, Server, Handle

(* The server's positions, buffer and count of answers always relate as    *)
(* the invariants say, whatever peers send and whenever they come and go.  *)
THEOREM ServerInvariant == ServerSpec => [](ServerInv /\ ReaderInv)
BY ServerStep, InitServer, InitReader, PTL DEF ServerSpec

(* An answer for every short line that was parsed, and for nothing else.   *)
THEOREM AnswersAreForLines == ServerSpec => []AnswersMatchLines
<1>1. ServerInv /\ ReaderInv => AnswersMatchLines
  BY DEF ReaderInv, AnswersMatchLines
<1> QED
  BY <1>1, ServerInvariant, PTL

(* The reader stands at a NUL of the filled part of its buffer.            *)
AtNull ==
    readPos < fillPos /\ readPos < BUFFER_SIZE /\ requestBuffer[readPos] = "nul"
StaysAtNull == AtNull' /\ UNCHANGED <<readPos, answers>>

(* A receive stores behind the filled part only.                           *)
LEMMA FilledCellsStay ==
    ASSUME ServerInv, [ServerNext]_serverVars
    PROVE  /\ fillPos' \in Nat /\ fillPos <= fillPos'
           /\ \A i \in 0 .. fillPos - 1 :
                 i < BUFFER_SIZE => requestBuffer'[i] = requestBuffer[i]
<1>1. /\ requestBuffer \in [0 .. BUFFER_SIZE - 1 -> Chars]
      /\ fillPos \in Nat /\ available \in Nat /\ wanted \in Nat
      /\ Receiving => wanted <= available
  BY DEF ServerInv
<1>2. CASE ReceiveData
  <2> DEFINE size == high * SIZE_BYTE + (Len(pending) % SIZE_BYTE)
             n == IF size > wanted THEN wanted ELSE size
  <2>1. /\ where = "available_low" /\ requestBuffer' = Stored(n)
        /\ fillPos' \in {fillPos, fillPos + available}
    BY <1>2 DEF ReceiveData
  <2> HIDE DEF n
  <2>2. wanted <= available
    BY <1>1, <2>1 DEF Receiving
  <2>3. \A i \in 0 .. fillPos - 1 :
           i < BUFFER_SIZE => Stored(n)[i] = requestBuffer[i]
    BY <1>1, <2>2 DEF Stored
  <2> QED
    BY <1>1, <2>1, <2>3
<1>3. CASE ReceiveStatus
  BY <1>1, <1>3 DEF ReceiveStatus
<1>4. CASE ~ReceiveData /\ ~ReceiveStatus
  BY <1>1, <1>4 DEF ServerNext, Server, Handle, PeerConnects, PeerSends,
     PeerCloses, Accept, RefreshStatus, RefreshHigh, RefreshLow, ReceiveHigh,
     SkipNull, NoLine, TakeLine, Answer, Reopen, serverVars, bufferVars
<1> QED
  BY <1>2, <1>3, <1>4

(* The reader never leaves a NUL, in this connection or in a later one,    *)
(* and answers nothing any more: what the comment in the reader's code     *)
(* says of skipping NULs holds for no buffer and no request.               *)
THEOREM NullIsForEver == ServerSpec => [][AtNull => StaysAtNull]_serverVars
<1>1. ASSUME ServerInv, ReaderInv, [ServerNext]_serverVars, AtNull
      PROVE  StaysAtNull
  <2>1. readPos \in Nat /\ fillPos \in Nat
    BY <1>1 DEF ServerInv, ReaderInv
  <2>2. ~TakeLine
    BY <1>1 DEF TakeLine, NullAt, Char, AtNull
  <2>3. UNCHANGED <<readPos, answers>>
    BY <1>1, <2>2 DEF ServerNext, Server, Handle, PeerConnects, PeerSends,
       PeerCloses, Accept, RefreshStatus, RefreshHigh, RefreshLow,
       ReceiveStatus, ReceiveHigh, ReceiveData, SkipNull, NoLine, Answer,
       Reopen, serverVars, bufferVars
  <2>4. readPos < fillPos' /\ requestBuffer'[readPos] = requestBuffer[readPos]
    BY <1>1, <2>1, FilledCellsStay DEF AtNull
  <2> QED
    BY <1>1, <2>1, <2>3, <2>4 DEF AtNull, StaysAtNull
<1>2. ServerInv /\ ReaderInv /\ [ServerNext]_serverVars
         => [AtNull => StaysAtNull]_serverVars
  BY <1>1
<1> QED
  BY <1>2, ServerInvariant, PTL DEF ServerSpec
=============================================================================
