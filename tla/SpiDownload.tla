---------------------------- MODULE SpiDownload ----------------------------
(***************************************************************************)
(* The transfer of a file by the download program: its client              *)
(* (src/spidl/src/spidl_main.c, on a W5500 socket) and its host            *)
(* (src/spidlhost/SocketThread32.cs).  TCP between them keeps order and    *)
(* loses nothing until the connection ends; what the client reads over the *)
(* SPI bus may be corrupted, which is what its checksum is for.            *)
(*                                                                         *)
(* The host reads lines: three for the request, two for each command.      *)
(* The client's calls of send and receive never look at the result, so a   *)
(* receive that fails leaves the buffer as it was, or part of it.          *)
(*                                                                         *)
(* A definition marked "Slip" is a plausible mistake in the one after it;  *)
(* no action uses it.  The properties are tried against these.             *)
(***************************************************************************)
EXTENDS Integers, Sequences

CONSTANTS
    Blocks,          \* contents of packets
    File,            \* the file: a sequence of blocks
    Empty,           \* the content of a packet beyond the end of the file
    Zeros,           \* the content of the header packet
    Garbage,         \* content not sent by the host
    NoPacket,        \* a packet number that is not one
    WrongTotals,     \* what a corrupted or uninitialised total may be
    WORD             \* workPacketNumber is counted modulo WORD (2^16)

ASSUME FileAssumption ==
    /\ File \in Seq(Blocks) /\ Len(File) < WORD - 1
    /\ {Empty, Zeros, Garbage} \cap Blocks = {}
ASSUME NumbersAssumption ==
    WORD \in Nat /\ NoPacket \notin Nat /\ WrongTotals \subseteq Nat

VARIABLES
    pc, work,        \* the client: where it is, and its workPacketNumber
    buf,             \* __receiveBuffer, as the packet it holds
    written,         \* the blocks written to the output file
    host,            \* where the host thread is
    lines, packets,  \* under way to the host and to the client
    link,            \* the connection, as both ends see it: up or down
    misled           \* history: the client acted on a total that is not the file's

clientVars == <<pc, work, buf, written, misled>>
downloadVars == <<clientVars, host, lines, packets, link>>

Ended == {"done", "refused", "crashed"}
-----------------------------------------------------------------------------
(* Slip: the checksum is not seeded with the number of the packet.         *)
CrcUnseeded(n, data) == <<0, data>>

(* The checksum of data, seeded with the packet's number.  For equal data  *)
(* it differs whenever the numbers do; that it tells different data apart  *)
(* is its purpose, and taken for granted.                                  *)
Crc(n, data) == <<n % WORD, data>>

(* Slip: every packet is given the checksum of the header's number.        *)
SendWithFirstSeed(n, data) ==
    [num |-> n, total |-> Len(File), data |-> data, crc |-> Crc(0, data)]

SendPacketData(n, data) ==
    [num |-> n, total |-> Len(File), data |-> data, crc |-> Crc(n, data)]
(* Skip and Take.                                                          *)
DataOf(n) == IF n \in 1 .. Len(File) THEN File[n] ELSE Empty

(* What a reader of p over the SPI bus may see.                            *)
Seen(p) ==
    {p, [p EXCEPT !.data = Garbage], [p EXCEPT !.num = NoPacket]}
    \cup { [p EXCEPT !.total = t] : t \in WrongTotals }

(* What the buffer may hold when the connection ends during a receive: its *)
(* old contents, or a new header over old or mixed data.                   *)
Torn ==
    {buf} \cup { [p EXCEPT !.data = d] :
                    p \in IF packets = <<>> THEN {} ELSE {Head(packets)},
                    d \in {buf.data, Garbage} }

(* malloc does not clear the buffer.                                       *)
Uninitialised ==
    [num : {0, NoPacket}, total : WrongTotals \cup {0},
     data : {Garbage}, crc : {Crc(0, Empty)}]
-----------------------------------------------------------------------------
(* The connection is established.                                          *)
DownloadInit ==
    /\ pc = "start" /\ work = 1 /\ buf \in Uninitialised /\ written = <<>>
    /\ host = "start" /\ lines = <<>> /\ packets = <<>> /\ link = "up"
    /\ misled = FALSE

(* socket->send; it fails silently when the connection is gone.            *)
Send(text) == lines' = IF link = "up" THEN lines \o text ELSE lines

Request ==
    /\ pc = "start"
    /\ Send(<<"SENDFILE", "name", "size">>)
    /\ pc' = "header"
    /\ UNCHANGED <<work, buf, written, misled, host, packets, link>>

(* socket->receive of a whole packet, or its failure.                      *)
Receive ==
    \/ link = "up" /\ packets # <<>>
       /\ buf' \in Seen(Head(packets)) /\ packets' = Tail(packets)
    \/ link = "down" /\ buf' \in Torn /\ UNCHANGED packets

ReceiveHeader ==
    /\ pc = "header"
    /\ Receive
    /\ pc' = IF buf'.num = 0 THEN "asking" ELSE "refused"
    /\ UNCHANGED <<work, written, misled, host, lines, link>>

(* Slip: the last packet is not asked for.                                 *)
MoreBefore == work < buf.total

(* The loop's test, on the total of whatever packet came last.             *)
More == work <= buf.total

Ask ==
    /\ pc = "asking" /\ More
    /\ Send(<<"sendpacket", work>>)
    /\ pc' = "receiving" /\ misled' = (misled \/ buf.total # Len(File))
    /\ UNCHANGED <<work, buf, written, host, packets, link>>

ReceivePacket ==
    /\ pc = "receiving"
    /\ Receive
    /\ pc' = "checking"
    /\ UNCHANGED <<work, written, misled, host, lines, link>>

(* A checksum over no bytes runs through memory, and so does one over the  *)
(* length of the header packet, which is that of the file.                 *)
Overruns == buf.data = Empty \/ buf.num = 0
Crash ==
    /\ pc = "checking" /\ Overruns
    /\ pc' = "crashed"
    /\ UNCHANGED <<work, buf, written, misled, host, lines, packets, link>>

(* Slip: a packet that fails its check is waited for, not asked for again. *)
CheckWaits ==
    /\ pc = "checking" /\ buf.data # Empty
    /\ IF buf.crc = Crc(work, buf.data)
       THEN /\ written' = Append(written, buf.data)
            /\ work' = (work + 1) % WORD /\ pc' = "asking"
       ELSE pc' = "receiving" /\ UNCHANGED <<written, work>>
    /\ UNCHANGED <<buf, misled, host, lines, packets, link>>

Check ==
    /\ pc = "checking" /\ buf.data # Empty
    /\ IF buf.crc = Crc(work, buf.data)
       THEN written' = Append(written, buf.data) /\ work' = (work + 1) % WORD
       ELSE UNCHANGED <<written, work>>
    /\ pc' = "asking"
    /\ UNCHANGED <<buf, misled, host, lines, packets, link>>

(* "quit" is one line.  The socket is closed without telling the host.     *)
Finish ==
    /\ pc = "asking" /\ ~More
    /\ Send(<<"quit">>)
    /\ pc' = "done" /\ misled' = (misled \/ buf.total # Len(File))
    /\ UNCHANGED <<work, buf, written, host, packets, link>>

Client == Request \/ ReceiveHeader \/ Ask \/ ReceivePacket \/ Check \/ Finish
-----------------------------------------------------------------------------
(* The host thread (DoSocketLoop).                                         *)
HostEnd == host' = "ended" /\ link' = "down"

HostStart ==
    /\ host = "start" /\ link = "up" /\ Len(lines) >= 3
    /\ lines' = SubSeq(lines, 4, Len(lines))
    /\ packets' = Append(packets, SendPacketData(0, Zeros))
    /\ host' = "serving"
    /\ UNCHANGED <<clientVars, link>>

(* The file does not exist.                                                *)
HostRefuses ==
    /\ host = "start" /\ link = "up" /\ Len(lines) >= 3
    /\ HostEnd
    /\ UNCHANGED <<clientVars, lines, packets>>

(* A command and its argument.  "quit" would be acted on after a second    *)
(* line, which the client never sends.                                     *)
HostServes ==
    /\ host = "serving" /\ link = "up" /\ Len(lines) >= 2
    /\ lines' = SubSeq(lines, 3, Len(lines))
    /\ packets' = Append(packets, SendPacketData(lines[2], DataOf(lines[2])))
    /\ UNCHANGED <<clientVars, host, link>>

(* Slip: only the request has to come in time.                             *)
TimesOutAtStart ==
    /\ host = "start" /\ Len(lines) < 3
    /\ HostEnd
    /\ UNCHANGED <<clientVars, lines, packets>>

(* A ReadLine that waits for longer than ReceiveTimeout throws.            *)
HostTimesOut ==
    /\ \/ host = "start" /\ Len(lines) < 3
       \/ host = "serving" /\ Len(lines) < 2
    /\ HostEnd
    /\ UNCHANGED <<clientVars, lines, packets>>

(* So does one on a connection that has ended.                             *)
HostFails ==
    /\ host # "ended" /\ link = "down"
    /\ HostEnd
    /\ UNCHANGED <<clientVars, lines, packets>>

(* The connection breaks.                                                  *)
Break ==
    /\ link = "up"
    /\ link' = "down"
    /\ UNCHANGED <<clientVars, host, lines, packets>>

Host == HostStart \/ HostServes
HostStops == HostTimesOut \/ HostFails

DownloadNext == Client \/ Crash \/ Host \/ HostStops \/ HostRefuses \/ Break
DownloadSpec == DownloadInit /\ [][DownloadNext]_downloadVars

(* Both programs run, the host's read has a timeout, and the bus does not  *)
(* corrupt the same answer for ever.                                       *)
ReadWell == (ReceiveHeader \/ ReceivePacket) /\ link = "up" /\ buf' = Head(packets)
DownloadFairSpec ==
    /\ DownloadSpec
    /\ WF_downloadVars(Client) /\ WF_downloadVars(Host)
    /\ WF_downloadVars(HostStops) /\ SF_downloadVars(ReadWell)
-----------------------------------------------------------------------------
Packet ==
    [num : Nat \cup {NoPacket}, total : Nat,
     data : Blocks \cup {Empty, Zeros, Garbage},
     crc : (0 .. WORD - 1) \X (Blocks \cup {Empty, Zeros})]
DownloadTypeOK ==
    /\ pc \in Ended \cup {"start", "header", "asking", "receiving", "checking"}
    /\ work \in 1 .. Len(File) + 1
    /\ buf \in Packet /\ packets \in Seq(Packet)
    /\ written \in Seq(Blocks)
    /\ host \in {"start", "serving", "ended"} /\ link \in {"up", "down"}

(* The output file is always a beginning of the file: whatever is          *)
(* corrupted, torn or left over in the buffer from the packet before, no   *)
(* block is written twice, left out or altered.                            *)
FileIsPrefix ==
    /\ Len(written) = work - 1
    /\ written = SubSeq(File, 1, work - 1)

(* A transfer that completes on the totals the host sent is complete.      *)
DoneIsWhole == pc = "done" /\ ~misled => written = File

(* Client and host keep in step: as long as the connection lasts, exactly  *)
(* one question or one answer is under way when the client waits, and none *)
(* otherwise, so they never wait for each other; and the answer is to the  *)
(* question asked last.                                                    *)
InStep ==
    link = "up" =>
        /\ Len(packets) + (IF Len(lines) < 2 THEN 0 ELSE 1)
              = (IF pc \in {"header", "receiving"} THEN 1 ELSE 0)
        /\ packets # <<>> =>
              Head(packets).num = (IF pc = "header" THEN 0 ELSE work)

(* A client that has sent its request ends, unless the connection breaks.  *)
Finishes == pc = "header" ~> (pc \in Ended \/ link = "down")

(* A host thread is not left behind by a client that has ended.            *)
HostIsFreed == pc \in Ended ~> host = "ended"
=============================================================================
