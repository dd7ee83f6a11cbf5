----------------------------- MODULE WebServer -----------------------------
(***************************************************************************)
(* The web server (src/spiws/src/spiws_server.c) on its W5500 socket       *)
(* (src/tssocketlib/src/tssocketlib_main.c).  One connection at a time is  *)
(* accepted, read line by line until a line of one byte -- the CR of an    *)
(* empty line; the server splits at LF, which it calls C_CR -- answered    *)
(* with a page, and closed.  What is read goes into one request buffer.    *)
(* The positions where it is filled and where it is parsed are set once,   *)
(* when the server starts, and never go back.                              *)
(*                                                                         *)
(* The peer sends and closes while the server reads the chip's registers   *)
(* one byte at a time.  The page exists, and socket_create finds the       *)
(* socket that the server closed before.                                   *)
(*                                                                         *)
(* A definition marked "Slip" is a plausible mistake in the one after it;  *)
(* no action uses it.  The properties are tried against these.             *)
(***************************************************************************)
EXTENDS Integers, Sequences, FiniteSets

CONSTANTS
    BUFFER_SIZE,     \* REQUEST_BUFFER_SIZE
    FAILED,          \* SOCKET_ERR_INVALIDARGUMENT, which is taken for a length
    SIZE_BYTE,       \* the values of a byte of the received size (256)
    SOCKET_MEMORY,   \* what the chip receives ahead of the server (2048)
    MAX_PEERS,       \* bound: connections
    MAX_SENT         \* bound: bytes the peers send

(* The error is 4096, and no socket is given that much of the memory.      *)
ASSUME ServerAssumption ==
    /\ {BUFFER_SIZE, FAILED, SIZE_BYTE, SOCKET_MEMORY, MAX_PEERS, MAX_SENT}
          \subseteq Nat \ {0}
    /\ SOCKET_MEMORY <= FAILED

VARIABLES
    where,           \* where the server is
    peer,            \* the connection: awaited, established or ended
    pending,         \* bytes received by the chip and not read
    requestBuffer,   \* its cells are counted from 0
    fillPos,         \* __requestBufferPos
    readPos,         \* __streamReaderPos
    available,       \* rx_bytes_available; its high byte while it is read
    wanted,          \* bytes left to receive in this call
    high,            \* the high byte of the size, once read by receive
    peers,           \* history: connections established
    received,        \* history: all that was read from the chip
    answered,        \* history: this connection was answered
    answers,         \* history: lines that were answered
    cutOff           \* history: a receive failed

bufferVars == <<requestBuffer, fillPos, readPos, received, answers, cutOff>>
readingVars == <<available, wanted, high>>
chipVarsOfServer == <<peer, pending, peers>>
serverVars ==
    <<where, bufferVars, readingVars, chipVarsOfServer, answered>>

Chars == {"lf", "nul", "x"}
-----------------------------------------------------------------------------
(* spiws_server_run, up to its first call of listen.                       *)
ServerInit ==
    /\ where = "listening" /\ peer = "awaited" /\ pending = <<>>
    /\ requestBuffer = [i \in 0 .. BUFFER_SIZE - 1 |-> "nul"]
    /\ fillPos = 0 /\ readPos = 0
    /\ available = 0 /\ wanted = 0 /\ high = 0
    /\ peers = 0 /\ received = <<>> /\ answered = FALSE /\ answers = 0
    /\ cutOff = FALSE

(* The peer and the chip.  A peer that has closed sends no more, and one   *)
(* that sends waits while the chip's memory is full.                       *)
PeerConnects ==
    /\ peer = "awaited" /\ peers < MAX_PEERS
    /\ peer' = "established" /\ peers' = peers + 1
    /\ UNCHANGED <<where, bufferVars, readingVars, pending, answered>>

PeerSends ==
    /\ peer = "established" /\ Len(pending) < SOCKET_MEMORY
    /\ Len(received) + Len(pending) < MAX_SENT
    /\ \E c \in Chars : pending' = Append(pending, c)
    /\ UNCHANGED <<where, bufferVars, readingVars, peer, peers, answered>>

PeerCloses ==
    /\ peer = "established"
    /\ peer' = "ended"
    /\ UNCHANGED <<where, bufferVars, readingVars, pending, peers, answered>>
-----------------------------------------------------------------------------
Goes(from, to) == where = from /\ where' = to

(* socket_listen: it waits for ESTABLISHED, and for nothing else.          *)
Accept ==
    /\ peer = "established"
    /\ Goes("listening", "status")
    /\ UNCHANGED <<bufferVars, readingVars, chipVarsOfServer, answered>>

(* socket_refresh reads the status, then the size, high byte first.        *)
RefreshStatus ==
    /\ Goes("status", IF peer = "established" THEN "size" ELSE "closing")
    /\ UNCHANGED <<bufferVars, readingVars, chipVarsOfServer, answered>>

RefreshHigh ==
    /\ Goes("size", "size_low")
    /\ available' = Len(pending) \div SIZE_BYTE
    /\ UNCHANGED <<bufferVars, wanted, high, chipVarsOfServer, answered>>

HasRoom(n) == fillPos + n <= BUFFER_SIZE

(* The low byte; then spiws_server_streamreader begins.                    *)
RefreshLow ==
    LET n == available * SIZE_BYTE + (Len(pending) % SIZE_BYTE) IN
    /\ available' = n
    /\ wanted' = n
    /\ Goes("size_low", IF n = 0 THEN "parsing"
                        ELSE IF HasRoom(n) THEN "receiving" ELSE "status")
    /\ UNCHANGED <<bufferVars, high, chipVarsOfServer, answered>>

(* socket_receive checks the status before each pass; what it returns when *)
(* the connection is gone is added to the position as a length.  The wait  *)
(* for RECV that follows ends before it begins.                            *)
ReceiveStatus ==
    /\ where = "receiving"
    /\ IF peer = "established"
       THEN where' = "available" /\ UNCHANGED <<fillPos, cutOff>>
       ELSE where' = "parsing" /\ fillPos' = fillPos + FAILED /\ cutOff' = TRUE
    /\ UNCHANGED <<requestBuffer, readPos, received, answers, readingVars,
                   chipVarsOfServer, answered>>

ReceiveHigh ==
    /\ Goes("available", "available_low")
    /\ high' = Len(pending) \div SIZE_BYTE
    /\ UNCHANGED <<bufferVars, available, wanted, chipVarsOfServer, answered>>

(* Slip: every pass stores at the beginning.                               *)
StoredAtStart(n) ==
    [i \in DOMAIN requestBuffer |->
        IF i \in fillPos .. fillPos + n - 1
        THEN pending[i - fillPos + 1] ELSE requestBuffer[i]]

(* The first n pending bytes, behind those received in earlier passes.     *)
Stored(n) ==
    LET bufpos == fillPos + available - wanted IN
    [i \in DOMAIN requestBuffer |->
        IF i \in bufpos .. bufpos + n - 1
        THEN pending[i - bufpos + 1] ELSE requestBuffer[i]]

(* The low byte, the data and RECV.                                        *)
ReceiveData ==
    LET size == high * SIZE_BYTE + (Len(pending) % SIZE_BYTE)
        n == IF size > wanted THEN wanted ELSE size
    IN
    /\ where = "available_low"
    /\ requestBuffer' = Stored(n)
    /\ received' = received \o SubSeq(pending, 1, n)
    /\ pending' = SubSeq(pending, n + 1, Len(pending))
    /\ wanted' = wanted - n
    /\ IF wanted' = 0
       THEN where' = "parsing" /\ fillPos' = fillPos + available
       ELSE where' = "receiving" /\ UNCHANGED fillPos
    /\ UNCHANGED <<readPos, answers, cutOff, available, high, peer, peers,
                   answered>>
-----------------------------------------------------------------------------
(* The rest of the stream reader.  It may look at the byte behind the      *)
(* buffer, which may be any.                                               *)
Char(i, behind) == IF i < BUFFER_SIZE THEN requestBuffer[i] ELSE behind

(* Where the loop that looks for a line's end stops.                       *)
Stops(i, behind) ==
    Char(i, behind) = "lf" \/ i >= fillPos \/ i >= BUFFER_SIZE
LineEnd(behind) ==
    CHOOSE i \in readPos .. readPos + BUFFER_SIZE :
        Stops(i, behind) /\ \A j \in readPos .. i - 1 : ~Stops(j, behind)

NullAt(behind) == readPos < fillPos /\ Char(readPos, behind) = "nul"

(* A NUL at the reader's position: only a local copy of it moves on.       *)
SkipNull ==
    /\ \E behind \in Chars : NullAt(behind)
    /\ Goes("parsing", "status")
    /\ UNCHANGED <<bufferVars, readingVars, chipVarsOfServer, answered>>

NoLine ==
    /\ \/ readPos >= fillPos
       \/ \E behind \in Chars :
             ~NullAt(behind) /\ Char(LineEnd(behind), behind) # "lf"
    /\ Goes("parsing", "status")
    /\ UNCHANGED <<bufferVars, readingVars, chipVarsOfServer, answered>>

(* Slip: the reader stays at the line's end.                               *)
AtLineEnd(i) == i

PastLineEnd(i) == i + 1

TakeLine ==
    /\ readPos < fillPos
    /\ \E behind \in Chars :
          LET end == LineEnd(behind) IN
          /\ ~NullAt(behind) /\ Char(end, behind) = "lf"
          /\ readPos' = PastLineEnd(end)
          /\ IF end - readPos = 1
             THEN Goes("parsing", "answering") /\ answers' = answers + 1
             ELSE Goes("parsing", "status") /\ UNCHANGED answers
    /\ UNCHANGED <<requestBuffer, fillPos, received, cutOff, readingVars,
                   chipVarsOfServer, answered>>

(* The page.  Sending fails, unnoticed, once the connection has ended.     *)
Answer ==
    /\ Goes("answering", "closing")
    /\ answered' = (peer = "established")
    /\ UNCHANGED <<bufferVars, readingVars, chipVarsOfServer>>

(* Closing, and a socket for the next connection that listens.             *)
Reopen ==
    /\ Goes("closing", "listening")
    /\ peer' = "awaited" /\ pending' = <<>> /\ answered' = FALSE
    /\ UNCHANGED <<bufferVars, readingVars, peers>>

Handle ==
    \/ RefreshStatus \/ RefreshHigh \/ RefreshLow
    \/ ReceiveStatus \/ ReceiveHigh \/ ReceiveData
    \/ SkipNull \/ NoLine \/ TakeLine
Server == Accept \/ Handle \/ Answer \/ Reopen

ServerNext == PeerConnects \/ PeerSends \/ PeerCloses \/ Server
ServerSpec == ServerInit /\ [][ServerNext]_serverVars
ServerFairSpec == ServerSpec /\ WF_serverVars(Server)
-----------------------------------------------------------------------------
(* What was received lies in the buffer as it came, from whichever         *)
(* connections, and a call of receive has room for all it may store, until *)
(* a receive fails.                                                        *)
StreamInBuffer ==
    /\ where \in {"receiving", "available", "available_low"} =>
          fillPos + available <= BUFFER_SIZE
    /\ ~cutOff => \A i \in 1 .. Len(received) : requestBuffer[i - 1] = received[i]

(* The lines of one byte in the parsed part of the buffer.                 *)
LineBegins(i) == i = 0 \/ requestBuffer[i - 1] = "lf"
ShortLines ==
    { i \in DOMAIN requestBuffer :
        /\ i + 1 < readPos /\ i + 1 < BUFFER_SIZE /\ LineBegins(i)
        /\ requestBuffer[i] # "lf" /\ requestBuffer[i + 1] = "lf" }

(* An answer is given for every line of one byte that was parsed and for   *)
(* nothing else, wherever the lines were cut into receives and             *)
(* connections -- unless the byte behind the buffer was taken for the end  *)
(* of a line.                                                              *)
AnswersMatchLines ==
    readPos <= BUFFER_SIZE => answers = Cardinality(ShortLines)

(* A peer that stays gets its answer once it has sent a line of one byte   *)
(* and a LF, if the reader is not at a NUL, which it never leaves, and     *)
(* the buffer has room for what was sent.                                  *)
Stream ==
    [i \in 1 .. (fillPos - readPos) |-> requestBuffer[readPos + i - 1]] \o pending
HasRequest ==
    /\ peer = "established"
    /\ fillPos + Len(pending) <= BUFFER_SIZE
    /\ where \in {"receiving", "available", "available_low"} => wanted = available
    /\ \E i \in 1 .. Len(Stream) - 1 :
          /\ i = 1 \/ Stream[i - 1] = "lf"
          /\ Stream[i] # "lf" /\ Stream[i + 1] = "lf"
Deaf ==
    \/ fillPos + Len(pending) > BUFFER_SIZE
    \/ readPos < fillPos /\ readPos < BUFFER_SIZE /\ requestBuffer[readPos] = "nul"
RequestIsAnswered ==
    HasRequest ~> (answered \/ peer = "ended" \/ Deaf)

(* The comment above the check: "if we have a null at the position, and    *)
(* there is data ahead of us... ignore it and move on" -- the position     *)
(* moves.  It does not: the reader sees the same NUL for ever.             *)
NullsAreSkipped == [][SkipNull => readPos' > readPos]_serverVars
=============================================================================
