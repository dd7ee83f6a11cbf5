---------------------------- MODULE W5500Sockets ----------------------------
(***************************************************************************)
(* The hardware sockets of the W5500, as the socket library hands them out *)
(* (src/tssocketlib/src/tssocketlib_main.c) and the network driver uses    *)
(* the first of them (src/tsiplib_driver_w5500/src/w5500_raw_socket.c).    *)
(* The program is sequential, and a handle is never freed; the chip and    *)
(* the peers change the sockets' statuses meanwhile.                       *)
(*                                                                         *)
(* What the chip does with a command is not in the repository: OPEN        *)
(* starts a socket afresh whatever it was doing, LISTEN and CONNECT are    *)
(* for an open socket, DISCON sends a FIN, and CLOSE is immediate.         *)
(*                                                                         *)
(* A definition marked "Slip" is a plausible mistake in the one after it;  *)
(* no action uses it.  The properties are tried against these.             *)
(***************************************************************************)
EXTENDS Integers, Sequences, FiniteSets

CONSTANTS
    W5500_MAX_SOCKETS,
    MAX_HANDLES      \* bound: handles created

ASSUME SocketsAssumption ==
    W5500_MAX_SOCKETS \in Nat \ {0} /\ MAX_HANDLES \in Nat

VARIABLES
    status,          \* of each hardware socket
    handles,         \* the hardware socket of each handle, in order of id
    task,            \* what the program is in the middle of
    sn,              \* the hardware socket it is at
    inUse            \* history: the sockets that this search found in use

socketVars == <<status, handles, task, sn, inUse>>

SocketNumber == 0 .. W5500_MAX_SOCKETS - 1
Status ==
    {"closed", "init", "listen", "synsent", "established", "fin_wait",
     "closing", "time_wait", "close_wait", "last_ack", "macraw"}
(* What create may close to make room.                                     *)
Dying == {"last_ack", "time_wait", "fin_wait", "closing"}
(* A connection that at least one end still sends on.                      *)
Connected == {"established", "close_wait"}
-----------------------------------------------------------------------------
(* socket_init, after a reset of the chip.                                 *)
SocketsInit ==
    /\ status = [s \in SocketNumber |-> "closed"]
    /\ handles = <<>> /\ task = "none" /\ sn = 0 /\ inUse = {}

(* What the chip and the peer may do to a socket.                          *)
ChipMoves(from) ==
    CASE from = "listen"      -> {"established"}
      [] from = "synsent"     -> {"established", "closed"}
      [] from = "established" -> {"close_wait", "closed"}
      [] from = "fin_wait"    -> {"time_wait", "closing", "closed"}
      [] from = "closing"     -> {"time_wait", "closed"}
      [] from = "close_wait"  -> {"closed"}
      [] from \in {"time_wait", "last_ack"} -> {"closed"}
      [] OTHER                -> {}

ChipMovesSocket ==
    /\ \E s \in SocketNumber : \E to \in ChipMoves(status[s]) :
          status' = [status EXCEPT ![s] = to]
    /\ UNCHANGED <<handles, task, sn, inUse>>
-----------------------------------------------------------------------------
Becomes(s, new) == status' = [status EXCEPT ![s] = new]

Calls == task = "none"

(* A new handle on socket s.                                               *)
Handle(s) == handles' = Append(handles, s)

(* socket_create_raw: it closes all the sockets and opens the first.       *)
socket_create_raw ==
    /\ Calls /\ Len(handles) < MAX_HANDLES
    /\ status' = [s \in SocketNumber |->
                    IF s = 0 THEN "macraw"
                    ELSE "closed"]
    /\ Handle(0)
    /\ UNCHANGED <<task, sn, inUse>>

(* socket_create: a search for a socket that is closed.                    *)
socket_create ==
    /\ Calls /\ Len(handles) < MAX_HANDLES
    /\ task' = "searching" /\ sn' = 0 /\ inUse' = {}
    /\ UNCHANGED <<status, handles>>

(* Slip: a socket without a connection will do.                            *)
UnconnectedIsFree(seen) == seen \notin Connected

IsFree(seen) == seen = "closed"

Search ==
    /\ task = "searching" /\ sn < W5500_MAX_SOCKETS
    /\ IF IsFree(status[sn])
       THEN task' = "opening" /\ UNCHANGED <<sn, inUse>>
       ELSE sn' = sn + 1 /\ inUse' = inUse \cup {sn} /\ UNCHANGED task
    /\ UNCHANGED <<status, handles>>

(* None was closed: a search for one that can be.                          *)
SearchFails ==
    /\ task = "searching" /\ sn = W5500_MAX_SOCKETS
    /\ task' = "reclaiming" /\ sn' = 0
    /\ UNCHANGED <<status, inUse, handles>>

(* One that dies is closed; the loop counts on once more before it ends.   *)
Reclaim ==
    /\ task = "reclaiming" /\ sn < W5500_MAX_SOCKETS
    /\ sn' = sn + 1
    /\ IF status[sn] \in Dying
       THEN Becomes(sn, "closed") /\ task' = "opening"
       ELSE UNCHANGED <<status, task>>
    /\ UNCHANGED <<inUse, handles>>

(* The socket found is opened, whatever its status is by now.              *)
Open ==
    /\ task = "opening" /\ sn < W5500_MAX_SOCKETS
    /\ Becomes(sn, "init")
    /\ Handle(sn)
    /\ task' = "none"
    /\ UNCHANGED <<sn, inUse>>

(* NULL: nothing could be closed, or only the last could.                  *)
NoneAvailable ==
    /\ task \in {"reclaiming", "opening"} /\ sn = W5500_MAX_SOCKETS
    /\ task' = "none"
    /\ UNCHANGED <<status, sn, inUse, handles>>
-----------------------------------------------------------------------------
socket_close(h) ==
    /\ Calls
    /\ Becomes(handles[h], "closed")
    /\ UNCHANGED <<task, sn, inUse, handles>>

socket_connect(h) ==
    LET s == handles[h] IN
    /\ Calls /\ status[s] = "init"
    /\ Becomes(s, "synsent")
    /\ UNCHANGED <<task, sn, inUse, handles>>

socket_disconnect(h) ==
    LET s == handles[h] IN
    /\ Calls
    /\ \/ status[s] = "established" /\ Becomes(s, "fin_wait")
       \/ status[s] = "close_wait" /\ Becomes(s, "last_ack")
    /\ UNCHANGED <<task, sn, inUse, handles>>

(* socket_listen polls the status until it is ESTABLISHED.                 *)
socket_listen(h) ==
    LET s == handles[h] IN
    /\ Calls
    /\ status' = [status EXCEPT ![s] = IF @ = "init" THEN "listen" ELSE @]
    /\ task' = "listening" /\ sn' = s
    /\ UNCHANGED <<inUse, handles>>

ListenReturns ==
    /\ task = "listening" /\ status[sn] = "established"
    /\ task' = "none"
    /\ UNCHANGED <<status, sn, inUse, handles>>

Create ==
    \/ socket_create_raw \/ socket_create
    \/ Search \/ SearchFails \/ Reclaim \/ Open \/ NoneAvailable
SocketsNext ==
    \/ ChipMovesSocket \/ Create \/ ListenReturns
    \/ \E h \in 1 .. Len(handles) :
          \/ socket_close(h) \/ socket_connect(h) \/ socket_disconnect(h)
          \/ socket_listen(h)

SocketsSpec == SocketsInit /\ [][SocketsNext]_socketVars
-----------------------------------------------------------------------------
(* A create harms nobody, and gives up, only after it saw every hardware   *)
(* socket in use: whatever the chip does between its looks, as long as one *)
(* was closed it opens a closed one.                                       *)
HarmsOnlyWhenFull ==
    [][/\ Open /\ status[sn] # "closed" => inUse = SocketNumber
       /\ NoneAvailable => inUse = SocketNumber]_socketVars

(* The comments before the second search: "none are available / clean up   *)
(* any sockets eligible for closure".  What create opens is no connection  *)
(* that is still in use.  It opens the socket after the one it closed.     *)
ClosesOnlyEligible == [][Open => status[sn] \notin Connected]_socketVars
=============================================================================
