---------------------------- MODULE PortRegistry ----------------------------
(***************************************************************************)
(* What the UDP socket pool promises about ports, without sockets' other   *)
(* fields or how they are searched: each port has at most one holder, a    *)
(* holder keeps its port until it lets go of it itself or the pool is      *)
(* initialised again, and holds one port at a time.                        *)
(***************************************************************************)
CONSTANTS
    Holder,     \* who can hold a port
    Ports,      \* the ports that can be held
    Nobody      \* not a member of Holder

VARIABLE holder

RegInit == holder = [p \in Ports |-> Nobody]

Letting(h, s) == [p \in Ports |-> IF h[p] = s THEN Nobody ELSE h[p]]

(* s takes a port nobody else holds, letting go of the one it held.        *)
Take(s, p) ==
    /\ holder[p] \in {Nobody, s}
    /\ holder' = [Letting(holder, s) EXCEPT ![p] = s]

LetGo(s) == holder' = Letting(holder, s)

(* Everybody loses everything.                                             *)
Reset == holder' = [p \in Ports |-> Nobody]

RegNext == Reset \/ \E s \in Holder : LetGo(s) \/ \E p \in Ports : Take(s, p)

RegSpec == RegInit /\ [][RegNext]_holder
=============================================================================
