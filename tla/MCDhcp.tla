------------------------------- MODULE MCDhcp -------------------------------
(***************************************************************************)
(* Model checking of Dhcp: two servers; one names a netmask and a gateway, *)
(* the other only an address.                                              *)
(***************************************************************************)
EXTENDS Dhcp, TLC

CONSTANTS s1, s2, ip1, ip2, mask, gw, noip

MCOffers == {
    [server |-> s1, ip |-> ip1, netmask |-> mask, gateway |-> gw],
    [server |-> s2, ip |-> ip2, netmask |-> None, gateway |-> None] }
MCInitialNet == [ip |-> noip, netmask |-> None, gateway |-> None]
=============================================================================
