------------------------------- MODULE IpAddr -------------------------------
(***************************************************************************)
(* The broadcast test of src/tsiplib/src/ip.c on real octets, with the     *)
(* integer promotions of C, which TsIpStack abstracts.  The netmask        *)
(* changes through ip_set_netmask while addresses are tested.              *)
(***************************************************************************)
EXTENDS Integers, Sequences, Bitwise

CONSTANTS Addresses,   \* 4-tuples of octets, 0 to 255
          Prefixes     \* prefix lengths of the netmasks used, 0 to 32

VARIABLES netmask, addr   \* addr: the address being tested

ipAddrVars == <<netmask, addr>>
-----------------------------------------------------------------------------
(* The netmask with n leading ones.                                        *)
OnesIn(n, octet) ==
    LET left == n - 8 * (octet - 1)
    IN  IF left <= 0 THEN 0 ELSE IF left >= 8 THEN 8 ELSE left
MaskOf(n) == [k \in 1 .. 4 |-> 256 - 2 ^ (8 - OnesIn(n, k))]

(* ~m of a uint8_t: promoted to int first, so the result is negative.      *)
Complement(m) == -(m + 1)
(* a & n for an octet a and any int n: only the low eight bits of n meet a *)
(* bit that is set.                                                        *)
AndInt(a, n) == a & (n % 256)

ip_addr_is_broadcast(a, mask) ==
    \A k \in 1 .. 4 : AndInt(a[k], Complement(mask[k])) = Complement(mask[k])
-----------------------------------------------------------------------------
IpAddrInit == netmask = MaskOf(24) /\ addr = <<0, 0, 0, 0>>

ip_set_netmask == netmask' \in { MaskOf(n) : n \in Prefixes } /\ UNCHANGED addr
Test == addr' \in Addresses /\ UNCHANGED netmask

IpAddrNext == ip_set_netmask \/ Test
IpAddrSpec == IpAddrInit /\ [][IpAddrNext]_ipAddrVars
-----------------------------------------------------------------------------
(* ip.c:256-258, "Check if packet is for us", lets in what is sent to a    *)
(* broadcast address, and dhcp.c:272 names 255.255.255.255 "broadcast":    *)
(* it ought to be recognised as one, whatever the netmask.                 *)
BroadcastIsRecognised ==
    addr = <<255, 255, 255, 255>> => ip_addr_is_broadcast(addr, netmask)
=============================================================================
