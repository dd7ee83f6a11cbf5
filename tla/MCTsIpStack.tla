----------------------------- MODULE MCTsIpStack -----------------------------
(***************************************************************************)
(* Model checking of TsIpStack: one host with an on-link peer, a gateway   *)
(* whose MAC address may change, and an off-link correspondent, which may  *)
(* be a DHCP server; fewer cache slots than addresses.                     *)
(***************************************************************************)
EXTENDS TsIpStack, TLC

CONSTANTS zero, me, peer, gw, far, group, all, m24, mp, mg, mh

MCIP == {zero, me, peer, gw, far, group, all}
MCSubnet == (m24 :> (zero :> "0" @@ me :> "lan" @@ peer :> "lan"
                     @@ gw :> "lan" @@ far :> "wan" @@ group :> "group"
                     @@ all :> "all"))

Arp(op, mac, ip, target) ==
    [type |-> "arp", to |-> "all", ok |-> TRUE, op |-> op, sender_mac |-> mac,
     sender_ip |-> ip, target_ip |-> target]
Ip(mac, src, dest, body) ==
    [type |-> "ip", to |-> "us", ok |-> TRUE, src_mac |-> mac, src |-> src,
     dest |-> dest, body |-> body]
EchoBody(kind, seq) == [kind |-> kind, seq |-> seq]
Udp(from, to) == [kind |-> "udp", src_port |-> from, dest_port |-> to]

(* A gateway that moves, a peer, a prober that has no address yet, echo    *)
(* requests and datagrams from both sides of the gateway, and one frame    *)
(* for each reason to drop one.                                            *)
MCFrames == {
    Arp("reply", mg, gw, me),
    Arp("reply", mh, gw, me),
    Arp("request", mp, peer, me),
    Arp("request", mp, zero, peer),
    [Arp("request", mh, peer, me) EXCEPT !.ok = FALSE],
    Ip(mg, far, me, EchoBody("echo_request", 0)),
    Ip(mp, peer, me, EchoBody("echo_request", 1)),
    Ip(mp, peer, me, EchoBody("echo_reply", 0)),
    Ip(mg, far, me, [kind |-> "junk"]),
    Ip(mg, far, me, Udp(7, 7)),
    Ip(mg, far, group, Udp(0, 0)),
    Ip(mp, peer, gw, Udp(7, 7)),
    [Ip(mp, peer, me, Udp(7, 7)) EXCEPT !.to = "other"] }

(* The frames of the liveness run.                                         *)
MCFewFrames == {
    Arp("reply", mg, gw, me),
    Arp("request", mp, peer, me),
    Ip(mg, far, me, EchoBody("echo_request", 0)),
    Ip(mg, far, me, Udp(7, 7)) }

MCConfigs == { [ip |-> me, netmask |-> m24, gateway |-> gw],
               [ip |-> me, netmask |-> m24, gateway |-> zero] }
=============================================================================
