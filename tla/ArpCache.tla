------------------------------ MODULE ArpCache ------------------------------
(***************************************************************************)
(* The ARP cache of tsiplib (src/tsiplib/src/arp.c): a fixed table of      *)
(* ARP_CACHE_SIZE slots, filled by every ARP packet and every accepted IP  *)
(* packet, searched by arp_resolve, cleared by arp_init and                *)
(* arp_cache_flush.                                                        *)
(*                                                                         *)
(* The table is the variable cache.  The history variable claim holds, for *)
(* each IP address, the MAC address of the last arp_cache_add since the    *)
(* last clearing: what a lookup ought to find.                             *)
(*                                                                         *)
(* A definition marked "Slip" is a plausible mistake in the one after it;  *)
(* no action uses it.  The properties are tried against these.             *)
(***************************************************************************)
EXTENDS Integers, FiniteSets, Scan

CONSTANTS
    IP,                  \* ip_addr_t values
    Mac,                 \* eth_addr_t values
    NoMac,               \* "no MAC address": not a member of Mac
    ARP_CACHE_SIZE,      \* 16 in the code
    ARP_CACHE_TIMEOUT    \* 300 in the code

ASSUME SizeAssumption == ARP_CACHE_SIZE \in Nat \ {0}
(* The search for the oldest entry starts from 0xFFFF and looks for less.  *)
ASSUME TimeoutAssumption == ARP_CACHE_TIMEOUT \in 0..65534
ASSUME NoMacAssumption == NoMac \notin Mac

VARIABLES
    cache,   \* arp_cache
    claim    \* history: the last MAC address added for each IP address

arpVars == <<cache, claim>>
-----------------------------------------------------------------------------
Slots == 0 .. ARP_CACHE_SIZE - 1

(* arp_entry_t.  A slot whose valid flag is clear is Free: nothing reads   *)
(* the other fields of such a slot.                                        *)
Free == [valid |-> FALSE]
Entry(ip, mac, timeout) ==
    [valid |-> TRUE, ip |-> ip, mac |-> mac, timeout |-> timeout]

(* The slots a scan for ip stops at; the scan takes the first.             *)
Holding(c, ip) == { s \in Slots : c[s].valid /\ c[s].ip = ip }
FreeSlots(c) == { s \in Slots : ~c[s].valid }

(* The scan of arp_resolve.                                                *)
InCache(c, ip) == Holding(c, ip) # {}
Lookup(c, ip) == c[First(Holding(c, ip))].mac

(* The victim when no slot is free: the first slot whose timeout is below  *)
(* 0xFFFF and below that of every slot before it, and no slot after it has *)
(* less.                                                                   *)
Oldest(c) == CHOOSE s \in Slots : \A t \in Slots :
                \/ c[s].timeout < c[t].timeout
                \/ c[s].timeout = c[t].timeout /\ s <= t

(* Slip: the update of an existing entry is skipped.                       *)
SlotForNoUpdate(c, ip) ==
    IF FreeSlots(c) # {} THEN First(FreeSlots(c)) ELSE Oldest(c)

(* Slip: the free slots are never looked for once slot 0 is used.          *)
SlotForAlwaysFirst(c, ip) ==
    IF InCache(c, ip) THEN First(Holding(c, ip)) ELSE 0

(* Where arp_cache_add stores an entry for ip.                             *)
SlotFor(c, ip) ==
    IF InCache(c, ip) THEN First(Holding(c, ip))
    ELSE IF FreeSlots(c) # {} THEN First(FreeSlots(c))
    ELSE Oldest(c)

(* Slip: an address already present keeps its old MAC address.             *)
CacheAddKeepsOld(c, ip, mac) ==
    IF InCache(c, ip) THEN c
    ELSE [c EXCEPT ![SlotFor(c, ip)] = Entry(ip, mac, ARP_CACHE_TIMEOUT)]

CacheAdd(c, ip, mac) ==
    [c EXCEPT ![SlotFor(c, ip)] = Entry(ip, mac, ARP_CACHE_TIMEOUT)]

Cleared == [s \in Slots |-> Free]
-----------------------------------------------------------------------------
ArpInit ==
    /\ cache = Cleared
    /\ claim = [ip \in IP |-> NoMac]

arp_cache_add(ip, mac) ==
    /\ cache' = CacheAdd(cache, ip, mac)
    /\ claim' = [claim EXCEPT ![ip] = mac]

(* arp_init clears the table too.                                          *)
arp_cache_flush ==
    /\ cache' = Cleared
    /\ claim' = [ip \in IP |-> NoMac]

ArpNext ==
    \/ \E ip \in IP, mac \in Mac : arp_cache_add(ip, mac)
    \/ arp_cache_flush

ArpSpec == ArpInit /\ [][ArpNext]_arpVars
-----------------------------------------------------------------------------
(* Every slot is free or holds an entry with the full timeout: no code     *)
(* ever lowers the timeout arp_cache_add sets.                             *)
ArpTypeOK ==
    /\ cache \in [Slots -> {Free} \cup
           { Entry(ip, mac, ARP_CACHE_TIMEOUT) : ip \in IP, mac \in Mac }]
    /\ claim \in [IP -> Mac \cup {NoMac}]

(* No IP address occupies two slots, so the first match of a scan is the   *)
(* only one and updating it leaves no stale twin behind.                   *)
UniqueIp ==
    \A s, t \in Slots :
        cache[s].valid /\ cache[t].valid /\ cache[s].ip = cache[t].ip => s = t

(* An entry always carries the MAC address its IP address claimed last:    *)
(* arp_resolve never hands out a superseded address.                       *)
FreshMac ==
    \A s \in Slots : cache[s].valid => cache[s].mac = claim[cache[s].ip]

(* Used slots come before free ones: entries are never invalidated one by  *)
(* one.                                                                    *)
NoHoles ==
    \A s, t \in Slots : s < t /\ cache[t].valid => cache[s].valid

Known(c) == { ip \in IP : InCache(c, ip) }

(* Learning an address forgets another only when the table is full, and    *)
(* then forgets just one.                                                  *)
EvictionStep ==
    LET lost == Known(cache) \ Known(cache')
    IN  Known(cache') # {} =>
           /\ lost # {} => FreeSlots(cache) = {}
           /\ Cardinality(lost) <= 1
EvictsOnlyWhenFull == [][EvictionStep]_arpVars
=============================================================================
