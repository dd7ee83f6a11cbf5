---------------------------- MODULE TableProofs ----------------------------
(***************************************************************************)
(* Proofs about the stack's two tables: the ARP cache and the UDP socket   *)
(* pool, for every size of them and every set of addresses, ports and      *)
(* callbacks.                                                              *)
(***************************************************************************)
EXTENDS ArpCache, UdpSockets, FiniteSetTheorems, WellFoundedInduction, TLAPS

USE SizeAssumption, PoolAssumption

(* A non-empty bounded set of indices has a least member.  Among its       *)
(* initial segments, which are finite, there is a minimal one, and its     *)
(* last element is the least.                                              *)
LEMMA LeastExists ==
    ASSUME NEW n \in Nat, NEW S, S \subseteq 0 .. n, S # {}
    PROVE  \E x \in S : \A y \in S : x <= y
<1> DEFINE UpTo(x) == { y \in S : y <= x }
           Segments == { UpTo(x) : x \in S }
<1>1. IsFiniteSet(0 .. n)
  BY FS_Interval
<1>2. IsFiniteSet(S)
  BY <1>1, FS_Subset
<1>3. IsWellFoundedOn(StrictSubsetOrdering(S), SUBSET S)
  BY <1>2, FS_StrictSubsetOrderingWellFounded, FS_FiniteSubsetsOfFinite, Zenon
<1>4. Segments \subseteq SUBSET S /\ Segments # {}
  OBVIOUS
<1>5. PICK U \in Segments :
         \A V \in Segments : ~ (<<V, U>> \in StrictSubsetOrdering(S))
  BY <1>3, <1>4, WFMin, Zenon
<1>6. PICK x \in S : U = UpTo(x)
  BY <1>5
<1>7. ASSUME NEW y \in S, ~ (x <= y)
      PROVE  FALSE
  <2> x \in Int /\ y \in Int /\ \A z \in S : z \in Int
    OBVIOUS
  <2>1. UpTo(y) \subseteq UpTo(x) /\ x \in UpTo(x) /\ x \notin UpTo(y)
    <3>1. x \in UpTo(x) /\ x \notin UpTo(y)
      BY <1>7
    <3>2. \A z \in S : z <= y => z <= x
      BY <1>7
    <3> QED
      BY <3>1, <3>2
  <2> HIDE DEF UpTo
  <2>2. UpTo(y) \in SUBSET S /\ U \in SUBSET S /\ UpTo(y) \subseteq U
                   /\ UpTo(y) # U
    BY <2>1, <1>4, <1>5, <1>6
  <2>3. <<UpTo(y), U>> \in StrictSubsetOrdering(S)
    BY <2>2 DEF StrictSubsetOrdering
  <2> QED
    BY <2>3, <1>5
<1> QED
  BY <1>7

(* First is that member: the scan returns an entry that meets the          *)
(* condition, and none before it does.                                     *)
LEMMA FirstFound ==
    ASSUME NEW n \in Nat, NEW S, S \subseteq 0 .. n, S # {}
    PROVE  First(S) \in S /\ \A t \in S : First(S) <= t
BY LeastExists DEF First
-----------------------------------------------------------------------------
(* The ARP cache.                                                          *)
Entries == { Entry(ip, mac, ARP_CACHE_TIMEOUT) : ip \in IP, mac \in Mac }

(* The fields of an entry and of a free slot.                              *)
LEMMA Fields ==
    /\ Free.valid = FALSE
    /\ \A ip \in IP, mac \in Mac :
          LET e == Entry(ip, mac, ARP_CACHE_TIMEOUT)
          IN  /\ e \in Entries
              /\ e.valid = TRUE /\ e.ip = ip /\ e.mac = mac
              /\ e.timeout = ARP_CACHE_TIMEOUT
<1>1. Free.valid = FALSE
  BY DEF Free
<1>2. ASSUME NEW ip \in IP, NEW mac \in Mac
      PROVE  LET e == Entry(ip, mac, ARP_CACHE_TIMEOUT)
             IN  /\ e \in Entries
                 /\ e.valid = TRUE /\ e.ip = ip /\ e.mac = mac
                 /\ e.timeout = ARP_CACHE_TIMEOUT
  <2>1. Entry(ip, mac, ARP_CACHE_TIMEOUT) \in Entries
    BY DEF Entries
  <2> QED
    BY <2>1 DEF Entry
<1> QED
  BY <1>1, <1>2

(* A scan of the table returns a slot that meets its condition, and none   *)
(* before it does.                                                         *)
LEMMA ScanFindsSlot ==
    ASSUME NEW S, S \subseteq Slots, S # {}
    PROVE  First(S) \in S /\ \A t \in S : First(S) <= t
BY FirstFound, ARP_CACHE_SIZE - 1 \in Nat DEF Slots

(* What is known of a used and of a free slot.                             *)
LEMMA SlotShape ==
    ASSUME ArpTypeOK, NEW s \in Slots
    PROVE  /\ cache[s] \in {Free} \cup Entries
           /\ cache[s].valid \in BOOLEAN
           /\ ~cache[s].valid => cache[s] = Free
           /\ cache[s].valid => /\ cache[s].ip \in IP
                                /\ cache[s].mac \in Mac
                                /\ cache[s].timeout = ARP_CACHE_TIMEOUT
<1>1. cache[s] \in {Free} \cup Entries
  BY DEF ArpTypeOK, Entries
<1>2. CASE cache[s] = Free
  BY <1>2, Fields
<1>3. CASE cache[s] \in Entries
  <2>1. PICK ip \in IP, mac \in Mac :
           cache[s] = Entry(ip, mac, ARP_CACHE_TIMEOUT)
    BY <1>3 DEF Entries
  <2>2. /\ cache[s].valid = TRUE /\ cache[s].ip = ip /\ cache[s].mac = mac
        /\ cache[s].timeout = ARP_CACHE_TIMEOUT
    BY <2>1, Fields
  <2> QED
    BY <1>1, <2>2
<1> QED
  BY <1>1, <1>2, <1>3

(* A new entry never leaves the table.  When no slot is free, every        *)
(* timeout is ARP_CACHE_TIMEOUT, so the search for the oldest entry ends   *)
(* with slot 0.                                                            *)
LEMMA SlotForInTable ==
    ASSUME ArpTypeOK, NEW ip \in IP
    PROVE  /\ SlotFor(cache, ip) \in Slots
           /\ InCache(cache, ip) =>
                 SlotFor(cache, ip) \in Holding(cache, ip)
           /\ ~InCache(cache, ip) /\ FreeSlots(cache) # {} =>
                 /\ SlotFor(cache, ip) \in FreeSlots(cache)
                 /\ \A t \in FreeSlots(cache) : SlotFor(cache, ip) <= t
<1>1. CASE InCache(cache, ip)
  BY <1>1, ScanFindsSlot DEF SlotFor, InCache, Holding
<1>2. CASE ~InCache(cache, ip) /\ FreeSlots(cache) # {}
  BY <1>2, ScanFindsSlot DEF SlotFor, FreeSlots
<1>3. CASE ~InCache(cache, ip) /\ FreeSlots(cache) = {}
  <2>1. \A t \in Slots : cache[t].timeout = ARP_CACHE_TIMEOUT
    BY <1>3, SlotShape DEF FreeSlots
  <2>2. 0 \in Slots /\ \A t \in Slots : 0 <= t
    BY DEF Slots
  <2>3. Oldest(cache) \in Slots
    <3>1. \E s \in Slots : \A t \in Slots :
             \/ cache[s].timeout < cache[t].timeout
             \/ cache[s].timeout = cache[t].timeout /\ s <= t
      BY <2>1, <2>2
    <3> QED
      BY <3>1 DEF Oldest
  <2> QED
    BY <1>3, <2>3 DEF SlotFor
<1> QED
  BY <1>1, <1>2, <1>3

(* What arp_cache_add does to the table, slot by slot.                     *)
LEMMA CacheAfterAdd ==
    ASSUME ArpTypeOK, NEW ip \in IP, NEW mac \in Mac, arp_cache_add(ip, mac)
    PROVE  \A s \in Slots :
              cache'[s] = IF s = SlotFor(cache, ip)
                          THEN Entry(ip, mac, ARP_CACHE_TIMEOUT) ELSE cache[s]
BY DEF ArpTypeOK, arp_cache_add, CacheAdd

(* Every step of the cache keeps the types: in particular every used entry *)
(* carries the full timeout, which is why the search for the oldest entry  *)
(* cannot tell one from another.                                           *)
LEMMA ArpTypeStep == ArpTypeOK /\ [ArpNext]_arpVars => ArpTypeOK'
<1> SUFFICES ASSUME ArpTypeOK, [ArpNext]_arpVars PROVE ArpTypeOK'
  OBVIOUS
<1>1. ASSUME NEW ip \in IP, NEW mac \in Mac, arp_cache_add(ip, mac)
      PROVE  ArpTypeOK'
  <2>1. SlotFor(cache, ip) \in Slots
    BY SlotForInTable
  <2>2. cache' \in [Slots -> {Free} \cup Entries]
    <3>1. cache \in [Slots -> {Free} \cup Entries]
      BY DEF ArpTypeOK, Entries
    <3>2. Entry(ip, mac, ARP_CACHE_TIMEOUT) \in {Free} \cup Entries
      BY Fields
    <3> QED
      BY <1>1, <2>1, <3>1, <3>2 DEF arp_cache_add, CacheAdd
  <2>3. claim' \in [IP -> Mac \cup {NoMac}]
    BY <1>1 DEF ArpTypeOK, arp_cache_add
  <2> QED
    BY <2>2, <2>3 DEF ArpTypeOK, Entries
<1>2. CASE arp_cache_flush
  BY <1>2 DEF ArpTypeOK, arp_cache_flush, Cleared
<1>3. CASE UNCHANGED arpVars
  BY <1>3 DEF ArpTypeOK, arpVars
<1> QED
  BY <1>1, <1>2, <1>3 DEF ArpNext
-----------------------------------------------------------------------------
(* The table and the history keep their types.                             *)
THEOREM ArpTypeCorrect == ArpSpec => []ArpTypeOK
<1>1. ArpInit => ArpTypeOK
  BY DEF ArpInit, ArpTypeOK, Cleared
<1> QED
  BY <1>1, ArpTypeStep, PTL DEF ArpSpec

(* No IP address ever occupies two slots, whatever addresses claim what    *)
(* and however often the table fills up.                                   *)
THEOREM IpIsUnique == ArpSpec => []UniqueIp
<1>1. ArpInit => UniqueIp
  BY Fields DEF ArpInit, UniqueIp, Cleared
<1>2. ArpTypeOK /\ UniqueIp /\ [ArpNext]_arpVars => UniqueIp'
  <2> SUFFICES ASSUME ArpTypeOK, UniqueIp, [ArpNext]_arpVars PROVE UniqueIp'
    OBVIOUS
  <2>1. ASSUME NEW ip \in IP, NEW mac \in Mac, arp_cache_add(ip, mac)
        PROVE  UniqueIp'
    <3> DEFINE k == SlotFor(cache, ip)
    <3>1. \A s \in Slots : cache[s].valid /\ cache[s].ip = ip => s = k
      <4>1. CASE InCache(cache, ip)
        BY <4>1, SlotForInTable DEF UniqueIp, Holding
      <4>2. CASE ~InCache(cache, ip)
        BY <4>2 DEF InCache, Holding
      <4> QED
        BY <4>1, <4>2
    <3>2. \A s \in Slots :
             cache'[s] = IF s = k THEN Entry(ip, mac, ARP_CACHE_TIMEOUT)
                         ELSE cache[s]
      BY <2>1, CacheAfterAdd
    <3> HIDE DEF k
    <3>3. ASSUME NEW s \in Slots, NEW t \in Slots,
                 cache'[s].valid, cache'[t].valid, cache'[s].ip = cache'[t].ip
          PROVE  s = t
      <4>1. Entry(ip, mac, ARP_CACHE_TIMEOUT).ip = ip
        BY Fields
      <4> QED
        BY <3>1, <3>2, <3>3, <4>1 DEF UniqueIp
    <3> QED
      BY <3>3 DEF UniqueIp
  <2>2. CASE arp_cache_flush
    BY <2>2, Fields DEF UniqueIp, arp_cache_flush, Cleared
  <2>3. CASE UNCHANGED arpVars
    BY <2>3 DEF UniqueIp, arpVars
  <2> QED
    BY <2>1, <2>2, <2>3 DEF ArpNext
<1> QED
  BY <1>1, <1>2, ArpTypeCorrect, PTL DEF ArpSpec

(* An entry always carries the MAC address its IP address claimed last.    *)
(* The step needs UniqueIp: a second entry for the address would keep the  *)
(* old one.                                                                *)
THEOREM MacIsFresh == ArpSpec => []FreshMac
<1>1. ArpInit => FreshMac
  BY Fields DEF ArpInit, FreshMac, Cleared
<1>2. ArpTypeOK /\ UniqueIp /\ FreshMac /\ [ArpNext]_arpVars => FreshMac'
  <2> SUFFICES ASSUME ArpTypeOK, UniqueIp, FreshMac, [ArpNext]_arpVars
               PROVE  FreshMac'
    OBVIOUS
  <2>1. ASSUME NEW ip \in IP, NEW mac \in Mac, arp_cache_add(ip, mac)
        PROVE  FreshMac'
    <3> DEFINE k == SlotFor(cache, ip)
    <3>1. \A s \in Slots \ {k} : cache[s].valid => cache[s].ip # ip
      <4>1. CASE InCache(cache, ip)
        BY <4>1, SlotForInTable DEF UniqueIp, Holding
      <4>2. CASE ~InCache(cache, ip)
        BY <4>2 DEF InCache, Holding
      <4> QED
        BY <4>1, <4>2
    <3>2. \A s \in Slots :
             cache'[s] = IF s = k THEN Entry(ip, mac, ARP_CACHE_TIMEOUT)
                         ELSE cache[s]
      BY <2>1, CacheAfterAdd
    <3>3. claim' = [claim EXCEPT ![ip] = mac] /\ claim \in [IP -> Mac \cup {NoMac}]
      BY <2>1 DEF arp_cache_add, ArpTypeOK
    <3> HIDE DEF k
    <3>4. ASSUME NEW s \in Slots, cache'[s].valid
          PROVE  cache'[s].mac = claim'[cache'[s].ip]
      <4>1. CASE s = k
        BY <3>2, <3>3, <4>1, Fields
      <4>2. CASE s # k
        <5>1. cache'[s] = cache[s] /\ cache[s].ip # ip
          BY <3>1, <3>2, <3>4, <4>2
        <5>2. cache[s].ip \in IP /\ cache[s].mac = claim[cache[s].ip]
          BY <3>4, <5>1, SlotShape DEF FreshMac
        <5> QED
          BY <3>3, <5>1, <5>2
      <4> QED
        BY <4>1, <4>2
    <3> QED
      BY <3>4 DEF FreshMac
  <2>2. CASE arp_cache_flush
    BY <2>2, Fields DEF FreshMac, arp_cache_flush, Cleared
  <2>3. CASE UNCHANGED arpVars
    BY <2>3 DEF FreshMac, arpVars
  <2> QED
    BY <2>1, <2>2, <2>3 DEF ArpNext
<1> QED
  BY <1>1, <1>2, ArpTypeCorrect, IpIsUnique, PTL DEF ArpSpec

(* The used slots form a prefix of the table: a free slot is only taken    *)
(* when it is the first, and only a flush frees one.                       *)
THEOREM UsedSlotsComeFirst == ArpSpec => []NoHoles
<1>1. ArpInit => NoHoles
  BY Fields DEF ArpInit, NoHoles, Cleared
<1>2. ArpTypeOK /\ NoHoles /\ [ArpNext]_arpVars => NoHoles'
  <2> SUFFICES ASSUME ArpTypeOK, NoHoles, [ArpNext]_arpVars PROVE NoHoles'
    OBVIOUS
  <2>1. ASSUME NEW ip \in IP, NEW mac \in Mac, arp_cache_add(ip, mac)
        PROVE  NoHoles'
    <3> DEFINE k == SlotFor(cache, ip)
    <3>1. k \in Slots /\ \A s \in Slots : s < k => cache[s].valid
      <4>1. CASE InCache(cache, ip)
        BY <4>1, SlotForInTable DEF NoHoles, Holding
      <4>2. CASE ~InCache(cache, ip) /\ FreeSlots(cache) # {}
        <5>1. \A t \in FreeSlots(cache) : k <= t
          BY <4>2, SlotForInTable
        <5> QED
          BY <5>1, SlotForInTable DEF FreeSlots, Slots
      <4>3. CASE FreeSlots(cache) = {}
        BY <4>3, SlotForInTable DEF FreeSlots
      <4> QED
        BY <4>1, <4>2, <4>3
    <3>2. \A s \in Slots :
             cache'[s] = IF s = k THEN Entry(ip, mac, ARP_CACHE_TIMEOUT)
                         ELSE cache[s]
      BY <2>1, CacheAfterAdd
    <3>3. Entry(ip, mac, ARP_CACHE_TIMEOUT).valid
      BY Fields
    <3> HIDE DEF k
    <3> QED
      BY <3>1, <3>2, <3>3 DEF NoHoles
  <2>2. CASE arp_cache_flush
    BY <2>2, Fields DEF NoHoles, arp_cache_flush, Cleared
  <2>3. CASE UNCHANGED arpVars
    BY <2>3 DEF NoHoles, arpVars
  <2> QED
    BY <2>1, <2>2, <2>3 DEF ArpNext
<1> QED
  BY <1>1, <1>2, ArpTypeCorrect, PTL DEF ArpSpec

(* In a full table the "oldest" entry is always the first: every entry has *)
(* the timeout it was added with, so one new address after another goes to *)
(* slot 0, each forgetting the last, and the other entries stay.           *)
OldestIsFirst ==
    \A ip \in IP :
        FreeSlots(cache) = {} /\ ~InCache(cache, ip) => SlotFor(cache, ip) = 0

THEOREM FullCacheReusesSlot0 == ArpSpec => []OldestIsFirst
<1>1. ASSUME ArpTypeOK, NEW ip \in IP, FreeSlots(cache) = {}, ~InCache(cache, ip)
      PROVE  SlotFor(cache, ip) = 0
  <2>1. \A t \in Slots : cache[t].timeout = ARP_CACHE_TIMEOUT
    BY <1>1, SlotShape DEF FreeSlots
  <2>2. 0 \in Slots /\ \A s \in Slots : 0 <= s /\ s \in Nat
    BY DEF Slots
  <2>3. Oldest(cache) = 0
    <3> DEFINE Before(s, t) == \/ cache[s].timeout < cache[t].timeout
                               \/ cache[s].timeout = cache[t].timeout /\ s <= t
    <3>1. \A s, t \in Slots : Before(s, t) <=> s <= t
      <4>1. ~ (ARP_CACHE_TIMEOUT < ARP_CACHE_TIMEOUT)
        BY TimeoutAssumption
      <4> QED
        BY <2>1, <4>1, Zenon
    <3>2. \A t \in Slots : Before(0, t)
      BY <2>2, <3>1
    <3>3. ASSUME NEW s \in Slots, \A t \in Slots : Before(s, t) PROVE s = 0
      BY <2>2, <3>1, <3>3
    <3>4. Oldest(cache) = CHOOSE s \in Slots : \A t \in Slots : Before(s, t)
      BY DEF Oldest
    <3> HIDE DEF Before
    <3> QED
      BY <2>2, <3>2, <3>3, <3>4, Zenon
  <2> QED
    BY <1>1, <2>3 DEF SlotFor
<1>2. ArpTypeOK => OldestIsFirst
  BY <1>1 DEF OldestIsFirst
<1> QED
  BY <1>2, ArpTypeCorrect, PTL

(* Learning an address never costs more than one other, and none while a   *)
(* slot is free: the scan for a free slot cannot be beaten by the search   *)
(* for the oldest entry.                                                   *)
THEOREM EvictionIsLastResort == ArpSpec => EvictsOnlyWhenFull
<1>1. ArpTypeOK /\ [ArpNext]_arpVars => [EvictionStep]_arpVars
  <2> SUFFICES ASSUME ArpTypeOK, ArpNext PROVE EvictionStep
    BY DEF arpVars
  <2> DEFINE lost == Known(cache) \ Known(cache')
  <2>1. ASSUME NEW ip \in IP, NEW mac \in Mac, arp_cache_add(ip, mac)
        PROVE  EvictionStep
    <3> DEFINE k == SlotFor(cache, ip)
    <3>1. k \in Slots /\ \A s \in Slots :
             cache'[s] = IF s = k THEN Entry(ip, mac, ARP_CACHE_TIMEOUT)
                         ELSE cache[s]
      BY <2>1, CacheAfterAdd, SlotForInTable
    <3>2. Entry(ip, mac, ARP_CACHE_TIMEOUT).valid = TRUE
          /\ Entry(ip, mac, ARP_CACHE_TIMEOUT).ip = ip
      BY Fields
    <3>3. /\ InCache(cache, ip) => k \in Holding(cache, ip)
          /\ ~InCache(cache, ip) /\ FreeSlots(cache) # {} =>
                k \in FreeSlots(cache)
      BY SlotForInTable
    <3> HIDE DEF k
    <3>4. ASSUME NEW i \in lost
          PROVE  /\ k \in Slots /\ cache[k].valid /\ cache[k].ip = i
                 /\ i # ip
      <4>1. PICK s \in Slots : cache[s].valid /\ cache[s].ip = i
        BY <3>4 DEF Known, InCache, Holding
      <4>2. \A t \in Slots : ~(cache'[t].valid /\ cache'[t].ip = i)
        BY <3>4 DEF Known, InCache, Holding
      <4>3. s = k
        BY <3>1, <4>1, <4>2
      <4> QED
        BY <3>1, <3>2, <4>1, <4>2, <4>3
    <3>5. lost # {} => FreeSlots(cache) = {}
      <4> SUFFICES ASSUME NEW i \in lost PROVE FreeSlots(cache) = {}
        OBVIOUS
      <4> QED
        BY <3>3, <3>4 DEF Holding, FreeSlots
    <3>6. Cardinality(lost) <= 1
      <4>1. lost = {} \/ \E x : lost = {x}
        BY <3>4
      <4> HIDE DEF lost
      <4>2. ASSUME lost = {} PROVE Cardinality(lost) = 0
        BY <4>2, FS_EmptySet
      <4>3. ASSUME NEW x, lost = {x} PROVE Cardinality(lost) = 1
        BY <4>3, FS_Singleton
      <4> QED
        BY <4>1, <4>2, <4>3
    <3> QED
      BY <3>5, <3>6 DEF EvictionStep
  <2>2. CASE arp_cache_flush
    <3>1. \A s \in Slots : ~cache'[s].valid
      BY <2>2, Fields DEF arp_cache_flush, Cleared
    <3>2. Known(cache') = {}
      BY <3>1 DEF Known, InCache, Holding
    <3> QED
      BY <3>2 DEF EvictionStep
  <2> QED
    BY <2>1, <2>2 DEF ArpNext
<1> QED
  BY <1>1, ArpTypeCorrect, PTL DEF ArpSpec, EvictsOnlyWhenFull
-----------------------------------------------------------------------------
(* The socket pool.                                                        *)
(* A scan of the table returns a slot that meets its condition, and none   *)
(* before it does.                                                         *)
LEMMA ScanFindsSocket ==
    ASSUME NEW S, S \subseteq SocketId, S # {}
    PROVE  First(S) \in S /\ \A t \in S : First(S) <= t
BY FirstFound, MAX_UDP_SOCKETS - 1 \in Nat DEF SocketId

(* A free slot is of the type of a slot, and so is one that was just taken.*)
LEMMA Blank ==
    /\ Zeroed \in Socket /\ ~Zeroed.in_use /\ Zeroed.local_port = 0
    /\ [Zeroed EXCEPT !.in_use = TRUE] \in Socket
    /\ [Zeroed EXCEPT !.in_use = TRUE].in_use
    /\ [Zeroed EXCEPT !.in_use = TRUE].local_port = 0
BY DEF Zeroed, Socket

(* What a step does to the table: it clears it, or rewrites one slot.  A   *)
(* slot whose port the step sets had no rival for it.                      *)
Rewrites(s) ==
    /\ sockets' = [sockets EXCEPT ![s] = sockets'[s]]
    /\ sockets'[s] \in Socket
    /\ ~sockets'[s].in_use => sockets'[s] = Zeroed
    /\ \/ sockets'[s].local_port = 0
       \/ sockets'[s].local_port = sockets[s].local_port /\ sockets[s].in_use
       \/ ~PortTaken(s, sockets'[s].local_port)

LEMMA TakesOneSlot ==
    ASSUME UdpTypeOK, udp_socket_create
    PROVE  \E s \in SocketId : ~sockets[s].in_use /\ Rewrites(s)
<1> DEFINE s == First(FreeSockets)
           new == [Zeroed EXCEPT !.in_use = TRUE]
<1>1. s \in FreeSockets
  BY ScanFindsSocket DEF udp_socket_create, FreeSockets
<1>2. s \in SocketId /\ ~sockets[s].in_use
  BY <1>1 DEF FreeSockets
<1>3. sockets' = [sockets EXCEPT ![s] = new]
  BY DEF udp_socket_create
<1>4. new \in Socket /\ new.in_use /\ new.local_port = 0
  BY Blank
<1> HIDE DEF s, new
<1>5. sockets'[s] = new
  BY <1>2, <1>3 DEF UdpTypeOK
<1> QED
  BY <1>2, <1>3, <1>4, <1>5 DEF Rewrites

LEMMA BindRewrites ==
    ASSUME UdpTypeOK, NEW s \in SocketId, NEW port \in Port,
           udp_socket_bind(s, port)
    PROVE  Rewrites(s)
<1>1. sockets' = [sockets EXCEPT ![s] = [sockets[s] EXCEPT !.local_port = port]]
  BY DEF udp_socket_bind
<1>2. sockets'[s] = [sockets[s] EXCEPT !.local_port = port] /\ sockets[s] \in Socket
  BY <1>1 DEF UdpTypeOK
<1>3. sockets'[s] \in Socket /\ sockets'[s].in_use /\ sockets'[s].local_port = port
  BY <1>2 DEF udp_socket_bind, Socket
<1>4. ~PortTaken(s, port)
  BY DEF udp_socket_bind
<1> QED
  BY <1>1, <1>2, <1>3, <1>4 DEF Rewrites

LEMMA ConnectRewrites ==
    ASSUME UdpTypeOK, NEW s \in SocketId, NEW ip \in Addr, NEW port \in Port,
           udp_socket_connect(s, ip, port)
    PROVE  Rewrites(s)
<1>1. sockets' = [sockets EXCEPT ![s] =
                     [sockets[s] EXCEPT !.remote_ip = ip, !.remote_port = port]]
  BY DEF udp_socket_connect, UdpTypeOK, Socket
<1>2. /\ sockets'[s] = [sockets[s] EXCEPT !.remote_ip = ip, !.remote_port = port]
      /\ sockets[s] \in Socket
  BY <1>1 DEF UdpTypeOK
<1>3. /\ sockets'[s] \in Socket /\ sockets'[s].in_use
      /\ sockets'[s].local_port = sockets[s].local_port
  <2>1. ASSUME NEW old \in Socket
        PROVE  LET new == [old EXCEPT !.remote_ip = ip, !.remote_port = port]
               IN  /\ new \in Socket /\ new.in_use = old.in_use
                   /\ new.local_port = old.local_port
    BY DEF Socket
  <2>2. sockets[s].in_use
    BY DEF udp_socket_connect
  <2> QED
    BY <1>2, <2>1, <2>2
<1> QED
  BY <1>1, <1>2, <1>3 DEF Rewrites, udp_socket_connect

LEMMA CallbackRewrites ==
    ASSUME UdpTypeOK, NEW s \in SocketId, NEW cb \in Callback,
           udp_socket_set_rx_callback(s, cb)
    PROVE  Rewrites(s)
<1>1. sockets' = [sockets EXCEPT ![s] = [sockets[s] EXCEPT !.rx_callback = cb]]
  BY DEF udp_socket_set_rx_callback
<1>2. sockets'[s] = [sockets[s] EXCEPT !.rx_callback = cb] /\ sockets[s] \in Socket
  BY <1>1 DEF UdpTypeOK
<1>3. /\ sockets'[s] \in Socket /\ sockets'[s].in_use
      /\ sockets'[s].local_port = sockets[s].local_port
  BY <1>2 DEF udp_socket_set_rx_callback, Socket
<1> QED
  BY <1>1, <1>2, <1>3 DEF Rewrites, udp_socket_set_rx_callback

LEMMA CloseRewrites ==
    ASSUME UdpTypeOK, NEW s \in SocketId, udp_socket_close(s)
    PROVE  Rewrites(s)
<1>1. sockets' = [sockets EXCEPT ![s] = Zeroed] /\ sockets'[s] = Zeroed
  BY DEF UdpTypeOK, udp_socket_close
<1> QED
  BY <1>1, Blank DEF Rewrites

(* Every step of the pool is one of these.                                 *)
PoolStep ==
    \/ sockets' = [s \in SocketId |-> Zeroed]
    \/ UNCHANGED sockets
    \/ \E s \in SocketId : Rewrites(s)

LEMMA StepShape ==
    ASSUME UdpTypeOK, [UdpNext]_udpVars
    PROVE  PoolStep
<1>1. CASE udp_init
  BY <1>1 DEF udp_init, PoolStep
<1>2. CASE udp_socket_create
  BY <1>2, TakesOneSlot DEF PoolStep
<1>3. ASSUME NEW s \in SocketId,
             \/ \E port \in Port : udp_socket_bind(s, port)
             \/ \E ip \in Addr, port \in Port : udp_socket_connect(s, ip, port)
             \/ udp_socket_close(s)
             \/ \E cb \in Callback : udp_socket_set_rx_callback(s, cb)
      PROVE  Rewrites(s)
  BY <1>3, BindRewrites, ConnectRewrites, CallbackRewrites, CloseRewrites
<1>4. ASSUME NEW src \in Addr, NEW src_port \in Port \cup {0},
             NEW dest_port \in Port \cup {0},
             udp_rx_callback(src, src_port, dest_port)
      PROVE  UNCHANGED sockets
  BY <1>4 DEF udp_rx_callback
<1>5. CASE UNCHANGED udpVars
  BY <1>5 DEF udpVars, PoolStep
<1> QED
  BY <1>1, <1>2, <1>3, <1>4, <1>5 DEF UdpNext, PoolStep

(* Such a step keeps the type of the table, the uniqueness of ports and    *)
(* the blankness of closed sockets.                                        *)
LEMMA TableKept == UdpTypeOK /\ PoolStep => sockets' \in [SocketId -> Socket]
<1> SUFFICES ASSUME UdpTypeOK, PoolStep PROVE sockets' \in [SocketId -> Socket]
  OBVIOUS
<1>1. CASE sockets' = [s \in SocketId |-> Zeroed]
  BY <1>1, Blank
<1>2. CASE UNCHANGED sockets
  BY <1>2 DEF UdpTypeOK
<1>3. CASE \E s \in SocketId : Rewrites(s)
  BY <1>3 DEF UdpTypeOK, Rewrites
<1> QED
  BY <1>1, <1>2, <1>3 DEF PoolStep

LEMMA UniquenessKept == UdpTypeOK /\ UniquePort /\ PoolStep => UniquePort'
<1> SUFFICES ASSUME UdpTypeOK, UniquePort, PoolStep PROVE UniquePort'
  OBVIOUS
<1>1. CASE sockets' = [s \in SocketId |-> Zeroed]
  BY <1>1, Blank DEF UniquePort
<1>2. CASE UNCHANGED sockets
  BY <1>2 DEF UniquePort
<1>3. ASSUME NEW s \in SocketId, Rewrites(s)
      PROVE  UniquePort'
  <2>1. \A t \in SocketId \ {s} : sockets'[t] = sockets[t]
    BY <1>3 DEF Rewrites, UdpTypeOK
  <2>2. ASSUME NEW t \in SocketId \ {s}, sockets[t].in_use,
               sockets'[s].local_port # 0
        PROVE  sockets'[s].local_port # sockets[t].local_port
    <3>1. CASE sockets'[s].local_port = sockets[s].local_port /\ sockets[s].in_use
      BY <2>2, <3>1 DEF UniquePort
    <3>2. CASE ~PortTaken(s, sockets'[s].local_port)
      BY <2>2, <3>2 DEF PortTaken
    <3> QED
      BY <1>3, <2>2, <3>1, <3>2 DEF Rewrites
  <2> QED
    BY <2>1, <2>2 DEF UniquePort
<1> QED
  BY <1>1, <1>2, <1>3 DEF PoolStep

LEMMA BlanknessKept == UdpTypeOK /\ ClosedIsBlank /\ PoolStep => ClosedIsBlank'
<1> SUFFICES ASSUME UdpTypeOK, ClosedIsBlank, PoolStep PROVE ClosedIsBlank'
  OBVIOUS
<1>1. CASE sockets' = [s \in SocketId |-> Zeroed]
  BY <1>1 DEF ClosedIsBlank
<1>2. CASE UNCHANGED sockets
  BY <1>2 DEF ClosedIsBlank
<1>3. ASSUME NEW s \in SocketId, Rewrites(s)
      PROVE  ClosedIsBlank'
  <2>1. \A t \in SocketId \ {s} : sockets'[t] = sockets[t]
    BY <1>3 DEF Rewrites, UdpTypeOK
  <2> QED
    BY <1>3, <2>1 DEF ClosedIsBlank, Rewrites
<1> QED
  BY <1>1, <1>2, <1>3 DEF PoolStep

(* A datagram is only ever handed to a socket of the table.                *)
LEMMA ReceiverInTable ==
    UdpTypeOK /\ [UdpNext]_udpVars => delivered' \in SocketId \cup {Nobody}
<1> SUFFICES ASSUME UdpTypeOK, [UdpNext]_udpVars
             PROVE  delivered' \in SocketId \cup {Nobody}
  OBVIOUS
<1>1. ASSUME NEW src \in Addr, NEW src_port \in Port \cup {0},
             NEW dest_port \in Port \cup {0},
             udp_rx_callback(src, src_port, dest_port)
      PROVE  delivered' \in SocketId \cup {Nobody}
  <2> DEFINE to == Acceptors(src, src_port, dest_port)
  <2>1. to # {} => First(to) \in SocketId
    BY ScanFindsSocket DEF Acceptors
  <2> QED
    BY <1>1, <2>1 DEF udp_rx_callback
<1>2. CASE delivered' = Nobody
  BY <1>2
<1>3. CASE UNCHANGED udpVars
  BY <1>3 DEF udpVars, UdpTypeOK
<1> QED
  BY <1>1, <1>2, <1>3 DEF UdpNext, udp_init, udp_socket_create,
     udp_socket_bind, udp_socket_connect, udp_socket_close,
     udp_socket_set_rx_callback

LEMMA UdpTypeStep == UdpTypeOK /\ [UdpNext]_udpVars => UdpTypeOK'
BY StepShape, TableKept, ReceiverInTable DEF UdpTypeOK
-----------------------------------------------------------------------------
(* The table and the last receiver keep their types.                       *)
THEOREM UdpTypeCorrect == UdpSpec => []UdpTypeOK
<1>1. UdpInit => UdpTypeOK
  BY Blank DEF UdpInit, UdpTypeOK
<1> QED
  BY <1>1, UdpTypeStep, PTL DEF UdpSpec

(* No two open sockets ever share a local port, however often sockets are  *)
(* closed, taken again and bound anew: a datagram for a bound port has one *)
(* possible receiver.                                                      *)
THEOREM PortsAreUnique == UdpSpec => []UniquePort
<1>1. UdpInit => UniquePort
  BY Blank DEF UdpInit, UniquePort
<1>2. UdpTypeOK /\ UniquePort /\ [UdpNext]_udpVars => UniquePort'
  BY StepShape, UniquenessKept
<1> QED
  BY <1>1, <1>2, UdpTypeCorrect, PTL DEF UdpSpec

(* A closed socket is always blank: no call through a stale handle leaves  *)
(* anything for the next owner of the slot.                                *)
THEOREM ClosedStaysBlank == UdpSpec => []ClosedIsBlank
<1>1. UdpInit => ClosedIsBlank
  BY DEF UdpInit, ClosedIsBlank
<1>2. UdpTypeOK /\ ClosedIsBlank /\ [UdpNext]_udpVars => ClosedIsBlank'
  BY StepShape, BlanknessKept
<1> QED
  BY <1>1, <1>2, UdpTypeCorrect, PTL DEF UdpSpec
-----------------------------------------------------------------------------
(* Who holds a port.                                                       *)
HolderOf(port) ==
    IF BoundTo(port) = {} THEN Nobody ELSE First(BoundTo(port))

(* Port 0 is that of an unbound socket alone.                              *)
LEMMA PortIsNotZero == 0 \notin Port
BY PortAssumption

(* When at most one socket is bound to a port, that one holds it.          *)
LEMMA OneHolder ==
    ASSUME NEW B, B \subseteq SocketId, \A s, t \in B : s = t
    PROVE  LET h == IF B = {} THEN Nobody ELSE First(B)
           IN  /\ h \in SocketId \cup {Nobody}
               /\ \A s \in SocketId : h = s <=> s \in B
<1>1. CASE B = {}
  BY <1>1, NobodyAssumption DEF SocketId
<1>2. CASE B # {}
  <2>1. First(B) \in B
    BY <1>2, ScanFindsSocket
  <2> QED
    BY <1>2, <2>1
<1> QED
  BY <1>1, <1>2

LEMMA HoldersNow ==
    ASSUME UniquePort, NEW port \in Port
    PROVE  /\ HolderOf(port) \in SocketId \cup {Nobody}
           /\ \A s \in SocketId : HolderOf(port) = s <=> s \in BoundTo(port)
<1>1. port # 0
  BY PortIsNotZero
<1>2. BoundTo(port) \subseteq SocketId /\ \A s, t \in BoundTo(port) : s = t
  BY <1>1 DEF BoundTo, UniquePort
<1> QED
  BY <1>2, OneHolder DEF HolderOf

LEMMA HoldersNext ==
    ASSUME UniquePort', NEW port \in Port
    PROVE  /\ HolderOf(port)' \in SocketId \cup {Nobody}
           /\ \A s \in SocketId : HolderOf(port)' = s <=> s \in BoundTo(port)'
<1>1. port # 0
  BY PortIsNotZero
<1>2. BoundTo(port)' \subseteq SocketId /\ \A s, t \in BoundTo(port)' : s = t
  BY <1>1 DEF BoundTo, UniquePort
<1> QED
  BY <1>2, OneHolder DEF HolderOf

(* A step that rewrites one socket is a step of the registry: the socket   *)
(* lets go of its port, or takes one that no other socket holds.           *)
LEMMA RewritesIsRegistryStep ==
    ASSUME UdpTypeOK, UniquePort, UniquePort', NEW s \in SocketId, Rewrites(s)
    PROVE  Registry!RegNext
<1> DEFINE holder == [port \in Port |-> HolderOf(port)]
           q == sockets'[s].local_port
<1>1. \A port \in Port : \A t \in SocketId \ {s} :
         t \in BoundTo(port)' <=> t \in BoundTo(port)
  BY DEF Rewrites, UdpTypeOK, BoundTo
<1>2. \A port \in Port :
         s \in BoundTo(port)' <=> sockets'[s].in_use /\ port = q
  BY DEF BoundTo
<1>3. ASSUME NEW port \in Port
      PROVE  /\ s \in BoundTo(port)' => HolderOf(port)' = s
             /\ s \notin BoundTo(port)' =>
                   HolderOf(port)' = IF HolderOf(port) = s THEN Nobody
                                     ELSE HolderOf(port)
  BY <1>1, HoldersNow, HoldersNext, NobodyAssumption DEF SocketId, UniquePort, BoundTo
<1>4. CASE sockets'[s].in_use /\ q # 0
  <2>1. q \in Port
    BY <1>4 DEF Rewrites, Socket
  <2>2. HolderOf(q) \in {Nobody, s}
    <3>1. \A t \in BoundTo(q) : t = s
      BY <1>4, <2>1 DEF Rewrites, PortTaken, UniquePort, BoundTo
    <3> QED
      BY <2>1, <3>1, HoldersNow
  <2>3. \A port \in Port : HolderOf(port)' =
           IF port = q THEN s
           ELSE IF HolderOf(port) = s THEN Nobody ELSE HolderOf(port)
    BY <1>2, <1>3, <1>4
  <2> HIDE DEF q
  <2>4. holder[q] \in {Nobody, s}
    BY <2>1, <2>2
  <2>5. holder' = [[port \in Port |-> IF holder[port] = s THEN Nobody ELSE holder[port]]
                     EXCEPT ![q] = s]
    BY <2>1, <2>3
  <2>6. Registry!Take(s, q)
    BY <2>4, <2>5 DEF Registry!Take, Registry!Letting, HolderOf
  <2> QED
    BY <2>1, <2>6 DEF Registry!RegNext
<1>5. CASE ~sockets'[s].in_use \/ q = 0
  <2>1. \A port \in Port : HolderOf(port)' =
           IF HolderOf(port) = s THEN Nobody ELSE HolderOf(port)
    BY <1>2, <1>3, <1>5, PortIsNotZero
  <2>2. holder' = [port \in Port |-> IF holder[port] = s THEN Nobody ELSE holder[port]]
    BY <2>1
  <2>3. Registry!LetGo(s)
    BY <2>2 DEF Registry!LetGo, Registry!Letting, HolderOf
  <2> QED
    BY <2>3 DEF Registry!RegNext
<1> QED
  BY <1>4, <1>5

Holders == [port \in Port |-> HolderOf(port)]

(* Whatever changes the pool as its calls do is a step of the registry.    *)
LEMMA RegistryStep ==
    ASSUME UdpTypeOK, UniquePort, UniquePort', PoolStep
    PROVE  [Registry!RegNext]_Holders
<1> USE DEF Holders
<1>1. CASE sockets' = [s \in SocketId |-> Zeroed]
  <2>1. \A port \in Port : BoundTo(port)' = {}
    BY <1>1, Blank DEF BoundTo
  <2>2. Registry!Reset
    BY <2>1 DEF Registry!Reset
  <2> QED
    BY <2>2 DEF Registry!RegNext
<1>2. CASE UNCHANGED sockets
  BY <1>2 DEF HolderOf, BoundTo
<1>3. CASE \E s \in SocketId : Rewrites(s)
  BY <1>3, RewritesIsRegistryStep
<1> QED
  BY <1>1, <1>2, <1>3 DEF PoolStep

(* The pool implements the port registry: a port has at most one holder,   *)
(* and it loses its holder only to a close, to a bind of its own elsewhere *)
(* or to a new start.                                                      *)
THEOREM PoolImplementsRegistry == UdpSpec => ImplementsRegistry
<1>1. UdpInit => Registry!RegInit
  <2> SUFFICES ASSUME UdpInit PROVE Registry!RegInit
    OBVIOUS
  <2>1. \A port \in Port : BoundTo(port) = {}
    BY Blank DEF UdpInit, BoundTo
  <2> QED
    BY <2>1 DEF Registry!RegInit
<1>2. UdpTypeOK /\ UniquePort /\ UniquePort' /\ [UdpNext]_udpVars
         => [Registry!RegNext]_Holders
  BY RegistryStep, StepShape
<1> QED
  BY <1>1, <1>2, UdpTypeCorrect, PortsAreUnique, PTL
     DEF UdpSpec, ImplementsRegistry, Registry!RegSpec, Holders, HolderOf
=============================================================================
