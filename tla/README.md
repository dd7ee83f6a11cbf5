# A verification development for the Tubesnob network libraries

TLA+ models of the C libraries under `src/`: the TCP/IP stack (`tsiplib`), the ring buffer and the
list it can use (`tslib`), the driver that feeds the stack frames (`tsiplib_driver_w5500`), the same
chip's hardware sockets (`tssocketlib`) over an SPI bus (`tsspilib*`), and the two programs built on
them, a download client with its host (`spidl`, `spidlhost`) and a web server (`spiws`).
TLC checks the models on small instances; TLAPS proves what it can for every size of them.

## The system

The libraries run on a bare processor (an A2 / 6502-style host with a WIZnet W5500 on an SPI bus, or
a PC with an FTDI cable). There are no threads and no interrupts: an application calls
`tcpip_poll`, which takes at most one frame from the driver and runs its handlers. What makes the stack
hard is that *sending* polls too; what makes the layer below hard is that the chip goes on by itself
between any two bytes the program exchanges with it.

| Part | State | Operations | Correct when |
|---|---|---|---|
| ARP (`tsiplib/src/arp.c`) | cache of 16 entries, a copy of our address | resolve, add, flush, announce, receive | an address is cached once, with its last claim; a resolution ends, and uses what is known |
| IP (`ip.c`) | address, netmask, gateway, protocol table, packet counter | send, receive, configure, address tests | packets go to the right next hop, what is for us gets in |
| Ethernet (`ethernet.c`) | callback table, one receive buffer | poll, send, register | each frame reaches its handler once |
| ICMP (`icmp.c`) | echo callback | echo request, reply, receive | a reply answers the request it was made for |
| UDP (`udp.c`) | pool of 8 sockets | create, bind, connect, send, close, receive | a port has one owner, a closed socket holds nothing |
| DHCP (`dhcp.c`) | state, offered configuration, server, socket, retry counter | start, stop, poll, receive | the lease used is one granted, the application knows the state, and the client waits for no answer for ever |
| Life cycle (`tcpip.c`) | initialised flag, configuration, driver | init, poll, shutdown, get/set configuration | nothing of one life of the stack reaches the next |
| Ring buffer (`tslib/src/tsringbuf.c`) | elements with heap blocks, two indices, a count | push, pop, peek, clear | a FIFO of whole messages |
| Lists, arrays (`tslist.c`, `tsarray.c`) | a block that grows and shrinks by chunks, a count | add, insert, remove, get, set, clear | a sequence, written inside its block |
| Strings, memory, log, ini, getopt, CRC | none, or vendored | | |
| W5500 driver (`tsiplib_driver_w5500`) | ring of received frames, temporary buffer | init, send, receive | the chip's byte stream is cut into the frames that were sent, and frames leave whole |
| W5500 registers (`w5500.c`, twice) | where the chip stands in a transaction, its registers | read and write a register of 1, 2, 4 or 6 bytes, a block; reset | program and chip agree on which register the next byte is for |
| W5500 sockets (`tssocketlib`) | the chip's socket registers | create, connect, listen, disconnect, send, receive, close | a new socket disturbs no other, calls return |
| SPI (`tsspilib*`) | selected or not | select, write, read, deselect | a transfer that fails is noticed |
| Download (`spidl`, `spidlhost`) | packet number, receive buffer, output file; a host thread | request and send packets with CRC | the file arrives whole, once |
| Web server (`spiws`) | a buffer, the positions read and filled to | listen, receive, read a line, answer | every request gets its answer, requests do not run into each other |

How they meet: `tcpip_poll` -> `eth_poll` -> a frame's handler (`arp_rx_callback` or
`ip_rx_callback` -> `icmp_rx_callback` / `udp_rx_callback` -> a socket's callback, among
them `dhcp_rx_callback`) -> perhaps `ip_send` -> `arp_resolve` -> `eth_poll` again, up to 300 times.
So a handler may run in the middle of another handler's send, on the same receive buffer; when it is DHCP's, it may change
the address, netmask and gateway under every send that waits.
Below, `eth_poll` takes its frame from the driver's ring or has the driver read the chip's
memory, to which the network adds at any moment. The two programs do without the stack:
they talk TCP through the chip's own sockets, which the chip opens and closes on its own as peers
come and go. Every access to a register, of driver and sockets, is a transaction on the SPI bus, and its
result is dropped. All modules of the stack share the ARP cache and the configuration; nothing is locked, and
nothing needs to be, except against this reentrancy.

What is hard here: reentrant receptions; answers that come late, twice or from someone else;
retransmissions and timeouts counted in polls; full tables; stale handles, tables and buffers;
integer promotion; a 16-bit register read as two bytes; statuses that change between two looks;
results of calls nobody looks at. `hazards` in `PROJECT.json` lists each at its line.

## Modules

| Module | Models | Read it for |
|---|---|---|
| `Scan` | the loop "first entry that ..." | `First` |
| `ArpCache` | the cache of `arp.c` | `SlotFor`: update, else first free slot, else the "oldest" |
| `PortRegistry`, `UdpSockets` | what the socket pool promises; `udp.c` | every call on every handle; demultiplexing |
| `TsIpStack` | `ethernet.c`, `arp.c`, `ip.c`, `icmp.c`, `udp.c` together | nested receptions: `calls` is the C call stack |
| `Tcpip` | `tcpip.c` over cache and pool, with the `*_init` of every layer | lives of the stack: what survives a shutdown, whom each socket belongs to |
| `Dhcp` | `dhcp.c`, servers and an unreliable network | the client's sends suspended in the middle of a handler |
| `IpAddr` | the broadcast test of `ip.c` on octets | C's promotions |
| `Fifo`, `TsRingBuf` | what the ring promises; `tsringbuf.c` | blocks that keep old bytes |
| `ItemList`, `TsList` | what the list promises; `tslist.c` over `tsarray.c` | when the block grows, shrinks, and cannot |
| `W5500Bus` | `w5500.c`, `w5500_defs.h` over `tsspilib*` and the chip's bus | transactions whose transfers fail anywhere |
| `W5500Driver` | reception in `tsiplib_w5500_driver.c` over `w5500_raw_socket.c` | torn sizes, short reads, and what is lost by them |
| `W5500Send` | sending, of the driver and of `tssocketlib` | the transmit memory while the chip still sends |
| `W5500Sockets` | `tssocketlib_main.c` and the chip's socket states | two searches for a socket, over statuses that change |
| `SpiDownload` | `spidl_main.c` and `SocketThread32.cs` | two programs, a bus that corrupts, a connection that ends |
| `WebServer` | `spiws_server.c` over `socket_listen`, `socket_receive` | a request reader whose positions outlive connections |
| `TableProofs`, `StackProofs`, `TcpipProofs`, `DhcpProofs`, `TsLibProofs`, `W5500Proofs`, `FrameProofs` (both ways through the W5500), `ProgramsProofs` (download, web server) | | proofs |
| `MC*` | | instances for TLC |

`TsIpStack` and `Tcpip` both extend `ArpCache` and `UdpSockets`: their actions, with their names in the
code, are conjuncts of theirs. They look at the same tables with different questions: `TsIpStack` at one life
of the stack, poll by poll; `Tcpip` at many lives, with each reception and each call of an application a single step.
`W5500Driver` takes its ring as what `Fifo` promises and `TsRingBuf` is shown to implement: a bounded
sequence of whole messages. `src/tssocketlib` holds a copy of the driver's `w5500.c` and `w5500_defs.h`, equal line
for line but for includes; `W5500Bus` stands for both, and `map` names the one or the other.

**State.** A variable with a name of the code is that static or local of it. The others: `claim` (`ArpCache`) is a history of the last MAC
address announced for each address; `calls` (`TsIpStack`, `Dhcp`) stands for the C call stack, one record per send that waits; `msgs`
(`Dhcp`) holds every message ever sent; `learned`, `apps`, `layers` and `stranded` (`Tcpip`) are histories: what was claimed in this life,
which sockets applications hold, the layers the running stack was initialised with (a refused initialisation changes only `config`), and
whether a shutdown ever left a DHCP client running. In `W5500Driver`, `chip` is the chip's receive memory, `phase` where `recv_packet` is
(`no_memory` after a push that failed) and `high` the byte of the size already read; `arrived`, `handed`, `cut` and `spilled` are histories.
In `W5500Bus`, the program's place in a call and the chip's place in a transaction are separate, which is the point. In `SpiDownload`, `pc`
and `host` say where the programs are, `lines` and `packets` what is under way on the connection `link`, and `misled` whether the client
ever acted on a wrong total. In `WebServer`, `pending` is what the peer sent and the chip holds, `received` all that was taken from it.
`tx`, `up`, `delivered` and `result` show what the last step produced.

**Steps.** A step is one handler or call, up to the next `eth_poll`. A call that waits in `arp_resolve` is split there and nowhere else: it
pushes a record on `calls`; then each poll is a step (`PollEmpty`, `PollDropped` or a handler, which may push another record), and each look
at the cache after it another (`Resolved`, `PollAgain`, `AskAgain`, `GiveUp`). The DHCP client's callback is a handler like the others,
which may apply any of `Configs` in the middle of other sends (`dhcp_rx_callback`); which message makes it do so is `Dhcp`'s matter. Where
the chip runs beside the program (`W5500Driver`, `W5500Send`, `W5500Sockets`, `WebServer`) each access to a register is a step, since frames
arrive, bytes leave and peers come and go between them; in `W5500Bus` each transfer of the bus is. `SpiDownload` has one for each `send`,
`receive` and check of the client, and for each command of the host.

**Abstraction.** Addresses are model values; `Subnet` tells which are on which link. A packet is a record of the fields handlers test and
copy; a header that fails its tests (length, version, checksum) is one with `ok = FALSE`, a payload that does, one of kind `junk`. The
network is any sequence of the frames in `Frames`, so loss, delay, repetition and reordering need no actions of their own. `eth_send` has no
`return`: whatever its callers read is a nondeterministic choice. In `W5500Driver` bytes are bytes, since the driver may read a length from
anywhere; the chip is taken to pad frames to an even length, as the driver expects. In `SpiDownload` a checksum is a pair of the seed and
the data: that it tells different data apart is its purpose, and taken for granted. In `WebServer` a character is one of those the reader
tells apart, and an answer, some ten sends in the code, is one step: a peer that never reads, for which such a send would wait, is left out.
In `W5500Driver` any push may fail for want of memory, in the code only one that has to lengthen its element's block. A definition marked
"Slip" is not part of a model: it is a plausible mistake in the definition below it, kept so that each property can be seen to fail.

## Runs

Parts that share no state are checked side by side in one run: a variable `part` or `program`, which never
changes, says which of them moves, so the states are those of each part alone, added and not multiplied.

| Run | Question | Instance and why it is enough | Result |
|---|---|---|---|
| `tcpip` | Can the cache hold an address twice, or a superseded MAC address, or forget one needlessly (`UniqueIp`, `FreshMac`, `EvictsOnlyWhenFull`)? Do ports stay exclusive and closed slots blank (`UniquePort`, `ClosedIsBlank`), is the pool a registry (`ImplementsRegistry`)? Does one life of the stack leave claims to another (`CacheOfThisLife`), and has every socket its owner, until a shutdown by the wrong layers (`SocketsHaveOwners`)? | 4 addresses in 3 slots: every slot gets updated, filled and overwritten; 3 sockets, 2 ports, one of them DHCP's; three choices of layers, so that a socket's layer may be missing; one peer in the life cycle part | holds |
| `stack` | Do nested receptions mix up answers (`AnswersTheirCause`), misdirect packets (`SentToClaimant`), wait for the peer they answer (`AnswerWaitsForGateway`) or strand a packet whose hop is known (`KnownHopIsUsed`)? | an on-link peer, a moving gateway, an off-link host, a multicast group; a DHCP client whose acknowledgements change gateway and address under the sends that wait; 2 cache slots for 6 addresses; 2 requests of 2 polls; 2 nested sends | holds |
| `stack_returns` | Does every send return (`SendReturns`)? | fewer frames, 3 nested sends | holds |
| `dhcp` | Do late, repeated and nested messages corrupt the lease (`AppliedIsLease`, `RequestsNameAnOffer`)? Does the application know the state (`StateIsReported`) and is the socket open just while the client runs (`SocketFollowsState`)? Does a request that nobody answers end (`RequestIsGivenUp`)? | 2 servers, one of which names only an address; retransmission every 2 polls, rounds of 3; 3 nested sends | holds |
| `dhcp_granted` | Is a lease in use one that was granted (`dhcp.c:239`)? | 2 servers | **no** |
| `libraries` | Is the ring a FIFO (`WindowIsValid`, `ImplementsFifo`), the list a sequence inside its block (`InBlock`, `ImplementsList`)? Does a transfer that fails do damage elsewhere (`InAgreement`, `DamageIsLocal`), or end a reset early (`ResetWaits`)? | 3 elements of at most 2 bytes, messages of 0 to 3 bytes, readers with room for 0 to 2; chunks of 1 to 3 items, lists of 5; 2 blocks of 2 registers, transfers that run past a block's end | holds |
| `w5500` | Are frames handed out whole, in order and in the end (`NothingMissing`, `InOrder`, `DropsForAReason`, `AllHandedOut`)? Do they leave whole (`SentAsGiven`), does a send return (`SendReturns`)? Does a new socket take another's place (`HarmsOnlyWhenFull`)? | 5 frames of 1 to 4 bytes, one too long, with small numbers in their payloads; size bytes count to 8, so sizes tear; reads of 12 bytes, chip of 16, ring of 2: each limit is met, and any push may fail. Buffers of 1, 2 and 5 bytes for 4 of memory; 3 sockets, 4 handles | holds: reception while no read stops short |
| `w5500_frames` | Does the stack only get frames that were on the network (`tsiplib_w5500_driver.c:228`)? | the same | **no** |
| `sockets` | Does creating a socket close only those eligible (`tssocketlib_main.c:79`)? | the same | **no** |
| `programs` | Does the file arrive whole and once, without deadlock, and do both programs end (`FileIsPrefix`, `DoneIsWhole`, `InStep`, `Finishes`, `HostIsFreed`)? Does the server keep what its peers sent (`StreamInBuffer`), answer what they asked (`AnswersMatchLines`) and everybody (`RequestIsAnswered`)? | 3 packets, two of them alike; wrong totals below, within and beyond the file; numbers modulo 8. A buffer of 5 characters, 4 of the chip's memory, 2 peers that send up to 5: it fills, lines cross connections, receives fail | holds |
| `nulls` | Is a NUL in a request skipped (`spiws_server.c:165`)? | the same | **no** |
| `ip_broadcast` | Is a broadcast address recognised (`ip.c:256`)? | 255.255.255.255 | **no**, never |

Bounds are constants: table, buffer and ring sizes, `ATTEMPTS`, `POLLS`, `RETRY_EVERY`, `RETRY_LIMIT` and `FAILED` are the code's own limits
made small (two of each tells "first", "another" and "last" apart; `FAILED` and `SOCKET_MEMORY` lie below `BUFFER_SIZE` and the second not
above the first, as 4096 and 2048 do below 8192). Not in the code are `MAX_DEPTH`, which stands for the size of the C stack (a send that
would exceed it is only explored as one that returns without waiting), and the bounds of histories, `MAX_ITEMS`, `MAX_SENDS`, `MAX_HANDLES`,
`MAX_PEERS` and `MAX_SENT`. Deadlock is checked except in the runs of `MCW5500` and `MCPrograms`: there what arrives, is sent or connects is
bounded, or both programs end, so that these systems do stop.

**Fairness.** `StackSpec` says that a call under way goes on: the processor runs. It says
nothing of the network: `eth_poll` may find no frame for ever. `DhcpFairSpec` says that the application keeps polling
and that a send returns, and again nothing of the network or of the servers: that a lease is got is not claimed, because the code
does not see to it (below); what it does see to is that a request nobody answers is given up. `MCPollingSpec` says
that the stack goes on polling, a call goes on to its end and the chip sends what it holds, but not that frames
arrive. `MCFairSpec` says that both programs of a download run, that the host's read times out
(`ReceiveTimeout`, 30 s, in the C# thread), and that the bus does not corrupt the same answer for ever; it does not
say that a connection lasts. Of the web server it says that the server runs; what peers do is free.

## What the runs found

Five runs end in a violation; `findings` in `PROJECT.json` quotes the lines they contradict.

- `w5500_frames`: the driver stops reading at its buffer's 4096 bytes, or when the two bytes of the size register, read
  one after the other, happen to make 0 although the chip holds more. It then forgets the beginning of the frame
  it had in hand, takes the rest for the beginning of another, and hands the stack frames nobody sent.
- `dhcp_granted`: the DHCP client takes any acknowledgement while it is requesting: neither server nor address
  is compared, and the transaction id is the same for every round.
- `ip_broadcast`: `ip_addr_is_broadcast` is always false: `~mask` is a negative `int`. A DHCP server that honours
  the broadcast flag the client sets cannot reach it. Nor can one that writes to the address it offers, which is not ours yet, and the
  client's own broadcasts go by way of the gateway, which has to resolve (`ip.c:72-84`). This is why no property promises a lease.
- `sockets`: `socket_create` goes on counting after it closed a socket to reclaim, and opens the one behind it,
  whatever connection that has; if it closed the last, it returns none. Only when all are in use (`HarmsOnlyWhenFull`).
- `nulls`: the web server's reader steps over a NUL in a local copy of its position, which is then lost. It meets the same NUL for ever, in later
  connections too (`NullIsForEver` proves it for every size).

The models also show these, which contradict no document or have no run:

- A full ARP cache always evicts slot 0: `timeout` is set and compared but never lowered (proved: `FullCacheReusesSlot0`).
- `tcpip_init` stores layers and driver before it refuses a second initialisation, so that the stack that runs is then polled and shut down
  by another's (`Tcpip!Refuse`). The cache survives that, whatever layers are named (`CacheOfThisLife`). The sockets do until a shutdown
  goes by layers that lack DHCP and leaves its client running (`stranded`): its handle then outlives its socket, and may close whoever is
  given the slot in the next life. `SocketsHaveOwners` holds up to that shutdown; what follows is in the model, and no property speaks of
  it.
- A DHCP offer without a netmask or router keeps those of the offer before (`Dhcp!Option`).
- A DHCP round that times out does not call the state callback (`Dhcp!PollRestart`), nor does `dhcp_stop`: an application may believe
  a client bound that is stopped, or requesting one that selects again. `StateIsReported` excepts these two and nothing else.
- A second `dhcp_start` loses the open socket (hence `careful` in `SocketFollowsState`).
- Nothing bounds how deep receptions nest while the gateway does not answer; `AnswerWaitsForGateway` says that no answer waits
  for another address, and `MAX_DEPTH` ends it in the model.
- A frame for which the ring has room but no memory is dropped with the rest of its read (`W5500Driver!PushFails`).
- The loop that should wait for SENDOK never runs; that nothing is overwritten rests on the wait for free memory
  alone, whose torn value is never too large (`SentAsGiven`).
- `socket_listen` waits for ESTABLISHED: a connection that came and went between two looks leaves it waiting for ever, since the
  socket no longer listens.
- The web server's positions only grow: a buffer once full answers nobody any more, and a receive that failed adds its
  error code to them, so that what follows is read from cells nobody filled. `StreamInBuffer` holds until then (`cutOff`);
  `RequestIsAnswered` excepts both (`Deaf`). Without a page file it would close a file it has not opened, which the model leaves out.
- The download client takes its loop's limit from the last packet, checked or not, and the checksum does not cover it:
  a corrupted total can end a transfer early (hence `misled` in `DoneIsWhole`) or make the client ask beyond the end and
  compute a checksum over 0 bytes, which runs through all of memory (`SpiDownload!Crash`).
- It retries for ever once the connection has ended (hence `link = "down"` in `Finishes`).
- `quit` is one line and the host reads two for a command: the host always ends by its timeout (`HostIsFreed`).
- A file of 65535 packets or more never ends: `workPacketNumber` has 16 bits (excluded by `FileAssumption`).

## Proofs

Everything below is proved for all values of the constants that satisfy the modules' named assumptions (tables of at least
one slot, values such as `NoMac` outside the sets they stand apart from, buffers longer than 0; each assumption is evaluated by
the runs too). Few of the properties are inductive; for each proof the invariant that is:

- **Cache** (`TableProofs`). `FirstFound`: a scan over a non-empty set of indices finds its least member, from the well-foundedness of the
  strict subset order. `SlotForInTable`: an entry never lands outside the table; this needs that every used entry has the same timeout, so
  that the search for the oldest ends with slot 0. Then `ArpTypeCorrect`, `IpIsUnique`, and `MacIsFresh`, which is inductive only with
  uniqueness: a second entry for the address would keep the old MAC address. `UsedSlotsComeFirst`, `EvictionIsLastResort` and
  `FullCacheReusesSlot0` follow from the same description of one addition.
- **Sockets** (`TableProofs`). Types and exclusive ports together are inductive (`PortsAreUnique`); `ClosedStaysBlank`; and
  `PoolImplementsRegistry`: the pool implements `PortRegistry`, in which a port has at most one owner by construction.
- **Stack** (`StackProofs`). Every step of the stack is one of the cache and one of the pool, or leaves them alone (`StackRunsCache`,
  `StackRunsPool`), so what is proved of the tables holds in the stack. `CallsInv` says of each waiting send that an answer fits the packet
  it answers, but nothing of the gateway, since an acknowledgement may change that under it. With `SentWell`, the same of the packet just
  sent, it gives `AnswersAlwaysFit` and `PacketsReachClaimants`, for any nesting. What a wait is for when it begins (`StartsWell`) gives
  `AnswersWaitOnlyForGateway`; `KnownHopsAreUsed` is an action property.
- **Life cycle** (`TcpipProofs`). `OwnersInv`: the client's socket and those of applications are the ones in use, and only a stack that runs
  has a client with a socket (`DhcpInLife`), both until a shutdown goes by layers that lack it. `EverySocketHasAnOwner`,
  `CacheIsOfThisLife`; `LifeRunsCache`, `LifeKeepsPorts` and `LifeImplementsRegistry` say that what holds of the tables holds over any
  number of lives.
- **DHCP** (`DhcpProofs`). `LeaseIsApplied` and `SocketAlwaysFollowsState` share an invariant on state, lease and the suspended handlers.
  `StateIsAlwaysReported` needs `ReportInv`: whenever what was reported last is not the state, a handler that will report it is suspended.
  `RequestsAreBacked` needs `RequestsInv`: what is on its way, what is suspended and what is stored all name one offer.
- **Libraries** (`TsLibProofs`). `WindowStaysValid` and `RingTypeCorrect` from `RingInv` and `BlocksFit` (no element holds more than its
  maximum); `RingImplementsFifo` with `QueueOf`, the ring read from tail to head. `ListInv` keeps the list's count within its block until an
  allocation fails; that a shrinking block still has room rests on lemmas on division (`ChunksSuffice`). It gives `ListStaysInBlock` and
  `ListImplementsSequence`.
- **Bus** (`W5500Proofs`). `BusInv` says where in a call each stage is (`StageInv`), where the chip may be (`ChipInv`) and that the two
  agree as long as nothing failed (`AgreementInv`); from it `AlwaysInAgreement` and `FailuresStayLocal`. `ResetInv` adds what a byte read
  back means: `ResetAlwaysWaits`.
- **Hardware sockets** (`W5500Proofs`). `SocketsInv` remembers what the first search has seen, for `CreateHarmsOnlyWhenFull`.
- **Download** (`ProgramsProofs`), for every file with fewer packets than packet numbers. `Inv` has `SumInv`, whatever data the buffer
  holds, its checksum is one the host computed for some number, or the first one; and `StepInv`, where client and host are in relation to
  each other, and the exact lines and packets under way, which says for which numbers the host computes checksums. `PassingBlock` then does
  the work: data that pass the check for number *n*, with a checksum out of those, are block *n*, because the numbers of a file this short
  are distinct modulo `WORD`. That the receive may have failed, or the buffer hold half of one packet and half of another, makes no
  difference. `OutputIsPrefix`, `ProgramsKeepInStep`, `DownloadTypeCorrect`; with `DoneInv`, `DoneMeansWhole`.
- **Web server** (`ProgramsProofs`). `ServerInv`: until a receive fails, the buffer up to `fillPos` is all that was received, and a size
  half read is not above what the chip holds (`HighFits`): `StreamStaysInBuffer`. With `ReaderInv` (together `ServerInvariant`): the reader
  stands at the beginning of a line and has answered the short lines before it, and every cell behind the filled part is a NUL, so that no
  line ends there by accident. The latter is why a receive that fails must not have stored more than the error code it adds to the position;
  a socket's memory of 2 KB sees to that (`SOCKET_MEMORY <= FAILED`), and without it `AnswersAreForLines` is false. `NullIsForEver` rests on
  the filled cells staying as they are.
- **Reception** (`FrameProofs`). `DriverInv` names two numbers, *j* and *m*: until a read stops short, *j* frames have been taken from the
  stream, those up to *m* are in the buffer from `offset` on, and the rest is at the chip (`Along`); the frames taken are those of the ring
  and of the stack, in their order, with none missing if the ring did not spill. While the buffer is filled no boundary matters; *m* is
  where that ended, the end of a frame unless it stopped short. A size read as two bytes is never more than the chip holds, since the chip
  only gains (`DriverTypes`). By `CutOne`, which reads the header of the first frame, a cut then takes exactly that frame, padded to even
  length. It gives `ReceptionMissesNothing` and `ReceptionInOrder`. `ReceptionDropsForAReason` follows what is held step by step: reading,
  cutting a frame and a failed push keep every byte of it (`HeldBytes`, `CutTakes`, `FailKeeps`), so only the end of the cutting can lose
  any, and with room, memory and frames short enough it ends where the buffer does.
- **Sending** (`FrameProofs`). `SendInv`: the pointers follow one another, no further apart than the memory is long (`PointersInv`); a free
  size read as two bytes is not above what is free when it is used, and what was written behind the queue stays there (`SizeInv`); what is
  on the wire, in the queue and with the host is, joined, what was given (`OrderInv`), of which a broken connection leaves a beginning
  (`Down`); and the packets sent are the first frames given, with the next at the chip and at most one more with the host (`FramesInv`). It
  rests on lemmas on positions that wrap twice, at the memory's end and at the pointers' (`MovedFacts`, `BetweenMoved`, `CellMoved`). It
  gives `SendingIsFaithful`.

`DriverInv`, `SendInv` and `ReaderInv` were checked by TLC, as invariants of the runs' instances, before they were proved. Two things came
up on the way. A send of an empty buffer would have counted as a frame given that never leaves, which made `FramesWhole` false as it stood;
`send` returns at once for one, and the model now says so. And `AnswersMatchLines` needs the chip's memory to be bounded, which a model in
which the peer could send without limit left out.

Induction over data has no theorem that the provers could instantiate, since the library's take a predicate as a parameter. Where a proof
needs it, it is induction over a *set* of numbers: a non-empty set of naturals has a least member (`Least`, from `WFMin` and the
well-foundedness of `<`), so a set that has 0 and with *n* also *n* + 1 is all of them (`Induction`). That is enough for what `FlattenSeq`
makes of an appended, split or shortened sequence.

Every safety invariant, action property and refinement that a passing run checks is so stated by a theorem. Only model-checked: liveness
(`SendReturns` of stack and driver, `RequestIsGivenUp`, `AllHandedOut`, `Finishes`, `HostIsFreed`, `RequestIsAnswered`), which is beyond the
prover; and the five properties that do not hold, `IpAddr` among them, whose bitwise operators are beyond it too.

## What is left

`Dhcp` runs over a network, not over `TsIpStack`: its sends are suspended as that module's are, but the two are not composed. Nor is
`W5500Driver` with `W5500Bus`: the driver is checked over a bus that works, the bus over calls of any kind. What is proved of `TsRingBuf`
and of `W5500Driver` meets in `Fifo` by its words only: that the driver's sequence of frames is the ring's queue is not a theorem.

## Not modelled

The byte layout of headers and options, checksums, printing and logging; the set-up of the chip's addresses; DNS and lease time (the client
never renews a lease). `tsstring.c`, `tsmem.c`, `tslog.c` and `utils.c`, which wrap the C library and keep no state; vendored code (`ini.c`,
`getopt.c`, and `nucrc16.c` but for how the download uses it). The bit banging of `tsspilib_driver_a2gpio` and its assembler, below the
bytes `W5500Bus` deals in. Configuration files and command lines of the programs, their file names and pages; files of 65535 packets or
more. The test programs, which are interactive, and the web site's assets.
