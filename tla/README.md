# CppNeighborDiscovery: models and proofs

TLA+ modules for the neighbor discovery daemon and its CLI program, TLC
configurations that check them on small instances, and theorems proved with
TLAPS. Paths below are relative to `src/`; `runIteration` is
`include/Network/NetworkNeighborDiscoverer.cpp:40-315`.

## 1. The system

Each machine of a local network runs one daemon. Every 20 s it reads its own
interfaces, announces them by UDP multicast over IPv6 and IPv4, listens for the
announcements of others for at most 30 s, and keeps a table of the neighbors
that share a subnet with it, dropping those not heard for 30 s. A CLI program on
the same machine asks for the table over an AF_UNIX socket, waits up to 10 s for
the answer and prints it.

| Component | State | Operations | Talks to |
|---|---|---|---|
| `NetworkNeighborDiscoverer` | prevNifs, neighbors, four multicast sockets, the AF_UNIX server; per iteration: nifs, receivedNifs, receivedBytes, the request flag, clientSocket | runIteration, the three setups | all of the below |
| `Process`, daemon `main` | the period, the function to run | create, daemonize, run | calls runIteration |
| `IndexedTimedSet` | map of index to (datum, time) | update, remove, data | held by the discoverer |
| `IPMulticastSender<T>` | descriptor, targets | add/removeMulticastAddress, send, factory | kernel |
| `IPMulticastReceiver<T>` | descriptor (memberships are the kernel's) | enable/disableMulticastGroup, receive, factory | kernel |
| `UnixSocket` | descriptor, path, server flag | serverFactory, acceptClient, clientFactory, send, receiveString, receive | kernel, the other program |
| `CppCliNeighborRequestor` | the poll's start, received | main | `UnixSocket` |
| `NetInterfaceManager` | none | getInterfaces | kernel |
| `IPAddressManager` | none | isSameSubnet | pure |
| `Serializer`, `Deserializer` | none | serialize, deserialize | pure |
| `FunctionReturn`, `Config`, logging, `File` | none that matters | | |

Both programs are single-threaded. What is hard lies between them and their
surroundings:

* the interface table changes while an iteration reads it, several times by name
  and once as a list;
* datagrams are lost, duplicated over two families and per target, looped back to
  their sender, and queued behind one another in a receiver read once per pass;
* CLI programs come, wait, give up, are interrupted or stop between two calls;
  the daemon blocks on an accepted connection and serves one per iteration;
* periods interact: the iteration period (20 s), the receive window (30 s), the
  activity period (30 s), the CLI's wait (10 s);
* the daemon is killed, restarts with an empty table, or ends by an uncaught
  exception (a failed `getInterfaces`, a datagram with an impossible length), a null
  receiver or SIGPIPE; sockets may have failed at start;
* machines come and go, miss each other's announcements, and their clocks drift,
  while their tables should agree;
* an answer is a stream of bytes that the kernel takes in chunks and the program
  reads once;
* sockets are objects that are moved, and several daemons may use one path.

What makes each part correct: the discoverer's sockets follow its interfaces and
its announcements leave on all of them; its table forgets who is silent, keeps
who is heard and holds only local subnets; each request it reads is answered
once, to the program that made it; it ends from outside only and no program
holds it up; a program's wait ends. Tables of machines on one link agree once things are
quiet and do not lose a machine that runs on; two addresses match when their
prefixes do; what is printed is what was sent; a daemon owns its descriptors and
the path leads to a daemon that listens. `PROJECT.json` lists under "hazards" where
each of these can go wrong.

## 2. Modules

```
IndexedTimedSet  IPMulticastSender  IPMulticastReceiver     (operators)
     |     \            |               /
     |      NetworkNeighborDiscoverer     CppCliNeighborRequestor
     |              |     \               /   |
     |              |      LocalHost (shared kernel state)
     |              NeighborDiscoverySystem       NeighborService
     |               /                  \           / (INSTANCE)
     |   NeighborDiscoveryProofs      ServiceRefinement -- MCSystem
     |     |              \                  |
     |   InterfaceProofs   \------- RequestProofs
     |        \------- TimingProofs ---------/
     |
     |         Subnet ------------ SubnetProofs
     |            |                   |
     +---- NeighborNetwork --- NetworkProofs        (MCNetwork)

Serialization --- AnswerTransfer --- TransferProofs (MCTransfer)
                  SocketOwnership -- SocketProofs   (MCSockets)
```

* **IndexedTimedSet**: the table as a set of entries `[index, data, age]`. The
  code compares `now() - timestamp` with a duration and nothing else, so an entry
  holds the difference; ages saturate above the largest duration asked for.
* **IPMulticastSender**, **IPMulticastReceiver**: each call as a function of the
  targets or memberships and of what the kernel can do with an interface. The
  IPv4 instantiations pass INADDR_ANY, so their interface is the routing table's.
  `send` makes a datagram per target: `Copies` says how many of them a
  receiver can get: over IPv6 what left on the interfaces it joined, over IPv4 all of
  them, since they leave on one interface.
  Targets are a bag (a count per interface index, none, one or many). The vector's
  order is left out: it comes from the iteration order of the `unordered_map` in
  `getInterfaces`. A send that fails somewhere in the vector may therefore have
  left on any subset of the targets that work.
* **LocalHost**: what both programs share through the kernel: the interface table
  (`link`), the daemon's descriptors, memberships, receive queues, and the AF_UNIX
  connections. An IP address is represented by its subnet, because the program only
  asks whether a local and a received address share one. A message is the set of
  interfaces it decodes to, one whose decoding reports an error, or one whose decoding
  throws.
* **NetworkNeighborDiscoverer**: the daemon. `pc` is the next step; a step is the code
  between two points at which something outside can be observed or can change: reading
  the interface table (once as a list, once per interface disabled or enabled), each
  family's send, each family's receive, accept, the blocking read, the loop's test,
  the table update, the answer. `FoundInterfaces` is lines 43-74, `Disable` and
  `Enable` 76-147, `SendIPv6` and `SendIPv4` 152-163, `ReceiveIPv6` to `ReceiveDone`
  170-261, `Handle` 263-299, `Answer`, `AnswerGoneClient` and `NothingToAnswer`
  301-315, `WakeUp` is the loop of `Process::run`. `Exit` is every end of the process:
  by a signal (`Kill`), by the exception of line 50 (`GetInterfacesFails`), by the
  null receiver of lines 177 and 205 (`ReceiveFromNull`), by an exception of
  `deserialize` at lines 185 and 214 (`ReceiveThrows`), by SIGPIPE at line 305
  (`AnswerGoneClient`). `announced` and `consumed` are history variables.
* **CppCliNeighborRequestor**: one action per way each call of the program can end,
  `getInterfaces` after the answer included (`GetLocalMacsFails`). A client runs again
  once the kernel has dropped its last connection.
* **NeighborDiscoverySystem**: the composition, with interfaces that go down, come
  up, are readdressed, unplugged and plugged in (`LinkStep`), hosts that announce
  and depart, and time (`Tick`); and all properties. A host sends a datagram to each
  of up to `HostTargets` targets, back to back, so that their copies are consecutive
  in a receiver's queue, cut where it is full.
* **NeighborService**, **ServiceRefinement**: what the user of the CLI program is
  promised, and the mapping under which the system implements it. `run` of a
  client is its `clientState` ("connected" is still idle), `reply` its answers,
  `known` the table's data.
* **Subnet**: `isSameSubnet` of both families and the netmask bits counted by
  `getInterfaces`, on addresses that are functions from bits, for any `CHAR_BIT`
  that is a power of two and any even number of bytes; with what a prefix and a
  netmask mean as the reference.
* **NeighborNetwork**: several machines on one link, each with its own interface
  table, iteration, receive queue and table of neighbors. An iteration is
  `Announce` (the interfaces and both sends), `Receive` (one pass that finds a
  datagram), `Finish` (the table; early when a CLI program asks) and `WakeUp`.
  Announcements are lost, at most `MaxLoss` in a row between two machines, and
  `Delivered` to the queues of those they reach, as one to
  `Len(links[n]) * Shared` copies (`Copies`, at most `MaxCopies`): one for each of the
  sender's interfaces, and each as often as the receiver has interfaces on the link
  (`Shared`); machines `Crash`, `Boot` and
  `Reconfigure`; windows and sleeps last up to `Jitter` too long. `missed` and
  `steady` are history variables, and so is `quiet`, the time since the last crash
  or change, which stops at `QuietCap`.
* **Serialization**: serializer and deserializer of every type that is sent, on
  sequences of bytes, with every overflow check; the loop over a vector is a
  recursive function. A length is a word whose first byte holds its value, `Plus` the
  addition of lengths modulo `WordLimit`, `MaxSize` the length above which the library
  throws; a result is `Failed` where the code reports an error and `Thrown` where
  `reserve` or the constructor of a string would throw.
* **AnswerTransfer**: line 304-305 of the daemon against lines 40-66 of the CLI
  program, byte by byte: `Write` per chunk, `WriteToClosed` for the SIGPIPE,
  `Receive` for the one read with data and its decoding, `ReceiveNothing`,
  `PollAgain` and `GiveUp` for the poll. The system takes this as one step.
* **SocketOwnership**: the descriptors of several daemons on one machine through
  factories, moves (`Move`: the object moved from is destroyed, with what the
  other place held), failures and accepted connections, and the path through
  `unlink`, `bind` and `listen`.
* **MCSystem**, **MCNetwork**, **MCTransfer**, **MCSockets**: the values of the
  constants for TLC.
* The eight modules named `...Proofs`: the theorems.

Definitions called a mutant in their comment are not part of the models: each is
a plausible mistake at one definition, and replacing the definition by it makes
the run named for it in `PROJECT.json` fail. They show that the properties are
sensitive to the code.

### Kernel behaviour assumed

It was taken from how the code uses the calls and from the documented behaviour
on Linux: an IPv6 membership outlives a link going down and up; joining a group
twice fails and changes nothing; dropping with index 0 drops one membership of
any interface; sending through an interface that is down, has no IPv6 address or
is gone fails; memberships of a removed interface stay in the socket's list;
looped-back copies arrive at once; an interface that is plugged in gets a new
index; a connection queued on a listening socket can be accepted after its
program has exited, and its request read, while a write to it raises SIGPIPE; a
program whose connection was never read when the daemon ends gets ECONNRESET, and
one whose request was read gets an end of file. A blocking write on an AF_UNIX
stream puts the buffer in the peer's queue in chunks of at most half of the send
buffer, one of which always fits beside another; a read takes what is queued, up
to its size; a write whose peer is closed, or closes meanwhile, raises SIGPIPE
for what is left. With Linux's default buffer a chunk is far above the 12800
bytes that the program reads, so that the read is the limit in practice.
A new descriptor is the lowest free number; closing one that is not open fails
and changes nothing; an AF_UNIX path stays bound, and `bind` on it fails, until it
is unlinked, whether or not its socket is open. The daemon ends by a signal or an
uncaught exception only, and `daemon(3)`, which `main` calls at
CppNeighborDiscovery.cpp:38 after it has made the sockets at line 33, ends the parent
with `_exit`: the child has copies of the descriptors, and no destructor of the
daemon's sockets ever runs in a process that ends. The route of the IPv4 group is
taken to be that of the oldest interface that is up with an IPv4 address.

### Time

A tick divides every period. In the runs on time it is ten seconds:
`IterationPeriod` = 2, `SendingPeriod` = 3, `ActivityPeriod` = 3. Time passes
only where the code waits (`DaemonWaits`): in `sleep`, in the read of an accepted
connection, in the receive loop when a pass finds nothing, or while the daemon is
not running; and while no CLI program has a step to take, except those in
`Stalling`, which may be stopped anywhere. Computation thus takes no time, which
is what a period of tens of seconds against microseconds of work justifies. The
truncation of elapsed times to whole seconds is below the tick.

## 3. Runs

| Run | Bounds | Shows |
|---|---|---|
| `interfaces` | 2 interfaces with IPv6 addresses, one always up, 2 address sets, kills and restarts; no datagrams and no programs, which do not touch the sockets' interfaces | `InterfacesMirrored`, `AnnouncesOverEveryInterface`: the two differences with `prevNifs` keep targets and IPv6 memberships equal to the iteration's interfaces, whenever links change, and an announcement over IPv6 misses no interface that is up |
| `table` | 2 clients, interrupts between connect and send, 1 neighbor with 2 targets, queue of 2, silence up to 11, configured periods, `CliWait` = 5 | `SilentHostsForgotten`, `HeardHostsKept`, `AnswersMatchLocalSubnets`, `NoClientTimesOut`, `OnlyExternalExit`, `ReadRequestsAreAnswered`. 5 is `2 * IterationPeriod + 1`: one iteration per client, and the clock reading that ends the wait comes after the last sleep; with 2, 3 or 4 the run fails |
| `liveness` | 1 client, 1 neighbor that departs, 1 source of datagrams that do not decode, kills, a machine with IPv6 only | `IterationsRepeat`, `RequestsEnd`, `DepartedHostsForgotten`, under `Fairness` |
| `faults` | 2 clients that may stop anywhere or be interrupted, 1 interface unplugged and replugged, receivers and server that cannot be created, getifaddrs failing in either program, a datagram on which `deserialize` throws, kills | `TypeOK`, `OneAnswerPerRequest`, `ReadRequestsAreAnswered`, and `ServiceImplemented`: the system implements `NeighborService` |
| `network` | 2 machines, 4 bytes of 2 bits, one machine with two interfaces of one MAC in either order and so two copies of each of its datagrams, 1 loss in a row, 1 tick of drift, 1 crash, change or request, queue of 6 | `TypeOK`, `ListedShareAPrefix`, `QueuesHaveRoom`, `SteadyNeighborsKept`, `GhostsForgotten`, and `TablesConverge` under its fairness |
| `answer` | 6 lists of up to 3 interfaces, words of 2 bytes that wrap at 256, lengths up to 100, every chunk size from 1 to 40, reads of 30 | `AnswersRoundTrip`, `PrintsTheAnswer`, `ShortAnswersArrive`, `AnnouncementsDecodeWhole`, and `TransferEnds` |
| `sockets` | 3 daemons on one machine, 8 descriptor numbers, one receiver and the server failing | `DescriptorsOwned`, `StartsLeaveAListener` |

Bounds. Two interfaces are enough for a membership or target to be attributed to the
wrong one or counted twice; two clients for one to displace the other in
`clientSocket` and in the backlog; a queue of two for the two copies of a neighbor's
datagram to wait behind one another, and for a copy to find it full. `MaxIndex` bounds
the indices of plugged-in interfaces, `SilenceCap` how far a host's silence is
counted: 11 is above the bound of 10 that `table` checks. `AgeCap` and `ElapsedCap`
are one above, and equal to, the largest value the code compares with. Each neighbor
announces at most once per tick.

In `network`, two machines suffice for any pair of them to lose, outlast and forget
each other, since a machine treats every other one alike; `MaxEvents` = 1 lets one
crash, change or request fall anywhere in an infinite run (a request only ends a
window early; crashes reset the counts of losses). A window that a request ends may
leave all but one datagram of a queue in it, and one whose sender has two targets gets
two at a time: 6 is the smallest `RxCapacity` with which `QueuesHaveRoom` holds there,
while `RoomForAnnouncements` of section 5, for any network, asks for 9. Addresses of
two-bit bytes have every case of line 53: an even and an odd number of full bytes,
with and without bits left. In `answer` the lists have empty strings, empty lists,
repeated elements and characters that are also lengths; the encodings take 2 to 33
bytes, so that chunks and reads of 30 cut some and not others. In `sockets` three
daemons let two unlink between the third's bind and listen; each factory's failure is
one of two kinds (a receiver's, the server's), since senders and the other receiver
run the same code; 8 numbers are one more than a daemon can hold at once.

Deadlock is checked in every run but `answer`, whose two programs end: with time,
a stuck state has no step.

`SteadyNeighborsKept` states what it takes for a machine that keeps announcing
never to be dropped: `ActivityPeriod >= (MaxLoss + 1) * (SendingPeriod + Jitter)`.
The run uses the smallest such value, 8, and fails with 7. Config.hpp sets both
`NEIGHBOR_ACTIVITY_PERIOD_SECONDS` and `SENDING_PERIOD_SECONDS` to 30 s, which
meets the bound without any loss or drift only. The same bound is what
`TablesConverge` needs: below it, entries come and go for ever. With more than two
machines each request but the first may cost another `IterationPeriod + Jitter`
(see `SteadyKept` in section 5).

`GhostsForgotten` states for how long tables may list what crashed or left its
prefix: `ForgetAfter`, which is an iteration for each request or other event but
the first, two windows of `SendingPeriod + Jitter`, and the activity period (plus
twice what an iteration is longer than a window, nothing here). Two windows, because
what is heard at the end of one is stamped then, and an entry that is one tick short
of too old at the end of one stays until the end of the next. In the run it is 16
ticks, and 14 fails.

`SilentHostsForgotten` states how long a neighbor that fell silent can be
answered: `RxCapacity * IterationPeriod + SendingPeriod + ActivityPeriod`. The
code names only the last term. The second is there because entries are stamped at
the end of the receive window, not when the datagram came. The first is there
because a request ends the receive loop after one pass, so that with a program
asking in every iteration the queue drains by one datagram per period. The bound
is tight in the checked instances.

### Where the code does not do what the repository says

Each of these runs checks one property and TLC finds it violated:

| Run | Property | What happens |
|---|---|---|
| `unplugged` | `AnnouncesOverEveryInterface` | Line 87 removes the target of `if_nametoindex(name)`, 0 once the interface is gone: the old target stays, and the send fails at it before the targets behind it. README.md:13 promises "all available network interfaces". |
| `ipv4_only` | `AnnouncesOnIPv4` | Line 56 computes `canUseIPv4` from `ipv6s`: a machine without IPv6 announces nothing, against the same line of README.md. |
| `ipv4_interfaces` | `AnnouncesIPv4OverEveryInterface` | Line 195 of IPMulticastSender.hpp sets INADDR_ANY for every target: of two interfaces with IPv4 addresses, one carries both copies and the other none, against the same line of README.md. |
| `impatient_client` | `OnlyExternalExit` | With `CLI_REQUEST_WAIT_TIME_SECONDS` (10 s) shorter than the iteration period, a program gives up, and the answer written to it later ends the daemon by SIGPIPE. It takes an earlier request, which ends the receive loop, so that the daemon sleeps when the second one comes. Process.cpp:53: "exit from loop happens externally by OS (Ctr+C, kill etc.)". |
| `ipv6_prefix` | `ListedShareAPrefix` | Line 53 of IPAddressManager.cpp masks with `CHAR_BIT` where a remainder is meant: `remainingBits` is 8 after an odd number of full bytes and 0 after an even one. Bits of a prefix beyond an even number of bytes are not compared (a /65 is taken for a /64), and after an odd number a byte too many is (two machines of one /56 are not listed). README.md:11: "CLI returns network interfaces only with matching subnet/prefix IPs". |

Four more have no run of their own:

* Addresses are filtered when received (294), not when answered (304), so that a
  machine that moved to another prefix lists neighbors of the old one until they
  expire, against the same line of README.md. `AnswersMatchLocalSubnets` is
  checked and proved for machines that keep their addresses.
* The error path of line 50 reads a `msg` that a failed `getInterfaces` does not
  carry, and throws: `GetInterfacesFails`, taken in `faults`, ends the daemon.
  FunctionReturn.hpp:15: "output of functions that's failure can be handled".
* A length in a datagram that no vector or string can have makes `deserialize` throw
  (Deserializer.hpp:99 reserves it before it is checked, and the sum of line 80 may
  wrap), and nothing catches it: `ReceiveThrows`, taken in `faults`, ends the daemon,
  against Process.cpp:53. `AnnouncementsDecodeWhole` says that what daemons send,
  whole or cut, does not do it.
* An answer longer than one chunk or than `SINGLE_MESSAGE_MAX_SIZE_BYTES` is cut
  by the program's one read and fails to decode, where Deserializer.hpp:28 says
  that "deserialization shoudln't fail unless buffers are mutated outside of this
  program". `ShortAnswersArrive` holds of the others.

So the passing runs of `AnnouncesOverEveryInterface`, `OnlyExternalExit` and
`AnswersMatchLocalSubnets` say what holds without these causes: links that go down or
are readdressed but not unplugged, programs with a sufficient wait and datagrams that
do not throw, no readdressing. `AnnouncesOnIPv4`, that some interface carries the
announcement, is proved for machines where every interface has an IPv6 address; its
stronger form `AnnouncesIPv4OverEveryInterface` holds of no machine with two
interfaces that have IPv4 addresses. `ListedShareAPrefix` holds in `network` where
prefixes are whole bytes, an even number of them.

## 4. Fairness

`Fairness` (used by `liveness`) is weak fairness of the daemon's steps and of each CLI
program's once it is connected: the scheduler runs both. Nothing is assumed of links,
hosts, users (`Connect`, `Interrupt`, `RunAgain`) or of `Start` and `Kill`. The clock
gets strong fairness: the receive loop spins, so `Tick` is enabled and disabled again
at every pass (a pass reads the clock once), and time passes all the same.
`IterationsRepeat` allows for a daemon that is not running, since nothing restarts it.

`NeighborNetwork` has weak fairness of each daemon's steps and of the clock, whose
step waits there for every daemon to wait. Nothing is assumed of losses (only that
they are bounded), crashes, changes, requests or `Boot`. `AnswerTransfer` has weak
fairness of the daemon's writes and of the program's steps; `GiveUp` gets strong
fairness because each test of the time finds it enabled and the time it compares with
grows without end. `SocketOwnership` states no liveness.

## 5. Proofs

The theorems hold for every value of the constants that meets the modules'
assumptions, which TLC evaluates in every run. For the system these are
`LocalHostAssumption`, `DaemonAssumption`, `CliAssumption` and `SystemAssumption`
(types, disjoint subnets of the two families, no client called
`NoClient`, periods that are natural numbers):

* `TypeCorrect == SafetySpec => []TypeOK`. `TypeOK` is inductive. The proof has a
  lemma per group of actions (`ControlType`, `InterfaceLoopType`, `SendType`,
  `ReceiveType`, `TableType`, `ClientType`, `LinkType`, `HostType`, `TickType`)
  and one per operator they use. It includes the caps: that ages, target counts
  and clocks stay inside the bounds of the model.
* `RequestsAnswered == SafetySpec => ReadRequestsAreAnswered`. The property is
  about one step and not inductive; it needs `RequestInHand`: if some request was
  read in this iteration, it is that of the connection in `clientSocket`, the
  request flag is set, the server exists and the daemon is past the read. This
  holds because a request ends the loop (`ReceiveAgain` is disabled), so that no
  later accept replaces the connection: dropping `!receivedRequestFromCliClient`
  from line 260 breaks the invariant, and the run `table` finds the loss.
* `OneAnswer == SafetySpec => []OneAnswerPerRequest` (`RequestProofs`). That a
  client has at most one answer does not follow from the client having had none:
  something must keep a second connection of its from being served. The inductive
  invariant `OneAnswerInv` says so in five parts: a client with an answer is
  neither queued nor held by the daemon (`AnsweredHaveLeft`); a client that has
  not connected is not connected (`IdleAreUnconnected`); only what was sent is
  unread (`UnreadWereSent`); no connection is queued twice or both queued and
  held (`ConnectionsDistinct`); and the request in hand was read from the
  connection in hand (`RequestWasRead`). The lemmas `QueuedOnce` and
  `AcceptedOnce` are the facts on the backlog's sequence it rests on, and there is
  a lemma per kind of step. Fairness, the daemon's deaths and the programs' own
  are irrelevant to it: `Exit` empties the backlog and closes the connection.

* `ImplementsService == SafetySpec => ServiceImplemented` (`RequestProofs`). Each
  step maps to a step of `NeighborService` or to a stutter: the only step that is
  more than a renaming is `Answer`, which must find its program waiting and
  without a reply. That needs `OneAnswerInv` and one fact more, `PeersRun`: a
  connection whose program is counted as alive belongs to a program that is
  running.
* `Mirrored` and `AnswersMatch` (`InterfaceProofs`): `IndicesKept` implies
  `SafetySpec => []InterfacesMirrored`, `LinksFixed` implies
  `SafetySpec => []AnswersMatchLocalSubnets`. The assumptions are those the
  violations above show to be
  needed: no unplugging, no outage of all interfaces and no failing socket for the
  first, no change of addresses for the second. The invariant `MirrorInv`
  says how far the targets are from `prevNifs` and `nifs` in the middle of the two
  loops; `MatchInv` that an iteration works on the current interfaces and that
  the table holds only subnets of theirs.
* `AnnouncedEverywhere` and `AnnouncedOnIPv4` (`InterfaceProofs`): with
  `IndicesKept`, as above, and `IPv6Everywhere` (every interface has an IPv6
  address),
  `AnnouncesOverEveryInterface` and `AnnouncesOnIPv4` hold. That a send reaches every
  interface takes `MirrorInv`, which has the targets at the right interfaces,
  together with each of them being up and addressed, since `send` stops at the
  first that is not; the runs `unplugged` and `ipv4_only` break one condition each.
* `ClientsAreServed` and `DaemonKeepsRunning` (`TimingProofs`): `Patience` implies
  `SafetySpec => []NoClientTimesOut` and `SafetySpec => []OnlyExternalExit`.
  `Patience` says that sockets are created, nothing is killed and getifaddrs does not
  fail, that no datagram makes `deserialize` throw (those of other daemons do not:
  `WholeAnnouncements` below), that an interface is always up, that a waiting program
  is not stopped or interrupted, and that `IterationPeriod` times the number of
  programs is less than `CliWait`. The run `table` meets it (2 * 2 < 5); Config.hpp,
  with 20 s against 10 s, does not even for one program, and `impatient_client` shows
  what follows. The two are proved together, since neither is inductive alone: a
  program gives up only if it was not served in time, and the daemon ends only by
  answering one that gave up. `ServedInv` bounds what each connection has waited plus
  what it still has to wait for its place in the backlog (`Left`, one iteration per
  place, less what has passed of the current one) by one iteration per program
  (`InTime`); that a request ends the loop after one pass and an iteration accepts at
  least one connection is what makes `Left` fall.
* `SilentForgotten` (`TimingProofs`): `Attentive` implies
  `SafetySpec => []SilentHostsForgotten`. `Attentive` says that no program is
  stopped between connect and send (one that is holds the daemon in its read for
  any length of time), that one interface is always up and each has an IPv6
  address (or the receivers are skipped), and that MACs are those of one machine.
  Kills, restarts, failing sockets and changing interfaces are allowed. `RecentInv`
  bounds the silence of a host by where the last of it is: behind k datagrams of a
  queue, in the map of this iteration, in the table at an age. The three parts are
  the three terms of `ForgetAfter`.
* `HeardWhileRunning` and `HeardKept` (`TimingProofs`): `Audible` implies
  `SafetySpec /\ []OnlyExternalExit => []HeardHostsKept`, and with `Patience` the
  same without the second premise: each cause of the daemon's end that the model has,
  datagrams that throw among them, is then excluded by name or proved not to occur.
  `Audible` says that interfaces do not change,
  that the daemon is not killed (its table goes with it), that each announced interface
  has a MAC of its own and that silence is counted beyond the activity period.
  `HeardInv` says where the last announcement of a host is: queued, received in this
  iteration, or in the table with an age of at most the host's silence.
* `SubnetProofs`: that `isSameSubnet` compares bytes that exist; that it is an
  equivalence in both families; that over IPv4 it is what a netmask means; and for
  which prefix lengths over IPv6 it matches no more than the prefix (`Sound`) and
  exactly that (`Exact`).
* `NetworkTypeCorrect` and `ListedPrefixes` (`NetworkProofs`), for any number of
  machines. The second assumes `SoundConfigured`, that every configured prefix
  length is sound, uses `SoundPrefixes`, and rests on an invariant that follows
  interfaces from the machine that keeps its addresses into `nifs` and the table.
* `SteadyKept` (`NetworkProofs`): `Generous` implies
  `SafetySpec /\ []QueuesHaveRoom /\ [][links' = links]_vars => []SteadyNeighborsKept`,
  for any number of machines, losses, crashes and requests and any jitter.
  `Generous` says that a window is no shorter than a period with its jitter (30 s
  to 20 s in Config.hpp), that no two machines share a MAC, and that
  `ActivityPeriod >= (MaxLoss + 1) * (SendingPeriod + Jitter) + (MaxEvents - 1) *
  (IterationPeriod + Jitter)`. The last term, 0 in the run `network`, came out of the
  proof: a request ends the window after one datagram, and an announcement that
  waits behind those of other machines comes one iteration later for it. It is
  needed: three machines with windows and periods of 2, no loss, no jitter and 2
  requests drop a steady machine when `ActivityPeriod` is 3, and not when it is 4. The
  constants of `network` meet `Generous`, and its behaviors without a
  `Reconfigure` the last premise. A full queue drops what
  arrives without its counting as missed, and two changes of interfaces may
  bring older and newer announcements of one machine into a queue, of which the
  older replaces what was listed: the premises exclude both. `SteadyInv` says how
  old the entry of a steady machine may be (`AgeBound`), by how far its next
  announcement has come: not sent (`missed` and the time since the last), in the
  queue (`Overdue` and the iterations it has waited there), received (no bound, the
  entry is about to be renewed).
* `RoomForAnnouncements` and `SteadyKeptWithRoom` (`NetworkProofs`): `Roomy` implies
  `SafetySpec => []QueuesHaveRoom`, and with `Generous` it makes the premise
  `[]QueuesHaveRoom` of `SteadyKept` unnecessary. `Roomy` says that machines are
  finitely many and that, for some K, K announcements of each, with `MaxCopies`
  datagrams for each, fit in a queue and K iteration periods are longer than an
  announcement can wait in one, which is `MaxEvents` iterations and what an iteration
  is longer than a window. With the periods of the run `network` K is 2, since 3 + 0 <
  2 * 2, and it takes an `RxCapacity` of 9, since 2 * 2 * 2 < 9; the run has 6, so
  that there it is TLC that finds room, which two machines with this one event never
  fill. How long a queue gets depends on how the iterations of all machines overlap,
  and no bound on its length is inductive. `RoomInv` bounds the age of what is queued
  instead (`Behind`: nothing once a window has had a pass in which time went by, and a
  `Nap` more for each event that may have ended one early) and gives each datagram one
  of the `MaxCopies` places of a slot, a slot being one of the last announcements of a
  machine, which lie an iteration apart (`Accounts`); the slots that are younger than
  `Behind` are then counted.
* `DepartedAreForgotten == SafetySpec => []GhostsForgotten` (`NetworkProofs`), on no
  assumption but the module's: whatever the periods, queues, losses and machines.
  `GhostInv` is `RoomInv` and, for what is stale wherever it is, how long ago the
  network came to rest at most: in a queue no longer than the wait there
  (`QueueGhosts`), in `receivedNifs` than the wait and the window so far
  (`ReceivedGhosts`), as the interfaces an iteration works with than that window
  (`NifsGhosts`), and in the table than all of it and the age of the entry, with what
  the iteration still has to go until `remove` (`TableGhosts`, `Rest`). Every
  iteration cut short by an event is paid for by one `Nap`.
* `CodecRoundTrips` and `WholeAnnouncements` (`TransferProofs`), for every set of
  lists of interfaces (`TransferAssumption` and `SerializationAssumption`: strings and
  lists no longer than there is memory for, `MaxSize`, and lengths that wrap only far
  above it, `2 * MaxSize < WordLimit`), any word size and any size of the receive
  buffer: an encoding, whole or cut anywhere, decodes to what was sent or not at all,
  and one in a buffer that is larger decodes if and only if it fits, and throws in no
  case. `Carries` says that a buffer holds an encoding at an offset as far as it goes,
  `Reads` what reading it must then give; a lemma per type goes from one to the other
  (`WordRead`, `StringRead`, `IPv4Read`, `IPv6Read`, `VectorRead`, `NetInterfaceRead`,
  `ListRead`). The library's induction theorems take operators, which the provers
  cannot instantiate, so `Inductive` and `Recursion` are proved here for sets and
  functions, from the least counterexample; `Flatten` and `ItemsRead` show that the
  recursive functions of the encoding and of the vector's loop have a solution,
  without which nothing could be said of them, and are the inductions over the items.
* `WholeAnswers` and `ShortAnswers` (`TransferProofs`), for all chunks and sizes, on
  the same assumptions: until the program reads, what was written and what is left
  make up the encoding (`NothingLost`), so that a read takes a beginning of it,
  and a short answer is never in two pieces (`OneWrite`). That the beginning decodes
  to the list or not at all is `RoundTripHolds`, as for `CodecRoundTrips`.
* `Ownership` and `Listener` (`SocketProofs`), for any number of daemons. The first
  needs `OwnershipInv`, which says which places may hold something at each step
  of a setup; the second `PathInv`: as long as no daemon ended or failed, the path
  leads to a daemon that listens or is about to, or is absent with a start in
  progress that will bind it. That a start finds its path taken is no exception:
  somebody bound it after this start's unlink.

Only model-checked:

* all liveness (`IterationsRepeat`, `RequestsEnd`, `DepartedHostsForgotten`,
  `TablesConverge`, `TransferEnds`): TLAPS does not prove liveness under fairness;
* `SteadyNeighborsKept` across a change of interfaces (`Reconfigure`), and where
  `Generous` or `Roomy` does not hold.

## 6. Not modelled

* What is printed and logged, the LOCAL marks of the CLI program included; the
  logger main passes is never null. `File` has no caller.
* `daemonize`: it redirects descriptors, `main` ignores its result, and nothing
  that is modelled depends on it, except that the daemon's parent runs no
  destructor.
* The move assignments of the sockets and parts of `IndexedTimedSet` (`operator[]`,
  `remove` by index, `size`), which have no caller.
* A second daemon that took the path over and ends leaves the first one running and
  unreachable. `SocketOwnership` has those behaviors; `StartsLeaveAListener`
  excludes them, since nothing in the repository promises otherwise.
* What is promised when no interface is left (the skipped diff of line 54 with the
  assignment of line 314) and which interface the IPv4 group should be joined on:
  both are modelled, and the repository states nothing to check.
* Interfaces without a MAC, which all share one index of the table. `NeighborNetwork`
  would take them; `TablesConverge` is false of two machines with one MAC.
* In `NeighborNetwork` both families are one and every machine has an IPv6 address;
  the families apart, with a receiver of their own each, are in
  `NeighborDiscoverySystem`, for one machine.

## 7. Running

```
tlc -config <run>.cfg MCSystem        # interfaces table liveness faults
tlc -config <run>.cfg MCSystem        # unplugged ipv4_only ipv4_interfaces impatient_client:
                                      # a violation each
tlc -config network.cfg MCNetwork
tlc -config ipv6_prefix.cfg MCNetwork # a violation
tlc -config answer.cfg MCTransfer
tlc -config sockets.cfg MCSockets
tlapm NeighborDiscoveryProofs.tla
tlapm RequestProofs.tla
tlapm InterfaceProofs.tla
tlapm TimingProofs.tla
tlapm SubnetProofs.tla
tlapm NetworkProofs.tla
tlapm TransferProofs.tla
tlapm SocketProofs.tla
```
