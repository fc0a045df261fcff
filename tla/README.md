# A verification of the SDN OpenFlow controller

`src/` is a small OpenFlow 1.0 controller in C: one process, one thread, no
persistent state. Switches connect to it over TCP; it learns where hosts are
from the frames the switches send up, and installs flows when it sees ARP
replies. This directory holds TLA+ models of it, the TLC runs that check them
on small instances and theorems TLAPS proves for every size.

## 1. The system

| component | code | state | operations | interacts with |
|---|---|---|---|---|
| Event loop | `controller.c` 689-837, `networks.c` 34-53 | `set`, `t_set`, `nfds`, the loop index; the kernel's socket buffers and backlog | select, scan, accept, read one message (header, then body) | calls the handlers with one message; reads what the switches wrote |
| Message handlers | `controller.c` 148-682 | `xid`, the lists `ll` and `flows` | HELLO, FEATURES_REPLY, ECHO_REQUEST, PACKET_IN, PORT_STATUS; everything else is ignored | called by the loop; use the lists; `send` to the switch the message came from |
| Host and flow lists | `myGraph.c` 64-106, 146-239, `findPort` | linked lists of linked lists, one row per socket | find a node, find a flow, add a node, add a flow | allocate with the tracking allocator |
| Message layout | `openflow.h`, the handlers' `memcpy`s | - | read fields of a PACKET_IN, write the messages sent | inside the handlers |
| Set-up and shutdown | `controller.c` 842-925, `networks.c` 1-33 | `sd`, the signal handler, the lists | socket, bind, listen; SIGINT: close, free everything, exit | interrupts the loop anywhere |
| Tracking allocator | `smartalloc.c` | hash of tracked blocks, `allocated`, a mutex | allocate, free, reallocate | called by lists and shutdown |
| The network | not in `src/` | flow tables, links, hosts | look up, forward, flood, ask, answer | sends PACKET_INs, carries out FLOW_MODs and PACKET_OUTs |
| Flow removal | `controller.c` 86-140, `myGraph.c` 108-144 | (the lists) | remove the first flow through a port | no caller: the call at 162 is commented out |
| Adjacency graph | `myGraph.c` 10-60 | - | create, add edge, print | never called |

What makes each correct, and what is hard about it:

* **Event loop.** Handlers must see each switch's messages whole, in order and
  once, though TCP cuts them anywhere; nobody may starve; a `recv` that cannot
  return blocks every switch. Hard: what `select` said is used after other
  sockets were accepted, read and answered; a connection may end at any unit
  of any message; ended sockets stay in the set; descriptors run out.
* **Handlers and lists.** What the controller knows of a host at a switch must
  be what that switch said; what it tells a switch must follow from it; one
  switch's messages must not affect another. Hard: long sequences of legal
  messages (a host that moves, a reply without a request), a send that fails
  between two messages that belong together, `xid` shared by all connections,
  one buffer reused for two messages.
* **The network as a whole.** Hosts that ask must be answered and connected, by
  steps of every switch on the way. Hard: requests that cross; flows that
  bypass the controller before it has learned; a controller that dies between
  two sends and comes back knowing nothing while the switches keep their flows.
* **Allocator.** The table, its sum, libc and the callers must agree whatever
  the interleaving. Hard: a test made before the mutex is taken; a
  reallocation in three steps; ways out of a critical section.
* **Shutdown.** A signal between any two instructions of an insertion, or inside
  the allocator that the handler itself calls.

PROJECT.json lists each such hazard at its line with the properties about it.

## 2. Modules

| module | what it is |
|---|---|
| `MyGraph` | the lists of `myGraph.c` as operators on sequences of rows |
| `WriteOnce` | abstract: an entry that is written at most once |
| `Controller` | the handlers: one action per message, over `MyGraph` |
| `Wire` | the bytes the handlers read and write, against `openflow.h`; extends `Controller` |
| `Network` | `Controller` composed with switches, links and hosts, crashes and restarts |
| `MessageService` | abstract: messages handled one at a time, in order, until exit |
| `EventLoop` | `handleConnections`, `recvData` and `tcpAccept` at the level of system calls |
| `LiveBlocks` | abstract: a table of live blocks and the sum of their sizes |
| `SmartAlloc` | `smartalloc.c` for concurrent callers |
| `Lifecycle` | `main`, the lists as pointers, SIGINT and `terminate`, on top of `SmartAlloc` |
| `MC*` | model values, topologies and symmetry for TLC |
| `FirstMatch`, `MyGraph_proofs` | lemmas about least numbers, about walks and about the lists |
| `Controller_proofs`, `Histories_proofs` | theorems about `Controller` |
| `EventLoop_proofs` | theorems about `EventLoop` and `MessageService` |
| `SmartAlloc_proofs` | theorems about `SmartAlloc` and `LiveBlocks` |
| `Lifecycle_proofs` | theorems about `Lifecycle`, from those about `SmartAlloc` |
| `Network_proofs` | theorems about `Network`, where the switches form a tree |

How they fit together: `EventLoop` implements `MessageService`, whose step is a
step of `Controller`; `Network` runs `Controller`'s handlers inside a network
and assumes of the loop only what `loop_live` checks; `Wire` shows that the
messages `Controller` speaks of are the bytes of the code; `Lifecycle` takes the
same insertions apart into pointer assignments and uses `SmartAlloc` for its
blocks.

### Controller, MyGraph, Wire

`ll` and `flows` are sequences of rows `[socket, nodes]` in the order of the C
lists; a new node goes in front of its row as in the code, and every walk stops
at the first match. That order is kept because the questions are about which of
several entries a walk finds. Both start with the zero-filled row that
`handleConnections` allocates: on an empty list the insertion of the C code
assigns its own parameter and loses the node, which `PushNode` models too.

An action of `Controller` is one message on one socket with the whole handler.
`Handle` holds what all share: the message is recorded in the history `rcvd`,
the answers are handed to `send` in order, and the first `send` that fails
ends the process (`up' = FALSE`), leaving the switch with what was sent before.
After that the lists and `xid` describe nothing any more, and properties that
relate them to what was sent say `up =>`.

Frames are reduced to what the handlers look at: the two addresses and whether
the frame is an ARP reply. Loopback frames are those with equal addresses;
the order in which the handler tests (ARP reply first) is kept. A PACKET_IN
with reason NO_MATCH is dropped before its contents are looked at and so has
none. findPort's 0 for "not found" goes into flows as the code sends it.
`reportFeatures` and `reportPort` only print and do nothing here.

`Wire` restores what that leaves out. A buffer is a set of fields at literal
offsets, a value says whether it is in network or host order, `htons` swaps;
the structs of `openflow.h` are laid out field after field. `BytesAreMessages`
says of every step that the handler, fed the bytes of the message, writes the
bytes of exactly the messages `Controller` sends and makes the same of both
lists. Each abstract frame stands for all the kinds of frame `isArpReply` may
see (ARP request, ARP reply, another EtherType with the reply's opcode bytes).

A message cut short by the end of its connection (see `EventLoop`) is not among
the inputs of `Controller`. The code handles it with zeros for what is missing of
the body; when the header ends before its length does, no body is read and a
handler that looks at one sees an uninitialised buffer. What other
switches can notice of it is what any message of that switch may do: `xid`, which all
share, is advanced, and a `send` that fails ends the process. The rows it changes are
those of its own socket, whose switch is gone, and since no descriptor is ever
closed no other switch gets that socket.

### Network

A switch has a flow table (`table`), the messages of the controller it has not
carried out (`sent` beyond `read`), packet-ins on their way (`toCtl`) and
frames on the links (`wire`). `Forward` takes a frame that came in, `CarryOut` a
message of the controller, each in order per link and connection and in any
order between them. `Serve` is the handler of `Controller` on the oldest
packet-in. A host asks (`Send` to broadcast), answers (`Answer`), and sends frames
to hosts whose address it has, from their answer or from their request. A frame no flow matches goes to the controller
with reason ACTION: NO_MATCH packet-ins are ignored by the code
(`controller.c` 649), so a rule of lowest priority must be there that sends
them; the controller does not install one and its testers must.

The controller dies at any send (`Handle`), or between messages (`Exit`: SIGINT, a
`recv` or `accept` that failed); `Restart` gives it the empty lists of a new
process and new connections; what the switches sent and it did not read is
lost, flows and frames on the links stay.

### EventLoop and MessageService

A connection carries units: the two halves of a header, the second of which
says whether a body follows, and the two halves of the body. `Compose` is the switch writing a
message, `Deliver` one unit reaching the controller's socket buffer, so a
segment may end anywhere; `End` is the end or the reset of the connection,
after which what was delivered can still be read. The controller's actions are
`Select`; `Accept` and `AcceptFails` (the descriptors, which nobody closes, have
run out, and the process exits); the `recv` of the header (`RecvHeader`, `RecvEof`),
of the body (`RecvBody`, `RecvNoBody`), their failure (`RecvFails`); the
handler (`Handle`, `HandleFails`); and `EndScan`. `MSG_WAITALL` is a guard:
`RecvHeader` and `RecvBody` wait for both halves unless the connection has ended, by a
reset too, and then take what there is; a `recv` that finds nothing returns 0 or, after a
reset, fails. While one waits no other action of the loop is enabled, which is the point.
Descriptors count from the listening socket and are handed out in order, since
none is ever freed; `At` is the `for` loop passing over those not in `t_set`.

`ImplementsService` is the refinement that justifies `Controller`: mapped to
the messages that arrived whole (or ended with their connection) and wait, the
loop handles one message of one connection per step, in order. Steps of
`Controller` are thus exactly the service's `Serve` steps.

### SmartAlloc and LiveBlocks

A thread goes through its call one step at a time: libc's `malloc`, the
`inited` test, the critical section that adds, the emptiness test of a bucket
(without the mutex, as in `removeTrackNode`), the critical section that removes,
libc's `free`. A critical section is two steps, its reads and its writes, so that
a lock that does not exclude would lose updates; the two writes, of the sum and of the list,
are one step, so `SpaceAccounted` speaks of the moments outside the section. `smartrealloc` is removal,
allocation and release, as in the code. Callers pass back what was returned
once, or stray pointers. `LiveBlocks` is what all this should amount to: blocks
added and dropped whole, and a total.

Only the position of a block is kept of its contents; margins, fill patterns
and their checks (`freechecks`) are left out, as are the C++ operators of
`smartalloc.h`, which the C build does not compile.

### Lifecycle

`main` from `tcpSetup` to the loop, then insertions of hosts or flows that are
not yet in their list, one pointer assignment per step and with the real
allocator in between; `Sigint` between any two steps, from which on only the
handler runs, on top of whatever `main` was doing. `terminate` closes `sd`, takes
both lists apart and exits. The two "threads" of `SmartAlloc` are `main` and the
handler, and a mutex held by `main` is never given back.

## 3. Runs

Deadlock checking is off in all runs: the process may have exited, the bounds
may be used up, and a controller no switch writes to waits in `select` for ever.

| run | instance | shows |
|---|---|---|
| `ctl_safe` | 2 switches, 2 hosts and broadcast, 2 ports, every sequence of 3 messages, every failing send | what is known, what was told and in which bytes agree (nine invariants and refinements, switch isolation, layout) |
| `net_safe` | 2 hosts on a line of 2 switches, 2 frames besides the replies, 2 restarts | flows left behind by any number of deaths never lead astray; an answer means its flows are there and stay; nothing arrives twice |
| `net_live` | the same, one life of the controller, fairness | requests (also two that cross) are answered, connections become two-way, frames arrive, unless the controller dies |
| `loop_safe` | 3 connections, 2 descriptors, 2 messages | `select`'s answer stays true, framing, the refinement to `MessageService` |
| `loop_live` | 2 connections, 1 message each, fairness | no message or connection is starved |
| `alloc_safe` | 2 threads, 3 addresses in 2 buckets, 2 sizes, 4 calls, a stray pointer | the table is sound, tracks every live block, accounts for all space, implements `LiveBlocks`, no call waits for ever |
| `life_safe` | 5 blocks (both first rows and three more), sockets in two buckets | SIGINT anywhere: no freed block is read, what leaks is the one block in hand, and it ends unless it came inside the allocator's critical section |
| `net_restart`, `net_loop`, `loop_body`, `loop_leak`, `alloc_stray` | the least instance that shows it | what comments in the code say and the code does not do (section 4) |

Bounds, and why they are enough:

* `MaxRx` (messages handled). The shortest interesting histories of the handlers have
  three messages: a host heard, heard elsewhere, and answered; or the same with
  a second switch between. Two switches, two hosts and two ports are the least
  that can be confused with one another. In the runs of `Network` it is never
  reached: fewer than nine messages are handled in a life.
* `XidMod`. `ReplyXidsUnique` is stated while `3 * MaxRx + 1 < XidMod`, that is until
  `xid` wraps, which it does after some 10^9 messages; `ctl_safe` takes the
  least such modulus, the runs of `Network` take 4 and wrap.
* `MaxFrames`, `MaxRestarts`. Two frames are two requests that cross, or a request
  and a frame from the host that was asked, which has the asker's address from
  the request: that frame may overtake the answer, or be overtaken by it, at any switch, so that
  the controller passes it on at some switches and flows do at others. Two restarts are one whose
  flows meet those of a life before it, and one more. Two switches are the least with
  a path that can be half set up.
* `MaxMsgs`, `MaxInAll`, `MaxFds`. Two messages are needed for a piece of one to
  pass for another, three connections on two descriptors for the limit to be hit
  with others at work; in `loop_live` one connection dies and one lives.
* `MaxCalls`. Four calls are two allocations and two calls on them that meet in one
  bucket; three addresses in two buckets give a bucket of two and one of one.
* `Addrs` in `life_safe`. Besides the two first rows, three blocks are a new row with its
  node and one more node, for either list; when they are used up the allocator
  fails and the process exits.

Where a run has symmetry it is on names the modules only compare for equality,
and never with a liveness property.

Fairness:

* `loop_live`: the controller's process is scheduled whenever it can
  take a step (`WF_vars(Loop)`: a single thread that blocks only in system
  calls), and TCP delivers what a switch wrote for as long as the connection
  lasts (`WF_vars(Deliver(c))`). The second is needed: a switch that stops in
  the middle of a message stops the controller, which is what `loop_body` shows.
  Nothing is assumed of the switches writing, ending or connecting.
* `net_live`: hosts answer, each switch works, and the controller serves every
  connection in turn, which is `EventLoop`'s `EveryMessageHandled`. Nobody has to
  send a frame of their own or to start the controller again. `Served(s)` is
  `Serve(s)` told by its history variable, for TLC's sake.
* `alloc_safe`, `life_safe`: threads are scheduled when they can take a step. The
  mutex need not be fair because calls are finitely many. Nobody has to send SIGINT.

## 4. Findings

Where the code does not do what one of its comments says, a run checks the
comment as a property and TLC finds the counterexample.

* `loop_body`: the body of a message is read whether or not anything is there
  (`controller.c` 715, 720), and the whole controller waits.
* `loop_leak`: descriptors of ended connections are never closed, and the process
  exits when they run out, with no switch connected (768).
* `alloc_stray`: a wrong pointer is not reported but crashes `removeTrackNode` when
  another thread empties its bucket at the same time; the code looks at the bucket before it takes the mutex
  (`smartalloc.c` 15, 135, 139). The controller has one thread and cannot meet it.
* `net_restart`: an ARP reply whose destination was not heard since the controller
  started installs a return flow to port 0, and every later reply between the two
  hosts disappears in it (666, 464).
* `net_loop`: a frame from a host already known is not dropped but flooded (660, 679),
  so broadcasts circle where switches form a loop.

Seen on the way, without a run of their own: `setConfig`'s comment (242) lists a
FLOW_MOD between SET_CONFIG and the barrier, which is commented out (285), so
rules of an earlier life stay in the switch (this is what `net_restart` builds
on); "ONLY FOR BROADCAST" (679) is about code that floods unicast frames too
(without it frames would be lost while flows are set up: `FramesArrive`); the
saved flow of a pair keeps its first port while the switch has the last
(`SavedFlowIsFirstSent` states what the code does). SIGINT while the allocator
holds its mutex never ends the process; `ShutdownEndsUnlessLocked` states the
exception.

## 5. Proofs

`MyGraph_proofs` proves, for every list, what the lookups return
(`RowIs`, `PathIndexIs`, `FindFlowIs`: the first match, or 0 exactly when there
is none) and what the insertions preserve (`PushNodeIs`, `AddPathNodeIs`,
`AddFlowNodeIs`: types, one row per socket, nothing of any other socket;
`OnePathEachKept`, `OneFlowEachKept`: one node per host, per pair;
`FindPortAfter`: findPort's answer after an insertion). The minimum that the
library's `SelectInSeq` takes exists because `<` is well-founded on Nat.

`Controller_proofs` proves for every set of switches, hosts and ports and every
number of messages, from the one assumption `ConstantsOK`:

* `TypeCorrect == Spec => []TypeOK`. `TypeOK` is inductive as it stands,
  because it includes that both lists are non-empty, without which an insertion
  would be lost. `HandleType` deals with what all handlers share, `ListSteps`
  reduces the handlers to what they do to the lists.
* `NoEntryIsShadowed == Spec => []NoShadowedEntry`. The invariant is not
  inductive alone: an insertion keeps one row per socket only for a non-empty,
  well-typed list. `TypeOK /\ Tables` is, where `Tables` is the property in the
  terms of the lemmas.
* `RoutesImplementWriteOnce == Spec => RoutesAreWriteOnce`: the initial state
  maps to the register's, and every step that changes `ll`, by `FindPortAfter`,
  to a write of an empty register or a stutter.

`Histories_proofs` relates the lists to what was heard and said, from the same
assumption. `EveryExchange` reduces every step to one form (`Exchange`): a
message arrives, the first `k` messages of an answer are sent, the lists change
as the message says; `Answer` and `Saving` are what holds of every answer the
handlers compose. From it:

* `RoutesStayFirstHeard == Spec => []RoutesAreFirstHeard`: inductive with
  `TypeOK`. A host is added exactly when nothing was heard of it, since a heard
  port is never 0; a later message does not change the first (`EarlierStaysFirst`).
* `FlowPortsWereHeard == Spec => []FlowPortWasHeard`: inductive only with
  `RoutesAreFirstHeard` of the next state, because the back flow's port is read
  from the list after the frame's source was added to it.
* `TableOutsHaveFlows` and `FlowsStayPaired`: `TableOutHasFlow` and
  `FlowsComeInPairs` are inductive with `TypeOK`; the second needs that the
  process is down unless `k` is all of the answer.
* `SavedFlowsWereSent == Spec => []SavedFlowIsFirstSent`: `Saving` says of an
  answer that the list and any messages that agree on the flows still agree when
  the answer is appended and its flows are saved, one at a time (`SaveOne`), so
  that a loopback reply, whose two flows are one, is no special case.
* `SwitchesAreIsolated == Spec => SwitchIsolation`.
* `RepliesCanBePaired == Spec => []ReplyXidsUnique`. `XidInv` adds what makes it
  inductive: while the process runs nothing it numbered is beyond `xid`, every
  request is strictly behind it, and `xid` is at most `3 * Len(rcvd) + 1`, so that
  the modulus plays no part. `Numbered` is what all handlers share: the messages of
  an answer count up from `xid`, a request is neither the first of them nor the
  last number used; that `sendLoopFlow` does not advance `xid` is allowed by it.

`EventLoop_proofs` proves for any number of connections, descriptors and messages,
from `BoundsOK`:

* `LoopTypes` and `ReportedStaysTrue`. `LoopInv` adds to `TypeOK` and `ReportedStaysReadable`
  that descriptors are handed out without gaps and to one connection each
  (`Descriptors`), what a connection that was not accepted yet can hold (`Waiting`), and
  that what is being read is the socket at which the scan stands (`AtSocket`).
* `FramingIsKept == Spec => []MessagesAreFramed`. `FrameInv` follows the units of a
  connection through the stream, the socket buffer and the message being read:
  either they are whole messages from one boundary to the next (`Whole`) or the
  connection has ended inside one (`CutShort`). Where a message ends is defined by
  recursion along the units (`MessageEnds`).
* `LoopImplementsService == Spec => ImplementsService`: the initial state maps to the
  service's, `Serve` is the last `recv` of a message, an exit an exit, and everything
  else a stutter or an arrival.

`SmartAlloc_proofs` proves for every number of threads, blocks and buckets that
`NodesAreSound`, `LiveIsTracked`, `ReportsAreTrue`, `SpaceAccounted` and `TypeOK` are invariants of
`FirstCallDone /\ Spec` and that it implements `LiveBlocks`. None of them is inductive. `IInv`
adds to them, per thread, that a call owns the block it is adding or removing
(`Owns`) and that the holder of the mutex has read what is still there
(`Locked`), that no two calls are about the same block (`Apart`), and that libc
has given out nothing that is neither live nor held by a call (`NoneLost`).
`Apart` is what lets a bucket's emptiness be tested without the mutex: other calls
may change the bucket, but none of them touches the node this call is looking for.
`SpaceIsAccounted` and `TableImplementsBlocks` rest on facts about sums over finite
sets ("Sums"): a sum does not depend on the order of its terms and changes by the
term that comes or goes. `SizeFollowsNode` says that the size of a tracked block is
the one in its node, wherever in the bucket that is.

Besides `AllocatorOK` (no block is at address 0, a stray pointer is no block) these
theorems take `FirstCallDone`: the first call, which initialises table and mutex, was
made before the others begin, as in `main`. With two first calls at once the
code re-initialises a mutex in use. `IInv` was checked by TLC on `alloc_safe`'s
instance before it was proved.

`Lifecycle_proofs` proves `WalkIsSafe` and `LittleIsLeaked` for every number of blocks,
buckets and sockets, from `AllocatorOK` and `LifecycleOK`, with the first call
made or still to be made: until it is made there is nothing to free (`Unused`),
from then on the allocator's `IInv` holds. `LifeInv` adds what the pointers are:

* `Rows`: some blocks are rows, which lead to rows and have nodes, the others
  nodes, which lead to nodes; all of them but the one in hand are live;
* `Once`: no block is pointed to twice, so that a free leaves no dangling pointer;
* `Reached`: every set of blocks that contains the first rows and, with a block, what
  it points to contains all that was inserted. This is reachability without
  recursion. When both lists are empty the empty set is such a set, hence nothing is left,
  which is `LeaksOnlyInterrupted`.

The handler frees only live blocks, once each, so its calls report nothing and
never find an empty bucket. TLC checked the parts of `LifeInv` on `life_safe`'s
instance first.

`Network_proofs` proves the three invariants of `Network` for every number of switches, ports,
hosts, frames, messages and restarts, from `ConstantsOK`, `NetworkOK` and two hypotheses that the theorems
name: the switches are finitely many, and `OneWay`: a host is behind one port of each
switch only, that is, the switches form a tree as far as hosts are concerned. On a
loop the invariants are false, and `net_loop` shows what happens there; `MCNetwork`
has TLC confirm that `OneWay` holds of the lines the runs use and not of the loop
(`LinesAreTrees`). The first part is about trees: `BehindIs` unfolds the recursion of
`Behind`, and `NoDetour` says that no host is farther away than there are switches,
because a way that passes a switch twice can be cut short. Then `FramesMove` says,
once for all actions, where a frame may be after a step: where it was, or across one link
by a flow or a flood, or where its host is wired.

* `FlowsNeverLeadAway == NetSpec => []FlowsLeadOn`. `Placing` makes it inductive: the
  port a frame came in at (`ComeFrom`: on a link, in a packet-in, in a PACKET_OUT), the
  port the controller learned (`LearnedFrom`) and the port of a FLOW_MOD not carried out
  (`SentOn`) all have the host behind them. Restarts keep it because it speaks of
  where hosts are and not of what was heard.
* `FlowsAreKept == NetSpec => [][FlowsStay]_netvars`. A back flow to port 0 could replace one that
  leads somewhere. `Steady` excludes it: who has a flow to it was heard of in this life
  (`Heard`), and no FLOW_MOD to port 0 comes after one with a port or meets
  one in the table (`Firm`, `FirmTable`: only frames without a flow go to the controller). That a
  port is not replaced by another is `Placing` and `OneWay`.
* `AnswersComeByFlows == NetSpec => []AnswersTakeFlows`. An answer on its way has behind it a
  chain of switches whose flows lead to where it is, and no more switches ahead of
  it than are left (`OnItsWay`, `HasCome`). The chain stays by `FlowsStay`, grows by a link
  when a flow takes the answer on (`GoesOn`), and is never begun elsewhere, since an
  answer is not flooded (`NotFlooded`); that the switches of the chain are within `Depth` is
  what makes `Leads` true at its end (`ComeByFlows`).
* `FramesComeOnce == NetSpec => []DeliveredOnce`. For each host and frame, there is at most one
  copy that may still come to the host or has (`OneCopy`): on a link into a
  switch, in a packet-in, in a PACKET_OUT not carried out, or at the host. A step takes a copy from
  one site and puts copies at others (`Comes`, `Goes`), and of the ports a flood uses
  only one has the host behind it (`OutOnward`). `IdsDiffer` and `AllSaid` make the ids that
  `DeliveredOnce` speaks of those of the frames.

The parts of these invariants were checked by TLC on the line of two switches
before they were proved.

What is defined by recursion over data (`MessageEnds`, sums, `Behind`, `Leads`) is proved about without
induction: a set of numbers has a least element (`LeastElement` in `FirstMatch`),
so a statement that fails for some length fails for a least one.

Only model-checked: `Wire` (`BytesAreMessages`), and everything temporal under fairness
(out of the prover's reach).

## 6. Not modelled

* Flow removal (`removeFlow`, `findRemoveNode`): the only call is commented out, so no
  execution reaches it. As it stands its message would have command 0, which is
  ADD, and action type 3.
* The adjacency graph (never called), `connection_handler` (declared, unused), the
  file `1` (an old copy of `myGraph.h` that is not compiled).
* Printing, and the contents of FEATURES_REPLY and PORT_STATUS, which are only
  printed; the structs of `openflow.h` that the controller neither sends nor reads.
* Lengths: a message of more than the 1000 bytes of `recvData`'s buffer, and a
  PACKET_IN that carries less of its frame than `total_len` says. What the code does then is
  undefined and no text of the repository says what it should do.
* The first call of the allocator by two threads at once (`smartalloc.c` 73):
  `alloc_safe` starts after it, and this program makes it in `main`.

## 7. Plan

1. done: `MyGraph`, `Controller`, `WriteOnce`, `EventLoop`, `MessageService`.
2. done: `SmartAlloc` with `LiveBlocks`, `Lifecycle`, `Network`, `Wire`.
3. done: the theorems of section 5.
4. Theorems left: that the bytes of `Wire` are the messages of `Controller`, message by message.
