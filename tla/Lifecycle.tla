----------------------------- MODULE Lifecycle -----------------------------
(***************************************************************************)
(* The life of the controller's process, from main's tcpSetup to the       *)
(* SIGINT handler `terminate': the two lists as the pointers they are,     *)
(* with the insertions of myGraph.c step by step, and freeLL and freeFlows *)
(* taking them apart.  Blocks come from SmartAlloc, whose two "threads"    *)
(* are here main and the signal handler: the handler runs on top of main,  *)
(* which takes no step until the handler returns, and it never does.       *)
(* SIGINT may come between any two steps, also inside the allocator.       *)
(***************************************************************************)
EXTENDS SmartAlloc, FiniteSets

CONSTANTS main, handler,  \* the two contexts
          Sockets         \* the sockets insertions are made for

ASSUME LifecycleOK ==
  /\ Threads = {main, handler} /\ main # handler
  /\ Sockets \subseteq Nat \ {0}
  /\ Sizes # {}

Lists == {"ll", "flows"}

VARIABLES
  sd,        \* the listening socket: "none", "open", "closed"
  catching,  \* signal(SIGINT, terminate) was called
  who,       \* which context runs
  at,        \* per context, its place in the code outside the allocator
  job,       \* the insertion main is making: list, socket, row found
  root,      \* per list, the first row: the globals ll and flows
  next,      \* per block, its `next' pointer, of a row or of a node
  head,      \* per block that is a row, its `head' pointer
  socket     \* per block that is a row, its `socket'

lists    == <<root, next, head, socket>>
lifevars == <<vars, sd, catching, who, at, job, lists>>

LifeInit ==
  /\ Init
  /\ sd = "none"
  /\ catching = FALSE
  /\ who = main
  /\ at = [c \in {main, handler} |-> IF c = main THEN "tcpSetup" ELSE "terminate"]
  /\ job = [list |-> "ll", socket |-> 0, row |-> NULL]
  /\ root = [L \in Lists |-> NULL]
  /\ next = [a \in Addrs |-> NULL]
  /\ head = [a \in Addrs |-> NULL]
  /\ socket = [a \in Addrs |-> 0]

(* Context c is at a place outside the allocator.                          *)
Ready(c, place) ==
  fate = "running" /\ who = c /\ pc[c] = "idle" /\ at[c] = place

Move(c, place) == at' = [at EXCEPT ![c] = place]

AllocStart(place) ==
  /\ \E n \in Sizes : StartAlloc(main, n)
  /\ UNCHANGED left
  /\ Move(main, place)

Got == call[main].blk

(* exit *)
Exit ==
  /\ fate' = "exited"
  /\ UNCHANGED <<heap, track_hash, allocated, inited, mutt, pc, call, seen, live,
                 reported, left>>

---------------------------------------------------------------------------
(* main and handleConnections, up to the loop *)

TcpSetup ==
  /\ Ready(main, "tcpSetup")
  /\ \/ sd' = "open" /\ Move(main, "signal") /\ UNCHANGED vars
     \/ Exit /\ UNCHANGED <<sd, at>>
  /\ UNCHANGED <<catching, who, job, lists>>

InstallHandler ==
  /\ Ready(main, "signal")
  /\ catching' = TRUE
  /\ Move(main, "make_ll")
  /\ UNCHANGED <<vars, sd, who, job, lists>>

MakeRoot(L) ==
  /\ Ready(main, IF L = "ll" THEN "make_ll" ELSE "make_flows")
  /\ AllocStart(IF L = "ll" THEN "got_ll" ELSE "got_flows")
  /\ UNCHANGED <<sd, catching, who, job, lists>>

(* The block is filled with 0: a row of socket 0 with no nodes.            *)
GotRoot(L) ==
  /\ Ready(main, IF L = "ll" THEN "got_ll" ELSE "got_flows")
  /\ root' = [root EXCEPT ![L] = Got]
  /\ next' = [next EXCEPT ![Got] = NULL]
  /\ head' = [head EXCEPT ![Got] = NULL]
  /\ socket' = [socket EXCEPT ![Got] = 0]
  /\ Move(main, IF L = "ll" THEN "make_flows" ELSE "serve")
  /\ UNCHANGED <<vars, sd, catching, who, job>>

---------------------------------------------------------------------------
(* addPathNode and addFlowNode, from a message's handler, of a host or     *)
(* flow that is not in the list                                            *)

(* What is reached from block a over `next', a included: what is in every  *)
(* set of blocks that has a and with a block the next one.                 *)
Follow(a) ==
  {b \in Addrs :
     \A S \in SUBSET Addrs :
       {a} \ {NULL} \subseteq S /\ (\A c \in S : next[c] \in S \cup {NULL}) => b \in S}

RowOf(L, s) == {r \in Follow(root[L]) : socket[r] = s}

(* The walk: to the socket's row, and a new row when there is none.        *)
Insert(L, s) ==
  /\ Ready(main, "serve")
  /\ \/ /\ RowOf(L, s) = {}
        /\ job' = [list |-> L, socket |-> s, row |-> NULL]
        /\ AllocStart("got_row")
     \/ \E r \in RowOf(L, s) :
          /\ job' = [list |-> L, socket |-> s, row |-> r]
          /\ AllocStart("got_node")
  /\ UNCHANGED <<sd, catching, who, lists>>

FillRow ==
  /\ Ready(main, "got_row")
  /\ socket' = [socket EXCEPT ![Got] = job.socket]
  /\ head' = [head EXCEPT ![Got] = NULL]
  /\ next' = [next EXCEPT ![Got] = NULL]
  /\ Move(main, "link_row")
  /\ UNCHANGED <<vars, sd, catching, who, job, root>>

(* The row goes behind the last one, and the node is allocated.            *)
LinkRow ==
  /\ Ready(main, "link_row")
  /\ \E last \in Follow(root[job.list]) :
       /\ next[last] = NULL
       /\ next' = [next EXCEPT ![last] = Got]
  /\ job' = [job EXCEPT !.row = Got]
  /\ AllocStart("got_node")
  /\ UNCHANGED <<sd, catching, who, root, head, socket>>

(* Mutant: newNode->next = cur->head is left out.                          *)
FillNodeForgotten ==
  /\ Ready(main, "got_node")
  /\ next' = [next EXCEPT ![Got] = NULL]
  /\ Move(main, "link_node")
  /\ UNCHANGED <<vars, sd, catching, who, job, root, head, socket>>

FillNode ==
  /\ Ready(main, "got_node")
  /\ next' = [next EXCEPT ![Got] = head[job.row]]
  /\ Move(main, "link_node")
  /\ UNCHANGED <<vars, sd, catching, who, job, root, head, socket>>

LinkNode ==
  /\ Ready(main, "link_node")
  /\ head' = [head EXCEPT ![job.row] = Got]
  /\ Move(main, "serve")
  /\ UNCHANGED <<vars, sd, catching, who, job, root, next, socket>>

---------------------------------------------------------------------------
(* SIGINT *)

(* It ends the process while there is no handler, and is blocked while     *)
(* the handler runs.                                                       *)
Sigint ==
  /\ fate = "running" /\ who = main
  /\ IF catching THEN who' = handler /\ UNCHANGED vars ELSE Exit /\ UNCHANGED who
  /\ UNCHANGED <<sd, catching, at, job, lists>>

CloseSd ==
  /\ Ready(handler, "terminate")
  /\ sd' = "closed"
  /\ Move(handler, "ll")
  /\ UNCHANGED <<vars, catching, who, job, lists>>

(* Mutant: a row is freed before its `next' is read.                       *)
FreeRowFirst(L) ==
  /\ Ready(handler, L) /\ root[L] # NULL /\ head[root[L]] = NULL
  /\ IF root[L] \in live
     THEN StartFree(handler, root[L]) /\ UNCHANGED <<left, root>>
     ELSE root' = [root EXCEPT ![L] = next[root[L]]] /\ UNCHANGED vars
  /\ UNCHANGED <<sd, catching, who, at, job, next, head, socket>>

(* Mutant: ll->head = ll->head->next is left out.                          *)
FreeNodeStays(L) ==
  /\ Ready(handler, L) /\ root[L] # NULL /\ head[root[L]] # NULL
  /\ StartFree(handler, head[root[L]])
  /\ UNCHANGED <<left, sd, catching, who, at, job, lists>>

(* freeLL and freeFlows: the nodes of the first row, then the row          *)
FreeNode(L) ==
  /\ Ready(handler, L) /\ root[L] # NULL /\ head[root[L]] # NULL
  /\ head' = [head EXCEPT ![root[L]] = next[head[root[L]]]]
  /\ StartFree(handler, head[root[L]])
  /\ UNCHANGED <<left, sd, catching, who, at, job, root, next, socket>>

FreeRow(L) ==
  /\ Ready(handler, L) /\ root[L] # NULL /\ head[root[L]] = NULL
  /\ root' = [root EXCEPT ![L] = next[root[L]]]
  /\ StartFree(handler, root[L])
  /\ UNCHANGED <<left, sd, catching, who, at, job, next, head, socket>>

ListFreed(L) ==
  /\ Ready(handler, L) /\ root[L] = NULL
  /\ \/ L = "ll" /\ Move(handler, "flows") /\ UNCHANGED vars
     \/ L = "flows" /\ Exit /\ UNCHANGED at
  /\ UNCHANGED <<sd, catching, who, job, lists>>

---------------------------------------------------------------------------
(* The context that runs takes a step of its call into the allocator.      *)
AllocatorStep ==
  /\ Step(who) /\ UNCHANGED left
  /\ UNCHANGED <<sd, catching, who, at, job, lists>>

Boot == TcpSetup \/ InstallHandler \/ \E L \in Lists : MakeRoot(L) \/ GotRoot(L)

Serve ==
  \/ \E L \in Lists, s \in Sockets : Insert(L, s)
  \/ FillRow \/ LinkRow \/ FillNode \/ LinkNode

Terminate ==
  CloseSd \/ \E L \in Lists : FreeNode(L) \/ FreeRow(L) \/ ListFreed(L)

LifeNext == Boot \/ Serve \/ Terminate \/ AllocatorStep \/ Sigint

LifeSpec == LifeInit /\ [][LifeNext]_lifevars

(* The handler is scheduled like any code; nobody has to send SIGINT.      *)
LifeFairSpec == LifeSpec /\ WF_lifevars(Terminate) /\ WF_lifevars(AllocatorStep)

---------------------------------------------------------------------------
(* Properties *)

(* freeLL and freeFlows read no block that was freed or never allocated    *)
(* and free none twice, at whatever step of an insertion SIGINT came.      *)
WalkStaysAllocated ==
  /\ reported = {} /\ fate # "crashed"
  /\ \A L \in Lists :
       Ready(handler, L) /\ root[L] # NULL =>
         root[L] \in live /\ head[root[L]] \in live \cup {NULL}

(* What main had asked the allocator for and not yet put in a list.        *)
InHand == IF at[main] \in {"got_ll", "got_flows", "got_row", "link_row",
                           "got_node", "link_node"} THEN {Got} ELSE {}

(* terminate frees everything but the one block main was about to insert:  *)
(* the lists hold all else at every step of an insertion.                  *)
LeaksOnlyInterrupted ==
  fate = "exited" /\ who = handler => heap \subseteq InHand

(* SIGINT that comes while main is not inside the allocator's critical     *)
(* section ends the process.  (One that comes there does not: terminate's  *)
(* first smartfree waits for the mutex main holds.  libc's own malloc and  *)
(* free are single steps here.)                                            *)
ShutdownEndsUnlessLocked ==
  who = handler /\ mutt # main ~> fate = "exited"
=============================================================================
