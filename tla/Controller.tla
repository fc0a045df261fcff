----------------------------- MODULE Controller -----------------------------
(***************************************************************************)
(* The OpenFlow side of controller.c: recvData's dispatch on a complete    *)
(* message and the handlers it calls, over the process's globals ll, flows *)
(* and xid.  One process, one thread: a handler runs to its end before the *)
(* next message is read, unless one of its send calls fails, and then the  *)
(* whole process exits.                                                    *)
(*                                                                         *)
(* An action is one message received on one socket together with its       *)
(* handler.  The switches are the environment: they send any message they  *)
(* may send, in any order.                                                 *)
(***************************************************************************)
EXTENDS Naturals, Sequences, MyGraph

CONSTANTS Sockets,    \* the accepted sockets, one per switch connection
          Macs,       \* Ethernet addresses
          Broadcast,  \* the broadcast address, one of Macs
          Ports,      \* the switch ports frames come in on
          EchoXids,   \* the xids the switches' echo requests carry
          XidMod,     \* 2^32, the range of the uint32_t xid
          MaxRx       \* bound: messages received over the life of the process

OFPP_TABLE == 65529   \* 0xfff9: perform the actions in the flow table
OFPP_FLOOD == 65531   \* 0xfffb: every port but the one the frame came from
OFPP_NONE  == 65535   \* 0xffff: not associated with a physical port

(* Socket 0 is the zero-filled first row of both lists: an accepted socket *)
(* is never 0, for then the listening socket would have been 0 already.    *)
ASSUME ConstantsOK ==
  /\ 0 \notin Sockets
  /\ Broadcast \in Macs
  /\ Ports \subseteq 1 .. OFPP_TABLE - 1
  /\ MaxRx \in Nat
  /\ XidMod \in Nat \ {0, 1}
  /\ EchoXids \subseteq 0 .. XidMod - 1

VARIABLES
  up,      \* the process has not exited
  ll,      \* hosts learned, per socket: rows of [to_mac, port]
  flows,   \* flows saved, per socket: rows of [dst_mac, src_mac, port]
  xid,     \* the next transaction id
  rcvd,    \* history: the messages handled, in order, with their sockets
  sent     \* history: per socket, the messages handed to send, in order

vars == <<up, ll, flows, xid, rcvd, sent>>

---------------------------------------------------------------------------
(* Messages *)

Xids == 0 .. XidMod - 1

(* A frame, as far as the handlers look at it: isArpReply reads its type   *)
(* and opcode, isLoopback and the flows its two addresses.                 *)
Frame == [dst : Macs, src : Macs \ {Broadcast}, arp_reply : BOOLEAN]

(* A packet-in that matched no flow is dropped before port and frame are   *)
(* looked at; the others were sent by the action of a flow.                *)
NoMatch == [type |-> "PACKET_IN", reason |-> "NO_MATCH"]
PacketIn == [type : {"PACKET_IN"}, reason : {"ACTION"}, in_port : Ports, frame : Frame]

ToController == [type : {"HELLO", "FEATURES_REPLY", "PORT_STATUS", "OTHER"}]
                  \cup [type : {"ECHO_REQUEST"}, xid : EchoXids]
                  \cup {NoMatch} \cup PacketIn

Header(type, x) == [type |-> type, xid |-> x]

FlowMod(x, src, dst, port) ==
  [type |-> "FLOW_MOD", xid |-> x, dl_src |-> src, dl_dst |-> dst, port |-> port]

PacketOut(x, m, port) ==
  [type |-> "PACKET_OUT", xid |-> x, in_port |-> m.in_port, frame |-> m.frame,
   port |-> port]

Headers == [type : {"HELLO", "FEATURES_REQUEST", "SET_CONFIG",
                    "BARRIER_REQUEST", "ECHO_REPLY"}, xid : Xids]
FlowMods == [type : {"FLOW_MOD"}, xid : Xids, dl_src : Macs, dl_dst : Macs,
             port : Ports \cup {0}]
PacketOuts == [type : {"PACKET_OUT"}, xid : Xids, in_port : Ports,
               frame : Frame, port : {OFPP_TABLE, OFPP_FLOOD}]

ToSwitch == Headers \cup FlowMods \cup PacketOuts

---------------------------------------------------------------------------
(* Handlers *)

Init ==
  /\ up = TRUE
  /\ ll = ZeroRow
  /\ flows = ZeroRow
  /\ xid = 1
  /\ rcvd = << >>
  /\ sent = [s \in Sockets |-> << >>]

(* The xid after n increments of the uint32_t.                             *)
Xid(n) == (xid + n) % XidMod

(* Mutant: a send that fails is reported, and the process goes on.         *)
HandleGoesOn(s, m, out, n) ==
  /\ up
  /\ Len(rcvd) < MaxRx
  /\ rcvd' = Append(rcvd, [socket |-> s, msg |-> m])
  /\ \E k \in 0 .. Len(out) : sent' = [sent EXCEPT ![s] = @ \o SubSeq(out, 1, k)]
  /\ up' = TRUE
  /\ xid' = Xid(n)

(* A message is received and its handler hands `out' to send, one message  *)
(* after the other, advancing xid n times.  The first send that fails ends *)
(* the process: what was handed over before it stays with the switch, the  *)
(* memory is gone (ll', flows' and xid' then describe nothing).            *)
Handle(s, m, out, n) ==
  /\ up
  /\ Len(rcvd) < MaxRx
  /\ rcvd' = Append(rcvd, [socket |-> s, msg |-> m])
  /\ \E k \in 0 .. Len(out) :
       /\ sent' = [sent EXCEPT ![s] = @ \o SubSeq(out, 1, k)]
       /\ up' = (k = Len(out))
  /\ xid' = Xid(n)

(* Mutant: xid is not advanced past the FEATURES_REQUEST.                  *)
RecvHelloOneXid(s) ==
  /\ Handle(s, [type |-> "HELLO"],
            <<Header("HELLO", xid), Header("FEATURES_REQUEST", Xid(1))>>, 1)
  /\ UNCHANGED <<ll, flows>>

(* estOFConnection *)
RecvHello(s) ==
  /\ Handle(s, [type |-> "HELLO"],
            <<Header("HELLO", xid), Header("FEATURES_REQUEST", Xid(1))>>, 2)
  /\ UNCHANGED <<ll, flows>>

(* reportFeatures only prints; setConfig *)
RecvFeaturesReply(s) ==
  /\ Handle(s, [type |-> "FEATURES_REPLY"],
            <<Header("SET_CONFIG", xid), Header("BARRIER_REQUEST", Xid(1))>>, 2)
  /\ UNCHANGED <<ll, flows>>

(* sendEchoReply: the reply carries the request's xid *)
RecvEchoRequest(s, x) ==
  /\ Handle(s, [type |-> "ECHO_REQUEST", xid |-> x], <<Header("ECHO_REPLY", x)>>, 0)
  /\ UNCHANGED <<ll, flows>>

(* reportPort only prints, and any other type returns at once *)
RecvIgnored(s, type) ==
  /\ Handle(s, [type |-> type], << >>, 0)
  /\ UNCHANGED <<ll, flows>>

(* handlePacketIn: a frame that matched no flow is ignored *)
RecvNoMatch(s) ==
  /\ Handle(s, NoMatch, << >>, 0)
  /\ UNCHANGED <<ll, flows>>

(* Mutant: the port is learned for the frame's destination.                *)
LearnedDst(s, m) == AddPathNode(ll, s, m.frame.dst, m.in_port)

(* handlePacketIn: the source of the frame resides at the port *)
Learned(s, m) == AddPathNode(ll, s, m.frame.src, m.in_port)

(* Mutant: the frame goes back to the flow table before its flow is sent.  *)
RecvArpReplyFrameFirst(s, m) ==
  LET back    == FindPort(Learned(s, m), s, m.frame.dst)
      forward == AddFlowNode(flows, s, m.frame.src, m.frame.dst, m.in_port)
  IN  /\ m.frame.arp_reply
      /\ Handle(s, m, <<PacketOut(xid, m, OFPP_TABLE),
                        FlowMod(Xid(1), m.frame.dst, m.frame.src, m.in_port),
                        FlowMod(Xid(2), m.frame.src, m.frame.dst, back)>>, 3)
      /\ ll' = Learned(s, m)
      /\ flows' = AddFlowNode(forward, s, m.frame.dst, m.frame.src, back)

(* Mutant: the reply is also flooded, before its flows are sent.           *)
RecvArpReplyFloodedToo(s, m) ==
  LET back    == FindPort(Learned(s, m), s, m.frame.dst)
      forward == AddFlowNode(flows, s, m.frame.src, m.frame.dst, m.in_port)
  IN  /\ m.frame.arp_reply
      /\ Handle(s, m, <<PacketOut(xid, m, OFPP_FLOOD),
                        FlowMod(Xid(1), m.frame.dst, m.frame.src, m.in_port),
                        FlowMod(Xid(2), m.frame.src, m.frame.dst, back),
                        PacketOut(Xid(3), m, OFPP_TABLE)>>, 4)
      /\ ll' = Learned(s, m)
      /\ flows' = AddFlowNode(forward, s, m.frame.dst, m.frame.src, back)

(* Mutant: both flows get the port found for the frame's destination.      *)
RecvArpReplyOnePort(s, m) ==
  LET back    == FindPort(Learned(s, m), s, m.frame.dst)
      forward == AddFlowNode(flows, s, m.frame.src, m.frame.dst, back)
  IN  /\ m.frame.arp_reply
      /\ Handle(s, m, <<FlowMod(xid, m.frame.dst, m.frame.src, back),
                        FlowMod(Xid(1), m.frame.src, m.frame.dst, back),
                        PacketOut(Xid(2), m, OFPP_TABLE)>>, 3)
      /\ ll' = Learned(s, m)
      /\ flows' = AddFlowNode(forward, s, m.frame.dst, m.frame.src, back)

(* establishFlows, makeSendPacketOut to the flow table *)
RecvArpReply(s, m) ==
  LET back    == FindPort(Learned(s, m), s, m.frame.dst)
      forward == AddFlowNode(flows, s, m.frame.src, m.frame.dst, m.in_port)
  IN  /\ m.frame.arp_reply
      /\ Handle(s, m, <<FlowMod(xid, m.frame.dst, m.frame.src, m.in_port),
                        FlowMod(Xid(1), m.frame.src, m.frame.dst, back),
                        PacketOut(Xid(2), m, OFPP_TABLE)>>, 3)
      /\ ll' = Learned(s, m)
      /\ flows' = AddFlowNode(forward, s, m.frame.dst, m.frame.src, back)

(* sendLoopFlow: xid is not advanced *)
RecvLoopback(s, m) ==
  /\ ~ m.frame.arp_reply /\ m.frame.dst = m.frame.src
  /\ Handle(s, m, <<FlowMod(xid, m.frame.dst, m.frame.src, m.in_port)>>, 0)
  /\ ll' = Learned(s, m)
  /\ flows' = AddFlowNode(flows, s, m.frame.src, m.frame.dst, m.in_port)

(* Mutant: a frame from a host that was heard before is dropped.           *)
RecvFloodedUnlessKnown(s, m) ==
  /\ ~ m.frame.arp_reply /\ m.frame.dst # m.frame.src
  /\ Handle(s, m, IF FindNode(ll, s, m.frame.src) THEN << >>
                  ELSE <<PacketOut(xid, m, OFPP_FLOOD)>>, 1)
  /\ ll' = Learned(s, m)
  /\ UNCHANGED flows

(* Mutant: only broadcasts are flooded, as the comment at 679 has it.      *)
RecvFloodedBroadcast(s, m) ==
  /\ ~ m.frame.arp_reply /\ m.frame.dst # m.frame.src
  /\ Handle(s, m, IF m.frame.dst = Broadcast THEN <<PacketOut(xid, m, OFPP_FLOOD)>>
                  ELSE << >>, 1)
  /\ ll' = Learned(s, m)
  /\ UNCHANGED flows

(* makeSendPacketOut to every other port *)
RecvFlooded(s, m) ==
  /\ ~ m.frame.arp_reply /\ m.frame.dst # m.frame.src
  /\ Handle(s, m, <<PacketOut(xid, m, OFPP_FLOOD)>>, 1)
  /\ ll' = Learned(s, m)
  /\ UNCHANGED flows

RecvPacketIn(s, m) ==
  RecvArpReply(s, m) \/ RecvLoopback(s, m) \/ RecvFlooded(s, m)

Next ==
  \E s \in Sockets :
    \/ RecvHello(s)
    \/ RecvFeaturesReply(s)
    \/ \E x \in EchoXids : RecvEchoRequest(s, x)
    \/ \E type \in {"PORT_STATUS", "OTHER"} : RecvIgnored(s, type)
    \/ RecvNoMatch(s)
    \/ \E m \in PacketIn : RecvPacketIn(s, m)

Spec == Init /\ [][Next]_vars

---------------------------------------------------------------------------
(* Observations the properties are about *)

(* The messages that taught the controller where mac is at switch s.       *)
HeardAt(s, mac) ==
  {i \in DOMAIN rcvd :
     /\ rcvd[i].socket = s
     /\ rcvd[i].msg.type = "PACKET_IN"
     /\ rcvd[i].msg.reason = "ACTION"
     /\ rcvd[i].msg.frame.src = mac}

(* The positions in sent[s] of the flows for frames from src to dst.       *)
FlowModsAt(s, dst, src) ==
  {i \in DOMAIN sent[s] :
     /\ sent[s][i].type = "FLOW_MOD"
     /\ sent[s][i].dl_dst = dst
     /\ sent[s][i].dl_src = src}

(* The port of the saved flow, OFPP_NONE when none is saved.               *)
SavedPort(s, dst, src) ==
  IF FindFlow(flows, s, dst, src) = 0 THEN OFPP_NONE
  ELSE NodesOf(flows, s)[FindFlow(flows, s, dst, src)].port

Route(s, mac) == INSTANCE WriteOnce
  WITH Values <- Ports, None <- 0, entry <- FindPort(ll, s, mac)

---------------------------------------------------------------------------
(* Invariants *)

(* Every variable keeps its type; both lists keep their first row, the one *)
(* addPathNode and addFlowNode need to reach the caller's list.            *)
TypeOK ==
  /\ up \in BOOLEAN
  /\ ll \in Seq([socket : Sockets \cup {0}, nodes : Seq([to_mac : Macs, port : Ports])])
  /\ flows \in Seq([socket : Sockets \cup {0},
                    nodes : Seq([dst_mac : Macs, src_mac : Macs, port : Ports \cup {0}])])
  /\ ll # << >> /\ flows # << >>
  /\ xid \in Xids
  /\ rcvd \in Seq([socket : Sockets, msg : ToController])
  /\ sent \in [Sockets -> Seq(ToSwitch)]

(* No entry hides another: a socket has one row in each list, a host one   *)
(* node in its row of ll, a pair of hosts one node in its row of flows.    *)
NoShadowedEntry ==
  /\ \A list \in {ll, flows} : \A i, j \in DOMAIN list :
       list[i].socket = list[j].socket => i = j
  /\ \A s \in Sockets : \A i, j \in DOMAIN NodesOf(ll, s) :
       NodesOf(ll, s)[i].to_mac = NodesOf(ll, s)[j].to_mac => i = j
  /\ \A s \in Sockets : \A i, j \in DOMAIN NodesOf(flows, s) :
       /\ NodesOf(flows, s)[i].dst_mac = NodesOf(flows, s)[j].dst_mac
       /\ NodesOf(flows, s)[i].src_mac = NodesOf(flows, s)[j].src_mac
       => i = j

(* findPort answers, for a host, the port on which the first frame from it *)
(* came in at that switch, and 0 exactly when none did: whatever came in   *)
(* later, from this host or another, at this switch or another.            *)
RoutesAreFirstHeard ==
  \A s \in Sockets, mac \in Macs :
    FindPort(ll, s, mac) = IF HeardAt(s, mac) = {} THEN 0
                           ELSE rcvd[Min(HeardAt(s, mac))].msg.in_port

(* The local flow table holds exactly the pairs a FLOW_MOD was sent for,   *)
(* and for each the port of the first of them (not of the last, which is   *)
(* the one in force at the switch).                                        *)
SavedFlowIsFirstSent ==
  up => \A s \in Sockets, dst, src \in Macs :
          SavedPort(s, dst, src) =
            IF FlowModsAt(s, dst, src) = {} THEN OFPP_NONE
            ELSE sent[s][Min(FlowModsAt(s, dst, src))].port

(* A switch is never told to reach a host through a port on which that     *)
(* very switch has not heard from it, except for the port 0 that stands    *)
(* for a host it never heard from.                                         *)
FlowPortWasHeard ==
  \A s \in Sockets : \A i \in DOMAIN sent[s] :
    sent[s][i].type = "FLOW_MOD" =>
      \/ sent[s][i].port = 0
      \/ \E j \in HeardAt(s, sent[s][i].dl_dst) : rcvd[j].msg.in_port = sent[s][i].port

(* While the process runs no switch holds one direction of a connection    *)
(* without the other.  (A send that fails between the two FLOW_MODs leaves *)
(* one direction behind: the process is then gone.)                        *)
FlowsComeInPairs ==
  up => \A s \in Sockets : \A i \in DOMAIN sent[s] :
          sent[s][i].type = "FLOW_MOD" =>
            FlowModsAt(s, sent[s][i].dl_src, sent[s][i].dl_dst) # {}

(* A frame is handed back to a switch's flow table only after the flow it  *)
(* is to match: on the ordered connection the switch has the flow when it  *)
(* looks the frame up, even if the process dies before its next send.      *)
TableOutHasFlow ==
  \A s \in Sockets : \A i \in DOMAIN sent[s] :
    sent[s][i].type = "PACKET_OUT" /\ sent[s][i].port = OFPP_TABLE =>
      \E j \in FlowModsAt(s, sent[s][i].frame.dst, sent[s][i].frame.src) : j < i

(* A request that is answered (FEATURES_REQUEST, BARRIER_REQUEST) shares   *)
(* its xid with no other message the controller numbered itself, on any    *)
(* connection, until xid wraps: its reply can be paired.  That loopback    *)
(* flows do not advance xid does not break it, because HELLO, SET_CONFIG   *)
(* and the first FLOW_MOD or PACKET_OUT absorb the repeated number.        *)
ReplyXidsUnique ==
  3 * MaxRx + 1 < XidMod =>
    \A s, t \in Sockets : \A i \in DOMAIN sent[s], j \in DOMAIN sent[t] :
      /\ sent[s][i].type \in {"FEATURES_REQUEST", "BARRIER_REQUEST"}
      /\ sent[t][j].type # "ECHO_REPLY"
      /\ sent[s][i].xid = sent[t][j].xid
      => s = t /\ i = j

---------------------------------------------------------------------------
(* Action properties *)

(* Each entry of ll implements a write-once register: the first port       *)
(* learned for a host at a switch stays, and no host is forgotten.         *)
RoutesAreWriteOnce ==
  /\ \A s \in Sockets, mac \in Macs : Route(s, mac)!Init
  /\ [][ll' # ll => \A s \in Sockets, mac \in Macs : Route(s, mac)!Step]_vars

(* Switches are independent: a step that hands switch s nothing leaves     *)
(* what the controller knows of s as it was.                               *)
SwitchIsolation ==
  [][up' => \A s \in Sockets : sent'[s] = sent[s] =>
       /\ NodesOf(ll', s) = NodesOf(ll, s)
       /\ NodesOf(flows', s) = NodesOf(flows, s)]_vars

---------------------------------------------------------------------------
(* What a comment in the code says and the code does not do *)

(* controller.c:660 "If the switch receives a packet in from a another     *)
(* switch that contains return address already in its known routes, drop   *)
(* that packet": a frame from a host known at another port sends nothing,  *)
(* so that what is flooded into a loop of switches comes to rest.          *)
KnownReturnAddressDropped ==
  [][Len(rcvd') > Len(rcvd) =>
       LET r == Last(rcvd') IN
         /\ r.msg.type = "PACKET_IN" /\ r.msg.reason = "ACTION"
         /\ FindPort(ll, r.socket, r.msg.frame.src) \notin {0, r.msg.in_port}
         => sent' = sent]_vars
=============================================================================
