------------------------- MODULE Controller_proofs -------------------------
(***************************************************************************)
(* Theorems about module Controller, for every number of switches, hosts,  *)
(* ports and messages.                                                     *)
(***************************************************************************)
EXTENDS Controller, MyGraph_proofs, SequenceTheorems

(* The sets TypeOK is made of.                                             *)
PathRows == RowsOf(Sockets \cup {0}, PathNodes(Macs, Ports))
FlowRows == RowsOf(Sockets \cup {0}, FlowNodes(Macs, Ports \cup {0}))
Arrivals == [socket : Sockets, msg : ToController]

LEMMA TypeOKIs ==
  TypeOK <=> /\ up \in BOOLEAN
             /\ ll \in Seq(PathRows) /\ ll # << >>
             /\ flows \in Seq(FlowRows) /\ flows # << >>
             /\ xid \in Xids
             /\ rcvd \in Seq(Arrivals)
             /\ sent \in [Sockets -> Seq(ToSwitch)]
  BY DEF TypeOK, PathRows, FlowRows, RowsOf, PathNodes, FlowNodes, Arrivals

(* xid stays in the range of its type, however far it is advanced.         *)
LEMMA XidInRange == ASSUME xid \in Xids, NEW n \in Nat PROVE Xid(n) \in Xids
  <1>1. XidMod \in Nat /\ XidMod > 0
    BY ConstantsOK
  <1>2. xid + n \in Nat
    BY <1>1 DEF Xids
  <1>3. \A a, b \in Nat : b > 0 => a % b \in 0 .. b - 1
    OBVIOUS
  <1> QED
    BY <1>1, <1>2, <1>3 DEF Xid, Xids

(* What a handler that sends well-typed messages does to the variables it  *)
(* shares with every other handler.                                        *)
LEMMA HandleType ==
  ASSUME TypeOK, NEW s \in Sockets, NEW m \in ToController,
         NEW out \in Seq(ToSwitch), NEW n \in Nat, Handle(s, m, out, n)
  PROVE  /\ up' \in BOOLEAN
         /\ xid' \in Xids
         /\ rcvd' \in Seq(Arrivals)
         /\ sent' \in [Sockets -> Seq(ToSwitch)]
  <1>1. xid' \in Xids
    BY XidInRange DEF Handle, TypeOK
  <1>2. rcvd' \in Seq(Arrivals)
    <2>1. [socket |-> s, msg |-> m] \in Arrivals
      BY DEF Arrivals
    <2> QED
      BY <2>1, TypeOKIs DEF Handle
  <1>3. PICK k \in 0 .. Len(out) : /\ sent' = [sent EXCEPT ![s] = @ \o SubSeq(out, 1, k)]
                                   /\ up' = (k = Len(out))
    BY DEF Handle
  <1>4. SubSeq(out, 1, k) \in Seq(ToSwitch)
    BY SubSeqProperties
  <1>5. sent[s] \o SubSeq(out, 1, k) \in Seq(ToSwitch)
    BY <1>4, ConcatProperties DEF TypeOK
  <1>6. sent' \in [Sockets -> Seq(ToSwitch)]
    BY <1>3, <1>5 DEF TypeOK
  <1> QED
    BY <1>1, <1>2, <1>3, <1>6

(* The messages the handlers build.                                        *)
LEMMA MessagesTyped ==
  /\ \A x \in Xids : \A type \in {"HELLO", "FEATURES_REQUEST", "SET_CONFIG",
                                   "BARRIER_REQUEST", "ECHO_REPLY"} :
       Header(type, x) \in ToSwitch
  /\ \A x \in Xids, src, dst \in Macs, port \in Ports \cup {0} :
       FlowMod(x, src, dst, port) \in ToSwitch
  /\ \A x \in Xids, m \in PacketIn, port \in {OFPP_TABLE, OFPP_FLOOD} :
       PacketOut(x, m, port) \in ToSwitch
  <1>1. ASSUME NEW x \in Xids,
               NEW type \in {"HELLO", "FEATURES_REQUEST", "SET_CONFIG",
                             "BARRIER_REQUEST", "ECHO_REPLY"}
        PROVE  Header(type, x) \in ToSwitch
    BY <1>1 DEF Header, Headers, ToSwitch
  <1>2. ASSUME NEW x \in Xids, NEW src \in Macs, NEW dst \in Macs,
               NEW port \in Ports \cup {0}
        PROVE  FlowMod(x, src, dst, port) \in ToSwitch
    BY <1>2 DEF FlowMod, FlowMods, ToSwitch
  <1>3. ASSUME NEW x \in Xids, NEW m \in PacketIn,
               NEW port \in {OFPP_TABLE, OFPP_FLOOD}
        PROVE  PacketOut(x, m, port) \in ToSwitch
    <2>1. m.in_port \in Ports /\ m.frame \in Frame
      BY DEF PacketIn
    <2> QED
      BY <2>1 DEF PacketOut, PacketOuts, ToSwitch
  <1> QED
    BY <1>1, <1>2, <1>3

LEMMA PacketInTyped ==
  ASSUME NEW m \in PacketIn
  PROVE  /\ m \in ToController /\ m.in_port \in Ports
         /\ m.frame.dst \in Macs /\ m.frame.src \in Macs
  BY DEF PacketIn, Frame, ToController

LEMMA PortsArePositive == 0 \notin Ports
  BY ConstantsOK

(* findPort's answer can go into a flow.                                   *)
LEMMA BackPortTyped ==
  ASSUME NEW list \in Seq(PathRows), NEW s, NEW mac
  PROVE  FindPort(list, s, mac) \in Ports \cup {0}
  BY PortsArePositive, FindPortIs DEF PathRows

(* The list of hosts after one is added.                                   *)
LEMMA AddedTyped ==
  ASSUME NEW list \in Seq(PathRows), list # << >>, NEW s \in Sockets,
         NEW mac \in Macs, NEW port \in Ports
  PROVE  /\ AddPathNode(list, s, mac, port) \in Seq(PathRows)
         /\ AddPathNode(list, s, mac, port) # << >>
  <1> DEFINE S == Sockets \cup {0}
  <1>1. s \in S
    OBVIOUS
  <1>2. list \in Seq(RowsOf(S, PathNodes(Macs, Ports)))
    BY DEF PathRows
  <1>3. PathRows = RowsOf(S, PathNodes(Macs, Ports))
    BY DEF PathRows
  <1> HIDE DEF S
  <1> QED
    BY <1>1, <1>2, <1>3, AddPathNodeIs

LEMMA LearnedTyped ==
  ASSUME TypeOK, NEW s \in Sockets, NEW m \in PacketIn
  PROVE  Learned(s, m) \in Seq(PathRows) /\ Learned(s, m) # << >>
  <1>1. m.in_port \in Ports /\ m.frame.src \in Macs
    BY PacketInTyped
  <1>2. ll \in Seq(PathRows) /\ ll # << >>
    BY TypeOKIs
  <1> QED
    BY <1>1, <1>2, AddedTyped DEF Learned

(* The list of flows after one is saved.                                   *)
LEMMA SavedTyped ==
  ASSUME NEW list \in Seq(FlowRows), list # << >>, NEW s \in Sockets,
         NEW dst \in Macs, NEW src \in Macs, NEW port \in Ports \cup {0}
  PROVE  /\ AddFlowNode(list, s, dst, src, port) \in Seq(FlowRows)
         /\ AddFlowNode(list, s, dst, src, port) # << >>
  <1> DEFINE S == Sockets \cup {0}
  <1> DEFINE P == Ports \cup {0}
  <1>1. s \in S /\ port \in P
    OBVIOUS
  <1>2. list \in Seq(RowsOf(S, FlowNodes(Macs, P)))
    BY DEF FlowRows
  <1>3. FlowRows = RowsOf(S, FlowNodes(Macs, P))
    BY DEF FlowRows
  <1> HIDE DEF S, P
  <1> QED
    BY <1>1, <1>2, <1>3, AddFlowNodeIs

(* What a step does to the two lists.                                      *)
LearnStep ==
  \E s \in Sockets, mac \in Macs, port \in Ports : ll' = AddPathNode(ll, s, mac, port)

SaveStep ==
  \E s \in Sockets, a, b \in Macs, p, q \in Ports \cup {0} :
    \/ flows' = AddFlowNode(flows, s, a, b, p)
    \/ flows' = AddFlowNode(AddFlowNode(flows, s, a, b, p), s, b, a, q)

LEMMA ListSteps ==
  ASSUME TypeOK, Next
  PROVE  (ll' = ll \/ LearnStep) /\ (flows' = flows \/ SaveStep)
  <1> PICK s \in Sockets :
        \/ RecvHello(s)
        \/ RecvFeaturesReply(s)
        \/ \E x \in EchoXids : RecvEchoRequest(s, x)
        \/ \E type \in {"PORT_STATUS", "OTHER"} : RecvIgnored(s, type)
        \/ RecvNoMatch(s)
        \/ \E m \in PacketIn : RecvPacketIn(s, m)
    BY DEF Next
  <1>1. CASE ~ \E m \in PacketIn : RecvPacketIn(s, m)
    BY <1>1 DEF RecvHello, RecvFeaturesReply, RecvEchoRequest, RecvIgnored, RecvNoMatch
  <1>2. CASE \E m \in PacketIn : RecvPacketIn(s, m)
    <2> PICK m \in PacketIn : RecvPacketIn(s, m)
      BY <1>2
    <2>1. m.in_port \in Ports /\ m.frame.dst \in Macs /\ m.frame.src \in Macs
      BY PacketInTyped
    <2>2. ll' = Learned(s, m)
      BY DEF RecvPacketIn, RecvArpReply, RecvLoopback, RecvFlooded
    <2>3. LearnStep
      BY <2>1, <2>2 DEF Learned, LearnStep
    <2>4. CASE RecvArpReply(s, m)
      <3> DEFINE back == FindPort(Learned(s, m), s, m.frame.dst)
      <3>1. back \in Ports \cup {0}
        BY LearnedTyped, BackPortTyped
      <3>2. flows' = AddFlowNode(AddFlowNode(flows, s, m.frame.src, m.frame.dst, m.in_port),
                                 s, m.frame.dst, m.frame.src, back)
        BY <2>4 DEF RecvArpReply
      <3> HIDE DEF back
      <3>3. SaveStep
        BY <2>1, <3>1, <3>2 DEF SaveStep
      <3> QED
        BY <2>3, <3>3
    <2>5. CASE RecvLoopback(s, m)
      <3>1. flows' = AddFlowNode(flows, s, m.frame.src, m.frame.dst, m.in_port)
        BY <2>5 DEF RecvLoopback
      <3>2. SaveStep
        BY <2>1, <3>1 DEF SaveStep
      <3> QED
        BY <2>3, <3>2
    <2>6. CASE RecvFlooded(s, m)
      BY <2>3, <2>6 DEF RecvFlooded
    <2> QED
      BY <2>4, <2>5, <2>6 DEF RecvPacketIn
  <1> QED
    BY <1>1, <1>2

(* Every variable keeps its type, at every step of every handler.          *)
LEMMA TypeStep == TypeOK /\ [Next]_vars => TypeOK'
  <1> SUFFICES ASSUME TypeOK, [Next]_vars PROVE TypeOK'
    OBVIOUS
  <1>1. CASE UNCHANGED vars
    BY <1>1 DEF vars, TypeOK
  <1>2. CASE Next
    <2>1. ll' \in Seq(PathRows) /\ ll' # << >>
      <3>1. ll \in Seq(PathRows) /\ ll # << >>
        BY TypeOKIs
      <3>2. CASE ll' = ll
        BY <3>1, <3>2
      <3>3. CASE LearnStep
        BY <3>1, <3>3, AddedTyped DEF LearnStep
      <3> QED
        BY <1>2, <3>2, <3>3, ListSteps
    <2>2. flows' \in Seq(FlowRows) /\ flows' # << >>
      <3>1. flows \in Seq(FlowRows) /\ flows # << >>
        BY TypeOKIs
      <3>2. CASE flows' = flows
        BY <3>1, <3>2
      <3>3. CASE SaveStep
        BY <3>1, <3>3, SavedTyped DEF SaveStep
      <3> QED
        BY <1>2, <3>2, <3>3, ListSteps
    <2>3. \E s \in Sockets, m \in ToController, out \in Seq(ToSwitch), n \in Nat :
            Handle(s, m, out, n)
      <3> PICK s \in Sockets :
            \/ RecvHello(s)
            \/ RecvFeaturesReply(s)
            \/ \E x \in EchoXids : RecvEchoRequest(s, x)
            \/ \E type \in {"PORT_STATUS", "OTHER"} : RecvIgnored(s, type)
            \/ RecvNoMatch(s)
            \/ \E m \in PacketIn : RecvPacketIn(s, m)
        BY <1>2 DEF Next
      <3>1. xid \in Xids /\ Xid(1) \in Xids /\ Xid(2) \in Xids
        BY XidInRange DEF TypeOK
      <3>2. CASE RecvHello(s)
        <4> DEFINE out == <<Header("HELLO", xid), Header("FEATURES_REQUEST", Xid(1))>>
        <4>1. [type |-> "HELLO"] \in ToController
          BY DEF ToController
        <4>2. out \in Seq(ToSwitch)
          BY <3>1, MessagesTyped
        <4>3. Handle(s, [type |-> "HELLO"], out, 2)
          BY <3>2 DEF RecvHello
        <4> QED
          BY <4>1, <4>2, <4>3
      <3>3. CASE RecvFeaturesReply(s)
        <4> DEFINE out == <<Header("SET_CONFIG", xid), Header("BARRIER_REQUEST", Xid(1))>>
        <4>1. [type |-> "FEATURES_REPLY"] \in ToController
          BY DEF ToController
        <4>2. out \in Seq(ToSwitch)
          BY <3>1, MessagesTyped
        <4>3. Handle(s, [type |-> "FEATURES_REPLY"], out, 2)
          BY <3>3 DEF RecvFeaturesReply
        <4> QED
          BY <4>1, <4>2, <4>3
      <3>4. CASE \E x \in EchoXids : RecvEchoRequest(s, x)
        <4> PICK x \in EchoXids : RecvEchoRequest(s, x)
          BY <3>4
        <4> DEFINE out == <<Header("ECHO_REPLY", x)>>
        <4>1. [type |-> "ECHO_REQUEST", xid |-> x] \in ToController
          BY DEF ToController
        <4>2. x \in Xids
          BY ConstantsOK DEF Xids
        <4>3. out \in Seq(ToSwitch)
          BY <4>2, MessagesTyped
        <4>4. Handle(s, [type |-> "ECHO_REQUEST", xid |-> x], out, 0)
          BY DEF RecvEchoRequest
        <4> QED
          BY <4>1, <4>3, <4>4
      <3>5. CASE \E type \in {"PORT_STATUS", "OTHER"} : RecvIgnored(s, type)
        <4> PICK type \in {"PORT_STATUS", "OTHER"} : RecvIgnored(s, type)
          BY <3>5
        <4>1. [type |-> type] \in ToController
          BY DEF ToController
        <4>2. Handle(s, [type |-> type], << >>, 0)
          BY DEF RecvIgnored
        <4>3. << >> \in Seq(ToSwitch)
          OBVIOUS
        <4> QED
          BY <4>1, <4>2, <4>3
      <3>6. CASE RecvNoMatch(s)
        <4>1. NoMatch \in ToController
          BY DEF ToController
        <4>2. Handle(s, NoMatch, << >>, 0)
          BY <3>6 DEF RecvNoMatch
        <4>3. << >> \in Seq(ToSwitch)
          OBVIOUS
        <4> QED
          BY <4>1, <4>2, <4>3
      <3>7. CASE \E m \in PacketIn : RecvPacketIn(s, m)
        <4> PICK m \in PacketIn : RecvPacketIn(s, m)
          BY <3>7
        <4>1. /\ m \in ToController /\ m.in_port \in Ports
              /\ m.frame.dst \in Macs /\ m.frame.src \in Macs
          BY PacketInTyped
        <4>2. CASE RecvArpReply(s, m)
          <5> DEFINE back == FindPort(Learned(s, m), s, m.frame.dst)
          <5> DEFINE out == <<FlowMod(xid, m.frame.dst, m.frame.src, m.in_port),
                              FlowMod(Xid(1), m.frame.src, m.frame.dst, back),
                              PacketOut(Xid(2), m, OFPP_TABLE)>>
          <5>1. back \in Ports \cup {0}
            BY LearnedTyped, BackPortTyped
          <5>2. Handle(s, m, out, 3)
            BY <4>2 DEF RecvArpReply
          <5> HIDE DEF back
          <5>3. /\ FlowMod(xid, m.frame.dst, m.frame.src, m.in_port) \in ToSwitch
                /\ FlowMod(Xid(1), m.frame.src, m.frame.dst, back) \in ToSwitch
                /\ PacketOut(Xid(2), m, OFPP_TABLE) \in ToSwitch
            BY <3>1, <4>1, <5>1, MessagesTyped
          <5>4. out \in Seq(ToSwitch)
            BY <5>3
          <5> QED
            BY <4>1, <5>2, <5>4
        <4>3. CASE RecvLoopback(s, m)
          <5> DEFINE out == <<FlowMod(xid, m.frame.dst, m.frame.src, m.in_port)>>
          <5>1. out \in Seq(ToSwitch)
            BY <3>1, <4>1, MessagesTyped
          <5>2. Handle(s, m, out, 0)
            BY <4>3 DEF RecvLoopback
          <5> QED
            BY <4>1, <5>1, <5>2
        <4>4. CASE RecvFlooded(s, m)
          <5> DEFINE out == <<PacketOut(xid, m, OFPP_FLOOD)>>
          <5>1. out \in Seq(ToSwitch)
            BY <3>1, MessagesTyped
          <5>2. Handle(s, m, out, 1)
            BY <4>4 DEF RecvFlooded
          <5> QED
            BY <4>1, <5>1, <5>2
        <4> QED
          BY <4>2, <4>3, <4>4 DEF RecvPacketIn
      <3> QED
        BY <3>2, <3>3, <3>4, <3>5, <3>6, <3>7
    <2>4. /\ up' \in BOOLEAN /\ xid' \in Xids
          /\ rcvd' \in Seq(Arrivals)
          /\ sent' \in [Sockets -> Seq(ToSwitch)]
      BY <2>3, HandleType
    <2> QED
      BY <2>1, <2>2, <2>4 DEF TypeOK, PathRows, FlowRows, RowsOf, PathNodes, FlowNodes, Arrivals
  <1> QED
    BY <1>1, <1>2

LEMMA TypeInit == Init => TypeOK
  <1> SUFFICES ASSUME Init PROVE TypeOK
    OBVIOUS
  <1>1. ZeroRow \in Seq(PathRows) /\ ZeroRow \in Seq(FlowRows) /\ ZeroRow # << >>
    BY DEF ZeroRow, PathRows, FlowRows, RowsOf
  <1>2. 1 \in Xids
    BY ConstantsOK DEF Xids
  <1>3. rcvd \in Seq(Arrivals) /\ sent \in [Sockets -> Seq(ToSwitch)]
    BY DEF Init
  <1> QED
    BY <1>1, <1>2, <1>3, TypeOKIs DEF Init

(* The variables of the controller keep their types, whatever the switches *)
(* send: recvData and its handlers (controller.c 689-753).                 *)
THEOREM TypeCorrect == Spec => []TypeOK
  BY TypeInit, TypeStep, PTL DEF Spec

---------------------------------------------------------------------------
(* No entry hides another *)

(* NoShadowedEntry in the terms of MyGraph_proofs: inductive together with *)
(* TypeOK, which gives both lists the first row insertion depends on.      *)
Tables ==
  /\ OneRowEach(ll) /\ OneRowEach(flows)
  /\ \A t \in Sockets : OnePathEach(ll, t) /\ OneFlowEach(flows, t)

LEMMA RowsAfterAdd ==
  ASSUME NEW list \in Seq(PathRows), list # << >>, NEW s \in Sockets,
         NEW mac \in Macs, NEW port \in Ports
  PROVE  /\ OneRowEach(list) => OneRowEach(AddPathNode(list, s, mac, port))
         /\ \A t : OnePathEach(list, t) => OnePathEach(AddPathNode(list, s, mac, port), t)
  <1> DEFINE S == Sockets \cup {0}
  <1>1. s \in S
    OBVIOUS
  <1>2. list \in Seq(RowsOf(S, PathNodes(Macs, Ports)))
    BY DEF PathRows
  <1> HIDE DEF S
  <1> QED
    BY <1>1, <1>2, AddPathNodeIs, OnePathEachKept

LEMMA RowsAfterSave ==
  ASSUME NEW list \in Seq(FlowRows), list # << >>, NEW s \in Sockets,
         NEW dst \in Macs, NEW src \in Macs, NEW port \in Ports \cup {0}
  PROVE  /\ OneRowEach(list) => OneRowEach(AddFlowNode(list, s, dst, src, port))
         /\ \A t : OneFlowEach(list, t) => OneFlowEach(AddFlowNode(list, s, dst, src, port), t)
  <1> DEFINE S == Sockets \cup {0}
  <1> DEFINE P == Ports \cup {0}
  <1>1. s \in S /\ port \in P
    OBVIOUS
  <1>2. list \in Seq(RowsOf(S, FlowNodes(Macs, P)))
    BY DEF FlowRows
  <1> HIDE DEF S, P
  <1> QED
    BY <1>1, <1>2, AddFlowNodeIs, OneFlowEachKept

LEMMA TablesStep == TypeOK /\ Tables /\ [Next]_vars => Tables'
  <1> SUFFICES ASSUME TypeOK, Tables, [Next]_vars PROVE Tables'
    OBVIOUS
  <1>1. CASE UNCHANGED vars
    BY <1>1 DEF vars, Tables
  <1>2. CASE Next
    <2>1. OneRowEach(ll') /\ \A t \in Sockets : OnePathEach(ll', t)
      <3>1. ll \in Seq(PathRows) /\ ll # << >>
        BY TypeOKIs
      <3>2. CASE ll' = ll
        BY <3>2 DEF Tables
      <3>3. CASE LearnStep
        <4> PICK s \in Sockets, mac \in Macs, port \in Ports : ll' = AddPathNode(ll, s, mac, port)
          BY <3>3 DEF LearnStep
        <4> QED
          BY <3>1, RowsAfterAdd DEF Tables
      <3> QED
        BY <1>2, <3>2, <3>3, ListSteps
    <2>2. OneRowEach(flows') /\ \A t \in Sockets : OneFlowEach(flows', t)
      <3>1. flows \in Seq(FlowRows) /\ flows # << >>
        BY TypeOKIs
      <3>2. CASE flows' = flows
        BY <3>2 DEF Tables
      <3>3. CASE SaveStep
        <4> PICK s \in Sockets, a \in Macs, b \in Macs,
                 p \in Ports \cup {0}, q \in Ports \cup {0} :
              \/ flows' = AddFlowNode(flows, s, a, b, p)
              \/ flows' = AddFlowNode(AddFlowNode(flows, s, a, b, p), s, b, a, q)
          BY <3>3 DEF SaveStep
        <4> DEFINE once == AddFlowNode(flows, s, a, b, p)
        <4>1. once \in Seq(FlowRows) /\ once # << >>
          BY <3>1, SavedTyped
        <4>2. OneRowEach(once) /\ \A t \in Sockets : OneFlowEach(once, t)
          BY <3>1, RowsAfterSave DEF Tables
        <4>3. flows' = once \/ flows' = AddFlowNode(once, s, b, a, q)
          OBVIOUS
        <4> HIDE DEF once
        <4>4. /\ OneRowEach(AddFlowNode(once, s, b, a, q))
              /\ \A t \in Sockets : OneFlowEach(AddFlowNode(once, s, b, a, q), t)
          BY <4>1, <4>2, RowsAfterSave
        <4> QED
          BY <4>2, <4>3, <4>4
      <3> QED
        BY <1>2, <3>2, <3>3, ListSteps
    <2> QED
      BY <2>1, <2>2 DEF Tables
  <1> QED
    BY <1>1, <1>2

LEMMA TablesInit == Init => Tables
  <1> SUFFICES ASSUME Init PROVE Tables
    OBVIOUS
  <1>1. ZeroRow \in Seq(RowsOf({0}, {})) /\ Len(ZeroRow) = 1 /\ ZeroRow[1].socket = 0
    BY DEF ZeroRow, RowsOf
  <1>2. \A t \in Sockets : NodesOf(ZeroRow, t) = << >>
    <2> SUFFICES ASSUME NEW t \in Sockets PROVE NodesOf(ZeroRow, t) = << >>
      OBVIOUS
    <2>1. /\ Row(ZeroRow, t) \in 0 .. Len(ZeroRow)
          /\ Row(ZeroRow, t) # 0 => ZeroRow[Row(ZeroRow, t)].socket = t
      BY <1>1, RowIs
    <2>2. t # 0
      BY ConstantsOK
    <2>3. Row(ZeroRow, t) = 0
      BY <1>1, <2>1, <2>2
    <2> QED
      BY <2>3 DEF NodesOf
  <1>3. OneRowEach(ZeroRow)
    BY <1>1 DEF OneRowEach
  <1>4. \A t \in Sockets : OnePathEach(ZeroRow, t) /\ OneFlowEach(ZeroRow, t)
    BY <1>2 DEF OnePathEach, OneFlowEach
  <1> QED
    BY <1>3, <1>4 DEF Tables, Init

LEMMA TablesShow == TypeOK /\ Tables => NoShadowedEntry
  <1> SUFFICES ASSUME TypeOK, Tables PROVE NoShadowedEntry
    OBVIOUS
  <1>1. ll \in Seq(PathRows) /\ flows \in Seq(FlowRows)
    BY TypeOKIs
  <1>2. \A list \in {ll, flows} : \A i, j \in DOMAIN list :
          list[i].socket = list[j].socket => i = j
    BY <1>1 DEF Tables, OneRowEach
  <1>3. ASSUME NEW s \in Sockets
        PROVE  /\ DOMAIN NodesOf(ll, s) = 1 .. Len(NodesOf(ll, s))
               /\ DOMAIN NodesOf(flows, s) = 1 .. Len(NodesOf(flows, s))
    BY <1>1, NodesOfType DEF PathRows, FlowRows
  <1> QED
    BY <1>2, <1>3 DEF NoShadowedEntry, Tables, OnePathEach, OneFlowEach

(* No entry of either list hides another, so that a lookup that stops at   *)
(* the first match sees all there is (findNode, findFlow, findPort).       *)
THEOREM NoEntryIsShadowed == Spec => []NoShadowedEntry
  <1>1. Init => TypeOK /\ Tables
    BY TypeInit, TablesInit
  <1>2. TypeOK /\ Tables /\ [Next]_vars => (TypeOK /\ Tables)'
    BY TypeStep, TablesStep
  <1>3. TypeOK /\ Tables => NoShadowedEntry
    BY TablesShow
  <1> QED
    BY <1>1, <1>2, <1>3, PTL DEF Spec

---------------------------------------------------------------------------
(* The first port learned for a host stays *)

LEMMA RouteStep ==
  ASSUME TypeOK, [Next]_vars, NEW t \in Sockets, NEW m \in Macs
  PROVE  Route(t, m)!Step
  <1> DEFINE before == FindPort(ll, t, m)
  <1> DEFINE after == FindPort(ll', t, m)
  <1>1. ll \in Seq(PathRows) /\ ll # << >>
    BY TypeOKIs
  <1>2. before \in Ports \cup {0}
    BY <1>1, BackPortTyped
  <1>3. after = before \/ (before = 0 /\ after \in Ports)
    <2>1. CASE ll' = ll
      BY <2>1
    <2>2. CASE LearnStep
      <3> PICK s \in Sockets, mac \in Macs, port \in Ports : ll' = AddPathNode(ll, s, mac, port)
        BY <2>2 DEF LearnStep
      <3> DEFINE S == Sockets \cup {0}
      <3>1. s \in S /\ ll \in Seq(RowsOf(S, PathNodes(Macs, Ports)))
        BY <1>1 DEF PathRows
      <3> HIDE DEF S
      <3>2. after = IF t = s /\ m = mac /\ ~ FindNode(ll, s, mac) THEN port ELSE before
        BY <1>1, <3>1, FindPortAfter
      <3>3. before # 0 <=> FindNode(ll, t, m)
        BY <3>1, PortsArePositive, FindPortIs
      <3> QED
        BY <3>2, <3>3
    <2> QED
      BY <2>1, <2>2, ListSteps DEF vars
  <1> QED
    BY <1>3 DEF Route!Step, Route!Write

(* ll implements a write-once register for every switch and host: whatever *)
(* arrives, the port that findPort has once answered for a host it answers *)
(* for ever (addPathNode, myGraph.c 146-193).                              *)
THEOREM RoutesImplementWriteOnce == Spec => RoutesAreWriteOnce
  <1>1. Init => \A s \in Sockets, mac \in Macs : Route(s, mac)!Init
    <2> SUFFICES ASSUME Init, NEW s \in Sockets, NEW mac \in Macs
                 PROVE  FindPort(ll, s, mac) = 0
      BY DEF Route!Init
    <2>1. NodesOf(ll, s) = << >>
      <3>1. ZeroRow \in Seq(RowsOf({0}, {})) /\ Len(ZeroRow) = 1 /\ ZeroRow[1].socket = 0
        BY DEF ZeroRow, RowsOf
      <3>2. /\ Row(ZeroRow, s) \in 0 .. Len(ZeroRow)
            /\ Row(ZeroRow, s) # 0 => ZeroRow[Row(ZeroRow, s)].socket = s
        BY <3>1, RowIs
      <3>3. Row(ZeroRow, s) = 0
        BY <3>1, <3>2, ConstantsOK
      <3> QED
        BY <3>3 DEF NodesOf, Init
    <2>2. ll \in Seq(RowsOf(Sockets \cup {0}, PathNodes(Macs, Ports)))
      BY TypeInit, TypeOKIs DEF PathRows
    <2>3. PathIndex(ll, s, mac) \in 0 .. Len(NodesOf(ll, s))
      BY <2>2, PathIndexIs
    <2>4. PathIndex(ll, s, mac) = 0
      BY <2>1, <2>3
    <2> QED
      BY <2>4 DEF FindPort
  <1>2. TypeOK /\ [Next]_vars =>
          [ll' # ll => \A s \in Sockets, mac \in Macs : Route(s, mac)!Step]_vars
    BY RouteStep
  <1> QED
    BY <1>1, <1>2, TypeCorrect, PTL DEF Spec, RoutesAreWriteOnce
=============================================================================
