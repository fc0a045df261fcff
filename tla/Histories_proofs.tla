-------------------------- MODULE Histories_proofs --------------------------
(***************************************************************************)
(* Theorems about what module Controller has been told and what it tells:  *)
(* the lists against the messages received, the messages sent against      *)
(* both, for every number of switches, hosts, ports and messages.          *)
(***************************************************************************)
EXTENDS Controller_proofs

---------------------------------------------------------------------------
(* The saved flows against the flows sent *)

PortSaved(list, t, d, c) ==
  IF FindFlow(list, t, d, c) = 0 THEN OFPP_NONE
  ELSE NodesOf(list, t)[FindFlow(list, t, d, c)].port

LEMMA FlowsTyped ==
  ASSUME NEW list \in Seq(FlowRows), NEW t
  PROVE  NodesOf(list, t) \in Seq(FlowNodes(Macs, Ports \cup {0}))
  BY NodesOfType DEF FlowRows

LEMMA FlowWalk ==
  ASSUME NEW list \in Seq(FlowRows), NEW t, NEW d, NEW c
  PROVE  /\ FindFlow(list, t, d, c) \in 0 .. Len(NodesOf(list, t))
         /\ FindFlow(list, t, d, c) # 0 =>
              /\ NodesOf(list, t)[FindFlow(list, t, d, c)].dst_mac = d
              /\ NodesOf(list, t)[FindFlow(list, t, d, c)].src_mac = c
         /\ \A k \in 1 .. Len(NodesOf(list, t)) :
              NodesOf(list, t)[k].dst_mac = d /\ NodesOf(list, t)[k].src_mac = c =>
                FindFlow(list, t, d, c) # 0 /\ FindFlow(list, t, d, c) <= k
  BY FindFlowIs DEF FlowRows

LEMMA NoneIsNoPort == \A port \in Ports \cup {0} : port # OFPP_NONE
  <1> SUFFICES ASSUME NEW port \in Ports PROVE port # OFPP_NONE
    BY DEF OFPP_NONE
  <1>1. port \in 1 .. OFPP_TABLE - 1
    BY ConstantsOK
  <1>2. port < 65535
    BY <1>1 DEF OFPP_TABLE
  <1> QED
    BY <1>1, <1>2 DEF OFPP_NONE

(* A lookup finds no flow exactly when no port is saved.                   *)
LEMMA PortSavedTyped ==
  ASSUME NEW list \in Seq(FlowRows), NEW t, NEW d, NEW c
  PROVE  PortSaved(list, t, d, c) = OFPP_NONE <=> FindFlow(list, t, d, c) = 0
  <1> DEFINE k == FindFlow(list, t, d, c)
  <1> DEFINE nodes == NodesOf(list, t)
  <1>1. k \in 0 .. Len(nodes)
    BY FlowWalk
  <1>2. nodes \in Seq(FlowNodes(Macs, Ports \cup {0}))
    BY FlowsTyped
  <1>3. PortSaved(list, t, d, c) = IF k = 0 THEN OFPP_NONE ELSE nodes[k].port
    BY DEF PortSaved
  <1> HIDE DEF k, nodes
  <1>4. k # 0 => nodes[k].port \in Ports \cup {0}
    <2> SUFFICES ASSUME k # 0 PROVE nodes[k].port \in Ports \cup {0}
      OBVIOUS
    <2>1. nodes[k] \in FlowNodes(Macs, Ports \cup {0})
      BY <1>1, <1>2
    <2> QED
      BY <2>1 DEF FlowNodes
  <1> QED
    BY <1>3, <1>4, NoneIsNoPort DEF k

(* What is saved once a flow more is.                                      *)
LEMMA PortSavedAfter ==
  ASSUME NEW list \in Seq(FlowRows), list # << >>, NEW s \in Sockets,
         NEW dst \in Macs, NEW src \in Macs, NEW port \in Ports \cup {0},
         NEW new \in Seq(FlowRows), new = AddFlowNode(list, s, dst, src, port),
         NEW d \in Macs, NEW c \in Macs
  PROVE  PortSaved(new, s, d, c) =
           IF d = dst /\ c = src /\ FindFlow(list, s, dst, src) = 0 THEN port
           ELSE PortSaved(list, s, d, c)
  <1> DEFINE node == [dst_mac |-> dst, src_mac |-> src, port |-> port]
  <1>1. node \in FlowNodes(Macs, Ports \cup {0})
    BY DEF FlowNodes
  <1>2. node.dst_mac = dst /\ node.src_mac = src /\ node.port = port
    OBVIOUS
  <1>3. new = IF FindFlow(list, s, dst, src) # 0 THEN list ELSE PushNode(list, s, node)
    BY DEF AddFlowNode
  <1> HIDE DEF node
  <1>4. CASE FindFlow(list, s, dst, src) # 0
    BY <1>3, <1>4
  <1>5. CASE FindFlow(list, s, dst, src) = 0
    <2> DEFINE nodes == NodesOf(list, s)
    <2> DEFINE longer == NodesOf(new, s)
    <2> DEFINE i == FindFlow(list, s, d, c)
    <2> DEFINE j == FindFlow(new, s, d, c)
    <2>1. longer = <<node>> \o nodes
      <3> DEFINE S == Sockets \cup {0}
      <3> DEFINE P == Ports \cup {0}
      <3>1. /\ list \in Seq(RowsOf(S, FlowNodes(Macs, P))) /\ s \in S
            /\ node \in FlowNodes(Macs, P)
        BY <1>1 DEF FlowRows
      <3> HIDE DEF S, P
      <3>2. /\ PushNode(list, s, node) \in Seq(RowsOf(S, FlowNodes(Macs, P)))
            /\ PushNode(list, s, node) # << >>
            /\ NodesOf(PushNode(list, s, node), s) = <<node>> \o NodesOf(list, s)
            /\ \A u : u # s => NodesOf(PushNode(list, s, node), u) = NodesOf(list, u)
            /\ OneRowEach(list) => OneRowEach(PushNode(list, s, node))
        BY <3>1, PushNodeIs
      <3> QED
        BY <1>3, <1>5, <3>2
    <2>2. nodes \in Seq(FlowNodes(Macs, Ports \cup {0}))
      BY FlowsTyped
    <2>3. /\ i \in 0 .. Len(nodes)
          /\ i # 0 => nodes[i].dst_mac = d /\ nodes[i].src_mac = c
          /\ \A k \in 1 .. Len(nodes) :
               nodes[k].dst_mac = d /\ nodes[k].src_mac = c => i # 0 /\ i <= k
      BY FlowWalk
    <2>4. /\ j \in 0 .. Len(longer)
          /\ j # 0 => longer[j].dst_mac = d /\ longer[j].src_mac = c
          /\ \A k \in 1 .. Len(longer) :
               longer[k].dst_mac = d /\ longer[k].src_mac = c => j # 0 /\ j <= k
      BY FlowWalk
    <2>5. /\ PortSaved(list, s, d, c) = IF i = 0 THEN OFPP_NONE ELSE nodes[i].port
          /\ PortSaved(new, s, d, c) = IF j = 0 THEN OFPP_NONE ELSE longer[j].port
      BY DEF PortSaved
    <2> HIDE DEF nodes, longer, i, j
    <2>6. /\ Len(longer) = Len(nodes) + 1
          /\ longer[1] = node
          /\ \A k \in 1 .. Len(nodes) : longer[k + 1] = nodes[k]
          /\ Len(nodes) \in Nat
      BY <2>1, <2>2
    <2>7. CASE d = dst /\ c = src
      <3>1. j = 1
        BY <1>2, <2>4, <2>6, <2>7
      <3> QED
        BY <1>2, <1>5, <2>5, <2>6, <2>7, <3>1
    <2>8. CASE ~ (d = dst /\ c = src)
      <3>1. j # 1
        BY <1>2, <2>4, <2>6, <2>8
      <3>2. CASE i = 0
        <4>1. j = 0
          <5> SUFFICES ASSUME j # 0 PROVE FALSE
            OBVIOUS
          <5> DEFINE k == j - 1
          <5>1. k \in 1 .. Len(nodes) /\ longer[k + 1].dst_mac = d /\ longer[k + 1].src_mac = c
            BY <2>4, <2>6, <3>1
          <5> QED
            BY <2>3, <2>6, <3>2, <5>1
        <4> QED
          BY <2>5, <2>8, <3>2, <4>1
      <3>3. CASE i # 0
        <4>1. /\ i \in 1 .. Len(nodes) /\ longer[i + 1] = nodes[i]
              /\ longer[i + 1].dst_mac = d /\ longer[i + 1].src_mac = c
          BY <2>3, <2>6, <3>3
        <4>2. j # 0 /\ j <= i + 1
          BY <2>4, <2>6, <4>1
        <4> DEFINE k == j - 1
        <4>3. k \in 1 .. Len(nodes) /\ longer[k + 1].dst_mac = d /\ longer[k + 1].src_mac = c
          BY <2>4, <2>6, <3>1, <4>2
        <4>4. i <= k
          BY <2>3, <2>6, <4>3
        <4>5. j = i + 1
          BY <2>4, <2>6, <4>1, <4>2, <4>4
        <4> QED
          BY <2>5, <2>8, <3>3, <4>1, <4>5
      <3> QED
        BY <3>2, <3>3
    <2> QED
      BY <2>7, <2>8
  <1> QED
    BY <1>4, <1>5

Matches(f, dst, src) == f.type = "FLOW_MOD" /\ f.dl_dst = dst /\ f.dl_src = src

(* The list and the messages q sent to s agree on the flows.               *)
Told(q, d, c) == {i \in DOMAIN q : Matches(q[i], d, c)}

PortTold(q, d, c) == IF Told(q, d, c) = {} THEN OFPP_NONE ELSE q[Min(Told(q, d, c))].port

SavedIs(list, s, q) == \A d, c \in Macs : PortSaved(list, s, d, c) = PortTold(q, d, c)

LEMMA EarlierStaysFirst ==
  ASSUME NEW n \in Nat, NEW I \in SUBSET (1 .. n)
  PROVE  Min(I \cup {n + 1}) = IF I = {} THEN n + 1 ELSE Min(I)
  <1> DEFINE J == I \cup {n + 1}
  <1>1. J \in SUBSET (1 .. n + 1) /\ J # {} /\ n + 1 \in Nat
    OBVIOUS
  <1>2. \A i \in J : i \in I \/ i = n + 1
    OBVIOUS
  <1>3. I \subseteq J
    OBVIOUS
  <1> HIDE DEF J
  <1>4. Min(J) \in J /\ \A i \in J : Min(J) <= i
    BY <1>1, FirstPosition
  <1>5. I # {} => Min(I) \in I /\ \A i \in I : Min(I) <= i
    BY FirstPosition
  <1>6. Min(J) = IF I = {} THEN n + 1 ELSE Min(I)
    <2>1. CASE I = {}
      BY <1>2, <1>4, <2>1
    <2>2. CASE I # {}
      <3>1. Min(I) \in 1 .. n /\ Min(J) <= Min(I)
        BY <1>3, <1>4, <1>5, <2>2
      <3>2. Min(J) \in I
        BY <1>2, <1>4, <3>1
      <3>3. Min(I) <= Min(J) /\ Min(J) \in 1 .. n
        BY <1>5, <2>2, <3>2
      <3> HIDE DEF J
      <3>4. Min(I) = Min(J)
        BY <3>1, <3>3
      <3> QED
        BY <2>2, <3>4
    <2> QED
      BY <2>1, <2>2
  <1> QED
    BY <1>6 DEF J

IsLonger(longer, q, f) == longer = Append(q, f)

LEMMA PortToldAfter ==
  ASSUME NEW q \in Seq(ToSwitch), NEW f \in ToSwitch, NEW longer \in Seq(ToSwitch),
         IsLonger(longer, q, f), NEW d \in Macs, NEW c \in Macs
  PROVE  /\ Told(q, d, c) = {} /\ Matches(f, d, c) => PortTold(longer, d, c) = f.port
         /\ Told(q, d, c) # {} \/ ~ Matches(f, d, c) => PortTold(longer, d, c) = PortTold(q, d, c)
  <1> DEFINE n == Len(q)
  <1> DEFINE A == Told(q, d, c)
  <1> DEFINE B == Told(longer, d, c)
  <1>1. /\ n \in Nat /\ DOMAIN q = 1 .. n
        /\ DOMAIN longer = 1 .. n + 1 /\ longer[n + 1] = f
        /\ \A i \in 1 .. n : longer[i] = q[i]
    BY DEF IsLonger
  <1>2. A = {i \in 1 .. n : Matches(q[i], d, c)}
    BY <1>1 DEF Told
  <1>3. B = {i \in 1 .. n + 1 : Matches(longer[i], d, c)}
    BY <1>1 DEF Told
  <1>4. /\ PortTold(q, d, c) = IF A = {} THEN OFPP_NONE ELSE q[Min(A)].port
        /\ PortTold(longer, d, c) = IF B = {} THEN OFPP_NONE ELSE longer[Min(B)].port
    BY DEF PortTold
  <1> HIDE DEF n, A, B
  <1>5. A \in SUBSET (1 .. n)
    BY <1>2
  <1>6. A # {} => Min(A) \in 1 .. n
    BY <1>1, <1>5, FirstPosition
  <1>7. \A i \in 1 .. n + 1 : i \in 1 .. n \/ i = n + 1
    BY <1>1
  <1>8. n + 1 \in 1 .. n + 1 /\ n + 1 \notin 1 .. n /\ 1 .. n \subseteq 1 .. n + 1
    BY <1>1
  <1>9. CASE Matches(f, d, c)
    <2>1. B = A \cup {n + 1}
      BY <1>1, <1>2, <1>3, <1>7, <1>8, <1>9
    <2>2. Min(B) = IF A = {} THEN n + 1 ELSE Min(A)
      BY <1>1, <1>5, <2>1, EarlierStaysFirst
    <2>3. B # {}
      BY <2>1
    <2>4. PortTold(longer, d, c) = IF A = {} THEN f.port ELSE q[Min(A)].port
      BY <1>1, <1>4, <1>6, <2>2, <2>3
    <2> QED
      BY <1>4, <1>9, <2>4 DEF A
  <1>10. CASE ~ Matches(f, d, c)
    <2>1. B = A
      BY <1>1, <1>2, <1>3, <1>7, <1>8, <1>10
    <2> QED
      BY <1>1, <1>4, <1>6, <1>10, <2>1
  <1> QED
    BY <1>9, <1>10

LEMMA ToldTyped ==
  ASSUME NEW q \in Seq(ToSwitch), NEW d \in Macs, NEW c \in Macs
  PROVE  PortTold(q, d, c) = OFPP_NONE <=> Told(q, d, c) = {}
  <1> DEFINE A == Told(q, d, c)
  <1>1. A \in SUBSET (1 .. Len(q)) /\ Len(q) \in Nat /\ \A i \in A : q[i].type = "FLOW_MOD"
    BY DEF Told, Matches
  <1>2. PortTold(q, d, c) = IF A = {} THEN OFPP_NONE ELSE q[Min(A)].port
    BY DEF PortTold
  <1> HIDE DEF A
  <1>3. ASSUME A # {} PROVE q[Min(A)].port # OFPP_NONE
    <2> DEFINE f == q[Min(A)]
    <2>1. Min(A) \in A
      BY <1>1, <1>3, FirstPosition
    <2>2. f \in ToSwitch /\ f.type = "FLOW_MOD"
      <3> DEFINE i == Min(A)
      <3>1. i \in 1 .. Len(q) /\ q[i].type = "FLOW_MOD"
        BY <1>1, <2>1
      <3> HIDE DEF i
      <3>2. q[i] \in ToSwitch
        BY <3>1
      <3> QED
        BY <3>1, <3>2 DEF i
    <2> HIDE DEF f
    <2>3. f.port \in Ports \cup {0}
      BY <2>2 DEF ToSwitch, Headers, FlowMods, PacketOuts
    <2> QED
      BY <2>3, NoneIsNoPort DEF f
  <1> QED
    BY <1>2, <1>3 DEF A

LEMMA SaveOne ==
  ASSUME NEW list \in Seq(FlowRows), list # << >>, NEW s \in Sockets,
         NEW q \in Seq(ToSwitch), NEW f \in ToSwitch, f.type = "FLOW_MOD",
         f.dl_dst \in Macs, f.dl_src \in Macs, f.port \in Ports \cup {0},
         SavedIs(list, s, q)
  PROVE  SavedIs(AddFlowNode(list, s, f.dl_dst, f.dl_src, f.port), s, Append(q, f))
  <1> DEFINE new == AddFlowNode(list, s, f.dl_dst, f.dl_src, f.port)
  <1> DEFINE longer == Append(q, f)
  <1>1. new \in Seq(FlowRows)
    BY SavedTyped
  <1>2. longer \in Seq(ToSwitch)
    OBVIOUS
  <1> SUFFICES ASSUME NEW d \in Macs, NEW c \in Macs
               PROVE  PortSaved(new, s, d, c) = PortTold(longer, d, c)
    BY DEF SavedIs
  <1>3. new = AddFlowNode(list, s, f.dl_dst, f.dl_src, f.port) /\ IsLonger(longer, q, f)
    BY DEF IsLonger
  <1> HIDE DEF new, longer
  <1>4. PortSaved(new, s, d, c) =
          IF d = f.dl_dst /\ c = f.dl_src /\ FindFlow(list, s, f.dl_dst, f.dl_src) = 0
          THEN f.port ELSE PortSaved(list, s, d, c)
    BY <1>1, <1>3, PortSavedAfter
  <1>5. /\ Told(q, d, c) = {} /\ Matches(f, d, c) => PortTold(longer, d, c) = f.port
        /\ Told(q, d, c) # {} \/ ~ Matches(f, d, c) => PortTold(longer, d, c) = PortTold(q, d, c)
    BY <1>2, <1>3, PortToldAfter
  <1>6. PortSaved(list, s, d, c) = PortTold(q, d, c)
    BY DEF SavedIs
  <1>7. FindFlow(list, s, d, c) = 0 <=> Told(q, d, c) = {}
    BY <1>6, PortSavedTyped, ToldTyped
  <1>8. Matches(f, d, c) <=> d = f.dl_dst /\ c = f.dl_src
    BY DEF Matches
  <1> QED
    BY <1>4, <1>5, <1>6, <1>7, <1>8

LEMMA KeepMany ==
  ASSUME NEW list, NEW s, NEW q \in Seq(ToSwitch), NEW out \in Seq(ToSwitch),
         \A i \in 1 .. Len(out) : out[i].type # "FLOW_MOD", SavedIs(list, s, q)
  PROVE  SavedIs(list, s, q \o out)
  <1> DEFINE both == q \o out
  <1>1. /\ both \in Seq(ToSwitch)
        /\ Len(both) = Len(q) + Len(out)
        /\ \A i \in 1 .. Len(q) + Len(out) :
             both[i] = IF i <= Len(q) THEN q[i] ELSE out[i - Len(q)]
    BY ConcatProperties
  <1>2. /\ Len(q) \in Nat /\ Len(out) \in Nat /\ DOMAIN q = 1 .. Len(q)
        /\ DOMAIN both = 1 .. Len(q) + Len(out)
    BY <1>1
  <1> SUFFICES ASSUME NEW d \in Macs, NEW c \in Macs
               PROVE  PortTold(both, d, c) = PortTold(q, d, c)
    BY DEF SavedIs
  <1> HIDE DEF both
  <1>3. Told(q, d, c) \in SUBSET (1 .. Len(q))
    BY <1>2 DEF Told
  <1>4. Told(both, d, c) = Told(q, d, c)
    <2>1. ASSUME NEW i \in DOMAIN both, Matches(both[i], d, c)
          PROVE  i \in DOMAIN q /\ Matches(q[i], d, c)
      <3>1. CASE i <= Len(q)
        BY <1>1, <1>2, <2>1, <3>1
      <3>2. CASE ~ i <= Len(q)
        <4> DEFINE j == i - Len(q)
        <4>1. j \in 1 .. Len(out) /\ both[i] = out[j]
          BY <1>1, <1>2, <3>2
        <4> HIDE DEF j
        <4> QED
          BY <2>1, <4>1 DEF Matches
      <3> QED
        BY <3>1, <3>2
    <2>2. ASSUME NEW i \in DOMAIN q
          PROVE  i \in DOMAIN both /\ both[i] = q[i]
      BY <1>1, <1>2
    <2> QED
      BY <2>1, <2>2 DEF Told
  <1>5. Told(q, d, c) # {} => both[Min(Told(q, d, c))] = q[Min(Told(q, d, c))]
    <2>1. Told(q, d, c) # {} => Min(Told(q, d, c)) \in 1 .. Len(q)
      BY <1>2, <1>3, FirstPosition
    <2> QED
      BY <1>1, <1>2, <2>1
  <1> QED
    BY <1>4, <1>5 DEF PortTold

LEMMA OneMore ==
  ASSUME NEW q \in Seq(ToSwitch), NEW a \in ToSwitch
  PROVE  q \o <<a>> = Append(q, a) /\ Append(q, a) \in Seq(ToSwitch)
  BY AppendIsConcat

LEMMA ThreeMore ==
  ASSUME NEW q \in Seq(ToSwitch), NEW a \in ToSwitch, NEW b \in ToSwitch, NEW c \in ToSwitch
  PROVE  q \o <<a, b, c>> = Append(Append(q, a), b) \o <<c>>
  <1> DEFINE n == Len(q)
  <1> DEFINE three == <<a, b, c>>
  <1> DEFINE p == Append(Append(q, a), b)
  <1> DEFINE one == <<c>>
  <1>1. /\ three \in Seq(ToSwitch) /\ Len(three) = 3
        /\ three[1] = a /\ three[2] = b /\ three[3] = c
        /\ one \in Seq(ToSwitch) /\ Len(one) = 1 /\ one[1] = c
    OBVIOUS
  <1>2. /\ p \in Seq(ToSwitch) /\ Len(p) = n + 2 /\ n \in Nat
        /\ \A i \in 1 .. n : p[i] = q[i]
        /\ p[n + 1] = a /\ p[n + 2] = b
    OBVIOUS
  <1> HIDE DEF n, three, p, one
  <1>3. /\ q \o three \in Seq(ToSwitch) /\ Len(q \o three) = n + 3
        /\ \A i \in 1 .. n + 3 : (q \o three)[i] = IF i <= n THEN q[i] ELSE three[i - n]
    <2>1. /\ q \o three \in Seq(ToSwitch) /\ Len(q \o three) = Len(q) + Len(three)
          /\ \A i \in 1 .. Len(q) + Len(three) :
               (q \o three)[i] = IF i <= Len(q) THEN q[i] ELSE three[i - Len(q)]
      BY <1>1, ConcatProperties
    <2>2. Len(q) = n /\ Len(q) + Len(three) = n + 3
      BY <1>1 DEF n
    <2> QED
      BY <2>1, <2>2
  <1>4. /\ p \o one \in Seq(ToSwitch) /\ Len(p \o one) = n + 3
        /\ \A i \in 1 .. n + 3 : (p \o one)[i] = IF i <= n + 2 THEN p[i] ELSE one[i - (n + 2)]
    <2>1. /\ p \o one \in Seq(ToSwitch) /\ Len(p \o one) = Len(p) + Len(one)
          /\ \A i \in 1 .. Len(p) + Len(one) :
               (p \o one)[i] = IF i <= Len(p) THEN p[i] ELSE one[i - Len(p)]
      BY <1>1, <1>2, ConcatProperties
    <2>2. Len(p) + Len(one) = n + 3
      BY <1>1, <1>2
    <2> QED
      BY <1>2, <2>1, <2>2
  <1>5. ASSUME NEW i \in 1 .. n + 3 PROVE (q \o three)[i] = (p \o one)[i]
    <2>1. i \in 1 .. n \/ i = n + 1 \/ i = n + 2 \/ i = n + 3
      BY <1>2
    <2>2. CASE i \in 1 .. n
      BY <1>2, <1>3, <1>4, <2>2
    <2>3. CASE i = n + 1
      <3>1. ~ i <= n /\ i <= n + 2 /\ i - n = 1
        BY <1>2, <2>3
      <3> QED
        BY <1>1, <1>2, <1>3, <1>4, <2>3, <3>1
    <2>4. CASE i = n + 2
      <3>1. ~ i <= n /\ i <= n + 2 /\ i - n = 2
        BY <1>2, <2>4
      <3> QED
        BY <1>1, <1>2, <1>3, <1>4, <2>4, <3>1
    <2>5. CASE i = n + 3
      <3>1. ~ i <= n /\ ~ i <= n + 2 /\ i - n = 3 /\ i - (n + 2) = 1
        BY <1>2, <2>5
      <3> QED
        BY <1>1, <1>2, <1>3, <1>4, <2>5, <3>1
    <2> QED
      BY <2>1, <2>2, <2>3, <2>4, <2>5
  <1>6. q \o three = p \o one
    BY <1>3, <1>4, <1>5, SeqEqual
  <1> QED
    BY <1>6 DEF three, p, one

(* Saving what is told, whatever was told before.                          *)
Saving(s, out) ==
  \A q \in Seq(ToSwitch) : SavedIs(flows, s, q) => SavedIs(flows', s, q \o out)

---------------------------------------------------------------------------
(* What all handlers have in common *)

(* A flow's port is where m came from or what the list answers, its        *)
(* opposite is in the same answer, and a frame for the flow table comes    *)
(* behind the flow it is for.                                              *)
Answer(s, m, out) == \A i \in 1 .. Len(out) :
  /\ out[i].type = "FLOW_MOD" =>
       /\ \/ m \in PacketIn /\ out[i].dl_dst = m.frame.src /\ out[i].port = m.in_port
          \/ out[i].port = FindPort(ll', s, out[i].dl_dst)
       /\ \E j \in 1 .. Len(out) : Matches(out[j], out[i].dl_src, out[i].dl_dst)
  /\ out[i].type = "PACKET_OUT" /\ out[i].port = OFPP_TABLE =>
       \E j \in 1 .. i - 1 : Matches(out[j], out[i].frame.dst, out[i].frame.src)

(* m arrives from s and the first k messages of out are sent back.         *)
Exchange(s, m, out, k) ==
  /\ up
  /\ rcvd' = Append(rcvd, [socket |-> s, msg |-> m])
  /\ sent' = [sent EXCEPT ![s] = @ \o SubSeq(out, 1, k)]
  /\ up' = (k = Len(out))
  /\ m \in PacketIn => ll' = Learned(s, m) /\ out # << >>
  /\ m \notin PacketIn => ll' = ll /\ flows' = flows
  /\ \A t : t # s => NodesOf(flows', t) = NodesOf(flows, t)
  /\ Answer(s, m, out)
  /\ Saving(s, out)

LEMMA NoAnswer ==
  ASSUME NEW s \in Sockets, NEW m \in ToController, m \notin PacketIn,
         NEW out \in Seq(Headers), NEW n \in Nat,
         Handle(s, m, out, n), UNCHANGED <<ll, flows>>
  PROVE  \E k \in 0 .. Len(out) : Exchange(s, m, out, k)
  <1>1. Answer(s, m, out)
    <2>1. \A i \in 1 .. Len(out) : out[i] \in Headers
      OBVIOUS
    <2> QED
      BY <2>1 DEF Answer, Headers
  <1>2. Saving(s, out)
    <2> SUFFICES ASSUME NEW q \in Seq(ToSwitch), SavedIs(flows, s, q)
                 PROVE  SavedIs(flows, s, q \o out)
      BY DEF Saving
    <2>1. out \in Seq(ToSwitch)
      BY DEF ToSwitch
    <2>2. \A i \in 1 .. Len(out) : out[i].type # "FLOW_MOD"
      <3>1. \A i \in 1 .. Len(out) : out[i] \in Headers
        OBVIOUS
      <3> QED
        BY <3>1 DEF Headers
    <2> QED
      BY <2>1, <2>2, KeepMany
  <1> QED
    BY <1>1, <1>2 DEF Exchange, Handle

LEMMA HeadersAre ==
  \A x \in Xids : \A type \in {"HELLO", "FEATURES_REQUEST", "SET_CONFIG",
                                "BARRIER_REQUEST", "ECHO_REPLY"} : Header(type, x) \in Headers
  BY DEF Header, Headers

(* Messages that teach the controller nothing.                             *)
LEMMA OtherExchange ==
  ASSUME TypeOK, NEW s \in Sockets,
         \/ RecvHello(s)
         \/ RecvFeaturesReply(s)
         \/ \E x \in EchoXids : RecvEchoRequest(s, x)
         \/ \E type \in {"PORT_STATUS", "OTHER"} : RecvIgnored(s, type)
         \/ RecvNoMatch(s)
  PROVE  \E m \in ToController, out \in Seq(ToSwitch) : \E k \in 0 .. Len(out) :
           Exchange(s, m, out, k)
  <1> SUFFICES \E m \in ToController \ PacketIn, out \in Seq(Headers), n \in Nat :
                 Handle(s, m, out, n) /\ UNCHANGED <<ll, flows>>
    <2>1. Seq(Headers) \subseteq Seq(ToSwitch)
      BY DEF ToSwitch
    <2> QED
      BY <2>1, NoAnswer
  <1>1. xid \in Xids /\ Xid(1) \in Xids
    BY XidInRange DEF TypeOK
  <1>2. CASE RecvHello(s)
    <2> DEFINE out == <<Header("HELLO", xid), Header("FEATURES_REQUEST", Xid(1))>>
    <2>1. out \in Seq(Headers)
      BY <1>1, HeadersAre
    <2>2. [type |-> "HELLO"] \in ToController \ PacketIn
      BY DEF ToController, PacketIn
    <2> QED
      BY <1>2, <2>1, <2>2 DEF RecvHello
  <1>3. CASE RecvFeaturesReply(s)
    <2> DEFINE out == <<Header("SET_CONFIG", xid), Header("BARRIER_REQUEST", Xid(1))>>
    <2>1. out \in Seq(Headers)
      BY <1>1, HeadersAre
    <2>2. [type |-> "FEATURES_REPLY"] \in ToController \ PacketIn
      BY DEF ToController, PacketIn
    <2> QED
      BY <1>3, <2>1, <2>2 DEF RecvFeaturesReply
  <1>4. ASSUME NEW x \in EchoXids, RecvEchoRequest(s, x)
        PROVE  \E m \in ToController \ PacketIn, out \in Seq(Headers), n \in Nat :
                 Handle(s, m, out, n) /\ UNCHANGED <<ll, flows>>
    <2> DEFINE out == <<Header("ECHO_REPLY", x)>>
    <2>1. out \in Seq(Headers)
      BY HeadersAre, ConstantsOK DEF Xids
    <2>2. [type |-> "ECHO_REQUEST", xid |-> x] \in ToController \ PacketIn
      BY DEF ToController, PacketIn
    <2> QED
      BY <1>4, <2>1, <2>2 DEF RecvEchoRequest
  <1>5. ASSUME NEW type \in {"PORT_STATUS", "OTHER"}, RecvIgnored(s, type)
        PROVE  \E m \in ToController \ PacketIn, out \in Seq(Headers), n \in Nat :
                 Handle(s, m, out, n) /\ UNCHANGED <<ll, flows>>
    <2>1. [type |-> type] \in ToController \ PacketIn /\ << >> \in Seq(Headers)
      BY DEF ToController, PacketIn
    <2> QED
      BY <1>5, <2>1 DEF RecvIgnored
  <1>6. CASE RecvNoMatch(s)
    <2>1. NoMatch \in ToController \ PacketIn /\ << >> \in Seq(Headers)
      BY DEF ToController, PacketIn, NoMatch
    <2> QED
      BY <1>6, <2>1 DEF RecvNoMatch
  <1> QED
    BY <1>2, <1>3, <1>4, <1>5, <1>6

LEMMA OtherFlowsKept ==
  ASSUME NEW S, NEW M, NEW P, NEW list \in Seq(RowsOf(S, FlowNodes(M, P))),
         list # << >>, NEW s \in S, NEW dst \in M, NEW src \in M, NEW port \in P,
         NEW t, t # s
  PROVE  NodesOf(AddFlowNode(list, s, dst, src, port), t) = NodesOf(list, t)
  <1> DEFINE node == [dst_mac |-> dst, src_mac |-> src, port |-> port]
  <1>1. node \in FlowNodes(M, P)
    BY DEF FlowNodes
  <1>2. AddFlowNode(list, s, dst, src, port) \in {list, PushNode(list, s, node)}
    BY DEF AddFlowNode
  <1> HIDE DEF node
  <1>3. /\ PushNode(list, s, node) \in Seq(RowsOf(S, FlowNodes(M, P)))
        /\ PushNode(list, s, node) # << >>
        /\ NodesOf(PushNode(list, s, node), s) = <<node>> \o NodesOf(list, s)
        /\ \A u : u # s => NodesOf(PushNode(list, s, node), u) = NodesOf(list, u)
        /\ OneRowEach(list) => OneRowEach(PushNode(list, s, node))
    BY <1>1, PushNodeIs
  <1> QED
    BY <1>2, <1>3

LEMMA SavedElsewhere ==
  ASSUME NEW list \in Seq(FlowRows), list # << >>, NEW s \in Sockets,
         NEW dst \in Macs, NEW src \in Macs, NEW port \in Ports \cup {0}
  PROVE  \A t : t # s => NodesOf(AddFlowNode(list, s, dst, src, port), t) = NodesOf(list, t)
  <1> DEFINE S == Sockets \cup {0}
  <1> DEFINE P == Ports \cup {0}
  <1>1. s \in S /\ port \in P
    OBVIOUS
  <1>2. list \in Seq(RowsOf(S, FlowNodes(Macs, P)))
    BY DEF FlowRows
  <1> HIDE DEF S, P
  <1> QED
    BY <1>1, <1>2, OtherFlowsKept

(* Messages that carry a frame.                                            *)
LEMMA PacketInExchange ==
  ASSUME TypeOK, NEW s \in Sockets, NEW m \in PacketIn, RecvPacketIn(s, m)
  PROVE  \E out \in Seq(ToSwitch) : \E k \in 0 .. Len(out) : Exchange(s, m, out, k)
  <1>1. /\ m \in ToController /\ m.in_port \in Ports
        /\ m.frame.dst \in Macs /\ m.frame.src \in Macs
    BY PacketInTyped
  <1>2. xid \in Xids /\ Xid(1) \in Xids /\ Xid(2) \in Xids
    BY XidInRange DEF TypeOK
  <1>3. flows \in Seq(FlowRows) /\ flows # << >>
    BY TypeOKIs
  <1>4. ASSUME RecvArpReply(s, m)
        PROVE  \E out \in Seq(ToSwitch) : \E k \in 0 .. Len(out) : Exchange(s, m, out, k)
    <2> DEFINE back == FindPort(Learned(s, m), s, m.frame.dst)
    <2> DEFINE one == FlowMod(xid, m.frame.dst, m.frame.src, m.in_port)
    <2> DEFINE two == FlowMod(Xid(1), m.frame.src, m.frame.dst, back)
    <2> DEFINE three == PacketOut(Xid(2), m, OFPP_TABLE)
    <2> DEFINE out == <<one, two, three>>
    <2> DEFINE forward == AddFlowNode(flows, s, m.frame.src, m.frame.dst, m.in_port)
    <2>1. back \in Ports \cup {0}
      BY LearnedTyped, BackPortTyped
    <2>2. ll' = Learned(s, m) /\ back = FindPort(ll', s, m.frame.dst)
      BY <1>4 DEF RecvArpReply
    <2>3. Handle(s, m, out, 3) /\ flows' = AddFlowNode(forward, s, m.frame.dst, m.frame.src, back)
      BY <1>4 DEF RecvArpReply
    <2> HIDE DEF back
    <2>4. one \in ToSwitch /\ two \in ToSwitch /\ three \in ToSwitch
      BY <1>1, <1>2, <2>1, MessagesTyped
    <2>5. \A t : t # s => NodesOf(flows', t) = NodesOf(flows, t)
      <3>1. /\ forward \in Seq(FlowRows) /\ forward # << >>
            /\ \A t : t # s => NodesOf(forward, t) = NodesOf(flows, t)
        BY <1>1, <1>3, SavedTyped, SavedElsewhere
      <3> HIDE DEF forward
      <3> QED
        BY <1>1, <2>1, <2>3, <3>1, SavedElsewhere
    <2>6. Answer(s, m, out)
      <3>1. /\ one.type = "FLOW_MOD" /\ one.dl_src = m.frame.dst /\ one.dl_dst = m.frame.src
            /\ one.port = m.in_port
            /\ two.type = "FLOW_MOD" /\ two.dl_src = m.frame.src /\ two.dl_dst = m.frame.dst
            /\ two.port = back
            /\ three.type = "PACKET_OUT" /\ three.frame = m.frame
        BY DEF FlowMod, PacketOut
      <3>2. /\ Matches(one, two.dl_src, two.dl_dst) /\ Matches(two, one.dl_src, one.dl_dst)
            /\ Matches(two, three.frame.dst, three.frame.src)
        BY <3>1 DEF Matches
      <3>3. /\ Len(out) = 3 /\ out[1] = one /\ out[2] = two /\ out[3] = three
            /\ \A i \in 1 .. Len(out) : i = 1 \/ i = 2 \/ i = 3
        OBVIOUS
      <3> HIDE DEF out, one, two, three
      <3>4. /\ \E j \in 1 .. Len(out) : Matches(out[j], one.dl_src, one.dl_dst)
            /\ \E j \in 1 .. Len(out) : Matches(out[j], two.dl_src, two.dl_dst)
            /\ \E j \in 1 .. 3 - 1 : Matches(out[j], three.frame.dst, three.frame.src)
        BY <3>2, <3>3
      <3>5. two.port = FindPort(ll', s, two.dl_dst)
        BY <2>2, <3>1
      <3> QED
        BY <3>1, <3>3, <3>4, <3>5 DEF Answer
    <2>7. out \in Seq(ToSwitch) /\ out # << >>
      BY <2>4
    <2>8. Saving(s, out)
      <3> SUFFICES ASSUME NEW q \in Seq(ToSwitch), SavedIs(flows, s, q)
                   PROVE  SavedIs(flows', s, q \o out)
        BY DEF Saving
      <3>1. /\ one.type = "FLOW_MOD" /\ one.dl_src = m.frame.dst /\ one.dl_dst = m.frame.src
            /\ one.port = m.in_port
            /\ two.type = "FLOW_MOD" /\ two.dl_src = m.frame.src /\ two.dl_dst = m.frame.dst
            /\ two.port = back
            /\ three.type = "PACKET_OUT"
        BY DEF FlowMod, PacketOut
      <3>2. /\ forward \in Seq(FlowRows) /\ forward # << >>
            /\ forward = AddFlowNode(flows, s, one.dl_dst, one.dl_src, one.port)
            /\ flows' = AddFlowNode(forward, s, two.dl_dst, two.dl_src, two.port)
        BY <1>1, <1>3, <2>3, <3>1, SavedTyped
      <3> HIDE DEF one, two, three, forward
      <3>3. q \o out = Append(Append(q, one), two) \o <<three>>
        BY <2>4, ThreeMore
      <3> HIDE DEF out
      <3>4. SavedIs(forward, s, Append(q, one)) /\ Append(q, one) \in Seq(ToSwitch)
        BY <1>1, <1>3, <2>4, <3>1, <3>2, SaveOne, OneMore
      <3> DEFINE p == Append(q, one)
      <3> HIDE DEF p
      <3>5. SavedIs(flows', s, Append(p, two)) /\ Append(p, two) \in Seq(ToSwitch)
        BY <1>1, <2>1, <2>4, <3>1, <3>2, <3>4, SaveOne, OneMore DEF p
      <3>6. <<three>> \in Seq(ToSwitch) /\ \A i \in 1 .. Len(<<three>>) : <<three>>[i].type # "FLOW_MOD"
        BY <2>4, <3>1
      <3> QED
        BY <3>3, <3>5, <3>6, KeepMany DEF p
    <2> HIDE DEF out
    <2> QED
      BY <2>2, <2>3, <2>5, <2>6, <2>7, <2>8 DEF Exchange, Handle
  <1>5. ASSUME RecvLoopback(s, m)
        PROVE  \E out \in Seq(ToSwitch) : \E k \in 0 .. Len(out) : Exchange(s, m, out, k)
    <2> DEFINE one == FlowMod(xid, m.frame.dst, m.frame.src, m.in_port)
    <2> DEFINE out == <<one>>
    <2>1. /\ Handle(s, m, out, 0) /\ ll' = Learned(s, m) /\ m.frame.dst = m.frame.src
          /\ flows' = AddFlowNode(flows, s, m.frame.src, m.frame.dst, m.in_port)
      BY <1>5 DEF RecvLoopback
    <2>2. \A t : t # s => NodesOf(flows', t) = NodesOf(flows, t)
      BY <1>1, <1>3, <2>1, SavedElsewhere
    <2>3. Answer(s, m, out)
      <3>1. /\ one.type = "FLOW_MOD" /\ one.dl_src = m.frame.dst /\ one.dl_dst = m.frame.src
            /\ one.port = m.in_port
        BY DEF FlowMod
      <3>2. Matches(one, one.dl_src, one.dl_dst)
        BY <2>1, <3>1 DEF Matches
      <3>3. Len(out) = 1 /\ out[1] = one /\ \A i \in 1 .. Len(out) : i = 1
        OBVIOUS
      <3> HIDE DEF out, one
      <3> QED
        BY <3>1, <3>2, <3>3 DEF Answer
    <2>4. out \in Seq(ToSwitch) /\ out # << >>
      BY <1>1, <1>2, MessagesTyped
    <2>5. Saving(s, out)
      <3> SUFFICES ASSUME NEW q \in Seq(ToSwitch), SavedIs(flows, s, q)
                   PROVE  SavedIs(flows', s, q \o out)
        BY DEF Saving
      <3>1. /\ one.type = "FLOW_MOD" /\ one.dl_src = m.frame.dst /\ one.dl_dst = m.frame.src
            /\ one.port = m.in_port
        BY DEF FlowMod
      <3>2. one \in ToSwitch
        BY <1>1, <1>2, MessagesTyped
      <3> HIDE DEF one
      <3>3. q \o out = Append(q, one)
        BY <3>2, OneMore
      <3>4. flows' = AddFlowNode(flows, s, one.dl_dst, one.dl_src, one.port)
        BY <2>1, <3>1
      <3> QED
        BY <1>1, <1>3, <3>1, <3>2, <3>3, <3>4, SaveOne
    <2> HIDE DEF out
    <2> QED
      BY <2>1, <2>2, <2>3, <2>4, <2>5 DEF Exchange, Handle
  <1>6. ASSUME RecvFlooded(s, m)
        PROVE  \E out \in Seq(ToSwitch) : \E k \in 0 .. Len(out) : Exchange(s, m, out, k)
    <2> DEFINE out == <<PacketOut(xid, m, OFPP_FLOOD)>>
    <2>1. Handle(s, m, out, 1) /\ ll' = Learned(s, m) /\ flows' = flows
      BY <1>6 DEF RecvFlooded
    <2>2. Answer(s, m, out)
      BY DEF Answer, PacketOut, OFPP_FLOOD, OFPP_TABLE
    <2>3. out \in Seq(ToSwitch) /\ out # << >>
      BY <1>2, MessagesTyped
    <2>4. Saving(s, out)
      <3>1. \A i \in 1 .. Len(out) : out[i].type # "FLOW_MOD"
        BY DEF PacketOut
      <3> HIDE DEF out
      <3> QED
        BY <2>1, <2>3, <3>1, KeepMany DEF Saving
    <2> HIDE DEF out
    <2> QED
      BY <2>1, <2>2, <2>3, <2>4 DEF Exchange, Handle
  <1> QED
    BY <1>4, <1>5, <1>6 DEF RecvPacketIn

LEMMA EveryExchange ==
  ASSUME TypeOK, Next
  PROVE  \E s \in Sockets, m \in ToController, out \in Seq(ToSwitch) :
           \E k \in 0 .. Len(out) : Exchange(s, m, out, k)
  <1> PICK s \in Sockets :
        \/ RecvHello(s)
        \/ RecvFeaturesReply(s)
        \/ \E x \in EchoXids : RecvEchoRequest(s, x)
        \/ \E type \in {"PORT_STATUS", "OTHER"} : RecvIgnored(s, type)
        \/ RecvNoMatch(s)
        \/ \E m \in PacketIn : RecvPacketIn(s, m)
    BY DEF Next
  <1>1. CASE \E m \in PacketIn : RecvPacketIn(s, m)
    BY <1>1, PacketInExchange, PacketInTyped
  <1>2. CASE ~ \E m \in PacketIn : RecvPacketIn(s, m)
    BY <1>2, OtherExchange
  <1> QED
    BY <1>1, <1>2

(* What s has been sent after it.                                          *)
LEMMA SentAfter ==
  ASSUME TypeOK, NEW s \in Sockets, NEW out \in Seq(ToSwitch), NEW k \in 0 .. Len(out),
         sent' = [sent EXCEPT ![s] = @ \o SubSeq(out, 1, k)]
  PROVE  /\ Len(sent[s]) \in Nat /\ Len(sent'[s]) = Len(sent[s]) + k
         /\ \A i \in 1 .. Len(sent[s]) : sent'[s][i] = sent[s][i]
         /\ \A i \in 1 .. k : sent'[s][Len(sent[s]) + i] = out[i]
         /\ \A t \in Sockets \ {s} : sent'[t] = sent[t]
         /\ \A t \in Sockets : /\ DOMAIN sent[t] = 1 .. Len(sent[t])
                               /\ DOMAIN sent'[t] = 1 .. Len(sent'[t])
  <1> DEFINE part == SubSeq(out, 1, k)
  <1>1. /\ part \in Seq(ToSwitch) /\ Len(part) = k
        /\ \A i \in 1 .. k : part[i] = out[i]
    <2>1. Len(out) \in Nat /\ \A i \in 1 .. k : out[i] \in ToSwitch
      OBVIOUS
    <2>2. /\ part \in Seq(ToSwitch) /\ Len(part) = IF 1 <= k THEN k - 1 + 1 ELSE 0
          /\ \A i \in 1 .. k - 1 + 1 : part[i] = out[1 + i - 1]
      BY <2>1, SubSeqProperties
    <2> HIDE DEF part
    <2> QED
      BY <2>1, <2>2
  <1> HIDE DEF part
  <1>2. sent \in [Sockets -> Seq(ToSwitch)]
    BY DEF TypeOK
  <1>3. /\ sent[s] \o part \in Seq(ToSwitch)
        /\ Len(sent[s] \o part) = Len(sent[s]) + Len(part)
        /\ \A i \in 1 .. Len(sent[s]) + Len(part) :
             (sent[s] \o part)[i] = IF i <= Len(sent[s]) THEN sent[s][i]
                                    ELSE part[i - Len(sent[s])]
    <2> DEFINE old == sent[s]
    <2>1. old \in Seq(ToSwitch)
      BY <1>2
    <2> HIDE DEF old
    <2>2. /\ old \o part \in Seq(ToSwitch)
          /\ Len(old \o part) = Len(old) + Len(part)
          /\ \A i \in 1 .. Len(old) + Len(part) :
               (old \o part)[i] = IF i <= Len(old) THEN old[i] ELSE part[i - Len(old)]
      BY <1>1, <2>1, ConcatProperties
    <2> QED
      BY <2>2 DEF old
  <1>4. /\ sent'[s] = sent[s] \o part /\ sent' \in [Sockets -> Seq(ToSwitch)]
        /\ \A t \in Sockets \ {s} : sent'[t] = sent[t]
    BY <1>2, <1>3 DEF part
  <1>5. Len(sent[s]) \in Nat
    BY <1>2
  <1>6. \A i \in 1 .. k : sent'[s][Len(sent[s]) + i] = out[i]
    <2> SUFFICES ASSUME NEW i \in 1 .. k PROVE sent'[s][Len(sent[s]) + i] = out[i]
      OBVIOUS
    <2>1. Len(sent[s]) + i \in 1 .. Len(sent[s]) + Len(part) /\ ~ Len(sent[s]) + i <= Len(sent[s])
      BY <1>1, <1>5
    <2>2. (Len(sent[s]) + i) - Len(sent[s]) = i
      BY <1>5
    <2> QED
      BY <1>1, <1>3, <1>4, <2>1, <2>2
  <1> QED
    BY <1>1, <1>2, <1>3, <1>4, <1>5, <1>6

---------------------------------------------------------------------------
(* Where a host was heard first *)

HeardIn(r, t, mac) ==
  {i \in DOMAIN r : /\ r[i].socket = t
                    /\ r[i].msg.type = "PACKET_IN" /\ r[i].msg.reason = "ACTION"
                    /\ r[i].msg.frame.src = mac}

LEMMA PacketInIs ==
  ASSUME NEW m \in ToController
  PROVE  m \in PacketIn <=> m.type = "PACKET_IN" /\ m.reason = "ACTION"
  BY DEF ToController, PacketIn, NoMatch

Teaches(new, t, mac) ==
  new.msg \in PacketIn /\ new.socket = t /\ new.msg.frame.src = mac

LEMMA HeardAfter ==
  ASSUME NEW r \in Seq(Arrivals), NEW new \in Arrivals,
         NEW t \in Sockets, NEW mac \in Macs,
         NEW after \in Seq(Arrivals), after = Append(r, new)
  PROVE  /\ Len(r) \in Nat
         /\ HeardIn(r, t, mac) \subseteq 1 .. Len(r)
         /\ Teaches(new, t, mac) => HeardIn(after, t, mac) = HeardIn(r, t, mac) \cup {Len(r) + 1}
         /\ ~ Teaches(new, t, mac) => HeardIn(after, t, mac) = HeardIn(r, t, mac)
         /\ \A i \in 1 .. Len(r) : after[i] = r[i]
         /\ after[Len(r) + 1] = new
  <1> DEFINE n == Len(r)
  <1> DEFINE s == new.socket
  <1> DEFINE m == new.msg
  <1>1. m \in ToController
    BY DEF Arrivals
  <1> HIDE DEF m, s
  <1>2. n \in Nat /\ DOMAIN r = 1 .. n
    OBVIOUS
  <1>3. /\ DOMAIN after = 1 .. n + 1 /\ after[n + 1] = new
        /\ \A i \in 1 .. n : after[i] = r[i]
    OBVIOUS
  <1>4. m \in PacketIn <=> m.type = "PACKET_IN" /\ m.reason = "ACTION"
    BY <1>1, PacketInIs
  <1> HIDE DEF n
  <1>5. HeardIn(r, t, mac) \subseteq 1 .. n
    BY <1>2 DEF HeardIn
  <1>6. \A i \in 1 .. n : i \in HeardIn(after, t, mac) <=> i \in HeardIn(r, t, mac)
    BY <1>2, <1>3 DEF HeardIn
  <1>7. n + 1 \in HeardIn(after, t, mac) <=> m \in PacketIn /\ s = t /\ m.frame.src = mac
    BY <1>2, <1>3, <1>4 DEF HeardIn, m, s
  <1>8. HeardIn(after, t, mac) \subseteq 1 .. n + 1 /\ n + 1 \notin 1 .. n
    BY <1>2, <1>3 DEF HeardIn
  <1>9. \A i \in 1 .. n + 1 : i \in 1 .. n \/ i = n + 1
    BY <1>2
  <1>10. HeardIn(after, t, mac) =
           IF m \in PacketIn /\ s = t /\ m.frame.src = mac
           THEN HeardIn(r, t, mac) \cup {n + 1} ELSE HeardIn(r, t, mac)
    <2> DEFINE A == HeardIn(after, t, mac)
    <2> DEFINE B == HeardIn(r, t, mac)
    <2>1. A \subseteq 1 .. n \cup {n + 1} /\ B \subseteq 1 .. n
      BY <1>5, <1>8, <1>9
    <2>2. \A i \in 1 .. n : i \in A <=> i \in B
      BY <1>6
    <2>3. n + 1 \in A <=> m \in PacketIn /\ s = t /\ m.frame.src = mac
      BY <1>7
    <2> DEFINE K == 1 .. n
    <2> DEFINE l == n + 1
    <2> HIDE DEF A, B, K, l
    <2>5. A \subseteq K \cup {l} /\ B \subseteq K /\ \A i \in K : i \in A <=> i \in B
      BY <2>1, <2>2 DEF K, l
    <2>6. CASE l \in A
      <3>1. A = B \cup {l}
        BY <2>5, <2>6
      <3> QED
        BY <2>3, <2>6, <3>1 DEF A, B, l
    <2>7. CASE l \notin A
      <3>1. A = B
        BY <2>5, <2>7
      <3> QED
        BY <2>3, <2>7, <3>1 DEF A, B, l
    <2> QED
      BY <2>6, <2>7
  <1> QED
    BY <1>2, <1>3, <1>5, <1>10 DEF n, m, s, Teaches

(* Where findPort says a host is, against what was heard of it.            *)
HeardFirst(list, r, t, mac) ==
  FindPort(list, t, mac) = IF HeardIn(r, t, mac) = {} THEN 0
                           ELSE r[Min(HeardIn(r, t, mac))].msg.in_port

LEMMA RoutesAre ==
  /\ RoutesAreFirstHeard <=> \A t \in Sockets, mac \in Macs : HeardFirst(ll, rcvd, t, mac)
  /\ RoutesAreFirstHeard' <=> \A t \in Sockets, mac \in Macs : HeardFirst(ll', rcvd', t, mac)
  BY DEF RoutesAreFirstHeard, HeardFirst, HeardIn, HeardAt

LEMMA LearnedIs ==
  ASSUME TypeOK, NEW s \in Sockets, NEW m \in PacketIn, NEW t \in Sockets, NEW mac \in Macs
  PROVE  /\ FindPort(Learned(s, m), t, mac) =
              IF t = s /\ mac = m.frame.src /\ FindPort(ll, t, mac) = 0 THEN m.in_port
              ELSE FindPort(ll, t, mac)
         /\ t # s => NodesOf(Learned(s, m), t) = NodesOf(ll, t)
  <1> DEFINE S == Sockets \cup {0}
  <1>1. /\ s \in S /\ ll \in Seq(RowsOf(S, PathNodes(Macs, Ports))) /\ ll # << >>
        /\ m.frame.src \in Macs /\ m.in_port \in Ports
    BY TypeOKIs, PacketInTyped DEF PathRows
  <1> HIDE DEF S
  <1>2. FindPort(Learned(s, m), t, mac) =
          IF t = s /\ mac = m.frame.src /\ ~ FindNode(ll, s, m.frame.src) THEN m.in_port
          ELSE FindPort(ll, t, mac)
    BY <1>1, FindPortAfter DEF Learned
  <1>3. FindPort(ll, t, mac) # 0 <=> FindNode(ll, t, mac)
    BY <1>1, PortsArePositive, FindPortIs
  <1>4. ASSUME t # s PROVE NodesOf(Learned(s, m), t) = NodesOf(ll, t)
    <2> DEFINE node == [to_mac |-> m.frame.src, port |-> m.in_port]
    <2>1. node \in PathNodes(Macs, Ports)
      BY <1>1 DEF PathNodes
    <2>2. Learned(s, m) \in {ll, PushNode(ll, s, node)}
      BY DEF Learned, AddPathNode
    <2> HIDE DEF node
    <2>3. /\ PushNode(ll, s, node) \in Seq(RowsOf(S, PathNodes(Macs, Ports)))
          /\ PushNode(ll, s, node) # << >>
          /\ NodesOf(PushNode(ll, s, node), s) = <<node>> \o NodesOf(ll, s)
          /\ \A u : u # s => NodesOf(PushNode(ll, s, node), u) = NodesOf(ll, u)
          /\ OneRowEach(ll) => OneRowEach(PushNode(ll, s, node))
      BY <1>1, <2>1, PushNodeIs
    <2> QED
      BY <1>4, <2>2, <2>3
  <1> QED
    BY <1>2, <1>3, <1>4

LEMMA RoutesStep ==
  ASSUME TypeOK, NEW s \in Sockets, NEW m \in ToController, NEW out \in Seq(ToSwitch),
         NEW k \in 0 .. Len(out), Exchange(s, m, out, k),
         NEW t \in Sockets, NEW mac \in Macs, HeardFirst(ll, rcvd, t, mac)
  PROVE  HeardFirst(ll', rcvd', t, mac)
  <1> DEFINE H == HeardIn(rcvd, t, mac)
  <1> DEFINE G == HeardIn(rcvd', t, mac)
  <1> DEFINE n == Len(rcvd)
  <1>1. rcvd \in Seq(Arrivals) /\ rcvd' = Append(rcvd, [socket |-> s, msg |-> m])
    BY TypeOKIs DEF Exchange
  <1>2. /\ n \in Nat /\ H \subseteq 1 .. n
        /\ G = IF m \in PacketIn /\ t = s /\ m.frame.src = mac THEN H \cup {n + 1} ELSE H
        /\ \A i \in 1 .. n : rcvd'[i] = rcvd[i]
        /\ rcvd'[n + 1].msg = m
    <2> DEFINE after == rcvd'
    <2> DEFINE new == [socket |-> s, msg |-> m]
    <2>1. new \in Arrivals /\ new.socket = s /\ new.msg = m
      BY DEF Arrivals
    <2> HIDE DEF new
    <2>2. after = Append(rcvd, new) /\ after \in Seq(Arrivals)
      BY <1>1, <2>1 DEF new
    <2> HIDE DEF after
    <2> DEFINE r == rcvd
    <2>3. r \in Seq(Arrivals) /\ after = Append(r, new)
      BY <1>1, <2>2
    <2> HIDE DEF r
    <2>4. /\ Len(r) \in Nat
          /\ HeardIn(r, t, mac) \subseteq 1 .. Len(r)
          /\ Teaches(new, t, mac) =>
               HeardIn(after, t, mac) = HeardIn(r, t, mac) \cup {Len(r) + 1}
          /\ ~ Teaches(new, t, mac) => HeardIn(after, t, mac) = HeardIn(r, t, mac)
          /\ \A i \in 1 .. Len(r) : after[i] = r[i]
          /\ after[Len(r) + 1] = new
      BY <2>1, <2>2, <2>3, HeardAfter
    <2> QED
      BY <2>1, <2>4 DEF after, r, Teaches
  <1>3. FindPort(ll, t, mac) = IF H = {} THEN 0 ELSE rcvd[Min(H)].msg.in_port
    BY DEF HeardFirst
  <1>4. H # {} => rcvd[Min(H)].msg.in_port \in Ports /\ Min(H) \in 1 .. n
    <2> SUFFICES ASSUME H # {} PROVE rcvd[Min(H)].msg.in_port \in Ports /\ Min(H) \in 1 .. n
      OBVIOUS
    <2>1. Min(H) \in H /\ Min(H) \in 1 .. n
      BY <1>2, FirstPosition
    <2>2. rcvd[Min(H)].msg \in ToController
      <3> DEFINE i == Min(H)
      <3>1. i \in 1 .. Len(rcvd)
        BY <2>1
      <3> HIDE DEF i
      <3>2. rcvd[i] \in Arrivals
        BY <1>1, <3>1
      <3> QED
        BY <3>2 DEF Arrivals, i
    <2>3. rcvd[Min(H)].msg \in PacketIn
      BY <2>1, <2>2, PacketInIs DEF HeardIn
    <2> QED
      BY <2>1, <2>3, PacketInTyped
  <1>5. FindPort(ll, t, mac) = 0 <=> H = {}
    BY <1>3, <1>4, PortsArePositive
  <1> SUFFICES FindPort(ll', t, mac) = IF G = {} THEN 0 ELSE rcvd'[Min(G)].msg.in_port
    BY DEF HeardFirst
  <1> HIDE DEF H, G, n
  <1>6. CASE m \notin PacketIn
    <2>1. ll' = ll /\ G = H
      BY <1>2, <1>6 DEF Exchange
    <2> QED
      BY <1>2, <1>3, <1>4, <2>1
  <1>7. CASE m \in PacketIn
    <2>1. FindPort(ll', t, mac) =
            IF t = s /\ mac = m.frame.src /\ FindPort(ll, t, mac) = 0 THEN m.in_port
            ELSE FindPort(ll, t, mac)
      BY <1>7, LearnedIs DEF Exchange
    <2>2. CASE t = s /\ m.frame.src = mac
      <3>1. G = H \cup {n + 1}
        BY <1>2, <1>7, <2>2
      <3>2. Min(G) = IF H = {} THEN n + 1 ELSE Min(H)
        BY <1>2, <3>1, EarlierStaysFirst
      <3>3. G # {}
        BY <3>1
      <3> QED
        BY <1>2, <1>3, <1>4, <1>5, <2>1, <2>2, <3>2, <3>3
    <2>3. CASE ~ (t = s /\ m.frame.src = mac)
      <3>1. G = H
        BY <1>2, <2>3
      <3> QED
        BY <1>2, <1>3, <1>4, <2>1, <2>3, <3>1
    <2> QED
      BY <2>2, <2>3
  <1> QED
    BY <1>6, <1>7

LEMMA RoutesInit == Init => RoutesAreFirstHeard
  <1> SUFFICES ASSUME Init, NEW t \in Sockets, NEW mac \in Macs
               PROVE  HeardFirst(ll, rcvd, t, mac)
    BY RoutesAre
  <1>1. HeardIn(rcvd, t, mac) = {}
    BY DEF HeardIn, Init
  <1>2. ~ FindNode(ll, t, mac)
    <2>1. ZeroRow \in Seq(RowsOf({0}, {})) /\ Len(ZeroRow) = 1 /\ ZeroRow[1].socket = 0
      BY DEF ZeroRow, RowsOf
    <2>2. /\ Row(ZeroRow, t) \in 0 .. Len(ZeroRow)
          /\ Row(ZeroRow, t) # 0 => ZeroRow[Row(ZeroRow, t)].socket = t
      BY <2>1, RowIs
    <2>3. Row(ZeroRow, t) = 0
      BY <2>1, <2>2, ConstantsOK
    <2> QED
      BY <2>3 DEF FindNode, NodesOf, Init
  <1>3. ll \in Seq(RowsOf(Sockets \cup {0}, PathNodes(Macs, Ports)))
    BY TypeInit, TypeOKIs DEF PathRows
  <1>4. FindPort(ll, t, mac) = 0
    BY <1>2, <1>3, PortsArePositive, FindPortIs
  <1> QED
    BY <1>1, <1>4 DEF HeardFirst

LEMMA RoutesKept == TypeOK /\ RoutesAreFirstHeard /\ [Next]_vars => RoutesAreFirstHeard'
  <1> SUFFICES ASSUME TypeOK, RoutesAreFirstHeard, [Next]_vars PROVE RoutesAreFirstHeard'
    OBVIOUS
  <1>1. CASE UNCHANGED vars
    BY <1>1 DEF vars, RoutesAreFirstHeard, HeardAt
  <1>2. CASE Next
    <2>1. PICK s \in Sockets, m \in ToController, out \in Seq(ToSwitch) :
            \E k \in 0 .. Len(out) : Exchange(s, m, out, k)
      BY <1>2, EveryExchange
    <2>2. PICK k \in 0 .. Len(out) : Exchange(s, m, out, k)
      BY <2>1
    <2>3. \A t \in Sockets, mac \in Macs : HeardFirst(ll', rcvd', t, mac)
      BY <2>2, RoutesAre, RoutesStep
    <2> QED
      BY <2>3, RoutesAre
  <1> QED
    BY <1>1, <1>2

(* findPort always answers the port on which a host was heard first at the *)
(* switch, however many messages of however many switches came since.      *)
THEOREM RoutesStayFirstHeard == Spec => []RoutesAreFirstHeard
  BY TypeInit, TypeStep, RoutesInit, RoutesKept, PTL DEF Spec

---------------------------------------------------------------------------
(* What the switches were told *)

(* A message heard stays heard, at its place.                              *)
LEMMA HeardStays ==
  ASSUME TypeOK, NEW s \in Sockets, NEW m \in ToController,
         rcvd' = Append(rcvd, [socket |-> s, msg |-> m])
  PROVE  /\ Len(rcvd) \in Nat
         /\ rcvd' \in Seq(Arrivals) /\ Len(rcvd') = Len(rcvd) + 1
         /\ \A i \in 1 .. Len(rcvd) : rcvd'[i] = rcvd[i]
         /\ rcvd'[Len(rcvd) + 1].socket = s /\ rcvd'[Len(rcvd) + 1].msg = m
         /\ \A t, mac : HeardIn(rcvd, t, mac) \subseteq HeardIn(rcvd', t, mac) \cap 1 .. Len(rcvd)
  <1> DEFINE new == [socket |-> s, msg |-> m]
  <1>1. rcvd \in Seq(Arrivals) /\ new \in Arrivals /\ new.socket = s /\ new.msg = m
    BY TypeOKIs DEF Arrivals
  <1> HIDE DEF new
  <1>2. rcvd' = Append(rcvd, new)
    BY DEF new
  <1>3. /\ Len(rcvd) \in Nat /\ DOMAIN rcvd = 1 .. Len(rcvd)
        /\ rcvd' \in Seq(Arrivals) /\ Len(rcvd') = Len(rcvd) + 1
        /\ DOMAIN rcvd' = 1 .. Len(rcvd) + 1
        /\ \A i \in 1 .. Len(rcvd) : rcvd'[i] = rcvd[i]
        /\ rcvd'[Len(rcvd) + 1] = new
    BY <1>1, <1>2
  <1> QED
    BY <1>1, <1>3 DEF HeardIn

(* A flow told to a switch leads where a frame from its destination came   *)
(* from, or to port 0.                                                     *)
Heard(r, t, mac, port) == \E j \in HeardIn(r, t, mac) : r[j].msg.in_port = port

LEMMA HeardPortsAre ==
  /\ FlowPortWasHeard <=>
       \A t \in Sockets : \A i \in DOMAIN sent[t] :
         sent[t][i].type = "FLOW_MOD" =>
           sent[t][i].port = 0 \/ Heard(rcvd, t, sent[t][i].dl_dst, sent[t][i].port)
  /\ FlowPortWasHeard' <=>
       \A t \in Sockets : \A i \in DOMAIN sent'[t] :
         sent'[t][i].type = "FLOW_MOD" =>
           sent'[t][i].port = 0 \/ Heard(rcvd', t, sent'[t][i].dl_dst, sent'[t][i].port)
  BY DEF FlowPortWasHeard, Heard, HeardIn, HeardAt

(* The flows of one answer.                                                *)
LEMMA AnswerWasHeard ==
  ASSUME TypeOK, RoutesAreFirstHeard', NEW s \in Sockets, NEW m \in ToController,
         NEW out \in Seq(ToSwitch), NEW k \in 0 .. Len(out), Exchange(s, m, out, k),
         NEW i \in 1 .. Len(out), out[i].type = "FLOW_MOD"
  PROVE  out[i].port = 0 \/ Heard(rcvd', s, out[i].dl_dst, out[i].port)
  <1> DEFINE dst == out[i].dl_dst
  <1>1. dst \in Macs
    <2>1. out[i] \in ToSwitch
      OBVIOUS
    <2> QED
      BY <2>1 DEF ToSwitch, Headers, FlowMods, PacketOuts
  <1>2. /\ Len(rcvd) \in Nat
        /\ rcvd' \in Seq(Arrivals) /\ Len(rcvd') = Len(rcvd) + 1
        /\ rcvd'[Len(rcvd) + 1].socket = s /\ rcvd'[Len(rcvd) + 1].msg = m
    BY HeardStays DEF Exchange
  <1>3. \/ m \in PacketIn /\ dst = m.frame.src /\ out[i].port = m.in_port
        \/ out[i].port = FindPort(ll', s, dst)
    BY DEF Exchange, Answer
  <1> HIDE DEF dst
  <1>4. CASE m \in PacketIn /\ dst = m.frame.src /\ out[i].port = m.in_port
    <2>1. m.type = "PACKET_IN" /\ m.reason = "ACTION"
      BY <1>4, PacketInIs
    <2>2. Len(rcvd) + 1 \in DOMAIN rcvd'
      BY <1>2
    <2>3. Len(rcvd) + 1 \in HeardIn(rcvd', s, dst)
      BY <1>2, <1>4, <2>1, <2>2 DEF HeardIn
    <2>4. rcvd'[Len(rcvd) + 1].msg.in_port = out[i].port
      BY <1>2, <1>4
    <2> QED
      BY <2>3, <2>4 DEF Heard, dst
  <1>5. CASE out[i].port = FindPort(ll', s, dst)
    <2> DEFINE H == HeardIn(rcvd', s, dst)
    <2>1. FindPort(ll', s, dst) = IF H = {} THEN 0 ELSE rcvd'[Min(H)].msg.in_port
      BY <1>1, RoutesAre DEF HeardFirst
    <2>2. H \in SUBSET (1 .. Len(rcvd) + 1) /\ Len(rcvd) + 1 \in Nat
      BY <1>2 DEF HeardIn
    <2> HIDE DEF H
    <2>3. H # {} => Min(H) \in H
      BY <2>2, FirstPosition
    <2>4. H # {} => out[i].port = rcvd'[Min(H)].msg.in_port
      BY <1>5, <2>1
    <2>5. H = {} => out[i].port = 0
      BY <1>5, <2>1
    <2> QED
      BY <2>3, <2>4, <2>5 DEF Heard, H, dst
  <1> QED
    BY <1>3, <1>4, <1>5

(* The first k messages of out go to s, and nothing else is sent.          *)
Sends(s, out, k) == sent' = [sent EXCEPT ![s] = @ \o SubSeq(out, 1, k)]

(* A message of sent'[t] was there before or is one of the answer.         *)
LEMMA SentIs ==
  ASSUME TypeOK, NEW s \in Sockets, NEW out \in Seq(ToSwitch), NEW k \in 0 .. Len(out),
         Sends(s, out, k), NEW t \in Sockets, NEW i \in DOMAIN sent'[t]
  PROVE  \/ i \in DOMAIN sent[t] /\ sent'[t][i] = sent[t][i]
         \/ t = s /\ \E j \in 1 .. k : i = Len(sent[s]) + j /\ sent'[t][i] = out[j]
  <1>1. /\ Len(sent[s]) \in Nat /\ Len(sent'[s]) = Len(sent[s]) + k
        /\ \A j \in 1 .. Len(sent[s]) : sent'[s][j] = sent[s][j]
        /\ \A j \in 1 .. k : sent'[s][Len(sent[s]) + j] = out[j]
        /\ \A u \in Sockets \ {s} : sent'[u] = sent[u]
        /\ \A u \in Sockets : /\ DOMAIN sent[u] = 1 .. Len(sent[u])
                              /\ DOMAIN sent'[u] = 1 .. Len(sent'[u])
    BY SentAfter DEF Sends
  <1>2. CASE t # s
    BY <1>1, <1>2
  <1>3. CASE t = s /\ i \in 1 .. Len(sent[s])
    BY <1>1, <1>3
  <1>4. CASE t = s /\ i \notin 1 .. Len(sent[s])
    <2> DEFINE j == i - Len(sent[s])
    <2>1. j \in 1 .. k /\ i = Len(sent[s]) + j
      BY <1>1, <1>4
    <2> HIDE DEF j
    <2> QED
      BY <1>1, <1>4, <2>1
  <1> QED
    BY <1>2, <1>3, <1>4

LEMMA HeardPortsKept ==
  TypeOK /\ RoutesAreFirstHeard' /\ FlowPortWasHeard /\ [Next]_vars => FlowPortWasHeard'
  <1> SUFFICES ASSUME TypeOK, RoutesAreFirstHeard', FlowPortWasHeard, [Next]_vars
               PROVE  FlowPortWasHeard'
    OBVIOUS
  <1>1. CASE UNCHANGED vars
    BY <1>1 DEF vars, FlowPortWasHeard, HeardAt
  <1>2. CASE Next
    <2>1. PICK s \in Sockets, m \in ToController, out \in Seq(ToSwitch) :
            \E k \in 0 .. Len(out) : Exchange(s, m, out, k)
      BY <1>2, EveryExchange
    <2>2. PICK k \in 0 .. Len(out) : Exchange(s, m, out, k)
      BY <2>1
    <2> SUFFICES ASSUME NEW t \in Sockets, NEW i \in DOMAIN sent'[t],
                        sent'[t][i].type = "FLOW_MOD"
                 PROVE  \/ sent'[t][i].port = 0
                        \/ Heard(rcvd', t, sent'[t][i].dl_dst, sent'[t][i].port)
      BY HeardPortsAre
    <2>3. CASE i \in DOMAIN sent[t] /\ sent'[t][i] = sent[t][i]
      <3> DEFINE f == sent[t][i]
      <3>1. f.port = 0 \/ Heard(rcvd, t, f.dl_dst, f.port)
        BY <2>3, HeardPortsAre
      <3> HIDE DEF f
      <3>2. /\ \A u, mac : HeardIn(rcvd, u, mac) \subseteq HeardIn(rcvd', u, mac) \cap 1 .. Len(rcvd)
            /\ \A j \in 1 .. Len(rcvd) : rcvd'[j] = rcvd[j]
        BY <2>2, HeardStays DEF Exchange
      <3>3. f.port = 0 \/ Heard(rcvd', t, f.dl_dst, f.port)
        BY <3>1, <3>2 DEF Heard
      <3> QED
        BY <2>3, <3>3 DEF f
    <2>4. CASE t = s /\ \E j \in 1 .. k : i = Len(sent[s]) + j /\ sent'[t][i] = out[j]
      <3> PICK j \in 1 .. k : sent'[t][i] = out[j]
        BY <2>4
      <3>1. j \in 1 .. Len(out)
        OBVIOUS
      <3>2. out[j].port = 0 \/ Heard(rcvd', s, out[j].dl_dst, out[j].port)
        BY <2>2, <3>1, AnswerWasHeard
      <3> QED
        BY <2>4, <3>2
    <2>10. Sends(s, out, k)
      BY <2>2 DEF Exchange, Sends
    <2> QED
      BY <2>10, <2>3, <2>4, SentIs
  <1> QED
    BY <1>1, <1>2

(* No switch is ever told to send frames for a host out of a port on which *)
(* it has not heard from it: port 0, for a host never heard, is the only   *)
(* exception (establishFlows and sendLoopFlow, over all interleavings of   *)
(* the switches' messages).                                                *)
THEOREM FlowPortsWereHeard == Spec => []FlowPortWasHeard
  <1>1. Init => FlowPortWasHeard
    BY DEF Init, FlowPortWasHeard
  <1> QED
    BY <1>1, TypeInit, TypeStep, RoutesInit, RoutesKept, HeardPortsKept, PTL DEF Spec

---------------------------------------------------------------------------
(* Flows against flows and frames *)

LEMMA TableOutsKept == TypeOK /\ TableOutHasFlow /\ [Next]_vars => TableOutHasFlow'
  <1> SUFFICES ASSUME TypeOK, TableOutHasFlow, [Next]_vars PROVE TableOutHasFlow'
    OBVIOUS
  <1>1. CASE UNCHANGED vars
    BY <1>1 DEF vars, TableOutHasFlow, FlowModsAt
  <1>2. CASE Next
    <2>1. PICK s \in Sockets, m \in ToController, out \in Seq(ToSwitch) :
            \E k \in 0 .. Len(out) : Exchange(s, m, out, k)
      BY <1>2, EveryExchange
    <2>2. PICK k \in 0 .. Len(out) : Exchange(s, m, out, k)
      BY <2>1
    <2>3. /\ Len(sent[s]) \in Nat /\ Len(sent'[s]) = Len(sent[s]) + k
          /\ \A j \in 1 .. Len(sent[s]) : sent'[s][j] = sent[s][j]
          /\ \A j \in 1 .. k : sent'[s][Len(sent[s]) + j] = out[j]
          /\ \A u \in Sockets \ {s} : sent'[u] = sent[u]
          /\ \A u \in Sockets : /\ DOMAIN sent[u] = 1 .. Len(sent[u])
                                /\ DOMAIN sent'[u] = 1 .. Len(sent'[u])
      BY <2>2, SentAfter DEF Exchange
    <2> SUFFICES ASSUME NEW t \in Sockets, NEW i \in DOMAIN sent'[t],
                        sent'[t][i].type = "PACKET_OUT", sent'[t][i].port = OFPP_TABLE
                 PROVE  \E j \in DOMAIN sent'[t] :
                          /\ Matches(sent'[t][j], sent'[t][i].frame.dst, sent'[t][i].frame.src)
                          /\ j < i
      BY DEF TableOutHasFlow, FlowModsAt, Matches
    <2>4. CASE i \in DOMAIN sent[t] /\ sent'[t][i] = sent[t][i]
      <3>1. \E j \in DOMAIN sent[t] :
              /\ Matches(sent[t][j], sent[t][i].frame.dst, sent[t][i].frame.src) /\ j < i
        BY <2>4 DEF TableOutHasFlow, FlowModsAt, Matches
      <3> PICK j \in DOMAIN sent[t] :
              /\ Matches(sent[t][j], sent[t][i].frame.dst, sent[t][i].frame.src) /\ j < i
        BY <3>1
      <3>2. j \in DOMAIN sent'[t] /\ sent'[t][j] = sent[t][j]
        BY <2>3
      <3> QED
        BY <2>4, <3>2
    <2>5. CASE t = s /\ \E j \in 1 .. k : i = Len(sent[s]) + j /\ sent'[t][i] = out[j]
      <3> PICK j \in 1 .. k : i = Len(sent[s]) + j /\ sent'[t][i] = out[j]
        BY <2>5
      <3>1. j \in 1 .. Len(out) /\ out[j].type = "PACKET_OUT" /\ out[j].port = OFPP_TABLE
        OBVIOUS
      <3>2. \E l \in 1 .. j - 1 : Matches(out[l], out[j].frame.dst, out[j].frame.src)
        BY <2>2, <3>1 DEF Exchange, Answer
      <3> PICK l \in 1 .. j - 1 : Matches(out[l], out[j].frame.dst, out[j].frame.src)
        BY <3>2
      <3> DEFINE x == Len(sent[s]) + l
      <3>3. x \in 1 .. Len(sent'[s]) /\ x < i /\ l \in 1 .. k
        BY <2>3
      <3>4. sent'[s][x] = out[l]
        BY <2>3, <3>3
      <3> HIDE DEF x
      <3> QED
        BY <2>3, <2>5, <3>3, <3>4
    <2>10. Sends(s, out, k)
      BY <2>2 DEF Exchange, Sends
    <2> QED
      BY <2>10, <2>4, <2>5, SentIs
  <1> QED
    BY <1>1, <1>2

(* No switch is ever handed a frame for its flow table before the flow     *)
(* that frame is to match, even when the process dies in the middle of an  *)
(* answer (handlePacketIn: establishFlows before makeSendPacketOut).       *)
THEOREM TableOutsHaveFlows == Spec => []TableOutHasFlow
  <1>1. Init => TableOutHasFlow
    BY DEF Init, TableOutHasFlow
  <1> QED
    BY <1>1, TypeInit, TypeStep, TableOutsKept, PTL DEF Spec

LEMMA PairsKept == TypeOK /\ FlowsComeInPairs /\ [Next]_vars => FlowsComeInPairs'
  <1> SUFFICES ASSUME TypeOK, FlowsComeInPairs, [Next]_vars PROVE FlowsComeInPairs'
    OBVIOUS
  <1>1. CASE UNCHANGED vars
    BY <1>1 DEF vars, FlowsComeInPairs, FlowModsAt
  <1>2. CASE Next
    <2>1. PICK s \in Sockets, m \in ToController, out \in Seq(ToSwitch) :
            \E k \in 0 .. Len(out) : Exchange(s, m, out, k)
      BY <1>2, EveryExchange
    <2>2. PICK k \in 0 .. Len(out) : Exchange(s, m, out, k)
      BY <2>1
    <2>3. /\ Len(sent[s]) \in Nat /\ Len(sent'[s]) = Len(sent[s]) + k
          /\ \A j \in 1 .. Len(sent[s]) : sent'[s][j] = sent[s][j]
          /\ \A j \in 1 .. k : sent'[s][Len(sent[s]) + j] = out[j]
          /\ \A u \in Sockets \ {s} : sent'[u] = sent[u]
          /\ \A u \in Sockets : /\ DOMAIN sent[u] = 1 .. Len(sent[u])
                                /\ DOMAIN sent'[u] = 1 .. Len(sent'[u])
      BY <2>2, SentAfter DEF Exchange
    <2> SUFFICES ASSUME up', NEW t \in Sockets, NEW i \in DOMAIN sent'[t],
                        sent'[t][i].type = "FLOW_MOD"
                 PROVE  \E j \in DOMAIN sent'[t] :
                          Matches(sent'[t][j], sent'[t][i].dl_src, sent'[t][i].dl_dst)
      BY DEF FlowsComeInPairs, FlowModsAt, Matches
    <2>4. CASE i \in DOMAIN sent[t] /\ sent'[t][i] = sent[t][i]
      <3>1. \E j \in DOMAIN sent[t] : Matches(sent[t][j], sent[t][i].dl_src, sent[t][i].dl_dst)
        BY <2>2, <2>4 DEF Exchange, FlowsComeInPairs, FlowModsAt, Matches
      <3> PICK j \in DOMAIN sent[t] : Matches(sent[t][j], sent[t][i].dl_src, sent[t][i].dl_dst)
        BY <3>1
      <3>2. j \in DOMAIN sent'[t] /\ sent'[t][j] = sent[t][j]
        <4>1. CASE t = s
          <5> DEFINE n == Len(sent[s])
          <5>1. n \in Nat /\ j \in 1 .. n /\ Len(sent'[s]) = n + k
            BY <2>3, <4>1
          <5>2. DOMAIN sent'[s] = 1 .. Len(sent'[s]) /\ sent'[s][j] = sent[s][j]
            BY <2>3, <5>1
          <5> HIDE DEF n
          <5>3. j \in 1 .. n + k
            BY <5>1
          <5> QED
            BY <4>1, <5>1, <5>2, <5>3
        <4>2. CASE t # s
          BY <2>3, <4>2
        <4> QED
          BY <4>1, <4>2
      <3> QED
        BY <2>4, <3>2
    <2>5. CASE t = s /\ \E j \in 1 .. k : i = Len(sent[s]) + j /\ sent'[t][i] = out[j]
      <3> PICK j \in 1 .. k : i = Len(sent[s]) + j /\ sent'[t][i] = out[j]
        BY <2>5
      <3>1. j \in 1 .. Len(out) /\ out[j].type = "FLOW_MOD" /\ k = Len(out)
        BY <2>2, <2>5 DEF Exchange
      <3>2. \E l \in 1 .. k : Matches(out[l], out[j].dl_src, out[j].dl_dst)
        BY <2>2, <3>1 DEF Exchange, Answer
      <3> PICK l \in 1 .. k : Matches(out[l], out[j].dl_src, out[j].dl_dst)
        BY <3>2
      <3> DEFINE x == Len(sent[s]) + l
      <3>3. x \in 1 .. Len(sent'[s])
        BY <2>3
      <3>4. sent'[s][x] = out[l]
        BY <2>3
      <3> HIDE DEF x
      <3> QED
        BY <2>3, <2>5, <3>3, <3>4
    <2>10. Sends(s, out, k)
      BY <2>2 DEF Exchange, Sends
    <2> QED
      BY <2>10, <2>4, <2>5, SentIs
  <1> QED
    BY <1>1, <1>2

(* While the process runs every switch that was told one direction of a    *)
(* connection was told the other (establishFlows, sendLoopFlow).           *)
THEOREM FlowsStayPaired == Spec => []FlowsComeInPairs
  <1>1. Init => FlowsComeInPairs
    BY DEF Init, FlowsComeInPairs
  <1> QED
    BY <1>1, TypeInit, TypeStep, PairsKept, PTL DEF Spec

(* A step of the process that hands a switch nothing leaves the hosts and  *)
(* the flows known for it as they are: no switch disturbs another.         *)
THEOREM SwitchesAreIsolated == Spec => SwitchIsolation
  <1> DEFINE Alone(t) == NodesOf(ll', t) = NodesOf(ll, t) /\ NodesOf(flows', t) = NodesOf(flows, t)
  <1>1. ASSUME TypeOK, Next, up', NEW t \in Sockets, sent'[t] = sent[t] PROVE Alone(t)
    <2>1. PICK s \in Sockets, m \in ToController, out \in Seq(ToSwitch) :
            \E k \in 0 .. Len(out) : Exchange(s, m, out, k)
      BY <1>1, EveryExchange
    <2>2. PICK k \in 0 .. Len(out) : Exchange(s, m, out, k)
      BY <2>1
    <2>3. CASE m \notin PacketIn
      BY <2>2, <2>3 DEF Exchange
    <2>4. CASE m \in PacketIn /\ t # s
      <3>1. NodesOf(Learned(s, m), t) = NodesOf(ll, t)
        <4> PICK mac \in Macs : TRUE
          BY ConstantsOK
        <4> QED
          BY <1>1, <2>4, LearnedIs
      <3> QED
        BY <2>2, <2>4, <3>1 DEF Exchange
    <2>5. CASE m \in PacketIn /\ t = s
      <3>1. k = Len(out) /\ out # << >>
        BY <1>1, <2>2, <2>5 DEF Exchange
      <3>2. Len(sent[s]) \in Nat /\ Len(sent'[s]) = Len(sent[s]) + k
        BY <1>1, <2>2, SentAfter DEF Exchange
      <3>3. k = 0
        BY <1>1, <2>5, <3>2
      <3>4. FALSE
        BY <3>1, <3>3, EmptySeq
      <3> QED
        BY <3>4
    <2> QED
      BY <2>3, <2>4, <2>5
  <1>2. TypeOK /\ [Next]_vars =>
          [up' => \A s \in Sockets : sent'[s] = sent[s] =>
             /\ NodesOf(ll', s) = NodesOf(ll, s)
             /\ NodesOf(flows', s) = NodesOf(flows, s)]_vars
    BY <1>1
  <1> QED
    BY <1>2, TypeCorrect, PTL DEF Spec, SwitchIsolation

LEMMA SavedAre ==
  /\ SavedFlowIsFirstSent <=> (up => \A t \in Sockets : SavedIs(flows, t, sent[t]))
  /\ SavedFlowIsFirstSent' <=> (up' => \A t \in Sockets : SavedIs(flows', t, sent'[t]))
  BY DEF SavedFlowIsFirstSent, SavedIs, SavedPort, PortSaved, FlowModsAt, PortTold, Told, Matches

LEMMA SavedInit == Init => SavedFlowIsFirstSent
  <1> SUFFICES ASSUME Init, NEW t \in Sockets, NEW d \in Macs, NEW c \in Macs
               PROVE  PortSaved(flows, t, d, c) = PortTold(sent[t], d, c)
    BY SavedAre DEF SavedIs
  <1>1. sent[t] = << >>
    BY DEF Init
  <1>2. PortTold(sent[t], d, c) = OFPP_NONE
    BY <1>1 DEF PortTold, Told
  <1>3. NodesOf(flows, t) = << >>
    <2>1. ZeroRow \in Seq(RowsOf({0}, {})) /\ Len(ZeroRow) = 1 /\ ZeroRow[1].socket = 0
      BY DEF ZeroRow, RowsOf
    <2>2. /\ Row(ZeroRow, t) \in 0 .. Len(ZeroRow)
          /\ Row(ZeroRow, t) # 0 => ZeroRow[Row(ZeroRow, t)].socket = t
      BY <2>1, RowIs
    <2>3. Row(ZeroRow, t) = 0
      BY <2>1, <2>2, ConstantsOK
    <2> QED
      BY <2>3 DEF NodesOf, Init
  <1>4. FindFlow(flows, t, d, c) = 0
    <2>1. FindFlow(flows, t, d, c) \in 0 .. Len(NodesOf(flows, t))
      BY TypeInit, TypeOKIs, FlowWalk
    <2> QED
      BY <1>3, <2>1
  <1> QED
    BY <1>2, <1>4 DEF PortSaved

LEMMA SavedKept == TypeOK /\ SavedFlowIsFirstSent /\ [Next]_vars => SavedFlowIsFirstSent'
  <1> SUFFICES ASSUME TypeOK, SavedFlowIsFirstSent, [Next]_vars PROVE SavedFlowIsFirstSent'
    OBVIOUS
  <1>1. CASE UNCHANGED vars
    <2>1. up' = up /\ flows' = flows /\ sent' = sent
      BY <1>1 DEF vars
    <2> QED
      BY <2>1, SavedAre
  <1>2. CASE Next
    <2>1. PICK s \in Sockets, m \in ToController, out \in Seq(ToSwitch) :
            \E k \in 0 .. Len(out) : Exchange(s, m, out, k)
      BY <1>2, EveryExchange
    <2>2. PICK k \in 0 .. Len(out) : Exchange(s, m, out, k)
      BY <2>1
    <2> SUFFICES ASSUME up', NEW t \in Sockets PROVE SavedIs(flows', t, sent'[t])
      BY SavedAre
    <2>3. SavedIs(flows, t, sent[t])
      BY <2>2, SavedAre DEF Exchange
    <2>4. sent \in [Sockets -> Seq(ToSwitch)]
      BY DEF TypeOK
    <2>5. CASE t = s
      <3>1. k = Len(out)
        BY <2>2 DEF Exchange
      <3>2. SubSeq(out, 1, k) = out
        BY <3>1, SubSeqFull
      <3>3. sent'[t] = sent[t] \o out
        BY <2>2, <2>4, <2>5, <3>2 DEF Exchange
      <3>4. sent[t] \in Seq(ToSwitch) /\ Saving(t, out)
        BY <2>2, <2>4, <2>5 DEF Exchange
      <3> QED
        BY <2>3, <3>3, <3>4 DEF Saving
    <2>6. CASE t # s
      <3>1. sent'[t] = sent[t] /\ NodesOf(flows', t) = NodesOf(flows, t)
        BY <2>2, <2>4, <2>6 DEF Exchange
      <3>2. \A d, c \in Macs : PortSaved(flows', t, d, c) = PortSaved(flows, t, d, c)
        BY <3>1 DEF PortSaved, FindFlow
      <3> QED
        BY <2>3, <3>1, <3>2 DEF SavedIs
    <2> QED
      BY <2>5, <2>6
  <1> QED
    BY <1>1, <1>2

(* While the process runs the local flow table holds exactly the flows the *)
(* switches were told of, each with the port of the first FLOW_MOD for it  *)
(* (establishFlows and sendLoopFlow against addFlowNode).                  *)
THEOREM SavedFlowsWereSent == Spec => []SavedFlowIsFirstSent
  BY TypeInit, TypeStep, SavedInit, SavedKept, PTL DEF Spec
---------------------------------------------------------------------------
(* Transaction ids *)

Asks(f) == f.type \in {"FEATURES_REQUEST", "BARRIER_REQUEST"}
Own(f) == f.type # "ECHO_REPLY"

(* The messages of out are numbered from xid on, which advances by n: past *)
(* every request, and past every message but a last one it may stop at.    *)
Numbered(out, n) ==
  \A i \in 1 .. Len(out) :
    Own(out[i]) => /\ out[i].xid = Xid(i - 1) /\ i - 1 <= n
                   /\ Asks(out[i]) => 1 < i /\ i <= n

(* One message received, the part of any handler that concerns xid.        *)
Numbers(s, out, n, k) ==
  /\ up /\ Len(rcvd) < MaxRx
  /\ \E r \in Arrivals : rcvd' = Append(rcvd, r)
  /\ Sends(s, out, k)
  /\ up' = (k = Len(out))
  /\ xid' = Xid(n)
  /\ Numbered(out, n)

LEMMA HandleNumbers ==
  ASSUME NEW s \in Sockets, NEW m \in ToController, NEW out, NEW n,
         Handle(s, m, out, n), Numbered(out, n)
  PROVE  \E k \in 0 .. Len(out) : Numbers(s, out, n, k)
  <1>1. [socket |-> s, msg |-> m] \in Arrivals
    BY DEF Arrivals
  <1> QED
    BY <1>1 DEF Handle, Numbers, Sends

LEMMA XidNow == TypeOK => xid = Xid(0) /\ \A n \in Nat : Xid(n) \in Xids
  <1> SUFFICES ASSUME TypeOK PROVE xid = Xid(0) /\ \A n \in Nat : Xid(n) \in Xids
    OBVIOUS
  <1>1. \A n \in Nat : Xid(n) \in Xids
    BY XidInRange DEF TypeOK
  <1>2. xid \in 0 .. XidMod - 1 /\ XidMod \in Nat \ {0}
    BY ConstantsOK DEF TypeOK, Xids
  <1>3. (xid + 0) % XidMod = xid
    BY <1>2
  <1> QED
    BY <1>1, <1>3 DEF Xid

LEMMA EveryNumbered ==
  ASSUME TypeOK, Next
  PROVE  \E s \in Sockets, out \in Seq(ToSwitch), n \in 0 .. 3 :
           \E k \in 0 .. Len(out) : Numbers(s, out, n, k)
  <1> SUFFICES \E s \in Sockets, m \in ToController, out \in Seq(ToSwitch), n \in 0 .. 3 :
                 Handle(s, m, out, n) /\ Numbered(out, n)
    BY HandleNumbers
  <1>0. PICK s \in Sockets :
          \/ RecvHello(s)
          \/ RecvFeaturesReply(s)
          \/ \E x \in EchoXids : RecvEchoRequest(s, x)
          \/ \E type \in {"PORT_STATUS", "OTHER"} : RecvIgnored(s, type)
          \/ RecvNoMatch(s)
          \/ \E m \in PacketIn : RecvPacketIn(s, m)
    BY DEF Next
  <1>1. xid = Xid(0) /\ xid \in Xids /\ Xid(1) \in Xids /\ Xid(2) \in Xids
    BY XidNow
  <1>2. << >> \in Seq(ToSwitch) /\ \A n : Numbered(<< >>, n)
    BY DEF Numbered
  <1>3. \A one \in ToSwitch, n \in 0 .. 3 :
          (Own(one) => one.xid = xid /\ ~ Asks(one)) => Numbered(<<one>>, n)
    <2> SUFFICES ASSUME NEW one \in ToSwitch, NEW n \in 0 .. 3,
                        Own(one) => one.xid = xid /\ ~ Asks(one)
                 PROVE  Numbered(<<one>>, n)
      OBVIOUS
    <2>1. Len(<<one>>) = 1 /\ <<one>>[1] = one /\ \A i \in 1 .. 1 : i = 1 /\ i - 1 = 0
      OBVIOUS
    <2> QED
      BY <1>1, <2>1 DEF Numbered
  <1>4. \A one, two \in ToSwitch :
          one.xid = xid /\ ~ Asks(one) /\ two.xid = Xid(1) => Numbered(<<one, two>>, 2)
    <2> SUFFICES ASSUME NEW one \in ToSwitch, NEW two \in ToSwitch,
                        one.xid = xid, ~ Asks(one), two.xid = Xid(1)
                 PROVE  Numbered(<<one, two>>, 2)
      OBVIOUS
    <2> DEFINE out == <<one, two>>
    <2>1. Len(out) = 2 /\ out[1] = one /\ out[2] = two
      OBVIOUS
    <2> HIDE DEF out
    <2>2. \A i \in 1 .. 2 : out[i].xid = Xid(i - 1) /\ i - 1 <= 2 /\ (Asks(out[i]) => 1 < i /\ i <= 2)
      <3> TAKE i \in 1 .. 2
      <3>1. CASE i = 1
        BY <1>1, <2>1, <3>1
      <3>2. CASE i = 2
        BY <2>1, <3>2
      <3> QED
        BY <3>1, <3>2
    <2>3. Numbered(out, 2)
      BY <2>1, <2>2 DEF Numbered
    <2> QED
      BY <2>3 DEF out
  <1>11. ASSUME NEW m \in ToController, NEW out \in Seq(ToSwitch), NEW n \in 0 .. 3,
                Handle(s, m, out, n), Numbered(out, n)
         PROVE  \E t \in Sockets, m_1 \in ToController, out_1 \in Seq(ToSwitch), n_1 \in 0 .. 3 :
                  Handle(t, m_1, out_1, n_1) /\ Numbered(out_1, n_1)
    BY <1>11
  <1>12. 0 \in 0 .. 3 /\ 1 \in 0 .. 3 /\ 2 \in 0 .. 3 /\ 3 \in 0 .. 3
    OBVIOUS
  <1>5. CASE RecvHello(s)
    <2> DEFINE one == Header("HELLO", xid)
    <2> DEFINE two == Header("FEATURES_REQUEST", Xid(1))
    <2> DEFINE m == [type |-> "HELLO"]
    <2>1. one \in ToSwitch /\ two \in ToSwitch /\ m \in ToController
      BY <1>1, MessagesTyped DEF ToController
    <2>2. one.xid = xid /\ ~ Asks(one) /\ two.xid = Xid(1)
      BY DEF Header, Asks
    <2>3. Handle(s, m, <<one, two>>, 2)
      BY <1>5 DEF RecvHello
    <2> HIDE DEF one, two, m
    <2>4. <<one, two>> \in Seq(ToSwitch) /\ Numbered(<<one, two>>, 2)
      BY <1>4, <2>1, <2>2
    <2> QED
      BY <2>1, <2>3, <2>4, <1>11, <1>12
  <1>6. CASE RecvFeaturesReply(s)
    <2> DEFINE one == Header("SET_CONFIG", xid)
    <2> DEFINE two == Header("BARRIER_REQUEST", Xid(1))
    <2> DEFINE m == [type |-> "FEATURES_REPLY"]
    <2>1. one \in ToSwitch /\ two \in ToSwitch /\ m \in ToController
      BY <1>1, MessagesTyped DEF ToController
    <2>2. one.xid = xid /\ ~ Asks(one) /\ two.xid = Xid(1)
      BY DEF Header, Asks
    <2>3. Handle(s, m, <<one, two>>, 2)
      BY <1>6 DEF RecvFeaturesReply
    <2> HIDE DEF one, two, m
    <2>4. <<one, two>> \in Seq(ToSwitch) /\ Numbered(<<one, two>>, 2)
      BY <1>4, <2>1, <2>2
    <2> QED
      BY <2>1, <2>3, <2>4, <1>11, <1>12
  <1>7. CASE \E x \in EchoXids : RecvEchoRequest(s, x)
    <2> PICK x \in EchoXids : RecvEchoRequest(s, x)
      BY <1>7
    <2> DEFINE one == Header("ECHO_REPLY", x)
    <2> DEFINE m == [type |-> "ECHO_REQUEST", xid |-> x]
    <2>1. x \in Xids /\ m \in ToController
      BY ConstantsOK DEF Xids, ToController
    <2>2. one \in ToSwitch /\ ~ Own(one)
      BY <2>1, MessagesTyped DEF Header, Own
    <2>3. Handle(s, m, <<one>>, 0)
      BY DEF RecvEchoRequest
    <2> HIDE DEF one, m
    <2>4. <<one>> \in Seq(ToSwitch) /\ Numbered(<<one>>, 0)
      BY <1>3, <2>2
    <2> QED
      BY <2>1, <2>3, <2>4, <1>11, <1>12
  <1>8. CASE \E type \in {"PORT_STATUS", "OTHER"} : RecvIgnored(s, type)
    <2> PICK type \in {"PORT_STATUS", "OTHER"} : RecvIgnored(s, type)
      BY <1>8
    <2> DEFINE m == [type |-> type]
    <2>1. m \in ToController
      BY DEF ToController
    <2>2. Handle(s, m, << >>, 0)
      BY DEF RecvIgnored
    <2> HIDE DEF m
    <2> QED
      BY <1>2, <2>1, <2>2, <1>11, <1>12
  <1>9. CASE RecvNoMatch(s)
    <2>1. NoMatch \in ToController
      BY DEF ToController
    <2>2. Handle(s, NoMatch, << >>, 0)
      BY <1>9 DEF RecvNoMatch
    <2> QED
      BY <1>2, <2>1, <2>2, <1>11, <1>12
  <1>10. CASE \E m \in PacketIn : RecvPacketIn(s, m)
    <2> PICK m \in PacketIn : RecvPacketIn(s, m)
      BY <1>10
    <2>1. /\ m \in ToController /\ m.in_port \in Ports
          /\ m.frame.dst \in Macs /\ m.frame.src \in Macs
      BY PacketInTyped
    <2>2. CASE RecvArpReply(s, m)
      <3> DEFINE back == FindPort(Learned(s, m), s, m.frame.dst)
      <3> DEFINE one == FlowMod(xid, m.frame.dst, m.frame.src, m.in_port)
      <3> DEFINE two == FlowMod(Xid(1), m.frame.src, m.frame.dst, back)
      <3> DEFINE three == PacketOut(Xid(2), m, OFPP_TABLE)
      <3>1. back \in Ports \cup {0}
        BY LearnedTyped, BackPortTyped
      <3>2. Handle(s, m, <<one, two, three>>, 3)
        BY <2>2 DEF RecvArpReply
      <3> HIDE DEF back
      <3>3. one \in ToSwitch /\ two \in ToSwitch /\ three \in ToSwitch
        BY <1>1, <2>1, <3>1, MessagesTyped
      <3>4. /\ one.xid = Xid(0) /\ two.xid = Xid(1) /\ three.xid = Xid(2)
            /\ ~ Asks(one) /\ ~ Asks(two) /\ ~ Asks(three)
        BY <1>1 DEF FlowMod, PacketOut, Asks
      <3> HIDE DEF one, two, three
      <3> DEFINE out == <<one, two, three>>
      <3>5. Len(out) = 3 /\ out[1] = one /\ out[2] = two /\ out[3] = three /\ out \in Seq(ToSwitch)
        BY <3>3
      <3>6. Handle(s, m, out, 3)
        BY <3>2
      <3> HIDE DEF out
      <3>7. \A i \in 1 .. 3 : out[i].xid = Xid(i - 1) /\ i - 1 <= 3 /\ ~ Asks(out[i])
        <4> TAKE i \in 1 .. 3
        <4>1. CASE i = 1
          BY <3>4, <3>5, <4>1
        <4>2. CASE i = 2
          BY <3>4, <3>5, <4>2
        <4>3. CASE i = 3
          BY <3>4, <3>5, <4>3
        <4> QED
          BY <4>1, <4>2, <4>3
      <3>8. Numbered(out, 3)
        BY <3>5, <3>7 DEF Numbered
      <3> QED
        BY <2>1, <3>5, <3>6, <3>8
    <2>3. CASE RecvLoopback(s, m)
      <3> DEFINE one == FlowMod(xid, m.frame.dst, m.frame.src, m.in_port)
      <3>1. one \in ToSwitch
        BY <1>1, <2>1, MessagesTyped
      <3>2. one.xid = xid /\ ~ Asks(one)
        BY DEF FlowMod, Asks
      <3>3. Handle(s, m, <<one>>, 0)
        BY <2>3 DEF RecvLoopback
      <3> HIDE DEF one
      <3>4. <<one>> \in Seq(ToSwitch) /\ Numbered(<<one>>, 0)
        BY <1>3, <3>1, <3>2
      <3> QED
        BY <2>1, <3>3, <3>4, <1>11, <1>12
    <2>4. CASE RecvFlooded(s, m)
      <3> DEFINE one == PacketOut(xid, m, OFPP_FLOOD)
      <3>1. one \in ToSwitch
        BY <1>1, MessagesTyped
      <3>2. one.xid = xid /\ ~ Asks(one)
        BY DEF PacketOut, Asks
      <3>3. Handle(s, m, <<one>>, 1)
        BY <2>4 DEF RecvFlooded
      <3> HIDE DEF one
      <3>4. <<one>> \in Seq(ToSwitch) /\ Numbered(<<one>>, 1)
        BY <1>3, <3>1, <3>2
      <3> QED
        BY <2>1, <3>3, <3>4, <1>11, <1>12
    <2> QED
      BY <2>2, <2>3, <2>4 DEF RecvPacketIn
  <1> QED
    BY <1>0, <1>5, <1>6, <1>7, <1>8, <1>9, <1>10

(* Until xid wraps, what was numbered is not beyond it, and requests are   *)
(* behind it: whatever is numbered next differs from them.                 *)
NotBeyond ==
  up => /\ xid <= 3 * Len(rcvd) + 1
        /\ \A s \in Sockets : \A i \in DOMAIN sent[s] :
             Own(sent[s][i]) => /\ sent[s][i].xid <= xid
                                /\ Asks(sent[s][i]) => sent[s][i].xid < xid

Apart ==
  \A s, t \in Sockets : \A i \in DOMAIN sent[s], j \in DOMAIN sent[t] :
    Asks(sent[s][i]) /\ Own(sent[t][j]) /\ sent[s][i].xid = sent[t][j].xid => s = t /\ i = j

XidInv == 3 * MaxRx + 1 < XidMod => NotBeyond /\ Apart

(* What a step makes of xid and of the messages, before xid wraps.         *)
LEMMA XidsAfter ==
  ASSUME TypeOK, 3 * MaxRx + 1 < XidMod, NotBeyond,
         NEW s \in Sockets, NEW out \in Seq(ToSwitch), NEW n \in 0 .. 3,
         NEW k \in 0 .. Len(out), Numbers(s, out, n, k)
  PROVE  /\ xid' = xid + n /\ xid \in Nat /\ xid' <= 3 * Len(rcvd') + 1
         /\ \A i \in 1 .. k : Own(out[i]) => /\ out[i].xid = xid + (i - 1) /\ i - 1 <= n
                                             /\ Asks(out[i]) => 1 < i /\ i <= n
  <1>1. /\ Len(rcvd) \in Nat /\ Len(rcvd) < MaxRx /\ Len(rcvd') = Len(rcvd) + 1
        /\ MaxRx \in Nat /\ XidMod \in Nat \ {0} /\ xid \in Nat
    <2>1. rcvd \in Seq(Arrivals) /\ xid \in Xids
      BY TypeOKIs
    <2> QED
      BY <2>1, ConstantsOK DEF Numbers, Xids
  <1>2. xid <= 3 * Len(rcvd) + 1
    BY DEF NotBeyond, Numbers
  <1>3. \A a \in 0 .. 3 : xid + a \in Nat /\ xid + a < XidMod
    BY <1>1, <1>2
  <1>4. \A a \in 0 .. 3 : Xid(a) = xid + a
    BY <1>1, <1>3 DEF Xid
  <1>5. xid' = xid + n
    BY <1>4 DEF Numbers
  <1>6. xid' <= 3 * Len(rcvd') + 1
    BY <1>1, <1>2, <1>5
  <1>7. ASSUME NEW i \in 1 .. k, Own(out[i])
        PROVE  /\ out[i].xid = xid + (i - 1) /\ i - 1 <= n
               /\ Asks(out[i]) => 1 < i /\ i <= n
    <2>1. i \in 1 .. Len(out)
      OBVIOUS
    <2>2. /\ out[i].xid = Xid(i - 1) /\ i - 1 <= n
          /\ Asks(out[i]) => 1 < i /\ i <= n
      BY <1>7, <2>1 DEF Numbers, Numbered
    <2>3. i - 1 \in 0 .. 3
      BY <2>2
    <2> QED
      BY <1>4, <2>2, <2>3
  <1> QED
    BY <1>1, <1>5, <1>6, <1>7

LEMMA XidStep == TypeOK /\ XidInv /\ [Next]_vars => XidInv'
  <1> SUFFICES ASSUME TypeOK, XidInv, [Next]_vars, 3 * MaxRx + 1 < XidMod
               PROVE  NotBeyond' /\ Apart'
    BY DEF XidInv
  <1>0. NotBeyond /\ Apart
    BY DEF XidInv
  <1>1. CASE UNCHANGED vars
    BY <1>0, <1>1 DEF vars, NotBeyond, Apart
  <1>2. CASE Next
    <2>1. PICK s \in Sockets, out \in Seq(ToSwitch), n \in 0 .. 3 :
            \E k \in 0 .. Len(out) : Numbers(s, out, n, k)
      BY <1>2, EveryNumbered
    <2>2. PICK k \in 0 .. Len(out) : Numbers(s, out, n, k)
      BY <2>1
    <2>3. /\ xid' = xid + n /\ xid \in Nat /\ xid' <= 3 * Len(rcvd') + 1
          /\ \A i \in 1 .. k : Own(out[i]) => /\ out[i].xid = xid + (i - 1) /\ i - 1 <= n
                                              /\ Asks(out[i]) => 1 < i /\ i <= n
      BY <1>0, <2>2, XidsAfter
    <2> DEFINE Old(t, i) == i \in DOMAIN sent[t] /\ sent'[t][i] = sent[t][i]
    <2> DEFINE New(t, i, j) == t = s /\ i = Len(sent[s]) + j /\ sent'[t][i] = out[j]
    <2>4. \A t \in Sockets : \A i \in DOMAIN sent'[t] :
            Old(t, i) \/ \E j \in 1 .. k : New(t, i, j)
      <3>1. Sends(s, out, k)
        BY <2>2 DEF Numbers
      <3> QED
        BY <3>1, SentIs
    <2>5. ASSUME NEW t \in Sockets, NEW i \in DOMAIN sent'[t], Old(t, i), Own(sent'[t][i])
          PROVE  /\ sent'[t][i].xid \in Nat /\ sent'[t][i].xid <= xid
                 /\ Asks(sent'[t][i]) => sent'[t][i].xid < xid
      <3>1. sent[t][i] \in ToSwitch
        BY <2>5 DEF TypeOK
      <3>2. sent[t][i].xid \in Xids
        BY <3>1 DEF ToSwitch, Headers, FlowMods, PacketOuts
      <3>3. up
        BY <2>2 DEF Numbers
      <3> QED
        BY <1>0, <2>5, <3>2, <3>3, ConstantsOK DEF NotBeyond, Xids
    <2>6. NotBeyond'
      <3> SUFFICES ASSUME up', NEW t \in Sockets, NEW i \in DOMAIN sent'[t], Own(sent'[t][i])
                   PROVE  /\ sent'[t][i].xid <= xid'
                          /\ Asks(sent'[t][i]) => sent'[t][i].xid < xid'
        BY <2>3 DEF NotBeyond
      <3>1. CASE Old(t, i)
        BY <2>3, <2>5, <3>1
      <3>2. ASSUME NEW j \in 1 .. k, New(t, i, j)
            PROVE  /\ sent'[t][i].xid <= xid'
                   /\ Asks(sent'[t][i]) => sent'[t][i].xid < xid'
        BY <2>3, <3>2
      <3> QED
        BY <2>4, <3>1, <3>2
    <2>7. Apart'
      <3> SUFFICES ASSUME NEW t \in Sockets, NEW u \in Sockets,
                          NEW i \in DOMAIN sent'[t], NEW j \in DOMAIN sent'[u],
                          Asks(sent'[t][i]), Own(sent'[u][j]),
                          sent'[t][i].xid = sent'[u][j].xid
                   PROVE  t = u /\ i = j
        BY DEF Apart
      <3>0. Own(sent'[t][i])
        BY DEF Asks, Own
      <3>1. CASE Old(t, i) /\ Old(u, j)
        BY <1>0, <3>1 DEF Apart
      <3>2. ASSUME Old(t, i), NEW b \in 1 .. k, New(u, j, b) PROVE FALSE
        BY <2>3, <2>5, <3>0, <3>2
      <3>3. ASSUME Old(u, j), NEW a \in 1 .. k, New(t, i, a) PROVE FALSE
        BY <2>3, <2>5, <3>0, <3>3
      <3>4. ASSUME NEW a \in 1 .. k, NEW b \in 1 .. k, New(t, i, a), New(u, j, b)
            PROVE  t = u /\ i = j
        <4>1. xid + (a - 1) = xid + (b - 1)
          BY <2>3, <3>0, <3>4
        <4>2. a = b
          BY <2>3, <4>1
        <4> QED
          BY <3>4, <4>2
      <3> QED
        BY <2>4, <3>1, <3>2, <3>3, <3>4
    <2> QED
      BY <2>6, <2>7
  <1> QED
    BY <1>1, <1>2

(* Until xid wraps, the reply to a FEATURES_REQUEST or BARRIER_REQUEST can *)
(* be paired: no other message the controller numbered, to any switch, has *)
(* its xid (the increments of xid in every handler, and the one missing in *)
(* sendLoopFlow).                                                          *)
THEOREM RepliesCanBePaired == Spec => []ReplyXidsUnique
  <1>1. Init => XidInv
    BY DEF Init, XidInv, NotBeyond, Apart
  <1>2. XidInv => ReplyXidsUnique
    BY DEF XidInv, Apart, ReplyXidsUnique, Asks, Own
  <1> QED
    BY <1>1, <1>2, TypeInit, TypeStep, XidStep, PTL DEF Spec
=============================================================================
