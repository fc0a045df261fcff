--------------------------- MODULE MyGraph_proofs ---------------------------
(***************************************************************************)
(* What the list operators of MyGraph return and preserve, for every list, *)
(* every socket and every node.                                            *)
(***************************************************************************)
EXTENDS MyGraph, FirstMatch

LEMMA RowIs ==
  ASSUME NEW R, NEW list \in Seq(R), NEW s
  PROVE  /\ Row(list, s) \in 0 .. Len(list)
         /\ Row(list, s) # 0 => list[Row(list, s)].socket = s
         /\ \A i \in 1 .. Len(list) :
               list[i].socket = s => Row(list, s) # 0 /\ Row(list, s) <= i
  <1> DEFINE I == {i \in 1 .. Len(list) : list[i].socket = s}
  <1>1. Row(list, s) = IF I # {} THEN Min(I) ELSE 0
    BY DEF Row, SelectInSeq
  <1>2. Len(list) \in Nat
    OBVIOUS
  <1>3. I # {} => Min(I) \in I /\ \A i \in I : Min(I) <= i
    BY <1>2, FirstPosition
  <1> HIDE DEF I
  <1>4. CASE I = {}
    BY <1>1, <1>2, <1>4 DEF I
  <1>5. CASE I # {}
    <2>1. Row(list, s) \in I /\ \A i \in I : Row(list, s) <= i
      BY <1>1, <1>3, <1>5
    <2> QED
      BY <2>1, <1>2 DEF I
  <1> QED
    BY <1>4, <1>5

(* Both lists are made of rows whose nodes are drawn from one set.         *)
RowsOf(S, N) == [socket : S, nodes : Seq(N)]

(* No two rows belong to the same socket.                                  *)
OneRowEach(list) ==
  \A i, j \in 1 .. Len(list) : list[i].socket = list[j].socket => i = j

LEMMA NodesOfType ==
  ASSUME NEW S, NEW N, NEW list \in Seq(RowsOf(S, N)), NEW s
  PROVE  NodesOf(list, s) \in Seq(N)
  <1>1. Row(list, s) \in 0 .. Len(list)
    BY RowIs
  <1>2. CASE Row(list, s) = 0
    BY <1>2 DEF NodesOf
  <1>3. CASE Row(list, s) # 0
    <2>1. list[Row(list, s)] \in RowsOf(S, N)
      BY <1>1, <1>3
    <2> QED
      BY <1>3, <2>1 DEF NodesOf, RowsOf
  <1> QED
    BY <1>2, <1>3

(* PushNode puts the node in front of what the socket had, gives no other  *)
(* socket a node, and never makes a second row for a socket.               *)
LEMMA PushNodeIs ==
  ASSUME NEW S, NEW N, NEW list \in Seq(RowsOf(S, N)), list # << >>,
         NEW s \in S, NEW node \in N
  PROVE  /\ PushNode(list, s, node) \in Seq(RowsOf(S, N))
         /\ PushNode(list, s, node) # << >>
         /\ NodesOf(PushNode(list, s, node), s) = <<node>> \o NodesOf(list, s)
         /\ \A t : t # s => NodesOf(PushNode(list, s, node), t) = NodesOf(list, t)
         /\ OneRowEach(list) => OneRowEach(PushNode(list, s, node))
  <1> DEFINE new == PushNode(list, s, node)
  <1> DEFINE r == Row(list, s)
  <1>1. r \in 0 .. Len(list)
    BY RowIs
  <1>2. CASE r = 0
    <2> DEFINE row == [socket |-> s, nodes |-> <<node>>]
    <2>1. new = Append(list, row)
      BY <1>2 DEF PushNode
    <2>2. row \in RowsOf(S, N)
      BY DEF RowsOf
    <2>3. \A i \in 1 .. Len(list) : list[i].socket # s
      BY <1>2, RowIs
    <2> HIDE DEF new, row
    <2>4. /\ new \in Seq(RowsOf(S, N))  /\ Len(new) = Len(list) + 1
          /\ \A i \in 1 .. Len(list) : new[i] = list[i]
          /\ new[Len(list) + 1] = row
      BY <2>1, <2>2
    <2>5. \A t : t # s => Row(new, t) = Row(list, t)
      <3> SUFFICES ASSUME NEW t, t # s PROVE Row(new, t) = Row(list, t)
        OBVIOUS
      <3>1. row.socket = s
        BY DEF row
      <3>2. /\ Row(list, t) \in 0 .. Len(list)
            /\ Row(list, t) # 0 => list[Row(list, t)].socket = t
            /\ \A i \in 1 .. Len(list) :
                 list[i].socket = t => Row(list, t) # 0 /\ Row(list, t) <= i
        BY RowIs
      <3>3. /\ Row(new, t) \in 0 .. Len(new)
            /\ Row(new, t) # 0 => new[Row(new, t)].socket = t
            /\ \A i \in 1 .. Len(new) :
                 new[i].socket = t => Row(new, t) # 0 /\ Row(new, t) <= i
        BY <2>4, RowIs
      <3> QED
        BY <2>4, <3>1, <3>2, <3>3
    <2>6. Row(new, s) = Len(list) + 1
      <3>1. row.socket = s
        BY DEF row
      <3>2. /\ Row(new, s) \in 0 .. Len(new)
            /\ Row(new, s) # 0 => new[Row(new, s)].socket = s
            /\ \A i \in 1 .. Len(new) :
                 new[i].socket = s => Row(new, s) # 0 /\ Row(new, s) <= i
        BY <2>4, RowIs
      <3> QED
        BY <2>3, <2>4, <3>1, <3>2
    <2>7. NodesOf(new, s) = <<node>> /\ NodesOf(list, s) = << >>
      BY <1>2, <2>4, <2>6 DEF NodesOf, row
    <2>8. \A t : t # s => NodesOf(new, t) = NodesOf(list, t)
      <3> SUFFICES ASSUME NEW t, t # s PROVE NodesOf(new, t) = NodesOf(list, t)
        OBVIOUS
      <3>1. Row(list, t) \in 0 .. Len(list) /\ Row(new, t) = Row(list, t)
        BY <2>5, RowIs
      <3> QED
        BY <2>4, <3>1 DEF NodesOf
    <2>9. OneRowEach(list) => OneRowEach(new)
      BY <2>3, <2>4 DEF OneRowEach, row
    <2>10. <<node>> \o << >> = <<node>>
      OBVIOUS
    <2> QED
      BY <2>4, <2>7, <2>8, <2>9, <2>10 DEF new
  <1>3. CASE r # 0
    <2>1. r \in 1 .. Len(list) /\ list[r].socket = s
      BY <1>1, <1>3, RowIs
    <2>2. NodesOf(list, s) \in Seq(N)
      BY NodesOfType
    <2> DEFINE row == [socket |-> s, nodes |-> <<node>> \o NodesOf(list, s)]
    <2>3. row \in RowsOf(S, N) /\ row.socket = s /\ row.nodes = <<node>> \o NodesOf(list, s)
      BY <2>2 DEF RowsOf
    <2>4. new = [list EXCEPT ![r] = row]
      BY <1>3 DEF PushNode
    <2> HIDE DEF new, row
    <2>5. /\ new \in Seq(RowsOf(S, N)) /\ Len(new) = Len(list)
          /\ new[r] = row
          /\ \A i \in 1 .. Len(list) : i # r => new[i] = list[i]
      BY <2>1, <2>3, <2>4
    <2>6. \A i \in 1 .. Len(list) : new[i].socket = list[i].socket
      BY <2>1, <2>3, <2>5
    <2>7. \A t : Row(new, t) = Row(list, t)
      <3> SUFFICES ASSUME NEW t PROVE Row(new, t) = Row(list, t)
        OBVIOUS
      <3>1. /\ Row(list, t) \in 0 .. Len(list)
            /\ Row(list, t) # 0 => list[Row(list, t)].socket = t
            /\ \A i \in 1 .. Len(list) :
                 list[i].socket = t => Row(list, t) # 0 /\ Row(list, t) <= i
        BY RowIs
      <3>2. /\ Row(new, t) \in 0 .. Len(new)
            /\ Row(new, t) # 0 => new[Row(new, t)].socket = t
            /\ \A i \in 1 .. Len(new) :
                 new[i].socket = t => Row(new, t) # 0 /\ Row(new, t) <= i
        BY <2>5, RowIs
      <3> QED
        BY <2>5, <2>6, <3>1, <3>2
    <2>8. NodesOf(new, s) = <<node>> \o NodesOf(list, s)
      BY <1>3, <2>3, <2>5, <2>7 DEF NodesOf
    <2>9. \A t : t # s => NodesOf(new, t) = NodesOf(list, t)
      <3> SUFFICES ASSUME NEW t, t # s PROVE NodesOf(new, t) = NodesOf(list, t)
        OBVIOUS
      <3>1. Row(list, t) \in 0 .. Len(list) /\ (Row(list, t) # 0 => list[Row(list, t)].socket = t)
        BY RowIs
      <3>2. Row(list, t) # r
        BY <1>3, <2>1, <3>1
      <3> QED
        BY <2>5, <2>7, <3>1, <3>2 DEF NodesOf
    <2>10. OneRowEach(list) => OneRowEach(new)
      BY <2>5, <2>6 DEF OneRowEach
    <2>11. new # << >>
      BY <2>1, <2>5
    <2> QED
      BY <2>5, <2>8, <2>9, <2>10, <2>11 DEF new
  <1> QED
    BY <1>2, <1>3

---------------------------------------------------------------------------
(* ll: rows of hosts *)

PathNodes(M, P) == [to_mac : M, port : P]

(* The walk inside a row stops at the first node of the host.              *)
LEMMA PathIndexIs ==
  ASSUME NEW S, NEW N, NEW list \in Seq(RowsOf(S, N)), NEW s, NEW mac
  PROVE  /\ PathIndex(list, s, mac) \in 0 .. Len(NodesOf(list, s))
         /\ PathIndex(list, s, mac) # 0 =>
              NodesOf(list, s)[PathIndex(list, s, mac)].to_mac = mac
         /\ \A k \in 1 .. Len(NodesOf(list, s)) :
              NodesOf(list, s)[k].to_mac = mac =>
                PathIndex(list, s, mac) # 0 /\ PathIndex(list, s, mac) <= k
         /\ FindNode(list, s, mac) <=> PathIndex(list, s, mac) # 0
  <1> DEFINE nodes == NodesOf(list, s)
  <1> DEFINE I == {k \in 1 .. Len(nodes) : nodes[k].to_mac = mac}
  <1>1. PathIndex(list, s, mac) = IF I # {} THEN Min(I) ELSE 0
    BY DEF PathIndex, SelectInSeq
  <1>2. nodes \in Seq(N)
    BY NodesOfType
  <1>3. FindNode(list, s, mac) <=> \E k \in DOMAIN nodes : nodes[k].to_mac = mac
    BY DEF FindNode
  <1> HIDE DEF nodes
  <1>4. Len(nodes) \in Nat /\ DOMAIN nodes = 1 .. Len(nodes)
    BY <1>2
  <1>5. I # {} => Min(I) \in I /\ \A k \in I : Min(I) <= k
    BY <1>4, FirstPosition
  <1>6. FindNode(list, s, mac) <=> I # {}
    BY <1>3, <1>4
  <1> HIDE DEF I
  <1>7. CASE I = {}
    <2>1. \A k \in 1 .. Len(nodes) : nodes[k].to_mac # mac
      BY <1>7 DEF I
    <2> QED
      BY <1>1, <1>4, <1>6, <1>7, <2>1 DEF nodes
  <1>8. CASE I # {}
    <2>1. PathIndex(list, s, mac) \in I /\ \A k \in I : PathIndex(list, s, mac) <= k
      BY <1>1, <1>5, <1>8
    <2>2. /\ PathIndex(list, s, mac) \in 1 .. Len(nodes)
          /\ nodes[PathIndex(list, s, mac)].to_mac = mac
          /\ \A k \in 1 .. Len(nodes) :
               nodes[k].to_mac = mac => PathIndex(list, s, mac) <= k
      BY <2>1 DEF I
    <2> QED
      BY <1>4, <1>6, <1>8, <2>2 DEF nodes
  <1> QED
    BY <1>7, <1>8

(* No two nodes of a row are for the same host.                            *)
OnePathEach(list, s) ==
  \A i, j \in 1 .. Len(NodesOf(list, s)) :
    NodesOf(list, s)[i].to_mac = NodesOf(list, s)[j].to_mac => i = j

LEMMA AddPathNodeIs ==
  ASSUME NEW S, NEW M, NEW P, NEW list \in Seq(RowsOf(S, PathNodes(M, P))),
         list # << >>, NEW s \in S, NEW mac \in M, NEW port \in P
  PROVE  LET new == AddPathNode(list, s, mac, port)
         IN  /\ new \in Seq(RowsOf(S, PathNodes(M, P)))
             /\ new # << >>
             /\ OneRowEach(list) => OneRowEach(new)
             /\ \A t : t # s => NodesOf(new, t) = NodesOf(list, t)
             /\ FindNode(list, s, mac) => NodesOf(new, s) = NodesOf(list, s)
             /\ ~ FindNode(list, s, mac) =>
                  NodesOf(new, s) = <<[to_mac |-> mac, port |-> port]>> \o NodesOf(list, s)
  <1> DEFINE node == [to_mac |-> mac, port |-> port]
  <1>1. node \in PathNodes(M, P)
    BY DEF PathNodes
  <1> HIDE DEF node
  <1>2. CASE FindNode(list, s, mac)
    BY <1>2 DEF AddPathNode
  <1>3. CASE ~ FindNode(list, s, mac)
    <2>1. AddPathNode(list, s, mac, port) = PushNode(list, s, node)
      BY <1>3 DEF AddPathNode, node
    <2>2. /\ PushNode(list, s, node) \in Seq(RowsOf(S, PathNodes(M, P)))
          /\ PushNode(list, s, node) # << >>
          /\ NodesOf(PushNode(list, s, node), s) = <<node>> \o NodesOf(list, s)
          /\ \A t : t # s => NodesOf(PushNode(list, s, node), t) = NodesOf(list, t)
          /\ OneRowEach(list) => OneRowEach(PushNode(list, s, node))
      BY <1>1, PushNodeIs
    <2> QED
      BY <1>3, <2>1, <2>2 DEF node
  <1> QED
    BY <1>2, <1>3

(* What findPort answers after addPathNode: the port just learned for a    *)
(* host that was not known, and for every other what it answered before.   *)
LEMMA FindPortAfter ==
  ASSUME NEW S, NEW M, NEW P, NEW list \in Seq(RowsOf(S, PathNodes(M, P))),
         list # << >>, NEW s \in S, NEW mac \in M, NEW port \in P,
         NEW t, NEW m
  PROVE  FindPort(AddPathNode(list, s, mac, port), t, m) =
           IF t = s /\ m = mac /\ ~ FindNode(list, s, mac) THEN port
           ELSE FindPort(list, t, m)
  <1> DEFINE new == AddPathNode(list, s, mac, port)
  <1> DEFINE node == [to_mac |-> mac, port |-> port]
  <1>1. /\ new \in Seq(RowsOf(S, PathNodes(M, P)))
        /\ \A u : u # s => NodesOf(new, u) = NodesOf(list, u)
        /\ FindNode(list, s, mac) => NodesOf(new, s) = NodesOf(list, s)
        /\ ~ FindNode(list, s, mac) => NodesOf(new, s) = <<node>> \o NodesOf(list, s)
    BY AddPathNodeIs
  <1>2. NodesOf(list, t) \in Seq(PathNodes(M, P))
    BY NodesOfType
  <1>3. node.to_mac = mac /\ node.port = port
    OBVIOUS
  <1> HIDE DEF new, node
  <1>4. NodesOf(new, t) = NodesOf(list, t) => FindPort(new, t, m) = FindPort(list, t, m)
    BY DEF FindPort, PathIndex
  <1>5. CASE t # s \/ FindNode(list, s, mac)
    BY <1>1, <1>4, <1>5 DEF new
  <1>6. CASE t = s /\ ~ FindNode(list, s, mac)
    <2> DEFINE nodes == NodesOf(list, t)
    <2> DEFINE longer == NodesOf(new, t)
    <2>1. longer = <<node>> \o nodes
      BY <1>1, <1>6
    <2>2. /\ PathIndex(list, t, m) \in 0 .. Len(nodes)
          /\ PathIndex(list, t, m) # 0 => nodes[PathIndex(list, t, m)].to_mac = m
          /\ \A k \in 1 .. Len(nodes) : nodes[k].to_mac = m =>
               PathIndex(list, t, m) # 0 /\ PathIndex(list, t, m) <= k
      BY PathIndexIs
    <2>3. /\ PathIndex(new, t, m) \in 0 .. Len(longer)
          /\ PathIndex(new, t, m) # 0 => longer[PathIndex(new, t, m)].to_mac = m
          /\ \A k \in 1 .. Len(longer) : longer[k].to_mac = m =>
               PathIndex(new, t, m) # 0 /\ PathIndex(new, t, m) <= k
      BY <1>1, PathIndexIs
    <2>4. /\ FindPort(list, t, m) = IF PathIndex(list, t, m) = 0 THEN 0
                                    ELSE nodes[PathIndex(list, t, m)].port
          /\ FindPort(new, t, m) = IF PathIndex(new, t, m) = 0 THEN 0
                                   ELSE longer[PathIndex(new, t, m)].port
      BY DEF FindPort
    <2>5. nodes \in Seq(PathNodes(M, P))
      BY <1>2
    <2> HIDE DEF nodes, longer
    <2>6. /\ Len(longer) = Len(nodes) + 1
          /\ longer[1] = node
          /\ \A k \in 1 .. Len(nodes) : longer[k + 1] = nodes[k]
      BY <2>1, <2>5
    <2>7. Len(nodes) \in Nat
      BY <2>5
    <2>8. CASE m = mac
      <3>1. PathIndex(new, t, m) = 1
        BY <1>3, <2>3, <2>6, <2>7, <2>8
      <3> QED
        BY <1>3, <1>6, <2>4, <2>6, <2>8, <3>1 DEF new
    <2>9. CASE m # mac
      <3>1. PathIndex(new, t, m) # 1
        BY <1>3, <2>3, <2>6, <2>9
      <3>2. CASE PathIndex(list, t, m) = 0
        <4>1. PathIndex(new, t, m) = 0
          <5> SUFFICES ASSUME PathIndex(new, t, m) # 0 PROVE FALSE
            OBVIOUS
          <5> DEFINE k == PathIndex(new, t, m) - 1
          <5>1. k \in 1 .. Len(nodes) /\ longer[k + 1].to_mac = m
            BY <2>3, <2>6, <2>7, <3>1
          <5> QED
            BY <2>2, <2>6, <3>2, <5>1
        <4> QED
          BY <2>4, <2>9, <3>2, <4>1 DEF new
      <3>3. CASE PathIndex(list, t, m) # 0
        <4> DEFINE k == PathIndex(list, t, m)
        <4>1. k \in 1 .. Len(nodes) /\ longer[k + 1] = nodes[k] /\ longer[k + 1].to_mac = m
          BY <2>2, <2>6, <2>7, <3>3
        <4>2. PathIndex(new, t, m) # 0 /\ PathIndex(new, t, m) <= k + 1
          BY <2>3, <2>6, <2>7, <4>1
        <4> DEFINE j == PathIndex(new, t, m) - 1
        <4>3. j \in 1 .. Len(nodes) /\ longer[j + 1].to_mac = m
          BY <2>3, <2>6, <2>7, <3>1, <4>2
        <4>4. k <= j
          BY <2>2, <2>6, <4>3
        <4>5. PathIndex(new, t, m) = k + 1
          BY <2>3, <4>1, <4>2, <4>4, <2>7
        <4> QED
          BY <2>4, <2>9, <3>3, <4>1, <4>5 DEF new
      <3> QED
        BY <3>2, <3>3
    <2> QED
      BY <2>8, <2>9
  <1> QED
    BY <1>5, <1>6

(* findPort answers 0 exactly for the hosts that are not in the list.      *)
LEMMA FindPortIs ==
  ASSUME NEW S, NEW M, NEW P, 0 \notin P,
         NEW list \in Seq(RowsOf(S, PathNodes(M, P))), NEW s, NEW mac
  PROVE  /\ FindPort(list, s, mac) \in P \cup {0}
         /\ FindPort(list, s, mac) # 0 <=> FindNode(list, s, mac)
  <1> DEFINE k == PathIndex(list, s, mac)
  <1>1. /\ k \in 0 .. Len(NodesOf(list, s))
        /\ FindNode(list, s, mac) <=> k # 0
    BY PathIndexIs
  <1>2. NodesOf(list, s) \in Seq(PathNodes(M, P))
    BY NodesOfType
  <1>3. k # 0 => NodesOf(list, s)[k] \in PathNodes(M, P)
    BY <1>1, <1>2
  <1> QED
    BY <1>1, <1>3 DEF FindPort, PathNodes

(* A host known at a socket is not added again.                            *)
LEMMA OnePathEachKept ==
  ASSUME NEW S, NEW M, NEW P, NEW list \in Seq(RowsOf(S, PathNodes(M, P))),
         list # << >>, NEW s \in S, NEW mac \in M, NEW port \in P,
         NEW t, OnePathEach(list, t)
  PROVE  OnePathEach(AddPathNode(list, s, mac, port), t)
  <1> DEFINE new == AddPathNode(list, s, mac, port)
  <1> DEFINE node == [to_mac |-> mac, port |-> port]
  <1>1. /\ \A u : u # s => NodesOf(new, u) = NodesOf(list, u)
        /\ FindNode(list, s, mac) => NodesOf(new, s) = NodesOf(list, s)
        /\ ~ FindNode(list, s, mac) => NodesOf(new, s) = <<node>> \o NodesOf(list, s)
    BY AddPathNodeIs
  <1>2. NodesOf(list, t) \in Seq(PathNodes(M, P))
    BY NodesOfType
  <1>3. node.to_mac = mac
    OBVIOUS
  <1> HIDE DEF new, node
  <1>4. CASE t # s \/ FindNode(list, s, mac)
    BY <1>1, <1>4 DEF OnePathEach, new
  <1>5. CASE t = s /\ ~ FindNode(list, s, mac)
    <2> DEFINE nodes == NodesOf(list, t)
    <2> DEFINE longer == NodesOf(new, t)
    <2>1. longer = <<node>> \o nodes
      BY <1>1, <1>5
    <2>2. \A k \in DOMAIN nodes : nodes[k].to_mac # mac
      BY <1>5 DEF FindNode
    <2>3. \A i, j \in 1 .. Len(nodes) : nodes[i].to_mac = nodes[j].to_mac => i = j
      BY DEF OnePathEach
    <2>4. nodes \in Seq(PathNodes(M, P))
      BY <1>2
    <2> HIDE DEF nodes
    <2>5. /\ Len(longer) = Len(nodes) + 1
          /\ longer[1] = node
          /\ \A k \in 1 .. Len(nodes) : longer[k + 1] = nodes[k]
      BY <2>1, <2>4
    <2> HIDE DEF longer
    <2>6. Len(nodes) \in Nat /\ DOMAIN nodes = 1 .. Len(nodes)
      BY <2>4
    <2>7. \A k \in 1 .. Len(longer) :
            k # 1 => k - 1 \in 1 .. Len(nodes) /\ longer[k] = nodes[k - 1]
      BY <2>5, <2>6
    <2>8. \A i, j \in 1 .. Len(longer) : longer[i].to_mac = longer[j].to_mac => i = j
      <3> SUFFICES ASSUME NEW i \in 1 .. Len(longer), NEW j \in 1 .. Len(longer),
                          longer[i].to_mac = longer[j].to_mac
                   PROVE  i = j
        OBVIOUS
      <3>1. CASE i = 1 /\ j # 1
        BY <1>3, <2>2, <2>5, <2>6, <2>7, <3>1
      <3>2. CASE i # 1 /\ j = 1
        BY <1>3, <2>2, <2>5, <2>6, <2>7, <3>2
      <3>3. CASE i # 1 /\ j # 1
        <4> DEFINE k == i - 1
        <4> DEFINE l == j - 1
        <4>1. /\ k \in 1 .. Len(nodes) /\ l \in 1 .. Len(nodes)
              /\ longer[i] = nodes[k] /\ longer[j] = nodes[l]
          BY <2>7, <3>3
        <4>2. i = k + 1 /\ j = l + 1
          BY <2>5, <2>6
        <4> HIDE DEF k, l
        <4>3. k = l
          BY <2>3, <4>1
        <4> QED
          BY <4>2, <4>3
      <3> QED
        BY <3>1, <3>2, <3>3
    <2> QED
      BY <2>8 DEF OnePathEach, new, longer
  <1> QED
    BY <1>4, <1>5

---------------------------------------------------------------------------
(* flows: rows of flows *)

FlowNodes(M, P) == [dst_mac : M, src_mac : M, port : P]

LEMMA FindFlowIs ==
  ASSUME NEW S, NEW N, NEW list \in Seq(RowsOf(S, N)), NEW s, NEW dst, NEW src
  PROVE  /\ FindFlow(list, s, dst, src) \in 0 .. Len(NodesOf(list, s))
         /\ FindFlow(list, s, dst, src) # 0 =>
              /\ NodesOf(list, s)[FindFlow(list, s, dst, src)].dst_mac = dst
              /\ NodesOf(list, s)[FindFlow(list, s, dst, src)].src_mac = src
         /\ \A k \in 1 .. Len(NodesOf(list, s)) :
              NodesOf(list, s)[k].dst_mac = dst /\ NodesOf(list, s)[k].src_mac = src =>
                FindFlow(list, s, dst, src) # 0 /\ FindFlow(list, s, dst, src) <= k
  <1> DEFINE nodes == NodesOf(list, s)
  <1> DEFINE I == {k \in 1 .. Len(nodes) : nodes[k].dst_mac = dst /\ nodes[k].src_mac = src}
  <1>1. FindFlow(list, s, dst, src) = IF I # {} THEN Min(I) ELSE 0
    BY DEF FindFlow, SelectInSeq
  <1>2. nodes \in Seq(N)
    BY NodesOfType
  <1> HIDE DEF nodes
  <1>3. Len(nodes) \in Nat
    BY <1>2
  <1>4. I # {} => Min(I) \in I /\ \A k \in I : Min(I) <= k
    BY <1>3, FirstPosition
  <1> HIDE DEF I
  <1>5. CASE I = {}
    <2>1. \A k \in 1 .. Len(nodes) : ~ (nodes[k].dst_mac = dst /\ nodes[k].src_mac = src)
      BY <1>5 DEF I
    <2> QED
      BY <1>1, <1>3, <1>5, <2>1 DEF nodes
  <1>6. CASE I # {}
    <2>1. /\ FindFlow(list, s, dst, src) \in I
          /\ \A k \in I : FindFlow(list, s, dst, src) <= k
      BY <1>1, <1>4, <1>6
    <2>2. /\ FindFlow(list, s, dst, src) \in 1 .. Len(nodes)
          /\ nodes[FindFlow(list, s, dst, src)].dst_mac = dst
          /\ nodes[FindFlow(list, s, dst, src)].src_mac = src
          /\ \A k \in 1 .. Len(nodes) :
               nodes[k].dst_mac = dst /\ nodes[k].src_mac = src =>
                 FindFlow(list, s, dst, src) <= k
      BY <2>1 DEF I
    <2> QED
      BY <1>3, <2>2 DEF nodes
  <1> QED
    BY <1>5, <1>6

(* No two nodes of a row are for the same pair of hosts.                   *)
OneFlowEach(list, s) ==
  \A i, j \in 1 .. Len(NodesOf(list, s)) :
    /\ NodesOf(list, s)[i].dst_mac = NodesOf(list, s)[j].dst_mac
    /\ NodesOf(list, s)[i].src_mac = NodesOf(list, s)[j].src_mac
    => i = j

LEMMA AddFlowNodeIs ==
  ASSUME NEW S, NEW M, NEW P, NEW list \in Seq(RowsOf(S, FlowNodes(M, P))),
         list # << >>, NEW s \in S, NEW dst \in M, NEW src \in M, NEW port \in P
  PROVE  LET new == AddFlowNode(list, s, dst, src, port)
             node == [dst_mac |-> dst, src_mac |-> src, port |-> port]
         IN  /\ new \in Seq(RowsOf(S, FlowNodes(M, P)))
             /\ new # << >>
             /\ OneRowEach(list) => OneRowEach(new)
             /\ \A t : t # s => NodesOf(new, t) = NodesOf(list, t)
             /\ FindFlow(list, s, dst, src) # 0 => NodesOf(new, s) = NodesOf(list, s)
             /\ FindFlow(list, s, dst, src) = 0 =>
                  NodesOf(new, s) = <<node>> \o NodesOf(list, s)
  <1> DEFINE node == [dst_mac |-> dst, src_mac |-> src, port |-> port]
  <1>1. node \in FlowNodes(M, P)
    BY DEF FlowNodes
  <1> HIDE DEF node
  <1>2. CASE FindFlow(list, s, dst, src) # 0
    BY <1>2 DEF AddFlowNode
  <1>3. CASE FindFlow(list, s, dst, src) = 0
    <2>1. AddFlowNode(list, s, dst, src, port) = PushNode(list, s, node)
      BY <1>3 DEF AddFlowNode, node
    <2>2. /\ PushNode(list, s, node) \in Seq(RowsOf(S, FlowNodes(M, P)))
          /\ PushNode(list, s, node) # << >>
          /\ NodesOf(PushNode(list, s, node), s) = <<node>> \o NodesOf(list, s)
          /\ \A t : t # s => NodesOf(PushNode(list, s, node), t) = NodesOf(list, t)
          /\ OneRowEach(list) => OneRowEach(PushNode(list, s, node))
      BY <1>1, PushNodeIs
    <2> QED
      BY <1>3, <2>1, <2>2 DEF node
  <1> QED
    BY <1>2, <1>3

(* A flow saved for a socket is not saved again.                           *)
LEMMA OneFlowEachKept ==
  ASSUME NEW S, NEW M, NEW P, NEW list \in Seq(RowsOf(S, FlowNodes(M, P))),
         list # << >>, NEW s \in S, NEW dst \in M, NEW src \in M, NEW port \in P,
         NEW t, OneFlowEach(list, t)
  PROVE  OneFlowEach(AddFlowNode(list, s, dst, src, port), t)
  <1> DEFINE new == AddFlowNode(list, s, dst, src, port)
  <1> DEFINE node == [dst_mac |-> dst, src_mac |-> src, port |-> port]
  <1>1. /\ \A u : u # s => NodesOf(new, u) = NodesOf(list, u)
        /\ FindFlow(list, s, dst, src) # 0 => NodesOf(new, s) = NodesOf(list, s)
        /\ FindFlow(list, s, dst, src) = 0 => NodesOf(new, s) = <<node>> \o NodesOf(list, s)
    BY AddFlowNodeIs
  <1>2. NodesOf(list, t) \in Seq(FlowNodes(M, P))
    BY NodesOfType
  <1>3. node.dst_mac = dst /\ node.src_mac = src
    OBVIOUS
  <1> HIDE DEF new, node
  <1>4. CASE t # s \/ FindFlow(list, s, dst, src) # 0
    BY <1>1, <1>4 DEF OneFlowEach, new
  <1>5. CASE t = s /\ FindFlow(list, s, dst, src) = 0
    <2> DEFINE nodes == NodesOf(list, t)
    <2> DEFINE longer == NodesOf(new, t)
    <2>1. longer = <<node>> \o nodes
      BY <1>1, <1>5
    <2>2. \A k \in 1 .. Len(nodes) : ~ (nodes[k].dst_mac = dst /\ nodes[k].src_mac = src)
      BY <1>5, FindFlowIs
    <2>3. \A i, j \in 1 .. Len(nodes) :
            nodes[i].dst_mac = nodes[j].dst_mac /\ nodes[i].src_mac = nodes[j].src_mac => i = j
      BY DEF OneFlowEach
    <2>4. nodes \in Seq(FlowNodes(M, P))
      BY <1>2
    <2> HIDE DEF nodes
    <2>5. /\ Len(longer) = Len(nodes) + 1
          /\ longer[1] = node
          /\ \A k \in 1 .. Len(nodes) : longer[k + 1] = nodes[k]
      BY <2>1, <2>4
    <2> HIDE DEF longer
    <2>6. Len(nodes) \in Nat
      BY <2>4
    <2>7. \A k \in 1 .. Len(longer) :
            k # 1 => k - 1 \in 1 .. Len(nodes) /\ longer[k] = nodes[k - 1]
      BY <2>5, <2>6
    <2>8. \A i, j \in 1 .. Len(longer) :
            longer[i].dst_mac = longer[j].dst_mac /\ longer[i].src_mac = longer[j].src_mac
              => i = j
      <3> SUFFICES ASSUME NEW i \in 1 .. Len(longer), NEW j \in 1 .. Len(longer),
                          longer[i].dst_mac = longer[j].dst_mac,
                          longer[i].src_mac = longer[j].src_mac
                   PROVE  i = j
        OBVIOUS
      <3>1. CASE i = 1 /\ j # 1
        BY <1>3, <2>2, <2>5, <2>6, <2>7, <3>1
      <3>2. CASE i # 1 /\ j = 1
        BY <1>3, <2>2, <2>5, <2>6, <2>7, <3>2
      <3>3. CASE i # 1 /\ j # 1
        <4> DEFINE k == i - 1
        <4> DEFINE l == j - 1
        <4>1. /\ k \in 1 .. Len(nodes) /\ l \in 1 .. Len(nodes)
              /\ longer[i] = nodes[k] /\ longer[j] = nodes[l]
          BY <2>7, <3>3
        <4>2. i = k + 1 /\ j = l + 1
          BY <2>5, <2>6
        <4> HIDE DEF k, l
        <4>3. k = l
          BY <2>3, <4>1
        <4> QED
          BY <4>2, <4>3
      <3> QED
        BY <3>1, <3>2, <3>3
    <2> QED
      BY <2>8 DEF OneFlowEach, new, longer
  <1> QED
    BY <1>4, <1>5
=============================================================================
