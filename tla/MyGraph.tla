------------------------------ MODULE MyGraph ------------------------------
(***************************************************************************)
(* The two linked lists of linked lists of myGraph.c.  `ll' (struct        *)
(* ListOfLists) holds, per switch socket, the hosts learned there; `flows' *)
(* (struct ListOfFlows) holds, per switch socket, the flows sent there.    *)
(*                                                                         *)
(* A list is a sequence of rows [socket, nodes], in `next' order; `nodes'  *)
(* is the sequence reached from `head'.  Every walk stops at the first row *)
(* with the wanted socket, even when that row does not hold the node.      *)
(***************************************************************************)
EXTENDS Naturals, Sequences, SequencesExt

(* Mutant: the walk ends one row early and takes the last row as found.    *)
RowEndsEarly(list, s) ==
  LET r == SelectInSeq(list, LAMBDA row : row.socket = s)
  IN  IF r = 0 /\ Len(list) > 1 THEN Len(list) ELSE r

(* The position of the first row of socket s, 0 when the walk meets NULL.  *)
Row(list, s) == SelectInSeq(list, LAMBDA r : r.socket = s)

NodesOf(list, s) == IF Row(list, s) = 0 THEN << >> ELSE list[Row(list, s)].nodes

---------------------------------------------------------------------------
(* Lookups *)

FindNode(list, s, mac) ==
  \E k \in DOMAIN NodesOf(list, s) : NodesOf(list, s)[k].to_mac = mac

(* The first node of s for this host; 0 when there is none.                *)
PathIndex(list, s, mac) ==
  SelectInSeq(NodesOf(list, s), LAMBDA n : n.to_mac = mac)

(* controller.c findPort: 0 stands for "did not find port".                *)
FindPort(list, s, mac) ==
  IF PathIndex(list, s, mac) = 0 THEN 0
  ELSE NodesOf(list, s)[PathIndex(list, s, mac)].port

(* The position of the node findFlow returns, 0 for NULL.                  *)
FindFlow(list, s, dst, src) ==
  SelectInSeq(NodesOf(list, s), LAMBDA n : n.dst_mac = dst /\ n.src_mac = src)

---------------------------------------------------------------------------
(* Insertions *)

(* The part addPathNode and addFlowNode share: a row is appended when the  *)
(* socket has none, the node goes in front of the row's nodes.  On a NULL  *)
(* list the new row is assigned to the callee's own pointer, so the        *)
(* caller's list stays NULL.                                               *)
PushNode(list, s, node) ==
  IF list = << >> THEN list
  ELSE IF Row(list, s) = 0
       THEN Append(list, [socket |-> s, nodes |-> <<node>>])
       ELSE [list EXCEPT ![Row(list, s)] =
                          [socket |-> s, nodes |-> <<node>> \o NodesOf(list, s)]]

(* Mutant: the lookup that keeps a host from being added twice is left out. *)
AddPathNodeAgain(list, s, mac, port) ==
  PushNode(list, s, [to_mac |-> mac, port |-> port])

AddPathNode(list, s, mac, port) ==
  IF FindNode(list, s, mac) THEN list
  ELSE PushNode(list, s, [to_mac |-> mac, port |-> port])

(* Mutant: the lookup that keeps a flow from being added twice is left out. *)
AddFlowNodeAgain(list, s, dst, src, port) ==
  PushNode(list, s, [dst_mac |-> dst, src_mac |-> src, port |-> port])

(* Mutant: source and destination change places between call and node.     *)
AddFlowNodeSwapped(list, s, dst, src, port) ==
  IF FindFlow(list, s, dst, src) # 0 THEN list
  ELSE PushNode(list, s, [dst_mac |-> src, src_mac |-> dst, port |-> port])

AddFlowNode(list, s, dst, src, port) ==
  IF FindFlow(list, s, dst, src) # 0 THEN list
  ELSE PushNode(list, s, [dst_mac |-> dst, src_mac |-> src, port |-> port])

(* Mutant: the lists start empty.                                          *)
NoRow == << >>

(* handleConnections starts both lists with one zero-filled row.           *)
ZeroRow == <<[socket |-> 0, nodes |-> << >>]>>
=============================================================================
