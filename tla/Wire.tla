-------------------------------- MODULE Wire --------------------------------
(***************************************************************************)
(* The messages of Controller as the bytes the handlers read and write:    *)
(* memcpy at literal offsets into zeroed buffers, integers converted with  *)
(* htons, ntohs and htonl on a little-endian host.  Beside them the same   *)
(* messages as openflow.h lays them out, field after field; the property   *)
(* compares the two.                                                       *)
(*                                                                         *)
(* A buffer is its size and the set of the fields in it that are not zero. *)
(* A value is tagged with what it is: "net" and "host" are an integer in   *)
(* network and in host order, "byte" is one byte, "mac" an address.        *)
(***************************************************************************)
EXTENDS Controller, FiniteSetsExt

W(at, len, val) == [at |-> at, len |-> len, val |-> val]

Byte(n) == <<"byte", n>>
Net(n)  == <<"net", n>>
Host(n) == <<"host", n>>
Mac(m)  == <<"mac", m>>

AllOnes == -1   \* of either width

(* htons and ntohs do the same: they swap the bytes.                       *)
Swap(val) == <<IF val[1] = "net" THEN "host" ELSE "net", val[2]>>

(* memcpy of some fields over what the buffer held there.                  *)
Over(mem, fields) ==
  {f \in mem : \A w \in fields : f.at + f.len <= w.at \/ w.at + w.len <= f.at} \cup fields

(* memcpy of one field out of the buffer: zero when nothing was put there. *)
Read(mem, at, len) ==
  IF \E f \in mem : f.at = at /\ f.len = len
  THEN (CHOOSE f \in mem : f.at = at /\ f.len = len).val
  ELSE Net(0)

Buffer(size, mem) == [size |-> size, mem |-> {f \in mem : f.val[2] # 0}]

---------------------------------------------------------------------------
(* openflow.h: a message is its fields in order, <<length, value>> each    *)

Laid(fields) ==
  LET at[i \in 1 .. Len(fields) + 1] ==
        IF i = 1 THEN 0 ELSE at[i - 1] + fields[i - 1][1]
  IN  Buffer(at[Len(fields) + 1],
             {W(at[i], fields[i][1], fields[i][2]) : i \in DOMAIN fields})

OFPT == <<"HELLO", "ERROR", "ECHO_REQUEST", "ECHO_REPLY", "VENDOR",
          "FEATURES_REQUEST", "FEATURES_REPLY", "GET_CONFIG_REQUEST",
          "GET_CONFIG_REPLY", "SET_CONFIG", "PACKET_IN", "FLOW_REMOVED",
          "PORT_STATUS", "PACKET_OUT", "FLOW_MOD", "PORT_MOD", "STATS_REQUEST",
          "STATS_REPLY", "BARRIER_REQUEST", "BARRIER_REPLY">>

TypeNumber(type) == SelectInSeq(OFPT, LAMBDA t : t = type) - 1

Ofp_header(type, length, x) ==
  <<<<1, Byte(1)>>, <<1, Byte(TypeNumber(type))>>, <<2, Net(length)>>, <<4, Net(x)>>>>

(* All but the two addresses is wildcarded.  (The network fields are zero  *)
(* and say nothing: a switch looks at them only for a given dl_type.)      *)
OFPFW_IN_PORT     == 1
OFPFW_DL_VLAN     == 2
OFPFW_DL_TYPE     == 16
OFPFW_DL_VLAN_PCP == 2^20

Ofp_match(src, dst) ==
  <<<<4, Net(OFPFW_IN_PORT + OFPFW_DL_VLAN + OFPFW_DL_TYPE + OFPFW_DL_VLAN_PCP)>>,
    <<2, Net(0)>>, <<6, Mac(src)>>, <<6, Mac(dst)>>, <<22, Byte(0)>>>>

Ofp_action_output(port) == <<<<2, Net(0)>>, <<2, Net(8)>>, <<2, Net(port)>>, <<2, Net(0)>>>>

OFP_DEFAULT_PRIORITY == 32768

(* cookie, command ADD and both timeouts are zero, priority, no buffer, no *)
(* restriction to an out_port, no flags                                    *)
Ofp_flow_mod(m) ==
  Ofp_header("FLOW_MOD", 80, m.xid) \o Ofp_match(m.dl_src, m.dl_dst)
    \o <<<<8, Net(0)>>, <<2, Net(0)>>, <<2, Net(0)>>, <<2, Net(0)>>,
         <<2, Net(OFP_DEFAULT_PRIORITY)>>, <<4, Net(AllOnes)>>,
         <<2, Net(OFPP_NONE)>>, <<2, Net(0)>>>>
    \o Ofp_action_output(m.port)

(* A frame: its addresses, its type, and what isArpReply may take for the  *)
(* opcode of an ARP packet.                                                *)
FrameKinds(arp_reply) ==
  IF arp_reply THEN {[type |-> "ARP", at20 |-> 2]}
  ELSE {[type |-> "ARP", at20 |-> 1], [type |-> "IP", at20 |-> 2]}

FrameLen == 60

EtherType == [ARP |-> 2054, IP |-> 2048]   \* 0x0806, 0x0800

EthernetFrame(f, kind) ==
  <<<<6, Mac(f.dst)>>, <<6, Mac(f.src)>>, <<2, Net(EtherType[kind.type])>>,
    <<6, Byte(0)>>, <<2, Net(kind.at20)>>, <<FrameLen - 22, Byte(0)>>>>

Ofp_packet_out(m, kind) ==
  Ofp_header("PACKET_OUT", 24 + FrameLen, m.xid)
    \o <<<<4, Net(AllOnes)>>, <<2, Net(m.in_port)>>, <<2, Net(8)>>>>
    \o Ofp_action_output(m.port) \o EthernetFrame(m.frame, kind)

Ofp_switch_config(x) ==
  Ofp_header("SET_CONFIG", 12, x) \o <<<<2, Net(0)>>, <<2, Net(128)>>>>

(* What a message that is sent should look like.                           *)
Encoded(m, kind) ==
  Laid(CASE m.type = "FLOW_MOD"   -> Ofp_flow_mod(m)
         [] m.type = "PACKET_OUT" -> Ofp_packet_out(m, kind)
         [] m.type = "SET_CONFIG" -> Ofp_switch_config(m.xid)
         [] OTHER                 -> Ofp_header(m.type, 8, m.xid))

(* What a received packet-in looks like, its frame whole; before it come   *)
(* the reason, ACTION, and a byte of padding.                              *)
Ofp_packet_in(m, kind) ==
  Laid(Ofp_header("PACKET_IN", 18 + FrameLen, 0)
         \o <<<<4, Net(AllOnes)>>, <<2, Net(FrameLen)>>, <<2, Net(m.in_port)>>,
              <<1, Byte(1)>>, <<1, Byte(0)>>>>
         \o EthernetFrame(m.frame, kind)).mem

---------------------------------------------------------------------------
(* controller.c *)

Header_bytes(type, length, x) ==
  {W(0, 1, Byte(1)), W(1, 1, Byte(type)), W(2, 2, Net(length)), W(4, 4, x)}

EstOFConnection(x) ==
  <<Buffer(8, Header_bytes(0, 8, Net(x))),
    Buffer(8, Header_bytes(5, 8, Net((x + 1) % XidMod)))>>

SetConfig(x) ==
  <<Buffer(12, Header_bytes(9, 12, Net(x)) \cup {W(8, 2, Net(0)), W(10, 2, Net(128))}),
    Buffer(8, Header_bytes(18, 8, Net((x + 1) % XidMod)))>>

(* The xid stays as it was received.                                       *)
SendEchoReply(mem) == <<Buffer(8, Header_bytes(3, 8, Read(mem, 4, 4)))>>

(* Offsets in a packet-in.                                                 *)
InPort(mem)  == Read(mem, 14, 2)
DstMac(mem)  == Read(mem, 18, 6)
SrcMac(mem)  == Read(mem, 24, 6)
Data         == 18

(* payload is the frame                                                    *)
IsArpReply(mem) ==
  /\ Swap(Read(mem, Data + 12, 2)) = Host(2054)
  /\ Swap(Read(mem, Data + 20, 2)) = Host(2)

IsLoopback(mem) == DstMac(mem) = SrcMac(mem)

(* The first flow of establishFlows, and the flow of sendLoopFlow.         *)
FlowMod_bytes(mem, x) ==
  Header_bytes(14, 80, Net(x)) \cup
    {W(8, 4, Net(1048595)), W(14, 6, DstMac(mem)), W(20, 6, SrcMac(mem)),
     W(62, 2, Net(32768)), W(64, 4, Net(AllOnes)), W(68, 2, Net(65535)),
     W(72, 2, Net(0)), W(74, 2, Net(8)), W(76, 2, InPort(mem))}

SaveFlow(list, s, raw, port) ==
  AddFlowNode(list, s, Read(raw, 20, 6)[2], Read(raw, 14, 6)[2], port)

(* Mutant: the second flow keeps the destination of the first.             *)
EstablishFlowsStale(mem, s, x, hosts, saved) ==
  LET first  == FlowMod_bytes(mem, x)
      port   == FindPort(hosts, s, DstMac(mem)[2])
      second == Over(first, {W(4, 4, Net((x + 1) % XidMod)), W(14, 6, SrcMac(mem)),
                             W(76, 2, Swap(Host(port)))})
      one    == SaveFlow(saved, s, first, Swap(InPort(mem))[2])
  IN  [out |-> <<Buffer(80, first), Buffer(80, second)>>,
       flows |-> SaveFlow(one, s, second, port)]

(* The second message is written over the first.                           *)
EstablishFlows(mem, s, x, hosts, saved) ==
  LET first  == FlowMod_bytes(mem, x)
      port   == FindPort(hosts, s, DstMac(mem)[2])
      second == Over(first, {W(4, 4, Net((x + 1) % XidMod)), W(14, 6, SrcMac(mem)),
                             W(20, 6, DstMac(mem)), W(76, 2, Swap(Host(port)))})
      one    == SaveFlow(saved, s, first, Swap(InPort(mem))[2])
  IN  [out |-> <<Buffer(80, first), Buffer(80, second)>>,
       flows |-> SaveFlow(one, s, second, port)]

(* total_len bytes of frame follow the 24 of header and action.            *)
MakeSendPacketOut(mem, x, output_port) ==
  LET total_len == Swap(Read(mem, 12, 2))[2]
      frame == {[f EXCEPT !.at = @ - Data + 24] : f \in {f \in mem : f.at >= Data}}
  IN  Buffer(24 + total_len,
        Header_bytes(13, 24 + total_len, Net(x)) \cup frame \cup
          {W(8, 4, Net(AllOnes)), W(12, 2, InPort(mem)), W(14, 2, Net(8)),
           W(16, 2, Net(0)), W(18, 2, Net(8)), W(20, 2, output_port)})

(* handlePacketIn past the reason: what it sends, and what it makes of the *)
(* two lists.                                                              *)
HandlePacketIn(mem, s) ==
  LET hosts == AddPathNode(ll, s, SrcMac(mem)[2], Swap(InPort(mem))[2])
      both  == EstablishFlows(mem, s, xid, hosts, flows)
      loop  == FlowMod_bytes(mem, xid)
  IN  IF IsArpReply(mem)
      THEN [out |-> Append(both.out, MakeSendPacketOut(mem, Xid(2), Net(65529))),
            ll |-> hosts, flows |-> both.flows]
      ELSE IF IsLoopback(mem)
      THEN [out |-> <<Buffer(80, loop)>>, ll |-> hosts,
            flows |-> SaveFlow(flows, s, loop, Swap(InPort(mem))[2])]
      ELSE [out |-> <<MakeSendPacketOut(mem, xid, Net(65531))>>,
            ll |-> hosts, flows |-> flows]

Sends(out) == [out |-> out, ll |-> ll, flows |-> flows]

(* recvData's dispatch, for the bytes that stand for m.                    *)
Reaction(m, s, kind) ==
  CASE m.type = "HELLO"          -> Sends(EstOFConnection(xid))
    [] m.type = "FEATURES_REPLY" -> Sends(SetConfig(xid))
    [] m.type = "ECHO_REQUEST"   ->
         Sends(SendEchoReply(Laid(Ofp_header(m.type, 8, m.xid)).mem))
    [] m.type = "PACKET_IN" /\ m # NoMatch ->
         HandlePacketIn(Ofp_packet_in(m, kind), s)
    [] OTHER                     -> Sends(<< >>)

---------------------------------------------------------------------------
(* The bytes handed to send are the messages Controller says, laid out as  *)
(* openflow.h has them, and the lists become what Controller says, for     *)
(* every frame that can stand for the abstract one: no literal offset,     *)
(* length or type is wrong, no integer in host order gets out, nothing of  *)
(* the first FLOW_MOD of establishFlows stays in the second.               *)
BytesAreMessages ==
  [][up' /\ rcvd' # rcvd =>
       LET r   == Last(rcvd')
           new == SubSeq(sent'[r.socket], Len(sent[r.socket]) + 1, Len(sent'[r.socket]))
       IN  \A kind \in FrameKinds("frame" \in DOMAIN r.msg /\ r.msg.frame.arp_reply) :
             Reaction(r.msg, r.socket, kind) =
               [out |-> [i \in DOMAIN new |-> Encoded(new[i], kind)],
                ll |-> ll', flows |-> flows']]_vars
=============================================================================
