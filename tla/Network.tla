------------------------------ MODULE Network ------------------------------
(***************************************************************************)
(* The controller with the network it serves: switches that look frames up *)
(* in flow tables, the links between them, and hosts that ask for each     *)
(* other (ARP) and send frames.  The handlers are Controller's.  Switches, *)
(* links and hosts are the environment, as OpenFlow 1.0 and the messages   *)
(* of controller.c require them to be: a frame that no flow matches goes   *)
(* to the controller with reason ACTION, by a rule of lowest priority that *)
(* is there from the start (frames with reason NO_MATCH are ignored).      *)
(*                                                                         *)
(* The controller may exit in any handler (a send that fails) and be       *)
(* started again: it then knows nothing, while the switches keep their     *)
(* flows.  The handshake changes none of this state and is left out.       *)
(***************************************************************************)
EXTENDS Controller, FiniteSets

CONSTANTS Home,        \* per host, the switch and port it is wired to
          Link,        \* per end <<switch, port>> of a link, its other end
          MaxFrames,   \* bound: frames the hosts send that are no replies
          MaxRestarts  \* bound: times the controller is started again

Hosts == Macs \ {Broadcast}

Ends == Sockets \X Ports

Wired == DOMAIN Link \cup {Home[h] : h \in Hosts}

ASSUME NetworkOK ==
  /\ \A h \in Hosts : Home[h] \in Ends \ DOMAIN Link
  /\ \A e \in DOMAIN Link : e \in Ends /\ Link[e] \in DOMAIN Link /\ Link[Link[e]] = e
  /\ MaxFrames \in Nat /\ MaxRestarts \in Nat

VARIABLES
  table,  \* per switch, the port of each pair <<src, dst>> with a flow
  read,   \* per switch, how many messages of `sent' it has carried out
  toCtl,  \* per switch, packet-ins the controller has not read
  wire,   \* per wired port, the frames on their way to the switch there
  got,    \* per host, the frames for it that arrived, in order
  said,   \* the frames the hosts sent
  life    \* how many times the controller was started again

net     == <<table, read, toCtl, wire, got, said, life>>
netvars == <<vars, net>>

NetInit ==
  /\ Init
  /\ table = [s \in Sockets |-> << >>]
  /\ read = [s \in Sockets |-> 0]
  /\ toCtl = [s \in Sockets |-> << >>]
  /\ wire = [e \in Wired |-> << >>]
  /\ got = [h \in Hosts |-> << >>]
  /\ said = {}
  /\ life = 0

---------------------------------------------------------------------------
(* Hosts *)

Received(h) == {got[h][i] : i \in DOMAIN got[h]}

Say(h, f) ==
  /\ said' = said \cup {f}
  /\ wire' = [wire EXCEPT ![Home[h]] = Append(@, f)]
  /\ UNCHANGED <<vars, table, read, toCtl, got, life>>

Initiated == {f \in said : ~ f.arp_reply}

(* A request for a host, or a frame to one whose address the sender has:   *)
(* from an answer, or because that host asked for it.  `whom' is the       *)
(* address asked for, which only hosts look at.                            *)
Send(h, whom) ==
  /\ Cardinality(Initiated) < MaxFrames /\ h # whom
  /\ \E dst \in {Broadcast} \cup ({whom} \cap {r.src : r \in Received(h)}) :
       Say(h, [dst |-> dst, src |-> h, arp_reply |-> FALSE, whom |-> whom,
               id |-> Cardinality(Initiated) + 1, life |-> life])

Reply(r) ==
  [dst |-> r.src, src |-> r.whom, arp_reply |-> TRUE, whom |-> r.src,
   id |-> MaxFrames + r.id, life |-> r.life]

Answer(h) ==
  \E r \in Received(h) :
    /\ r.dst = Broadcast /\ r.whom = h /\ Reply(r) \notin said
    /\ Say(h, Reply(r))

---------------------------------------------------------------------------
(* Switches *)

For(h, f) == f.dst \in {h, Broadcast}

(* f goes out through the ports in out, when the frames on the links are   *)
(* w: a link takes it to the switch at its other end, a host takes what is *)
(* for it.                                                                 *)
Output(s, out, f, w) ==
  /\ wire' = [e \in Wired |-> IF \E q \in out : <<s, q>> \in DOMAIN Link /\ Link[<<s, q>>] = e
                              THEN Append(w[e], f) ELSE w[e]]
  /\ got' = [h \in Hosts |-> IF For(h, f) /\ \E q \in out : Home[h] = <<s, q>>
                             THEN Append(got[h], f) ELSE got[h]]

(* f, come in at port p, meets the table.  A switch sends no frame back    *)
(* where it came from, and port 0 leads nowhere.                           *)
LookUp(s, p, f, w) ==
  IF <<f.src, f.dst>> \in DOMAIN table[s]
  THEN /\ Output(s, {table[s][<<f.src, f.dst>>]} \ {0, p}, f, w)
       /\ UNCHANGED toCtl
  ELSE /\ toCtl' = [toCtl EXCEPT ![s] = Append(@,
              [type |-> "PACKET_IN", reason |-> "ACTION", in_port |-> p, frame |-> f])]
       /\ wire' = w
       /\ UNCHANGED got

Forward(s, p) ==
  /\ <<s, p>> \in Wired /\ wire[<<s, p>>] # << >>
  /\ LookUp(s, p, Head(wire[<<s, p>>]), [wire EXCEPT ![<<s, p>>] = Tail(@)])
  /\ UNCHANGED <<vars, table, read, said, life>>

(* A flow replaces the one with the same match.                            *)
CarryOut(s) ==
  /\ read[s] < Len(sent[s])
  /\ read' = [read EXCEPT ![s] = @ + 1]
  /\ LET m == sent[s][read[s] + 1] IN
       \/ /\ m.type = "FLOW_MOD"
          /\ table' = [table EXCEPT ![s] =
               [k \in DOMAIN @ \cup {<<m.dl_src, m.dl_dst>>} |->
                  IF k = <<m.dl_src, m.dl_dst>> THEN m.port ELSE @[k]]]
          /\ UNCHANGED <<toCtl, wire, got>>
       \/ /\ m.type = "PACKET_OUT" /\ m.port = OFPP_TABLE
          /\ LookUp(s, m.in_port, m.frame, wire)
          /\ UNCHANGED table
       \/ /\ m.type = "PACKET_OUT" /\ m.port = OFPP_FLOOD
          /\ Output(s, Ports \ {m.in_port}, m.frame, wire)
          /\ UNCHANGED <<table, toCtl>>
  /\ UNCHANGED <<vars, said, life>>

---------------------------------------------------------------------------
(* The controller *)

Serve(s) ==
  /\ toCtl[s] # << >>
  /\ RecvPacketIn(s, Head(toCtl[s]))
  /\ toCtl' = [toCtl EXCEPT ![s] = Tail(@)]
  /\ UNCHANGED <<table, read, wire, got, said, life>>

(* The process exits between two messages: SIGINT, or a recv or accept     *)
(* that fails.                                                             *)
Exit ==
  /\ up /\ life < MaxRestarts
  /\ up' = FALSE
  /\ UNCHANGED <<ll, flows, xid, rcvd, sent, net>>

(* The process is started again, and the switches connect to it again.     *)
Restart ==
  /\ ~ up /\ life < MaxRestarts
  /\ life' = life + 1
  /\ up' = TRUE /\ ll' = ZeroRow /\ flows' = ZeroRow /\ xid' = 1 /\ rcvd' = << >>
  /\ sent' = [s \in Sockets |-> << >>]
  /\ read' = [s \in Sockets |-> 0]
  /\ toCtl' = [s \in Sockets |-> << >>]
  /\ UNCHANGED <<table, wire, got, said>>

Moves(s) == CarryOut(s) \/ Serve(s) \/ \E p \in Ports : Forward(s, p)

NetNext ==
  \/ \E h, whom \in Hosts : Send(h, whom)
  \/ \E h \in Hosts : Answer(h)
  \/ \E s \in Sockets : Moves(s)
  \/ Exit \/ Restart

NetSpec == NetInit /\ [][NetNext]_netvars

(* Serve(s), told by its history variable alone.                           *)
Served(s) ==
  /\ toCtl[s] # << >> /\ up
  /\ rcvd' = Append(rcvd, [socket |-> s, msg |-> Head(toCtl[s])])

(* Hosts answer, switches and links work, and the controller's loop serves *)
(* every connection in turn (EventLoop!EveryMessageHandled).  No host has  *)
(* to send a frame of its own, nobody has to start the controller again.   *)
NetFairSpec ==
  /\ NetSpec
  /\ WF_netvars(\E h \in Hosts : Answer(h))
  /\ \A s \in Sockets :
       /\ WF_netvars(CarryOut(s) \/ \E p \in Ports : Forward(s, p))
       /\ WF_rcvd(Served(s))

---------------------------------------------------------------------------
(* Observations the properties are about *)

Depth == Cardinality(Sockets)

(* The hosts a frame sent out of an end can get to over at most n links    *)
(* without coming back.                                                    *)
Behind[n \in 0 .. Depth] ==
  [e \in Ends |->
    {h \in Hosts : Home[h] = e} \cup
    IF n = 0 \/ e \notin DOMAIN Link THEN {}
    ELSE UNION {Behind[n - 1][d] :
                  d \in {d \in Wired : d[1] = Link[e][1] /\ d # Link[e]}}]

(* A host is behind one port of a switch only: no two links close a circle *)
(* on the way to a host.                                                   *)
OneWay ==
  \A s \in Sockets, p, q \in Ports :
    Behind[Depth][<<s, p>>] \cap Behind[Depth][<<s, q>>] # {} => p = q

(* Frames from src to dst that enter at end e come to dst by flows alone.  *)
Leads(src, dst) ==
  LET leads[n \in 0 .. Depth] ==
        [e \in Ends |->
          /\ n > 0 /\ <<src, dst>> \in DOMAIN table[e[1]]
          /\ LET out == <<e[1], table[e[1]][<<src, dst>>]>> IN
               /\ out # e
               /\ \/ Home[dst] = out
                  \/ out \in DOMAIN Link /\ leads[n - 1][Link[out]]]
  IN  leads[Depth][Home[src]]

---------------------------------------------------------------------------
(* Properties *)

(* A host is answered through the flows only: an answer that has arrived   *)
(* means that every switch on its way had the flow from the answering host *)
(* to this one, and has it from then on, also when the controller failed   *)
(* between any two sends or has been started again.                        *)
AnswersTakeFlows ==
  \A h \in Hosts : \A r \in Received(h) : r.arp_reply => Leads(r.src, h)

(* No flow sends a frame away from its destination, whatever a port was    *)
(* learned from and whenever: frames do not circle.                        *)
FlowsLeadOn ==
  \A s \in Sockets : \A k \in DOMAIN table[s] :
    table[s][k] # 0 => k[2] \in Behind[Depth][<<s, table[s][k]>>]

(* Flooding, forwarding by flows and handing back to the table together    *)
(* take no frame to a host twice.                                          *)
DeliveredOnce ==
  \A h \in Hosts : \A i, j \in DOMAIN got[h] : got[h][i].id = got[h][j].id => i = j

(* Every request is answered, unless the controller exits: every switch on *)
(* the way learns, floods, sets up its flows and passes the answer on.     *)
(* (Requests made before the controller was last started may be lost.)     *)
RequestIn(n) == \A h, whom \in Hosts :
  (\E f \in said : f.id = n /\ f.dst = Broadcast /\ f.src = h /\ f.whom = whom
                   /\ f.life = MaxRestarts)
    ~> (~ up \/ \E r \in Received(h) : r.id = MaxFrames + n)

RequestsAnswered == \A n \in 1 .. MaxFrames : RequestIn(n)

(* controller.c:666 "if arp reply is received, connection now flows two    *)
(* ways": once a host has its answer, every switch between the two gets    *)
(* the flows of both directions, unless the controller exits.              *)
FlowsTwoWays ==
  \A h, t \in Hosts :
    (\E r \in Received(h) : r.arp_reply /\ r.src = t)
      ~> (~ up \/ (Leads(h, t) /\ Leads(t, h)))

(* Every frame to a host arrives, unless the controller exits: by flows,   *)
(* or, where it comes to a switch before the answer that sets them up, by  *)
(* the controller, which floods it although its destination is known       *)
(* (controller.c:679 says it floods broadcasts only).                      *)
FramesArrive ==
  \A n \in 1 .. MaxFrames, h \in Hosts :
    (\E f \in said : f.id = n /\ f.dst = h) ~> (~ up \/ \E r \in Received(h) : r.id = n)
=============================================================================
