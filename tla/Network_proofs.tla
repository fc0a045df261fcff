---------------------------- MODULE Network_proofs ----------------------------
(***************************************************************************)
(* Theorems about module Network, for every number of switches, ports,     *)
(* hosts, frames and restarts, where the switches form a tree: flows never *)
(* lead away from the host they are for, also those of an earlier life of  *)
(* the controller, and stay; an answer arrives over flows; no frame comes  *)
(* to a host twice.                                                        *)
(***************************************************************************)
EXTENDS Network, Controller_proofs, FiniteSetTheorems

---------------------------------------------------------------------------
(* Types *)

Frames ==
  {f \in [dst : Macs, src : Hosts, arp_reply : BOOLEAN, whom : Hosts, id : Nat, life : Nat] :
     f.src # f.whom /\ f.dst \in {f.whom, Broadcast} /\ (f.arp_reply => f.dst = f.whom)}

Packets == [type : {"PACKET_IN"}, reason : {"ACTION"}, in_port : Ports, frame : Frames]

Outs == [type : {"PACKET_OUT"}, xid : Xids, in_port : Ports, frame : Frames,
         port : {OFPP_TABLE, OFPP_FLOOD}]

Orders == FlowMods \cup Outs

FlowTables == UNION {[K -> Ports \cup {0}] : K \in SUBSET (Macs \X Macs)}

NetTypeOK ==
  /\ ll \in Seq(PathRows) /\ ll # << >>
  /\ xid \in Xids
  /\ sent \in [Sockets -> Seq(Orders)]
  /\ table \in [Sockets -> FlowTables]
  /\ read \in [Sockets -> Nat]
  /\ toCtl \in [Sockets -> Seq(Packets)]
  /\ wire \in [Wired -> Seq(Frames)]
  /\ got \in [Hosts -> Seq(Frames)]
  /\ said \subseteq Frames /\ IsFiniteSet(said) /\ life \in Nat

---------------------------------------------------------------------------
(* Where hosts are *)

(* The frames that came in at port p of switch s and are there: on their   *)
(* last link, or on the way to the controller, or on the way back.         *)
Here(s, p) ==
  (IF <<s, p>> \in Wired THEN ToSet(wire[<<s, p>>]) ELSE {}) \cup
  {m.frame : m \in {m \in ToSet(toCtl[s]) : m.in_port = p}} \cup
  {m.frame : m \in {m \in ToSet(sent[s]) : m.type = "PACKET_OUT" /\ m.in_port = p}}

(* Frames, the list of hosts and flows agree on where hosts are.           *)
ComeFrom ==
  \A s \in Sockets, p \in Ports : \A f \in Here(s, p) : f.src \in Behind[Depth][<<s, p>>]

LearnedFrom ==
  \A s \in Sockets, h \in Macs :
    FindPort(ll, s, h) # 0 => h \in Behind[Depth][<<s, FindPort(ll, s, h)>>]

SentOn ==
  \A s \in Sockets : \A m \in ToSet(sent[s]) :
    m.type = "FLOW_MOD" /\ m.port # 0 => m.dl_dst \in Behind[Depth][<<s, m.port>>]

Placing == ComeFrom /\ LearnedFrom /\ SentOn /\ FlowsLeadOn

---------------------------------------------------------------------------
(* Flows stay *)

(* A host that some flow leads to has been heard of in this life.          *)
Heard ==
  \A s \in Sockets : \A m \in ToSet(sent[s]) :
    m.type = "FLOW_MOD" /\ m.port # 0 => FindPort(ll, s, m.dl_dst) # 0

Matches(m, src, dst) == m.type = "FLOW_MOD" /\ m.dl_src = src /\ m.dl_dst = dst

(* No flow that leads somewhere is followed by one that leads nowhere.     *)
Firm ==
  \A s \in Sockets : \A i, j \in DOMAIN sent[s] :
    /\ i < j /\ sent[s][i].type = "FLOW_MOD" /\ sent[s][i].port # 0
    /\ Matches(sent[s][j], sent[s][i].dl_src, sent[s][i].dl_dst)
    => sent[s][j].port # 0

FirmTable ==
  \A s \in Sockets : \A k \in DOMAIN table[s] : table[s][k] # 0 =>
    /\ \A j \in DOMAIN sent[s] :
         read[s] < j /\ Matches(sent[s][j], k[1], k[2]) => sent[s][j].port # 0
    /\ \A m \in ToSet(toCtl[s]) :
         m.frame.arp_reply /\ m.frame.src = k[1] /\ m.frame.dst = k[2] =>
           FindPort(ll, s, k[2]) # 0

---------------------------------------------------------------------------
(* Answers *)

(* A switch forwards an answer by its table only.                          *)
NotFlooded ==
  \A s \in Sockets : \A m \in ToSet(sent[s]) :
    m.type = "PACKET_OUT" /\ m.port = OFPP_FLOOD => ~ m.frame.arp_reply

(* The end at which frames from src to dst leave the switch they entered   *)
(* at e.                                                                   *)
Leaves(src, dst, e, out) ==
  <<src, dst>> \in DOMAIN table[e[1]] /\ out = <<e[1], table[e[1]][<<src, dst>>]>> /\ out # e

Chain(src, dst, n, q) ==
  /\ q \in [0 .. n -> Wired] /\ q[0] = Home[src]
  /\ \A i \in 0 .. n - 1 : \E out \in DOMAIN Link : Leaves(src, dst, q[i], out) /\ q[i + 1] = Link[out]

(* dst is to be reached from e within n switches.                          *)
Ahead(dst, n, e) == \E p \in Ports : p # e[2] /\ dst \in Behind[n][<<e[1], p>>]

(* The switches an answer has passed have its flow.                        *)
OnItsWay(f, e) ==
  \E n \in 0 .. Depth - 1 : \E q \in [0 .. n -> Wired] :
    Chain(f.src, f.dst, n, q) /\ q[n] = e /\ Ahead(f.dst, Depth - n - 1, e)

AnswersOnWay ==
  \A s \in Sockets, p \in Ports : \A f \in Here(s, p) : f.arp_reply => OnItsWay(f, <<s, p>>)

HasCome(f) ==
  \E n \in 0 .. Depth - 1 : \E q \in [0 .. n -> Wired] :
    Chain(f.src, f.dst, n, q) /\ Leaves(f.src, f.dst, q[n], Home[f.dst])

AnswersCame ==
  \A h \in Hosts : \A f \in Received(h) :
    /\ f.dst \in {h, Broadcast}
    /\ Ahead(f.src, Depth, Home[h])
    /\ f.arp_reply => HasCome(f)

---------------------------------------------------------------------------
(* The topology *)

LEMMA EndsAre ==
  /\ Wired \subseteq Ends
  /\ \A h \in Hosts : Home[h] \in Ends /\ Home[h] \in Wired /\ Home[h] \notin DOMAIN Link
  /\ \A e \in DOMAIN Link : e \in Ends /\ e \in Wired /\ Link[e] \in DOMAIN Link
                            /\ Link[e] \in Ends /\ Link[e] \in Wired /\ Link[Link[e]] = e
  /\ \A e \in Ends : e = <<e[1], e[2]>> /\ e[1] \in Sockets /\ e[2] \in Ports
  /\ \A s \in Sockets, p \in Ports : <<s, p>> \in Ends
  BY NetworkOK DEF Wired, Ends

LEMMA HostsAre == Hosts \subseteq Macs /\ Broadcast \in Macs /\ Broadcast \notin Hosts
  BY ConstantsOK DEF Hosts

(* A function can be applied any number of times.                          *)
Maps(G, W) == G \in [W -> W]
Iterated(F, W, b, G, N) ==
  F \in [0 .. N -> W] /\ F[0] = b /\ \A n \in 1 .. N : F[n] = G[F[n - 1]]

LEMMA Iterates ==
  ASSUME NEW W, NEW b \in W, NEW G, Maps(G, W), NEW N \in Nat
  PROVE  \E F : Iterated(F, W, b, G, N)
  <1>0. G \in [W -> W]
    BY DEF Maps
  <1> DEFINE Upto(n) == \E F \in [0 .. n -> W] : F[0] = b /\ \A k \in 1 .. n : F[k] = G[F[k - 1]]
  <1> DEFINE Bad == {n \in Nat : ~ Upto(n)}
  <1>1. CASE Bad = {}
    <2>1. Upto(N)
      BY <1>1
    <2> QED
      BY <2>1 DEF Iterated
  <1>2. CASE Bad # {}
    <2>1. PICK m \in Bad : \A k \in Bad : m <= k
      <3>1. Bad \in SUBSET Nat
        OBVIOUS
      <3> HIDE DEF Bad
      <3> QED
        BY <1>2, <3>1, LeastElement
    <2>2. m # 0
      <3> DEFINE F == [n \in 0 .. 0 |-> b]
      <3>1. F \in [0 .. 0 -> W] /\ F[0] = b /\ \A k \in 1 .. 0 : F[k] = G[F[k - 1]]
        OBVIOUS
      <3> HIDE DEF F
      <3>2. Upto(0)
        BY <3>1
      <3> QED
        BY <3>2
    <2>3. m - 1 \in Nat /\ Upto(m - 1)
      <3>1. m \in Nat
        OBVIOUS
      <3>2. m - 1 \in Nat /\ ~ m <= m - 1
        BY <2>2, <3>1
      <3>3. m - 1 \notin Bad
        BY <2>1, <3>2
      <3> QED
        BY <3>2, <3>3
    <2>4. PICK F \in [0 .. m - 1 -> W] : F[0] = b /\ \A k \in 1 .. m - 1 : F[k] = G[F[k - 1]]
      BY <2>3
    <2> DEFINE H == [n \in 0 .. m |-> IF n = m THEN G[F[m - 1]] ELSE F[n]]
    <2>5. m \in Nat /\ m > 0
      BY <2>2
    <2> HIDE DEF Bad
    <2>6. H \in [0 .. m -> W]
      <3>1. m - 1 \in 0 .. m - 1 /\ \A n \in 0 .. m : n # m => n \in 0 .. m - 1
        BY <2>5
      <3> QED
        BY <1>0, <3>1
    <2>7. H[0] = b
      BY <2>4, <2>5
    <2>8. \A k \in 1 .. m : H[k] = G[H[k - 1]]
      <3> TAKE k \in 1 .. m
      <3>1. k - 1 \in 0 .. m /\ k - 1 # m /\ k \in 0 .. m /\ H[k - 1] = F[k - 1]
        BY <2>5
      <3>2. CASE k = m
        BY <3>1, <3>2
      <3>3. CASE k # m
        <4>1. k \in 1 .. m - 1
          BY <2>5, <3>3
        <4> QED
          BY <2>4, <3>1, <3>3, <4>1
      <3> QED
        BY <3>2, <3>3
    <2> HIDE DEF H
    <2>9. Upto(m)
      BY <2>6, <2>7, <2>8
    <2> QED
      BY <2>9 DEF Bad
  <1> QED
    BY <1>1, <1>2

(* The recursion of Behind, step by step.                                  *)
Beyond(e) == {d \in Wired : d[1] = Link[e][1] /\ d # Link[e]}

FurtherThan(B, n) ==
  [e \in Ends |->
    {h \in Hosts : Home[h] = e} \cup
    IF n = 0 \/ e \notin DOMAIN Link THEN {} ELSE UNION {B[n - 1][d] : d \in Beyond(e)}]

LEMMA BehindIs ==
  ASSUME Depth \in Nat
  PROVE  \A n \in 0 .. Depth : Behind[n] = FurtherThan(Behind, n)
  <1> DEFINE Eq(B) == B = [n \in 0 .. Depth |-> FurtherThan(B, n)]
  <1> DEFINE W == [Ends -> SUBSET Hosts]
  <1> DEFINE b == [e \in Ends |-> {h \in Hosts : Home[h] = e}]
  <1> DEFINE next(w) == [e \in Ends |->
                           {h \in Hosts : Home[h] = e} \cup
                           IF e \notin DOMAIN Link THEN {} ELSE UNION {w[d] : d \in Beyond(e)}]
  <1> DEFINE G == [w \in W |-> next(w)]
  <1>1. b \in W
    OBVIOUS
  <1>2. ASSUME NEW w \in W PROVE next(w) \in W
    <2> SUFFICES ASSUME NEW e \in Ends
                 PROVE  {h \in Hosts : Home[h] = e} \cup
                        (IF e \notin DOMAIN Link THEN {} ELSE UNION {w[d] : d \in Beyond(e)})
                          \in SUBSET Hosts
      OBVIOUS
    <2>1. \A d \in Beyond(e) : w[d] \in SUBSET Hosts
      BY EndsAre DEF Beyond
    <2> QED
      BY <2>1
  <1>3. G \in [W -> W]
    BY <1>2
  <1> HIDE DEF b, W
  <1>4. PICK F : F \in [0 .. Depth -> W] /\ F[0] = b /\ \A n \in 1 .. Depth : F[n] = G[F[n - 1]]
    <2> HIDE DEF G
    <2>1. b \in W /\ Maps(G, W)
      BY <1>1, <1>3 DEF Maps
    <2>2. \E F : Iterated(F, W, b, G, Depth)
      BY <2>1, Iterates
    <2> QED
      BY <2>2 DEF Iterated
  <1>5. \A n \in 0 .. Depth : F[n] = FurtherThan(F, n)
    <2> TAKE n \in 0 .. Depth
    <2>1. CASE n = 0
      BY <1>4, <2>1 DEF FurtherThan, b
    <2>2. CASE n # 0
      <3>1. n \in 1 .. Depth /\ n - 1 \in 0 .. Depth
        BY <2>2
      <3>2. F[n] = next(F[n - 1])
        BY <1>4, <3>1
      <3> QED
        BY <2>2, <3>2 DEF FurtherThan
    <2> QED
      BY <2>1, <2>2
  <1>6. Eq(F)
    <2>1. F = [n \in 0 .. Depth |-> F[n]]
      BY <1>4
    <2>2. [n \in 0 .. Depth |-> F[n]] = [n \in 0 .. Depth |-> FurtherThan(F, n)]
      BY <1>5
    <2> QED
      BY <2>1, <2>2
  <1>7. Behind = CHOOSE B : Eq(B)
    BY DEF Behind, FurtherThan, Beyond
  <1>8. Eq(Behind)
    <2> HIDE DEF Eq
    <2> QED
      BY <1>6, <1>7
  <1> QED
    BY <1>8

LEMMA BehindTyped ==
  ASSUME Depth \in Nat, NEW n \in 0 .. Depth, NEW e \in Ends
  PROVE  /\ Behind[n][e] \subseteq Hosts
         /\ \A h \in Hosts :
              h \in Behind[n][e] <=>
                \/ Home[h] = e
                \/ n # 0 /\ e \in DOMAIN Link /\ \E d \in Beyond(e) : h \in Behind[n - 1][d]
  <1>1. ASSUME NEW k \in 0 .. Depth, NEW c \in Ends
        PROVE  Behind[k][c] = {h \in Hosts : Home[h] = c} \cup
                 IF k = 0 \/ c \notin DOMAIN Link THEN {}
                 ELSE UNION {Behind[k - 1][d] : d \in Beyond(c)}
    <2>1. Behind[k] = FurtherThan(Behind, k)
      BY BehindIs
    <2>2. FurtherThan(Behind, k)[c] =
            {h \in Hosts : Home[h] = c} \cup
              IF k = 0 \/ c \notin DOMAIN Link THEN {}
              ELSE UNION {Behind[k - 1][d] : d \in Beyond(c)}
      BY DEF FurtherThan
    <2> QED
      BY <2>1, <2>2
  <1> DEFINE Sub(k) == \A c \in Ends : Behind[k][c] \subseteq Hosts
  <1> DEFINE Bad == {k \in 0 .. Depth : ~ Sub(k)}
  <1>2. Bad = {}
    <2> SUFFICES ASSUME Bad # {} PROVE FALSE
      OBVIOUS
    <2>1. PICK m \in Bad : \A k \in Bad : m <= k
      <3>1. Bad \in SUBSET Nat
        OBVIOUS
      <3> HIDE DEF Bad
      <3> QED
        BY <3>1, LeastElement
    <2>2. m \in 0 .. Depth
      OBVIOUS
    <2>3. ASSUME m # 0 PROVE m - 1 \in 0 .. Depth /\ Sub(m - 1)
      <3>1. m - 1 \in 0 .. Depth /\ ~ m <= m - 1
        BY <2>2, <2>3
      <3>2. m - 1 \notin Bad
        BY <2>1, <3>1
      <3> QED
        BY <3>1, <3>2
    <2>4. ASSUME NEW c \in Ends PROVE Behind[m][c] \subseteq Hosts
      <3>1. \A d \in Beyond(c) : d \in Ends
        BY EndsAre DEF Beyond
      <3>2. m = 0 \/ \A d \in Beyond(c) : Behind[m - 1][d] \subseteq Hosts
        BY <2>3, <3>1
      <3> QED
        BY <1>1, <2>2, <3>2
    <2> QED
      BY <2>4
  <1>3. Sub(n)
    BY <1>2
  <1> QED
    BY <1>1, <1>3

(* More links lead to more hosts.                                          *)
LEMMA BehindGrows ==
  ASSUME Depth \in Nat, NEW n \in 0 .. Depth, NEW k \in 0 .. n, NEW e \in Ends
  PROVE  Behind[k][e] \subseteq Behind[n][e]
  <1> DEFINE One(m) == \A c \in Ends : Behind[m][c] \subseteq Behind[m + 1][c]
  <1> DEFINE Bad == {m \in 0 .. Depth - 1 : ~ One(m)}
  <1>1. Bad = {}
    <2> SUFFICES ASSUME Bad # {} PROVE FALSE
      OBVIOUS
    <2>1. PICK m \in Bad : \A i \in Bad : m <= i
      <3>1. Bad \in SUBSET Nat
        OBVIOUS
      <3> HIDE DEF Bad
      <3> QED
        BY <3>1, LeastElement
    <2>2. m \in 0 .. Depth - 1 /\ m \in 0 .. Depth /\ m + 1 \in 0 .. Depth /\ m + 1 # 0 /\ (m + 1) - 1 = m
      OBVIOUS
    <2>3. ASSUME m # 0 PROVE m - 1 \in 0 .. Depth /\ One(m - 1) /\ (m - 1) + 1 = m
      <3>1. m - 1 \in 0 .. Depth - 1 /\ ~ m <= m - 1 /\ (m - 1) + 1 = m
        BY <2>2, <2>3
      <3>2. m - 1 \notin Bad
        BY <2>1, <3>1
      <3> QED
        BY <3>1, <3>2
    <2>4. ASSUME NEW c \in Ends, NEW h \in Behind[m][c] PROVE h \in Behind[m + 1][c]
      <3>0. h \in Hosts
        BY <2>2, BehindTyped
      <3>1. CASE Home[h] = c
        BY <2>2, <3>0, <3>1, BehindTyped
      <3>2. ASSUME m # 0, c \in DOMAIN Link, NEW d \in Beyond(c), h \in Behind[m - 1][d]
            PROVE  h \in Behind[m + 1][c]
        <4>1. d \in Ends
          BY EndsAre DEF Beyond
        <4>2. h \in Behind[m][d]
          BY <2>3, <3>2, <4>1
        <4> QED
          BY <2>2, <3>0, <3>2, <4>2, BehindTyped
      <3> QED
        BY <2>2, <3>0, <3>1, <3>2, BehindTyped
    <2> QED
      BY <2>4
  <1>2. \A m \in 0 .. Depth - 1 : One(m)
    BY <1>1
  <1> DEFINE Worse == {m \in 0 .. n : m >= k /\ ~ Behind[k][e] \subseteq Behind[m][e]}
  <1>3. Worse = {}
    <2> SUFFICES ASSUME Worse # {} PROVE FALSE
      OBVIOUS
    <2>1. PICK m \in Worse : \A i \in Worse : m <= i
      <3>1. Worse \in SUBSET Nat
        OBVIOUS
      <3> HIDE DEF Worse
      <3> QED
        BY <3>1, LeastElement
    <2>2. m \in 0 .. n /\ m >= k /\ m # k
      OBVIOUS
    <2>3. m - 1 \in 0 .. n /\ m - 1 >= k /\ ~ m <= m - 1 /\ m - 1 \in 0 .. Depth - 1 /\ (m - 1) + 1 = m
      BY <2>2
    <2>4. m - 1 \notin Worse
      BY <2>1, <2>3
    <2>5. Behind[k][e] \subseteq Behind[m - 1][e]
      BY <2>3, <2>4
    <2>6. Behind[m - 1][e] \subseteq Behind[m][e]
      BY <1>2, <2>3
    <2> QED
      BY <2>5, <2>6
  <1> QED
    BY <1>3

(* No host is farther than there are switches: a way that passes a switch  *)
(* twice leaves it by the same port, and can be cut short.                 *)
LEMMA NoDetour ==
  ASSUME OneWay, IsFiniteSet(Sockets), NEW e \in Ends
  PROVE  /\ Depth \in Nat /\ Depth - 1 \in 0 .. Depth
         /\ Behind[Depth][e] \subseteq Behind[Depth - 1][e]
  <1>1. Depth \in Nat
    BY FS_CardinalityType DEF Depth
  <1>2. Depth # 0
    BY FS_EmptySet, EndsAre DEF Depth
  <1>3. Depth - 1 \in 0 .. Depth
    BY <1>1, <1>2
  <1> SUFFICES ASSUME NEW h \in Behind[Depth][e], h \notin Behind[Depth - 1][e] PROVE FALSE
    BY <1>1, <1>3
  <1>4. h \in Hosts
    BY <1>1, BehindTyped
  <1> DEFINE Nearest(n, c) == h \in Behind[n][c] /\ (n = 0 \/ h \notin Behind[n - 1][c])
  <1> DEFINE Passed(n) == \E T \in SUBSET Sockets :
                            /\ IsFiniteSet(T) /\ Cardinality(T) = n + 1
                            /\ \A t \in T : \E m \in 0 .. n, d \in Ends : d[1] = t /\ Nearest(m, d)
  <1> DEFINE Bad == {n \in 0 .. Depth : ~ \A c \in Ends : Nearest(n, c) => Passed(n)}
  <1>5. Bad = {}
    <2> SUFFICES ASSUME Bad # {} PROVE FALSE
      OBVIOUS
    <2>1. PICK n \in Bad : \A i \in Bad : n <= i
      <3>1. Bad \in SUBSET Nat
        OBVIOUS
      <3> HIDE DEF Bad
      <3> QED
        BY <3>1, LeastElement
    <2>2. n \in 0 .. Depth
      OBVIOUS
    <2>3. ASSUME n # 0 PROVE n - 1 \in 0 .. Depth /\ \A d \in Ends : Nearest(n - 1, d) => Passed(n - 1)
      <3>1. n - 1 \in 0 .. Depth /\ ~ n <= n - 1
        BY <1>1, <2>2, <2>3
      <3>2. n - 1 \notin Bad
        BY <2>1, <3>1
      <3> QED
        BY <3>1, <3>2
    <2>4. ASSUME NEW c \in Ends, Nearest(n, c) PROVE Passed(n)
      <3>1. CASE n = 0
        <4> DEFINE T == {c[1]}
        <4>1. T \in SUBSET Sockets /\ IsFiniteSet(T) /\ Cardinality(T) = 1
          <5>1. c[1] \in Sockets
            BY EndsAre
          <5>2. IsFiniteSet(T) /\ Cardinality(T) = 1
            BY FS_Singleton
          <5> QED
            BY <5>1, <5>2
        <4>2. \A t \in T : \E m \in 0 .. 0, d \in Ends : d[1] = t /\ Nearest(m, d)
          BY <2>4, <3>1
        <4> HIDE DEF T, Nearest
        <4> QED
          BY <3>1, <4>1, <4>2
      <3>2. CASE n # 0
        <4>1. n - 1 \in 0 .. Depth /\ n - 1 \in Nat /\ n \in Nat
          BY <1>1, <2>2, <3>2
        <4>2. Home[h] # c
          BY <1>1, <1>4, <2>4, <3>2, <4>1, BehindTyped
        <4>3. PICK d \in Beyond(c) : c \in DOMAIN Link /\ h \in Behind[n - 1][d]
          BY <1>1, <1>4, <2>2, <2>4, <4>2, BehindTyped
        <4>4. d \in Ends
          BY EndsAre DEF Beyond
        <4>5. Nearest(n - 1, d)
          <5> SUFFICES ASSUME n - 1 # 0, h \in Behind[(n - 1) - 1][d] PROVE FALSE
            BY <4>3
          <5>1. h \in Behind[n - 1][c]
            BY <1>1, <1>4, <4>1, <4>3, BehindTyped
          <5> QED
            BY <2>4, <3>2, <5>1
        <4>6. Passed(n - 1)
          BY <2>3, <3>2, <4>4, <4>5
        <4>7. PICK T \in SUBSET Sockets :
                /\ IsFiniteSet(T) /\ Cardinality(T) = n
                /\ \A t \in T : \E m \in 0 .. n - 1, b \in Ends : b[1] = t /\ Nearest(m, b)
          <5>1. (n - 1) + 1 = n
            BY <4>1
          <5> HIDE DEF Nearest
          <5> QED
            BY <4>6, <5>1
        <4>8. c[1] \notin T
          <5> SUFFICES ASSUME c[1] \in T PROVE FALSE
            OBVIOUS
          <5>1. PICK m \in 0 .. n - 1, b \in Ends : b[1] = c[1] /\ Nearest(m, b)
            <6> HIDE DEF Nearest
            <6> QED
              BY <4>7
          <5>2. m \in 0 .. Depth /\ m \in 0 .. n - 1 /\ n \in 0 .. Depth /\ Depth \in 0 .. Depth
            BY <1>1, <2>2, <4>1
          <5>3. h \in Behind[Depth][b] /\ h \in Behind[Depth][c]
            BY <1>1, <2>4, <5>1, <5>2, BehindGrows
          <5>4. b = <<c[1], b[2]>> /\ c = <<c[1], c[2]>> /\ c[1] \in Sockets
                /\ b[2] \in Ports /\ c[2] \in Ports
            BY <5>1, EndsAre
          <5>5. b[2] = c[2]
            BY <5>3, <5>4 DEF OneWay
          <5>6. h \in Behind[m][c]
            BY <5>1, <5>4, <5>5
          <5>7. h \in Behind[n - 1][c]
            BY <1>1, <4>1, <5>2, <5>6, BehindGrows
          <5> QED
            BY <2>4, <3>2, <5>7
        <4> DEFINE S == T \cup {c[1]}
        <4>9. S \in SUBSET Sockets /\ IsFiniteSet(S) /\ Cardinality(S) = n + 1
          BY <4>7, <4>8, EndsAre, FS_AddElement
        <4>10. \A t \in S : \E m \in 0 .. n, b \in Ends : b[1] = t /\ Nearest(m, b)
          <5>1. n \in 0 .. n /\ \A m \in 0 .. n - 1 : m \in 0 .. n
            BY <4>1
          <5> HIDE DEF Nearest
          <5> QED
            BY <2>4, <4>7, <5>1
        <4> HIDE DEF S, Nearest
        <4> QED
          BY <4>9, <4>10
      <3> QED
        BY <3>1, <3>2
    <2> QED
      BY <2>4
  <1>6. Passed(Depth)
    <2>1. Depth \in 0 .. Depth /\ Nearest(Depth, e)
      BY <1>1
    <2> HIDE DEF Nearest, Passed
    <2> QED
      BY <1>5, <2>1
  <1>7. PICK T \in SUBSET Sockets : Cardinality(T) = Depth + 1
    BY <1>6
  <1>8. Cardinality(T) <= Depth
    BY FS_Subset DEF Depth
  <1> QED
    BY <1>1, <1>7, <1>8

---------------------------------------------------------------------------
(* Sequences *)

LEMMA Elements ==
  ASSUME NEW X, NEW q \in Seq(X)
  PROVE  /\ ToSet(q) \subseteq X /\ (ToSet(q) = {} <=> q = << >>)
         /\ \A x \in X : Append(q, x) \in Seq(X) /\ ToSet(Append(q, x)) = ToSet(q) \cup {x}
         /\ q # << >> => /\ Head(q) \in X /\ Tail(q) \in Seq(X)
                         /\ ToSet(q) = ToSet(Tail(q)) \cup {Head(q)}
         /\ DOMAIN q = 1 .. Len(q) /\ Len(q) \in Nat
  <1>1. DOMAIN q = 1 .. Len(q) /\ Len(q) \in Nat /\ \A i \in 1 .. Len(q) : q[i] \in X
    OBVIOUS
  <1>2. ASSUME NEW x \in X
        PROVE  Append(q, x) \in Seq(X) /\ ToSet(Append(q, x)) = ToSet(q) \cup {x}
    <2> DEFINE r == Append(q, x)
    <2>1. /\ r \in Seq(X) /\ Len(r) = Len(q) + 1 /\ DOMAIN r = 1 .. Len(q) + 1
          /\ r[Len(q) + 1] = x /\ \A i \in 1 .. Len(q) : r[i] = q[i]
      BY AppendProperties
    <2> HIDE DEF r
    <2>2. ASSUME NEW i \in 1 .. Len(q) + 1 PROVE i \in 1 .. Len(q) \/ i = Len(q) + 1
      BY <1>1
    <2>3. ToSet(r) \subseteq ToSet(q) \cup {x}
      BY <1>1, <2>1, <2>2 DEF ToSet
    <2>4. Len(q) + 1 \in 1 .. Len(q) + 1 /\ \A i \in 1 .. Len(q) : i \in 1 .. Len(q) + 1
      BY <1>1
    <2>5. ToSet(q) \cup {x} \subseteq ToSet(r)
      BY <1>1, <2>1, <2>4 DEF ToSet
    <2> QED
      BY <2>1, <2>3, <2>5 DEF r
  <1>3. ASSUME q # << >>
        PROVE  /\ Head(q) \in X /\ Tail(q) \in Seq(X)
               /\ ToSet(q) = ToSet(Tail(q)) \cup {Head(q)}
    <2> DEFINE r == Tail(q)
    <2>1. /\ Head(q) = q[1] /\ Head(q) \in X /\ r \in Seq(X) /\ Len(r) = Len(q) - 1
          /\ \A i \in 1 .. Len(q) - 1 : r[i] = q[i + 1]
      BY <1>3, HeadTailProperties
    <2>2. DOMAIN r = 1 .. Len(q) - 1 /\ Len(q) # 0
      BY <1>3, <2>1
    <2> HIDE DEF r
    <2>3. ToSet(r) \cup {Head(q)} \subseteq ToSet(q)
      <3>1. \A i \in 1 .. Len(q) - 1 : i + 1 \in 1 .. Len(q)
        BY <1>1
      <3>2. 1 \in 1 .. Len(q)
        BY <1>1, <2>2
      <3>3. Head(q) \in ToSet(q)
        BY <1>1, <2>1, <3>2 DEF ToSet
      <3>4. \A i \in 1 .. Len(q) - 1 : r[i] \in ToSet(q)
        BY <1>1, <2>1, <3>1 DEF ToSet
      <3> QED
        BY <2>2, <3>3, <3>4 DEF ToSet
    <2>4. ToSet(q) \subseteq ToSet(r) \cup {Head(q)}
      <3> SUFFICES ASSUME NEW i \in 1 .. Len(q) PROVE q[i] \in ToSet(r) \cup {Head(q)}
        BY <1>1 DEF ToSet
      <3>1. CASE i = 1
        BY <2>1, <3>1
      <3>2. CASE i # 1
        <4>1. i - 1 \in 1 .. Len(q) - 1 /\ (i - 1) + 1 = i
          BY <1>1, <3>2
        <4>2. r[i - 1] = q[i]
          BY <2>1, <4>1
        <4> QED
          BY <2>2, <4>1, <4>2 DEF ToSet
      <3> QED
        BY <3>1, <3>2
    <2> QED
      BY <2>1, <2>3, <2>4 DEF r
  <1>4. ToSet(q) \subseteq X
    BY <1>1 DEF ToSet
  <1>5. ToSet(q) = {} <=> q = << >>
    <2>1. q = << >> <=> Len(q) = 0
      OBVIOUS
    <2>2. Len(q) # 0 => 1 \in 1 .. Len(q)
      BY <1>1
    <2> QED
      BY <1>1, <2>1, <2>2 DEF ToSet
  <1> QED
    BY <1>1, <1>2, <1>3, <1>4, <1>5

(* The first k elements of out at the end of q.                            *)
Extended(r, q, out, k) == r = q \o SubSeq(out, 1, k)

LEMMA Longer ==
  ASSUME NEW q \in Seq(Orders), NEW out \in Seq(Orders), NEW k \in 0 .. Len(out),
         NEW r, Extended(r, q, out, k)
  PROVE  /\ r \in Seq(Orders) /\ Len(q) \in Nat /\ DOMAIN q = 1 .. Len(q)
         /\ DOMAIN r = 1 .. Len(q) + k
         /\ \A i \in 1 .. Len(q) : r[i] = q[i]
         /\ \A i \in 1 .. k : r[Len(q) + i] = out[i]
         /\ ToSet(r) = ToSet(q) \cup {out[i] : i \in 1 .. k}
  <1>0. r = q \o SubSeq(out, 1, k)
    BY DEF Extended
  <1> DEFINE part == SubSeq(out, 1, k)
  <1>1. /\ part \in Seq(Orders) /\ Len(part) = k
        /\ \A i \in 1 .. k : part[i] = out[i]
    <2>1. Len(out) \in Nat /\ \A i \in 1 .. k : out[i] \in Orders
      OBVIOUS
    <2>2. /\ part \in Seq(Orders) /\ Len(part) = IF 1 <= k THEN k - 1 + 1 ELSE 0
          /\ \A i \in 1 .. k - 1 + 1 : part[i] = out[1 + i - 1]
      BY <2>1, SubSeqProperties
    <2> HIDE DEF part
    <2> QED
      BY <2>1, <2>2
  <1>2. r = q \o part
    BY <1>0
  <1> HIDE DEF part
  <1>3. /\ r \in Seq(Orders) /\ Len(r) = Len(q) + Len(part)
        /\ \A i \in 1 .. Len(q) + Len(part) :
             r[i] = IF i <= Len(q) THEN q[i] ELSE part[i - Len(q)]
    BY <1>1, <1>2, ConcatProperties
  <1>4. Len(q) \in Nat /\ DOMAIN q = 1 .. Len(q) /\ k \in Nat
    OBVIOUS
  <1>5. DOMAIN r = 1 .. Len(q) + k
    BY <1>1, <1>3
  <1>6. \A i \in 1 .. Len(q) : r[i] = q[i]
    BY <1>1, <1>3, <1>4
  <1>7. ASSUME NEW i \in 1 .. k PROVE r[Len(q) + i] = out[i]
    <2>1. Len(q) + i \in 1 .. Len(q) + Len(part) /\ ~ Len(q) + i <= Len(q)
          /\ (Len(q) + i) - Len(q) = i
      BY <1>1, <1>4
    <2> QED
      BY <1>1, <1>3, <2>1
  <1>8. ToSet(r) = ToSet(q) \cup {out[i] : i \in 1 .. k}
    <2>1. ASSUME NEW j \in 1 .. Len(q) + k
          PROVE  r[j] \in ToSet(q) \cup {out[i] : i \in 1 .. k}
      <3>1. CASE j <= Len(q)
        <4>1. j \in 1 .. Len(q)
          BY <1>4, <3>1
        <4> QED
          BY <1>4, <1>6, <4>1 DEF ToSet
      <3>2. CASE ~ j <= Len(q)
        <4> DEFINE i == j - Len(q)
        <4>1. i \in 1 .. k /\ j = Len(q) + i
          BY <1>4, <3>2
        <4> HIDE DEF i
        <4> QED
          BY <1>7, <4>1
      <3> QED
        BY <3>1, <3>2
    <2>2. \A i \in 1 .. Len(q) : i \in 1 .. Len(q) + k
      BY <1>4
    <2>3. \A i \in 1 .. k : Len(q) + i \in 1 .. Len(q) + k
      BY <1>4
    <2>4. ToSet(q) \cup {out[i] : i \in 1 .. k} \subseteq ToSet(r)
      <3>1. \A i \in 1 .. Len(q) : q[i] \in ToSet(r)
        BY <1>5, <1>6, <2>2 DEF ToSet
      <3>2. \A i \in 1 .. k : out[i] \in ToSet(r)
        BY <1>5, <1>7, <2>3 DEF ToSet
      <3> QED
        BY <1>4, <3>1, <3>2 DEF ToSet
    <2> QED
      BY <1>5, <2>1, <2>4 DEF ToSet
  <1> QED
    BY <1>3, <1>4, <1>5, <1>6, <1>7, <1>8

---------------------------------------------------------------------------
(* What the controller makes of a packet-in *)

LEMMA OrdersTyped ==
  /\ \A x \in Xids, a, b \in Macs, port \in Ports \cup {0} :
       /\ FlowMod(x, a, b, port) \in Orders
       /\ FlowMod(x, a, b, port).type = "FLOW_MOD" /\ FlowMod(x, a, b, port).port = port
       /\ FlowMod(x, a, b, port).dl_src = a /\ FlowMod(x, a, b, port).dl_dst = b
  /\ \A x \in Xids, m \in Packets, port \in {OFPP_TABLE, OFPP_FLOOD} :
       /\ PacketOut(x, m, port) \in Orders
       /\ PacketOut(x, m, port).type = "PACKET_OUT" /\ PacketOut(x, m, port).port = port
       /\ PacketOut(x, m, port).in_port = m.in_port /\ PacketOut(x, m, port).frame = m.frame
  <1>1. ASSUME NEW x \in Xids, NEW a \in Macs, NEW b \in Macs, NEW port \in Ports \cup {0}
        PROVE  FlowMod(x, a, b, port) \in Orders
    BY DEF FlowMod, Orders, FlowMods
  <1>2. ASSUME NEW x \in Xids, NEW m \in Packets, NEW port \in {OFPP_TABLE, OFPP_FLOOD}
        PROVE  PacketOut(x, m, port) \in Orders
    BY DEF PacketOut, Orders, Outs, Packets
  <1> QED
    BY <1>1, <1>2 DEF FlowMod, PacketOut

LEMMA OrdersAre ==
  ASSUME NEW m \in Orders
  PROVE  /\ m.type = "FLOW_MOD" => /\ m.dl_src \in Macs /\ m.dl_dst \in Macs
                                   /\ m.port \in Ports \cup {0}
         /\ m.type = "PACKET_OUT" => /\ m.in_port \in Ports /\ m.frame \in Frames
                                     /\ m.port \in {OFPP_TABLE, OFPP_FLOOD}
  BY DEF Orders, FlowMods, Outs

LEMMA FramesAre ==
  ASSUME NEW f \in Frames
  PROVE  /\ f.src \in Hosts /\ f.src \in Macs /\ f.dst \in Macs /\ f.whom \in Hosts
         /\ f.src # f.whom /\ f.dst \in {f.whom, Broadcast} /\ f.dst # f.src
         /\ f.arp_reply => f.dst = f.whom
  BY HostsAre DEF Frames

(* o may be in the answer to packet-in m of s: a flow for its source, for  *)
(* its destination, or the frame itself.                                   *)
Answers(s, m, o) ==
  \/ /\ Matches(o, m.frame.dst, m.frame.src) /\ o.port = m.in_port
  \/ /\ Matches(o, m.frame.src, m.frame.dst) /\ o.port = FindPort(ll', s, m.frame.dst)
     /\ m.frame.arp_reply
  \/ /\ o.type = "PACKET_OUT" /\ o.in_port = m.in_port /\ o.frame = m.frame
     /\ o.port = OFPP_FLOOD => ~ m.frame.arp_reply

(* A frame is handed back once.                                            *)
OneFrame(out) ==
  \A i, j \in 1 .. Len(out) : out[i].type = "PACKET_OUT" /\ out[j].type = "PACKET_OUT" => i = j

(* s is served packet-in m, and the first k messages of out are sent.      *)
Serves(s, m, out, k) ==
  /\ m \in ToSet(toCtl[s]) /\ toCtl' = [toCtl EXCEPT ![s] = Tail(@)]
  /\ toCtl[s] # << >> /\ m = Head(toCtl[s])
  /\ sent' = [sent EXCEPT ![s] = @ \o SubSeq(out, 1, k)]
  /\ ll' = Learned(s, m) /\ ll' \in Seq(PathRows) /\ ll' # << >>
  /\ xid' \in Xids
  /\ \A i \in 1 .. Len(out) : Answers(s, m, out[i])
  /\ OneFrame(out)
  /\ UNCHANGED <<table, read, wire, got, said, life>>

LEMMA ServeIs ==
  ASSUME NetTypeOK, NEW s \in Sockets, Serve(s)
  PROVE  \E m \in Packets, out \in Seq(Orders) : \E k \in 0 .. Len(out) : Serves(s, m, out, k)
  <1> DEFINE m == Head(toCtl[s])
  <1>1. /\ toCtl[s] \in Seq(Packets) /\ toCtl[s] # << >> /\ RecvPacketIn(s, m)
        /\ toCtl' = [toCtl EXCEPT ![s] = Tail(@)]
        /\ UNCHANGED <<table, read, wire, got, said, life>>
    BY DEF Serve, NetTypeOK
  <1>2. m \in Packets /\ m \in ToSet(toCtl[s])
    BY <1>1, Elements
  <1>3. xid \in Xids /\ ll \in Seq(PathRows) /\ ll # << >>
    BY DEF NetTypeOK
  <1> HIDE DEF m
  <1>4. /\ m.in_port \in Ports /\ m.frame \in Frames
        /\ m.frame.src \in Macs /\ m.frame.dst \in Macs
    BY <1>2, FramesAre DEF Packets
  <1>5. Learned(s, m) \in Seq(PathRows) /\ Learned(s, m) # << >>
    BY <1>3, <1>4, AddedTyped DEF Learned
  <1>6. Xid(1) \in Xids /\ Xid(2) \in Xids /\ \A n \in Nat : Xid(n) \in Xids
    BY <1>3, XidInRange
  <1>7. ASSUME NEW out \in Seq(Orders), NEW n \in Nat, Handle(s, m, out, n), ll' = Learned(s, m),
               \A i \in 1 .. Len(out) : Answers(s, m, out[i]), OneFrame(out)
        PROVE  \E k \in 0 .. Len(out) : Serves(s, m, out, k)
    <2>1. PICK k \in 0 .. Len(out) : sent' = [sent EXCEPT ![s] = @ \o SubSeq(out, 1, k)]
      BY <1>7 DEF Handle
    <2>2. xid' \in Xids
      BY <1>6, <1>7 DEF Handle
    <2>3. m = Head(toCtl[s])
      BY DEF m
    <2> QED
      BY <1>1, <1>2, <1>5, <1>7, <2>1, <2>2, <2>3 DEF Serves
  <1>8. CASE RecvArpReply(s, m)
    <2> DEFINE back == FindPort(Learned(s, m), s, m.frame.dst)
    <2> DEFINE one == FlowMod(xid, m.frame.dst, m.frame.src, m.in_port)
    <2> DEFINE two == FlowMod(Xid(1), m.frame.src, m.frame.dst, back)
    <2> DEFINE three == PacketOut(Xid(2), m, OFPP_TABLE)
    <2>1. back \in Ports \cup {0}
      BY <1>5, BackPortTyped
    <2>2. m.frame.arp_reply /\ Handle(s, m, <<one, two, three>>, 3) /\ ll' = Learned(s, m)
      BY <1>8 DEF RecvArpReply
    <2>3. back = FindPort(ll', s, m.frame.dst)
      BY <2>2
    <2> HIDE DEF back
    <2>4. one \in Orders /\ two \in Orders /\ three \in Orders
      BY <1>2, <1>3, <1>4, <1>6, <2>1, OrdersTyped
    <2>5. Answers(s, m, one)
      BY <1>3, <1>4, OrdersTyped DEF Answers, Matches
    <2>6. Answers(s, m, two)
      BY <1>4, <1>6, <2>1, <2>2, <2>3, OrdersTyped DEF Answers, Matches
    <2>7. Answers(s, m, three)
      BY <1>2, <1>6, OrdersTyped DEF Answers, OFPP_TABLE, OFPP_FLOOD
    <2> HIDE DEF one, two, three
    <2> DEFINE out == <<one, two, three>>
    <2>8. Len(out) = 3 /\ out[1] = one /\ out[2] = two /\ out[3] = three /\ out \in Seq(Orders)
      BY <2>4
    <2>9. Handle(s, m, out, 3)
      BY <2>2
    <2> HIDE DEF out
    <2>10. \A i \in 1 .. Len(out) : Answers(s, m, out[i])
      <3> TAKE i \in 1 .. Len(out)
      <3>1. i = 1 \/ i = 2 \/ i = 3
        BY <2>8
      <3> QED
        BY <2>5, <2>6, <2>7, <2>8, <3>1
    <2>11. 3 \in Nat
      OBVIOUS
    <2>12. OneFrame(out)
      <3>1. one.type = "FLOW_MOD" /\ two.type = "FLOW_MOD"
        BY <1>3, <1>4, <1>6, <2>1, OrdersTyped DEF one, two
      <3> SUFFICES ASSUME NEW i \in 1 .. Len(out), out[i].type = "PACKET_OUT" PROVE i = 3
        BY DEF OneFrame
      <3>2. i = 1 \/ i = 2 \/ i = 3
        BY <2>8
      <3> QED
        BY <2>8, <3>1, <3>2
    <2> QED
      BY <1>2, <1>7, <2>2, <2>8, <2>9, <2>10, <2>11, <2>12
  <1>9. CASE RecvLoopback(s, m)
    <2> DEFINE one == FlowMod(xid, m.frame.dst, m.frame.src, m.in_port)
    <2> DEFINE out == <<one>>
    <2>1. Handle(s, m, out, 0) /\ ll' = Learned(s, m)
      BY <1>9 DEF RecvLoopback
    <2>2. one \in Orders /\ Answers(s, m, one)
      BY <1>3, <1>4, OrdersTyped DEF Answers, Matches
    <2> HIDE DEF one
    <2>3. out \in Seq(Orders) /\ 0 \in Nat /\ Len(out) = 1 /\ \A i \in 1 .. Len(out) : out[i] = one
      BY <2>2
    <2>4. OneFrame(out)
      BY <2>3 DEF OneFrame
    <2> HIDE DEF out
    <2> QED
      BY <1>2, <1>7, <2>1, <2>2, <2>3, <2>4
  <1>10. CASE RecvFlooded(s, m)
    <2> DEFINE one == PacketOut(xid, m, OFPP_FLOOD)
    <2> DEFINE out == <<one>>
    <2>1. Handle(s, m, out, 1) /\ ll' = Learned(s, m) /\ ~ m.frame.arp_reply
      BY <1>10 DEF RecvFlooded
    <2>2. one \in Orders /\ Answers(s, m, one)
      BY <1>2, <1>3, <2>1, OrdersTyped DEF Answers
    <2> HIDE DEF one
    <2>3. out \in Seq(Orders) /\ 1 \in Nat /\ Len(out) = 1 /\ \A i \in 1 .. Len(out) : out[i] = one
      BY <2>2
    <2>4. OneFrame(out)
      BY <2>3 DEF OneFrame
    <2> HIDE DEF out
    <2> QED
      BY <1>2, <1>7, <2>1, <2>2, <2>3, <2>4
  <1> QED
    BY <1>1, <1>8, <1>9, <1>10 DEF RecvPacketIn, m

---------------------------------------------------------------------------
(* How frames move *)

(* A frame that came in at port p of s may leave by port o: a flow says so, *)
(* or it is no answer and is flooded.                                      *)
Passes(s, p, o, f) ==
  /\ f \in Here(s, p) /\ o \in Ports /\ o # p
  /\ \/ <<f.src, f.dst>> \in DOMAIN table[s] /\ table[s][<<f.src, f.dst>>] = o
     \/ ~ f.arp_reply

Enters(e, f) ==
  \E h \in Hosts : /\ Home[h] = e /\ f.src = h /\ f \in Frames /\ f \in said'
                   /\ f.arp_reply => \E r \in Received(h) : r.src = f.dst

Crosses(e, f) ==
  \E s \in Sockets, p \in Ports, o \in Ports :
    Passes(s, p, o, f) /\ <<s, o>> \in DOMAIN Link /\ Link[<<s, o>>] = e

Reaches(h, f) ==
  /\ For(h, f)
  /\ \E s \in Sockets, p \in Ports, o \in Ports : Passes(s, p, o, f) /\ Home[h] = <<s, o>>

FramesMove ==
  /\ \A s \in Sockets, p \in Ports : \A f \in Here(s, p)' :
       f \in Here(s, p) \/ Enters(<<s, p>>, f) \/ Crosses(<<s, p>>, f)
  /\ \A h \in Hosts : \A f \in Received(h)' : f \in Received(h) \/ Reaches(h, f)

LEMMA HereIs ==
  ASSUME NetTypeOK, NEW s \in Sockets, NEW p \in Ports
  PROVE  /\ Here(s, p) \subseteq Frames
         /\ \A f : f \in Here(s, p) <=>
              \/ <<s, p>> \in Wired /\ f \in ToSet(wire[<<s, p>>])
              \/ \E m \in ToSet(toCtl[s]) : m.in_port = p /\ m.frame = f
              \/ \E m \in ToSet(sent[s]) : m.type = "PACKET_OUT" /\ m.in_port = p /\ m.frame = f
  <1>1. /\ toCtl[s] \in Seq(Packets) /\ sent[s] \in Seq(Orders)
        /\ <<s, p>> \in Wired => wire[<<s, p>>] \in Seq(Frames)
    BY DEF NetTypeOK
  <1>2. /\ ToSet(toCtl[s]) \subseteq Packets /\ ToSet(sent[s]) \subseteq Orders
        /\ <<s, p>> \in Wired => ToSet(wire[<<s, p>>]) \subseteq Frames
    BY <1>1, Elements
  <1>3. \A m \in ToSet(toCtl[s]) : m.frame \in Frames
    BY <1>2 DEF Packets
  <1>4. \A m \in ToSet(sent[s]) : m.type = "PACKET_OUT" => m.frame \in Frames
    BY <1>2, OrdersAre
  <1> QED
    BY <1>2, <1>3, <1>4 DEF Here

LEMMA ReceivedIs ==
  ASSUME NetTypeOK, NEW h \in Hosts
  PROVE  Received(h) = ToSet(got[h]) /\ Received(h) \subseteq Frames
  <1>1. got[h] \in Seq(Frames)
    BY DEF NetTypeOK
  <1> QED
    BY <1>1, Elements DEF Received, ToSet

(* What a switch puts on its links, or hands to the hosts.                 *)
Puts(s, out, f, w) == f \in Frames /\ w \in [Wired -> Seq(Frames)] /\ Output(s, out, f, w)

Went(s, out, f, w) ==
  /\ wire' \in [Wired -> Seq(Frames)] /\ got' \in [Hosts -> Seq(Frames)]
  /\ \A e \in Wired : \A g \in ToSet(wire'[e]) :
       \/ g \in ToSet(w[e])
       \/ g = f /\ \E q \in out : <<s, q>> \in DOMAIN Link /\ Link[<<s, q>>] = e
  /\ \A h \in Hosts : \A g \in ToSet(got'[h]) :
       \/ g \in ToSet(got[h])
       \/ g = f /\ For(h, f) /\ \E q \in out : Home[h] = <<s, q>>

LEMMA OutputIs ==
  ASSUME NetTypeOK, NEW s \in Sockets, NEW out, NEW f, NEW w, Puts(s, out, f, w)
  PROVE  Went(s, out, f, w)
  <1>0. f \in Frames /\ w \in [Wired -> Seq(Frames)] /\ Output(s, out, f, w)
    BY DEF Puts
  <1>1. \A e \in Wired : Append(w[e], f) \in Seq(Frames) /\ ToSet(Append(w[e], f)) = ToSet(w[e]) \cup {f}
    BY <1>0, Elements
  <1>2. got \in [Hosts -> Seq(Frames)]
    BY DEF NetTypeOK
  <1>3. \A h \in Hosts : Append(got[h], f) \in Seq(Frames)
                         /\ ToSet(Append(got[h], f)) = ToSet(got[h]) \cup {f}
    BY <1>0, <1>2, Elements
  <1>4. wire' \in [Wired -> Seq(Frames)] /\ got' \in [Hosts -> Seq(Frames)]
    BY <1>0, <1>1, <1>2, <1>3 DEF Output
  <1>5. ASSUME NEW e \in Wired, NEW g \in ToSet(wire'[e])
        PROVE  \/ g \in ToSet(w[e])
               \/ g = f /\ \E q \in out : <<s, q>> \in DOMAIN Link /\ Link[<<s, q>>] = e
    <2>1. CASE \E q \in out : <<s, q>> \in DOMAIN Link /\ Link[<<s, q>>] = e
      <3>1. wire'[e] = Append(w[e], f)
        BY <1>0, <2>1 DEF Output
      <3>2. g \in ToSet(w[e]) \cup {f}
        BY <1>1, <1>5, <3>1
      <3> QED
        BY <2>1, <3>2
    <2>2. CASE ~ \E q \in out : <<s, q>> \in DOMAIN Link /\ Link[<<s, q>>] = e
      <3>1. wire'[e] = w[e]
        BY <1>0, <2>2 DEF Output
      <3> QED
        BY <1>5, <3>1
    <2> QED
      BY <2>1, <2>2
  <1>6. ASSUME NEW h \in Hosts, NEW g \in ToSet(got'[h])
        PROVE  \/ g \in ToSet(got[h])
               \/ g = f /\ For(h, f) /\ \E q \in out : Home[h] = <<s, q>>
    <2>1. CASE For(h, f) /\ \E q \in out : Home[h] = <<s, q>>
      <3>1. got'[h] = Append(got[h], f)
        BY <1>0, <2>1 DEF Output
      <3> QED
        BY <1>3, <1>6, <2>1, <3>1
    <2>2. CASE ~ (For(h, f) /\ \E q \in out : Home[h] = <<s, q>>)
      <3>1. got'[h] = got[h]
        BY <1>0, <2>2 DEF Output
      <3> QED
        BY <1>6, <3>1
    <2> QED
      BY <2>1, <2>2
  <1> QED
    BY <1>4, <1>5, <1>6 DEF Went

(* A frame that came in at port p of s, and now goes out by some ports or, *)
(* when out is empty and missed holds, to the controller.                  *)
Packet(p, f) == [type |-> "PACKET_IN", reason |-> "ACTION", in_port |-> p, frame |-> f]

LEMMA SwitchMoves ==
  ASSUME NetTypeOK, NEW s \in Sockets, NEW p \in Ports, NEW f \in Here(s, p), NEW out,
         NEW w \in [Wired -> Seq(Frames)],
         \A e \in Wired : ToSet(w[e]) \subseteq ToSet(wire[e]),
         \/ Output(s, out, f, w) /\ toCtl' = toCtl
         \/ /\ wire' = w /\ got' = got
            /\ toCtl' = [toCtl EXCEPT ![s] = Append(@, Packet(p, f))],
         \A q \in out : Passes(s, p, q, f),
         sent' = sent
  PROVE  /\ FramesMove
         /\ wire' \in [Wired -> Seq(Frames)] /\ got' \in [Hosts -> Seq(Frames)]
         /\ toCtl' \in [Sockets -> Seq(Packets)]
  <1>0. /\ wire \in [Wired -> Seq(Frames)] /\ got \in [Hosts -> Seq(Frames)]
        /\ toCtl \in [Sockets -> Seq(Packets)] /\ f \in Frames
    BY HereIs DEF NetTypeOK
  <1>1. \A q \in out : q \in Ports
    BY DEF Passes
  <1>2. /\ wire' \in [Wired -> Seq(Frames)] /\ got' \in [Hosts -> Seq(Frames)]
        /\ \A e \in Wired : \A g \in ToSet(wire'[e]) : g \in ToSet(wire[e]) \/ Crosses(e, g)
        /\ \A h \in Hosts : \A g \in ToSet(got'[h]) : g \in ToSet(got[h]) \/ Reaches(h, g)
    <2>1. CASE Output(s, out, f, w)
      <3>1. Went(s, out, f, w)
        <4>1. NetTypeOK /\ s \in Sockets /\ Puts(s, out, f, w)
          BY <1>0, <2>1 DEF Puts
        <4> QED
          BY <4>1, OutputIs
      <3>2. \A e \in Wired : \A g \in ToSet(wire'[e]) : g \in ToSet(wire[e]) \/ Crosses(e, g)
        <4> TAKE e \in Wired
        <4> TAKE g \in ToSet(wire'[e])
        <4>1. CASE g \in ToSet(w[e])
          BY <4>1
        <4>2. CASE g = f /\ \E q \in out : <<s, q>> \in DOMAIN Link /\ Link[<<s, q>>] = e
          BY <1>1, <4>2 DEF Crosses
        <4> QED
          BY <3>1, <4>1, <4>2 DEF Went
      <3>3. \A h \in Hosts : \A g \in ToSet(got'[h]) : g \in ToSet(got[h]) \/ Reaches(h, g)
        BY <1>1, <3>1 DEF Went, Reaches
      <3> QED
        BY <3>1, <3>2, <3>3 DEF Went
    <2>2. CASE wire' = w /\ got' = got
      BY <1>0, <2>2
    <2> QED
      BY <2>1, <2>2
  <1>3. /\ toCtl' \in [Sockets -> Seq(Packets)]
        /\ \A t \in Sockets : \A m \in ToSet(toCtl'[t]) :
             m \in ToSet(toCtl[t]) \/ (t = s /\ m = Packet(p, f))
    <2>1. CASE toCtl' = toCtl
      BY <1>0, <2>1
    <2>2. CASE toCtl' = [toCtl EXCEPT ![s] = Append(@, Packet(p, f))]
      <3>1. Packet(p, f) \in Packets
        BY <1>0 DEF Packet, Packets
      <3>2. /\ Append(toCtl[s], Packet(p, f)) \in Seq(Packets)
            /\ ToSet(Append(toCtl[s], Packet(p, f))) = ToSet(toCtl[s]) \cup {Packet(p, f)}
        BY <1>0, <3>1, Elements
      <3>3. toCtl'[s] = Append(toCtl[s], Packet(p, f)) /\ \A t \in Sockets : t # s => toCtl'[t] = toCtl[t]
        BY <1>0, <2>2
      <3>4. toCtl' \in [Sockets -> Seq(Packets)]
        BY <1>0, <2>2, <3>2
      <3> QED
        BY <3>2, <3>3, <3>4
    <2> QED
      BY <2>1, <2>2
  <1>4. ASSUME NEW t \in Sockets, NEW o \in Ports, NEW g \in Here(t, o)'
        PROVE  g \in Here(t, o) \/ Crosses(<<t, o>>, g)
    <2>1. \/ <<t, o>> \in Wired /\ g \in ToSet(wire'[<<t, o>>])
          \/ \E m \in ToSet(toCtl'[t]) : m.in_port = o /\ m.frame = g
          \/ \E m \in ToSet(sent'[t]) : m.type = "PACKET_OUT" /\ m.in_port = o /\ m.frame = g
      BY <1>4 DEF Here
    <2>2. Packet(p, f).in_port = p /\ Packet(p, f).frame = f
      BY DEF Packet
    <2> QED
      BY <1>2, <1>3, <2>1, <2>2, HereIs
  <1>5. ASSUME NEW h \in Hosts, NEW g \in Received(h)' PROVE g \in Received(h) \/ Reaches(h, g)
    <2>1. g \in ToSet(got'[h])
      BY <1>5 DEF Received, ToSet
    <2> QED
      BY <1>2, <2>1, ReceivedIs
  <1> QED
    BY <1>2, <1>3, <1>4, <1>5 DEF FramesMove

(* What the controller does when it serves s packet-in m.                  *)
AfterServing(s, m) ==
  /\ m \in ToSet(toCtl[s]) /\ m = Head(toCtl[s]) /\ toCtl[s] # << >> /\ toCtl'[s] = Tail(toCtl[s])
  /\ ll' = Learned(s, m) /\ ll' \in Seq(PathRows) /\ ll' # << >>
  /\ xid' \in Xids
  /\ sent' \in [Sockets -> Seq(Orders)] /\ toCtl' \in [Sockets -> Seq(Packets)]
  /\ \A t \in Sockets : t # s => sent'[t] = sent[t] /\ toCtl'[t] = toCtl[t]
  /\ ToSet(toCtl'[s]) \subseteq ToSet(toCtl[s])
  /\ \A i \in DOMAIN sent[s] : i \in DOMAIN sent'[s] /\ sent'[s][i] = sent[s][i]
  /\ \A i \in DOMAIN sent'[s] : i \in DOMAIN sent[s] \/ Answers(s, m, sent'[s][i])
  /\ \A i \in DOMAIN sent'[s] \ DOMAIN sent[s], j \in DOMAIN sent[s] : j < i
  /\ \A i, j \in DOMAIN sent'[s] \ DOMAIN sent[s] :
       sent'[s][i].type = "PACKET_OUT" /\ sent'[s][j].type = "PACKET_OUT" => i = j
  /\ \A o \in ToSet(sent'[s]) : o \in ToSet(sent[s]) \/ Answers(s, m, o)
  /\ UNCHANGED <<table, read, wire, got, said, life>>

LEMMA ServeDoes ==
  ASSUME NetTypeOK, NEW s \in Sockets, Serve(s)
  PROVE  \E m \in Packets : AfterServing(s, m)
  <1>1. PICK m \in Packets, out \in Seq(Orders) : \E k \in 0 .. Len(out) : Serves(s, m, out, k)
    BY ServeIs
  <1>2. PICK k \in 0 .. Len(out) : Serves(s, m, out, k)
    BY <1>1
  <1>3. /\ sent \in [Sockets -> Seq(Orders)] /\ toCtl \in [Sockets -> Seq(Packets)]
        /\ sent' = [sent EXCEPT ![s] = @ \o SubSeq(out, 1, k)]
        /\ toCtl' = [toCtl EXCEPT ![s] = Tail(@)] /\ toCtl[s] # << >>
        /\ \A i \in 1 .. Len(out) : Answers(s, m, out[i])
        /\ OneFrame(out)
    BY <1>2 DEF Serves, NetTypeOK
  <1> DEFINE r == sent[s] \o SubSeq(out, 1, k)
  <1>4. sent'[s] = r /\ \A t \in Sockets : t # s => sent'[t] = sent[t] /\ toCtl'[t] = toCtl[t]
    BY <1>3
  <1>5. sent[s] \in Seq(Orders) /\ r = sent[s] \o SubSeq(out, 1, k)
    BY <1>3
  <1>6. Tail(toCtl[s]) \in Seq(Packets) /\ ToSet(Tail(toCtl[s])) \subseteq ToSet(toCtl[s])
    BY <1>3, Elements
  <1>7. /\ toCtl' \in [Sockets -> Seq(Packets)] /\ toCtl'[s] = Tail(toCtl[s])
    BY <1>3, <1>6
  <1>8. /\ r \in Seq(Orders) /\ Len(sent[s]) \in Nat /\ DOMAIN sent[s] = 1 .. Len(sent[s])
        /\ DOMAIN r = 1 .. Len(sent[s]) + k
        /\ \A i \in 1 .. Len(sent[s]) : r[i] = sent[s][i]
        /\ \A i \in 1 .. k : r[Len(sent[s]) + i] = out[i]
        /\ ToSet(r) = ToSet(sent[s]) \cup {out[i] : i \in 1 .. k}
    <2> HIDE DEF r
    <2> DEFINE q == sent[s]
    <2>1. q \in Seq(Orders) /\ Extended(r, q, out, k)
      BY <1>5 DEF Extended
    <2> HIDE DEF q
    <2>2. /\ r \in Seq(Orders) /\ Len(q) \in Nat /\ DOMAIN q = 1 .. Len(q)
          /\ DOMAIN r = 1 .. Len(q) + k
          /\ \A i \in 1 .. Len(q) : r[i] = q[i]
          /\ \A i \in 1 .. k : r[Len(q) + i] = out[i]
          /\ ToSet(r) = ToSet(q) \cup {out[i] : i \in 1 .. k}
      BY <2>1, Longer
    <2> QED
      BY <2>2 DEF q
  <1> HIDE DEF r
  <1>9. k \in Nat /\ \A i \in 1 .. k : i \in 1 .. Len(out)
    OBVIOUS
  <1>10. ASSUME NEW i \in DOMAIN r, i \notin DOMAIN sent[s]
         PROVE  /\ Answers(s, m, r[i]) /\ \A j \in DOMAIN sent[s] : j < i
                /\ i - Len(sent[s]) \in 1 .. Len(out) /\ r[i] = out[i - Len(sent[s])]
                /\ i \in Nat
    <2> DEFINE n == Len(sent[s])
    <2>1. n \in Nat /\ i \in 1 .. n + k /\ i \notin 1 .. n /\ DOMAIN sent[s] = 1 .. n
      BY <1>8, <1>10
    <2>2. \A x \in 1 .. k : r[n + x] = out[x]
      BY <1>8
    <2> HIDE DEF n
    <2>3. i - n \in 1 .. k /\ n + (i - n) = i /\ \A j \in 1 .. n : j < i
      BY <1>9, <2>1
    <2>4. r[i] = out[i - n]
      BY <2>2, <2>3
    <2> QED
      BY <1>3, <1>9, <2>1, <2>3, <2>4 DEF n
  <1>11. \A i \in DOMAIN sent[s] : i \in DOMAIN r /\ r[i] = sent[s][i]
    <2>1. \A i \in 1 .. Len(sent[s]) : i \in 1 .. Len(sent[s]) + k
      BY <1>8, <1>9
    <2> QED
      BY <1>8, <2>1
  <1>12. \A o \in ToSet(r) : o \in ToSet(sent[s]) \/ Answers(s, m, o)
    BY <1>3, <1>8, <1>9
  <1>13. sent' \in [Sockets -> Seq(Orders)]
    <2>1. sent' = [sent EXCEPT ![s] = r]
      BY <1>3 DEF r
    <2> QED
      BY <1>3, <1>8, <2>1
  <1>14. /\ m \in ToSet(toCtl[s]) /\ m = Head(toCtl[s]) /\ toCtl[s] # << >>
         /\ ll' = Learned(s, m) /\ ll' \in Seq(PathRows) /\ ll' # << >>
         /\ xid' \in Xids /\ UNCHANGED <<table, read, wire, got, said, life>>
    BY <1>2 DEF Serves
  <1>15. ASSUME NEW i \in DOMAIN r \ DOMAIN sent[s], NEW j \in DOMAIN r \ DOMAIN sent[s],
                r[i].type = "PACKET_OUT", r[j].type = "PACKET_OUT"
         PROVE  i = j
    <2>1. i - Len(sent[s]) = j - Len(sent[s])
      BY <1>3, <1>10, <1>15 DEF OneFrame
    <2> QED
      BY <1>8, <1>10, <2>1
  <1>16. AfterServing(s, m)
    BY <1>4, <1>6, <1>7, <1>10, <1>11, <1>12, <1>13, <1>14, <1>15 DEF AfterServing
  <1> QED
    BY <1>16

(* What a frame or a packet-in does not change.                            *)
LEMMA TypesStay ==
  ASSUME NetTypeOK, NotFlooded, sent' = sent, read' \in [Sockets -> Nat],
         UNCHANGED <<ll, xid, said, life>>,
         table' \in [Sockets -> FlowTables],
         wire' \in [Wired -> Seq(Frames)], got' \in [Hosts -> Seq(Frames)],
         toCtl' \in [Sockets -> Seq(Packets)]
  PROVE  NetTypeOK' /\ NotFlooded'
  BY DEF NetTypeOK, NotFlooded

Moved == NetTypeOK' /\ NotFlooded' /\ FramesMove

(* A host sends a frame of its own.                                        *)
LEMMA SayMoves ==
  ASSUME NetTypeOK, NotFlooded, NEW h \in Hosts, NEW f \in Frames, f.src = h,
         f.arp_reply => \E r \in Received(h) : r.src = f.dst,
         Say(h, f)
  PROVE  Moved
  <1>1. /\ wire \in [Wired -> Seq(Frames)] /\ wire' = [wire EXCEPT ![Home[h]] = Append(@, f)]
        /\ said' = said \cup {f} /\ said \subseteq Frames /\ IsFiniteSet(said)
        /\ UNCHANGED <<up, ll, flows, xid, rcvd, sent, table, read, toCtl, got, life>>
    BY DEF Say, NetTypeOK, vars
  <1>2. /\ Append(wire[Home[h]], f) \in Seq(Frames)
        /\ ToSet(Append(wire[Home[h]], f)) = ToSet(wire[Home[h]]) \cup {f}
    BY <1>1, EndsAre, Elements
  <1>3. wire' \in [Wired -> Seq(Frames)]
    BY <1>1, <1>2
  <1>4. said' \subseteq Frames /\ IsFiniteSet(said')
    BY <1>1, FS_AddElement
  <1>5. NetTypeOK' /\ NotFlooded'
    BY <1>1, <1>3, <1>4 DEF NetTypeOK, NotFlooded
  <1>6. ASSUME NEW s \in Sockets, NEW p \in Ports, NEW g \in Here(s, p)'
        PROVE  g \in Here(s, p) \/ Enters(<<s, p>>, g)
    <2>1. \/ <<s, p>> \in Wired /\ g \in ToSet(wire'[<<s, p>>])
          \/ g \in Here(s, p)
      BY <1>1, <1>6 DEF Here
    <2>2. CASE <<s, p>> \in Wired /\ g \in ToSet(wire'[<<s, p>>]) /\ <<s, p>> # Home[h]
      <3>1. wire'[<<s, p>>] = wire[<<s, p>>]
        BY <1>1, <2>2
      <3> QED
        BY <2>2, <3>1 DEF Here
    <2>3. CASE <<s, p>> \in Wired /\ g \in ToSet(wire'[<<s, p>>]) /\ <<s, p>> = Home[h]
      <3>1. wire'[<<s, p>>] = Append(wire[Home[h]], f)
        BY <1>1, <2>3
      <3>2. g \in ToSet(wire[Home[h]]) \/ g = f
        BY <1>2, <2>3, <3>1
      <3>3. Enters(<<s, p>>, f)
        BY <1>1, <2>3 DEF Enters
      <3> QED
        BY <2>3, <3>2, <3>3 DEF Here
    <2> QED
      BY <2>1, <2>2, <2>3
  <1>7. \A t \in Hosts : Received(t)' = Received(t)
    BY <1>1 DEF Received
  <1> QED
    BY <1>5, <1>6, <1>7 DEF Moved, FramesMove

LEMMA HostsMove ==
  ASSUME NetTypeOK, NotFlooded, NEW h \in Hosts, Answer(h) \/ \E whom \in Hosts : Send(h, whom)
  PROVE  Moved
  <1>1. said \subseteq Frames /\ IsFiniteSet(said) /\ life \in Nat
    BY DEF NetTypeOK
  <1>2. CASE Answer(h)
    <2>1. PICK r \in Received(h) : r.dst = Broadcast /\ r.whom = h /\ Say(h, Reply(r))
      BY <1>2 DEF Answer
    <2>2. r \in Frames
      BY ReceivedIs
    <2>3. r.src \in Hosts /\ r.src # h /\ r.id \in Nat /\ r.life \in Nat /\ MaxFrames \in Nat
      BY <2>1, <2>2, NetworkOK DEF Frames
    <2>4. Reply(r) \in Frames /\ Reply(r).src = h /\ Reply(r).dst = r.src
      BY <2>1, <2>3, HostsAre DEF Reply, Frames
    <2> HIDE DEF Reply
    <2> QED
      BY <2>1, <2>4, SayMoves
  <1>3. CASE \E whom \in Hosts : Send(h, whom)
    <2>1. PICK whom \in Hosts : Send(h, whom)
      BY <1>3
    <2> DEFINE asked(dst) == [dst |-> dst, src |-> h, arp_reply |-> FALSE, whom |-> whom,
                               id |-> Cardinality(Initiated) + 1, life |-> life]
    <2>2. PICK dst \in {Broadcast, whom} : Say(h, asked(dst))
      BY <2>1 DEF Send
    <2>3. Cardinality(Initiated) \in Nat
      <3>1. Initiated \subseteq said
        BY DEF Initiated
      <3>2. IsFiniteSet(Initiated)
        BY <1>1, <3>1, FS_Subset
      <3> QED
        BY <3>2, FS_CardinalityType
    <2>4. h # whom
      BY <2>1 DEF Send
    <2>5. asked(dst) \in Frames
      BY <1>1, <2>3, <2>4, HostsAre DEF Frames
    <2>6. asked(dst).src = h /\ ~ asked(dst).arp_reply
      OBVIOUS
    <2> HIDE DEF asked
    <2> QED
      BY <2>2, <2>5, <2>6, SayMoves
  <1> QED
    BY <1>2, <1>3

(* A switch looks a frame up that came in at its port p.                   *)
LEMMA LookUpMoves ==
  ASSUME NetTypeOK, NEW s \in Sockets, NEW p \in Ports, NEW f \in Here(s, p),
         NEW w \in [Wired -> Seq(Frames)],
         \A e \in Wired : ToSet(w[e]) \subseteq ToSet(wire[e]),
         LookUp(s, p, f, w), sent' = sent
  PROVE  /\ FramesMove
         /\ wire' \in [Wired -> Seq(Frames)] /\ got' \in [Hosts -> Seq(Frames)]
         /\ toCtl' \in [Sockets -> Seq(Packets)]
  <1> DEFINE hit == <<f.src, f.dst>> \in DOMAIN table[s]
  <1> DEFINE out == IF hit THEN {table[s][<<f.src, f.dst>>]} \ {0, p} ELSE {}
  <1>1. \/ Output(s, out, f, w) /\ toCtl' = toCtl
        \/ /\ wire' = w /\ got' = got
           /\ toCtl' = [toCtl EXCEPT ![s] = Append(@, Packet(p, f))]
    BY DEF LookUp, Packet
  <1>2. ASSUME NEW q \in out PROVE Passes(s, p, q, f)
    <2>1. hit /\ q = table[s][<<f.src, f.dst>>] /\ q # 0 /\ q # p
      BY <1>2
    <2>2. q \in Ports
      <3>1. table[s] \in FlowTables
        BY DEF NetTypeOK
      <3> QED
        BY <2>1, <3>1 DEF FlowTables
    <2> QED
      BY <2>1, <2>2 DEF Passes
  <1> HIDE DEF out
  <1> QED
    BY <1>1, <1>2, SwitchMoves

LEMMA ForwardMoves ==
  ASSUME NetTypeOK, NotFlooded, NEW s \in Sockets, NEW p \in Ports, Forward(s, p)
  PROVE  Moved
  <1> DEFINE e == <<s, p>>
  <1> DEFINE f == Head(wire[e])
  <1> DEFINE w == [wire EXCEPT ![e] = Tail(@)]
  <1>1. /\ e \in Wired /\ wire[e] # << >> /\ LookUp(s, p, f, w)
        /\ UNCHANGED <<ll, xid, sent, table, read, said, life>>
    BY DEF Forward, vars
  <1>2. wire \in [Wired -> Seq(Frames)] /\ table \in [Sockets -> FlowTables] /\ read \in [Sockets -> Nat]
    BY DEF NetTypeOK
  <1>3. Tail(wire[e]) \in Seq(Frames) /\ ToSet(wire[e]) = ToSet(Tail(wire[e])) \cup {f}
    BY <1>1, <1>2, Elements
  <1>4. w \in [Wired -> Seq(Frames)] /\ \A d \in Wired : ToSet(w[d]) \subseteq ToSet(wire[d])
    BY <1>1, <1>2, <1>3
  <1>5. f \in Here(s, p)
    BY <1>1, <1>3 DEF Here
  <1> HIDE DEF f, w
  <1>6. /\ FramesMove
        /\ wire' \in [Wired -> Seq(Frames)] /\ got' \in [Hosts -> Seq(Frames)]
        /\ toCtl' \in [Sockets -> Seq(Packets)]
    BY <1>1, <1>4, <1>5, LookUpMoves
  <1>7. NetTypeOK' /\ NotFlooded'
    BY <1>1, <1>2, <1>6, TypesStay
  <1> QED
    BY <1>6, <1>7 DEF Moved

(* The next message the controller sent to s.                              *)
Ordered(s) == sent[s][read[s] + 1]

LEMMA OrderIs ==
  ASSUME NetTypeOK, NEW s \in Sockets, CarryOut(s)
  PROVE  /\ Ordered(s) \in Orders /\ Ordered(s) \in ToSet(sent[s])
         /\ read[s] \in Nat /\ read[s] + 1 \in DOMAIN sent[s]
         /\ read' \in [Sockets -> Nat] /\ read'[s] = read[s] + 1
         /\ \A t \in Sockets : t # s => read'[t] = read[t]
         /\ UNCHANGED <<vars, said, life>>
  <1>1. /\ sent[s] \in Seq(Orders) /\ read \in [Sockets -> Nat] /\ read[s] < Len(sent[s])
        /\ read' = [read EXCEPT ![s] = @ + 1] /\ UNCHANGED <<vars, said, life>>
    BY DEF NetTypeOK, CarryOut
  <1>2. /\ DOMAIN sent[s] = 1 .. Len(sent[s]) /\ Len(sent[s]) \in Nat
        /\ ToSet(sent[s]) \subseteq Orders
    BY <1>1, Elements
  <1>3. read[s] \in Nat /\ read[s] + 1 \in DOMAIN sent[s]
    BY <1>1, <1>2
  <1>4. Ordered(s) \in ToSet(sent[s])
    BY <1>3 DEF Ordered, ToSet
  <1>5. read' \in [Sockets -> Nat] /\ read'[s] = read[s] + 1
        /\ \A t \in Sockets : t # s => read'[t] = read[t]
    BY <1>1, <1>3
  <1> QED
    BY <1>1, <1>2, <1>3, <1>4, <1>5

(* A flow that s sets up is in its table, and the others stay.             *)
FlowSetUp(s) ==
  /\ Ordered(s).type = "FLOW_MOD"
  /\ table' = [table EXCEPT ![s] =
       [k \in DOMAIN @ \cup {<<Ordered(s).dl_src, Ordered(s).dl_dst>>} |->
          IF k = <<Ordered(s).dl_src, Ordered(s).dl_dst>> THEN Ordered(s).port ELSE @[k]]]
  /\ UNCHANGED <<toCtl, wire, got>>

LEMMA FlowIs ==
  ASSUME NetTypeOK, NEW s \in Sockets, FlowSetUp(s), Ordered(s) \in Orders
  PROVE  /\ table' \in [Sockets -> FlowTables]
         /\ \A t \in Sockets : t # s => table'[t] = table[t]
         /\ \A k : k \in DOMAIN table'[s] <=>
                     k \in DOMAIN table[s] \/ k = <<Ordered(s).dl_src, Ordered(s).dl_dst>>
         /\ \A k \in DOMAIN table'[s] :
              table'[s][k] = IF k = <<Ordered(s).dl_src, Ordered(s).dl_dst>> THEN Ordered(s).port
                             ELSE table[s][k]
  <1> DEFINE o == Ordered(s)
  <1> DEFINE K == DOMAIN table[s] \cup {<<o.dl_src, o.dl_dst>>}
  <1> DEFINE T == [k \in K |-> IF k = <<o.dl_src, o.dl_dst>> THEN o.port ELSE table[s][k]]
  <1>1. table \in [Sockets -> FlowTables]
    BY DEF NetTypeOK
  <1>2. table' = [table EXCEPT ![s] = T]
    BY DEF FlowSetUp
  <1>3. o.dl_src \in Macs /\ o.dl_dst \in Macs /\ o.port \in Ports \cup {0}
    BY OrdersAre DEF FlowSetUp
  <1>4. DOMAIN table[s] \subseteq Macs \X Macs /\ table[s] \in [DOMAIN table[s] -> Ports \cup {0}]
    BY <1>1 DEF FlowTables
  <1>5. K \subseteq Macs \X Macs
    BY <1>3, <1>4
  <1> HIDE DEF o
  <1>6. T \in [K -> Ports \cup {0}]
    BY <1>3, <1>4
  <1> HIDE DEF K, T
  <1>7. T \in FlowTables
    BY <1>5, <1>6 DEF FlowTables
  <1>8. table' \in [Sockets -> FlowTables] /\ table'[s] = T
        /\ \A t \in Sockets : t # s => table'[t] = table[t]
    BY <1>1, <1>2, <1>7
  <1>9. DOMAIN T = K /\ \A k \in K : T[k] = IF k = <<o.dl_src, o.dl_dst>> THEN o.port ELSE table[s][k]
    BY DEF T
  <1> QED
    BY <1>8, <1>9 DEF K, o

LEMMA CarryOutMoves ==
  ASSUME NetTypeOK, NotFlooded, NEW s \in Sockets, CarryOut(s)
  PROVE  Moved
  <1> DEFINE m == Ordered(s)
  <1>1. /\ m \in Orders /\ m \in ToSet(sent[s]) /\ read' \in [Sockets -> Nat]
        /\ UNCHANGED <<ll, xid, sent, said, life>>
    BY OrderIs DEF vars
  <1>2. /\ wire \in [Wired -> Seq(Frames)] /\ got \in [Hosts -> Seq(Frames)]
        /\ toCtl \in [Sockets -> Seq(Packets)] /\ table \in [Sockets -> FlowTables]
    BY DEF NetTypeOK
  <1>3. CASE FlowSetUp(s)
    <2>1. table' \in [Sockets -> FlowTables]
      BY <1>1, <1>3, FlowIs
    <2>2. UNCHANGED <<toCtl, wire, got>>
      BY <1>3 DEF FlowSetUp
    <2>3. NetTypeOK' /\ NotFlooded'
      BY <1>1, <1>2, <2>1, <2>2, TypesStay
    <2>4. FramesMove
      BY <1>1, <2>2 DEF FramesMove, Here, Received
    <2> QED
      BY <2>3, <2>4 DEF Moved
  <1> DEFINE p == m.in_port
  <1> DEFINE f == m.frame
  <1>4. ASSUME m.type = "PACKET_OUT" PROVE p \in Ports /\ f \in Frames /\ f \in Here(s, p)
    <2>1. p \in Ports /\ f \in Frames
      BY <1>1, <1>4, OrdersAre
    <2> QED
      BY <1>1, <1>4, <2>1 DEF Here
  <1>5. CASE m.type = "PACKET_OUT" /\ LookUp(s, p, f, wire) /\ UNCHANGED table
    <2>1. p \in Ports /\ f \in Here(s, p)
      BY <1>4, <1>5
    <2>2. LookUp(s, p, f, wire) /\ sent' = sent /\ \A e \in Wired : ToSet(wire[e]) \subseteq ToSet(wire[e])
      BY <1>1, <1>5
    <2> HIDE DEF m, p, f
    <2>3. /\ FramesMove
          /\ wire' \in [Wired -> Seq(Frames)] /\ got' \in [Hosts -> Seq(Frames)]
          /\ toCtl' \in [Sockets -> Seq(Packets)]
      BY <1>2, <2>1, <2>2, LookUpMoves
    <2>4. NetTypeOK' /\ NotFlooded'
      BY <1>1, <1>2, <1>5, <2>3, TypesStay
    <2> QED
      BY <2>3, <2>4 DEF Moved
  <1>6. CASE /\ m.type = "PACKET_OUT" /\ m.port = OFPP_FLOOD
             /\ Output(s, Ports \ {p}, f, wire) /\ UNCHANGED <<table, toCtl>>
    <2> DEFINE out == Ports \ {p}
    <2>1. p \in Ports /\ f \in Here(s, p)
      BY <1>4, <1>6
    <2>2. Output(s, out, f, wire) /\ toCtl' = toCtl /\ sent' = sent
          /\ \A e \in Wired : ToSet(wire[e]) \subseteq ToSet(wire[e])
      BY <1>1, <1>6
    <2>3. ~ f.arp_reply
      BY <1>1, <1>6 DEF NotFlooded
    <2>4. \A q \in out : Passes(s, p, q, f)
      BY <2>1, <2>3 DEF Passes
    <2> HIDE DEF m, p, f, out
    <2>5. /\ FramesMove
          /\ wire' \in [Wired -> Seq(Frames)] /\ got' \in [Hosts -> Seq(Frames)]
          /\ toCtl' \in [Sockets -> Seq(Packets)]
      BY <1>2, <2>1, <2>2, <2>4, SwitchMoves
    <2>6. NetTypeOK' /\ NotFlooded'
      BY <1>1, <1>2, <1>6, <2>5, TypesStay
    <2> QED
      BY <2>5, <2>6 DEF Moved
  <1> QED
    BY <1>3, <1>5, <1>6 DEF CarryOut, FlowSetUp, Ordered

LEMMA ServeMoves ==
  ASSUME NetTypeOK, NotFlooded, NEW s \in Sockets, Serve(s)
  PROVE  Moved
  <1>1. PICK m \in Packets : AfterServing(s, m)
    BY ServeDoes
  <1>2. /\ m \in ToSet(toCtl[s]) /\ ll' \in Seq(PathRows) /\ ll' # << >> /\ xid' \in Xids
        /\ sent' \in [Sockets -> Seq(Orders)] /\ toCtl' \in [Sockets -> Seq(Packets)]
        /\ \A t \in Sockets : t # s => sent'[t] = sent[t] /\ toCtl'[t] = toCtl[t]
        /\ ToSet(toCtl'[s]) \subseteq ToSet(toCtl[s])
        /\ \A o \in ToSet(sent'[s]) : o \in ToSet(sent[s]) \/ Answers(s, m, o)
        /\ UNCHANGED <<table, read, wire, got, said, life>>
    BY <1>1 DEF AfterServing
  <1>3. NetTypeOK'
    BY <1>2 DEF NetTypeOK
  <1>4. ASSUME NEW t \in Sockets, NEW o \in ToSet(sent'[t])
        PROVE  o \in ToSet(sent[t]) \/ (t = s /\ Answers(s, m, o))
    BY <1>2, <1>4
  <1>5. NotFlooded'
    <2> SUFFICES ASSUME NEW t \in Sockets, NEW o \in ToSet(sent'[t]),
                        o.type = "PACKET_OUT", o.port = OFPP_FLOOD
                 PROVE  ~ o.frame.arp_reply
      BY DEF NotFlooded
    <2>1. CASE o \in ToSet(sent[t])
      BY <2>1 DEF NotFlooded
    <2>2. CASE Answers(s, m, o)
      BY <2>2 DEF Answers, Matches
    <2> QED
      BY <1>4, <2>1, <2>2
  <1>6. ASSUME NEW t \in Sockets, NEW p \in Ports, NEW g \in Here(t, p)' PROVE g \in Here(t, p)
    <2>1. \/ <<t, p>> \in Wired /\ g \in ToSet(wire[<<t, p>>])
          \/ \E o \in ToSet(toCtl'[t]) : o.in_port = p /\ o.frame = g
          \/ \E o \in ToSet(sent'[t]) : o.type = "PACKET_OUT" /\ o.in_port = p /\ o.frame = g
      BY <1>2, <1>6 DEF Here
    <2>2. CASE \E o \in ToSet(sent'[t]) : o.type = "PACKET_OUT" /\ o.in_port = p /\ o.frame = g
      <3>1. PICK o \in ToSet(sent'[t]) : o.type = "PACKET_OUT" /\ o.in_port = p /\ o.frame = g
        BY <2>2
      <3>2. CASE o \in ToSet(sent[t])
        BY <3>1, <3>2, HereIs
      <3>3. CASE t = s /\ Answers(s, m, o)
        <4>1. m.in_port = p /\ m.frame = g
          BY <3>1, <3>3 DEF Answers, Matches
        <4> QED
          BY <1>2, <3>3, <4>1, HereIs
      <3> QED
        BY <1>4, <3>2, <3>3
    <2>3. ToSet(toCtl'[t]) \subseteq ToSet(toCtl[t])
      BY <1>2
    <2> QED
      BY <2>1, <2>2, <2>3, HereIs
  <1>7. \A h \in Hosts : Received(h)' = Received(h)
    BY <1>2 DEF Received
  <1> QED
    BY <1>3, <1>5, <1>6, <1>7 DEF Moved, FramesMove

LEMMA StopMoves ==
  ASSUME NetTypeOK, NotFlooded, Exit \/ Restart
  PROVE  Moved
  <1>1. CASE Exit
    <2>1. UNCHANGED <<ll, xid, sent, table, read, toCtl, wire, got, said, life>>
      BY <1>1 DEF Exit, net
    <2>2. NetTypeOK' /\ NotFlooded'
      BY <2>1 DEF NetTypeOK, NotFlooded
    <2>3. FramesMove
      BY <2>1 DEF FramesMove, Here, Received
    <2> QED
      BY <2>2, <2>3 DEF Moved
  <1>2. CASE Restart
    <2>1. /\ life' = life + 1 /\ ll' = ZeroRow /\ xid' = 1
          /\ sent' = [s \in Sockets |-> << >>] /\ read' = [s \in Sockets |-> 0]
          /\ toCtl' = [s \in Sockets |-> << >>]
          /\ UNCHANGED <<table, wire, got, said>>
      BY <1>2 DEF Restart
    <2>2. ZeroRow \in Seq(PathRows) /\ ZeroRow # << >>
      BY DEF ZeroRow, PathRows, RowsOf
    <2>3. 1 \in Xids
      BY ConstantsOK DEF Xids
    <2>4. NetTypeOK'
      BY <2>1, <2>2, <2>3 DEF NetTypeOK
    <2>5. \A s \in Sockets : sent'[s] = << >> /\ toCtl'[s] = << >>
      BY <2>1
    <2>6. ToSet(<< >>) = {}
      BY DEF ToSet
    <2>7. NotFlooded'
      BY <2>5, <2>6 DEF NotFlooded
    <2>8. \A s \in Sockets, p \in Ports : Here(s, p)' \subseteq Here(s, p)
      BY <2>1, <2>5, <2>6 DEF Here
    <2>9. FramesMove
      BY <2>1, <2>8 DEF FramesMove, Received
    <2> QED
      BY <2>4, <2>7, <2>9 DEF Moved
  <1> QED
    BY <1>1, <1>2

LEMMA MovesStep == NetTypeOK /\ NotFlooded /\ NetNext => Moved
  BY HostsMove, ForwardMoves, CarryOutMoves, ServeMoves, StopMoves DEF NetNext, Moves

LEMMA MovesInit == NetInit => NetTypeOK /\ NotFlooded
  <1> SUFFICES ASSUME NetInit PROVE NetTypeOK /\ NotFlooded
    OBVIOUS
  <1>1. /\ ll = ZeroRow /\ xid = 1 /\ sent = [s \in Sockets |-> << >>]
        /\ table = [s \in Sockets |-> << >>] /\ read = [s \in Sockets |-> 0]
        /\ toCtl = [s \in Sockets |-> << >>] /\ wire = [e \in Wired |-> << >>]
        /\ got = [h \in Hosts |-> << >>] /\ said = {} /\ life = 0
    BY DEF NetInit, Init
  <1>2. ZeroRow \in Seq(PathRows) /\ ZeroRow # << >>
    BY DEF ZeroRow, PathRows, RowsOf
  <1>3. 1 \in Xids
    BY ConstantsOK DEF Xids
  <1>4. << >> \in FlowTables
    BY DEF FlowTables
  <1>5. IsFiniteSet({})
    BY FS_EmptySet
  <1>6. ToSet(<< >>) = {}
    BY DEF ToSet
  <1>7. NetTypeOK
    BY <1>1, <1>2, <1>3, <1>4, <1>5 DEF NetTypeOK
  <1> QED
    BY <1>1, <1>6, <1>7 DEF NotFlooded

---------------------------------------------------------------------------
(* Flows lead on *)

LEMMA NothingLearned ==
  \A s \in Sockets : \A h : FindPort(ZeroRow, s, h) = 0
  <1> SUFFICES ASSUME NEW s \in Sockets, NEW h PROVE FindPort(ZeroRow, s, h) = 0
    OBVIOUS
  <1>1. ZeroRow \in Seq(RowsOf({0}, {})) /\ Len(ZeroRow) = 1 /\ ZeroRow[1].socket = 0
    BY DEF ZeroRow, RowsOf
  <1>2. /\ Row(ZeroRow, s) \in 0 .. Len(ZeroRow)
        /\ Row(ZeroRow, s) # 0 => ZeroRow[Row(ZeroRow, s)].socket = s
    BY <1>1, RowIs
  <1>3. Row(ZeroRow, s) = 0
    BY <1>1, <1>2, ConstantsOK
  <1>4. NodesOf(ZeroRow, s) = << >>
    BY <1>3 DEF NodesOf
  <1>5. PathNodes({}, {}) = {} /\ ZeroRow \in Seq(RowsOf({0}, PathNodes({}, {})))
    BY <1>1 DEF PathNodes
  <1>6. PathIndex(ZeroRow, s, h) \in 0 .. Len(NodesOf(ZeroRow, s))
    BY <1>1, PathIndexIs
  <1>7. PathIndex(ZeroRow, s, h) = 0
    BY <1>4, <1>6
  <1> QED
    BY <1>7 DEF FindPort

LEMMA LearnedIs ==
  ASSUME NetTypeOK, NEW s \in Sockets, NEW m \in Packets, NEW t \in Sockets, NEW h
  PROVE  /\ FindPort(ll, t, h) \in Ports \cup {0}
         /\ FindPort(Learned(s, m), t, h) =
              IF t = s /\ h = m.frame.src /\ FindPort(ll, s, h) = 0 THEN m.in_port
              ELSE FindPort(ll, t, h)
         /\ m.in_port # 0
  <1> DEFINE S == Sockets \cup {0}
  <1> DEFINE mac == m.frame.src
  <1> DEFINE port == m.in_port
  <1>1. ll \in Seq(RowsOf(S, PathNodes(Macs, Ports))) /\ ll # << >> /\ s \in S
        /\ mac \in Macs /\ port \in Ports
    BY FramesAre DEF NetTypeOK, PathRows, Packets
  <1> HIDE DEF S, mac, port
  <1>2. FindPort(AddPathNode(ll, s, mac, port), t, h) =
          IF t = s /\ h = mac /\ ~ FindNode(ll, s, mac) THEN port ELSE FindPort(ll, t, h)
    BY <1>1, FindPortAfter
  <1>3. \A u, x : /\ FindPort(ll, u, x) \in Ports \cup {0}
                  /\ FindPort(ll, u, x) # 0 <=> FindNode(ll, u, x)
    BY <1>1, PortsArePositive, FindPortIs
  <1>4. port # 0
    BY <1>1, PortsArePositive
  <1> QED
    BY <1>2, <1>3, <1>4 DEF Learned, mac, port

Restarted ==
  /\ ll' = ZeroRow /\ UNCHANGED <<table, wire, got, said>>
  /\ \A s \in Sockets : sent'[s] = << >> /\ toCtl'[s] = << >> /\ read'[s] = 0

(* A step, as far as the controller, its messages and the tables go.       *)
LEMMA StepIs ==
  ASSUME NetTypeOK, NetNext
  PROVE  \/ UNCHANGED <<ll, sent, table, read, toCtl>>
         \/ \E s \in Sockets, p \in Ports : Forward(s, p)
         \/ \E s \in Sockets : CarryOut(s)
         \/ \E s \in Sockets, m \in Packets : AfterServing(s, m)
         \/ Restarted
  <1>1. CASE \E h \in Hosts : Answer(h) \/ \E whom \in Hosts : Send(h, whom)
    BY <1>1 DEF Answer, Send, Say, vars
  <1>2. CASE \E s \in Sockets : Serve(s)
    BY <1>2, ServeDoes
  <1>3. CASE Exit
    BY <1>3 DEF Exit, net
  <1>4. CASE Restart
    BY <1>4 DEF Restart, Restarted
  <1> QED
    BY <1>1, <1>2, <1>3, <1>4 DEF NetNext, Moves

(* The way on from a switch is longer, and still not too long.             *)
LEMMA Further ==
  ASSUME OneWay, IsFiniteSet(Sockets), NEW s \in Sockets, NEW p \in Ports, NEW o \in Ports, p # o,
         <<s, o>> \in DOMAIN Link, NEW h \in Behind[Depth][<<s, p>>]
  PROVE  h \in Behind[Depth][Link[<<s, o>>]]
  <1> DEFINE d == <<s, p>>
  <1> DEFINE e == Link[<<s, o>>]
  <1>1. d \in Ends /\ e \in Ends /\ e \in DOMAIN Link /\ Link[e] = <<s, o>>
    BY EndsAre
  <1>2. Depth \in Nat /\ Depth - 1 \in 0 .. Depth /\ h \in Behind[Depth - 1][d]
    BY <1>1, NoDetour
  <1>3. h \in Hosts /\ d \in Wired
    <2>1. h \in Hosts /\ (Home[h] = d \/ d \in DOMAIN Link)
      <3> HIDE DEF d
      <3> QED
        BY <1>1, <1>2, BehindTyped
    <2> QED
      BY <2>1, EndsAre
  <1>4. d \in Beyond(e)
    BY <1>1, <1>3 DEF Beyond
  <1>5. Depth # 0 /\ Depth \in 0 .. Depth
    BY <1>2
  <1> HIDE DEF d, e
  <1>6. h \in Behind[Depth][e]
    BY <1>1, <1>2, <1>3, <1>4, <1>5, BehindTyped
  <1> QED
    BY <1>6 DEF e

LEMMA AtHome ==
  ASSUME IsFiniteSet(Sockets), NEW h \in Hosts
  PROVE  h \in Behind[Depth][Home[h]]
  <1>1. Depth \in Nat
    BY FS_CardinalityType DEF Depth
  <1>2. Depth \in 0 .. Depth
    BY <1>1
  <1> QED
    BY <1>1, <1>2, EndsAre, BehindTyped

LEMMA PlacingInit == NetInit => Placing
  <1> SUFFICES ASSUME NetInit PROVE Placing
    OBVIOUS
  <1>1. /\ ll = ZeroRow /\ sent = [s \in Sockets |-> << >>]
        /\ table = [s \in Sockets |-> << >>]
        /\ toCtl = [s \in Sockets |-> << >>] /\ wire = [e \in Wired |-> << >>]
    BY DEF NetInit, Init
  <1>2. ToSet(<< >>) = {}
    BY DEF ToSet
  <1>3. \A s \in Sockets, p \in Ports : Here(s, p) = {}
    BY <1>1, <1>2 DEF Here
  <1>4. ComeFrom
    BY <1>3 DEF ComeFrom
  <1>5. LearnedFrom
    BY <1>1, NothingLearned DEF LearnedFrom
  <1>6. SentOn
    BY <1>1, <1>2 DEF SentOn
  <1>7. FlowsLeadOn
    BY <1>1 DEF FlowsLeadOn
  <1> QED
    BY <1>4, <1>5, <1>6, <1>7 DEF Placing

LEMMA ComeFromStep ==
  ASSUME OneWay, IsFiniteSet(Sockets), NetTypeOK, ComeFrom, FramesMove
  PROVE  ComeFrom'
  <1> SUFFICES ASSUME NEW s \in Sockets, NEW p \in Ports, NEW f \in Here(s, p)'
               PROVE  f.src \in Behind[Depth][<<s, p>>]
    BY DEF ComeFrom
  <1>1. CASE f \in Here(s, p)
    BY <1>1 DEF ComeFrom
  <1>2. CASE Enters(<<s, p>>, f)
    BY <1>2, AtHome DEF Enters
  <1>3. CASE Crosses(<<s, p>>, f)
    <2>1. PICK t \in Sockets, q \in Ports, o \in Ports :
            Passes(t, q, o, f) /\ <<t, o>> \in DOMAIN Link /\ Link[<<t, o>>] = <<s, p>>
      BY <1>3 DEF Crosses
    <2>2. f.src \in Behind[Depth][<<t, q>>] /\ q # o
      BY <2>1 DEF Passes, ComeFrom
    <2> QED
      BY <2>1, <2>2, Further
  <1> QED
    BY <1>1, <1>2, <1>3 DEF FramesMove

LEMMA PlacingStep ==
  ASSUME OneWay, IsFiniteSet(Sockets), NetTypeOK, NotFlooded, Placing, NetNext
  PROVE  Placing'
  <1>0. ComeFrom /\ LearnedFrom /\ SentOn /\ FlowsLeadOn
    BY DEF Placing
  <1>1. NetTypeOK' /\ FramesMove
    BY MovesStep DEF Moved
  <1>2. ComeFrom'
    BY <1>0, <1>1, ComeFromStep
  <1>3. CASE UNCHANGED <<ll, sent, table>>
    BY <1>0, <1>2, <1>3 DEF Placing, LearnedFrom, SentOn, FlowsLeadOn
  <1>4. ASSUME NEW s \in Sockets, CarryOut(s) PROVE Placing'
    <2>1. /\ Ordered(s) \in Orders /\ Ordered(s) \in ToSet(sent[s]) /\ UNCHANGED <<ll, sent>>
      BY <1>4, OrderIs DEF vars
    <2>2. UNCHANGED table \/ FlowSetUp(s)
      BY <1>4 DEF CarryOut, FlowSetUp, Ordered
    <2>3. ASSUME FlowSetUp(s), NEW t \in Sockets, NEW k \in DOMAIN table'[t], table'[t][k] # 0
          PROVE  k[2] \in Behind[Depth][<<t, table'[t][k]>>]
      <3>1. CASE t = s /\ k = <<Ordered(s).dl_src, Ordered(s).dl_dst>>
        <4>1. Ordered(s).type = "FLOW_MOD" /\ table'[t][k] = Ordered(s).port
          BY <2>1, <2>3, <3>1, FlowIs DEF FlowSetUp
        <4> QED
          BY <1>0, <2>1, <2>3, <3>1, <4>1 DEF SentOn
      <3>2. CASE ~ (t = s /\ k = <<Ordered(s).dl_src, Ordered(s).dl_dst>>)
        <4>1. k \in DOMAIN table[t] /\ table'[t][k] = table[t][k]
          BY <2>1, <2>3, <3>2, FlowIs
        <4> QED
          BY <1>0, <2>3, <4>1 DEF FlowsLeadOn
      <3> QED
        BY <3>1, <3>2
    <2>4. FlowsLeadOn'
      BY <1>0, <2>2, <2>3 DEF FlowsLeadOn
    <2>5. LearnedFrom' /\ SentOn'
      BY <1>0, <2>1 DEF LearnedFrom, SentOn
    <2> QED
      BY <1>2, <2>4, <2>5 DEF Placing
  <1>5. ASSUME NEW s \in Sockets, NEW m \in Packets, AfterServing(s, m) PROVE Placing'
    <2>1. /\ m \in ToSet(toCtl[s]) /\ ll' = Learned(s, m) /\ UNCHANGED table
          /\ \A t \in Sockets : t # s => sent'[t] = sent[t]
          /\ \A o \in ToSet(sent'[s]) : o \in ToSet(sent[s]) \/ Answers(s, m, o)
      BY <1>5 DEF AfterServing
    <2>2. /\ m.in_port \in Ports /\ m.frame \in Frames
          /\ m.frame.src \in Behind[Depth][<<s, m.in_port>>]
      <3>1. m.in_port \in Ports /\ m.frame \in Frames
        BY DEF Packets
      <3>2. m.frame \in Here(s, m.in_port)
        BY <2>1, <3>1 DEF Here
      <3> QED
        BY <1>0, <3>1, <3>2 DEF ComeFrom
    <2>3. ASSUME NEW t \in Sockets, NEW h \in Macs, FindPort(ll', t, h) # 0
          PROVE  h \in Behind[Depth][<<t, FindPort(ll', t, h)>>]
      <3>1. FindPort(ll', t, h) =
              IF t = s /\ h = m.frame.src /\ FindPort(ll, s, h) = 0 THEN m.in_port
              ELSE FindPort(ll, t, h)
        BY <2>1, LearnedIs
      <3> QED
        BY <1>0, <2>2, <2>3, <3>1 DEF LearnedFrom
    <2>4. ASSUME NEW t \in Sockets, NEW o \in ToSet(sent'[t]), o.type = "FLOW_MOD", o.port # 0
          PROVE  o.dl_dst \in Behind[Depth][<<t, o.port>>]
      <3>1. CASE o \in ToSet(sent[t])
        BY <1>0, <2>4, <3>1 DEF SentOn
      <3>2. CASE t = s /\ Answers(s, m, o)
        <4>1. CASE Matches(o, m.frame.dst, m.frame.src) /\ o.port = m.in_port
          BY <2>2, <3>2, <4>1 DEF Matches
        <4>2. CASE Matches(o, m.frame.src, m.frame.dst) /\ o.port = FindPort(ll', s, m.frame.dst)
          <5>1. m.frame.dst \in Macs
            BY <2>2, FramesAre
          <5> QED
            BY <2>3, <2>4, <3>2, <4>2, <5>1 DEF Matches
        <4> QED
          BY <2>4, <3>2, <4>1, <4>2 DEF Answers
      <3> QED
        BY <2>1, <2>4, <3>1, <3>2
    <2>5. LearnedFrom' /\ SentOn'
      BY <2>3, <2>4 DEF LearnedFrom, SentOn
    <2>6. FlowsLeadOn'
      BY <1>0, <2>1 DEF FlowsLeadOn
    <2> QED
      BY <1>2, <2>5, <2>6 DEF Placing
  <1>6. CASE Restarted
    <2>1. ToSet(<< >>) = {}
      BY DEF ToSet
    <2>2. LearnedFrom' /\ SentOn'
      BY <1>6, <2>1, NothingLearned DEF LearnedFrom, SentOn, Restarted
    <2>3. FlowsLeadOn'
      BY <1>0, <1>6 DEF FlowsLeadOn, Restarted
    <2> QED
      BY <1>2, <2>2, <2>3 DEF Placing
  <1>7. ASSUME NEW s \in Sockets, NEW p \in Ports, Forward(s, p) PROVE UNCHANGED <<ll, sent, table>>
    BY <1>7 DEF Forward, vars
  <1> QED
    BY <1>3, <1>4, <1>5, <1>6, <1>7, StepIs

---------------------------------------------------------------------------
(* Flows stay *)

Steady == Heard /\ Firm /\ FirmTable

LEMMA SteadyInit == NetInit => Steady
  <1> SUFFICES ASSUME NetInit PROVE Steady
    OBVIOUS
  <1>1. /\ sent = [s \in Sockets |-> << >>] /\ table = [s \in Sockets |-> << >>]
    BY DEF NetInit, Init
  <1>2. ToSet(<< >>) = {} /\ DOMAIN << >> = {}
    BY DEF ToSet
  <1> QED
    BY <1>1, <1>2 DEF Steady, Heard, Firm, FirmTable

(* Only frames without a flow go to the controller.                        *)
LEMMA PacketsMissed ==
  ASSUME NetTypeOK, NEW s \in Sockets, CarryOut(s) \/ \E p \in Ports : Forward(s, p),
         NEW t \in Sockets, NEW m \in ToSet(toCtl'[t])
  PROVE  m \in ToSet(toCtl[t]) \/ (t = s /\ <<m.frame.src, m.frame.dst>> \notin DOMAIN table[s])
  <1>1. toCtl \in [Sockets -> Seq(Packets)]
    BY DEF NetTypeOK
  <1>2. ASSUME NEW p \in Ports, NEW f \in Frames, NEW w, LookUp(s, p, f, w)
        PROVE  m \in ToSet(toCtl[t]) \/ (t = s /\ <<m.frame.src, m.frame.dst>> \notin DOMAIN table[s])
    <2>1. CASE toCtl' = toCtl
      BY <2>1
    <2>2. CASE /\ toCtl' = [toCtl EXCEPT ![s] = Append(@, Packet(p, f))]
               /\ <<f.src, f.dst>> \notin DOMAIN table[s]
      <3>1. Packet(p, f) \in Packets /\ Packet(p, f).frame = f
        BY DEF Packet, Packets
      <3>2. ToSet(Append(toCtl[s], Packet(p, f))) = ToSet(toCtl[s]) \cup {Packet(p, f)}
        BY <1>1, <3>1, Elements
      <3>3. toCtl'[s] = Append(toCtl[s], Packet(p, f)) /\ (t # s => toCtl'[t] = toCtl[t])
        BY <1>1, <2>2
      <3> QED
        BY <2>2, <3>1, <3>2, <3>3
    <2> QED
      BY <1>2, <2>1, <2>2 DEF LookUp, Packet
  <1>3. CASE CarryOut(s)
    <2>1. Ordered(s) \in Orders
      BY <1>3, OrderIs
    <2>2. \/ toCtl' = toCtl
          \/ /\ Ordered(s).type = "PACKET_OUT"
             /\ LookUp(s, Ordered(s).in_port, Ordered(s).frame, wire)
      BY <1>3 DEF CarryOut, Ordered
    <2>3. Ordered(s).type = "PACKET_OUT" => Ordered(s).in_port \in Ports /\ Ordered(s).frame \in Frames
      BY <2>1, OrdersAre
    <2> QED
      BY <1>2, <2>2, <2>3
  <1>4. ASSUME NEW p \in Ports, Forward(s, p)
        PROVE  m \in ToSet(toCtl[t]) \/ (t = s /\ <<m.frame.src, m.frame.dst>> \notin DOMAIN table[s])
    <2>1. /\ <<s, p>> \in Wired /\ wire[<<s, p>>] # << >>
          /\ LookUp(s, p, Head(wire[<<s, p>>]), [wire EXCEPT ![<<s, p>>] = Tail(@)])
      BY <1>4 DEF Forward
    <2>2. wire[<<s, p>>] \in Seq(Frames)
      BY <2>1 DEF NetTypeOK
    <2>3. Head(wire[<<s, p>>]) \in Frames
      BY <2>1, <2>2, Elements
    <2> QED
      BY <1>2, <2>1, <2>3
  <1> QED
    BY <1>3, <1>4

LEMMA SteadyServe ==
  ASSUME NetTypeOK, Steady, NEW s \in Sockets, NEW m \in Packets, AfterServing(s, m)
  PROVE  Steady'
  <1>1. /\ ll' = Learned(s, m) /\ UNCHANGED <<table, read>> /\ m \in ToSet(toCtl[s])
        /\ \A t \in Sockets : t # s => sent'[t] = sent[t] /\ toCtl'[t] = toCtl[t]
        /\ ToSet(toCtl'[s]) \subseteq ToSet(toCtl[s])
        /\ \A i \in DOMAIN sent[s] : i \in DOMAIN sent'[s] /\ sent'[s][i] = sent[s][i]
        /\ \A i \in DOMAIN sent'[s] : i \in DOMAIN sent[s] \/ Answers(s, m, sent'[s][i])
        /\ \A i \in DOMAIN sent'[s] \ DOMAIN sent[s], j \in DOMAIN sent[s] : j < i
        /\ \A o \in ToSet(sent'[s]) : o \in ToSet(sent[s]) \/ Answers(s, m, o)
    BY DEF AfterServing
  <1>2. Heard /\ Firm /\ FirmTable
    BY DEF Steady
  <1>3. ASSUME NEW t \in Sockets, NEW h
        PROVE  /\ FindPort(ll, t, h) # 0 => FindPort(ll', t, h) # 0
               /\ t = s /\ h = m.frame.src => FindPort(ll', t, h) # 0
    BY <1>1, LearnedIs
  <1>4. m.in_port # 0
    BY LearnedIs
  <1>5. Heard'
    <2> SUFFICES ASSUME NEW t \in Sockets, NEW o \in ToSet(sent'[t]), o.type = "FLOW_MOD", o.port # 0
                 PROVE  FindPort(ll', t, o.dl_dst) # 0
      BY DEF Heard
    <2>1. CASE o \in ToSet(sent[t])
      BY <1>2, <1>3, <2>1 DEF Heard
    <2>2. CASE t = s /\ Answers(s, m, o)
      BY <1>3, <2>2 DEF Answers, Matches
    <2> QED
      BY <1>1, <2>1, <2>2
  <1>6. Firm'
    <2> SUFFICES ASSUME NEW t \in Sockets, NEW i \in DOMAIN sent'[t], NEW j \in DOMAIN sent'[t],
                        i < j, sent'[t][i].type = "FLOW_MOD", sent'[t][i].port # 0,
                        Matches(sent'[t][j], sent'[t][i].dl_src, sent'[t][i].dl_dst)
                 PROVE  sent'[t][j].port # 0
      BY DEF Firm
    <2>1. CASE t # s
      BY <1>1, <1>2, <2>1 DEF Firm
    <2>2. CASE t = s /\ j \in DOMAIN sent[s]
      <3>1. i \in DOMAIN sent[s]
        <4> SUFFICES ASSUME i \notin DOMAIN sent[s] PROVE FALSE
          OBVIOUS
        <4>1. j < i
          BY <1>1, <2>2
        <4>2. sent[s] \in Seq(Orders) /\ sent'[s] \in Seq(Orders)
          BY DEF NetTypeOK, AfterServing
        <4>3. i \in Nat /\ j \in Nat
          BY <2>2, <4>2, Elements
        <4> QED
          BY <4>1, <4>3
      <3>2. sent'[s][i] = sent[s][i] /\ sent'[s][j] = sent[s][j]
        BY <1>1, <2>2, <3>1
      <3> QED
        BY <1>2, <2>2, <3>1, <3>2 DEF Firm
    <2>3. CASE t = s /\ j \notin DOMAIN sent[s]
      <3>1. Answers(s, m, sent'[s][j])
        BY <1>1, <2>3
      <3>2. FindPort(ll', s, sent'[s][i].dl_dst) # 0
        BY <1>5, <2>3 DEF Heard, ToSet
      <3> QED
        BY <1>4, <2>3, <3>1, <3>2 DEF Answers, Matches
    <2> QED
      BY <2>1, <2>2, <2>3
  <1>7. FirmTable'
    <2> SUFFICES ASSUME NEW t \in Sockets, NEW k \in DOMAIN table[t], table[t][k] # 0
                 PROVE  /\ \A j \in DOMAIN sent'[t] :
                             read[t] < j /\ Matches(sent'[t][j], k[1], k[2]) => sent'[t][j].port # 0
                        /\ \A n \in ToSet(toCtl'[t]) :
                             n.frame.arp_reply /\ n.frame.src = k[1] /\ n.frame.dst = k[2] =>
                               FindPort(ll', t, k[2]) # 0
      BY <1>1 DEF FirmTable
    <2>1. ASSUME NEW j \in DOMAIN sent'[t], read[t] < j, Matches(sent'[t][j], k[1], k[2])
          PROVE  sent'[t][j].port # 0
      <3>1. CASE j \in DOMAIN sent[t] /\ sent'[t][j] = sent[t][j]
        BY <1>2, <2>1, <3>1 DEF FirmTable
      <3>2. CASE t = s /\ Answers(s, m, sent'[s][j])
        <4>1. CASE sent'[s][j].port = m.in_port
          BY <1>4, <3>2, <4>1
        <4>2. CASE /\ Matches(sent'[s][j], m.frame.src, m.frame.dst) /\ m.frame.arp_reply
                   /\ sent'[s][j].port = FindPort(ll', s, m.frame.dst)
          <5>1. m.frame.src = k[1] /\ m.frame.dst = k[2]
            BY <2>1, <3>2, <4>2 DEF Matches
          <5>2. FindPort(ll, s, k[2]) # 0
            BY <1>1, <1>2, <3>2, <4>2, <5>1 DEF FirmTable
          <5>3. FindPort(ll', s, k[2]) # 0
            BY <1>3, <5>2
          <5> QED
            BY <3>2, <4>2, <5>1, <5>3
        <4> QED
          BY <2>1, <3>2, <4>1, <4>2 DEF Answers, Matches
      <3> QED
        BY <1>1, <3>1, <3>2
    <2>2. ASSUME NEW n \in ToSet(toCtl'[t]), n.frame.arp_reply, n.frame.src = k[1], n.frame.dst = k[2]
          PROVE  FindPort(ll', t, k[2]) # 0
      <3>1. n \in ToSet(toCtl[t])
        BY <1>1
      <3>2. FindPort(ll, t, k[2]) # 0
        BY <1>2, <2>2, <3>1 DEF FirmTable
      <3> QED
        BY <1>3, <3>2
    <2> QED
      BY <2>1, <2>2
  <1> QED
    BY <1>5, <1>6, <1>7 DEF Steady

LEMMA SteadyCarryOut ==
  ASSUME NetTypeOK, Steady, NEW s \in Sockets, CarryOut(s)
  PROVE  Steady'
  <1>1. /\ Ordered(s) \in Orders /\ Ordered(s) \in ToSet(sent[s])
        /\ read[s] \in Nat /\ read[s] + 1 \in DOMAIN sent[s]
        /\ read'[s] = read[s] + 1 /\ \A t \in Sockets : t # s => read'[t] = read[t]
        /\ UNCHANGED <<ll, sent>>
    BY OrderIs DEF vars
  <1>2. Heard /\ Firm /\ FirmTable
    BY DEF Steady
  <1>3. Heard' /\ Firm'
    BY <1>1, <1>2 DEF Heard, Firm
  <1>4. \A t \in Sockets : \A j \in DOMAIN sent[t] : read'[t] < j => read[t] < j
    <2> SUFFICES ASSUME NEW t \in Sockets, NEW j \in DOMAIN sent[t], read'[t] < j PROVE read[t] < j
      OBVIOUS
    <2>1. sent[t] \in Seq(Orders)
      BY DEF NetTypeOK
    <2>2. j \in Nat
      BY <2>1, Elements
    <2> QED
      BY <1>1, <2>2
  <1>5. UNCHANGED table \/ FlowSetUp(s)
    BY DEF CarryOut, FlowSetUp, Ordered
  <1>6. FirmTable'
    <2> SUFFICES ASSUME NEW t \in Sockets, NEW k \in DOMAIN table'[t], table'[t][k] # 0
                 PROVE  /\ \A j \in DOMAIN sent[t] :
                             read'[t] < j /\ Matches(sent[t][j], k[1], k[2]) => sent[t][j].port # 0
                        /\ \A n \in ToSet(toCtl'[t]) :
                             n.frame.arp_reply /\ n.frame.src = k[1] /\ n.frame.dst = k[2] =>
                               FindPort(ll, t, k[2]) # 0
      BY <1>1 DEF FirmTable
    <2>1. CASE k \in DOMAIN table[t] /\ table[t][k] # 0
      <3>1. \A j \in DOMAIN sent[t] :
              read'[t] < j /\ Matches(sent[t][j], k[1], k[2]) => sent[t][j].port # 0
        BY <1>2, <1>4, <2>1 DEF FirmTable
      <3>2. ASSUME NEW n \in ToSet(toCtl'[t]), n.frame.arp_reply, n.frame.src = k[1], n.frame.dst = k[2]
            PROVE  FindPort(ll, t, k[2]) # 0
        <4>1. table[t] \in FlowTables
          BY DEF NetTypeOK
        <4>2. k = <<k[1], k[2]>>
          BY <2>1, <4>1 DEF FlowTables
        <4>3. n \in ToSet(toCtl[t])
          BY <2>1, <3>2, <4>2, PacketsMissed
        <4> QED
          BY <1>2, <2>1, <3>2, <4>3 DEF FirmTable
      <3> QED
        BY <3>1, <3>2
    <2>2. CASE FlowSetUp(s) /\ t = s /\ k = <<Ordered(s).dl_src, Ordered(s).dl_dst>>
      <3>1. Ordered(s).type = "FLOW_MOD" /\ Ordered(s).port # 0 /\ UNCHANGED toCtl
        BY <1>1, <2>2, FlowIs DEF FlowSetUp
      <3>2. FindPort(ll, s, k[2]) # 0
        BY <1>1, <1>2, <2>2, <3>1 DEF Heard
      <3>3. ASSUME NEW j \in DOMAIN sent[s], read'[s] < j, Matches(sent[s][j], k[1], k[2])
            PROVE  sent[s][j].port # 0
        BY <1>1, <1>2, <2>2, <3>1, <3>3 DEF Firm, Ordered
      <3> QED
        BY <2>2, <3>2, <3>3
    <2>3. \/ k \in DOMAIN table[t] /\ table[t][k] # 0
          \/ FlowSetUp(s) /\ t = s /\ k = <<Ordered(s).dl_src, Ordered(s).dl_dst>>
      BY <1>1, <1>5, FlowIs
    <2> QED
      BY <2>1, <2>2, <2>3
  <1> QED
    BY <1>3, <1>6 DEF Steady

LEMMA SteadyStep == NetTypeOK /\ Steady /\ NetNext => Steady'
  <1> SUFFICES ASSUME NetTypeOK, Steady, NetNext PROVE Steady'
    OBVIOUS
  <1>1. Heard /\ Firm /\ FirmTable
    BY DEF Steady
  <1>2. CASE UNCHANGED <<ll, sent, table, read, toCtl>>
    BY <1>1, <1>2 DEF Steady, Heard, Firm, FirmTable
  <1>3. ASSUME NEW s \in Sockets, NEW p \in Ports, Forward(s, p) PROVE Steady'
    <2>1. UNCHANGED <<ll, sent, table, read>>
      BY <1>3 DEF Forward, vars
    <2>2. Heard' /\ Firm'
      BY <1>1, <2>1 DEF Heard, Firm
    <2>3. FirmTable'
      <3> SUFFICES ASSUME NEW t \in Sockets, NEW k \in DOMAIN table[t], table[t][k] # 0,
                          NEW n \in ToSet(toCtl'[t]),
                          n.frame.arp_reply, n.frame.src = k[1], n.frame.dst = k[2]
                   PROVE  FindPort(ll, t, k[2]) # 0
        BY <1>1, <2>1 DEF FirmTable
      <3>1. table[t] \in FlowTables
        BY DEF NetTypeOK
      <3>2. k = <<k[1], k[2]>>
        BY <3>1 DEF FlowTables
      <3>3. n \in ToSet(toCtl[t])
        BY <1>3, <3>2, PacketsMissed
      <3> QED
        BY <1>1, <3>3 DEF FirmTable
    <2> QED
      BY <2>2, <2>3 DEF Steady
  <1>4. CASE Restarted
    <2>1. ToSet(<< >>) = {} /\ DOMAIN << >> = {}
      BY DEF ToSet
    <2>2. \A t \in Sockets : sent'[t] = << >> /\ toCtl'[t] = << >>
      BY <1>4 DEF Restarted
    <2> QED
      BY <2>1, <2>2 DEF Steady, Heard, Firm, FirmTable
  <1> QED
    BY <1>2, <1>3, <1>4, StepIs, SteadyServe, SteadyCarryOut

(* A flow that leads somewhere leads there for good.                       *)
FlowsStay ==
  \A s \in Sockets : \A k \in DOMAIN table[s] :
    table[s][k] # 0 => k \in DOMAIN table'[s] /\ table'[s][k] = table[s][k]

LEMMA FlowsStayStep ==
  ASSUME OneWay, NetTypeOK, Placing, Steady, NetNext
  PROVE  FlowsStay
  <1>1. SentOn /\ FlowsLeadOn /\ FirmTable
    BY DEF Placing, Steady
  <1>2. ASSUME NEW s \in Sockets, CarryOut(s) PROVE FlowsStay
    <2>1. /\ Ordered(s) \in Orders /\ Ordered(s) \in ToSet(sent[s])
          /\ read[s] \in Nat /\ read[s] + 1 \in DOMAIN sent[s]
      BY <1>2, OrderIs
    <2>2. UNCHANGED table \/ FlowSetUp(s)
      BY <1>2 DEF CarryOut, FlowSetUp, Ordered
    <2>3. ASSUME FlowSetUp(s), NEW t \in Sockets, NEW k \in DOMAIN table[t], table[t][k] # 0
          PROVE  k \in DOMAIN table'[t] /\ table'[t][k] = table[t][k]
      <3>1. CASE t = s /\ k = <<Ordered(s).dl_src, Ordered(s).dl_dst>>
        <4>1. k \in DOMAIN table'[s] /\ table'[s][k] = Ordered(s).port
          BY <2>1, <2>3, <3>1, FlowIs
        <4>2. Ordered(s).type = "FLOW_MOD" /\ Matches(Ordered(s), k[1], k[2])
          BY <2>3, <3>1 DEF FlowSetUp, Matches
        <4>3. Ordered(s).port # 0
          BY <1>1, <2>1, <2>3, <3>1, <4>2 DEF FirmTable, Ordered
        <4>4. k[2] \in Behind[Depth][<<s, Ordered(s).port>>]
          BY <1>1, <2>1, <3>1, <4>2, <4>3 DEF SentOn
        <4>5. k[2] \in Behind[Depth][<<s, table[s][k]>>]
          BY <1>1, <2>3, <3>1 DEF FlowsLeadOn
        <4>6. table[s] \in FlowTables /\ Ordered(s).port \in Ports \cup {0}
          BY <2>1, <4>2, OrdersAre DEF NetTypeOK
        <4>7. table[s][k] \in Ports /\ Ordered(s).port \in Ports
          BY <2>3, <3>1, <4>3, <4>6 DEF FlowTables
        <4> QED
          BY <3>1, <4>1, <4>4, <4>5, <4>7 DEF OneWay
      <3>2. CASE ~ (t = s /\ k = <<Ordered(s).dl_src, Ordered(s).dl_dst>>)
        BY <2>1, <2>3, <3>2, FlowIs
      <3> QED
        BY <3>1, <3>2
    <2> QED
      BY <2>2, <2>3 DEF FlowsStay
  <1>3. ASSUME UNCHANGED table PROVE FlowsStay
    BY <1>3 DEF FlowsStay
  <1>4. ASSUME NEW s \in Sockets, NEW p \in Ports, Forward(s, p) PROVE UNCHANGED table
    BY <1>4 DEF Forward
  <1> QED
    BY <1>2, <1>3, <1>4, StepIs DEF AfterServing, Restarted

LEMMA Grounds ==
  ASSUME OneWay, IsFiniteSet(Sockets)
  PROVE  NetSpec => [](NetTypeOK /\ NotFlooded /\ Placing /\ Steady)
  <1> DEFINE I == NetTypeOK /\ NotFlooded /\ Placing /\ Steady
  <1>1. NetInit => I
    BY MovesInit, PlacingInit, SteadyInit
  <1>2. I /\ [NetNext]_netvars => I'
    <2>1. CASE UNCHANGED netvars
      BY <2>1 DEF netvars, vars, net, NetTypeOK, NotFlooded, Placing, ComeFrom, Here, LearnedFrom,
                  SentOn, FlowsLeadOn, Steady, Heard, Firm, FirmTable
    <2>2. I /\ NetNext => I'
      BY MovesStep, PlacingStep, SteadyStep DEF Moved
    <2> QED
      BY <2>1, <2>2
  <1> QED
    BY <1>1, <1>2, PTL DEF NetSpec

(* A flow never sends a frame away from its destination: neither a port    *)
(* learned from a frame that was flooded past (addPathNode in              *)
(* handlePacketIn), nor a flow of an earlier life of the controller, nor   *)
(* any order of the messages (establishFlows).                             *)
THEOREM FlowsNeverLeadAway ==
  ASSUME OneWay, IsFiniteSet(Sockets)
  PROVE  NetSpec => []FlowsLeadOn
  <1>1. Placing => FlowsLeadOn
    BY DEF Placing
  <1> QED
    BY <1>1, Grounds, PTL

(* Once a switch has a flow that leads somewhere, it has that flow for     *)
(* good: establishFlows sends the same one again, or none that leads       *)
(* nowhere after it, and a controller started again learns the same ports. *)
THEOREM FlowsAreKept ==
  ASSUME OneWay, IsFiniteSet(Sockets)
  PROVE  NetSpec => [][FlowsStay]_netvars
  <1>1. NetTypeOK /\ NotFlooded /\ Placing /\ Steady /\ [NetNext]_netvars => [FlowsStay]_netvars
    BY FlowsStayStep
  <1> QED
    BY <1>1, Grounds, PTL DEF NetSpec

---------------------------------------------------------------------------
(* Answers take flows *)

(* What holds together of the network, whatever is on its way.             *)
Ground == NetTypeOK /\ NotFlooded /\ Placing /\ Steady

LEMMA LeavesStays ==
  ASSUME FlowsStay, NEW src, NEW dst, NEW e \in Ends, NEW out \in Ends, Leaves(src, dst, e, out)
  PROVE  Leaves(src, dst, e, out)'
  <1> DEFINE k == <<src, dst>>
  <1>1. e[1] \in Sockets /\ k \in DOMAIN table[e[1]] /\ out = <<e[1], table[e[1]][k]>> /\ out # e
    BY EndsAre DEF Leaves
  <1>2. out[2] \in Ports /\ out[2] = table[e[1]][k]
    BY <1>1, EndsAre
  <1>3. table[e[1]][k] # 0
    BY <1>2, PortsArePositive
  <1> HIDE DEF k
  <1>4. k \in DOMAIN table'[e[1]] /\ table'[e[1]][k] = table[e[1]][k]
    BY <1>1, <1>3 DEF FlowsStay
  <1> QED
    BY <1>1, <1>4 DEF Leaves, k

LEMMA ChainStays ==
  ASSUME FlowsStay, NEW src, NEW dst, NEW n \in Nat, NEW q, Chain(src, dst, n, q)
  PROVE  Chain(src, dst, n, q)'
  <1>1. /\ q \in [0 .. n -> Wired] /\ q[0] = Home[src]
        /\ \A i \in 0 .. n - 1 :
             \E out \in DOMAIN Link : Leaves(src, dst, q[i], out) /\ q[i + 1] = Link[out]
    BY DEF Chain
  <1>2. ASSUME NEW i \in 0 .. n - 1
        PROVE  \E out \in DOMAIN Link : Leaves(src, dst, q[i], out)' /\ q[i + 1] = Link[out]
    <2>1. PICK out \in DOMAIN Link : Leaves(src, dst, q[i], out) /\ q[i + 1] = Link[out]
      BY <1>1
    <2>2. i \in 0 .. n
      OBVIOUS
    <2>3. q[i] \in Ends /\ out \in Ends
      BY <1>1, <2>2, EndsAre
    <2>4. Leaves(src, dst, q[i], out)'
      BY <2>1, <2>3, LeavesStays
    <2> QED
      BY <2>1, <2>4
  <1> QED
    BY <1>1, <1>2 DEF Chain

LEMMA OnItsWayStays ==
  ASSUME FlowsStay, IsFiniteSet(Sockets), NEW f, NEW e, OnItsWay(f, e)
  PROVE  OnItsWay(f, e)'
  <1>1a. PICK n \in 0 .. Depth - 1 : \E q \in [0 .. n -> Wired] :
          Chain(f.src, f.dst, n, q) /\ q[n] = e /\ Ahead(f.dst, Depth - n - 1, e)
    BY DEF OnItsWay
  <1>1. PICK q \in [0 .. n -> Wired] :
          Chain(f.src, f.dst, n, q) /\ q[n] = e /\ Ahead(f.dst, Depth - n - 1, e)
    BY <1>1a
  <1>2. n \in Nat
    BY FS_CardinalityType DEF Depth
  <1>3. Chain(f.src, f.dst, n, q)'
    BY <1>1, <1>2, ChainStays
  <1> QED
    BY <1>1, <1>3 DEF OnItsWay, Ahead

LEMMA HasComeStays ==
  ASSUME FlowsStay, IsFiniteSet(Sockets), NEW f \in Frames, f.dst \in Hosts, HasCome(f)
  PROVE  HasCome(f)'
  <1>1a. PICK n \in 0 .. Depth - 1 : \E q \in [0 .. n -> Wired] :
          Chain(f.src, f.dst, n, q) /\ Leaves(f.src, f.dst, q[n], Home[f.dst])
    BY DEF HasCome
  <1>1. PICK q \in [0 .. n -> Wired] :
          Chain(f.src, f.dst, n, q) /\ Leaves(f.src, f.dst, q[n], Home[f.dst])
    BY <1>1a
  <1>2. n \in Nat /\ n \in 0 .. n
    BY FS_CardinalityType DEF Depth
  <1>3. Chain(f.src, f.dst, n, q)'
    BY <1>1, <1>2, ChainStays
  <1>4. q[n] \in Ends /\ Home[f.dst] \in Ends
    BY <1>2, EndsAre
  <1>5. Leaves(f.src, f.dst, q[n], Home[f.dst])'
    BY <1>1, <1>4, LeavesStays
  <1> QED
    BY <1>1, <1>3, <1>5 DEF HasCome

(* An answer sets out to where a frame of the host came from.              *)
LEMMA SetsOut ==
  ASSUME OneWay, IsFiniteSet(Sockets), NetTypeOK, AnswersCame,
         NEW e, NEW f, Enters(e, f), f.arp_reply
  PROVE  OnItsWay(f, e)
  <1>1. /\ f.src \in Hosts /\ Home[f.src] = e /\ f \in Frames
        /\ \E r \in Received(f.src) : r.src = f.dst
    BY DEF Enters
  <1>2. e \in Ends /\ e \in Wired /\ e = <<e[1], e[2]>> /\ e[1] \in Sockets
    BY <1>1, EndsAre
  <1>3. Ahead(f.dst, Depth, e)
    BY <1>1 DEF AnswersCame
  <1>4. PICK p \in Ports : p # e[2] /\ f.dst \in Behind[Depth][<<e[1], p>>]
    BY <1>3 DEF Ahead
  <1>5. /\ Depth \in Nat /\ Depth - 1 \in 0 .. Depth
        /\ f.dst \in Behind[Depth - 1][<<e[1], p>>]
    BY <1>2, <1>4, EndsAre, NoDetour
  <1>6. Ahead(f.dst, Depth - 1, e)
    BY <1>4, <1>5 DEF Ahead
  <1> DEFINE q == [i \in 0 .. 0 |-> e]
  <1>7. /\ q \in [0 .. 0 -> Wired] /\ q[0] = e /\ Depth - 0 - 1 = Depth - 1
        /\ 0 \in 0 .. Depth - 1 /\ 0 .. 0 - 1 = {}
    BY <1>2, <1>5
  <1> HIDE DEF q
  <1>8. Chain(f.src, f.dst, 0, q)
    BY <1>1, <1>7 DEF Chain
  <1> QED
    BY <1>6, <1>7, <1>8 DEF OnItsWay

(* Behind the flow's port is the destination, one link nearer.             *)
LEMMA OneNearer ==
  ASSUME OneWay, Depth \in Nat, FlowsLeadOn, NEW s \in Sockets, NEW p \in Ports, NEW o \in Ports,
         NEW dst \in Hosts, NEW src,
         <<src, dst>> \in DOMAIN table[s], table[s][<<src, dst>>] = o,
         NEW n \in 0 .. Depth, Ahead(dst, n, <<s, p>>), <<s, o>> \in DOMAIN Link
  PROVE  n # 0 /\ Ahead(dst, n - 1, Link[<<s, o>>])
  <1> DEFINE e == Link[<<s, o>>]
  <1>1. o # 0
    BY PortsArePositive
  <1> DEFINE k == <<src, dst>>
  <1>2. dst \in Behind[Depth][<<s, o>>]
    <2>1. k \in DOMAIN table[s] /\ table[s][k] = o /\ k[2] = dst
      OBVIOUS
    <2> HIDE DEF k
    <2> QED
      BY <1>1, <2>1 DEF FlowsLeadOn
  <1>3. PICK x \in Ports : dst \in Behind[n][<<s, x>>]
    BY DEF Ahead
  <1>4. Depth \in 0 .. Depth /\ n \in 0 .. Depth /\ <<s, x>> \in Ends /\ <<s, o>> \in Ends
    BY EndsAre
  <1>5. dst \in Behind[Depth][<<s, x>>]
    BY <1>3, <1>4, BehindGrows
  <1>6. x = o
    BY <1>2, <1>5 DEF OneWay
  <1>7. Home[dst] # <<s, o>>
    BY EndsAre
  <1>8. dst \in Behind[n][<<s, o>>]
    BY <1>3, <1>6
  <1>9. n # 0 /\ \E d \in Beyond(<<s, o>>) : dst \in Behind[n - 1][d]
    BY <1>4, <1>7, <1>8, BehindTyped
  <1>10. PICK d \in Beyond(<<s, o>>) : dst \in Behind[n - 1][d]
    BY <1>9
  <1>11. d \in Ends /\ d[1] = e[1] /\ d # e
    BY <1>10, EndsAre DEF Beyond
  <1>12. e \in Ends
    BY EndsAre
  <1>13. d[2] \in Ports /\ d[2] # e[2] /\ d = <<e[1], d[2]>>
    BY <1>11, <1>12, EndsAre
  <1> HIDE DEF e
  <1>14. Ahead(dst, n - 1, e)
    BY <1>10, <1>13 DEF Ahead
  <1> QED
    BY <1>9, <1>14 DEF e

(* An answer crosses a link by a flow, and is one link nearer.             *)
LEMMA GoesOn ==
  ASSUME OneWay, IsFiniteSet(Sockets), NetTypeOK, Placing, AnswersOnWay,
         NEW e, NEW f, Crosses(e, f), f.arp_reply
  PROVE  OnItsWay(f, e)
  <1>1. PICK s \in Sockets, p \in Ports, o \in Ports :
          Passes(s, p, o, f) /\ <<s, o>> \in DOMAIN Link /\ Link[<<s, o>>] = e
    BY DEF Crosses
  <1>2. /\ f \in Here(s, p) /\ o # p
        /\ <<f.src, f.dst>> \in DOMAIN table[s] /\ table[s][<<f.src, f.dst>>] = o
    BY <1>1 DEF Passes
  <1>3. f \in Frames /\ f.dst \in Hosts
    <2>1. f \in Frames
      BY <1>2, HereIs
    <2> QED
      BY <2>1, FramesAre
  <1>4a. PICK n \in 0 .. Depth - 1 : \E q \in [0 .. n -> Wired] :
          /\ Chain(f.src, f.dst, n, q) /\ q[n] = <<s, p>>
          /\ Ahead(f.dst, Depth - n - 1, <<s, p>>)
    BY <1>2 DEF AnswersOnWay, OnItsWay
  <1>4. PICK q \in [0 .. n -> Wired] :
          /\ Chain(f.src, f.dst, n, q) /\ q[n] = <<s, p>>
          /\ Ahead(f.dst, Depth - n - 1, <<s, p>>)
    BY <1>4a
  <1> DEFINE k == Depth - n - 1
  <1>5. Depth \in Nat /\ n \in Nat /\ k \in 0 .. Depth
    <2>1. Depth \in Nat
      BY FS_CardinalityType DEF Depth
    <2> QED
      BY <2>1
  <1>6. k # 0 /\ Ahead(f.dst, k - 1, e)
    <2>1. Ahead(f.dst, k, <<s, p>>) /\ FlowsLeadOn
      BY <1>4 DEF Placing
    <2> HIDE DEF k
    <2> QED
      BY <1>1, <1>2, <1>3, <1>5, <2>1, OneNearer
  <1>7. n + 1 \in 0 .. Depth - 1 /\ k - 1 = Depth - (n + 1) - 1 /\ n \in 0 .. n /\ n + 1 \in 0 .. n + 1
        /\ (n + 1) - 1 = n
    BY <1>5, <1>6
  <1> DEFINE r == [i \in 0 .. n + 1 |-> IF i = n + 1 THEN e ELSE q[i]]
  <1>8. e \in Wired
    BY <1>1, EndsAre
  <1>9. \A i \in 0 .. n : i \in 0 .. n + 1 /\ i # n + 1
    BY <1>5
  <1>10. \A i \in 0 .. n + 1 : i # n + 1 => i \in 0 .. n
    BY <1>5
  <1>11. r \in [0 .. n + 1 -> Wired] /\ r[n + 1] = e /\ \A i \in 0 .. n : r[i] = q[i]
    BY <1>7, <1>8, <1>9, <1>10
  <1> HIDE DEF r
  <1>12. Leaves(f.src, f.dst, <<s, p>>, <<s, o>>)
    BY <1>2 DEF Leaves
  <1>13. Chain(f.src, f.dst, n + 1, r)
    <2>1. /\ q[0] = Home[f.src]
          /\ \A i \in 0 .. n - 1 :
               \E out \in DOMAIN Link : Leaves(f.src, f.dst, q[i], out) /\ q[i + 1] = Link[out]
      BY <1>4 DEF Chain
    <2>2. 0 \in 0 .. n
      BY <1>5
    <2>3. r[0] = Home[f.src]
      BY <1>11, <2>1, <2>2
    <2>4. ASSUME NEW i \in 0 .. n
          PROVE  \E out \in DOMAIN Link : Leaves(f.src, f.dst, r[i], out) /\ r[i + 1] = Link[out]
      <3>1. CASE i = n
        <4>1. r[i] = <<s, p>> /\ r[i + 1] = e
          BY <1>4, <1>11, <3>1
        <4> QED
          BY <1>1, <1>12, <4>1
      <3>2. CASE i # n
        <4>1. i \in 0 .. n - 1 /\ i + 1 \in 0 .. n
          BY <1>5, <3>2
        <4>2. r[i] = q[i] /\ r[i + 1] = q[i + 1]
          BY <1>11, <4>1
        <4> QED
          BY <2>1, <4>1, <4>2
      <3> QED
        BY <3>1, <3>2
    <2>5. 0 .. (n + 1) - 1 = 0 .. n
      BY <1>7
    <2> QED
      BY <1>11, <2>3, <2>4, <2>5 DEF Chain
  <1> QED
    BY <1>6, <1>7, <1>11, <1>13 DEF OnItsWay

LEMMA AnswersInit == NetInit => AnswersOnWay /\ AnswersCame
  <1> SUFFICES ASSUME NetInit PROVE AnswersOnWay /\ AnswersCame
    OBVIOUS
  <1>1. /\ sent = [s \in Sockets |-> << >>] /\ toCtl = [s \in Sockets |-> << >>]
        /\ wire = [e \in Wired |-> << >>] /\ got = [h \in Hosts |-> << >>]
    BY DEF NetInit, Init
  <1>2. ToSet(<< >>) = {} /\ DOMAIN << >> = {}
    BY DEF ToSet
  <1>3. \A s \in Sockets, p \in Ports : Here(s, p) = {}
    BY <1>1, <1>2 DEF Here
  <1>4. \A h \in Hosts : Received(h) = {}
    BY <1>1, <1>2 DEF Received
  <1> QED
    BY <1>3, <1>4 DEF AnswersOnWay, AnswersCame

LEMMA AnswersStep ==
  ASSUME OneWay, IsFiniteSet(Sockets), Ground, AnswersOnWay, AnswersCame, NetNext
  PROVE  AnswersOnWay' /\ AnswersCame'
  <1>0. NetTypeOK /\ NotFlooded /\ Placing /\ Steady
    BY DEF Ground
  <1>1. FramesMove /\ FlowsStay
    BY <1>0, MovesStep, FlowsStayStep DEF Moved
  <1>2. ASSUME NEW s \in Sockets, NEW p \in Ports, NEW f \in Here(s, p)', f.arp_reply
        PROVE  OnItsWay(f, <<s, p>>)'
    <2>1. OnItsWay(f, <<s, p>>)
      <3>1. CASE f \in Here(s, p)
        BY <1>2, <3>1 DEF AnswersOnWay
      <3>2. CASE Enters(<<s, p>>, f)
        BY <1>0, <1>2, <3>2, SetsOut
      <3>3. CASE Crosses(<<s, p>>, f)
        BY <1>0, <1>2, <3>3, GoesOn
      <3> QED
        BY <1>1, <3>1, <3>2, <3>3 DEF FramesMove
    <2> QED
      BY <1>1, <2>1, OnItsWayStays
  <1>3. ASSUME NEW h \in Hosts, NEW f \in Received(h)'
        PROVE  /\ f.dst \in {h, Broadcast} /\ Ahead(f.src, Depth, Home[h])
               /\ f.arp_reply => HasCome(f)'
    <2>1. CASE f \in Received(h)
      <3>1. f \in Frames
        BY <1>0, <2>1, ReceivedIs
      <3>2. f.arp_reply => f.dst \in Hosts /\ HasCome(f)
        BY <2>1, <3>1, FramesAre DEF AnswersCame
      <3>3. f.arp_reply => HasCome(f)'
        BY <1>1, <3>1, <3>2, HasComeStays
      <3> QED
        BY <2>1, <3>3 DEF AnswersCame
    <2>2. CASE Reaches(h, f)
      <3>1. PICK s \in Sockets, p \in Ports, o \in Ports :
              Passes(s, p, o, f) /\ Home[h] = <<s, o>>
        BY <2>2 DEF Reaches
      <3>2. f \in Here(s, p) /\ o # p /\ f \in Frames /\ f.dst \in {h, Broadcast}
        BY <1>0, <2>2, <3>1, HereIs DEF Passes, Reaches, For
      <3>3. f.src \in Behind[Depth][<<s, p>>]
        BY <1>0, <3>2 DEF Placing, ComeFrom
      <3>4. Ahead(f.src, Depth, Home[h])
        BY <3>1, <3>2, <3>3 DEF Ahead
      <3>5. ASSUME f.arp_reply PROVE HasCome(f)'
        <4>1. f.dst = h
          BY <3>2, <3>5, FramesAre, HostsAre
        <4>2. Leaves(f.src, f.dst, <<s, p>>, Home[f.dst])
          BY <3>1, <3>2, <3>5, <4>1 DEF Passes, Leaves
        <4>3a. PICK n \in 0 .. Depth - 1 : \E q \in [0 .. n -> Wired] :
                Chain(f.src, f.dst, n, q) /\ q[n] = <<s, p>>
          BY <3>2, <3>5 DEF AnswersOnWay, OnItsWay
        <4>3. PICK q \in [0 .. n -> Wired] :
                Chain(f.src, f.dst, n, q) /\ q[n] = <<s, p>>
          BY <4>3a
        <4>4. HasCome(f)
          BY <4>2, <4>3 DEF HasCome
        <4> QED
          BY <1>1, <3>2, <4>1, <4>4, HasComeStays
      <3> QED
        BY <3>2, <3>4, <3>5
    <2> QED
      BY <1>1, <2>1, <2>2 DEF FramesMove
  <1>4. AnswersOnWay'
    BY <1>2 DEF AnswersOnWay
  <1>5. AnswersCame'
    BY <1>3 DEF AnswersCame, Ahead
  <1> QED
    BY <1>4, <1>5

(* The recursion of Leads, step by step.                                   *)
OnBy(src, dst, L, n) ==
  [e \in Ends |->
    /\ n > 0 /\ <<src, dst>> \in DOMAIN table[e[1]]
    /\ LET out == <<e[1], table[e[1]][<<src, dst>>]>> IN
         /\ out # e
         /\ \/ Home[dst] = out
            \/ out \in DOMAIN Link /\ L[n - 1][Link[out]]]

LEMMA LeadsIs ==
  ASSUME Depth \in Nat, NEW src, NEW dst
  PROVE  \E L : /\ \A n \in 0 .. Depth : L[n] = OnBy(src, dst, L, n)
                /\ Leads(src, dst) = L[Depth][Home[src]]
  <1> DEFINE Eq(L) == L = [n \in 0 .. Depth |-> OnBy(src, dst, L, n)]
  <1> DEFINE W == [Ends -> BOOLEAN]
  <1> DEFINE b == [e \in Ends |-> FALSE]
  <1> DEFINE next(w) ==
    [e \in Ends |->
      /\ <<src, dst>> \in DOMAIN table[e[1]]
      /\ LET out == <<e[1], table[e[1]][<<src, dst>>]>> IN
           /\ out # e
           /\ \/ Home[dst] = out
              \/ out \in DOMAIN Link /\ w[Link[out]]]
  <1> DEFINE G == [w \in W |-> next(w)]
  <1>1. b \in W /\ \A w : next(w) \in W
    OBVIOUS
  <1>2. G \in [W -> W]
    BY <1>1
  <1> HIDE DEF b, W
  <1>3. PICK F : F \in [0 .. Depth -> W] /\ F[0] = b /\ \A n \in 1 .. Depth : F[n] = G[F[n - 1]]
    <2> HIDE DEF G
    <2>1. b \in W /\ Maps(G, W)
      BY <1>1, <1>2 DEF Maps
    <2>2. \E F : Iterated(F, W, b, G, Depth)
      BY <2>1, Iterates
    <2> QED
      BY <2>2 DEF Iterated
  <1>4. \A n \in 0 .. Depth : F[n] = OnBy(src, dst, F, n)
    <2> TAKE n \in 0 .. Depth
    <2>1. CASE n = 0
      BY <1>3, <2>1 DEF OnBy, b
    <2>2. CASE n # 0
      <3>1. n \in 1 .. Depth /\ n - 1 \in 0 .. Depth /\ n > 0
        BY <2>2
      <3>2. F[n] = next(F[n - 1])
        BY <1>3, <3>1
      <3>3. next(F[n - 1]) = OnBy(src, dst, F, n)
        BY <3>1 DEF OnBy
      <3> QED
        BY <3>2, <3>3
    <2> QED
      BY <2>1, <2>2
  <1>5. Eq(F)
    <2>1. F = [n \in 0 .. Depth |-> F[n]]
      BY <1>3
    <2>2. [n \in 0 .. Depth |-> F[n]] = [n \in 0 .. Depth |-> OnBy(src, dst, F, n)]
      BY <1>4
    <2> QED
      BY <2>1, <2>2
  <1> DEFINE leads == CHOOSE L : Eq(L)
  <1>6. Leads(src, dst) = leads[Depth][Home[src]]
    BY DEF Leads, OnBy
  <1>7. Eq(leads)
    <2> HIDE DEF Eq
    <2> QED
      BY <1>5
  <1> HIDE DEF leads
  <1>8. \A n \in 0 .. Depth : leads[n] = OnBy(src, dst, leads, n)
    BY <1>7
  <1> QED
    BY <1>6, <1>8

(* Switches that an answer has passed lead frames all the way.             *)
LEMMA ComeByFlows ==
  ASSUME IsFiniteSet(Sockets), NEW f \in Frames, f.dst \in Hosts, HasCome(f)
  PROVE  Leads(f.src, f.dst)
  <1>1a. PICK n \in 0 .. Depth - 1 : \E q \in [0 .. n -> Wired] :
           Chain(f.src, f.dst, n, q) /\ Leaves(f.src, f.dst, q[n], Home[f.dst])
    BY DEF HasCome
  <1>1. PICK q \in [0 .. n -> Wired] :
          Chain(f.src, f.dst, n, q) /\ Leaves(f.src, f.dst, q[n], Home[f.dst])
    BY <1>1a
  <1>2. /\ q[0] = Home[f.src]
        /\ \A i \in 0 .. n - 1 :
             \E out \in DOMAIN Link : Leaves(f.src, f.dst, q[i], out) /\ q[i + 1] = Link[out]
    BY <1>1 DEF Chain
  <1>3. Depth \in Nat /\ n \in Nat /\ n < Depth
    <2>1. Depth \in Nat
      BY FS_CardinalityType DEF Depth
    <2> QED
      BY <2>1
  <1> DEFINE src == f.src
  <1> DEFINE dst == f.dst
  <1>4. PICK L : /\ \A k \in 0 .. Depth : L[k] = OnBy(src, dst, L, k)
                 /\ Leads(src, dst) = L[Depth][Home[src]]
    BY <1>3, LeadsIs
  <1> HIDE DEF src, dst
  <1>5. ASSUME NEW k \in 0 .. Depth, k > 0, NEW e \in Ends, NEW out, Leaves(src, dst, e, out),
               Home[dst] = out \/ (out \in DOMAIN Link /\ L[k - 1][Link[out]])
        PROVE  L[k][e]
    <2>1. L[k][e] = OnBy(src, dst, L, k)[e]
      BY <1>4
    <2> QED
      BY <1>5, <2>1 DEF OnBy, Leaves
  <1> DEFINE Bad == {j \in 0 .. n : ~ L[Depth - (n - j)][q[n - j]]}
  <1>6. Bad = {}
    <2> SUFFICES ASSUME Bad # {} PROVE FALSE
      OBVIOUS
    <2>1. PICK j \in Bad : \A i \in Bad : j <= i
      <3>1. Bad \in SUBSET Nat
        BY <1>3
      <3> HIDE DEF Bad
      <3> QED
        BY <3>1, LeastElement
    <2> DEFINE i == n - j
    <2>2. j \in 0 .. n /\ i \in 0 .. n /\ Depth - i \in 0 .. Depth /\ Depth - i > 0
      BY <1>3
    <2>3. q[i] \in Ends
      BY <2>2, EndsAre
    <2>4. CASE j = 0
      <3>1. i = n
        BY <1>3, <2>4
      <3>2. Leaves(src, dst, q[i], Home[dst])
        BY <1>1, <3>1 DEF src, dst
      <3> HIDE DEF i, Bad
      <3>3. L[Depth - i][q[i]]
        BY <1>5, <2>2, <2>3, <3>2
      <3> QED
        BY <3>3 DEF Bad, i
    <2>5. CASE j # 0
      <3>1. j - 1 \in 0 .. n /\ ~ j <= j - 1 /\ i \in 0 .. n - 1 /\ i + 1 = n - (j - 1)
            /\ Depth - (i + 1) = (Depth - i) - 1
        BY <1>3, <2>2, <2>5
      <3>2. j - 1 \notin Bad
        BY <2>1, <3>1
      <3>3. L[Depth - (i + 1)][q[i + 1]]
        BY <3>1, <3>2
      <3>4. PICK out \in DOMAIN Link : Leaves(src, dst, q[i], out) /\ q[i + 1] = Link[out]
        BY <1>2, <3>1 DEF src, dst
      <3> HIDE DEF i, Bad
      <3>5. L[(Depth - i) - 1][Link[out]]
        BY <3>1, <3>3, <3>4
      <3>6. L[Depth - i][q[i]]
        BY <1>5, <2>2, <2>3, <3>4, <3>5
      <3> QED
        BY <3>6 DEF Bad, i
    <2> QED
      BY <2>4, <2>5
  <1>7. n \in 0 .. n /\ Depth - (n - n) = Depth /\ n - n = 0
    BY <1>3
  <1>8. L[Depth][q[0]]
    BY <1>6, <1>7
  <1> QED
    BY <1>2, <1>4, <1>8 DEF src, dst

(* A host is answered through the flows only: when an answer has arrived,  *)
(* every switch on its way has the flow from the answering host to this    *)
(* one, and keeps it; the flows are sent before the frame goes back to the *)
(* table (establishFlows, then makeSendPacketOut), so a handler that fails *)
(* in between, and a controller started again, leave this true.            *)
THEOREM AnswersComeByFlows ==
  ASSUME OneWay, IsFiniteSet(Sockets)
  PROVE  NetSpec => []AnswersTakeFlows
  <1> DEFINE I == AnswersOnWay /\ AnswersCame
  <1>1. NetInit => I
    BY AnswersInit
  <1>2. Ground /\ I /\ [NetNext]_netvars => I'
    <2>1. ASSUME UNCHANGED netvars, I PROVE I'
      <3>1. UNCHANGED <<sent, toCtl, wire, table, got>>
        BY <2>1 DEF netvars, vars, net
      <3>2. /\ \A s \in Sockets, p \in Ports : Here(s, p)' = Here(s, p)
            /\ \A h \in Hosts : Received(h)' = Received(h)
        BY <3>1 DEF Here, Received
      <3>3. \A f, e : OnItsWay(f, e)' = OnItsWay(f, e)
        BY <3>1 DEF OnItsWay, Chain, Leaves, Ahead
      <3>4. \A f : HasCome(f)' = HasCome(f)
        BY <3>1 DEF HasCome, Chain, Leaves
      <3> QED
        BY <2>1, <3>2, <3>3, <3>4 DEF AnswersOnWay, AnswersCame, Ahead
    <2>2. ASSUME Ground, I, NetNext PROVE I'
      BY <2>2, AnswersStep
    <2> HIDE DEF I
    <2> QED
      BY <2>1, <2>2
  <1>3. Ground /\ I => AnswersTakeFlows
    <2> SUFFICES ASSUME Ground, I, NEW h \in Hosts, NEW r \in Received(h), r.arp_reply
                 PROVE  Leads(r.src, h)
      BY DEF AnswersTakeFlows
    <2>1. r \in Frames
      BY ReceivedIs DEF Ground
    <2>2. r.dst \in Hosts /\ r.dst = h /\ HasCome(r)
      BY <2>1, FramesAre, HostsAre DEF AnswersCame
    <2> QED
      BY <2>1, <2>2, ComeByFlows
  <1>4. NetSpec => []Ground
    BY Grounds DEF Ground
  <1> HIDE DEF I
  <1> QED
    BY <1>1, <1>2, <1>3, <1>4, PTL DEF NetSpec

---------------------------------------------------------------------------
(* Frames are not doubled: definitions *)

(* The frames that were sent have different ids.                           *)
IdsDiffer ==
  /\ Cardinality(Initiated) <= MaxFrames
  /\ \A f \in Initiated : f.id \in 1 .. Cardinality(Initiated)
  /\ \A f, g \in Initiated : f.id = g.id => f = g
  /\ \A f \in said : f.arp_reply => \E r \in Initiated : f = Reply(r)

AllSaid ==
  /\ \A s \in Sockets, p \in Ports : Here(s, p) \subseteq said
  /\ \A h \in Hosts : Received(h) \subseteq said

(* Where in q f is.                                                        *)
At(q, f) == {i \in DOMAIN q : q[i] = f}

(* The places of f among the orders that s has not carried out.            *)
Returned(s, p, f) ==
  {i \in DOMAIN sent[s] : /\ read[s] < i /\ sent[s][i].type = "PACKET_OUT"
                          /\ sent[s][i].in_port = p /\ sent[s][i].frame = f}

(* The places of f on a link that enters a switch, on the way to the       *)
(* controller, on the way back, or at a host.                              *)
Spots(x, f) ==
  IF x[1] = "link" THEN At(wire[x[2]], f)
  ELSE IF x[1] = "asked" THEN At(toCtl[x[2][1]], Packet(x[2][2], f))
  ELSE IF x[1] = "back" THEN Returned(x[2][1], x[2][2], f)
  ELSE At(got[x[2]], f)

Two(S) == \E i, j \in S : i # j

Sites ==
  ({"link"} \X Wired) \cup ({"asked", "back"} \X Ends) \cup ({"host"} \X Hosts)

(* The sites of frames that may still come to h, or have.                  *)
SitesOf(h) ==
  ({"link"} \X {e \in Wired : Ahead(h, Depth, e)}) \cup
  ({"asked", "back"} \X {e \in Ends : Ahead(h, Depth, e)}) \cup {<<"host", h>>}

(* At most one copy of a frame may still come to h, or has.                *)
OneCopy ==
  \A h \in Hosts, f \in Frames :
    /\ \A x, y \in SitesOf(h) : Spots(x, f) # {} /\ Spots(y, f) # {} => x = y
    /\ \A x \in SitesOf(h) : ~ Two(Spots(x, f))

(* Of the places S there are no more than there were, or one is added.     *)
Grows(S, now, added) ==
  /\ now # {} => S # {} \/ added
  /\ Two(now) => Two(S) \/ (added /\ S # {})

(* A step puts one copy of f at each site of T, and adds no other.         *)
Comes(f, T) ==
  \A x \in Sites, g \in Frames : Grows(Spots(x, g), Spots(x, g)', g = f /\ x \in T)

(* It takes one copy of f from x0, and the sites of T are on from there.   *)

Goes(f, T, x0) ==
  /\ Spots(x0, f) # {} /\ (x0 \notin T /\ Spots(x0, f)' # {} => Two(Spots(x0, f)))
  /\ \A h \in Hosts : \A x \in T \cap SitesOf(h) : x0 \in SitesOf(h) /\ x # x0

(* There is no copy of f.                                                  *)
IsNew(f) == \A x \in Sites : Spots(x, f) = {}

(* No two sites of T are for the same host.                                *)
Apart(T) == \A h \in Hosts : \A x, y \in T \cap SitesOf(h) : x = y

LEMMA SitesAre ==
  ASSUME NEW h \in Hosts
  PROVE  /\ SitesOf(h) \subseteq Sites
         /\ \A e : /\ <<"link", e>> \in SitesOf(h) <=> e \in Wired /\ Ahead(h, Depth, e)
                   /\ <<"asked", e>> \in SitesOf(h) <=> e \in Ends /\ Ahead(h, Depth, e)
                   /\ <<"back", e>> \in SitesOf(h) <=> e \in Ends /\ Ahead(h, Depth, e)
         /\ \A t \in Hosts : <<"host", t>> \in SitesOf(h) <=> t = h
  BY DEF SitesOf, Sites

LEMMA CopyKept ==
  ASSUME OneCopy, NEW f, NEW T, NEW x0, Comes(f, T), Apart(T),
         T = {} \/ Goes(f, T, x0) \/ IsNew(f)
  PROVE  OneCopy'
  <1> SUFFICES ASSUME NEW h \in Hosts, NEW g \in Frames
               PROVE  /\ \A x, y \in SitesOf(h) : Spots(x, g)' # {} /\ Spots(y, g)' # {} => x = y
                      /\ \A x \in SitesOf(h) : ~ Two(Spots(x, g)')
    BY DEF OneCopy, SitesOf, Ahead
  <1>1. SitesOf(h) \subseteq Sites
    BY SitesAre
  <1>2. /\ \A x, y \in SitesOf(h) : Spots(x, g) # {} /\ Spots(y, g) # {} => x = y
        /\ \A x \in SitesOf(h) : ~ Two(Spots(x, g))
    BY DEF OneCopy
  <1>3. ASSUME NEW x \in SitesOf(h), NEW y \in SitesOf(h), Spots(x, g)' # {}, Spots(y, g)' # {},
               g = f, x \in T, x # y
        PROVE  FALSE
    <2>1. y \notin T
      BY <1>3 DEF Apart
    <2>2. Spots(y, f) # {}
      BY <1>1, <1>3, <2>1 DEF Comes, Grows
    <2>3. x0 \in SitesOf(h) /\ Spots(x0, f) # {}
      BY <1>1, <1>3, <2>2 DEF Goes, IsNew
    <2>4. y = x0
      BY <1>2, <1>3, <2>2, <2>3
    <2>5. Two(Spots(x0, f))
      BY <1>1, <1>3, <2>1, <2>2, <2>4 DEF Goes, IsNew
    <2> QED
      BY <1>2, <1>3, <2>3, <2>5
  <1>4. ASSUME NEW x \in SitesOf(h), NEW y \in SitesOf(h), Spots(x, g)' # {}, Spots(y, g)' # {}
        PROVE  x = y
    <2>1. CASE g = f /\ (x \in T \/ y \in T)
      BY <1>3, <1>4, <2>1
    <2>2. CASE ~ (g = f /\ (x \in T \/ y \in T))
      <3>1. Spots(x, g) # {} /\ Spots(y, g) # {}
        BY <1>1, <1>4, <2>2 DEF Comes, Grows
      <3> QED
        BY <1>2, <3>1
    <2> QED
      BY <2>1, <2>2
  <1>5. ASSUME NEW x \in SitesOf(h), Two(Spots(x, g)') PROVE FALSE
    <2>1. g = f /\ x \in T /\ Spots(x, f) # {}
      BY <1>1, <1>2, <1>5 DEF Comes, Grows
    <2>2. x0 \in SitesOf(h) /\ x # x0 /\ Spots(x0, f) # {}
      BY <1>1, <2>1 DEF Goes, IsNew
    <2> QED
      BY <1>2, <2>1, <2>2
  <1> QED
    BY <1>4, <1>5

(* Positions in a sequence that grows at its end or is shortened at its    *)
(* front.                                                                  *)
LEMMA AtAppended ==
  ASSUME NEW X, NEW q \in Seq(X), NEW x \in X, NEW f
  PROVE  Grows(At(q, f), At(Append(q, x), f), f = x)
  <1> DEFINE r == Append(q, x)
  <1>1. /\ Len(q) \in Nat /\ DOMAIN q = 1 .. Len(q)
        /\ DOMAIN r = 1 .. Len(q) + 1 /\ r[Len(q) + 1] = x /\ \A i \in 1 .. Len(q) : r[i] = q[i]
    OBVIOUS
  <1>2. \A i \in 1 .. Len(q) + 1 : i \in 1 .. Len(q) \/ i = Len(q) + 1
    BY <1>1
  <1> HIDE DEF r
  <1>3. \A i \in At(r, f) : i \in At(q, f) \/ (f = x /\ i = Len(q) + 1)
    BY <1>1, <1>2 DEF At
  <1>4. Two(At(r, f)) => Two(At(q, f)) \/ (f = x /\ At(q, f) # {})
    <2> SUFFICES ASSUME NEW i \in At(r, f), NEW j \in At(r, f), i # j
                 PROVE  Two(At(q, f)) \/ (f = x /\ At(q, f) # {})
      BY DEF Two
    <2>1. CASE i \in At(q, f) /\ j \in At(q, f)
      BY <2>1 DEF Two
    <2>2. CASE ~ (i \in At(q, f) /\ j \in At(q, f))
      BY <1>3, <2>2
    <2> QED
      BY <2>1, <2>2
  <1> QED
    BY <1>3, <1>4 DEF r, Grows

LEMMA AtTail ==
  ASSUME NEW X, NEW q \in Seq(X), q # << >>, NEW f
  PROVE  /\ Grows(At(q, f), At(Tail(q), f), FALSE)
         /\ Head(q) = f => At(q, f) # {} /\ (At(Tail(q), f) # {} => Two(At(q, f)))
  <1> DEFINE r == Tail(q)
  <1>1. /\ Len(q) \in Nat /\ Len(q) # 0 /\ DOMAIN q = 1 .. Len(q)
        /\ DOMAIN r = 1 .. Len(q) - 1 /\ \A i \in 1 .. Len(q) - 1 : r[i] = q[i + 1]
        /\ Head(q) = q[1]
    OBVIOUS
  <1> HIDE DEF r
  <1>2. \A i \in At(r, f) : i + 1 \in At(q, f) /\ i \in Nat /\ i # 0
    <2>1. \A i \in 1 .. Len(q) - 1 : i + 1 \in 1 .. Len(q) /\ i \in Nat /\ i # 0
      BY <1>1
    <2> QED
      BY <1>1, <2>1 DEF At
  <1>3. At(r, f) # {} => At(q, f) # {}
    BY <1>2
  <1>4. Two(At(r, f)) => Two(At(q, f))
    <2> SUFFICES ASSUME NEW i \in At(r, f), NEW j \in At(r, f), i # j PROVE Two(At(q, f))
      BY DEF Two
    <2>1. i + 1 \in At(q, f) /\ j + 1 \in At(q, f) /\ i + 1 # j + 1
      BY <1>2
    <2> QED
      BY <2>1 DEF Two
  <1>5. ASSUME Head(q) = f PROVE At(q, f) # {} /\ (At(r, f) # {} => Two(At(q, f)))
    <2>1. 1 \in At(q, f)
      BY <1>1, <1>5 DEF At
    <2>2. ASSUME NEW i \in At(r, f) PROVE Two(At(q, f))
      <3>1. i + 1 \in At(q, f) /\ i + 1 # 1
        BY <1>2
      <3> QED
        BY <2>1, <3>1 DEF Two
    <2> QED
      BY <2>1, <2>2
  <1> QED
    BY <1>3, <1>4, <1>5 DEF r, Grows

LEMMA Shrinks ==
  ASSUME NEW S, NEW now, now \subseteq S, NEW added
  PROVE  Grows(S, now, added)
  BY DEF Grows, Two

LEMMA GrowsOn ==
  ASSUME NEW S, NEW then, NEW now, NEW added, Grows(S, then, FALSE), Grows(then, now, added)
  PROVE  Grows(S, now, added)
  BY DEF Grows

LEMMA SpotsAre ==
  /\ \A e, f : Spots(<<"link", e>>, f) = At(wire[e], f) /\ Spots(<<"link", e>>, f)' = At(wire'[e], f)
  /\ \A e, f : /\ Spots(<<"asked", e>>, f) = At(toCtl[e[1]], Packet(e[2], f))
               /\ Spots(<<"asked", e>>, f)' = At(toCtl'[e[1]], Packet(e[2], f))
  /\ \A e, f : /\ Spots(<<"back", e>>, f) = Returned(e[1], e[2], f)
               /\ Spots(<<"back", e>>, f)' = Returned(e[1], e[2], f)'
  /\ \A h, f : Spots(<<"host", h>>, f) = At(got[h], f) /\ Spots(<<"host", h>>, f)' = At(got'[h], f)
  BY DEF Spots

LEMMA EachSite ==
  ASSUME NEW x \in Sites
  PROVE  \/ \E e \in Wired : x = <<"link", e>>
         \/ \E e \in Ends : x = <<"asked", e>>
         \/ \E e \in Ends : x = <<"back", e>>
         \/ \E h \in Hosts : x = <<"host", h>>
  BY DEF Sites

(* What a step adds, site by site.                                         *)
LinksGet(w, f, T) ==
  \A e \in Wired, g \in Frames : Grows(At(w[e], g), At(wire'[e], g), g = f /\ <<"link", e>> \in T)
AskedGet(f, T) ==
  \A s \in Sockets, p \in Ports, g \in Frames :
    Grows(At(toCtl[s], Packet(p, g)), At(toCtl'[s], Packet(p, g)), g = f /\ <<"asked", <<s, p>>>> \in T)
BackGet(f, T) ==
  \A s \in Sockets, p \in Ports, g \in Frames :
    Grows(Returned(s, p, g), Returned(s, p, g)', g = f /\ <<"back", <<s, p>>>> \in T)
HostsGet(f, T) ==
  \A h \in Hosts, g \in Frames : Grows(At(got[h], g), At(got'[h], g), g = f /\ <<"host", h>> \in T)

LEMMA ComesBy ==
  ASSUME NEW f, NEW T, LinksGet(wire, f, T), AskedGet(f, T), BackGet(f, T), HostsGet(f, T)
  PROVE  Comes(f, T)
  <1> SUFFICES ASSUME NEW x \in Sites, NEW g \in Frames
               PROVE  Grows(Spots(x, g), Spots(x, g)', g = f /\ x \in T)
    BY DEF Comes
  <1>1. ASSUME NEW e \in Wired, x = <<"link", e>>
        PROVE  Grows(Spots(x, g), Spots(x, g)', g = f /\ x \in T)
    <2>1. Spots(x, g) = At(wire[e], g) /\ Spots(x, g)' = At(wire'[e], g)
      BY <1>1, SpotsAre
    <2> QED
      BY <1>1, <2>1 DEF LinksGet
  <1>2. ASSUME NEW e \in Ends, x = <<"asked", e>>
        PROVE  Grows(Spots(x, g), Spots(x, g)', g = f /\ x \in T)
    <2>1. Spots(x, g) = At(toCtl[e[1]], Packet(e[2], g)) /\ Spots(x, g)' = At(toCtl'[e[1]], Packet(e[2], g))
      BY <1>2, SpotsAre
    <2>2. e = <<e[1], e[2]>> /\ e[1] \in Sockets /\ e[2] \in Ports
      BY EndsAre
    <2> QED
      BY <1>2, <2>1, <2>2 DEF AskedGet
  <1>3. ASSUME NEW e \in Ends, x = <<"back", e>>
        PROVE  Grows(Spots(x, g), Spots(x, g)', g = f /\ x \in T)
    <2>1. Spots(x, g) = Returned(e[1], e[2], g) /\ Spots(x, g)' = Returned(e[1], e[2], g)'
      BY <1>3, SpotsAre
    <2>2. e = <<e[1], e[2]>> /\ e[1] \in Sockets /\ e[2] \in Ports
      BY EndsAre
    <2> QED
      BY <1>3, <2>1, <2>2 DEF BackGet
  <1>4. ASSUME NEW h \in Hosts, x = <<"host", h>>
        PROVE  Grows(Spots(x, g), Spots(x, g)', g = f /\ x \in T)
    <2>1. Spots(x, g) = At(got[h], g) /\ Spots(x, g)' = At(got'[h], g)
      BY <1>4, SpotsAre
    <2> QED
      BY <1>4, <2>1 DEF HostsGet
  <1> QED
    BY <1>1, <1>2, <1>3, <1>4, EachSite

---------------------------------------------------------------------------
(* A tree has one way to a host *)

LEMMA LinkSite ==
  ASSUME OneWay, IsFiniteSet(Sockets), NEW d \in DOMAIN Link, NEW h \in Hosts, Ahead(h, Depth, Link[d])
  PROVE  h \in Behind[Depth][d]
  <1> DEFINE e == Link[d]
  <1>1. e = <<e[1], e[2]>> /\ e[1] \in Sockets /\ e[2] \in Ports /\ e \in DOMAIN Link /\ Link[e] = d
    BY EndsAre
  <1>2. PICK p \in Ports : p # e[2] /\ h \in Behind[Depth][<<e[1], p>>]
    BY DEF Ahead
  <1> HIDE DEF e
  <1>3. h \in Behind[Depth][Link[<<e[1], e[2]>>]]
    BY <1>1, <1>2, Further
  <1> QED
    BY <1>1, <1>3

(* The ports of a switch that a link connects have no host ahead.          *)
LEMMA NoSelfLink ==
  ASSUME OneWay, IsFiniteSet(Sockets), NEW s \in Sockets, NEW p \in Ports, NEW q \in Ports,
         <<s, q>> \in DOMAIN Link, Link[<<s, q>>] = <<s, p>>, NEW h \in Hosts
  PROVE  h \notin Behind[Depth][<<s, q>>]
  <1> DEFINE d == <<s, q>>
  <1> SUFFICES ASSUME h \in Behind[Depth][d] PROVE FALSE
    OBVIOUS
  <1>1. Depth \in Nat
    BY FS_CardinalityType DEF Depth
  <1> DEFINE B == {n \in 0 .. Depth : h \in Behind[n][d]}
  <1>2. B # {} /\ B \subseteq Nat
    BY <1>1
  <1>3. PICK n \in B : \A m \in B : n <= m
    <2> HIDE DEF B
    <2> QED
      BY <1>2, LeastElement
  <1>4. d \in Ends /\ d \in DOMAIN Link /\ Home[h] # d
    BY EndsAre
  <1>5. n \in 0 .. Depth /\ h \in Behind[n][d]
    BY <1>3
  <1> HIDE DEF d
  <1>6. n # 0 /\ \E b \in Beyond(d) : h \in Behind[n - 1][b]
    BY <1>1, <1>4, <1>5, BehindTyped
  <1>7. PICK b \in Beyond(d) : h \in Behind[n - 1][b]
    BY <1>6
  <1>8. b \in Wired /\ b[1] = s /\ b \in Ends /\ b = <<s, b[2]>> /\ b[2] \in Ports
    BY <1>7, EndsAre DEF Beyond, d
  <1>9. n - 1 \in 0 .. Depth /\ Depth \in 0 .. Depth /\ n - 1 < n
    BY <1>1, <1>5, <1>6
  <1>10. h \in Behind[Depth][b]
    BY <1>1, <1>7, <1>8, <1>9, BehindGrows
  <1>11. b = d
    BY <1>8, <1>10 DEF OneWay, d
  <1>12. n - 1 \in B
    BY <1>7, <1>9, <1>11
  <1> QED
    BY <1>3, <1>5, <1>9, <1>12

(* The site at the end of the link or the wire at port q of s.             *)
PutAt(s, q, x) ==
  \/ <<s, q>> \in DOMAIN Link /\ x = <<"link", Link[<<s, q>>]>>
  \/ \E t \in Hosts : Home[t] = <<s, q>> /\ x = <<"host", t>>

OutSites(s, out) == {x \in Sites : \E q \in out : PutAt(s, q, x)}

(* The sites of T are on from port p of s, one for each host.              *)
Onward(s, p, T) ==
  /\ Apart(T)
  /\ \A h \in Hosts : \A x \in T \cap SitesOf(h) :
       Ahead(h, Depth, <<s, p>>) /\ x \notin {<<"link", <<s, p>>>>, <<"back", <<s, p>>>>}

LEMMA BehindSite ==
  ASSUME OneWay, IsFiniteSet(Sockets), NEW s \in Sockets, NEW q \in Ports, NEW h \in Hosts,
         NEW x \in SitesOf(h), PutAt(s, q, x)
  PROVE  h \in Behind[Depth][<<s, q>>]
  <1>1. CASE <<s, q>> \in DOMAIN Link /\ x = <<"link", Link[<<s, q>>]>>
    BY <1>1, SitesAre, LinkSite
  <1>2. ASSUME NEW t \in Hosts, Home[t] = <<s, q>>, x = <<"host", t>>
        PROVE  h \in Behind[Depth][<<s, q>>]
    BY <1>2, SitesAre, AtHome
  <1> QED
    BY <1>1, <1>2 DEF PutAt

LEMMA OutOnward ==
  ASSUME OneWay, IsFiniteSet(Sockets), NEW s \in Sockets, NEW p \in Ports, NEW out,
         out \subseteq Ports \ {p}
  PROVE  Onward(s, p, OutSites(s, out))
  <1>1. ASSUME NEW h \in Hosts, NEW x \in OutSites(s, out) \cap SitesOf(h),
               NEW y \in OutSites(s, out) \cap SitesOf(h)
        PROVE  x = y
    <2>1. PICK q \in out : PutAt(s, q, x)
      BY DEF OutSites
    <2>2. PICK r \in out : PutAt(s, r, y)
      BY DEF OutSites
    <2>3. h \in Behind[Depth][<<s, q>>] /\ h \in Behind[Depth][<<s, r>>] /\ q \in Ports /\ r \in Ports
      BY <2>1, <2>2, BehindSite
    <2>4. q = r
      BY <2>3 DEF OneWay
    <2>5. \A t \in Hosts : x = <<"host", t>> \/ y = <<"host", t>> => t = h
      BY SitesAre
    <2>6. Home[h] \notin DOMAIN Link
      BY EndsAre
    <2> QED
      BY <2>1, <2>2, <2>4, <2>5, <2>6 DEF PutAt
  <1>2. ASSUME NEW h \in Hosts, NEW x \in OutSites(s, out) \cap SitesOf(h)
        PROVE  Ahead(h, Depth, <<s, p>>) /\ x \notin {<<"link", <<s, p>>>>, <<"back", <<s, p>>>>}
    <2>1. PICK q \in out : PutAt(s, q, x)
      BY DEF OutSites
    <2>2. h \in Behind[Depth][<<s, q>>] /\ q \in Ports /\ q # p
      BY <2>1, BehindSite
    <2>3. Ahead(h, Depth, <<s, p>>)
      BY <2>2 DEF Ahead
    <2>4. x # <<"back", <<s, p>>>>
      BY <2>1 DEF PutAt
    <2>5. x # <<"link", <<s, p>>>>
      <3> SUFFICES ASSUME x = <<"link", <<s, p>>>> PROVE FALSE
        OBVIOUS
      <3>1. <<s, q>> \in DOMAIN Link /\ Link[<<s, q>>] = <<s, p>>
        BY <2>1 DEF PutAt
      <3> QED
        BY <2>2, <3>1, NoSelfLink
    <2> QED
      BY <2>3, <2>4, <2>5
  <1> QED
    BY <1>1, <1>2 DEF Onward, Apart

---------------------------------------------------------------------------
(* No step doubles a frame *)

(* What a switch puts out of its ports.                                    *)
LEMMA OutputComes ==
  ASSUME NetTypeOK, NEW s \in Sockets, NEW out, NEW f \in Frames, NEW w, Puts(s, out, f, w)
  PROVE  LinksGet(w, f, OutSites(s, out)) /\ HostsGet(f, OutSites(s, out))
  <1> DEFINE T == OutSites(s, out)
  <1>1. /\ w \in [Wired -> Seq(Frames)] /\ got \in [Hosts -> Seq(Frames)]
        /\ wire' = [e \in Wired |-> IF \E q \in out : <<s, q>> \in DOMAIN Link /\ Link[<<s, q>>] = e
                                    THEN Append(w[e], f) ELSE w[e]]
        /\ got' = [h \in Hosts |-> IF For(h, f) /\ \E q \in out : Home[h] = <<s, q>>
                                   THEN Append(got[h], f) ELSE got[h]]
    BY DEF Puts, Output, NetTypeOK
  <1>2. ASSUME NEW e \in Wired, NEW g \in Frames
        PROVE  Grows(At(w[e], g), At(wire'[e], g), g = f /\ <<"link", e>> \in T)
    <2>1. CASE \E q \in out : <<s, q>> \in DOMAIN Link /\ Link[<<s, q>>] = e
      <3>1. wire'[e] = Append(w[e], f)
        BY <1>1, <2>1
      <3>2. <<"link", e>> \in T
        BY <2>1 DEF OutSites, PutAt, Sites
      <3>3. Grows(At(w[e], g), At(Append(w[e], f), g), g = f)
        BY <1>1, AtAppended
      <3> QED
        BY <3>1, <3>2, <3>3 DEF Grows
    <2>2. CASE ~ \E q \in out : <<s, q>> \in DOMAIN Link /\ Link[<<s, q>>] = e
      <3>1. wire'[e] = w[e]
        BY <1>1, <2>2
      <3> QED
        BY <3>1, Shrinks
    <2> QED
      BY <2>1, <2>2
  <1>3. ASSUME NEW h \in Hosts, NEW g \in Frames
        PROVE  Grows(At(got[h], g), At(got'[h], g), g = f /\ <<"host", h>> \in T)
    <2>1. CASE For(h, f) /\ \E q \in out : Home[h] = <<s, q>>
      <3>1. got'[h] = Append(got[h], f)
        BY <1>1, <2>1
      <3>2. <<"host", h>> \in T
        BY <2>1 DEF OutSites, PutAt, Sites
      <3>3. Grows(At(got[h], g), At(Append(got[h], f), g), g = f)
        BY <1>1, AtAppended
      <3> QED
        BY <3>1, <3>2, <3>3 DEF Grows
    <2>2. CASE ~ (For(h, f) /\ \E q \in out : Home[h] = <<s, q>>)
      <3>1. got'[h] = got[h]
        BY <1>1, <2>2
      <3> QED
        BY <3>1, Shrinks
    <2> QED
      BY <2>1, <2>2
  <1> QED
    BY <1>2, <1>3 DEF LinksGet, HostsGet

LEMMA PacketIs ==
  /\ \A m \in Packets : m = Packet(m.in_port, m.frame) /\ m.in_port \in Ports /\ m.frame \in Frames
  /\ \A p, q, f, g : Packet(p, f) = Packet(q, g) => p = q /\ f = g
  /\ \A p \in Ports, f \in Frames : Packet(p, f) \in Packets
  BY DEF Packets, Packet

(* What a switch does to a frame it looks up, that came in at its port p.  *)
LEMMA LookUpComes ==
  ASSUME OneWay, IsFiniteSet(Sockets), NetTypeOK, NEW s \in Sockets, NEW p \in Ports,
         NEW f \in Frames, NEW w \in [Wired -> Seq(Frames)], LookUp(s, p, f, w)
  PROVE  \E T : Onward(s, p, T) /\ LinksGet(w, f, T) /\ AskedGet(f, T) /\ HostsGet(f, T)
  <1>1. toCtl \in [Sockets -> Seq(Packets)]
    BY DEF NetTypeOK
  <1>2. CASE <<f.src, f.dst>> \in DOMAIN table[s]
    <2> DEFINE out == {table[s][<<f.src, f.dst>>]} \ {0, p}
    <2>1. Output(s, out, f, w) /\ toCtl' = toCtl
      BY <1>2 DEF LookUp
    <2>2. out \subseteq Ports \ {p}
      <3>1. table[s] \in FlowTables
        BY DEF NetTypeOK
      <3> QED
        BY <1>2, <3>1 DEF FlowTables
    <2> HIDE DEF out
    <2>3. Puts(s, out, f, w)
      BY <2>1 DEF Puts
    <2>4. LinksGet(w, f, OutSites(s, out)) /\ HostsGet(f, OutSites(s, out))
      BY <2>3, OutputComes
    <2>5. AskedGet(f, OutSites(s, out))
      BY <2>1, Shrinks DEF AskedGet
    <2> QED
      BY <2>2, <2>4, <2>5, OutOnward
  <1>3. CASE <<f.src, f.dst>> \notin DOMAIN table[s]
    <2> DEFINE T == {<<"asked", <<s, p>>>>}
    <2>1. /\ toCtl' = [toCtl EXCEPT ![s] = Append(@, Packet(p, f))]
          /\ wire' = w /\ got' = got
      BY <1>3 DEF LookUp, Packet
    <2>2. Onward(s, p, T)
      <3>1. <<s, p>> \in Ends
        BY EndsAre
      <3>2. ASSUME NEW h \in Hosts, NEW x \in T \cap SitesOf(h)
            PROVE  x = <<"asked", <<s, p>>>> /\ Ahead(h, Depth, <<s, p>>)
        <4>1. x = <<"asked", <<s, p>>>> /\ x \in SitesOf(h)
          BY <3>2
        <4> QED
          BY <4>1, SitesAre
      <3> HIDE DEF T
      <3>3. Apart(T)
        BY <3>2 DEF Apart
      <3>4. <<"asked", <<s, p>>>> # <<"link", <<s, p>>>> /\ <<"asked", <<s, p>>>> # <<"back", <<s, p>>>>
        OBVIOUS
      <3> QED
        BY <3>2, <3>3, <3>4 DEF Onward
    <2>3. LinksGet(w, f, T) /\ HostsGet(f, T)
      BY <2>1, Shrinks DEF LinksGet, HostsGet
    <2>4. ASSUME NEW t \in Sockets, NEW q \in Ports, NEW g \in Frames
          PROVE  Grows(At(toCtl[t], Packet(q, g)), At(toCtl'[t], Packet(q, g)),
                       g = f /\ <<"asked", <<t, q>>>> \in T)
      <3>1. CASE t # s
        <4>1. toCtl'[t] = toCtl[t]
          BY <1>1, <2>1, <3>1
        <4> QED
          BY <4>1, Shrinks
      <3>2. CASE t = s
        <4>1. toCtl'[t] = Append(toCtl[t], Packet(p, f))
          BY <1>1, <2>1, <3>2
        <4>2. Grows(At(toCtl[t], Packet(q, g)), At(Append(toCtl[t], Packet(p, f)), Packet(q, g)),
                    Packet(q, g) = Packet(p, f))
          BY <1>1, PacketIs, AtAppended
        <4>3. Packet(q, g) = Packet(p, f) => g = f /\ <<"asked", <<t, q>>>> \in T
          BY <3>2, PacketIs
        <4> QED
          BY <4>1, <4>2, <4>3 DEF Grows
      <3> QED
        BY <3>1, <3>2
    <2>5. AskedGet(f, T)
      BY <2>4 DEF AskedGet
    <2> QED
      BY <2>2, <2>3, <2>5
  <1> QED
    BY <1>2, <1>3

(* What s does to a frame that it takes from x0.                           *)
LEMMA OnwardKept ==
  ASSUME OneCopy, NEW f, NEW T, NEW x0, NEW s, NEW p,
         x0 \in {<<"link", <<s, p>>>>, <<"back", <<s, p>>>>},
         \A h \in Hosts : Ahead(h, Depth, <<s, p>>) => x0 \in SitesOf(h),
         Onward(s, p, T), Comes(f, T),
         Spots(x0, f) # {}, x0 \notin T /\ Spots(x0, f)' # {} => Two(Spots(x0, f))
  PROVE  OneCopy'
  <1>1. \A h \in Hosts : \A x \in T \cap SitesOf(h) : x0 \in SitesOf(h) /\ x # x0
    BY DEF Onward
  <1>2. Goes(f, T, x0)
    BY <1>1 DEF Goes
  <1>3. Apart(T)
    BY DEF Onward
  <1> QED
    BY <1>2, <1>3, CopyKept

LEMMA ForwardOnce ==
  ASSUME OneWay, IsFiniteSet(Sockets), NetTypeOK, OneCopy, NEW s \in Sockets, NEW p \in Ports,
         Forward(s, p)
  PROVE  OneCopy'
  <1>a. PICK e \in Ends : e = <<s, p>>
    BY EndsAre
  <1>b. PICK f : f = Head(wire[e])
    OBVIOUS
  <1> DEFINE w == [wire EXCEPT ![e] = Tail(@)]
  <1>1. /\ e \in Wired /\ wire[e] # << >> /\ LookUp(s, p, f, w)
        /\ UNCHANGED <<sent, read>>
    BY <1>a, <1>b DEF Forward, vars
  <1>2. wire \in [Wired -> Seq(Frames)]
    BY DEF NetTypeOK
  <1>3. f \in Frames /\ Tail(wire[e]) \in Seq(Frames)
    BY <1>1, <1>2, <1>b, Elements
  <1>4. w \in [Wired -> Seq(Frames)] /\ w[e] = Tail(wire[e])
        /\ \A d \in Wired : d # e => w[d] = wire[d]
    BY <1>1, <1>2, <1>3
  <1> HIDE DEF w
  <1>6. PICK T : Onward(s, p, T) /\ LinksGet(w, f, T) /\ AskedGet(f, T) /\ HostsGet(f, T)
    BY <1>1, <1>3, <1>4, LookUpComes
  <1>7. \A d \in Wired, g \in Frames : Grows(At(wire[d], g), At(w[d], g), FALSE)
    <2> SUFFICES ASSUME NEW d \in Wired, NEW g \in Frames PROVE Grows(At(wire[d], g), At(w[d], g), FALSE)
      OBVIOUS
    <2>1. CASE d = e
      BY <1>1, <1>2, <1>4, <2>1, AtTail
    <2>2. CASE d # e
      BY <1>4, <2>2, Shrinks
    <2> QED
      BY <2>1, <2>2
  <1>8. LinksGet(wire, f, T)
    BY <1>6, <1>7, GrowsOn DEF LinksGet
  <1>9. BackGet(f, T)
    <2>1. \A t, q, g : Returned(t, q, g)' = Returned(t, q, g)
      BY <1>1 DEF Returned
    <2> QED
      BY <2>1, Shrinks DEF BackGet
  <1>10. Comes(f, T)
    BY <1>6, <1>8, <1>9, ComesBy
  <1>c. PICK x0 : x0 = <<"link", e>>
    OBVIOUS
  <1>11. Spots(x0, f) = At(wire[e], f) /\ Spots(x0, f)' = At(wire'[e], f)
    BY <1>c, SpotsAre
  <1>12. At(wire[e], f) # {} /\ (At(w[e], f) # {} => Two(At(wire[e], f)))
    BY <1>1, <1>2, <1>4, <1>b, AtTail
  <1>13. x0 \notin T => (At(wire'[e], f) # {} => At(w[e], f) # {})
    BY <1>1, <1>3, <1>6, <1>c DEF LinksGet, Grows
  <1>14. \A h \in Hosts : Ahead(h, Depth, <<s, p>>) => x0 \in SitesOf(h)
    BY <1>1, <1>a, <1>c, SitesAre
  <1>15. x0 \in {<<"link", <<s, p>>>>, <<"back", <<s, p>>>>}
    BY <1>a, <1>c
  <1> QED
    BY <1>6, <1>10, <1>11, <1>12, <1>13, <1>14, <1>15, OnwardKept

(* A message that s carries out is no longer on its way.                   *)
LEMMA ReadOn ==
  ASSUME NetTypeOK, NEW s \in Sockets, CarryOut(s)
  PROVE  /\ \A t \in Sockets : \A p, f : Returned(t, p, f)' \subseteq Returned(t, p, f)
         /\ \A p, f :
              /\ Ordered(s).type = "PACKET_OUT" /\ Ordered(s).in_port = p /\ Ordered(s).frame = f
              => /\ Returned(s, p, f) # {}
                 /\ Returned(s, p, f)' # {} => Two(Returned(s, p, f))
  <1> DEFINE n == read[s] + 1
  <1>1. /\ read[s] \in Nat /\ n \in DOMAIN sent[s] /\ read'[s] = n /\ sent' = sent
        /\ \A t \in Sockets : t # s => read'[t] = read[t]
        /\ sent[s] \in Seq(Orders) /\ n = read[s] + 1 /\ Ordered(s) = sent[s][n]
    BY OrderIs DEF NetTypeOK, vars, Ordered
  <1> HIDE DEF n
  <1>2. DOMAIN sent[s] \subseteq Nat
    BY <1>1
  <1>3. \A i \in DOMAIN sent[s] : n < i => read[s] < i /\ i # n
    BY <1>1, <1>2
  <1>4. read[s] < n /\ ~ (n < n)
    BY <1>1
  <1>5. ASSUME NEW t \in Sockets, NEW p, NEW f
        PROVE  Returned(t, p, f)' \subseteq Returned(t, p, f)
    BY <1>1, <1>3 DEF Returned
  <1>6. ASSUME NEW p, NEW f,
               Ordered(s).type = "PACKET_OUT", Ordered(s).in_port = p, Ordered(s).frame = f
        PROVE  /\ Returned(s, p, f) # {}
               /\ Returned(s, p, f)' # {} => Two(Returned(s, p, f))
    <2>1. n \in Returned(s, p, f)
      BY <1>1, <1>4, <1>6 DEF Returned
    <2>2. \A i \in Returned(s, p, f)' : i \in Returned(s, p, f) /\ i # n
      BY <1>1, <1>3 DEF Returned
    <2> QED
      BY <2>1, <2>2 DEF Two
  <1> QED
    BY <1>5, <1>6

LEMMA CarryOutOnce ==
  ASSUME OneWay, IsFiniteSet(Sockets), NetTypeOK, OneCopy, NEW s \in Sockets, CarryOut(s)
  PROVE  OneCopy'
  <1>1. PICK m : m = Ordered(s)
    OBVIOUS
  <1>2. m \in Orders /\ sent' = sent
    BY <1>1, OrderIs DEF vars
  <1>3. /\ wire \in [Wired -> Seq(Frames)]
        /\ \/ m.type = "FLOW_MOD" /\ UNCHANGED <<toCtl, wire, got>>
           \/ m.type = "PACKET_OUT" /\ LookUp(s, m.in_port, m.frame, wire)
           \/ /\ m.type = "PACKET_OUT" /\ Output(s, Ports \ {m.in_port}, m.frame, wire)
              /\ UNCHANGED toCtl
    BY <1>1 DEF CarryOut, Ordered, NetTypeOK
  <1>4. \A f, T : BackGet(f, T)
    BY ReadOn, Shrinks DEF BackGet
  <1>5. CASE m.type = "FLOW_MOD" /\ UNCHANGED <<toCtl, wire, got>>
    <2> DEFINE T == {}
    <2>1. \A f : LinksGet(wire, f, T) /\ AskedGet(f, T) /\ HostsGet(f, T)
      BY <1>5, Shrinks DEF LinksGet, AskedGet, HostsGet
    <2>2. \A f : Comes(f, T)
      BY <1>4, <2>1, ComesBy
    <2>3. Apart(T)
      BY DEF Apart
    <2> QED
      BY <2>2, <2>3, CopyKept
  <1>6. CASE m.type = "PACKET_OUT"
    <2>1. PICK p \in Ports : p = m.in_port
      BY <1>2, <1>6, OrdersAre
    <2>2. PICK f \in Frames : f = m.frame
      BY <1>2, <1>6, OrdersAre
    <2>3. \E T : Onward(s, p, T) /\ LinksGet(wire, f, T) /\ AskedGet(f, T) /\ HostsGet(f, T)
      <3>1. CASE LookUp(s, m.in_port, m.frame, wire)
        <4>1. LookUp(s, p, f, wire)
          BY <2>1, <2>2, <3>1
        <4> QED
          BY <1>3, <4>1, LookUpComes
      <3>2. CASE Output(s, Ports \ {m.in_port}, m.frame, wire) /\ UNCHANGED toCtl
        <4> DEFINE out == Ports \ {p}
        <4>1. out \subseteq Ports \ {p} /\ Puts(s, out, f, wire)
          BY <1>3, <2>1, <2>2, <3>2 DEF Puts
        <4> HIDE DEF out
        <4>2. LinksGet(wire, f, OutSites(s, out)) /\ HostsGet(f, OutSites(s, out))
          BY <4>1, OutputComes
        <4>3. AskedGet(f, OutSites(s, out))
          BY <3>2, Shrinks DEF AskedGet
        <4> QED
          BY <4>1, <4>2, <4>3, OutOnward
      <3> QED
        BY <1>3, <1>6, <3>1, <3>2
    <2>4. PICK T : Onward(s, p, T) /\ LinksGet(wire, f, T) /\ AskedGet(f, T) /\ HostsGet(f, T)
      BY <2>3
    <2>5. Comes(f, T)
      BY <1>4, <2>4, ComesBy
    <2>6. PICK e \in Ends : e = <<s, p>>
      BY EndsAre
    <2>7. PICK x0 : x0 = <<"back", e>>
      OBVIOUS
    <2>8. Spots(x0, f) = Returned(s, p, f) /\ Spots(x0, f)' = Returned(s, p, f)'
      <3>1. e[1] = s /\ e[2] = p
        BY <2>6
      <3>2. Spots(x0, f) = Returned(e[1], e[2], f) /\ Spots(x0, f)' = Returned(e[1], e[2], f)'
        BY <2>7, SpotsAre
      <3> QED
        BY <3>1, <3>2
    <2>9. Spots(x0, f) # {} /\ (Spots(x0, f)' # {} => Two(Spots(x0, f)))
      BY <1>1, <1>6, <2>1, <2>2, <2>8, ReadOn
    <2>10. \A h \in Hosts : Ahead(h, Depth, <<s, p>>) => x0 \in SitesOf(h)
      BY <2>6, <2>7, SitesAre
    <2>11. x0 \in {<<"link", <<s, p>>>>, <<"back", <<s, p>>>>}
      BY <2>6, <2>7
    <2> QED
      BY <2>4, <2>5, <2>9, <2>10, <2>11, OnwardKept
  <1> QED
    BY <1>3, <1>5, <1>6

(* The controller hands a frame back to the switch it came from, once.     *)
LEMMA ServeOnce ==
  ASSUME NetTypeOK, OneCopy, NEW s \in Sockets, NEW m \in Packets, AfterServing(s, m)
  PROVE  OneCopy'
  <1>1. PICK p \in Ports : p = m.in_port
    BY PacketIs
  <1>2. PICK f \in Frames : f = m.frame
    BY PacketIs
  <1>3. PICK e \in Ends : e = <<s, p>> /\ e[1] = s /\ e[2] = p
    BY EndsAre
  <1>4. PICK x0 : x0 = <<"asked", e>>
    OBVIOUS
  <1>5. PICK T : T = {<<"back", e>>}
    OBVIOUS
  <1>6. /\ toCtl[s] \in Seq(Packets) /\ toCtl[s] # << >> /\ Head(toCtl[s]) = Packet(p, f)
        /\ toCtl'[s] = Tail(toCtl[s]) /\ \A t \in Sockets : t # s => toCtl'[t] = toCtl[t]
        /\ wire' = wire /\ got' = got /\ read' = read
        /\ \A t \in Sockets : t # s => sent'[t] = sent[t]
    BY <1>1, <1>2, PacketIs DEF AfterServing, NetTypeOK
  <1>7. LinksGet(wire, f, T) /\ HostsGet(f, T)
    BY <1>6, Shrinks DEF LinksGet, HostsGet
  <1>8. ASSUME NEW t \in Sockets, NEW q, NEW g
        PROVE  Grows(At(toCtl[t], Packet(q, g)), At(toCtl'[t], Packet(q, g)), FALSE)
    <2>1. CASE t = s
      BY <1>6, <2>1, AtTail
    <2>2. CASE t # s
      BY <1>6, <2>2, Shrinks
    <2> QED
      BY <2>1, <2>2
  <1>9. AskedGet(f, T)
    BY <1>8 DEF AskedGet, Grows
  <1>10. ASSUME NEW t \in Sockets, NEW q \in Ports, NEW g \in Frames
         PROVE  Grows(Returned(t, q, g), Returned(t, q, g)', g = f /\ <<"back", <<t, q>>>> \in T)
    <2>1. CASE t # s
      <3>1. Returned(t, q, g)' = Returned(t, q, g)
        BY <1>6, <2>1 DEF Returned
      <3> QED
        BY <3>1, Shrinks
    <2>2. CASE t = s
      <3> DEFINE new == DOMAIN sent'[s] \ DOMAIN sent[s]
      <3>1. /\ \A i \in DOMAIN sent[s] : i \in DOMAIN sent'[s] /\ sent'[s][i] = sent[s][i]
            /\ \A i \in new : Answers(s, m, sent'[s][i])
            /\ \A i, j \in new : sent'[s][i].type = "PACKET_OUT" /\ sent'[s][j].type = "PACKET_OUT" => i = j
        BY DEF AfterServing
      <3>2. \A i \in Returned(t, q, g)' :
              i \in Returned(t, q, g) \/ (i \in new /\ sent'[s][i].type = "PACKET_OUT"
                                          /\ sent'[s][i].in_port = q /\ sent'[s][i].frame = g)
        BY <1>6, <2>2, <3>1 DEF Returned
      <3>3. ASSUME NEW i \in new, sent'[s][i].type = "PACKET_OUT", sent'[s][i].in_port = q,
                   sent'[s][i].frame = g
            PROVE  g = f /\ <<"back", <<t, q>>>> \in T
        <4>1. sent'[s][i].in_port = m.in_port /\ sent'[s][i].frame = m.frame
          BY <3>1, <3>3 DEF Answers, Matches
        <4> QED
          BY <1>1, <1>2, <1>3, <1>5, <2>2, <3>3, <4>1
      <3>4. \A i, j \in Returned(t, q, g)' :
              i # j => \/ i \in Returned(t, q, g) /\ j \in Returned(t, q, g)
                       \/ /\ g = f /\ <<"back", <<t, q>>>> \in T
                          /\ (i \in Returned(t, q, g) \/ j \in Returned(t, q, g))
        <4> HIDE DEF new
        <4> QED
          BY <3>1, <3>2, <3>3
      <3>5. Returned(t, q, g)' # {} => Returned(t, q, g) # {} \/ (g = f /\ <<"back", <<t, q>>>> \in T)
        BY <3>2, <3>3
      <3>6. Two(Returned(t, q, g)') => \/ Two(Returned(t, q, g))
                                       \/ (g = f /\ <<"back", <<t, q>>>> \in T) /\ Returned(t, q, g) # {}
        BY <3>4 DEF Two
      <3> QED
        BY <3>5, <3>6 DEF Grows
    <2> QED
      BY <2>1, <2>2
  <1>11. BackGet(f, T)
    BY <1>10 DEF BackGet
  <1>12. Comes(f, T)
    BY <1>7, <1>9, <1>11, ComesBy
  <1>13. /\ Spots(x0, f) = At(toCtl[s], Packet(p, f))
         /\ Spots(x0, f)' = At(toCtl'[s], Packet(p, f))
    <2>1. /\ Spots(x0, f) = At(toCtl[e[1]], Packet(e[2], f))
          /\ Spots(x0, f)' = At(toCtl'[e[1]], Packet(e[2], f))
      BY <1>4, SpotsAre
    <2> QED
      BY <1>3, <2>1
  <1>14. Spots(x0, f) # {} /\ (Spots(x0, f)' # {} => Two(Spots(x0, f)))
    BY <1>6, <1>13, AtTail
  <1>15. ASSUME NEW h \in Hosts, NEW x \in T \cap SitesOf(h)
         PROVE  x0 \in SitesOf(h) /\ x # x0
    <2>1. x = <<"back", e>> /\ x \in SitesOf(h) /\ x0 = <<"asked", e>>
      BY <1>4, <1>5
    <2> QED
      BY <2>1, SitesAre
  <1>16. Goes(f, T, x0)
    BY <1>14, <1>15 DEF Goes
  <1>17. Apart(T)
    BY <1>5 DEF Apart
  <1> QED
    BY <1>12, <1>16, <1>17, CopyKept

LEMMA OnceInit == NetInit => IdsDiffer /\ AllSaid /\ OneCopy
  <1> SUFFICES ASSUME NetInit PROVE IdsDiffer /\ AllSaid /\ OneCopy
    OBVIOUS
  <1>1. /\ sent = [s \in Sockets |-> << >>] /\ toCtl = [s \in Sockets |-> << >>]
        /\ wire = [e \in Wired |-> << >>] /\ got = [h \in Hosts |-> << >>] /\ said = {}
    BY DEF NetInit, Init
  <1>2. IdsDiffer
    <2>1. Initiated = {}
      BY <1>1 DEF Initiated
    <2>2. Cardinality(Initiated) = 0
      BY <2>1, FS_EmptySet
    <2> QED
      BY <1>1, <2>1, <2>2, NetworkOK DEF IdsDiffer
  <1>3. AllSaid
    <2>1. ToSet(<< >>) = {}
      BY DEF ToSet
    <2>2. \A s \in Sockets, p \in Ports : Here(s, p) = {}
      BY <1>1, <2>1 DEF Here
    <2>3. \A h \in Hosts : Received(h) = {}
      BY <1>1 DEF Received
    <2> QED
      BY <2>2, <2>3 DEF AllSaid
  <1>4. ASSUME NEW x \in Sites, NEW f PROVE Spots(x, f) = {}
    <2>1. \A e \in Wired : At(wire[e], f) = {}
      BY <1>1 DEF At
    <2>2. \A m : \A e \in Ends : At(toCtl[e[1]], m) = {}
      BY <1>1, EndsAre DEF At
    <2>3. \A e \in Ends : Returned(e[1], e[2], f) = {}
      BY <1>1, EndsAre DEF Returned
    <2>4. \A h \in Hosts : At(got[h], f) = {}
      BY <1>1 DEF At
    <2> QED
      BY <2>1, <2>2, <2>3, <2>4, EachSite, SpotsAre
  <1>5. OneCopy
    BY <1>4, SitesAre DEF OneCopy, Two
  <1> QED
    BY <1>2, <1>3, <1>5

(* A frame that no host has sent is nowhere.                               *)
LEMMA NowhereYet ==
  ASSUME NetTypeOK, AllSaid, NEW f \in Frames, f \notin said
  PROVE  IsNew(f)
  <1> SUFFICES ASSUME NEW x \in Sites, NEW i \in Spots(x, f) PROVE f \in said
    BY DEF IsNew
  <1>1. ASSUME NEW s \in Sockets, NEW p \in Ports, f \in Here(s, p) PROVE f \in said
    BY <1>1 DEF AllSaid
  <1>2. ASSUME NEW e \in Wired, x = <<"link", e>> PROVE f \in said
    <2>1. e \in Ends /\ e = <<e[1], e[2]>> /\ e[1] \in Sockets /\ e[2] \in Ports
      BY EndsAre
    <2>2. i \in At(wire[e], f)
      BY <1>2, SpotsAre
    <2>3. f \in ToSet(wire[e])
      BY <2>2 DEF At, ToSet
    <2>4. f \in Here(e[1], e[2])
      BY <2>1, <2>3, HereIs
    <2> QED
      BY <1>1, <2>1, <2>4
  <1>3. ASSUME NEW e \in Ends, x = <<"asked", e>> PROVE f \in said
    <2>1. e = <<e[1], e[2]>> /\ e[1] \in Sockets /\ e[2] \in Ports
      BY EndsAre
    <2>2. i \in At(toCtl[e[1]], Packet(e[2], f))
      BY <1>3, SpotsAre
    <2>3. Packet(e[2], f) \in ToSet(toCtl[e[1]])
      BY <2>2 DEF At, ToSet
    <2>4. Packet(e[2], f).in_port = e[2] /\ Packet(e[2], f).frame = f
      BY DEF Packet
    <2>5. f \in Here(e[1], e[2])
      BY <2>1, <2>3, <2>4, HereIs
    <2> QED
      BY <1>1, <2>1, <2>5
  <1>4. ASSUME NEW e \in Ends, x = <<"back", e>> PROVE f \in said
    <2>1. e = <<e[1], e[2]>> /\ e[1] \in Sockets /\ e[2] \in Ports
      BY EndsAre
    <2>2. i \in Returned(e[1], e[2], f)
      BY <1>4, SpotsAre
    <2>3. sent[e[1]][i] \in ToSet(sent[e[1]]) /\ sent[e[1]][i].type = "PACKET_OUT"
          /\ sent[e[1]][i].in_port = e[2] /\ sent[e[1]][i].frame = f
      BY <2>2 DEF Returned, ToSet
    <2>4. f \in Here(e[1], e[2])
      BY <2>1, <2>3, HereIs
    <2> QED
      BY <1>1, <2>1, <2>4
  <1>5. ASSUME NEW h \in Hosts, x = <<"host", h>> PROVE f \in said
    <2>1. i \in At(got[h], f)
      BY <1>5, SpotsAre
    <2>2. f \in Received(h)
      BY <2>1 DEF At, Received
    <2> QED
      BY <2>2 DEF AllSaid
  <1> QED
    BY <1>2, <1>3, <1>4, <1>5, EachSite

LEMMA SayOnce ==
  ASSUME NetTypeOK, AllSaid, OneCopy, NEW h \in Hosts, NEW f \in Frames, f \notin said, Say(h, f)
  PROVE  OneCopy'
  <1>1. PICK T : T = {<<"link", Home[h]>>}
    OBVIOUS
  <1>2. /\ wire \in [Wired -> Seq(Frames)] /\ Home[h] \in Wired
        /\ wire' = [wire EXCEPT ![Home[h]] = Append(@, f)]
        /\ UNCHANGED <<sent, read, toCtl, got>>
    BY EndsAre DEF Say, NetTypeOK, vars
  <1>3. ASSUME NEW e \in Wired, NEW g \in Frames
        PROVE  Grows(At(wire[e], g), At(wire'[e], g), g = f /\ <<"link", e>> \in T)
    <2>1. CASE e = Home[h]
      <3>1. wire'[e] = Append(wire[e], f)
        BY <1>2, <2>1
      <3>2. Grows(At(wire[e], g), At(Append(wire[e], f), g), g = f)
        BY <1>2, AtAppended
      <3> QED
        BY <1>1, <2>1, <3>1, <3>2 DEF Grows
    <2>2. CASE e # Home[h]
      <3>1. wire'[e] = wire[e]
        BY <1>2, <2>2
      <3> QED
        BY <3>1, Shrinks
    <2> QED
      BY <2>1, <2>2
  <1>4. LinksGet(wire, f, T)
    BY <1>3 DEF LinksGet
  <1>5. AskedGet(f, T) /\ HostsGet(f, T)
    BY <1>2, Shrinks DEF AskedGet, HostsGet
  <1>6. BackGet(f, T)
    <2>1. \A s, p, g : Returned(s, p, g)' = Returned(s, p, g)
      BY <1>2 DEF Returned
    <2> QED
      BY <2>1, Shrinks DEF BackGet
  <1>7. Comes(f, T)
    BY <1>4, <1>5, <1>6, ComesBy
  <1>8. Apart(T)
    BY <1>1 DEF Apart
  <1> QED
    BY <1>7, <1>8, NowhereYet, CopyKept

LEMMA AllSaidStep ==
  ASSUME AllSaid, FramesMove, said \subseteq said'
  PROVE  AllSaid'
  <1>1. ASSUME NEW s \in Sockets, NEW p \in Ports, NEW o \in Ports, NEW f, Passes(s, p, o, f)
        PROVE  f \in said'
    BY <1>1 DEF Passes, AllSaid
  <1>2. ASSUME NEW s \in Sockets, NEW p \in Ports, NEW f \in Here(s, p)'
        PROVE  f \in said'
    <2>1. f \in Here(s, p) \/ Enters(<<s, p>>, f) \/ Crosses(<<s, p>>, f)
      BY DEF FramesMove
    <2> QED
      BY <1>1, <2>1 DEF AllSaid, Enters, Crosses
  <1>3. ASSUME NEW h \in Hosts, NEW f \in Received(h)' PROVE f \in said'
    <2>1. f \in Received(h) \/ Reaches(h, f)
      BY DEF FramesMove
    <2> QED
      BY <1>1, <2>1 DEF AllSaid, Reaches
  <1> QED
    BY <1>2, <1>3 DEF AllSaid

LEMMA InitiatedIs ==
  ASSUME NetTypeOK
  PROVE  IsFiniteSet(Initiated) /\ Cardinality(Initiated) \in Nat /\ Initiated \subseteq said
  <1>1. Initiated \subseteq said /\ IsFiniteSet(said)
    BY DEF Initiated, NetTypeOK
  <1>2. IsFiniteSet(Initiated)
    BY <1>1, FS_Subset
  <1> QED
    BY <1>1, <1>2, FS_CardinalityType

(* A host sends a frame with an id of its own, or an answer it has not     *)
(* sent.                                                                   *)
LEMMA HostsOnce ==
  ASSUME NetTypeOK, IdsDiffer, AllSaid, OneCopy,
         NEW h \in Hosts, Answer(h) \/ \E whom \in Hosts : Send(h, whom)
  PROVE  IdsDiffer' /\ OneCopy' /\ said \subseteq said'
  <1>1. /\ said \subseteq Frames /\ life \in Nat /\ MaxFrames \in Nat
        /\ IsFiniteSet(Initiated) /\ Cardinality(Initiated) \in Nat /\ Initiated \subseteq said
    BY NetworkOK, InitiatedIs DEF NetTypeOK
  <1>2. \A f : Say(h, f) => said' = said \cup {f}
    BY DEF Say
  <1>3. CASE Answer(h)
    <2>1. PICK r \in Received(h) : r.dst = Broadcast /\ r.whom = h /\ Reply(r) \notin said /\ Say(h, Reply(r))
      BY <1>3 DEF Answer
    <2>2. r \in Frames /\ r \in said
      BY ReceivedIs DEF AllSaid
    <2>3. r \in Initiated
      BY <2>1, <2>2, FramesAre, HostsAre DEF Initiated
    <2>4. r.src \in Hosts /\ r.src # h /\ r.id \in Nat /\ r.life \in Nat
      BY <2>1, <2>2 DEF Frames
    <2>5. PICK f : f = Reply(r)
      OBVIOUS
    <2>6. f \in Frames /\ f.arp_reply
      BY <1>1, <2>1, <2>4, <2>5, HostsAre DEF Reply, Frames
    <2>7. OneCopy'
      BY <2>1, <2>5, <2>6, SayOnce
    <2>8. said' = said \cup {f}
      BY <1>2, <2>1, <2>5
    <2>9. Initiated' = Initiated
      BY <2>6, <2>8 DEF Initiated
    <2>10. \A g \in said' : g.arp_reply => \E q \in Initiated : g = Reply(q)
      BY <2>3, <2>5, <2>8 DEF IdsDiffer
    <2>11. IdsDiffer'
      <3>1. \A q : Reply(q)' = Reply(q)
        BY DEF Reply
      <3> QED
        BY <2>9, <2>10, <3>1 DEF IdsDiffer
    <2> QED
      BY <2>7, <2>8, <2>11
  <1>4. ASSUME NEW whom \in Hosts, Send(h, whom)
        PROVE  IdsDiffer' /\ OneCopy' /\ said \subseteq said'
    <2> DEFINE asked(dst) == [dst |-> dst, src |-> h, arp_reply |-> FALSE, whom |-> whom,
                               id |-> Cardinality(Initiated) + 1, life |-> life]
    <2>1. PICK dst \in {Broadcast, whom} : Say(h, asked(dst))
      BY <1>4 DEF Send
    <2>2. h # whom /\ Cardinality(Initiated) < MaxFrames
      BY <1>4 DEF Send
    <2>3. PICK f : f = asked(dst)
      OBVIOUS
    <2>4. f \in Frames /\ ~ f.arp_reply /\ f.id = Cardinality(Initiated) + 1
      BY <1>1, <2>2, <2>3, HostsAre DEF Frames
    <2>5. Say(h, f)
      BY <2>1, <2>3
    <2> HIDE DEF asked
    <2>6. f \notin Initiated
      <3>1. \A g \in Initiated : g.id \in 1 .. Cardinality(Initiated)
        BY DEF IdsDiffer
      <3>2. f.id \notin 1 .. Cardinality(Initiated)
        BY <1>1, <2>4
      <3> QED
        BY <3>1, <3>2
    <2>7. f \notin said
      BY <2>4, <2>6 DEF Initiated
    <2>8. OneCopy'
      BY <2>4, <2>5, <2>7, SayOnce
    <2>9. said' = said \cup {f}
      BY <1>2, <2>5
    <2>10. Initiated' = Initiated \cup {f}
      BY <2>4, <2>9 DEF Initiated
    <2>11. Cardinality(Initiated') = Cardinality(Initiated) + 1
      BY <1>1, <2>6, <2>10, FS_AddElement
    <2>12. IdsDiffer'
      <3> DEFINE n == Cardinality(Initiated)
      <3>1. /\ \A g \in Initiated : g.id \in 1 .. n
            /\ \A g, k \in Initiated : g.id = k.id => g = k
            /\ \A g \in said : g.arp_reply => \E r \in Initiated : g = Reply(r)
        BY DEF IdsDiffer
      <3>2. n \in Nat /\ n < MaxFrames /\ f.id = n + 1 /\ Cardinality(Initiated') = n + 1
        BY <1>1, <2>2, <2>4, <2>11
      <3> HIDE DEF n
      <3>3. \A i \in 1 .. n : i \in 1 .. n + 1 /\ i # n + 1
        BY <3>2
      <3>4. n + 1 \in 1 .. n + 1 /\ n + 1 <= MaxFrames
        BY <1>1, <3>2
      <3>5. \A g \in Initiated' : g.id \in 1 .. n + 1
        BY <2>10, <3>1, <3>2, <3>3, <3>4
      <3>6. \A g, k \in Initiated' : g.id = k.id => g = k
        BY <2>10, <3>1, <3>2, <3>3
      <3>7. \A g \in said' : g.arp_reply => \E r \in Initiated' : g = Reply(r)
        BY <2>4, <2>9, <2>10, <3>1
      <3>8. \A q : Reply(q)' = Reply(q)
        BY DEF Reply
      <3>9. Cardinality(Initiated)' = Cardinality(Initiated')
        OBVIOUS
      <3> QED
        BY <3>2, <3>4, <3>5, <3>6, <3>7, <3>8, <3>9 DEF IdsDiffer
    <2> QED
      BY <2>8, <2>9, <2>12
  <1> QED
    BY <1>3, <1>4

(* The controller ends or starts: frames on its side of the connections    *)
(* are lost.                                                               *)
LEMMA StopOnce ==
  ASSUME OneCopy, Exit \/ Restart
  PROVE  OneCopy'
  <1>1. wire' = wire /\ got' = got
    BY DEF Exit, Restart, net
  <1> DEFINE T == {}
  <1>2. \A f : LinksGet(wire, f, T) /\ HostsGet(f, T)
    BY <1>1, Shrinks DEF LinksGet, HostsGet
  <1>3. ASSUME NEW s \in Sockets, NEW p \in Ports, NEW g \in Frames
        PROVE  /\ At(toCtl'[s], Packet(p, g)) \subseteq At(toCtl[s], Packet(p, g))
               /\ Returned(s, p, g)' \subseteq Returned(s, p, g)
    <2>1. CASE Exit
      <3>1. UNCHANGED <<sent, read, toCtl>>
        BY <2>1 DEF Exit, net
      <3> QED
        BY <3>1 DEF Returned
    <2>2. CASE Restart
      <3>1. sent'[s] = << >> /\ toCtl'[s] = << >>
        BY <2>2 DEF Restart
      <3> QED
        BY <3>1 DEF Returned, At
    <2> QED
      BY <2>1, <2>2
  <1>4. \A f : AskedGet(f, T) /\ BackGet(f, T)
    BY <1>3, Shrinks DEF AskedGet, BackGet
  <1>5. \A f : Comes(f, T)
    BY <1>2, <1>4, ComesBy
  <1>6. Apart(T)
    BY DEF Apart
  <1> QED
    BY <1>5, <1>6, CopyKept

Once == IdsDiffer /\ AllSaid /\ OneCopy

LEMMA OnceStep ==
  ASSUME OneWay, IsFiniteSet(Sockets), NetTypeOK, NotFlooded, Once, NetNext
  PROVE  Once'
  <1>1. FramesMove
    BY MovesStep DEF Moved
  <1>2. ASSUME NEW h \in Hosts, Answer(h) \/ \E whom \in Hosts : Send(h, whom)
        PROVE  Once'
    <2>1. IdsDiffer' /\ OneCopy' /\ said \subseteq said'
      BY <1>2, HostsOnce DEF Once
    <2>2. AllSaid'
      BY <1>1, <2>1, AllSaidStep DEF Once
    <2> QED
      BY <2>1, <2>2 DEF Once
  <1>3. ASSUME said' = said, OneCopy' PROVE Once'
    <2>1. AllSaid'
      BY <1>1, <1>3, AllSaidStep DEF Once
    <2>2. IdsDiffer'
      <3>1. Initiated' = Initiated /\ \A q : Reply(q)' = Reply(q)
        BY <1>3 DEF Initiated, Reply
      <3> QED
        BY <1>3, <3>1 DEF Once, IdsDiffer
    <2> QED
      BY <1>3, <2>1, <2>2 DEF Once
  <1>4. ASSUME NEW s \in Sockets, NEW p \in Ports, Forward(s, p) PROVE Once'
    <2>1. said' = said
      BY <1>4 DEF Forward
    <2> QED
      BY <1>3, <1>4, <2>1, ForwardOnce DEF Once
  <1>5. ASSUME NEW s \in Sockets, CarryOut(s) PROVE Once'
    <2>1. said' = said
      BY <1>5 DEF CarryOut
    <2> QED
      BY <1>3, <1>5, <2>1, CarryOutOnce DEF Once
  <1>6. ASSUME NEW s \in Sockets, Serve(s) PROVE Once'
    <2>1. PICK m \in Packets : AfterServing(s, m)
      BY <1>6, ServeDoes
    <2>2. said' = said
      BY <1>6 DEF Serve
    <2> QED
      BY <1>3, <2>1, <2>2, ServeOnce DEF Once
  <1>7. CASE Exit \/ Restart
    <2>1. said' = said
      BY <1>7 DEF Exit, Restart, net
    <2> QED
      BY <1>3, <1>7, <2>1, StopOnce DEF Once
  <1> QED
    BY <1>2, <1>4, <1>5, <1>6, <1>7 DEF NetNext, Moves

(* An id tells a frame.                                                    *)
LEMMA IdsTell ==
  ASSUME NetTypeOK, IdsDiffer, NEW f \in said, NEW g \in said, f.id = g.id
  PROVE  f = g
  <1> DEFINE n == Cardinality(Initiated)
  <1>1. n \in Nat /\ n <= MaxFrames /\ MaxFrames \in Nat
    BY NetworkOK, InitiatedIs DEF IdsDiffer
  <1>2. \A k \in Initiated : k.id \in 1 .. n
    BY DEF IdsDiffer
  <1>3. \A k \in said : ~ k.arp_reply => k \in Initiated
    BY DEF Initiated
  <1>4. \A k \in said : k.arp_reply => \E r \in Initiated : k = Reply(r) /\ k.id = MaxFrames + r.id
    BY DEF IdsDiffer, Reply
  <1> HIDE DEF n
  <1>5. \A i, j \in 1 .. n : i # MaxFrames + j /\ (MaxFrames + i = MaxFrames + j => i = j)
    BY <1>1
  <1>6. CASE ~ f.arp_reply /\ ~ g.arp_reply
    BY <1>3, <1>6 DEF IdsDiffer
  <1>7. CASE f.arp_reply /\ g.arp_reply
    <2>1. PICK r \in Initiated : f = Reply(r) /\ f.id = MaxFrames + r.id
      BY <1>4, <1>7
    <2>2. PICK q \in Initiated : g = Reply(q) /\ g.id = MaxFrames + q.id
      BY <1>4, <1>7
    <2>3. r.id = q.id
      BY <1>2, <1>5, <2>1, <2>2
    <2>4. r = q
      BY <2>3 DEF IdsDiffer
    <2> QED
      BY <2>1, <2>2, <2>4
  <1>8. CASE f.arp_reply /\ ~ g.arp_reply
    BY <1>2, <1>3, <1>4, <1>5, <1>8
  <1>9. CASE ~ f.arp_reply /\ g.arp_reply
    BY <1>2, <1>3, <1>4, <1>5, <1>9
  <1> QED
    BY <1>6, <1>7, <1>8, <1>9

LEMMA OnceShows == NetTypeOK /\ Once => DeliveredOnce
  <1> SUFFICES ASSUME NetTypeOK, Once, NEW h \in Hosts,
                      NEW i \in DOMAIN got[h], NEW j \in DOMAIN got[h], got[h][i].id = got[h][j].id
               PROVE  i = j
    BY DEF DeliveredOnce
  <1>1. got[h][i] \in Received(h) /\ got[h][j] \in Received(h)
    BY DEF Received
  <1>2. Received(h) \subseteq said /\ Received(h) \subseteq Frames
    BY ReceivedIs DEF Once, AllSaid
  <1>3. got[h][i] = got[h][j]
    BY <1>1, <1>2, IdsTell DEF Once
  <1> DEFINE f == got[h][i]
  <1> DEFINE x == <<"host", h>>
  <1>4. i \in Spots(x, f) /\ j \in Spots(x, f)
    <2>1. i \in At(got[h], f) /\ j \in At(got[h], f)
      BY <1>3 DEF At
    <2> QED
      BY <2>1, SpotsAre
  <1>5. x \in SitesOf(h) /\ f \in Frames
    BY <1>1, <1>2, SitesAre
  <1>6. ~ Two(Spots(x, f))
    BY <1>5 DEF Once, OneCopy
  <1> QED
    BY <1>4, <1>6 DEF Two

(* No frame comes to a host twice, though the controller floods frames     *)
(* (handlePacketIn), sends flows and hands the same frame back to the      *)
(* table (establishFlows, makeSendPacketOut), and may have failed between  *)
(* two of these sends or have been started again.                          *)
THEOREM FramesComeOnce ==
  ASSUME OneWay, IsFiniteSet(Sockets)
  PROVE  NetSpec => []DeliveredOnce
  <1>1. NetInit => NetTypeOK /\ NotFlooded /\ Once
    BY MovesInit, OnceInit DEF Once
  <1>2. NetTypeOK /\ NotFlooded /\ Once /\ [NetNext]_netvars => (NetTypeOK /\ NotFlooded /\ Once)'
    <2>1. ASSUME NetTypeOK, NotFlooded, Once, NetNext PROVE (NetTypeOK /\ NotFlooded /\ Once)'
      BY <2>1, MovesStep, OnceStep DEF Moved
    <2>2. ASSUME NetTypeOK, NotFlooded, Once, UNCHANGED netvars
          PROVE  (NetTypeOK /\ NotFlooded /\ Once)'
      <3>1. UNCHANGED <<ll, xid, sent, table, read, toCtl, wire, got, said, life>>
        BY <2>2 DEF netvars, vars, net
      <3>2. NetTypeOK' /\ NotFlooded'
        BY <2>2, <3>1 DEF NetTypeOK, NotFlooded
      <3>3. Initiated' = Initiated /\ \A q : Reply(q)' = Reply(q)
        BY <3>1 DEF Initiated, Reply
      <3>4. IdsDiffer'
        BY <2>2, <3>1, <3>3 DEF Once, IdsDiffer
      <3>5. AllSaid'
        BY <2>2, <3>1 DEF Once, AllSaid, Here, Received
      <3>6. \A x, f : Spots(x, f)' = Spots(x, f)
        BY <3>1 DEF Spots, Returned
      <3>7. OneCopy'
        BY <2>2, <3>6 DEF Once, OneCopy, SitesOf, Ahead
      <3> QED
        BY <3>2, <3>4, <3>5, <3>7 DEF Once
    <2> QED
      BY <2>1, <2>2
  <1> QED
    BY <1>1, <1>2, OnceShows, PTL DEF NetSpec
===============================================================================
