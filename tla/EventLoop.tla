----------------------------- MODULE EventLoop -----------------------------
(***************************************************************************)
(* handleConnections and recvData of controller.c, with tcpAccept of       *)
(* networks.c: one process that waits in select, accepts connections and   *)
(* reads one message from each readable socket per round, with recv calls  *)
(* that block until all they asked for is there (MSG_WAITALL).  What a     *)
(* message means is Controller's subject; here it has a header and perhaps *)
(* a body, and may be cut short by the end of its connection.              *)
(***************************************************************************)
EXTENDS Naturals, Sequences, FiniteSets, SequencesExt

CONSTANTS Conns,    \* the connections the switches make, each used once
          MaxFds,   \* the descriptors left to accept: the process's limit
          MaxMsgs,  \* bound: messages a switch sends on a connection
          MaxInAll  \* bound: messages sent on all connections together

ASSUME BoundsOK == MaxFds \in Nat /\ MaxMsgs \in Nat /\ MaxInAll \in Nat

(* A connection carries units: both halves of a header, the second of      *)
(* which says whether a body follows, and both halves of the body.         *)
Short == <<"first", "short">>
Long  == <<"first", "long", "half", "body">>
Units == {"first", "short", "long", "half", "body"}

(* The units a whole message ends with.                                    *)
Ends == {"short", "body"}

(* Descriptors, counted from the listening socket.                         *)
ListenFd == 0

VARIABLES
  outq,      \* per connection, units the switch has still to send
  buf,       \* per connection, units in the controller's socket buffer
  ended,     \* per connection, whether it is "open", or ended by "fin" or "rst"
  sent,      \* history: per connection, the messages the switch wrote
  backlog,   \* connections made and not accepted, in order
  fdOf,      \* the descriptor of a connection, ListenFd before it has one
  set,       \* the descriptors select watches
  nfds,      \* the largest of them
  t_set,     \* those select found readable
  i,         \* the one the loop has come to
  pc,        \* where the process is
  cur,       \* the units recvData has read of the current message
  handled    \* history: per connection, the messages handled

switch == <<outq, buf, ended, sent, backlog>>
loop   == <<fdOf, set, nfds, t_set, i, pc, cur, handled>>
vars   == <<switch, loop>>

Init ==
  /\ outq = [c \in Conns |-> << >>]
  /\ buf = [c \in Conns |-> << >>]
  /\ ended = [c \in Conns |-> "open"]
  /\ sent = [c \in Conns |-> << >>]
  /\ backlog = << >>
  /\ fdOf = [c \in Conns |-> ListenFd]
  /\ set = {ListenFd}
  /\ nfds = ListenFd
  /\ t_set = {}
  /\ i = 0
  /\ pc = "select"
  /\ cur = << >>
  /\ handled = [c \in Conns |-> << >>]

---------------------------------------------------------------------------
(* The switches and TCP *)

Accepted(c) == fdOf[c] # ListenFd
Connected(c) == Accepted(c) \/ c \in Range(backlog)

Connect(c) ==
  /\ ~ Connected(c)
  /\ backlog' = Append(backlog, c)
  /\ UNCHANGED <<outq, buf, ended, sent, loop>>

Compose(c) ==
  /\ Connected(c) /\ ended[c] = "open"
  /\ Len(sent[c]) < MaxMsgs
  /\ MapThenSumSet(LAMBDA d : Len(sent[d]), Conns) < MaxInAll
  /\ \E m \in {Short, Long} :
       /\ outq' = [outq EXCEPT ![c] = @ \o m]
       /\ sent' = [sent EXCEPT ![c] = Append(@, Last(m))]
  /\ UNCHANGED <<buf, ended, backlog, loop>>

(* A segment may end anywhere in a message.                                *)
Deliver(c) ==
  /\ ended[c] = "open" /\ outq[c] # << >>
  /\ buf' = [buf EXCEPT ![c] = Append(@, Head(outq[c]))]
  /\ outq' = [outq EXCEPT ![c] = Tail(@)]
  /\ UNCHANGED <<ended, sent, backlog, loop>>

(* The switch goes away, perhaps in the middle of a message; what was      *)
(* delivered can still be read.                                            *)
End(c) ==
  /\ Connected(c) /\ ended[c] = "open"
  /\ \E how \in {"fin", "rst"} : ended' = [ended EXCEPT ![c] = how]
  /\ UNCHANGED <<outq, buf, sent, backlog, loop>>

Switch == \E c \in Conns : Connect(c) \/ Compose(c) \/ Deliver(c) \/ End(c)

---------------------------------------------------------------------------
(* The loop *)

Readable(c) == buf[c] # << >> \/ ended[c] # "open"

ReadableFds ==
  {fd \in set \cap 0 .. nfds :
     \/ fd = ListenFd /\ backlog # << >>
     \/ \E c \in Conns : Accepted(c) /\ fdOf[c] = fd /\ Readable(c)}

(* exit(-1)                                                                *)
Exit == pc' = "exited" /\ UNCHANGED <<fdOf, set, nfds, t_set, i, cur, handled>>

(* Mutant: the scan starts after the listening socket.                     *)
SelectPastListen ==
  /\ pc = "select"
  /\ ReadableFds # {}
  /\ t_set' = ReadableFds
  /\ i' = ListenFd + 1
  /\ pc' = "scan"
  /\ UNCHANGED <<switch, fdOf, set, nfds, cur, handled>>

(* select returns only with some descriptor readable *)
Select ==
  /\ pc = "select"
  /\ ReadableFds # {}
  /\ t_set' = ReadableFds
  /\ i' = 0
  /\ pc' = "scan"
  /\ UNCHANGED <<switch, fdOf, set, nfds, cur, handled>>

(* The loop has passed over what is not set, up to fd.                     *)
At(fd) ==
  /\ pc = "scan" /\ fd \in t_set /\ i <= fd /\ fd <= nfds
  /\ \A j \in t_set : i <= j => fd <= j

EndScan ==
  /\ pc = "scan"
  /\ \A fd \in t_set : fd < i \/ nfds < fd
  /\ pc' = "select"
  /\ UNCHANGED <<switch, fdOf, set, nfds, t_set, i, cur, handled>>

(* Mutant: descriptors beyond the limit are handed out.                    *)
AcceptUnchecked ==
  LET fd == 1 + Cardinality({c \in Conns : Accepted(c)})
  IN  /\ At(ListenFd)
      /\ fdOf' = [fdOf EXCEPT ![Head(backlog)] = fd]
      /\ backlog' = Tail(backlog)
      /\ set' = set \cup {fd}
      /\ nfds' = IF nfds < fd THEN fd ELSE nfds
      /\ i' = ListenFd + 1
      /\ UNCHANGED <<outq, buf, ended, sent, t_set, pc, cur, handled>>

(* tcpAccept takes the lowest free descriptor.  None is ever closed.       *)
Accept ==
  LET fd == 1 + Cardinality({c \in Conns : Accepted(c)})
  IN  /\ At(ListenFd)
      /\ fd <= MaxFds
      /\ fdOf' = [fdOf EXCEPT ![Head(backlog)] = fd]
      /\ backlog' = Tail(backlog)
      /\ set' = set \cup {fd}
      /\ nfds' = IF nfds < fd THEN fd ELSE nfds
      /\ i' = ListenFd + 1
      /\ UNCHANGED <<outq, buf, ended, sent, t_set, pc, cur, handled>>

AcceptFails ==
  /\ At(ListenFd)
  /\ Cardinality({c \in Conns : Accepted(c)}) = MaxFds
  /\ Exit
  /\ UNCHANGED switch

(* Mutant: a short read is not waited for.                                 *)
RecvHeaderAtOnce(c) ==
  /\ Accepted(c) /\ At(fdOf[c]) /\ buf[c] # << >>
  /\ LET n == IF Len(buf[c]) = 1 THEN 1 ELSE 2
     IN  /\ cur' = SubSeq(buf[c], 1, n)
         /\ buf' = [buf EXCEPT ![c] = SubSeq(@, n + 1, Len(@))]
         /\ pc' = IF cur'[n] = "long" THEN "body" ELSE "handle"
  /\ i' = fdOf[c]
  /\ UNCHANGED <<outq, ended, sent, backlog, fdOf, set, nfds, t_set, handled>>

(* recvData: the header, all of it unless the connection ended inside it   *)
RecvHeader(c) ==
  /\ Accepted(c) /\ At(fdOf[c]) /\ buf[c] # << >>
  /\ Len(buf[c]) >= 2 \/ ended[c] # "open"
  /\ LET n == IF Len(buf[c]) = 1 THEN 1 ELSE 2
     IN  /\ cur' = SubSeq(buf[c], 1, n)
         /\ buf' = [buf EXCEPT ![c] = SubSeq(@, n + 1, Len(@))]
         /\ pc' = IF cur'[n] = "long" THEN "body" ELSE "handle"
  /\ i' = fdOf[c]
  /\ UNCHANGED <<outq, ended, sent, backlog, fdOf, set, nfds, t_set, handled>>

(* Mutant: the end of a connection starts a new round.                     *)
RecvEofRestarts(c) ==
  /\ Accepted(c) /\ At(fdOf[c]) /\ buf[c] = << >> /\ ended[c] = "fin"
  /\ pc' = "select"
  /\ UNCHANGED <<switch, fdOf, set, nfds, t_set, i, cur, handled>>

(* recvData returns 0 at the end of the connection, which nobody looks at: *)
(* the socket stays in the set and is readable ever after                  *)
RecvEof(c) ==
  /\ Accepted(c) /\ At(fdOf[c]) /\ buf[c] = << >> /\ ended[c] = "fin"
  /\ i' = fdOf[c] + 1
  /\ UNCHANGED <<switch, fdOf, set, nfds, t_set, pc, cur, handled>>

(* a recv that fails ends the process: of the header, or of the body, also *)
(* of one that half a header announced                                     *)
RecvFails(c) ==
  /\ Accepted(c) /\ ended[c] = "rst"
  /\ \/ At(fdOf[c]) /\ buf[c] = << >>
     \/ pc = "body" /\ i = fdOf[c] /\ buf[c] = << >>
     \/ pc = "handle" /\ i = fdOf[c] /\ cur = <<"first">>
  /\ Exit
  /\ UNCHANGED switch

(* Mutant: a short read of the body is not waited for.                     *)
RecvBodyAtOnce(c) ==
  /\ pc = "body" /\ i = fdOf[c] /\ buf[c] # << >>
  /\ LET n == IF Len(buf[c]) = 1 THEN 1 ELSE 2
     IN  /\ cur' = cur \o SubSeq(buf[c], 1, n)
         /\ buf' = [buf EXCEPT ![c] = SubSeq(@, n + 1, Len(@))]
  /\ pc' = "handle"
  /\ UNCHANGED <<outq, ended, sent, backlog, fdOf, set, nfds, t_set, i, handled>>

(* the body, all of it unless the connection ended inside it               *)
RecvBody(c) ==
  /\ pc = "body" /\ i = fdOf[c] /\ buf[c] # << >>
  /\ Len(buf[c]) >= 2 \/ ended[c] # "open"
  /\ LET n == IF Len(buf[c]) = 1 THEN 1 ELSE 2
     IN  /\ cur' = cur \o SubSeq(buf[c], 1, n)
         /\ buf' = [buf EXCEPT ![c] = SubSeq(@, n + 1, Len(@))]
  /\ pc' = "handle"
  /\ UNCHANGED <<outq, ended, sent, backlog, fdOf, set, nfds, t_set, i, handled>>

(* 0 bytes are a body like any other *)
RecvNoBody(c) ==
  /\ pc = "body" /\ i = fdOf[c] /\ buf[c] = << >> /\ ended[c] = "fin"
  /\ pc' = "handle"
  /\ UNCHANGED <<switch, fdOf, set, nfds, t_set, i, cur, handled>>

(* A message by its last unit.                                             *)
Message(units) == IF Last(units) \in Ends THEN Last(units) ELSE "cut"

(* Mutant: a socket is read until it has nothing more.                     *)
HandleStays(c) ==
  /\ pc = "handle" /\ i = fdOf[c]
  /\ handled' = [handled EXCEPT ![c] = Append(@, Message(cur))]
  /\ cur' = << >>
  /\ i' = i
  /\ pc' = "scan"
  /\ UNCHANGED <<switch, fdOf, set, nfds, t_set>>

(* recvData's dispatch to a handler *)
Handle(c) ==
  /\ pc = "handle" /\ i = fdOf[c]
  /\ handled' = [handled EXCEPT ![c] = Append(@, Message(cur))]
  /\ cur' = << >>
  /\ i' = i + 1
  /\ pc' = "scan"
  /\ UNCHANGED <<switch, fdOf, set, nfds, t_set>>

(* a handler's send fails, which it does only once the switch is gone *)
HandleFails(c) ==
  /\ pc = "handle" /\ i = fdOf[c] /\ ended[c] # "open"
  /\ Exit
  /\ UNCHANGED switch

Loop ==
  \/ Select
  \/ EndScan
  \/ Accept
  \/ AcceptFails
  \/ \E c \in Conns :
       \/ RecvHeader(c) \/ RecvEof(c) \/ RecvFails(c)
       \/ RecvBody(c) \/ RecvNoBody(c)
       \/ Handle(c) \/ HandleFails(c)

Next == Switch \/ Loop

(* The process is scheduled, and a switch that stays connected sends out   *)
(* the messages it wrote.                                                  *)
Fairness == WF_vars(Loop) /\ \A c \in Conns : WF_vars(Deliver(c))

Spec == Init /\ [][Next]_vars /\ Fairness

---------------------------------------------------------------------------
(* Observations the properties are about *)

(* What the controller has of a connection and has not handled.            *)
Unhandled(c) == (IF Accepted(c) /\ i = fdOf[c] THEN cur ELSE << >>) \o buf[c]

(* The messages in a sequence of units, each by its last one.  (SelectSeq   *)
(* as a function of its own, so that it can be reasoned about.)            *)
MessageEnds(units) ==
  LET upTo[n \in 0 .. Len(units)] ==
        IF n = 0 THEN << >>
        ELSE IF units[n] \in Ends THEN Append(upTo[n - 1], units[n])
             ELSE upTo[n - 1]
  IN  upTo[Len(units)]

(* The messages in it; the end of the connection ends the last one too.    *)
Inbox(c) ==
  MessageEnds(Unhandled(c))
    \o IF ended[c] # "open" /\ Unhandled(c) # << >> /\ Last(Unhandled(c)) \notin Ends
       THEN <<"cut">> ELSE << >>

Service == INSTANCE MessageService
             WITH Messages <- Ends \cup {"cut"},
                  up <- pc # "exited",
                  inbox <- [c \in Conns |-> Inbox(c)]

---------------------------------------------------------------------------
(* Properties *)

(* Every variable keeps its type.                                          *)
TypeOK ==
  /\ outq \in [Conns -> Seq(Units)] /\ buf \in [Conns -> Seq(Units)]
  /\ ended \in [Conns -> {"open", "fin", "rst"}]
  /\ sent \in [Conns -> Seq(Ends)]
  /\ backlog \in Seq(Conns)
  /\ fdOf \in [Conns -> 0 .. MaxFds]
  /\ set \subseteq 0 .. MaxFds /\ t_set \subseteq set
  /\ nfds \in 0 .. MaxFds /\ i \in 0 .. MaxFds + 1
  /\ pc \in {"select", "scan", "body", "handle", "exited"}
  /\ cur \in Seq(Units)
  /\ handled \in [Conns -> Seq(Ends \cup {"cut"})]

(* What select reported is still true when the loop comes to it, although  *)
(* it accepted, read and handled other things since: accept and the first  *)
(* recv never wait for a peer that has sent nothing.                       *)
ReportedStaysReadable ==
  pc \in {"scan", "body", "handle"} =>
    \A fd \in t_set :
      fd > i \/ (pc = "scan" /\ fd = i) => fd \in ReadableFds

(* The handlers see the messages of a connection as the switch wrote them: *)
(* none lost, doubled, reordered or taken for a piece of another, whatever *)
(* the segments; only the last may be cut short, by the connection's end.  *)
MessagesAreFramed ==
  \A c \in Conns :
    \/ IsPrefix(handled[c], sent[c])
    \/ /\ handled[c] # << >> /\ Last(handled[c]) = "cut"
       /\ IsPrefix(Front(handled[c]), sent[c])
       /\ Len(handled[c]) <= Len(sent[c])
       /\ ended[c] # "open" /\ buf[c] = << >>

(* The loop implements the one-message-at-a-time service that module       *)
(* Controller takes for granted.                                           *)
ImplementsService == Service!Spec

(* No connection is starved: what has arrived completely is handled, or    *)
(* the process exits, even while another connection has ended and keeps    *)
(* its socket readable for ever.                                           *)
EveryMessageHandled ==
  \A c \in Conns : \A n \in 1 .. MaxMsgs :
    Len(handled[c]) + Len(Inbox(c)) >= n ~> Len(handled[c]) >= n \/ pc = "exited"

(* Every connection made is accepted unless the process exits.             *)
EveryConnectionAccepted ==
  \A c \in Conns : c \in Range(backlog) ~> Accepted(c) \/ pc = "exited"

---------------------------------------------------------------------------
(* What comments in the code say and the code does not do *)

(* controller.c:715 "If theres anything in the TCP buffer, read the rest   *)
(* of the bytes": the rest is read only if there is something to read.     *)
BodyReadFindsData ==
  pc = "body" => \E c \in Conns : Accepted(c) /\ i = fdOf[c] /\ Readable(c)

(* controller.c:768 "Method to handle as many switch connections to the    *)
(* controller": it gives up at accept only when all its descriptors serve  *)
(* connections that exist.                                                 *)
AcceptFailsOnlyWhenFull ==
  [][pc' = "exited" /\ At(ListenFd) =>
       Cardinality({c \in Conns : Accepted(c) /\ ended[c] = "open"}) = MaxFds]_vars
=============================================================================
