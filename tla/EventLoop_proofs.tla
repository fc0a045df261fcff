-------------------------- MODULE EventLoop_proofs --------------------------
(***************************************************************************)
(* Proofs about EventLoop, for any number of connections, descriptors and  *)
(* messages: what select reported stays true until the loop comes to it,   *)
(* the handlers see the messages the switches wrote, and the loop          *)
(* implements the service the handlers take for granted.                   *)
(***************************************************************************)
EXTENDS EventLoop, FirstMatch, SequenceTheorems, FiniteSetTheorems, TLAPS

---------------------------------------------------------------------------
(* MessageEnds *)

LEMMA UnitTypes == Ends \subseteq Units /\ Short \in Seq(Units) /\ Long \in Seq(Units)
  BY DEF Ends, Units, Short, Long

(* One step of counting off the messages: what is known after u more.      *)
Count(ms, u) == IF u \in Ends THEN Append(ms, u) ELSE ms

LEMMA CountType ==
  ASSUME NEW ms \in Seq(Ends), NEW u
  PROVE  Count(ms, u) \in Seq(Ends)
  BY AppendProperties DEF Count

(* g counts the messages of the first k units.                             *)
Counts(units, k, g) ==
  /\ g \in [0 .. k -> Seq(Ends)]
  /\ g[0] = << >>
  /\ \A j \in 1 .. k : g[j] = Count(g[j - 1], units[j])

(* Any number of units can be counted ...                                  *)
LEMMA CountsExist ==
  ASSUME NEW units, NEW n \in Nat
  PROVE  \E g : Counts(units, n, g)
  <1> DEFINE Bad == {k \in Nat : ~ \E g : Counts(units, k, g)}
  <1> SUFFICES ASSUME Bad # {} PROVE FALSE
    OBVIOUS
  <1>1. PICK m \in Bad : \A k \in Bad : m <= k
    <2>1. Bad \in SUBSET Nat
      OBVIOUS
    <2> HIDE DEF Bad
    <2> QED
      BY <2>1, LeastElement
  <1>2. CASE m = 0
    <2> DEFINE g == [j \in 0 .. 0 |-> << >>]
    <2>1. << >> \in Seq(Ends)
      BY EmptySeq
    <2>2. Counts(units, 0, g)
      BY <2>1 DEF Counts
    <2> QED
      BY <1>2, <2>2
  <1>3. CASE m # 0
    <2>1. m - 1 \in Nat /\ m - 1 \notin Bad
      BY <1>1, <1>3
    <2>2. PICK g : Counts(units, m - 1, g)
      BY <2>1
    <2> DEFINE last == Count(g[m - 1], units[m])
               h == [j \in 0 .. m |-> IF j = m THEN last ELSE g[j]]
    <2>3. last \in Seq(Ends)
      <3>1. g[m - 1] \in Seq(Ends)
        BY <2>1, <2>2 DEF Counts
      <3> QED
        BY <3>1, CountType
    <2>4. h \in [0 .. m -> Seq(Ends)]
      <3> HIDE DEF last
      <3> QED
        BY <2>1, <2>2, <2>3 DEF Counts
    <2>5. h[0] = << >>
      <3> HIDE DEF last
      <3> QED
        BY <1>3, <2>1, <2>2 DEF Counts
    <2>6. ASSUME NEW j \in 1 .. m
          PROVE  h[j] = Count(h[j - 1], units[j])
      <3>1. CASE j = m
        <4>1. h[j] = last /\ h[j - 1] = g[m - 1]
          BY <3>1
        <4> QED
          BY <3>1, <4>1
      <3>2. CASE j # m
        <4>1. j \in 1 .. m - 1
          BY <3>2
        <4>2. h[j] = g[j] /\ h[j - 1] = g[j - 1]
          BY <3>2, <4>1
        <4>3. g[j] = Count(g[j - 1], units[j])
          BY <4>1, <2>2 DEF Counts
        <4> HIDE DEF h
        <4> QED
          BY <4>2, <4>3
      <3> QED
        BY <3>1, <3>2
    <2>7. Counts(units, m, h)
      <3> HIDE DEF h
      <3> QED
        BY <2>4, <2>5, <2>6 DEF Counts
    <2> QED
      BY <1>1, <2>7
  <1> QED
    BY <1>2, <1>3

(* ... in one way, which depends only on those units ...                   *)
LEMMA CountsAgree ==
  ASSUME NEW units, NEW others, NEW n \in Nat, NEW k \in n .. n + 1, NEW g, NEW h,
         Counts(units, n, g), Counts(others, k, h),
         \A j \in 1 .. n : units[j] = others[j]
  PROVE  g[n] = h[n]
  <1> DEFINE Bad == {j \in 0 .. n : g[j] # h[j]}
  <1>1. CASE Bad = {}
    BY <1>1
  <1>2. CASE Bad # {}
    <2>1. PICK m \in Bad : \A j \in Bad : m <= j
      <3>1. Bad \in SUBSET Nat
        OBVIOUS
      <3> HIDE DEF Bad
      <3> QED
        BY <1>2, <3>1, LeastElement
    <2>2. m # 0
      BY DEF Counts
    <2>3. m - 1 \in 0 .. n /\ m - 1 \notin Bad
      BY <2>1, <2>2
    <2>4. g[m - 1] = h[m - 1]
      BY <2>3
    <2>5. g[m] = Count(g[m - 1], units[m]) /\ h[m] = Count(h[m - 1], others[m])
      <3>1. m \in 1 .. n /\ m \in 1 .. k
        BY <2>2
      <3> HIDE DEF Bad
      <3> QED
        BY <3>1 DEF Counts
    <2>6. units[m] = others[m]
      BY <2>2
    <2> QED
      BY <2>4, <2>5, <2>6
  <1> QED
    BY <1>1, <1>2

(* ... and MessageEnds is what the count of all of them comes to.          *)
LEMMA MessageEndsCounts ==
  ASSUME NEW s \in Seq(Units)
  PROVE  \E g : Counts(s, Len(s), g) /\ MessageEnds(s) = g[Len(s)]
  <1> DEFINE Step(f) == [n \in 0 .. Len(s) |->
                           IF n = 0 THEN << >>
                           ELSE IF s[n] \in Ends THEN Append(f[n - 1], s[n])
                                ELSE f[n - 1]]
             upTo == CHOOSE f : f = Step(f)
  <1>0. Len(s) \in Nat
    BY LenProperties
  <1>1. MessageEnds(s) = upTo[Len(s)]
    BY DEF MessageEnds
  <1>2. \E g : g = Step(g)
    <2>1. PICK g : Counts(s, Len(s), g)
      BY <1>0, CountsExist
    <2>2. g = Step(g)
      <3>1. ASSUME NEW n \in 0 .. Len(s)
            PROVE  g[n] = Step(g)[n]
        <4>1. CASE n = 0
          BY <2>1, <4>1 DEF Counts
        <4>2. CASE n # 0
          <5>1. n \in 1 .. Len(s)
            BY <1>0, <4>2
          <5>2. g[n] = Count(g[n - 1], s[n])
            BY <2>1, <5>1 DEF Counts
          <5> QED
            BY <4>2, <5>2 DEF Count
        <4> QED
          BY <4>1, <4>2
      <3> QED
        BY <2>1, <3>1 DEF Counts
    <2> QED
      BY <2>2
  <1>3. upTo = Step(upTo)
    BY <1>2
  <1> HIDE DEF upTo
  <1>4. upTo[0] = << >>
    BY <1>0, <1>3
  <1>5. ASSUME NEW j \in 1 .. Len(s)
        PROVE  upTo[j] = Count(upTo[j - 1], s[j])
    <2>1. j \in 0 .. Len(s) /\ j # 0
      BY <1>0
    <2>2. upTo[j] = Step(upTo)[j]
      BY <1>3
    <2>3. Step(upTo)[j] = Count(upTo[j - 1], s[j])
      BY <2>1 DEF Count
    <2> QED
      BY <2>2, <2>3
  <1>6. \A j \in 0 .. Len(s) : upTo[j] \in Seq(Ends)
    <2> DEFINE Bad == {j \in 0 .. Len(s) : upTo[j] \notin Seq(Ends)}
    <2> SUFFICES ASSUME Bad # {} PROVE FALSE
      OBVIOUS
    <2>1. PICK m \in Bad : \A j \in Bad : m <= j
      <3>1. Bad \in SUBSET Nat
        OBVIOUS
      <3> HIDE DEF Bad
      <3> QED
        BY <3>1, LeastElement
    <2>2. m # 0
      BY <1>4, EmptySeq
    <2>3. m - 1 \in 0 .. Len(s) /\ m - 1 \notin Bad
      BY <1>0, <2>1, <2>2
    <2>4. upTo[m - 1] \in Seq(Ends)
      BY <2>3
    <2> QED
      BY <1>0, <1>5, <2>2, <2>4, CountType
  <1>7. Counts(s, Len(s), upTo)
    <2>1. upTo = [j \in 0 .. Len(s) |-> upTo[j]]
      BY <1>3
    <2> QED
      BY <1>4, <1>5, <1>6, <2>1 DEF Counts
  <1> QED
    BY <1>1, <1>7

(* No units, no messages.                                                  *)
LEMMA EndsOfNothing == MessageEnds(<< >>) = << >>
  <1>1. << >> \in Seq(Units) /\ Len(<< >>) = 0
    BY EmptySeq
  <1>2. PICK g : Counts(<< >>, 0, g) /\ MessageEnds(<< >>) = g[0]
    BY <1>1, MessageEndsCounts
  <1> QED
    BY <1>2 DEF Counts

LEMMA EndsType ==
  ASSUME NEW s \in Seq(Units)
  PROVE  MessageEnds(s) \in Seq(Ends)
  <1>1. Len(s) \in Nat
    BY LenProperties
  <1>2. PICK g : Counts(s, Len(s), g) /\ MessageEnds(s) = g[Len(s)]
    BY MessageEndsCounts
  <1> QED
    BY <1>1, <1>2 DEF Counts

(* A unit more is a message more if a message ends with it.                *)
LEMMA EndsOfAppend ==
  ASSUME NEW s \in Seq(Units), NEW u \in Units
  PROVE  MessageEnds(Append(s, u)) = Count(MessageEnds(s), u)
  <1> DEFINE t == Append(s, u)
  <1>1. /\ Len(s) \in Nat /\ t \in Seq(Units) /\ Len(t) = Len(s) + 1
        /\ \A j \in 1 .. Len(s) : t[j] = s[j]
        /\ t[Len(s) + 1] = u
    BY LenProperties, AppendProperties
  <1> HIDE DEF t
  <1>2. PICK g : Counts(s, Len(s), g) /\ MessageEnds(s) = g[Len(s)]
    BY MessageEndsCounts
  <1>3. PICK h : Counts(t, Len(s) + 1, h) /\ MessageEnds(t) = h[Len(s) + 1]
    BY <1>1, MessageEndsCounts
  <1>4. g[Len(s)] = h[Len(s)]
    <2> DEFINE n == Len(s)
               k == Len(s) + 1
    <2>1. \A j \in 1 .. n : s[j] = t[j]
      BY <1>1
    <2>2. n \in Nat /\ k \in n .. n + 1
      BY <1>1
    <2>3. Counts(s, n, g) /\ Counts(t, k, h)
      BY <1>2, <1>3
    <2> HIDE DEF n, k
    <2>4. g[n] = h[n]
      BY <2>1, <2>2, <2>3, CountsAgree
    <2> QED
      BY <2>4 DEF n
  <1>5. h[Len(s) + 1] = Count(h[Len(s)], u)
    <2>1. Len(s) + 1 \in 1 .. Len(s) + 1 /\ (Len(s) + 1) - 1 = Len(s)
      BY <1>1
    <2> QED
      BY <1>1, <1>3, <2>1 DEF Counts
  <1>6. MessageEnds(t) = Count(MessageEnds(s), u)
    BY <1>2, <1>3, <1>4, <1>5
  <1> QED
    BY <1>6 DEF t

(* The messages of two pieces are those of the first, then of the second.  *)
LEMMA EndsOfConcat ==
  ASSUME NEW s \in Seq(Units), NEW t \in Seq(Units)
  PROVE  MessageEnds(s \o t) = MessageEnds(s) \o MessageEnds(t)
  <1> DEFINE Bad == {n \in Nat : \E x \in Seq(Units) :
                        Len(x) = n /\ MessageEnds(s \o x) # MessageEnds(s) \o MessageEnds(x)}
  <1> SUFFICES ASSUME Bad # {} PROVE FALSE
    <2>1. Len(t) \in Nat
      BY LenProperties
    <2> QED
      BY <2>1
  <1>1. PICK m \in Bad : \A n \in Bad : m <= n
    <2>1. Bad \in SUBSET Nat
      OBVIOUS
    <2> HIDE DEF Bad
    <2> QED
      BY <2>1, LeastElement
  <1>2. PICK x \in Seq(Units) :
          Len(x) = m /\ MessageEnds(s \o x) # MessageEnds(s) \o MessageEnds(x)
    BY <1>1
  <1>3. CASE x = << >>
    <2>1. s \o << >> = s
      BY ConcatEmptySeq
    <2>2. MessageEnds(s) \o << >> = MessageEnds(s)
      BY EndsType, ConcatEmptySeq
    <2> QED
      BY <1>2, <1>3, <2>1, <2>2, EndsOfNothing
  <1>4. CASE x # << >>
    <2>1. PICK y \in Seq(Units), u \in Units : x = Append(y, u)
      BY <1>4, SequenceEmptyOrAppend
    <2>2. Len(y) \in Nat /\ Len(y) = m - 1
      BY <1>2, <2>1, LenProperties, AppendProperties
    <2>3. MessageEnds(s \o y) = MessageEnds(s) \o MessageEnds(y)
      <3>1. Len(y) \notin Bad
        BY <1>1, <2>2
      <3> QED
        BY <2>2, <3>1
    <2> HIDE DEF Bad
    <2>4. s \o x = Append(s \o y, u) /\ s \o y \in Seq(Units)
      <3>1. s \o y \in Seq(Units)
        BY ConcatProperties
      <3>2. <<u>> \in Seq(Units) /\ x = y \o <<u>>
        BY <2>1, AppendIsConcat
      <3>3. (s \o y) \o <<u>> = s \o (y \o <<u>>)
        BY <3>2, ConcatAssociative
      <3>4. Append(s \o y, u) = (s \o y) \o <<u>>
        BY <3>1, AppendIsConcat
      <3> QED
        BY <3>1, <3>2, <3>3, <3>4
    <2>5. /\ MessageEnds(s \o x) = Count(MessageEnds(s \o y), u)
          /\ MessageEnds(x) = Count(MessageEnds(y), u)
      BY <2>1, <2>4, EndsOfAppend
    <2> DEFINE a == MessageEnds(s)
               b == MessageEnds(y)
    <2>6. a \in Seq(Ends) /\ b \in Seq(Ends)
      BY EndsType
    <2>7. Count(a \o b, u) = a \o Count(b, u)
      <3> HIDE DEF a, b
      <3>1. CASE u \in Ends
        <4>1. a \o b \in Seq(Ends) /\ <<u>> \in Seq(Ends)
          BY <2>6, <3>1, ConcatProperties
        <4>2. Append(a \o b, u) = (a \o b) \o <<u>>
          BY <3>1, <4>1, AppendIsConcat
        <4>3. Append(b, u) = b \o <<u>>
          BY <2>6, <3>1, AppendIsConcat
        <4>4. (a \o b) \o <<u>> = a \o (b \o <<u>>)
          BY <2>6, <4>1, ConcatAssociative
        <4> QED
          BY <3>1, <4>2, <4>3, <4>4 DEF Count
      <3>2. CASE u \notin Ends
        BY <3>2 DEF Count
      <3> QED
        BY <3>1, <3>2
    <2> QED
      BY <1>2, <2>3, <2>5, <2>7
  <1> QED
    BY <1>3, <1>4

---------------------------------------------------------------------------
(* The loop's inductive invariant *)

Serving == {c \in Conns : Accepted(c)}

(* Descriptors are given out in order, one to a connection, and watched.   *)
Descriptors ==
  /\ IsFiniteSet(Serving)
  /\ set = 0 .. Cardinality(Serving)
  /\ nfds = Cardinality(Serving)
  /\ \A c \in Serving : fdOf[c] \in 1 .. Cardinality(Serving)
  /\ \A c, d \in Serving : fdOf[c] = fdOf[d] => c = d

(* A connection waits once, and no longer when it is accepted.             *)
Waiting ==
  /\ \A j, k \in 1 .. Len(backlog) : backlog[j] = backlog[k] => j = k
  /\ \A j \in 1 .. Len(backlog) : ~ Accepted(backlog[j])

(* A message is read from and handled for an accepted socket only.         *)
AtSocket == pc \in {"body", "handle"} => i # ListenFd

LoopInv == TypeOK /\ ReportedStaysReadable /\ Descriptors /\ Waiting /\ AtSocket

LEMMA LoopInvInit == Init => LoopInv
  <1> SUFFICES ASSUME Init PROVE LoopInv
    OBVIOUS
  <1>1. Serving = {}
    BY DEF Init, Serving, Accepted
  <1>2. IsFiniteSet(Serving) /\ Cardinality(Serving) = 0
    BY <1>1, FS_EmptySet
  <1>3. TypeOK
    BY BoundsOK, EmptySeq DEF Init, TypeOK, ListenFd
  <1>4. Descriptors
    BY <1>1, <1>2 DEF Init, Descriptors, ListenFd
  <1>5. Waiting
    BY EmptySeq DEF Init, Waiting
  <1>6. ReportedStaysReadable /\ AtSocket
    BY DEF Init, ReportedStaysReadable, AtSocket
  <1> QED
    BY <1>3, <1>4, <1>5, <1>6 DEF LoopInv

(* While no descriptor is given out the descriptors stay as they are.      *)
LEMMA DescriptorsStay ==
  ASSUME Descriptors, UNCHANGED <<fdOf, set, nfds>>
  PROVE  Descriptors'
  <1>1. Serving' = Serving
    BY DEF Serving, Accepted
  <1> QED
    BY <1>1 DEF Descriptors

LEMMA WaitingStays ==
  ASSUME Waiting, UNCHANGED <<fdOf, backlog>>
  PROVE  Waiting'
  BY DEF Waiting, Accepted

(* What the switches do makes more sockets readable and none unreadable.   *)
LEMMA SwitchKeepsReadable ==
  ASSUME ReportedStaysReadable, UNCHANGED loop,
         backlog # << >> => backlog' # << >>,
         \A c \in Conns : Readable(c) => Readable(c)'
  PROVE  ReportedStaysReadable'
  <1>1. \A c \in Conns : Accepted(c)' <=> Accepted(c)
    BY DEF loop, Accepted
  <1>2. ASSUME NEW fd \in ReadableFds
        PROVE  fd \in ReadableFds'
    <2>1. fd \in set' \cap 0 .. nfds'
      BY DEF loop, ReadableFds
    <2>2. CASE fd = ListenFd /\ backlog # << >>
      BY <2>1, <2>2 DEF ReadableFds
    <2>3. CASE \E c \in Conns : Accepted(c) /\ fdOf[c] = fd /\ Readable(c)
      <3>1. PICK c \in Conns : Accepted(c) /\ fdOf[c] = fd /\ Readable(c)
        BY <2>3
      <3>2. Accepted(c)' /\ fdOf'[c] = fd /\ Readable(c)'
        BY <1>1, <3>1 DEF loop
      <3> QED
        BY <2>1, <3>2 DEF ReadableFds
    <2> QED
      BY <2>2, <2>3 DEF ReadableFds
  <1> QED
    BY <1>2 DEF ReportedStaysReadable, loop

LEMMA LastOfMessage == Last(Short) = "short" /\ Last(Long) = "body"
  <1>1. Len(Short) = 2 /\ Len(Long) = 4
    BY DEF Short, Long
  <1> QED
    BY <1>1 DEF Last, Short, Long

LEMMA LoopInvSwitch ==
  ASSUME LoopInv, NEW c \in Conns,
         Connect(c) \/ Compose(c) \/ Deliver(c) \/ End(c)
  PROVE  LoopInv'
  <1> USE DEF LoopInv
  <1>1. CASE Connect(c)
    <2>1. backlog \in Seq(Conns) /\ backlog' = Append(backlog, c) /\ UNCHANGED loop
      BY <1>1 DEF Connect, TypeOK
    <2>2. /\ Len(backlog) \in Nat /\ Len(backlog') = Len(backlog) + 1
          /\ backlog' \in Seq(Conns) /\ backlog' # << >>
          /\ \A j \in 1 .. Len(backlog) : backlog'[j] = backlog[j]
          /\ backlog'[Len(backlog) + 1] = c
      BY <2>1, LenProperties, AppendProperties
    <2>3. TypeOK'
      BY <1>1, <2>2 DEF Connect, TypeOK, loop
    <2>4. Descriptors' /\ AtSocket'
      BY <2>1, DescriptorsStay DEF loop, AtSocket
    <2>5. Waiting'
      <3>1. ~ Accepted(c) /\ \A j \in 1 .. Len(backlog) : backlog[j] # c
        BY <1>1, <2>1, RangeEquality DEF Connect, Connected
      <3>2. fdOf' = fdOf
        BY <2>1 DEF loop
      <3>3. \A j \in 1 .. Len(backlog) + 1 : j \in 1 .. Len(backlog) \/ j = Len(backlog) + 1
        BY <2>2
      <3>4. \A j, k \in 1 .. Len(backlog) + 1 : backlog'[j] = backlog'[k] => j = k
        BY <2>2, <3>1, <3>3 DEF Waiting
      <3>5. ASSUME NEW j \in 1 .. Len(backlog) + 1
            PROVE  ~ (fdOf[backlog'[j]] # ListenFd)
        BY <2>2, <3>1, <3>3 DEF Waiting, Accepted
      <3> QED
        BY <2>2, <3>2, <3>4, <3>5 DEF Waiting, Accepted
    <2>6. ReportedStaysReadable'
      BY <1>1, <2>1, <2>2, SwitchKeepsReadable DEF Connect, Readable
    <2> QED
      BY <2>3, <2>4, <2>5, <2>6
  <1>2. CASE Compose(c)
    <2>1. PICK m \in {Short, Long} :
            /\ outq' = [outq EXCEPT ![c] = @ \o m]
            /\ sent' = [sent EXCEPT ![c] = Append(@, Last(m))]
      BY <1>2 DEF Compose
    <2>2. UNCHANGED <<buf, ended, backlog, loop>>
      BY <1>2 DEF Compose
    <2>3. outq[c] \o m \in Seq(Units)
      <3>1. outq[c] \in Seq(Units) /\ m \in Seq(Units)
        BY UnitTypes DEF TypeOK
      <3> QED
        BY <3>1, ConcatProperties
    <2>4. Append(sent[c], Last(m)) \in Seq(Ends)
      <3>1. sent[c] \in Seq(Ends) /\ Last(m) \in Ends
        BY LastOfMessage DEF TypeOK, Ends
      <3> QED
        BY <3>1, AppendProperties
    <2>5. TypeOK'
      BY <2>1, <2>2, <2>3, <2>4 DEF TypeOK, loop
    <2>6. Descriptors' /\ AtSocket' /\ Waiting'
      BY <2>2, DescriptorsStay, WaitingStays DEF loop, AtSocket
    <2>7. ReportedStaysReadable'
      BY <2>2, SwitchKeepsReadable DEF Readable
    <2> QED
      BY <2>5, <2>6, <2>7
  <1>3. CASE Deliver(c)
    <2>1. /\ outq[c] # << >> /\ UNCHANGED <<ended, sent, backlog, loop>>
          /\ buf' = [buf EXCEPT ![c] = Append(@, Head(outq[c]))]
          /\ outq' = [outq EXCEPT ![c] = Tail(@)]
      BY <1>3 DEF Deliver
    <2>2. outq[c] \in Seq(Units) /\ buf[c] \in Seq(Units)
      BY DEF TypeOK
    <2>3. Head(outq[c]) \in Units /\ Tail(outq[c]) \in Seq(Units)
      BY <2>1, <2>2, HeadTailProperties
    <2>4. Append(buf[c], Head(outq[c])) \in Seq(Units) /\ Append(buf[c], Head(outq[c])) # << >>
      BY <2>2, <2>3, AppendProperties
    <2>5. TypeOK'
      BY <2>1, <2>3, <2>4 DEF TypeOK, loop
    <2>6. Descriptors' /\ AtSocket' /\ Waiting'
      BY <2>1, DescriptorsStay, WaitingStays DEF loop, AtSocket
    <2>7. ReportedStaysReadable'
      <3>1. \A d \in Conns : buf[d] # << >> => buf'[d] # << >>
        BY <2>1, <2>4 DEF TypeOK
      <3>2. \A d \in Conns : Readable(d) => Readable(d)'
        BY <2>1, <3>1 DEF Readable
      <3> QED
        BY <2>1, <3>2, SwitchKeepsReadable
    <2> QED
      BY <2>5, <2>6, <2>7
  <1>4. CASE End(c)
    <2>1. PICK how \in {"fin", "rst"} : ended' = [ended EXCEPT ![c] = how]
      BY <1>4 DEF End
    <2>2. UNCHANGED <<outq, buf, sent, backlog, loop>>
      BY <1>4 DEF End
    <2>3. TypeOK'
      BY <2>1, <2>2 DEF TypeOK, loop
    <2>4. Descriptors' /\ AtSocket' /\ Waiting'
      BY <2>2, DescriptorsStay, WaitingStays DEF loop, AtSocket
    <2>5. \A d \in Conns : Readable(d) => Readable(d)'
      BY <2>1, <2>2 DEF Readable, TypeOK
    <2>6. ReportedStaysReadable'
      BY <2>2, <2>5, SwitchKeepsReadable
    <2> QED
      BY <2>3, <2>4, <2>6
  <1> QED
    BY <1>1, <1>2, <1>3, <1>4

(* While nothing arrives, is read or is accepted, what is readable stays.  *)
LEMMA ReadableStays ==
  ASSUME UNCHANGED <<switch, fdOf, set, nfds>>
  PROVE  ReadableFds' = ReadableFds
  <1>1. \A c \in Conns : (Accepted(c)' <=> Accepted(c)) /\ (Readable(c)' <=> Readable(c))
    BY DEF switch, Accepted, Readable
  <1> QED
    BY <1>1 DEF ReadableFds, switch

(* Nor does the loop lose anything by going on.                            *)
LEMMA GoingOnKeepsReadable ==
  ASSUME ReportedStaysReadable, UNCHANGED <<switch, fdOf, set, nfds, t_set>>,
         pc \in {"scan", "body", "handle"},
         \A fd \in t_set : fd > i' \/ (pc' = "scan" /\ fd = i')
                         => fd > i \/ (pc = "scan" /\ fd = i)
  PROVE  ReportedStaysReadable'
  <1>1. ReadableFds' = ReadableFds /\ t_set' = t_set
    BY ReadableStays
  <1> QED
    BY <1>1 DEF ReportedStaysReadable

(* Reading a socket takes from no other.                                   *)
LEMMA ReadingKeepsReadable ==
  ASSUME TypeOK, ReportedStaysReadable, NEW c \in Conns,
         UNCHANGED <<ended, backlog, fdOf, set, nfds, t_set>>,
         \A d \in Conns \ {c} : buf'[d] = buf[d],
         pc \in {"scan", "body", "handle"}, i <= fdOf[c],
         i' = fdOf[c], pc' # "scan"
  PROVE  ReportedStaysReadable'
  <1>1. ASSUME NEW fd \in t_set, fd > fdOf[c]
        PROVE  fd \in ReadableFds'
    <2>1. fd \in Nat /\ i \in Nat /\ fdOf[c] \in Nat
      BY DEF TypeOK
    <2>2. fd \in ReadableFds
      BY <1>1, <2>1 DEF ReportedStaysReadable
    <2>3. fd \in set' \cap 0 .. nfds'
      BY <2>2 DEF ReadableFds
    <2>4. CASE fd = ListenFd /\ backlog # << >>
      BY <2>3, <2>4 DEF ReadableFds
    <2>5. CASE \E d \in Conns : Accepted(d) /\ fdOf[d] = fd /\ Readable(d)
      <3>1. PICK d \in Conns : Accepted(d) /\ fdOf[d] = fd /\ Readable(d)
        BY <2>5
      <3>2. d # c
        BY <1>1, <2>1, <3>1
      <3>3. Accepted(d)' /\ fdOf'[d] = fd /\ Readable(d)'
        BY <3>1, <3>2 DEF Accepted, Readable
      <3> QED
        BY <2>3, <3>3 DEF ReadableFds
    <2> QED
      BY <2>2, <2>4, <2>5 DEF ReadableFds
  <1> QED
    BY <1>1 DEF ReportedStaysReadable

LEMMA LoopInvSelect ==
  ASSUME LoopInv, Select \/ EndScan \/ AcceptFails
  PROVE  LoopInv'
  <1> USE DEF LoopInv
  <1>1. CASE Select
    <2>1. /\ UNCHANGED <<switch, fdOf, set, nfds, cur, handled>>
          /\ t_set' = ReadableFds /\ i' = 0 /\ pc' = "scan"
      BY <1>1 DEF Select
    <2>2. ReadableFds \subseteq set
      BY DEF ReadableFds
    <2>3. TypeOK'
      BY <2>1, <2>2, BoundsOK DEF TypeOK, switch
    <2>4. ReadableFds' = ReadableFds
      BY <2>1, ReadableStays
    <2>5. ReportedStaysReadable' /\ AtSocket'
      BY <2>1, <2>4 DEF ReportedStaysReadable, AtSocket
    <2>6. Descriptors' /\ Waiting'
      BY <2>1, DescriptorsStay, WaitingStays DEF switch
    <2> QED
      BY <2>3, <2>5, <2>6
  <1>2. CASE EndScan \/ AcceptFails
    <2>1. /\ UNCHANGED <<switch, fdOf, set, nfds, t_set, i, cur, handled>>
          /\ pc' = "select" \/ pc' = "exited"
      BY <1>2 DEF EndScan, AcceptFails, Exit
    <2>2. TypeOK' /\ ReportedStaysReadable' /\ AtSocket'
      BY <2>1 DEF TypeOK, switch, ReportedStaysReadable, AtSocket
    <2>3. Descriptors' /\ Waiting'
      BY <2>1, DescriptorsStay, WaitingStays DEF switch
    <2> QED
      BY <2>2, <2>3
  <1> QED
    BY <1>1, <1>2

(* accept finds the connection that select reported.                       *)
LEMMA SomethingToAccept ==
  ASSUME LoopInv, At(ListenFd)
  PROVE  backlog # << >>
  <1> USE DEF LoopInv
  <1>1. ListenFd \in t_set /\ i = ListenFd /\ pc = "scan"
    BY DEF At, TypeOK, ListenFd
  <1>2. ListenFd \in ReadableFds
    BY <1>1 DEF ReportedStaysReadable
  <1> QED
    BY <1>2 DEF ReadableFds, Accepted

LEMMA LoopInvAccept ==
  ASSUME LoopInv, Accept
  PROVE  LoopInv'
  <1> USE DEF LoopInv
  <1> DEFINE n == Cardinality(Serving)
             fd == 1 + n
             c == Head(backlog)
  <1>1. /\ At(ListenFd) /\ fd <= MaxFds
        /\ fdOf' = [fdOf EXCEPT ![c] = fd]
        /\ backlog' = Tail(backlog)
        /\ set' = set \cup {fd}
        /\ nfds' = IF nfds < fd THEN fd ELSE nfds
        /\ i' = ListenFd + 1
        /\ UNCHANGED <<outq, buf, ended, sent, t_set, pc, cur, handled>>
    BY DEF Accept, Serving
  <1>2. /\ n \in Nat /\ set = 0 .. n /\ nfds = n /\ IsFiniteSet(Serving)
        /\ \A d \in Serving : fdOf[d] \in 1 .. n
        /\ \A d, e \in Serving : fdOf[d] = fdOf[e] => d = e
    BY FS_CardinalityType DEF Descriptors
  <1>3. /\ backlog \in Seq(Conns) /\ Len(backlog) \in Nat \ {0}
        /\ c \in Conns /\ c = backlog[1] /\ ~ Accepted(c)
        /\ Tail(backlog) \in Seq(Conns)
        /\ Len(Tail(backlog)) = Len(backlog) - 1
        /\ \A j \in 1 .. Len(backlog) - 1 : Tail(backlog)[j] = backlog[j + 1]
    <2>1. backlog \in Seq(Conns) /\ backlog # << >>
      BY <1>1, SomethingToAccept DEF TypeOK
    <2>2. /\ c \in Conns /\ Tail(backlog) \in Seq(Conns) /\ Len(backlog) \in Nat \ {0}
          /\ Len(Tail(backlog)) = Len(backlog) - 1
          /\ \A j \in 1 .. Len(Tail(backlog)) : Tail(backlog)[j] = backlog[j + 1]
      BY <2>1, HeadTailProperties, EmptySeq
    <2>3. c = backlog[1]
      BY <2>1
    <2> QED
      BY <2>1, <2>2, <2>3 DEF Waiting
  <1>4. c \notin Serving /\ Serving' = Serving \cup {c}
    <2>1. /\ fdOf \in [Conns -> 0 .. MaxFds] /\ fd # ListenFd
          /\ fdOf' = [fdOf EXCEPT ![c] = fd] /\ c \in Conns /\ ~ Accepted(c)
      BY <1>1, <1>2, <1>3 DEF TypeOK, ListenFd
    <2> HIDE DEF c, fd
    <2>2. ASSUME NEW d \in Conns
          PROVE  fdOf'[d] # ListenFd <=> fdOf[d] # ListenFd \/ d = c
      BY <2>1
    <2> QED
      BY <2>1, <2>2 DEF Serving, Accepted
  <1>5. IsFiniteSet(Serving') /\ Cardinality(Serving') = fd
    BY <1>2, <1>4, FS_AddElement
  <1>6. \A d \in Serving : d # c /\ fdOf'[d] = fdOf[d]
    BY <1>1, <1>3, <1>4 DEF TypeOK, Serving
  <1>7. fdOf'[c] = fd
    BY <1>1, <1>3 DEF TypeOK
  <1> HIDE DEF n, c
  <1>8. TypeOK'
    <2>1. fdOf' \in [Conns -> 0 .. MaxFds] /\ fd \in 0 .. MaxFds
      BY <1>1, <1>2, <1>3, BoundsOK DEF TypeOK
    <2>2. set' \subseteq 0 .. MaxFds /\ nfds' \in 0 .. MaxFds
      BY <1>1, <1>2, <2>1 DEF TypeOK
    <2>3. t_set' \subseteq set' /\ i' \in 0 .. MaxFds + 1
      BY <1>1, BoundsOK DEF TypeOK, ListenFd
    <2>4. backlog' \in Seq(Conns)
      BY <1>1, <1>3
    <2> QED
      BY <1>1, <2>1, <2>2, <2>3, <2>4 DEF TypeOK
  <1>9. Descriptors'
    <2>1. set' = 0 .. fd /\ nfds' = fd
      BY <1>1, <1>2
    <2>2. \A d \in Serving' : fdOf'[d] \in 1 .. fd
      BY <1>2, <1>4, <1>6, <1>7
    <2>3. \A d, e \in Serving' : fdOf'[d] = fdOf'[e] => d = e
      BY <1>2, <1>4, <1>6, <1>7
    <2> HIDE DEF fd
    <2> QED
      BY <1>5, <2>1, <2>2, <2>3 DEF Descriptors
  <1>10. Waiting'
    <2>1. Len(backlog') = Len(backlog) - 1
      BY <1>1, <1>3
    <2>2. ASSUME NEW j \in 1 .. Len(backlog')
          PROVE  /\ j + 1 \in 1 .. Len(backlog) /\ backlog'[j] = backlog[j + 1]
                 /\ backlog'[j] # c /\ backlog'[j] \in Conns
                 /\ ~ (fdOf[backlog'[j]] # ListenFd)
      <3>1. j \in 1 .. Len(backlog) - 1 /\ j + 1 \in 1 .. Len(backlog) /\ 1 \in 1 .. Len(backlog)
        BY <1>3, <2>1
      <3>2. backlog'[j] = backlog[j + 1]
        BY <1>1, <1>3, <3>1
      <3>3. backlog[j + 1] # backlog[1]
        <4>1. j + 1 # 1
          BY <3>1
        <4> QED
          BY <3>1, <4>1 DEF Waiting
      <3>4. backlog[j + 1] \in Conns
        BY <1>3, <3>1, ElementOfSeq
      <3>5. ~ Accepted(backlog[j + 1])
        BY <3>1 DEF Waiting
      <3> QED
        BY <1>3, <3>1, <3>2, <3>3, <3>4, <3>5 DEF Accepted
    <2>3. \A j \in 1 .. Len(backlog') : ~ (fdOf'[backlog'[j]] # ListenFd)
      BY <1>1, <2>2 DEF TypeOK
    <2>4. ASSUME NEW j \in 1 .. Len(backlog'), NEW k \in 1 .. Len(backlog'),
                 backlog'[j] = backlog'[k]
          PROVE  j = k
      <3>1. backlog[j + 1] = backlog[k + 1] /\ j + 1 \in 1 .. Len(backlog) /\ k + 1 \in 1 .. Len(backlog)
        BY <2>2, <2>4
      <3>2. j + 1 = k + 1
        BY <3>1 DEF Waiting
      <3> QED
        BY <3>2
    <2> QED
      BY <2>3, <2>4 DEF Waiting, Accepted
  <1>11. ReportedStaysReadable'
    <2>1. ASSUME NEW r \in t_set, r > ListenFd
          PROVE  r \in ReadableFds'
      <3>1. pc = "scan" /\ i = ListenFd
        BY <1>1 DEF At, TypeOK, ListenFd
      <3>2. r \in ReadableFds
        BY <2>1, <3>1 DEF ReportedStaysReadable
      <3>3. r \in set' \cap 0 .. nfds'
        <4>1. r \in 0 .. n
          BY <1>2, <3>2 DEF ReadableFds
        <4> QED
          BY <1>1, <1>2, <4>1
      <3>4. PICK d \in Conns : Accepted(d) /\ fdOf[d] = r /\ Readable(d)
        BY <2>1, <3>2 DEF ReadableFds, ListenFd
      <3>5. d \in Serving
        BY <3>4 DEF Serving
      <3>6. fdOf'[d] = r /\ r # ListenFd
        BY <1>6, <2>1, <3>4, <3>5 DEF ListenFd
      <3>7. Accepted(d)' /\ Readable(d)'
        BY <1>1, <3>4, <3>6 DEF Accepted, Readable
      <3> QED
        BY <3>3, <3>6, <3>7 DEF ReadableFds
    <2>2. \A r \in t_set : r \in Nat
      BY DEF TypeOK
    <2>3. \A r \in t_set : r > i' \/ r = i' => r > ListenFd
      BY <1>1, <2>2 DEF ListenFd
    <2> QED
      BY <1>1, <2>1, <2>3 DEF ReportedStaysReadable
  <1>12. AtSocket'
    BY <1>1 DEF AtSocket, At
  <1> QED
    BY <1>8, <1>9, <1>10, <1>11, <1>12

(* A sequence cut in two.                                                  *)
LEMMA CutInTwo ==
  ASSUME NEW s \in Seq(Units), NEW n \in 1 .. Len(s)
  PROVE  /\ SubSeq(s, 1, n) \in Seq(Units) /\ Len(SubSeq(s, 1, n)) = n
         /\ \A j \in 1 .. n : SubSeq(s, 1, n)[j] = s[j]
         /\ SubSeq(s, n + 1, Len(s)) \in Seq(Units)
         /\ Len(SubSeq(s, n + 1, Len(s))) = Len(s) - n
         /\ SubSeq(s, 1, n) \o SubSeq(s, n + 1, Len(s)) = s
  <1>1. Len(s) \in Nat /\ \A j \in 1 .. Len(s) : s[j] \in Units
    BY LenProperties, ElementOfSeq
  <1>2. /\ SubSeq(s, 1, n) \in Seq(Units) /\ Len(SubSeq(s, 1, n)) = n
        /\ \A j \in 1 .. n : SubSeq(s, 1, n)[j] = s[j]
    <2>1. \A j \in 1 .. n : s[j] \in Units
      BY <1>1
    <2>2. /\ SubSeq(s, 1, n) \in Seq(Units)
          /\ Len(SubSeq(s, 1, n)) = IF 1 <= n THEN n - 1 + 1 ELSE 0
          /\ \A j \in 1 .. n - 1 + 1 : SubSeq(s, 1, n)[j] = s[1 + j - 1]
      BY <2>1, SubSeqProperties
    <2> QED
      BY <2>2
  <1>3. /\ SubSeq(s, n + 1, Len(s)) \in Seq(Units)
        /\ Len(SubSeq(s, n + 1, Len(s))) = Len(s) - n
    <2> DEFINE m == n + 1
               l == Len(s)
    <2>1. m \in Int /\ l \in Int /\ \A j \in m .. l : s[j] \in Units
      BY <1>1
    <2> HIDE DEF m, l
    <2>2. /\ SubSeq(s, m, l) \in Seq(Units)
          /\ Len(SubSeq(s, m, l)) = IF m <= l THEN l - m + 1 ELSE 0
      BY <2>1, SubSeqProperties
    <2> QED
      BY <1>1, <2>2 DEF m, l
  <1>4. SubSeq(s, 1, n) \o SubSeq(s, n + 1, Len(s)) = s
    <2>1. 1 \in 1 .. Len(s) + 1 /\ n \in 1 - 1 .. Len(s) /\ Len(s) \in n .. Len(s)
      BY <1>1
    <2>2. SubSeq(s, 1, n) \o SubSeq(s, n + 1, Len(s)) = SubSeq(s, 1, Len(s))
      BY <2>1, ConcatAdjacentSubSeq
    <2> QED
      BY <2>2, SubSeqFull
  <1> QED
    BY <1>2, <1>3, <1>4

(* What reading a header does: one unit of a connection that ended in the  *)
(* middle of it, otherwise two.                                            *)
LEMMA HeaderIs ==
  ASSUME TypeOK, NEW c \in Conns, RecvHeader(c)
  PROVE  \E n \in 1 .. 2 :
           /\ n <= Len(buf[c]) /\ (n = 1 => Len(buf[c]) = 1 /\ ended[c] # "open")
           /\ cur' = SubSeq(buf[c], 1, n)
           /\ buf' = [buf EXCEPT ![c] = SubSeq(@, n + 1, Len(@))]
           /\ pc' = IF cur'[n] = "long" THEN "body" ELSE "handle"
  <1> DEFINE l == Len(buf[c])
             n == IF l = 1 THEN 1 ELSE 2
  <1>1. l \in Nat \ {0}
    BY EmptySeq DEF TypeOK, RecvHeader
  <1>2. /\ cur' = SubSeq(buf[c], 1, n)
        /\ buf' = [buf EXCEPT ![c] = SubSeq(@, n + 1, Len(@))]
        /\ pc' = IF cur'[n] = "long" THEN "body" ELSE "handle"
        /\ l >= 2 \/ ended[c] # "open"
    BY DEF RecvHeader
  <1> HIDE DEF l
  <1>3. n \in 1 .. 2 /\ n <= l /\ (n = 1 => l = 1 /\ ended[c] # "open")
    BY <1>1, <1>2
  <1> HIDE DEF n
  <1> QED
    BY <1>2, <1>3 DEF l

(* What reading a body does: one unit of a connection that ended in the    *)
(* middle of it, otherwise two.                                            *)
LEMMA BodyIs ==
  ASSUME TypeOK, NEW c \in Conns, RecvBody(c)
  PROVE  \E n \in 1 .. 2 :
           /\ n <= Len(buf[c]) /\ (n = 1 => Len(buf[c]) = 1 /\ ended[c] # "open")
           /\ cur' = cur \o SubSeq(buf[c], 1, n)
           /\ buf' = [buf EXCEPT ![c] = SubSeq(@, n + 1, Len(@))]
  <1> DEFINE l == Len(buf[c])
             n == IF l = 1 THEN 1 ELSE 2
  <1>1. l \in Nat \ {0}
    BY EmptySeq DEF TypeOK, RecvBody
  <1>2. /\ cur' = cur \o SubSeq(buf[c], 1, n)
        /\ buf' = [buf EXCEPT ![c] = SubSeq(@, n + 1, Len(@))]
        /\ l >= 2 \/ ended[c] # "open"
    BY DEF RecvBody
  <1> HIDE DEF l
  <1>3. n \in 1 .. 2 /\ n <= l /\ (n = 1 => l = 1 /\ ended[c] # "open")
    BY <1>1, <1>2
  <1> HIDE DEF n
  <1> QED
    BY <1>2, <1>3 DEF l

LEMMA LoopInvReceive ==
  ASSUME LoopInv, NEW c \in Conns,
         RecvHeader(c) \/ RecvEof(c) \/ RecvFails(c) \/ RecvBody(c) \/ RecvNoBody(c)
  PROVE  LoopInv'
  <1> USE DEF LoopInv
  <1>1. /\ fdOf[c] \in 0 .. MaxFds /\ i \in 0 .. MaxFds + 1 /\ buf[c] \in Seq(Units)
        /\ MaxFds \in Nat
    BY BoundsOK DEF TypeOK
  <1>2. CASE RecvHeader(c)
    <2>1. /\ Accepted(c) /\ At(fdOf[c]) /\ i' = fdOf[c]
          /\ UNCHANGED <<outq, ended, sent, backlog, fdOf, set, nfds, t_set, handled>>
      BY <1>2 DEF RecvHeader
    <2>2. PICK n \in 1 .. 2 :
            /\ n <= Len(buf[c])
            /\ cur' = SubSeq(buf[c], 1, n)
            /\ buf' = [buf EXCEPT ![c] = SubSeq(@, n + 1, Len(@))]
            /\ pc' = IF cur'[n] = "long" THEN "body" ELSE "handle"
      BY <1>2, HeaderIs
    <2>3. cur' \in Seq(Units) /\ SubSeq(buf[c], n + 1, Len(buf[c])) \in Seq(Units)
      <3>1. n \in 1 .. Len(buf[c])
        BY <1>1, <2>2, LenProperties
      <3> QED
        BY <1>1, <2>2, <3>1, CutInTwo
    <2>4. buf' \in [Conns -> Seq(Units)] /\ \A d \in Conns \ {c} : buf'[d] = buf[d]
      BY <2>2, <2>3 DEF TypeOK
    <2>5. pc' \in {"body", "handle"}
      BY <2>2
    <2>6. TypeOK'
      <3>1. i' \in 0 .. MaxFds + 1
        BY <1>1, <2>1
      <3> QED
        BY <2>1, <2>3, <2>4, <2>5, <3>1 DEF TypeOK
    <2>7. ReportedStaysReadable'
      <3>1. pc = "scan" /\ i <= fdOf[c]
        BY <2>1 DEF At
      <3> QED
        BY <2>1, <2>4, <2>5, <3>1, ReadingKeepsReadable
    <2>8. Descriptors' /\ Waiting' /\ AtSocket'
      BY <2>1, DescriptorsStay, WaitingStays DEF AtSocket, Accepted
    <2> QED
      BY <2>6, <2>7, <2>8
  <1>3. CASE RecvEof(c)
    <2>1. /\ At(fdOf[c]) /\ i' = fdOf[c] + 1
          /\ UNCHANGED <<switch, fdOf, set, nfds, t_set, pc, cur, handled>>
      BY <1>3 DEF RecvEof
    <2>2. TypeOK'
      BY <1>1, <2>1 DEF TypeOK, switch
    <2>3. ReportedStaysReadable'
      <3>1. \A fd \in t_set : fd \in Nat
        BY DEF TypeOK
      <3>2. pc = "scan" /\ i <= fdOf[c]
        BY <2>1 DEF At
      <3>3. \A fd \in t_set : fd > i' \/ fd = i' => fd > i
        BY <1>1, <2>1, <3>1, <3>2
      <3> QED
        BY <2>1, <3>2, <3>3, GoingOnKeepsReadable
    <2>4. Descriptors' /\ Waiting' /\ AtSocket'
      BY <2>1, DescriptorsStay, WaitingStays DEF AtSocket, At, switch
    <2> QED
      BY <2>2, <2>3, <2>4
  <1>4. CASE RecvFails(c)
    <2>1. /\ UNCHANGED <<switch, fdOf, set, nfds, t_set, i, cur, handled>>
          /\ pc' = "exited"
      BY <1>4 DEF RecvFails, Exit
    <2>2. TypeOK' /\ ReportedStaysReadable' /\ AtSocket'
      BY <2>1 DEF TypeOK, switch, ReportedStaysReadable, AtSocket
    <2>3. Descriptors' /\ Waiting'
      BY <2>1, DescriptorsStay, WaitingStays DEF switch
    <2> QED
      BY <2>2, <2>3
  <1>5. CASE RecvBody(c)
    <2>1. /\ pc = "body" /\ i = fdOf[c] /\ pc' = "handle"
          /\ UNCHANGED <<outq, ended, sent, backlog, fdOf, set, nfds, t_set, i, handled>>
      BY <1>5 DEF RecvBody
    <2>2. PICK n \in 1 .. 2 :
            /\ n <= Len(buf[c])
            /\ cur' = cur \o SubSeq(buf[c], 1, n)
            /\ buf' = [buf EXCEPT ![c] = SubSeq(@, n + 1, Len(@))]
      BY <1>5, BodyIs
    <2>3. cur' \in Seq(Units) /\ SubSeq(buf[c], n + 1, Len(buf[c])) \in Seq(Units)
      <3>1. n \in 1 .. Len(buf[c])
        BY <1>1, <2>2, LenProperties
      <3>2. SubSeq(buf[c], 1, n) \in Seq(Units) /\ cur \in Seq(Units)
        BY <1>1, <3>1, CutInTwo DEF TypeOK
      <3> QED
        BY <1>1, <2>2, <3>1, <3>2, CutInTwo, ConcatProperties
    <2>4. buf' \in [Conns -> Seq(Units)] /\ \A d \in Conns \ {c} : buf'[d] = buf[d]
      BY <2>2, <2>3 DEF TypeOK
    <2>5. TypeOK'
      BY <2>1, <2>3, <2>4 DEF TypeOK
    <2>6. ReportedStaysReadable'
      <3>1. i <= fdOf[c]
        BY <1>1, <2>1
      <3> QED
        BY <2>1, <2>4, <3>1, ReadingKeepsReadable
    <2>7. Descriptors' /\ Waiting' /\ AtSocket'
      BY <2>1, DescriptorsStay, WaitingStays DEF AtSocket
    <2> QED
      BY <2>5, <2>6, <2>7
  <1>6. CASE RecvNoBody(c)
    <2>1. /\ pc = "body" /\ pc' = "handle"
          /\ UNCHANGED <<switch, fdOf, set, nfds, t_set, i, cur, handled>>
      BY <1>6 DEF RecvNoBody
    <2>2. TypeOK'
      BY <2>1 DEF TypeOK, switch
    <2>3. ReportedStaysReadable'
      BY <2>1, GoingOnKeepsReadable
    <2>4. Descriptors' /\ Waiting' /\ AtSocket'
      BY <2>1, DescriptorsStay, WaitingStays DEF AtSocket, switch
    <2> QED
      BY <2>2, <2>3, <2>4
  <1> QED
    BY <1>2, <1>3, <1>4, <1>5, <1>6

LEMMA MessageType == \A units : Message(units) \in Ends \cup {"cut"}
  BY DEF Message

LEMMA LoopInvHandle ==
  ASSUME LoopInv, NEW c \in Conns, Handle(c) \/ HandleFails(c)
  PROVE  LoopInv'
  <1> USE DEF LoopInv
  <1>1. CASE Handle(c)
    <2>1. /\ pc = "handle" /\ i = fdOf[c] /\ i' = i + 1 /\ pc' = "scan"
          /\ cur' = << >> /\ handled' = [handled EXCEPT ![c] = Append(@, Message(cur))]
          /\ UNCHANGED <<switch, fdOf, set, nfds, t_set>>
      BY <1>1 DEF Handle
    <2>2. Append(handled[c], Message(cur)) \in Seq(Ends \cup {"cut"})
      <3>1. handled[c] \in Seq(Ends \cup {"cut"})
        BY DEF TypeOK
      <3> QED
        BY <3>1, MessageType, AppendProperties
    <2>3. i \in 0 .. MaxFds /\ MaxFds \in Nat
      BY <2>1, BoundsOK DEF TypeOK
    <2>4. cur' \in Seq(Units) /\ i' \in 0 .. MaxFds + 1
      BY <2>1, <2>3, EmptySeq
    <2>5. TypeOK'
      BY <2>1, <2>2, <2>4 DEF TypeOK, switch
    <2>6. ReportedStaysReadable'
      <3>1. \A fd \in t_set : fd \in Nat
        BY DEF TypeOK
      <3>2. \A fd \in t_set : fd > i' \/ fd = i' => fd > i
        BY <2>1, <2>3, <3>1
      <3> QED
        BY <2>1, <3>2, GoingOnKeepsReadable
    <2>7. Descriptors' /\ Waiting' /\ AtSocket'
      BY <2>1, DescriptorsStay, WaitingStays DEF AtSocket, switch
    <2> QED
      BY <2>5, <2>6, <2>7
  <1>2. CASE HandleFails(c)
    <2>1. /\ UNCHANGED <<switch, fdOf, set, nfds, t_set, i, cur, handled>>
          /\ pc' = "exited"
      BY <1>2 DEF HandleFails, Exit
    <2>2. TypeOK' /\ ReportedStaysReadable' /\ AtSocket'
      BY <2>1 DEF TypeOK, switch, ReportedStaysReadable, AtSocket
    <2>3. Descriptors' /\ Waiting'
      BY <2>1, DescriptorsStay, WaitingStays DEF switch
    <2> QED
      BY <2>2, <2>3
  <1> QED
    BY <1>1, <1>2

LEMMA LoopInvStep == LoopInv /\ [Next]_vars => LoopInv'
  <1> SUFFICES ASSUME LoopInv, [Next]_vars PROVE LoopInv'
    OBVIOUS
  <1>1. CASE Switch
    BY <1>1, LoopInvSwitch DEF Switch
  <1>2. CASE Loop
    BY <1>2, LoopInvSelect, LoopInvAccept, LoopInvReceive, LoopInvHandle DEF Loop
  <1>3. CASE UNCHANGED vars
    <2>1. UNCHANGED <<switch, fdOf, set, nfds, t_set, i, pc, cur, handled>>
      BY <1>3 DEF vars, loop
    <2>2. TypeOK' /\ AtSocket'
      BY <2>1 DEF LoopInv, TypeOK, AtSocket, switch
    <2>3. ReadableFds' = ReadableFds
      BY <2>1, ReadableStays
    <2>4. ReportedStaysReadable'
      BY <2>1, <2>3 DEF LoopInv, ReportedStaysReadable
    <2>5. Descriptors' /\ Waiting'
      BY <2>1, DescriptorsStay, WaitingStays DEF LoopInv, switch
    <2> QED
      BY <2>2, <2>4, <2>5 DEF LoopInv
  <1> QED
    BY <1>1, <1>2, <1>3 DEF Next

LEMMA LoopInvAlways == Spec => []LoopInv
  BY LoopInvInit, LoopInvStep, PTL DEF Spec

(* TypeOK: every variable of the loop and of the connections keeps its     *)
(* type; in particular accept gives out no descriptor beyond the limit and *)
(* select watches none that was not given out.                             *)
THEOREM LoopTypes == Spec => []TypeOK
  BY LoopInvAlways, PTL DEF LoopInv

(* ReportedStaysReadable: whatever the loop accepted, read and handled     *)
(* since select returned, and whatever the switches did, what select       *)
(* reported is true when the loop comes to it, for any number of           *)
(* connections and descriptors.                                            *)
THEOREM ReportedStaysTrue == Spec => []ReportedStaysReadable
  BY LoopInvAlways, PTL DEF LoopInv

---------------------------------------------------------------------------
(* The framing of a stream of units *)

(* What may follow a unit.                                                 *)
Follows(u, v) ==
  \/ u = "first" /\ v \in {"short", "long"}
  \/ u = "long" /\ v = "half"
  \/ u = "half" /\ v = "body"
  \/ u \in Ends /\ v = "first"

(* Whole messages, one after the other.                                    *)
WellFramed(w) ==
  /\ w # << >> => w[1] = "first" /\ w[Len(w)] \in Ends
  /\ \A k \in 1 .. Len(w) - 1 : Follows(w[k], w[k + 1])

(* A piece of a stream of messages, and what comes after it.               *)
LEMMA PieceOfStream ==
  ASSUME NEW a \in Seq(Units), NEW b \in Seq(Units), WellFramed(a \o b)
  PROVE  /\ a # << >> => a[1] = "first"
         /\ \A k \in 1 .. Len(a) - 1 : Follows(a[k], a[k + 1])
  <1> DEFINE w == a \o b
  <1>1. /\ Len(a) \in Nat /\ Len(b) \in Nat
        /\ Len(w) = Len(a) + Len(b)
        /\ \A k \in 1 .. Len(a) : w[k] = a[k]
    <2>1. /\ Len(w) = Len(a) + Len(b)
          /\ \A k \in 1 .. Len(a) + Len(b) :
               w[k] = IF k <= Len(a) THEN a[k] ELSE b[k - Len(a)]
      BY ConcatProperties
    <2>2. Len(a) \in Nat /\ Len(b) \in Nat
      BY LenProperties
    <2> HIDE DEF w
    <2> QED
      BY <2>1, <2>2
  <1>2. WellFramed(w)
    OBVIOUS
  <1> HIDE DEF w
  <1>3. a # << >> => a[1] = "first"
    <2> SUFFICES ASSUME a # << >> PROVE a[1] = "first"
      OBVIOUS
    <2>1. Len(a) > 0 /\ Len(w) > 0
      BY <1>1, EmptySeq
    <2>2. w # << >>
      BY <2>1, EmptySeq
    <2> QED
      BY <1>1, <1>2, <2>1, <2>2 DEF WellFramed
  <1>4. ASSUME NEW k \in 1 .. Len(a) - 1
        PROVE  Follows(a[k], a[k + 1])
    <2>1. k \in 1 .. Len(w) - 1 /\ k \in 1 .. Len(a) /\ k + 1 \in 1 .. Len(a)
      BY <1>1
    <2>2. Follows(w[k], w[k + 1])
      BY <1>2, <2>1 DEF WellFramed
    <2> QED
      BY <1>1, <2>1, <2>2
  <1> QED
    BY <1>3, <1>4

(* Taking whole messages off the front leaves whole messages.              *)
LEMMA RestOfStream ==
  ASSUME NEW a \in Seq(Units), NEW b \in Seq(Units), WellFramed(a \o b),
         a # << >>, a[Len(a)] \in Ends
  PROVE  WellFramed(b)
  <1> DEFINE w == a \o b
  <1>1. /\ Len(a) \in Nat /\ Len(a) > 0 /\ Len(b) \in Nat
        /\ Len(w) = Len(a) + Len(b)
        /\ w[Len(a)] = a[Len(a)]
        /\ \A k \in 1 .. Len(b) : w[Len(a) + k] = b[k]
    <2>1. /\ Len(w) = Len(a) + Len(b)
          /\ \A k \in 1 .. Len(a) + Len(b) :
               w[k] = IF k <= Len(a) THEN a[k] ELSE b[k - Len(a)]
      BY ConcatProperties
    <2>2. Len(a) \in Nat /\ Len(b) \in Nat /\ Len(a) > 0
      BY LenProperties, EmptySeq
    <2> HIDE DEF w
    <2>3. w[Len(a)] = a[Len(a)]
      BY <2>1, <2>2
    <2>4. ASSUME NEW k \in 1 .. Len(b)
          PROVE  w[Len(a) + k] = b[k]
      <3>1. Len(a) + k \in 1 .. Len(a) + Len(b) /\ ~ (Len(a) + k <= Len(a))
            /\ (Len(a) + k) - Len(a) = k
        BY <2>2
      <3> QED
        BY <2>1, <3>1
    <2> QED
      BY <2>1, <2>2, <2>3, <2>4
  <1>2. WellFramed(w)
    OBVIOUS
  <1> HIDE DEF w
  <1>3. ASSUME NEW k \in 0 .. Len(b) - 1
        PROVE  Follows(w[Len(a) + k], w[Len(a) + (k + 1)])
    <2>1. Len(a) + k \in 1 .. Len(w) - 1 /\ (Len(a) + k) + 1 = Len(a) + (k + 1)
      BY <1>1
    <2> QED
      BY <1>2, <2>1 DEF WellFramed
  <1>4. ASSUME b # << >>
        PROVE  b[1] = "first" /\ b[Len(b)] \in Ends
    <2>1. Len(b) > 0
      BY <1>1, <1>4, EmptySeq
    <2>2. Follows(w[Len(a) + 0], w[Len(a) + (0 + 1)])
      <3>1. 0 \in 0 .. Len(b) - 1
        BY <1>1, <2>1
      <3> QED
        BY <1>3, <3>1
    <2>3. w[Len(a) + 0] = a[Len(a)] /\ w[Len(a) + (0 + 1)] = b[1]
      <3>1. Len(a) + 0 = Len(a) /\ 0 + 1 = 1 /\ 1 \in 1 .. Len(b)
        BY <1>1, <2>1
      <3> QED
        BY <1>1, <3>1
    <2>4. w # << >> /\ w[Len(w)] = b[Len(b)]
      BY <1>1, <2>1, EmptySeq
    <2> QED
      BY <1>2, <2>2, <2>3, <2>4 DEF Follows, Ends, WellFramed
  <1>5. ASSUME NEW k \in 1 .. Len(b) - 1
        PROVE  Follows(b[k], b[k + 1])
    <2>1. k \in 0 .. Len(b) - 1 /\ k \in 1 .. Len(b) /\ k + 1 \in 1 .. Len(b)
      BY <1>1
    <2> QED
      BY <1>1, <1>3, <2>1
  <1> QED
    BY <1>4, <1>5 DEF WellFramed

(* Units among which no message ends are no message, ...                   *)
LEMMA NoEnds ==
  ASSUME NEW s \in Seq(Units), \A k \in 1 .. Len(s) : s[k] \notin Ends
  PROVE  MessageEnds(s) = << >>
  <1> DEFINE n == Len(s)
             none == [j \in 0 .. n |-> << >>]
  <1>1. n \in Nat
    BY LenProperties
  <1>2. PICK g : Counts(s, n, g) /\ MessageEnds(s) = g[n]
    BY MessageEndsCounts
  <1>3. \A k \in 1 .. n : s[k] \notin Ends
    OBVIOUS
  <1> HIDE DEF n
  <1>4. Counts(s, n, none)
    <2>1. << >> \in Seq(Ends)
      BY EmptySeq
    <2>2. \A j \in 1 .. n : none[j] = Count(none[j - 1], s[j])
      BY <1>1, <1>3 DEF Count
    <2> QED
      BY <1>1, <2>1, <2>2 DEF Counts
  <1>5. none[n] = << >>
    BY <1>1
  <1> HIDE DEF none
  <1>6. none[n] = g[n]
    <2>1. n \in n .. n + 1 /\ \A j \in 1 .. n : s[j] = s[j]
      BY <1>1
    <2> QED
      BY <1>1, <1>2, <1>4, <2>1, CountsAgree
  <1> QED
    BY <1>2, <1>5, <1>6

(* ... and one or none if none ends before the last unit.                  *)
LEMMA EndsOfOne ==
  ASSUME NEW s \in Seq(Units), s # << >>, \A k \in 1 .. Len(s) - 1 : s[k] \notin Ends
  PROVE  MessageEnds(s) = IF Last(s) \in Ends THEN <<Last(s)>> ELSE << >>
  <1>1. PICK t \in Seq(Units), u \in Units : s = Append(t, u)
    BY SequenceEmptyOrAppend
  <1>2. /\ Len(t) \in Nat /\ Len(s) = Len(t) + 1 /\ s[Len(s)] = u
        /\ \A k \in 1 .. Len(t) : s[k] = t[k]
    BY <1>1, LenProperties, AppendProperties
  <1>3. \A k \in 1 .. Len(t) : t[k] \notin Ends
    BY <1>2
  <1>4. MessageEnds(t) = << >>
    BY <1>3, NoEnds
  <1>5. MessageEnds(s) = Count(<< >>, u)
    BY <1>1, <1>4, EndsOfAppend
  <1>6. Append(<< >>, u) = <<u>>
    OBVIOUS
  <1> QED
    BY <1>2, <1>5, <1>6 DEF Count, Last

LEMMA OneMessage ==
  ASSUME NEW m \in {Short, Long}
  PROVE  /\ m \in Seq(Units) /\ Len(m) \in 2 .. 4 /\ m # << >> /\ m[1] = "first"
         /\ m[Len(m)] \in Ends
         /\ \A k \in 1 .. Len(m) - 1 : Follows(m[k], m[k + 1]) /\ m[k] \notin Ends
  <1>1. m \in Seq(Units)
    BY UnitTypes
  <1>2. CASE m = Short
    <2>1. Len(m) = 2 /\ m[1] = "first" /\ m[2] = "short"
      BY <1>2 DEF Short
    <2>2. m # << >>
      BY <1>1, <2>1, EmptySeq
    <2>3. ASSUME NEW k \in 1 .. Len(m) - 1
          PROVE  m[k] = "first" /\ m[k + 1] = "short"
      BY <2>1
    <2> QED
      BY <1>1, <2>1, <2>2, <2>3 DEF Follows, Ends
  <1>3. CASE m = Long
    <2>1. /\ Len(m) = 4 /\ m[1] = "first" /\ m[2] = "long"
          /\ m[3] = "half" /\ m[4] = "body"
      BY <1>3 DEF Long
    <2>2. m # << >>
      BY <1>1, <2>1, EmptySeq
    <2>3. ASSUME NEW k \in 1 .. Len(m) - 1
          PROVE  \/ m[k] = "first" /\ m[k + 1] = "long"
                 \/ m[k] = "long" /\ m[k + 1] = "half"
                 \/ m[k] = "half" /\ m[k + 1] = "body"
      BY <2>1
    <2>4. \A k \in 1 .. Len(m) - 1 : Follows(m[k], m[k + 1]) /\ m[k] \notin Ends
      BY <2>3 DEF Follows, Ends
    <2> QED
      BY <1>1, <2>1, <2>2, <2>4 DEF Ends
  <1> QED
    BY <1>2, <1>3

(* Another message keeps a stream well framed.                             *)
LEMMA StreamGrows ==
  ASSUME NEW w \in Seq(Units), WellFramed(w), NEW m \in {Short, Long}
  PROVE  WellFramed(w \o m) /\ MessageEnds(w \o m) = Append(MessageEnds(w), Last(m))
  <1> DEFINE v == w \o m
  <1>1. /\ m \in Seq(Units) /\ Len(m) \in 2 .. 4 /\ m # << >> /\ m[1] = "first"
        /\ m[Len(m)] \in Ends
        /\ \A k \in 1 .. Len(m) - 1 : Follows(m[k], m[k + 1]) /\ m[k] \notin Ends
    BY OneMessage
  <1>2. /\ Len(w) \in Nat /\ v \in Seq(Units) /\ Len(v) = Len(w) + Len(m)
        /\ \A k \in 1 .. Len(w) : v[k] = w[k]
        /\ \A k \in 1 .. Len(m) : v[Len(w) + k] = m[k]
    <2>1. /\ v \in Seq(Units) /\ Len(v) = Len(w) + Len(m)
          /\ \A k \in 1 .. Len(w) + Len(m) :
               v[k] = IF k <= Len(w) THEN w[k] ELSE m[k - Len(w)]
      BY <1>1, ConcatProperties
    <2>2. Len(w) \in Nat
      BY LenProperties
    <2> HIDE DEF v
    <2>3. ASSUME NEW k \in 1 .. Len(m)
          PROVE  v[Len(w) + k] = m[k]
      <3>1. Len(w) + k \in 1 .. Len(w) + Len(m) /\ ~ (Len(w) + k <= Len(w))
            /\ (Len(w) + k) - Len(w) = k
        BY <1>1, <2>2
      <3> QED
        BY <2>1, <3>1
    <2> QED
      BY <1>1, <2>1, <2>2, <2>3
  <1>3. MessageEnds(v) = MessageEnds(w) \o <<Last(m)>>
    <2>1. MessageEnds(m) = <<Last(m)>>
      BY <1>1, EndsOfOne DEF Last
    <2> QED
      BY <1>1, <2>1, EndsOfConcat
  <1>4. MessageEnds(w) \o <<Last(m)>> = Append(MessageEnds(w), Last(m))
    BY <1>1, EndsType, AppendIsConcat DEF Last
  <1> HIDE DEF v
  <1>5. v[1] = "first" /\ v[Len(v)] \in Ends
    <2>1. CASE w = << >>
      <3>1. Len(w) = 0
        BY <2>1, EmptySeq
      <3>2. 1 \in 1 .. Len(m) /\ Len(m) \in 1 .. Len(m) /\ Len(w) + 1 = 1 /\ Len(w) + Len(m) = Len(v)
        BY <1>1, <1>2, <3>1
      <3> QED
        BY <1>1, <1>2, <3>2
    <2>2. CASE w # << >>
      <3>1. Len(w) > 0
        BY <1>2, <2>2, EmptySeq
      <3>2. 1 \in 1 .. Len(w) /\ Len(m) \in 1 .. Len(m) /\ Len(w) + Len(m) = Len(v)
        BY <1>1, <1>2, <3>1
      <3> QED
        BY <1>1, <1>2, <2>2, <3>2 DEF WellFramed
    <2> QED
      BY <2>1, <2>2
  <1>6. ASSUME NEW k \in 1 .. Len(v) - 1
        PROVE  Follows(v[k], v[k + 1])
    <2>1. CASE k < Len(w)
      <3>1. k \in 1 .. Len(w) - 1 /\ k \in 1 .. Len(w) /\ k + 1 \in 1 .. Len(w)
        BY <1>2, <2>1
      <3> QED
        BY <1>2, <3>1 DEF WellFramed
    <2>2. CASE k = Len(w)
      <3>1. k \in 1 .. Len(w) /\ 1 \in 1 .. Len(m) /\ k + 1 = Len(w) + 1
        BY <1>1, <1>2, <2>2
      <3>2. v[k] = w[Len(w)] /\ v[k + 1] = m[1]
        BY <1>2, <2>2, <3>1
      <3>3. w[Len(w)] \in Ends
        BY <1>2, <2>2, EmptySeq DEF WellFramed
      <3> QED
        BY <1>1, <3>2, <3>3 DEF Follows
    <2>3. CASE k > Len(w)
      <3>1. PICK j \in 1 .. Len(m) - 1 : k = Len(w) + j
        <4>1. k - Len(w) \in 1 .. Len(m) - 1 /\ k = Len(w) + (k - Len(w))
          BY <1>1, <1>2, <2>3
        <4> QED
          BY <4>1
      <3>2. j \in 1 .. Len(m) /\ j + 1 \in 1 .. Len(m) /\ k + 1 = Len(w) + (j + 1)
        BY <1>1, <1>2, <3>1
      <3>3. v[k] = m[j] /\ v[k + 1] = m[j + 1]
        BY <1>2, <3>1, <3>2
      <3> QED
        BY <1>1, <3>3
    <2> QED
      BY <1>2, <2>1, <2>2, <2>3
  <1>7. WellFramed(v)
    BY <1>5, <1>6 DEF WellFramed
  <1> QED
    BY <1>3, <1>4, <1>7 DEF v

---------------------------------------------------------------------------
(* What the loop has read, and what becomes of it *)

(* At most one message is being read, and only a connection that ended     *)
(* cuts it short.                                                          *)
Current ==
  /\ pc \in {"select", "scan"} => cur = << >>
  /\ pc \in {"body", "handle"} => cur # << >>
  /\ \A k \in 1 .. Len(cur) - 1 : cur[k] \notin Ends
  /\ pc = "body" => Last(cur) = "long"
  /\ pc = "handle" /\ Last(cur) \notin Ends =>
       \A c \in Conns : Accepted(c) /\ fdOf[c] = i => buf[c] = << >> /\ ended[c] # "open"

(* All of a connection that is on the way.                                 *)
Stream(c) == Unhandled(c) \o outq[c]

(* What was handled and what is on the way are what was written, ...       *)
Whole(c) ==
  /\ WellFramed(Stream(c))
  /\ sent[c] = handled[c] \o MessageEnds(Stream(c))

(* ... until the end of the connection came in the middle of a message.    *)
CutShort(c) ==
  /\ handled[c] # << >> /\ Last(handled[c]) = "cut"
  /\ IsPrefix(Front(handled[c]), sent[c])
  /\ Len(handled[c]) <= Len(sent[c])
  /\ ended[c] # "open" /\ Unhandled(c) = << >>

FrameInv == LoopInv /\ Current /\ \A c \in Conns : Whole(c) \/ CutShort(c)

(* Nothing happens to a connection.                                        *)
Quiet(c) ==
  /\ Unhandled(c)' = Unhandled(c) /\ outq'[c] = outq[c] /\ ended'[c] = ended[c]
  /\ sent'[c] = sent[c] /\ handled'[c] = handled[c]

LEMMA UnhandledType ==
  ASSUME TypeOK, NEW c \in Conns
  PROVE  /\ Unhandled(c) \in Seq(Units) /\ buf[c] \in Seq(Units) /\ outq[c] \in Seq(Units)
         /\ Accepted(c) /\ i = fdOf[c] => Unhandled(c) = cur \o buf[c]
         /\ ~ (Accepted(c) /\ i = fdOf[c]) => Unhandled(c) = buf[c]
         /\ cur = << >> => Unhandled(c) = buf[c]
  <1>1. cur \in Seq(Units) /\ buf[c] \in Seq(Units) /\ outq[c] \in Seq(Units)
    BY DEF TypeOK
  <1>2. << >> \o buf[c] = buf[c]
    BY <1>1, ConcatEmptySeq
  <1>3. cur \o buf[c] \in Seq(Units)
    BY <1>1, ConcatProperties
  <1> QED
    BY <1>1, <1>2, <1>3 DEF Unhandled

LEMMA UnhandledNext ==
  ASSUME TypeOK', NEW c \in Conns
  PROVE  /\ Unhandled(c)' \in Seq(Units) /\ buf'[c] \in Seq(Units) /\ outq'[c] \in Seq(Units)
         /\ fdOf'[c] # ListenFd /\ i' = fdOf'[c] => Unhandled(c)' = cur' \o buf'[c]
         /\ ~ (fdOf'[c] # ListenFd /\ i' = fdOf'[c]) => Unhandled(c)' = buf'[c]
         /\ cur' = << >> => Unhandled(c)' = buf'[c]
  <1>1. cur' \in Seq(Units) /\ buf'[c] \in Seq(Units) /\ outq'[c] \in Seq(Units)
    BY DEF TypeOK
  <1>2. << >> \o buf'[c] = buf'[c]
    BY <1>1, ConcatEmptySeq
  <1>3. cur' \o buf'[c] \in Seq(Units)
    BY <1>1, ConcatProperties
  <1> QED
    BY <1>1, <1>2, <1>3 DEF Unhandled, Accepted

LEMMA QuietFrame ==
  ASSUME NEW c \in Conns, Whole(c) \/ CutShort(c), Quiet(c)
  PROVE  Whole(c)' \/ CutShort(c)'
  <1>1. Stream(c)' = Stream(c)
    BY DEF Stream, Quiet
  <1>2. CASE Whole(c)
    BY <1>1, <1>2 DEF Whole, Quiet
  <1>3. CASE CutShort(c)
    BY <1>3 DEF CutShort, Quiet
  <1> QED
    BY <1>2, <1>3

LEMMA QuietInbox ==
  ASSUME NEW c \in Conns, Quiet(c)
  PROVE  Inbox(c)' = Inbox(c)
  BY DEF Inbox, Quiet

(* While the loop rests, a connection of which nothing arrives is quiet.   *)
LEMMA RestIsQuiet ==
  ASSUME NEW c \in Conns, UNCHANGED loop, buf'[c] = buf[c], outq'[c] = outq[c],
         sent'[c] = sent[c], ended'[c] = ended[c]
  PROVE  Quiet(c)
  <1>1. Unhandled(c)' = Unhandled(c)
    BY DEF Unhandled, Accepted, loop
  <1> QED
    BY <1>1 DEF Quiet, loop

(* So is every connection while the loop has read nothing and reads        *)
(* nothing.                                                                *)
LEMMA ScanIsQuiet ==
  ASSUME LoopInv, LoopInv', cur = << >>, cur' = << >>, NEW c \in Conns,
         UNCHANGED <<outq, buf, ended, sent, handled>>
  PROVE  Quiet(c)
  <1>1. Unhandled(c) = buf[c]
    BY UnhandledType DEF LoopInv
  <1>2. TypeOK' /\ cur' = << >>
    BY DEF LoopInv
  <1>3. Unhandled(c)' = buf'[c]
    BY <1>2, UnhandledNext
  <1> QED
    BY <1>1, <1>3 DEF Quiet

LEMMA StreamType ==
  ASSUME TypeOK, NEW c \in Conns
  PROVE  Stream(c) \in Seq(Units)
  BY UnhandledType, ConcatProperties DEF Stream

(* The socket the loop is at has one connection.                           *)
LEMMA OneAtSocket ==
  ASSUME LoopInv, NEW c \in Conns, NEW d \in Conns, c # d,
         Accepted(c)
  PROVE  ~ (Accepted(d) /\ fdOf[c] = fdOf[d])
  BY DEF LoopInv, Descriptors, Serving

(* Reading, whatever it reads, neither loses units nor adds any.           *)
LEMMA ReceiveIsQuiet ==
  ASSUME FrameInv, LoopInv', NEW c \in Conns, NEW d \in Conns,
         RecvHeader(c) \/ RecvEof(c) \/ RecvFails(c) \/ RecvBody(c) \/ RecvNoBody(c)
  PROVE  Quiet(d)
  <1> USE DEF FrameInv
  <1>0. TypeOK /\ TypeOK'
    BY DEF LoopInv
  <1>1. CASE RecvHeader(c)
    <2>1. /\ Accepted(c) /\ At(fdOf[c]) /\ i' = fdOf[c]
          /\ UNCHANGED <<outq, ended, sent, fdOf, handled>>
      BY <1>1 DEF RecvHeader
    <2>2. PICK n \in 1 .. 2 :
            /\ n <= Len(buf[c]) /\ cur' = SubSeq(buf[c], 1, n)
            /\ buf' = [buf EXCEPT ![c] = SubSeq(@, n + 1, Len(@))]
      BY <1>0, <1>1, HeaderIs
    <2>3. cur = << >> /\ Unhandled(c) = buf[c] /\ Unhandled(d) = buf[d]
      BY <1>0, <2>1, UnhandledType DEF At, Current
    <2>4. CASE d = c
      <3>1. Unhandled(c)' = cur' \o buf'[c]
        BY <1>0, <2>1, UnhandledNext DEF Accepted
      <3>2. n \in 1 .. Len(buf[c]) /\ buf[c] \in Seq(Units)
        BY <1>0, <2>2, LenProperties DEF TypeOK
      <3>3. buf'[c] = SubSeq(buf[c], n + 1, Len(buf[c]))
        BY <1>0, <2>2 DEF TypeOK
      <3>4. cur' \o buf'[c] = buf[c]
        BY <2>2, <3>2, <3>3, CutInTwo
      <3> QED
        BY <2>1, <2>3, <2>4, <3>1, <3>4 DEF Quiet
    <2>5. CASE d # c
      <3>1. ~ (Accepted(d) /\ fdOf[c] = fdOf[d])
        BY <2>1, <2>5, OneAtSocket
      <3>2. Unhandled(d)' = buf'[d]
        BY <1>0, <2>1, <3>1, UnhandledNext DEF Accepted
      <3>3. buf'[d] = buf[d]
        BY <1>0, <2>2, <2>5 DEF TypeOK
      <3> QED
        BY <2>1, <2>3, <3>2, <3>3 DEF Quiet
    <2> QED
      BY <2>4, <2>5
  <1>2. CASE RecvEof(c)
    <2>1. /\ At(fdOf[c]) /\ UNCHANGED <<switch, cur, handled>>
      BY <1>2 DEF RecvEof
    <2> QED
      BY <2>1, ScanIsQuiet DEF switch, At, Current
  <1>3. CASE RecvFails(c) \/ RecvNoBody(c)
    <2>1. UNCHANGED <<switch, fdOf, i, cur, handled>>
      BY <1>3 DEF RecvFails, RecvNoBody, Exit
    <2> QED
      BY <2>1 DEF switch, Quiet, Unhandled, Accepted
  <1>4. CASE RecvBody(c)
    <2>1. /\ pc = "body" /\ i = fdOf[c]
          /\ UNCHANGED <<outq, ended, sent, fdOf, i, handled>>
      BY <1>4 DEF RecvBody
    <2>5. PICK n \in 1 .. 2 :
            /\ n <= Len(buf[c]) /\ cur' = cur \o SubSeq(buf[c], 1, n)
            /\ buf' = [buf EXCEPT ![c] = SubSeq(@, n + 1, Len(@))]
      BY <1>0, <1>4, BodyIs
    <2>2. Accepted(c)
      BY <2>1 DEF LoopInv, AtSocket, Accepted
    <2>3. CASE d = c
      <3>1. Unhandled(c) = cur \o buf[c] /\ Unhandled(c)' = cur' \o buf'[c]
        BY <1>0, <2>1, <2>2, UnhandledType, UnhandledNext DEF Accepted
      <3> DEFINE b == buf[c]
                 h == SubSeq(b, 1, n)
                 t == SubSeq(b, n + 1, Len(b))
                 k == cur
      <3>2. b \in Seq(Units) /\ k \in Seq(Units) /\ n \in 1 .. Len(b)
        BY <1>0, <2>5, LenProperties DEF TypeOK
      <3>3. buf'[c] = t /\ cur' = k \o h
        BY <1>0, <2>5 DEF TypeOK
      <3> HIDE DEF b
      <3>4. b = h \o t /\ h \in Seq(Units) /\ t \in Seq(Units)
        BY <3>2, CutInTwo
      <3> HIDE DEF h, t, k
      <3>5. (k \o h) \o t = k \o (h \o t)
        BY <3>2, <3>4, ConcatAssociative
      <3>7. cur' \o buf'[c] = k \o b
        BY <3>3, <3>4, <3>5
      <3>8. Unhandled(c)' = Unhandled(c)
        BY <3>1, <3>7 DEF k, b
      <3> QED
        BY <2>1, <2>3, <3>8 DEF Quiet
    <2>4. CASE d # c
      <3>1. ~ (Accepted(d) /\ i = fdOf[d])
        BY <2>1, <2>2, <2>4, OneAtSocket
      <3>2. Unhandled(d) = buf[d] /\ Unhandled(d)' = buf'[d]
        BY <1>0, <2>1, <3>1, UnhandledType, UnhandledNext DEF Accepted
      <3>3. buf'[d] = buf[d]
        BY <1>0, <2>5, <2>4 DEF TypeOK
      <3> QED
        BY <2>1, <3>2, <3>3 DEF Quiet
    <2> QED
      BY <2>3, <2>4
  <1> QED
    BY <1>1, <1>2, <1>3, <1>4

(* The steps of a switch are quiet for every other one.                    *)
LEMMA SwitchIsQuiet ==
  ASSUME TypeOK, NEW c \in Conns, NEW d \in Conns,
         Connect(c) \/ (d # c /\ (Compose(c) \/ Deliver(c) \/ End(c)))
  PROVE  Quiet(d)
  <1>1. /\ UNCHANGED loop /\ buf'[d] = buf[d] /\ outq'[d] = outq[d]
        /\ sent'[d] = sent[d] /\ ended'[d] = ended[d]
    BY DEF Connect, Compose, Deliver, End, TypeOK
  <1> QED
    BY <1>1, RestIsQuiet

(* The loop's steps that are not Handle are quiet for all.                 *)
LEMMA LoopIsQuiet ==
  ASSUME FrameInv, LoopInv', NEW d \in Conns,
         \/ Select \/ EndScan \/ Accept \/ AcceptFails
         \/ \E c \in Conns : \/ RecvHeader(c) \/ RecvEof(c) \/ RecvFails(c)
                             \/ RecvBody(c) \/ RecvNoBody(c) \/ HandleFails(c)
  PROVE  Quiet(d)
  <1> USE DEF FrameInv
  <1>1. CASE Select \/ EndScan \/ Accept
    <2>1. /\ UNCHANGED <<outq, buf, ended, sent, handled, cur>>
          /\ pc \in {"select", "scan"}
      BY <1>1 DEF Select, EndScan, Accept, At, switch
    <2> QED
      BY <2>1, ScanIsQuiet DEF Current
  <1>2. CASE AcceptFails \/ \E c \in Conns : HandleFails(c)
    <2>1. UNCHANGED <<switch, fdOf, i, cur, handled>>
      BY <1>2 DEF AcceptFails, HandleFails, Exit
    <2> QED
      BY <2>1 DEF switch, Quiet, Unhandled, Accepted
  <1>3. CASE \E c \in Conns : \/ RecvHeader(c) \/ RecvEof(c) \/ RecvFails(c)
                             \/ RecvBody(c) \/ RecvNoBody(c)
    BY <1>3, ReceiveIsQuiet
  <1> QED
    BY <1>1, <1>2, <1>3

(* Handling a message is quiet for the other connections.                  *)
LEMMA HandleIsQuiet ==
  ASSUME LoopInv, LoopInv', NEW c \in Conns, NEW d \in Conns, d # c, Handle(c)
  PROVE  Quiet(d)
  <1>1. /\ pc = "handle" /\ i = fdOf[c] /\ cur' = << >>
        /\ handled' = [handled EXCEPT ![c] = Append(@, Message(cur))]
        /\ UNCHANGED <<outq, buf, ended, sent, fdOf>>
    BY DEF Handle, switch
  <1>2. Accepted(c)
    BY <1>1 DEF LoopInv, AtSocket, Accepted
  <1>3. ~ (Accepted(d) /\ i = fdOf[d])
    BY <1>1, <1>2, OneAtSocket
  <1>4. Unhandled(d) = buf[d] /\ Unhandled(d)' = buf'[d]
    BY <1>1, <1>3, UnhandledType, UnhandledNext DEF LoopInv
  <1>5. handled'[d] = handled[d]
    BY <1>1 DEF LoopInv, TypeOK
  <1> QED
    BY <1>1, <1>4, <1>5 DEF Quiet

(* Each connection's units, as far as they were read.                      *)
LEMMA FirstUnits ==
  ASSUME FrameInv, NEW c \in Conns, Unhandled(c) # << >>
  PROVE  /\ Whole(c) /\ Unhandled(c)[1] = "first"
         /\ \A k \in 1 .. Len(Unhandled(c)) - 1 :
              Follows(Unhandled(c)[k], Unhandled(c)[k + 1])
  <1>1. Whole(c)
    BY DEF FrameInv, CutShort
  <1>2. Unhandled(c) \in Seq(Units) /\ outq[c] \in Seq(Units)
    BY UnhandledType DEF FrameInv, LoopInv
  <1>3. WellFramed(Unhandled(c) \o outq[c])
    BY <1>1 DEF Whole, Stream
  <1> QED
    BY <1>1, <1>2, <1>3, PieceOfStream

LEMMA CurrentHeader ==
  ASSUME FrameInv, LoopInv', NEW c \in Conns, RecvHeader(c)
  PROVE  Current'
  <1> USE DEF FrameInv
  <1>0. TypeOK /\ TypeOK'
    BY DEF LoopInv
  <1>1. /\ Accepted(c) /\ At(fdOf[c]) /\ i' = fdOf[c] /\ buf[c] # << >>
        /\ UNCHANGED <<outq, ended, fdOf>>
    BY DEF RecvHeader
  <1>2. PICK n \in 1 .. 2 :
          /\ n <= Len(buf[c]) /\ (n = 1 => Len(buf[c]) = 1 /\ ended[c] # "open")
          /\ cur' = SubSeq(buf[c], 1, n)
          /\ buf' = [buf EXCEPT ![c] = SubSeq(@, n + 1, Len(@))]
          /\ pc' = IF cur'[n] = "long" THEN "body" ELSE "handle"
    BY <1>0, HeaderIs
  <1>3. buf[c] \in Seq(Units) /\ Len(buf[c]) \in Nat /\ n \in 1 .. Len(buf[c])
    BY <1>0, <1>2, LenProperties DEF TypeOK
  <1>4. /\ cur' \in Seq(Units) /\ Len(cur') = n
        /\ \A j \in 1 .. n : cur'[j] = buf[c][j]
    BY <1>2, <1>3, CutInTwo
  <1>5. Unhandled(c) = buf[c]
    BY <1>0, <1>1, UnhandledType DEF At, Current
  <1>6. /\ buf[c][1] = "first"
        /\ \A k \in 1 .. Len(buf[c]) - 1 : Follows(buf[c][k], buf[c][k + 1])
    BY <1>1, <1>5, FirstUnits
  <1>7. cur' # << >> /\ Last(cur') = cur'[n] /\ pc' \in {"body", "handle"}
    BY <1>2, <1>4, EmptySeq DEF Last
  <1>8. CASE n = 1
    <2>1. cur'[1] = "first" /\ pc' = "handle"
      BY <1>2, <1>3, <1>4, <1>6, <1>8
    <2>2. buf'[c] = << >>
      <3>1. buf'[c] = SubSeq(buf[c], n + 1, Len(buf[c]))
        BY <1>0, <1>2 DEF TypeOK
      <3>2. n + 1 = 2 /\ Len(buf[c]) = 1
        BY <1>2, <1>8
      <3>3. SubSeq(buf[c], 2, 1) = << >>
        BY SubSeqEmpty
      <3> QED
        BY <3>1, <3>2, <3>3
    <2>3. \A d \in Conns : Accepted(d)' /\ fdOf'[d] = i' => d = c
      <3>1. \A d \in Conns : d # c => ~ (Accepted(d) /\ fdOf[c] = fdOf[d])
        BY <1>1, OneAtSocket
      <3> QED
        BY <1>1, <3>1 DEF Accepted
    <2>4. ended'[c] # "open"
      BY <1>1, <1>2, <1>8
    <2> QED
      BY <1>4, <1>7, <1>8, <2>1, <2>2, <2>3, <2>4 DEF Current
  <1>9. CASE n = 2
    <2>1. cur'[1] = "first" /\ cur'[2] \in {"short", "long"}
      <3>1. 1 \in 1 .. Len(buf[c]) - 1 /\ 1 \in 1 .. n /\ 2 \in 1 .. n
        BY <1>2, <1>3, <1>9
      <3>2. Follows(buf[c][1], buf[c][1 + 1]) /\ 1 + 1 = 2
        BY <1>6, <3>1
      <3> QED
        BY <1>4, <1>6, <3>1, <3>2 DEF Follows, Ends
    <2>2. \A k \in 1 .. Len(cur') - 1 : cur'[k] \notin Ends
      <3>1. \A k \in 1 .. Len(cur') - 1 : k = 1
        BY <1>4, <1>9
      <3> QED
        BY <2>1, <3>1 DEF Ends
    <2>3. /\ pc' = "body" => Last(cur') = "long"
          /\ pc' = "handle" => Last(cur') \in Ends
      BY <1>2, <1>7, <1>9, <2>1 DEF Ends
    <2> QED
      BY <1>7, <2>2, <2>3 DEF Current
  <1> QED
    BY <1>8, <1>9

LEMMA CurrentBody ==
  ASSUME FrameInv, LoopInv', NEW c \in Conns, RecvBody(c)
  PROVE  Current'
  <1> USE DEF FrameInv
  <1>0. TypeOK /\ TypeOK'
    BY DEF LoopInv
  <1>1. /\ pc = "body" /\ i = fdOf[c] /\ pc' = "handle"
        /\ UNCHANGED <<ended, fdOf, i>>
    BY DEF RecvBody
  <1>2. Accepted(c)
    BY <1>1 DEF LoopInv, AtSocket, Accepted
  <1>3. Unhandled(c) = cur \o buf[c]
    BY <1>0, <1>1, <1>2, UnhandledType
  <1>4. PICK n \in 1 .. 2 :
          /\ n <= Len(buf[c]) /\ (n = 1 => Len(buf[c]) = 1 /\ ended[c] # "open")
          /\ cur' = cur \o SubSeq(buf[c], 1, n)
          /\ buf' = [buf EXCEPT ![c] = SubSeq(@, n + 1, Len(@))]
    BY <1>0, BodyIs
  <1> DEFINE l == Len(cur)
             b == buf[c]
             u == cur \o b
  <1>5. /\ cur \in Seq(Units) /\ b \in Seq(Units)
        /\ l \in Nat /\ l > 0 /\ Len(b) \in Nat /\ n \in 1 .. Len(b)
        /\ cur[l] = "long" /\ \A k \in 1 .. l - 1 : cur[k] \notin Ends
    BY <1>0, <1>1, <1>4, LenProperties, EmptySeq DEF TypeOK, Current, Last
  <1>6. Len(u) = l + Len(b) /\ u[l] = cur[l] /\ \A k \in 1 .. Len(b) : u[l + k] = b[k]
    <2>1. /\ Len(u) = l + Len(b)
          /\ \A k \in 1 .. l + Len(b) : u[k] = IF k <= l THEN cur[k] ELSE b[k - l]
      BY <1>5, ConcatProperties
    <2> HIDE DEF u, b, l
    <2>2. ASSUME NEW k \in 1 .. Len(b)
          PROVE  u[l + k] = b[k]
      <3>1. l + k \in 1 .. l + Len(b) /\ ~ (l + k <= l) /\ (l + k) - l = k
        BY <1>5
      <3> QED
        BY <2>1, <3>1
    <2>3. l \in 1 .. l + Len(b)
      BY <1>5
    <2> QED
      BY <1>5, <2>1, <2>2, <2>3
  <1>7. \A k \in 1 .. l + Len(b) - 1 : Follows(u[k], u[k + 1])
    <2>1. Len(u) > 0
      BY <1>5, <1>6
    <2>2. u # << >>
      BY <2>1, EmptySeq
    <2>3. \A k \in 1 .. Len(u) - 1 : Follows(u[k], u[k + 1])
      BY <1>3, <2>2, FirstUnits
    <2> QED
      BY <1>6, <2>3
  <1>8. b[1] = "half"
    <2>1. l \in 1 .. l + Len(b) - 1 /\ 1 \in 1 .. Len(b)
      BY <1>5
    <2>2. Follows(cur[l], b[1])
      BY <1>6, <1>7, <2>1
    <2> QED
      BY <1>5, <2>2 DEF Follows, Ends
  <1>9. ASSUME n = 2
        PROVE  b[2] \in Ends
    <2>1. l + 1 \in 1 .. l + Len(b) - 1 /\ 1 \in 1 .. Len(b) /\ 2 \in 1 .. Len(b)
          /\ (l + 1) + 1 = l + 2
      BY <1>5, <1>9
    <2>2. Follows(b[1], b[2])
      BY <1>6, <1>7, <2>1
    <2> QED
      BY <1>8, <2>2 DEF Follows, Ends
  <1>10. /\ Len(cur') = l + n /\ cur' # << >>
         /\ \A k \in 1 .. l : cur'[k] = cur[k]
         /\ \A k \in 1 .. n : cur'[l + k] = b[k]
    <2> DEFINE h == SubSeq(b, 1, n)
               v == cur \o h
    <2>1. h \in Seq(Units) /\ Len(h) = n /\ \A k \in 1 .. n : h[k] = b[k]
      BY <1>5, CutInTwo
    <2>2. cur' = v
      BY <1>4
    <2> HIDE DEF h, b
    <2>3. /\ Len(v) = l + n
          /\ \A k \in 1 .. l + n : v[k] = IF k <= l THEN cur[k] ELSE h[k - l]
      BY <1>5, <2>1, ConcatProperties
    <2> HIDE DEF v, l
    <2>4. ASSUME NEW k \in 1 .. n
          PROVE  v[l + k] = b[k]
      <3>1. l + k \in 1 .. l + n /\ ~ (l + k <= l) /\ (l + k) - l = k
        BY <1>5
      <3> QED
        BY <2>1, <2>3, <3>1
    <2>5. v # << >>
      <3>1. Len(v) > 0
        BY <1>5, <2>3
      <3> QED
        BY <3>1, EmptySeq
    <2> QED
      BY <1>5, <2>2, <2>3, <2>4, <2>5
  <1> HIDE DEF b, u
  <1>11. \A k \in 1 .. Len(cur') - 1 : cur'[k] \notin Ends
    <2>1. \A k \in 1 .. l + n - 1 : k \in 1 .. l - 1 \/ k = l \/ k = l + 1
      BY <1>5
    <2>2. cur[l] \notin Ends /\ b[1] \notin Ends
      BY <1>5, <1>8 DEF Ends
    <2>3. cur'[l] = cur[l] /\ cur'[l + 1] = b[1] /\ \A k \in 1 .. l - 1 : cur'[k] = cur[k]
      BY <1>5, <1>10
    <2> HIDE DEF l
    <2> QED
      BY <1>5, <1>10, <2>1, <2>2, <2>3
  <1>12. CASE n = 2
    <2>1. Last(cur') \in Ends
      BY <1>9, <1>10, <1>12 DEF Last
    <2> QED
      BY <1>1, <1>10, <1>11, <2>1 DEF Current
  <1>13. CASE n = 1
    <2>1. buf'[c] = << >>
      <3>1. buf'[c] = SubSeq(buf[c], n + 1, Len(buf[c]))
        BY <1>0, <1>4 DEF TypeOK
      <3>2. n + 1 = 2 /\ Len(buf[c]) = 1
        BY <1>4, <1>13
      <3>3. SubSeq(buf[c], 2, 1) = << >>
        BY SubSeqEmpty
      <3> QED
        BY <3>1, <3>2, <3>3
    <2>2. \A d \in Conns : Accepted(d)' /\ fdOf'[d] = i' => d = c
      <3>1. \A d \in Conns : d # c => ~ (Accepted(d) /\ fdOf[c] = fdOf[d])
        BY <1>2, OneAtSocket
      <3> QED
        BY <1>1, <3>1 DEF Accepted
    <2>3. ended'[c] # "open"
      BY <1>1, <1>4, <1>13
    <2> QED
      BY <1>1, <1>10, <1>11, <2>1, <2>2, <2>3 DEF Current
  <1> QED
    BY <1>12, <1>13

LEMMA CurrentStep ==
  ASSUME FrameInv, LoopInv', Next
  PROVE  Current'
  <1> USE DEF FrameInv
  <1>1. CASE Switch
    <2>1. PICK c \in Conns : Connect(c) \/ Compose(c) \/ Deliver(c) \/ End(c)
      BY <1>1 DEF Switch
    <2>2. /\ UNCHANGED loop
          /\ \A d \in Conns : buf[d] = << >> /\ ended[d] # "open" =>
               buf'[d] = << >> /\ ended'[d] # "open"
      BY <2>1 DEF Connect, Compose, Deliver, End, LoopInv, TypeOK
    <2> QED
      BY <2>2 DEF Current, loop, Accepted
  <1>2. CASE Select \/ EndScan \/ Accept
    <2>1. pc \in {"select", "scan"} /\ pc' \in {"select", "scan"} /\ cur' = cur
      BY <1>2 DEF Select, EndScan, Accept, At
    <2> QED
      BY <2>1 DEF Current
  <1>3. ASSUME NEW c \in Conns, RecvEof(c)
        PROVE  Current'
    <2>1. pc = "scan" /\ pc' = pc /\ cur' = cur
      BY <1>3 DEF RecvEof, At
    <2> QED
      BY <2>1 DEF Current
  <1>4. CASE AcceptFails \/ \E c \in Conns : RecvFails(c) \/ HandleFails(c)
    <2>1. pc' = "exited" /\ cur' = cur
      BY <1>4 DEF AcceptFails, RecvFails, HandleFails, Exit
    <2> QED
      BY <2>1 DEF Current
  <1>5. ASSUME NEW c \in Conns, RecvNoBody(c)
        PROVE  Current'
    <2>1. /\ pc = "body" /\ i = fdOf[c] /\ buf[c] = << >> /\ ended[c] = "fin" /\ pc' = "handle"
          /\ UNCHANGED <<switch, fdOf, i, cur>>
      BY <1>5 DEF RecvNoBody
    <2>2. Accepted(c)
      BY <2>1 DEF LoopInv, AtSocket, Accepted
    <2>3. \A d \in Conns : Accepted(d) /\ fdOf[d] = i => d = c
      BY <2>1, <2>2, OneAtSocket
    <2> QED
      BY <2>1, <2>3 DEF Current, switch, Accepted
  <1>6. ASSUME NEW c \in Conns, Handle(c)
        PROVE  Current'
    <2>1. pc' = "scan" /\ cur' = << >>
      BY <1>6 DEF Handle
    <2> QED
      BY <2>1, EmptySeq DEF Current
  <1> QED
    BY <1>1, <1>2, <1>3, <1>4, <1>5, <1>6, CurrentHeader, CurrentBody DEF Next, Loop

(* What is handled is a prefix of what was written.                        *)
LEMMA PrefixOfConcat ==
  ASSUME NEW S, NEW s \in Seq(S), NEW t \in Seq(S)
  PROVE  IsPrefix(s, s \o t)
  <1> DEFINE v == s \o t
  <1>1. /\ Len(s) \in Nat /\ Len(t) \in Nat /\ Len(v) = Len(s) + Len(t)
        /\ v \in Seq(S) /\ \A k \in 1 .. Len(s) : v[k] = s[k] /\ s[k] \in S
    <2>1. /\ v \in Seq(S) /\ Len(v) = Len(s) + Len(t)
          /\ \A k \in 1 .. Len(s) + Len(t) : v[k] = IF k <= Len(s) THEN s[k] ELSE t[k - Len(s)]
      BY ConcatProperties
    <2>2. Len(s) \in Nat /\ Len(t) \in Nat /\ \A k \in 1 .. Len(s) : s[k] \in S
      BY LenProperties, ElementOfSeq
    <2> HIDE DEF v
    <2> QED
      BY <2>1, <2>2
  <1> HIDE DEF v
  <1> DEFINE n == Len(s)
             p == SubSeq(v, 1, n)
  <1>2. \A k \in 1 .. n : v[k] \in S
    BY <1>1
  <1>3. n \in Nat /\ 1 \in Int /\ n \in Int
    BY <1>1
  <1> HIDE DEF n
  <1>4. /\ p \in Seq(S) /\ Len(p) = (IF 1 <= n THEN n - 1 + 1 ELSE 0)
        /\ \A k \in 1 .. n - 1 + 1 : p[k] = v[1 + k - 1]
    BY <1>2, <1>3, SubSeqProperties
  <1> HIDE DEF p
  <1>5. Len(p) = n /\ \A k \in 1 .. n : p[k] = v[k]
    BY <1>3, <1>4
  <1>6. p = s
    <2>1. Len(p) = Len(s) /\ \A k \in 1 .. Len(p) : p[k] = s[k]
      BY <1>1, <1>5 DEF n
    <2> QED
      BY <1>4, <2>1, SeqEqual
  <1>7. SubSeq(s, 1, n) = s
    BY SubSeqFull DEF n
  <1>8. SubSeq(v, 1, Len(s)) = SubSeq(s, 1, Len(s)) /\ Len(s) <= Len(v)
    BY <1>1, <1>6, <1>7 DEF p, n
  <1> QED
    BY <1>8 DEF IsPrefix, v

LEMMA FrameCompose ==
  ASSUME FrameInv, NEW c \in Conns, Compose(c)
  PROVE  Whole(c)'
  <1> USE DEF FrameInv
  <1>0. TypeOK
    BY DEF LoopInv
  <1>1. PICK m \in {Short, Long} :
          /\ outq' = [outq EXCEPT ![c] = @ \o m]
          /\ sent' = [sent EXCEPT ![c] = Append(@, Last(m))]
    BY DEF Compose
  <1>2. ended[c] = "open" /\ UNCHANGED <<buf, ended, backlog, loop>>
    BY DEF Compose
  <1>3. Whole(c)
    BY <1>2 DEF CutShort
  <1>4. Unhandled(c)' = Unhandled(c)
    BY <1>2 DEF Unhandled, Accepted, loop
  <1> DEFINE u == Unhandled(c)
             o == outq[c]
             e == MessageEnds(u \o o)
             h == handled[c]
             l == Last(m)
  <1>5. /\ u \in Seq(Units) /\ o \in Seq(Units) /\ m \in Seq(Units)
        /\ h \in Seq(Ends \cup {"cut"}) /\ l \in Ends
    BY <1>0, UnhandledType, UnitTypes, LastOfMessage DEF TypeOK, Ends
  <1>6. Stream(c)' = (u \o o) \o m
    <2>1. Stream(c)' = u \o (o \o m)
      BY <1>0, <1>1, <1>4 DEF Stream, TypeOK
    <2> HIDE DEF u, o
    <2>2. (u \o o) \o m = u \o (o \o m)
      BY <1>5, ConcatAssociative
    <2> QED
      BY <2>1, <2>2
  <1>7. WellFramed(u \o o) /\ sent[c] = h \o e
    BY <1>3 DEF Whole, Stream
  <1>8. sent'[c] = Append(h \o e, l) /\ handled'[c] = h
    BY <1>0, <1>1, <1>2, <1>7 DEF TypeOK, loop
  <1> HIDE DEF u, o, h, l
  <1>9. u \o o \in Seq(Units)
    BY <1>5, ConcatProperties
  <1>10. WellFramed((u \o o) \o m) /\ MessageEnds((u \o o) \o m) = Append(e, l)
    BY <1>7, <1>9, StreamGrows DEF l
  <1>11. e \in Seq(Ends \cup {"cut"}) /\ l \in Ends \cup {"cut"}
    <2>1. e \in Seq(Ends)
      BY <1>9, EndsType
    <2> QED
      BY <1>5, <2>1, SeqMonotonic
  <1> HIDE DEF e
  <1>12. Append(h \o e, l) = h \o Append(e, l)
    <2>1. <<l>> \in Seq(Ends \cup {"cut"}) /\ h \o e \in Seq(Ends \cup {"cut"})
      BY <1>5, <1>11, ConcatProperties
    <2>2. Append(h \o e, l) = (h \o e) \o <<l>> /\ Append(e, l) = e \o <<l>>
      BY <1>11, <2>1, AppendIsConcat
    <2>3. (h \o e) \o <<l>> = h \o (e \o <<l>>)
      BY <1>5, <1>11, <2>1, ConcatAssociative
    <2> QED
      BY <2>2, <2>3
  <1> QED
    BY <1>6, <1>8, <1>10, <1>12 DEF Whole

LEMMA UnhandledDeliver ==
  ASSUME TypeOK, TypeOK', NEW c \in Conns, Deliver(c)
  PROVE  /\ Head(outq[c]) \in Units
         /\ Unhandled(c)' = Append(Unhandled(c), Head(outq[c]))
         /\ Stream(c)' = Stream(c)
  <1>1. /\ outq[c] # << >> /\ UNCHANGED loop
        /\ buf'[c] = Append(buf[c], Head(outq[c])) /\ outq'[c] = Tail(outq[c])
    BY DEF Deliver, TypeOK
  <1> DEFINE u == Unhandled(c)
             b == buf[c]
             k == cur
             o == outq[c]
             h == Head(o)
             t == Tail(o)
  <1>2. /\ u \in Seq(Units) /\ b \in Seq(Units) /\ k \in Seq(Units) /\ o \in Seq(Units)
        /\ h \in Units /\ t \in Seq(Units) /\ o = <<h>> \o t
    <2>1. u \in Seq(Units) /\ b \in Seq(Units) /\ k \in Seq(Units)
      BY UnhandledType DEF TypeOK
    <2>2. o \in Seq(Units) /\ o # << >>
      BY <1>1 DEF TypeOK
    <2> HIDE DEF o
    <2>3. h \in Units /\ t \in Seq(Units)
      BY <2>2, HeadTailProperties
    <2>4. o = <<h>> \o t
      BY <2>2
    <2> QED
      BY <2>1, <2>2, <2>3, <2>4
  <1>3. Unhandled(c)' = Append(u, h)
    <2>1. CASE Accepted(c) /\ i = fdOf[c]
      <3>1. u = k \o b /\ Unhandled(c)' = k \o Append(b, h)
        <4>1. u = k \o b
          BY <2>1, UnhandledType
        <4>2. Unhandled(c)' = cur' \o buf'[c]
          BY <1>1, <2>1, UnhandledNext DEF loop, Accepted
        <4> QED
          BY <1>1, <4>1, <4>2 DEF loop
      <3> HIDE DEF u, b, k, h
      <3>2. Append(b, h) = b \o <<h>> /\ <<h>> \in Seq(Units)
        BY <1>2, AppendIsConcat
      <3>3. k \o b \in Seq(Units)
        BY <1>2, ConcatProperties
      <3>4. Append(k \o b, h) = (k \o b) \o <<h>>
        BY <1>2, <3>3, AppendIsConcat
      <3>5. (k \o b) \o <<h>> = k \o (b \o <<h>>)
        <4>1. k \in Seq(Units) /\ b \in Seq(Units) /\ <<h>> \in Seq(Units)
          BY <1>2, <3>2
        <4> QED
          BY <4>1, ConcatAssociative
      <3> QED
        BY <3>1, <3>2, <3>4, <3>5
    <2>2. CASE ~ (Accepted(c) /\ i = fdOf[c])
      <3>1. u = b /\ Unhandled(c)' = buf'[c]
        BY <1>1, <2>2, UnhandledType, UnhandledNext DEF loop, Accepted
      <3> QED
        BY <1>1, <3>1
    <2> QED
      BY <2>1, <2>2
  <1>4. Stream(c)' = Append(u, h) \o t /\ Stream(c) = u \o o
    BY <1>1, <1>3 DEF Stream
  <1> HIDE DEF u, o, h, t
  <1>5. Append(u, h) \o t = u \o o
    <2>1. Append(u, h) = u \o <<h>> /\ <<h>> \in Seq(Units)
      BY <1>2, AppendIsConcat
    <2>2. (u \o <<h>>) \o t = u \o (<<h>> \o t)
      BY <1>2, <2>1, ConcatAssociative
    <2> QED
      BY <1>2, <2>1, <2>2
  <1> QED
    BY <1>2, <1>3, <1>4, <1>5 DEF u, o, h

LEMMA FrameSwitch ==
  ASSUME FrameInv, LoopInv', NEW c \in Conns,
         Connect(c) \/ Compose(c) \/ Deliver(c) \/ End(c)
  PROVE  \A d \in Conns : Whole(d)' \/ CutShort(d)'
  <1> USE DEF FrameInv
  <1>1. ASSUME NEW d \in Conns, d # c \/ Connect(c)
        PROVE  Whole(d)' \/ CutShort(d)'
    <2>1. Quiet(d)
      BY <1>1, SwitchIsQuiet DEF LoopInv
    <2> QED
      BY <2>1, QuietFrame
  <1>2. CASE Compose(c)
    BY <1>1, <1>2, FrameCompose
  <1>3. CASE Deliver(c)
    <2>1. Stream(c)' = Stream(c)
      BY <1>3, UnhandledDeliver DEF LoopInv
    <2>2. ended[c] = "open" /\ sent' = sent /\ handled' = handled
      BY <1>3 DEF Deliver, loop
    <2>3. Whole(c)'
      BY <2>1, <2>2 DEF Whole, CutShort
    <2> QED
      BY <1>1, <2>3
  <1>4. CASE End(c)
    <2>1. UNCHANGED <<outq, buf, sent, loop>> /\ ended[c] = "open"
      BY <1>4 DEF End
    <2>2. Stream(c)' = Stream(c) /\ handled' = handled
      BY <2>1 DEF Stream, Unhandled, Accepted, loop
    <2>3. Whole(c)'
      BY <2>1, <2>2 DEF Whole, CutShort
    <2> QED
      BY <1>1, <2>3
  <1> QED
    BY <1>1, <1>2, <1>3, <1>4

(* What the handler gets is the first of what was not handled.             *)
LEMMA HandleTakesFirst ==
  ASSUME FrameInv, LoopInv', NEW c \in Conns, Handle(c)
  PROVE  /\ Unhandled(c) = cur \o buf[c] /\ Unhandled(c)' = buf[c] /\ Whole(c)
         /\ cur \in Seq(Units) /\ buf[c] \in Seq(Units) /\ cur # << >> /\ Accepted(c)
         /\ handled'[c] = Append(handled[c], Message(cur))
         /\ Last(cur) \in Ends => Message(cur) = Last(cur) /\ MessageEnds(cur) = <<Last(cur)>>
         /\ Last(cur) \notin Ends => /\ Message(cur) = "cut" /\ MessageEnds(cur) = << >>
                                     /\ buf[c] = << >> /\ ended[c] # "open"
  <1> USE DEF FrameInv
  <1>0. TypeOK /\ TypeOK'
    BY DEF LoopInv
  <1>1. /\ pc = "handle" /\ i = fdOf[c] /\ cur' = << >>
        /\ handled' = [handled EXCEPT ![c] = Append(@, Message(cur))]
        /\ UNCHANGED <<outq, buf, ended, sent>>
    BY DEF Handle, switch
  <1>2. Accepted(c)
    BY <1>1 DEF LoopInv, AtSocket, Accepted
  <1>3. Unhandled(c) = cur \o buf[c] /\ Unhandled(c)' = buf[c]
    BY <1>0, <1>1, <1>2, UnhandledType, UnhandledNext
  <1>4. cur \in Seq(Units) /\ buf[c] \in Seq(Units) /\ cur # << >>
    BY <1>0, <1>1 DEF Current, TypeOK
  <1>5. Whole(c)
    <2>1. Unhandled(c) # << >>
      BY <1>3, <1>4, ConcatEqualIffEmpty
    <2> QED
      BY <2>1, FirstUnits
  <1>6. MessageEnds(cur) = IF Last(cur) \in Ends THEN <<Last(cur)>> ELSE << >>
    BY <1>4, EndsOfOne DEF Current
  <1>7. Last(cur) \notin Ends => buf[c] = << >> /\ ended[c] # "open"
    BY <1>1, <1>2 DEF Current
  <1>8. handled'[c] = Append(handled[c], Message(cur))
    BY <1>0, <1>1 DEF TypeOK
  <1> QED
    BY <1>2, <1>3, <1>4, <1>5, <1>6, <1>7, <1>8 DEF Message

LEMMA FrameHandle ==
  ASSUME FrameInv, LoopInv', NEW c \in Conns, Handle(c)
  PROVE  Whole(c)' \/ CutShort(c)'
  <1> DEFINE T == Ends \cup {"cut"}
             h == handled[c]
             k == cur
             b == buf[c]
             o == outq[c]
             r == b \o o
             m == Message(cur)
             e == MessageEnds(r)
  <1>1. /\ Unhandled(c) = k \o b /\ Unhandled(c)' = b /\ Whole(c)
        /\ k \in Seq(Units) /\ b \in Seq(Units) /\ k # << >>
        /\ handled'[c] = Append(h, m)
        /\ Last(k) \in Ends => m = Last(k) /\ MessageEnds(k) = <<Last(k)>>
        /\ Last(k) \notin Ends => m = "cut" /\ MessageEnds(k) = << >> /\ b = << >> /\ ended[c] # "open"
    BY HandleTakesFirst
  <1>2. o \in Seq(Units) /\ h \in Seq(T) /\ m \in T /\ sent[c] \in Seq(Ends)
    BY MessageType DEF FrameInv, LoopInv, TypeOK
  <1>3. UNCHANGED <<outq, ended, sent>>
    BY DEF Handle, switch
  <1>4. r \in Seq(Units) /\ Stream(c) = k \o r /\ Stream(c)' = r
    <2>1. Stream(c) = (k \o b) \o o /\ Stream(c)' = b \o o
      BY <1>1, <1>3 DEF Stream
    <2> HIDE DEF k, b, o
    <2>2. k \in Seq(Units) /\ b \in Seq(Units) /\ o \in Seq(Units)
      BY <1>1, <1>2
    <2>3. (k \o b) \o o = k \o (b \o o)
      BY <2>2, ConcatAssociative
    <2>4. b \o o \in Seq(Units)
      BY <2>2, ConcatProperties
    <2> QED
      BY <2>1, <2>3, <2>4
  <1>5. WellFramed(k \o r) /\ sent[c] = h \o MessageEnds(k \o r)
    BY <1>1, <1>4 DEF Whole
  <1> HIDE DEF k, r, h, m
  <1>6. e \in Seq(Ends) /\ e \in Seq(T)
    BY <1>4, EndsType, SeqMonotonic
  <1>7. MessageEnds(k \o r) = MessageEnds(k) \o e
    BY <1>1, <1>4, EndsOfConcat
  <1>8. CASE Last(k) \in Ends
    <2>1. WellFramed(r)
      BY <1>1, <1>4, <1>5, <1>8, RestOfStream DEF Last
    <2>2. m = Last(k) /\ MessageEnds(k) = <<m>>
      BY <1>1, <1>8
    <2>3. sent[c] = h \o (<<m>> \o e)
      BY <1>5, <1>7, <2>2
    <2> HIDE DEF e, T
    <2>4. Append(h, m) = h \o <<m>> /\ <<m>> \in Seq(T)
      BY <1>2, AppendIsConcat
    <2>5. (h \o <<m>>) \o e = h \o (<<m>> \o e)
      BY <1>2, <1>6, <2>4, ConcatAssociative
    <2>6. sent'[c] = handled'[c] \o e
      BY <1>1, <1>3, <2>3, <2>4, <2>5
    <2>7. WellFramed(Stream(c)') /\ e = MessageEnds(Stream(c)')
      BY <1>4, <2>1 DEF e
    <2>8. Whole(c)'
      BY <2>6, <2>7 DEF Whole
    <2> QED
      BY <2>8
  <1>9. CASE Last(k) \notin Ends
    <2>1. m = "cut" /\ b = << >> /\ ended[c] # "open" /\ MessageEnds(k) = << >>
      BY <1>1, <1>9
    <2>2. MessageEnds(k \o r) # << >>
      <3> DEFINE w == k \o r
      <3>1. w \in Seq(Units) /\ w # << >>
        BY <1>1, <1>4, ConcatProperties, ConcatEqualIffEmpty
      <3>2. w[Len(w)] \in Ends
        BY <1>5, <3>1 DEF WellFramed
      <3> HIDE DEF w
      <3>3. PICK s \in Seq(Units), u \in Units : w = Append(s, u)
        BY <3>1, SequenceEmptyOrAppend
      <3>4. w[Len(w)] = u
        BY <3>3, AppendProperties
      <3>5. MessageEnds(w) = Append(MessageEnds(s), u)
        BY <3>2, <3>3, <3>4, EndsOfAppend DEF Count
      <3>6. Append(MessageEnds(s), u) # << >>
        <4>1. MessageEnds(s) \in Seq(Ends) /\ u \in Ends
          BY <3>2, <3>4, EndsType
        <4> QED
          BY <4>1, AppendProperties
      <3> QED
        BY <3>5, <3>6 DEF w
    <2> DEFINE x == MessageEnds(k \o r)
    <2>3. x \in Seq(T) /\ x # << >>
      <3>1. k \o r \in Seq(Units)
        BY <1>1, <1>4, ConcatProperties
      <3>2. x \in Seq(Ends)
        BY <3>1, EndsType
      <3> QED
        BY <2>2, <3>2, SeqMonotonic
    <2>4. sent[c] = h \o x
      BY <1>5
    <2> HIDE DEF x, T
    <2>5. IsPrefix(h, sent[c])
      BY <1>2, <2>3, <2>4, PrefixOfConcat
    <2>6. Len(h) + 1 <= Len(sent[c]) /\ Len(h) \in Nat
      <3>1. Len(x) \in Nat /\ Len(x) > 0 /\ Len(h) \in Nat
        BY <1>2, <2>3, LenProperties, EmptySeq
      <3>2. Len(h \o x) = Len(h) + Len(x)
        BY <1>2, <2>3, ConcatProperties
      <3> QED
        BY <2>4, <3>1, <3>2
    <2> DEFINE g == Append(h, m)
    <2>7. /\ g \in Seq(T) /\ g # << >> /\ Len(g) = Len(h) + 1 /\ g[Len(h) + 1] = m
          /\ \A j \in 1 .. Len(h) : g[j] = h[j]
      BY <1>2, AppendProperties
    <2>8. Last(g) = "cut"
      BY <2>1, <2>7 DEF Last
    <2>9. Front(g) = h
      <3>1. Front(g) = SubSeq(g, 1, Len(h))
        <4>1. Len(g) - 1 = Len(h)
          BY <2>6, <2>7
        <4> QED
          BY <4>1 DEF Front
      <3>2. <<m>> \in Seq(T) /\ g = h \o <<m>>
        BY <1>2, AppendIsConcat
      <3>3. IsPrefix(h, h \o <<m>>)
        BY <1>2, <3>2, PrefixOfConcat
      <3>4. SubSeq(h, 1, Len(h)) = SubSeq(g, 1, Len(h))
        BY <3>2, <3>3 DEF IsPrefix
      <3>5. SubSeq(h, 1, Len(h)) = h
        BY <1>2, SubSeqFull
      <3> QED
        BY <3>1, <3>4, <3>5
    <2>10. handled'[c] = g /\ sent'[c] = sent[c] /\ ended'[c] # "open" /\ Unhandled(c)' = << >>
      BY <1>1, <1>3, <2>1
    <2> HIDE DEF g
    <2>11. CutShort(c)'
      BY <2>5, <2>6, <2>7, <2>8, <2>9, <2>10 DEF CutShort
    <2> QED
      BY <2>11
  <1> QED
    BY <1>8, <1>9

LEMMA FrameInvInit == Init => FrameInv
  <1> SUFFICES ASSUME Init PROVE FrameInv
    OBVIOUS
  <1>1. LoopInv
    BY LoopInvInit
  <1>2. Current
    BY EmptySeq DEF Init, Current
  <1>3. ASSUME NEW c \in Conns
        PROVE  Whole(c)
    <2>1. Unhandled(c) = << >> /\ outq[c] = << >> /\ sent[c] = << >> /\ handled[c] = << >>
      BY DEF Init, Unhandled, Accepted
    <2>2. << >> \in Seq(Units) /\ << >> \o << >> = << >>
      BY EmptySeq, ConcatEmptySeq
    <2>3. Stream(c) = << >>
      BY <2>1, <2>2 DEF Stream
    <2>4. WellFramed(<< >>)
      BY EmptySeq DEF WellFramed
    <2> QED
      BY <2>1, <2>2, <2>3, <2>4, EndsOfNothing DEF Whole
  <1> QED
    BY <1>1, <1>2, <1>3 DEF FrameInv

LEMMA FrameInvStep == FrameInv /\ [Next]_vars => FrameInv'
  <1> SUFFICES ASSUME FrameInv, [Next]_vars PROVE FrameInv'
    OBVIOUS
  <1>0. LoopInv'
    BY LoopInvStep DEF FrameInv
  <1>1. CASE UNCHANGED vars
    <2>1. /\ \A c \in Conns : Quiet(c)
          /\ Current'
      BY <1>1 DEF vars, switch, loop, Quiet, Unhandled, Accepted, FrameInv, Current
    <2> QED
      BY <1>0, <2>1, QuietFrame DEF FrameInv
  <1>2. CASE Next
    <2>1. Current'
      BY <1>0, <1>2, CurrentStep
    <2>2. CASE Switch
      BY <1>0, <2>1, <2>2, FrameSwitch DEF Switch, FrameInv
    <2>3. ASSUME NEW c \in Conns, Handle(c)
          PROVE  FrameInv'
      <3>1. \A d \in Conns : d # c => Quiet(d)
        BY <1>0, <2>3, HandleIsQuiet DEF FrameInv
      <3>2. \A d \in Conns : Whole(d)' \/ CutShort(d)'
        BY <1>0, <2>3, <3>1, QuietFrame, FrameHandle DEF FrameInv
      <3> QED
        BY <1>0, <2>1, <3>2 DEF FrameInv
    <2>4. CASE \/ Select \/ EndScan \/ Accept \/ AcceptFails
               \/ \E c \in Conns : \/ RecvHeader(c) \/ RecvEof(c) \/ RecvFails(c)
                                   \/ RecvBody(c) \/ RecvNoBody(c) \/ HandleFails(c)
      <3>1. \A d \in Conns : Quiet(d)
        BY <1>0, <2>4, LoopIsQuiet
      <3> QED
        BY <1>0, <2>1, <3>1, QuietFrame DEF FrameInv
    <2> QED
      BY <1>2, <2>2, <2>3, <2>4 DEF Next, Loop
  <1> QED
    BY <1>1, <1>2

LEMMA FrameInvAlways == Spec => []FrameInv
  BY FrameInvInit, FrameInvStep, PTL DEF Spec

(* MessagesAreFramed: however the segments cut the stream of bytes, the    *)
(* handlers see each connection's messages as they were written, in order, *)
(* each once, and only the last one cut short by the connection's end.     *)
THEOREM FramingIsKept == Spec => []MessagesAreFramed
  <1>1. FrameInv => MessagesAreFramed
    <2> SUFFICES ASSUME FrameInv, NEW c \in Conns
                 PROVE  \/ IsPrefix(handled[c], sent[c])
                        \/ /\ handled[c] # << >> /\ Last(handled[c]) = "cut"
                           /\ IsPrefix(Front(handled[c]), sent[c])
                           /\ Len(handled[c]) <= Len(sent[c])
                           /\ ended[c] # "open" /\ buf[c] = << >>
      BY DEF MessagesAreFramed
    <2>1. TypeOK
      BY DEF FrameInv, LoopInv
    <2>2. CASE Whole(c)
      <3> DEFINE T == Ends \cup {"cut"}
      <3>1. handled[c] \in Seq(T) /\ MessageEnds(Stream(c)) \in Seq(T)
        BY <2>1, StreamType, EndsType, SeqMonotonic DEF TypeOK
      <3> HIDE DEF T
      <3>2. IsPrefix(handled[c], handled[c] \o MessageEnds(Stream(c)))
        BY <3>1, PrefixOfConcat
      <3> QED
        BY <2>2, <3>2 DEF Whole
    <2>3. CASE CutShort(c)
      <3>1. buf[c] = << >>
        <4>1. cur \in Seq(Units) /\ buf[c] \in Seq(Units)
          BY <2>1 DEF TypeOK
        <4>2. Unhandled(c) = cur \o buf[c] \/ Unhandled(c) = buf[c]
          BY <2>1, UnhandledType
        <4>3. cur \o buf[c] = << >> => buf[c] = << >>
          BY <4>1, ConcatEqualIffEmpty
        <4> QED
          BY <2>3, <4>2, <4>3 DEF CutShort
      <3> QED
        BY <2>3, <3>1 DEF CutShort
    <2> QED
      BY <2>2, <2>3 DEF FrameInv
  <1> QED
    BY <1>1, FrameInvAlways, PTL

---------------------------------------------------------------------------
(* The loop implements the service *)

Box == [c \in Conns |-> Inbox(c)]

(* The message that the end of a connection makes of what is left of it.   *)
Remnant(c) ==
  IF ended[c] # "open" /\ Unhandled(c) # << >> /\ Last(Unhandled(c)) \notin Ends
  THEN <<"cut">> ELSE << >>

LEMMA RemnantTypes ==
  << >> \in Seq(Ends \cup {"cut"}) /\ <<"cut">> \in Seq(Ends \cup {"cut"})
  <1> DEFINE T == Ends \cup {"cut"}
  <1>1. "cut" \in T
    OBVIOUS
  <1> HIDE DEF T
  <1>2. << >> \in Seq(T) /\ <<"cut">> \in Seq(T)
    BY <1>1, EmptySeq
  <1> QED
    BY <1>2 DEF T

LEMMA InboxIs ==
  ASSUME TypeOK, NEW c \in Conns
  PROVE  /\ Inbox(c) = MessageEnds(Unhandled(c)) \o Remnant(c)
         /\ MessageEnds(Unhandled(c)) \in Seq(Ends \cup {"cut"})
         /\ Inbox(c) \in Seq(Ends \cup {"cut"})
         /\ Remnant(c) = << >> => Inbox(c) = MessageEnds(Unhandled(c))
  <1> DEFINE T == Ends \cup {"cut"}
             e == MessageEnds(Unhandled(c))
  <1>1. Inbox(c) = e \o Remnant(c)
    BY DEF Inbox, Remnant
  <1>2. e \in Seq(T)
    BY UnhandledType, EndsType, SeqMonotonic
  <1>3. Remnant(c) \in Seq(T)
    BY RemnantTypes DEF Remnant
  <1> HIDE DEF e, T
  <1>4. e \o Remnant(c) \in Seq(T) /\ e \o << >> = e
    BY <1>2, <1>3, ConcatProperties, ConcatEmptySeq
  <1> QED
    BY <1>1, <1>2, <1>4 DEF e, T

LEMMA OneInbox ==
  ASSUME NEW c \in Conns, NEW v, Inbox(c)' = v,
         \A d \in Conns : d # c => Inbox(d)' = Inbox(d)
  PROVE  Box' = [Box EXCEPT ![c] = v]
  BY DEF Box

LEMMA EveryInbox ==
  ASSUME \A d \in Conns : Inbox(d)' = Inbox(d)
  PROVE  Box' = Box
  BY DEF Box

(* What is delivered arrives when the last unit of a message does.         *)
LEMMA DeliverArrives ==
  ASSUME LoopInv, LoopInv', NEW c \in Conns, Deliver(c)
  PROVE  \/ Inbox(c)' = Inbox(c)
         \/ \E m \in Ends : Inbox(c)' = Append(Inbox(c), m)
  <1>0. TypeOK /\ TypeOK'
    BY DEF LoopInv
  <1> DEFINE u == Unhandled(c)
             h == Head(outq[c])
  <1>1. h \in Units /\ Unhandled(c)' = Append(u, h)
    BY <1>0, UnhandledDeliver
  <1>2. ended[c] = "open" /\ ended' = ended
    BY DEF Deliver
  <1>3. u \in Seq(Units)
    BY <1>0, UnhandledType
  <1>4. Inbox(c) = MessageEnds(u)
    BY <1>0, <1>2, InboxIs DEF Remnant
  <1>5. Inbox(c)' = MessageEnds(Append(u, h))
    <2>1. Inbox(c)' = MessageEnds(Append(u, h)) \o << >>
      BY <1>1, <1>2 DEF Inbox
    <2>2. Append(u, h) \in Seq(Units)
      BY <1>1, <1>3, AppendProperties
    <2>3. MessageEnds(Append(u, h)) \in Seq(Ends)
      BY <2>2, EndsType
    <2> QED
      BY <2>1, <2>3, ConcatEmptySeq
  <1> HIDE DEF u, h
  <1>6. Inbox(c)' = Count(Inbox(c), h)
    BY <1>1, <1>3, <1>4, <1>5, EndsOfAppend
  <1> QED
    BY <1>6 DEF Count

(* The end of a connection makes a message of what is left.                *)
LEMMA EndArrives ==
  ASSUME LoopInv, LoopInv', NEW c \in Conns, End(c)
  PROVE  \/ Inbox(c)' = Inbox(c)
         \/ Inbox(c)' = Append(Inbox(c), "cut")
  <1>0. TypeOK
    BY DEF LoopInv
  <1> DEFINE e == MessageEnds(Unhandled(c))
  <1>1. ended[c] = "open" /\ UNCHANGED <<buf, loop>>
    BY DEF End
  <1>2. Unhandled(c)' = Unhandled(c)
    BY <1>1 DEF Unhandled, Accepted, loop
  <1>3. Inbox(c) = e /\ e \in Seq(Ends \cup {"cut"})
    BY <1>0, <1>1, InboxIs DEF Remnant
  <1>4. Inbox(c)' = e \o << >> \/ Inbox(c)' = e \o <<"cut">>
    BY <1>2 DEF Inbox
  <1> HIDE DEF e
  <1>5. e \o << >> = e /\ Append(e, "cut") = e \o <<"cut">>
    BY <1>3, ConcatEmptySeq, AppendIsConcat
  <1> QED
    BY <1>3, <1>4, <1>5

(* Handling takes the first message of the inbox.                          *)
LEMMA HandleServes ==
  ASSUME FrameInv, LoopInv', NEW c \in Conns, Handle(c)
  PROVE  /\ Inbox(c) # << >>
         /\ Message(cur) = Head(Inbox(c))
         /\ Inbox(c)' = Tail(Inbox(c))
  <1> DEFINE T == Ends \cup {"cut"}
             m == Message(cur)
             b == buf[c]
             r == IF ended[c] # "open" /\ b # << >> /\ Last(b) \notin Ends
                  THEN <<"cut">> ELSE << >>
  <1>0. TypeOK
    BY DEF FrameInv, LoopInv
  <1>1. /\ Unhandled(c) = cur \o b /\ Unhandled(c)' = b
        /\ cur \in Seq(Units) /\ b \in Seq(Units) /\ cur # << >>
        /\ Last(cur) \in Ends => m = Last(cur) /\ MessageEnds(cur) = <<Last(cur)>>
        /\ Last(cur) \notin Ends => m = "cut" /\ MessageEnds(cur) = << >> /\ b = << >> /\ ended[c] # "open"
    BY HandleTakesFirst
  <1>2. ended' = ended /\ m \in T
    BY MessageType DEF Handle, switch
  <1>3. Inbox(c)' = MessageEnds(b) \o r
    BY <1>1, <1>2 DEF Inbox
  <1>4. /\ MessageEnds(cur \o b) = MessageEnds(cur) \o MessageEnds(b)
        /\ MessageEnds(b) \in Seq(T) /\ r \in Seq(T)
    <2>1. MessageEnds(cur \o b) = MessageEnds(cur) \o MessageEnds(b)
      BY <1>1, EndsOfConcat
    <2>2. MessageEnds(b) \in Seq(T)
      BY <1>1, EndsType, SeqMonotonic
    <2>3. r \in Seq(T)
      BY RemnantTypes
    <2> QED
      BY <2>1, <2>2, <2>3
  <1>5. CASE Last(cur) \in Ends
    <2>1. m = Last(cur) /\ MessageEnds(cur) = <<m>>
      BY <1>1, <1>5
    <2>2. Remnant(c) = r
      <3>1. b # << >> => cur \o b # << >> /\ Last(cur \o b) = Last(b)
        <4> SUFFICES ASSUME b # << >>
                     PROVE  cur \o b # << >> /\ Last(cur \o b) = Last(b)
          OBVIOUS
        <4> DEFINE v == cur \o b
        <4> HIDE DEF b
        <4>1. /\ Len(v) = Len(cur) + Len(b) /\ v \in Seq(Units)
              /\ \A j \in 1 .. Len(cur) + Len(b) :
                   v[j] = IF j <= Len(cur) THEN cur[j] ELSE b[j - Len(cur)]
          BY <1>1, ConcatProperties
        <4>2. Len(cur) \in Nat /\ Len(b) \in Nat /\ Len(b) > 0
          BY <1>1, LenProperties, EmptySeq
        <4> HIDE DEF v
        <4>3. /\ Len(v) \in 1 .. Len(cur) + Len(b) /\ ~ (Len(v) <= Len(cur))
              /\ Len(v) - Len(cur) = Len(b) /\ Len(v) > 0
          BY <4>1, <4>2
        <4>4. v[Len(v)] = b[Len(b)]
          BY <4>1, <4>3
        <4>5. v # << >>
          BY <4>3, EmptySeq
        <4> QED
          BY <4>4, <4>5 DEF Last, v
      <3>2. b = << >> => cur \o b = cur
        BY <1>1, ConcatEmptySeq
      <3> QED
        BY <1>1, <1>5, <3>1, <3>2 DEF Remnant
    <2>3. Inbox(c) = (<<m>> \o MessageEnds(b)) \o r
      BY <1>0, <1>1, <1>4, <2>1, <2>2, InboxIs
    <2> DEFINE e == MessageEnds(b)
               q == e \o r
    <2> HIDE DEF T, m, r, e
    <2>4. <<m>> \in Seq(T) /\ e \in Seq(T) /\ r \in Seq(T)
      BY <1>2, <1>4 DEF e
    <2>5. (<<m>> \o e) \o r = <<m>> \o (e \o r) /\ q \in Seq(T)
      BY <2>4, ConcatAssociative, ConcatProperties
    <2>6. Inbox(c) = <<m>> \o q /\ Inbox(c)' = q
      BY <1>3, <2>3, <2>5 DEF e
    <2> HIDE DEF q
    <2>7. <<m>> \o q # << >> /\ Head(<<m>> \o q) = m /\ Tail(<<m>> \o q) = q
      BY <1>2, <2>5
    <2> QED
      BY <2>6, <2>7 DEF m
  <1>6. CASE Last(cur) \notin Ends
    <2>1. m = "cut" /\ MessageEnds(cur) = << >> /\ b = << >> /\ ended[c] # "open"
      BY <1>1, <1>6
    <2>2. cur \o b = cur
      BY <1>1, <2>1, ConcatEmptySeq
    <2>3. Remnant(c) = <<"cut">>
      BY <1>1, <1>6, <2>1, <2>2 DEF Remnant
    <2>4. Inbox(c) = << >> \o <<"cut">>
      BY <1>0, <1>1, <2>1, <2>2, <2>3, InboxIs
    <2>5. Inbox(c)' = << >> \o << >>
      BY <1>3, <2>1, EndsOfNothing
    <2>6. << >> \o <<"cut">> = <<"cut">> /\ << >> \o << >> = << >>
      OBVIOUS
    <2> QED
      BY <2>1, <2>4, <2>5, <2>6
  <1> QED
    BY <1>5, <1>6

LEMMA ServiceInit ==
  ASSUME Init
  PROVE  Service!Init
  <1>1. ASSUME NEW c \in Conns
        PROVE  Inbox(c) = << >>
    <2>1. TypeOK /\ Unhandled(c) = << >>
      BY LoopInvInit DEF Init, Unhandled, Accepted, LoopInv
    <2>2. Remnant(c) = << >>
      BY <2>1 DEF Remnant
    <2> QED
      BY <2>1, <2>2, InboxIs, EndsOfNothing
  <1>2. Box = [c \in Conns |-> << >>]
    BY <1>1 DEF Box
  <1> QED
    BY <1>2 DEF Init, Service!Init, Box

(* Each step of the loop is one of the service's, or none.                 *)
LEMMA ServiceStep ==
  ASSUME FrameInv, FrameInv', [Next]_vars
  PROVE  [Service!Next]_<<pc # "exited", [c \in Conns |-> Inbox(c)], handled>>
  <1> DEFINE up == pc # "exited"
  <1> SUFFICES [Service!Next]_<<up, Box, handled>>
    BY DEF Box
  <1>0. LoopInv /\ LoopInv' /\ TypeOK /\ TypeOK'
    BY DEF FrameInv, LoopInv
  <1>1. ASSUME \A c \in Conns : Quiet(c)
        PROVE  Box' = Box /\ handled' = handled
    <2>1. Box' = Box
      BY <1>1, QuietInbox, EveryInbox
    <2>2. handled' = handled
      BY <1>0, <1>1 DEF Quiet, TypeOK
    <2> QED
      BY <2>1, <2>2
  <1>2. ASSUME Box' = Box, handled' = handled, pc' = "exited" \/ (pc # "exited" /\ pc' # "exited")
        PROVE  [Service!Next]_<<up, Box, handled>>
    <2>1. CASE pc' = "exited"
      BY <1>2, <2>1 DEF Service!Next, Service!Stop, Box
    <2>2. CASE pc # "exited" /\ pc' # "exited"
      BY <1>2, <2>2
    <2> QED
      BY <1>2, <2>1, <2>2
  <1>3. CASE UNCHANGED vars
    <2>1. \A c \in Conns : Quiet(c)
      BY <1>3 DEF vars, switch, loop, Quiet, Unhandled, Accepted
    <2>2. pc' = pc
      BY <1>3 DEF vars, loop
    <2> QED
      BY <1>1, <2>1, <2>2 DEF Box
  <1>4. ASSUME NEW c \in Conns, Connect(c) \/ Compose(c) \/ Deliver(c) \/ End(c)
        PROVE  [Service!Next]_<<up, Box, handled>>
    <2>1. UNCHANGED <<pc, handled>>
      BY <1>4 DEF Connect, Compose, Deliver, End, loop
    <2>2. \A d \in Conns : d # c \/ Connect(c) => Inbox(d)' = Inbox(d)
      BY <1>0, <1>4, SwitchIsQuiet, QuietInbox
    <2>3. \/ Inbox(c)' = Inbox(c)
          \/ \E m \in Ends \cup {"cut"} : Inbox(c)' = Append(Inbox(c), m)
      <3>1. CASE Compose(c)
        <4>1. UNCHANGED <<buf, ended, loop>>
          BY <3>1 DEF Compose
        <4> QED
          BY <4>1 DEF Inbox, Unhandled, Accepted, loop
      <3> QED
        BY <1>0, <1>4, <2>2, <3>1, DeliverArrives, EndArrives
    <2>4. CASE Inbox(c)' = Inbox(c)
      BY <2>1, <2>2, <2>4, EveryInbox
    <2>5. ASSUME NEW m \in Ends \cup {"cut"}, Inbox(c)' = Append(Inbox(c), m), ~ Connect(c)
          PROVE  Service!Arrive(c)
      <3>1. Box' = [Box EXCEPT ![c] = Append(Inbox(c), m)]
        BY <2>2, <2>5, OneInbox
      <3>2. Box' = [Box EXCEPT ![c] = Append(@, m)]
        BY <3>1 DEF Box
      <3> QED
        BY <2>1, <3>2 DEF Service!Arrive, Box
    <2> QED
      BY <2>2, <2>3, <2>4, <2>5 DEF Service!Next
  <1>5. ASSUME NEW c \in Conns, Handle(c)
        PROVE  Service!Serve(c)
    <2>1. /\ pc = "handle" /\ pc' = "scan"
          /\ handled' = [handled EXCEPT ![c] = Append(@, Message(cur))]
      BY <1>5 DEF Handle
    <2>2. /\ Inbox(c) # << >> /\ Message(cur) = Head(Inbox(c))
          /\ Inbox(c)' = Tail(Inbox(c))
      BY <1>0, <1>5, HandleServes
    <2>3. \A d \in Conns : d # c => Inbox(d)' = Inbox(d)
      BY <1>0, <1>5, HandleIsQuiet, QuietInbox
    <2>4. Box' = [Box EXCEPT ![c] = Tail(Inbox(c))]
      BY <2>2, <2>3, OneInbox
    <2>5. Box' = [Box EXCEPT ![c] = Tail(@)] /\ Box[c] = Inbox(c)
      BY <2>4 DEF Box
    <2>6. handled' = [handled EXCEPT ![c] = Append(@, Head(Box[c]))]
      BY <2>1, <2>2, <2>5
    <2>7. Box[c] # << >>
      BY <2>2, <2>5
    <2> QED
      BY <2>1, <2>5, <2>6, <2>7 DEF Service!Serve, Box
  <1>6. CASE \/ Select \/ EndScan \/ Accept \/ AcceptFails
             \/ \E c \in Conns : \/ RecvHeader(c) \/ RecvEof(c) \/ RecvFails(c)
                                 \/ RecvBody(c) \/ RecvNoBody(c) \/ HandleFails(c)
    <2>1. Box' = Box /\ handled' = handled
      BY <1>0, <1>1, <1>6, LoopIsQuiet
    <2>2. pc' = "exited" \/ (pc # "exited" /\ pc' # "exited")
      BY <1>6 DEF Select, EndScan, Accept, AcceptFails, RecvHeader, RecvEof, RecvFails,
                  RecvBody, RecvNoBody, HandleFails, Exit, At
    <2> QED
      BY <1>2, <2>1, <2>2
  <1> QED
    BY <1>3, <1>4, <1>5, <1>6 DEF Next, Switch, Loop, Service!Next

(* ImplementsService: the loop, with its blocking reads, segments, ends of *)
(* connections and shared descriptors, is a service that handles the       *)
(* messages of a connection one at a time in the order they arrived until  *)
(* the process exits, which is what module Controller takes for granted.   *)
THEOREM LoopImplementsService == Spec => ImplementsService
  <1>1. Init => Service!Init
    BY ServiceInit
  <1>2. FrameInv /\ FrameInv' /\ [Next]_vars =>
          [Service!Next]_<<pc # "exited", [c \in Conns |-> Inbox(c)], handled>>
    BY ServiceStep
  <1> QED
    BY <1>1, <1>2, FrameInvAlways, PTL DEF Spec, ImplementsService, Service!Spec
=============================================================================
