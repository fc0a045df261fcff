------------------------- MODULE SmartAlloc_proofs -------------------------
(***************************************************************************)
(* Theorems about module SmartAlloc, for every number of threads, blocks,  *)
(* buckets and calls, once a first call has initialised the table.         *)
(***************************************************************************)
EXTENDS SmartAlloc, FirstMatch, SequenceTheorems, FiniteSetTheorems

---------------------------------------------------------------------------
(* The inductive invariant *)

Adding   == {"init", "enter", "link"}
Removing == {"test", "remove", "unlink"}

(* What a thread's call is made of at each of its steps.                   *)
CallTyped(t) ==
  /\ pc[t] # "wipe"
  /\ pc[t] \in Adding \cup {"malloc"} =>
       call[t].op \in {"alloc", "realloc"} /\ call[t].bytes \in Sizes
  /\ pc[t] \in Adding => call[t].blk \in Addrs
  /\ pc[t] \in Removing =>
       /\ call[t].op \in {"free", "realloc"}
       /\ call[t].op = "realloc" => call[t].bytes \in Sizes
       /\ ~ call[t].good => call[t].ptr \in Strays
  /\ pc[t] = "release" => call[t].op \in {"free", "realloc"}

(* In a critical section a thread holds the mutex, and what it has read is *)
(* what is there.                                                          *)
Locked(t) ==
  /\ pc[t] = "link" =>
       mutt = t /\ seen[t] = [chain |-> Bucket(call[t].blk), sum |-> allocated]
  /\ pc[t] = "unlink" =>
       mutt = t /\ seen[t] = [chain |-> Bucket(call[t].ptr), sum |-> allocated]

(* The block a call has from libc and its caller has not yet.              *)
New(t) ==
  IF pc[t] \in Adding \/ (pc[t] = "release" /\ call[t].op = "realloc")
  THEN {call[t].blk} ELSE {}

(* The block its caller has given back and libc has not yet.               *)
Old(t) ==
  IF \/ pc[t] \in Removing /\ call[t].good
     \/ pc[t] = "release"
     \/ pc[t] \in Adding \cup {"malloc"} /\ call[t].op = "realloc"
  THEN {call[t].ptr} ELSE {}

Held(t) == New(t) \cup Old(t)

(* These blocks are libc's and no caller's; they are in the table as far   *)
(* as the call has come.                                                   *)
Owns(t) ==
  /\ New(t) \cap Old(t) = {}
  /\ Held(t) \subseteq heap
  /\ Held(t) \cap live = {}
  /\ IF pc[t] = "release" THEN New(t) \subseteq Tracked ELSE New(t) \cap Tracked = {}
  /\ IF pc[t] \in Removing THEN Old(t) \subseteq Tracked ELSE Old(t) \cap Tracked = {}

ThreadInv(t) == CallTyped(t) /\ Locked(t) /\ Owns(t)

(* No two calls are about the same block.                                  *)
Apart == \A t, u \in Threads : t # u => Held(t) \cap Held(u) = {}

(* Every block of libc's is a caller's or in a call: none is lost.         *)
NoneLost == heap \subseteq live \cup UNION {Held(t) : t \in Threads}

IInv ==
  /\ TypeOK
  /\ IsFiniteSet(heap)
  /\ inited
  /\ \A t \in Threads : ThreadInv(t)
  /\ Apart
  /\ NoneLost
  /\ NodesAreSound
  /\ LiveIsTracked
  /\ ReportsAreTrue

---------------------------------------------------------------------------
(* The hash table *)

LEMMA HashInRange == \A a \in Nat : smartalloc_hash(a) \in Buckets
  <1>1. HASH_SIZE \in Nat /\ HASH_SIZE > 0
    BY AllocatorOK
  <1>2. \A a, b \in Nat : b > 0 => a % b \in 0 .. b - 1
    OBVIOUS
  <1> QED
    BY <1>1, <1>2 DEF smartalloc_hash, Buckets

(* Addresses are told apart from the strays, and both from NULL.           *)
LEMMA AddressesAre ==
  /\ Addrs \subseteq Nat /\ Strays \subseteq Nat
  /\ NULL \notin Addrs /\ NULL \notin Strays
  /\ Strays \cap Addrs = {}
  BY AllocatorOK

LEMMA BucketTyped ==
  ASSUME track_hash \in [Buckets -> Seq(Node)], NEW a \in Nat
  PROVE  Bucket(a) \in Seq(Node) /\ DOMAIN Bucket(a) = 1 .. Len(Bucket(a))
  BY HashInRange DEF Bucket

(* Where removeTrackNode's walk ends.                                      *)
LEMMA FoundIs ==
  ASSUME NEW t \in Threads, seen[t].chain \in Seq(Node)
  PROVE  /\ Found(t) \in 0 .. Len(seen[t].chain)
         /\ Found(t) # 0 => seen[t].chain[Found(t)].data = call[t].ptr
         /\ Found(t) = 0 =>
              \A k \in 1 .. Len(seen[t].chain) : seen[t].chain[k].data # call[t].ptr
  <1> DEFINE I == {k \in 1 .. Len(seen[t].chain) : seen[t].chain[k].data = call[t].ptr}
  <1>1. Found(t) = IF I # {} THEN Min(I) ELSE 0
    BY DEF Found, SelectInSeq
  <1>2. Len(seen[t].chain) \in Nat
    OBVIOUS
  <1>3. I # {} => Min(I) \in I
    BY <1>2, FirstPosition
  <1> HIDE DEF I
  <1>4. CASE I = {}
    BY <1>1, <1>2, <1>4 DEF I
  <1>5. CASE I # {}
    <2>1. Found(t) \in I
      BY <1>1, <1>3, <1>5
    <2> QED
      BY <2>1, <1>2 DEF I
  <1> QED
    BY <1>4, <1>5

LEMMA RemoveAtIs ==
  ASSUME NEW S, NEW s \in Seq(S), NEW i \in 1 .. Len(s)
  PROVE  /\ RemoveAt(s, i) \in Seq(S)
         /\ Len(RemoveAt(s, i)) = Len(s) - 1
         /\ \A k \in 1 .. Len(s) - 1 :
              RemoveAt(s, i)[k] = IF k < i THEN s[k] ELSE s[k + 1]
  <1> DEFINE one == SubSeq(s, 1, i - 1)
  <1> DEFINE two == SubSeq(s, i + 1, Len(s))
  <1>1. Len(s) \in Nat /\ i \in Nat /\ \A k \in 1 .. Len(s) : s[k] \in S
    OBVIOUS
  <1>2. /\ one \in Seq(S) /\ Len(one) = i - 1
        /\ \A k \in 1 .. i - 1 : one[k] = s[k]
    <2>1. /\ one \in Seq(S)
          /\ Len(one) = IF 1 <= i - 1 THEN (i - 1) - 1 + 1 ELSE 0
          /\ \A k \in 1 .. (i - 1) - 1 + 1 : one[k] = s[1 + k - 1]
      BY <1>1, SubSeqProperties
    <2> HIDE DEF one
    <2> QED
      BY <1>1, <2>1
  <1>3. /\ two \in Seq(S) /\ Len(two) = Len(s) - i
        /\ \A k \in 1 .. Len(s) - i : two[k] = s[i + k]
    <2>1. /\ two \in Seq(S)
          /\ Len(two) = IF i + 1 <= Len(s) THEN Len(s) - (i + 1) + 1 ELSE 0
          /\ \A k \in 1 .. Len(s) - (i + 1) + 1 : two[k] = s[(i + 1) + k - 1]
      BY <1>1, SubSeqProperties
    <2> HIDE DEF two
    <2> QED
      BY <1>1, <2>1
  <1>4. RemoveAt(s, i) = one \o two
    BY DEF RemoveAt
  <1> HIDE DEF one, two
  <1>5. /\ one \o two \in Seq(S)
        /\ Len(one \o two) = Len(one) + Len(two)
        /\ \A k \in 1 .. Len(one) + Len(two) :
             (one \o two)[k] = IF k <= Len(one) THEN one[k] ELSE two[k - Len(one)]
    BY <1>2, <1>3, ConcatProperties
  <1> QED
    BY <1>1, <1>2, <1>3, <1>4, <1>5

(* The node of a new block goes in front of its bucket.                    *)
LEMMA LinkTable ==
  ASSUME track_hash \in [Buckets -> Seq(Node)], NodesAreSound,
         NEW a \in Addrs, NEW n \in Sizes, a \notin Tracked, a \in heap, heap' = heap,
         track_hash' = [track_hash EXCEPT ![smartalloc_hash(a)] =
                          <<[data |-> a, space |-> n]>> \o Bucket(a)]
  PROVE  /\ track_hash' \in [Buckets -> Seq(Node)]
         /\ NodesAreSound'
         /\ Tracked' = Tracked \cup {a}
  <1> DEFINE node == [data |-> a, space |-> n]
  <1> DEFINE new == <<node>> \o Bucket(a)
  <1> DEFINE h == smartalloc_hash(a)
  <1>1. h \in Buckets /\ Bucket(a) = track_hash[h]
    BY HashInRange, AddressesAre DEF Bucket
  <1>2. node \in Node /\ node.data = a
    BY DEF Node
  <1> HIDE DEF node
  <1>3. /\ new \in Seq(Node) /\ Len(new) = Len(track_hash[h]) + 1 /\ new[1] = node
        /\ \A k \in 2 .. Len(new) : new[k] = track_hash[h][k - 1]
    BY <1>1, <1>2
  <1>4. /\ track_hash' \in [Buckets -> Seq(Node)]
        /\ track_hash'[h] = new
        /\ \A b \in Buckets : b # h => track_hash'[b] = track_hash[b]
    BY <1>1, <1>2, <1>3 DEF node
  <1> HIDE DEF new, h
  <1>5. \A b \in Buckets : /\ DOMAIN track_hash[b] = 1 .. Len(track_hash[b])
                           /\ DOMAIN track_hash'[b] = 1 .. Len(track_hash'[b])
                           /\ Len(track_hash[b]) \in Nat
    BY <1>4
  <1>6. \A k \in 1 .. Len(track_hash[h]) : track_hash[h][k].data # a
    BY <1>1, <1>5 DEF Tracked
  <1>7. /\ \A l \in 1 .. Len(new) : l = 1 \/ l \in 2 .. Len(new)
        /\ \A l \in 2 .. Len(new) :
             l - 1 \in 1 .. Len(track_hash[h]) /\ new[l] = track_hash[h][l - 1]
    BY <1>1, <1>3, <1>5
  <1>8. NodesAreSound'
    <2> SUFFICES ASSUME NEW b \in Buckets, NEW k \in 1 .. Len(track_hash'[b])
                 PROVE  /\ smartalloc_hash(track_hash'[b][k].data) = b
                        /\ track_hash'[b][k].data \in heap
                        /\ \A l \in 1 .. Len(track_hash'[b]) :
                             track_hash'[b][l].data = track_hash'[b][k].data => l = k
      BY <1>5 DEF NodesAreSound, smartalloc_hash
    <2>1. CASE b # h
      BY <1>4, <1>5, <2>1 DEF NodesAreSound
    <2>2. CASE b = h /\ k = 1
      <3>1. \A l \in 2 .. Len(new) : new[l].data # a
        BY <1>6, <1>7
      <3>2. new[1].data = a
        BY <1>2, <1>3
      <3>3. smartalloc_hash(a) = h
        BY DEF h
      <3> QED
        BY <1>4, <1>7, <2>2, <3>1, <3>2, <3>3
    <2>3. CASE b = h /\ k # 1
      <3>1. k - 1 \in 1 .. Len(track_hash[h]) /\ new[k] = track_hash[h][k - 1]
        BY <1>1, <1>3, <1>4, <1>5, <2>3
      <3>2. /\ smartalloc_hash(track_hash[h][k - 1].data) = h
            /\ track_hash[h][k - 1].data \in heap
            /\ \A l \in 1 .. Len(track_hash[h]) :
                 track_hash[h][l].data = track_hash[h][k - 1].data => l = k - 1
        BY <1>1, <1>5, <3>1 DEF NodesAreSound
      <3>3. new[1].data # track_hash[h][k - 1].data
        BY <1>2, <1>3, <1>6, <3>1
      <3>4. \A l \in 2 .. Len(new) : new[l].data = track_hash[h][k - 1].data => l = k
        <4> SUFFICES ASSUME NEW l \in 2 .. Len(new),
                            new[l].data = track_hash[h][k - 1].data
                     PROVE  l = k
          OBVIOUS
        <4>1. l - 1 = k - 1
          BY <1>7, <3>2
        <4> QED
          BY <4>1
      <3> QED
        BY <1>3, <1>4, <2>3, <3>1, <3>2, <3>3, <3>4
    <2> QED
      BY <2>1, <2>2, <2>3
  <1>9. Tracked' = Tracked \cup {a}
    <2>1. ASSUME NEW c \in Addrs PROVE c \in Tracked' <=> c \in Tracked \/ c = a
      <3> DEFINE b == smartalloc_hash(c)
      <3>1. b \in Buckets
        BY HashInRange, AddressesAre
      <3>2. /\ c \in Tracked <=> \E k \in 1 .. Len(track_hash[b]) : track_hash[b][k].data = c
            /\ c \in Tracked' <=> \E k \in 1 .. Len(track_hash'[b]) : track_hash'[b][k].data = c
        BY <1>5, <3>1 DEF Tracked, Bucket, smartalloc_hash
      <3>3. c = a => b = h
        BY DEF h
      <3> HIDE DEF b
      <3>4. CASE b # h
        BY <1>4, <3>1, <3>2, <3>3, <3>4
      <3>5. CASE b = h
        <4>1. (\E k \in 1 .. Len(new) : new[k].data = c)
                <=> c = a \/ \E k \in 1 .. Len(track_hash[h]) : track_hash[h][k].data = c
          <5>1. ASSUME NEW k \in 1 .. Len(track_hash[h]), track_hash[h][k].data = c
                PROVE  \E l \in 1 .. Len(new) : new[l].data = c
            <6>1. k + 1 \in 2 .. Len(new) /\ new[k + 1] = track_hash[h][k]
              BY <1>1, <1>3, <1>5
            <6> QED
              BY <5>1, <6>1
          <5>2. ASSUME NEW k \in 2 .. Len(new), new[k].data = c
                PROVE  \E l \in 1 .. Len(track_hash[h]) : track_hash[h][l].data = c
            <6>1. k - 1 \in 1 .. Len(track_hash[h]) /\ new[k] = track_hash[h][k - 1]
              BY <1>1, <1>3, <1>5
            <6> QED
              BY <5>2, <6>1
          <5>3. 1 \in 1 .. Len(new) /\ new[1].data = a
            BY <1>1, <1>2, <1>3, <1>5
          <5>4. \A k \in 1 .. Len(new) : k = 1 \/ k \in 2 .. Len(new)
            BY <1>3
          <5> QED
            BY <5>1, <5>2, <5>3, <5>4
        <4> QED
          BY <1>4, <3>2, <3>5, <4>1
      <3> QED
        BY <3>4, <3>5
    <2>2. Tracked \subseteq Addrs /\ Tracked' \subseteq Addrs
      BY DEF Tracked
    <2> QED
      BY <2>1, <2>2
  <1> QED
    BY <1>4, <1>8, <1>9

(* The node of a block is cut out of its bucket.                           *)
LEMMA UnlinkTable ==
  ASSUME track_hash \in [Buckets -> Seq(Node)], NodesAreSound,
         NEW a \in Addrs, NEW i \in 1 .. Len(Bucket(a)), Bucket(a)[i].data = a,
         heap' = heap,
         track_hash' = [track_hash EXCEPT ![smartalloc_hash(a)] = RemoveAt(Bucket(a), i)]
  PROVE  /\ track_hash' \in [Buckets -> Seq(Node)]
         /\ NodesAreSound'
         /\ Tracked' = Tracked \ {a}
  <1> DEFINE h == smartalloc_hash(a)
  <1> DEFINE old == track_hash[h]
  <1> DEFINE new == RemoveAt(Bucket(a), i)
  <1>1. /\ h \in Buckets /\ Bucket(a) = old /\ smartalloc_hash(a) = h
        /\ old \in Seq(Node) /\ i \in 1 .. Len(old) /\ old[i].data = a
    BY HashInRange, AddressesAre DEF Bucket
  <1>2. /\ new \in Seq(Node) /\ Len(new) = Len(old) - 1
        /\ \A k \in 1 .. Len(old) - 1 : new[k] = IF k < i THEN old[k] ELSE old[k + 1]
    BY <1>1, RemoveAtIs
  <1>3. /\ track_hash' \in [Buckets -> Seq(Node)]
        /\ track_hash'[h] = new
        /\ \A b \in Buckets : b # h => track_hash'[b] = track_hash[b]
    BY <1>1, <1>2
  <1>4. \A b \in Buckets : /\ DOMAIN track_hash[b] = 1 .. Len(track_hash[b])
                           /\ DOMAIN track_hash'[b] = 1 .. Len(track_hash'[b])
    BY <1>3
  <1>5. \A k, l \in 1 .. Len(old) :
          /\ smartalloc_hash(old[k].data) = h /\ old[k].data \in heap
          /\ old[l].data = old[k].data => l = k
    BY <1>1, <1>4 DEF NodesAreSound
  <1> HIDE DEF h, new
  <1> DEFINE was(k) == IF k < i THEN k ELSE k + 1
  <1>6. /\ \A k \in 1 .. Len(new) :
             was(k) \in 1 .. Len(old) /\ was(k) # i /\ new[k] = old[was(k)]
        /\ \A k, l \in 1 .. Len(new) : was(k) = was(l) => k = l
        /\ \A l \in 1 .. Len(old) : l = i \/ \E k \in 1 .. Len(new) : was(k) = l
    <2>1. Len(old) \in Nat /\ Len(new) = Len(old) - 1 /\ i \in 1 .. Len(old)
      BY <1>1, <1>2
    <2>2. \A k \in 1 .. Len(new) : new[k] = old[was(k)]
      BY <1>2
    <2> HIDE DEF old
    <2>3. \A k \in 1 .. Len(new) : was(k) \in 1 .. Len(old) /\ was(k) # i
      BY <2>1
    <2>4. \A k, l \in 1 .. Len(new) : was(k) = was(l) => k = l
      BY <2>1
    <2>5. ASSUME NEW l \in 1 .. Len(old), l # i
          PROVE  \E k \in 1 .. Len(new) : was(k) = l
      <3>1. CASE l < i
        <4>1. l \in 1 .. Len(new) /\ was(l) = l
          BY <2>1, <3>1
        <4> QED
          BY <4>1
      <3>2. CASE l > i
        <4>1. l - 1 \in 1 .. Len(new) /\ was(l - 1) = l
          BY <2>1, <3>2
        <4> QED
          BY <4>1
      <3> QED
        BY <2>1, <2>5, <3>1, <3>2
    <2> QED
      BY <2>2, <2>3, <2>4, <2>5
  <1> HIDE DEF old, was
  <1>7. NodesAreSound'
    <2> SUFFICES ASSUME NEW b \in Buckets, NEW k \in 1 .. Len(track_hash'[b])
                 PROVE  /\ smartalloc_hash(track_hash'[b][k].data) = b
                        /\ track_hash'[b][k].data \in heap
                        /\ \A l \in 1 .. Len(track_hash'[b]) :
                             track_hash'[b][l].data = track_hash'[b][k].data => l = k
      BY <1>4 DEF NodesAreSound, smartalloc_hash
    <2>1. CASE b # h
      BY <1>3, <1>4, <2>1 DEF NodesAreSound
    <2>2. CASE b = h
      <3>1. k \in 1 .. Len(new) /\ was(k) \in 1 .. Len(old) /\ new[k] = old[was(k)]
        BY <1>3, <1>6, <2>2
      <3>2. ASSUME NEW l \in 1 .. Len(new), new[l].data = new[k].data PROVE l = k
        <4>1. was(l) \in 1 .. Len(old) /\ new[l] = old[was(l)]
          BY <1>6
        <4>2. was(l) = was(k)
          BY <1>5, <3>1, <3>2, <4>1
        <4> QED
          BY <1>6, <3>1, <4>2
      <3> QED
        BY <1>3, <1>5, <2>2, <3>1, <3>2
    <2> QED
      BY <2>1, <2>2
  <1>8. ASSUME NEW c \in Addrs PROVE c \in Tracked' <=> c \in Tracked /\ c # a
    <2> DEFINE b == smartalloc_hash(c)
    <2>1. b \in Buckets
      BY HashInRange, AddressesAre
    <2>2. /\ c \in Tracked <=> \E k \in 1 .. Len(track_hash[b]) : track_hash[b][k].data = c
          /\ c \in Tracked' <=> \E k \in 1 .. Len(track_hash'[b]) : track_hash'[b][k].data = c
      BY <1>4, <2>1 DEF Tracked, Bucket, smartalloc_hash
    <2>3. c = a => b = h
      BY <1>1
    <2> HIDE DEF b
    <2>4. CASE b # h
      BY <1>3, <2>1, <2>2, <2>3, <2>4
    <2>5. CASE b = h
      <3>1. c \in Tracked <=> \E k \in 1 .. Len(old) : old[k].data = c
        BY <2>2, <2>5 DEF old
      <3>2. c \in Tracked' <=> \E k \in 1 .. Len(new) : new[k].data = c
        BY <1>3, <2>2, <2>5
      <3>3. ASSUME NEW k \in 1 .. Len(new), new[k].data = c
            PROVE  c # a /\ \E l \in 1 .. Len(old) : old[l].data = c
        BY <1>1, <1>5, <1>6, <3>3
      <3>4. ASSUME NEW l \in 1 .. Len(old), old[l].data = c, c # a
            PROVE  \E k \in 1 .. Len(new) : new[k].data = c
        <4>1. l # i
          BY <1>1, <3>4
        <4>2. PICK k \in 1 .. Len(new) : was(k) = l
          BY <1>6, <4>1
        <4>3. new[k].data = c
          BY <1>6, <3>4, <4>2
        <4> QED
          BY <4>3
      <3> QED
        BY <3>1, <3>2, <3>3, <3>4
    <2> QED
      BY <2>4, <2>5
  <1>9. Tracked \subseteq Addrs /\ Tracked' \subseteq Addrs
    BY DEF Tracked
  <1> QED
    BY <1>3, <1>7, <1>8, <1>9

LEMMA SameTable ==
  ASSUME track_hash' = track_hash
  PROVE  Tracked' = Tracked /\ \A a : Bucket(a)' = Bucket(a)
  BY DEF Tracked, Bucket, smartalloc_hash

LEMMA TrackedInHeap ==
  ASSUME TypeOK, NodesAreSound
  PROVE  Tracked \subseteq heap
  <1> SUFFICES ASSUME NEW a \in Tracked PROVE a \in heap
    OBVIOUS
  <1>1. a \in Addrs /\ \E k \in DOMAIN Bucket(a) : Bucket(a)[k].data = a
    BY DEF Tracked
  <1>2. smartalloc_hash(a) \in Buckets
    BY <1>1, HashInRange, AddressesAre
  <1> QED
    BY <1>1, <1>2 DEF NodesAreSound, Bucket

---------------------------------------------------------------------------
(* What a step of one thread leaves to the others *)

LEMMA OthersKept ==
  ASSUME NEW u \in Threads, ThreadInv(u),
         pc'[u] = pc[u], call'[u] = call[u], seen'[u] = seen[u],
         Held(u) \subseteq heap', Held(u) \cap live' = {},
         Held(u) \cap Tracked' = Held(u) \cap Tracked,
         pc[u] \in {"link", "unlink"} =>
           mutt' = mutt /\ track_hash' = track_hash /\ allocated' = allocated
  PROVE  ThreadInv(u)' /\ Held(u)' = Held(u)
  <1>1. New(u)' = New(u) /\ Old(u)' = Old(u) /\ Held(u)' = Held(u)
    BY DEF New, Old, Held
  <1>2. CallTyped(u)'
    BY DEF CallTyped, ThreadInv
  <1>3. Locked(u)'
    BY SameTable DEF Locked, ThreadInv
  <1>4. Owns(u)'
    <2>1. /\ New(u) \cap Tracked' = New(u) \cap Tracked
          /\ Old(u) \cap Tracked' = Old(u) \cap Tracked
      BY DEF Held
    <2>2. /\ New(u) \cap Old(u) = {}
          /\ IF pc[u] = "release" THEN New(u) \subseteq Tracked ELSE New(u) \cap Tracked = {}
          /\ IF pc[u] \in Removing THEN Old(u) \subseteq Tracked ELSE Old(u) \cap Tracked = {}
      BY DEF ThreadInv, Owns
    <2>3. /\ New(u) \subseteq Tracked => New(u) \subseteq Tracked'
          /\ Old(u) \subseteq Tracked => Old(u) \subseteq Tracked'
      BY <2>1
    <2> HIDE DEF New, Old, Held
    <2> QED
      BY <1>1, <2>1, <2>2, <2>3 DEF Owns, Removing
  <1> QED
    BY <1>1, <1>2, <1>3, <1>4 DEF ThreadInv

(* The invariant after a step of thread t, from what t did to the blocks   *)
(* of the others and what it is left with.                                 *)
LEMMA Assembled ==
  ASSUME IInv, NEW t \in Threads, TypeOK', inited',
         \A u \in Threads \ {t} :
           /\ pc'[u] = pc[u] /\ call'[u] = call[u] /\ seen'[u] = seen[u]
           /\ Held(u) \subseteq heap' /\ Held(u) \cap live' = {}
           /\ Held(u) \cap Tracked' = Held(u) \cap Tracked
           /\ pc[u] \in {"link", "unlink"} =>
                mutt' = mutt /\ track_hash' = track_hash /\ allocated' = allocated
           /\ Held(t)' \cap Held(u) = {},
         IsFiniteSet(heap'), heap' \ (live' \cup Held(t)') \subseteq heap \ (live \cup Held(t)),
         ThreadInv(t)', NodesAreSound', LiveIsTracked', ReportsAreTrue'
  PROVE  IInv'
  <1>1. \A u \in Threads \ {t} : ThreadInv(u)' /\ Held(u)' = Held(u)
    BY OthersKept DEF IInv
  <1>2. \A u \in Threads : ThreadInv(u)'
    BY <1>1
  <1>3. Apart'
    <2> SUFFICES ASSUME NEW u \in Threads, NEW v \in Threads, u # v
                 PROVE  Held(u)' \cap Held(v)' = {}
      BY DEF Apart
    <2>1. CASE u = t
      BY <1>1, <2>1
    <2>2. CASE v = t
      BY <1>1, <2>2
    <2>3. CASE u # t /\ v # t
      BY <1>1, <2>3 DEF IInv, Apart
    <2> QED
      BY <2>1, <2>2, <2>3
  <1>4. NoneLost'
    <2> SUFFICES ASSUME NEW a \in heap', a \notin live'
                 PROVE  \E u \in Threads : a \in Held(u)'
      BY DEF NoneLost
    <2>1. CASE a \in Held(t)'
      BY <2>1
    <2>2. CASE a \notin Held(t)'
      <3>1. a \in heap /\ a \notin live /\ a \notin Held(t)
        BY <2>2
      <3>2. PICK u \in Threads : a \in Held(u)
        BY <3>1 DEF IInv, NoneLost
      <3>3. u # t
        BY <3>1, <3>2
      <3> QED
        BY <1>1, <3>2, <3>3
    <2> QED
      BY <2>1, <2>2
  <1> QED
    BY <1>2, <1>3, <1>4 DEF IInv

(* The same for a step that moves no block.                                *)
LEMMA Quiet ==
  ASSUME IInv, NEW t \in Threads, TypeOK',
         UNCHANGED <<heap, track_hash, allocated, live, inited>>,
         \A u \in Threads \ {t} :
           /\ pc'[u] = pc[u] /\ call'[u] = call[u] /\ seen'[u] = seen[u]
           /\ pc[u] \in {"link", "unlink"} => mutt' = mutt,
         ThreadInv(t)', Held(t)' = Held(t), ReportsAreTrue'
  PROVE  IInv'
  <1>1. Tracked' = Tracked
    BY SameTable
  <1>2. NodesAreSound' /\ LiveIsTracked'
    BY <1>1 DEF IInv, NodesAreSound, LiveIsTracked, smartalloc_hash
  <1>3. \A u \in Threads \ {t} :
          Held(u) \subseteq heap /\ Held(u) \cap live = {} /\ Held(t) \cap Held(u) = {}
    BY DEF IInv, ThreadInv, Owns, Apart
  <1>4. IsFiniteSet(heap') /\ inited'
    BY DEF IInv
  <1> HIDE DEF IInv
  <1> QED
    BY <1>1, <1>2, <1>3, <1>4, Assembled

LEMMA InitInv == FirstCallDone /\ Init => IInv
  <1> SUFFICES ASSUME FirstCallDone, Init PROVE IInv
    OBVIOUS
  <1>1. \A b \in Buckets : track_hash[b] = << >>
    BY DEF Init
  <1>2. Tracked = {}
    <2>1. \A a \in Addrs : Bucket(a) = << >>
      BY <1>1, HashInRange, AddressesAre DEF Bucket
    <2>2. \A k : k \notin DOMAIN << >>
      OBVIOUS
    <2> QED
      BY <2>1, <2>2 DEF Tracked
  <1>3. TypeOK
    BY AllocatorOK DEF Init, TypeOK, NoCall
  <1>4. \A t \in Threads : pc[t] = "idle"
    BY DEF Init
  <1>5. \A t \in Threads : New(t) = {} /\ Old(t) = {}
    BY <1>4 DEF New, Old, Adding, Removing
  <1>6. \A t \in Threads : ThreadInv(t)
    BY <1>4, <1>5 DEF ThreadInv, CallTyped, Locked, Owns, Held, Adding, Removing
  <1>7. Apart /\ NodesAreSound /\ LiveIsTracked /\ ReportsAreTrue
    BY <1>1, <1>5 DEF Init, Apart, Held, NodesAreSound, LiveIsTracked, ReportsAreTrue
  <1>8. NoneLost /\ IsFiniteSet(heap)
    BY FS_EmptySet DEF Init, NoneLost
  <1> QED
    BY <1>3, <1>6, <1>7, <1>8 DEF IInv, Init

---------------------------------------------------------------------------
(* One lemma per step *)

(* The type of the calls, as TypeOK has it.                                *)
Calls == [op : {"none", "alloc", "free", "realloc"},
          ptr : Addrs \cup Strays \cup {NULL}, blk : Addrs \cup {NULL},
          bytes : Sizes \cup {0}, good : BOOLEAN]

LEMMA CallsBegun ==
  ASSUME TypeOK, NEW p \in live \cup Strays
  PROVE  /\ [NoCall EXCEPT !.op = "free", !.ptr = p, !.good = (p \in live)] \in Calls
         /\ \A n \in Sizes : [NoCall EXCEPT !.op = "realloc", !.ptr = p, !.bytes = n,
                                            !.good = (p \in live)] \in Calls
  <1> DEFINE good == p \in live
  <1>1. good \in BOOLEAN
    OBVIOUS
  <1> HIDE DEF good
  <1>2. p \in Addrs \cup Strays
    BY DEF TypeOK
  <1>3. /\ [NoCall EXCEPT !.op = "free", !.ptr = p, !.good = good] \in Calls
        /\ \A n \in Sizes : [NoCall EXCEPT !.op = "realloc", !.ptr = p, !.bytes = n,
                                           !.good = good] \in Calls
    BY <1>1, <1>2 DEF Calls, NoCall
  <1> QED
    BY <1>3 DEF good

LEMMA BlockSet ==
  ASSUME NEW c \in Calls, NEW a \in Addrs
  PROVE  [c EXCEPT !.blk = a] \in Calls
  BY DEF Calls

(* The calls may begin whenever a thread is in none.                       *)
LEMMA AllocStarts ==
  ASSUME IInv, NEW t \in Threads, NEW n \in Sizes, StartAlloc(t, n), left' \in Nat
  PROVE  IInv'
  <1> USE DEF StartAlloc, table, NoCall
  <1>1. /\ pc'[t] = "malloc" /\ call'[t].op = "alloc" /\ call'[t].bytes = n
        /\ \A u \in Threads \ {t} : pc'[u] = pc[u] /\ call'[u] = call[u]
    BY DEF IInv, TypeOK
  <1>2. TypeOK'
    BY DEF IInv, TypeOK
  <1>3. New(t)' = {} /\ Old(t)' = {} /\ Held(t)' = {} /\ Held(t) = {}
    BY <1>1 DEF New, Old, Held, Adding, Removing
  <1>4. ThreadInv(t)'
    BY <1>1, <1>3 DEF ThreadInv, CallTyped, Locked, Owns, Adding, Removing
  <1>5. ReportsAreTrue'
    BY DEF IInv, ReportsAreTrue
  <1> QED
    BY <1>1, <1>2, <1>3, <1>4, <1>5, Quiet

(* What the beginnings of a free and of a reallocation have in common.     *)
LEMMA GivesBack ==
  ASSUME IInv, NEW t \in Threads, NEW p \in live \cup Strays,
         pc[t] = "idle", pc' = [pc EXCEPT ![t] = "test"],
         \A u \in Threads \ {t} : call'[u] = call[u],
         call'[t].ptr = p, call'[t].good = (p \in live),
         call'[t].op \in {"free", "realloc"},
         call'[t].op = "realloc" => call'[t].bytes \in Sizes,
         live' = live \ {p},
         UNCHANGED <<table, seen, reported>>, TypeOK'
  PROVE  IInv'
  <1> USE DEF table
  <1>1. pc'[t] = "test" /\ \A u \in Threads \ {t} : pc'[u] = pc[u]
    BY DEF IInv, TypeOK
  <1>2. Tracked' = Tracked /\ live \subseteq Tracked /\ Tracked \subseteq heap
    BY SameTable, TrackedInHeap DEF IInv, LiveIsTracked
  <1>3. New(t)' = {} /\ Old(t)' = {p} \cap live
    BY <1>1 DEF New, Old, Adding, Removing
  <1>4. Held(t)' = {p} \cap live /\ Held(t) = {}
    BY <1>3 DEF Held, New, Old, Adding, Removing
  <1>5. Owns(t)'
    BY <1>1, <1>2, <1>3, <1>4 DEF Owns, Removing
  <1>6. CallTyped(t)' /\ Locked(t)'
    BY <1>1 DEF CallTyped, Locked, Adding, Removing
  <1>7. ASSUME NEW u \in Threads \ {t}
        PROVE  /\ Held(u) \subseteq heap' /\ Held(u) \cap live' = {}
               /\ Held(u) \cap Tracked' = Held(u) \cap Tracked
               /\ Held(t)' \cap Held(u) = {}
    BY <1>2, <1>4 DEF IInv, ThreadInv, Owns
  <1>8. NodesAreSound' /\ LiveIsTracked' /\ ReportsAreTrue' /\ inited' /\ IsFiniteSet(heap')
    BY <1>2 DEF IInv, NodesAreSound, LiveIsTracked, ReportsAreTrue, smartalloc_hash
  <1>9. heap' \ (live' \cup Held(t)') \subseteq heap \ (live \cup Held(t))
    BY <1>4
  <1> HIDE DEF IInv
  <1> QED
    BY <1>1, <1>5, <1>6, <1>7, <1>8, <1>9, Assembled DEF ThreadInv

LEMMA FreeStarts ==
  ASSUME IInv, NEW t \in Threads, NEW p \in live \cup Strays, StartFree(t, p), left' \in Nat
  PROVE  IInv'
  <1> USE DEF StartFree, table, NoCall
  <1>1. /\ call'[t].ptr = p /\ call'[t].good = (p \in live) /\ call'[t].op = "free"
        /\ \A u \in Threads \ {t} : call'[u] = call[u]
    BY DEF IInv, TypeOK
  <1>2. TypeOK'
    <2> DEFINE new == [NoCall EXCEPT !.op = "free", !.ptr = p, !.good = (p \in live)]
    <2>1. new \in Calls /\ call' = [call EXCEPT ![t] = new] /\ call \in [Threads -> Calls]
      BY CallsBegun DEF IInv, TypeOK, Calls
    <2> HIDE DEF new
    <2>2. call' \in [Threads -> Calls]
      BY <2>1
    <2> QED
      BY <2>2 DEF IInv, TypeOK, Calls
  <1> QED
    BY <1>1, <1>2, GivesBack

LEMMA ReallocStarts ==
  ASSUME IInv, NEW t \in Threads, NEW p \in live \cup Strays, NEW n \in Sizes,
         StartRealloc(t, p, n), left' \in Nat
  PROVE  IInv'
  <1> USE DEF StartRealloc, table, NoCall
  <1>1. /\ call'[t].ptr = p /\ call'[t].good = (p \in live) /\ call'[t].op = "realloc"
        /\ call'[t].bytes = n
        /\ \A u \in Threads \ {t} : call'[u] = call[u]
    BY DEF IInv, TypeOK
  <1>2. TypeOK'
    <2> DEFINE new == [NoCall EXCEPT !.op = "realloc", !.ptr = p, !.bytes = n,
                                !.good = (p \in live)]
    <2>1. new \in Calls /\ call' = [call EXCEPT ![t] = new] /\ call \in [Threads -> Calls]
      BY CallsBegun DEF IInv, TypeOK, Calls
    <2> HIDE DEF new
    <2>2. call' \in [Threads -> Calls]
      BY <2>1
    <2> QED
      BY <2>2 DEF IInv, TypeOK, Calls
  <1> QED
    BY <1>1, <1>2, GivesBack

(* A block from libc is nobody's yet.                                      *)
LEMMA MallocKeeps ==
  ASSUME IInv, NEW t \in Threads, Malloc(t), left' = left
  PROVE  IInv'
  <1> USE DEF Malloc, Goto
  <1>1. PICK a \in Addrs \ heap :
          heap' = heap \cup {a} /\ call' = [call EXCEPT ![t].blk = a]
    OBVIOUS
  <1>2. /\ pc[t] = "malloc" /\ pc'[t] = "init"
        /\ \A u \in Threads \ {t} : pc'[u] = pc[u] /\ call'[u] = call[u]
        /\ call'[t].op = call[t].op /\ call'[t].bytes = call[t].bytes
        /\ call'[t].ptr = call[t].ptr /\ call'[t].blk = a
    BY <1>1 DEF IInv, TypeOK
  <1>3. TypeOK'
    <2>1. call \in [Threads -> Calls]
      BY DEF IInv, TypeOK, Calls
    <2>2. call' = [call EXCEPT ![t] = [call[t] EXCEPT !.blk = a]]
      BY <1>1, <2>1
    <2>3. call' \in [Threads -> Calls]
      BY <2>1, <2>2, BlockSet
    <2> QED
      BY <1>1, <2>3 DEF IInv, TypeOK, Calls
  <1>4. Tracked' = Tracked /\ live \subseteq Tracked /\ Tracked \subseteq heap
    BY SameTable, TrackedInHeap DEF IInv, LiveIsTracked
  <1>5. New(t)' = {a} /\ Old(t)' = Old(t) /\ New(t) = {}
    BY <1>2 DEF New, Old, Adding, Removing
  <1>6. Held(t)' = Held(t) \cup {a} /\ Held(t) = Old(t)
    BY <1>5 DEF Held
  <1>7. \A u \in Threads :
          /\ Held(u) \subseteq heap /\ Held(u) \cap live = {}
          /\ u # t => Held(t) \cap Held(u) = {}
    BY DEF IInv, ThreadInv, Owns, Apart
  <1>8. CallTyped(t)' /\ Locked(t)'
    BY <1>2 DEF IInv, ThreadInv, CallTyped, Locked, Adding, Removing
  <1>9. Owns(t)'
    BY <1>1, <1>2, <1>4, <1>5, <1>6, <1>7 DEF IInv, ThreadInv, Owns, Removing
  <1>10. NodesAreSound' /\ LiveIsTracked' /\ ReportsAreTrue' /\ inited'
    BY <1>1, <1>4 DEF IInv, NodesAreSound, LiveIsTracked, ReportsAreTrue, smartalloc_hash
  <1>11. IsFiniteSet(heap')
    BY <1>1, FS_AddElement DEF IInv
  <1>12. heap' \ (live' \cup Held(t)') \subseteq heap \ (live \cup Held(t))
    BY <1>1, <1>6
  <1>13. ASSUME NEW u \in Threads \ {t}
         PROVE  /\ pc'[u] = pc[u] /\ call'[u] = call[u] /\ seen'[u] = seen[u]
                /\ Held(u) \subseteq heap' /\ Held(u) \cap live' = {}
                /\ Held(u) \cap Tracked' = Held(u) \cap Tracked
                /\ mutt' = mutt /\ track_hash' = track_hash /\ allocated' = allocated
                /\ Held(t)' \cap Held(u) = {}
    BY <1>1, <1>2, <1>4, <1>6, <1>7
  <1> HIDE DEF IInv, Malloc
  <1> QED
    BY <1>3, <1>8, <1>9, <1>10, <1>11, <1>12, <1>13, Assembled DEF ThreadInv

LEMMA MallocFailsKeeps ==
  ASSUME IInv, NEW t \in Threads, MallocFails(t), left' = left
  PROVE  IInv'
  <1> USE DEF MallocFails
  <1>1. TypeOK' /\ ReportsAreTrue'
    BY DEF IInv, TypeOK, ReportsAreTrue
  <1>2. Tracked' = Tracked /\ New(t)' = New(t) /\ Old(t)' = Old(t) /\ Held(t)' = Held(t)
    BY SameTable DEF New, Old, Held
  <1>3. ThreadInv(t)'
    BY <1>2, SameTable DEF IInv, ThreadInv, CallTyped, Locked, Owns
  <1> QED
    BY <1>1, <1>2, <1>3, Quiet

LEMMA TestInitedKeeps ==
  ASSUME IInv, NEW t \in Threads, TestInited(t), left' = left
  PROVE  IInv'
  <1> USE DEF TestInited, Goto, table
  <1>1. /\ pc[t] = "init" /\ pc'[t] = "enter"
        /\ \A u \in Threads \ {t} : pc'[u] = pc[u]
    BY DEF IInv, TypeOK
  <1>2. TypeOK' /\ ReportsAreTrue'
    BY DEF IInv, TypeOK, ReportsAreTrue
  <1>3. Tracked' = Tracked /\ New(t)' = New(t) /\ Old(t)' = Old(t) /\ Held(t)' = Held(t)
    BY <1>1, SameTable DEF New, Old, Held, Adding, Removing
  <1>4. ThreadInv(t)'
    BY <1>1, <1>3 DEF IInv, ThreadInv, CallTyped, Locked, Owns, Adding, Removing
  <1> QED
    BY <1>1, <1>2, <1>3, <1>4, Quiet

(* A thread that holds the mutex, or finds it free, is alone.              *)
LEMMA Alone ==
  ASSUME IInv, NEW t \in Threads, mutt \in {t, Nobody}
  PROVE  \A u \in Threads \ {t} : pc[u] \notin {"link", "unlink"}
  <1>1. \A u \in Threads : pc[u] \in {"link", "unlink"} => mutt = u
    BY DEF IInv, ThreadInv, Locked
  <1> QED
    BY <1>1, AllocatorOK

(* A block that is not tracked is in no node of its bucket, and a stray    *)
(* pointer in none at all.                                                 *)
LEMMA NotThere ==
  ASSUME TypeOK, NEW a \in Addrs \cup Strays,
         \E k \in 1 .. Len(Bucket(a)) : Bucket(a)[k].data = a
  PROVE  a \in Tracked /\ a \notin Strays
  <1>1. a \in Nat
    BY AddressesAre
  <1>2. Bucket(a) \in Seq(Node) /\ DOMAIN Bucket(a) = 1 .. Len(Bucket(a))
    BY <1>1, BucketTyped DEF TypeOK
  <1>3. PICK k \in 1 .. Len(Bucket(a)) : Bucket(a)[k].data = a
    OBVIOUS
  <1>4. a \in Addrs
    <2>1. Bucket(a)[k] \in Node
      BY <1>2, <1>3
    <2> QED
      BY <1>3, <2>1 DEF Node
  <1> QED
    BY <1>2, <1>3, <1>4, AddressesAre DEF Tracked

LEMMA LockToAddKeeps ==
  ASSUME IInv, NEW t \in Threads, LockToAdd(t), left' = left
  PROVE  IInv'
  <1> USE DEF LockToAdd, Goto
  <1>1. /\ pc[t] = "enter" /\ pc'[t] = "link" /\ mutt' = t
        /\ seen'[t] = [chain |-> Bucket(call[t].blk), sum |-> allocated]
        /\ \A u \in Threads \ {t} : pc'[u] = pc[u] /\ seen'[u] = seen[u]
    BY DEF IInv, TypeOK
  <1>2. Bucket(call[t].blk) \in Seq(Node)
    <2>1. call[t].blk \in Addrs
      BY <1>1 DEF IInv, ThreadInv, CallTyped, Adding
    <2>2. track_hash \in [Buckets -> Seq(Node)]
      BY DEF IInv, TypeOK
    <2> QED
      BY <2>1, <2>2, AddressesAre, BucketTyped
  <1>3. TypeOK'
    BY <1>1, <1>2 DEF IInv, TypeOK
  <1>4. Tracked' = Tracked /\ New(t)' = New(t) /\ Old(t)' = Old(t) /\ Held(t)' = Held(t)
    BY <1>1, SameTable DEF New, Old, Held, Adding, Removing
  <1>5. Bucket(call[t].blk)' = Bucket(call[t].blk)
    BY SameTable
  <1>6. Locked(t)'
    BY <1>1, <1>5 DEF Locked
  <1>7. CallTyped(t)' /\ Owns(t)'
    BY <1>1, <1>4 DEF IInv, ThreadInv, CallTyped, Owns, Adding, Removing
  <1>8. \A u \in Threads \ {t} : pc[u] \notin {"link", "unlink"}
    BY Alone
  <1>9. ReportsAreTrue'
    BY DEF IInv, ReportsAreTrue
  <1> HIDE DEF IInv
  <1> QED
    BY <1>1, <1>3, <1>4, <1>6, <1>7, <1>8, <1>9, Quiet DEF ThreadInv

(* What is known where a critical section that adds is left.               *)
LEMMA AtLink ==
  ASSUME IInv, NEW t \in Threads, pc[t] = "link"
  PROVE  /\ call[t].blk \in Addrs /\ call[t].bytes \in Sizes /\ mutt = t
         /\ call[t].op \in {"alloc", "realloc"}
         /\ seen[t].chain = Bucket(call[t].blk) /\ seen[t].sum = allocated
         /\ call[t].blk \in heap /\ call[t].blk \notin Tracked
  <1>1. CallTyped(t) /\ Locked(t) /\ Owns(t)
    BY DEF IInv, ThreadInv
  <1>2. mutt = t /\ seen[t] = [chain |-> Bucket(call[t].blk), sum |-> allocated]
    BY <1>1 DEF Locked
  <1>3. New(t) = {call[t].blk}
    BY DEF New, Adding
  <1> QED
    BY <1>1, <1>2, <1>3 DEF CallTyped, Owns, Held, Adding

(* The block comes into the table, and to its caller unless an old one is  *)
(* still to be released.                                                   *)
LEMMA LinkKeeps ==
  ASSUME IInv, NEW t \in Threads, Link(t), left' = left
  PROVE  IInv'
  <1> DEFINE a == call[t].blk
  <1> DEFINE n == call[t].bytes
  <1>1. /\ pc[t] = "link" /\ a \in Addrs /\ n \in Sizes /\ mutt = t
        /\ call[t].op \in {"alloc", "realloc"}
        /\ seen[t].chain = Bucket(a) /\ seen[t].sum = allocated
    <2>1. pc[t] = "link"
      BY DEF Link
    <2> QED
      BY <2>1, AtLink
  <1>2. /\ New(t) = {a} /\ Old(t) = IF call[t].op = "realloc" THEN {call[t].ptr} ELSE {}
        /\ Held(t) = New(t) \cup Old(t)
    BY <1>1 DEF New, Old, Held, Adding, Removing
  <1>3. /\ a \in heap /\ a \notin live /\ a \notin Tracked
        /\ Old(t) \cap Tracked = {} /\ a \notin Old(t)
        /\ Old(t) \subseteq heap /\ Old(t) \cap live = {}
    BY <1>1, <1>2 DEF IInv, ThreadInv, Owns, Removing
  <1>4. track_hash' = [track_hash EXCEPT ![smartalloc_hash(a)] =
                         <<[data |-> a, space |-> n]>> \o Bucket(a)]
    BY <1>1 DEF Link
  <1>5. /\ UNCHANGED <<heap, inited, fate, call, seen, reported>>
        /\ allocated' = allocated + n /\ mutt' = Nobody
        /\ \/ call[t].op = "realloc" /\ pc' = [pc EXCEPT ![t] = "release"] /\ live' = live
           \/ call[t].op = "alloc" /\ pc' = [pc EXCEPT ![t] = "idle"] /\ live' = live \cup {a}
    BY <1>1 DEF Link, Goto
  <1> HIDE DEF a, n
  <1>6. /\ track_hash' \in [Buckets -> Seq(Node)] /\ NodesAreSound'
        /\ Tracked' = Tracked \cup {a}
    <2>1. track_hash \in [Buckets -> Seq(Node)] /\ NodesAreSound
      BY DEF IInv, TypeOK
    <2> QED
      BY <1>1, <1>3, <1>4, <1>5, <2>1, LinkTable
  <1>7. \A u \in Threads \ {t} : pc'[u] = pc[u] /\ call'[u] = call[u] /\ seen'[u] = seen[u]
    BY <1>5 DEF IInv, TypeOK
  <1>8. pc'[t] = IF call[t].op = "realloc" THEN "release" ELSE "idle"
    BY <1>1, <1>5 DEF IInv, TypeOK
  <1>9. TypeOK'
    <2>1. allocated' \in Int /\ live' \subseteq Addrs
      <3>1. allocated \in Int /\ live \subseteq Addrs
        BY DEF IInv, TypeOK
      <3>2. n \in Nat
        BY <1>1, AllocatorOK
      <3> QED
        BY <1>1, <1>5, <3>1, <3>2
    <2>2. pc' \in [Threads -> {"idle", "malloc", "init", "wipe", "enter", "link",
                               "test", "remove", "unlink", "release"}]
      BY <1>5 DEF IInv, TypeOK
    <2> QED
      BY <1>5, <1>6, <2>1, <2>2 DEF IInv, TypeOK
  <1>10. /\ New(t)' = IF call[t].op = "realloc" THEN {a} ELSE {}
         /\ Old(t)' = Old(t)
    BY <1>1, <1>2, <1>5, <1>8 DEF New, Old, Adding, Removing, a
  <1>11. Held(t)' \subseteq Held(t) /\ Held(t)' = New(t)' \cup Old(t)'
    BY <1>2, <1>10 DEF Held
  <1>12. CallTyped(t)' /\ Locked(t)'
    BY <1>1, <1>5, <1>8 DEF CallTyped, Locked, Adding, Removing
  <1>13. Owns(t)'
    <2>1. /\ New(t)' \cap Old(t)' = {} /\ Held(t)' \subseteq heap'
          /\ Held(t)' \cap live' = {}
          /\ call[t].op = "realloc" => New(t)' \subseteq Tracked'
          /\ call[t].op # "realloc" => New(t)' \cap Tracked' = {}
          /\ Old(t)' \cap Tracked' = {}
      BY <1>1, <1>2, <1>3, <1>5, <1>6, <1>10, <1>11
    <2> QED
      BY <1>8, <2>1 DEF Owns, Removing
  <1>14. ASSUME NEW u \in Threads \ {t}
         PROVE  /\ Held(u) \subseteq heap' /\ Held(u) \cap live' = {}
                /\ Held(u) \cap Tracked' = Held(u) \cap Tracked
                /\ pc[u] \notin {"link", "unlink"}
                /\ Held(t)' \cap Held(u) = {}
    <2>1. Held(u) \subseteq heap /\ Held(u) \cap live = {} /\ Held(t) \cap Held(u) = {}
      BY DEF IInv, ThreadInv, Owns, Apart
    <2>2. a \notin Held(u)
      BY <1>2, <2>1
    <2>3. pc[u] \notin {"link", "unlink"}
      BY <1>1, Alone
    <2> QED
      BY <1>5, <1>6, <1>11, <2>1, <2>2, <2>3
  <1>15. LiveIsTracked' /\ ReportsAreTrue' /\ inited' /\ IsFiniteSet(heap')
    BY <1>5, <1>6 DEF IInv, LiveIsTracked, ReportsAreTrue
  <1>16. heap' \ (live' \cup Held(t)') \subseteq heap \ (live \cup Held(t))
    BY <1>1, <1>2, <1>5, <1>10, <1>11
  <1> HIDE DEF IInv
  <1> QED
    BY <1>6, <1>7, <1>9, <1>12, <1>13, <1>14, <1>15, <1>16, Assembled DEF ThreadInv

(* The bucket of a live block is never found empty.                        *)
LEMMA EmptyBucketIsRight ==
  ASSUME IInv, NEW t \in Threads, pc[t] \in Removing, call[t].good
  PROVE  /\ call[t].ptr \in Addrs
         /\ \E k \in 1 .. Len(Bucket(call[t].ptr)) :
              Bucket(call[t].ptr)[k].data = call[t].ptr
  <1>1. Old(t) = {call[t].ptr} /\ Old(t) \subseteq Tracked
    BY DEF IInv, ThreadInv, Owns, Old
  <1>2. call[t].ptr \in Addrs
    BY <1>1 DEF Tracked
  <1>3. DOMAIN Bucket(call[t].ptr) = 1 .. Len(Bucket(call[t].ptr))
    BY <1>2, AddressesAre, BucketTyped DEF IInv, TypeOK
  <1> QED
    BY <1>1, <1>2, <1>3 DEF Tracked

LEMMA TestBucketKeeps ==
  ASSUME IInv, NEW t \in Threads, TestBucket(t), left' = left
  PROVE  IInv'
  <1> USE DEF TestBucket, Goto, Report, table
  <1>1. pc[t] = "test" /\ \A u \in Threads \ {t} : pc'[u] = pc[u]
    BY DEF IInv, TypeOK
  <1>2. TypeOK'
    <2>1. (~ call[t].good) \in BOOLEAN /\ reported \subseteq BOOLEAN
      BY DEF IInv, TypeOK
    <2>2. reported' \subseteq BOOLEAN
      <3>1. reported' \subseteq reported \cup {~ call[t].good}
        OBVIOUS
      <3> QED
        BY <2>1, <3>1
    <2> QED
      BY <2>2 DEF IInv, TypeOK
  <1>3. Tracked' = Tracked
    BY SameTable
  <1>4. CASE Bucket(call[t].ptr) = << >>
    <2>1. ~ call[t].good
      BY <1>1, <1>4, EmptyBucketIsRight DEF Removing
    <2>2. pc'[t] = "idle" /\ reported' = reported \cup {~ call[t].good}
      BY <1>4 DEF IInv, TypeOK
    <2>3. New(t)' = {} /\ Old(t)' = {} /\ Held(t)' = {} /\ Held(t) = {}
      BY <1>1, <2>1, <2>2 DEF New, Old, Held, Adding, Removing
    <2>4. ThreadInv(t)'
      BY <2>2, <2>3 DEF ThreadInv, CallTyped, Locked, Owns, Adding, Removing
    <2>5. ReportsAreTrue'
      BY <2>1, <2>2 DEF IInv, ReportsAreTrue
    <2> QED
      BY <1>1, <1>2, <2>3, <2>4, <2>5, Quiet
  <1>5. CASE Bucket(call[t].ptr) # << >>
    <2>1. pc'[t] = "remove" /\ reported' = reported
      BY <1>5 DEF IInv, TypeOK
    <2>2. New(t)' = New(t) /\ Old(t)' = Old(t) /\ Held(t)' = Held(t)
      BY <1>1, <2>1 DEF New, Old, Held, Adding, Removing
    <2>3. ThreadInv(t)'
      BY <1>1, <1>3, <2>1, <2>2 DEF IInv, ThreadInv, CallTyped, Locked, Owns, Adding, Removing
    <2>4. ReportsAreTrue'
      BY <2>1 DEF IInv, ReportsAreTrue
    <2> QED
      BY <1>1, <1>2, <2>2, <2>3, <2>4, Quiet
  <1> QED
    BY <1>4, <1>5

(* The pointer of a call that removes has a bucket, also when it is wrong. *)
LEMMA PointerIs ==
  ASSUME IInv, NEW t \in Threads, pc[t] \in Removing
  PROVE  /\ call[t].ptr \in Addrs \cup Strays
         /\ Bucket(call[t].ptr) \in Seq(Node)
  <1>1. call[t].ptr \in Addrs \cup Strays
    <2>1. CASE call[t].good
      BY <2>1, EmptyBucketIsRight
    <2>2. CASE ~ call[t].good
      BY <2>2 DEF IInv, ThreadInv, CallTyped
    <2> QED
      BY <2>1, <2>2
  <1>2. track_hash \in [Buckets -> Seq(Node)]
    BY DEF IInv, TypeOK
  <1> QED
    BY <1>1, <1>2, AddressesAre, BucketTyped

LEMMA LockToRemoveKeeps ==
  ASSUME IInv, NEW t \in Threads, LockToRemove(t), left' = left
  PROVE  IInv'
  <1> USE DEF LockToRemove, Goto
  <1>1. pc[t] = "remove" /\ mutt = Nobody /\ mutt' = t
    OBVIOUS
  <1>2. Bucket(call[t].ptr) \in Seq(Node)
    BY <1>1, PointerIs DEF Removing
  <1>3. Tracked' = Tracked /\ Bucket(call[t].ptr)' = Bucket(call[t].ptr)
    BY SameTable
  <1>4. \A u \in Threads \ {t} : pc[u] \notin {"link", "unlink"}
    BY <1>1, Alone
  <1>5. ReportsAreTrue'
    BY DEF IInv, ReportsAreTrue
  <1>6. CASE Bucket(call[t].ptr) = << >>
    <2>1. TypeOK'
      BY <1>6 DEF IInv, TypeOK
    <2>2. pc' = pc /\ call' = call /\ seen' = seen
      BY <1>6
    <2>3. New(t)' = New(t) /\ Old(t)' = Old(t) /\ Held(t)' = Held(t)
      BY <2>2 DEF New, Old, Held
    <2>4. CallTyped(t)' /\ Locked(t)' /\ Owns(t)'
      BY <1>1, <1>3, <2>2, <2>3 DEF IInv, ThreadInv, CallTyped, Locked, Owns
    <2> HIDE DEF IInv
    <2> QED
      BY <1>4, <1>5, <2>1, <2>2, <2>3, <2>4, Quiet DEF ThreadInv
  <1>7. CASE Bucket(call[t].ptr) # << >>
    <2>1. /\ pc'[t] = "unlink" /\ call' = call /\ fate' = fate
          /\ seen'[t] = [chain |-> Bucket(call[t].ptr), sum |-> allocated]
          /\ \A u \in Threads \ {t} : pc'[u] = pc[u] /\ seen'[u] = seen[u]
      BY <1>7 DEF IInv, TypeOK
    <2>2. TypeOK'
      <3>1. seen' = [seen EXCEPT ![t] = [chain |-> Bucket(call[t].ptr), sum |-> allocated]]
        BY <1>7
      <3>2. seen' \in [Threads -> [chain : Seq(Node), sum : Int]]
        BY <1>2, <3>1 DEF IInv, TypeOK
      <3>3. pc' = [pc EXCEPT ![t] = "unlink"] /\ mutt' = t /\ fate' = fate
        BY <1>7
      <3> QED
        BY <3>2, <3>3 DEF IInv, TypeOK
    <2>3. New(t)' = New(t) /\ Old(t)' = Old(t) /\ Held(t)' = Held(t)
      BY <1>1, <2>1 DEF New, Old, Held, Adding, Removing
    <2>4. Locked(t)'
      BY <1>1, <1>3, <2>1 DEF Locked
    <2>5. CallTyped(t)' /\ Owns(t)'
      BY <1>1, <1>3, <2>1, <2>3 DEF IInv, ThreadInv, CallTyped, Owns, Adding, Removing
    <2> HIDE DEF IInv
    <2> QED
      BY <1>4, <1>5, <2>1, <2>2, <2>3, <2>4, <2>5, Quiet DEF ThreadInv
  <1> QED
    BY <1>6, <1>7

(* What is known where a critical section that removes is left.            *)
LEMMA AtUnlink ==
  ASSUME IInv, NEW t \in Threads, pc[t] = "unlink"
  PROVE  /\ mutt = t /\ seen[t].chain = Bucket(call[t].ptr) /\ seen[t].sum = allocated
         /\ seen[t].chain \in Seq(Node)
         /\ call[t].ptr \in Addrs \cup Strays
         /\ call[t].op \in {"free", "realloc"}
         /\ call[t].op = "realloc" => call[t].bytes \in Sizes
         /\ ~ call[t].good => call[t].ptr \in Strays
  <1>1. CallTyped(t) /\ Locked(t)
    BY DEF IInv, ThreadInv
  <1>2. mutt = t /\ seen[t] = [chain |-> Bucket(call[t].ptr), sum |-> allocated]
    BY <1>1 DEF Locked
  <1>3. call[t].ptr \in Addrs \cup Strays /\ Bucket(call[t].ptr) \in Seq(Node)
    BY PointerIs DEF Removing
  <1> QED
    BY <1>1, <1>2, <1>3 DEF CallTyped, Removing

(* The block is out of the table, and nobody's but the call's.             *)
LEMMA UnlinkKeeps ==
  ASSUME IInv, NEW t \in Threads, Unlink(t), left' = left
  PROVE  IInv'
  <1> DEFINE a == call[t].ptr
  <1> DEFINE k == Found(t)
  <1>1. /\ pc[t] = "unlink" /\ k # 0
        /\ track_hash' = [track_hash EXCEPT ![smartalloc_hash(a)] = RemoveAt(seen[t].chain, k)]
        /\ allocated' = seen[t].sum - seen[t].chain[k].space
        /\ UNCHANGED <<heap, inited, fate, call, seen, live, reported>> /\ mutt' = Nobody
        /\ pc' = [pc EXCEPT ![t] = IF call[t].op = "realloc" THEN "malloc" ELSE "release"]
    BY DEF Unlink, Goto
  <1>2. /\ mutt = t /\ seen[t].chain = Bucket(a) /\ seen[t].sum = allocated
        /\ Bucket(a) \in Seq(Node) /\ a \in Addrs \cup Strays
        /\ call[t].op \in {"free", "realloc"}
        /\ call[t].op = "realloc" => call[t].bytes \in Sizes
        /\ ~ call[t].good => a \in Strays
    BY <1>1, AtUnlink
  <1>3. k \in 1 .. Len(Bucket(a)) /\ Bucket(a)[k].data = a
    BY <1>1, <1>2, FoundIs
  <1> HIDE DEF a, k
  <1>4. a \in Tracked /\ a \in Addrs /\ call[t].good
    <2>1. a \in Tracked /\ a \notin Strays
      BY <1>2, <1>3, NotThere DEF IInv
    <2> QED
      BY <1>2, <2>1
  <1>5. /\ track_hash' \in [Buckets -> Seq(Node)] /\ NodesAreSound'
        /\ Tracked' = Tracked \ {a}
    <2>1. track_hash \in [Buckets -> Seq(Node)] /\ NodesAreSound
      BY DEF IInv, TypeOK
    <2> QED
      BY <1>1, <1>2, <1>3, <1>4, <2>1, UnlinkTable
  <1>6. /\ New(t) = {} /\ Old(t) = {a} /\ Held(t) = {a}
    BY <1>1, <1>4 DEF New, Old, Held, Adding, Removing, a
  <1>7. a \in heap /\ a \notin live
    BY <1>6 DEF IInv, ThreadInv, Owns
  <1>8. /\ pc'[t] = IF call[t].op = "realloc" THEN "malloc" ELSE "release"
        /\ \A u \in Threads \ {t} : pc'[u] = pc[u] /\ call'[u] = call[u] /\ seen'[u] = seen[u]
    BY <1>1 DEF IInv, TypeOK
  <1>9. TypeOK'
    <2>1. allocated' \in Int
      <3>1. Bucket(a)[k] \in Node
        BY <1>2, <1>3
      <3>2. Bucket(a)[k].space \in Nat
        BY <3>1, AllocatorOK DEF Node
      <3>3. allocated \in Int
        BY DEF IInv, TypeOK
      <3> QED
        BY <1>1, <1>2, <3>2, <3>3
    <2>2. pc' \in [Threads -> {"idle", "malloc", "init", "wipe", "enter", "link",
                               "test", "remove", "unlink", "release"}]
      BY <1>1 DEF IInv, TypeOK
    <2> QED
      BY <1>1, <1>5, <2>1, <2>2 DEF IInv, TypeOK
  <1>10. New(t)' = {} /\ Old(t)' = {a} /\ Held(t)' = {a}
    BY <1>1, <1>2, <1>8 DEF New, Old, Held, Adding, Removing, a
  <1>11. CallTyped(t)' /\ Locked(t)'
    BY <1>1, <1>2, <1>8 DEF CallTyped, Locked, Adding, Removing
  <1>12. Owns(t)'
    BY <1>1, <1>5, <1>7, <1>8, <1>10 DEF Owns, Removing
  <1>13. ASSUME NEW u \in Threads \ {t}
         PROVE  /\ Held(u) \subseteq heap' /\ Held(u) \cap live' = {}
                /\ Held(u) \cap Tracked' = Held(u) \cap Tracked
                /\ pc[u] \notin {"link", "unlink"}
                /\ Held(t)' \cap Held(u) = {}
    <2>1. Held(u) \subseteq heap /\ Held(u) \cap live = {} /\ Held(t) \cap Held(u) = {}
      BY DEF IInv, ThreadInv, Owns, Apart
    <2>2. a \notin Held(u)
      BY <1>6, <2>1
    <2>3. pc[u] \notin {"link", "unlink"}
      BY <1>2, Alone
    <2> QED
      BY <1>1, <1>5, <1>10, <2>1, <2>2, <2>3
  <1>14. LiveIsTracked' /\ ReportsAreTrue' /\ inited' /\ IsFiniteSet(heap')
    BY <1>1, <1>5, <1>7 DEF IInv, LiveIsTracked, ReportsAreTrue
  <1>15. heap' \ (live' \cup Held(t)') \subseteq heap \ (live \cup Held(t))
    BY <1>1, <1>6, <1>10
  <1> HIDE DEF IInv
  <1> QED
    BY <1>5, <1>8, <1>9, <1>11, <1>12, <1>13, <1>14, <1>15, Assembled DEF ThreadInv

(* Only a wrong pointer is not found.                                      *)
LEMMA NotFoundKeeps ==
  ASSUME IInv, NEW t \in Threads, NotFound(t), left' = left
  PROVE  IInv'
  <1> USE DEF NotFound, Report, Goto
  <1>1. /\ pc[t] = "unlink" /\ pc'[t] = "idle" /\ Found(t) = 0
        /\ reported' = reported \cup {~ call[t].good}
        /\ \A u \in Threads \ {t} : pc'[u] = pc[u]
    BY DEF IInv, TypeOK
  <1>2. ~ call[t].good
    <2>1. seen[t].chain = Bucket(call[t].ptr) /\ seen[t].chain \in Seq(Node)
      BY <1>1, AtUnlink
    <2>2. \A k \in 1 .. Len(Bucket(call[t].ptr)) : Bucket(call[t].ptr)[k].data # call[t].ptr
      BY <1>1, <2>1, FoundIs
    <2>3. pc[t] \in Removing
      BY <1>1 DEF Removing
    <2> QED
      BY <2>2, <2>3, EmptyBucketIsRight
  <1>3. TypeOK'
    <2>1. (~ call[t].good) \in BOOLEAN /\ reported \subseteq BOOLEAN
      BY DEF IInv, TypeOK
    <2>2. reported' \subseteq BOOLEAN
      BY <1>1, <2>1
    <2> QED
      BY <2>2 DEF IInv, TypeOK
  <1>4. New(t)' = {} /\ Old(t)' = {} /\ Held(t)' = {} /\ Held(t) = {}
    BY <1>1, <1>2 DEF New, Old, Held, Adding, Removing
  <1>5. ThreadInv(t)'
    BY <1>1, <1>4 DEF ThreadInv, CallTyped, Locked, Owns, Adding, Removing
  <1>6. ReportsAreTrue'
    BY <1>1, <1>2 DEF IInv, ReportsAreTrue
  <1>7. \A u \in Threads \ {t} : pc[u] \notin {"link", "unlink"}
    BY <1>1, AtUnlink, Alone
  <1> HIDE DEF IInv
  <1> QED
    BY <1>1, <1>3, <1>4, <1>5, <1>6, <1>7, Quiet

(* The old block goes back to libc, a new one to the caller.               *)
LEMMA ReleaseKeeps ==
  ASSUME IInv, NEW t \in Threads, Release(t), left' = left
  PROVE  IInv'
  <1> DEFINE a == call[t].ptr
  <1>1. /\ pc[t] = "release" /\ heap' = heap \ {a}
        /\ live' = IF call[t].op = "realloc" THEN live \cup {call[t].blk} ELSE live
        /\ pc' = [pc EXCEPT ![t] = "idle"]
        /\ UNCHANGED <<track_hash, allocated, inited, mutt, fate, call, seen, reported>>
    BY DEF Release, Goto
  <1>2. /\ New(t) = IF call[t].op = "realloc" THEN {call[t].blk} ELSE {}
        /\ Old(t) = {a} /\ Held(t) = New(t) \cup Old(t)
    BY <1>1 DEF New, Old, Held, Adding, Removing
  <1>3. live' = live \cup New(t)
    BY <1>1, <1>2
  <1> HIDE DEF a
  <1>4. Tracked' = Tracked /\ live \subseteq Tracked /\ Tracked \subseteq heap
    BY <1>1, SameTable, TrackedInHeap DEF IInv, LiveIsTracked
  <1>5. a \notin Tracked /\ New(t) \subseteq Tracked
    BY <1>1, <1>2 DEF IInv, ThreadInv, Owns, Removing
  <1>6. pc'[t] = "idle" /\ \A u \in Threads \ {t} : pc'[u] = pc[u]
    BY <1>1 DEF IInv, TypeOK
  <1>7. TypeOK'
    <2>1. live' \subseteq Addrs /\ heap' \subseteq Addrs
      BY <1>1, <1>3, <1>4, <1>5 DEF IInv, TypeOK
    <2> QED
      BY <1>1, <2>1 DEF IInv, TypeOK
  <1>8. New(t)' = {} /\ Old(t)' = {} /\ Held(t)' = {}
    BY <1>6 DEF New, Old, Held, Adding, Removing
  <1>9. ThreadInv(t)'
    BY <1>6, <1>8 DEF ThreadInv, CallTyped, Locked, Owns, Adding, Removing
  <1>10. ASSUME NEW u \in Threads \ {t}
         PROVE  /\ Held(u) \subseteq heap' /\ Held(u) \cap live' = {}
                /\ Held(u) \cap Tracked' = Held(u) \cap Tracked
                /\ Held(t)' \cap Held(u) = {}
    <2>1. Held(u) \subseteq heap /\ Held(u) \cap live = {} /\ Held(t) \cap Held(u) = {}
      BY DEF IInv, ThreadInv, Owns, Apart
    <2> QED
      BY <1>1, <1>2, <1>3, <1>4, <1>8, <2>1
  <1>11. NodesAreSound'
    <2>1. ASSUME NEW b \in Buckets, NEW k \in DOMAIN track_hash[b]
          PROVE  track_hash[b][k].data \in heap'
      <3>1. /\ track_hash[b][k].data \in heap
            /\ smartalloc_hash(track_hash[b][k].data) = b
        BY DEF IInv, NodesAreSound
      <3>2. track_hash[b][k].data \in Tracked
        BY <3>1 DEF IInv, TypeOK, Tracked, Bucket
      <3> QED
        BY <1>1, <1>5, <3>1, <3>2
    <2> QED
      BY <1>1, <2>1 DEF IInv, NodesAreSound, smartalloc_hash
  <1>12. LiveIsTracked' /\ ReportsAreTrue' /\ inited'
    BY <1>1, <1>3, <1>4, <1>5 DEF IInv, LiveIsTracked, ReportsAreTrue
  <1>13. IsFiniteSet(heap')
    BY <1>1, FS_Difference DEF IInv
  <1>14. heap' \ (live' \cup Held(t)') \subseteq heap \ (live \cup Held(t))
    BY <1>1, <1>2, <1>3, <1>8
  <1> HIDE DEF IInv
  <1> QED
    BY <1>1, <1>6, <1>7, <1>9, <1>10, <1>11, <1>12, <1>13, <1>14, Assembled

---------------------------------------------------------------------------
(* Sums *)

(* The sum of a function's values, as LiveBlocks takes it, and what its    *)
(* recursion computes for every set s of arguments.                        *)
SumOver(size) == MapThenSumSet(LAMBDA a : size[a], DOMAIN size)

First(s) == CHOOSE x \in s : TRUE

AddsUp(g, size, S) ==
  g = [s \in SUBSET S |-> IF s = {} THEN 0 ELSE size[First(s)] + g[s \ {First(s)}]]

LEMMA FirstIs ==
  ASSUME NEW s, IsFiniteSet(s), s # {}
  PROVE  /\ First(s) \in s
         /\ IsFiniteSet(s \ {First(s)}) /\ Cardinality(s \ {First(s)}) = Cardinality(s) - 1
         /\ Cardinality(s) \in Nat
  <1>1. First(s) \in s
    BY DEF First
  <1> QED
    BY <1>1, FS_RemoveElement, FS_CardinalityType

(* The recursion has a solution: up to each number of arguments, and so    *)
(* for all.                                                                *)
LEMMA SumExists ==
  ASSUME NEW S, IsFiniteSet(S), NEW size
  PROVE  \E g : AddsUp(g, size, S)
  <1> DEFINE Sum(g, s) == IF s = {} THEN 0 ELSE size[First(s)] + g[s \ {First(s)}]
  <1> DEFINE Upto(n) == \E g : \A s \in SUBSET S : Cardinality(s) <= n => g[s] = Sum(g, s)
  <1> DEFINE Bad == {n \in Nat : ~ Upto(n)}
  <1>1. \A s \in SUBSET S : IsFiniteSet(s) /\ Cardinality(s) \in Nat
                            /\ Cardinality(s) <= Cardinality(S)
    BY FS_Subset, FS_CardinalityType
  <1>2. Bad = {}
    <2> SUFFICES ASSUME Bad # {} PROVE FALSE
      OBVIOUS
    <2>1. PICK m \in Bad : \A k \in Bad : m <= k
      <3>1. Bad \in SUBSET Nat
        OBVIOUS
      <3> HIDE DEF Bad
      <3> QED
        BY <3>1, LeastElement
    <2>2. CASE m = 0
      <3> DEFINE g == [s \in SUBSET S |-> 0]
      <3>1. \A s \in SUBSET S : Cardinality(s) <= 0 => s = {}
        BY <1>1, FS_EmptySet
      <3>2. \A s \in SUBSET S : Cardinality(s) <= 0 => g[s] = Sum(g, s)
        BY <3>1
      <3> HIDE DEF Sum, g
      <3>3. Upto(0)
        BY <3>2
      <3> QED
        BY <2>1, <2>2, <3>3
    <2>3. CASE m # 0
      <3>1. m - 1 \in Nat /\ m - 1 \notin Bad
        <4>1. m \in Nat
          BY <2>1
        <4> HIDE DEF Bad
        <4> QED
          BY <2>1, <2>3, <4>1
      <3>2. PICK g : \A s \in SUBSET S : Cardinality(s) <= m - 1 => g[s] = Sum(g, s)
        BY <3>1
      <3> DEFINE h == [s \in SUBSET S |-> Sum(g, s)]
      <3>3. ASSUME NEW s \in SUBSET S, Cardinality(s) <= m
            PROVE  h[s] = Sum(h, s)
        <4>1. CASE s = {}
          BY <4>1
        <4>2. CASE s # {}
          <5> DEFINE r == s \ {First(s)}
          <5>1. r \in SUBSET S /\ Cardinality(r) <= m - 1
            BY <1>1, <3>3, <4>2, FirstIs
          <5>2. g[r] = Sum(g, r) /\ h[r] = Sum(g, r)
            BY <3>2, <5>1
          <5> HIDE DEF h
          <5>3. h[s] = Sum(g, s)
            BY DEF h
          <5> QED
            BY <4>2, <5>2, <5>3
        <4> QED
          BY <4>1, <4>2
      <3> HIDE DEF Sum, h
      <3>4. Upto(m)
        BY <3>3
      <3> QED
        BY <2>1, <3>4
    <2> QED
      BY <2>2, <2>3
  <1>3. PICK g : \A s \in SUBSET S : g[s] = Sum(g, s)
    <2>1. Cardinality(S) \in Nat
      BY FS_CardinalityType
    <2>2. Upto(Cardinality(S))
      BY <1>2, <2>1
    <2> HIDE DEF Sum
    <2> QED
      BY <1>1, <2>2
  <1> DEFINE h == [s \in SUBSET S |-> Sum(g, s)]
  <1>4. ASSUME NEW s \in SUBSET S PROVE Sum(g, s) = Sum(h, s)
    <2>1. s # {} => h[s \ {First(s)}] = g[s \ {First(s)}]
      BY <1>3
    <2> HIDE DEF h
    <2> QED
      BY <2>1
  <1>5. h = [s \in SUBSET S |-> Sum(h, s)]
    BY <1>4
  <1>6. AddsUp(h, size, S)
    BY <1>5 DEF AddsUp
  <1> QED
    BY <1>6

LEMMA SumUnfolds ==
  ASSUME NEW S, NEW size, NEW g, AddsUp(g, size, S)
  PROVE  /\ g[{}] = 0
         /\ \A s \in SUBSET S : s # {} => g[s] = size[First(s)] + g[s \ {First(s)}]
  BY DEF AddsUp

(* Whatever argument is taken first.                                       *)
LEMMA SumAnyOrder ==
  ASSUME NEW S, IsFiniteSet(S), NEW size \in [S -> Int], NEW g, AddsUp(g, size, S)
  PROVE  \A s \in SUBSET S : /\ g[s] \in Int
                             /\ \A x \in s : g[s] = size[x] + g[s \ {x}]
  <1> DEFINE Holds(s) == g[s] \in Int /\ \A x \in s : g[s] = size[x] + g[s \ {x}]
  <1> DEFINE Bad == {n \in Nat : \E s \in SUBSET S : Cardinality(s) = n /\ ~ Holds(s)}
  <1> SUFFICES ASSUME NEW t \in SUBSET S, ~ Holds(t) PROVE FALSE
    OBVIOUS
  <1>1. \A s \in SUBSET S : IsFiniteSet(s) /\ Cardinality(s) \in Nat
    BY FS_Subset, FS_CardinalityType
  <1>2. Bad # {} /\ Bad \in SUBSET Nat
    BY <1>1
  <1>3. PICK m \in Bad : \A k \in Bad : m <= k
    <2> HIDE DEF Bad
    <2> QED
      BY <1>2, LeastElement
  <1>4. PICK s \in SUBSET S : Cardinality(s) = m /\ ~ Holds(s)
    BY <1>3
  <1>5. ASSUME NEW r \in SUBSET S, Cardinality(r) < m PROVE Holds(r)
    BY <1>1, <1>3, <1>5
  <1>6. \A r \in SUBSET S : r # {} => g[r] = size[First(r)] + g[r \ {First(r)}]
    BY SumUnfolds
  <1>7. s # {}
    <2>1. g[{}] = 0
      BY SumUnfolds
    <2> QED
      BY <1>4, <2>1
  <1> DEFINE c == First(s)
  <1>8. c \in s /\ Cardinality(s \ {c}) < m /\ Cardinality(s) \in Nat
    BY <1>1, <1>4, <1>7, FirstIs
  <1>9. g[s] = size[c] + g[s \ {c}]
    BY <1>6, <1>7
  <1> HIDE DEF c
  <1>10. Holds(s \ {c}) /\ size[c] \in Int
    BY <1>5, <1>8
  <1>11. g[s] \in Int
    BY <1>9, <1>10
  <1>12. ASSUME NEW x \in s PROVE g[s] = size[x] + g[s \ {x}]
    <2>1. CASE x = c
      BY <1>9, <2>1
    <2>2. CASE x # c
      <3>1. Cardinality(s \ {x}) < m
        BY <1>1, <1>4, FS_RemoveElement
      <3>2. Holds(s \ {x}) /\ size[x] \in Int
        BY <1>5, <3>1
      <3>3. /\ g[s \ {c}] = size[x] + g[(s \ {c}) \ {x}]
            /\ g[s \ {x}] = size[c] + g[(s \ {x}) \ {c}]
        BY <1>8, <1>10, <2>2, <3>2
      <3>4. (s \ {c}) \ {x} = (s \ {x}) \ {c}
        OBVIOUS
      <3>5. g[(s \ {x}) \ {c}] \in Int
        <4>1. Cardinality((s \ {x}) \ {c}) < m
          BY <1>1, <1>4, <3>1, FS_RemoveElement
        <4> QED
          BY <1>5, <4>1
      <3>6. g[s \ {c}] = size[x] + g[(s \ {x}) \ {c}]
        BY <3>3, <3>4
      <3> DEFINE rest == g[(s \ {x}) \ {c}]
      <3> HIDE DEF rest
      <3>7. /\ rest \in Int /\ size[c] \in Int /\ size[x] \in Int
            /\ g[s \ {c}] = size[x] + rest /\ g[s \ {x}] = size[c] + rest
        BY <1>10, <3>2, <3>3, <3>5, <3>6 DEF rest
      <3>8. g[s] = size[c] + (size[x] + rest)
        BY <1>9, <3>7
      <3> QED
        BY <3>7, <3>8
    <2> QED
      BY <2>1, <2>2
  <1> QED
    BY <1>4, <1>11, <1>12

(* The sum is of the values, not of where the function comes from.         *)
LEMMA SumsAgree ==
  ASSUME NEW S, NEW size, NEW g, AddsUp(g, size, S),
         NEW T, NEW other, NEW h, AddsUp(h, other, T),
         NEW R, IsFiniteSet(R), R \subseteq S, R \subseteq T,
         \A x \in R : size[x] = other[x]
  PROVE  g[R] = h[R]
  <1> DEFINE Bad == {n \in Nat : \E s \in SUBSET R : Cardinality(s) = n /\ g[s] # h[s]}
  <1> SUFFICES ASSUME g[R] # h[R] PROVE FALSE
    OBVIOUS
  <1>1. \A s \in SUBSET R : IsFiniteSet(s) /\ Cardinality(s) \in Nat
    BY FS_Subset, FS_CardinalityType
  <1>2. Bad # {} /\ Bad \in SUBSET Nat
    BY <1>1
  <1>3. PICK m \in Bad : \A k \in Bad : m <= k
    <2> HIDE DEF Bad
    <2> QED
      BY <1>2, LeastElement
  <1>4. PICK s \in SUBSET R : Cardinality(s) = m /\ g[s] # h[s]
    BY <1>3
  <1>5. s # {}
    <2>1. g[{}] = 0 /\ h[{}] = 0
      BY SumUnfolds
    <2> QED
      BY <1>4, <2>1
  <1>6. g[s] = size[First(s)] + g[s \ {First(s)}] /\ h[s] = other[First(s)] + h[s \ {First(s)}]
    <2>1. s \in SUBSET S /\ s \in SUBSET T
      BY <1>4
    <2>2. \A r \in SUBSET S : r # {} => g[r] = size[First(r)] + g[r \ {First(r)}]
      BY SumUnfolds
    <2>3. \A r \in SUBSET T : r # {} => h[r] = other[First(r)] + h[r \ {First(r)}]
      BY SumUnfolds
    <2>4. g[s] = size[First(s)] + g[s \ {First(s)}]
      BY <1>5, <2>1, <2>2
    <2>5. h[s] = other[First(s)] + h[s \ {First(s)}]
      BY <1>5, <2>1, <2>3
    <2> QED
      BY <2>4, <2>5
  <1>7. First(s) \in R /\ s \ {First(s)} \in SUBSET R /\ Cardinality(s \ {First(s)}) < m
    BY <1>1, <1>4, <1>5, FirstIs
  <1>8. g[s \ {First(s)}] = h[s \ {First(s)}]
    BY <1>1, <1>3, <1>7
  <1> QED
    BY <1>4, <1>6, <1>7, <1>8

LEMMA SumIs ==
  ASSUME NEW size, IsFiniteSet(DOMAIN size)
  PROVE  \E g : AddsUp(g, size, DOMAIN size) /\ SumOver(size) = g[DOMAIN size]
  <1> DEFINE iter == CHOOSE g : AddsUp(g, size, DOMAIN size)
  <1>1. AddsUp(iter, size, DOMAIN size)
    BY SumExists
  <1>2. SumOver(size) = iter[DOMAIN size]
    BY DEF SumOver, MapThenSumSet, MapThenFoldSet, AddsUp, First
  <1> QED
    BY <1>1, <1>2

LEMMA SumTyped ==
  ASSUME NEW D, IsFiniteSet(D), NEW size \in [D -> Int]
  PROVE  SumOver(size) \in Int
  <1>1. PICK g : AddsUp(g, size, D) /\ SumOver(size) = g[D]
    <2>1. DOMAIN size = D
      OBVIOUS
    <2> QED
      BY <2>1, SumIs
  <1> QED
    BY <1>1, SumAnyOrder

(* One more value.                                                         *)
LEMMA SumGrows ==
  ASSUME NEW D, IsFiniteSet(D), NEW size \in [D -> Int], NEW a, a \notin D, NEW n \in Int,
         NEW new \in [D \cup {a} -> Int], new[a] = n, \A b \in D : new[b] = size[b]
  PROVE  SumOver(new) = SumOver(size) + n
  <1> DEFINE E == D \cup {a}
  <1>1. IsFiniteSet(E) /\ a \in E /\ E \ {a} = D /\ D \subseteq E
    BY FS_AddElement
  <1>2. DOMAIN new = E /\ DOMAIN size = D /\ new \in [E -> Int]
    OBVIOUS
  <1> HIDE DEF E
  <1>3. PICK g : AddsUp(g, size, D) /\ SumOver(size) = g[D]
    BY <1>2, SumIs
  <1>4. PICK h : AddsUp(h, new, E) /\ SumOver(new) = h[E]
    BY <1>1, <1>2, SumIs
  <1>5. h[E] = n + h[D] /\ h[D] \in Int
    <2>1. \A s \in SUBSET E : h[s] \in Int /\ \A x \in s : h[s] = new[x] + h[s \ {x}]
      <3>1. IsFiniteSet(E) /\ new \in [E -> Int] /\ AddsUp(h, new, E)
        BY <1>1, <1>2, <1>4
      <3> QED
        BY ONLY <3>1, SumAnyOrder
    <2>2. E \in SUBSET E /\ D \in SUBSET E
      BY <1>1
    <2> QED
      BY <1>1, <2>1, <2>2
  <1>6. g[D] = h[D]
    BY <1>1, <1>3, <1>4, SumsAgree
  <1> QED
    BY <1>3, <1>4, <1>5, <1>6

---------------------------------------------------------------------------
(* The sizes of the tracked blocks *)

NodeOf(chain, a) == SelectInSeq(chain, LAMBDA n : n.data = a)

Sizing == [a \in Tracked |-> SpaceOf(a)]

LEMMA SpaceOfIs ==
  /\ \A a : SpaceOf(a) = Bucket(a)[NodeOf(Bucket(a), a)].space
  /\ \A a : SpaceOf(a)' = Bucket(a)'[NodeOf(Bucket(a)', a)].space
  <1>1. \A a : SpaceOf(a) = Bucket(a)[NodeOf(Bucket(a), a)].space
    BY DEF SpaceOf, NodeOf
  <1>2. \A a : SpaceOf(a)' = Bucket(a)'[NodeOf(Bucket(a)', a)].space
    BY DEF SpaceOf, NodeOf, SelectInSeq
  <1> QED
    BY <1>1, <1>2

(* The first node of a block is the only one.                              *)
LEMMA NodeIs ==
  ASSUME NEW chain \in Seq(Node), NEW a, NEW k \in 1 .. Len(chain), chain[k].data = a,
         \A l \in 1 .. Len(chain) : chain[l].data = a => l = k
  PROVE  NodeOf(chain, a) = k
  <1> DEFINE I == {l \in 1 .. Len(chain) : chain[l].data = a}
  <1>1. NodeOf(chain, a) = IF I # {} THEN Min(I) ELSE 0
    BY DEF NodeOf, SelectInSeq
  <1>2. I = {k} /\ Len(chain) \in Nat
    OBVIOUS
  <1>3. Min(I) \in I
    <2>1. I \in SUBSET (1 .. Len(chain)) /\ I # {}
      BY <1>2
    <2> HIDE DEF I
    <2> QED
      BY <1>2, <2>1, FirstPosition
  <1> QED
    BY <1>1, <1>2, <1>3

(* A block's node that is still in its bucket has the block's size.        *)
LEMMA SizeFollowsNode ==
  ASSUME track_hash \in [Buckets -> Seq(Node)], NodesAreSound, NEW a \in Addrs,
         NEW k \in 1 .. Len(Bucket(a)), Bucket(a)[k].data = a
  PROVE  SpaceOf(a) = Bucket(a)[k].space
  <1>1. /\ Bucket(a) \in Seq(Node) /\ DOMAIN Bucket(a) = 1 .. Len(Bucket(a))
        /\ smartalloc_hash(a) \in Buckets
    BY BucketTyped, HashInRange, AddressesAre
  <1>2. \A l \in 1 .. Len(Bucket(a)) : Bucket(a)[l].data = a => l = k
    BY <1>1 DEF NodesAreSound, Bucket
  <1>3. NodeOf(Bucket(a), a) = k
    BY <1>1, <1>2, NodeIs
  <1> QED
    BY <1>3, SpaceOfIs

LEMMA SizeFollowsNodeNext ==
  ASSUME track_hash' \in [Buckets -> Seq(Node)], NodesAreSound', NEW a \in Addrs,
         NEW k \in 1 .. Len(Bucket(a)'), Bucket(a)'[k].data = a
  PROVE  SpaceOf(a)' = Bucket(a)'[k].space
  <1>1. smartalloc_hash(a) \in Buckets /\ Bucket(a)' = track_hash'[smartalloc_hash(a)]
    BY HashInRange, AddressesAre DEF Bucket, smartalloc_hash
  <1>2. Bucket(a)' \in Seq(Node) /\ DOMAIN Bucket(a)' = 1 .. Len(Bucket(a)')
    BY <1>1
  <1>3. \A l \in 1 .. Len(Bucket(a)') : Bucket(a)'[l].data = a => l = k
    BY <1>1, <1>2 DEF NodesAreSound
  <1>4. NodeOf(Bucket(a)', a) = k
    BY <1>2, <1>3, NodeIs
  <1> QED
    BY <1>4, SpaceOfIs

(* The addition of a block leaves the sizes of the others.                 *)
LEMMA LinkSizes ==
  ASSUME IInv, NEW t \in Threads, Link(t), left' = left
  PROVE  \E a \in Addrs \ Tracked, n \in Sizes :
           /\ Tracked' = Tracked \cup {a} /\ allocated' = allocated + n
           /\ SpaceOf(a)' = n
           /\ \A c \in Tracked : SpaceOf(c)' = SpaceOf(c)
  <1>0. PICK a \in Addrs, n \in Sizes : a = call[t].blk /\ n = call[t].bytes
    BY AtLink DEF Link
  <1> DEFINE node == [data |-> a, space |-> n]
  <1>1. /\ a \in Addrs /\ n \in Sizes /\ a \in heap /\ a \notin Tracked /\ heap' = heap
        /\ allocated' = allocated + n
        /\ track_hash' = [track_hash EXCEPT ![smartalloc_hash(a)] =
                            <<[data |-> a, space |-> n]>> \o Bucket(a)]
    BY <1>0, AtLink DEF Link
  <1>2. track_hash \in [Buckets -> Seq(Node)] /\ NodesAreSound
    BY DEF IInv, TypeOK
  <1>3. /\ track_hash' \in [Buckets -> Seq(Node)] /\ NodesAreSound'
        /\ Tracked' = Tracked \cup {a}
    BY <1>1, <1>2, LinkTable
  <1>4. node \in Node /\ node.data = a /\ node.space = n
    BY <1>1 DEF Node
  <1>5. /\ \A c \in Addrs : Bucket(c)' = IF smartalloc_hash(c) = smartalloc_hash(a)
                                       THEN <<node>> \o Bucket(c) ELSE Bucket(c)
        /\ \A c \in Addrs : Bucket(c) \in Seq(Node) /\ DOMAIN Bucket(c) = 1 .. Len(Bucket(c))
    <2>1. \A c \in Addrs : smartalloc_hash(c) \in Buckets
      BY HashInRange, AddressesAre
    <2> QED
      BY <1>1, <1>2, <2>1 DEF Bucket, smartalloc_hash
  <1> HIDE DEF node
  <1>6. \A c \in Addrs : \A k \in 1 .. Len(Bucket(c)) :
          /\ k + 1 \in 1 .. Len(<<node>> \o Bucket(c))
          /\ (<<node>> \o Bucket(c))[k + 1] = Bucket(c)[k]
    BY <1>4, <1>5
  <1>7. ASSUME NEW c \in Tracked PROVE SpaceOf(c)' = SpaceOf(c)
    <2>1. c \in Addrs
      BY DEF Tracked
    <2>2. PICK k \in 1 .. Len(Bucket(c)) : Bucket(c)[k].data = c
      BY <1>5, <2>1 DEF Tracked
    <2>3. PICK l \in 1 .. Len(Bucket(c)') : Bucket(c)'[l] = Bucket(c)[k]
      BY <1>5, <1>6, <2>1
    <2> QED
      BY <1>2, <1>3, <2>1, <2>2, <2>3, SizeFollowsNode, SizeFollowsNodeNext
  <1>8. SpaceOf(a)' = n
    <2>1. 1 \in 1 .. Len(<<node>> \o Bucket(a)) /\ (<<node>> \o Bucket(a))[1] = node
      BY <1>1, <1>4, <1>5
    <2>2. 1 \in 1 .. Len(Bucket(a)') /\ Bucket(a)'[1] = node
      BY <1>1, <1>5, <2>1
    <2> QED
      BY <1>1, <1>3, <1>4, <2>2, SizeFollowsNodeNext
  <1> QED
    BY <1>1, <1>3, <1>7, <1>8

(* And so does a removal.                                                  *)
LEMMA UnlinkSizes ==
  ASSUME IInv, NEW t \in Threads, Unlink(t), left' = left
  PROVE  \E a \in Tracked :
           /\ Tracked' = Tracked \ {a} /\ allocated' = allocated - SpaceOf(a)
           /\ \A c \in Tracked \ {a} : SpaceOf(c)' = SpaceOf(c)
  <1> DEFINE a == call[t].ptr
  <1> DEFINE i == Found(t)
  <1>1. /\ pc[t] = "unlink" /\ i # 0 /\ heap' = heap
        /\ track_hash' = [track_hash EXCEPT ![smartalloc_hash(a)] = RemoveAt(seen[t].chain, i)]
        /\ allocated' = seen[t].sum - seen[t].chain[i].space
    BY DEF Unlink
  <1>2. /\ seen[t].chain = Bucket(a) /\ seen[t].sum = allocated
        /\ Bucket(a) \in Seq(Node) /\ a \in Addrs \cup Strays
    BY <1>1, AtUnlink
  <1>3. i \in 1 .. Len(Bucket(a)) /\ Bucket(a)[i].data = a
    BY <1>1, <1>2, FoundIs
  <1> HIDE DEF a, i
  <1>4. a \in Tracked /\ a \in Addrs
    <2>1. a \in Tracked
      BY <1>2, <1>3, NotThere DEF IInv
    <2> QED
      BY <2>1 DEF Tracked
  <1>5. track_hash \in [Buckets -> Seq(Node)] /\ NodesAreSound
    BY DEF IInv, TypeOK
  <1>6. /\ track_hash' \in [Buckets -> Seq(Node)] /\ NodesAreSound'
        /\ Tracked' = Tracked \ {a}
    BY <1>1, <1>2, <1>3, <1>4, <1>5, UnlinkTable
  <1>7. allocated' = allocated - SpaceOf(a)
    BY <1>1, <1>2, <1>3, <1>4, <1>5, SizeFollowsNode
  <1>8. /\ \A c \in Addrs : Bucket(c)' = IF smartalloc_hash(c) = smartalloc_hash(a)
                                       THEN RemoveAt(Bucket(c), i) ELSE Bucket(c)
        /\ \A c \in Addrs : Bucket(c) \in Seq(Node) /\ DOMAIN Bucket(c) = 1 .. Len(Bucket(c))
        /\ \A c \in Addrs : smartalloc_hash(c) = smartalloc_hash(a) => Bucket(c) = Bucket(a)
    <2>1. \A c \in Addrs : smartalloc_hash(c) \in Buckets
      BY HashInRange, AddressesAre
    <2> QED
      BY <1>1, <1>2, <1>5, <2>1 DEF Bucket, smartalloc_hash
  <1>9. ASSUME NEW c \in Tracked \ {a} PROVE SpaceOf(c)' = SpaceOf(c)
    <2>1. c \in Addrs
      BY DEF Tracked
    <2>2. PICK k \in 1 .. Len(Bucket(c)) : Bucket(c)[k].data = c
      BY <1>8, <2>1 DEF Tracked
    <2>3. \E l \in 1 .. Len(Bucket(c)') : Bucket(c)'[l] = Bucket(c)[k]
      <3>1. CASE smartalloc_hash(c) # smartalloc_hash(a)
        BY <1>8, <2>1, <3>1
      <3>2. CASE smartalloc_hash(c) = smartalloc_hash(a)
        <4> DEFINE chain == Bucket(c)
        <4>1. /\ chain \in Seq(Node) /\ i \in 1 .. Len(chain) /\ k \in 1 .. Len(chain)
              /\ Bucket(c)' = RemoveAt(chain, i)
          BY <1>3, <1>8, <2>1, <3>2
        <4>2. k # i
          BY <1>3, <1>8, <2>1, <2>2, <3>2
        <4> HIDE DEF chain
        <4>3. /\ Len(RemoveAt(chain, i)) = Len(chain) - 1
              /\ \A l \in 1 .. Len(chain) - 1 :
                   RemoveAt(chain, i)[l] = IF l < i THEN chain[l] ELSE chain[l + 1]
          BY <4>1, RemoveAtIs
        <4>4. Len(chain) \in Nat
          BY <4>1
        <4>5. CASE k < i
          <5>1. k \in 1 .. Len(chain) - 1 /\ RemoveAt(chain, i)[k] = chain[k]
            BY <4>1, <4>3, <4>4, <4>5
          <5> QED
            BY <4>1, <4>3, <5>1 DEF chain
        <4>6. CASE k > i
          <5>1. k - 1 \in 1 .. Len(chain) - 1 /\ RemoveAt(chain, i)[k - 1] = chain[k]
            BY <4>1, <4>3, <4>4, <4>6
          <5> QED
            BY <4>1, <4>3, <5>1 DEF chain
        <4> QED
          BY <4>1, <4>2, <4>5, <4>6
      <3> QED
        BY <3>1, <3>2
    <2>4. PICK l \in 1 .. Len(Bucket(c)') : Bucket(c)'[l] = Bucket(c)[k]
      BY <2>3
    <2> QED
      BY <1>5, <1>6, <2>1, <2>2, <2>4, SizeFollowsNode, SizeFollowsNodeNext
  <1> QED
    BY <1>4, <1>6, <1>7, <1>9

---------------------------------------------------------------------------
(* The invariant, and the total *)

LEMMA StepInv == IInv /\ [Next]_vars => IInv'
  <1> SUFFICES ASSUME IInv, [Next]_vars PROVE IInv'
    OBVIOUS
  <1>1. CASE UNCHANGED vars
    <2>1. TypeOK' /\ ReportsAreTrue'
      BY <1>1 DEF IInv, TypeOK, ReportsAreTrue, vars, table
    <2>2. Tracked' = Tracked /\ \A a : Bucket(a)' = Bucket(a)
      BY <1>1, SameTable DEF vars, table
    <2>3. NodesAreSound' /\ LiveIsTracked' /\ inited'
      BY <1>1, <2>2 DEF IInv, NodesAreSound, LiveIsTracked, smartalloc_hash, vars, table
    <2>4. \A t \in Threads : ThreadInv(t)' /\ Held(t)' = Held(t)
      <3>1. ASSUME NEW t \in Threads PROVE ThreadInv(t)' /\ Held(t)' = Held(t)
        <4>1. Held(t) \subseteq heap /\ Held(t) \cap live = {} /\ ThreadInv(t)
          BY DEF IInv, ThreadInv, Owns
        <4> QED
          BY <1>1, <2>2, <4>1, OthersKept DEF vars, table
      <3> QED
        BY <3>1
    <2>5. Apart' /\ NoneLost'
      <3> HIDE DEF Held
      <3> QED
        BY <1>1, <2>4 DEF IInv, Apart, NoneLost, vars, table
    <2>6. IsFiniteSet(heap')
      BY <1>1 DEF IInv, vars, table
    <2> QED
      BY <2>1, <2>3, <2>4, <2>5, <2>6 DEF IInv
  <1>2. ASSUME NEW t \in Threads, left > 0, Call(t), left' = left - 1 PROVE IInv'
    <2>1. left' \in Nat
      BY <1>2 DEF IInv, TypeOK
    <2> QED
      BY <1>2, <2>1, AllocStarts, FreeStarts, ReallocStarts DEF Call
  <1>3. ASSUME NEW t \in Threads, Step(t), left' = left PROVE IInv'
    <2>1. ~ Wipe(t)
      BY DEF IInv, ThreadInv, CallTyped, Wipe
    <2> QED
      BY <1>3, <2>1, MallocKeeps, MallocFailsKeeps, TestInitedKeeps, LockToAddKeeps,
         LinkKeeps, TestBucketKeeps, LockToRemoveKeeps, UnlinkKeeps, NotFoundKeeps,
         ReleaseKeeps DEF Step
  <1> QED
    BY <1>1, <1>2, <1>3 DEF Next

LEMMA Inductive == FirstCallDone /\ Spec => []IInv
  BY InitInv, StepInv, PTL DEF Spec

(* What a step is to the table: an addition, a removal or nothing.         *)
LEMMA StepKinds ==
  ASSUME IInv, [Next]_vars
  PROVE  \/ \E a \in Addrs \ Tracked, n \in Sizes :
              /\ Tracked' = Tracked \cup {a} /\ allocated' = allocated + n
              /\ SpaceOf(a)' = n
              /\ \A c \in Tracked : SpaceOf(c)' = SpaceOf(c)
         \/ \E a \in Tracked :
              /\ Tracked' = Tracked \ {a} /\ allocated' = allocated - SpaceOf(a)
              /\ \A c \in Tracked \ {a} : SpaceOf(c)' = SpaceOf(c)
         \/ /\ Tracked' = Tracked /\ allocated' = allocated
            /\ \A c \in Tracked : SpaceOf(c)' = SpaceOf(c)
  <1>1. CASE track_hash' = track_hash /\ allocated' = allocated
    <2>1. Tracked' = Tracked /\ \A c : Bucket(c)' = Bucket(c)
      BY <1>1, SameTable
    <2>2. \A c : SpaceOf(c)' = SpaceOf(c)
      BY <2>1, SpaceOfIs
    <2> QED
      BY <1>1, <2>1, <2>2
  <1>2. ASSUME NEW t \in Threads, Link(t), left' = left
        PROVE  \E a \in Addrs \ Tracked, n \in Sizes :
                 /\ Tracked' = Tracked \cup {a} /\ allocated' = allocated + n
                 /\ SpaceOf(a)' = n
                 /\ \A c \in Tracked : SpaceOf(c)' = SpaceOf(c)
    BY <1>2, LinkSizes
  <1>3. ASSUME NEW t \in Threads, Unlink(t), left' = left
        PROVE  \E a \in Tracked :
                 /\ Tracked' = Tracked \ {a} /\ allocated' = allocated - SpaceOf(a)
                 /\ \A c \in Tracked \ {a} : SpaceOf(c)' = SpaceOf(c)
    BY <1>3, UnlinkSizes
  <1>4. \/ track_hash' = track_hash /\ allocated' = allocated
        \/ \E t \in Threads : (Link(t) \/ Unlink(t)) /\ left' = left
    <2>1. ASSUME NEW t \in Threads, Call(t)
          PROVE  track_hash' = track_hash /\ allocated' = allocated
      BY <2>1 DEF Call, StartAlloc, StartFree, StartRealloc, table
    <2>2. ASSUME NEW t \in Threads, Step(t), left' = left
          PROVE  \/ track_hash' = track_hash /\ allocated' = allocated
                 \/ Link(t) \/ Unlink(t)
      <3>1. ~ Wipe(t)
        BY DEF IInv, ThreadInv, CallTyped, Wipe
      <3> QED
        BY <2>2, <3>1 DEF Step, Malloc, MallocFails, TestInited, LockToAdd, TestBucket,
           LockToRemove, NotFound, Release, table
    <2>3. CASE UNCHANGED vars
      BY <2>3 DEF vars, table
    <2> QED
      BY <2>1, <2>2, <2>3 DEF Next
  <1> QED
    BY <1>1, <1>2, <1>3, <1>4

LEMMA SizingTyped == IInv => IsFiniteSet(Tracked) /\ Sizing \in [Tracked -> Sizes]
  <1> SUFFICES ASSUME IInv PROVE IsFiniteSet(Tracked) /\ Sizing \in [Tracked -> Sizes]
    OBVIOUS
  <1>1. IsFiniteSet(Tracked)
    BY TrackedInHeap, FS_Subset DEF IInv
  <1>2. track_hash \in [Buckets -> Seq(Node)] /\ NodesAreSound
    BY DEF IInv, TypeOK
  <1>3. ASSUME NEW a \in Tracked PROVE SpaceOf(a) \in Sizes
    <2>1. a \in Addrs /\ Bucket(a) \in Seq(Node) /\ DOMAIN Bucket(a) = 1 .. Len(Bucket(a))
      BY <1>2, BucketTyped, AddressesAre DEF Tracked
    <2>2. PICK k \in 1 .. Len(Bucket(a)) : Bucket(a)[k].data = a
      BY <2>1 DEF Tracked
    <2>3. Bucket(a)[k] \in Node
      BY <2>1
    <2> QED
      BY <1>2, <2>1, <2>2, <2>3, SizeFollowsNode DEF Node
  <1> QED
    BY <1>1, <1>3 DEF Sizing

LEMMA TotalIs == Blocks!Total = SumOver(Sizing) /\ Blocks!Total' = SumOver(Sizing')
  <1>1. Blocks!Total = SumOver(Sizing)
    BY DEF Blocks!Total, Blocks!MapThenSumSet, Blocks!MapThenFoldSet, SumOver, MapThenSumSet,
       MapThenFoldSet, Sizing
  <1>2. Blocks!Total' = SumOver(Sizing')
    BY DEF Blocks!Total, Blocks!MapThenSumSet, Blocks!MapThenFoldSet, SumOver, MapThenSumSet,
       MapThenFoldSet, Sizing
  <1> QED
    BY <1>1, <1>2

LEMMA TotalKept == IInv /\ allocated = Blocks!Total /\ [Next]_vars => (allocated = Blocks!Total)'
  <1> SUFFICES ASSUME IInv, allocated = Blocks!Total, [Next]_vars
               PROVE  allocated' = Blocks!Total'
    OBVIOUS
  <1>1. IInv'
    BY StepInv
  <1>2. Sizes \subseteq Nat /\ Sizes \subseteq Int
    BY AllocatorOK
  <1>3. /\ IsFiniteSet(Tracked) /\ Sizing \in [Tracked -> Int]
        /\ allocated = SumOver(Sizing) /\ allocated \in Int
    BY <1>2, SizingTyped, TotalIs DEF IInv, TypeOK
  <1>4. IsFiniteSet(Tracked') /\ Sizing' \in [Tracked' -> Int] /\ allocated' \in Int
    <2>1. (IsFiniteSet(Tracked) /\ Sizing \in [Tracked -> Sizes])'
      BY <1>1, SizingTyped, PTL
    <2> QED
      BY <1>1, <1>2, <2>1 DEF IInv, TypeOK
  <1>5. /\ \A a \in Tracked : Sizing[a] = SpaceOf(a)
        /\ \A a \in Tracked' : Sizing'[a] = SpaceOf(a)'
    BY DEF Sizing
  <1>6. ASSUME NEW a \in Addrs \ Tracked, NEW n \in Sizes,
               Tracked' = Tracked \cup {a}, allocated' = allocated + n,
               SpaceOf(a)' = n, \A c \in Tracked : SpaceOf(c)' = SpaceOf(c)
        PROVE  allocated' = SumOver(Sizing')
    <2>1. /\ Sizing' \in [Tracked \cup {a} -> Int] /\ n \in Int /\ a \notin Tracked
          /\ Sizing'[a] = n /\ \A c \in Tracked : Sizing'[c] = Sizing[c]
      BY <1>2, <1>4, <1>5, <1>6
    <2>2. SumOver(Sizing') = SumOver(Sizing) + n
      <3> DEFINE D == Tracked
      <3> DEFINE old == Sizing
      <3> DEFINE new == Sizing'
      <3>1. /\ IsFiniteSet(D) /\ old \in [D -> Int] /\ a \notin D /\ n \in Int
            /\ new \in [D \cup {a} -> Int] /\ new[a] = n /\ \A b \in D : new[b] = old[b]
        BY <1>3, <2>1
      <3> HIDE DEF D, old, new
      <3>2. SumOver(new) = SumOver(old) + n
        BY ONLY <3>1, SumGrows
      <3> QED
        BY <3>2 DEF old, new
    <2> QED
      BY <1>3, <1>6, <2>2
  <1>7. ASSUME NEW a \in Tracked,
               Tracked' = Tracked \ {a}, allocated' = allocated - SpaceOf(a),
               \A c \in Tracked \ {a} : SpaceOf(c)' = SpaceOf(c)
        PROVE  allocated' = SumOver(Sizing')
    <2>1. PICK n \in Int : n = SpaceOf(a)
      BY <1>3, <1>5
    <2>2. /\ Sizing \in [Tracked' \cup {a} -> Int] /\ a \notin Tracked'
          /\ Sizing[a] = n /\ \A c \in Tracked' : Sizing[c] = Sizing'[c]
      <3>1. Tracked' \cup {a} = Tracked
        BY <1>7
      <3> QED
        BY <1>3, <1>5, <1>7, <2>1, <3>1
    <2>3. SumOver(Sizing) = SumOver(Sizing') + n
      BY <1>4, <2>2, SumGrows
    <2>4. SumOver(Sizing') \in Int
      BY <1>4, SumTyped
    <2> QED
      BY <1>3, <1>7, <2>1, <2>3, <2>4
  <1>8. CASE /\ Tracked' = Tracked /\ allocated' = allocated
             /\ \A c \in Tracked : SpaceOf(c)' = SpaceOf(c)
    <2>1. Sizing' = Sizing
      BY <1>8 DEF Sizing
    <2> QED
      BY <1>8, <2>1, TotalIs
  <1> QED
    BY <1>6, <1>7, <1>8, StepKinds, TotalIs

LEMMA AccountedInv == FirstCallDone /\ Spec => [](IInv /\ allocated = Blocks!Total)
  <1>1. FirstCallDone /\ Init => allocated = Blocks!Total
    <2> SUFFICES ASSUME FirstCallDone, Init PROVE SumOver(Sizing) = 0 /\ allocated = 0
      BY TotalIs
    <2>1. IInv
      BY InitInv
    <2>2. Tracked = {}
      BY <2>1, TrackedInHeap DEF Init, IInv
    <2>3. IsFiniteSet(DOMAIN Sizing) /\ DOMAIN Sizing = {}
      BY <2>2, FS_EmptySet DEF Sizing
    <2>4. PICK g : AddsUp(g, Sizing, {}) /\ SumOver(Sizing) = g[{}]
      BY <2>3, SumIs
    <2> QED
      BY <2>4, SumUnfolds DEF Init
  <1> QED
    BY <1>1, InitInv, StepInv, TotalKept, PTL DEF Spec

---------------------------------------------------------------------------
(* Theorems *)

(* The table stays sound under any number of threads: a node is in the     *)
(* bucket it is looked for in, is the only one of its block and goes       *)
(* before the block does (removeTrackNode, smartalloc.c 131-158).          *)
THEOREM TableIsSound == FirstCallDone /\ Spec => []NodesAreSound
  BY Inductive, PTL DEF IInv

(* The free of a live block finds it, whatever the other threads are doing *)
(* to its bucket meanwhile, and although the test whether the bucket is    *)
(* empty is made without the mutex.                                        *)
THEOREM LiveStaysTracked == FirstCallDone /\ Spec => []LiveIsTracked
  BY Inductive, PTL DEF IInv

(* "Attempt to free non-malloced space" is printed of wrong pointers only  *)
(* (smartalloc.c 173-183, 203-208).                                       *)
THEOREM NoFalseReport == FirstCallDone /\ Spec => []ReportsAreTrue
  BY Inductive, PTL DEF IInv

(* `allocated' is the space of the blocks in the table, and when no call   *)
(* is under way the table, the callers and libc agree on the blocks: none  *)
(* is leaked, lost or given twice (smartalloc.c 18, report_space).         *)
THEOREM SpaceIsAccounted == FirstCallDone /\ Spec => []SpaceAccounted
  <1>1. ASSUME IInv, \A t \in Threads : pc[t] = "idle"
        PROVE  Tracked = live /\ heap = live
    <2>1. \A t \in Threads : Held(t) = {}
      BY <1>1 DEF Held, New, Old, Adding, Removing
    <2>2. heap \subseteq live
      BY <1>1, <2>1 DEF IInv, NoneLost
    <2>3. live \subseteq Tracked /\ Tracked \subseteq heap
      BY <1>1, TrackedInHeap DEF IInv, LiveIsTracked
    <2> QED
      BY <2>2, <2>3
  <1>2. IInv /\ allocated = Blocks!Total => SpaceAccounted
    BY <1>1 DEF SpaceAccounted
  <1> QED
    BY <1>2, AccountedInv, PTL

(* Whatever the calls do between them, the table changes by whole blocks:  *)
(* one comes in with its size, one goes, and no other is touched           *)
(* (newTrackNode, removeTrackNode).                                        *)
THEOREM TableImplementsBlocks == FirstCallDone /\ Spec => ImplementsBlocks
  <1> DEFINE size == [a \in Tracked |-> SpaceOf(a)]
  <1>1. FirstCallDone /\ Init => Blocks!Init
    <2> SUFFICES ASSUME FirstCallDone, Init PROVE Tracked = {}
      BY DEF Blocks!Init
    <2> QED
      BY InitInv, TrackedInHeap DEF Init, IInv
  <1>2. IInv /\ [Next]_vars => [Blocks!Add \/ Blocks!Drop]_size
    <2> SUFFICES ASSUME IInv, [Next]_vars
                 PROVE  Blocks!Add \/ Blocks!Drop \/ size' = size
      OBVIOUS
    <2>1. /\ DOMAIN size = Tracked /\ \A a \in Tracked : size[a] = SpaceOf(a)
          /\ size' = [a \in Tracked' |-> SpaceOf(a)']
      OBVIOUS
    <2>2. ASSUME NEW a \in Addrs \ Tracked, NEW n \in Sizes, Tracked' = Tracked \cup {a},
                 SpaceOf(a)' = n, \A c \in Tracked : SpaceOf(c)' = SpaceOf(c)
          PROVE  Blocks!Add
      <3>1. size' = [b \in DOMAIN size \cup {a} |-> IF b = a THEN n ELSE size[b]]
        <4> HIDE DEF size
        <4> QED
          BY <2>1, <2>2
      <3> QED
        BY <2>1, <3>1 DEF Blocks!Add
    <2>3. ASSUME NEW a \in Tracked, Tracked' = Tracked \ {a},
                 \A c \in Tracked \ {a} : SpaceOf(c)' = SpaceOf(c)
          PROVE  Blocks!Drop
      <3>1. size' = [b \in DOMAIN size \ {a} |-> size[b]]
        <4> HIDE DEF size
        <4> QED
          BY <2>1, <2>3
      <3> QED
        BY <2>1, <3>1 DEF Blocks!Drop
    <2>4. CASE Tracked' = Tracked /\ \A c \in Tracked : SpaceOf(c)' = SpaceOf(c)
      BY <2>4
    <2> QED
      BY <2>2, <2>3, <2>4, StepKinds
  <1> QED
    BY <1>1, <1>2, Inductive, PTL DEF Spec, ImplementsBlocks, Blocks!Spec

(* The variables of the allocator keep their types.                        *)
THEOREM AllocatorTypes == FirstCallDone /\ Spec => []TypeOK
  BY Inductive, PTL DEF IInv
=============================================================================
