----------------------------- MODULE SmartAlloc -----------------------------
(***************************************************************************)
(* smartalloc.c: malloc and free with a hash table of the blocks that are  *)
(* allocated, to be called by several threads.  The table is changed under *)
(* the mutex `mutt'; the test whether a bucket is empty and the first      *)
(* call's initialisation are done without it.                              *)
(*                                                                         *)
(* A thread takes one step at a time of the call it is in.  A critical     *)
(* section is two steps, the reads (with the lock taken) and the writes    *)
(* (with the lock given back), so that a section that is not exclusive     *)
(* loses updates here as it would in C.  What a block holds is left out,   *)
(* and with it the margins and the fill patterns.                          *)
(***************************************************************************)
EXTENDS Integers, Sequences, SequencesExt

CONSTANTS Threads,       \* the threads that call the allocator
          Nobody,        \* no thread, the holder of a free mutex
          Addrs,         \* where libc's malloc may put a block
          Sizes,         \* how much a caller may ask for
          HASH_SIZE,     \* number of buckets (113)
          FirstCallDone, \* whether a first call has ended before the threads start
          Strays,        \* pointers smartalloc never returned that are passed
                         \* to free or realloc all the same
          MaxCalls       \* bound: calls made in all

NULL == 0

ASSUME AllocatorOK ==
  /\ Nobody \notin Threads
  /\ Addrs \subseteq Nat \ {NULL}
  /\ Strays \subseteq Nat \ (Addrs \cup {NULL})
  /\ Sizes \subseteq Nat
  /\ HASH_SIZE \in Nat \ {0}
  /\ FirstCallDone \in BOOLEAN
  /\ MaxCalls \in Nat

VARIABLES
  heap,        \* the blocks libc has handed out and not taken back
  track_hash,  \* per bucket, the tracked blocks [data, space], in `next' order
  allocated,   \* the space they take together
  inited,      \* the table was cleared
  mutt,        \* the holder of the mutex
  pc,          \* per thread, its next step
  call,        \* per thread, the call it is in and its local pointers
  seen,        \* per thread, what it read in the critical section
  live,        \* history: blocks returned to callers and not passed back
  reported,    \* history: whether each free reported as "non-malloced" was right
  fate,        \* whether the process is "running", "exited" or "crashed"
  left         \* calls the callers may still make

table == <<heap, track_hash, allocated, inited, mutt, fate>>
vars  == <<table, pc, call, seen, live, reported, left>>

Buckets == 0 .. HASH_SIZE - 1

smartalloc_hash(a) == a % HASH_SIZE

Node == [data : Addrs, space : Sizes]

(* `good' is a history: the pointer passed was a live block's.             *)
NoCall == [op |-> "none", ptr |-> NULL, blk |-> NULL, bytes |-> 0, good |-> TRUE]

Init ==
  /\ heap = {}
  /\ track_hash = [b \in Buckets |-> << >>]
  /\ allocated = 0
  /\ inited = FirstCallDone
  /\ mutt = Nobody
  /\ pc = [t \in Threads |-> "idle"]
  /\ call = [t \in Threads |-> NoCall]
  /\ seen = [t \in Threads |-> [chain |-> << >>, sum |-> 0]]
  /\ live = {}
  /\ reported = {}
  /\ fate = "running"
  /\ left = MaxCalls

---------------------------------------------------------------------------
(* The calls *)

(* smartalloc, and smartvalloc, which differs in what libc is asked for    *)
StartAlloc(t, n) ==
  /\ fate = "running" /\ pc[t] = "idle"
  /\ call' = [call EXCEPT ![t] = [NoCall EXCEPT !.op = "alloc", !.bytes = n]]
  /\ pc' = [pc EXCEPT ![t] = "malloc"]
  /\ UNCHANGED <<table, seen, live, reported>>

(* smartfree *)
StartFree(t, p) ==
  /\ fate = "running" /\ pc[t] = "idle"
  /\ call' = [call EXCEPT ![t] = [NoCall EXCEPT !.op = "free", !.ptr = p,
                                                !.good = (p \in live)]]
  /\ live' = live \ {p}
  /\ pc' = [pc EXCEPT ![t] = "test"]
  /\ UNCHANGED <<table, seen, reported>>

(* smartrealloc of a block (of NULL it is smartalloc)                      *)
StartRealloc(t, p, n) ==
  /\ fate = "running" /\ pc[t] = "idle"
  /\ call' = [call EXCEPT ![t] = [NoCall EXCEPT !.op = "realloc", !.ptr = p,
                                  !.bytes = n, !.good = (p \in live)]]
  /\ live' = live \ {p}
  /\ pc' = [pc EXCEPT ![t] = "test"]
  /\ UNCHANGED <<table, seen, reported>>

---------------------------------------------------------------------------
(* Their steps *)

Bucket(a) == track_hash[smartalloc_hash(a)]

Goto(t, step) == pc' = [pc EXCEPT ![t] = step]

(* Mutant: the margin is added to the block's address twice.               *)
MallocShifted(t) ==
  /\ pc[t] = "malloc"
  /\ \E a \in Addrs \ heap :
       /\ heap' = heap \cup {a}
       /\ call' = [call EXCEPT ![t].blk = a + 1]
  /\ Goto(t, "init")
  /\ UNCHANGED <<track_hash, allocated, inited, mutt, fate, seen, live, reported>>

(* libc's malloc of the block *)
Malloc(t) ==
  /\ pc[t] = "malloc"
  /\ \E a \in Addrs \ heap :
       /\ heap' = heap \cup {a}
       /\ call' = [call EXCEPT ![t].blk = a]
  /\ Goto(t, "init")
  /\ UNCHANGED <<track_hash, allocated, inited, mutt, fate, seen, live, reported>>

(* libc's malloc returns NULL, for the block or for its node: exit(1)      *)
MallocFails(t) ==
  /\ pc[t] \in {"malloc", "enter"}
  /\ fate' = "exited"
  /\ UNCHANGED <<heap, track_hash, allocated, inited, mutt, pc, call, seen, live, reported>>

(* smartalloc_track: if (inited == 0)                                      *)
TestInited(t) ==
  /\ pc[t] = "init"
  /\ Goto(t, IF inited THEN "enter" ELSE "wipe")
  /\ UNCHANGED <<table, call, seen, live, reported>>

Wipe(t) ==
  /\ pc[t] = "wipe"
  /\ track_hash' = [b \in Buckets |-> << >>]
  /\ inited' = TRUE
  /\ Goto(t, "enter")
  /\ UNCHANGED <<heap, allocated, mutt, fate, call, seen, live, reported>>

(* Mutant: the mutex is not waited for when a block is added.              *)
LockToAddAtOnce(t) ==
  /\ pc[t] = "enter"
  /\ mutt' = t
  /\ seen' = [seen EXCEPT ![t] = [chain |-> Bucket(call[t].blk), sum |-> allocated]]
  /\ Goto(t, "link")
  /\ UNCHANGED <<heap, track_hash, allocated, inited, fate, call, live, reported>>

(* pthread_mutex_lock, and what the additions read                         *)
LockToAdd(t) ==
  /\ pc[t] = "enter"
  /\ mutt = Nobody
  /\ mutt' = t
  /\ seen' = [seen EXCEPT ![t] = [chain |-> Bucket(call[t].blk), sum |-> allocated]]
  /\ Goto(t, "link")
  /\ UNCHANGED <<heap, track_hash, allocated, inited, fate, call, live, reported>>

(* The node goes in front of its bucket and the mutex is given back.  With *)
(* that smartalloc returns the block, and smartrealloc goes on.            *)
Link(t) ==
  /\ pc[t] = "link"
  /\ track_hash' = [track_hash EXCEPT ![smartalloc_hash(call[t].blk)] =
       <<[data |-> call[t].blk, space |-> call[t].bytes]>> \o seen[t].chain]
  /\ allocated' = seen[t].sum + call[t].bytes
  /\ mutt' = Nobody
  /\ IF call[t].op = "realloc" THEN Goto(t, "release") /\ UNCHANGED live
     ELSE Goto(t, "idle") /\ live' = live \cup {call[t].blk}
  /\ UNCHANGED <<heap, inited, fate, call, seen, reported>>

(* "Attempt to free non-malloced space"                                    *)
Report(t) ==
  /\ reported' = reported \cup {~ call[t].good}
  /\ Goto(t, "idle")

(* removeTrackNode: the bucket is looked at without the mutex              *)
TestBucket(t) ==
  /\ pc[t] = "test"
  /\ IF Bucket(call[t].ptr) = << >> THEN Report(t)
     ELSE Goto(t, "remove") /\ UNCHANGED reported
  /\ UNCHANGED <<table, call, seen, live>>

(* Mutant: the mutex is not waited for when a block is removed.            *)
LockToRemoveAtOnce(t) ==
  /\ pc[t] = "remove"
  /\ mutt' = t
  /\ seen' = [seen EXCEPT ![t] = [chain |-> Bucket(call[t].ptr), sum |-> allocated]]
  /\ Goto(t, "unlink")
  /\ UNCHANGED <<heap, track_hash, allocated, inited, fate, call, live, reported>>

(* pthread_mutex_lock; the bucket may be empty by now, and its first node  *)
(* is read all the same                                                    *)
LockToRemove(t) ==
  /\ pc[t] = "remove"
  /\ mutt = Nobody
  /\ mutt' = t
  /\ IF Bucket(call[t].ptr) = << >> THEN fate' = "crashed" /\ UNCHANGED <<seen, pc>>
     ELSE /\ seen' = [seen EXCEPT ![t] = [chain |-> Bucket(call[t].ptr), sum |-> allocated]]
          /\ Goto(t, "unlink")
          /\ UNCHANGED fate
  /\ UNCHANGED <<heap, track_hash, allocated, inited, call, live, reported>>

(* The first node of the block in what was read, 0 when there is none.     *)
Found(t) == SelectInSeq(seen[t].chain, LAMBDA n : n.data = call[t].ptr)

(* Mutant: the node is found and stays in its bucket.                      *)
UnlinkForgotten(t) ==
  /\ pc[t] = "unlink" /\ Found(t) # 0
  /\ track_hash' = track_hash
  /\ allocated' = seen[t].sum - seen[t].chain[Found(t)].space
  /\ mutt' = Nobody
  /\ Goto(t, IF call[t].op = "realloc" THEN "malloc" ELSE "release")
  /\ UNCHANGED <<heap, inited, fate, call, seen, live, reported>>

(* Mutant: the space of a block that moves is counted twice.               *)
UnlinkNotCounted(t) ==
  /\ pc[t] = "unlink" /\ Found(t) # 0
  /\ track_hash' = [track_hash EXCEPT ![smartalloc_hash(call[t].ptr)] =
                      RemoveAt(seen[t].chain, Found(t))]
  /\ allocated' = IF call[t].op = "realloc" THEN seen[t].sum
                  ELSE seen[t].sum - seen[t].chain[Found(t)].space
  /\ mutt' = Nobody
  /\ Goto(t, IF call[t].op = "realloc" THEN "malloc" ELSE "release")
  /\ UNCHANGED <<heap, inited, fate, call, seen, live, reported>>

(* The node is cut out of its bucket and the mutex is given back;          *)
(* smartrealloc then allocates, smartfree goes on to release.              *)
Unlink(t) ==
  /\ pc[t] = "unlink" /\ Found(t) # 0
  /\ track_hash' = [track_hash EXCEPT ![smartalloc_hash(call[t].ptr)] =
                      RemoveAt(seen[t].chain, Found(t))]
  /\ allocated' = seen[t].sum - seen[t].chain[Found(t)].space
  /\ mutt' = Nobody
  /\ Goto(t, IF call[t].op = "realloc" THEN "malloc" ELSE "release")
  /\ UNCHANGED <<heap, inited, fate, call, seen, live, reported>>

(* Mutant: the mutex is kept when the block is not found.                  *)
NotFoundKeepsLock(t) ==
  /\ pc[t] = "unlink" /\ Found(t) = 0
  /\ Report(t)
  /\ UNCHANGED <<heap, track_hash, allocated, inited, mutt, fate, call, seen, live>>

NotFound(t) ==
  /\ pc[t] = "unlink" /\ Found(t) = 0
  /\ mutt' = Nobody
  /\ Report(t)
  /\ UNCHANGED <<heap, track_hash, allocated, inited, fate, call, seen, live>>

(* freechecks, and libc's free of the block and of its node; smartrealloc  *)
(* has copied the old block and returns the new one                        *)
Release(t) ==
  /\ pc[t] = "release"
  /\ heap' = heap \ {call[t].ptr}
  /\ live' = IF call[t].op = "realloc" THEN live \cup {call[t].blk} ELSE live
  /\ Goto(t, "idle")
  /\ UNCHANGED <<track_hash, allocated, inited, mutt, fate, call, seen, reported>>

Step(t) ==
  /\ fate = "running"
  /\ \/ Malloc(t) \/ MallocFails(t) \/ TestInited(t) \/ Wipe(t) \/ LockToAdd(t) \/ Link(t)
     \/ TestBucket(t) \/ LockToRemove(t) \/ Unlink(t) \/ NotFound(t) \/ Release(t)

---------------------------------------------------------------------------
(* The callers *)

(* A caller passes back what somebody was given, once, or a stray pointer. *)
Call(t) ==
  \/ \E n \in Sizes : StartAlloc(t, n)
  \/ \E p \in live \cup Strays :
       StartFree(t, p) \/ \E n \in Sizes : StartRealloc(t, p, n)

Next ==
  \E t \in Threads :
    \/ left > 0 /\ Call(t) /\ left' = left - 1
    \/ Step(t) /\ UNCHANGED left

Spec == Init /\ [][Next]_vars

(* The threads are scheduled; the mutex is not fair to them, but calls are *)
(* finitely many.                                                          *)
FairSpec == Spec /\ \A t \in Threads : WF_vars(Step(t) /\ UNCHANGED left)

---------------------------------------------------------------------------
(* Observations the properties are about *)

Tracked == {a \in Addrs : \E k \in DOMAIN Bucket(a) : Bucket(a)[k].data = a}

SpaceOf(a) == Bucket(a)[SelectInSeq(Bucket(a), LAMBDA n : n.data = a)].space

Blocks == INSTANCE LiveBlocks WITH size <- [a \in Tracked |-> SpaceOf(a)]

---------------------------------------------------------------------------
(* Properties *)

(* Every variable keeps its type.                                          *)
TypeOK ==
  /\ heap \subseteq Addrs
  /\ track_hash \in [Buckets -> Seq(Node)]
  /\ allocated \in Int
  /\ inited \in BOOLEAN
  /\ mutt \in Threads \cup {Nobody}
  /\ pc \in [Threads -> {"idle", "malloc", "init", "wipe", "enter", "link",
                         "test", "remove", "unlink", "release"}]
  /\ call \in [Threads -> [op : {"none", "alloc", "free", "realloc"},
                           ptr : Addrs \cup Strays \cup {NULL}, blk : Addrs \cup {NULL},
                           bytes : Sizes \cup {0}, good : BOOLEAN]]
  /\ seen \in [Threads -> [chain : Seq(Node), sum : Int]]
  /\ live \subseteq Addrs
  /\ reported \subseteq BOOLEAN
  /\ fate \in {"running", "exited", "crashed"}
  /\ left \in Nat

(* What removeTrackNode's walk relies on: a node is in the bucket where    *)
(* its block is looked for, no block has two, none outlives its block.     *)
NodesAreSound ==
  \A b \in Buckets : \A k \in DOMAIN track_hash[b] :
    /\ smartalloc_hash(track_hash[b][k].data) = b
    /\ track_hash[b][k].data \in heap
    /\ \A l \in DOMAIN track_hash[b] :
         track_hash[b][l].data = track_hash[b][k].data => l = k

(* A block that was returned and not passed back is tracked, whatever the  *)
(* other threads are doing to its bucket: its free will find it.           *)
LiveIsTracked == live \subseteq Tracked

(* smartalloc.c:18 "report_space will return the number of bytes of        *)
(* unfreed memory": outside the critical sections (whose writes are one    *)
(* step here) `allocated' is the sum over the table, and between calls the *)
(* table, the callers and libc agree on the blocks.                        *)
SpaceAccounted ==
  /\ allocated = Blocks!Total
  /\ (fate = "running" /\ \A t \in Threads : pc[t] = "idle") =>
       Tracked = live /\ heap = live

(* smartalloc.c:180 "Attempt to free non-malloced space": nobody is told   *)
(* so of a block that smartalloc returned and nobody freed.                *)
ReportsAreTrue == FALSE \notin reported

(* smartalloc.c:15 "If you make any of errors 1-3 above, smartalloc will   *)
(* report the error": a wrong pointer is reported and does not crash       *)
(* removeTrackNode.                                                        *)
BadFreeDoesNotCrash == fate # "crashed"

(* The table under its mutex implements the abstract table of blocks.      *)
ImplementsBlocks == Blocks!Spec

(* No call waits for ever, with wrong pointers among them or not: every    *)
(* way out of a critical section gives the mutex back.                     *)
EveryCallReturns ==
  \A t \in Threads : pc[t] # "idle" ~> pc[t] = "idle" \/ fate # "running"
=============================================================================
