--------------------------- MODULE Lifecycle_proofs ---------------------------
(***************************************************************************)
(* Theorems about module Lifecycle, for every number of blocks, buckets    *)
(* and sockets and at whatever step SIGINT comes: what terminate walks is  *)
(* allocated, and it leaks nothing but a block that was being inserted.    *)
(***************************************************************************)
EXTENDS Lifecycle, SmartAlloc_proofs

---------------------------------------------------------------------------
(* The inductive invariant *)

(* Where main waits for a block, and where it has one in hand.             *)
Getting == {"got_ll", "got_flows", "got_row", "got_node"}
Holding == Getting \cup {"link_row", "link_node"}

Before_ll    == {"tcpSetup", "signal", "make_ll", "got_ll"}
Before_flows == Before_ll \cup {"make_flows", "got_flows"}

MainPlaces == Holding \cup Before_flows \cup {"serve"}

Control ==
  /\ who \in {main, handler}
  /\ at \in [{main, handler} -> MainPlaces \cup {"terminate"} \cup Lists]
  /\ at[main] \in MainPlaces
  /\ at[handler] \in {"terminate"} \cup Lists
  /\ job.list \in Lists
  /\ root \in [Lists -> Addrs \cup {NULL}]
  /\ next \in [Addrs -> Addrs \cup {NULL}]
  /\ head \in [Addrs -> Addrs \cup {NULL}]
  /\ who = main => pc[handler] = "idle" /\ at[handler] = "terminate"

(* main only allocates and the handler only frees, and only what is live.  *)
Calling ==
  /\ pc[main] \in Adding \cup {"idle", "malloc", "wipe"}
  /\ pc[main] # "idle" => call[main].op = "alloc" /\ at[main] \in Getting
  /\ pc[main] = "malloc" => Got = NULL
  /\ pc[main] = "idle" /\ at[main] \in Holding => Got \in live
  /\ pc[handler] \in Removing \cup {"idle", "release"}
  /\ pc[handler] # "idle" => call[handler].op = "free"
  /\ pc[handler] \in Removing => call[handler].good

Ends ==
  /\ reported = {} /\ fate # "crashed"
  /\ fate = "exited" /\ who = handler =>
       pc[handler] = "idle" /\ \A L \in Lists : root[L] = NULL

(* Until the first call has cleared the table, main is at its first call   *)
(* and there is nothing the handler could free.                            *)
Unused ==
  /\ TypeOK /\ ~ inited
  /\ live = {}
  /\ \A L \in Lists : root[L] = NULL
  /\ pc[handler] = "idle"
  /\ pc[main] \in {"idle", "malloc", "init", "wipe"}
  /\ pc[main] = "idle" => at[main] \in {"tcpSetup", "signal", "make_ll"}
  /\ pc[main] # "idle" => at[main] = "got_ll" /\ call[main].bytes \in Sizes
  /\ heap = IF pc[main] \in {"init", "wipe"} THEN {Got} ELSE {}

Roots ==
  /\ who = main /\ at[main] \in Before_ll => root["ll"] = NULL
  /\ who = main /\ at[main] \in Before_flows => root["flows"] = NULL
  /\ at[handler] = "flows" => root["ll"] = NULL

(* The blocks that are in the lists, or were: all but the one in hand.     *)
Placed == live \ InHand

(* R is the rows: a row leads to rows and has nodes, a node leads to nodes.*)
Rows(R) ==
  /\ R \subseteq Placed
  /\ \A L \in Lists : root[L] \in R \cup {NULL}
  /\ \A b \in R : next[b] \in R \cup {NULL} /\ head[b] \in (Placed \ R) \cup {NULL}
  /\ \A b \in Placed \ R : next[b] \in (Placed \ R) \cup {NULL} /\ head[b] = NULL

(* No block is pointed to twice, so that freeing it through one pointer    *)
(* leaves no other.                                                        *)
Once ==
  /\ \A b, c \in Placed : next[b] # NULL /\ next[b] = next[c] => b = c
  /\ \A b, c \in Placed : head[b] # NULL /\ head[b] = head[c] => b = c
  /\ \A b, c \in Placed : head[b] # NULL => head[b] # next[c]
  /\ \A b \in Placed, L \in Lists : root[L] # NULL => root[L] # next[b]
  /\ root["ll"] # NULL => root["ll"] # root["flows"]

(* S has the first rows, and with a block what the block points to.        *)
Closed(S) ==
  /\ \A L \in Lists : root[L] \in S \cup {NULL}
  /\ \A b \in S : next[b] \in S \cup {NULL} /\ head[b] \in S \cup {NULL}

(* All that is placed is reached from the two lists.                       *)
Reached == \A S \in SUBSET Placed : Closed(S) => Placed \subseteq S

(* What main relies on between two steps of an insertion; what is in no    *)
(* list has no nodes.                                                      *)
Inserting(R) ==
  who = main =>
    /\ at[main] \in {"got_node", "link_node"} => job.row \in R
    /\ at[main] = "link_row" => next[Got] = NULL
    /\ at[main] = "link_node" => next[Got] = head[job.row]
    /\ \A b \in Addrs \ R : head[b] = NULL

Shape == \E R \in SUBSET Addrs : Rows(R) /\ Inserting(R)

LifeInv ==
  /\ IInv \/ Unused
  /\ Control /\ Calling /\ Ends /\ Roots
  /\ Once /\ Reached /\ Shape

---------------------------------------------------------------------------
(* The allocator under main and the handler *)

LEMMA Contexts ==
  /\ main \in Threads /\ handler \in Threads /\ main # handler
  /\ \A t \in Threads : t = main \/ t = handler
  BY LifecycleOK

LEMMA Basics ==
  ASSUME LifeInv
  PROVE  /\ TypeOK /\ live \subseteq heap /\ live \subseteq Addrs /\ NULL \notin Addrs
         /\ Placed \subseteq Addrs
         /\ Threads = {main, handler} /\ main # handler
  <1>1. TypeOK
    BY DEF LifeInv, IInv, Unused
  <1>2. live \subseteq heap
    BY TrackedInHeap DEF LifeInv, IInv, Unused, LiveIsTracked
  <1> QED
    BY <1>1, <1>2, AddressesAre, LifecycleOK DEF TypeOK, Placed

LEMMA VarsKept == IInv /\ UNCHANGED vars => IInv'
  BY StepInv

(* The end of the process leaves the table as it is.                       *)
LEMMA ExitKeeps ==
  ASSUME IInv, Exit
  PROVE  IInv'
  <1> USE DEF Exit
  <1>1. TypeOK' /\ ReportsAreTrue'
    BY DEF IInv, TypeOK, ReportsAreTrue
  <1>2. Tracked' = Tracked /\ New(main)' = New(main) /\ Old(main)' = Old(main)
        /\ Held(main)' = Held(main)
    BY SameTable DEF New, Old, Held
  <1>3. ThreadInv(main)'
    BY <1>2, SameTable, Contexts DEF IInv, ThreadInv, CallTyped, Locked, Owns
  <1> QED
    BY <1>1, <1>2, <1>3, Quiet, Contexts

(* main's first call clears an empty table; from then on the invariant of  *)
(* the allocator holds.                                                    *)
LEMMA WipeBegins ==
  ASSUME Unused, Control, Calling, Ends, Wipe(main), left' = left
  PROVE  IInv'
  <1> USE DEF Wipe, Goto
  <1>1. /\ pc[main] = "wipe" /\ pc'[main] = "enter" /\ pc'[handler] = "idle"
        /\ call[main].op = "alloc" /\ call[main].bytes \in Sizes
        /\ heap = {Got} /\ live = {} /\ reported = {}
    BY Contexts DEF Unused, Calling, Ends, TypeOK
  <1>2. Got \in Addrs
    BY <1>1 DEF Unused, TypeOK
  <1>3. TypeOK'
    <2>1. track_hash' \in [Buckets -> Seq(Node)]
      OBVIOUS
    <2> QED
      BY <2>1 DEF Unused, TypeOK
  <1>4. \A b \in Buckets : track_hash'[b] = << >>
    OBVIOUS
  <1>5. Tracked' = {}
    <2>1. \A a \in Addrs : Bucket(a)' = << >>
      BY <1>4, HashInRange, AddressesAre DEF Bucket, smartalloc_hash
    <2>2. \A k : k \notin DOMAIN << >>
      OBVIOUS
    <2> QED
      BY <2>1, <2>2 DEF Tracked
  <1>6. /\ New(main)' = {Got} /\ Old(main)' = {} /\ Held(main)' = {Got}
        /\ New(handler)' = {} /\ Old(handler)' = {} /\ Held(handler)' = {}
    BY <1>1 DEF New, Old, Held, Adding, Removing, Got
  <1>7. ThreadInv(main)'
    BY <1>1, <1>2, <1>5, <1>6 DEF ThreadInv, CallTyped, Locked, Owns, Adding, Removing, Got
  <1>8. ThreadInv(handler)'
    BY <1>1, <1>5, <1>6 DEF ThreadInv, CallTyped, Locked, Owns, Adding, Removing
  <1>9. \A t \in Threads : ThreadInv(t)'
    BY <1>7, <1>8, Contexts
  <1>10. Apart'
    BY <1>6, Contexts DEF Apart
  <1>11. NoneLost' /\ IsFiniteSet(heap')
    BY <1>1, <1>6, Contexts, FS_Singleton DEF NoneLost
  <1>12. NodesAreSound' /\ LiveIsTracked' /\ ReportsAreTrue' /\ inited'
    BY <1>1, <1>4 DEF NodesAreSound, LiveIsTracked, ReportsAreTrue
  <1> QED
    BY <1>3, <1>9, <1>10, <1>11, <1>12 DEF IInv

(* A step of main's call: it ends with the block it asked for, live and    *)
(* in hand; nothing else becomes live or stops being it.                   *)
LEMMA MainSteps ==
  ASSUME LifeInv, who = main, Step(main), left' = left,
         UNCHANGED <<at, root>>
  PROVE  /\ IInv' \/ Unused'
         /\ pc'[handler] = pc[handler] /\ call'[handler] = call[handler]
         /\ reported' = reported /\ fate' # "crashed"
         /\ pc'[main] \in Adding \cup {"idle", "wipe", "malloc"}
         /\ call'[main].op = "alloc" /\ at[main] \in Getting
         /\ pc'[main] = "malloc" => Got' = NULL
         /\ pc'[main] = "idle" => Got' \in live'
         /\ live' \ {Got'} = live \ {Got}
  <1> USE DEF Goto
  <1>1. /\ Control /\ Calling /\ TypeOK /\ fate = "running"
        /\ pc[main] \in Adding \cup {"idle", "malloc", "wipe"}
        /\ pc[main] # "idle" => call[main].op = "alloc" /\ at[main] \in Getting
    BY DEF LifeInv, IInv, Unused, Calling, Step
  <1>2. /\ live \subseteq heap /\ live \subseteq Addrs /\ NULL \notin Addrs
        /\ main \in Threads /\ handler \in Threads /\ main # handler
    BY Basics, Contexts
  <1>3. call[main] \in Calls /\ call \in [Threads -> Calls]
    BY <1>1, <1>2 DEF TypeOK, Calls
  <1>4. CASE Malloc(main)
    <2>1. PICK a \in Addrs \ heap :
            heap' = heap \cup {a} /\ call' = [call EXCEPT ![main].blk = a]
      BY <1>4 DEF Malloc
    <2>2. /\ call'[main].blk = a /\ call'[main].op = call[main].op
          /\ call'[main].bytes = call[main].bytes
          /\ call'[handler] = call[handler]
          /\ call' = [call EXCEPT ![main] = [call[main] EXCEPT !.blk = a]]
      BY <1>2, <1>3, <2>1 DEF Calls
    <2>3. /\ pc[main] = "malloc" /\ pc' = [pc EXCEPT ![main] = "init"]
          /\ pc'[main] = "init" /\ pc'[handler] = pc[handler]
          /\ UNCHANGED <<track_hash, allocated, inited, mutt, fate, seen, live, reported>>
      BY <1>1, <1>2, <1>4 DEF Malloc, TypeOK
    <2>4. ASSUME Unused PROVE Unused'
      <3>1. call' \in [Threads -> Calls]
        BY <1>2, <1>3, <2>1, <2>2, BlockSet
      <3>2. TypeOK'
        BY <2>1, <2>3, <3>1, <1>1 DEF TypeOK, Calls
      <3>3. heap = {}
        BY <2>3, <2>4 DEF Unused
      <3> QED
        BY <2>1, <2>2, <2>3, <2>4, <3>2, <3>3 DEF Unused, Got
    <2>5. IInv' \/ Unused'
      BY <1>2, <1>4, <2>4, MallocKeeps DEF LifeInv
    <2>6. Got = NULL
      BY <1>1, <2>3 DEF Calling
    <2> QED
      BY <1>1, <1>2, <2>1, <2>2, <2>3, <2>5, <2>6 DEF Adding, Ends, Got, LifeInv
  <1>5. CASE MallocFails(main)
    <2>1. /\ pc[main] # "idle" /\ fate' = "exited"
          /\ UNCHANGED <<heap, track_hash, allocated, inited, mutt, pc, call, seen, live, reported>>
      BY <1>5 DEF MallocFails
    <2>2. Unused => Unused'
      BY <2>1 DEF Unused, TypeOK, Got
    <2>3. IInv' \/ Unused'
      BY <1>2, <1>5, <2>2, MallocFailsKeeps DEF LifeInv
    <2> QED
      BY <1>1, <2>1, <2>3 DEF Calling, Got
  <1>6. CASE TestInited(main)
    <2>1. /\ pc[main] = "init" /\ pc'[main] = IF inited THEN "enter" ELSE "wipe"
          /\ pc'[handler] = pc[handler]
          /\ pc' = [pc EXCEPT ![main] = IF inited THEN "enter" ELSE "wipe"]
          /\ UNCHANGED <<table, call, seen, live, reported>>
      BY <1>1, <1>2, <1>6 DEF TestInited, TypeOK
    <2>2. ASSUME Unused PROVE Unused'
      <3>1. pc'[main] = "wipe" /\ pc' = [pc EXCEPT ![main] = "wipe"]
        BY <2>1, <2>2 DEF Unused
      <3>2. TypeOK'
        BY <1>1, <2>1, <3>1 DEF TypeOK, table
      <3> QED
        BY <2>1, <2>2, <3>1, <3>2 DEF Unused, Got, table
    <2>3. IInv' \/ Unused'
      BY <1>2, <1>6, <2>2, TestInitedKeeps DEF LifeInv
    <2> QED
      BY <1>1, <2>1, <2>3 DEF Adding, Got, table
  <1>7. CASE Wipe(main)
    <2>1. /\ pc[main] = "wipe" /\ pc'[main] = "enter" /\ pc'[handler] = pc[handler]
          /\ UNCHANGED <<fate, call, live, reported>>
      BY <1>1, <1>2, <1>7 DEF Wipe, TypeOK
    <2>2. ~ IInv
      BY <1>2, <2>1 DEF IInv, ThreadInv, CallTyped
    <2>3. IInv'
      BY <1>7, <2>2, WipeBegins DEF LifeInv
    <2> QED
      BY <1>1, <2>1, <2>3 DEF Adding, Got
  <1>8. CASE LockToAdd(main)
    <2>1. /\ pc[main] = "enter" /\ pc'[main] = "link" /\ pc'[handler] = pc[handler]
          /\ UNCHANGED <<fate, call, live, reported>>
      BY <1>1, <1>2, <1>8 DEF LockToAdd, TypeOK
    <2>2. IInv'
      BY <1>2, <1>8, <2>1, LockToAddKeeps DEF LifeInv, Unused
    <2> QED
      BY <1>1, <2>1, <2>2 DEF Adding, Got
  <1>9. CASE Link(main)
    <2>1. pc[main] = "link" /\ call[main].op = "alloc"
      BY <1>1, <1>9 DEF Link
    <2>2. /\ pc'[main] = "idle" /\ pc'[handler] = pc[handler]
          /\ live' = live \cup {call[main].blk}
          /\ UNCHANGED <<fate, call, reported>>
      BY <1>1, <1>2, <1>9, <2>1 DEF Link, TypeOK
    <2>3. IInv'
      BY <1>2, <1>9, <2>1, LinkKeeps DEF LifeInv, Unused
    <2> QED
      BY <1>1, <2>1, <2>2, <2>3 DEF Got
  <1>10. pc[main] \notin {"test", "remove", "unlink", "release"}
    BY <1>1 DEF Adding
  <1>11. ~ TestBucket(main) /\ ~ LockToRemove(main) /\ ~ Unlink(main) /\ ~ NotFound(main)
         /\ ~ Release(main)
    BY <1>10 DEF TestBucket, LockToRemove, Unlink, NotFound, Release
  <1> QED
    BY <1>4, <1>5, <1>6, <1>7, <1>8, <1>9, <1>11 DEF Step

(* A step of the handler's: the block was live when it was passed, so it   *)
(* is found, and nothing is reported.                                      *)
LEMMA HandlerSteps ==
  ASSUME LifeInv, who = handler, Step(handler), left' = left
  PROVE  /\ IInv'
         /\ pc'[main] = pc[main] /\ call'[main] = call[main]
         /\ reported' = {} /\ fate' = "running"
         /\ pc'[handler] \in Removing \cup {"idle", "release"}
         /\ call'[handler] = call[handler]
         /\ pc[handler] # "idle"
         /\ pc'[handler] \in Removing => pc[handler] \in Removing
         /\ live' = live
  <1> USE DEF Goto
  <1>1. /\ Control /\ Calling /\ TypeOK /\ fate = "running" /\ reported = {}
        /\ pc[handler] \in Removing \cup {"idle", "release"}
        /\ pc[handler] # "idle" => call[handler].op = "free"
        /\ pc[handler] \in Removing => call[handler].good
    BY DEF LifeInv, IInv, Unused, Calling, Ends, Step
  <1>2. main \in Threads /\ handler \in Threads /\ main # handler
    BY Contexts
  <1>3. pc[handler] # "idle"
    BY DEF Step, Malloc, MallocFails, TestInited, Wipe, LockToAdd, Link, TestBucket,
           LockToRemove, Unlink, NotFound, Release
  <1>4. IInv
    BY <1>3 DEF LifeInv, Unused
  <1>5. pc[handler] \in Removing =>
          /\ call[handler].ptr \in Addrs /\ Bucket(call[handler].ptr) # << >>
          /\ \E k \in 1 .. Len(Bucket(call[handler].ptr)) :
               Bucket(call[handler].ptr)[k].data = call[handler].ptr
    <2> SUFFICES ASSUME pc[handler] \in Removing
                 PROVE  /\ call[handler].ptr \in Addrs /\ Bucket(call[handler].ptr) # << >>
                        /\ \E k \in 1 .. Len(Bucket(call[handler].ptr)) :
                             Bucket(call[handler].ptr)[k].data = call[handler].ptr
      OBVIOUS
    <2>1. /\ call[handler].ptr \in Addrs
          /\ \E k \in 1 .. Len(Bucket(call[handler].ptr)) :
               Bucket(call[handler].ptr)[k].data = call[handler].ptr
      BY <1>1, <1>2, <1>4, EmptyBucketIsRight
    <2>2. Len(<< >>) = 0
      OBVIOUS
    <2> QED
      BY <2>1, <2>2
  <1>6. CASE TestBucket(handler)
    <2>1. pc[handler] = "test"
      BY <1>6 DEF TestBucket
    <2>2. /\ pc' = [pc EXCEPT ![handler] = "remove"] /\ reported' = reported
          /\ UNCHANGED <<table, call, seen, live>>
      BY <1>5, <1>6, <2>1 DEF TestBucket, Removing
    <2>3. IInv'
      BY <1>2, <1>4, <1>6, TestBucketKeeps
    <2> QED
      BY <1>1, <1>2, <2>1, <2>2, <2>3 DEF Removing, table, TypeOK
  <1>7. CASE LockToRemove(handler)
    <2>1. pc[handler] = "remove"
      BY <1>7 DEF LockToRemove
    <2>2. /\ pc' = [pc EXCEPT ![handler] = "unlink"]
          /\ UNCHANGED <<fate, call, live, reported>>
      BY <1>5, <1>7, <2>1 DEF LockToRemove, Removing
    <2>3. IInv'
      BY <1>2, <1>4, <1>7, LockToRemoveKeeps
    <2> QED
      BY <1>1, <1>2, <2>1, <2>2, <2>3 DEF Removing, TypeOK
  <1>8. CASE Unlink(handler)
    <2>1. pc[handler] = "unlink" /\ call[handler].op = "free"
      BY <1>1, <1>3, <1>8 DEF Unlink
    <2>2. /\ pc' = [pc EXCEPT ![handler] = "release"]
          /\ UNCHANGED <<fate, call, live, reported>>
      BY <1>8, <2>1 DEF Unlink
    <2>3. IInv'
      BY <1>2, <1>4, <1>8, UnlinkKeeps
    <2> QED
      BY <1>1, <1>2, <2>1, <2>2, <2>3 DEF Removing, TypeOK
  <1>9. CASE NotFound(handler)
    <2>1. pc[handler] = "unlink" /\ Found(handler) = 0
      BY <1>9 DEF NotFound
    <2>2. seen[handler].chain = Bucket(call[handler].ptr) /\ seen[handler].chain \in Seq(Node)
      BY <1>2, <1>4, <2>1, AtUnlink
    <2>3. \A k \in 1 .. Len(Bucket(call[handler].ptr)) :
            Bucket(call[handler].ptr)[k].data # call[handler].ptr
      BY <1>2, <2>1, <2>2, FoundIs
    <2> QED
      BY <1>5, <2>1, <2>3 DEF Removing
  <1>10. CASE Release(handler)
    <2>1. pc[handler] = "release" /\ call[handler].op = "free"
      BY <1>1, <1>3, <1>10 DEF Release
    <2>2. /\ pc' = [pc EXCEPT ![handler] = "idle"]
          /\ UNCHANGED <<fate, call, live, reported>>
      BY <1>10, <2>1 DEF Release
    <2>3. IInv'
      BY <1>2, <1>4, <1>10, ReleaseKeeps
    <2> QED
      BY <1>1, <1>2, <2>1, <2>2, <2>3 DEF Removing, TypeOK
  <1>11. pc[handler] \notin {"malloc", "init", "wipe", "enter", "link"}
    BY <1>1 DEF Removing
  <1>12. ~ Malloc(handler) /\ ~ MallocFails(handler) /\ ~ TestInited(handler)
         /\ ~ Wipe(handler) /\ ~ LockToAdd(handler) /\ ~ Link(handler)
    BY <1>11 DEF Malloc, MallocFails, TestInited, Wipe, LockToAdd, Link
  <1> QED
    BY <1>6, <1>7, <1>8, <1>9, <1>10, <1>12 DEF Step

---------------------------------------------------------------------------
(* What most actions leave alone *)

(* The lists, when their blocks keep their pointers.                       *)
LEMMA ListsKept ==
  ASSUME Once, Reached, Placed' = Placed, root' = root,
         \A b \in Placed : next'[b] = next[b] /\ head'[b] = head[b]
  PROVE  Once' /\ Reached' /\ \A R : Rows(R) => Rows(R)'
  <1>1. Once'
    BY DEF Once
  <1>2. Reached'
    <2> SUFFICES ASSUME NEW S \in SUBSET Placed, Closed(S)' PROVE Placed \subseteq S
      BY DEF Reached
    <2>1. Closed(S)
      BY DEF Closed
    <2> QED
      BY <2>1 DEF Reached
  <1>3. \A R : Rows(R) => Rows(R)'
    BY DEF Rows
  <1> QED
    BY <1>1, <1>2, <1>3

LEMMA LeavesLists ==
  ASSUME LifeInv, IInv' \/ Unused', Control', Calling', Ends', Roots',
         Placed' = Placed, root' = root,
         \A b \in Placed : next'[b] = next[b] /\ head'[b] = head[b],
         \A R \in SUBSET Addrs : Rows(R) /\ Inserting(R) => Inserting(R)'
  PROVE  LifeInv'
  <1>1. Once' /\ Reached' /\ \A R : Rows(R) => Rows(R)'
    BY ListsKept DEF LifeInv
  <1>2. Shape'
    BY <1>1 DEF LifeInv, Shape
  <1> QED
    BY <1>1, <1>2 DEF LifeInv

(* main goes on to another place, without the allocator.                   *)
LEMMA MainMoves ==
  ASSUME LifeInv, NEW from \in MainPlaces \ {"make_ll"}, Ready(main, from),
         NEW place \in MainPlaces, Move(main, place), UNCHANGED <<vars, who>>,
         place \in Holding => from \in Holding,
         from \in {"tcpSetup", "signal"} =>
           place \in {"signal", "make_ll"} /\ root' = root,
         job'.list \in Lists, root' \in [Lists -> Addrs \cup {NULL}],
         next' \in [Addrs -> Addrs \cup {NULL}], head' \in [Addrs -> Addrs \cup {NULL}]
  PROVE  /\ IInv' \/ Unused'
         /\ Control' /\ Calling' /\ Ends'
         /\ at'[main] = place /\ at'[handler] = at[handler] /\ Got' = Got
  <1>1. /\ at[main] = from /\ pc[main] = "idle" /\ who = main /\ fate = "running"
        /\ at'[main] = place /\ at'[handler] = at[handler]
        /\ at' \in [{main, handler} -> MainPlaces \cup {"terminate"} \cup Lists]
        /\ UNCHANGED <<heap, track_hash, allocated, inited, mutt, fate, pc, call, seen, live,
                       reported, left>>
    BY Contexts DEF Ready, Move, LifeInv, Control, vars, table
  <1>2. Got' = Got
    BY <1>1 DEF Got
  <1>3. Control'
    BY <1>1, Contexts DEF LifeInv, Control
  <1>4. Calling'
    BY <1>1, <1>2 DEF LifeInv, Calling
  <1>5. Ends'
    BY <1>1, Contexts DEF LifeInv, Ends
  <1>6. Unused => Unused'
    BY <1>1, <1>2 DEF Unused, TypeOK
  <1>7. IInv => IInv'
    BY VarsKept
  <1> QED
    BY <1>1, <1>2, <1>3, <1>4, <1>5, <1>6, <1>7 DEF LifeInv

(* main asks for a block.                                                  *)
LEMMA MainAsks ==
  ASSUME LifeInv, NEW from \in MainPlaces \ {"tcpSetup", "signal"}, Ready(main, from),
         NEW place \in Getting, AllocStart(place),
         from = "make_ll" => place = "got_ll",
         job'.list \in Lists, UNCHANGED <<who, root, head>>,
         next' \in [Addrs -> Addrs \cup {NULL}]
  PROVE  /\ IInv' \/ Unused'
         /\ Control' /\ Calling' /\ Ends'
         /\ at'[main] = place /\ at'[handler] = at[handler]
         /\ live' = live /\ InHand' = {NULL}
  <1>1. PICK n \in Sizes : StartAlloc(main, n)
    BY DEF AllocStart
  <1>2. /\ at[main] = from /\ pc[main] = "idle" /\ who = main /\ fate = "running"
        /\ at'[main] = place /\ at'[handler] = at[handler]
        /\ at' \in [{main, handler} -> MainPlaces \cup {"terminate"} \cup Lists]
        /\ UNCHANGED <<table, seen, live, reported, left>>
    BY <1>1, Contexts DEF AllocStart, StartAlloc, Ready, Move, LifeInv, Control, MainPlaces,
       Holding
  <1>3. TypeOK /\ main \in Threads /\ handler \in Threads /\ main # handler
    BY Basics, Contexts
  <1>4. /\ pc'[main] = "malloc" /\ pc'[handler] = pc[handler]
        /\ call'[main].op = "alloc" /\ call'[main].bytes = n /\ call'[main].blk = NULL
        /\ call'[handler] = call[handler]
    BY <1>1, <1>3 DEF StartAlloc, NoCall, TypeOK
  <1>5. Got' = NULL
    BY <1>4 DEF Got
  <1>6. Control'
    BY <1>2, <1>4, Contexts DEF LifeInv, Control, MainPlaces, Holding
  <1>7. Calling'
    BY <1>2, <1>4, <1>5 DEF LifeInv, Calling
  <1>8. Ends'
    BY <1>2, Contexts DEF LifeInv, Ends, table
  <1>9. ASSUME IInv PROVE IInv'
    <2>1. left' \in Nat
      BY <1>2, <1>3 DEF TypeOK
    <2> QED
      BY <1>1, <1>3, <1>9, <2>1, AllocStarts
  <1>10. ASSUME Unused PROVE Unused'
    <2>1. TypeOK'
      <3>1. [NoCall EXCEPT !.op = "alloc", !.bytes = n] \in Calls
        BY DEF NoCall, Calls
      <3>2. /\ call' = [call EXCEPT ![main] = [NoCall EXCEPT !.op = "alloc", !.bytes = n]]
            /\ pc' = [pc EXCEPT ![main] = "malloc"]
        BY <1>1 DEF StartAlloc
      <3>3. call' \in [Threads -> Calls]
        BY <1>3, <3>1, <3>2 DEF TypeOK, Calls
      <3> QED
        BY <1>2, <1>3, <3>2, <3>3 DEF TypeOK, Calls, table
    <2> QED
      BY <1>2, <1>4, <1>10, <2>1 DEF Unused, table
  <1>11. InHand' = {NULL}
    BY <1>2, <1>5 DEF InHand, Getting
  <1> QED
    BY <1>2, <1>6, <1>7, <1>8, <1>9, <1>10, <1>11 DEF LifeInv

(* The rows from a list's first one are rows.                              *)
LEMMA FollowRows ==
  ASSUME NEW R \in SUBSET Addrs, Rows(R), NEW L \in Lists
  PROVE  Follow(root[L]) \subseteq R
  <1>1. {root[L]} \ {NULL} \subseteq R /\ \A b \in R : next[b] \in R \cup {NULL}
    BY DEF Rows
  <1> QED
    BY <1>1 DEF Follow

(* At a place outside the allocator where main has a block in hand.        *)
LEMMA InHandIs ==
  ASSUME LifeInv, pc[main] = "idle", at[main] \in Holding
  PROVE  Got \in Addrs /\ Got \in live /\ InHand = {Got} /\ Got \notin Placed
         /\ live = Placed \cup {Got}
  <1>1. Got \in live
    BY DEF LifeInv, Calling
  <1>2. InHand = {Got}
    BY DEF InHand, Holding, Getting
  <1> QED
    BY <1>1, <1>2, Basics DEF Placed

---------------------------------------------------------------------------
(* One lemma per action *)

LEMMA TcpSetupKeeps ==
  ASSUME LifeInv, TcpSetup
  PROVE  LifeInv'
  <1>1. /\ at[main] = "tcpSetup" /\ pc[main] = "idle" /\ who = main /\ fate = "running"
        /\ UNCHANGED <<who, job, root, next, head>>
    BY DEF TcpSetup, Ready, lists
  <1>2. InHand = {}
    BY <1>1 DEF InHand
  <1>3. CASE Move(main, "signal") /\ UNCHANGED vars
    <2>1. /\ IInv' \/ Unused'
          /\ Control' /\ Calling' /\ Ends'
          /\ at'[main] = "signal" /\ at'[handler] = at[handler]
      BY <1>1, <1>3, MainMoves DEF LifeInv, Control, MainPlaces, Holding, Getting, Before_flows,
         Before_ll, Ready
    <2>2. Roots'
      BY <1>1, <2>1 DEF LifeInv, Roots, Before_ll, Before_flows
    <2>3. InHand' = {} /\ Placed' = Placed
      BY <1>2, <1>3, <2>1 DEF InHand, Placed, vars
    <2>4. \A R \in SUBSET Addrs : Rows(R) /\ Inserting(R) => Inserting(R)'
      BY <1>1, <2>1 DEF Inserting
    <2> QED
      BY <1>1, <2>1, <2>2, <2>3, <2>4, LeavesLists
  <1>4. CASE Exit /\ UNCHANGED <<sd, at>>
    <2>1. /\ at' = at /\ fate' = "exited"
          /\ UNCHANGED <<heap, track_hash, allocated, inited, mutt, pc, call, seen, live,
                         reported, left>>
      BY <1>4 DEF Exit
    <2>2. Got' = Got /\ InHand' = InHand /\ Placed' = Placed
      BY <2>1 DEF Got, InHand, Placed
    <2>3. IInv' \/ Unused'
      <3>1. Unused => Unused'
        BY <1>1, <2>1, <2>2 DEF Unused, TypeOK
      <3> QED
        BY <1>4, <3>1, ExitKeeps DEF LifeInv
    <2>4. Control' /\ Calling' /\ Ends' /\ Roots'
      BY <1>1, <2>1, <2>2, Contexts DEF LifeInv, Control, Calling, Ends, Roots
    <2>5. \A R \in SUBSET Addrs : Rows(R) /\ Inserting(R) => Inserting(R)'
      BY <1>1, <2>1, <2>2 DEF Inserting
    <2> QED
      BY <1>1, <2>2, <2>3, <2>4, <2>5, LeavesLists
  <1> QED
    BY <1>3, <1>4 DEF TcpSetup

LEMMA InstallHandlerKeeps ==
  ASSUME LifeInv, InstallHandler
  PROVE  LifeInv'
  <1>1. /\ at[main] = "signal" /\ pc[main] = "idle" /\ who = main
        /\ UNCHANGED <<vars, who, job, root, next, head>> /\ Move(main, "make_ll")
        /\ Ready(main, "signal")
    BY DEF InstallHandler, Ready, lists
  <1>2. /\ IInv' \/ Unused'
        /\ Control' /\ Calling' /\ Ends'
        /\ at'[main] = "make_ll" /\ at'[handler] = at[handler]
    BY <1>1, MainMoves DEF LifeInv, Control, MainPlaces, Holding, Getting, Before_flows, Before_ll
  <1>3. Roots'
    BY <1>1, <1>2 DEF LifeInv, Roots, Before_ll, Before_flows
  <1>4. Placed' = Placed
    BY <1>1, <1>2 DEF InHand, Placed, vars
  <1>5. \A R \in SUBSET Addrs : Rows(R) /\ Inserting(R) => Inserting(R)'
    BY <1>1, <1>2 DEF Inserting
  <1> QED
    BY <1>1, <1>2, <1>3, <1>4, <1>5, LeavesLists

LEMMA MakeRootKeeps ==
  ASSUME LifeInv, NEW L \in Lists, MakeRoot(L)
  PROVE  LifeInv'
  <1> DEFINE from == IF L = "ll" THEN "make_ll" ELSE "make_flows"
  <1> DEFINE place == IF L = "ll" THEN "got_ll" ELSE "got_flows"
  <1>1. /\ Ready(main, from) /\ AllocStart(place) /\ at[main] = from /\ who = main
        /\ UNCHANGED <<who, job, root, next, head>>
    BY DEF MakeRoot, Ready, lists
  <1>2. from \in MainPlaces \ {"tcpSetup", "signal"} /\ place \in Getting
    BY DEF MainPlaces, Getting, Before_flows, Before_ll
  <1>3. /\ IInv' \/ Unused'
        /\ Control' /\ Calling' /\ Ends'
        /\ at'[main] = place /\ at'[handler] = at[handler]
        /\ live' = live /\ InHand' = {NULL}
    <2>1. /\ job'.list \in Lists /\ next' \in [Addrs -> Addrs \cup {NULL}]
          /\ from = "make_ll" => place = "got_ll"
      BY <1>1 DEF LifeInv, Control
    <2> HIDE DEF from, place
    <2> QED
      BY <1>1, <1>2, <2>1, MainAsks
  <1>4. Roots'
    BY <1>1, <1>3 DEF LifeInv, Roots, Before_ll, Before_flows, Lists
  <1>5. Placed' = Placed
    BY <1>1, <1>3, Basics DEF InHand, Placed
  <1>6. \A R \in SUBSET Addrs : Rows(R) /\ Inserting(R) => Inserting(R)'
    BY <1>1, <1>3 DEF Inserting
  <1> HIDE DEF from, place
  <1> QED
    BY <1>1, <1>3, <1>4, <1>5, <1>6, LeavesLists

(* A search finds a row of the list or none; either way the lists stay.    *)
LEMMA InsertKeeps ==
  ASSUME LifeInv, NEW L \in Lists, NEW s \in Sockets, Insert(L, s)
  PROVE  LifeInv'
  <1>1. /\ Ready(main, "serve") /\ at[main] = "serve" /\ who = main
        /\ UNCHANGED <<who, root, next, head>>
    BY DEF Insert, Ready, lists
  <1>2. PICK place \in {"got_row", "got_node"} :
          /\ AllocStart(place) /\ job'.list = L
          /\ place = "got_node" => job'.row \in Follow(root[L])
    BY DEF Insert, RowOf
  <1>3. "serve" \in MainPlaces \ {"tcpSetup", "signal"} /\ place \in Getting
    BY DEF MainPlaces, Getting
  <1>4. /\ IInv' \/ Unused'
        /\ Control' /\ Calling' /\ Ends'
        /\ at'[main] = place /\ at'[handler] = at[handler]
        /\ live' = live /\ InHand' = {NULL}
    <2>1. job'.list \in Lists /\ next' \in [Addrs -> Addrs \cup {NULL}]
      BY <1>1, <1>2 DEF LifeInv, Control
    <2> QED
      BY <1>1, <1>2, <1>3, <2>1, MainAsks
  <1>5. Roots'
    BY <1>1, <1>2, <1>4 DEF LifeInv, Roots, Before_ll, Before_flows
  <1>6. Placed' = Placed
    BY <1>1, <1>4, Basics DEF InHand, Placed
  <1>7. \A R \in SUBSET Addrs : Rows(R) /\ Inserting(R) => Inserting(R)'
    BY <1>1, <1>2, <1>4, FollowRows DEF Inserting
  <1> QED
    BY <1>1, <1>4, <1>5, <1>6, <1>7, LeavesLists

(* What is written to the block in hand changes no list.                   *)
LEMMA FillRowKeeps ==
  ASSUME LifeInv, FillRow
  PROVE  LifeInv'
  <1>1. /\ Ready(main, "got_row") /\ at[main] = "got_row" /\ pc[main] = "idle" /\ who = main
        /\ UNCHANGED <<vars, who, job, root>> /\ Move(main, "link_row")
        /\ head' = [head EXCEPT ![Got] = NULL] /\ next' = [next EXCEPT ![Got] = NULL]
    BY DEF FillRow, Ready
  <1>2. PICK g \in Addrs : /\ g = Got /\ InHand = {g} /\ g \notin Placed
    BY <1>1, InHandIs DEF Holding, Getting
  <1>3. /\ head' \in [Addrs -> Addrs \cup {NULL}] /\ next' \in [Addrs -> Addrs \cup {NULL}]
        /\ next'[g] = NULL /\ head'[g] = NULL
        /\ \A b \in Addrs \ {g} : next'[b] = next[b] /\ head'[b] = head[b]
    BY <1>1, <1>2 DEF LifeInv, Control
  <1>4. /\ IInv' \/ Unused'
        /\ Control' /\ Calling' /\ Ends'
        /\ at'[main] = "link_row" /\ at'[handler] = at[handler] /\ Got' = g
    BY <1>1, <1>2, <1>3, MainMoves DEF LifeInv, Control, MainPlaces, Holding, Getting
  <1>5. Roots'
    BY <1>1, <1>4 DEF LifeInv, Roots, Before_ll, Before_flows
  <1>6. Placed' = Placed
    <2>1. InHand' = {g}
      BY <1>4 DEF InHand
    <2> QED
      BY <1>1, <1>2, <2>1 DEF Placed, vars
  <1>7. \A b \in Placed : next'[b] = next[b] /\ head'[b] = head[b]
    BY <1>2, <1>3, Basics
  <1>8. \A R \in SUBSET Addrs : Rows(R) /\ Inserting(R) => Inserting(R)'
    BY <1>1, <1>3, <1>4 DEF Inserting
  <1> QED
    BY <1>1, <1>4, <1>5, <1>6, <1>7, <1>8, LeavesLists

LEMMA FillNodeKeeps ==
  ASSUME LifeInv, FillNode
  PROVE  LifeInv'
  <1>1. /\ Ready(main, "got_node") /\ at[main] = "got_node" /\ pc[main] = "idle" /\ who = main
        /\ UNCHANGED <<vars, who, job, root, head>> /\ Move(main, "link_node")
        /\ next' = [next EXCEPT ![Got] = head[job.row]]
    BY DEF FillNode, Ready
  <1>2. PICK g \in Addrs : /\ g = Got /\ InHand = {g} /\ g \notin Placed
    BY <1>1, InHandIs DEF Holding, Getting
  <1>3. job.row \in Addrs
    BY <1>1 DEF LifeInv, Shape, Inserting
  <1>4. /\ next' \in [Addrs -> Addrs \cup {NULL}] /\ head' \in [Addrs -> Addrs \cup {NULL}]
        /\ next'[g] = head[job.row]
        /\ \A b \in Addrs \ {g} : next'[b] = next[b]
    BY <1>1, <1>2, <1>3 DEF LifeInv, Control
  <1>5. /\ IInv' \/ Unused'
        /\ Control' /\ Calling' /\ Ends'
        /\ at'[main] = "link_node" /\ at'[handler] = at[handler] /\ Got' = g
    BY <1>1, <1>2, <1>4, MainMoves DEF LifeInv, Control, MainPlaces, Holding, Getting
  <1>6. Roots'
    BY <1>1, <1>5 DEF LifeInv, Roots, Before_ll, Before_flows
  <1>7. Placed' = Placed
    <2>1. InHand' = {g}
      BY <1>5 DEF InHand
    <2> QED
      BY <1>1, <1>2, <2>1 DEF Placed, vars
  <1>8. \A b \in Placed : next'[b] = next[b] /\ head'[b] = head[b]
    BY <1>1, <1>2, <1>4, Basics
  <1>9. \A R \in SUBSET Addrs : Rows(R) /\ Inserting(R) => Inserting(R)'
    BY <1>1, <1>4, <1>5 DEF Inserting
  <1> QED
    BY <1>1, <1>5, <1>6, <1>7, <1>8, <1>9, LeavesLists

---------------------------------------------------------------------------
(* The five changes of the lists *)

(* A first row.                                                            *)
LEMMA RootPlaced ==
  ASSUME Once, Reached, NEW R \in SUBSET Addrs, Rows(R), NULL \notin Addrs,
         Placed \subseteq Addrs, NEW g \in Addrs, g \notin Placed, Placed' = Placed \cup {g},
         NEW L \in Lists, root[L] = NULL, root'[L] = g,
         \A M \in Lists \ {L} : root'[M] = root[M],
         next'[g] = NULL, head'[g] = NULL,
         \A b \in Addrs \ {g} : next'[b] = next[b] /\ head'[b] = head[b]
  PROVE  Once' /\ Reached' /\ Rows(R \cup {g})'
  <1>1. \A b \in Placed : /\ b # g /\ next'[b] = next[b] /\ head'[b] = head[b]
                          /\ next[b] \in Placed \cup {NULL} /\ head[b] \in Placed \cup {NULL}
    BY DEF Rows
  <1>2. \A M \in Lists : root[M] \in Placed \cup {NULL}
    BY DEF Rows
  <1>3. Rows(R \cup {g})'
    BY <1>1 DEF Rows
  <1>4. Once'
    <2>1. g # NULL
      OBVIOUS
    <2>2. /\ \A b, c \in Placed' : next'[b] # NULL /\ next'[b] = next'[c] => b = c
          /\ \A b, c \in Placed' : head'[b] # NULL /\ head'[b] = head'[c] => b = c
          /\ \A b, c \in Placed' : head'[b] # NULL => head'[b] # next'[c]
      BY <1>1 DEF Once
    <2>3. \A b \in Placed', M \in Lists : root'[M] # NULL => root'[M] # next'[b]
      BY <1>1, <1>2, <2>1 DEF Once
    <2>4. root'["ll"] # NULL => root'["ll"] # root'["flows"]
      BY <1>2, <2>1 DEF Once, Lists
    <2> QED
      BY <2>2, <2>3, <2>4 DEF Once
  <1>5. Reached'
    <2> SUFFICES ASSUME NEW S \in SUBSET Placed', Closed(S)' PROVE Placed' \subseteq S
      BY DEF Reached
    <2>1. g \in S
      BY DEF Closed
    <2>2. Closed(S \ {g})
      <3>1. \A M \in Lists : root[M] \in (S \ {g}) \cup {NULL}
        BY <1>2 DEF Closed
      <3>2. \A b \in S \ {g} : /\ next[b] \in (S \ {g}) \cup {NULL}
                               /\ head[b] \in (S \ {g}) \cup {NULL}
        BY <1>1 DEF Closed
      <3> QED
        BY <3>1, <3>2 DEF Closed
    <2>3. S \ {g} \in SUBSET Placed
      OBVIOUS
    <2> QED
      BY <2>1, <2>2, <2>3 DEF Reached
  <1> QED
    BY <1>3, <1>4, <1>5

(* A row behind the last one.                                              *)
LEMMA RowPlaced ==
  ASSUME Once, Reached, NEW R \in SUBSET Addrs, Rows(R), NULL \notin Addrs,
         Placed \subseteq Addrs, NEW g \in Addrs, g \notin Placed, Placed' = Placed \cup {g},
         root' = root, head' = head, next[g] = NULL, head[g] = NULL,
         NEW last \in R, next[last] = NULL, next'[last] = g,
         \A b \in Addrs \ {last} : next'[b] = next[b]
  PROVE  Once' /\ Reached' /\ Rows(R \cup {g})'
  <1>1. \A b \in Placed : /\ b # g /\ head'[b] = head[b]
                          /\ b # last => next'[b] = next[b]
                          /\ next[b] \in Placed \cup {NULL} /\ head[b] \in Placed \cup {NULL}
    BY DEF Rows
  <1>2. \A M \in Lists : root[M] \in Placed \cup {NULL}
    BY DEF Rows
  <1>3. last \in Placed /\ next'[g] = NULL /\ g # NULL
    BY DEF Rows
  <1>4. Rows(R \cup {g})'
    <2>1. \A b \in R \cup {g} : /\ next'[b] \in R \cup {g} \cup {NULL}
                                /\ head'[b] \in (Placed' \ (R \cup {g})) \cup {NULL}
      BY <1>1, <1>3 DEF Rows
    <2>2. \A b \in Placed' \ (R \cup {g}) :
            next'[b] \in (Placed' \ (R \cup {g})) \cup {NULL} /\ head'[b] = NULL
      BY <1>1 DEF Rows
    <2> QED
      BY <2>1, <2>2 DEF Rows
  <1>5. Once'
    <2>1. \A b, c \in Placed' : next'[b] # NULL /\ next'[b] = next'[c] => b = c
      BY <1>1, <1>3 DEF Once
    <2>2. /\ \A b, c \in Placed' : head'[b] # NULL /\ head'[b] = head'[c] => b = c
          /\ \A b, c \in Placed' : head'[b] # NULL => head'[b] # next'[c]
      BY <1>1, <1>3 DEF Once
    <2>3. \A b \in Placed', M \in Lists : root'[M] # NULL => root'[M] # next'[b]
      BY <1>1, <1>2, <1>3 DEF Once
    <2> QED
      BY <2>1, <2>2, <2>3 DEF Once
  <1>6. Reached'
    <2> SUFFICES ASSUME NEW S \in SUBSET Placed', Closed(S)' PROVE Placed' \subseteq S
      BY DEF Reached
    <2>1. Closed(S \ {g})
      <3>1. \A M \in Lists : root[M] \in (S \ {g}) \cup {NULL}
        BY <1>2 DEF Closed
      <3>2. \A b \in S \ {g} : /\ next[b] \in (S \ {g}) \cup {NULL}
                               /\ head[b] \in (S \ {g}) \cup {NULL}
        BY <1>1 DEF Closed
      <3> QED
        BY <3>1, <3>2 DEF Closed
    <2>2. S \ {g} \in SUBSET Placed
      OBVIOUS
    <2>3. Placed \subseteq S
      BY <2>1, <2>2 DEF Reached
    <2>4. g \in S
      BY <1>3, <2>3 DEF Closed
    <2> QED
      BY <2>3, <2>4
  <1> QED
    BY <1>4, <1>5, <1>6

(* A node in front of the others of its row.                               *)
LEMMA NodePlaced ==
  ASSUME Once, Reached, NEW R \in SUBSET Addrs, Rows(R), NULL \notin Addrs,
         Placed \subseteq Addrs, NEW g \in Addrs, g \notin Placed, Placed' = Placed \cup {g},
         root' = root, next' = next, head[g] = NULL,
         NEW row \in R, next[g] = head[row], head'[row] = g,
         \A b \in Addrs \ {row} : head'[b] = head[b]
  PROVE  Once' /\ Reached' /\ Rows(R)'
  <1>1. \A b \in Placed : /\ b # g /\ next'[b] = next[b]
                          /\ b # row => head'[b] = head[b]
                          /\ next[b] \in Placed \cup {NULL} /\ head[b] \in Placed \cup {NULL}
    BY DEF Rows
  <1>2. \A M \in Lists : root[M] \in R \cup {NULL}
    BY DEF Rows
  <1>3. /\ row \in Placed /\ row # g /\ g \notin R /\ head'[g] = NULL /\ g # NULL
        /\ head[row] \in (Placed \ R) \cup {NULL}
    BY DEF Rows
  <1>4. Rows(R)'
    <2>1. \A b \in R : /\ next'[b] \in R \cup {NULL}
                       /\ head'[b] \in (Placed' \ R) \cup {NULL}
      BY <1>1, <1>3 DEF Rows
    <2>2. \A b \in Placed' \ R : next'[b] \in (Placed' \ R) \cup {NULL} /\ head'[b] = NULL
      BY <1>1, <1>3 DEF Rows
    <2> QED
      BY <2>1, <2>2 DEF Rows
  <1>5. Once'
    <2>1. \A b, c \in Placed' : next'[b] # NULL /\ next'[b] = next'[c] => b = c
      BY <1>1, <1>3 DEF Once
    <2>2. \A b, c \in Placed' : head'[b] # NULL /\ head'[b] = head'[c] => b = c
      BY <1>1, <1>3 DEF Once
    <2>3. \A b, c \in Placed' : head'[b] # NULL => head'[b] # next'[c]
      BY <1>1, <1>3 DEF Once
    <2>4. \A b \in Placed', M \in Lists : root'[M] # NULL => root'[M] # next'[b]
      BY <1>1, <1>2, <1>3 DEF Once
    <2> QED
      BY <2>1, <2>2, <2>3, <2>4 DEF Once
  <1>6. Reached'
    <2> SUFFICES ASSUME NEW S \in SUBSET Placed', Closed(S)' PROVE Placed' \subseteq S
      BY DEF Reached
    <2>1. Closed(S \ {g})
      <3>1. \A M \in Lists : root[M] \in (S \ {g}) \cup {NULL}
        BY <1>2, <1>3 DEF Closed
      <3>2. \A b \in S \ {g} : next[b] \in (S \ {g}) \cup {NULL}
        BY <1>1 DEF Closed
      <3>3. ASSUME NEW b \in S \ {g} PROVE head[b] \in (S \ {g}) \cup {NULL}
        <4>1. CASE b # row
          BY <1>1, <4>1 DEF Closed
        <4>2. CASE b = row
          <5>1. g \in S
            BY <1>3, <4>2 DEF Closed
          <5>2. next[g] \in S \cup {NULL}
            BY <5>1 DEF Closed
          <5> QED
            BY <1>3, <4>2, <5>2
        <4> QED
          BY <4>1, <4>2
      <3> QED
        BY <3>1, <3>2, <3>3 DEF Closed
    <2>2. S \ {g} \in SUBSET Placed
      OBVIOUS
    <2>3. Placed \subseteq S
      BY <2>1, <2>2 DEF Reached
    <2>4. g \in S
      BY <1>3, <2>3 DEF Closed
    <2> QED
      BY <2>3, <2>4
  <1> QED
    BY <1>4, <1>5, <1>6

(* The first node of a list's first row is freed.                          *)
LEMMA NodeTaken ==
  ASSUME Once, Reached, NEW R \in SUBSET Addrs, Rows(R), NULL \notin Addrs,
         Placed \subseteq Addrs, NEW L \in Lists, root[L] # NULL, head[root[L]] # NULL,
         Placed' = Placed \ {head[root[L]]}, root' = root, next' = next,
         head'[root[L]] = next[head[root[L]]],
         \A b \in Addrs \ {root[L]} : head'[b] = head[b]
  PROVE  Once' /\ Reached' /\ Rows(R)'
  <1>1. PICK r \in R : r = root[L]
    BY DEF Rows
  <1>2. PICK x \in Placed \ R : x = head[r]
    BY <1>1 DEF Rows
  <1>3. /\ Placed' = Placed \ {x} /\ head'[r] = next[x]
        /\ \A b \in Placed \ {r} : head'[b] = head[b]
        /\ r \in Placed /\ r # x /\ x # NULL
    BY <1>1, <1>2 DEF Rows
  <1>4. /\ \A b \in Placed : next[b] # x
        /\ \A b \in Placed : head[b] = x => b = r
        /\ \A M \in Lists : root[M] # x
    BY <1>2, <1>3 DEF Once, Rows
  <1>5. Rows(R)'
    <2>1. \A b \in R : next'[b] \in R \cup {NULL} /\ head'[b] \in (Placed' \ R) \cup {NULL}
      BY <1>2, <1>3, <1>4 DEF Rows
    <2>2. \A b \in Placed' \ R : next'[b] \in (Placed' \ R) \cup {NULL} /\ head'[b] = NULL
      BY <1>1, <1>2, <1>3, <1>4 DEF Rows
    <2> QED
      BY <1>2, <1>3, <2>1, <2>2 DEF Rows
  <1>6. Once'
    <2>1. \A b, c \in Placed' : next'[b] # NULL /\ next'[b] = next'[c] => b = c
      BY <1>3 DEF Once
    <2>2. \A b, c \in Placed' : head'[b] # NULL /\ head'[b] = head'[c] => b = c
      BY <1>2, <1>3 DEF Once
    <2>3. \A b, c \in Placed' : head'[b] # NULL => head'[b] # next'[c]
      BY <1>2, <1>3 DEF Once
    <2>4. \A b \in Placed', M \in Lists : root'[M] # NULL => root'[M] # next'[b]
      BY <1>3 DEF Once
    <2> QED
      BY <2>1, <2>2, <2>3, <2>4 DEF Once
  <1>7. Reached'
    <2> SUFFICES ASSUME NEW S \in SUBSET Placed', Closed(S)' PROVE Placed' \subseteq S
      BY DEF Reached
    <2>1. Closed(S \cup {x})
      <3>1. \A M \in Lists : root[M] \in S \cup {x} \cup {NULL}
        BY DEF Closed
      <3>2. r \in S /\ next[x] \in S \cup {NULL} /\ head[x] = NULL
        BY <1>1, <1>2, <1>3 DEF Closed, Rows
      <3>3. \A b \in S : next[b] \in S \cup {NULL} /\ (b # r => head[b] \in S \cup {NULL})
        BY <1>3 DEF Closed
      <3> QED
        BY <1>2, <3>1, <3>2, <3>3 DEF Closed
    <2>2. S \cup {x} \in SUBSET Placed
      BY <1>2, <1>3
    <2>3. Placed \subseteq S \cup {x}
      BY <2>1, <2>2 DEF Reached
    <2> QED
      BY <1>3, <2>3
  <1> QED
    BY <1>5, <1>6, <1>7

(* A list's first row is freed when it has no nodes.                       *)
LEMMA RowTaken ==
  ASSUME Once, Reached, NEW R \in SUBSET Addrs, Rows(R), NULL \notin Addrs,
         Placed \subseteq Addrs, NEW L \in Lists, NEW r \in R, root[L] = r, head[r] = NULL,
         Placed' = Placed \ {r}, head' = head, next' = next,
         root'[L] = next[r], \A M \in Lists \ {L} : root'[M] = root[M]
  PROVE  Once' /\ Reached' /\ Rows(R \ {r})'
  <1>1. r = root[L]
    OBVIOUS
  <1>2. /\ Placed' = Placed \ {r} /\ r \in Placed /\ r # NULL /\ head[r] = NULL
        /\ root'[L] = next[r] /\ next[r] \in R \cup {NULL}
    BY <1>1 DEF Rows
  <1>3. /\ \A b \in Placed : next[b] # r /\ head[b] # r
        /\ \A M \in Lists \ {L} : root[M] # r
    <2>1. \A b \in Placed : next[b] # r
      BY <1>1, <1>2 DEF Once
    <2>2. \A b \in Placed : head[b] # r
      BY <1>1, <1>2 DEF Rows
    <2>3. \A M \in Lists \ {L} : root[M] # r
      BY <1>1, <1>2 DEF Once, Lists
    <2> QED
      BY <2>1, <2>2, <2>3
  <1>4. Rows(R \ {r})'
    <2>1. \A b \in R \ {r} : /\ next'[b] \in (R \ {r}) \cup {NULL}
                             /\ head'[b] \in (Placed' \ (R \ {r})) \cup {NULL}
      BY <1>2, <1>3 DEF Rows
    <2>2. \A b \in Placed' \ (R \ {r}) :
            next'[b] \in (Placed' \ (R \ {r})) \cup {NULL} /\ head'[b] = NULL
      BY <1>2, <1>3 DEF Rows
    <2>3. \A M \in Lists : root'[M] \in (R \ {r}) \cup {NULL}
      BY <1>2, <1>3 DEF Rows
    <2>4. R \ {r} \subseteq Placed'
      BY <1>2 DEF Rows
    <2> QED
      BY <2>1, <2>2, <2>3, <2>4 DEF Rows
  <1>5. Once'
    <2>1. /\ \A b, c \in Placed' : next'[b] # NULL /\ next'[b] = next'[c] => b = c
          /\ \A b, c \in Placed' : head'[b] # NULL /\ head'[b] = head'[c] => b = c
          /\ \A b, c \in Placed' : head'[b] # NULL => head'[b] # next'[c]
      BY <1>2 DEF Once
    <2>2. \A b \in Placed', M \in Lists : root'[M] # NULL => root'[M] # next'[b]
      BY <1>2 DEF Once
    <2>3. \A M \in Lists \ {L} : root[M] # NULL => root[M] # next[r]
      BY <1>2 DEF Once
    <2>4. root'["ll"] # NULL => root'["ll"] # root'["flows"]
      BY <1>2, <2>3 DEF Lists
    <2> QED
      BY <2>1, <2>2, <2>4 DEF Once
  <1>6. Reached'
    <2> SUFFICES ASSUME NEW S \in SUBSET Placed', Closed(S)' PROVE Placed' \subseteq S
      BY DEF Reached
    <2>1. Closed(S \cup {r})
      <3>1. \A M \in Lists : root[M] \in S \cup {r} \cup {NULL}
        BY <1>1 DEF Closed
      <3>2. next[r] \in S \cup {NULL}
        BY <1>2 DEF Closed
      <3> QED
        BY <1>2, <3>1, <3>2 DEF Closed
    <2>2. S \cup {r} \in SUBSET Placed
      BY <1>2
    <2>3. Placed \subseteq S \cup {r}
      BY <2>1, <2>2 DEF Reached
    <2> QED
      BY <1>2, <2>3
  <1> QED
    BY <1>1, <1>4, <1>5, <1>6

---------------------------------------------------------------------------
(* The actions that make them *)

LEMMA GotRootKeeps ==
  ASSUME LifeInv, NEW L \in Lists, GotRoot(L)
  PROVE  LifeInv'
  <1> DEFINE from == IF L = "ll" THEN "got_ll" ELSE "got_flows"
  <1> DEFINE place == IF L = "ll" THEN "make_flows" ELSE "serve"
  <1>1. /\ Ready(main, from) /\ at[main] = from /\ pc[main] = "idle" /\ who = main
        /\ root' = [root EXCEPT ![L] = Got] /\ next' = [next EXCEPT ![Got] = NULL]
        /\ head' = [head EXCEPT ![Got] = NULL] /\ Move(main, place)
        /\ UNCHANGED <<vars, who, job>>
    BY DEF GotRoot, Ready
  <1>2. from \in MainPlaces \ {"make_ll", "tcpSetup", "signal"} /\ from \in Holding
        /\ place \in MainPlaces /\ place \notin Holding
    BY DEF MainPlaces, Holding, Getting, Before_flows, Before_ll
  <1>3. PICK g \in Addrs : /\ g = Got /\ InHand = {g} /\ g \notin Placed
                           /\ live = Placed \cup {g}
    BY <1>1, <1>2, InHandIs
  <1>4. root[L] = NULL
    BY <1>1 DEF LifeInv, Roots, Before_ll, Before_flows, Lists
  <1>5. /\ root' \in [Lists -> Addrs \cup {NULL}] /\ root'[L] = g
        /\ \A M \in Lists \ {L} : root'[M] = root[M]
        /\ next' \in [Addrs -> Addrs \cup {NULL}] /\ next'[g] = NULL
        /\ head' \in [Addrs -> Addrs \cup {NULL}] /\ head'[g] = NULL
        /\ \A b \in Addrs \ {g} : next'[b] = next[b] /\ head'[b] = head[b]
    BY <1>1, <1>3 DEF LifeInv, Control
  <1>6. /\ IInv' \/ Unused'
        /\ Control' /\ Calling' /\ Ends'
        /\ at'[main] = place /\ at'[handler] = at[handler]
    <2>1. job'.list \in Lists
      BY <1>1 DEF LifeInv, Control
    <2> HIDE DEF from, place
    <2> QED
      BY <1>1, <1>2, <1>5, <2>1, MainMoves
  <1>7. Roots'
    <2>1. at'[handler] = "terminate"
      BY <1>1, <1>6 DEF LifeInv, Control
    <2>2. L = "ll" => root'["flows"] = NULL
      BY <1>1, <1>5 DEF LifeInv, Roots, Before_ll, Before_flows, Lists
    <2> QED
      BY <1>6, <2>1, <2>2 DEF Roots, Before_ll, Before_flows, Lists
  <1>8. Placed' = Placed \cup {g}
    <2>1. InHand' = {}
      BY <1>2, <1>6 DEF InHand, Holding, Getting
    <2> QED
      BY <1>1, <1>3, <2>1 DEF Placed, vars
  <1>9. PICK R \in SUBSET Addrs : Rows(R) /\ Inserting(R)
    BY DEF LifeInv, Shape
  <1>10. Once' /\ Reached' /\ Rows(R \cup {g})'
    BY <1>3, <1>4, <1>5, <1>8, <1>9, Basics, RootPlaced DEF LifeInv
  <1>11. Inserting(R \cup {g})'
    BY <1>1, <1>5, <1>6, <1>9 DEF Inserting
  <1>12. Shape'
    BY <1>10, <1>11 DEF Shape
  <1> QED
    BY <1>6, <1>7, <1>10, <1>12 DEF LifeInv

LEMMA LinkRowKeeps ==
  ASSUME LifeInv, LinkRow
  PROVE  LifeInv'
  <1>1. /\ Ready(main, "link_row") /\ at[main] = "link_row" /\ pc[main] = "idle"
        /\ who = main /\ job' = [job EXCEPT !.row = Got] /\ AllocStart("got_node")
        /\ UNCHANGED <<who, root, head>>
    BY DEF LinkRow, Ready
  <1>2. PICK g \in Addrs : /\ g = Got /\ InHand = {g} /\ g \notin Placed
                           /\ live = Placed \cup {g}
    BY <1>1, InHandIs DEF Holding
  <1>3. PICK R \in SUBSET Addrs : Rows(R) /\ Inserting(R)
    BY DEF LifeInv, Shape
  <1>4. PICK last \in R : next[last] = NULL /\ next' = [next EXCEPT ![last] = g]
    BY <1>2, <1>3, FollowRows DEF LinkRow, LifeInv, Control
  <1>5. /\ next' \in [Addrs -> Addrs \cup {NULL}] /\ next'[last] = g
        /\ \A b \in Addrs \ {last} : next'[b] = next[b]
    BY <1>4 DEF LifeInv, Control
  <1>6. next[g] = NULL /\ head[g] = NULL
    BY <1>1, <1>2, <1>3 DEF Inserting, Rows
  <1>7. job'.list \in Lists /\ (job'.row = g \/ job' = job)
    BY <1>1, <1>2 DEF LifeInv, Control
  <1>8. /\ IInv' \/ Unused'
        /\ Control' /\ Calling' /\ Ends'
        /\ at'[main] = "got_node" /\ at'[handler] = at[handler]
        /\ live' = live /\ InHand' = {NULL}
    BY <1>1, <1>5, <1>7, MainAsks DEF MainPlaces, Holding, Getting
  <1>9. Roots'
    BY <1>1, <1>8 DEF LifeInv, Roots, Before_ll, Before_flows
  <1>10. Placed' = Placed \cup {g}
    BY <1>2, <1>8, Basics DEF Placed
  <1>11. Once' /\ Reached' /\ Rows(R \cup {g})'
    BY <1>1, <1>2, <1>3, <1>4, <1>5, <1>6, <1>10, Basics, RowPlaced DEF LifeInv
  <1>12. job'.row = g
    BY <1>1, <1>2 DEF LifeInv, Control
  <1>13. Inserting(R \cup {g})'
    BY <1>1, <1>3, <1>8, <1>12 DEF Inserting
  <1>14. Shape'
    BY <1>11, <1>13 DEF Shape
  <1> QED
    BY <1>8, <1>9, <1>11, <1>14 DEF LifeInv

LEMMA LinkNodeKeeps ==
  ASSUME LifeInv, LinkNode
  PROVE  LifeInv'
  <1>1. /\ Ready(main, "link_node") /\ at[main] = "link_node" /\ pc[main] = "idle"
        /\ who = main /\ head' = [head EXCEPT ![job.row] = Got] /\ Move(main, "serve")
        /\ UNCHANGED <<vars, who, job, root, next>>
    BY DEF LinkNode, Ready
  <1>2. PICK g \in Addrs : /\ g = Got /\ InHand = {g} /\ g \notin Placed
                           /\ live = Placed \cup {g}
    BY <1>1, InHandIs DEF Holding
  <1>3. PICK R \in SUBSET Addrs : Rows(R) /\ Inserting(R)
    BY DEF LifeInv, Shape
  <1>4. PICK row \in R : row = job.row /\ next[g] = head[row] /\ head[g] = NULL
    BY <1>1, <1>2, <1>3 DEF Inserting, Rows
  <1>5. /\ head' \in [Addrs -> Addrs \cup {NULL}] /\ head'[row] = g
        /\ \A b \in Addrs \ {row} : head'[b] = head[b]
    BY <1>1, <1>2, <1>4 DEF LifeInv, Control
  <1>6. /\ IInv' \/ Unused'
        /\ Control' /\ Calling' /\ Ends'
        /\ at'[main] = "serve" /\ at'[handler] = at[handler]
    BY <1>1, <1>5, MainMoves DEF LifeInv, Control, MainPlaces, Holding, Getting
  <1>7. Roots'
    BY <1>1, <1>6 DEF LifeInv, Roots, Before_ll, Before_flows
  <1>8. Placed' = Placed \cup {g}
    <2>1. InHand' = {}
      BY <1>6 DEF InHand
    <2> QED
      BY <1>1, <1>2, <2>1 DEF Placed, vars
  <1>9. Once' /\ Reached' /\ Rows(R)'
    BY <1>1, <1>2, <1>3, <1>4, <1>5, <1>8, Basics, NodePlaced DEF LifeInv
  <1>10. Inserting(R)'
    BY <1>1, <1>3, <1>4, <1>5, <1>6 DEF Inserting
  <1>11. Shape'
    BY <1>9, <1>10 DEF Shape
  <1> QED
    BY <1>6, <1>7, <1>9, <1>11 DEF LifeInv

(* What the two frees have in common: the block was placed, so that main's *)
(* is another one.                                                         *)
LEMMA HandlerFrees ==
  ASSUME LifeInv, NEW L \in Lists, Ready(handler, L), root[L] # NULL,
         NEW p \in Placed, StartFree(handler, p), UNCHANGED <<left, who, at, job, next>>,
         root' \in [Lists -> Addrs \cup {NULL}], head' \in [Addrs -> Addrs \cup {NULL}]
  PROVE  /\ IInv' /\ Control' /\ Calling' /\ Ends'
         /\ Placed' = Placed \ {p}
  <1>1. /\ pc[handler] = "idle" /\ who = handler /\ fate = "running" /\ at[handler] = L
        /\ live' = live \ {p} /\ pc' = [pc EXCEPT ![handler] = "test"]
        /\ UNCHANGED <<table, seen, reported>>
    BY DEF Ready, StartFree
  <1>2. /\ TypeOK /\ main \in Threads /\ handler \in Threads /\ main # handler
        /\ p \in live /\ live \subseteq Addrs
    BY Basics, Contexts DEF Placed
  <1>3. /\ call'[handler].op = "free" /\ call'[handler].good = (p \in live)
        /\ call'[main] = call[main] /\ pc'[handler] = "test" /\ pc'[main] = pc[main]
    BY <1>1, <1>2 DEF StartFree, NoCall, TypeOK
  <1>4. IInv
    BY DEF LifeInv, Unused
  <1>5. IInv'
    <2>1. left' \in Nat
      BY <1>2 DEF TypeOK
    <2> QED
      BY <1>2, <1>4, <2>1, FreeStarts
  <1>6. Got' = Got /\ InHand' = InHand
    BY <1>3 DEF Got, InHand
  <1>7. Placed' = Placed \ {p}
    BY <1>1, <1>6 DEF Placed
  <1>8. Control'
    BY <1>1, Contexts DEF LifeInv, Control
  <1>9. Calling'
    <2>1. at[main] \in Holding => p # Got
      BY DEF Placed, InHand, Holding, Getting
    <2> QED
      BY <1>1, <1>2, <1>3, <1>6, <2>1 DEF LifeInv, Calling, Removing
  <1>10. Ends'
    BY <1>1 DEF LifeInv, Ends, table
  <1> QED
    BY <1>5, <1>7, <1>8, <1>9, <1>10

LEMMA FreeNodeKeeps ==
  ASSUME LifeInv, NEW L \in Lists, FreeNode(L)
  PROVE  LifeInv'
  <1>1. /\ Ready(handler, L) /\ who = handler /\ at[handler] = L
        /\ root[L] # NULL /\ head[root[L]] # NULL
        /\ head' = [head EXCEPT ![root[L]] = next[head[root[L]]]]
        /\ StartFree(handler, head[root[L]])
        /\ UNCHANGED <<left, who, at, job, root, next>>
    BY DEF FreeNode, Ready
  <1>2. PICK R \in SUBSET Addrs : Rows(R) /\ Inserting(R)
    BY DEF LifeInv, Shape
  <1>3. PICK x \in Placed : x = head[root[L]]
    BY <1>1, <1>2 DEF Rows
  <1>4. root[L] \in Addrs /\ next[x] \in Addrs \cup {NULL}
    BY <1>1, <1>2, <1>3, Basics DEF Rows, LifeInv, Control
  <1>5. /\ head' \in [Addrs -> Addrs \cup {NULL}] /\ head'[root[L]] = next[head[root[L]]]
        /\ \A b \in Addrs \ {root[L]} : head'[b] = head[b]
        /\ root' \in [Lists -> Addrs \cup {NULL}]
    BY <1>1, <1>3, <1>4 DEF LifeInv, Control
  <1>6. /\ IInv' /\ Control' /\ Calling' /\ Ends'
        /\ Placed' = Placed \ {x}
    BY <1>1, <1>3, <1>5, HandlerFrees
  <1>7. Once' /\ Reached' /\ Rows(R)'
    BY <1>1, <1>2, <1>3, <1>5, <1>6, Basics, NodeTaken DEF LifeInv
  <1>8. Roots'
    BY <1>1, Contexts DEF LifeInv, Roots
  <1>9. Shape'
    BY <1>1, <1>7, Contexts DEF Shape, Inserting
  <1> QED
    BY <1>6, <1>7, <1>8, <1>9 DEF LifeInv

LEMMA FreeRowKeeps ==
  ASSUME LifeInv, NEW L \in Lists, FreeRow(L)
  PROVE  LifeInv'
  <1>1. /\ Ready(handler, L) /\ who = handler /\ at[handler] = L
        /\ root[L] # NULL /\ head[root[L]] = NULL
        /\ root' = [root EXCEPT ![L] = next[root[L]]]
        /\ StartFree(handler, root[L])
        /\ UNCHANGED <<left, who, at, job, next, head>>
    BY DEF FreeRow, Ready
  <1>2. PICK R \in SUBSET Addrs : Rows(R) /\ Inserting(R)
    BY DEF LifeInv, Shape
  <1>3. PICK r \in R : r = root[L] /\ r \in Placed
    BY <1>1, <1>2 DEF Rows
  <1>4. next[r] \in Addrs \cup {NULL}
    BY <1>2 DEF LifeInv, Control
  <1>5. /\ root' \in [Lists -> Addrs \cup {NULL}] /\ root'[L] = next[r]
        /\ \A M \in Lists \ {L} : root'[M] = root[M]
        /\ head' \in [Addrs -> Addrs \cup {NULL}]
    BY <1>1, <1>3, <1>4 DEF LifeInv, Control
  <1>6. /\ IInv' /\ Control' /\ Calling' /\ Ends'
        /\ Placed' = Placed \ {r}
    BY <1>1, <1>3, <1>5, HandlerFrees
  <1>7. Once' /\ Reached' /\ Rows(R \ {r})'
    BY <1>1, <1>2, <1>3, <1>5, <1>6, Basics, RowTaken DEF LifeInv
  <1>8. Roots'
    BY <1>1, <1>5, Contexts DEF LifeInv, Roots, Lists
  <1>9. Inserting(R \ {r})'
    BY <1>1, Contexts DEF Inserting
  <1>10. Shape'
    BY <1>7, <1>9 DEF Shape
  <1> QED
    BY <1>6, <1>7, <1>8, <1>10 DEF LifeInv

---------------------------------------------------------------------------
(* The rest of the actions *)

(* The handler goes on to another place, without the allocator.            *)
LEMMA HandlerMoves ==
  ASSUME LifeInv, who = handler, pc[handler] = "idle", fate = "running",
         NEW place \in Lists, Move(handler, place), UNCHANGED <<vars, who, job, root, next, head>>,
         place = "flows" => root["ll"] = NULL
  PROVE  LifeInv'
  <1>1. /\ at'[handler] = place /\ at'[main] = at[main]
        /\ at' \in [{main, handler} -> MainPlaces \cup {"terminate"} \cup Lists]
        /\ UNCHANGED <<heap, track_hash, allocated, inited, mutt, fate, pc, call, seen, live,
                       reported, left>>
    BY Contexts DEF Move, LifeInv, Control, vars, table
  <1>2. Got' = Got /\ InHand' = InHand /\ Placed' = Placed
    BY <1>1 DEF Got, InHand, Placed
  <1>3. Control' /\ Calling' /\ Ends' /\ Roots'
    BY <1>1, <1>2, Contexts DEF LifeInv, Control, Calling, Ends, Roots
  <1>4. IInv' \/ Unused'
    <2>1. Unused => Unused'
      BY <1>1, <1>2 DEF Unused, TypeOK
    <2> QED
      BY <2>1, VarsKept DEF LifeInv
  <1>5. \A R : Inserting(R)'
    BY Contexts DEF Inserting
  <1> QED
    BY <1>2, <1>3, <1>4, <1>5, LeavesLists

LEMMA CloseSdKeeps ==
  ASSUME LifeInv, CloseSd
  PROVE  LifeInv'
  BY HandlerMoves DEF CloseSd, Ready, Lists, lists

(* The process ends, by the handler or by SIGINT before there is one.      *)
LEMMA ExitKeepsLife ==
  ASSUME LifeInv, Exit, UNCHANGED <<who, at, job, root, next, head>>,
         who = handler => pc[handler] = "idle" /\ \A L \in Lists : root[L] = NULL
  PROVE  LifeInv'
  <1>1. /\ fate' = "exited"
        /\ UNCHANGED <<heap, track_hash, allocated, inited, mutt, pc, call, seen, live,
                       reported, left>>
    BY DEF Exit
  <1>2. Got' = Got /\ InHand' = InHand /\ Placed' = Placed
    BY <1>1 DEF Got, InHand, Placed
  <1>3. Control' /\ Calling' /\ Ends' /\ Roots'
    BY <1>1, <1>2 DEF LifeInv, Control, Calling, Ends, Roots
  <1>4. IInv' \/ Unused'
    <2>1. Unused => Unused'
      BY <1>1, <1>2 DEF Unused, TypeOK
    <2> QED
      BY <2>1, ExitKeeps DEF LifeInv
  <1>5. \A R \in SUBSET Addrs : Rows(R) /\ Inserting(R) => Inserting(R)'
    BY <1>1, <1>2 DEF Inserting
  <1> QED
    BY <1>2, <1>3, <1>4, <1>5, LeavesLists

LEMMA ListFreedKeeps ==
  ASSUME LifeInv, NEW L \in Lists, ListFreed(L)
  PROVE  LifeInv'
  <1>1. /\ who = handler /\ pc[handler] = "idle" /\ fate = "running" /\ at[handler] = L
        /\ root[L] = NULL /\ UNCHANGED <<who, job, root, next, head>>
    BY DEF ListFreed, Ready, lists
  <1>2. CASE L = "ll" /\ Move(handler, "flows") /\ UNCHANGED vars
    BY <1>1, <1>2, HandlerMoves DEF Lists
  <1>3. CASE L = "flows" /\ Exit /\ UNCHANGED at
    <2>1. \A M \in Lists : root[M] = NULL
      BY <1>1, <1>3 DEF LifeInv, Roots, Lists
    <2> QED
      BY <1>1, <1>3, <2>1, ExitKeepsLife
  <1> QED
    BY <1>2, <1>3 DEF ListFreed

LEMMA SigintKeeps ==
  ASSUME LifeInv, Sigint
  PROVE  LifeInv'
  <1>1. /\ fate = "running" /\ who = main /\ pc[handler] = "idle"
        /\ UNCHANGED <<at, job, root, next, head>>
    BY DEF Sigint, lists, LifeInv, Control
  <1>2. CASE catching /\ who' = handler /\ UNCHANGED vars
    <2>1. UNCHANGED <<heap, track_hash, allocated, inited, mutt, fate, pc, call, seen, live,
                      reported, left>>
      BY <1>2 DEF vars, table
    <2>2. Got' = Got /\ InHand' = InHand /\ Placed' = Placed
      BY <1>1, <2>1 DEF Got, InHand, Placed
    <2>3. Control' /\ Calling' /\ Ends' /\ Roots'
      BY <1>1, <1>2, <2>1, <2>2, Contexts DEF LifeInv, Control, Calling, Ends, Roots
    <2>4. IInv' \/ Unused'
      <3>1. Unused => Unused'
        BY <1>1, <2>1, <2>2 DEF Unused, TypeOK
      <3> QED
        BY <1>2, <3>1, VarsKept DEF LifeInv
    <2>5. \A R : Inserting(R)'
      BY <1>2, Contexts DEF Inserting
    <2> QED
      BY <1>1, <2>2, <2>3, <2>4, <2>5, LeavesLists
  <1>3. CASE Exit /\ UNCHANGED who
    BY <1>1, <1>3, Contexts, ExitKeepsLife
  <1> QED
    BY <1>2, <1>3 DEF Sigint

LEMMA AllocatorStepKeeps ==
  ASSUME LifeInv, AllocatorStep
  PROVE  LifeInv'
  <1>1. /\ Step(who) /\ left' = left /\ fate = "running"
        /\ UNCHANGED <<who, at, job, root, next, head>>
    BY DEF AllocatorStep, Step, lists
  <1>2. CASE who = main
    <2>1. /\ IInv' \/ Unused'
          /\ pc'[handler] = pc[handler] /\ call'[handler] = call[handler]
          /\ reported' = reported /\ fate' # "crashed"
          /\ pc'[main] \in Adding \cup {"idle", "wipe", "malloc"}
          /\ call'[main].op = "alloc" /\ at[main] \in Getting
          /\ pc'[main] = "malloc" => Got' = NULL
          /\ pc'[main] = "idle" => Got' \in live'
          /\ live' \ {Got'} = live \ {Got}
      BY <1>1, <1>2, MainSteps
    <2>2. InHand = {Got} /\ InHand' = {Got'}
      BY <1>1, <2>1 DEF InHand, Getting
    <2>3. Placed' = Placed
      BY <2>1, <2>2 DEF Placed
    <2>4. Control' /\ Calling' /\ Ends' /\ Roots'
      BY <1>1, <1>2, <2>1, Contexts DEF LifeInv, Control, Calling, Ends, Roots, Removing
    <2>5. \A R \in SUBSET Addrs : Rows(R) /\ Inserting(R) => Inserting(R)'
      BY <1>1, <2>1 DEF Inserting, Getting
    <2> QED
      BY <1>1, <2>1, <2>3, <2>4, <2>5, LeavesLists
  <1>3. CASE who = handler
    <2>1. /\ IInv'
          /\ pc'[main] = pc[main] /\ call'[main] = call[main]
          /\ reported' = {} /\ fate' = "running"
          /\ pc'[handler] \in Removing \cup {"idle", "release"}
          /\ call'[handler] = call[handler]
          /\ pc[handler] # "idle"
          /\ pc'[handler] \in Removing => pc[handler] \in Removing
          /\ live' = live
      BY <1>1, <1>3, HandlerSteps
    <2>2. Got' = Got /\ InHand' = InHand /\ Placed' = Placed
      BY <1>1, <2>1 DEF Got, InHand, Placed
    <2>3. Control' /\ Calling' /\ Ends' /\ Roots'
      BY <1>1, <1>3, <2>1, <2>2, Contexts DEF LifeInv, Control, Calling, Ends, Roots
    <2>4. \A R : Inserting(R)'
      BY <1>1, <1>3, Contexts DEF Inserting
    <2> QED
      BY <1>1, <2>1, <2>2, <2>3, <2>4, LeavesLists
  <1> QED
    BY <1>2, <1>3 DEF LifeInv, Control

LEMMA LifeInit_Inv == LifeInit => LifeInv
  <1> SUFFICES ASSUME LifeInit PROVE LifeInv
    OBVIOUS
  <1>1. /\ Init /\ who = main /\ at[main] = "tcpSetup" /\ at[handler] = "terminate"
        /\ job = [list |-> "ll", socket |-> 0, row |-> NULL]
        /\ root = [L \in Lists |-> NULL] /\ next = [a \in Addrs |-> NULL]
        /\ head = [a \in Addrs |-> NULL]
        /\ at \in [{main, handler} -> {"tcpSetup", "terminate"}]
    BY Contexts DEF LifeInit
  <1>2. /\ pc[main] = "idle" /\ pc[handler] = "idle" /\ live = {} /\ heap = {}
        /\ reported = {} /\ fate = "running" /\ inited = FirstCallDone
    BY <1>1, Contexts DEF Init
  <1>3. IInv \/ Unused
    <2>1. CASE FirstCallDone
      BY <1>1, <2>1, InitInv
    <2>2. CASE ~ FirstCallDone
      <3>1. TypeOK
        BY <1>1, AllocatorOK DEF Init, TypeOK, NoCall
      <3> QED
        BY <1>1, <1>2, <2>2, <3>1 DEF Unused
    <2> QED
      BY <2>1, <2>2
  <1>4. Control
    BY <1>1, <1>2 DEF Control, MainPlaces, Before_flows, Before_ll, Lists
  <1>5. Calling /\ Ends /\ Roots
    <2>1. at[main] \notin Holding /\ at[handler] # "flows"
      BY <1>1 DEF Holding, Getting
    <2>2. Calling
      BY <1>2, <2>1 DEF Calling, Removing
    <2>3. Ends
      BY <1>2 DEF Ends
    <2>4. root["ll"] = NULL /\ root["flows"] = NULL
      BY <1>1 DEF Lists
    <2> QED
      BY <2>1, <2>2, <2>3, <2>4 DEF Roots
  <1>6. Placed = {}
    BY <1>2 DEF Placed
  <1>7. Once /\ Reached
    BY <1>1, <1>6 DEF Once, Reached, Lists
  <1>8. Rows({}) /\ Inserting({})
    BY <1>1, <1>6 DEF Rows, Inserting
  <1>9. Shape
    BY <1>8 DEF Shape
  <1> QED
    BY <1>3, <1>4, <1>5, <1>7, <1>9 DEF LifeInv

LEMMA LifeStep == LifeInv /\ [LifeNext]_lifevars => LifeInv'
  <1> SUFFICES ASSUME LifeInv, [LifeNext]_lifevars PROVE LifeInv'
    OBVIOUS
  <1>1. CASE UNCHANGED lifevars
    <2>1. UNCHANGED <<heap, track_hash, allocated, inited, mutt, fate, pc, call, seen, live,
                      reported, left, who, at, job, root, next, head>>
      BY <1>1 DEF lifevars, vars, table, lists
    <2>2. Got' = Got /\ InHand' = InHand /\ Placed' = Placed
      BY <2>1 DEF Got, InHand, Placed
    <2>3. Control' /\ Calling' /\ Ends' /\ Roots'
      BY <2>1, <2>2 DEF LifeInv, Control, Calling, Ends, Roots
    <2>4. IInv' \/ Unused'
      <3>1. Unused => Unused'
        BY <2>1, <2>2 DEF Unused, TypeOK
      <3> QED
        BY <1>1, <3>1, VarsKept DEF LifeInv, lifevars
    <2>5. \A R \in SUBSET Addrs : Rows(R) /\ Inserting(R) => Inserting(R)'
      BY <2>1, <2>2 DEF Inserting
    <2> QED
      BY <2>1, <2>2, <2>3, <2>4, <2>5, LeavesLists
  <1>2. CASE Boot
    BY <1>2, TcpSetupKeeps, InstallHandlerKeeps, MakeRootKeeps, GotRootKeeps DEF Boot
  <1>3. CASE Serve
    BY <1>3, InsertKeeps, FillRowKeeps, LinkRowKeeps, FillNodeKeeps, LinkNodeKeeps DEF Serve
  <1>4. CASE Terminate
    BY <1>4, CloseSdKeeps, FreeNodeKeeps, FreeRowKeeps, ListFreedKeeps DEF Terminate
  <1>5. CASE AllocatorStep
    BY <1>5, AllocatorStepKeeps
  <1>6. CASE Sigint
    BY <1>6, SigintKeeps
  <1> QED
    BY <1>1, <1>2, <1>3, <1>4, <1>5, <1>6 DEF LifeNext

LEMMA LifeInductive == LifeSpec => []LifeInv
  BY LifeInit_Inv, LifeStep, PTL DEF LifeSpec

---------------------------------------------------------------------------
(* Theorems *)

(* freeLL and freeFlows read no block that was freed or never allocated,   *)
(* free none twice and report nothing, however many hosts and flows there  *)
(* are and at whatever step of an insertion SIGINT came (controller.c      *)
(* terminate, myGraph.c freeLL, freeFlows).                                *)
THEOREM WalkIsSafe == LifeSpec => []WalkStaysAllocated
  <1>1. LifeInv => WalkStaysAllocated
    <2> SUFFICES ASSUME LifeInv PROVE WalkStaysAllocated
      OBVIOUS
    <2>1. reported = {} /\ fate # "crashed"
      BY DEF LifeInv, Ends
    <2>2. PICK R \in SUBSET Addrs : Rows(R)
      BY DEF LifeInv, Shape
    <2>3. ASSUME NEW L \in Lists, root[L] # NULL
          PROVE  root[L] \in live /\ head[root[L]] \in live \cup {NULL}
      <3>1. Placed \subseteq live
        BY DEF Placed
      <3> QED
        BY <2>2, <2>3, <3>1 DEF Rows
    <2> QED
      BY <2>1, <2>3 DEF WalkStaysAllocated
  <1> QED
    BY <1>1, LifeInductive, PTL

(* When terminate has ended the process, libc has nothing still to be      *)
(* freed but the one block main was about to insert.                       *)
THEOREM LittleIsLeaked == LifeSpec => []LeaksOnlyInterrupted
  <1>1. LifeInv => LeaksOnlyInterrupted
    <2> SUFFICES ASSUME LifeInv, fate = "exited", who = handler PROVE heap \subseteq InHand
      BY DEF LeaksOnlyInterrupted
    <2>1. pc[handler] = "idle" /\ \A L \in Lists : root[L] = NULL
      BY DEF LifeInv, Ends
    <2>2. Closed({})
      BY <2>1 DEF Closed
    <2>3. Placed = {}
      BY <2>2 DEF LifeInv, Reached
    <2>4. live \subseteq InHand
      BY <2>3 DEF Placed
    <2>5. pc[main] # "idle" => InHand = {Got} /\ call[main].op = "alloc"
      BY DEF LifeInv, Calling, InHand, Getting
    <2>6. CASE Unused
      BY <2>5, <2>6 DEF Unused
    <2>7. CASE IInv
      <3>1. Held(handler) = {}
        BY <2>1 DEF Held, New, Old, Adding, Removing
      <3>2. Held(main) \subseteq InHand
        <4>1. CASE pc[main] = "idle"
          BY <4>1 DEF Held, New, Old, Adding, Removing
        <4>2. CASE pc[main] # "idle"
          <5>1. pc[main] \in Adding \cup {"malloc", "wipe"}
            BY <4>2 DEF LifeInv, Calling
          <5>2. Held(main) \subseteq {Got}
            BY <2>5, <4>2, <5>1 DEF Held, New, Old, Adding, Removing, Got
          <5> QED
            BY <2>5, <4>2, <5>2
        <4> QED
          BY <4>1, <4>2
      <3>3. heap \subseteq live \cup Held(main) \cup Held(handler)
        <4>1. UNION {Held(t) : t \in Threads} \subseteq Held(main) \cup Held(handler)
          BY Contexts
        <4>2. NoneLost
          BY <2>7 DEF IInv
        <4> HIDE DEF Held
        <4> QED
          BY <4>1, <4>2 DEF NoneLost
      <3> QED
        BY <2>4, <3>1, <3>2, <3>3
    <2> QED
      BY <2>6, <2>7 DEF LifeInv
  <1> QED
    BY <1>1, LifeInductive, PTL
=============================================================================
