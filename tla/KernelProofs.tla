---------------------------- MODULE KernelProofs ----------------------------
(***************************************************************************)
(* What holds of the kernel for every number of processes, every time      *)
(* slice, every width of the clock and every mix of calls, damaged queues  *)
(* included.                                                               *)
(*                                                                         *)
(* The functions of procs.c are composed in many ways, so each has one     *)
(* lemma, in terms of the relation Keeps; the lemma of a caller cites the  *)
(* lemmas of what it calls and chains them by KeepsTrans.                  *)
(*                                                                         *)
(* Then the process module as long as no queue holds a stale entry: the    *)
(* queues are sound, every PCB is where its state says, every process has  *)
(* a live parent, no stack is lost and the kernel does not stop.  And with *)
(* the timer, for the calls after which no entry becomes stale: every      *)
(* sleeper wakes up on time, and the process dispatched is one of the      *)
(* highest priority.                                                       *)
(***************************************************************************)
EXTENDS MCKernel, MCSleep, ProofBasics, FiniteSetTheorems, TLAPS

(* k1 is a kernel state in which the same process is current and every PCB *)
(* has the PID it has in k: what all of procs.c but dispatch leaves.       *)
Keeps(k, k1) ==
  /\ k1 \in KernelState
  /\ k1.current = k.current
  /\ k1.next_pid = k.next_pid
  /\ \A s \in Slots : k1.ptable[s].pid = k.ptable[s].pid

-----------------------------------------------------------------------------
(* Pointers and types.                                                     *)

(* A pointer is NULL or designates a PCB.                                  *)
LEMMA PtrCases ==
  /\ NULL \in Ptr
  /\ Slots \subseteq Ptr
  /\ \A p \in Ptr : p # NULL => p \in Slots
  /\ init_pcb \in Slots
BY ProcsAssumption DEF NULL, Ptr, Slots, init_pcb

LEMMA KeepsType ==
  ASSUME NEW a, NEW b, Keeps(a, b) PROVE b \in KernelState
BY DEF Keeps

LEMMA KeepsTrans ==
  ASSUME NEW a, NEW b, NEW c, Keeps(a, b), Keeps(b, c)
  PROVE Keeps(a, c)
BY DEF Keeps

LEMMA KeepsSelf ==
  ASSUME NEW k \in KernelState PROVE Keeps(k, k)
BY DEF Keeps

LEMMA TableType ==
  ASSUME NEW k \in KernelState
  PROVE /\ k.ptable \in [Slots -> PCB]
        /\ \A s \in Slots : /\ k.ptable[s] \in PCB
                            /\ k.ptable[s].next \in Ptr
                            /\ k.ptable[s].parent \in Ptr
                            /\ k.ptable[s].pid \in Nat
                            /\ k.ptable[s].arg \in Nat
                            /\ k.ptable[s].priority \in Int
BY DEF KernelState, PCB, Pids

LEMMA QueueType ==
  ASSUME NEW k \in KernelState, NEW q \in Queues
  PROVE /\ k.q \in [Queues -> Queue]
        /\ k.q[q] \in Queue
        /\ k.q[q].head \in Ptr
        /\ k.q[q].tail \in Ptr
        /\ k.q[q].length \in 0..LenMod-1
BY DEF KernelState, Queue

LEMMA LengthType ==
  ASSUME NEW k \in KernelState, NEW q \in Queues
  PROVE /\ Longer(k, q) \in 0..LenMod-1
        /\ Shorter(k, q) \in 0..LenMod-1
        /\ 0 \in 0..LenMod-1
        /\ 1 \in 0..LenMod-1
<1>1. LenMod \in Nat /\ LenMod > 1 /\ k.q[q].length \in Int
  BY ProcsAssumption, QueueType
<1> QED
  BY <1>1 DEF Longer, Shorter

-----------------------------------------------------------------------------
(* Assignments.                                                            *)

LEMMA StatusKeeps ==
  ASSUME NEW k \in KernelState
  PROVE /\ Keeps(k, Panic(k))
        /\ Keeps(k, Hang(k))
BY Zenon DEF Keeps, Panic, Hang, KernelState

LEMMA SetPCBKeeps ==
  ASSUME NEW k \in KernelState, NEW p \in Slots,
         NEW pcb \in PCB, pcb.pid = k.ptable[p].pid
  PROVE Keeps(k, SetPCB(k, p, pcb))
<1> DEFINE t == [k.ptable EXCEPT ![p] = pcb]
<1>1. t \in [Slots -> PCB] /\ \A s \in Slots : t[s].pid = k.ptable[s].pid
  BY TableType
<1> HIDE DEF t
<1>2. Keeps(k, [k EXCEPT !.ptable = t])
  BY <1>1 DEF Keeps, KernelState
<1> QED
  BY <1>2 DEF SetPCB, t

LEMMA SetQueueKeeps ==
  ASSUME NEW k \in KernelState, NEW q \in Queues, NEW queue \in Queue
  PROVE Keeps(k, SetQueue(k, q, queue))
<1> DEFINE t == [k.q EXCEPT ![q] = queue]
<1>1. t \in [Queues -> Queue]
  BY QueueType
<1> HIDE DEF t
<1>2. Keeps(k, [k EXCEPT !.q = t])
  BY <1>1 DEF Keeps, KernelState
<1> QED
  BY <1>2 DEF SetQueue, t

LEMMA FieldKeeps ==
  ASSUME NEW k \in KernelState, NEW p \in Slots
  PROVE /\ \A n \in Ptr : Keeps(k, SetNext(k, p, n))
        /\ \A state \in States : Keeps(k, SetState(k, p, state))
        /\ \A state \in States : Keeps(k, Detach(k, p, state))
        /\ \A ret \in Int : Keeps(k, SetRet(k, p, ret))
<1> DEFINE r == k.ptable[p]
<1>0. r \in PCB
  BY TableType
<1> HIDE DEF r
<1>1. ASSUME NEW n \in Ptr
      PROVE [r EXCEPT !.next = n] \in PCB /\ [r EXCEPT !.next = n].pid = r.pid
  BY <1>0, Zenon DEF PCB
<1>2. ASSUME NEW state \in States
      PROVE [r EXCEPT !.state = state] \in PCB /\ [r EXCEPT !.state = state].pid = r.pid
  BY <1>0, Zenon DEF PCB
<1>3. ASSUME NEW state \in States
      PROVE /\ [r EXCEPT !.state = state, !.next = NULL] \in PCB
            /\ [r EXCEPT !.state = state, !.next = NULL].pid = r.pid
  BY <1>0, PtrCases, Zenon DEF PCB
<1>4. ASSUME NEW ret \in Int
      PROVE [r EXCEPT !.ret = ret] \in PCB /\ [r EXCEPT !.ret = ret].pid = r.pid
  BY <1>0, Zenon DEF PCB
<1> QED
  BY <1>1, <1>2, <1>3, <1>4, SetPCBKeeps, Zenon
     DEF r, SetNext, SetState, Detach, SetRet

-----------------------------------------------------------------------------
(* The queue operations of procs.c.                                        *)

(* An assignment to a PCB followed by one to a queue.                      *)
LEMMA ThenQueueKeeps ==
  ASSUME NEW k, NEW k1, Keeps(k, k1), NEW q \in Queues, NEW queue \in Queue
  PROVE Keeps(k, SetQueue(k1, q, queue))
BY SetQueueKeeps, KeepsTrans DEF Keeps

LEMMA LinkAfterKeeps ==
  ASSUME NEW k \in KernelState, NEW q \in Queues, NEW prev \in Ptr, NEW p \in Slots
  PROVE Keeps(k, LinkAfter(k, q, prev, p))
<1> DEFINE r == [k.q[q] EXCEPT !.length = Longer(k, q)]
<1>1. r \in Queue /\ r.head \in Ptr
  BY QueueType, LengthType, Zenon DEF Queue
<1>2. p \in Ptr
  BY PtrCases
<1>3. [r EXCEPT !.head = p] \in Queue /\ [r EXCEPT !.tail = p] \in Queue
  <2> HIDE DEF r
  <2> QED
    BY <1>1, <1>2, Zenon DEF Queue
<1>4. CASE prev = NULL
  <2>1. Keeps(k, SetNext(k, p, r.head))
    BY <1>1, FieldKeeps
  <2> QED
    BY <1>3, <1>4, <2>1, ThenQueueKeeps DEF LinkAfter
<1>5. CASE prev # NULL /\ k.ptable[prev].next = NULL
  <2>1. Keeps(k, SetNext(k, prev, p))
    BY <1>2, <1>5, PtrCases, FieldKeeps
  <2> QED
    BY <1>3, <1>5, <2>1, ThenQueueKeeps DEF LinkAfter
<1>6. CASE prev # NULL /\ k.ptable[prev].next # NULL
  <2> DEFINE k1 == SetNext(k, p, k.ptable[prev].next)
  <2>1. prev \in Slots /\ k.ptable[prev].next \in Ptr
    BY <1>6, PtrCases, TableType
  <2>2. Keeps(k, k1)
    BY <2>1, FieldKeeps
  <2>3. Keeps(k1, SetNext(k1, prev, p))
    BY <1>2, <2>1, <2>2, FieldKeeps DEF Keeps
  <2>4. Keeps(k, SetNext(k1, prev, p))
    BY <2>2, <2>3, KeepsTrans
  <2> QED
    BY <1>1, <1>6, <2>4, ThenQueueKeeps DEF LinkAfter
<1> QED
  BY <1>4, <1>5, <1>6

LEMMA InsertKeeps ==
  ASSUME NEW k \in KernelState, NEW q \in Queues, NEW p \in Slots
  PROVE Keeps(k, pcb_queue_insert(k, q, p))
<1> DEFINE Stop == Beyond(k, q, p)
           V == Visited(k, q, Stop)
           last == LastOf(k, V, Stop)
<1>1. V \subseteq Slots
  BY DEF Visited
<1>2. last \subseteq V
  BY DEF LastOf
<1>3. Keeps(k, SetQueue(k, q, [head |-> p, tail |-> p, length |-> 1]))
  <2>1. [head |-> p, tail |-> p, length |-> 1] \in Queue
    BY PtrCases, LengthType DEF Queue
  <2> QED
    BY <2>1, SetQueueKeeps
<1>4. Keeps(k, LinkAfter(k, q, k.q[q].tail, p)) /\ Keeps(k, LinkAfter(k, q, NULL, p))
  BY QueueType, PtrCases, LinkAfterKeeps
<1>5. ASSUME last # {}
      PROVE Keeps(k, LinkAfter(k, q, CHOOSE s \in last : TRUE, p))
  <2>1. (CHOOSE s \in last : TRUE) \in last
    BY <1>5
  <2>2. (CHOOSE s \in last : TRUE) \in Ptr
    BY <2>1, <1>1, <1>2, PtrCases
  <2> QED
    BY <2>2, LinkAfterKeeps
<1>6. Keeps(k, InsertUnlinked(k, q, p))
  <2> HIDE DEF Stop, V, last
  <2> QED
    BY <1>3, <1>4, <1>5, StatusKeeps, Zenon DEF InsertUnlinked, Stop, V, last
<1> QED
  BY <1>6, KeepsSelf, StatusKeeps DEF pcb_queue_insert

LEMMA RemoveKeeps ==
  ASSUME NEW k \in KernelState, NEW q \in Queues, ~pcb_queue_empty(k, q)
  PROVE Keeps(k, pcb_queue_remove(k, q))
<1> DEFINE h == k.q[q].head
           n == k.ptable[h].next
           queue == [head |-> n,
                     tail |-> IF n = NULL THEN NULL ELSE k.q[q].tail,
                     length |-> IF n = NULL THEN 0 ELSE Shorter(k, q)]
<1>1. h \in Slots /\ n \in Ptr
  BY QueueType, PtrCases, TableType DEF pcb_queue_empty
<1>2. queue \in Queue
  <2>1. (IF n = NULL THEN NULL ELSE k.q[q].tail) \in Ptr
    BY QueueType, PtrCases
  <2>2. (IF n = NULL THEN 0 ELSE Shorter(k, q)) \in 0..LenMod-1
    BY LengthType
  <2> QED
    BY <1>1, <2>1, <2>2 DEF Queue
<1>3. Keeps(k, SetNext(k, h, NULL))
  BY <1>1, FieldKeeps, PtrCases
<1> QED
  BY <1>2, <1>3, ThenQueueKeeps DEF pcb_queue_remove

LEMMA UnlinkKeeps ==
  ASSUME NEW k \in KernelState, NEW q \in Queues, NEW prev \in Ptr, NEW p \in Slots
  PROVE Keeps(k, Unlink(k, q, prev, p))
<1> DEFINE n == k.ptable[p].next
           head == IF prev = NULL THEN n ELSE k.q[q].head
           tail == IF n = NULL THEN prev ELSE k.q[q].tail
           k1 == IF prev = NULL THEN k ELSE SetNext(k, prev, n)
           queue == [head |-> head, tail |-> tail, length |-> Shorter(k, q)]
           k2 == SetQueue(SetNext(k1, p, NULL), q, queue)
<1>1. n \in Ptr
  BY TableType
<1>2. Keeps(k, k1)
  BY <1>1, PtrCases, KeepsSelf, FieldKeeps
<1>3. queue \in Queue
  <2>1. head \in Ptr /\ tail \in Ptr
    BY <1>1, QueueType
  <2> QED
    BY <2>1, LengthType DEF Queue
<1>4. Keeps(k, SetNext(k1, p, NULL))
  <2> HIDE DEF k1
  <2>1. Keeps(k1, SetNext(k1, p, NULL))
    BY <1>2, KeepsType, PtrCases, FieldKeeps
  <2> QED
    BY <1>2, <2>1, KeepsTrans
<1>5. Keeps(k, k2)
  BY <1>3, <1>4, ThenQueueKeeps
<1>6. Keeps(k, Panic(k2))
  <2> HIDE DEF k2
  <2>1. Keeps(k2, Panic(k2))
    BY <1>5, KeepsType, StatusKeeps
  <2> QED
    BY <1>5, <2>1, KeepsTrans
<1> QED
  BY <1>5, <1>6, Zenon DEF Unlink

LEMMA RemoveThisKeeps ==
  ASSUME NEW k \in KernelState, NEW q \in Queues, NEW p \in Slots
  PROVE Keeps(k, pcb_queue_remove_this(k, q, p))
<1> DEFINE V == Visited(k, q, {p})
           last == LastOf(k, V, {p})
           prev == IF V = {} THEN NULL ELSE CHOOSE s \in last : TRUE
<1>1. V \subseteq Slots
  BY DEF Visited
<1>2. last \subseteq V
  BY DEF LastOf
<1>3. ASSUME V = {} \/ last # {}
      PROVE Keeps(k, Unlink(k, q, prev, p))
  <2>1. prev \in Ptr
    <3>1. last # {} => (CHOOSE s \in last : TRUE) \in last
      OBVIOUS
    <3> QED
      BY <1>1, <1>2, <1>3, <3>1, PtrCases
  <2> QED
    BY <2>1, UnlinkKeeps
<1> HIDE DEF V, last
<1> QED
  BY <1>3, StatusKeeps, KeepsSelf, Zenon DEF pcb_queue_remove_this, V, last

LEMMA MustRemoveKeeps ==
  ASSUME NEW k \in KernelState, NEW q \in Queues, NEW p \in Slots
  PROVE Keeps(k, MustRemoveThis(k, q, p))
<1> DEFINE k1 == pcb_queue_remove_this(k, q, p)
<1>1. Keeps(k, k1)
  BY RemoveThisKeeps
<1> HIDE DEF k1
<1>2. Keeps(k1, Panic(k1))
  BY <1>1, KeepsType, StatusKeeps
<1>3. Keeps(k, Panic(k1))
  BY <1>1, <1>2, KeepsTrans
<1> QED
  BY <1>1, <1>3, KeepsSelf, Zenon DEF MustRemoveThis, Assert, k1

-----------------------------------------------------------------------------
(* PCB allocation and scheduling.                                          *)

LEMMA FreeKeeps ==
  ASSUME NEW k \in KernelState, NEW p \in Slots
  PROVE Keeps(k, pcb_free(k, p))
<1> DEFINE k1 == Detach(k, p, "Unused")
<1>1. Keeps(k, k1)
  BY FieldKeeps DEF States
<1> HIDE DEF k1
<1>2. Keeps(k1, pcb_queue_insert(k1, "freelist", p))
  BY <1>1, KeepsType, InsertKeeps DEF Queues
<1> QED
  BY <1>1, <1>2, KeepsTrans DEF pcb_free, k1

LEMMA CleanupKeeps ==
  ASSUME NEW k \in KernelState, NEW p \in Slots
  PROVE Keeps(k, pcb_cleanup(k, p))
<1> DEFINE k1 == [k EXCEPT !.stacks = @ + 1]
<1>1. Keeps(k, k1)
  <2>1. k.stacks + 1 \in Int
    BY DEF KernelState
  <2> QED
    BY <2>1, Zenon DEF Keeps, KernelState
<1> HIDE DEF k1
<1>2. Keeps(k1, pcb_free(k1, p))
  BY <1>1, KeepsType, FreeKeeps
<1> QED
  BY <1>1, <1>2, KeepsTrans, KeepsSelf DEF pcb_cleanup, k1

LEMMA MakeReadyKeeps ==
  ASSUME NEW k \in KernelState, NEW p \in Slots
  PROVE Keeps(k, MakeReady(k, p))
<1> DEFINE k1 == Detach(k, p, "Ready")
<1>1. Keeps(k, k1)
  BY FieldKeeps DEF States
<1> HIDE DEF k1
<1>2. Keeps(k1, pcb_queue_insert(k1, "ready", p))
  BY <1>1, KeepsType, InsertKeeps DEF Queues
<1> QED
  BY <1>1, <1>2, KeepsTrans, KeepsSelf DEF MakeReady, k1

LEMMA BecomeZombieKeeps ==
  ASSUME NEW k \in KernelState, NEW v \in Slots
  PROVE Keeps(k, BecomeZombie(k, v))
<1> DEFINE k1 == Detach(k, v, "Zombie")
<1>1. Keeps(k, k1)
  BY FieldKeeps DEF States
<1> HIDE DEF k1
<1>2. Keeps(k1, pcb_queue_insert(k1, "zombie", v))
  BY <1>1, KeepsType, InsertKeeps DEF Queues
<1> QED
  BY <1>1, <1>2, KeepsTrans DEF BecomeZombie, k1

LEMMA ReparentKeeps ==
  ASSUME NEW k \in KernelState, NEW v \in Slots
  PROVE Keeps(k, Reparent(k, v))
<1> DEFINE t == [s \in Slots |->
                   IF s \in Orphans(k, v)
                   THEN [k.ptable[s] EXCEPT !.parent = init_pcb]
                   ELSE k.ptable[s]]
<1>1. ASSUME NEW r \in PCB
      PROVE /\ [r EXCEPT !.parent = init_pcb] \in PCB
            /\ [r EXCEPT !.parent = init_pcb].pid = r.pid
  BY PtrCases, Zenon DEF PCB
<1>2. t \in [Slots -> PCB] /\ \A s \in Slots : t[s].pid = k.ptable[s].pid
  BY <1>1, TableType
<1> HIDE DEF t
<1>3. Keeps(k, [k EXCEPT !.ptable = t])
  BY <1>2 DEF Keeps, KernelState
<1> QED
  BY <1>3 DEF Reparent, t

LEMMA GiveToInitKeeps ==
  ASSUME NEW k \in KernelState, NEW z \in Slots
  PROVE Keeps(k, GiveToInit(k, z))
<1> DEFINE k1 == MustRemoveThis(k, "zombie", z)
           k2 == MustRemoveThis(k1, "waiting", init_pcb)
           k3 == SetRet(k2, init_pcb, k2.ptable[z].pid)
           k4 == MakeReady(k3, init_pcb)
           k5 == pcb_cleanup(k4, z)
<1>1. Keeps(k, k1)
  BY MustRemoveKeeps DEF Queues
<1>2. Keeps(k, k2)
  <2> HIDE DEF k1
  <2>1. Keeps(k1, k2)
    BY <1>1, KeepsType, PtrCases, MustRemoveKeeps DEF Queues
  <2> QED
    BY <1>1, <2>1, KeepsTrans
<1> HIDE DEF k2
<1>3. Keeps(k, k3)
  <2>1. k2 \in KernelState
    BY <1>2, KeepsType
  <2>2. k2.ptable[z].pid \in Int
    BY <2>1, TableType
  <2>3. Keeps(k2, k3)
    BY <2>1, <2>2, PtrCases, FieldKeeps
  <2> QED
    BY <1>2, <2>3, KeepsTrans
<1> HIDE DEF k3
<1>4. Keeps(k, k4)
  <2>1. Keeps(k3, k4)
    BY <1>3, KeepsType, PtrCases, MakeReadyKeeps
  <2> QED
    BY <1>3, <2>1, KeepsTrans
<1> HIDE DEF k4
<1>5. Keeps(k, k5)
  <2>1. Keeps(k4, k5)
    BY <1>4, KeepsType, CleanupKeeps
  <2> QED
    BY <1>4, <2>1, KeepsTrans
<1> QED
  BY <1>2, <1>5, Zenon DEF GiveToInit, InitCollects, k1, k2, k3, k4, k5

LEMMA GiveToParentKeeps ==
  ASSUME NEW k \in KernelState, NEW v \in Slots, NEW parent \in Slots
  PROVE Keeps(k, GiveToParent(k, v, parent))
<1> DEFINE k1 == SetRet(k, parent, k.ptable[v].pid)
           k2 == MakeReady(k1, parent)
           k3 == pcb_cleanup(k2, v)
<1>1. Keeps(k, k1)
  BY TableType, FieldKeeps
<1> HIDE DEF k1
<1>2. Keeps(k, k2)
  <2>1. Keeps(k1, k2)
    BY <1>1, KeepsType, MakeReadyKeeps
  <2> QED
    BY <1>1, <2>1, KeepsTrans
<1> HIDE DEF k2
<1>3. Keeps(k, k3)
  <2>1. Keeps(k2, k3)
    BY <1>2, KeepsType, CleanupKeeps
  <2> QED
    BY <1>2, <2>1, KeepsTrans
<1> QED
  BY <1>3, Zenon DEF GiveToParent, k1, k2, k3

LEMMA BuryKeeps ==
  ASSUME NEW k \in KernelState, NEW v \in Slots, NEW parent \in Slots
  PROVE Keeps(k, Bury(k, v, parent))
BY KeepsSelf, GiveToParentKeeps, BecomeZombieKeeps DEF Bury

LEMMA InheritKeeps ==
  ASSUME NEW k \in KernelState, NEW zombies \in SUBSET Slots
  PROVE Keeps(k, Inherit(k, zombies))
<1>1. ASSUME zombies # {}
      PROVE Keeps(k, GiveToInit(k, CHOOSE z \in zombies : TRUE))
  <2>1. (CHOOSE z \in zombies : TRUE) \in Slots
    BY <1>1
  <2> QED
    BY <2>1, GiveToInitKeeps
<1> QED
  BY <1>1, KeepsSelf, Zenon DEF Inherit

LEMMA ZombifyKeeps ==
  ASSUME NEW k \in KernelState, NEW v \in Slots
  PROVE Keeps(k, pcb_zombify(k, v))
<1> DEFINE parent == k.ptable[v].parent
           zchild == LastIn({s \in Orphans(k, v) : k.ptable[s].state = "Zombie"})
           k1 == Reparent(k, v)
           k2 == Inherit(k1, zchild)
<1>1. Keeps(k, k1)
  BY ReparentKeeps
<1>2. zchild \in SUBSET Slots
  BY DEF LastIn, Orphans
<1> HIDE DEF k1, zchild
<1>3. Keeps(k, k2)
  <2>1. Keeps(k1, k2)
    BY <1>1, <1>2, KeepsType, InheritKeeps
  <2> QED
    BY <1>1, <2>1, KeepsTrans
<1> HIDE DEF k2
<1>4. ASSUME parent # NULL
      PROVE Keeps(k, Bury(k2, v, parent))
  <2>1. parent \in Slots
    BY <1>4, TableType, PtrCases
  <2>2. Keeps(k2, Bury(k2, v, parent))
    BY <1>3, <2>1, KeepsType, BuryKeeps
  <2> QED
    BY <1>3, <2>2, KeepsTrans
<1>5. Keeps(k, k) /\ Keeps(k, Panic(k))
  BY KeepsSelf, StatusKeeps
<1> QED
  BY <1>4, <1>5, Zenon DEF pcb_zombify, k1, k2, zchild

LEMMA ScheduleKeeps ==
  ASSUME NEW k \in KernelState, NEW p \in Slots
  PROVE Keeps(k, schedule(k, p))
BY KeepsSelf, ZombifyKeeps, MakeReadyKeeps DEF schedule

-----------------------------------------------------------------------------
(* The handlers.                                                           *)

(* What a handler leaves: a kernel state with a current process, unless    *)
(* the kernel stopped, and the PIDs it found.                              *)
Serves(k, k1) ==
  /\ k1 \in KernelState
  /\ Ok(k1) => k1.current # NULL
  /\ k1.next_pid = k.next_pid
  /\ \A s \in Slots : k1.ptable[s].pid = k.ptable[s].pid

LEMMA KeepsServes ==
  ASSUME NEW k, NEW k1, k.current # NULL, Keeps(k, k1)
  PROVE Serves(k, k1)
BY DEF Keeps, Serves

LEMMA ThenServes ==
  ASSUME NEW a, NEW b, NEW c, Keeps(a, b), Serves(b, c)
  PROVE Serves(a, c)
BY DEF Keeps, Serves

(* The one function that changes `current'.                                *)
LEMMA RedispatchServes ==
  ASSUME NEW k \in KernelState
  PROVE Serves(k, Redispatch(k))
<1> DEFINE k1 == [k EXCEPT !.current = NULL]
           h == k1.q["ready"].head
           k2 == pcb_queue_remove(k1, "ready")
           k3 == SetState(k2, h, "Running")
           k4 == [k3 EXCEPT !.current = h, !.ticks = QUANTUM]
<1>1. /\ k1 \in KernelState
      /\ k1.next_pid = k.next_pid
      /\ k1.ptable = k.ptable
  BY PtrCases, Zenon DEF KernelState
<1> HIDE DEF k1
<1>2. CASE ~Ok(k1)
  BY <1>1, <1>2 DEF Serves, Redispatch, dispatch, k1
<1>3. CASE Ok(k1) /\ pcb_queue_empty(k1, "ready")
  <2> DEFINE k5 == [k1 EXCEPT !.current = NULL]
  <2>1. /\ k5 \in KernelState
        /\ k5.next_pid = k1.next_pid
        /\ k5.ptable = k1.ptable
    BY <1>1, PtrCases, Zenon DEF KernelState
  <2> HIDE DEF k5
  <2>2. Keeps(k5, Panic(k5))
    BY <2>1, StatusKeeps
  <2>3. ~Ok(Panic(k5))
    BY <2>1 DEF Ok, Panic, KernelState
  <2>4. Serves(k, Panic(k5))
    BY <1>1, <2>1, <2>2, <2>3 DEF Serves, Keeps
  <2> QED
    BY <1>3, <2>4, Zenon DEF Redispatch, dispatch, k1, k5
<1>4. CASE Ok(k1) /\ ~pcb_queue_empty(k1, "ready")
  <2>1. "ready" \in Queues
    BY DEF Queues
  <2>2. h \in Slots
    BY <1>1, <1>4, <2>1, QueueType, PtrCases DEF pcb_queue_empty
  <2>3. Keeps(k1, k2)
    BY <1>1, <1>4, <2>1, RemoveKeeps
  <2> HIDE DEF k2, h
  <2>4. Keeps(k2, k3)
    BY <2>2, <2>3, KeepsType, FieldKeeps DEF States
  <2>5. Keeps(k1, k3)
    BY <2>3, <2>4, KeepsTrans
  <2> HIDE DEF k3
  <2>6. /\ k4 \in KernelState
        /\ k4.current = h
        /\ k4.next_pid = k3.next_pid
        /\ k4.ptable = k3.ptable
    <3>1. h \in Ptr /\ QUANTUM \in Int
      BY <2>2, PtrCases, ProcsAssumption
    <3>2. k3 \in KernelState
      BY <2>5, KeepsType
    <3> QED
      BY <3>1, <3>2, Zenon DEF KernelState
  <2> HIDE DEF k4
  <2>7. h # NULL
    BY <2>2 DEF Slots, NULL
  <2>8. Serves(k, k4)
    BY <1>1, <2>5, <2>6, <2>7 DEF Serves, Keeps
  <2> QED
    BY <1>4, <2>8, Zenon DEF Redispatch, dispatch, k1, k2, k3, k4, h
<1> QED
  BY <1>2, <1>3, <1>4

(* A handler that keeps, then dispatches.                                  *)
LEMMA ThenRedispatch ==
  ASSUME NEW k, NEW k1, Keeps(k, k1)
  PROVE Serves(k, Redispatch(k1))
BY KeepsType, RedispatchServes, ThenServes

LEMMA MeSlot ==
  ASSUME NEW k \in KernelState, k.current # NULL
  PROVE k.current \in Slots /\ Me(k) \in PCB
<1>1. k.current \in Ptr
  BY DEF KernelState
<1> QED
  BY <1>1, PtrCases, TableType DEF Me

LEMMA KeepsCurrent ==
  ASSUME NEW k, NEW k1, Keeps(k, k1)
  PROVE k1.current = k.current
BY DEF Keeps

LEMMA EnterKeeps ==
  ASSUME NEW k \in KernelState, k.current # NULL, NEW arg \in Nat
  PROVE Keeps(k, Enter(k, arg))
<1> DEFINE r == k.ptable[k.current]
           r1 == [r EXCEPT !.ret = 0, !.arg = arg]
<1>1. k.current \in Slots /\ r \in PCB
  BY MeSlot DEF Me
<1> HIDE DEF r
<1>2. r1 \in PCB /\ r1.pid = r.pid
  <2>1. 0 \in Int
    OBVIOUS
  <2> QED
    BY <1>1, <2>1, Zenon DEF PCB
<1> HIDE DEF r1
<1>3. Keeps(k, SetPCB(k, k.current, r1))
  BY <1>1, <1>2, SetPCBKeeps DEF r
<1> QED
  BY <1>3 DEF Enter, Me, r, r1

LEMMA ReturnKeeps ==
  ASSUME NEW k \in KernelState, k.current # NULL, NEW r \in Int
  PROVE Keeps(k, Return(k, r))
BY MeSlot, FieldKeeps DEF Return

LEMMA ExitServes ==
  ASSUME NEW k0 \in KernelState, k0.current # NULL, NEW status \in Int
  PROVE Serves(k0, sys_exit(k0, status))
<1> DEFINE k == Enter(k0, 0)
           r == k.ptable[k.current]
           r1 == [r EXCEPT !.exit_status = status]
           k1 == SetPCB(k, k.current, r1)
           k2 == pcb_zombify(k1, k.current)
<1>1. Keeps(k0, k)
  BY EnterKeeps
<1>2. k \in KernelState /\ k.current # NULL
  BY <1>1, KeepsType, KeepsCurrent
<1> HIDE DEF k
<1>3. k.current \in Slots /\ r \in PCB
  BY <1>2, MeSlot DEF Me
<1>4. Keeps(k, k1)
  <2> HIDE DEF r
  <2>1. r1 \in PCB /\ r1.pid = r.pid
    BY <1>3, Zenon DEF PCB
  <2> HIDE DEF r1
  <2> QED
    BY <1>2, <1>3, <2>1, SetPCBKeeps DEF r
<1> HIDE DEF k1
<1>5. Keeps(k1, k2)
  BY <1>3, <1>4, KeepsType, ZombifyKeeps
<1>6. Keeps(k0, k2)
  BY <1>1, <1>4, <1>5, KeepsTrans
<1> HIDE DEF k2
<1>7. Serves(k0, Redispatch(k2))
  BY <1>6, ThenRedispatch
<1> QED
  BY <1>7, Zenon DEF sys_exit, Me, k, r, r1, k1, k2

LEMMA FindPid ==
  ASSUME NEW k, NEW pid
  PROVE /\ pcb_find_pid(k, pid) \in Ptr
        /\ pcb_find_pid(k, pid) # NULL => pcb_find_pid(k, pid) \in Slots
<1> DEFINE found == FirstIn({s \in Slots : /\ k.ptable[s].pid = pid
                                            /\ k.ptable[s].state # "Unused"})
<1>1. found \subseteq Slots
  BY DEF FirstIn
<1> HIDE DEF found
<1>2. found # {} => (CHOOSE s \in found : TRUE) \in Slots
  BY <1>1
<1> QED
  BY <1>2, PtrCases DEF pcb_find_pid, found

LEMMA WaitBlockServes ==
  ASSUME NEW k \in KernelState, k.current # NULL
  PROVE Serves(k, WaitBlock(k))
<1> DEFINE k1 == SetState(k, k.current, "Waiting")
           k2 == pcb_queue_insert(k1, "waiting", k.current)
<1>1. Keeps(k, k1)
  BY MeSlot, FieldKeeps DEF States
<1> HIDE DEF k1
<1>2. Keeps(k1, k2)
  BY <1>1, MeSlot, KeepsType, InsertKeeps DEF Queues
<1>3. Serves(k, Redispatch(k2))
  BY <1>1, <1>2, KeepsTrans, ThenRedispatch
<1> QED
  BY <1>3, Zenon DEF WaitBlock, k1, k2

LEMMA CollectServes ==
  ASSUME NEW k \in KernelState, k.current # NULL, NEW child \in Slots
  PROVE Serves(k, Collect(k, child))
<1> DEFINE k1 == Return(k, k.ptable[child].pid)
<1>1. Keeps(k, k1)
  BY TableType, ReturnKeeps
<1> HIDE DEF k1
<1>2. Keeps(k1, pcb_cleanup(k1, child))
  BY <1>1, KeepsType, CleanupKeeps
<1>3. Serves(k, pcb_cleanup(k1, child))
  BY <1>1, <1>2, KeepsTrans, KeepsServes
<1> QED
  BY <1>3 DEF Collect, k1

LEMMA ReturnServes ==
  ASSUME NEW k \in KernelState, k.current # NULL, NEW r \in Int
  PROVE Serves(k, Return(k, r))
BY ReturnKeeps, KeepsServes

LEMMA WaitpidServes ==
  ASSUME NEW k0 \in KernelState, k0.current # NULL, NEW target \in Nat
  PROVE Serves(k0, sys_waitpid(k0, target))
<1> DEFINE k == Enter(k0, target)
<1>1. Keeps(k0, k)
  BY EnterKeeps
<1>2. k \in KernelState /\ k.current # NULL
  BY <1>1, KeepsType, KeepsCurrent
<1> HIDE DEF k
<1>3. E_BAD_PARAM \in Int /\ E_NO_CHILDREN \in Int
  BY DEF E_BAD_PARAM, E_NO_CHILDREN
<1>4. Serves(k, WaitAny(k))
  <2> DEFINE dead == FirstIn({s \in ChildSlots(k) : k.ptable[s].state = "Zombie"})
  <2>1. dead \subseteq Slots
    BY DEF FirstIn, ChildSlots
  <2> HIDE DEF dead
  <2>2. ASSUME dead # {}
        PROVE Serves(k, Collect(k, CHOOSE s \in dead : TRUE))
    <3>1. (CHOOSE s \in dead : TRUE) \in Slots
      BY <2>1, <2>2
    <3> QED
      BY <1>2, <3>1, CollectServes
  <2> QED
    BY <1>2, <1>3, <2>2, ReturnServes, WaitBlockServes, Zenon DEF WaitAny, dead
<1>5. Serves(k, WaitFor(k, target))
  <2> DEFINE child == pcb_find_pid(k, target)
  <2>1. child # NULL => child \in Slots
    BY FindPid
  <2> HIDE DEF child
  <2>2. ASSUME child # NULL
        PROVE Serves(k, Collect(k, child))
    BY <1>2, <2>1, <2>2, CollectServes
  <2> QED
    BY <1>2, <1>3, <2>2, ReturnServes, WaitBlockServes, Zenon DEF WaitFor, child
<1>6. Serves(k, Return(k, E_BAD_PARAM))
  BY <1>2, <1>3, ReturnServes
<1>7. Serves(k, sys_waitpid(k0, target))
  BY <1>4, <1>5, <1>6, Zenon DEF sys_waitpid, k
<1> QED
  BY <1>1, <1>7, ThenServes

LEMMA ExecServes ==
  ASSUME NEW k \in KernelState, k.current # NULL
  PROVE Serves(k, sys_exec(k))
<1> DEFINE k1 == Enter(k, 0)
           k2 == schedule(k1, k.current)
<1>1. Keeps(k, k1)
  BY EnterKeeps
<1> HIDE DEF k1
<1>2. Keeps(k1, k2)
  BY <1>1, MeSlot, KeepsType, ScheduleKeeps
<1>3. Serves(k, Redispatch(k2))
  BY <1>1, <1>2, KeepsTrans, ThenRedispatch
<1>4. Serves(k, Panic(k))
  BY StatusKeeps, KeepsServes
<1> QED
  BY <1>3, <1>4, Zenon DEF sys_exec, k1, k2

(* A change of the number of buffered characters.                          *)
LEMMA IncountKeeps ==
  ASSUME NEW k \in KernelState, NEW n \in Nat
  PROVE Keeps(k, [k EXCEPT !.incount = n])
BY Zenon DEF Keeps, KernelState

LEMMA ReadServes ==
  ASSUME NEW k0 \in KernelState, k0.current # NULL, NEW len \in Nat
  PROVE Serves(k0, sys_read(k0, len))
<1> DEFINE k == Enter(k0, len)
           n == IF len < k.incount THEN len ELSE k.incount
           blocked == SetState(k, k.current, "Blocked")
           k1 == pcb_queue_insert(blocked, "sioread", k.current)
           k2 == [k EXCEPT !.incount = k.incount - n]
<1>1. Keeps(k0, k)
  BY EnterKeeps
<1>2. k \in KernelState /\ k.current # NULL
  BY <1>1, KeepsType, KeepsCurrent
<1> HIDE DEF k
<1>3. Serves(k, Redispatch(k1))
  <2>1. Keeps(k, blocked)
    BY <1>2, MeSlot, FieldKeeps DEF States
  <2> HIDE DEF blocked
  <2>2. Keeps(blocked, k1)
    BY <1>2, <2>1, MeSlot, KeepsType, InsertKeeps DEF Queues
  <2> QED
    BY <2>1, <2>2, KeepsTrans, ThenRedispatch
<1>4. Serves(k, k2)
  <2>1. k.incount \in Nat
    BY <1>2 DEF KernelState
  <2>2. k.incount - n \in Nat
    BY <2>1
  <2> HIDE DEF n
  <2>3. Keeps(k, k2)
    BY <1>2, <2>2, IncountKeeps
  <2> QED
    BY <1>2, <2>3, KeepsServes
<1>5. Serves(k, k)
  BY <1>2, KeepsSelf, KeepsServes
<1>6. Serves(k, sys_read(k0, len))
  BY <1>3, <1>4, <1>5, Zenon DEF sys_read, k, n, blocked, k1, k2
<1> QED
  BY <1>1, <1>6, ThenServes

LEMMA SetprioServes ==
  ASSUME NEW k0 \in KernelState, k0.current # NULL, NEW new \in Nat
  PROVE Serves(k0, sys_setprio(k0, new))
<1> DEFINE k == Enter(k0, 0)
           r == k.ptable[k.current]
           r1 == [r EXCEPT !.priority = new]
           k1 == SetPCB(k, k.current, r1)
<1>1. Keeps(k0, k)
  BY EnterKeeps
<1>2. k \in KernelState /\ k.current # NULL
  BY <1>1, KeepsType, KeepsCurrent
<1> HIDE DEF k
<1>3. k.current \in Slots /\ r \in PCB
  BY <1>2, MeSlot DEF Me
<1>4. Keeps(k, k1)
  <2> HIDE DEF r
  <2>1. new \in Int
    OBVIOUS
  <2>2. r1 \in PCB /\ r1.pid = r.pid
    BY <1>3, <2>1, Zenon DEF PCB
  <2> HIDE DEF r1
  <2> QED
    BY <1>2, <1>3, <2>2, SetPCBKeeps DEF r
<1>5. Serves(k0, k1)
  BY <1>1, <1>4, KeepsTrans, KeepsServes
<1> QED
  BY <1>5, Zenon DEF sys_setprio, Me, k, r, r1, k1

LEMMA KillWaiterServes ==
  ASSUME NEW k \in KernelState, k.current # NULL, NEW victim \in Slots
  PROVE Serves(k, KillWaiter(k, victim))
<1> DEFINE r == k.ptable[victim]
           r1 == [r EXCEPT !.exit_status = EXIT_KILLED]
           k1 == SetPCB(k, victim, r1)
           k2 == pcb_queue_remove_this(k1, "waiting", victim)
           k3 == pcb_zombify(k2, victim)
           status == RemoveStatus(k1, "waiting", victim)
           k4 == Return(k3, status)
<1>1. Keeps(k, k1)
  <2>1. r \in PCB /\ EXIT_KILLED \in Int
    BY TableType DEF EXIT_KILLED
  <2> HIDE DEF r
  <2>2. r1 \in PCB /\ r1.pid = r.pid
    BY <2>1, Zenon DEF PCB
  <2> HIDE DEF r1
  <2> QED
    BY <2>2, SetPCBKeeps DEF r
<1> HIDE DEF k1
<1>2. Keeps(k, k2)
  <2>1. Keeps(k1, k2)
    BY <1>1, KeepsType, RemoveThisKeeps DEF Queues
  <2> QED
    BY <1>1, <2>1, KeepsTrans
<1> HIDE DEF k2
<1>3. Keeps(k, k3)
  <2>1. Keeps(k2, k3)
    BY <1>2, KeepsType, ZombifyKeeps
  <2> QED
    BY <1>2, <2>1, KeepsTrans
<1> HIDE DEF k3
<1>4. status \in Int
  BY DEF RemoveStatus, SUCCESS, E_EMPTY_QUEUE, E_NOT_FOUND
<1> HIDE DEF status
<1>5. Keeps(k, k4)
  <2>1. k3 \in KernelState /\ k3.current # NULL
    BY <1>3, KeepsType, KeepsCurrent
  <2>2. Keeps(k3, k4)
    BY <1>4, <2>1, ReturnKeeps
  <2> QED
    BY <1>3, <2>2, KeepsTrans
<1> HIDE DEF k4
<1>6. Serves(k, k2) /\ Serves(k, k3) /\ Serves(k, k4)
  BY <1>2, <1>3, <1>5, KeepsServes
<1> QED
  BY <1>6, Zenon DEF KillWaiter, Deliver, r, r1, k1, k2, k3, k4, status

LEMMA KillServes ==
  ASSUME NEW k0 \in KernelState, k0.current # NULL, NEW pid \in Nat
  PROVE Serves(k0, sys_kill(k0, pid))
<1> DEFINE k == Enter(k0, 0)
           victim == pcb_find_pid(k, pid)
<1>1. Keeps(k0, k)
  BY EnterKeeps
<1>2. k \in KernelState /\ k.current # NULL
  BY <1>1, KeepsType, KeepsCurrent
<1> HIDE DEF k
<1>3. victim # NULL => victim \in Slots
  BY FindPid
<1> HIDE DEF victim
<1>4. SUCCESS \in Int /\ E_FAILURE \in Int /\ E_NOT_FOUND \in Int /\ EXIT_KILLED \in Int
  BY DEF SUCCESS, E_FAILURE, E_NOT_FOUND, EXIT_KILLED
<1>5. Serves(k, KillSelf(k))
  BY <1>2, <1>4, ExitServes DEF KillSelf
<1>6. ASSUME victim # NULL
      PROVE Serves(k, KillVictim(k, victim))
  <2> DEFINE marked == SetState(k, victim, "Killed")
  <2>1. victim \in Slots
    BY <1>3, <1>6
  <2>2. Serves(k, Return(k, SUCCESS))
    BY <1>2, <1>4, ReturnServes
  <2>3. Serves(k, Return(marked, SUCCESS))
    <3>1. Keeps(k, marked)
      BY <1>2, <2>1, FieldKeeps DEF States
    <3> HIDE DEF marked
    <3>2. marked \in KernelState /\ marked.current # NULL
      BY <1>2, <3>1, KeepsType, KeepsCurrent
    <3>3. Serves(marked, Return(marked, SUCCESS))
      BY <1>4, <3>2, ReturnServes
    <3> QED
      BY <3>1, <3>3, ThenServes
  <2>4. Serves(k, KillWaiter(k, victim))
    BY <1>2, <2>1, KillWaiterServes
  <2>5. Serves(k, Panic(k))
    BY <1>2, StatusKeeps, KeepsServes
  <2> DEFINE state == k.ptable[victim].state
  <2> HIDE DEF marked, state
  <2>6. CASE state \in {"Killed", "Zombie"}
    BY <2>2, <2>6 DEF KillVictim, state
  <2>7. CASE state \in {"Ready", "Sleeping", "Blocked"}
    BY <2>3, <2>7 DEF KillVictim, state, marked
  <2>8. CASE state = "Running"
    BY <1>5, <2>8 DEF KillVictim, state
  <2>9. CASE state = "Waiting"
    BY <2>4, <2>9 DEF KillVictim, state
  <2>10. CASE state \notin {"Killed", "Zombie", "Ready", "Sleeping", "Blocked",
                            "Running", "Waiting"}
    BY <2>5, <2>10 DEF KillVictim, state
  <2> QED
    BY <2>6, <2>7, <2>8, <2>9, <2>10
<1>7. Serves(k, Return(k, E_FAILURE)) /\ Serves(k, Return(k, E_NOT_FOUND))
  BY <1>2, <1>4, ReturnServes
<1>8. Serves(k, sys_kill(k0, pid))
  BY <1>5, <1>6, <1>7, Zenon DEF sys_kill, k, victim
<1> QED
  BY <1>1, <1>8, ThenServes

LEMMA SleepServes ==
  ASSUME NEW k0 \in KernelState, k0.current # NULL, NEW length \in Nat
  PROVE Serves(k0, sys_sleep(k0, length))
<1> DEFINE k == Enter(k0, 0)
           p == k.current
           wakeup == (k.system_time + length) % TimeMod
           r == k.ptable[p]
           r1 == [r EXCEPT !.wakeup = wakeup]
           asleep == SetPCB(k, p, r1)
<1>1. Keeps(k0, k)
  BY EnterKeeps
<1>2. k \in KernelState /\ k.current # NULL
  BY <1>1, KeepsType, KeepsCurrent
<1> HIDE DEF k
<1>3. p \in Slots /\ r \in PCB
  BY <1>2, MeSlot DEF Me
<1>4. Serves(k, Redispatch(schedule(k, p)))
  BY <1>2, <1>3, ScheduleKeeps, ThenRedispatch
<1>5. Keeps(k, asleep)
  <2>1. wakeup \in 0..TimeMod-1
    <3>1. k.system_time \in 0..TimeMod-1 /\ TimeMod \in Nat /\ TimeMod > 0
      BY <1>2, ProcsAssumption DEF KernelState
    <3> QED
      BY <3>1
  <2> HIDE DEF r, wakeup
  <2>2. r1 \in PCB /\ r1.pid = r.pid
    BY <1>3, <2>1, Zenon DEF PCB
  <2> HIDE DEF r1
  <2> QED
    BY <1>2, <1>3, <2>2, SetPCBKeeps DEF r
<1>6. Serves(k, asleep)
  BY <1>2, <1>5, KeepsServes
<1> HIDE DEF asleep
<1>7. Serves(k, Redispatch(pcb_queue_insert(asleep, "sleeping", p)))
  <2>1. Keeps(asleep, pcb_queue_insert(asleep, "sleeping", p))
    BY <1>3, <1>5, KeepsType, InsertKeeps DEF Queues
  <2> QED
    BY <1>5, <2>1, KeepsTrans, ThenRedispatch
<1>8. Serves(k, sys_sleep(k0, length))
  BY <1>4, <1>6, <1>7, Zenon DEF sys_sleep, Me, k, p, wakeup, r, r1, asleep
<1> QED
  BY <1>1, <1>8, ThenServes

LEMMA ClockEnterServes ==
  ASSUME NEW k \in KernelState, k.current # NULL
  PROVE Serves(k, ClockEnter(k))
<1> DEFINE time == (k.system_time + 1) % TimeMod
<1>1. time \in 0..TimeMod-1
  <2>1. k.system_time \in 0..TimeMod-1 /\ TimeMod \in Nat /\ TimeMod > 0
    BY ProcsAssumption DEF KernelState
  <2> QED
    BY <2>1
<1> HIDE DEF time
<1>2. Serves(k, [k EXCEPT !.status = "clock", !.system_time = time])
  BY <1>1, Zenon DEF Serves, KernelState
<1> QED
  BY <1>2 DEF ClockEnter, time

LEMMA ClockWakeServes ==
  ASSUME NEW k \in KernelState, k.current # NULL, SleeperIsDue(k)
  PROVE Serves(k, ClockWake(k))
<1> DEFINE h == k.q["sleeping"].head
           k1 == pcb_queue_remove(k, "sleeping")
<1>1. "sleeping" \in Queues /\ ~pcb_queue_empty(k, "sleeping")
  BY DEF SleeperIsDue, Queues
<1>2. h \in Slots
  BY <1>1, QueueType, PtrCases DEF pcb_queue_empty
<1>3. Keeps(k, k1)
  BY <1>1, RemoveKeeps
<1> HIDE DEF h, k1
<1>4. Keeps(k1, schedule(k1, h))
  BY <1>2, <1>3, KeepsType, ScheduleKeeps
<1>5. Serves(k, schedule(k1, h))
  BY <1>3, <1>4, KeepsTrans, KeepsServes
<1> QED
  BY <1>5 DEF ClockWake, h, k1

LEMMA ClockDoneServes ==
  ASSUME NEW k \in KernelState, k.current # NULL
  PROVE Serves(k, ClockDone(k))
<1> DEFINE k1 == [k EXCEPT !.status = "user", !.ticks = @ - 1]
<1>1. Keeps(k, k1)
  <2>1. k.ticks - 1 \in Int
    BY DEF KernelState
  <2> QED
    BY <2>1, Zenon DEF Keeps, KernelState
<1> HIDE DEF k1
<1>2. k1 \in KernelState /\ k1.current # NULL
  BY <1>1, KeepsType, KeepsCurrent
<1>3. Keeps(k1, schedule(k1, k1.current))
  BY <1>2, MeSlot, ScheduleKeeps
<1>4. Serves(k, Redispatch(schedule(k1, k1.current)))
  BY <1>1, <1>3, KeepsTrans, ThenRedispatch
<1>5. Serves(k, k1)
  BY <1>1, KeepsServes
<1> QED
  BY <1>4, <1>5, Zenon DEF ClockDone, k1

LEMMA RxServes ==
  ASSUME NEW k \in KernelState, k.current # NULL, NEW n \in Nat
  PROVE Serves(k, sio_isr_rx(k, n))
<1> DEFINE full == IF k.incount + n > IN_SIZE THEN IN_SIZE ELSE k.incount + n
           p == k.q["sioread"].head
           k0 == [k EXCEPT !.incount = full]
           k1 == pcb_queue_remove(k0, "sioread")
           num == IF k1.ptable[p].arg < full THEN k1.ptable[p].arg ELSE full
           k2 == [k1 EXCEPT !.incount = full - num]
<1>1. full \in Nat
  BY KernelAssumption DEF KernelState
<1> HIDE DEF full
<1>2. Keeps(k, k0)
  BY <1>1, IncountKeeps
<1>3. k0.q = k.q
  BY DEF KernelState
<1> HIDE DEF k0
<1>4. CASE pcb_queue_empty(k, "sioread")
  <2>1. Serves(k, k0)
    BY <1>2, KeepsServes
  <2> QED
    BY <1>4, <2>1, Zenon DEF sio_isr_rx, full, k0
<1>5. CASE ~pcb_queue_empty(k, "sioread")
  <2>1. "sioread" \in Queues /\ ~pcb_queue_empty(k0, "sioread")
    BY <1>3, <1>5 DEF Queues, pcb_queue_empty
  <2>2. p \in Slots
    BY <1>5, <2>1, QueueType, PtrCases DEF pcb_queue_empty
  <2>3. Keeps(k, k1)
    <3>1. Keeps(k0, k1)
      BY <1>2, <2>1, KeepsType, RemoveKeeps
    <3> QED
      BY <1>2, <3>1, KeepsTrans
  <2> HIDE DEF k1, p
  <2>4. full - num \in Nat
    <3>1. k1.ptable[p].arg \in Nat
      BY <2>2, <2>3, KeepsType, TableType
    <3> QED
      BY <1>1, <3>1
  <2> HIDE DEF num
  <2>5. Keeps(k, k2)
    <3>1. Keeps(k1, k2)
      BY <2>3, <2>4, KeepsType, IncountKeeps
    <3> QED
      BY <2>3, <3>1, KeepsTrans
  <2> HIDE DEF k2
  <2>6. Keeps(k2, schedule(k2, p))
    BY <2>2, <2>5, KeepsType, ScheduleKeeps
  <2>7. Serves(k, schedule(k2, p))
    BY <2>5, <2>6, KeepsTrans, KeepsServes
  <2> QED
    BY <1>5, <2>7, Zenon DEF sio_isr_rx, full, p, k0, k1, num, k2
<1> QED
  BY <1>4, <1>5

-----------------------------------------------------------------------------
(* PIDs.                                                                   *)

(* What PidsUnique says of a state k whose next_pid has not wrapped.       *)
UniquePids(k) ==
  /\ \A p \in Slots : k.ptable[p].pid < k.next_pid
  /\ \A p, r \in Slots :
       p # r /\ k.ptable[p].pid # 0 => k.ptable[p].pid # k.ptable[r].pid

(* What every action preserves.                                            *)
Sane(k) ==
  /\ k \in KernelState
  /\ Ok(k) => k.current # NULL
  /\ ~Wrapped(k) => UniquePids(k)

(* PIDs are given one at a time, and only with a PCB.                      *)
Counts(k, k1) ==
  \/ k1.next_pid = k.next_pid
  \/ k1.next_pid = k.next_pid + 1 /\ ~pcb_queue_empty(k, "freelist")

LEMMA ServesSane ==
  ASSUME NEW k, NEW k1, Sane(k), Serves(k, k1)
  PROVE Sane(k1) /\ Counts(k, k1)
BY DEF Sane, Serves, UniquePids, Wrapped, Counts

LEMMA KeepsSane ==
  ASSUME NEW k, NEW k1, Sane(k), k.current # NULL, Keeps(k, k1)
  PROVE Sane(k1)
BY KeepsServes, ServesSane

(* fork() gives the new process a PID that no PCB has or had, unless       *)
(* next_pid has wrapped.                                                   *)
LEMMA ForkSane ==
  ASSUME NEW k0, Sane(k0), k0.current # NULL
  PROVE Sane(sys_fork(k0)) /\ Counts(k0, sys_fork(k0))
<1> DEFINE k == Enter(k0, 0)
           new == k.q["freelist"].head
           k1 == pcb_queue_remove(k, "freelist")
           me == k1.ptable[k1.current]
           pid == k.next_pid % PidMod
           child == [k1.ptable[new] EXCEPT
                       !.pid = pid, !.parent = k.current, !.state = "New",
                       !.priority = me.priority, !.arg = me.arg, !.ret = 0]
           k2 == SetPCB(k1, new, child)
           k3 == [k2 EXCEPT !.stacks = @ - 1, !.next_pid = @ + 1]
<1>0. k0 \in KernelState
  BY DEF Sane
<1>1. Keeps(k0, k)
  BY <1>0, EnterKeeps
<1>2. k \in KernelState /\ k.current # NULL /\ Sane(k)
  BY <1>1, KeepsType, KeepsCurrent, KeepsSane
<1>3. k.next_pid = k0.next_pid /\ k.q = k0.q
  BY <1>0, <1>1 DEF Keeps, Enter, SetPCB, KernelState
<1>4. pcb_queue_empty(k, "freelist") <=> pcb_queue_empty(k0, "freelist")
  BY <1>3 DEF pcb_queue_empty
<1> HIDE DEF k
<1>5. Counts(k0, k)
  BY <1>3 DEF Counts
<1>6. ASSUME ~pcb_queue_empty(k, "freelist")
      PROVE /\ Sane(pcb_free(k1, new)) /\ Counts(k0, pcb_free(k1, new))
            /\ Sane(schedule(k3, new)) /\ Counts(k0, schedule(k3, new))
  <2>1. "freelist" \in Queues
    BY DEF Queues
  <2>2. new \in Slots
    BY <1>2, <1>6, <2>1, QueueType, PtrCases DEF pcb_queue_empty
  <2>3. Keeps(k, k1)
    BY <1>2, <1>6, <2>1, RemoveKeeps
  <2>4. k1 \in KernelState /\ k1.current # NULL /\ Sane(k1) /\ k1.next_pid = k.next_pid
    BY <1>2, <2>3, KeepsType, KeepsCurrent, KeepsSane DEF Keeps
  <2> HIDE DEF k1, new
  <2>5. Sane(pcb_free(k1, new)) /\ Counts(k0, pcb_free(k1, new))
    <3>1. Keeps(k1, pcb_free(k1, new))
      BY <2>2, <2>4, FreeKeeps
    <3> QED
      BY <1>3, <2>4, <3>1, KeepsSane DEF Keeps, Counts
  <2>6. /\ me.priority \in Int /\ me.arg \in Nat
        /\ k.next_pid \in Nat /\ k.current \in Ptr
        /\ "New" \in States /\ 0 \in Int
    BY <1>2, <2>4, MeSlot, TableType DEF KernelState, States
  <2>7. /\ pid \in Pids
        /\ k.next_pid < PidMod => pid = k.next_pid
    BY <2>6, ProcsAssumption DEF Pids
  <2> HIDE DEF me, pid
  <2>8. child \in PCB /\ child.pid = pid
    <3> DEFINE r == k1.ptable[new]
    <3>1. r \in PCB
      BY <2>2, <2>4, TableType
    <3> HIDE DEF r
    <3>2. [r EXCEPT !.pid = pid, !.parent = k.current, !.state = "New",
                    !.priority = me.priority, !.arg = me.arg, !.ret = 0] \in PCB
      BY <2>6, <2>7, <3>1, Zenon DEF PCB
    <3>3. [r EXCEPT !.pid = pid, !.parent = k.current, !.state = "New",
                    !.priority = me.priority, !.arg = me.arg, !.ret = 0].pid = pid
      BY <3>1, Zenon DEF PCB
    <3> QED
      BY <3>2, <3>3 DEF r
  <2> HIDE DEF child
  <2> DEFINE t == [k1.ptable EXCEPT ![new] = child]
  <2>9. /\ t \in [Slots -> PCB]
        /\ t[new] = child
        /\ \A s \in Slots \ {new} : t[s] = k1.ptable[s]
    BY <2>2, <2>4, <2>8, TableType
  <2> HIDE DEF t
  <2>10. /\ k2 \in KernelState
         /\ k2.ptable = t
         /\ k2.next_pid = k1.next_pid
         /\ k2.current = k1.current
    <3>1. k2 = [k1 EXCEPT !.ptable = t]
      BY Zenon DEF SetPCB, t
    <3> QED
      BY <2>4, <2>9, <3>1 DEF KernelState
  <2> HIDE DEF k2
  <2>11. /\ k3 \in KernelState
         /\ k3.ptable = t
         /\ k3.next_pid = k.next_pid + 1
         /\ k3.current = k1.current
    <3>1. k2.stacks - 1 \in Int /\ k2.next_pid + 1 \in Nat
      BY <2>10 DEF KernelState
    <3>2. /\ k3 \in KernelState
          /\ k3.ptable = k2.ptable
          /\ k3.next_pid = k2.next_pid + 1
          /\ k3.current = k2.current
      BY <2>10, <3>1, Zenon DEF KernelState
    <3> QED
      BY <2>4, <2>10, <3>2
  <2> HIDE DEF k3
  <2>12. ASSUME ~Wrapped(k3)
         PROVE  UniquePids(k3)
    <3>0. pid = k.next_pid /\ ~Wrapped(k1)
      <4>1. k.next_pid < PidMod
        BY <2>6, <2>11, <2>12, ProcsAssumption DEF Wrapped
      <4> QED
        BY <2>4, <2>6, <2>7, <4>1, ProcsAssumption DEF Wrapped
    <3>1. /\ \A p \in Slots : k1.ptable[p].pid \in Nat /\ k1.ptable[p].pid < k.next_pid
          /\ \A p, r \in Slots :
               p # r /\ k1.ptable[p].pid # 0 => k1.ptable[p].pid # k1.ptable[r].pid
      BY <2>4, <3>0, TableType DEF Sane, UniquePids
    <3>2. /\ t[new].pid = k.next_pid
          /\ \A s \in Slots \ {new} : t[s].pid = k1.ptable[s].pid
      BY <2>8, <2>9, <3>0
    <3>3. \A p \in Slots : t[p].pid < k.next_pid + 1
      BY <2>6, <3>1, <3>2
    <3>4. ASSUME NEW p \in Slots, NEW r \in Slots, p # r, t[p].pid # 0
          PROVE t[p].pid # t[r].pid
      BY <2>6, <3>1, <3>2, <3>4
    <3> QED
      BY <2>11, <3>3, <3>4 DEF UniquePids
  <2>13. Sane(k3) /\ k3.current # NULL
    BY <2>4, <2>11, <2>12 DEF Sane
  <2>14. Sane(schedule(k3, new)) /\ Counts(k0, schedule(k3, new))
    <3>1. Keeps(k3, schedule(k3, new))
      BY <2>2, <2>11, ScheduleKeeps
    <3>2. schedule(k3, new).next_pid = k0.next_pid + 1
      BY <1>3, <2>11, <3>1 DEF Keeps
    <3> QED
      BY <1>6, <1>4, <2>13, <3>1, <3>2, KeepsSane DEF Counts
  <2> QED
    BY <2>5, <2>14
<1> QED
  BY <1>2, <1>6, <1>5, Zenon DEF sys_fork, Me, k, new, k1, me, pid, child, k2, k3

-----------------------------------------------------------------------------
(* The specification.                                                      *)

(* The strengthening: the type invariant alone is not inductive, because a *)
(* handler indexes ptable by `current'.                                    *)
IInv == TypeOK /\ CurrentSet /\ PidsUnique

LEMMA IInvSane == IInv <=> Sane(sys)
BY DEF IInv, TypeOK, CurrentSet, PidsUnique, Sane, UniquePids

LEMMA InitSane ==
  ASSUME NEW t \in 0..TimeMod-1
  PROVE Sane(Booted(t)) /\ ~Wrapped(Booted(t)) /\ UniquePids(Booted(t))
<1> DEFINE tab == [s \in Slots |->
              CASE s = init_pcb -> BootPCB(PID_INIT, PRIO_HIGH, "Waiting")
                [] s = 2 -> BootPCB(PID_IDLE, PRIO_DEFERRED, "Ready")
                [] s = 3 -> BootPCB(3, PRIO_STD, "Running")
                [] OTHER -> FreePCB(s)]
           qs == [r \in Queues |->
              CASE r = "waiting" -> Only(init_pcb)
                [] r = "ready" -> Only(2)
                [] r = "freelist" /\ N_PROCS > 3 ->
                     [head |-> 4, tail |-> N_PROCS, length |-> N_PROCS - 3]
                [] OTHER -> Only(NULL)]
<1>1. 0 \in 0..TimeMod-1 /\ init_pcb \in Ptr /\ NULL \in Ptr
  BY ProcsAssumption, PtrCases
<1>2. ASSUME NEW pid \in Pids, NEW prio \in Int, NEW state \in States
      PROVE BootPCB(pid, prio, state) \in PCB /\ BootPCB(pid, prio, state).pid = pid
  BY <1>1 DEF BootPCB, PCB
<1>3. ASSUME NEW s \in Slots
      PROVE FreePCB(s) \in PCB /\ FreePCB(s).pid = 0
  <2>1. (IF s = N_PROCS THEN NULL ELSE s + 1) \in Ptr
    BY ProcsAssumption DEF Slots, Ptr, NULL
  <2> QED
    BY <1>1, <2>1, ProcsAssumption DEF FreePCB, PCB, Pids, States, PRIO_HIGH
<1>4. ASSUME NEW p \in Ptr
      PROVE Only(p) \in Queue
  BY ProcsAssumption DEF Only, Queue, NULL
<1>5. ASSUME NEW s \in Slots
      PROVE tab[s] \in PCB /\ tab[s].pid = IF s \in {1, 2, 3} THEN s ELSE 0
  <2>1. tab[1] = BootPCB(PID_INIT, PRIO_HIGH, "Waiting") /\ 1 \in Slots
    BY PtrCases DEF init_pcb
  <2>2. tab[2] = BootPCB(PID_IDLE, PRIO_DEFERRED, "Ready") /\ 2 \in Slots
    BY ProcsAssumption DEF init_pcb, Slots
  <2>3. tab[3] = BootPCB(3, PRIO_STD, "Running") /\ 3 \in Slots
    BY ProcsAssumption DEF init_pcb, Slots
  <2>4. s \notin {1, 2, 3} => tab[s] = FreePCB(s)
    BY DEF init_pcb
  <2>5. /\ PID_INIT \in Pids /\ PID_IDLE \in Pids /\ 3 \in Pids
        /\ PID_INIT = 1 /\ PID_IDLE = 2
        /\ PRIO_HIGH \in Int /\ PRIO_DEFERRED \in Int /\ PRIO_STD \in Int
        /\ {"Waiting", "Ready", "Running"} \subseteq States
    BY ProcsAssumption DEF PID_INIT, PID_IDLE, Pids, PRIO_HIGH, PRIO_DEFERRED, PRIO_STD,
       States
  <2> HIDE DEF tab
  <2>6. CASE s = 1
    BY <1>2, <2>1, <2>5, <2>6
  <2>7. CASE s = 2
    BY <1>2, <2>2, <2>5, <2>7
  <2>8. CASE s = 3
    BY <1>2, <2>3, <2>5, <2>8
  <2>9. CASE s \notin {1, 2, 3}
    BY <1>3, <2>4, <2>9
  <2> QED
    BY <2>6, <2>7, <2>8, <2>9
<1>6. qs \in [Queues -> Queue]
  <2>1. 2 \in Ptr
    BY ProcsAssumption DEF Ptr
  <2>2. ASSUME N_PROCS > 3
        PROVE [head |-> 4, tail |-> N_PROCS, length |-> N_PROCS - 3] \in Queue
    <3>1. 4 \in Ptr /\ N_PROCS \in Ptr /\ N_PROCS - 3 \in 0..LenMod-1
      BY <2>2, ProcsAssumption DEF Ptr
    <3> QED
      BY <3>1 DEF Queue
  <2>3. Only(init_pcb) \in Queue /\ Only(2) \in Queue /\ Only(NULL) \in Queue
    BY <1>1, <1>4, <2>1
  <2>4. ASSUME NEW r \in Queues
        PROVE qs[r] \in Queue
    BY <2>2, <2>3, Zenon
  <2> QED
    BY <2>4
<1>7. /\ tab \in [Slots -> PCB]
      /\ \A s \in Slots : tab[s].pid < 4
      /\ \A s, r \in Slots : s # r /\ tab[s].pid # 0 => tab[s].pid # tab[r].pid
  <2>1. tab \in [Slots -> PCB]
    BY <1>5
  <2> HIDE DEF tab
  <2> QED
    BY <1>5, <2>1 DEF Slots
<1> HIDE DEF tab, qs
<1>8. 3 \in Ptr /\ QUANTUM \in Int /\ N_STACKS - 3 \in Int
  BY ProcsAssumption DEF Ptr
<1> DEFINE k == [ptable |-> tab, q |-> qs, current |-> 3, ticks |-> QUANTUM,
                 next_pid |-> 4, system_time |-> t, incount |-> 0,
                 stacks |-> N_STACKS - 3, status |-> "user"]
<1>9. k \in KernelState
  BY <1>6, <1>7, <1>8 DEF KernelState
<1>10. Sane(k) /\ ~Wrapped(k) /\ UniquePids(k)
  BY <1>7, <1>9, ProcsAssumption DEF Sane, Wrapped, UniquePids, NULL
<1> QED
  BY <1>10, Zenon DEF Booted, tab, qs

(* Every action of Next preserves the invariant, and only fork() counts.   *)
LEMMA NextSane ==
  ASSUME Sane(sys), Next
  PROVE Sane(sys') /\ Counts(sys, sys')
<1>1. sys \in KernelState /\ (sys.status \in {"user", "clock"} => sys.current # NULL)
  BY DEF Sane, Ok
<1>2. \A call : May(call) => sys.current # NULL
  BY <1>1 DEF May
<1>3. CASE Exit
  BY <1>1, <1>2, <1>3, KernelAssumption, ExitServes, ServesSane DEF Exit
<1>4. CASE BadCall
  BY <1>1, <1>2, <1>4, ExitServes, ServesSane DEF BadCall, EXIT_BAD_SYSCALL
<1>5. CASE Waitpid
  BY <1>1, <1>2, <1>5, KernelAssumption, WaitpidServes, ServesSane DEF Waitpid
<1>6. CASE Fork
  BY <1>2, <1>6, ForkSane DEF Fork
<1>7. CASE Exec
  BY <1>1, <1>2, <1>7, ExecServes, ServesSane DEF Exec
<1>8. CASE Read
  BY <1>1, <1>2, <1>8, KernelAssumption, ReadServes, ServesSane DEF Read
<1>9. CASE SetPrio
  BY <1>1, <1>2, <1>9, KernelAssumption, SetprioServes, ServesSane DEF SetPrio
<1>10. CASE Kill
  BY <1>1, <1>2, <1>10, KernelAssumption, KillServes, ServesSane DEF Kill
<1>11. CASE Sleep
  BY <1>1, <1>2, <1>11, KernelAssumption, SleepServes, ServesSane DEF Sleep
<1>12. CASE ClockTick
  BY <1>1, <1>12, ClockEnterServes, ServesSane DEF ClockTick
<1>13. CASE ClockLoop
  BY <1>1, <1>13, ClockWakeServes, ServesSane DEF ClockLoop
<1>14. CASE ClockEnd
  BY <1>1, <1>14, ClockDoneServes, ServesSane DEF ClockEnd
<1>15. CASE SerialInput
  BY <1>1, <1>15, KernelAssumption, RxServes, ServesSane DEF SerialInput
<1>16. CASE Halted
  BY <1>16 DEF Halted, Counts
<1> QED
  BY <1>3, <1>4, <1>5, <1>6, <1>7, <1>8, <1>9, <1>10, <1>11, <1>12, <1>13,
     <1>14, <1>15, <1>16 DEF Next

(* The inductive invariant holds in every state of every behaviour.        *)
THEOREM Invariance == Spec => []IInv
<1>1. Init => IInv
  BY InitSane, IInvSane DEF Init
<1>2. IInv /\ [Next]_sys => IInv'
  <2> SUFFICES ASSUME IInv, [Next]_sys PROVE IInv'
    OBVIOUS
  <2>1. Sane(sys)
    BY IInvSane
  <2>2. Sane(sys')
    BY <2>1, NextSane
  <2> QED
    BY <2>2 DEF IInv, TypeOK, CurrentSet, PidsUnique, Sane, UniquePids
<1> QED
  BY <1>1, <1>2, PTL DEF Spec

(* No handler, on whatever damaged queues, leaves a pointer that is        *)
(* neither NULL nor a PCB, an unknown state, or a counter out of range.    *)
THEOREM TypeCorrect == Spec => []TypeOK
<1>1. IInv => TypeOK
  BY DEF IInv
<1> QED
  BY <1>1, Invariance, PTL

(* Whenever the kernel runs there is a current process: the handlers may   *)
(* dereference `current'.                                                  *)
THEOREM CurrentAlwaysSet == Spec => []CurrentSet
<1>1. IInv => CurrentSet
  BY DEF IInv
<1> QED
  BY <1>1, Invariance, PTL

(* Until next_pid wraps no two PCBs have the same PID, and sys_fork hands  *)
(* out fresh ones only, however slots are reused and queues damaged.       *)
THEOREM PidsAlwaysUnique == Spec => []PidsUnique
<1>1. IInv => PidsUnique
  BY DEF IInv
<1> QED
  BY <1>1, Invariance, PTL

-----------------------------------------------------------------------------
(* The queues, until the first stale entry.                                *)

(* s lists the PCBs of q from the head to the tail.                        *)
Chain(k, q, s) ==
  LET n == k.q[q].length IN
  /\ s \in [1..n -> Slots]
  /\ n = 0 => k.q[q].head = NULL /\ k.q[q].tail = NULL
  /\ n # 0 => k.q[q].head = s[1] /\ k.q[q].tail = s[n]
  /\ \A i \in 1..n : k.ptable[s[i]].next = IF i = n THEN NULL ELSE s[i + 1]

Ordered(k, q, s) ==
  ~IsFifo(q) => \A i \in 1..k.q[q].length-1 : Key(k, q, s[i]) <= Key(k, q, s[i + 1])

(* No PCB is on two lists, or on one twice.                                *)
Apart(L) ==
  \A q, r \in Queues : \A i \in DOMAIN L[q], j \in DOMAIN L[r] :
    L[q][i] = L[r][j] => q = r /\ i = j

(* The queues a PCB that is on one may be on.  The killed process idle is  *)
(* ready, and idle does not sleep.                                         *)
Home(p, state) ==
  CASE state = "Unused" -> {"freelist"}
    [] state = "Ready" -> {"ready"}
    [] state = "Waiting" -> {"waiting"}
    [] state = "Blocked" -> {"sioread"}
    [] state = "Zombie" -> {"zombie"}
    [] state = "Killed" -> IF p = idle_pcb THEN {"ready"} ELSE {"ready", "sioread"}
    [] state = "Running" -> IF p = idle_pcb THEN {} ELSE {"sleeping"}
    [] OTHER -> {}

(* F are the PCBs a handler has in hand: they are on no queue.             *)
Placed(k, F, L) ==
  /\ \A q \in Queues : \A i \in DOMAIN L[q] :
       L[q][i] \notin F /\ q \in Home(L[q][i], k.ptable[L[q][i]].state)
  /\ \A p \in Slots \ F : \E q \in Queues : \E i \in DOMAIN L[q] : L[q][i] = p
  /\ \A p \in F : k.ptable[p].next = NULL

Good(k, F, L) ==
  /\ k \in KernelState /\ Ok(k) /\ F \subseteq Slots
  /\ \A q \in Queues : Chain(k, q, L[q]) /\ Ordered(k, q, L[q])
  /\ Apart(L) /\ Placed(k, F, L)

Fine(k, F) == \E L : Good(k, F, L)

(* Parents are alive and, but for init, older than their children.         *)
Family(k) ==
  /\ k.ptable[init_pcb].parent = init_pcb
  /\ \A p \in Slots : k.ptable[p].state # "Unused" =>
       LET parent == k.ptable[p].parent IN
       /\ parent \in Slots /\ k.ptable[parent].state \notin {"Unused", "Zombie"}
       /\ parent = init_pcb \/ k.ptable[parent].pid < k.ptable[p].pid

Used(k) == {p \in Slots : k.ptable[p].state # "Unused"}
Stacks(k) == k.stacks = N_STACKS - Cardinality(Used(k))

(* A process that waits has not been given a PID.                          *)
Waits(k) ==
  \A p \in Slots :
    /\ k.ptable[p].state = "Waiting" => k.ptable[p].ret = 0
    /\ k.ptable[p].ret < k.next_pid

(* A PID that waitpid returned is that of no process any more, but of      *)
(* those of Z, which the handler is about to free.                         *)
Spent(k, Z) ==
  \A p \in Slots, s \in Slots \ Z :
    k.ptable[p].ret > 0 /\ k.ptable[s].state # "Unused"
      => k.ptable[s].pid # k.ptable[p].ret

(* init and idle.                                                          *)
Basic(k) ==
  /\ k.ptable[init_pcb].pid = PID_INIT
  /\ k.ptable[init_pcb].state \in {"Ready", "Running", "Waiting"}
  /\ k.ptable[idle_pcb].pid = PID_IDLE
  /\ k.ptable[idle_pcb].state \in {"Ready", "Running", "Killed"}
  /\ \A p \in Slots : k.ptable[p].state # "Unused" => k.ptable[p].pid > 0

(* A handler has the PCBs of F in hand and those of Z yet to free.         *)
Held(k, F, Z) ==
  /\ Fine(k, F) /\ UniquePids(k)
  /\ Family(k) /\ Stacks(k) /\ Waits(k) /\ Spent(k, Z) /\ Basic(k)

(* Between two handlers the current process is on no queue.                *)
Settled(k) ==
  Held(k, {k.current}, {}) /\ k.ptable[k.current].state = "Running"
-----------------------------------------------------------------------------
(* Assignments.                                                            *)

(* k1 differs from k in links and queues only.                             *)
SamePCB(a, b) ==
  /\ b.state = a.state /\ b.pid = a.pid /\ b.parent = a.parent
  /\ b.priority = a.priority /\ b.wakeup = a.wakeup /\ b.exit_status = a.exit_status
  /\ b.arg = a.arg /\ b.ret = a.ret
SameRest(k, k1) ==
  /\ k1.current = k.current /\ k1.next_pid = k.next_pid /\ k1.stacks = k.stacks
  /\ k1.status = k.status /\ k1.system_time = k.system_time
Same(k, k1) ==
  /\ k1 \in KernelState /\ SameRest(k, k1)
  /\ \A x \in Slots : SamePCB(k.ptable[x], k1.ptable[x])

LEMMA SameTrans ==
  ASSUME NEW a, NEW b, NEW c, Same(a, b), Same(b, c)
  PROVE  Same(a, c)
BY DEF Same, SameRest, SamePCB

LEMMA SetPCBIs ==
  ASSUME NEW k \in KernelState, NEW p \in Slots, NEW pcb \in PCB
  PROVE  LET k1 == SetPCB(k, p, pcb) IN
         /\ k1 \in KernelState /\ SameRest(k, k1) /\ k1.q = k.q
         /\ \A x \in Slots : k1.ptable[x] = IF x = p THEN pcb ELSE k.ptable[x]
<1> DEFINE t == [k.ptable EXCEPT ![p] = pcb]
           k1 == SetPCB(k, p, pcb)
<1>1. /\ t \in [Slots -> PCB]
      /\ \A x \in Slots : t[x] = IF x = p THEN pcb ELSE k.ptable[x]
  BY TableType
<1>2. k1 = [k EXCEPT !.ptable = t]
  BY DEF SetPCB
<1> HIDE DEF t, k1
<1>3. k1 \in KernelState /\ k1.ptable = t /\ k1.q = k.q
  BY <1>1, <1>2 DEF KernelState
<1>4. SameRest(k, k1)
  BY <1>1, <1>2 DEF KernelState, SameRest
<1> QED
  BY <1>1, <1>3, <1>4 DEF k1

LEMMA SetNextIs ==
  ASSUME NEW k \in KernelState, NEW p \in Slots, NEW n \in Ptr
  PROVE  LET k1 == SetNext(k, p, n) IN
         /\ Same(k, k1) /\ k1.q = k.q
         /\ \A x \in Slots : k1.ptable[x].next = IF x = p THEN n ELSE k.ptable[x].next
<1> DEFINE r == k.ptable[p]
           pcb == [r EXCEPT !.next = n]
           k1 == SetPCB(k, p, pcb)
<1>1. r \in PCB
  BY TableType
<1> HIDE DEF r
<1>2. pcb \in PCB /\ pcb.next = n /\ SamePCB(r, pcb)
  BY <1>1 DEF PCB, SamePCB
<1> HIDE DEF pcb
<1>3. /\ k1 \in KernelState /\ SameRest(k, k1) /\ k1.q = k.q
      /\ \A x \in Slots : k1.ptable[x] = IF x = p THEN pcb ELSE k.ptable[x]
  BY <1>2, SetPCBIs
<1> HIDE DEF k1
<1>4. ASSUME NEW x \in Slots
      PROVE  /\ SamePCB(k.ptable[x], k1.ptable[x])
             /\ k1.ptable[x].next = IF x = p THEN n ELSE k.ptable[x].next
  <2>1. CASE x = p
    BY <1>2, <1>3, <2>1 DEF r
  <2>2. CASE x # p
    BY <1>3, <2>2 DEF SamePCB
  <2> QED
    BY <2>1, <2>2
<1>5. k1 = SetNext(k, p, n)
  BY DEF k1, SetNext, pcb, r
<1> QED
  BY <1>3, <1>4, <1>5 DEF Same

LEMMA SetQueueIs ==
  ASSUME NEW k \in KernelState, NEW q \in Queues, NEW queue \in Queue
  PROVE  LET k1 == SetQueue(k, q, queue) IN
         /\ Same(k, k1) /\ k1.q[q] = queue /\ \A r \in Queues \ {q} : k1.q[r] = k.q[r]
         /\ k1.ptable = k.ptable
<1> DEFINE t == [k.q EXCEPT ![q] = queue]
           k1 == SetQueue(k, q, queue)
<1>1. t \in [Queues -> Queue] /\ t[q] = queue /\ \A r \in Queues \ {q} : t[r] = k.q[r]
  BY QueueType
<1>2. k1 = [k EXCEPT !.q = t]
  BY DEF SetQueue
<1> HIDE DEF t, k1
<1>3. k1 \in KernelState /\ k1.q = t /\ k1.ptable = k.ptable
  BY <1>1, <1>2 DEF KernelState
<1>4. SameRest(k, k1)
  BY <1>1, <1>2 DEF KernelState, SameRest
<1>5. Same(k, k1)
  BY <1>3, <1>4 DEF Same, SamePCB
<1> QED
  BY <1>1, <1>3, <1>5 DEF k1

-----------------------------------------------------------------------------
(* Lists.                                                                  *)

(* A list without repetition is not longer than the table, and shorter if  *)
(* a PCB is not on it.                                                     *)
LEMMA ListSize ==
  ASSUME NEW n \in Nat, NEW S \in SUBSET Slots, NEW s \in [1..n -> S],
         \A i, j \in 1..n : s[i] = s[j] => i = j
  PROVE  n <= Cardinality(S) /\ Cardinality(S) <= N_PROCS /\ Cardinality(S) \in Nat
<1>1. IsFiniteSet(Slots) /\ Cardinality(Slots) = N_PROCS /\ N_PROCS \in Nat
  BY FS_Interval, ProcsAssumption DEF Slots
<1>2. IsFiniteSet(S) /\ Cardinality(S) <= N_PROCS
  BY <1>1, FS_Subset
<1>3. s \in Injection(1..n, S)
  BY DEF Injection, IsInjective
<1>4. Cardinality(1..n) = n
  BY FS_Interval
<1>5. Cardinality(1..n) <= Cardinality(S)
  BY <1>2, <1>3, FS_Injection
<1> QED
  BY <1>2, <1>4, <1>5, FS_CardinalityType

LEMMA ListRoom ==
  ASSUME NEW n \in Nat, NEW s \in [1..n -> Slots], NEW p \in Slots,
         \A i, j \in 1..n : s[i] = s[j] => i = j, \A i \in 1..n : s[i] # p
  PROVE  n < N_PROCS
<1> DEFINE S == Slots \ {p}
<1>1. IsFiniteSet(Slots) /\ Cardinality(Slots) = N_PROCS /\ N_PROCS \in Nat
  BY FS_Interval, ProcsAssumption DEF Slots
<1>2. Cardinality(S) = N_PROCS - 1
  BY <1>1, FS_RemoveElement
<1>3. S \in SUBSET Slots /\ s \in [1..n -> S]
  OBVIOUS
<1> HIDE DEF S
<1>4. n <= Cardinality(S)
  BY <1>3, ListSize
<1> QED
  BY <1>1, <1>2, <1>4

(* What Good says of one queue.                                            *)
LEMMA QueueIs ==
  ASSUME NEW k, NEW F, NEW L, Good(k, F, L), NEW q \in Queues
  PROVE  LET n == k.q[q].length
             s == L[q]
         IN /\ k \in KernelState /\ n \in Nat /\ n <= N_PROCS /\ N_PROCS \in Nat /\ n < LenMod
            /\ s \in [1..n -> Slots] /\ DOMAIN s = 1..n
            /\ n = 0 => k.q[q].head = NULL /\ k.q[q].tail = NULL
            /\ n # 0 => k.q[q].head = s[1] /\ k.q[q].tail = s[n]
            /\ \A i \in 1..n : k.ptable[s[i]].next = IF i = n THEN NULL ELSE s[i + 1]
            /\ \A i, j \in 1..n : s[i] = s[j] => i = j
            /\ \A p \in F, i \in 1..n : s[i] # p
<1> DEFINE n == k.q[q].length
           s == L[q]
<1>1. k \in KernelState /\ Chain(k, q, s) /\ Apart(L) /\ Placed(k, F, L)
  BY DEF Good
<1>2. n \in 0..LenMod-1 /\ LenMod \in Nat /\ N_PROCS \in Nat
  BY <1>1, QueueType, ProcsAssumption
<1>3. /\ s \in [1..n -> Slots]
      /\ n = 0 => k.q[q].head = NULL /\ k.q[q].tail = NULL
      /\ n # 0 => k.q[q].head = s[1] /\ k.q[q].tail = s[n]
      /\ \A i \in 1..n : k.ptable[s[i]].next = IF i = n THEN NULL ELSE s[i + 1]
  BY <1>1 DEF Chain
<1>4. DOMAIN s = 1..n
  BY <1>3
<1>5. \A i, j \in 1..n : s[i] = s[j] => i = j
  BY <1>1, <1>4 DEF Apart
<1>6. \A p \in F, i \in 1..n : s[i] # p
  BY <1>1, <1>4, ZenonT(30) DEF Placed
<1> HIDE DEF n, s
<1>7. n \in Nat
  BY <1>2
<1>8. Slots \in SUBSET Slots
  OBVIOUS
<1>9. n <= Cardinality(Slots) /\ Cardinality(Slots) <= N_PROCS /\ Cardinality(Slots) \in Nat
  BY <1>3, <1>5, <1>7, <1>8, ListSize
<1>10. n <= N_PROCS /\ n < LenMod
  BY <1>2, <1>7, <1>9
<1> QED
  BY <1>1, <1>2, <1>3, <1>4, <1>5, <1>6, <1>7, <1>10 DEF n, s
-----------------------------------------------------------------------------
(* Insertion.                                                              *)

Ins(s, n, m, p) ==
  [i \in 1..n+1 |-> IF i <= m THEN s[i] ELSE IF i = m + 1 THEN p ELSE s[i - 1]]

(* k1 is k with p linked behind the first m PCBs of q.                     *)
Inserted(k, k1, q, s, m, p) ==
  LET n == k.q[q].length IN
  /\ k1.q[q].head = IF m = 0 THEN p ELSE k.q[q].head
  /\ k1.q[q].tail = IF m = n THEN p ELSE k.q[q].tail
  /\ k1.q[q].length = n + 1
  /\ \A r \in Queues \ {q} : k1.q[r] = k.q[r]
  /\ \A x \in Slots :
       k1.ptable[x].next =
         IF x = p THEN (IF m = n THEN NULL ELSE s[m + 1])
         ELSE IF m # 0 /\ x = s[m] THEN p ELSE k.ptable[x].next

LEMMA InsIs ==
  ASSUME NEW n \in Nat, NEW m \in 0..n, NEW s, NEW p
  PROVE  LET t == Ins(s, n, m, p) IN
         /\ DOMAIN t = 1..n+1 /\ t[m + 1] = p
         /\ \A i \in 1..m : t[i] = s[i]
         /\ \A i \in m+2..n+1 : t[i] = s[i - 1]
         /\ \A i \in 1..n+1 : i = m + 1 \/ i \in 1..m \/ i \in m+2..n+1
         /\ \A i \in m+1..n : t[i + 1] = s[i]
BY DEF Ins

LEMMA InsertedChain ==
  ASSUME NEW k, NEW F, NEW L, Good(k, F, L), NEW q \in Queues, NEW p \in F,
         NEW k1, NEW m \in 0..k.q[q].length, Inserted(k, k1, q, L[q], m, p)
  PROVE  Chain(k1, q, Ins(L[q], k.q[q].length, m, p))
<1> DEFINE n == k.q[q].length
           s == L[q]
           t == Ins(s, n, m, p)
<1>1. /\ n \in Nat /\ s \in [1..n -> Slots] /\ F \subseteq Slots
      /\ n = 0 => k.q[q].head = NULL /\ k.q[q].tail = NULL
      /\ n # 0 => k.q[q].head = s[1] /\ k.q[q].tail = s[n]
      /\ \A i \in 1..n : k.ptable[s[i]].next = IF i = n THEN NULL ELSE s[i + 1]
      /\ \A i, j \in 1..n : s[i] = s[j] => i = j
      /\ \A i \in 1..n : s[i] # p
  BY QueueIs DEF Good
<1>2. /\ k1.q[q].head = IF m = 0 THEN p ELSE k.q[q].head
      /\ k1.q[q].tail = IF m = n THEN p ELSE k.q[q].tail
      /\ k1.q[q].length = n + 1
      /\ \A x \in Slots :
           k1.ptable[x].next =
             IF x = p THEN (IF m = n THEN NULL ELSE s[m + 1])
             ELSE IF m # 0 /\ x = s[m] THEN p ELSE k.ptable[x].next
  BY DEF Inserted
<1> HIDE DEF n, s, t
<1>3. m \in 0..n
  BY DEF n
<1>4. /\ DOMAIN t = 1..n+1 /\ t[m + 1] = p
      /\ \A i \in 1..m : t[i] = s[i]
      /\ \A i \in m+2..n+1 : t[i] = s[i - 1]
      /\ \A i \in 1..n+1 : i = m + 1 \/ i \in 1..m \/ i \in m+2..n+1
      /\ \A i \in m+1..n : t[i + 1] = s[i]
  BY <1>1, <1>3, InsIs, SMTT(30) DEF t
<1>5. t \in [1..n+1 -> Slots]
  <2>1. ASSUME NEW i \in 1..n+1 PROVE t[i] \in Slots
    <3>1. CASE i \in 1..m
      <4>1. t[i] = s[i] /\ i \in 1..n
        BY <1>1, <1>3, <1>4, <3>1
      <4> QED
        BY <1>1, <4>1
    <3>2. CASE i = m + 1
      BY <1>1, <1>4, <3>2
    <3>3. CASE i \in m+2..n+1
      <4>1. t[i] = s[i - 1] /\ i - 1 \in 1..n
        BY <1>1, <1>3, <1>4, <3>3
      <4> QED
        BY <1>1, <4>1
    <3> QED
      BY <1>4, <3>1, <3>2, <3>3
  <2> QED
    BY <1>1, <1>3, <2>1 DEF t, Ins
<1>6. k1.q[q].head = t[1] /\ k1.q[q].tail = t[n + 1]
  <2>1. CASE m = 0
    <3>1. k1.q[q].head = p /\ t[1] = p
      BY <1>2, <1>4, <2>1
    <3>2. CASE n = 0
      BY <1>2, <1>4, <2>1, <3>1, <3>2
    <3>3. CASE n # 0
      <4>1. n + 1 \in m+2..n+1 /\ (n + 1) - 1 = n
        BY <1>1, <2>1, <3>3
      <4> QED
        BY <1>1, <1>2, <1>4, <2>1, <3>1, <3>3, <4>1
    <3> QED
      BY <3>2, <3>3
  <2>2. CASE m # 0
    <3>1. 1 \in 1..m /\ n # 0
      BY <1>1, <1>3, <2>2
    <3>2. k1.q[q].head = t[1]
      BY <1>1, <1>2, <1>4, <2>2, <3>1
    <3>3. CASE m = n
      BY <1>2, <1>4, <3>2, <3>3
    <3>4. CASE m # n
      <4>1. n + 1 \in m+2..n+1 /\ (n + 1) - 1 = n
        BY <1>1, <1>3, <3>4
      <4> QED
        BY <1>1, <1>2, <1>4, <3>1, <3>2, <3>4, <4>1
    <3> QED
      BY <3>3, <3>4
  <2> QED
    BY <2>1, <2>2
<1>7. ASSUME NEW i \in 1..n+1
      PROVE  k1.ptable[t[i]].next = IF i = n + 1 THEN NULL ELSE t[i + 1]
  <2>1. CASE i \in 1..m
    <3>1. t[i] = s[i] /\ i \in 1..n /\ s[i] \in Slots /\ s[i] # p /\ i # n + 1 /\ m # 0 /\ m \in 1..n
      BY <1>1, <1>3, <1>4, <2>1
    <3>2. CASE i = m
      BY <1>2, <1>4, <3>1, <3>2
    <3>3. CASE i # m
      <4>1. s[i] # s[m] /\ i # n /\ i + 1 \in 1..m
        BY <1>1, <1>3, <2>1, <3>1, <3>3
      <4>2. k1.ptable[s[i]].next = k.ptable[s[i]].next
        BY <1>2, <3>1, <4>1
      <4>3. k.ptable[s[i]].next = s[i + 1]
        BY <1>1, <3>1, <4>1
      <4> QED
        BY <1>4, <3>1, <4>1, <4>2, <4>3
    <3> QED
      BY <3>2, <3>3
  <2>2. CASE i = m + 1
    <3>1. t[i] = p /\ p \in Slots
      BY <1>1, <1>4, <2>2
    <3>2. CASE m = n
      BY <1>2, <2>2, <3>1, <3>2
    <3>3. CASE m # n
      <4>1. i # n + 1 /\ m + 1 \in m+1..n
        BY <1>1, <1>3, <2>2, <3>3
      <4>2. t[i + 1] = s[m + 1]
        BY <1>4, <2>2, <4>1
      <4> QED
        BY <1>2, <3>1, <3>3, <4>1, <4>2
    <3> QED
      BY <3>2, <3>3
  <2>3. CASE i \in m+2..n+1
    <3> DEFINE j == i - 1
    <3>1. /\ j \in 1..n /\ j \in m+1..n /\ i = j + 1 /\ j # m /\ (j = n <=> i = n + 1)
          /\ m # 0 => m \in 1..n
      BY <1>1, <1>3, <2>3, SMTT(30)
    <3>2. t[i] = s[j]
      BY <1>4, <2>3
    <3> HIDE DEF j
    <3>3. s[j] \in Slots /\ s[j] # p /\ (m # 0 => s[j] # s[m])
      BY <1>1, <3>1
    <3>4. k1.ptable[s[j]].next = k.ptable[s[j]].next
      BY <1>2, <3>3
    <3>5. k.ptable[s[j]].next = IF j = n THEN NULL ELSE s[j + 1]
      BY <1>1, <3>1
    <3>6. j # n => t[i + 1] = s[j + 1]
      <4> SUFFICES ASSUME j # n PROVE t[i + 1] = s[j + 1]
        OBVIOUS
      <4>1. i \in m+1..n
        BY <1>1, <1>3, <3>1
      <4> QED
        BY <1>4, <3>1, <4>1
    <3> QED
      BY <3>1, <3>2, <3>4, <3>5, <3>6
  <2> QED
    BY <1>4, <2>1, <2>2, <2>3
<1>8. k1.q[q].length = n + 1 /\ n + 1 # 0
  BY <1>1, <1>2
<1>9. Chain(k1, q, t)
  BY <1>5, <1>6, <1>7, <1>8 DEF Chain
<1> QED
  BY <1>9 DEF t, s, n

(* The other lists are not touched.                                        *)
LEMMA ChainKept ==
  ASSUME NEW k, NEW k1, NEW r, NEW u, Chain(k, r, u), k1.q[r] = k.q[r],
         \A i \in DOMAIN u : k1.ptable[u[i]].next = k.ptable[u[i]].next
  PROVE  Chain(k1, r, u)
<1>1. DOMAIN u = 1..k.q[r].length
  BY DEF Chain
<1> QED
  BY <1>1 DEF Chain

LEMMA KeyType ==
  ASSUME NEW k \in KernelState, NEW q \in Queues, NEW p \in Slots
  PROVE  Key(k, q, p) \in Int
<1>1. k.ptable[p] \in PCB
  BY TableType
<1>2. k.ptable[p].priority \in Int /\ k.ptable[p].wakeup \in 0..TimeMod-1 /\ k.ptable[p].pid \in Nat
  BY <1>1, TableType DEF PCB
<1> QED
  BY <1>2 DEF Key, Queues

LEMMA SameKey ==
  ASSUME NEW k, NEW k1, Same(k, k1), NEW q \in Queues, NEW p \in Slots
  PROVE  Key(k1, q, p) = Key(k, q, p)
BY DEF Same, SamePCB, Key
(* A list none of whose PCBs is linked anew.                               *)
LEMMA OtherKept ==
  ASSUME NEW k, NEW F, NEW L, Good(k, F, L), NEW k1, Same(k, k1), NEW r \in Queues,
         k1.q[r] = k.q[r],
         \A i \in DOMAIN L[r] : k1.ptable[L[r][i]].next = k.ptable[L[r][i]].next
  PROVE  Chain(k1, r, L[r]) /\ Ordered(k1, r, L[r])
<1>1. Chain(k, r, L[r]) /\ Ordered(k, r, L[r])
  BY DEF Good
<1>2. Chain(k1, r, L[r])
  BY <1>1, ChainKept
<1>3. ASSUME ~IsFifo(r), NEW i \in 1..k.q[r].length-1
      PROVE  Key(k1, r, L[r][i]) <= Key(k1, r, L[r][i + 1])
  <2>1. k.q[r].length \in Nat /\ L[r] \in [1..k.q[r].length -> Slots]
    BY QueueIs
  <2>2. i \in 1..k.q[r].length /\ i + 1 \in 1..k.q[r].length
    BY <2>1
  <2>3. L[r][i] \in Slots /\ L[r][i + 1] \in Slots
    BY <2>1, <2>2
  <2>4. Key(k, r, L[r][i]) <= Key(k, r, L[r][i + 1])
    BY <1>1, <1>3 DEF Ordered
  <2> QED
    BY <2>3, <2>4, SameKey
<1> QED
  BY <1>2, <1>3 DEF Ordered

(* The keys around the place where p is linked into q.                     *)
Fits(k, q, s, m, p) ==
  ~IsFifo(q) => /\ \A i \in 1..m : Key(k, q, s[i]) <= Key(k, q, p)
                /\ m < k.q[q].length => Key(k, q, p) <= Key(k, q, s[m + 1])

LEMMA InsertedOrder ==
  ASSUME NEW k, NEW F, NEW L, Good(k, F, L), NEW q \in Queues, NEW p \in F,
         NEW k1, NEW m \in 0..k.q[q].length, Inserted(k, k1, q, L[q], m, p),
         Same(k, k1), Fits(k, q, L[q], m, p)
  PROVE  Ordered(k1, q, Ins(L[q], k.q[q].length, m, p))
<1> DEFINE n == k.q[q].length
           s == L[q]
           t == Ins(s, n, m, p)
<1> SUFFICES ASSUME ~IsFifo(q), NEW i \in 1..n
             PROVE  Key(k1, q, t[i]) <= Key(k1, q, t[i + 1])
  <2>1. n \in Nat /\ k1.q[q].length = n + 1
    BY QueueIs DEF Inserted
  <2>2. 1..(n + 1)-1 = 1..n
    BY <2>1
  <2> QED
    BY <2>1, <2>2 DEF Ordered
<1>1. /\ n \in Nat /\ s \in [1..n -> Slots] /\ p \in Slots /\ k \in KernelState
  BY QueueIs DEF Good
<1>2. \A j \in 1..n-1 : Key(k, q, s[j]) <= Key(k, q, s[j + 1])
  BY DEF Good, Ordered
<1>3. /\ \A j \in 1..m : Key(k, q, s[j]) <= Key(k, q, p)
      /\ m < n => Key(k, q, p) <= Key(k, q, s[m + 1])
  BY DEF Fits
<1> HIDE DEF n, s, t
<1>4. m \in 0..n
  BY DEF n
<1>5. /\ t[m + 1] = p
      /\ \A j \in 1..m : t[j] = s[j]
      /\ \A j \in m+2..n+1 : t[j] = s[j - 1]
      /\ \A j \in m+1..n : t[j + 1] = s[j]
  BY <1>1, <1>4, InsIs DEF t
<1>6. /\ t[i] \in Slots /\ t[i + 1] \in Slots /\ Key(k, q, t[i]) <= Key(k, q, t[i + 1])
  <2>1. CASE i < m
    <3>1. i \in 1..m /\ i + 1 \in 1..m /\ i \in 1..n-1 /\ i \in 1..n /\ i + 1 \in 1..n
      BY <1>1, <1>4, <2>1
    <3> QED
      BY <1>1, <1>2, <1>5, <3>1
  <2>2. CASE i = m
    <3>1. i \in 1..m /\ i \in 1..n
      BY <1>4, <2>2
    <3> QED
      BY <1>1, <1>3, <1>5, <2>2, <3>1
  <2>3. CASE i = m + 1
    <3>1. i \in m+1..n /\ m < n
      BY <1>1, <1>4, <2>3
    <3> QED
      BY <1>1, <1>3, <1>5, <2>3, <3>1
  <2>4. CASE i > m + 1
    <3> DEFINE j == i - 1
    <3>1. i = j + 1 /\ j \in 1..n-1 /\ i \in m+2..n+1 /\ i \in m+1..n /\ j \in 1..n /\ j + 1 \in 1..n
      BY <1>1, <1>4, <2>4
    <3>2. t[i] = s[j]
      BY <1>5, <3>1
    <3> HIDE DEF j
    <3>3. t[i + 1] = s[j + 1]
      BY <1>5, <3>1
    <3> QED
      BY <1>1, <1>2, <3>1, <3>2, <3>3
  <2> QED
    BY <1>1, <1>4, <2>1, <2>2, <2>3, <2>4
<1> QED
  BY <1>6, SameKey

LEMMA GoodInsert ==
  ASSUME NEW k, NEW F, NEW L, Good(k, F, L), NEW q \in Queues, NEW p \in F,
         NEW k1, NEW m \in 0..k.q[q].length, Inserted(k, k1, q, L[q], m, p),
         Same(k, k1), Fits(k, q, L[q], m, p), q \in Home(p, k.ptable[p].state)
  PROVE  \E M : Good(k1, F \ {p}, M)
<1> DEFINE n == k.q[q].length
           s == L[q]
           t == Ins(s, n, m, p)
           M == [r \in Queues |-> IF r = q THEN t ELSE L[r]]
<1>1. /\ n \in Nat /\ s \in [1..n -> Slots] /\ p \in Slots /\ k \in KernelState /\ DOMAIN s = 1..n
      /\ F \subseteq Slots /\ Apart(L) /\ Placed(k, F, L) /\ Ok(k)
  BY QueueIs DEF Good
<1>2. /\ k1 \in KernelState /\ Ok(k1)
      /\ \A x \in Slots : k1.ptable[x].state = k.ptable[x].state
  BY <1>1 DEF Same, SameRest, SamePCB, Ok
<1>3. Chain(k1, q, t) /\ Ordered(k1, q, t)
  BY InsertedChain, InsertedOrder
<1>4. /\ \A x \in Slots :
           k1.ptable[x].next = IF x = p THEN (IF m = n THEN NULL ELSE s[m + 1])
                               ELSE IF m # 0 /\ x = s[m] THEN p ELSE k.ptable[x].next
      /\ \A r \in Queues \ {q} : k1.q[r] = k.q[r]
  BY DEF Inserted
<1>5. \A r \in Queues : L[r] \in [1..k.q[r].length -> Slots] /\ DOMAIN L[r] = 1..k.q[r].length
  BY QueueIs
<1>6. \A r \in Queues : \A i \in DOMAIN L[r] : L[r][i] \in Slots /\ L[r][i] # p
  BY <1>1, <1>5 DEF Placed
<1>7. m \in 0..n
  OBVIOUS
<1> HIDE DEF n, s, t
<1>8. /\ DOMAIN t = 1..n+1 /\ t[m + 1] = p
      /\ \A i \in 1..m : t[i] = s[i]
      /\ \A i \in m+2..n+1 : t[i] = s[i - 1]
      /\ \A i \in 1..n+1 : i = m + 1 \/ i \in 1..m \/ i \in m+2..n+1
      /\ \A i \in m+1..n : t[i + 1] = s[i]
  BY <1>1, <1>7, InsIs DEF t
<1>9. \A r \in Queues : M[r] = IF r = q THEN t ELSE L[r]
  OBVIOUS
<1> HIDE DEF M
<1>10. ASSUME NEW r \in Queues PROVE Chain(k1, r, M[r]) /\ Ordered(k1, r, M[r])
  <2>1. CASE r = q
    BY <1>3, <1>9, <2>1
  <2>2. CASE r # q
    <3>1. M[r] = L[r] /\ k1.q[r] = k.q[r] /\ Chain(k, r, L[r]) /\ Ordered(k, r, L[r])
      BY <1>4, <1>9, <2>2 DEF Good
    <3>2. ASSUME NEW i \in DOMAIN L[r]
          PROVE  k1.ptable[L[r][i]].next = k.ptable[L[r][i]].next
      <4>1. L[r][i] \in Slots /\ L[r][i] # p
        BY <1>6
      <4>2. m # 0 => L[r][i] # s[m]
        <5>1. m # 0 => m \in DOMAIN L[q]
          BY <1>1, <1>7 DEF s
        <5> QED
          BY <1>1, <2>2, <5>1 DEF Apart, s
      <4> QED
        BY <1>4, <4>1, <4>2
    <3>3. Chain(k1, r, L[r]) /\ Ordered(k1, r, L[r])
      BY <3>1, <3>2, OtherKept
    <3> QED
      BY <3>1, <3>3
  <2> QED
    BY <2>1, <2>2
<1>11. ASSUME NEW r \in Queues, NEW i \in DOMAIN M[r], M[r][i] # p
       PROVE  \E j \in DOMAIN L[r] : M[r][i] = L[r][j] /\ (r # q => i = j)
                /\ (r = q => j = IF i <= m THEN i ELSE i - 1)
  <2>1. CASE r # q
    BY <1>9, <2>1
  <2>2. CASE r = q
    <3>1. M[r] = t /\ i \in 1..n+1 /\ L[r] = s
      BY <1>8, <1>9, <2>2 DEF s
    <3>2. CASE i \in 1..m
      <4>1. t[i] = s[i] /\ i \in 1..n /\ i <= m
        BY <1>1, <1>7, <1>8, <3>2
      <4> QED
        BY <1>1, <2>2, <3>1, <4>1
    <3>3. CASE i \in m+2..n+1
      <4>1. t[i] = s[i - 1] /\ i - 1 \in 1..n /\ ~(i <= m)
        BY <1>1, <1>7, <1>8, <3>3
      <4> QED
        BY <1>1, <2>2, <3>1, <4>1
    <3> QED
      BY <1>8, <1>11, <3>1, <3>2, <3>3
  <2> QED
    BY <2>1, <2>2
<1>12. ASSUME NEW r \in Queues, NEW i \in DOMAIN M[r], M[r][i] = p
       PROVE  r = q /\ i = m + 1
  <2>1. r = q
    BY <1>6, <1>9, <1>12
  <2>2. M[r] = t /\ i \in 1..n+1
    BY <1>8, <1>9, <2>1
  <2>3. CASE i \in 1..m
    <3>1. t[i] = s[i] /\ i \in DOMAIN L[q] /\ s = L[q]
      BY <1>1, <1>7, <1>8, <2>3 DEF s
    <3> QED
      BY <1>6, <1>12, <2>2, <3>1
  <2>4. CASE i \in m+2..n+1
    <3>1. t[i] = s[i - 1] /\ i - 1 \in DOMAIN L[q] /\ s = L[q]
      BY <1>1, <1>7, <1>8, <2>4 DEF s
    <3> QED
      BY <1>6, <1>12, <2>2, <3>1
  <2> QED
    BY <1>8, <2>1, <2>2, <2>3, <2>4
<1>13. Apart(M)
  <2> SUFFICES ASSUME NEW r \in Queues, NEW w \in Queues, NEW i \in DOMAIN M[r],
                      NEW j \in DOMAIN M[w], M[r][i] = M[w][j]
               PROVE  r = w /\ i = j
    BY DEF Apart
  <2>1. CASE M[r][i] = p
    BY <1>12, <2>1
  <2>2. CASE M[r][i] # p
    <3>1. PICK a \in DOMAIN L[r] :
            M[r][i] = L[r][a] /\ (r # q => i = a) /\ (r = q => a = IF i <= m THEN i ELSE i - 1)
      BY <1>11, <2>2
    <3>2. PICK b \in DOMAIN L[w] :
            M[w][j] = L[w][b] /\ (w # q => j = b) /\ (w = q => b = IF j <= m THEN j ELSE j - 1)
      BY <1>11, <2>2
    <3>3. r = w /\ a = b
      <4>1. Apart(L) /\ L[r][a] = L[w][b]
        BY <1>1, <3>1, <3>2
      <4> QED
        BY <4>1, SMTT(30) DEF Apart
    <3>4. CASE r # q
      BY <3>1, <3>2, <3>3, <3>4
    <3>5. CASE r = q
      <4>1. i \in 1..n+1 /\ j \in 1..n+1 /\ i # m + 1 /\ j # m + 1
        BY <1>8, <1>9, <2>2, <3>3, <3>5
      <4>2. (IF i <= m THEN i ELSE i - 1) = (IF j <= m THEN j ELSE j - 1)
        BY <3>1, <3>2, <3>3, <3>5
      <4>3. i = j
        BY <1>1, <1>7, <4>1, <4>2
      <4> QED
        BY <3>3, <4>3
    <3> QED
      BY <3>4, <3>5
  <2> QED
    BY <2>1, <2>2
<1>14. Placed(k1, F \ {p}, M)
  <2>1. ASSUME NEW r \in Queues, NEW i \in DOMAIN M[r]
        PROVE  M[r][i] \notin F \ {p} /\ r \in Home(M[r][i], k1.ptable[M[r][i]].state)
    <3>1. CASE M[r][i] = p
      BY <1>1, <1>2, <1>12, <3>1
    <3>2. CASE M[r][i] # p
      <4>1. PICK j \in DOMAIN L[r] : M[r][i] = L[r][j]
        BY <1>11, <3>2
      <4> QED
        BY <1>1, <1>2, <1>6, <4>1 DEF Placed
    <3> QED
      BY <3>1, <3>2
  <2>2. ASSUME NEW x \in Slots \ (F \ {p})
        PROVE  \E r \in Queues : \E i \in DOMAIN M[r] : M[r][i] = x
    <3>1. CASE x = p
      <4>1. m + 1 \in DOMAIN M[q] /\ M[q][m + 1] = p
        BY <1>1, <1>7, <1>8, <1>9
      <4> QED
        BY <3>1, <4>1
    <3>2. CASE x # p
      <4>0. PICK r \in Queues : \E j \in DOMAIN L[r] : L[r][j] = x
        BY <1>1, <2>2, <3>2 DEF Placed
      <4>1. PICK j \in DOMAIN L[r] : L[r][j] = x
        BY <4>0
      <4>2. CASE r # q
        BY <1>9, <4>1, <4>2
      <4>3. CASE r = q
        <5>1. L[r] = s /\ j \in 1..n /\ M[r] = t
          BY <1>1, <1>9, <4>3 DEF s
        <5>2. CASE j <= m
          <6>1. t[j] = s[j] /\ j \in 1..n+1
            BY <1>1, <1>7, <1>8, <5>1, <5>2
          <6> QED
            BY <1>8, <4>1, <5>1, <6>1
        <5>3. CASE ~(j <= m)
          <6>1. j \in m+1..n /\ j + 1 \in 1..n+1
            BY <1>1, <1>7, <5>1, <5>3
          <6>2. t[j + 1] = s[j]
            BY <1>8, <6>1
          <6> QED
            BY <1>8, <4>1, <5>1, <6>1, <6>2
        <5> QED
          BY <5>2, <5>3
      <4> QED
        BY <4>2, <4>3
    <3> QED
      BY <3>1, <3>2
  <2>3. ASSUME NEW x \in F \ {p} PROVE k1.ptable[x].next = NULL
    <3>1. x \in Slots /\ x # p /\ k.ptable[x].next = NULL
      BY <1>1 DEF Placed
    <3>2. m # 0 => x # s[m]
      <4>1. m # 0 => m \in DOMAIN L[q] /\ s = L[q]
        BY <1>1, <1>7 DEF s
      <4> QED
        BY <1>1, <2>3, <4>1 DEF Placed
    <3> QED
      BY <1>4, <3>1, <3>2
  <2> QED
    BY <2>1, <2>2, <2>3 DEF Placed
<1>15. Good(k1, F \ {p}, M)
  BY <1>1, <1>2, <1>10, <1>13, <1>14 DEF Good
<1> QED
  BY <1>15
-----------------------------------------------------------------------------
(* Removal.                                                                *)

Del(s, n, m) == [i \in 1..n-1 |-> IF i < m THEN s[i] ELSE s[i + 1]]

(* k1 is k with the m-th PCB of q unlinked.                                *)
Removed(k, k1, q, s, m) ==
  LET n == k.q[q].length IN
  /\ k1.q[q].head = IF m # 1 THEN s[1] ELSE IF n = 1 THEN NULL ELSE s[2]
  /\ k1.q[q].tail = IF m # n THEN s[n] ELSE IF n = 1 THEN NULL ELSE s[n - 1]
  /\ k1.q[q].length = n - 1
  /\ \A r \in Queues \ {q} : k1.q[r] = k.q[r]
  /\ \A x \in Slots :
       k1.ptable[x].next =
         IF x = s[m] THEN NULL
         ELSE IF m # 1 /\ x = s[m - 1] THEN (IF m = n THEN NULL ELSE s[m + 1])
         ELSE k.ptable[x].next

LEMMA DelIs ==
  ASSUME NEW n \in Nat, NEW m \in 1..n, NEW s
  PROVE  LET t == Del(s, n, m) IN
         /\ DOMAIN t = 1..n-1
         /\ \A i \in 1..m-1 : t[i] = s[i]
         /\ \A i \in m..n-1 : t[i] = s[i + 1]
         /\ \A i \in 1..n-1 : i \in 1..m-1 \/ i \in m..n-1
BY DEF Del

LEMMA RemovedChain ==
  ASSUME NEW k, NEW F, NEW L, Good(k, F, L), NEW q \in Queues,
         NEW k1, NEW m \in 1..k.q[q].length, Removed(k, k1, q, L[q], m)
  PROVE  Chain(k1, q, Del(L[q], k.q[q].length, m))
<1> DEFINE n == k.q[q].length
           s == L[q]
           t == Del(s, n, m)
<1>1. /\ n \in Nat /\ s \in [1..n -> Slots]
      /\ \A i \in 1..n : k.ptable[s[i]].next = IF i = n THEN NULL ELSE s[i + 1]
      /\ \A i, j \in 1..n : s[i] = s[j] => i = j
  BY QueueIs
<1>2. /\ k1.q[q].head = IF m # 1 THEN s[1] ELSE IF n = 1 THEN NULL ELSE s[2]
      /\ k1.q[q].tail = IF m # n THEN s[n] ELSE IF n = 1 THEN NULL ELSE s[n - 1]
      /\ k1.q[q].length = n - 1
      /\ \A x \in Slots :
           k1.ptable[x].next =
             IF x = s[m] THEN NULL
             ELSE IF m # 1 /\ x = s[m - 1] THEN (IF m = n THEN NULL ELSE s[m + 1])
             ELSE k.ptable[x].next
  BY DEF Removed
<1> HIDE DEF n, s, t
<1>3. m \in 1..n /\ m \in Nat
  BY DEF n
<1>4. /\ DOMAIN t = 1..n-1
      /\ \A i \in 1..m-1 : t[i] = s[i]
      /\ \A i \in m..n-1 : t[i] = s[i + 1]
      /\ \A i \in 1..n-1 : i \in 1..m-1 \/ i \in m..n-1
  BY <1>1, <1>3, DelIs DEF t
<1>5. t \in [1..n-1 -> Slots]
  <2>1. ASSUME NEW i \in 1..n-1 PROVE t[i] \in Slots
    <3>1. CASE i \in 1..m-1
      <4>1. t[i] = s[i] /\ i \in 1..n
        BY <1>1, <1>3, <1>4, <3>1
      <4> QED
        BY <1>1, <4>1
    <3>2. CASE i \in m..n-1
      <4>1. t[i] = s[i + 1] /\ i + 1 \in 1..n
        BY <1>1, <1>3, <1>4, <3>2
      <4> QED
        BY <1>1, <4>1
    <3> QED
      BY <1>4, <3>1, <3>2
  <2> QED
    BY <2>1 DEF t, Del
<1>6. n - 1 = 0 => k1.q[q].head = NULL /\ k1.q[q].tail = NULL
  BY <1>1, <1>2, <1>3
<1>7. n - 1 # 0 => k1.q[q].head = t[1] /\ k1.q[q].tail = t[n - 1]
  <2> SUFFICES ASSUME n - 1 # 0 PROVE k1.q[q].head = t[1] /\ k1.q[q].tail = t[n - 1]
    OBVIOUS
  <2>1. n > 1 /\ n # 1
    BY <1>1, <1>3
  <2>2. k1.q[q].head = t[1]
    <3>1. CASE m = 1
      <4>1. 1 \in m..n-1
        BY <1>1, <2>1, <3>1
      <4> QED
        BY <1>2, <1>4, <2>1, <3>1, <4>1
    <3>2. CASE m # 1
      <4>1. 1 \in 1..m-1
        BY <1>3, <3>2
      <4> QED
        BY <1>2, <1>4, <3>2, <4>1
    <3> QED
      BY <3>1, <3>2
  <2>3. k1.q[q].tail = t[n - 1]
    <3>1. CASE m = n
      <4>1. n - 1 \in 1..m-1
        BY <1>1, <2>1, <3>1
      <4> QED
        BY <1>2, <1>4, <2>1, <3>1, <4>1
    <3>2. CASE m # n
      <4>1. n - 1 \in m..n-1 /\ (n - 1) + 1 = n
        BY <1>1, <1>3, <3>2
      <4> QED
        BY <1>2, <1>4, <3>2, <4>1
    <3> QED
      BY <3>1, <3>2
  <2> QED
    BY <2>2, <2>3
<1>8. ASSUME NEW i \in 1..n-1
      PROVE  k1.ptable[t[i]].next = IF i = n - 1 THEN NULL ELSE t[i + 1]
  <2>1. CASE i \in 1..m-1
    <3>1. t[i] = s[i] /\ i \in 1..n /\ s[i] \in Slots /\ i # m /\ i # n /\ m # 1
      BY <1>1, <1>3, <1>4, <2>1
    <3>2. s[i] # s[m]
      BY <1>1, <1>3, <3>1
    <3>3. CASE i = m - 1
      <4>1. k1.ptable[s[i]].next = IF m = n THEN NULL ELSE s[m + 1]
        BY <1>2, <3>1, <3>2, <3>3
      <4>2. CASE m = n
        BY <3>1, <3>3, <4>1, <4>2
      <4>3. CASE m # n
        <5>1. m \in m..n-1 /\ i + 1 = m /\ i # n - 1
          BY <1>1, <1>3, <3>3, <4>3
        <5> QED
          BY <1>4, <3>1, <4>1, <4>3, <5>1
      <4> QED
        BY <4>2, <4>3
    <3>4. CASE i # m - 1
      <4>1. m - 1 \in 1..n /\ i + 1 \in 1..m-1 /\ i # n - 1
        BY <1>1, <1>3, <2>1, <3>1, <3>4
      <4>2. s[i] # s[m - 1]
        BY <1>1, <3>1, <3>4, <4>1
      <4>3. k1.ptable[s[i]].next = k.ptable[s[i]].next
        BY <1>2, <3>1, <3>2, <4>2
      <4>4. k.ptable[s[i]].next = s[i + 1]
        BY <1>1, <3>1
      <4> QED
        BY <1>4, <3>1, <4>1, <4>3, <4>4
    <3> QED
      BY <3>3, <3>4
  <2>2. CASE i \in m..n-1
    <3> DEFINE j == i + 1
    <3>1. j \in 1..n /\ j # m /\ j # m - 1 /\ (j = n <=> i = n - 1) /\ (m # 1 => m - 1 \in 1..n)
      BY <1>1, <1>3, <2>2
    <3>2. t[i] = s[j]
      BY <1>4, <2>2
    <3>3. i # n - 1 => t[i + 1] = s[j + 1]
      <4> SUFFICES ASSUME i # n - 1 PROVE t[i + 1] = s[j + 1]
        OBVIOUS
      <4>1. i + 1 \in m..n-1
        BY <1>1, <1>3, <2>2
      <4> QED
        BY <1>4, <4>1
    <3> HIDE DEF j
    <3>4. s[j] \in Slots /\ s[j] # s[m] /\ (m # 1 => s[j] # s[m - 1])
      BY <1>1, <1>3, <3>1
    <3>5. k1.ptable[s[j]].next = k.ptable[s[j]].next
      BY <1>2, <3>4
    <3>6. k.ptable[s[j]].next = IF j = n THEN NULL ELSE s[j + 1]
      BY <1>1, <3>1
    <3> QED
      BY <3>1, <3>2, <3>3, <3>5, <3>6
  <2> QED
    BY <1>4, <2>1, <2>2
<1>9. Chain(k1, q, t)
  BY <1>2, <1>5, <1>6, <1>7, <1>8 DEF Chain
<1> QED
  BY <1>9 DEF t, s, n

LEMMA RemovedOrder ==
  ASSUME NEW k, NEW F, NEW L, Good(k, F, L), NEW q \in Queues,
         NEW k1, NEW m \in 1..k.q[q].length, Removed(k, k1, q, L[q], m), Same(k, k1)
  PROVE  Ordered(k1, q, Del(L[q], k.q[q].length, m))
<1> DEFINE n == k.q[q].length
           s == L[q]
           t == Del(s, n, m)
<1>1. /\ n \in Nat /\ s \in [1..n -> Slots] /\ k \in KernelState /\ k1.q[q].length = n - 1
  BY QueueIs DEF Removed
<1> SUFFICES ASSUME ~IsFifo(q), NEW i \in 1..(n - 1)-1
             PROVE  Key(k1, q, t[i]) <= Key(k1, q, t[i + 1])
  BY <1>1 DEF Ordered
<1>2. \A j \in 1..n-1 : Key(k, q, s[j]) <= Key(k, q, s[j + 1])
  BY DEF Good, Ordered
<1> HIDE DEF n, s, t
<1>3. m \in 1..n
  BY DEF n
<1>4. /\ \A j \in 1..m-1 : t[j] = s[j]
      /\ \A j \in m..n-1 : t[j] = s[j + 1]
  BY <1>1, <1>3, DelIs DEF t
<1>5. /\ t[i] \in Slots /\ t[i + 1] \in Slots /\ Key(k, q, t[i]) <= Key(k, q, t[i + 1])
  <2>1. CASE i + 1 < m
    <3>1. i \in 1..m-1 /\ i + 1 \in 1..m-1 /\ i \in 1..n-1 /\ i \in 1..n /\ i + 1 \in 1..n
      BY <1>1, <1>3, <2>1
    <3> QED
      BY <1>1, <1>2, <1>4, <3>1
  <2>2. CASE i + 1 = m
    <3>1. /\ i \in 1..m-1 /\ m \in m..n-1 /\ i \in 1..n-1 /\ m \in 1..n-1 /\ i \in 1..n /\ m \in 1..n
          /\ m + 1 \in 1..n
      BY <1>1, <1>3, <2>2
    <3>2. t[i] = s[i] /\ t[i + 1] = s[m + 1]
      BY <1>4, <2>2, <3>1
    <3>3. Key(k, q, s[i]) <= Key(k, q, s[m]) /\ Key(k, q, s[m]) <= Key(k, q, s[m + 1])
      BY <1>2, <2>2, <3>1
    <3>4. s[i] \in Slots /\ s[m] \in Slots /\ s[m + 1] \in Slots
      BY <1>1, <3>1
    <3>5. Key(k, q, s[i]) \in Int /\ Key(k, q, s[m]) \in Int /\ Key(k, q, s[m + 1]) \in Int
      BY <1>1, <3>4, KeyType
    <3> QED
      BY <3>2, <3>3, <3>4, <3>5
  <2>3. CASE i + 1 > m
    <3> DEFINE j == i + 1
    <3>1. i \in m..n-1 /\ j \in m..n-1 /\ j \in 1..n-1 /\ j \in 1..n /\ j + 1 \in 1..n
      BY <1>1, <1>3, <2>3
    <3>2. t[i] = s[j] /\ t[j] = s[j + 1]
      BY <1>4, <3>1
    <3>3. s[j] \in Slots /\ s[j + 1] \in Slots /\ Key(k, q, s[j]) <= Key(k, q, s[j + 1])
      BY <1>1, <1>2, <3>1
    <3> QED
      BY <3>2, <3>3
  <2> QED
    BY <1>1, <1>3, <2>1, <2>2, <2>3
<1> QED
  BY <1>5, SameKey
LEMMA GoodRemove ==
  ASSUME NEW k, NEW F, NEW L, Good(k, F, L), NEW q \in Queues,
         NEW k1, NEW m \in 1..k.q[q].length, Removed(k, k1, q, L[q], m), Same(k, k1)
  PROVE  \E M : Good(k1, F \cup {L[q][m]}, M)
<1> DEFINE n == k.q[q].length
           s == L[q]
           p == s[m]
           t == Del(s, n, m)
           M == [r \in Queues |-> IF r = q THEN t ELSE L[r]]
<1>1. /\ n \in Nat /\ s \in [1..n -> Slots] /\ k \in KernelState /\ DOMAIN s = 1..n
      /\ F \subseteq Slots /\ Apart(L) /\ Placed(k, F, L) /\ Ok(k)
      /\ \A i, j \in 1..n : s[i] = s[j] => i = j
  BY QueueIs DEF Good
<1>2. /\ k1 \in KernelState /\ Ok(k1)
      /\ \A x \in Slots : k1.ptable[x].state = k.ptable[x].state
  BY <1>1 DEF Same, SameRest, SamePCB, Ok
<1>3. Chain(k1, q, t) /\ Ordered(k1, q, t)
  BY RemovedChain, RemovedOrder
<1>4. /\ \A x \in Slots :
           k1.ptable[x].next =
             IF x = s[m] THEN NULL
             ELSE IF m # 1 /\ x = s[m - 1] THEN (IF m = n THEN NULL ELSE s[m + 1])
             ELSE k.ptable[x].next
      /\ \A r \in Queues \ {q} : k1.q[r] = k.q[r]
  BY DEF Removed
<1>5. \A r \in Queues : L[r] \in [1..k.q[r].length -> Slots] /\ DOMAIN L[r] = 1..k.q[r].length
  BY QueueIs
<1>6. \A r \in Queues : \A i \in DOMAIN L[r] : L[r][i] \in Slots
  BY <1>5
<1>7. m \in 1..n /\ p \in Slots
  BY <1>1
<1> HIDE DEF n, t
<1>8. /\ DOMAIN t = 1..n-1
      /\ \A i \in 1..m-1 : t[i] = s[i]
      /\ \A i \in m..n-1 : t[i] = s[i + 1]
      /\ \A i \in 1..n-1 : i \in 1..m-1 \/ i \in m..n-1
  BY <1>1, <1>7, DelIs DEF t
<1>9. \A r \in Queues : M[r] = IF r = q THEN t ELSE L[r]
  OBVIOUS
<1> HIDE DEF M, s
<1>10. ASSUME NEW r \in Queues PROVE Chain(k1, r, M[r]) /\ Ordered(k1, r, M[r])
  <2>1. CASE r = q
    BY <1>3, <1>9, <2>1
  <2>2. CASE r # q
    <3>1. M[r] = L[r] /\ k1.q[r] = k.q[r]
      BY <1>4, <1>9, <2>2
    <3>2. ASSUME NEW i \in DOMAIN L[r]
          PROVE  k1.ptable[L[r][i]].next = k.ptable[L[r][i]].next
      <4>1. L[r][i] \in Slots
        BY <1>6
      <4>2. m \in DOMAIN L[q] /\ (m # 1 => m - 1 \in DOMAIN L[q])
        BY <1>1, <1>7 DEF s
      <4>3. Apart(L)
        BY <1>1
      <4>4. L[r][i] # L[q][m]
        BY <2>2, <4>2, <4>3 DEF Apart
      <4>5. m # 1 => L[r][i] # L[q][m - 1]
        BY <2>2, <4>2, <4>3 DEF Apart
      <4> QED
        BY <1>4, <4>1, <4>4, <4>5 DEF s
    <3>3. Chain(k1, r, L[r]) /\ Ordered(k1, r, L[r])
      BY <3>1, <3>2, OtherKept
    <3> QED
      BY <3>1, <3>3
  <2> QED
    BY <2>1, <2>2
<1>11. ASSUME NEW r \in Queues, NEW i \in DOMAIN M[r]
       PROVE  \E j \in DOMAIN L[r] : M[r][i] = L[r][j] /\ (r # q => i = j)
                /\ (r = q => j = (IF i < m THEN i ELSE i + 1) /\ j # m)
  <2>1. CASE r # q
    BY <1>9, <2>1
  <2>2. CASE r = q
    <3>1. M[r] = t /\ i \in 1..n-1 /\ L[r] = s
      BY <1>8, <1>9, <2>2 DEF s
    <3>2. CASE i \in 1..m-1
      <4>1. t[i] = s[i] /\ i \in 1..n /\ i < m /\ i # m
        BY <1>1, <1>7, <1>8, <3>2
      <4> QED
        BY <1>1, <2>2, <3>1, <4>1
    <3>3. CASE i \in m..n-1
      <4>1. t[i] = s[i + 1] /\ i + 1 \in 1..n /\ ~(i < m) /\ i + 1 # m
        BY <1>1, <1>7, <1>8, <3>3
      <4> QED
        BY <1>1, <2>2, <3>1, <4>1
    <3> QED
      BY <1>8, <3>1, <3>2, <3>3
  <2> QED
    BY <2>1, <2>2
<1>12. ASSUME NEW r \in Queues, NEW i \in DOMAIN M[r]
       PROVE  M[r][i] # p
  <2>1. PICK j \in DOMAIN L[r] : M[r][i] = L[r][j] /\ (r = q => j # m)
    BY <1>11
  <2>2. m \in DOMAIN L[q] /\ p = L[q][m] /\ Apart(L)
    BY <1>1, <1>7 DEF s
  <2> HIDE DEF p
  <2>3. ASSUME L[r][j] = L[q][m] PROVE r = q /\ j = m
    BY <2>2, <2>3, SMTT(30) DEF Apart
  <2> QED
    BY <2>1, <2>2, <2>3
<1>13. Apart(M)
  <2> SUFFICES ASSUME NEW r \in Queues, NEW w \in Queues, NEW i \in DOMAIN M[r],
                      NEW j \in DOMAIN M[w], M[r][i] = M[w][j]
               PROVE  r = w /\ i = j
    BY DEF Apart
  <2>1. PICK a \in DOMAIN L[r] :
          M[r][i] = L[r][a] /\ (r # q => i = a) /\ (r = q => a = IF i < m THEN i ELSE i + 1)
    BY <1>11
  <2>2. PICK b \in DOMAIN L[w] :
          M[w][j] = L[w][b] /\ (w # q => j = b) /\ (w = q => b = IF j < m THEN j ELSE j + 1)
    BY <1>11
  <2>3. r = w /\ a = b
    <3>1. Apart(L) /\ L[r][a] = L[w][b]
      BY <1>1, <2>1, <2>2
    <3> QED
      BY <3>1, SMTT(30) DEF Apart
  <2>4. CASE r # q
    BY <2>1, <2>2, <2>3, <2>4
  <2>5. CASE r = q
    <3>1. i \in 1..n-1 /\ j \in 1..n-1
      BY <1>8, <1>9, <2>3, <2>5
    <3>2. (IF i < m THEN i ELSE i + 1) = (IF j < m THEN j ELSE j + 1)
      BY <2>1, <2>2, <2>3, <2>5
    <3>3. i = j
      BY <1>1, <1>7, <3>1, <3>2
    <3> QED
      BY <2>3, <3>3
  <2> QED
    BY <2>4, <2>5
<1>14. Placed(k1, F \cup {p}, M)
  <2>1. ASSUME NEW r \in Queues, NEW i \in DOMAIN M[r]
        PROVE  M[r][i] \notin F \cup {p} /\ r \in Home(M[r][i], k1.ptable[M[r][i]].state)
    <3>1. PICK j \in DOMAIN L[r] : M[r][i] = L[r][j]
      BY <1>11
    <3>2. M[r][i] # p
      BY <1>12
    <3> HIDE DEF p
    <3> QED
      BY <1>1, <1>2, <1>6, <3>1, <3>2 DEF Placed
  <2>2. ASSUME NEW x \in Slots \ (F \cup {p})
        PROVE  \E r \in Queues : \E i \in DOMAIN M[r] : M[r][i] = x
    <3>1. PICK r \in Queues : \E j \in DOMAIN L[r] : L[r][j] = x
      BY <1>1, <2>2 DEF Placed
    <3>2. PICK j \in DOMAIN L[r] : L[r][j] = x
      BY <3>1
    <3>3. CASE r # q
      BY <1>9, <3>2, <3>3
    <3>4. CASE r = q
      <4>1. L[r] = s /\ j \in 1..n /\ M[r] = t /\ j # m
        BY <1>1, <1>9, <2>2, <3>2, <3>4 DEF s
      <4>2. CASE j < m
        <5>1. j \in 1..m-1 /\ j \in 1..n-1
          BY <1>1, <1>7, <4>1, <4>2
        <5> QED
          BY <1>8, <3>2, <4>1, <5>1
      <4>3. CASE ~(j < m)
        <5> DEFINE i == j - 1
        <5>1. i \in m..n-1 /\ i \in 1..n-1 /\ i + 1 = j
          BY <1>1, <1>7, <4>1, <4>3
        <5>2. t[i] = s[j]
          BY <1>8, <5>1
        <5> QED
          BY <1>8, <3>2, <4>1, <5>1, <5>2
      <4> QED
        BY <4>2, <4>3
    <3> QED
      BY <3>3, <3>4
  <2>3. ASSUME NEW x \in F \cup {p} PROVE k1.ptable[x].next = NULL
    <3>1. CASE x = p
      BY <1>4, <1>7, <3>1
    <3>2. CASE x # p
      <4>1. x \in Slots /\ x \in F /\ k.ptable[x].next = NULL
        BY <1>1, <2>3, <3>2 DEF Placed
      <4>2. m # 1 => m - 1 \in DOMAIN L[q] /\ s = L[q]
        BY <1>1, <1>7 DEF s
      <4>3. m # 1 => x # s[m - 1]
        BY <1>1, <4>1, <4>2 DEF Placed
      <4> QED
        BY <1>4, <3>2, <4>1, <4>3
    <3> QED
      BY <3>1, <3>2
  <2> QED
    BY <2>1, <2>2, <2>3 DEF Placed
<1>15. Good(k1, F \cup {p}, M)
  BY <1>1, <1>2, <1>7, <1>10, <1>13, <1>14 DEF Good
<1> QED
  BY <1>15 DEF s
-----------------------------------------------------------------------------
(* The list walks.                                                         *)

(* f is where the walk of q ends: at the first PCB in Stop or, behind the  *)
(* last one, at NULL.                                                      *)
EndsAt(k, q, s, Stop, f) ==
  LET n == k.q[q].length IN
  /\ f \in 1..n+1
  /\ \A i \in 1..n : i < f => s[i] \notin Stop
  /\ f <= n => s[f] \in Stop

LEMMA WalkEnds ==
  ASSUME NEW k, NEW F, NEW L, Good(k, F, L), NEW q \in Queues, NEW Stop
  PROVE  \E f : EndsAt(k, q, L[q], Stop, f)
<1> DEFINE n == k.q[q].length
           T == {i \in 1..n : L[q][i] \in Stop}
<1>1. n \in Nat
  BY QueueIs
<1>2. CASE T = {}
  <2>1. EndsAt(k, q, L[q], Stop, n + 1)
    BY <1>1, <1>2 DEF EndsAt
  <2> QED
    BY <2>1
<1>3. CASE T # {}
  <2>1. T \subseteq Nat
    OBVIOUS
  <2>2. PICK f \in T : \A m \in T : f <= m
    BY <1>3, <2>1, LeastNat
  <2>3. ASSUME NEW i \in 1..n, i < f PROVE L[q][i] \notin Stop
    BY <2>2, <2>3
  <2> QED
    BY <1>1, <2>2, <2>3 DEF EndsAt
<1> QED
  BY <1>2, <1>3

LEMMA WalkIs ==
  ASSUME NEW k, NEW F, NEW L, Good(k, F, L), NEW q \in Queues, NEW Stop \in SUBSET Slots,
         NEW f, EndsAt(k, q, L[q], Stop, f)
  PROVE  \A i \in 0..N_PROCS :
           Walk(k, q, Stop)[i] = IF i + 1 < f THEN L[q][i + 1]
                                 ELSE IF f <= k.q[q].length THEN L[q][f] ELSE NULL
<1> DEFINE n == k.q[q].length
           s == L[q]
           To(c) == IF c \in Stop THEN c ELSE Succ(k, c)
           W(g) == [i \in 0..N_PROCS |->
                      IF i = 0 THEN k.q[q].head
                      ELSE LET c == g[i - 1] IN IF c \in Stop THEN c ELSE Succ(k, c)]
           curr == CHOOSE g : g = W(g)
           At(i) == IF i + 1 < f THEN s[i + 1] ELSE IF f <= n THEN s[f] ELSE NULL
           w == [i \in 0..N_PROCS |-> At(i)]
<1>1. Walk(k, q, Stop) = curr
  BY DEF Walk
<1>2. /\ n \in Nat /\ n <= N_PROCS /\ N_PROCS \in Nat /\ s \in [1..n -> Slots]
      /\ n = 0 => k.q[q].head = NULL
      /\ n # 0 => k.q[q].head = s[1]
      /\ \A i \in 1..n : k.ptable[s[i]].next = IF i = n THEN NULL ELSE s[i + 1]
  BY QueueIs
<1>3. /\ f \in 1..n+1
      /\ \A i \in 1..n : i < f => s[i] \notin Stop
      /\ f <= n => s[f] \in Stop
  BY DEF EndsAt
<1>4. NULL \notin Slots
  BY DEF NULL, Slots
<1> HIDE DEF n, s
<1>5. k.q[q].head = At(0)
  <2>1. CASE n = 0
    BY <1>2, <1>3, <2>1
  <2>2. CASE n # 0
    BY <1>2, <1>3, <2>2
  <2> QED
    BY <2>1, <2>2
<1>6. ASSUME NEW j \in Nat PROVE To(At(j)) = At(j + 1)
  <2>1. CASE j + 1 < f
    <3>1. j + 1 \in 1..n /\ At(j) = s[j + 1]
      BY <1>2, <1>3, <2>1
    <3>2. s[j + 1] \notin Stop /\ s[j + 1] \in Slots
      BY <1>2, <1>3, <2>1, <3>1
    <3>3. To(At(j)) = k.ptable[s[j + 1]].next
      BY <1>4, <3>1, <3>2 DEF Succ
    <3>4. k.ptable[s[j + 1]].next = IF j + 1 = n THEN NULL ELSE s[(j + 1) + 1]
      BY <1>2, <3>1
    <3>5. CASE j + 1 = n
      <4>1. ~(j + 1 + 1 < f) /\ ~(f <= n)
        BY <1>2, <1>3, <2>1, <3>5
      <4> QED
        BY <3>3, <3>4, <3>5, <4>1
    <3>6. CASE j + 1 # n
      <4>1. At(j + 1) = s[(j + 1) + 1]
        BY <1>2, <1>3, <2>1, <3>6
      <4> QED
        BY <3>3, <3>4, <3>6, <4>1
    <3> QED
      BY <3>5, <3>6
  <2>2. CASE ~(j + 1 < f)
    <3>1. At(j + 1) = At(j) /\ At(j) = IF f <= n THEN s[f] ELSE NULL
      BY <1>2, <1>3, <2>2
    <3>2. CASE f <= n
      BY <1>3, <3>1, <3>2
    <3>3. CASE ~(f <= n)
      BY <1>4, <3>1, <3>3 DEF Succ
    <3> QED
      BY <3>2, <3>3
  <2> QED
    BY <2>1, <2>2
<1> HIDE DEF At
<1>7. w = W(w)
  <2>1. ASSUME NEW i \in 0..N_PROCS PROVE w[i] = W(w)[i]
    <3>1. CASE i = 0
      BY <1>2, <1>5, <3>1
    <3>2. CASE i # 0
      <4> DEFINE j == i - 1
      <4>1. j \in Nat /\ j \in 0..N_PROCS /\ i = j + 1
        BY <1>2, <3>2
      <4>2. W(w)[i] = To(w[j])
        BY <3>2
      <4>3. w[j] = At(j) /\ w[i] = At(i)
        BY <4>1
      <4> HIDE DEF W, w, j, To
      <4> QED
        BY <1>6, <4>1, <4>2, <4>3
    <3> QED
      BY <3>1, <3>2
  <2> QED
    BY <2>1
<1>8. curr = W(curr)
  BY <1>7
<1>9. /\ curr[0] = k.q[q].head
      /\ \A i \in 1..N_PROCS : curr[i] = To(curr[i - 1])
  <2> HIDE DEF curr
  <2>1. curr[0] = k.q[q].head
    BY <1>2, <1>8
  <2>2. ASSUME NEW i \in 1..N_PROCS PROVE curr[i] = To(curr[i - 1])
    <3>1. i # 0 /\ i \in 0..N_PROCS
      BY <1>2
    <3> QED
      BY <1>8, <3>1
  <2> QED
    BY <2>1, <2>2
<1> HIDE DEF curr, W, w, To
<1> DEFINE T == {i \in 0..N_PROCS : curr[i] # At(i)}
<1>10. ASSUME NEW i \in T, \A j \in T : i <= j PROVE FALSE
  <2>1. i # 0 /\ i \in 0..N_PROCS
    BY <1>5, <1>9
  <2> DEFINE j == i - 1
  <2>2. j \in Nat /\ j \in 0..N_PROCS /\ i = j + 1 /\ i \in 1..N_PROCS /\ ~(i <= j)
    BY <1>2, <2>1
  <2>3. curr[j] = At(j)
    BY <1>10, <2>2
  <2>4. curr[i] = To(curr[j])
    BY <1>9, <2>2
  <2> HIDE DEF j
  <2>5. curr[i] = At(i)
    BY <1>6, <2>2, <2>3, <2>4
  <2> QED
    BY <1>10, <2>5
<1>11. T \subseteq Nat
  BY <1>2
<1>12. T = {}
  BY <1>10, <1>11, LeastNat
<1> QED
  BY <1>1, <1>12 DEF At, n, s

(* The PCBs stepped over are those before the end, and the last of them is *)
(* the only one whose successor ends the walk.                             *)
LEMMA VisitedIs ==
  ASSUME NEW k, NEW F, NEW L, Good(k, F, L), NEW q \in Queues, NEW Stop \in SUBSET Slots,
         NEW f, EndsAt(k, q, L[q], Stop, f)
  PROVE  LET V == Visited(k, q, Stop) IN
         /\ f \in Nat
         /\ V = {L[q][i] : i \in 1..f-1}
         /\ V = {} <=> f = 1
         /\ f # 1 => LastOf(k, V, Stop) = {L[q][f - 1]}
         /\ f = 1 => LastOf(k, V, Stop) = {}
<1> DEFINE n == k.q[q].length
           s == L[q]
           c == Walk(k, q, Stop)
           V == Visited(k, q, Stop)
<1>1. /\ n \in Nat /\ n <= N_PROCS /\ N_PROCS \in Nat /\ s \in [1..n -> Slots]
      /\ \A i \in 1..n : k.ptable[s[i]].next = IF i = n THEN NULL ELSE s[i + 1]
      /\ \A i, j \in 1..n : s[i] = s[j] => i = j
  BY QueueIs
<1>2. /\ f \in 1..n+1
      /\ \A i \in 1..n : i < f => s[i] \notin Stop
      /\ f <= n => s[f] \in Stop
  BY DEF EndsAt
<1>3. \A i \in 0..N_PROCS :
        c[i] = IF i + 1 < f THEN s[i + 1] ELSE IF f <= n THEN s[f] ELSE NULL
  BY WalkIs
<1>4. V = (Slots \ Stop) \cap {c[i] : i \in 0..N_PROCS}
  BY DEF Visited
<1>5. NULL \notin Slots
  BY DEF NULL, Slots
<1> HIDE DEF n, s, c, V
<1>6. ASSUME NEW x \in V PROVE \E i \in 1..f-1 : x = s[i]
  <2>1. PICK i \in 0..N_PROCS : x = c[i]
    BY <1>4
  <2>2. x \in Slots /\ x \notin Stop
    BY <1>4
  <2>3. i + 1 < f
    BY <1>2, <1>3, <1>5, <2>1, <2>2
  <2>4. x = s[i + 1] /\ i + 1 \in 1..f-1
    BY <1>1, <1>2, <1>3, <2>1, <2>3
  <2> QED
    BY <2>4
<1>7. ASSUME NEW i \in 1..f-1 PROVE s[i] \in V
  <2> DEFINE j == i - 1
  <2>1. i \in 1..n /\ i < f /\ j \in 0..N_PROCS /\ j + 1 = i
    BY <1>1, <1>2
  <2> HIDE DEF j
  <2>2. c[j] = s[i] /\ s[i] \in Slots /\ s[i] \notin Stop
    BY <1>1, <1>2, <1>3, <2>1
  <2> QED
    BY <1>4, <2>1, <2>2
<1>8. V = {s[i] : i \in 1..f-1}
  BY <1>6, <1>7
<1>9. V = {} <=> f = 1
  <2>1. CASE f = 1
    BY <1>6, <2>1
  <2>2. CASE f # 1
    <3>1. 1 \in 1..f-1
      BY <1>1, <1>2, <2>2
    <3> QED
      BY <1>7, <2>2, <3>1
  <2> QED
    BY <2>1, <2>2
<1>10. ASSUME NEW i \in 1..f-1
       PROVE  k.ptable[s[i]].next \in Stop \cup {NULL} <=> i = f - 1
  <2>1. i \in 1..n
    BY <1>1, <1>2
  <2>2. k.ptable[s[i]].next = IF i = n THEN NULL ELSE s[i + 1]
    BY <1>1, <2>1
  <2>3. CASE i = f - 1
    <3>1. i = n \/ (i # n /\ i + 1 = f /\ f <= n)
      BY <1>1, <1>2, <2>1, <2>3
    <3> QED
      BY <1>2, <2>2, <2>3, <3>1
  <2>4. CASE i # f - 1
    <3>1. i # n /\ i + 1 \in 1..n /\ i + 1 < f
      BY <1>1, <1>2, <2>1, <2>4
    <3>2. s[i + 1] \notin Stop /\ s[i + 1] # NULL
      BY <1>1, <1>2, <1>5, <3>1
    <3> QED
      BY <2>2, <2>4, <3>1, <3>2
  <2> QED
    BY <2>3, <2>4
<1>11. f # 1 => LastOf(k, V, Stop) = {s[f - 1]}
  <2> SUFFICES ASSUME f # 1 PROVE LastOf(k, V, Stop) = {s[f - 1]}
    OBVIOUS
  <2>1. f - 1 \in 1..f-1
    BY <1>1, <1>2
  <2>2. s[f - 1] \in LastOf(k, V, Stop)
    BY <1>7, <1>10, <2>1 DEF LastOf
  <2>3. ASSUME NEW x \in LastOf(k, V, Stop) PROVE x = s[f - 1]
    <3>1. x \in V /\ k.ptable[x].next \in Stop \cup {NULL}
      BY DEF LastOf
    <3>2. PICK i \in 1..f-1 : x = s[i]
      BY <1>6, <3>1
    <3> QED
      BY <1>10, <3>1, <3>2
  <2> QED
    BY <2>2, <2>3
<1>12. f = 1 => LastOf(k, V, Stop) = {}
  BY <1>9 DEF LastOf
<1>13. f \in Nat
  BY <1>1, <1>2
<1> QED
  BY <1>8, <1>9, <1>11, <1>12, <1>13 DEF s, V
-----------------------------------------------------------------------------
(* The queue operations.                                                   *)

LEMMA LengthIs ==
  ASSUME NEW k, NEW q, NEW n \in Nat, k.q[q].length = n, n < LenMod
  PROVE  /\ n + 1 < LenMod => Longer(k, q) = n + 1
         /\ n # 0 => Shorter(k, q) = n - 1
<1>1. LenMod \in Nat \ {0}
  BY ProcsAssumption
<1>2. n + 1 < LenMod => (n + 1) % LenMod = n + 1
  BY <1>1
<1>3. ASSUME n # 0 PROVE (n + LenMod - 1) % LenMod = n - 1
  <2> DEFINE x == n + LenMod - 1
  <2>1. x \in Nat /\ LenMod <= x /\ x < 2 * LenMod /\ x - LenMod = n - 1
    BY <1>1, <1>3
  <2> HIDE DEF x
  <2>2. x % LenMod = x - LenMod
    BY <1>1, <2>1, ModOnce
  <2> QED
    BY <2>1, <2>2 DEF x
<1> QED
  BY <1>2, <1>3 DEF Longer, Shorter

LEMMA LinkAfterIs ==
  ASSUME NEW k, NEW F, NEW L, Good(k, F, L), NEW q \in Queues, NEW p \in F,
         NEW m \in 0..k.q[q].length, k.q[q].length # 0,
         NEW prev, prev = IF m = 0 THEN NULL ELSE L[q][m]
  PROVE  LET k1 == LinkAfter(k, q, prev, p) IN
         Same(k, k1) /\ Inserted(k, k1, q, L[q], m, p)
<1> DEFINE n == k.q[q].length
           s == L[q]
           r == [k.q[q] EXCEPT !.length = Longer(k, q)]
           k1 == LinkAfter(k, q, prev, p)
<1>1. /\ n \in Nat /\ n < LenMod /\ N_PROCS \in Nat /\ s \in [1..n -> Slots] /\ k \in KernelState
      /\ n # 0 => k.q[q].head = s[1] /\ k.q[q].tail = s[n]
      /\ \A i \in 1..n : k.ptable[s[i]].next = IF i = n THEN NULL ELSE s[i + 1]
      /\ \A i, j \in 1..n : s[i] = s[j] => i = j
      /\ \A i \in 1..n : s[i] # p
  BY QueueIs
<1>2. p \in Slots /\ p \in Ptr /\ p # NULL /\ k.ptable[p].next = NULL
  <2>1. p \in Slots /\ k.ptable[p].next = NULL
    BY DEF Good, Placed
  <2> QED
    BY <2>1, ProcsAssumption DEF Slots, Ptr, NULL
<1>3. n + 1 < LenMod /\ n + 1 \in 0..LenMod-1
  <2> HIDE DEF n, s, r, k1
  <2>1. /\ n \in Nat /\ s \in [1..n -> Slots] /\ p \in Slots
        /\ \A i, j \in 1..n : s[i] = s[j] => i = j
        /\ \A i \in 1..n : s[i] # p
    BY <1>1, <1>2
  <2>2. n < N_PROCS
    BY <2>1, ListRoom
  <2> QED
    BY <1>1, <2>2, ProcsAssumption
<1>4. Longer(k, q) = n + 1
  <2> HIDE DEF n
  <2>1. k.q[q].length = n
    BY DEF n
  <2> QED
    BY <1>1, <1>3, <2>1, LengthIs
<1> DEFINE l == n + 1
<1>5. k.q[q] \in Queue /\ l \in 0..LenMod-1 /\ r = [k.q[q] EXCEPT !.length = l]
  BY <1>1, <1>3, <1>4, QueueType
<1>6. n # 0 /\ m \in 0..n
  OBVIOUS
<1> HIDE DEF n, s, l, r
<1>7. /\ r \in Queue /\ r.head = k.q[q].head /\ r.tail = k.q[q].tail /\ r.length = l
      /\ LET b == [r EXCEPT !.head = p] IN
         b \in Queue /\ b.head = p /\ b.tail = k.q[q].tail /\ b.length = l
      /\ LET c == [r EXCEPT !.tail = p] IN
         c \in Queue /\ c.head = k.q[q].head /\ c.tail = p /\ c.length = l
  <2> DEFINE e == k.q[q]
  <2>1. e \in Queue /\ r = [e EXCEPT !.length = l] /\ l \in 0..LenMod-1
    BY <1>5
  <2> HIDE DEF e
  <2>2. r \in Queue /\ r.head = e.head /\ r.tail = e.tail /\ r.length = l
    BY <2>1 DEF Queue
  <2>3. LET b == [r EXCEPT !.head = p] IN
        b \in Queue /\ b.head = p /\ b.tail = r.tail /\ b.length = r.length
    BY <1>2, <2>2 DEF Queue
  <2>4. LET c == [r EXCEPT !.tail = p] IN
        c \in Queue /\ c.head = r.head /\ c.tail = p /\ c.length = r.length
    BY <1>2, <2>2 DEF Queue
  <2> QED
    BY <2>2, <2>3, <2>4 DEF e
<1>8. k1 = IF prev = NULL
           THEN SetQueue(SetNext(k, p, r.head), q, [r EXCEPT !.head = p])
           ELSE IF k.ptable[prev].next = NULL
           THEN SetQueue(SetNext(k, prev, p), q, [r EXCEPT !.tail = p])
           ELSE SetQueue(SetNext(SetNext(k, p, k.ptable[prev].next), prev, p), q, r)
  BY DEF LinkAfter, r
<1> HIDE DEF k1
<1>9. Slots \subseteq Ptr /\ NULL \notin Slots
  BY ProcsAssumption DEF Slots, Ptr, NULL
<1>10. CASE m = 0
  <2> DEFINE h == r.head
             b == [r EXCEPT !.head = p]
             ka == SetNext(k, p, h)
  <2>1. h \in Ptr /\ h = s[1] /\ 1 \in 1..n
    BY <1>1, <1>6, <1>7, <1>9
  <2>2. prev = NULL /\ k1 = SetQueue(ka, q, b)
    BY <1>8, <1>10
  <2>3. b \in Queue /\ b.head = p /\ b.tail = k.q[q].tail /\ b.length = l
    BY <1>7
  <2> HIDE DEF h, b
  <2>4. /\ Same(k, ka) /\ ka.q = k.q
        /\ \A x \in Slots : ka.ptable[x].next = IF x = p THEN h ELSE k.ptable[x].next
    BY <1>1, <1>2, <2>1, SetNextIs
  <2> HIDE DEF ka
  <2>5. ka \in KernelState
    BY <2>4 DEF Same
  <2>6. /\ Same(ka, k1) /\ k1.q[q] = b /\ (\A w \in Queues \ {q} : k1.q[w] = ka.q[w])
        /\ k1.ptable = ka.ptable
    BY <2>2, <2>3, <2>5, SetQueueIs
  <2>7. Same(k, k1)
    BY <2>4, <2>6, SameTrans
  <2>8. Inserted(k, k1, q, s, m, p)
    BY <1>6, <1>10, <2>1, <2>3, <2>4, <2>6 DEF Inserted, n, l
  <2> QED
    BY <2>7, <2>8 DEF s, k1
<1>11. CASE m = n
  <2> DEFINE c == [r EXCEPT !.tail = p]
             ka == SetNext(k, prev, p)
  <2>1. m # 0 /\ n \in 1..n
    BY <1>1, <1>6, <1>11
  <2>2. prev = s[n] /\ prev \in Slots /\ prev # NULL /\ prev # p /\ k.ptable[prev].next = NULL
    BY <1>1, <1>9, <1>11, <2>1 DEF s
  <2>3. k1 = SetQueue(ka, q, c)
    BY <1>8, <2>2
  <2>4. c \in Queue /\ c.head = k.q[q].head /\ c.tail = p /\ c.length = l
    BY <1>7
  <2> HIDE DEF c
  <2>5. /\ Same(k, ka) /\ ka.q = k.q
        /\ \A x \in Slots : ka.ptable[x].next = IF x = prev THEN p ELSE k.ptable[x].next
    BY <1>1, <1>2, <2>2, SetNextIs
  <2> HIDE DEF ka
  <2>6. ka \in KernelState
    BY <2>5 DEF Same
  <2>7. /\ Same(ka, k1) /\ k1.q[q] = c /\ (\A w \in Queues \ {q} : k1.q[w] = ka.q[w])
        /\ k1.ptable = ka.ptable
    BY <2>3, <2>4, <2>6, SetQueueIs
  <2>8. Same(k, k1)
    BY <2>5, <2>7, SameTrans
  <2>9. Inserted(k, k1, q, s, m, p)
    BY <1>2, <1>6, <1>11, <2>1, <2>2, <2>4, <2>5, <2>7 DEF Inserted, n, l
  <2> QED
    BY <2>8, <2>9 DEF s, k1
<1>12. CASE m # 0 /\ m # n
  <2> DEFINE h == k.ptable[prev].next
             ka == SetNext(k, p, h)
             kb == SetNext(ka, prev, p)
  <2>1. m \in 1..n /\ m + 1 \in 1..n
    BY <1>1, <1>6, <1>12
  <2>2. /\ prev = s[m] /\ prev \in Slots /\ prev # NULL /\ prev # p
        /\ h = s[m + 1] /\ h \in Slots /\ h # NULL /\ h \in Ptr
    BY <1>1, <1>9, <1>12, <2>1 DEF s
  <2>3. k1 = SetQueue(kb, q, r)
    BY <1>8, <2>2
  <2> HIDE DEF h
  <2>4. /\ Same(k, ka) /\ ka.q = k.q
        /\ \A x \in Slots : ka.ptable[x].next = IF x = p THEN h ELSE k.ptable[x].next
    BY <1>1, <1>2, <2>2, SetNextIs
  <2> HIDE DEF ka
  <2>5. ka \in KernelState
    BY <2>4 DEF Same
  <2>6. /\ Same(ka, kb) /\ kb.q = ka.q
        /\ \A x \in Slots : kb.ptable[x].next = IF x = prev THEN p ELSE ka.ptable[x].next
    BY <1>2, <2>2, <2>5, SetNextIs
  <2> HIDE DEF kb
  <2>7. kb \in KernelState
    BY <2>6 DEF Same
  <2>8. /\ Same(kb, k1) /\ k1.q[q] = r /\ (\A w \in Queues \ {q} : k1.q[w] = kb.q[w])
        /\ k1.ptable = kb.ptable
    BY <1>7, <2>3, <2>7, SetQueueIs
  <2>9. Same(k, k1)
    BY <2>4, <2>6, <2>8, SameTrans
  <2>10. Inserted(k, k1, q, s, m, p)
    BY <1>6, <1>7, <1>12, <2>2, <2>4, <2>6, <2>8 DEF Inserted, n, l
  <2> QED
    BY <2>9, <2>10 DEF s, k1
<1> QED
  BY <1>10, <1>11, <1>12
(* pcb_queue_insert puts a PCB in hand on the queue its state calls for.   *)
LEMMA InsertIs ==
  ASSUME NEW k, NEW F, NEW L, Good(k, F, L), NEW q \in Queues, NEW p \in F,
         q \in Home(p, k.ptable[p].state)
  PROVE  LET k1 == pcb_queue_insert(k, q, p) IN
         Same(k, k1) /\ \E M : Good(k1, F \ {p}, M)
<1> DEFINE n == k.q[q].length
           s == L[q]
           k1 == pcb_queue_insert(k, q, p)
           Stop == Beyond(k, q, p)
           V == Visited(k, q, Stop)
           last == LastOf(k, V, Stop)
<1>1. /\ n \in Nat /\ s \in [1..n -> Slots] /\ k \in KernelState
      /\ n = 0 => k.q[q].head = NULL /\ k.q[q].tail = NULL
      /\ n # 0 => k.q[q].head = s[1] /\ k.q[q].tail = s[n]
  BY QueueIs
<1>2. p \in Slots /\ p \in Ptr /\ p # NULL /\ k.ptable[p].next = NULL /\ Ok(k)
  <2>1. p \in Slots /\ k.ptable[p].next = NULL /\ Ok(k)
    BY DEF Good, Placed
  <2> QED
    BY <2>1, ProcsAssumption DEF Slots, Ptr, NULL
<1>3. Slots \subseteq Ptr /\ NULL \notin Slots
  BY ProcsAssumption DEF Slots, Ptr, NULL
<1>4. k1 = InsertUnlinked(k, q, p)
  BY <1>2 DEF pcb_queue_insert
<1>5. ASSUME NEW m \in 0..n, Same(k, k1), Inserted(k, k1, q, s, m, p), Fits(k, q, s, m, p)
      PROVE  Same(k, k1) /\ \E M : Good(k1, F \ {p}, M)
  <2> HIDE DEF k1
  <2> QED
    BY <1>5, GoodInsert
<1>6. CASE n = 0
  <2> DEFINE queue == [head |-> p, tail |-> p, length |-> 1]
  <2>1. queue \in Queue /\ queue.head = p /\ queue.tail = p /\ queue.length = 1
    BY <1>1, <1>2, LengthType DEF Queue
  <2>2. k1 = SetQueue(k, q, queue)
    BY <1>1, <1>4, <1>6 DEF InsertUnlinked
  <2> HIDE DEF queue
  <2> HIDE DEF k1
  <2>3. /\ Same(k, k1) /\ k1.q[q] = queue /\ (\A w \in Queues \ {q} : k1.q[w] = k.q[w])
        /\ k1.ptable = k.ptable
    BY <1>1, <2>1, <2>2, SetQueueIs
  <2>4. Inserted(k, k1, q, s, 0, p)
    BY <1>2, <1>6, <2>1, <2>3 DEF Inserted
  <2>5. Fits(k, q, s, 0, p) /\ 0 \in 0..n
    BY <1>6 DEF Fits
  <2> QED
    BY <1>5, <2>3, <2>4, <2>5 DEF k1
<1>7. CASE n # 0
  <2>1. k.q[q].head \in Slots /\ k.q[q].tail \in Slots /\ n \in 1..n /\ 1 \in 1..n
    BY <1>1, <1>7
  <2>2. k.q[q].head # NULL /\ k.q[q].tail # NULL
    BY <1>3, <2>1
  <2>3. k1 = IF IsFifo(q) THEN LinkAfter(k, q, k.q[q].tail, p)
             ELSE IF V = {} THEN LinkAfter(k, q, NULL, p)
             ELSE IF last = {} THEN Hang(k)
             ELSE LinkAfter(k, q, CHOOSE x \in last : TRUE, p)
    BY <1>4, <2>2 DEF InsertUnlinked
  <2>4. ASSUME NEW m \in 0..n, NEW prev, prev = (IF m = 0 THEN NULL ELSE s[m]),
               k1 = LinkAfter(k, q, prev, p), Fits(k, q, s, m, p)
        PROVE  Same(k, k1) /\ \E M : Good(k1, F \ {p}, M)
    <3>1. Same(k, LinkAfter(k, q, prev, p)) /\ Inserted(k, LinkAfter(k, q, prev, p), q, s, m, p)
      BY <1>7, <2>4, LinkAfterIs
    <3> QED
      BY <1>5, <2>4, <3>1
  <2> HIDE DEF k1
  <2>5. CASE IsFifo(q)
    <3>1. k1 = LinkAfter(k, q, k.q[q].tail, p) /\ k.q[q].tail = s[n]
      BY <1>1, <1>7, <2>3, <2>5
    <3>2. Fits(k, q, s, n, p) /\ n \in 0..n
      BY <1>1, <2>5 DEF Fits
    <3> QED
      BY <1>7, <2>4, <3>1, <3>2 DEF k1
  <2>6. CASE ~IsFifo(q)
    <3>1. PICK f : EndsAt(k, q, s, Stop, f)
      BY WalkEnds
    <3>2. Stop \in SUBSET Slots
      BY DEF Beyond
    <3>3. /\ V = {} <=> f = 1
          /\ f # 1 => last = {s[f - 1]}
      <4>1. EndsAt(k, q, L[q], Stop, f)
        BY <3>1
      <4> HIDE DEF Stop, V, last, n, s
      <4>2. /\ Visited(k, q, Stop) = {} <=> f = 1
            /\ f # 1 => LastOf(k, Visited(k, q, Stop), Stop) = {L[q][f - 1]}
        BY <3>2, <4>1, VisitedIs
      <4> QED
        BY <4>2 DEF s, V, last
    <3>4. /\ f \in 1..n+1
          /\ \A i \in 1..n : i < f => s[i] \notin Stop
          /\ f <= n => s[f] \in Stop
      BY <3>1 DEF EndsAt
    <3> DEFINE m == f - 1
    <3>5. m \in 0..n /\ f = m + 1 /\ m \in Nat
      BY <1>1, <3>4
    <3>6. Fits(k, q, s, m, p)
      <4> HIDE DEF m, V, last, n, s
      <4>1. ASSUME NEW i \in 1..m PROVE Key(k, q, s[i]) <= Key(k, q, p)
        <5>1. i \in 1..n /\ i < f
          BY <1>1, <3>5
        <5>2. s[i] \in Slots /\ s[i] \notin Stop
          BY <1>1, <3>4, <5>1
        <5>3. ~(Key(k, q, s[i]) > Key(k, q, p))
          BY <5>2 DEF Beyond
        <5>4. Key(k, q, s[i]) \in Int /\ Key(k, q, p) \in Int
          BY <1>1, <1>2, <5>2, KeyType
        <5> QED
          BY <5>3, <5>4
      <4>2. ASSUME m < n PROVE Key(k, q, p) <= Key(k, q, s[m + 1])
        <5>1. f <= n /\ f \in 1..n
          BY <1>1, <3>5, <4>2
        <5>2. s[f] \in Slots /\ s[f] \in Stop
          BY <1>1, <3>4, <5>1
        <5>3. Key(k, q, s[f]) > Key(k, q, p)
          BY <5>2 DEF Beyond
        <5>4. Key(k, q, s[f]) \in Int /\ Key(k, q, p) \in Int
          BY <1>1, <1>2, <5>2, KeyType
        <5> QED
          BY <3>5, <5>3, <5>4
      <4> QED
        BY <4>1, <4>2 DEF Fits, n
    <3>7. CASE f = 1
      <4>1. k1 = LinkAfter(k, q, NULL, p) /\ m = 0
        BY <2>3, <2>6, <3>3, <3>7
      <4> QED
        BY <2>4, <3>5, <3>6, <4>1 DEF k1
    <3>8. CASE f # 1
      <4>1. m # 0 /\ V # {} /\ last = {s[m]}
        BY <3>3, <3>5, <3>8
      <4>2. last # {} /\ (CHOOSE x \in last : TRUE) = s[m]
        BY <4>1
      <4>3. k1 = LinkAfter(k, q, s[m], p)
        BY <2>3, <2>6, <4>1, <4>2
      <4> QED
        BY <2>4, <3>5, <3>6, <4>1, <4>3 DEF k1
    <3> QED
      BY <3>7, <3>8
  <2> QED
    BY <2>5, <2>6 DEF k1
<1> QED
  BY <1>6, <1>7
LEMMA InsertFine ==
  ASSUME NEW k, NEW F, Fine(k, F), NEW q \in Queues, NEW p \in F,
         q \in Home(p, k.ptable[p].state)
  PROVE  LET k1 == pcb_queue_insert(k, q, p) IN Same(k, k1) /\ Fine(k1, F \ {p})
<1>1. PICK L : Good(k, F, L)
  BY DEF Fine
<1> DEFINE k1 == pcb_queue_insert(k, q, p)
<1>2. Same(k, k1) /\ \E M : Good(k1, F \ {p}, M)
  BY <1>1, InsertIs
<1> QED
  BY <1>2 DEF Fine

(* The head of a queue that is not empty is a PCB that belongs there.      *)
LEMMA HeadIs ==
  ASSUME NEW k, NEW F, Fine(k, F), NEW q \in Queues, ~pcb_queue_empty(k, q)
  PROVE  LET h == k.q[q].head IN
         h \in Slots \ F /\ q \in Home(h, k.ptable[h].state)
<1>1. PICK L : Good(k, F, L)
  BY DEF Fine
<1> DEFINE n == k.q[q].length
<1>2. /\ n \in Nat /\ L[q] \in [1..n -> Slots] /\ DOMAIN L[q] = 1..n
      /\ n = 0 => k.q[q].head = NULL
      /\ n # 0 => k.q[q].head = L[q][1]
  BY <1>1, QueueIs
<1>3. n # 0 /\ 1 \in 1..n
  BY <1>2 DEF pcb_queue_empty
<1>4. Placed(k, F, L)
  BY <1>1 DEF Good
<1> QED
  BY <1>2, <1>3, <1>4 DEF Placed

(* Nothing on an ordered queue has a smaller key than its head.            *)
LEMMA HeadLeast ==
  ASSUME NEW k, NEW F, NEW L, Good(k, F, L), NEW q \in Queues, ~IsFifo(q),
         NEW i \in 1..k.q[q].length
  PROVE  Key(k, q, k.q[q].head) <= Key(k, q, L[q][i])
<1> DEFINE n == k.q[q].length
           s == L[q]
           T == {j \in 1..n : ~(Key(k, q, s[1]) <= Key(k, q, s[j]))}
<1>1. /\ n \in Nat /\ k \in KernelState /\ s \in [1..n -> Slots]
      /\ n # 0 => k.q[q].head = s[1]
  BY QueueIs
<1>2. \A j \in 1..n : Key(k, q, s[j]) \in Int
  BY <1>1, KeyType
<1>3. \A j \in 1..n-1 : Key(k, q, s[j]) <= Key(k, q, s[j + 1])
  BY DEF Good, Ordered
<1>4. n # 0 /\ 1 \in 1..n
  BY <1>1
<1> HIDE DEF n, s
<1>5. T = {}
  <2> SUFFICES ASSUME T # {} PROVE FALSE
    OBVIOUS
  <2>1. T \subseteq Nat
    BY <1>1
  <2>2. PICK j \in T : \A m \in T : j <= m
    BY <2>1, LeastNat
  <2>3. j \in 1..n /\ ~(Key(k, q, s[1]) <= Key(k, q, s[j]))
    BY <2>2
  <2>4. j # 1
    BY <1>2, <1>4, <2>3
  <2>5. j - 1 \in 1..n-1 /\ j - 1 \in 1..n /\ (j - 1) + 1 = j
    BY <1>1, <2>3, <2>4
  <2>6. Key(k, q, s[j - 1]) <= Key(k, q, s[j])
    BY <1>3, <2>5
  <2>7. j - 1 \in T
    BY <1>2, <1>4, <2>3, <2>5, <2>6
  <2> QED
    BY <1>1, <2>2, <2>3, <2>7
<1> QED
  BY <1>1, <1>4, <1>5 DEF n, s

(* pcb_queue_remove takes the first PCB in hand.                           *)
LEMMA RemoveFine ==
  ASSUME NEW k, NEW F, Fine(k, F), NEW q \in Queues, ~pcb_queue_empty(k, q)
  PROVE  LET k1 == pcb_queue_remove(k, q) IN
         Same(k, k1) /\ Fine(k1, F \cup {k.q[q].head})
<1>1. PICK L : Good(k, F, L)
  BY DEF Fine
<1> DEFINE n == k.q[q].length
           s == L[q]
           h == k.q[q].head
           e == k.ptable[h].next
           ka == SetNext(k, h, NULL)
           b == [head |-> e, tail |-> IF e = NULL THEN NULL ELSE k.q[q].tail,
                 length |-> IF e = NULL THEN 0 ELSE Shorter(k, q)]
           k1 == pcb_queue_remove(k, q)
<1>2. /\ n \in Nat /\ n < LenMod /\ s \in [1..n -> Slots] /\ k \in KernelState
      /\ n = 0 => k.q[q].head = NULL
      /\ n # 0 => k.q[q].head = s[1] /\ k.q[q].tail = s[n]
      /\ \A i \in 1..n : k.ptable[s[i]].next = IF i = n THEN NULL ELSE s[i + 1]
  BY <1>1, QueueIs
<1>3. n # 0 /\ 1 \in 1..n /\ h = s[1] /\ h \in Slots /\ k.q[q].tail = s[n]
  BY <1>2 DEF pcb_queue_empty
<1>4. e = IF n = 1 THEN NULL ELSE s[2]
  <2>1. k.ptable[s[1]].next = IF 1 = n THEN NULL ELSE s[1 + 1]
    BY <1>2, <1>3
  <2> QED
    BY <1>3, <2>1
<1>5. NULL \notin Slots /\ Slots \subseteq Ptr /\ NULL \in Ptr
  BY PtrCases DEF NULL, Slots
<1>6. e = NULL <=> n = 1
  BY <1>2, <1>3, <1>4, <1>5
<1>7. Shorter(k, q) = n - 1
  <2>1. k.q[q].length = n /\ n \in Nat /\ n < LenMod /\ n # 0
    BY <1>2, <1>3
  <2> HIDE DEF n
  <2> QED
    BY <2>1, LengthIs
<1>8. k1 = SetQueue(ka, q, b)
  BY DEF pcb_queue_remove
<1>9. b.head = e /\ b.tail = (IF n = 1 THEN NULL ELSE s[n]) /\ b.length = n - 1
  BY <1>2, <1>3, <1>6, <1>7
<1>10. b \in Queue
  <2>1. e \in Ptr /\ (IF e = NULL THEN NULL ELSE k.q[q].tail) \in Ptr
    BY <1>2, <1>3, <1>4, <1>5, QueueType, TableType
  <2>2. (IF e = NULL THEN 0 ELSE Shorter(k, q)) \in 0..LenMod-1
    BY <1>2, LengthType
  <2> QED
    BY <2>1, <2>2 DEF Queue
<1> HIDE DEF b, e, k1
<1>11. /\ Same(k, ka) /\ ka.q = k.q
       /\ \A x \in Slots : ka.ptable[x].next = IF x = h THEN NULL ELSE k.ptable[x].next
  <2> HIDE DEF h
  <2> QED
    BY <1>2, <1>3, <1>5, SetNextIs
<1> HIDE DEF ka
<1>12. ka \in KernelState
  BY <1>11 DEF Same
<1>13. /\ Same(ka, k1) /\ k1.q[q] = b /\ (\A w \in Queues \ {q} : k1.q[w] = ka.q[w])
       /\ k1.ptable = ka.ptable
  BY <1>8, <1>10, <1>12, SetQueueIs
<1>14. Same(k, k1)
  BY <1>11, <1>13, SameTrans
<1>15. Removed(k, k1, q, L[q], 1)
  <2>1. k1.q[q].head = IF n = 1 THEN NULL ELSE s[2]
    BY <1>4, <1>9, <1>13
  <2>2. k1.q[q].tail = IF 1 # n THEN s[n] ELSE NULL
    BY <1>9, <1>13
  <2>3. k1.q[q].length = n - 1 /\ \A r \in Queues \ {q} : k1.q[r] = k.q[r]
    BY <1>9, <1>11, <1>13
  <2>4. \A x \in Slots : k1.ptable[x].next = IF x = s[1] THEN NULL ELSE k.ptable[x].next
    BY <1>3, <1>11, <1>13
  <2> QED
    BY <2>1, <2>2, <2>3, <2>4 DEF Removed
<1>16. 1 \in 1..k.q[q].length
  BY <1>3
<1>17. \E M : Good(k1, F \cup {L[q][1]}, M)
  BY <1>1, <1>14, <1>15, <1>16, GoodRemove
<1> QED
  BY <1>3, <1>14, <1>17 DEF Fine, k1
(* pcb_queue_remove_this finds a PCB that can be on q only, wherever it is *)
(* on q, and takes it in hand.                                             *)
LEMMA UnlinkIs ==
  ASSUME NEW k, NEW F, NEW L, Good(k, F, L), NEW q \in Queues,
         NEW m \in 1..k.q[q].length, NEW prev, prev = IF m = 1 THEN NULL ELSE L[q][m - 1]
  PROVE  LET k1 == Unlink(k, q, prev, L[q][m]) IN
         Same(k, k1) /\ Removed(k, k1, q, L[q], m)
<1> DEFINE n == k.q[q].length
           s == L[q]
           p == s[m]
           e == k.ptable[p].next
           head == IF prev = NULL THEN e ELSE k.q[q].head
           tail == IF e = NULL THEN prev ELSE k.q[q].tail
           ka == IF prev = NULL THEN k ELSE SetNext(k, prev, e)
           kb == SetNext(ka, p, NULL)
           b == [head |-> head, tail |-> tail, length |-> Shorter(k, q)]
           k2 == SetQueue(kb, q, b)
           k1 == Unlink(k, q, prev, p)
<1>1. /\ n \in Nat /\ n < LenMod /\ s \in [1..n -> Slots] /\ k \in KernelState
      /\ n # 0 => k.q[q].head = s[1] /\ k.q[q].tail = s[n]
      /\ \A i \in 1..n : k.ptable[s[i]].next = IF i = n THEN NULL ELSE s[i + 1]
      /\ \A i, j \in 1..n : s[i] = s[j] => i = j
  BY QueueIs
<1>2. m \in 1..n /\ n # 0
  BY <1>1
<1>3. NULL \notin Slots /\ Slots \subseteq Ptr /\ NULL \in Ptr
  BY PtrCases DEF NULL, Slots
<1>4. Shorter(k, q) = n - 1
  <2>1. k.q[q].length = n /\ n \in Nat /\ n < LenMod /\ n # 0
    BY <1>1, <1>2
  <2> HIDE DEF n
  <2> QED
    BY <2>1, LengthIs
<1>5. k1 = IF (head = NULL) # (tail = NULL) THEN Panic(k2) ELSE k2
  BY DEF Unlink
<1> HIDE DEF n, s
<1>6. prev = (IF m = 1 THEN NULL ELSE s[m - 1]) /\ (m # 1 => m - 1 \in 1..n /\ s[m - 1] \in Slots)
  BY <1>1, <1>2 DEF s
<1>7. p \in Slots /\ s[1] \in Slots /\ s[n] \in Slots /\ (m # n => m + 1 \in 1..n /\ s[m + 1] \in Slots)
  BY <1>1, <1>2
<1>8. e = (IF m = n THEN NULL ELSE s[m + 1]) /\ e \in Ptr /\ (e = NULL <=> m = n)
  BY <1>1, <1>2, <1>3, <1>7
<1>9. prev \in Ptr /\ (prev = NULL <=> m = 1)
  BY <1>3, <1>6
<1>10. /\ head = IF m # 1 THEN s[1] ELSE IF n = 1 THEN NULL ELSE s[2]
       /\ tail = IF m # n THEN s[n] ELSE IF n = 1 THEN NULL ELSE s[n - 1]
  BY <1>1, <1>2, <1>6, <1>8, <1>9
<1>11. head \in Ptr /\ tail \in Ptr /\ (head = NULL <=> n = 1) /\ (tail = NULL <=> n = 1)
  <2>1. n # 1 => 2 \in 1..n /\ n - 1 \in 1..n /\ s[2] \in Slots /\ s[n - 1] \in Slots
    BY <1>1, <1>2
  <2>2. n = 1 => m = 1 /\ m = n
    BY <1>2
  <2> HIDE DEF head, tail
  <2> QED
    BY <1>3, <1>7, <1>10, <2>1, <2>2
<1>12. k1 = k2
  BY <1>5, <1>11
<1>13. b \in Queue /\ b.head = head /\ b.tail = tail /\ b.length = n - 1
  <2>1. Shorter(k, q) \in 0..LenMod-1
    BY <1>1, LengthType
  <2> HIDE DEF head, tail
  <2> QED
    BY <1>4, <1>11, <2>1 DEF Queue
<1> HIDE DEF head, tail, b, e, k1, p
<1>14. /\ Same(k, ka) /\ ka.q = k.q
       /\ \A x \in Slots : ka.ptable[x].next = IF m # 1 /\ x = prev THEN e ELSE k.ptable[x].next
  <2>1. CASE m = 1
    <3>1. ka = k
      BY <1>9, <2>1
    <3>2. Same(k, k)
      BY <1>1 DEF Same, SameRest, SamePCB
    <3> QED
      BY <2>1, <3>1, <3>2
  <2>2. CASE m # 1
    <3>1. ka = SetNext(k, prev, e) /\ prev \in Slots
      BY <1>6, <1>9, <2>2
    <3> HIDE DEF ka
    <3>2. LET k9 == SetNext(k, prev, e) IN
          /\ Same(k, k9) /\ k9.q = k.q
          /\ \A x \in Slots : k9.ptable[x].next = IF x = prev THEN e ELSE k.ptable[x].next
      BY <1>1, <1>8, <3>1, SetNextIs
    <3> QED
      BY <2>2, <3>1, <3>2
  <2> QED
    BY <2>1, <2>2
<1> HIDE DEF ka
<1>15. ka \in KernelState
  BY <1>14 DEF Same
<1>16. /\ Same(ka, kb) /\ kb.q = ka.q
       /\ \A x \in Slots : kb.ptable[x].next = IF x = p THEN NULL ELSE ka.ptable[x].next
  BY <1>3, <1>7, <1>15, SetNextIs
<1> HIDE DEF kb
<1>17. kb \in KernelState
  BY <1>16 DEF Same
<1>18. /\ Same(kb, k2) /\ k2.q[q] = b /\ (\A w \in Queues \ {q} : k2.q[w] = kb.q[w])
       /\ k2.ptable = kb.ptable
  BY <1>13, <1>17, SetQueueIs
<1> HIDE DEF k2
<1>19. Same(k, k1)
  BY <1>12, <1>14, <1>16, <1>18, SameTrans
<1>20. Removed(k, k1, q, s, m)
  <2>1. /\ k1.q[q].head = IF m # 1 THEN s[1] ELSE IF n = 1 THEN NULL ELSE s[2]
        /\ k1.q[q].tail = IF m # n THEN s[n] ELSE IF n = 1 THEN NULL ELSE s[n - 1]
        /\ k1.q[q].length = n - 1
    BY <1>10, <1>12, <1>13, <1>18
  <2>2. \A r \in Queues \ {q} : k1.q[r] = k.q[r]
    BY <1>12, <1>14, <1>16, <1>18
  <2>3. \A x \in Slots : k1.ptable[x].next =
          IF x = s[m] THEN NULL
          ELSE IF m # 1 /\ x = s[m - 1] THEN (IF m = n THEN NULL ELSE s[m + 1])
          ELSE k.ptable[x].next
    BY <1>6, <1>8, <1>12, <1>14, <1>16, <1>18 DEF p
  <2> QED
    BY <2>1, <2>2, <2>3 DEF Removed, n
<1> QED
  BY <1>19, <1>20 DEF k1, s, p

LEMMA RemoveThisFine ==
  ASSUME NEW k, NEW F, Fine(k, F), NEW q \in Queues, NEW p \in Slots \ F,
         Home(p, k.ptable[p].state) = {q}
  PROVE  LET k1 == pcb_queue_remove_this(k, q, p) IN
         /\ RemoveStatus(k, q, p) = SUCCESS
         /\ Same(k, k1) /\ Fine(k1, F \cup {p})
<1>1. PICK L : Good(k, F, L)
  BY DEF Fine
<1> DEFINE n == k.q[q].length
           s == L[q]
           V == Visited(k, q, {p})
           last == LastOf(k, V, {p})
           k1 == pcb_queue_remove_this(k, q, p)
<1>2. /\ n \in Nat /\ s \in [1..n -> Slots] /\ DOMAIN s = 1..n
      /\ n # 0 => k.q[q].head = s[1] /\ k.q[q].tail = s[n]
      /\ \A i \in 1..n : k.ptable[s[i]].next = IF i = n THEN NULL ELSE s[i + 1]
      /\ \A i, j \in 1..n : s[i] = s[j] => i = j
  BY <1>1, QueueIs
<1>3. Placed(k, F, L)
  BY <1>1 DEF Good
<1>4. PICK m \in 1..n : s[m] = p
  <2>1. PICK r \in Queues : \E i \in DOMAIN L[r] : L[r][i] = p
    BY <1>3 DEF Placed
  <2>2. PICK i \in DOMAIN L[r] : L[r][i] = p
    BY <2>1
  <2>3. r = q
    BY <1>3, <2>2 DEF Placed
  <2> QED
    BY <1>2, <2>2, <2>3
<1>5. NULL \notin Slots
  BY DEF NULL, Slots
<1>6. n # 0 /\ 1 \in 1..n /\ k.q[q].head = s[1] /\ ~pcb_queue_empty(k, q)
  BY <1>2, <1>4, <1>5 DEF pcb_queue_empty
<1>7. EndsAt(k, q, s, {p}, m)
  BY <1>2, <1>4 DEF EndsAt
<1>8. /\ V = {} <=> m = 1
      /\ m # 1 => last = {s[m - 1]}
  <2>1. EndsAt(k, q, L[q], {p}, m) /\ {p} \in SUBSET Slots
    BY <1>7
  <2> HIDE DEF V, last, s, n
  <2> DEFINE Stop == {p}
  <2>2. /\ Visited(k, q, Stop) = {} <=> m = 1
        /\ m # 1 => LastOf(k, Visited(k, q, Stop), Stop) = {L[q][m - 1]}
    <3>1. EndsAt(k, q, L[q], Stop, m) /\ Stop \in SUBSET Slots
      BY <2>1
    <3> HIDE DEF Stop
    <3> QED
      BY <1>1, <3>1, VisitedIs
  <2> QED
    BY <2>2 DEF V, last, s
<1> DEFINE prev == IF V = {} THEN NULL ELSE CHOOSE x \in last : TRUE
<1>9. prev = IF m = 1 THEN NULL ELSE s[m - 1]
  <2> HIDE DEF V, last
  <2> QED
    BY <1>8
<1>10. RemoveStatus(k, q, p) = SUCCESS
  <2>1. CASE m = 1
    BY <1>4, <1>6, <2>1 DEF RemoveStatus
  <2>2. CASE m # 1
    <3>1. m - 1 \in 1..n /\ m - 1 # n /\ (m - 1) + 1 = m
      BY <1>2, <1>4, <2>2
    <3>2. k.ptable[s[m - 1]].next = p
      BY <1>2, <1>4, <3>1
    <3>3. s[m - 1] \in last
      BY <1>8, <2>2
    <3>4. \E x \in last : k.ptable[x].next = p
      BY <3>2, <3>3
    <3> QED
      BY <1>6, <3>4 DEF RemoveStatus
  <2> QED
    BY <2>1, <2>2
<1>11. k1 = Unlink(k, q, prev, p)
  <2>1. ~(V # {} /\ last = {})
    BY <1>8
  <2> QED
    BY <1>10, <2>1 DEF pcb_queue_remove_this
<1> HIDE DEF prev, k1
<1>12. Same(k, k1) /\ Removed(k, k1, q, L[q], m)
  <2>1. prev = (IF m = 1 THEN NULL ELSE L[q][m - 1]) /\ m \in 1..k.q[q].length /\ p = L[q][m]
    BY <1>4, <1>9
  <2> QED
    BY <1>1, <1>11, <2>1, UnlinkIs
<1>13. \E M : Good(k1, F \cup {L[q][m]}, M)
  BY <1>1, <1>12, GoodRemove
<1> QED
  BY <1>4, <1>10, <1>12, <1>13 DEF Fine, k1
(* Assignments to PCBs that leave the queues sound: any to a PCB in hand,  *)
(* and to one on a list those that leave it where its state says.          *)
Undisturbed(k, k1, F) ==
  /\ k1 \in KernelState /\ Ok(k1) /\ k1.q = k.q
  /\ \A x \in F : k1.ptable[x].next = NULL
  /\ \A x \in Slots \ F :
       /\ k1.ptable[x].next = k.ptable[x].next
       /\ k1.ptable[x].pid = k.ptable[x].pid
       /\ k1.ptable[x].priority = k.ptable[x].priority
       /\ k1.ptable[x].wakeup = k.ptable[x].wakeup
       /\ Home(x, k.ptable[x].state) \subseteq Home(x, k1.ptable[x].state)

LEMMA FieldsFine ==
  ASSUME NEW k, NEW F, Fine(k, F), NEW k1, Undisturbed(k, k1, F)
  PROVE  Fine(k1, F)
<1>1. PICK L : Good(k, F, L)
  BY DEF Fine
<1>2. /\ Apart(L) /\ Placed(k, F, L) /\ F \subseteq Slots
      /\ \A q \in Queues : Chain(k, q, L[q]) /\ Ordered(k, q, L[q])
  BY <1>1 DEF Good
<1>3. ASSUME NEW q \in Queues, NEW i \in DOMAIN L[q]
      PROVE  /\ L[q][i] \in Slots \ F
             /\ k1.ptable[L[q][i]].next = k.ptable[L[q][i]].next
             /\ Key(k1, q, L[q][i]) = Key(k, q, L[q][i])
             /\ q \in Home(L[q][i], k1.ptable[L[q][i]].state)
  <2> DEFINE x == L[q][i]
  <2>1. x \in Slots \ F /\ q \in Home(x, k.ptable[x].state)
    BY <1>1, <1>2, QueueIs DEF Placed
  <2> HIDE DEF x
  <2>2. /\ k1.ptable[x].next = k.ptable[x].next
        /\ k1.ptable[x].pid = k.ptable[x].pid
        /\ k1.ptable[x].priority = k.ptable[x].priority
        /\ k1.ptable[x].wakeup = k.ptable[x].wakeup
        /\ q \in Home(x, k1.ptable[x].state)
    BY <2>1 DEF Undisturbed
  <2>3. Key(k1, q, x) = Key(k, q, x)
    BY <2>2 DEF Key
  <2> QED
    BY <2>1, <2>2, <2>3 DEF x
<1>4. ASSUME NEW q \in Queues PROVE Chain(k1, q, L[q]) /\ Ordered(k1, q, L[q])
  <2>1. k1.q[q] = k.q[q] /\ Chain(k, q, L[q]) /\ Ordered(k, q, L[q])
    BY <1>2 DEF Undisturbed
  <2>2. Chain(k1, q, L[q])
    BY <1>3, <2>1, ChainKept
  <2>3. ASSUME ~IsFifo(q), NEW i \in 1..k.q[q].length-1
        PROVE  Key(k1, q, L[q][i]) <= Key(k1, q, L[q][i + 1])
    <3>1. k.q[q].length \in Nat /\ DOMAIN L[q] = 1..k.q[q].length
      BY <1>1, QueueIs
    <3>2. i \in DOMAIN L[q] /\ i + 1 \in DOMAIN L[q]
      BY <3>1
    <3>3. Key(k, q, L[q][i]) <= Key(k, q, L[q][i + 1])
      BY <2>1, <2>3 DEF Ordered
    <3> QED
      BY <1>3, <3>2, <3>3
  <2> QED
    BY <2>1, <2>2, <2>3 DEF Ordered
<1>5. Placed(k1, F, L)
  BY <1>2, <1>3 DEF Placed, Undisturbed
<1>6. Good(k1, F, L)
  BY <1>2, <1>4, <1>5 DEF Good, Undisturbed
<1> QED
  BY <1>6 DEF Fine

LEMMA FineIs ==
  ASSUME NEW k, NEW F, Fine(k, F)
  PROVE  /\ k \in KernelState /\ Ok(k) /\ F \subseteq Slots
         /\ \A p \in F : k.ptable[p].next = NULL
         /\ \A p \in Slots \ F : \E q \in Queues : q \in Home(p, k.ptable[p].state)
<1>1. PICK L : Good(k, F, L)
  BY DEF Fine
<1>2. Placed(k, F, L)
  BY <1>1 DEF Good
<1>3. ASSUME NEW p \in Slots \ F PROVE \E q \in Queues : q \in Home(p, k.ptable[p].state)
  <2>1. PICK q \in Queues : \E i \in DOMAIN L[q] : L[q][i] = p
    BY <1>2 DEF Placed
  <2>2. PICK i \in DOMAIN L[q] : L[q][i] = p
    BY <2>1
  <2> QED
    BY <1>2, <2>2 DEF Placed
<1> QED
  BY <1>1, <1>2, <1>3 DEF Good, Placed

(* A PCB that can be on q only is on q: q is not empty.                    *)
LEMMA NotEmpty ==
  ASSUME NEW k, NEW F, Fine(k, F), NEW q \in Queues, NEW p \in Slots \ F,
         Home(p, k.ptable[p].state) = {q}
  PROVE  ~pcb_queue_empty(k, q)
<1>1. PICK L : Good(k, F, L)
  BY DEF Fine
<1>2. Placed(k, F, L)
  BY <1>1 DEF Good
<1>3. PICK r \in Queues : \E i \in DOMAIN L[r] : L[r][i] = p
  BY <1>2 DEF Placed
<1>4. PICK i \in DOMAIN L[r] : L[r][i] = p
  BY <1>3
<1>5. r = q
  BY <1>2, <1>4 DEF Placed
<1> DEFINE n == k.q[q].length
<1>6. /\ n \in Nat /\ L[q] \in [1..n -> Slots] /\ DOMAIN L[q] = 1..n
      /\ n # 0 => k.q[q].head = L[q][1]
  BY <1>1, QueueIs
<1>7. n # 0 /\ 1 \in 1..n
  BY <1>4, <1>5, <1>6
<1> QED
  BY <1>6, <1>7 DEF pcb_queue_empty, NULL, Slots-----------------------------------------------------------------------------
(* Assignments to one PCB.                                                 *)

(* k1 differs from k in the PCB p only.                                    *)
Assigned(k, k1, p) ==
  /\ k1 \in KernelState /\ SameRest(k, k1) /\ k1.q = k.q
  /\ \A x \in Slots \ {p} : k1.ptable[x] = k.ptable[x]

(* b is the PCB a, but for its link, its state and its frame.              *)
SameName(a, b) ==
  b.pid = a.pid /\ b.parent = a.parent /\ b.priority = a.priority /\ b.wakeup = a.wakeup

LEMMA SetPCBAssigned ==
  ASSUME NEW k \in KernelState, NEW p \in Slots, NEW pcb \in PCB
  PROVE  LET k1 == SetPCB(k, p, pcb) IN Assigned(k, k1, p) /\ k1.ptable[p] = pcb
<1> DEFINE k1 == SetPCB(k, p, pcb)
<1>1. /\ k1 \in KernelState /\ SameRest(k, k1) /\ k1.q = k.q
      /\ \A x \in Slots : k1.ptable[x] = IF x = p THEN pcb ELSE k.ptable[x]
  BY SetPCBIs
<1> HIDE DEF k1
<1>2. Assigned(k, k1, p) /\ k1.ptable[p] = pcb
  BY <1>1 DEF Assigned
<1> QED
  BY <1>2 DEF k1

LEMMA AssignedTwice ==
  ASSUME NEW a, NEW b, NEW c, NEW p, Assigned(a, b, p), Assigned(b, c, p)
  PROVE  Assigned(a, c, p)
BY DEF Assigned, SameRest

LEMMA SetStateIs ==
  ASSUME NEW k \in KernelState, NEW p \in Slots, NEW state \in States
  PROVE  LET k1 == SetState(k, p, state)
             a == k.ptable[p]
             b == k1.ptable[p]
         IN /\ Assigned(k, k1, p) /\ SameName(a, b)
            /\ b.next = a.next /\ b.state = state /\ b.arg = a.arg /\ b.ret = a.ret
<1> DEFINE a == k.ptable[p]
           b == [a EXCEPT !.state = state]
           k1 == SetState(k, p, state)
<1>1. a \in PCB
  BY TableType
<1> HIDE DEF a
<1>2. /\ b \in PCB /\ SameName(a, b)
      /\ b.next = a.next /\ b.state = state /\ b.arg = a.arg /\ b.ret = a.ret
  BY <1>1 DEF PCB, SameName
<1> HIDE DEF b
<1>3. k1 = SetPCB(k, p, b)
  BY DEF SetState, a, b
<1> HIDE DEF k1
<1>4. Assigned(k, k1, p) /\ k1.ptable[p] = b
  BY <1>2, <1>3, SetPCBAssigned
<1> QED
  BY <1>2, <1>4 DEF a, k1

LEMMA DetachIs ==
  ASSUME NEW k \in KernelState, NEW p \in Slots, NEW state \in States
  PROVE  LET k1 == Detach(k, p, state)
             a == k.ptable[p]
             b == k1.ptable[p]
         IN /\ Assigned(k, k1, p) /\ SameName(a, b)
            /\ b.next = NULL /\ b.state = state /\ b.arg = a.arg /\ b.ret = a.ret
<1> DEFINE a == k.ptable[p]
           b == [a EXCEPT !.state = state, !.next = NULL]
           k1 == Detach(k, p, state)
<1>1. a \in PCB
  BY TableType
<1> HIDE DEF a
<1>2. /\ b \in PCB /\ SameName(a, b)
      /\ b.next = NULL /\ b.state = state /\ b.arg = a.arg /\ b.ret = a.ret
  BY <1>1, PtrCases DEF PCB, SameName
<1> HIDE DEF b
<1>3. k1 = SetPCB(k, p, b)
  BY DEF Detach, a, b
<1> HIDE DEF k1
<1>4. Assigned(k, k1, p) /\ k1.ptable[p] = b
  BY <1>2, <1>3, SetPCBAssigned
<1> QED
  BY <1>2, <1>4 DEF a, k1

LEMMA SetRetIs ==
  ASSUME NEW k \in KernelState, NEW p \in Slots, NEW ret \in Int
  PROVE  LET k1 == SetRet(k, p, ret)
             a == k.ptable[p]
             b == k1.ptable[p]
         IN /\ Assigned(k, k1, p) /\ SameName(a, b)
            /\ b.next = a.next /\ b.state = a.state /\ b.arg = a.arg /\ b.ret = ret
<1> DEFINE a == k.ptable[p]
           b == [a EXCEPT !.ret = ret]
           k1 == SetRet(k, p, ret)
<1>1. a \in PCB
  BY TableType
<1> HIDE DEF a
<1>2. /\ b \in PCB /\ SameName(a, b)
      /\ b.next = a.next /\ b.state = a.state /\ b.arg = a.arg /\ b.ret = ret
  BY <1>1 DEF PCB, SameName
<1> HIDE DEF b
<1>3. k1 = SetPCB(k, p, b)
  BY DEF SetRet, a, b
<1> HIDE DEF k1
<1>4. Assigned(k, k1, p) /\ k1.ptable[p] = b
  BY <1>2, <1>3, SetPCBAssigned
<1> QED
  BY <1>2, <1>4 DEF a, k1

-----------------------------------------------------------------------------
(* What the handlers keep.                                                 *)

LEMMA BasicSlots ==
  /\ init_pcb \in Slots /\ idle_pcb \in Slots /\ init_pcb # idle_pcb
  /\ NULL \notin Slots
BY ProcsAssumption DEF init_pcb, idle_pcb, Slots, NULL

LEMMA HeldSame ==
  ASSUME NEW k, NEW F, NEW Z, Held(k, F, Z), NEW k1, NEW G, Same(k, k1), Fine(k1, G)
  PROVE  Held(k1, G, Z)
<1>1. /\ k1.next_pid = k.next_pid /\ k1.stacks = k.stacks
      /\ \A x \in Slots : /\ k1.ptable[x].state = k.ptable[x].state
                          /\ k1.ptable[x].pid = k.ptable[x].pid
                          /\ k1.ptable[x].parent = k.ptable[x].parent
                          /\ k1.ptable[x].ret = k.ptable[x].ret
  BY DEF Same, SameRest, SamePCB
<1>2. /\ UniquePids(k) /\ Family(k) /\ Stacks(k) /\ Waits(k) /\ Spent(k, Z) /\ Basic(k)
  BY DEF Held
<1>3. UniquePids(k1)
  BY <1>1, <1>2 DEF UniquePids
<1>4. Family(k1)
  BY <1>1, <1>2, BasicSlots DEF Family
<1>5. Used(k1) = Used(k)
  BY <1>1 DEF Used
<1>6. Stacks(k1)
  BY <1>1, <1>2, <1>5 DEF Stacks
<1>7. Waits(k1) /\ Spent(k1, Z)
  BY <1>1, <1>2 DEF Waits, Spent
<1>8. Basic(k1)
  BY <1>1, <1>2, BasicSlots DEF Basic
<1> QED
  BY <1>3, <1>4, <1>6, <1>7, <1>8 DEF Held

LEMMA HeldInsert ==
  ASSUME NEW k, NEW F, NEW Z, Held(k, F, Z), NEW q \in Queues, NEW p \in F,
         q \in Home(p, k.ptable[p].state)
  PROVE  LET k1 == pcb_queue_insert(k, q, p) IN Same(k, k1) /\ Held(k1, F \ {p}, Z)
<1> DEFINE k1 == pcb_queue_insert(k, q, p)
<1>1. Fine(k, F)
  BY DEF Held
<1>2. Same(k, k1) /\ Fine(k1, F \ {p})
  BY <1>1, InsertFine
<1> HIDE DEF k1
<1>3. Held(k1, F \ {p}, Z)
  BY <1>2, HeldSame
<1> QED
  BY <1>2, <1>3 DEF k1

LEMMA HeldRemove ==
  ASSUME NEW k, NEW F, NEW Z, Held(k, F, Z), NEW q \in Queues, ~pcb_queue_empty(k, q)
  PROVE  LET k1 == pcb_queue_remove(k, q) IN
         Same(k, k1) /\ Held(k1, F \cup {k.q[q].head}, Z)
<1> DEFINE k1 == pcb_queue_remove(k, q)
<1>1. Fine(k, F)
  BY DEF Held
<1>2. Same(k, k1) /\ Fine(k1, F \cup {k.q[q].head})
  BY <1>1, RemoveFine
<1> HIDE DEF k1
<1>3. Held(k1, F \cup {k.q[q].head}, Z)
  BY <1>2, HeldSame
<1> QED
  BY <1>2, <1>3 DEF k1

LEMMA HeldRemoveThis ==
  ASSUME NEW k, NEW F, NEW Z, Held(k, F, Z), NEW q \in Queues, NEW p \in Slots \ F,
         Home(p, k.ptable[p].state) = {q}
  PROVE  LET k1 == pcb_queue_remove_this(k, q, p) IN
         /\ RemoveStatus(k, q, p) = SUCCESS
         /\ Same(k, k1) /\ Held(k1, F \cup {p}, Z)
<1> DEFINE k1 == pcb_queue_remove_this(k, q, p)
<1>1. Fine(k, F)
  BY DEF Held
<1>2. RemoveStatus(k, q, p) = SUCCESS /\ Same(k, k1) /\ Fine(k1, F \cup {p})
  BY <1>1, RemoveThisFine
<1> HIDE DEF k1
<1>3. Held(k1, F \cup {p}, Z)
  BY <1>2, HeldSame
<1> QED
  BY <1>2, <1>3 DEF k1
(* What an assignment to the PCB p may do: p stays a process, is childless *)
(* when it dies, has no result while it waits, and a new result is an      *)
(* error or the PID of a PCB about to be freed.                            *)
Proper(k, k1, p, Z) ==
  LET a == k.ptable[p]
      b == k1.ptable[p]
  IN /\ b.pid = a.pid /\ b.parent = a.parent /\ a.state # "Unused" /\ b.state # "Unused"
     /\ b.state = "Zombie" =>
          \A x \in Slots : k.ptable[x].state # "Unused" => k.ptable[x].parent # p
     /\ b.state = "Waiting" => b.ret = 0
     /\ b.ret = a.ret \/ b.ret <= 0 \/ \E z \in Z \cap Slots : b.ret = k.ptable[z].pid
     /\ p = init_pcb => b.state \in {"Ready", "Running", "Waiting"}
     /\ p = idle_pcb => b.state \in {"Ready", "Running", "Killed"}

LEMMA HeldAssigned ==
  ASSUME NEW k, NEW F, NEW Z, Held(k, F, Z), NEW p \in Slots, NEW k1,
         Assigned(k, k1, p), Proper(k, k1, p, Z), Fine(k1, F)
  PROVE  Held(k1, F, Z)
<1> DEFINE a == k.ptable[p]
           b == k1.ptable[p]
<1>1. /\ UniquePids(k) /\ Family(k) /\ Stacks(k) /\ Waits(k) /\ Spent(k, Z) /\ Basic(k)
  BY DEF Held
<1>2. /\ k1.next_pid = k.next_pid /\ k1.stacks = k.stacks /\ k1 \in KernelState
      /\ \A x \in Slots \ {p} : k1.ptable[x] = k.ptable[x]
  BY DEF Assigned, SameRest
<1>3. /\ b.pid = a.pid /\ b.parent = a.parent /\ a.state # "Unused" /\ b.state # "Unused"
      /\ b.state = "Zombie" =>
           \A x \in Slots : k.ptable[x].state # "Unused" => k.ptable[x].parent # p
      /\ b.state = "Waiting" => b.ret = 0
      /\ b.ret = a.ret \/ b.ret <= 0 \/ \E z \in Z \cap Slots : b.ret = k.ptable[z].pid
      /\ p = init_pcb => b.state \in {"Ready", "Running", "Waiting"}
      /\ p = idle_pcb => b.state \in {"Ready", "Running", "Killed"}
  BY DEF Proper
<1>4. \A x \in Slots : /\ k1.ptable[x].pid = k.ptable[x].pid
                       /\ k1.ptable[x].parent = k.ptable[x].parent
                       /\ k1.ptable[x].state # "Unused" <=> k.ptable[x].state # "Unused"
                       /\ x # p => k1.ptable[x] = k.ptable[x]
  BY <1>2, <1>3
<1> HIDE DEF a, b
<1>5. UniquePids(k1)
  BY <1>1, <1>2, <1>4 DEF UniquePids
<1>6. Family(k1)
  <2>1. k1.ptable[init_pcb].parent = init_pcb
    BY <1>1, <1>4, BasicSlots DEF Family
  <2>2. ASSUME NEW x \in Slots, k1.ptable[x].state # "Unused"
        PROVE  LET parent == k1.ptable[x].parent IN
               /\ parent \in Slots /\ k1.ptable[parent].state \notin {"Unused", "Zombie"}
               /\ parent = init_pcb \/ k1.ptable[parent].pid < k1.ptable[x].pid
    <3> DEFINE parent == k.ptable[x].parent
    <3>1. k.ptable[x].state # "Unused" /\ k1.ptable[x].parent = parent
          /\ k1.ptable[x].pid = k.ptable[x].pid
      BY <1>4, <2>2
    <3>2. /\ parent \in Slots /\ k.ptable[parent].state \notin {"Unused", "Zombie"}
          /\ parent = init_pcb \/ k.ptable[parent].pid < k.ptable[x].pid
      BY <1>1, <3>1 DEF Family
    <3>3. parent = p => b.state # "Zombie"
      BY <1>3, <3>1
    <3> HIDE DEF parent
    <3>4. k1.ptable[parent].pid = k.ptable[parent].pid
          /\ k1.ptable[parent].state \notin {"Unused", "Zombie"}
      <4>1. CASE parent = p
        BY <1>3, <1>4, <3>2, <3>3, <4>1 DEF b
      <4>2. CASE parent # p
        BY <1>4, <3>2, <4>2
      <4> QED
        BY <4>1, <4>2
    <3> QED
      BY <3>1, <3>2, <3>4
  <2> QED
    BY <2>1, <2>2 DEF Family
<1>7. Stacks(k1)
  <2>1. Used(k1) = Used(k)
    BY <1>4 DEF Used
  <2> QED
    BY <1>1, <1>2, <2>1 DEF Stacks
<1>8. b.ret < k.next_pid
  <2>1. CASE b.ret = a.ret
    BY <1>1, <2>1 DEF Waits, a
  <2>2. CASE b.ret <= 0
    <3>1. k.ptable[p].pid < k.next_pid /\ k.ptable[p].pid \in Nat /\ k.next_pid \in Nat
      <4>1. k \in KernelState
        BY FineIs DEF Held
      <4> QED
        BY <1>1, <4>1, TableType DEF UniquePids, KernelState
    <3>2. b.ret \in Int
      <4>1. b \in PCB
        BY <1>2, TableType DEF b
      <4> QED
        BY <4>1 DEF PCB
    <3> QED
      BY <2>2, <3>1, <3>2
  <2>3. CASE \E z \in Z \cap Slots : b.ret = k.ptable[z].pid
    BY <1>1, <2>3 DEF UniquePids
  <2> QED
    BY <1>3, <2>1, <2>2, <2>3
<1>9. Waits(k1)
  <2>1. ASSUME NEW x \in Slots
        PROVE  /\ k1.ptable[x].state = "Waiting" => k1.ptable[x].ret = 0
               /\ k1.ptable[x].ret < k1.next_pid
    <3>1. CASE x = p
      BY <1>2, <1>3, <1>8, <3>1 DEF b
    <3>2. CASE x # p
      BY <1>1, <1>2, <1>4, <3>2 DEF Waits
    <3> QED
      BY <3>1, <3>2
  <2> QED
    BY <2>1 DEF Waits
<1>10. Spent(k1, Z)
  <2> SUFFICES ASSUME NEW x \in Slots, NEW y \in Slots \ Z, k1.ptable[x].ret > 0,
                      k1.ptable[y].state # "Unused"
               PROVE  k1.ptable[y].pid # k1.ptable[x].ret
    BY DEF Spent
  <2>1. k.ptable[y].state # "Unused" /\ k1.ptable[y].pid = k.ptable[y].pid
    BY <1>4
  <2>2. CASE x # p
    BY <1>1, <1>4, <2>1, <2>2 DEF Spent
  <2>3. CASE x = p
    <3>0. k1.ptable[x].ret = b.ret /\ b.ret > 0 /\ b.ret \in Int
      <4>1. b \in PCB
        BY <1>2, TableType DEF b
      <4> QED
        BY <2>3, <4>1 DEF b, PCB
    <3>1. CASE b.ret = a.ret
      BY <1>1, <2>1, <3>0, <3>1 DEF Spent, a
    <3>2. CASE \E z \in Z \cap Slots : b.ret = k.ptable[z].pid
      <4>1. PICK z \in Z \cap Slots : b.ret = k.ptable[z].pid
        BY <3>2
      <4>2. z # y /\ k.ptable[z].pid # 0
        BY <3>0, <4>1
      <4>3. k.ptable[z].pid # k.ptable[y].pid
        BY <1>1, <4>2 DEF UniquePids
      <4> QED
        BY <2>1, <3>0, <4>1, <4>3
    <3> QED
      BY <1>3, <3>0, <3>1, <3>2
  <2> QED
    BY <2>2, <2>3
<1>11. Basic(k1)
  <2>1. k1.ptable[init_pcb].state \in {"Ready", "Running", "Waiting"}
    <3>1. CASE p = init_pcb
      BY <1>3, <3>1 DEF b
    <3>2. CASE p # init_pcb
      BY <1>1, <1>4, <3>2, BasicSlots DEF Basic
    <3> QED
      BY <3>1, <3>2
  <2>2. k1.ptable[idle_pcb].state \in {"Ready", "Running", "Killed"}
    <3>1. CASE p = idle_pcb
      BY <1>3, <3>1 DEF b
    <3>2. CASE p # idle_pcb
      BY <1>1, <1>4, <3>2, BasicSlots DEF Basic
    <3> QED
      BY <3>1, <3>2
  <2> QED
    BY <1>1, <1>4, <2>1, <2>2, BasicSlots DEF Basic
<1> QED
  BY <1>5, <1>6, <1>7, <1>9, <1>10, <1>11 DEF Held

(* An assignment to a PCB in hand leaves the queues sound.                 *)
LEMMA HandFine ==
  ASSUME NEW k, NEW F, Fine(k, F), NEW p \in F, NEW k1, Assigned(k, k1, p),
         k1.ptable[p].next = NULL
  PROVE  Fine(k1, F)
<1>1. /\ k \in KernelState /\ Ok(k) /\ F \subseteq Slots
      /\ \A x \in F : k.ptable[x].next = NULL
  BY FineIs
<1>2. /\ k1 \in KernelState /\ k1.status = k.status /\ k1.q = k.q
      /\ \A x \in Slots \ {p} : k1.ptable[x] = k.ptable[x]
  BY DEF Assigned, SameRest
<1>3. Ok(k1)
  BY <1>1, <1>2 DEF Ok
<1>4. Undisturbed(k, k1, F)
  BY <1>1, <1>2, <1>3 DEF Undisturbed
<1> QED
  BY <1>4, FieldsFine

LEMMA HeldInHand ==
  ASSUME NEW k, NEW F, NEW Z, Held(k, F, Z), NEW p \in F, NEW k1,
         Assigned(k, k1, p), Proper(k, k1, p, Z), k1.ptable[p].next = NULL
  PROVE  Held(k1, F, Z)
<1>1. Fine(k, F)
  BY DEF Held
<1>2. p \in Slots
  BY <1>1, FineIs
<1>3. Fine(k1, F)
  BY <1>1, HandFine
<1> QED
  BY <1>2, <1>3, HeldAssigned
-----------------------------------------------------------------------------
(* PCB allocation and scheduling.                                          *)

(* Nobody is dispatched, forked or given to another parent, and no PCB but *)
(* p is given a state or a result.                                         *)
Beside(k, k1, p) ==
  /\ k1.current = k.current /\ k1.next_pid = k.next_pid
  /\ \A x \in Slots \ {p} : SamePCB(k.ptable[x], k1.ptable[x])
  /\ k1.ptable[p].pid = k.ptable[p].pid /\ k1.ptable[p].parent = k.ptable[p].parent
  /\ k.ptable[p].state # "Unused"

(* ... and p was made ready.                                               *)
Readied(k, k1, p) ==
  /\ SameRest(k, k1) /\ k1.ptable[p].state = "Ready"
  /\ SameName(k.ptable[p], k1.ptable[p])
  /\ \A x \in Slots \ {p} : SamePCB(k.ptable[x], k1.ptable[x])

LEMMA SameBeside ==
  ASSUME NEW k, NEW k1, NEW k2, NEW p \in Slots, Assigned(k, k1, p), Same(k1, k2),
         k.ptable[p].state # "Unused", SameName(k.ptable[p], k1.ptable[p])
  PROVE  Beside(k, k2, p)
BY DEF Assigned, Same, SameRest, SamePCB, Beside, SameName

LEMMA HeldMakeReady ==
  ASSUME NEW k, NEW F, NEW Z, Held(k, F, Z), NEW p \in F, k.ptable[p].state # "Unused"
  PROVE  LET k1 == MakeReady(k, p) IN
         Held(k1, F \ {p}, Z) /\ Beside(k, k1, p) /\ Readied(k, k1, p)
<1> DEFINE kd == Detach(k, p, "Ready")
           k1 == pcb_queue_insert(kd, "ready", p)
           a == k.ptable[p]
           b == kd.ptable[p]
<1>1. Ok(k) /\ k \in KernelState /\ p \in Slots
  BY FineIs DEF Held
<1>2. /\ Assigned(k, kd, p) /\ SameName(a, b)
      /\ b.next = NULL /\ b.state = "Ready" /\ b.arg = a.arg /\ b.ret = a.ret
  BY <1>1, DetachIs DEF States
<1>3. MakeReady(k, p) = k1
  BY <1>1 DEF MakeReady
<1> HIDE DEF kd
<1>4. Proper(k, kd, p, Z)
  BY <1>2 DEF Proper, SameName
<1>5. Held(kd, F, Z)
  BY <1>2, <1>4, HeldInHand
<1>6. "ready" \in Queues /\ "ready" \in Home(p, kd.ptable[p].state)
  BY <1>2 DEF Queues, Home
<1>7. Same(kd, k1) /\ Held(k1, F \ {p}, Z)
  BY <1>5, <1>6, HeldInsert
<1> HIDE DEF k1
<1>8. Beside(k, k1, p)
  BY <1>1, <1>2, <1>7, SameBeside
<1>9. Readied(k, k1, p)
  BY <1>1, <1>2, <1>7 DEF Readied, Assigned, Same, SameRest, SameName, SamePCB
<1> QED
  BY <1>3, <1>7, <1>8, <1>9

LEMMA UsedFinite ==
  ASSUME NEW k
  PROVE  /\ Used(k) \subseteq Slots /\ IsFiniteSet(Used(k)) /\ Cardinality(Used(k)) \in Nat
         /\ Cardinality(Used(k)) <= N_PROCS
<1>1. IsFiniteSet(Slots) /\ Cardinality(Slots) = N_PROCS
  BY FS_Interval, ProcsAssumption DEF Slots
<1>2. Used(k) \subseteq Slots
  BY DEF Used
<1> QED
  BY <1>1, <1>2, FS_Subset, FS_CardinalityType

LEMMA HeldCleanup ==
  ASSUME NEW k, NEW F, NEW Z, Held(k, F, Z), NEW z \in F, k.ptable[z].state = "Zombie"
  PROVE  LET k1 == pcb_cleanup(k, z) IN Held(k1, F \ {z}, Z \ {z}) /\ Beside(k, k1, z)
<1> DEFINE ks == [k EXCEPT !.stacks = @ + 1]
           kd == Detach(ks, z, "Unused")
           k1 == pcb_queue_insert(kd, "freelist", z)
           a == k.ptable[z]
           b == kd.ptable[z]
<1>1. Ok(k) /\ k \in KernelState /\ z \in Slots /\ Fine(k, F) /\ k.stacks \in Int
  BY FineIs DEF Held, KernelState
<1>2. /\ ks \in KernelState /\ ks.stacks = k.stacks + 1 /\ ks.ptable = k.ptable /\ ks.q = k.q
      /\ ks.current = k.current /\ ks.next_pid = k.next_pid /\ ks.status = k.status
  BY <1>1 DEF KernelState
<1>3. pcb_cleanup(k, z) = k1
  BY <1>1 DEF pcb_cleanup, pcb_free
<1> HIDE DEF ks
<1>4. /\ Assigned(ks, kd, z) /\ SameName(ks.ptable[z], b)
      /\ b.next = NULL /\ b.state = "Unused" /\ b.ret = ks.ptable[z].ret
  BY <1>1, <1>2, DetachIs DEF States
<1> HIDE DEF kd
<1>5. /\ kd \in KernelState /\ kd.stacks = k.stacks + 1 /\ kd.q = k.q
      /\ kd.current = k.current /\ kd.next_pid = k.next_pid /\ kd.status = k.status
      /\ \A x \in Slots \ {z} : kd.ptable[x] = k.ptable[x]
      /\ b.pid = a.pid /\ b.parent = a.parent /\ b.ret = a.ret
      /\ b.next = NULL /\ b.state = "Unused"
  BY <1>2, <1>4 DEF Assigned, SameRest, SameName
<1>6. Fine(kd, F)
  <2>1. Undisturbed(k, kd, F)
    <3>1. F \subseteq Slots /\ \A x \in F : k.ptable[x].next = NULL
      BY <1>1, FineIs
    <3>2. Ok(kd)
      BY <1>1, <1>5 DEF Ok
    <3> QED
      BY <1>5, <3>1, <3>2 DEF Undisturbed
  <2> QED
    BY <1>1, <2>1, FieldsFine
<1>7. \A x \in Slots : /\ kd.ptable[x].pid = k.ptable[x].pid
                       /\ kd.ptable[x].parent = k.ptable[x].parent
                       /\ kd.ptable[x].ret = k.ptable[x].ret
                       /\ kd.ptable[x].state # "Unused" <=> k.ptable[x].state # "Unused" /\ x # z
                       /\ x # z => kd.ptable[x].state = k.ptable[x].state
  BY <1>5
<1>8. /\ UniquePids(k) /\ Family(k) /\ Stacks(k) /\ Waits(k) /\ Spent(k, Z) /\ Basic(k)
  BY DEF Held
<1>9. UniquePids(kd)
  BY <1>5, <1>7, <1>8 DEF UniquePids
<1>10. Family(kd)
  <2>1. kd.ptable[init_pcb].parent = init_pcb
    BY <1>7, <1>8, BasicSlots DEF Family
  <2>2. ASSUME NEW x \in Slots, kd.ptable[x].state # "Unused"
        PROVE  LET parent == kd.ptable[x].parent IN
               /\ parent \in Slots /\ kd.ptable[parent].state \notin {"Unused", "Zombie"}
               /\ parent = init_pcb \/ kd.ptable[parent].pid < kd.ptable[x].pid
    <3> DEFINE parent == k.ptable[x].parent
    <3>1. k.ptable[x].state # "Unused" /\ kd.ptable[x].parent = parent
          /\ kd.ptable[x].pid = k.ptable[x].pid
      BY <1>7, <2>2
    <3>2. /\ parent \in Slots /\ k.ptable[parent].state \notin {"Unused", "Zombie"}
          /\ parent = init_pcb \/ k.ptable[parent].pid < k.ptable[x].pid
      BY <1>8, <3>1 DEF Family
    <3> HIDE DEF parent
    <3>3. parent # z
      BY <3>2
    <3> QED
      BY <1>7, <3>1, <3>2, <3>3
  <2> QED
    BY <2>1, <2>2 DEF Family
<1>11. Stacks(kd)
  <2>1. Used(kd) = Used(k) \ {z} /\ z \in Used(k)
    BY <1>1, <1>7 DEF Used
  <2>2. Cardinality(Used(kd)) = Cardinality(Used(k)) - 1
    BY <2>1, UsedFinite, FS_RemoveElement
  <2>3. N_STACKS \in Nat /\ Cardinality(Used(k)) \in Nat
    BY ProcsAssumption, UsedFinite
  <2> QED
    BY <1>5, <1>8, <2>2, <2>3 DEF Stacks
<1>12. Waits(kd)
  BY <1>5, <1>7, <1>8 DEF Waits
<1>13. Spent(kd, Z \ {z})
  BY <1>7, <1>8 DEF Spent
<1>14. Basic(kd)
  <2>1. z # init_pcb /\ z # idle_pcb
    BY <1>8 DEF Basic
  <2> QED
    BY <1>7, <1>8, <2>1, BasicSlots DEF Basic
<1>15. Held(kd, F, Z \ {z})
  BY <1>6, <1>9, <1>10, <1>11, <1>12, <1>13, <1>14 DEF Held
<1>16. "freelist" \in Queues /\ "freelist" \in Home(z, kd.ptable[z].state)
  BY <1>5 DEF Queues, Home
<1>17. Same(kd, k1) /\ Held(k1, F \ {z}, Z \ {z})
  BY <1>15, <1>16, HeldInsert
<1> HIDE DEF k1
<1>18. Beside(k, k1, z)
  BY <1>1, <1>5, <1>17 DEF Same, SameRest, SamePCB, Beside
<1> QED
  BY <1>3, <1>17, <1>18
LEMMA HeldBecomeZombie ==
  ASSUME NEW k, NEW F, NEW Z, Held(k, F, Z), NEW v \in F,
         v # init_pcb, v # idle_pcb, k.ptable[v].state # "Unused",
         \A x \in Slots : k.ptable[x].state # "Unused" => k.ptable[x].parent # v
  PROVE  LET k1 == BecomeZombie(k, v) IN Held(k1, F \ {v}, Z) /\ Beside(k, k1, v)
<1> DEFINE kd == Detach(k, v, "Zombie")
           k1 == pcb_queue_insert(kd, "zombie", v)
           a == k.ptable[v]
           b == kd.ptable[v]
<1>1. Ok(k) /\ k \in KernelState /\ v \in Slots
  BY FineIs DEF Held
<1>2. /\ Assigned(k, kd, v) /\ SameName(a, b)
      /\ b.next = NULL /\ b.state = "Zombie" /\ b.arg = a.arg /\ b.ret = a.ret
  BY <1>1, DetachIs DEF States
<1>3. BecomeZombie(k, v) = k1
  BY DEF BecomeZombie
<1> HIDE DEF kd
<1>4. Proper(k, kd, v, Z)
  BY <1>2 DEF Proper, SameName
<1>5. Held(kd, F, Z)
  BY <1>2, <1>4, HeldInHand
<1>6. "zombie" \in Queues /\ "zombie" \in Home(v, kd.ptable[v].state)
  BY <1>2 DEF Queues, Home
<1>7. Same(kd, k1) /\ Held(k1, F \ {v}, Z)
  BY <1>5, <1>6, HeldInsert
<1> HIDE DEF k1
<1>8. Beside(k, k1, v)
  BY <1>1, <1>2, <1>7, SameBeside
<1> QED
  BY <1>3, <1>7, <1>8

(* pcb_zombify's loop leaves the victim without children: its own parent   *)
(* is never its child.                                                     *)
LEMMA HeldReparent ==
  ASSUME NEW k, NEW F, NEW Z, Held(k, F, Z), NEW v \in Slots, v # init_pcb,
         k.ptable[v].state # "Unused"
  PROVE  LET k1 == Reparent(k, v) IN
         /\ Held(k1, F, Z) /\ k1.current = k.current /\ k1.next_pid = k.next_pid
         /\ \A x \in Slots : /\ k1.ptable[x].state = k.ptable[x].state
                             /\ k1.ptable[x].pid = k.ptable[x].pid
                             /\ k1.ptable[x].ret = k.ptable[x].ret
         /\ \A x \in Slots : k1.ptable[x].state # "Unused" => k1.ptable[x].parent # v
<1> DEFINE O == Orphans(k, v)
           new(x) == [k.ptable[x] EXCEPT !.parent = init_pcb]
           t == [x \in Slots |-> IF x \in O THEN new(x) ELSE k.ptable[x]]
           k1 == Reparent(k, v)
<1>1. k \in KernelState /\ Ok(k) /\ Fine(k, F) /\ F \subseteq Slots
      /\ \A x \in F : k.ptable[x].next = NULL
  BY FineIs DEF Held
<1>2. k1 = [k EXCEPT !.ptable = t]
  BY DEF Reparent
<1>3. ASSUME NEW x \in Slots
      PROVE  /\ t[x] \in PCB
             /\ t[x].next = k.ptable[x].next /\ t[x].state = k.ptable[x].state
             /\ t[x].pid = k.ptable[x].pid /\ t[x].ret = k.ptable[x].ret
             /\ t[x].priority = k.ptable[x].priority /\ t[x].wakeup = k.ptable[x].wakeup
             /\ t[x].parent = IF x \in O THEN init_pcb ELSE k.ptable[x].parent
  <2> DEFINE a == k.ptable[x]
  <2>1. a \in PCB
    BY <1>1, TableType
  <2>2. t[x] = IF x \in O THEN [a EXCEPT !.parent = init_pcb] ELSE a
    OBVIOUS
  <2> HIDE DEF a, t, O
  <2>3. LET b == [a EXCEPT !.parent = init_pcb] IN
        /\ b \in PCB /\ b.next = a.next /\ b.state = a.state /\ b.pid = a.pid /\ b.ret = a.ret
        /\ b.priority = a.priority /\ b.wakeup = a.wakeup /\ b.parent = init_pcb
    BY <2>1, PtrCases DEF PCB
  <2>4. CASE x \in O
    BY <2>2, <2>3, <2>4 DEF a
  <2>5. CASE x \notin O
    BY <2>1, <2>2, <2>5 DEF a
  <2> QED
    BY <2>4, <2>5
<1>4. t \in [Slots -> PCB]
  <2>1. \A x \in Slots : t[x] \in PCB
    BY <1>3
  <2> QED
    BY <2>1
<1> HIDE DEF t, k1
<1>5. /\ k1 \in KernelState /\ k1.ptable = t /\ k1.q = k.q /\ k1.status = k.status
      /\ k1.current = k.current /\ k1.next_pid = k.next_pid /\ k1.stacks = k.stacks
  BY <1>1, <1>2, <1>4 DEF KernelState
<1>6. \A x \in Slots : x \in O <=> /\ k.ptable[x].state # "Unused"
                                   /\ x # k.ptable[v].parent /\ k.ptable[x].parent = v
  BY DEF Orphans
<1> HIDE DEF O
<1>7. Fine(k1, F)
  <2>1. Ok(k1)
    BY <1>1, <1>5 DEF Ok
  <2>2. Undisturbed(k, k1, F)
    BY <1>1, <1>3, <1>5, <2>1 DEF Undisturbed
  <2> QED
    BY <1>1, <2>2, FieldsFine
<1>8. /\ UniquePids(k) /\ Family(k) /\ Stacks(k) /\ Waits(k) /\ Spent(k, Z) /\ Basic(k)
  BY DEF Held
<1>9. UniquePids(k1) /\ Waits(k1) /\ Spent(k1, Z)
  BY <1>3, <1>5, <1>8 DEF UniquePids, Waits, Spent
<1>10. Stacks(k1)
  <2>1. Used(k1) = Used(k)
    BY <1>3, <1>5 DEF Used
  <2> QED
    BY <1>5, <1>8, <2>1 DEF Stacks
<1>11. Basic(k1)
  BY <1>3, <1>5, <1>8, BasicSlots DEF Basic
<1>12. Family(k1)
  <2>1. k1.ptable[init_pcb].parent = init_pcb
    BY <1>3, <1>5, <1>8, BasicSlots DEF Family
  <2>2. ASSUME NEW x \in Slots, k1.ptable[x].state # "Unused"
        PROVE  LET parent == k1.ptable[x].parent IN
               /\ parent \in Slots /\ k1.ptable[parent].state \notin {"Unused", "Zombie"}
               /\ parent = init_pcb \/ k1.ptable[parent].pid < k1.ptable[x].pid
    <3>1. CASE x \in O
      <4>1. k1.ptable[x].parent = init_pcb
        BY <1>3, <1>5, <3>1
      <4>2. k1.ptable[init_pcb].state \notin {"Unused", "Zombie"}
        BY <1>11 DEF Basic
      <4> QED
        BY <4>1, <4>2, BasicSlots
    <3>2. CASE x \notin O
      <4> DEFINE parent == k.ptable[x].parent
      <4>1. k1.ptable[x].parent = parent /\ k.ptable[x].state # "Unused"
            /\ k1.ptable[x].pid = k.ptable[x].pid
        BY <1>3, <1>5, <2>2, <3>2
      <4>2. /\ parent \in Slots /\ k.ptable[parent].state \notin {"Unused", "Zombie"}
            /\ parent = init_pcb \/ k.ptable[parent].pid < k.ptable[x].pid
        BY <1>8, <4>1 DEF Family
      <4> HIDE DEF parent
      <4> QED
        BY <1>3, <1>5, <4>1, <4>2
    <3> QED
      BY <3>1, <3>2
  <2> QED
    BY <2>1, <2>2 DEF Family
<1>13. ASSUME NEW x \in Slots, k1.ptable[x].state # "Unused", k1.ptable[x].parent = v
       PROVE  FALSE
  <2>1. x \notin O /\ k.ptable[x].state # "Unused" /\ k.ptable[x].parent = v
    BY <1>3, <1>5, <1>13
  <2>2. x = k.ptable[v].parent
    BY <1>6, <2>1
  <2>3. k.ptable[v].pid < k.ptable[x].pid
    BY <1>8, <2>1 DEF Family
  <2>4. x = init_pcb \/ k.ptable[x].pid < k.ptable[v].pid
    BY <1>8, <2>2 DEF Family
  <2>5. k.ptable[x].pid \in Nat /\ k.ptable[v].pid \in Nat
    BY <1>1, TableType
  <2>6. x # init_pcb
    BY <1>8, <2>1 DEF Family
  <2> QED
    BY <2>3, <2>4, <2>5, <2>6
<1>14. Held(k1, F, Z)
  BY <1>7, <1>9, <1>10, <1>11, <1>12 DEF Held
<1> QED
  BY <1>3, <1>5, <1>13, <1>14 DEF k1
LEMMA MustRemoveIs ==
  ASSUME NEW k, NEW F, NEW Z, Held(k, F, Z), NEW q \in Queues, NEW p \in Slots \ F,
         Home(p, k.ptable[p].state) = {q}
  PROVE  LET k1 == MustRemoveThis(k, q, p) IN Same(k, k1) /\ Held(k1, F \cup {p}, Z)
<1> DEFINE k1 == pcb_queue_remove_this(k, q, p)
<1>1. Ok(k)
  BY FineIs DEF Held
<1>2. /\ RemoveStatus(k, q, p) = SUCCESS
      /\ Same(k, k1) /\ Held(k1, F \cup {p}, Z)
  BY HeldRemoveThis
<1>3. MustRemoveThis(k, q, p) = k1
  BY <1>1, <1>2 DEF MustRemoveThis, Assert
<1> QED
  BY <1>2, <1>3

(* What giving the zombie z to init leaves of the others.                  *)
Collected(k, k1, z) ==
  /\ k1.current = k.current /\ k1.next_pid = k.next_pid
  /\ \A x \in Slots : /\ k1.ptable[x].pid = k.ptable[x].pid
                      /\ k1.ptable[x].parent = k.ptable[x].parent
                      /\ k1.ptable[x].state # "Unused" => k.ptable[x].state # "Unused"
  /\ \A x \in Slots \ {init_pcb, z} : /\ k1.ptable[x].state = k.ptable[x].state
                                      /\ k1.ptable[x].ret = k.ptable[x].ret
  /\ k1.ptable[init_pcb].state # "Waiting"

LEMMA HeldInitCollects ==
  ASSUME NEW k, NEW F, Held(k, F, {}), NEW z \in F, init_pcb \in F,
         k.ptable[z].state = "Zombie"
  PROVE  LET k1 == InitCollects(k, z) IN
         Held(k1, F \ {init_pcb, z}, {}) /\ Collected(k, k1, z)
<1> DEFINE kr == SetRet(k, init_pcb, k.ptable[z].pid)
           kd == Detach(kr, init_pcb, "Ready")
           km == pcb_queue_insert(kd, "ready", init_pcb)
           k1 == pcb_cleanup(km, z)
           a == k.ptable[init_pcb]
           b == kd.ptable[init_pcb]
<1>1. /\ Ok(k) /\ k \in KernelState /\ init_pcb \in Slots /\ z \in Slots /\ Fine(k, F)
      /\ k.ptable[z].pid \in Int
  <2>1. Ok(k) /\ k \in KernelState /\ F \subseteq Slots /\ Fine(k, F)
    BY FineIs DEF Held
  <2> QED
    BY <2>1, BasicSlots, TableType
<1>2. z # init_pcb /\ a.state # "Unused" /\ Basic(k)
  BY DEF Held, Basic
<1>3. /\ Assigned(k, kr, init_pcb) /\ SameName(a, kr.ptable[init_pcb])
      /\ kr.ptable[init_pcb].ret = k.ptable[z].pid
  BY <1>1, SetRetIs
<1> HIDE DEF kr
<1>4. kr \in KernelState /\ Ok(kr)
  BY <1>1, <1>3 DEF Assigned, SameRest, Ok
<1>5. /\ Assigned(kr, kd, init_pcb) /\ SameName(kr.ptable[init_pcb], b)
      /\ b.next = NULL /\ b.state = "Ready" /\ b.ret = k.ptable[z].pid
  BY <1>1, <1>3, <1>4, DetachIs DEF States
<1>6. InitCollects(k, z) = k1
  BY <1>1, <1>4 DEF InitCollects, MakeReady, kr
<1> HIDE DEF kd
<1>7. Assigned(k, kd, init_pcb) /\ SameName(a, b)
  BY <1>3, <1>5, AssignedTwice DEF SameName
<1>8. Held(k, F, {z})
  BY DEF Held, Spent
<1>9. Proper(k, kd, init_pcb, {z})
  BY <1>1, <1>2, <1>5, <1>7, BasicSlots DEF Proper, SameName
<1>10. Held(kd, F, {z})
  BY <1>5, <1>7, <1>8, <1>9, HeldInHand
<1>11. "ready" \in Queues /\ "ready" \in Home(init_pcb, kd.ptable[init_pcb].state)
  BY <1>5 DEF Queues, Home
<1>12. Same(kd, km) /\ Held(km, F \ {init_pcb}, {z})
  BY <1>10, <1>11, HeldInsert
<1> HIDE DEF km
<1>13. km.ptable[z].state = "Zombie" /\ z \in F \ {init_pcb}
  BY <1>1, <1>2, <1>7, <1>12 DEF Same, SamePCB, Assigned
<1>14. Held(k1, (F \ {init_pcb}) \ {z}, {z} \ {z}) /\ Beside(km, k1, z)
  BY <1>12, <1>13, HeldCleanup
<1> HIDE DEF k1
<1>15. Held(k1, F \ {init_pcb, z}, {})
  <2>1. (F \ {init_pcb}) \ {z} = F \ {init_pcb, z} /\ {z} \ {z} = {}
    OBVIOUS
  <2> QED
    BY <1>14, <2>1
<1>16. Collected(k, k1, z)
  <2>1. k1.current = k.current /\ k1.next_pid = k.next_pid
    BY <1>7, <1>12, <1>14 DEF Assigned, Same, SameRest, Beside
  <2>2. ASSUME NEW x \in Slots
        PROVE  /\ km.ptable[x].pid = k.ptable[x].pid
               /\ km.ptable[x].parent = k.ptable[x].parent
               /\ x # init_pcb => /\ km.ptable[x].state = k.ptable[x].state
                                  /\ km.ptable[x].ret = k.ptable[x].ret
    BY <1>7, <1>12 DEF Assigned, Same, SamePCB, SameName
  <2>3. ASSUME NEW x \in Slots
        PROVE  /\ k1.ptable[x].pid = km.ptable[x].pid
               /\ k1.ptable[x].parent = km.ptable[x].parent
               /\ x # z => /\ k1.ptable[x].state = km.ptable[x].state
                           /\ k1.ptable[x].ret = km.ptable[x].ret
    BY <1>14 DEF Beside, SamePCB
  <2>4. k1.ptable[init_pcb].state # "Waiting"
    <3>1. km.ptable[init_pcb].state = "Ready"
      BY <1>1, <1>5, <1>12 DEF Same, SamePCB
    <3> QED
      BY <1>1, <1>2, <2>3, <3>1
  <2>5. k.ptable[z].state # "Unused" /\ k.ptable[init_pcb].state # "Unused"
    BY <1>2
  <2> QED
    BY <2>1, <2>2, <2>3, <2>4, <2>5 DEF Collected
<1> QED
  BY <1>6, <1>15, <1>16

LEMMA HeldGiveToInit ==
  ASSUME NEW k, NEW F, Held(k, F, {}), NEW z \in Slots \ F, init_pcb \notin F,
         k.ptable[z].state = "Zombie", k.ptable[init_pcb].state = "Waiting"
  PROVE  LET k1 == GiveToInit(k, z) IN Held(k1, F, {}) /\ Collected(k, k1, z)
<1> DEFINE ka == MustRemoveThis(k, "zombie", z)
           kb == MustRemoveThis(ka, "waiting", init_pcb)
           k1 == InitCollects(kb, z)
<1>1. "zombie" \in Queues /\ "waiting" \in Queues
  BY DEF Queues
<1>2. Home(z, k.ptable[z].state) = {"zombie"}
  BY DEF Home
<1>3. Same(k, ka) /\ Held(ka, F \cup {z}, {})
  BY <1>1, <1>2, MustRemoveIs
<1> HIDE DEF ka
<1>4. init_pcb \in Slots \ (F \cup {z})
  BY BasicSlots
<1>5. ka.ptable[init_pcb].state = "Waiting" /\ ka.ptable[z].state = "Zombie"
  BY <1>3, BasicSlots DEF Same, SamePCB
<1>6. Home(init_pcb, ka.ptable[init_pcb].state) = {"waiting"}
  BY <1>5 DEF Home
<1>7. Same(ka, kb) /\ Held(kb, (F \cup {z}) \cup {init_pcb}, {})
  BY <1>1, <1>3, <1>4, <1>6, MustRemoveIs
<1> HIDE DEF kb
<1>8. Same(k, kb)
  BY <1>3, <1>7, SameTrans
<1>9. kb.ptable[z].state = "Zombie"
  BY <1>8 DEF Same, SamePCB
<1> DEFINE G == (F \cup {z}) \cup {init_pcb}
<1>10. Held(kb, G, {}) /\ z \in G /\ init_pcb \in G
  BY <1>7
<1>11. G \ {init_pcb, z} = F
  OBVIOUS
<1> HIDE DEF G
<1>12. Held(k1, G \ {init_pcb, z}, {}) /\ Collected(kb, k1, z)
  BY <1>9, <1>10, HeldInitCollects
<1> HIDE DEF k1
<1>13. Collected(k, k1, z)
  BY <1>8, <1>12, BasicSlots DEF Collected, Same, SameRest, SamePCB
<1>14. GiveToInit(k, z) = k1
  BY DEF GiveToInit, ka, kb, k1
<1> QED
  BY <1>11, <1>12, <1>13, <1>14
-----------------------------------------------------------------------------
(* A result of waitpid stays in the frame it was put in, whatever the      *)
(* queues have become by then.                                             *)

Rets(k, k1) ==
  /\ k1 \in KernelState
  /\ \A x \in Slots : k1.ptable[x].ret = k.ptable[x].ret

LEMMA RetsTrans ==
  ASSUME NEW a, NEW b, NEW c, Rets(a, b), Rets(b, c) PROVE Rets(a, c)
BY DEF Rets

LEMMA SameRets ==
  ASSUME NEW k, NEW k1, Same(k, k1) PROVE Rets(k, k1)
BY DEF Same, SamePCB, Rets

LEMMA FieldRets ==
  ASSUME NEW k \in KernelState, NEW p \in Slots
  PROVE  /\ \A n \in Ptr : Rets(k, SetNext(k, p, n))
         /\ \A state \in States : Rets(k, SetState(k, p, state)) /\ Rets(k, Detach(k, p, state))
<1>1. ASSUME NEW n \in Ptr PROVE Rets(k, SetNext(k, p, n))
  BY SetNextIs, SameRets
<1>2. ASSUME NEW state \in States PROVE Rets(k, SetState(k, p, state))
  <2> DEFINE k1 == SetState(k, p, state)
  <2>1. Assigned(k, k1, p) /\ k1.ptable[p].ret = k.ptable[p].ret
    BY SetStateIs
  <2> HIDE DEF k1
  <2>2. Rets(k, k1)
    BY <2>1 DEF Assigned, Rets
  <2> QED
    BY <2>2 DEF k1
<1>3. ASSUME NEW state \in States PROVE Rets(k, Detach(k, p, state))
  <2> DEFINE k1 == Detach(k, p, state)
  <2>1. Assigned(k, k1, p) /\ k1.ptable[p].ret = k.ptable[p].ret
    BY DetachIs
  <2> HIDE DEF k1
  <2>2. Rets(k, k1)
    BY <2>1 DEF Assigned, Rets
  <2> QED
    BY <2>2 DEF k1
<1> QED
  BY <1>1, <1>2, <1>3

LEMMA QueueRets ==
  ASSUME NEW k, NEW k1, Rets(k, k1), NEW q \in Queues, NEW queue \in Queue
  PROVE  Rets(k, SetQueue(k1, q, queue))
<1>1. k1 \in KernelState
  BY DEF Rets
<1> DEFINE k2 == SetQueue(k1, q, queue)
<1>2. Same(k1, k2)
  BY <1>1, SetQueueIs
<1> HIDE DEF k2
<1>3. Rets(k, k2)
  BY <1>2, SameRets, RetsTrans
<1> QED
  BY <1>3 DEF k2

LEMMA StatusRets ==
  ASSUME NEW k \in KernelState
  PROVE  Rets(k, k) /\ Rets(k, Panic(k)) /\ Rets(k, Hang(k))
BY Zenon DEF Rets, Panic, Hang, KernelState

LEMMA LinkAfterRets ==
  ASSUME NEW k \in KernelState, NEW q \in Queues, NEW prev \in Ptr, NEW p \in Slots
  PROVE  Rets(k, LinkAfter(k, q, prev, p))
<1> DEFINE r == [k.q[q] EXCEPT !.length = Longer(k, q)]
<1>1. r \in Queue /\ r.head \in Ptr
  BY QueueType, LengthType, Zenon DEF Queue
<1>2. p \in Ptr
  BY PtrCases
<1>3. [r EXCEPT !.head = p] \in Queue /\ [r EXCEPT !.tail = p] \in Queue
  <2> HIDE DEF r
  <2> QED
    BY <1>1, <1>2, Zenon DEF Queue
<1>4. CASE prev = NULL
  <2>1. Rets(k, SetNext(k, p, r.head))
    BY <1>1, FieldRets
  <2> QED
    BY <1>3, <1>4, <2>1, QueueRets DEF LinkAfter
<1>5. CASE prev # NULL /\ k.ptable[prev].next = NULL
  <2>1. Rets(k, SetNext(k, prev, p))
    BY <1>2, <1>5, PtrCases, FieldRets
  <2> QED
    BY <1>3, <1>5, <2>1, QueueRets DEF LinkAfter
<1>6. CASE prev # NULL /\ k.ptable[prev].next # NULL
  <2> DEFINE k1 == SetNext(k, p, k.ptable[prev].next)
  <2>1. prev \in Slots /\ k.ptable[prev].next \in Ptr
    BY <1>6, PtrCases, TableType
  <2>2. Rets(k, k1)
    BY <2>1, FieldRets
  <2> HIDE DEF k1
  <2>3. Rets(k1, SetNext(k1, prev, p))
    BY <1>2, <2>1, <2>2, FieldRets DEF Rets
  <2>4. Rets(k, SetNext(k1, prev, p))
    BY <2>2, <2>3, RetsTrans
  <2> QED
    BY <1>1, <1>6, <2>4, QueueRets DEF LinkAfter, k1
<1> QED
  BY <1>4, <1>5, <1>6

LEMMA InsertRets ==
  ASSUME NEW k \in KernelState, NEW q \in Queues, NEW p \in Slots
  PROVE  Rets(k, pcb_queue_insert(k, q, p))
<1> DEFINE Stop == Beyond(k, q, p)
           V == Visited(k, q, Stop)
           last == LastOf(k, V, Stop)
<1>1. V \subseteq Slots /\ last \subseteq V
  BY DEF Visited, LastOf
<1>2. Rets(k, SetQueue(k, q, [head |-> p, tail |-> p, length |-> 1]))
  <2>1. [head |-> p, tail |-> p, length |-> 1] \in Queue
    BY PtrCases, LengthType DEF Queue
  <2> QED
    BY <2>1, StatusRets, QueueRets
<1>3. Rets(k, LinkAfter(k, q, k.q[q].tail, p)) /\ Rets(k, LinkAfter(k, q, NULL, p))
  BY QueueType, PtrCases, LinkAfterRets
<1>4. ASSUME last # {}
      PROVE  Rets(k, LinkAfter(k, q, CHOOSE s \in last : TRUE, p))
  <2>1. (CHOOSE s \in last : TRUE) \in Ptr
    BY <1>1, <1>4, PtrCases
  <2> QED
    BY <2>1, LinkAfterRets
<1>5. Rets(k, InsertUnlinked(k, q, p))
  <2> HIDE DEF Stop, V, last
  <2> QED
    BY <1>2, <1>3, <1>4, StatusRets, Zenon DEF InsertUnlinked, Stop, V, last
<1> QED
  BY <1>5, StatusRets DEF pcb_queue_insert

LEMMA ReadyRets ==
  ASSUME NEW k \in KernelState, NEW p \in Slots
  PROVE  Rets(k, MakeReady(k, p)) /\ Rets(k, pcb_cleanup(k, p))
<1>1. Rets(k, MakeReady(k, p))
  <2> DEFINE k1 == Detach(k, p, "Ready")
  <2>1. Rets(k, k1)
    BY FieldRets DEF States
  <2> HIDE DEF k1
  <2>2. Rets(k1, pcb_queue_insert(k1, "ready", p))
    BY <2>1, InsertRets DEF Queues, Rets
  <2> QED
    BY <2>1, <2>2, RetsTrans, StatusRets DEF MakeReady, k1
<1>2. Rets(k, pcb_cleanup(k, p))
  <2> DEFINE k1 == [k EXCEPT !.stacks = @ + 1]
             k2 == Detach(k1, p, "Unused")
  <2>1. Rets(k, k1)
    BY DEF KernelState, Rets
  <2> HIDE DEF k1
  <2>2. Rets(k1, k2)
    BY <2>1, FieldRets DEF States, Rets
  <2> HIDE DEF k2
  <2>3. Rets(k2, pcb_queue_insert(k2, "freelist", p))
    BY <2>2, InsertRets DEF Queues, Rets
  <2> QED
    BY <2>1, <2>2, <2>3, RetsTrans, StatusRets DEF pcb_cleanup, pcb_free, k1, k2
<1> QED
  BY <1>1, <1>2

LEMMA RedispatchRets ==
  ASSUME NEW k \in KernelState
  PROVE  Rets(k, Redispatch(k))
<1> DEFINE k1 == [k EXCEPT !.current = NULL]
           h == k1.q["ready"].head
           n == k1.ptable[h].next
           k2 == pcb_queue_remove(k1, "ready")
           k3 == SetState(k2, h, "Running")
           k4 == [k3 EXCEPT !.current = h, !.ticks = QUANTUM]
           k5 == [k1 EXCEPT !.current = NULL]
<1>1. k1 \in KernelState /\ Rets(k, k1)
  BY PtrCases DEF KernelState, Rets
<1> HIDE DEF k1
<1>2. Rets(k1, Panic(k5))
  <2>1. k5 \in KernelState /\ Rets(k1, k5)
    BY <1>1, PtrCases DEF KernelState, Rets
  <2> HIDE DEF k5
  <2> QED
    BY <2>1, StatusRets, RetsTrans
<1>3. ASSUME ~pcb_queue_empty(k1, "ready") PROVE Rets(k1, k4)
  <2>1. "ready" \in Queues
    BY DEF Queues
  <2>2. h \in Slots /\ n \in Ptr /\ k1.q["ready"].tail \in Ptr
    BY <1>1, <1>3, <2>1, QueueType, PtrCases, TableType DEF pcb_queue_empty
  <2> DEFINE queue == [head |-> n,
                       tail |-> IF n = NULL THEN NULL ELSE k1.q["ready"].tail,
                       length |-> IF n = NULL THEN 0 ELSE Shorter(k1, "ready")]
  <2>3. queue \in Queue
    <3>1. (IF n = NULL THEN 0 ELSE Shorter(k1, "ready")) \in 0..LenMod-1
      BY <1>1, <2>1, LengthType
    <3>2. (IF n = NULL THEN NULL ELSE k1.q["ready"].tail) \in Ptr
      BY <2>2, PtrCases
    <3> QED
      BY <2>2, <3>1, <3>2 DEF Queue
  <2>4. k2 = SetQueue(SetNext(k1, h, NULL), "ready", queue)
    BY DEF pcb_queue_remove
  <2> HIDE DEF queue, k2, h, n
  <2>5. Rets(k1, SetNext(k1, h, NULL))
    BY <1>1, <2>2, FieldRets, PtrCases
  <2>6. Rets(k1, k2)
    BY <2>1, <2>3, <2>4, <2>5, QueueRets
  <2>7. Rets(k2, k3)
    BY <2>2, <2>6, FieldRets DEF States, Rets
  <2> HIDE DEF k3
  <2>8. Rets(k3, k4)
    <3>1. h \in Ptr /\ QUANTUM \in Int
      BY <2>2, PtrCases, ProcsAssumption
    <3>2. k3 \in KernelState
      BY <2>7 DEF Rets
    <3>3. k4 \in KernelState /\ k4.ptable = k3.ptable
      BY <3>1, <3>2, Zenon DEF KernelState
    <3> QED
      BY <3>3 DEF Rets
  <2> HIDE DEF k4
  <2> QED
    BY <2>6, <2>7, <2>8, RetsTrans
<1>4. Redispatch(k) = IF ~Ok(k1) THEN k1
                      ELSE IF pcb_queue_empty(k1, "ready") THEN Panic(k5) ELSE k4
  BY Zenon DEF Redispatch, dispatch, k1
<1> HIDE DEF k4, k5
<1>5. Rets(k1, k1)
  BY <1>1, StatusRets
<1>6. Rets(k1, Redispatch(k))
  BY <1>2, <1>3, <1>4, <1>5
<1> QED
  BY <1>1, <1>6, RetsTrans
-----------------------------------------------------------------------------
(* pcb_zombify.                                                            *)

(* A waiting process is given the PID of a child that just died: it stays  *)
(* on the waiting queue.                                                   *)
Woken(k, k1) ==
  \E p, c \in Slots :
    /\ k.ptable[p].state = "Waiting" /\ k.ptable[c].state \notin {"Unused", "Zombie"}
    /\ k1.ptable[p].ret = k.ptable[c].pid

LEMMA GiveToParentWakes ==
  ASSUME NEW k \in KernelState, Ok(k), NEW v \in Slots, NEW parent \in Slots
  PROVE  LET k1 == GiveToParent(k, v, parent) IN
         k1 \in KernelState /\ k1.ptable[parent].ret = k.ptable[v].pid
<1> DEFINE kr == SetRet(k, parent, k.ptable[v].pid)
           km == MakeReady(kr, parent)
           k1 == pcb_cleanup(km, v)
<1>1. Assigned(k, kr, parent) /\ kr.ptable[parent].ret = k.ptable[v].pid
  BY TableType, SetRetIs
<1> HIDE DEF kr
<1>2. kr \in KernelState
  BY <1>1 DEF Assigned
<1>3. Rets(kr, km)
  BY <1>2, ReadyRets
<1> HIDE DEF km
<1>4. Rets(km, k1)
  BY <1>3, ReadyRets DEF Rets
<1>5. GiveToParent(k, v, parent) = k1
  BY DEF GiveToParent, kr, km
<1> HIDE DEF k1
<1> QED
  BY <1>1, <1>3, <1>4, <1>5 DEF Rets

LEMMA HeldInherit ==
  ASSUME NEW k, NEW F, Held(k, F, {}), NEW zombies \in SUBSET Slots,
         \A z \in zombies : k.ptable[z].state = "Zombie",
         \A x \in F : k.ptable[x].state # "Zombie" /\ ~(x = init_pcb /\ k.ptable[x].state = "Waiting")
  PROVE  LET k1 == Inherit(k, zombies) IN
         /\ Held(k1, F, {}) /\ k1.current = k.current /\ k1.next_pid = k.next_pid
         /\ \A x \in Slots : /\ k1.ptable[x].pid = k.ptable[x].pid
                             /\ k1.ptable[x].parent = k.ptable[x].parent
                             /\ k1.ptable[x].state # "Unused" => k.ptable[x].state # "Unused"
         /\ \A x \in Slots : k.ptable[x].state # "Zombie" /\ x # init_pcb =>
              k1.ptable[x].state = k.ptable[x].state
         /\ k1.ptable[init_pcb].state = "Waiting" => k.ptable[init_pcb].state = "Waiting"
         /\ \A x \in F : k1.ptable[x].state = k.ptable[x].state
<1>1. CASE zombies # {} /\ k.ptable[init_pcb].state = "Waiting"
  <2> DEFINE z == CHOOSE z \in zombies : TRUE
             k1 == GiveToInit(k, z)
  <2>1. z \in zombies
    BY <1>1
  <2>2. Inherit(k, zombies) = k1
    BY <1>1 DEF Inherit
  <2> HIDE DEF z
  <2>3. z \in Slots \ F /\ k.ptable[z].state = "Zombie" /\ init_pcb \notin F
    BY <1>1, <2>1
  <2>4. Held(k1, F, {}) /\ Collected(k, k1, z)
    BY <1>1, <2>3, HeldGiveToInit
  <2>5. F \subseteq Slots
    BY FineIs DEF Held
  <2> HIDE DEF k1
  <2> QED
    BY <2>2, <2>3, <2>4, <2>5 DEF Collected
<1>2. CASE ~(zombies # {} /\ k.ptable[init_pcb].state = "Waiting")
  <2>1. Inherit(k, zombies) = k
    BY <1>2, Zenon DEF Inherit
  <2> QED
    BY <2>1
<1> QED
  BY <1>1, <1>2

LEMMA HeldZombify ==
  ASSUME NEW k, NEW F, Held(k, F, {}), NEW v \in F, v # init_pcb, v # idle_pcb,
         k.ptable[v].state \notin {"Unused", "Zombie"},
         \A x \in F \ {v} : k.ptable[x].state = "Running"
  PROVE  LET k1 == pcb_zombify(k, v) IN
         \/ Woken(k, k1)
         \/ /\ Held(k1, F \ {v}, {}) /\ k1.current = k.current
            /\ \A x \in F \ {v} : k1.ptable[x].state = "Running"
<1> DEFINE parent == k.ptable[v].parent
           zombies == LastIn({s \in Orphans(k, v) : k.ptable[s].state = "Zombie"})
           ka == Reparent(k, v)
           kb == Inherit(ka, zombies)
           k1 == Bury(kb, v, parent)
<1>1. k \in KernelState /\ Ok(k) /\ F \subseteq Slots /\ Family(k)
  BY FineIs DEF Held
<1>2. v \in Slots
  BY <1>1
<1>3. /\ parent \in Slots /\ k.ptable[parent].state \notin {"Unused", "Zombie"}
      /\ parent = init_pcb \/ k.ptable[parent].pid < k.ptable[v].pid
  BY <1>1, <1>2 DEF Family
<1>4. parent # v
  <2>1. k.ptable[v].pid \in Nat
    BY <1>1, <1>2, TableType
  <2> QED
    BY <1>3, <2>1
<1>5. pcb_zombify(k, v) = k1
  <2>1. parent # NULL
    BY <1>3, BasicSlots
  <2> QED
    BY <1>1, <2>1 DEF pcb_zombify
<1>6. /\ zombies \in SUBSET Slots
      /\ \A z \in zombies : k.ptable[z].state = "Zombie"
  BY DEF LastIn, Orphans
<1>7. /\ Held(ka, F, {}) /\ ka.current = k.current /\ ka.next_pid = k.next_pid
      /\ \A x \in Slots : /\ ka.ptable[x].state = k.ptable[x].state
                          /\ ka.ptable[x].pid = k.ptable[x].pid
                          /\ ka.ptable[x].ret = k.ptable[x].ret
      /\ \A x \in Slots : ka.ptable[x].state # "Unused" => ka.ptable[x].parent # v
  BY <1>2, HeldReparent
<1> HIDE DEF ka, zombies, parent
<1>8. /\ Held(kb, F, {}) /\ kb.current = ka.current /\ kb.next_pid = ka.next_pid
      /\ \A x \in Slots : /\ kb.ptable[x].pid = ka.ptable[x].pid
                          /\ kb.ptable[x].parent = ka.ptable[x].parent
                          /\ kb.ptable[x].state # "Unused" => ka.ptable[x].state # "Unused"
      /\ \A x \in Slots : ka.ptable[x].state # "Zombie" /\ x # init_pcb =>
           kb.ptable[x].state = ka.ptable[x].state
      /\ kb.ptable[init_pcb].state = "Waiting" => ka.ptable[init_pcb].state = "Waiting"
      /\ \A x \in F : kb.ptable[x].state = ka.ptable[x].state
  <2>1. \A z \in zombies : ka.ptable[z].state = "Zombie"
    BY <1>6, <1>7
  <2>2. \A x \in F : ka.ptable[x].state # "Zombie"
                     /\ ~(x = init_pcb /\ ka.ptable[x].state = "Waiting")
    <3>1. ASSUME NEW x \in F
          PROVE  ka.ptable[x].state # "Zombie" /\ ~(x = init_pcb /\ ka.ptable[x].state = "Waiting")
      <4>1. x \in Slots /\ ka.ptable[x].state = k.ptable[x].state
        BY <1>1, <1>7
      <4>2. CASE x = v
        BY <4>1, <4>2
      <4>3. CASE x # v
        <5>1. k.ptable[x].state = "Running"
          BY <4>3
        <5> QED
          BY <4>1, <5>1
      <4> QED
        BY <4>2, <4>3
    <3> QED
      BY <3>1
  <2> QED
    BY <1>6, <1>7, <2>1, <2>2, HeldInherit
<1> HIDE DEF kb
<1>9. kb \in KernelState /\ Ok(kb)
  BY <1>8, FineIs DEF Held
<1>10. CASE IsAwaited(kb, v, parent)
  <2>1. k1 = GiveToParent(kb, v, parent)
    BY <1>9, <1>10 DEF Bury
  <2>2. k1.ptable[parent].ret = kb.ptable[v].pid
    BY <1>2, <1>3, <1>9, <2>1, GiveToParentWakes
  <2>3. kb.ptable[parent].state = "Waiting"
    BY <1>10 DEF IsAwaited
  <2>4. k.ptable[parent].state = "Waiting"
    <3>1. CASE parent = init_pcb
      BY <1>3, <1>7, <1>8, <2>3, <3>1
    <3>2. CASE parent # init_pcb
      BY <1>3, <1>7, <1>8, <2>3, <3>2
    <3> QED
      BY <3>1, <3>2
  <2>5. kb.ptable[v].pid = k.ptable[v].pid
    BY <1>2, <1>7, <1>8
  <2> HIDE DEF k1
  <2>6. Woken(k, k1)
    BY <1>2, <1>3, <2>2, <2>4, <2>5 DEF Woken
  <2> QED
    BY <1>5, <2>6
<1>11. CASE ~IsAwaited(kb, v, parent)
  <2>1. k1 = BecomeZombie(kb, v)
    BY <1>9, <1>11 DEF Bury
  <2>2. kb.ptable[v].state # "Unused"
    BY <1>2, <1>7, <1>8
  <2>3. \A x \in Slots : kb.ptable[x].state # "Unused" => kb.ptable[x].parent # v
    BY <1>7, <1>8
  <2> HIDE DEF k1
  <2>4. Held(k1, F \ {v}, {}) /\ Beside(kb, k1, v)
    BY <1>8, <2>1, <2>2, <2>3, HeldBecomeZombie
  <2>5. k1.current = k.current /\ \A x \in F \ {v} : k1.ptable[x].state = "Running"
    <3>1. \A x \in F \ {v} : kb.ptable[x].state = "Running"
      BY <1>1, <1>7, <1>8
    <3> QED
      BY <1>1, <1>7, <1>8, <2>4, <3>1 DEF Beside, SamePCB
  <2> QED
    BY <1>5, <2>4, <2>5
<1> QED
  BY <1>10, <1>11
-----------------------------------------------------------------------------
(* The dispatcher, and assignments to the frame of the current process.    *)

(* The clock, the input buffer and `current' are no matter of the queues.  *)
LEMMA HeldOther ==
  ASSUME NEW k, NEW F, NEW Z, Held(k, F, Z), NEW k1 \in KernelState, Ok(k1),
         k1.ptable = k.ptable, k1.q = k.q, k1.next_pid = k.next_pid, k1.stacks = k.stacks
  PROVE  Held(k1, F, Z)
<1>1. Fine(k, F) /\ F \subseteq Slots /\ \A x \in F : k.ptable[x].next = NULL
  BY FineIs DEF Held
<1>2. Undisturbed(k, k1, F)
  BY <1>1 DEF Undisturbed
<1>3. Fine(k1, F)
  BY <1>1, <1>2, FieldsFine
<1>4. /\ UniquePids(k) /\ Family(k) /\ Stacks(k) /\ Waits(k) /\ Spent(k, Z) /\ Basic(k)
  BY DEF Held
<1>5. UniquePids(k1) /\ Waits(k1)
  BY <1>4 DEF UniquePids, Waits
<1>6. Family(k1) /\ Spent(k1, Z) /\ Basic(k1)
  BY <1>4 DEF Family, Spent, Basic
<1>7. Stacks(k1)
  <2>1. Used(k1) = Used(k)
    BY DEF Used
  <2> QED
    BY <1>4, <2>1 DEF Stacks
<1> QED
  BY <1>3, <1>5, <1>6, <1>7 DEF Held

(* A ready process is behind the head of the ready queue, or is it.        *)
LEMMA ReadyAfterHead ==
  ASSUME NEW k, NEW F, Fine(k, F), NEW p \in Slots \ F, k.ptable[p].state = "Ready"
  PROVE  k.ptable[k.q["ready"].head].priority <= k.ptable[p].priority
<1>1. PICK L : Good(k, F, L)
  BY DEF Fine
<1>2. PICK q \in Queues : \E i \in DOMAIN L[q] : L[q][i] = p
  BY <1>1 DEF Good, Placed
<1>3. PICK i \in DOMAIN L[q] : L[q][i] = p
  BY <1>2
<1>4. q \in Home(p, "Ready")
  BY <1>1, <1>3 DEF Good, Placed
<1>5. q = "ready" /\ q \in Queues /\ ~IsFifo(q)
  BY <1>4 DEF Home, IsFifo, Queues
<1>6. i \in 1..k.q[q].length
  BY <1>1, <1>3, <1>5, QueueIs
<1>7. Key(k, q, k.q[q].head) <= Key(k, q, p)
  BY <1>1, <1>3, <1>5, <1>6, HeadLeast
<1> QED
  BY <1>5, <1>7 DEF Key

(* dispatch() from k: the head of the ready queue runs, nothing else has   *)
(* changed, and no ready process has a higher priority.                    *)
Highest(k) ==
  \A x \in Slots : k.ptable[x].state = "Ready" => Me(k).priority <= k.ptable[x].priority
Dispatched(k, k1) ==
  LET h == k1.current IN
  /\ Settled(k1) /\ k1.system_time = k.system_time /\ k1.status = k.status
  /\ k1.next_pid = k.next_pid /\ k1.stacks = k.stacks
  /\ k.ptable[h].state \in {"Ready", "Killed"} /\ SameName(k.ptable[h], k1.ptable[h])
  /\ \A x \in Slots \ {h} : SamePCB(k.ptable[x], k1.ptable[x])
  /\ Highest(k1)

LEMMA RedispatchIs ==
  ASSUME NEW k, Held(k, {}, {})
  PROVE  Dispatched(k, Redispatch(k))
<1> DEFINE kc == [k EXCEPT !.current = NULL]
           h == kc.q["ready"].head
           k2 == pcb_queue_remove(kc, "ready")
           k3 == SetState(k2, h, "Running")
           k4 == [k3 EXCEPT !.current = h, !.ticks = QUANTUM]
<1>1. k \in KernelState /\ Ok(k)
  BY FineIs DEF Held
<1>2. /\ kc \in KernelState /\ kc.status = k.status /\ kc.ptable = k.ptable /\ kc.q = k.q
      /\ kc.next_pid = k.next_pid /\ kc.stacks = k.stacks
      /\ kc.system_time = k.system_time
  BY <1>1, PtrCases DEF KernelState
<1>3. Redispatch(k) = IF ~Ok(kc) THEN kc
                      ELSE IF pcb_queue_empty(kc, "ready")
                      THEN Panic([kc EXCEPT !.current = NULL]) ELSE k4
  BY Zenon DEF Redispatch, dispatch
<1> HIDE DEF kc
<1>4. Ok(kc)
  BY <1>1, <1>2 DEF Ok
<1>5. Held(kc, {}, {})
  BY <1>2, <1>4, HeldOther
<1>6. Fine(kc, {}) /\ Basic(kc) /\ "ready" \in Queues
  BY <1>5 DEF Held, Queues
<1>7. ~pcb_queue_empty(kc, "ready")
  <2> DEFINE state == kc.ptable[idle_pcb].state
  <2>1. idle_pcb \in Slots \ {} /\ state \in {"Ready", "Running", "Killed"}
    BY <1>6, BasicSlots DEF Basic
  <2>2. \E q \in Queues : q \in Home(idle_pcb, state)
    BY <1>6, <2>1, FineIs
  <2>3. Home(idle_pcb, state) = {"ready"}
    BY <2>1, <2>2, Zenon DEF Home
  <2> QED
    BY <1>6, <2>1, <2>3, NotEmpty
<1>8. h \in Slots /\ "ready" \in Home(h, kc.ptable[h].state)
  BY <1>6, <1>7, HeadIs
<1>0. ASSUME NEW x \in Slots, kc.ptable[x].state = "Ready"
      PROVE  kc.ptable[h].priority <= kc.ptable[x].priority
  BY <1>0, <1>6, ReadyAfterHead
<1>9. Same(kc, k2) /\ Held(k2, {} \cup {h}, {})
  BY <1>5, <1>6, <1>7, HeldRemove
<1>10. Held(k2, {h}, {})
  BY <1>9
<1> HIDE DEF k2, h
<1>11. k2.ptable[h].state \in {"Ready", "Killed"}
  <2>1. kc.ptable[h].state \in {"Ready", "Killed"}
    BY <1>8 DEF Home
  <2> QED
    BY <1>8, <1>9, <2>1 DEF Same, SamePCB
<1>12. k2 \in KernelState /\ k2.ptable[h].next = NULL
  BY <1>10, FineIs DEF Held
<1>13. /\ Assigned(k2, k3, h) /\ SameName(k2.ptable[h], k3.ptable[h])
       /\ k3.ptable[h].next = NULL /\ k3.ptable[h].state = "Running"
       /\ k3.ptable[h].ret = k2.ptable[h].ret
  BY <1>8, <1>12, SetStateIs DEF States
<1> HIDE DEF k3
<1>14. Proper(k2, k3, h, {})
  BY <1>11, <1>13 DEF Proper, SameName
<1>15. Held(k3, {h}, {})
  BY <1>10, <1>13, <1>14, HeldInHand
<1>16. k3 \in KernelState /\ Ok(k3)
  BY <1>15, FineIs DEF Held
<1>17. /\ k4 \in KernelState /\ k4.current = h /\ k4.ptable = k3.ptable /\ k4.q = k3.q
       /\ k4.next_pid = k3.next_pid /\ k4.stacks = k3.stacks /\ k4.status = k3.status
       /\ k4.system_time = k3.system_time
  <2>1. h \in Ptr /\ QUANTUM \in Int
    BY <1>8, PtrCases, ProcsAssumption
  <2> QED
    BY <1>16, <2>1, Zenon DEF KernelState
<1> HIDE DEF k4
<1>18. Ok(k4)
  BY <1>16, <1>17 DEF Ok
<1>19. Held(k4, {h}, {})
  BY <1>15, <1>17, <1>18, HeldOther
<1>20. Settled(k4)
  BY <1>13, <1>17, <1>19 DEF Settled
<1>21. /\ k4.system_time = k.system_time /\ k4.status = k.status /\ k4.next_pid = k.next_pid
       /\ k4.stacks = k.stacks
       /\ \A x \in Slots \ {h} : SamePCB(k.ptable[x], k4.ptable[x])
       /\ SameName(k.ptable[h], k4.ptable[h])
  BY <1>2, <1>8, <1>9, <1>13, <1>17 DEF Same, SameRest, SamePCB, SameName, Assigned
<1>22. k.ptable[h].state \in {"Ready", "Killed"}
  BY <1>2, <1>8 DEF Home
<1>23. ASSUME NEW x \in Slots, k4.ptable[x].state = "Ready"
       PROVE  k4.ptable[h].priority <= k4.ptable[x].priority
  <2>1. x # h
    BY <1>13, <1>17, <1>23
  <2>2. kc.ptable[x].state = "Ready" /\ kc.ptable[x].priority = k4.ptable[x].priority
    BY <1>2, <1>21, <1>23, <2>1 DEF SamePCB
  <2>3. kc.ptable[h].priority = k4.ptable[h].priority
    BY <1>2, <1>21 DEF SameName
  <2> QED
    BY <1>0, <2>2, <2>3
<1>24. Dispatched(k, k4)
  BY <1>17, <1>20, <1>21, <1>22, <1>23 DEF Dispatched, Highest, Me
<1> QED
  BY <1>3, <1>4, <1>7, <1>24

LEMMA HeldRedispatch ==
  ASSUME NEW k, Held(k, {}, {})
  PROVE  Settled(Redispatch(k))
BY RedispatchIs DEF Dispatched

LEMMA HeldTuned ==
  ASSUME NEW k, NEW F, NEW Z, Held(k, F, Z), NEW p \in F, NEW pcb \in PCB,
         pcb.next = NULL, pcb.pid = k.ptable[p].pid, pcb.parent = k.ptable[p].parent,
         pcb.state = k.ptable[p].state, pcb.state = "Running",
         pcb.ret = k.ptable[p].ret \/ pcb.ret <= 0
  PROVE  LET k1 == SetPCB(k, p, pcb) IN
         Held(k1, F, Z) /\ Assigned(k, k1, p) /\ k1.ptable[p] = pcb
<1> DEFINE k1 == SetPCB(k, p, pcb)
<1>1. k \in KernelState /\ p \in Slots
  BY FineIs DEF Held
<1>2. Assigned(k, k1, p) /\ k1.ptable[p] = pcb
  BY <1>1, SetPCBAssigned
<1> HIDE DEF k1
<1>3. Proper(k, k1, p, Z)
  BY <1>2 DEF Proper
<1>4. Held(k1, F, Z)
  BY <1>2, <1>3, HeldInHand
<1> QED
  BY <1>2, <1>4 DEF k1

LEMMA SettledIs ==
  ASSUME NEW k, Settled(k)
  PROVE  /\ Held(k, {k.current}, {}) /\ k \in KernelState /\ Ok(k) /\ k.current \in Slots
         /\ k.ptable[k.current].state = "Running" /\ k.ptable[k.current].next = NULL
         /\ Me(k) = k.ptable[k.current] /\ Me(k) \in PCB
<1>1. Held(k, {k.current}, {}) /\ k.ptable[k.current].state = "Running"
  BY DEF Settled
<1>2. k \in KernelState /\ Ok(k) /\ k.current \in Slots /\ k.ptable[k.current].next = NULL
  BY <1>1, FineIs DEF Held
<1> QED
  BY <1>1, <1>2, TableType DEF Me

(* An assignment to the frame of the current process.                      *)
Onward(k, k1) ==
  /\ Settled(k1) /\ k1.current = k.current /\ k1.next_pid = k.next_pid
  /\ k1.q = k.q /\ k1.stacks = k.stacks /\ k1.system_time = k.system_time
  /\ k1.status = k.status
  /\ \A x \in Slots \ {k.current} : k1.ptable[x] = k.ptable[x]
  /\ Me(k1).pid = Me(k).pid /\ Me(k1).parent = Me(k).parent /\ Me(k1).state = Me(k).state

(* A sleeper keeps the state Running: sys_sleep does not change it.        *)
Sleeps(k, p) == k.ptable[p].state = "Running" /\ p # k.current

(* A PID is given with a stack, and a stack comes back with the process.   *)
Balance(k) == k.next_pid + k.stacks

(* From k to k1 nobody falls asleep, wakes up or ends, and no time passes. *)
Calm(k, k1) ==
  /\ Settled(k1) /\ k1.system_time = k.system_time /\ Balance(k1) = Balance(k)
  /\ \A x \in Slots : /\ Sleeps(k1, x) <=> Sleeps(k, x)
                      /\ Sleeps(k, x) => k1.ptable[x].wakeup = k.ptable[x].wakeup

LEMMA OnwardCalm ==
  ASSUME NEW k, NEW k1, Onward(k, k1) PROVE Calm(k, k1)
BY DEF Onward, Calm, Sleeps, Balance

LEMMA CalmTrans ==
  ASSUME NEW a, NEW b, NEW c, Calm(a, b), Calm(b, c) PROVE Calm(a, c)
BY DEF Calm

LEMMA Tuned ==
  ASSUME NEW k, Settled(k), NEW pcb \in PCB, pcb.next = NULL, pcb.pid = Me(k).pid,
         pcb.parent = Me(k).parent, pcb.state = Me(k).state, pcb.ret = Me(k).ret \/ pcb.ret <= 0
  PROVE  LET k1 == SetPCB(k, k.current, pcb) IN Onward(k, k1) /\ Me(k1) = pcb
<1> DEFINE p == k.current
           k1 == SetPCB(k, p, pcb)
<1>1. /\ Held(k, {p}, {}) /\ p \in Slots /\ k.ptable[p].state = "Running" /\ Me(k) = k.ptable[p]
  BY SettledIs
<1>2. Held(k1, {p}, {}) /\ Assigned(k, k1, p) /\ k1.ptable[p] = pcb
  <2> HIDE DEF p
  <2>1. p \in {p}
    OBVIOUS
  <2> QED
    BY <1>1, <2>1, HeldTuned
<1> HIDE DEF k1
<1>3. k1.current = p
  BY <1>2 DEF Assigned, SameRest
<1>4. Settled(k1) /\ Me(k1) = pcb
  BY <1>1, <1>2, <1>3 DEF Settled, Me
<1>5. Onward(k, k1)
  BY <1>2, <1>3, <1>4 DEF Onward, Assigned, SameRest
<1> QED
  BY <1>4, <1>5 DEF k1

LEMMA EnterIs ==
  ASSUME NEW k, Settled(k), NEW arg \in Nat
  PROVE  LET k1 == Enter(k, arg) IN Onward(k, k1) /\ Me(k1).ret = 0
<1> DEFINE a == Me(k)
           b == [a EXCEPT !.ret = 0, !.arg = arg]
           k1 == SetPCB(k, k.current, b)
<1>1. a \in PCB /\ a.next = NULL
  BY SettledIs
<1>2. Enter(k, arg) = k1
  BY DEF Enter
<1> HIDE DEF a
<1>3. b \in PCB /\ b.next = NULL /\ b.pid = a.pid /\ b.parent = a.parent /\ b.state = a.state
      /\ b.ret = 0
  <2>1. 0 \in Int
    OBVIOUS
  <2> QED
    BY <1>1, <2>1, Zenon DEF PCB
<1> HIDE DEF b
<1>4. Onward(k, k1) /\ Me(k1) = b
  BY <1>3, Tuned DEF a
<1> QED
  BY <1>2, <1>3, <1>4

LEMMA ReturnIs ==
  ASSUME NEW k, Settled(k), NEW r \in Int, r <= 0
  PROVE  Onward(k, Return(k, r))
<1> DEFINE a == Me(k)
           b == [a EXCEPT !.ret = r]
           k1 == SetPCB(k, k.current, b)
<1>1. a \in PCB /\ a.next = NULL /\ a = k.ptable[k.current]
  BY SettledIs
<1>2. Return(k, r) = k1
  BY <1>1 DEF Return, SetRet
<1> HIDE DEF a
<1>3. b \in PCB /\ b.next = NULL /\ b.pid = a.pid /\ b.parent = a.parent /\ b.state = a.state
      /\ b.ret = r
  BY <1>1, Zenon DEF PCB
<1> HIDE DEF b
<1>4. Onward(k, k1)
  BY <1>3, Tuned DEF a
<1> QED
  BY <1>2, <1>4

LEMMA OnwardTrans ==
  ASSUME NEW a, NEW b, NEW c, Onward(a, b), Onward(b, c) PROVE Onward(a, c)
BY DEF Onward
-----------------------------------------------------------------------------
(* The handlers.                                                           *)

(* The step from k to k1 sets `stale': waitpid gets a PID otherwise than   *)
(* by init's inheriting a zombie.                                          *)
Marks(k, k1) ==
  \E p \in Slots :
    /\ k1.ptable[p].ret > 0 /\ k1.ptable[p].ret # k.ptable[p].ret
    /\ ~(/\ p = init_pcb /\ k.ptable[p].state = "Waiting"
         /\ k.ptable[pcb_find_pid(k, k1.ptable[p].ret)].state = "Zombie")

LEMMA FoundPid ==
  ASSUME NEW k, UniquePids(k), Basic(k), k \in KernelState, NEW c \in Slots,
         k.ptable[c].state # "Unused"
  PROVE  pcb_find_pid(k, k.ptable[c].pid) = c /\ k.ptable[c].pid > 0
<1> DEFINE pid == k.ptable[c].pid
           S == {s \in Slots : k.ptable[s].pid = pid /\ k.ptable[s].state # "Unused"}
<1>1. pid > 0 /\ pid \in Nat
  BY TableType DEF Basic
<1>2. S = {c}
  BY <1>1 DEF UniquePids
<1> HIDE DEF S
<1>3. FirstIn(S) = {c}
  BY <1>2 DEF FirstIn, Slots
<1>4. pcb_find_pid(k, pid) = IF pid < 1 \/ FirstIn(S) = {} THEN NULL
                             ELSE CHOOSE s \in FirstIn(S) : TRUE
  BY DEF pcb_find_pid, S
<1> HIDE DEF pid
<1>5. ~(pid < 1) /\ FirstIn(S) # {} /\ (CHOOSE s \in FirstIn(S) : TRUE) = c
  BY <1>1, <1>3
<1>6. pcb_find_pid(k, pid) = c
  BY <1>4, <1>5
<1> QED
  BY <1>1, <1>6 DEF pid

LEMMA WokenMarks ==
  ASSUME NEW k, NEW k1, Settled(k), Woken(k, k1)
  PROVE  Marks(k, k1)
<1>1. k \in KernelState /\ UniquePids(k) /\ Basic(k) /\ Waits(k)
  BY SettledIs DEF Held
<1>2. PICK p, c \in Slots :
        /\ k.ptable[p].state = "Waiting" /\ k.ptable[c].state \notin {"Unused", "Zombie"}
        /\ k1.ptable[p].ret = k.ptable[c].pid
  BY DEF Woken
<1>3. pcb_find_pid(k, k.ptable[c].pid) = c /\ k.ptable[c].pid > 0
  BY <1>1, <1>2, FoundPid
<1>4. k.ptable[p].ret = 0
  BY <1>1, <1>2 DEF Waits
<1> QED
  BY <1>2, <1>3, <1>4 DEF Marks

(* What happens around pcb_zombify does not hide what it did.              *)
LEMMA WokenAround ==
  ASSUME NEW k, NEW k1, NEW k2, NEW k3, Woken(k1, k2),
         \A x \in Slots : /\ k1.ptable[x].state = k.ptable[x].state
                          /\ k1.ptable[x].pid = k.ptable[x].pid,
         \A x \in Slots : k.ptable[x].state = "Waiting" => k3.ptable[x].ret = k2.ptable[x].ret
  PROVE  Woken(k, k3)
<1>1. PICK p, c \in Slots :
        /\ k1.ptable[p].state = "Waiting" /\ k1.ptable[c].state \notin {"Unused", "Zombie"}
        /\ k2.ptable[p].ret = k1.ptable[c].pid
  BY DEF Woken
<1>2. /\ k.ptable[p].state = "Waiting" /\ k.ptable[c].state \notin {"Unused", "Zombie"}
      /\ k3.ptable[p].ret = k.ptable[c].pid
  BY <1>1
<1> QED
  BY <1>2 DEF Woken

LEMMA OnwardStates ==
  ASSUME NEW k, NEW k1, Settled(k), Onward(k, k1)
  PROVE  \A x \in Slots : /\ k1.ptable[x].state = k.ptable[x].state
                          /\ k1.ptable[x].pid = k.ptable[x].pid
<1>1. /\ k1.current = k.current /\ Me(k1).pid = Me(k).pid /\ Me(k1).state = Me(k).state
      /\ \A x \in Slots \ {k.current} : k1.ptable[x] = k.ptable[x]
  BY DEF Onward
<1> QED
  BY <1>1 DEF Me

(* A handler ends with the queues sound, or sets `stale'.                  *)
Served(k, k1) == Settled(k1) \/ Marks(k, k1)

(* A process that makes a call is not idle, and only init's calls are its. *)
LEMMA Caller ==
  ASSUME NEW k, Settled(k)
  PROVE  /\ Me(k).pid # PID_INIT <=> k.current # init_pcb
         /\ Me(k).pid # PID_IDLE <=> k.current # idle_pcb
<1>1. Basic(k) /\ UniquePids(k) /\ Me(k) = k.ptable[k.current] /\ k.current \in Slots
  BY SettledIs DEF Held, Me
<1> QED
  BY <1>1, BasicSlots DEF Basic, UniquePids, PID_INIT, PID_IDLE

LEMMA ZombifyMe ==
  ASSUME NEW k0, NEW k, Settled(k0), Onward(k0, k),
         k.current # init_pcb, k.current # idle_pcb
  PROVE  Served(k0, Redispatch(pcb_zombify(k, k.current)))
<1> DEFINE v == k.current
           k2 == pcb_zombify(k, v)
           k3 == Redispatch(k2)
<1>1. Settled(k)
  BY DEF Onward
<1>2. /\ Held(k, {v}, {}) /\ k \in KernelState /\ v \in Slots /\ k.ptable[v].state = "Running"
  BY <1>1, SettledIs
<1>3. Keeps(k, k2)
  BY <1>2, ZombifyKeeps
<1>4. \/ Woken(k, k2)
      \/ Held(k2, {v} \ {v}, {})
  <2> DEFINE F == {v}
  <2>1. v \in F /\ Held(k, F, {}) /\ \A x \in F \ {v} : k.ptable[x].state = "Running"
    BY <1>2
  <2> HIDE DEF F, v
  <2>2. \/ Woken(k, k2) \/ Held(k2, F \ {v}, {})
    BY <1>2, <2>1, HeldZombify DEF v
  <2> QED
    BY <2>2 DEF F
<1> HIDE DEF k2
<1>5. CASE Woken(k, k2)
  <2>1. Rets(k2, k3)
    BY <1>3, RedispatchRets DEF Keeps
  <2> HIDE DEF k3
  <2>2. Woken(k0, k3)
    BY <1>5, <2>1, OnwardStates, WokenAround DEF Rets
  <2>3. Marks(k0, k3)
    BY <2>2, WokenMarks
  <2> QED
    BY <2>3 DEF Served, k3, k2
<1>6. CASE Held(k2, {v} \ {v}, {})
  <2>1. {v} \ {v} = {}
    OBVIOUS
  <2>2. Held(k2, {}, {})
    BY <1>6, <2>1
  <2>3. Settled(k3)
    BY <2>2, HeldRedispatch
  <2> QED
    BY <2>3 DEF Served, k2
<1> QED
  BY <1>4, <1>5, <1>6

LEMMA OnwardSelf ==
  ASSUME NEW k, Settled(k) PROVE Onward(k, k)
BY DEF Onward

LEMMA ExitHolds ==
  ASSUME NEW k0, NEW ke, Settled(k0), Onward(k0, ke),
         Me(k0).pid \notin {PID_INIT, PID_IDLE}, NEW status \in Int
  PROVE  Served(k0, sys_exit(ke, status))
<1> DEFINE k == Enter(ke, 0)
           a == Me(k)
           b == [a EXCEPT !.exit_status = status]
           k1 == SetPCB(k, k.current, b)
<1>1. Onward(k0, k)
  <2>1. Onward(ke, k)
    BY EnterIs DEF Onward
  <2> HIDE DEF k
  <2> QED
    BY <2>1, OnwardTrans
<1> HIDE DEF k
<1>2. Settled(k) /\ k.current = k0.current /\ a.pid = Me(k0).pid
  BY <1>1 DEF Onward
<1>3. a \in PCB /\ a.next = NULL
  BY <1>2, SettledIs
<1> HIDE DEF a
<1>4. b \in PCB /\ b.next = NULL /\ b.pid = a.pid /\ b.parent = a.parent /\ b.state = a.state
      /\ b.ret = a.ret
  BY <1>3, Zenon DEF PCB
<1> HIDE DEF b
<1>5. Onward(k, k1)
  BY <1>2, <1>4, Tuned DEF a
<1>6. sys_exit(ke, status) = Redispatch(pcb_zombify(k1, k.current))
  BY DEF sys_exit, k, a, b
<1> HIDE DEF k1
<1>7. Onward(k0, k1) /\ k1.current = k.current
  BY <1>1, <1>5, OnwardTrans DEF Onward
<1>8. k1.current # init_pcb /\ k1.current # idle_pcb
  BY <1>2, <1>7, Caller
<1>9. Served(k0, Redispatch(pcb_zombify(k1, k1.current)))
  BY <1>7, <1>8, ZombifyMe
<1> QED
  BY <1>6, <1>7, <1>9
(* A call that blocks: the caller joins a queue and another one runs.      *)
LEMMA BlockHolds ==
  ASSUME NEW k, Settled(k), k.current # idle_pcb, NEW q \in Queues,
         NEW state \in States \ {"Unused", "Zombie"}, q \in Home(k.current, state),
         state = "Waiting" => Me(k).ret = 0,
         k.current = init_pcb => state = "Waiting"
  PROVE  Settled(Redispatch(pcb_queue_insert(SetState(k, k.current, state), q, k.current)))
<1> DEFINE p == k.current
           F == {p}
           k1 == SetState(k, p, state)
           k2 == pcb_queue_insert(k1, q, p)
<1>1. /\ Held(k, F, {}) /\ k \in KernelState /\ p \in Slots /\ p \in F
      /\ k.ptable[p].state = "Running" /\ k.ptable[p].next = NULL /\ Me(k) = k.ptable[p]
  BY SettledIs
<1> HIDE DEF p, F
<1>2. /\ Assigned(k, k1, p) /\ SameName(k.ptable[p], k1.ptable[p])
      /\ k1.ptable[p].next = NULL /\ k1.ptable[p].state = state
      /\ k1.ptable[p].ret = k.ptable[p].ret
  BY <1>1, SetStateIs
<1> HIDE DEF k1
<1>3. Proper(k, k1, p, {})
  BY <1>1, <1>2 DEF Proper, SameName, p
<1>4. Held(k1, F, {})
  BY <1>1, <1>2, <1>3, HeldInHand
<1>5. q \in Home(p, k1.ptable[p].state)
  BY <1>2 DEF p
<1>6. Held(k2, F \ {p}, {})
  BY <1>1, <1>4, <1>5, HeldInsert
<1>7. F \ {p} = {}
  BY DEF F
<1> HIDE DEF k2
<1>8. Settled(Redispatch(k2))
  BY <1>6, <1>7, HeldRedispatch
<1> QED
  BY <1>8 DEF k2, k1, p

LEMMA WaitBlockHolds ==
  ASSUME NEW k, Settled(k), k.current # idle_pcb, Me(k).ret = 0
  PROVE  Settled(WaitBlock(k))
<1>1. "waiting" \in Queues /\ "waiting" \in Home(k.current, "Waiting")
      /\ "Waiting" \in States \ {"Unused", "Zombie"}
  BY DEF Queues, Home, States
<1> QED
  BY <1>1, BlockHolds DEF WaitBlock

LEMMA CollectMarks ==
  ASSUME NEW k0, NEW k, Settled(k0), Onward(k0, k), NEW child \in Slots,
         k.ptable[child].state = "Zombie"
  PROVE  Marks(k0, Collect(k, child))
<1> DEFINE p == k.current
           pid == k.ptable[child].pid
           k1 == SetRet(k, p, pid)
           k2 == pcb_cleanup(k1, child)
<1>1. Settled(k) /\ p = k0.current
  BY DEF Onward
<1>2. /\ k \in KernelState /\ p \in Slots /\ k0 \in KernelState /\ pid \in Int
      /\ k0.ptable[p].state = "Running" /\ k.ptable[p].state = "Running"
      /\ UniquePids(k0) /\ Basic(k0) /\ Spent(k0, {})
  <2>1. k \in KernelState /\ p \in Slots /\ k.ptable[p].state = "Running"
    BY <1>1, SettledIs
  <2>2. k0 \in KernelState /\ k0.ptable[k0.current].state = "Running"
        /\ UniquePids(k0) /\ Basic(k0) /\ Spent(k0, {})
    BY SettledIs DEF Held
  <2> QED
    BY <1>1, <2>1, <2>2, TableType
<1>3. Collect(k, child) = k2
  BY DEF Collect, Return
<1>4. k0.ptable[child].state = "Zombie" /\ k0.ptable[child].pid = pid
  BY OnwardStates
<1> HIDE DEF p, pid
<1>5. pid > 0
  BY <1>2, <1>4 DEF Basic
<1>6. k0.ptable[p].ret # pid
  <2>1. CASE k0.ptable[p].ret > 0
    BY <1>2, <1>4, <2>1 DEF Spent
  <2>2. CASE ~(k0.ptable[p].ret > 0)
    BY <1>5, <2>2
  <2> QED
    BY <2>1, <2>2
<1>7. Assigned(k, k1, p) /\ k1.ptable[p].ret = pid
  BY <1>2, SetRetIs
<1> HIDE DEF k1
<1>8. Rets(k1, k2)
  BY <1>7, ReadyRets DEF Assigned
<1> HIDE DEF k2
<1>9. k2.ptable[p].ret = pid
  BY <1>2, <1>7, <1>8 DEF Rets
<1>10. Marks(k0, k2)
  BY <1>2, <1>5, <1>6, <1>9 DEF Marks
<1> QED
  BY <1>3, <1>10

LEMMA WaitpidHolds ==
  ASSUME NEW k0, Settled(k0), Me(k0).pid # PID_IDLE, NEW target \in Nat
  PROVE  Served(k0, sys_waitpid(k0, target))
<1> DEFINE k == Enter(k0, target)
           dead == FirstIn({s \in ChildSlots(k) : k.ptable[s].state = "Zombie"})
           child == pcb_find_pid(k, target)
           one == CHOOSE s \in dead : TRUE
<1>1. Onward(k0, k) /\ Me(k).ret = 0
  BY EnterIs
<1>2. sys_waitpid(k0, target) =
        IF target = Me(k).pid THEN Return(k, E_BAD_PARAM)
        ELSE IF target = 0 THEN WaitAny(k) ELSE WaitFor(k, target)
  BY DEF sys_waitpid
<1> HIDE DEF k
<1>3. Settled(k) /\ k.current # idle_pcb
  BY <1>1, Caller DEF Onward
<1>4. ASSUME NEW r \in Int, r <= 0 PROVE Served(k0, Return(k, r))
  <2>1. Settled(Return(k, r))
    BY <1>3, <1>4, ReturnIs DEF Onward
  <2> QED
    BY <2>1 DEF Served
<1>5. Served(k0, Return(k, E_BAD_PARAM)) /\ Served(k0, Return(k, E_NO_CHILDREN))
  BY <1>4 DEF E_BAD_PARAM, E_NO_CHILDREN
<1>6. Served(k0, WaitBlock(k))
  BY <1>1, <1>3, WaitBlockHolds DEF Served
<1>7. ASSUME NEW s \in Slots, k.ptable[s].state = "Zombie" PROVE Served(k0, Collect(k, s))
  BY <1>1, <1>7, CollectMarks DEF Served
<1>8. Served(k0, WaitAny(k))
  <2>1. ASSUME dead # {} PROVE Served(k0, Collect(k, one))
    <3>1. one \in dead
      BY <2>1
    <3>2. one \in Slots /\ k.ptable[one].state = "Zombie"
      BY <3>1 DEF FirstIn, ChildSlots
    <3> HIDE DEF one
    <3> QED
      BY <1>7, <3>2
  <2>2. WaitAny(k) = IF ChildSlots(k) = {} THEN Return(k, E_NO_CHILDREN)
                     ELSE IF dead = {} THEN WaitBlock(k) ELSE Collect(k, one)
    BY DEF WaitAny
  <2> HIDE DEF dead, one
  <2> QED
    BY <1>5, <1>6, <2>1, <2>2
<1>9. Served(k0, WaitFor(k, target))
  <2>1. WaitFor(k, target) =
          IF child = NULL THEN Return(k, E_BAD_PARAM)
          ELSE IF k.ptable[child].parent # k.current THEN Return(k, E_BAD_PARAM)
          ELSE IF k.ptable[child].state # "Zombie" THEN WaitBlock(k) ELSE Collect(k, child)
    BY DEF WaitFor
  <2>2. k \in KernelState
    BY <1>3, SettledIs
  <2>3. child # NULL => child \in Slots
    BY <2>2, FindPid
  <2> HIDE DEF child
  <2> QED
    BY <1>5, <1>6, <1>7, <2>1, <2>3
<1> QED
  BY <1>2, <1>5, <1>8, <1>9
(* An assignment to a PCB on a queue that leaves it where its state says.  *)
LEMMA HeldOnList ==
  ASSUME NEW k, NEW F, NEW Z, Held(k, F, Z), NEW p \in Slots \ F, NEW k1,
         Assigned(k, k1, p), Proper(k, k1, p, Z), SameName(k.ptable[p], k1.ptable[p]),
         k1.ptable[p].next = k.ptable[p].next,
         Home(p, k.ptable[p].state) \subseteq Home(p, k1.ptable[p].state)
  PROVE  Held(k1, F, Z)
<1>1. Fine(k, F)
  BY DEF Held
<1>2. Ok(k) /\ F \subseteq Slots /\ \A x \in F : k.ptable[x].next = NULL
  BY <1>1, FineIs
<1>3. /\ k1 \in KernelState /\ k1.status = k.status /\ k1.q = k.q
      /\ \A x \in Slots \ {p} : k1.ptable[x] = k.ptable[x]
  BY DEF Assigned, SameRest
<1>4. Ok(k1)
  BY <1>2, <1>3 DEF Ok
<1>5. ASSUME NEW x \in Slots \ F
      PROVE  /\ k1.ptable[x].next = k.ptable[x].next
             /\ k1.ptable[x].pid = k.ptable[x].pid
             /\ k1.ptable[x].priority = k.ptable[x].priority
             /\ k1.ptable[x].wakeup = k.ptable[x].wakeup
             /\ Home(x, k.ptable[x].state) \subseteq Home(x, k1.ptable[x].state)
  <2>1. CASE x = p
    BY <2>1 DEF SameName
  <2>2. CASE x # p
    BY <1>3, <2>2
  <2> QED
    BY <2>1, <2>2
<1>6. \A x \in F : k1.ptable[x].next = NULL
  BY <1>2, <1>3
<1>7. Undisturbed(k, k1, F)
  BY <1>3, <1>4, <1>5, <1>6 DEF Undisturbed
<1>8. Fine(k1, F)
  BY <1>1, <1>7, FieldsFine
<1> QED
  BY <1>8, HeldAssigned

(* pcb_find_pid returns a process with the PID.                            *)
LEMMA FoundIs ==
  ASSUME NEW k, NEW pid, pcb_find_pid(k, pid) # NULL
  PROVE  LET c == pcb_find_pid(k, pid) IN
         c \in Slots /\ k.ptable[c].pid = pid /\ k.ptable[c].state # "Unused"
<1> DEFINE S == {s \in Slots : k.ptable[s].pid = pid /\ k.ptable[s].state # "Unused"}
           found == FirstIn(S)
           c == CHOOSE s \in found : TRUE
<1>1. pcb_find_pid(k, pid) = IF pid < 1 \/ found = {} THEN NULL ELSE c
  BY DEF pcb_find_pid
<1>2. found \subseteq S
  BY DEF FirstIn
<1> HIDE DEF found
<1>3. found # {} /\ pcb_find_pid(k, pid) = c
  BY <1>1
<1>4. c \in found
  BY <1>3
<1> QED
  BY <1>2, <1>3, <1>4

(* kill of a process that waits: it is taken off the waiting queue before  *)
(* it becomes a zombie.                                                    *)
LEMMA KillWaiterHolds ==
  ASSUME NEW k0, NEW k, Settled(k0), Onward(k0, k),
         NEW victim \in Slots \ {k.current}, victim # init_pcb,
         k.ptable[victim].state = "Waiting"
  PROVE  Served(k0, KillWaiter(k, victim))
<1> DEFINE me == k.current
           F == {me}
           a == k.ptable[victim]
           b == [a EXCEPT !.exit_status = EXIT_KILLED]
           k1 == SetPCB(k, victim, b)
           status == RemoveStatus(k1, "waiting", victim)
           k2 == pcb_queue_remove_this(k1, "waiting", victim)
           k3 == pcb_zombify(k2, victim)
           k4 == Return(k3, SUCCESS)
<1>1. Settled(k) /\ me = k0.current
  BY DEF Onward
<1>2. /\ Held(k, F, {}) /\ k \in KernelState /\ me \in Slots /\ victim \in Slots \ F
      /\ k.ptable[me].state = "Running" /\ victim # me
  BY <1>1, SettledIs
<1>3. Basic(k) /\ Waits(k) /\ a.ret = 0 /\ victim # idle_pcb
  <2>1. Basic(k) /\ Waits(k)
    BY <1>2 DEF Held
  <2> QED
    BY <2>1 DEF Basic, Waits
<1>4. KillWaiter(k, victim) = Deliver(k3, status)
  BY DEF KillWaiter
<1>5. a \in PCB
  BY <1>2, TableType
<1> HIDE DEF a, F, me
<1>6. b \in PCB /\ SameName(a, b) /\ b.next = a.next /\ b.state = a.state /\ b.ret = a.ret
  <2>1. EXIT_KILLED \in Int
    BY DEF EXIT_KILLED
  <2> QED
    BY <1>5, <2>1, Zenon DEF PCB, SameName
<1> HIDE DEF b
<1>7. Assigned(k, k1, victim) /\ k1.ptable[victim] = b
  BY <1>2, <1>6, SetPCBAssigned
<1> HIDE DEF k1
<1>8. Proper(k, k1, victim, {})
  BY <1>3, <1>6, <1>7 DEF Proper, SameName, a
<1>9. Held(k1, F, {})
  BY <1>2, <1>6, <1>7, <1>8, HeldOnList DEF a
<1>10. "waiting" \in Queues /\ Home(victim, k1.ptable[victim].state) = {"waiting"}
  BY <1>6, <1>7 DEF a, Queues, Home
<1>11. status = SUCCESS /\ Same(k1, k2) /\ Held(k2, F \cup {victim}, {})
  BY <1>2, <1>9, <1>10, HeldRemoveThis
<1> HIDE DEF k2, status
<1>12. /\ k2 \in KernelState /\ k2.current = me
       /\ \A x \in Slots : k2.ptable[x].state = k.ptable[x].state
                           /\ k2.ptable[x].pid = k.ptable[x].pid
  <2>1. \A x \in Slots : k1.ptable[x].state = k.ptable[x].state
                         /\ k1.ptable[x].pid = k.ptable[x].pid
    BY <1>6, <1>7 DEF Assigned, a, SameName
  <2> QED
    BY <1>7, <1>11, <2>1 DEF Same, SameRest, SamePCB, Assigned, me
<1>13. Keeps(k2, k3)
  BY <1>12, ZombifyKeeps
<1>14. k3 \in KernelState /\ k3.current = me
  BY <1>12, <1>13 DEF Keeps
<1>15. \/ Woken(k2, k3)
       \/ Settled(k3)
  <2> DEFINE G == F \cup {victim}
  <2>1. victim \in G /\ G \ {victim} = F /\ F = {me}
    BY <1>2 DEF F
  <2>2. /\ k2.ptable[victim].state \notin {"Unused", "Zombie"}
        /\ \A x \in G \ {victim} : k2.ptable[x].state = "Running"
    BY <1>2, <1>12, <2>1
  <2>3. Held(k2, G, {})
    BY <1>11
  <2> HIDE DEF G, k3
  <2>4. \/ Woken(k2, k3)
        \/ Held(k3, G \ {victim}, {}) /\ \A x \in G \ {victim} : k3.ptable[x].state = "Running"
    BY <1>3, <2>1, <2>2, <2>3, HeldZombify DEF k3
  <2> QED
    BY <1>14, <2>1, <2>4 DEF Settled
<1> HIDE DEF k3
<1>16. Deliver(k3, status) = IF ~Ok(k3) THEN k3 ELSE k4
  BY <1>11 DEF Deliver
<1>17. CASE Settled(k3)
  <2>1. Ok(k3)
    BY <1>17, SettledIs
  <2>2. Settled(k4)
    BY <1>17, ReturnIs DEF SUCCESS, Onward
  <2> QED
    BY <1>4, <1>16, <2>1, <2>2 DEF Served
<1>18. CASE Woken(k2, k3)
  <2> DEFINE kn == Deliver(k3, status)
  <2>1. \A x \in Slots : k2.ptable[x].state = k0.ptable[x].state
                         /\ k2.ptable[x].pid = k0.ptable[x].pid
    BY <1>12, OnwardStates
  <2>2. ASSUME NEW x \in Slots, k0.ptable[x].state = "Waiting"
        PROVE  kn.ptable[x].ret = k3.ptable[x].ret
    <3>1. x # me
      BY <1>2, <1>12, <2>1, <2>2
    <3>2. Assigned(k3, k4, me)
      BY <1>2, <1>14, SetRetIs DEF Return, SUCCESS
    <3>3. k4.ptable[x].ret = k3.ptable[x].ret
      BY <3>1, <3>2 DEF Assigned
    <3> HIDE DEF k4
    <3> QED
      BY <1>16, <3>3
  <2> HIDE DEF kn
  <2>3. Woken(k0, kn)
    BY <1>18, <2>1, <2>2, WokenAround
  <2>4. Marks(k0, kn)
    BY <2>3, WokenMarks
  <2> QED
    BY <1>4, <2>4 DEF Served, kn
<1> QED
  BY <1>15, <1>17, <1>18
(* kill of a process on a queue marks it and leaves it there.              *)
LEMMA KillMarkedHolds ==
  ASSUME NEW k, Settled(k), NEW victim \in Slots \ {k.current}, victim # init_pcb,
         k.ptable[victim].state \in {"Ready", "Blocked"}
  PROVE  Settled(Return(SetState(k, victim, "Killed"), SUCCESS))
<1> DEFINE me == k.current
           F == {me}
           a == k.ptable[victim]
           k1 == SetState(k, victim, "Killed")
           b == k1.ptable[victim]
           k2 == Return(k1, SUCCESS)
<1>1. /\ Held(k, F, {}) /\ k \in KernelState /\ me \in Slots /\ victim \in Slots \ F
      /\ k.ptable[me].state = "Running" /\ victim # me
  BY SettledIs
<1>2. Basic(k)
  BY <1>1 DEF Held
<1> HIDE DEF F, me
<1>3. /\ Assigned(k, k1, victim) /\ SameName(a, b)
      /\ b.next = a.next /\ b.state = "Killed" /\ b.ret = a.ret
  BY <1>1, SetStateIs DEF States
<1> HIDE DEF k1
<1>4. Proper(k, k1, victim, {})
  BY <1>3 DEF Proper, SameName
<1>5. Home(victim, a.state) \subseteq Home(victim, b.state)
  <2>1. CASE a.state = "Ready"
    BY <1>3, <2>1 DEF Home
  <2>2. CASE a.state = "Blocked"
    <3>1. victim # idle_pcb
      BY <1>2, <2>2 DEF Basic
    <3> QED
      BY <1>3, <2>2, <3>1 DEF Home
  <2> QED
    BY <2>1, <2>2
<1>6. Held(k1, F, {})
  BY <1>1, <1>3, <1>4, <1>5, HeldOnList
<1>7. k1.current = me /\ k1.ptable[me].state = "Running"
  BY <1>1, <1>3 DEF Assigned, SameRest, me
<1>8. Settled(k1)
  BY <1>6, <1>7 DEF Settled, F
<1>9. Settled(k2)
  BY <1>8, ReturnIs DEF SUCCESS, Onward
<1> QED
  BY <1>9 DEF k1

LEMMA KillVictimHolds ==
  ASSUME NEW k0, NEW k, Settled(k0), Onward(k0, k),
         Me(k0).pid \notin {PID_INIT, PID_IDLE},
         NEW victim \in Slots \ {k.current}, victim # init_pcb,
         k.ptable[victim].state # "Unused"
  PROVE  Served(k0, KillVictim(k, victim))
<1> DEFINE state == k.ptable[victim].state
<1>1. Settled(k) /\ k.current = k0.current
  BY DEF Onward
<1>2. Fine(k, {k.current}) /\ Basic(k)
  BY <1>1, SettledIs DEF Held
<1>3. state \in {"Killed", "Zombie", "Ready", "Blocked", "Running", "Waiting"}
  <2>1. \E q \in Queues : q \in Home(victim, state)
    BY <1>2, FineIs
  <2>2. CASE state \in {"Killed", "Zombie", "Ready", "Blocked", "Running", "Waiting"}
    BY <2>2
  <2>3. CASE state \notin {"Killed", "Zombie", "Ready", "Blocked", "Running", "Waiting"}
    <3>1. state # "Unused"
      OBVIOUS
    <3> HIDE DEF state
    <3>2. Home(victim, state) = {}
      BY <2>3, <3>1 DEF Home
    <3> QED
      BY <2>1, <3>2
  <2> QED
    BY <2>2, <2>3
<1>4. CASE state \in {"Killed", "Zombie"}
  <2>1. KillVictim(k, victim) = Return(k, SUCCESS)
    BY <1>4 DEF KillVictim
  <2>2. Settled(Return(k, SUCCESS))
    BY <1>1, ReturnIs DEF SUCCESS, Onward
  <2> QED
    BY <2>1, <2>2 DEF Served
<1>5. CASE state \in {"Ready", "Blocked"}
  <2>1. KillVictim(k, victim) = Return(SetState(k, victim, "Killed"), SUCCESS)
    BY <1>5 DEF KillVictim
  <2>2. Settled(Return(SetState(k, victim, "Killed"), SUCCESS))
    BY <1>1, <1>5, KillMarkedHolds
  <2> QED
    BY <2>1, <2>2 DEF Served
<1>6. CASE state = "Running"
  <2>1. KillVictim(k, victim) = sys_exit(k, EXIT_KILLED)
    BY <1>6 DEF KillVictim, KillSelf
  <2>2. EXIT_KILLED \in Int
    BY DEF EXIT_KILLED
  <2> QED
    BY <2>1, <2>2, ExitHolds
<1>7. CASE state = "Waiting"
  <2>1. KillVictim(k, victim) = KillWaiter(k, victim)
    BY <1>7 DEF KillVictim
  <2>2. Served(k0, KillWaiter(k, victim))
    BY <1>7, KillWaiterHolds
  <2> QED
    BY <2>1, <2>2
<1> QED
  BY <1>3, <1>4, <1>5, <1>6, <1>7

LEMMA KillHolds ==
  ASSUME NEW k0, Settled(k0), Me(k0).pid \notin {PID_INIT, PID_IDLE}, NEW pid \in Nat
  PROVE  Served(k0, sys_kill(k0, pid))
<1> DEFINE k == Enter(k0, 0)
           victim == pcb_find_pid(k, pid)
<1>1. Onward(k0, k)
  BY EnterIs
<1>2. sys_kill(k0, pid) =
        IF pid = Me(k).pid THEN sys_exit(k, EXIT_KILLED)
        ELSE IF pid < FIRST_USER_PID THEN Return(k, E_FAILURE)
        ELSE IF victim = NULL THEN Return(k, E_NOT_FOUND)
        ELSE KillVictim(k, victim)
  BY DEF sys_kill, KillSelf
<1> HIDE DEF k
<1>3. Settled(k) /\ Basic(k) /\ Me(k) = k.ptable[k.current]
  <2>1. Settled(k)
    BY <1>1 DEF Onward
  <2> QED
    BY <2>1, SettledIs DEF Held
<1>4. ASSUME NEW r \in Int, r <= 0 PROVE Served(k0, Return(k, r))
  <2>1. Settled(Return(k, r))
    BY <1>3, <1>4, ReturnIs DEF Onward
  <2> QED
    BY <2>1 DEF Served
<1>5. Served(k0, Return(k, E_FAILURE)) /\ Served(k0, Return(k, E_NOT_FOUND))
  BY <1>4 DEF E_FAILURE, E_NOT_FOUND
<1>6. Served(k0, sys_exit(k, EXIT_KILLED))
  BY <1>1, ExitHolds DEF EXIT_KILLED
<1>7. ASSUME pid # Me(k).pid, ~(pid < FIRST_USER_PID), victim # NULL
      PROVE  Served(k0, KillVictim(k, victim))
  <2>1. victim \in Slots /\ k.ptable[victim].pid = pid /\ k.ptable[victim].state # "Unused"
    BY <1>7, FoundIs
  <2> HIDE DEF victim
  <2>2. victim # k.current
    BY <1>3, <1>7, <2>1
  <2>3. victim # init_pcb
    BY <1>3, <1>7, <2>1 DEF Basic, PID_INIT, FIRST_USER_PID
  <2> QED
    BY <1>1, <2>1, <2>2, <2>3, KillVictimHolds
<1> HIDE DEF victim
<1> QED
  BY <1>2, <1>5, <1>6, <1>7

(* Calls that change the frame of the caller, or start a new time slice.   *)
LEMMA SetprioHolds ==
  ASSUME NEW k0, Settled(k0), NEW new \in Nat
  PROVE  Onward(k0, sys_setprio(k0, new))
<1> DEFINE k == Enter(k0, 0)
           a == Me(k)
           b == [a EXCEPT !.priority = new]
           k1 == SetPCB(k, k.current, b)
<1>1. Onward(k0, k)
  BY EnterIs
<1> HIDE DEF k
<1>2. Settled(k)
  BY <1>1 DEF Onward
<1>3. a \in PCB /\ a.next = NULL
  BY <1>2, SettledIs
<1> HIDE DEF a
<1>4. b \in PCB /\ b.next = NULL /\ b.pid = a.pid /\ b.parent = a.parent /\ b.state = a.state
      /\ b.ret = a.ret
  <2>1. new \in Int
    OBVIOUS
  <2> QED
    BY <1>3, <2>1, Zenon DEF PCB
<1> HIDE DEF b
<1>5. Onward(k, k1)
  BY <1>2, <1>4, Tuned DEF a
<1>6. sys_setprio(k0, new) = k1
  BY DEF sys_setprio, k, a, b
<1> QED
  BY <1>1, <1>5, <1>6, OnwardTrans

LEMMA SliceEndsIs ==
  ASSUME NEW k, Settled(k)
  PROVE  LET k1 == Redispatch(schedule(k, k.current)) IN Calm(k, k1) /\ Highest(k1)
<1> DEFINE p == k.current
           F == {p}
           k1 == MakeReady(k, p)
           k2 == Redispatch(k1)
<1>1. Held(k, F, {}) /\ Ok(k) /\ p \in F /\ p \in Slots /\ k.ptable[p].state = "Running"
  BY SettledIs
<1>2. schedule(k, p) = k1
  BY <1>1 DEF schedule
<1> HIDE DEF p, F
<1>3. Held(k1, F \ {p}, {}) /\ Readied(k, k1, p)
  BY <1>1, HeldMakeReady
<1>4. F \ {p} = {}
  BY DEF F
<1> HIDE DEF k1
<1>5. Dispatched(k1, k2)
  BY <1>3, <1>4, RedispatchIs
<1> HIDE DEF k2
<1>6. ASSUME NEW x \in Slots
      PROVE  /\ Sleeps(k2, x) <=> Sleeps(k, x)
             /\ k2.ptable[x].wakeup = k.ptable[x].wakeup
  <2>1. CASE x = k2.current
    BY <1>3, <1>5, <2>1 DEF Dispatched, Readied, Sleeps, SamePCB, SameName, p
  <2>2. CASE x # k2.current
    BY <1>3, <1>5, <2>2, SMTT(30) DEF Dispatched, Readied, Sleeps, SamePCB, SameName, p
  <2> QED
    BY <2>1, <2>2
<1>7. Calm(k, k2) /\ Highest(k2)
  BY <1>3, <1>5, <1>6 DEF Calm, Dispatched, Readied, SameRest, Balance
<1> QED
  BY <1>2, <1>7 DEF p, k2

LEMMA SliceEnds ==
  ASSUME NEW k, Settled(k)
  PROVE  Settled(Redispatch(schedule(k, k.current)))
BY SliceEndsIs DEF Calm

LEMMA ExecIs ==
  ASSUME NEW k, Settled(k)
  PROVE  LET k2 == sys_exec(k) IN
         IF k.stacks < 1 THEN k2 = Panic(k) /\ ~Ok(k2) ELSE Calm(k, k2) /\ Highest(k2)
<1> DEFINE k1 == Enter(k, 0)
<1>1. Settled(k1) /\ k1.current = k.current /\ Calm(k, k1)
  BY EnterIs, OnwardCalm DEF Onward
<1>2. LET k2 == Redispatch(schedule(k1, k.current)) IN Calm(k, k2) /\ Highest(k2)
  <2> HIDE DEF k1
  <2> DEFINE k2 == Redispatch(schedule(k1, k1.current))
  <2>1. Calm(k1, k2) /\ Highest(k2)
    BY <1>1, SliceEndsIs
  <2> HIDE DEF k2
  <2>2. Calm(k, k2)
    BY <1>1, <2>1, CalmTrans
  <2> QED
    BY <1>1, <2>1, <2>2 DEF k2
<1>3. ~Ok(Panic(k))
  BY SettledIs DEF Ok, Panic, KernelState
<1> QED
  BY <1>2, <1>3 DEF sys_exec

LEMMA ExecHolds ==
  ASSUME NEW k, Settled(k)
  PROVE  IF k.stacks < 1 THEN ~Ok(sys_exec(k)) ELSE Settled(sys_exec(k))
BY ExecIs DEF Calm

(* sys_sleep: the caller sleeps until its wakeup time, or only yields.     *)
FallenAsleep(k, k1, length) ==
  LET p == k.current IN
  /\ Settled(k1) /\ Highest(k1) /\ k1.system_time = k.system_time
  /\ Balance(k1) = Balance(k)
  /\ \A x \in Slots \ {p} :
       /\ Sleeps(k1, x) <=> Sleeps(k, x)
       /\ Sleeps(k, x) => k1.ptable[x].wakeup = k.ptable[x].wakeup
  /\ IF length = 0 THEN ~Sleeps(k1, p)
     ELSE /\ Sleeps(k1, p)
          /\ k1.ptable[p].wakeup = (k.system_time + length) % TimeMod

LEMMA CalmAsleep ==
  ASSUME NEW k, Settled(k), NEW k1, Calm(k, k1), Highest(k1)
  PROVE  FallenAsleep(k, k1, 0)
BY SettledIs DEF Calm, FallenAsleep, Sleeps

LEMMA SleepIs ==
  ASSUME NEW k0, Settled(k0), Me(k0).pid \notin {PID_INIT, PID_IDLE}, NEW length \in Nat
  PROVE  FallenAsleep(k0, sys_sleep(k0, length), length)
<1> DEFINE k == Enter(k0, 0)
           p == k.current
           wakeup == (k.system_time + length) % TimeMod
           a == Me(k)
           b == [a EXCEPT !.wakeup = wakeup]
           k1 == SetPCB(k, p, b)
           k2 == pcb_queue_insert(k1, "sleeping", p)
           k3 == Redispatch(k2)
<1>1. Onward(k0, k)
  BY EnterIs
<1>2. sys_sleep(k0, length) =
        IF length = 0 THEN Redispatch(schedule(k, p))
        ELSE IF k1.ptable[p].next # NULL THEN k1 ELSE k3
  BY DEF sys_sleep
<1> HIDE DEF k
<1>3. Settled(k) /\ k \in KernelState /\ p \in Slots /\ p # idle_pcb
  <2>1. Settled(k) /\ p = k0.current
    BY <1>1 DEF Onward
  <2> QED
    BY <2>1, SettledIs, Caller
<1>4. a \in PCB /\ a.next = NULL
  BY <1>3, SettledIs
<1>5. wakeup \in 0..TimeMod-1
  <2>1. k.system_time \in 0..TimeMod-1 /\ TimeMod \in Nat /\ TimeMod > 0
    BY <1>3, ProcsAssumption DEF KernelState
  <2> QED
    BY <2>1
<1> HIDE DEF a, wakeup
<1>6. b \in PCB /\ b.next = NULL /\ b.pid = a.pid /\ b.parent = a.parent /\ b.state = a.state
      /\ b.ret = a.ret
  BY <1>4, <1>5, Zenon DEF PCB
<1> HIDE DEF b
<1>7. Onward(k, k1) /\ Me(k1) = b
  BY <1>3, <1>6, Tuned DEF a
<1> HIDE DEF k1
<1>8. /\ Settled(k1) /\ k1.current = p /\ k1.ptable[p].next = NULL
      /\ k1.ptable[p].state = "Running"
  <2>1. Settled(k1) /\ k1.current = p
    BY <1>7 DEF Onward
  <2> QED
    BY <2>1, SettledIs
<1>9. Same(k1, k2) /\ Dispatched(k2, k3)
  <2> DEFINE F == {p}
  <2>1. Held(k1, F, {}) /\ p \in F /\ F \ {p} = {}
    BY <1>8, SettledIs
  <2>2. "sleeping" \in Queues /\ "sleeping" \in Home(p, k1.ptable[p].state)
    BY <1>3, <1>8 DEF Queues, Home
  <2> HIDE DEF F, p
  <2>3. Same(k1, k2) /\ Held(k2, F \ {p}, {})
    BY <2>1, <2>2, HeldInsert
  <2> HIDE DEF k2
  <2> QED
    BY <2>1, <2>3, RedispatchIs
<1> HIDE DEF k2, k3
<1>10. ASSUME length # 0 PROVE FallenAsleep(k0, k3, length)
  <2>1. Onward(k0, k1) /\ p = k0.current
    BY <1>1, <1>7, OnwardTrans DEF Onward
  <2>2. /\ Settled(k3) /\ Highest(k3) /\ k3.system_time = k0.system_time
        /\ Balance(k3) = Balance(k0)
    BY <1>9, <2>1 DEF Dispatched, Same, SameRest, Onward, Balance
  <2>3. k3.current # p
    BY <1>3, <1>8, <1>9 DEF Dispatched, Same, SamePCB
  <2>4. Sleeps(k3, p) /\ k3.ptable[p].wakeup = k1.ptable[p].wakeup
    BY <1>3, <1>8, <1>9, <2>3 DEF Dispatched, Same, SamePCB, Sleeps
  <2>5. k1.ptable[p].wakeup = (k0.system_time + length) % TimeMod
    <3>1. k1.ptable[p] = b /\ b.wakeup = wakeup
      BY <1>4, <1>7, <1>8 DEF Me, b, PCB
    <3> QED
      BY <1>1, <3>1 DEF wakeup, Onward
  <2>6. ASSUME NEW x \in Slots \ {p}
        PROVE  /\ Sleeps(k3, x) <=> Sleeps(k0, x)
               /\ Sleeps(k0, x) => k3.ptable[x].wakeup = k0.ptable[x].wakeup
    <3>1. k1.ptable[x] = k0.ptable[x] /\ SamePCB(k1.ptable[x], k2.ptable[x])
      BY <1>9, <2>1 DEF Same, Onward
    <3>2. CASE x = k3.current
      BY <1>9, <2>1, <3>1, <3>2 DEF Dispatched, Sleeps, SamePCB
    <3>3. CASE x # k3.current
      BY <1>9, <2>1, <3>1, <3>3 DEF Dispatched, Sleeps, SamePCB
    <3> QED
      BY <3>2, <3>3
  <2> QED
    BY <1>10, <2>1, <2>2, <2>4, <2>5, <2>6 DEF FallenAsleep
<1>11. ASSUME length = 0 PROVE FallenAsleep(k0, Redispatch(schedule(k, p)), length)
  <2> DEFINE k4 == Redispatch(schedule(k, p))
  <2>1. Calm(k, k4) /\ Highest(k4)
    BY <1>3, SliceEndsIs
  <2> HIDE DEF k4
  <2>2. Calm(k0, k4)
    BY <1>1, <2>1, OnwardCalm, CalmTrans
  <2>3. FallenAsleep(k0, k4, 0)
    BY <2>1, <2>2, CalmAsleep
  <2> QED
    BY <1>11, <2>3 DEF k4
<1> QED
  BY <1>2, <1>8, <1>10, <1>11

LEMMA SleepHolds ==
  ASSUME NEW k0, Settled(k0), Me(k0).pid \notin {PID_INIT, PID_IDLE}, NEW length \in Nat
  PROVE  Settled(sys_sleep(k0, length))
BY SleepIs DEF FallenAsleep

LEMMA IncountIs ==
  ASSUME NEW k, NEW F, NEW Z, Held(k, F, Z), NEW n \in Nat
  PROVE  LET k1 == [k EXCEPT !.incount = n] IN
         /\ Held(k1, F, Z) /\ k1.current = k.current /\ k1.ptable = k.ptable /\ k1.q = k.q
<1> DEFINE k1 == [k EXCEPT !.incount = n]
<1>1. k \in KernelState /\ Ok(k)
  BY FineIs DEF Held
<1>2. /\ k1 \in KernelState /\ k1.ptable = k.ptable /\ k1.q = k.q /\ k1.current = k.current
      /\ k1.next_pid = k.next_pid /\ k1.stacks = k.stacks /\ k1.status = k.status
  BY <1>1, Zenon DEF KernelState
<1> HIDE DEF k1
<1>3. Ok(k1)
  BY <1>1, <1>2 DEF Ok
<1>4. Held(k1, F, Z)
  BY <1>2, <1>3, HeldOther
<1> QED
  BY <1>2, <1>4 DEF k1

LEMMA ReadHolds ==
  ASSUME NEW k0, Settled(k0), Me(k0).pid \notin {PID_INIT, PID_IDLE}, NEW len \in Nat
  PROVE  Settled(sys_read(k0, len))
<1> DEFINE k == Enter(k0, len)
           n == IF len < k.incount THEN len ELSE k.incount
           p == k.current
           k1 == Redispatch(pcb_queue_insert(SetState(k, p, "Blocked"), "sioread", p))
           k2 == [k EXCEPT !.incount = k.incount - n]
<1>1. Onward(k0, k)
  BY EnterIs
<1>2. sys_read(k0, len) = IF len = 0 THEN k ELSE IF k.incount < 1 THEN k1 ELSE k2
  BY DEF sys_read
<1> HIDE DEF k
<1>3. Settled(k) /\ k \in KernelState /\ p \in Slots /\ p # idle_pcb /\ p # init_pcb
  <2>1. Settled(k) /\ p = k0.current
    BY <1>1 DEF Onward
  <2> QED
    BY <2>1, SettledIs, Caller
<1>4. Settled(k1)
  <2>1. "sioread" \in Queues /\ "sioread" \in Home(p, "Blocked")
        /\ "Blocked" \in States \ {"Unused", "Zombie"}
    BY DEF Queues, Home, States
  <2> QED
    BY <1>3, <2>1, BlockHolds
<1>5. Settled(k2)
  <2> DEFINE m == k.incount - n
  <2>1. m \in Nat
    BY <1>3 DEF KernelState
  <2>2. Held(k, {p}, {}) /\ k.ptable[p].state = "Running"
    BY <1>3, SettledIs
  <2> HIDE DEF m
  <2> DEFINE F == {p}
  <2>3. Held(k, F, {})
    BY <2>2
  <2> HIDE DEF F
  <2> DEFINE kn == [k EXCEPT !.incount = m]
  <2>4. Held(kn, F, {}) /\ kn.current = p /\ kn.ptable = k.ptable
    BY <2>1, <2>3, IncountIs
  <2> HIDE DEF kn
  <2>5. Settled(kn)
    BY <2>2, <2>4 DEF Settled, F
  <2> QED
    BY <2>5 DEF kn, m
<1> HIDE DEF k1, k2
<1> QED
  BY <1>2, <1>3, <1>4, <1>5
(* A new process: its PCB was unused, its parent is the caller, its PID    *)
(* was never given.                                                        *)
LEMMA HeldBorn ==
  ASSUME NEW k, NEW F, Held(k, F, {}), NEW h \in F, NEW me \in F, me # h,
         k.ptable[h].state = "Unused", k.ptable[me].state = "Running",
         NEW k1 \in KernelState, k1.q = k.q, k1.status = k.status,
         k1.stacks = k.stacks - 1, k1.next_pid = k.next_pid + 1,
         \A x \in Slots \ {h} : k1.ptable[x] = k.ptable[x],
         k1.ptable[h].next = NULL, k1.ptable[h].pid = k.next_pid,
         k1.ptable[h].parent = me, k1.ptable[h].state = "New", k1.ptable[h].ret = 0
  PROVE  Held(k1, F, {})
<1>1. /\ Fine(k, F) /\ UniquePids(k)
      /\ Family(k) /\ Stacks(k) /\ Waits(k) /\ Spent(k, {}) /\ Basic(k)
  BY DEF Held
<1>2. /\ k \in KernelState /\ Ok(k) /\ F \subseteq Slots /\ h \in Slots /\ me \in Slots
      /\ \A x \in F : k.ptable[x].next = NULL
  BY <1>1, FineIs
<1>3. k.next_pid \in Nat /\ k.stacks \in Int /\ \A x \in Slots : k.ptable[x].pid \in Nat
                                                     /\ k.ptable[x].ret \in Int
  BY <1>2, TableType DEF KernelState, PCB
<1>4. Ok(k1)
  BY <1>2 DEF Ok
<1>5. Undisturbed(k, k1, F)
  <2>1. \A x \in F : k1.ptable[x].next = NULL
    BY <1>2
  <2> QED
    BY <1>2, <1>4, <2>1 DEF Undisturbed
<1>6. Fine(k1, F)
  BY <1>1, <1>5, FieldsFine
<1>7. UniquePids(k1)
  <2>1. /\ \A p \in Slots : k.ptable[p].pid < k.next_pid
        /\ \A p, r \in Slots :
             p # r /\ k.ptable[p].pid # 0 => k.ptable[p].pid # k.ptable[r].pid
    BY <1>1 DEF UniquePids
  <2>2. \A p \in Slots : k1.ptable[p].pid < k.next_pid + 1
    BY <1>3, <2>1
  <2>3. ASSUME NEW p \in Slots, NEW r \in Slots, p # r, k1.ptable[p].pid # 0
        PROVE k1.ptable[p].pid # k1.ptable[r].pid
    <3>1. CASE p # h /\ r # h
      BY <2>1, <2>3, <3>1
    <3>2. CASE p = h
      BY <1>3, <2>1, <2>3, <3>2
    <3>3. CASE r = h
      BY <1>3, <2>1, <2>3, <3>3
    <3> QED
      BY <3>1, <3>2, <3>3
  <2> QED
    BY <2>2, <2>3 DEF UniquePids
<1>8. h # init_pcb /\ h # idle_pcb
  BY <1>1 DEF Basic
<1>9. Family(k1)
  <2>1. k1.ptable[init_pcb].parent = init_pcb
    BY <1>1, <1>8, BasicSlots DEF Family
  <2>2. ASSUME NEW p \in Slots, k1.ptable[p].state # "Unused"
        PROVE  LET parent == k1.ptable[p].parent IN
               /\ parent \in Slots /\ k1.ptable[parent].state \notin {"Unused", "Zombie"}
               /\ parent = init_pcb \/ k1.ptable[parent].pid < k1.ptable[p].pid
    <3>1. CASE p = h
      <4>1. k1.ptable[me] = k.ptable[me] /\ k.ptable[me].pid < k.next_pid
        BY <1>1, <1>2 DEF UniquePids
      <4> QED
        BY <1>2, <3>1, <4>1
    <3>2. CASE p # h
      <4> DEFINE parent == k.ptable[p].parent
      <4>1. k1.ptable[p] = k.ptable[p]
        BY <3>2
      <4>2. /\ parent \in Slots /\ k.ptable[parent].state \notin {"Unused", "Zombie"}
            /\ parent = init_pcb \/ k.ptable[parent].pid < k.ptable[p].pid
        BY <1>1, <2>2, <4>1 DEF Family
      <4>3. k1.ptable[parent] = k.ptable[parent]
        BY <4>2
      <4> QED
        BY <4>1, <4>2, <4>3
    <3> QED
      BY <3>1, <3>2
  <2> QED
    BY <2>1, <2>2 DEF Family
<1>10. Stacks(k1)
  <2>1. Used(k1) = Used(k) \cup {h} /\ h \notin Used(k)
    BY <1>2 DEF Used
  <2>2. IsFiniteSet(Used(k)) /\ Cardinality(Used(k)) \in Nat
    BY UsedFinite
  <2>3. Cardinality(Used(k1)) = Cardinality(Used(k)) + 1
    BY <2>1, <2>2, FS_AddElement, ZenonT(30)
  <2> QED
    BY <1>1, <1>3, <2>2, <2>3, ProcsAssumption DEF Stacks
<1>11. Waits(k1)
  <2>1. ASSUME NEW p \in Slots
        PROVE  /\ k1.ptable[p].state = "Waiting" => k1.ptable[p].ret = 0
               /\ k1.ptable[p].ret < k1.next_pid
    <3>1. k.ptable[p].state = "Waiting" => k.ptable[p].ret = 0
      BY <1>1 DEF Waits
    <3>2. k.ptable[p].ret < k.next_pid
      BY <1>1 DEF Waits
    <3> QED
      BY <1>3, <3>1, <3>2
  <2> QED
    BY <2>1 DEF Waits
<1>12. Spent(k1, {})
  <2>1. ASSUME NEW p \in Slots, NEW s \in Slots, k1.ptable[p].ret > 0,
               k1.ptable[s].state # "Unused"
        PROVE  k1.ptable[s].pid # k1.ptable[p].ret
    <3>1. p # h /\ k1.ptable[p] = k.ptable[p]
      BY <2>1
    <3>2. CASE s = h
      <4>1. k.ptable[p].ret < k.next_pid
        BY <1>1 DEF Waits
      <4> QED
        BY <1>3, <3>1, <3>2, <4>1
    <3>3. CASE s # h
      BY <1>1, <2>1, <3>1, <3>3 DEF Spent
    <3> QED
      BY <3>2, <3>3
  <2> QED
    BY <2>1 DEF Spent
<1>13. Basic(k1)
  <2>1. k.next_pid > 0
    <3>1. k.ptable[init_pcb].pid = 1 /\ k.ptable[init_pcb].pid < k.next_pid
      BY <1>1, BasicSlots DEF Basic, UniquePids, PID_INIT
    <3> QED
      BY <1>3, <3>1
  <2>2. k1.ptable[init_pcb] = k.ptable[init_pcb] /\ k1.ptable[idle_pcb] = k.ptable[idle_pcb]
    BY <1>8, BasicSlots
  <2>3. \A p \in Slots : k1.ptable[p].state # "Unused" => k1.ptable[p].pid > 0
    BY <1>1, <2>1 DEF Basic
  <2> QED
    BY <1>1, <2>2, <2>3 DEF Basic
<1> QED
  BY <1>6, <1>7, <1>9, <1>10, <1>11, <1>12, <1>13 DEF Held

(* fork without a stack gives the PCB it took back.                        *)
LEMMA HeldFree ==
  ASSUME NEW k, NEW F, NEW Z, Held(k, F, Z), NEW h \in F, k.ptable[h].state = "Unused"
  PROVE  LET k1 == pcb_free(k, h) IN Same(k, k1) /\ Held(k1, F \ {h}, Z)
<1> DEFINE a == k.ptable[h]
           b == [a EXCEPT !.state = "Unused", !.next = NULL]
           kd == SetPCB(k, h, b)
           k1 == pcb_queue_insert(kd, "freelist", h)
<1>1. Fine(k, F) /\ k \in KernelState /\ h \in Slots
  BY FineIs DEF Held
<1>2. a \in PCB /\ a.state = "Unused"
  BY <1>1, TableType
<1>3. pcb_free(k, h) = k1
  BY DEF pcb_free, Detach
<1> HIDE DEF a
<1>4. b \in PCB /\ SamePCB(a, b) /\ b.next = NULL /\ b.state = "Unused"
  BY <1>2, PtrCases DEF PCB, SamePCB, States
<1> HIDE DEF b
<1>5. Assigned(k, kd, h) /\ kd.ptable[h] = b
  BY <1>1, <1>4, SetPCBAssigned
<1> HIDE DEF kd
<1>6. Same(k, kd)
  <2>1. \A x \in Slots \ {h} : SamePCB(k.ptable[x], kd.ptable[x])
    BY <1>5 DEF Assigned, SamePCB
  <2>2. SamePCB(k.ptable[h], kd.ptable[h])
    BY <1>4, <1>5 DEF a
  <2> QED
    BY <1>5, <2>1, <2>2 DEF Same, Assigned
<1>7. Fine(kd, F)
  BY <1>1, <1>4, <1>5, HandFine
<1>8. Held(kd, F, Z)
  BY <1>6, <1>7, HeldSame
<1>9. "freelist" \in Queues /\ "freelist" \in Home(h, kd.ptable[h].state)
  BY <1>4, <1>5 DEF Queues, Home
<1>10. Same(kd, k1) /\ Held(k1, F \ {h}, Z)
  BY <1>8, <1>9, HeldInsert
<1> HIDE DEF k1
<1>11. Same(k, k1)
  BY <1>6, <1>10, SameTrans
<1> QED
  BY <1>3, <1>10, <1>11

(* The record fork fills in.                                               *)
ChildOf(a, pid, parent, prio, arg) ==
  [a EXCEPT !.pid = pid, !.parent = parent, !.state = "New",
            !.priority = prio, !.arg = arg, !.ret = 0]

LEMMA ChildIs ==
  ASSUME NEW a \in PCB, NEW pid \in Pids, NEW parent \in Ptr, NEW prio \in Int, NEW arg \in Nat
  PROVE  LET b == ChildOf(a, pid, parent, prio, arg)
         IN /\ b \in PCB /\ b.next = a.next /\ b.pid = pid /\ b.parent = parent
            /\ b.state = "New" /\ b.ret = 0
<1>1. "New" \in States /\ 0 \in Int
  BY DEF States
<1> QED
  BY <1>1, Zenon DEF PCB, ChildOf

(* The kernel once it is filled in.                                        *)
WithChild(k, h, pcb) ==
  [SetPCB(k, h, pcb) EXCEPT !.stacks = @ - 1, !.next_pid = @ + 1]

LEMMA ForkedIs ==
  ASSUME NEW k \in KernelState, NEW h \in Slots, NEW pcb \in PCB
  PROVE  LET k1 == WithChild(k, h, pcb) IN
         /\ k1 \in KernelState /\ k1.q = k.q /\ k1.status = k.status
         /\ k1.current = k.current /\ k1.stacks = k.stacks - 1
         /\ k1.next_pid = k.next_pid + 1 /\ k1.system_time = k.system_time
         /\ k1.ptable[h] = pcb /\ \A x \in Slots \ {h} : k1.ptable[x] = k.ptable[x]
<1> DEFINE ks == SetPCB(k, h, pcb)
           k1 == [ks EXCEPT !.stacks = @ - 1, !.next_pid = @ + 1]
<1>1. Assigned(k, ks, h) /\ ks.ptable[h] = pcb
  BY SetPCBAssigned
<1> HIDE DEF ks
<1>2. /\ ks \in KernelState /\ ks.q = k.q /\ ks.status = k.status /\ ks.current = k.current
      /\ ks.stacks = k.stacks /\ ks.next_pid = k.next_pid
      /\ ks.system_time = k.system_time
      /\ \A x \in Slots \ {h} : ks.ptable[x] = k.ptable[x]
  BY <1>1 DEF Assigned, SameRest
<1>3. ks.stacks - 1 \in Int /\ ks.next_pid + 1 \in Nat
  BY <1>2 DEF KernelState
<1>4. /\ k1 \in KernelState /\ k1.q = ks.q /\ k1.status = ks.status
      /\ k1.current = ks.current /\ k1.stacks = ks.stacks - 1
      /\ k1.next_pid = ks.next_pid + 1 /\ k1.ptable = ks.ptable
      /\ k1.system_time = ks.system_time
  BY <1>2, <1>3, Zenon DEF KernelState
<1> HIDE DEF k1
<1>5. /\ k1 \in KernelState /\ k1.q = k.q /\ k1.status = k.status
      /\ k1.current = k.current /\ k1.stacks = k.stacks - 1
      /\ k1.next_pid = k.next_pid + 1 /\ k1.system_time = k.system_time
      /\ k1.ptable[h] = pcb /\ \A x \in Slots \ {h} : k1.ptable[x] = k.ptable[x]
  BY <1>1, <1>2, <1>4
<1> QED
  BY <1>5 DEF k1, ks, WithChild

LEMMA ForkIs ==
  ASSUME NEW k0, Settled(k0), ~Wrapped(sys_fork(k0))
  PROVE  LET k1 == sys_fork(k0) IN Calm(k0, k1) /\ k1.current = k0.current
<1> DEFINE k == Enter(k0, 0)
           h == k.q["freelist"].head
           k1 == pcb_queue_remove(k, "freelist")
           pid == k.next_pid % PidMod
           child == [k1.ptable[h] EXCEPT
                       !.pid = pid, !.parent = k.current, !.state = "New",
                       !.priority = Me(k1).priority, !.arg = Me(k1).arg, !.ret = 0]
           k2 == [SetPCB(k1, h, child) EXCEPT !.stacks = @ - 1, !.next_pid = @ + 1]
           p == k.current
           F == {p} \cup {h}
<1>1. Onward(k0, k)
  BY EnterIs
<1>2. sys_fork(k0) = IF pcb_queue_empty(k, "freelist") THEN k
                     ELSE IF k.stacks < 1 THEN pcb_free(k1, h)
                     ELSE schedule(k2, h)
  BY Zenon DEF sys_fork
<1> HIDE DEF k
<1>3. /\ Settled(k) /\ Held(k, {p}, {}) /\ p \in Slots /\ k.ptable[p].state = "Running"
      /\ k \in KernelState
  <2>1. Settled(k)
    BY <1>1 DEF Onward
  <2> QED
    BY <2>1, SettledIs
<1>4. ASSUME ~pcb_queue_empty(k, "freelist")
      PROVE  /\ Calm(k, pcb_free(k1, h)) /\ pcb_free(k1, h).current = p
             /\ ~Wrapped(schedule(k2, h)) =>
                  Calm(k, schedule(k2, h)) /\ schedule(k2, h).current = p
  <2>1. "freelist" \in Queues
    BY DEF Queues
  <2>2. h \in Slots /\ h # p /\ k.ptable[h].state = "Unused"
    <3>1. h \in Slots \ {p} /\ "freelist" \in Home(h, k.ptable[h].state)
      <4>1. Fine(k, {p})
        BY <1>3 DEF Held
      <4> QED
        BY <1>4, <2>1, <4>1, HeadIs
    <3> HIDE DEF h
    <3> QED
      BY <3>1 DEF Home
  <2>3. Same(k, k1) /\ Held(k1, F, {})
    <3> DEFINE G == {p}
    <3>1. Held(k, G, {})
      BY <1>3
    <3> HIDE DEF G
    <3>2. Same(k, k1) /\ Held(k1, G \cup {k.q["freelist"].head}, {})
      BY <1>4, <2>1, <3>1, HeldRemove
    <3> QED
      BY <3>2 DEF G
  <2> HIDE DEF h, k1
  <2>4. F \ {h} = {p} /\ h \in F /\ p \in F
    BY <2>2
  <2>5. /\ k1 \in KernelState /\ k1.current = p /\ k1.next_pid = k.next_pid
        /\ k1.ptable[h].state = "Unused" /\ k1.ptable[p].state = "Running"
    BY <1>3, <2>2, <2>3 DEF Same, SameRest, SamePCB
  <2>6. k1.ptable[h].next = NULL
    BY <2>3, <2>4, FineIs DEF Held
  <2> HIDE DEF F
  <2>7. Calm(k, pcb_free(k1, h)) /\ pcb_free(k1, h).current = p
    <3> DEFINE kf == pcb_free(k1, h)
    <3>1. Same(k1, kf) /\ Held(kf, F \ {h}, {})
      BY <2>3, <2>4, <2>5, HeldFree
    <3> HIDE DEF kf
    <3>2. kf.current = p /\ kf.ptable[p].state = "Running"
      BY <1>3, <2>5, <3>1 DEF Same, SameRest, SamePCB
    <3>3. Settled(kf)
      BY <2>4, <3>1, <3>2 DEF Settled
    <3>4. Same(k, kf)
      BY <2>3, <3>1, SameTrans
    <3>5. Calm(k, kf)
      BY <3>3, <3>4 DEF Calm, Sleeps, Same, SameRest, SamePCB, Balance
    <3> QED
      BY <3>2, <3>5 DEF kf
  <2>8. /\ pid \in Pids
        /\ k.next_pid < PidMod => pid = k.next_pid
    <3>1. k.next_pid \in Nat
      BY <1>3 DEF KernelState
    <3> QED
      BY <3>1, ProcsAssumption DEF Pids
  <2> HIDE DEF pid
  <2>9. /\ child \in PCB /\ child.next = NULL /\ child.pid = pid /\ child.parent = p
        /\ child.state = "New" /\ child.ret = 0
    <3> DEFINE a == k1.ptable[h]
               prio == Me(k1).priority
               arg == Me(k1).arg
    <3>1. a \in PCB /\ prio \in Int /\ arg \in Nat /\ p \in Ptr
      BY <1>3, <2>2, <2>5, TableType, PtrCases DEF Me
    <3>2. a.next = NULL
      BY <2>6
    <3> HIDE DEF a, prio, arg
    <3> DEFINE b == ChildOf(a, pid, p, prio, arg)
    <3>3. /\ b \in PCB /\ b.next = a.next /\ b.pid = pid /\ b.parent = p
          /\ b.state = "New" /\ b.ret = 0
      BY <2>8, <3>1, ChildIs
    <3>4. child = b
      BY Zenon DEF a, prio, arg, ChildOf
    <3> HIDE DEF b, child
    <3> QED
      BY <3>2, <3>3, <3>4
  <2> HIDE DEF child
  <2>10. /\ k2 \in KernelState /\ k2.q = k1.q /\ k2.status = k1.status
         /\ k2.current = k1.current /\ k2.stacks = k1.stacks - 1
         /\ k2.next_pid = k1.next_pid + 1 /\ k2.system_time = k1.system_time
         /\ k2.ptable[h] = child /\ \A x \in Slots \ {h} : k2.ptable[x] = k1.ptable[x]
    <3>1. k2 = WithChild(k1, h, child)
      BY Zenon DEF WithChild
    <3> HIDE DEF k2
    <3> QED
      BY <2>2, <2>5, <2>9, <3>1, ForkedIs
  <2> HIDE DEF k2
  <2>11. ASSUME ~Wrapped(schedule(k2, h))
         PROVE  Calm(k, schedule(k2, h)) /\ schedule(k2, h).current = p
    <3>1. pid = k.next_pid
      <4>1. schedule(k2, h).next_pid = k.next_pid + 1
        BY <2>2, <2>5, <2>10, ScheduleKeeps DEF Keeps
      <4>2. k.next_pid \in Nat
        BY <1>3 DEF KernelState
      <4>3. k.next_pid < PidMod
        BY <2>11, <4>1, <4>2, ProcsAssumption DEF Wrapped
      <4> QED
        BY <2>8, <4>3
    <3>2. Held(k2, F, {})
      BY <2>2, <2>3, <2>4, <2>5, <2>9, <2>10, <3>1, HeldBorn
    <3>3. k2.ptable[h].state = "New" /\ k2.ptable[p].state = "Running" /\ k2.current = p
      BY <1>3, <2>2, <2>5, <2>9, <2>10
    <3>4. schedule(k2, h) = MakeReady(k2, h)
      BY <3>3 DEF schedule, MakeReady
    <3> DEFINE k3 == MakeReady(k2, h)
    <3>5. Held(k3, F \ {h}, {}) /\ Beside(k2, k3, h) /\ Readied(k2, k3, h)
      BY <2>4, <3>2, <3>3, HeldMakeReady
    <3> HIDE DEF k3
    <3>6. k3.current = p /\ k3.ptable[p].state = "Running"
      BY <1>3, <2>2, <3>3, <3>5 DEF Beside, SamePCB
    <3>7. Settled(k3)
      BY <2>4, <3>5, <3>6 DEF Settled
    <3>8. Calm(k, k3)
      <4>1. k3.system_time = k.system_time
        BY <2>3, <2>10, <3>5 DEF Same, SameRest, Readied
      <4>2. ASSUME NEW x \in Slots
            PROVE  /\ Sleeps(k3, x) <=> Sleeps(k, x)
                   /\ Sleeps(k, x) => k3.ptable[x].wakeup = k.ptable[x].wakeup
        <5>1. CASE x = h
          BY <2>2, <3>5, <5>1 DEF Readied, Sleeps
        <5>2. CASE x # h
          BY <2>3, <2>10, <3>5, <3>6, <5>2 DEF Readied, Sleeps, Same, SamePCB
        <5> QED
          BY <5>1, <5>2
      <4>3. Balance(k3) = Balance(k)
        <5>1. /\ k3.next_pid = k1.next_pid + 1 /\ k3.stacks = k1.stacks - 1
              /\ k1.next_pid = k.next_pid /\ k1.stacks = k.stacks
          BY <2>3, <2>10, <3>5 DEF Same, SameRest, Readied
        <5>2. k.next_pid \in Int /\ k.stacks \in Int
          BY <1>3 DEF KernelState
        <5> QED
          BY <5>1, <5>2 DEF Balance
      <4> QED
        BY <3>7, <4>1, <4>2, <4>3 DEF Calm
    <3> QED
      BY <3>4, <3>6, <3>8 DEF k3
  <2> QED
    BY <2>7, <2>11
<1>5. Calm(k0, k) /\ p = k0.current
  BY <1>1, OnwardCalm DEF Onward
<1>6. CASE pcb_queue_empty(k, "freelist")
  BY <1>2, <1>5, <1>6
<1>7. CASE ~pcb_queue_empty(k, "freelist")
  <2> HIDE DEF k1, k2, h, p
  <2>1. CASE k.stacks < 1
    BY <1>2, <1>4, <1>5, <1>7, <2>1, CalmTrans
  <2>2. CASE ~(k.stacks < 1)
    <3>1. sys_fork(k0) = schedule(k2, h)
      BY <1>2, <1>7, <2>2
    <3>2. Calm(k, schedule(k2, h)) /\ schedule(k2, h).current = p
      BY <1>4, <1>7, <3>1
    <3> QED
      BY <1>5, <3>1, <3>2, CalmTrans
  <2> QED
    BY <2>1, <2>2
<1> QED
  BY <1>6, <1>7

LEMMA ForkHolds ==
  ASSUME NEW k0, Settled(k0), ~Wrapped(sys_fork(k0))
  PROVE  Settled(sys_fork(k0))
BY ForkIs DEF Calm
-----------------------------------------------------------------------------
(* The interrupt handlers.                                                 *)

(* schedule() of a PCB just taken off a queue: of a killed process, this   *)
(* is its end.                                                             *)
LEMMA ScheduleHolds ==
  ASSUME NEW k, NEW k1, Settled(k), NEW p \in Slots \ {k.current},
         Held(k1, {k.current} \cup {p}, {}), k1.current = k.current,
         \A x \in Slots : /\ k1.ptable[x].state = k.ptable[x].state
                          /\ k1.ptable[x].pid = k.ptable[x].pid,
         k.ptable[p].state \notin {"Unused", "Zombie"},
         k.ptable[p].state = "Killed" => p # init_pcb /\ p # idle_pcb
  PROVE  Served(k, schedule(k1, p))
<1> DEFINE me == k.current
           F == {me} \cup {p}
           k2 == schedule(k1, p)
<1>1. me \in Slots /\ k.ptable[me].state = "Running" /\ p # me /\ p \in Slots
  BY SettledIs
<1>2. Held(k1, F, {}) /\ p \in F /\ F \ {p} = {me}
  BY <1>1
<1>3. Ok(k1) /\ k1 \in KernelState
  BY <1>2, FineIs DEF Held
<1> HIDE DEF F
<1>4. k1.ptable[me].state = "Running" /\ k1.current = me
  BY <1>1
<1>5. CASE k.ptable[p].state = "Killed"
  <2>1. k2 = pcb_zombify(k1, p)
    BY <1>1, <1>3, <1>5 DEF schedule
  <2>2. k1.ptable[p].state \notin {"Unused", "Zombie"} /\ p # init_pcb /\ p # idle_pcb
    BY <1>1, <1>5
  <2>3. \A x \in F \ {p} : k1.ptable[x].state = "Running"
    BY <1>2, <1>4
  <2> HIDE DEF k2, me
  <2>4. \/ Woken(k1, k2)
        \/ /\ Held(k2, F \ {p}, {}) /\ k2.current = k1.current
           /\ \A x \in F \ {p} : k2.ptable[x].state = "Running"
    BY <1>2, <2>1, <2>2, <2>3, HeldZombify, SMTT(30)
  <2>5. CASE Woken(k1, k2)
    <3>1. Woken(k, k2)
      BY <2>5, WokenAround
    <3>2. Marks(k, k2)
      BY <3>1, WokenMarks
    <3> QED
      BY <3>2 DEF Served, k2
  <2>6. CASE ~Woken(k1, k2)
    <3>1. Settled(k2)
      BY <1>2, <1>4, <2>4, <2>6 DEF Settled
    <3> QED
      BY <3>1 DEF Served, k2
  <2> QED
    BY <2>5, <2>6
<1>6. CASE k.ptable[p].state # "Killed"
  <2>1. k2 = MakeReady(k1, p)
    BY <1>1, <1>3, <1>6 DEF schedule
  <2>2. k1.ptable[p].state # "Unused"
    BY <1>1
  <2> HIDE DEF k2, me
  <2>3. Held(k2, F \ {p}, {}) /\ Beside(k1, k2, p)
    BY <1>2, <2>1, <2>2, HeldMakeReady
  <2>4. k2.current = me /\ k2.ptable[me].state = "Running"
    BY <1>1, <1>4, <2>3 DEF Beside, SamePCB
  <2>5. Settled(k2)
    BY <1>2, <2>3, <2>4 DEF Settled
  <2> QED
    BY <2>5 DEF Served, k2
<1> QED
  BY <1>5, <1>6

(* Taking the head of a queue in hand, besides the current process.        *)
LEMMA TakeHead ==
  ASSUME NEW k, Settled(k), NEW q \in Queues, ~pcb_queue_empty(k, q)
  PROVE  LET p == k.q[q].head
             k1 == pcb_queue_remove(k, q)
         IN /\ p \in Slots \ {k.current} /\ q \in Home(p, k.ptable[p].state)
            /\ Same(k, k1) /\ Held(k1, {k.current} \cup {p}, {})
<1> DEFINE F == {k.current}
           p == k.q[q].head
           k1 == pcb_queue_remove(k, q)
<1>1. Held(k, F, {}) /\ Fine(k, F)
  BY SettledIs DEF Held
<1> HIDE DEF F
<1>2. p \in Slots \ F /\ q \in Home(p, k.ptable[p].state)
  BY <1>1, HeadIs
<1>3. Same(k, k1) /\ Held(k1, F \cup {p}, {})
  BY <1>1, HeldRemove
<1> QED
  BY <1>2, <1>3 DEF F

LEMMA SettledOther ==
  ASSUME NEW k, Settled(k), NEW k1 \in KernelState, Ok(k1), k1.current = k.current,
         k1.ptable = k.ptable, k1.q = k.q, k1.next_pid = k.next_pid, k1.stacks = k.stacks
  PROVE  Settled(k1)
<1> DEFINE F == {k.current}
<1>1. Held(k, F, {}) /\ k.ptable[k.current].state = "Running"
  BY SettledIs
<1> HIDE DEF F
<1>2. Held(k1, F, {})
  BY <1>1, HeldOther
<1> QED
  BY <1>1, <1>2 DEF Settled, F

LEMMA ClockEnterHolds ==
  ASSUME NEW k, Settled(k)
  PROVE  Settled(ClockEnter(k))
<1> DEFINE k1 == ClockEnter(k)
<1>1. k \in KernelState
  BY SettledIs
<1>2. (k.system_time + 1) % TimeMod \in 0..TimeMod-1
  <2>1. k.system_time \in 0..TimeMod-1 /\ TimeMod \in Nat /\ TimeMod > 0
    BY <1>1, ProcsAssumption DEF KernelState
  <2> QED
    BY <2>1
<1>3. /\ k1 \in KernelState /\ k1.ptable = k.ptable /\ k1.q = k.q /\ k1.current = k.current
      /\ k1.next_pid = k.next_pid /\ k1.stacks = k.stacks /\ k1.status = "clock"
  BY <1>1, <1>2, Zenon DEF KernelState, ClockEnter
<1> HIDE DEF k1
<1>4. Ok(k1)
  BY <1>3 DEF Ok
<1>5. Settled(k1)
  BY <1>3, <1>4, SettledOther
<1> QED
  BY <1>5 DEF k1

LEMMA ClockWakeHolds ==
  ASSUME NEW k, Settled(k), ~pcb_queue_empty(k, "sleeping")
  PROVE  Served(k, ClockWake(k))
<1> DEFINE p == k.q["sleeping"].head
           k1 == pcb_queue_remove(k, "sleeping")
<1>1. "sleeping" \in Queues
  BY DEF Queues
<1>2. /\ p \in Slots \ {k.current} /\ "sleeping" \in Home(p, k.ptable[p].state)
      /\ Same(k, k1) /\ Held(k1, {k.current} \cup {p}, {})
  BY <1>1, TakeHead
<1>3. ClockWake(k) = schedule(k1, p)
  BY DEF ClockWake
<1> HIDE DEF k1, p
<1>4. k.ptable[p].state = "Running"
  BY <1>2 DEF Home
<1>5. /\ k1.current = k.current
      /\ \A x \in Slots : /\ k1.ptable[x].state = k.ptable[x].state
                          /\ k1.ptable[x].pid = k.ptable[x].pid
  BY <1>2 DEF Same, SameRest, SamePCB
<1>6. Served(k, schedule(k1, p))
  BY <1>2, <1>4, <1>5, ScheduleHolds
<1> QED
  BY <1>3, <1>6

LEMMA ClockDoneHolds ==
  ASSUME NEW k, Settled(k)
  PROVE  Settled(ClockDone(k))
<1> DEFINE k1 == [k EXCEPT !.status = "user", !.ticks = @ - 1]
<1>0. k \in KernelState
  BY SettledIs
<1>1. k \in KernelState /\ k.ticks - 1 \in Int
  BY <1>0 DEF KernelState
<1>2. /\ k1 \in KernelState /\ k1.ptable = k.ptable /\ k1.q = k.q /\ k1.current = k.current
      /\ k1.next_pid = k.next_pid /\ k1.stacks = k.stacks /\ k1.status = "user"
  BY <1>1, Zenon DEF KernelState
<1>3. ClockDone(k) = IF k1.ticks < 1 THEN Redispatch(schedule(k1, k1.current)) ELSE k1
  BY Zenon DEF ClockDone
<1> HIDE DEF k1
<1>4. Ok(k1)
  BY <1>2 DEF Ok
<1>5. Settled(k1)
  BY <1>2, <1>4, SettledOther
<1>6. Settled(Redispatch(schedule(k1, k1.current)))
  BY <1>5, SliceEnds
<1> QED
  BY <1>3, <1>5, <1>6

LEMMA RxHolds ==
  ASSUME NEW k, Settled(k), NEW n \in Nat
  PROVE  Served(k, sio_isr_rx(k, n))
<1> DEFINE full == IF k.incount + n > IN_SIZE THEN IN_SIZE ELSE k.incount + n
           p == k.q["sioread"].head
           k0 == [k EXCEPT !.incount = full]
           k1 == pcb_queue_remove(k0, "sioread")
           num == IF k1.ptable[p].arg < full THEN k1.ptable[p].arg ELSE full
           k2 == [k1 EXCEPT !.incount = full - num]
<1>1. k \in KernelState /\ Ok(k)
  BY SettledIs
<1>2. full \in Nat
  BY <1>1, KernelAssumption DEF KernelState
<1>3. sio_isr_rx(k, n) = IF pcb_queue_empty(k, "sioread") THEN k0 ELSE schedule(k2, p)
  BY Zenon DEF sio_isr_rx
<1> HIDE DEF full
<1>4. /\ k0 \in KernelState /\ k0.ptable = k.ptable /\ k0.q = k.q /\ k0.current = k.current
      /\ k0.next_pid = k.next_pid /\ k0.stacks = k.stacks /\ k0.status = k.status
  BY <1>1, <1>2, Zenon DEF KernelState
<1> HIDE DEF k0
<1>5. Settled(k0)
  <2>1. Ok(k0)
    BY <1>1, <1>4 DEF Ok
  <2> QED
    BY <1>4, <2>1, SettledOther
<1>6. ASSUME ~pcb_queue_empty(k, "sioread")
      PROVE  Served(k, schedule(k2, p))
  <2>1. "sioread" \in Queues /\ ~pcb_queue_empty(k0, "sioread") /\ p = k0.q["sioread"].head
    BY <1>4, <1>6 DEF Queues, pcb_queue_empty
  <2> HIDE DEF p
  <2>2. /\ p \in Slots \ {k0.current} /\ "sioread" \in Home(p, k0.ptable[p].state)
        /\ Same(k0, k1) /\ Held(k1, {k0.current} \cup {p}, {})
    BY <1>5, <2>1, TakeHead
  <2> HIDE DEF k1
  <2>3. Basic(k0)
    BY <1>5, SettledIs DEF Held
  <2>4. k0.ptable[p].state \in {"Blocked", "Killed"} /\ p # init_pcb /\ p # idle_pcb
    <3>1. k0.ptable[p].state \in {"Blocked", "Killed"}
      BY <2>2 DEF Home
    <3>2. p # init_pcb
      BY <2>3, <3>1 DEF Basic
    <3>3. p # idle_pcb
      BY <2>2, <2>3, <3>1 DEF Basic, Home
    <3> QED
      BY <3>1, <3>2, <3>3
  <2>5. full - num \in Nat
    <3>1. k1.ptable[p].arg \in Nat
      BY <2>2, TableType DEF Same
    <3> QED
      BY <1>2, <3>1
  <2> DEFINE m == full - num
             F == {k0.current} \cup {p}
  <2>6. k2 = [k1 EXCEPT !.incount = m] /\ m \in Nat /\ Held(k1, F, {})
    BY <2>2, <2>5
  <2> HIDE DEF m, k2, F
  <2>7. Held(k2, F, {}) /\ k2.current = k1.current /\ k2.ptable = k1.ptable
    BY <2>6, IncountIs
  <2>8. /\ k2.current = k.current
        /\ \A x \in Slots : /\ k2.ptable[x].state = k.ptable[x].state
                            /\ k2.ptable[x].pid = k.ptable[x].pid
    BY <1>4, <2>2, <2>7 DEF Same, SameRest, SamePCB
  <2>9. /\ p \in Slots \ {k.current} /\ Held(k2, {k.current} \cup {p}, {})
        /\ k.ptable[p].state \notin {"Unused", "Zombie"}
    BY <1>4, <2>2, <2>4, <2>7 DEF F
  <2> QED
    BY <2>4, <2>8, <2>9, ScheduleHolds
<1> HIDE DEF k2, p
<1> QED
  BY <1>3, <1>5, <1>6 DEF Served
-----------------------------------------------------------------------------
(* What the invariant says of the queues as the properties state them.     *)

LEMMA MembersIs ==
  ASSUME NEW k, NEW F, NEW L, Good(k, F, L), NEW q \in Queues
  PROVE  /\ Members(k, q) = {L[q][i] : i \in 1..k.q[q].length}
         /\ Walk(k, q, {})[N_PROCS] = NULL
<1> DEFINE n == k.q[q].length
           None == {}
           f == n + 1
<1>1. n \in Nat /\ n <= N_PROCS /\ N_PROCS \in Nat
  BY QueueIs
<1>2. EndsAt(k, q, L[q], None, f) /\ None \in SUBSET Slots
  BY <1>1 DEF EndsAt
<1> HIDE DEF None, f
<1>3. Visited(k, q, None) = {L[q][i] : i \in 1..f-1}
  BY <1>2, VisitedIs
<1>4. \A i \in 0..N_PROCS :
        Walk(k, q, None)[i] = IF i + 1 < f THEN L[q][i + 1]
                              ELSE IF f <= k.q[q].length THEN L[q][f] ELSE NULL
  <2> HIDE DEF n
  <2>1. /\ EndsAt(k, q, L[q], None, f) /\ None \in SUBSET Slots
        /\ Good(k, F, L) /\ q \in Queues
    BY <1>2
  <2> QED
    BY <2>1, WalkIs, SMTT(60)
<1>5. f - 1 = n /\ ~(N_PROCS + 1 < f) /\ ~(f <= n) /\ N_PROCS \in 0..N_PROCS
  BY <1>1 DEF f
<1>6. Walk(k, q, None)[N_PROCS] = NULL
  BY <1>4, <1>5
<1> QED
  BY <1>3, <1>5, <1>6 DEF Members, None

LEMMA GoodSound ==
  ASSUME NEW k, NEW F, NEW L, Good(k, F, L), NEW q \in Queues
  PROVE  SoundQueue(k, q)
<1> DEFINE n == k.q[q].length
           s == L[q]
           members == Members(k, q)
<1>1. /\ n \in Nat /\ s \in [1..n -> Slots]
      /\ n = 0 => k.q[q].head = NULL /\ k.q[q].tail = NULL
      /\ n # 0 => k.q[q].head = s[1] /\ k.q[q].tail = s[n]
      /\ \A i \in 1..n : k.ptable[s[i]].next = IF i = n THEN NULL ELSE s[i + 1]
      /\ \A i, j \in 1..n : s[i] = s[j] => i = j
  BY QueueIs
<1>2. Ordered(k, q, s)
  BY DEF Good
<1>3. members = {s[i] : i \in 1..n} /\ Walk(k, q, {})[N_PROCS] = NULL
  BY MembersIs
<1> HIDE DEF members
<1>4. Cardinality(members) = n
  <2>1. s \in Bijection(1..n, members)
    BY <1>1, <1>3, SMTT(30) DEF Bijection, Injection, Surjection, IsInjective
  <2>2. ExistsBijection(1..n, members)
    BY <2>1 DEF ExistsBijection
  <2> HIDE DEF n
  <2> QED
    BY <1>1, <2>2, FS_CountingElements
<1>5. IF members = {} THEN k.q[q].tail = NULL
      ELSE k.q[q].tail \in members /\ k.ptable[k.q[q].tail].next = NULL
  <2>1. CASE n = 0
    <3>1. members = {}
      BY <1>3, <2>1
    <3> QED
      BY <1>1, <2>1, <3>1
  <2>2. CASE n # 0
    <3>1. n \in 1..n
      BY <1>1, <2>2
    <3>2. s[n] \in members /\ k.ptable[s[n]].next = NULL /\ k.q[q].tail = s[n]
      BY <1>1, <1>3, <2>2, <3>1
    <3> QED
      BY <3>2
  <2> QED
    BY <2>1, <2>2
<1>6. ASSUME ~IsFifo(q), NEW p \in members, k.ptable[p].next # NULL
      PROVE  Key(k, q, p) <= Key(k, q, k.ptable[p].next)
  <2>1. PICK i \in 1..n : p = s[i]
    BY <1>3
  <2>2. i # n /\ k.ptable[p].next = s[i + 1]
    BY <1>1, <1>6, <2>1
  <2>3. i \in 1..n-1
    BY <1>1, <2>2
  <2> QED
    BY <1>2, <1>6, <2>1, <2>2, <2>3 DEF Ordered
<1> QED
  BY <1>3, <1>4, <1>5, <1>6 DEF SoundQueue, members

LEMMA SettledPlaced ==
  ASSUME Settled(sys), NEW p \in Slots
  PROVE  RightPlace(sys.ptable[p].state, p, {q \in Queues : p \in Members(sys, q)})
<1> DEFINE F == {sys.current}
           on == {q \in Queues : p \in Members(sys, q)}
           state == sys.ptable[p].state
<1>1. Fine(sys, F) /\ sys.ptable[sys.current].state = "Running"
  BY SettledIs DEF Held
<1>2. PICK L : Good(sys, F, L)
  BY <1>1 DEF Fine
<1>3. Placed(sys, F, L) /\ Apart(L)
  BY <1>2 DEF Good
<1>4. ASSUME NEW q \in Queues
      PROVE  q \in on <=> \E i \in DOMAIN L[q] : L[q][i] = p
  <2>1. Members(sys, q) = {L[q][i] : i \in 1..sys.q[q].length}
        /\ DOMAIN L[q] = 1..sys.q[q].length
    BY <1>2, MembersIs, QueueIs
  <2> QED
    BY <2>1
<1>5. CASE p = sys.current
  <2>1. on = {}
    BY <1>3, <1>4, <1>5 DEF Placed
  <2>2. state = "Running"
    BY <1>1, <1>5
  <2> HIDE DEF on, state
  <2>3. RightPlace(state, p, on)
    BY <1>5, <2>1, <2>2 DEF RightPlace
  <2> QED
    BY <2>3 DEF on, state
<1>6. CASE p # sys.current
  <2>1. PICK q \in Queues : \E i \in DOMAIN L[q] : L[q][i] = p
    BY <1>3, <1>6 DEF Placed
  <2>2. PICK i \in DOMAIN L[q] : L[q][i] = p
    BY <2>1
  <2>3. q \in Home(p, state)
    BY <1>3, <2>2 DEF Placed
  <2>4. q \in on
    BY <1>4, <2>2
  <2>5. ASSUME NEW r \in on PROVE r = q
    <3>1. PICK j \in DOMAIN L[r] : L[r][j] = p
      BY <1>4
    <3> QED
      BY <1>3, <2>2, <3>1 DEF Apart
  <2>6. on = {q}
    BY <2>4, <2>5
  <2> HIDE DEF on, state
  <2>7. RightPlace(state, p, {q})
    BY <1>6, <2>3 DEF RightPlace, Home
  <2> QED
    BY <2>6, <2>7 DEF on, state
<1> QED
  BY <1>5, <1>6

LEMMA SettledConsequences ==
  ASSUME Settled(sys)
  PROVE  QueuesSound /\ PlacedOnce /\ ParentAlive /\ StacksConserved /\ Ok(sys)
<1>1. /\ Held(sys, {sys.current}, {}) /\ Ok(sys)
      /\ sys.ptable[sys.current].state = "Running" /\ Me(sys) = sys.ptable[sys.current]
  BY SettledIs
<1>2. Fine(sys, {sys.current}) /\ Family(sys) /\ Stacks(sys)
  BY <1>1 DEF Held
<1>3. PICK L : Good(sys, {sys.current}, L)
  BY <1>2 DEF Fine
<1>4. QueuesSound
  BY <1>3, GoodSound DEF QueuesSound
<1>5. PlacedOnce
  <2> DEFINE members == [q \in Queues |-> Members(sys, q)]
  <2>1. ASSUME NEW p \in Slots
        PROVE RightPlace(sys.ptable[p].state, p, {q \in Queues : p \in members[q]})
    <3>1. {q \in Queues : p \in members[q]} = {q \in Queues : p \in Members(sys, q)}
      OBVIOUS
    <3> HIDE DEF members
    <3> QED
      BY <3>1, SettledPlaced
  <2> HIDE DEF members
  <2> QED
    BY <1>1, <2>1 DEF PlacedOnce, members
<1>6. ParentAlive
  BY <1>2, BasicSlots DEF ParentAlive, Family
<1>7. StacksConserved
  BY <1>2 DEF StacksConserved, Stacks, Used
<1> QED
  BY <1>1, <1>4, <1>5, <1>6, <1>7

-----------------------------------------------------------------------------
(* The steps.                                                              *)

(* Who makes which calls.                                                  *)
LEMMA CallerIs ==
  ASSUME NEW call, May(call), Settled(sys)
  PROVE  /\ Me(sys).pid # PID_IDLE
         /\ call \notin {"waitpid", "fork"} => Me(sys).pid \notin {PID_INIT, PID_IDLE}
<1>1. /\ Me(sys).pid # PID_INIT <=> sys.current # init_pcb
      /\ Me(sys).pid # PID_IDLE <=> sys.current # idle_pcb
  BY Caller
<1> QED
  BY <1>1 DEF May, CallsOf, Me, PID_INIT, PID_IDLE

LEMMA StepHolds ==
  ASSUME Settled(sys), Next, ~Wrapped(sys')
  PROVE  \/ Served(sys, sys')
         \/ "exec" \in Calls /\ sys.stacks < 1 /\ ~Ok(sys')
<1>1. Ok(sys)
  BY SettledIs
<1>2. CASE Exit
  <2>1. PICK c \in ExitCodes : sys' = sys_exit(sys, c)
    BY <1>2 DEF Exit
  <2>2. Me(sys).pid \notin {PID_INIT, PID_IDLE} /\ c \in Int
    BY <1>2, CallerIs, KernelAssumption DEF Exit
  <2> QED
    BY <2>1, <2>2, OnwardSelf, ExitHolds
<1>3. CASE BadCall
  <2>1. Me(sys).pid \notin {PID_INIT, PID_IDLE} /\ EXIT_BAD_SYSCALL \in Int
    BY <1>3, CallerIs DEF BadCall, EXIT_BAD_SYSCALL
  <2> QED
    BY <1>3, <2>1, OnwardSelf, ExitHolds DEF BadCall
<1>4. CASE Waitpid
  <2>1. PICK t \in WaitTargets : sys' = sys_waitpid(sys, t)
    BY <1>4 DEF Waitpid
  <2>2. Me(sys).pid # PID_IDLE /\ t \in Nat
    BY <1>4, CallerIs, KernelAssumption DEF Waitpid
  <2> QED
    BY <2>1, <2>2, WaitpidHolds
<1>5. CASE Fork
  BY <1>5, ForkHolds DEF Fork, Served
<1>6. CASE Exec
  <2>1. "exec" \in Calls
    BY <1>6 DEF Exec, May, CallsOf
  <2>2. IF sys.stacks < 1 THEN ~Ok(sys') ELSE Settled(sys')
    BY <1>6, ExecHolds DEF Exec
  <2> QED
    BY <2>1, <2>2 DEF Served
<1>7. CASE Read
  <2>1. PICK n \in ReadLens : sys' = sys_read(sys, n)
    BY <1>7 DEF Read
  <2>2. Me(sys).pid \notin {PID_INIT, PID_IDLE} /\ n \in Nat
    BY <1>7, CallerIs, KernelAssumption DEF Read
  <2> QED
    BY <2>1, <2>2, ReadHolds DEF Served
<1>8. CASE SetPrio
  BY <1>8, KernelAssumption, SetprioHolds DEF SetPrio, Onward, Served
<1>9. CASE Kill
  <2>1. PICK pid \in KillTargets : sys' = sys_kill(sys, pid)
    BY <1>9 DEF Kill
  <2>2. Me(sys).pid \notin {PID_INIT, PID_IDLE} /\ pid \in Nat
    BY <1>9, CallerIs, KernelAssumption DEF Kill
  <2> QED
    BY <2>1, <2>2, KillHolds
<1>10. CASE Sleep
  <2>1. PICK n \in SleepTimes : sys' = sys_sleep(sys, n)
    BY <1>10 DEF Sleep
  <2>2. Me(sys).pid \notin {PID_INIT, PID_IDLE} /\ n \in Nat
    BY <1>10, CallerIs, KernelAssumption DEF Sleep
  <2> QED
    BY <2>1, <2>2, SleepHolds DEF Served
<1>11. CASE ClockTick
  BY <1>11, ClockEnterHolds DEF ClockTick, Served
<1>12. CASE ClockLoop
  BY <1>12, ClockWakeHolds DEF ClockLoop, SleeperIsDue
<1>13. CASE ClockEnd
  BY <1>13, ClockDoneHolds DEF ClockEnd, Served
<1>14. CASE SerialInput
  <2>1. PICK n \in 1..MaxBurst : sys' = sio_isr_rx(sys, n)
    BY <1>14 DEF SerialInput
  <2>2. n \in Nat
    BY KernelAssumption
  <2> QED
    BY <2>1, <2>2, RxHolds
<1>15. CASE Halted
  BY <1>1, <1>15 DEF Halted, Ok
<1> QED
  BY <1>2, <1>3, <1>4, <1>5, <1>6, <1>7, <1>8, <1>9, <1>10, <1>11, <1>12, <1>13,
     <1>14, <1>15 DEF Next

(* A step that gives waitpid a PID is the one the history variable sees.   *)
LEMMA MarksStale ==
  ASSUME HNext, Marks(sys, sys')
  PROVE  stale'
<1>1. PICK p \in Slots :
        /\ sys'.ptable[p].ret > 0 /\ sys'.ptable[p].ret # sys.ptable[p].ret
        /\ ~(/\ p = init_pcb /\ sys.ptable[p].state = "Waiting"
             /\ sys.ptable[pcb_find_pid(sys, sys'.ptable[p].ret)].state = "Zombie")
  BY DEF Marks
<1>2. Reaps(p) /\ ~InheritsZombie(p)
  BY <1>1 DEF Reaps, InheritsZombie
<1> QED
  BY <1>2 DEF HNext
(* The state after boot, field by field.                                   *)
BootedPCB(k, s, state, pid) ==
  /\ k.ptable[s].state = state /\ k.ptable[s].pid = pid /\ k.ptable[s].parent = init_pcb
  /\ k.ptable[s].next = NULL /\ k.ptable[s].ret = 0
BootedFree(k, s) ==
  /\ k.ptable[s].state = "Unused" /\ k.ptable[s].pid = 0 /\ k.ptable[s].ret = 0
  /\ k.ptable[s].next = IF s = N_PROCS THEN NULL ELSE s + 1
BootedQueue(k, q, head, tail, length) ==
  k.q[q].head = head /\ k.q[q].tail = tail /\ k.q[q].length = length

LEMMA BootedIs ==
  ASSUME NEW t \in 0..TimeMod-1
  PROVE  LET k == Booted(t) IN
         /\ k \in KernelState /\ Ok(k) /\ k.current = 3 /\ k.stacks = N_STACKS - 3
         /\ k.next_pid = 4 /\ UniquePids(k)
         /\ BootedPCB(k, 1, "Waiting", 1) /\ BootedPCB(k, 2, "Ready", 2)
         /\ BootedPCB(k, 3, "Running", 3)
         /\ \A s \in 4..N_PROCS : BootedFree(k, s)
         /\ BootedQueue(k, "waiting", 1, 1, 1) /\ BootedQueue(k, "ready", 2, 2, 1)
         /\ BootedQueue(k, "freelist", IF N_PROCS = 3 THEN NULL ELSE 4,
                        IF N_PROCS = 3 THEN NULL ELSE N_PROCS, N_PROCS - 3)
         /\ \A q \in {"sleeping", "zombie", "sioread"} : BootedQueue(k, q, NULL, NULL, 0)
<1> DEFINE k == Booted(t)
<1>1. k \in KernelState /\ UniquePids(k)
  BY InitSane DEF Sane
<1>2. N_PROCS \in Nat /\ N_PROCS >= 3
  BY ProcsAssumption
<1>3. 1 \in Slots /\ 2 \in Slots /\ 3 \in Slots /\ \A s \in 4..N_PROCS : s \in Slots
  BY <1>2 DEF Slots
<1>4. Ok(k) /\ k.current = 3 /\ k.stacks = N_STACKS - 3 /\ k.next_pid = 4
  BY DEF Booted, Ok
<1>5. /\ k.ptable[1] = BootPCB(PID_INIT, PRIO_HIGH, "Waiting")
      /\ k.ptable[2] = BootPCB(PID_IDLE, PRIO_DEFERRED, "Ready")
      /\ k.ptable[3] = BootPCB(3, PRIO_STD, "Running")
      /\ \A s \in 4..N_PROCS : k.ptable[s] = FreePCB(s)
  BY <1>3 DEF Booted, init_pcb
<1>6. /\ k.q["waiting"] = Only(init_pcb) /\ k.q["ready"] = Only(2)
      /\ k.q["freelist"] = IF N_PROCS > 3
                           THEN [head |-> 4, tail |-> N_PROCS, length |-> N_PROCS - 3]
                           ELSE Only(NULL)
      /\ \A q \in {"sleeping", "zombie", "sioread"} : k.q[q] = Only(NULL)
  BY DEF Booted, Queues
<1> HIDE DEF k
<1>7. /\ BootedPCB(k, 1, "Waiting", 1) /\ BootedPCB(k, 2, "Ready", 2)
      /\ BootedPCB(k, 3, "Running", 3)
  BY <1>5 DEF BootedPCB, BootPCB, PID_INIT, PID_IDLE
<1>8. ASSUME NEW s \in 4..N_PROCS PROVE BootedFree(k, s)
  <2> DEFINE n == IF s = N_PROCS THEN NULL ELSE s + 1
             pcb == FreePCB(s)
  <2> HIDE DEF n
  <2>1. pcb.state = "Unused" /\ pcb.pid = 0 /\ pcb.ret = 0 /\ pcb.next = n
    BY DEF FreePCB, n
  <2> HIDE DEF pcb
  <2>2. k.ptable[s] = pcb
    BY <1>5 DEF pcb
  <2> QED
    BY <2>1, <2>2 DEF BootedFree, n
<1>9. BootedQueue(k, "waiting", 1, 1, 1) /\ BootedQueue(k, "ready", 2, 2, 1)
  BY <1>6 DEF BootedQueue, Only, NULL, init_pcb
<1>10. BootedQueue(k, "freelist", IF N_PROCS = 3 THEN NULL ELSE 4,
                   IF N_PROCS = 3 THEN NULL ELSE N_PROCS, N_PROCS - 3)
  <2>1. CASE N_PROCS = 3
    BY <1>6, <2>1 DEF BootedQueue, Only, NULL
  <2>2. CASE N_PROCS # 3
    BY <1>2, <1>6, <2>2 DEF BootedQueue
  <2> QED
    BY <2>1, <2>2
<1>11. \A q \in {"sleeping", "zombie", "sioread"} : BootedQueue(k, q, NULL, NULL, 0)
  BY <1>6 DEF BootedQueue, Only, NULL
<1> QED
  BY <1>1, <1>4, <1>7, <1>8, <1>9, <1>10, <1>11 DEF k

LEMMA InitSettled ==
  ASSUME NEW t \in 0..TimeMod-1
  PROVE  Settled(Booted(t))
<1> DEFINE k == Booted(t)
           F == {3}
           L == [q \in Queues |->
                   CASE q = "waiting" -> [i \in 1..1 |-> 1]
                     [] q = "ready" -> [i \in 1..1 |-> 2]
                     [] q = "freelist" -> [i \in 1..N_PROCS-3 |-> i + 3]
                     [] OTHER -> [i \in 1..0 |-> 1]]
<1>1. /\ k \in KernelState /\ Ok(k) /\ k.current = 3 /\ k.stacks = N_STACKS - 3
      /\ k.next_pid = 4 /\ UniquePids(k)
      /\ BootedPCB(k, 1, "Waiting", 1) /\ BootedPCB(k, 2, "Ready", 2)
      /\ BootedPCB(k, 3, "Running", 3)
      /\ \A s \in 4..N_PROCS : BootedFree(k, s)
      /\ BootedQueue(k, "waiting", 1, 1, 1) /\ BootedQueue(k, "ready", 2, 2, 1)
      /\ BootedQueue(k, "freelist", IF N_PROCS = 3 THEN NULL ELSE 4,
                     IF N_PROCS = 3 THEN NULL ELSE N_PROCS, N_PROCS - 3)
      /\ \A q \in {"sleeping", "zombie", "sioread"} : BootedQueue(k, q, NULL, NULL, 0)
  BY BootedIs
<1>2. N_PROCS \in Nat /\ N_PROCS >= 3
  BY ProcsAssumption
<1>3. /\ Slots = 1..N_PROCS /\ NULL = 0 /\ init_pcb = 1 /\ idle_pcb = 2
      /\ \A s \in Slots : s = 1 \/ s = 2 \/ s = 3 \/ s \in 4..N_PROCS
  BY <1>2 DEF Slots, NULL, init_pcb, idle_pcb
<1>4. 1 \in Slots /\ 2 \in Slots /\ 3 \in Slots
  BY <1>2, <1>3
<1>5. /\ L["waiting"] = [i \in 1..1 |-> 1] /\ L["ready"] = [i \in 1..1 |-> 2]
      /\ L["freelist"] = [i \in 1..N_PROCS-3 |-> i + 3]
      /\ \A q \in {"sleeping", "zombie", "sioread"} : L[q] = [i \in 1..0 |-> 1]
  BY DEF Queues
<1>6. \A q \in Queues : q \in {"waiting", "ready", "freelist"}
                        \/ q \in {"sleeping", "zombie", "sioread"}
  BY DEF Queues
<1> HIDE DEF k, L
<1>7. ASSUME NEW q \in Queues PROVE Chain(k, q, L[q]) /\ Ordered(k, q, L[q])
  <2>1. CASE q = "waiting"
    <3>1. k.q[q].head = 1 /\ k.q[q].tail = 1 /\ k.q[q].length = 1 /\ k.ptable[1].next = NULL
      BY <1>1, <2>1 DEF BootedQueue, BootedPCB
    <3>2. L[q] = [i \in 1..1 |-> 1]
      BY <1>5, <2>1
    <3> QED
      BY <1>4, <3>1, <3>2 DEF Chain, Ordered
  <2>2. CASE q = "ready"
    <3>1. k.q[q].head = 2 /\ k.q[q].tail = 2 /\ k.q[q].length = 1 /\ k.ptable[2].next = NULL
      BY <1>1, <2>2 DEF BootedQueue, BootedPCB
    <3>2. L[q] = [i \in 1..1 |-> 2]
      BY <1>5, <2>2
    <3> QED
      BY <1>4, <3>1, <3>2 DEF Chain, Ordered
  <2>3. CASE q = "freelist"
    <3> DEFINE n == N_PROCS - 3
               s == [i \in 1..n |-> i + 3]
    <3>1. /\ k.q[q].head = IF N_PROCS = 3 THEN NULL ELSE 4
          /\ k.q[q].tail = IF N_PROCS = 3 THEN NULL ELSE N_PROCS
          /\ k.q[q].length = n
      BY <1>1, <2>3 DEF BootedQueue
    <3>2. L[q] = s
      BY <1>5, <2>3
    <3>3. s \in [1..n -> Slots]
      BY <1>2, <1>3
    <3>4. ASSUME NEW i \in 1..n
          PROVE  k.ptable[s[i]].next = IF i = n THEN NULL ELSE s[i + 1]
      <4>1. s[i] = i + 3 /\ i + 3 \in 4..N_PROCS /\ (i = n <=> i + 3 = N_PROCS)
        BY <1>2
      <4>2. k.ptable[i + 3].next = IF i + 3 = N_PROCS THEN NULL ELSE (i + 3) + 1
        BY <1>1, <4>1 DEF BootedFree
      <4>3. i # n => s[i + 1] = (i + 3) + 1
        BY <1>2
      <4> QED
        BY <4>1, <4>2, <4>3
    <3>5. n # 0 => s[1] = 4 /\ s[n] = N_PROCS /\ N_PROCS # 3
      BY <1>2
    <3>6. n = 0 => N_PROCS = 3
      BY <1>2
    <3> HIDE DEF s, n
    <3>7. Chain(k, q, s)
      BY <3>1, <3>3, <3>4, <3>5, <3>6 DEF Chain
    <3>8. Ordered(k, q, s)
      BY <2>3 DEF Ordered, IsFifo
    <3> QED
      BY <3>2, <3>7, <3>8
  <2>4. CASE q \in {"sleeping", "zombie", "sioread"}
    <3>1. k.q[q].head = NULL /\ k.q[q].tail = NULL /\ k.q[q].length = 0
      BY <1>1, <2>4 DEF BootedQueue
    <3>2. L[q] = [i \in 1..0 |-> 1]
      BY <1>5, <2>4
    <3> QED
      BY <3>1, <3>2 DEF Chain, Ordered
  <2> QED
    BY <1>6, <2>1, <2>2, <2>3, <2>4
<1>8. ASSUME NEW q \in Queues, NEW i \in DOMAIN L[q]
      PROVE  \/ q = "waiting" /\ i = 1 /\ L[q][i] = 1
             \/ q = "ready" /\ i = 1 /\ L[q][i] = 2
             \/ q = "freelist" /\ i \in 1..N_PROCS-3 /\ L[q][i] = i + 3
  <2>1. CASE q = "waiting"
    BY <1>5, <2>1
  <2>2. CASE q = "ready"
    BY <1>5, <2>2
  <2>3. CASE q = "freelist"
    BY <1>5, <2>3
  <2>4. CASE q \in {"sleeping", "zombie", "sioread"}
    BY <1>5, <2>4
  <2> QED
    BY <1>6, <2>1, <2>2, <2>3, <2>4
<1>9. Apart(L)
  <2>1. ASSUME NEW q \in Queues, NEW r \in Queues, NEW i \in DOMAIN L[q],
               NEW j \in DOMAIN L[r], L[q][i] = L[r][j]
        PROVE  q = r /\ i = j
    <3>1. \/ q = "waiting" /\ i = 1 /\ L[q][i] = 1
          \/ q = "ready" /\ i = 1 /\ L[q][i] = 2
          \/ q = "freelist" /\ i \in 1..N_PROCS-3 /\ L[q][i] = i + 3
      BY <1>8
    <3>2. \/ r = "waiting" /\ j = 1 /\ L[r][j] = 1
          \/ r = "ready" /\ j = 1 /\ L[r][j] = 2
          \/ r = "freelist" /\ j \in 1..N_PROCS-3 /\ L[r][j] = j + 3
      BY <1>8
    <3> QED
      BY <1>2, <2>1, <3>1, <3>2
  <2> QED
    BY <2>1 DEF Apart
<1>10. Placed(k, F, L)
  <2>1. ASSUME NEW q \in Queues, NEW i \in DOMAIN L[q]
        PROVE  L[q][i] \notin F /\ q \in Home(L[q][i], k.ptable[L[q][i]].state)
    <3>1. CASE q = "waiting" /\ i = 1 /\ L[q][i] = 1
      BY <1>1, <3>1 DEF BootedPCB, Home
    <3>2. CASE q = "ready" /\ i = 1 /\ L[q][i] = 2
      BY <1>1, <3>2 DEF BootedPCB, Home
    <3>3. CASE q = "freelist" /\ i \in 1..N_PROCS-3 /\ L[q][i] = i + 3
      <4>1. i + 3 \in 4..N_PROCS /\ i + 3 # 3
        BY <1>2, <3>3
      <4>2. k.ptable[L[q][i]].state = "Unused"
        BY <1>1, <3>3, <4>1 DEF BootedFree
      <4> QED
        BY <3>3, <4>1, <4>2 DEF Home
    <3> QED
      BY <1>8, <3>1, <3>2, <3>3
  <2>2. ASSUME NEW p \in Slots \ F
        PROVE  \E q \in Queues : \E i \in DOMAIN L[q] : L[q][i] = p
    <3>1. "waiting" \in Queues /\ "ready" \in Queues /\ "freelist" \in Queues
      BY DEF Queues
    <3>2. CASE p = 1
      <4>1. 1 \in DOMAIN L["waiting"] /\ L["waiting"][1] = p
        BY <1>5, <3>2
      <4> QED
        BY <3>1, <4>1
    <3>3. CASE p = 2
      <4>1. 1 \in DOMAIN L["ready"] /\ L["ready"][1] = p
        BY <1>5, <3>3
      <4> QED
        BY <3>1, <4>1
    <3>4. CASE p \in 4..N_PROCS
      <4> DEFINE j == p - 3
      <4>1. j \in 1..N_PROCS-3 /\ j + 3 = p
        BY <1>2, <3>4
      <4> HIDE DEF j
      <4>2. j \in DOMAIN L["freelist"] /\ L["freelist"][j] = p
        BY <1>5, <4>1
      <4> QED
        BY <3>1, <4>2
    <3> QED
      BY <1>3, <3>2, <3>3, <3>4
  <2>3. \A p \in F : k.ptable[p].next = NULL
    BY <1>1 DEF BootedPCB
  <2> HIDE DEF F
  <2> QED
    BY <2>1, <2>2, <2>3 DEF Placed
<1>11. Good(k, F, L)
  BY <1>1, <1>4, <1>7, <1>9, <1>10 DEF Good
<1>12. Fine(k, F)
  BY <1>11 DEF Fine
<1>13. ASSUME NEW p \in Slots, k.ptable[p].state # "Unused"
       PROVE  p \in {1, 2, 3} /\ k.ptable[p].parent = 1 /\ k.ptable[p].pid = p
  <2>1. p \in {1, 2, 3}
    BY <1>1, <1>3, <1>13 DEF BootedFree
  <2> QED
    BY <1>1, <1>3, <2>1 DEF BootedPCB
<1>14. Family(k)
  <2>1. k.ptable[1].parent = 1 /\ k.ptable[1].state = "Waiting"
    BY <1>1, <1>3 DEF BootedPCB
  <2> QED
    BY <1>3, <1>4, <1>13, <2>1 DEF Family
<1>15. Stacks(k)
  <2>1. Used(k) = 1..3
    <3>1. \A p \in {1, 2, 3} : p \in Slots /\ k.ptable[p].state # "Unused"
      BY <1>1, <1>4 DEF BootedPCB
    <3>2. 1..3 = {1, 2, 3}
      OBVIOUS
    <3> QED
      BY <1>13, <3>1, <3>2 DEF Used
  <2>2. Cardinality(1..3) = 3
    <3>1. ASSUME NEW n \in Nat PROVE Cardinality(1..n) = n
      BY FS_Interval
    <3> QED
      BY <3>1
  <2> QED
    BY <1>1, <2>1, <2>2 DEF Stacks
<1>16. \A p \in Slots : k.ptable[p].ret = 0
  BY <1>1, <1>3 DEF BootedPCB, BootedFree
<1>17. Waits(k) /\ Spent(k, {})
  BY <1>1, <1>16 DEF Waits, Spent
<1>18. Basic(k)
  <2>1. /\ k.ptable[1].pid = 1 /\ k.ptable[1].state = "Waiting"
        /\ k.ptable[2].pid = 2 /\ k.ptable[2].state = "Ready"
    BY <1>1 DEF BootedPCB
  <2>2. \A p \in Slots : k.ptable[p].state # "Unused" => k.ptable[p].pid > 0
    BY <1>13
  <2> QED
    BY <1>3, <2>1, <2>2 DEF Basic, PID_INIT, PID_IDLE
<1>19. Held(k, F, {})
  BY <1>1, <1>12, <1>14, <1>15, <1>17, <1>18 DEF Held
<1>20. k.ptable[3].state = "Running"
  BY <1>1 DEF BootedPCB
<1>21. Settled(k)
  BY <1>1, <1>19, <1>20 DEF Settled
<1> QED
  BY <1>21 DEF k

-----------------------------------------------------------------------------
(* The specification.                                                      *)

(* The inductive invariant: as long as no entry is stale, next_pid has not *)
(* wrapped and the kernel runs, the state is settled.                      *)
HInv == Sane(sys) /\ (Clean /\ Ok(sys) => Settled(sys)) /\ stale \in BOOLEAN

(* No step takes back a wrap: next_pid only grows.                         *)
LEMMA WrappedStays ==
  ASSUME Sane(sys), Next, Wrapped(sys)
  PROVE  Wrapped(sys')
<1>1. sys.next_pid \in Nat /\ Counts(sys, sys')
  BY NextSane DEF Sane, KernelState
<1> QED
  BY <1>1, ProcsAssumption DEF Counts, Wrapped


(* Queues, states, family and stacks are kept together: a queue is sound   *)
(* because its PCBs are on it alone, which their states say, and pcb_zombify *)
(* finds a live parent because whoever dies leaves no children.            *)
THEOREM SettledUntilStale == HSpec => []HInv
<1>1. HInit => HInv
  BY InitSane, InitSettled DEF HInit, Init, HInv
<1>2. HInv /\ [HNext]_vars => HInv'
  <2> SUFFICES ASSUME HInv, [HNext]_vars PROVE HInv'
    OBVIOUS
  <2>1. CASE UNCHANGED vars
    BY <2>1 DEF HInv, vars, Clean
  <2>2. CASE HNext
    <3>1. Next /\ stale' = (stale \/ \E p \in Slots : Reaps(p) /\ ~InheritsZombie(p))
      BY <2>2 DEF HNext
    <3>2. Sane(sys')
      BY <3>1, NextSane DEF HInv
    <3>3. stale' \in BOOLEAN /\ (stale => stale')
      BY <3>1 DEF HInv
    <3>4. ASSUME Clean', Ok(sys') PROVE Settled(sys')
      <4>1. Clean /\ ~stale' /\ ~Wrapped(sys')
        BY <3>1, <3>3, <3>4, WrappedStays DEF Clean, HInv
      <4>2. Ok(sys)
        BY <3>1, <3>4 DEF Next, Exit, BadCall, Waitpid, Fork, Exec, Read, SetPrio, Kill,
           Sleep, ClockTick, ClockLoop, ClockEnd, SerialInput, Halted, May, Ok
      <4>3. Settled(sys)
        BY <4>1, <4>2 DEF HInv
      <4>4. Served(sys, sys')
        BY <3>1, <3>4, <4>1, <4>3, StepHolds
      <4>5. ~Marks(sys, sys')
        BY <2>2, <4>1, MarksStale
      <4> QED
        BY <4>4, <4>5 DEF Served
    <3> QED
      BY <3>2, <3>3, <3>4 DEF HInv
  <2> QED
    BY <2>1, <2>2
<1> QED
  BY <1>1, <1>2, PTL DEF HSpec

(* Whatever mix of calls and interrupts the kernel serves, the six queues  *)
(* are sound lists in their promised order until pcb_zombify or            *)
(* sys_waitpid leaves a stale entry, or next_pid wraps.                    *)
THEOREM QueuesAlwaysSoundUntilStale == HSpec => []QueuesSoundUntilStale
<1>1. HInv => QueuesSoundUntilStale
  BY SettledConsequences DEF HInv, QueuesSoundUntilStale, QueuesSound
<1> QED
  BY <1>1, SettledUntilStale, PTL

(* Until then every PCB is on exactly the queue its state calls for, and   *)
(* the current process on none.                                            *)
THEOREM AlwaysPlacedOnceUntilStale == HSpec => []PlacedOnceUntilStale
<1>1. HInv => PlacedOnceUntilStale
  BY SettledConsequences DEF HInv, PlacedOnceUntilStale, PlacedOnce
<1> QED
  BY <1>1, SettledUntilStale, PTL

(* Until then every process has a live parent: pcb_zombify gives the       *)
(* children of whoever dies to init.                                       *)
THEOREM ParentAlwaysAliveUntilStale == HSpec => []ParentAliveUntilStale
<1>1. HInv => ParentAliveUntilStale
  BY SettledConsequences DEF HInv, ParentAliveUntilStale, ParentAlive
<1> QED
  BY <1>1, SettledUntilStale, PTL

(* Until then no stack is lost or freed twice by sys_fork, pcb_cleanup and *)
(* their callers.                                                          *)
THEOREM StacksAlwaysConservedUntilStale == HSpec => []StacksConservedUntilStale
<1>1. HInv => StacksConservedUntilStale
  BY SettledConsequences DEF HInv, StacksConservedUntilStale, StacksConserved
<1> QED
  BY <1>1, SettledUntilStale, PTL

(* Until then no assertion of the kernel fails, no list walk is endless    *)
(* and dispatch() finds a process, provided sys_exec, which panics when it *)
(* gets no stack, is not called or there is a stack more than processes.   *)
THEOREM KernelAlwaysRunsUntilStale ==
  ASSUME N_STACKS > N_PROCS \/ "exec" \notin Calls
  PROVE  HSpec => []KernelRunsUntilStale
<1>1. HInit => KernelRunsUntilStale
  BY InitSettled, SettledIs DEF HInit, Init, KernelRunsUntilStale
<1>2. HInv /\ KernelRunsUntilStale /\ [HNext]_vars => KernelRunsUntilStale'
  <2> SUFFICES ASSUME HInv, KernelRunsUntilStale, [HNext]_vars PROVE KernelRunsUntilStale'
    OBVIOUS
  <2>1. CASE UNCHANGED vars
    BY <2>1 DEF KernelRunsUntilStale, vars, Ok, Clean
  <2>2. CASE HNext
    <3> SUFFICES ASSUME ~stale', ~Wrapped(sys') PROVE Ok(sys')
      BY DEF KernelRunsUntilStale, Clean
    <3>1. Next /\ Clean
      BY <2>2, WrappedStays DEF HNext, HInv, Clean
    <3>2. Settled(sys)
      BY <3>1 DEF HInv, KernelRunsUntilStale
    <3>3. ~("exec" \in Calls /\ sys.stacks < 1)
      <4>1. Stacks(sys)
        BY <3>2, SettledIs DEF Held
      <4>2. Cardinality(Used(sys)) \in Nat /\ Cardinality(Used(sys)) <= N_PROCS
        BY UsedFinite
      <4> QED
        BY <4>1, <4>2, ProcsAssumption DEF Stacks
    <3>4. Served(sys, sys')
      BY <3>1, <3>2, <3>3, StepHolds
    <3>5. ~Marks(sys, sys')
      BY <2>2, MarksStale
    <3>6. Settled(sys')
      BY <3>4, <3>5 DEF Served
    <3> QED
      BY <3>6, SettledIs
  <2> QED
    BY <2>1, <2>2
<1> QED
  BY <1>1, <1>2, SettledUntilStale, PTL DEF HSpec
(* Until then init lives: sys_kill refuses its PID, and no slot of another *)
(* process is taken for it.                                                *)
THEOREM InitAlwaysLivesUntilStale == HSpec => [](Clean /\ Ok(sys) => InitLives)
<1>1. HInv => (Clean /\ Ok(sys) => InitLives)
  <2> SUFFICES ASSUME Settled(sys) PROVE InitLives
    BY DEF HInv
  <2>1. Basic(sys)
    BY SettledIs DEF Held
  <2> QED
    BY <2>1 DEF Basic, InitLives
<1> QED
  BY <1>1, SettledUntilStale, PTL

-----------------------------------------------------------------------------
(* Sleeping and dispatching.                                               *)

(* The sleep queue holds the sleepers and nobody else.                     *)
LEMMA AsleepIs ==
  ASSUME NEW k, Settled(k), NEW p \in Slots
  PROVE  Asleep(k, p) <=> Sleeps(k, p)
<1> DEFINE F == {k.current}
<1>1. Fine(k, F) /\ "sleeping" \in Queues
  BY SettledIs DEF Held, Queues
<1>2. PICK L : Good(k, F, L)
  BY <1>1 DEF Fine
<1>3. Placed(k, F, L)
  BY <1>2 DEF Good
<1>4. Asleep(k, p) <=> \E i \in DOMAIN L["sleeping"] : L["sleeping"][i] = p
  <2>1. /\ Members(k, "sleeping") = {L["sleeping"][i] : i \in 1..k.q["sleeping"].length}
        /\ DOMAIN L["sleeping"] = 1..k.q["sleeping"].length
    BY <1>1, <1>2, MembersIs, QueueIs
  <2> QED
    BY <2>1 DEF Asleep
<1>5. ASSUME NEW i \in DOMAIN L["sleeping"], L["sleeping"][i] = p PROVE Sleeps(k, p)
  <2>1. p \notin F /\ "sleeping" \in Home(p, k.ptable[p].state)
    BY <1>1, <1>3, <1>5 DEF Placed
  <2>2. k.ptable[p].state = "Running"
    BY <2>1 DEF Home
  <2> QED
    BY <2>1, <2>2 DEF Sleeps
<1>6. ASSUME Sleeps(k, p) PROVE \E i \in DOMAIN L["sleeping"] : L["sleeping"][i] = p
  <2>1. PICK q \in Queues : \E i \in DOMAIN L[q] : L[q][i] = p
    BY <1>3, <1>6 DEF Placed, Sleeps
  <2>2. PICK i \in DOMAIN L[q] : L[q][i] = p
    BY <2>1
  <2>3. q \in Home(p, "Running")
    BY <1>3, <1>6, <2>2 DEF Placed, Sleeps
  <2>4. q = "sleeping"
    BY <2>3 DEF Home
  <2> QED
    BY <2>1, <2>4
<1> QED
  BY <1>4, <1>5, <1>6

(* When clk_isr leaves its loop nobody who sleeps is due.                  *)
LEMMA NobodyIsDue ==
  ASSUME NEW k, Settled(k), ~SleeperIsDue(k), NEW p \in Slots, Sleeps(k, p)
  PROVE  k.ptable[p].wakeup > k.system_time
<1> DEFINE F == {k.current}
           h == k.q["sleeping"].head
<1>1. Fine(k, F) /\ k \in KernelState
  BY SettledIs DEF Held
<1>2. PICK L : Good(k, F, L)
  BY <1>1 DEF Fine
<1>3. PICK q \in Queues : \E i \in DOMAIN L[q] : L[q][i] = p
  BY <1>2 DEF Good, Placed, Sleeps
<1>4. PICK i \in DOMAIN L[q] : L[q][i] = p
  BY <1>3
<1>5. q \in Home(p, "Running")
  BY <1>2, <1>4 DEF Good, Placed, Sleeps
<1>6. q = "sleeping" /\ q \in Queues /\ ~IsFifo(q)
  BY <1>5 DEF Home, IsFifo, Queues
<1>7. i \in 1..k.q[q].length
  BY <1>2, <1>4, <1>6, QueueIs
<1>8. Key(k, q, h) <= Key(k, q, p)
  BY <1>2, <1>4, <1>6, <1>7, HeadLeast
<1>9. h \in Slots /\ h # NULL
  <2>1. /\ k.q[q].length \in Nat /\ L[q] \in [1..k.q[q].length -> Slots]
        /\ k.q[q].length # 0 => k.q[q].head = L[q][1]
    BY <1>2, <1>6, QueueIs
  <2>2. 1 \in 1..k.q[q].length /\ k.q[q].length # 0
    BY <1>7, <2>1
  <2>3. h = L[q][1]
    BY <1>6, <2>1, <2>2
  <2> QED
    BY <2>1, <2>2, <2>3 DEF NULL, Slots
<1>10. ~(k.ptable[h].wakeup <= k.system_time)
  BY <1>9 DEF SleeperIsDue, pcb_queue_empty
<1>11. k.ptable[h].wakeup \in Int /\ k.ptable[p].wakeup \in Int /\ k.system_time \in Int
  BY <1>1, <1>9 DEF KernelState, PCB
<1> QED
  BY <1>6, <1>8, <1>10, <1>11 DEF Key

(* A turn of the loop of clk_isr wakes the head of the sleep queue.        *)
LEMMA WakeIs ==
  ASSUME NEW k, Settled(k), ~pcb_queue_empty(k, "sleeping")
  PROVE  LET h == k.q["sleeping"].head
             k2 == ClockWake(k)
         IN /\ Settled(k2) /\ k2.current = k.current /\ k2.status = k.status
            /\ k2.system_time = k.system_time /\ Balance(k2) = Balance(k)
            /\ h \in Slots /\ Sleeps(k, h) /\ ~Sleeps(k2, h)
            /\ \A x \in Slots \ {h} : /\ Sleeps(k2, x) <=> Sleeps(k, x)
                                      /\ k2.ptable[x].wakeup = k.ptable[x].wakeup
<1> DEFINE me == k.current
           h == k.q["sleeping"].head
           F == {me} \cup {h}
           k1 == pcb_queue_remove(k, "sleeping")
           k2 == MakeReady(k1, h)
<1>1. "sleeping" \in Queues
  BY DEF Queues
<1>2. /\ h \in Slots \ {me} /\ "sleeping" \in Home(h, k.ptable[h].state)
      /\ Same(k, k1) /\ Held(k1, F, {})
  BY <1>1, TakeHead
<1>3. me \in Slots /\ k.ptable[me].state = "Running"
  BY SettledIs
<1>4. ClockWake(k) = schedule(k1, h)
  BY DEF ClockWake
<1> HIDE DEF h, k1
<1>5. k.ptable[h].state = "Running" /\ h \in F /\ F \ {h} = {me}
  BY <1>2 DEF Home
<1>6. k1.ptable[h].state = "Running"
  BY <1>2, <1>5 DEF Same, SamePCB
<1>7. ClockWake(k) = k2
  BY <1>4, <1>6 DEF schedule, MakeReady
<1> HIDE DEF F, k2
<1>8. Held(k2, F \ {h}, {}) /\ Readied(k1, k2, h)
  <2>1. k1.ptable[h].state # "Unused"
    BY <1>6
  <2> QED
    BY <1>2, <1>5, <2>1, HeldMakeReady DEF k2
<1>9. /\ k2.current = me /\ k2.status = k.status /\ k2.system_time = k.system_time
      /\ Balance(k2) = Balance(k)
  BY <1>2, <1>8 DEF Same, SameRest, Readied, Balance
<1>10. ASSUME NEW x \in Slots \ {h}
       PROVE  /\ Sleeps(k2, x) <=> Sleeps(k, x)
              /\ k2.ptable[x].wakeup = k.ptable[x].wakeup
              /\ k2.ptable[x].state = k.ptable[x].state
  BY <1>2, <1>8, <1>9 DEF Same, SamePCB, Readied, Sleeps
<1>11. Settled(k2)
  BY <1>2, <1>3, <1>5, <1>8, <1>9, <1>10 DEF Settled
<1>12. Sleeps(k, h) /\ ~Sleeps(k2, h)
  BY <1>2, <1>5, <1>8 DEF Readied, Sleeps
<1> QED
  BY <1>2, <1>7, <1>9, <1>10, <1>11, <1>12 DEF h

(* ClockDone: the slice ends, or it does not.                              *)
LEMMA ClockDoneIs ==
  ASSUME NEW k, Settled(k)
  PROVE  LET k2 == ClockDone(k) IN
         Calm(k, k2) /\ (k2.current # k.current => Highest(k2))
<1> DEFINE k1 == [k EXCEPT !.status = "user", !.ticks = @ - 1]
           k2 == Redispatch(schedule(k1, k1.current))
<1>1. k \in KernelState
  BY SettledIs
<1>2. k.ticks - 1 \in Int
  BY <1>1 DEF KernelState
<1>3. /\ k1 \in KernelState /\ k1.ptable = k.ptable /\ k1.q = k.q /\ k1.current = k.current
      /\ k1.next_pid = k.next_pid /\ k1.stacks = k.stacks /\ k1.status = "user"
      /\ k1.system_time = k.system_time
  BY <1>1, <1>2, Zenon DEF KernelState
<1>4. ClockDone(k) = IF k1.ticks < 1 THEN k2 ELSE k1
  BY Zenon DEF ClockDone
<1> HIDE DEF k1
<1>5. Settled(k1)
  BY <1>3, SettledOther DEF Ok
<1>6. Calm(k1, k2) /\ Highest(k2)
  BY <1>5, SliceEndsIs
<1> HIDE DEF k2
<1>7. Calm(k, k1)
  BY <1>3, <1>5 DEF Calm, Sleeps, Balance
<1> QED
  BY <1>3, <1>4, <1>6, <1>7, CalmTrans

(* The sleeping processes are those with time left; each is to wake up     *)
(* when it is over.                                                        *)
InTime(k, l, w) ==
  \A p \in Slots : ~w[p] =>
    /\ l[p] > 0 => Sleeps(k, p)
    /\ Sleeps(k, p) => /\ k.ptable[p].wakeup = k.system_time + l[p]
                       /\ k.status = "user" => l[p] > 0

(* The inductive invariant of the sleepers: as long as the kernel runs the *)
(* state is settled and the sleep queue is in time.  No process ends, so   *)
(* every PID given since boot has its stack.                               *)
SleepInv ==
  /\ left \in [Slots -> Nat] /\ wraps \in [Slots -> BOOLEAN]
  /\ Ok(sys) => /\ Settled(sys) /\ InTime(sys, left, wraps)
                /\ Balance(sys) = N_STACKS + 1
  /\ \A p \in Slots : ~wraps[p] /\ left[p] > 0 => Asleep(sys, p)

(* The links are all the walk of a queue depends on.                       *)
WalkOf(queues, ptable, q, Stop) ==
  LET curr[i \in 0..N_PROCS] ==
        IF i = 0 THEN queues[q].head
        ELSE LET c == curr[i - 1]
             IN IF c \in Stop THEN c ELSE IF c = NULL THEN NULL ELSE ptable[c].next
  IN curr

LEMMA PanicAsleep ==
  ASSUME NEW k \in KernelState, NEW p \in Slots
  PROVE  Asleep(Panic(k), p) <=> Asleep(k, p)
<1>1. Panic(k).q = k.q /\ Panic(k).ptable = k.ptable
  BY DEF Panic, KernelState
<1>2. \A j : Walk(j, "sleeping", {}) = WalkOf(j.q, j.ptable, "sleeping", {})
  BY DEF Walk, WalkOf, Succ
<1>3. Walk(Panic(k), "sleeping", {}) = Walk(k, "sleeping", {})
  BY <1>1, <1>2
<1> QED
  BY <1>3 DEF Asleep, Members, Visited

LEMMA SettledInTime ==
  ASSUME Settled(sys), InTime(sys, left, wraps), Balance(sys) = N_STACKS + 1,
         left \in [Slots -> Nat], wraps \in [Slots -> BOOLEAN]
  PROVE  SleepInv
BY AsleepIs DEF SleepInv, InTime

(* Without a sleeper that is touched, and with none that is due before the *)
(* handler returns, the sleep queue stays in time.                         *)
LEMMA CalmInTime ==
  ASSUME NEW k, NEW k1, NEW l, NEW w, InTime(k, l, w), Calm(k, k1),
         \A p \in Slots : ~w[p] /\ Sleeps(k, p) => l[p] > 0
  PROVE  InTime(k1, l, w)
BY DEF InTime, Calm

(* While nobody ends there are fewer PIDs given than PCBs, or no PCB is    *)
(* left for fork(): next_pid does not wrap.                                *)
LEMMA NeverWraps ==
  ASSUME NEW k, Settled(k), Balance(k) = N_STACKS + 1
  PROVE  ~Wrapped(sys_fork(k))
<1> DEFINE k1 == sys_fork(k)
<1>1. /\ k \in KernelState /\ Fine(k, {k.current}) /\ UniquePids(k) /\ Stacks(k)
      /\ k.current # NULL /\ k.current \in Slots
  BY SettledIs, PtrCases DEF Held, Slots, NULL
<1>2. Counts(k, k1)
  BY <1>1, ForkSane DEF Sane
<1> HIDE DEF k1
<1>3. /\ k.next_pid \in Nat /\ k.stacks \in Int /\ N_STACKS \in Nat
      /\ N_PROCS \in Nat /\ PidMod \in Nat /\ PidMod > N_PROCS
  BY <1>1, ProcsAssumption DEF KernelState
<1>4. Cardinality(Used(k)) \in Nat /\ Cardinality(Used(k)) <= N_PROCS
  BY UsedFinite
<1>5. k.next_pid = Cardinality(Used(k)) + 1
  BY <1>1, <1>3, <1>4 DEF Balance, Stacks
<1>6. ASSUME ~pcb_queue_empty(k, "freelist")
      PROVE  Cardinality(Used(k)) < N_PROCS
  <2> DEFINE h == k.q["freelist"].head
  <2>1. "freelist" \in Queues
    BY DEF Queues
  <2>2. h \in Slots /\ "freelist" \in Home(h, k.ptable[h].state)
    BY <1>1, <1>6, <2>1, HeadIs
  <2>3. h \notin Used(k)
    BY <2>2 DEF Used, Home
  <2>4. Used(k) \subseteq Slots \ {h}
    BY <2>3 DEF Used
  <2> HIDE DEF h
  <2>5. IsFiniteSet(Slots) /\ Cardinality(Slots) = N_PROCS
    BY FS_Interval, ProcsAssumption DEF Slots
  <2>6. IsFiniteSet(Slots \ {h}) /\ Cardinality(Slots \ {h}) = N_PROCS - 1
    BY <2>2, <2>5, FS_RemoveElement
  <2>7. Cardinality(Used(k)) <= N_PROCS - 1
    BY <2>4, <2>6, FS_Subset
  <2> QED
    BY <1>3, <1>4, <2>7
<1>7. ~Wrapped(k1)
  BY <1>2, <1>3, <1>4, <1>5, <1>6 DEF Counts, Wrapped
<1> QED
  BY <1>7 DEF k1

(* What a step of MCSleep does to the kernel.                              *)
LEMMA SleepStep ==
  ASSUME SleepInv, FallsAsleep \/ TimePasses \/ OtherStep
  PROVE  /\ SleepInv'
         /\ Ok(sys') /\ sys'.current # sys.current => Highest(sys')
<1>1. Ok(sys)
  BY DEF FallsAsleep, TimePasses, OtherStep, Exec, Fork, SetPrio, ClockTick, ClockLoop,
         ClockEnd, May, Ok
<1>2. /\ Settled(sys) /\ InTime(sys, left, wraps) /\ sys \in KernelState
      /\ sys.current \in Slots /\ Balance(sys) = N_STACKS + 1
      /\ left \in [Slots -> Nat] /\ wraps \in [Slots -> BOOLEAN]
  BY <1>1, SettledIs DEF SleepInv
<1>3. ASSUME Settled(sys'), InTime(sys', left', wraps'), Balance(sys') = Balance(sys),
             left' \in [Slots -> Nat], wraps' \in [Slots -> BOOLEAN]
      PROVE  SleepInv'
  <2>1. \A p \in Slots : Asleep(sys', p) <=> Sleeps(sys', p)
    BY <1>3, AsleepIs
  <2> QED
    BY <1>2, <1>3, <2>1 DEF SleepInv, InTime
<1>4. ASSUME FallsAsleep
      PROVE  /\ SleepInv'
             /\ Highest(sys')
  <2>1. PICK n \in SleepTimes :
          /\ May("sleep") /\ sys' = sys_sleep(sys, n)
          /\ left' = [left EXCEPT ![sys.current] = n]
          /\ wraps' = [wraps EXCEPT ![sys.current] = sys.system_time + n >= TimeMod]
    BY <1>4 DEF FallsAsleep
  <2>2. n \in Nat /\ Me(sys).pid \notin {PID_INIT, PID_IDLE} /\ sys.status = "user"
    BY <1>2, <2>1, CallerIs, KernelAssumption DEF May
  <2>3. FallenAsleep(sys, sys', n)
    BY <1>2, <2>1, <2>2, SleepIs
  <2>4. left' \in [Slots -> Nat] /\ wraps' \in [Slots -> BOOLEAN]
    BY <1>2, <2>1, <2>2
  <2>5. ASSUME NEW p \in Slots, ~wraps'[p]
        PROVE  /\ left'[p] > 0 => Sleeps(sys', p)
               /\ Sleeps(sys', p) => /\ sys'.ptable[p].wakeup = sys'.system_time + left'[p]
                                     /\ left'[p] > 0
    <3>1. CASE p = sys.current
      <4>1. left'[p] = n /\ ~(sys.system_time + n >= TimeMod)
        BY <1>2, <2>1, <2>5, <3>1
      <4>2. sys.system_time \in Nat /\ TimeMod \in Nat /\ sys'.system_time = sys.system_time
        BY <1>2, <2>3, ProcsAssumption DEF KernelState, FallenAsleep
      <4>3. (sys.system_time + n) % TimeMod = sys.system_time + n
        BY <2>2, <4>1, <4>2
      <4> QED
        BY <2>2, <2>3, <3>1, <4>1, <4>2, <4>3 DEF FallenAsleep
    <3>2. CASE p # sys.current
      <4>1. left'[p] = left[p] /\ ~wraps[p]
        BY <1>2, <2>1, <2>5, <3>2
      <4> QED
        BY <1>2, <2>2, <2>3, <3>2, <4>1 DEF FallenAsleep, InTime
    <3> QED
      BY <3>1, <3>2
  <2>6. InTime(sys', left', wraps')
    BY <2>5 DEF InTime
  <2> QED
    BY <1>3, <2>3, <2>4, <2>6 DEF FallenAsleep
<1>5. ASSUME TimePasses
      PROVE  SleepInv' /\ sys'.current = sys.current
  <2>1. /\ sys.status = "user" /\ sys' = ClockEnter(sys) /\ wraps' = wraps
        /\ left' = [p \in Slots |-> IF left[p] = 0 THEN 0 ELSE left[p] - 1]
    BY <1>5 DEF TimePasses, ClockTick
  <2>2. Settled(sys')
    BY <1>2, <2>1, ClockEnterHolds
  <2>3. /\ sys'.ptable = sys.ptable /\ sys'.current = sys.current /\ sys'.status = "clock"
        /\ sys'.system_time = (sys.system_time + 1) % TimeMod
        /\ Balance(sys') = Balance(sys)
    BY <1>2, <2>1 DEF ClockEnter, KernelState, Balance
  <2>4. left' \in [Slots -> Nat] /\ wraps' \in [Slots -> BOOLEAN]
    BY <1>2, <2>1
  <2>5. ASSUME NEW p \in Slots, ~wraps[p]
        PROVE  /\ left'[p] > 0 => Sleeps(sys', p)
               /\ Sleeps(sys', p) => sys'.ptable[p].wakeup = sys'.system_time + left'[p]
    <3>1. left[p] \in Nat /\ left'[p] = IF left[p] = 0 THEN 0 ELSE left[p] - 1
      BY <1>2, <2>1
    <3>2. Sleeps(sys', p) <=> Sleeps(sys, p)
      BY <2>3 DEF Sleeps
    <3>3. ASSUME Sleeps(sys, p)
          PROVE  sys'.ptable[p].wakeup = sys'.system_time + left'[p]
      <4>1. sys.ptable[p].wakeup = sys.system_time + left[p] /\ left[p] > 0
        BY <1>2, <2>1, <2>5, <3>3 DEF InTime
      <4>2. /\ sys.ptable[p].wakeup \in 0..TimeMod-1 /\ sys.system_time \in Nat
            /\ TimeMod \in Nat
        BY <1>2, ProcsAssumption DEF KernelState, PCB
      <4>3. (sys.system_time + 1) % TimeMod = sys.system_time + 1
        BY <3>1, <4>1, <4>2
      <4> QED
        BY <2>3, <3>1, <4>1, <4>2, <4>3
    <3>4. left'[p] > 0 => left[p] > 0
      BY <3>1
    <3> QED
      BY <1>2, <2>5, <3>2, <3>3, <3>4 DEF InTime
  <2>6. InTime(sys', left', wraps')
    BY <2>1, <2>3, <2>5 DEF InTime
  <2> QED
    BY <1>3, <2>2, <2>3, <2>4, <2>6
<1>6. ASSUME OtherStep, Calm(sys, sys'),
             \A p \in Slots : ~wraps[p] /\ Sleeps(sys, p) => left[p] > 0
      PROVE  SleepInv'
  <2>1. left' = left /\ wraps' = wraps
    BY <1>6 DEF OtherStep
  <2>2. InTime(sys', left', wraps')
    BY <1>2, <1>6, <2>1, CalmInTime
  <2> QED
    BY <1>2, <1>3, <1>6, <2>1, <2>2 DEF Calm
<1>7. ASSUME sys.status = "user", NEW p \in Slots, ~wraps[p], Sleeps(sys, p)
      PROVE  left[p] > 0
  BY <1>2, <1>7 DEF InTime
<1>8. ASSUME OtherStep, Exec
      PROVE  SleepInv' /\ (Ok(sys') => Highest(sys'))
  <2>1. sys' = sys_exec(sys) /\ sys.status = "user"
    BY <1>8 DEF Exec, May
  <2>2. CASE sys.stacks < 1
    <3>1. sys' = Panic(sys) /\ ~Ok(sys')
      BY <1>2, <2>1, <2>2, ExecIs
    <3>2. \A p \in Slots : Asleep(sys', p) <=> Asleep(sys, p)
      BY <1>2, <3>1, PanicAsleep
    <3> QED
      BY <1>8, <3>1, <3>2 DEF SleepInv, OtherStep
  <2>3. CASE ~(sys.stacks < 1)
    <3>1. Calm(sys, sys') /\ Highest(sys')
      BY <1>2, <2>1, <2>3, ExecIs
    <3> QED
      BY <1>6, <1>7, <1>8, <2>1, <3>1
  <2> QED
    BY <2>2, <2>3
<1>9. ASSUME OtherStep, Fork
      PROVE  SleepInv' /\ sys'.current = sys.current
  <2>1. sys' = sys_fork(sys) /\ sys.status = "user"
    BY <1>9 DEF Fork, May
  <2>2. Calm(sys, sys') /\ sys'.current = sys.current
    BY <1>2, <2>1, NeverWraps, ForkIs
  <2> QED
    BY <1>6, <1>7, <1>9, <2>1, <2>2
<1>10. ASSUME OtherStep, SetPrio
       PROVE  SleepInv' /\ sys'.current = sys.current
  <2>1. PICK n \in SetPrios : sys' = sys_setprio(sys, n)
    BY <1>10 DEF SetPrio
  <2>2. n \in Nat /\ sys.status = "user"
    BY <1>10, KernelAssumption DEF SetPrio, May
  <2>3. Onward(sys, sys')
    BY <1>2, <2>1, <2>2, SetprioHolds
  <2>4. Calm(sys, sys') /\ sys'.current = sys.current
    BY <2>3, OnwardCalm DEF Onward
  <2> QED
    BY <1>6, <1>7, <1>10, <2>2, <2>4
<1>11. ASSUME OtherStep, ClockLoop
       PROVE  SleepInv' /\ sys'.current = sys.current
  <2> DEFINE h == sys.q["sleeping"].head
  <2>1. /\ sys' = ClockWake(sys) /\ sys.status = "clock" /\ ~pcb_queue_empty(sys, "sleeping")
        /\ sys.ptable[h].wakeup <= sys.system_time
        /\ left' = left /\ wraps' = wraps
    BY <1>11 DEF ClockLoop, SleeperIsDue, OtherStep
  <2>2. /\ Settled(sys') /\ sys'.current = sys.current /\ sys'.status = sys.status
        /\ sys'.system_time = sys.system_time /\ Balance(sys') = Balance(sys)
        /\ h \in Slots /\ Sleeps(sys, h) /\ ~Sleeps(sys', h)
        /\ \A x \in Slots \ {h} : /\ Sleeps(sys', x) <=> Sleeps(sys, x)
                                  /\ sys'.ptable[x].wakeup = sys.ptable[x].wakeup
    BY <1>2, <2>1, WakeIs
  <2> HIDE DEF h
  <2>3. ~wraps[h] => ~(left[h] > 0)
    <3>1. sys.system_time \in Nat /\ left[h] \in Nat
      BY <1>2, <2>2 DEF KernelState
    <3> QED
      BY <1>2, <2>1, <2>2, <3>1 DEF InTime
  <2>4. InTime(sys', left', wraps')
    BY <1>2, <2>1, <2>2, <2>3 DEF InTime
  <2> QED
    BY <1>2, <1>3, <2>1, <2>2, <2>4
<1>12. ASSUME OtherStep, ClockEnd
       PROVE  SleepInv' /\ (sys'.current # sys.current => Highest(sys'))
  <2>1. sys' = ClockDone(sys) /\ ~SleeperIsDue(sys)
    BY <1>12 DEF ClockEnd
  <2>2. Calm(sys, sys') /\ (sys'.current # sys.current => Highest(sys'))
    BY <1>2, <2>1, ClockDoneIs
  <2>3. ASSUME NEW p \in Slots, ~wraps[p], Sleeps(sys, p) PROVE left[p] > 0
    <3>1. sys.ptable[p].wakeup > sys.system_time
      BY <1>2, <2>1, <2>3, NobodyIsDue
    <3>2. sys.ptable[p].wakeup = sys.system_time + left[p]
      BY <1>2, <2>3 DEF InTime
    <3>3. sys.system_time \in Nat /\ left[p] \in Nat
      BY <1>2 DEF KernelState
    <3> QED
      BY <3>1, <3>2, <3>3
  <2> QED
    BY <1>6, <1>12, <2>2, <2>3
<1> QED
  BY <1>4, <1>5, <1>8, <1>9, <1>10, <1>11, <1>12 DEF OtherStep

(* The inductive invariant holds.                                          *)
LEMMA SleepersInTime == SSpec => []SleepInv
<1>1. SInit => SleepInv
  <2> SUFFICES ASSUME SInit PROVE SleepInv
    OBVIOUS
  <2>1. PICK t \in 0..TimeMod-1 : sys = Booted(t)
    BY DEF SInit, Init
  <2>2. Settled(sys)
    BY <2>1, InitSettled
  <2>3. \A p \in Slots : ~Sleeps(sys, p)
    BY <2>1 DEF Booted, Sleeps, BootPCB, FreePCB, init_pcb
  <2>4. left = [p \in Slots |-> 0] /\ wraps = [p \in Slots |-> FALSE]
    BY DEF SInit
  <2>5. InTime(sys, left, wraps)
    BY <2>3, <2>4 DEF InTime
  <2>6. Balance(sys) = N_STACKS + 1
    BY <2>1, ProcsAssumption DEF Booted, Balance
  <2> QED
    BY <2>2, <2>4, <2>5, <2>6, SettledInTime
<1>2. SleepInv /\ [FallsAsleep \/ TimePasses \/ OtherStep]_svars => SleepInv'
  <2> SUFFICES ASSUME SleepInv, [FallsAsleep \/ TimePasses \/ OtherStep]_svars PROVE SleepInv'
    OBVIOUS
  <2>1. CASE UNCHANGED svars
    BY <2>1 DEF SleepInv, svars
  <2> QED
    BY <2>1, SleepStep
<1> QED
  BY <1>1, <1>2, PTL DEF SSpec

(* clk_isr wakes every sleeper whose wakeup time does not wrap at the tick *)
(* it asked for, for every number of sleepers and every order in which     *)
(* they fell asleep: its loop takes from the head of the sleep queue, and  *)
(* nothing behind it is due earlier.                                       *)
THEOREM AlwaysWakesOnTime == SSpec => []WakesOnTime
<1>1. SleepInv => WakesOnTime
  <2> SUFFICES ASSUME SleepInv, NEW p \in Slots, ~wraps[p]
               PROVE  /\ Asleep(sys, p) /\ sys.status = "user" => left[p] > 0
                      /\ left[p] > 0 => Asleep(sys, p)
    BY DEF WakesOnTime
  <2>1. ASSUME Asleep(sys, p), sys.status = "user" PROVE left[p] > 0
    <3>1. Settled(sys) /\ InTime(sys, left, wraps)
      BY <2>1 DEF SleepInv, Ok
    <3> QED
      BY <2>1, <3>1, AsleepIs DEF InTime
  <2> QED
    BY <2>1 DEF SleepInv
<1> QED
  BY <1>1, SleepersInTime, PTL

(* dispatch() always picks a process of the highest priority: the ready    *)
(* queue is in order, whatever yields, wakes up or changes its priority.   *)
THEOREM AlwaysDispatchHighest == SSpec => DispatchHighest
<1>1. SleepInv /\ [FallsAsleep \/ TimePasses \/ OtherStep]_svars
        => [Ok(sys') /\ sys'.current # sys.current =>
              \A p \in Slots : sys'.ptable[p].state = "Ready" =>
                                 Me(sys').priority <= sys'.ptable[p].priority]_svars
  BY SleepStep DEF Highest
<1> QED
  BY <1>1, SleepersInTime, PTL DEF SSpec, DispatchHighest
=============================================================================
