------------------------------- MODULE Procs -------------------------------
(***************************************************************************)
(* procs.c: the process table, the PCB queues, the scheduler and the       *)
(* dispatcher.                                                             *)
(*                                                                         *)
(* Every kernel entry runs with interrupts disabled, so a handler is one   *)
(* atomic step.  Its effect is a function from kernel states to kernel     *)
(* states: the operators of this module take the state k of the kernel's   *)
(* globals and return the state the C function leaves.  The actions that   *)
(* apply them are in module Kernel.                                        *)
(*                                                                         *)
(* The queues are modelled by their pointers, not as sequences: a PCB has  *)
(* one `next' link, shared by every queue it is on, and what happens when  *)
(* a PCB is linked into two queues depends on that.                        *)
(***************************************************************************)
EXTENDS Integers, FiniteSets

CONSTANTS
  N_PROCS,      \* slots of the process table (25 in the code)
  QUANTUM,      \* clock ticks in a time slice (QUANTUM_STANDARD)
  TimeMod,      \* system_time wraps here (2^32 in the code)
  LenMod,       \* a queue's length wraps here (2^32 in the code)
  PidMod,       \* next_pid wraps here (2^32 in the code)
  N_STACKS      \* stacks the page allocator can supply

ASSUME ProcsAssumption ==
  /\ N_PROCS \in Nat /\ N_PROCS >= 3
  /\ QUANTUM \in Nat \ {0}
  /\ TimeMod \in Nat \ {0}
  /\ LenMod \in Nat /\ LenMod > N_PROCS
  /\ PidMod \in Nat /\ PidMod > N_PROCS
  /\ N_STACKS \in Nat /\ N_STACKS >= 3

NULL == 0
Slots == 1..N_PROCS            \* ptable[0] .. ptable[N_PROCS-1]
Ptr == 0..N_PROCS              \* pcb_t *
Pids == 0..PidMod-1
init_pcb == 1                  \* the first PCB ever allocated

States == {"Unused", "New", "Ready", "Running", "Sleeping", "Blocked",
           "Waiting", "Killed", "Zombie"}

PRIO_HIGH == 0
PRIO_STD == 1
PRIO_LOW == 2
PRIO_DEFERRED == 3
Prios == PRIO_HIGH..PRIO_DEFERRED

SUCCESS == 0
E_FAILURE == -1
E_BAD_PARAM == -2
E_NO_CHILDREN == -4
E_NOT_FOUND == -6
E_NO_PROCS == -7
E_EMPTY_QUEUE == -100
EXIT_KILLED == -101
EXIT_BAD_SYSCALL == -102

Queues == {"freelist", "ready", "waiting", "sleeping", "zombie", "sioread"}

(***************************************************************************)
(* A PCB.  The context is reduced to what is read after a block: `arg' is  *)
(* the argument a blocked call leaves for whoever wakes it (ARG 1 of       *)
(* waitpid, ARG 3 of read), `ret' is RET(pcb) for waitpid and kill, whose  *)
(* results the properties are about, and 0 for the other calls.  `ticks'   *)
(* is read for the running process only and every dispatch resets it, so   *)
(* the kernel state has one, for `current'.                                *)
(***************************************************************************)
PCB == [next : Ptr, state : States, pid : Pids, parent : Ptr,
        priority : Int, wakeup : 0..TimeMod-1, exit_status : Int,
        arg : Nat, ret : Int]

Queue == [head : Ptr, tail : Ptr, length : 0..LenMod-1]

(* The kernel's globals.  `status' says who has the CPU: "user" code (the  *)
(* current process), the loop of the clock handler ("clock"), or nobody    *)
(* any more: "panic" (an assertion or kpanic) and "hang" (a list walk that *)
(* never reaches the end of its list).  `next_pid' counts on for ever, and *)
(* a PID is its remainder: the code's counter is next_pid % PidMod.        *)
KernelState ==
  [ptable : [Slots -> PCB], q : [Queues -> Queue], current : Ptr,
   ticks : Int, next_pid : Nat, system_time : 0..TimeMod-1,
   incount : Nat, stacks : Int, status : {"user", "clock", "panic", "hang"}]

(* The last and the first slot of a set, in the order of ptable.           *)
LastIn(S) == {s \in S : \A t \in S : t <= s}
FirstIn(S) == {s \in S : \A t \in S : s <= t}

Panic(k) == [k EXCEPT !.status = "panic"]
Hang(k) == [k EXCEPT !.status = "hang"]
Ok(k) == k.status \in {"user", "clock"}

(* Assignments to one PCB and to one queue.                                *)
SetPCB(k, p, pcb) == [k EXCEPT !.ptable = [@ EXCEPT ![p] = pcb]]
SetQueue(k, q, queue) == [k EXCEPT !.q = [@ EXCEPT ![q] = queue]]
SetNext(k, p, n) == SetPCB(k, p, [k.ptable[p] EXCEPT !.next = n])
SetState(k, p, state) == SetPCB(k, p, [k.ptable[p] EXCEPT !.state = state])
SetRet(k, p, ret) == SetPCB(k, p, [k.ptable[p] EXCEPT !.ret = ret])

(* "pcb->state = ...; pcb->next = NULL", wherever the PCB may be linked.   *)
Detach(k, p, state) ==
  SetPCB(k, p, [k.ptable[p] EXCEPT !.state = state, !.next = NULL])

-----------------------------------------------------------------------------
(* The list walks: "while( curr != NULL && curr is not in Stop )".         *)

Succ(k, p) == IF p = NULL THEN NULL ELSE k.ptable[p].next

(* Where `curr' points after i turns of the loop.                          *)
Walk(k, q, Stop) ==
  LET curr[i \in 0..N_PROCS] ==
        IF i = 0 THEN k.q[q].head
        ELSE LET c == curr[i - 1] IN IF c \in Stop THEN c ELSE Succ(k, c)
  IN curr

(* The PCBs the loop steps over.                                           *)
Visited(k, q, Stop) ==
  LET curr == Walk(k, q, Stop)
  IN (Slots \ Stop) \cap {curr[i] : i \in 0..N_PROCS}

(* Where such a loop ends: `prev' is the only PCB stepped over whose       *)
(* successor stops the loop.  None, and the loop does not end.             *)
LastOf(k, V, Stop) == {p \in V : k.ptable[p].next \in Stop \cup {NULL}}

(* Mutant: the sleep queue is kept in PID order.                           *)
Key_SleepByPid(k, q, p) ==
  IF q = "ready" THEN k.ptable[p].priority ELSE k.ptable[p].pid

(* find_prev_wakeup, find_prev_priority, find_prev_pid compare this.       *)
Key(k, q, p) ==
  CASE q = "ready" -> k.ptable[p].priority
    [] q = "sleeping" -> k.ptable[p].wakeup
    [] OTHER -> k.ptable[p].pid

(* Mutant: find_prev stops at an equal key too (< for <=).                 *)
Beyond_OrEqual(k, q, p) == {s \in Slots : Key(k, q, s) >= Key(k, q, p)}

Beyond(k, q, p) == {s \in Slots : Key(k, q, s) > Key(k, q, p)}

(* Mutant: the ready queue is created O_FIFO.                              *)
IsFifo_Ready(q) == q \in {"freelist", "sioread", "ready"}

IsFifo(q) == q \in {"freelist", "sioread"}

-----------------------------------------------------------------------------
(* The queue operations.                                                   *)

(* queue->length += 1, -= 1 *)
Longer(k, q) == (k.q[q].length + 1) % LenMod
Shorter(k, q) == (k.q[q].length + LenMod - 1) % LenMod

(* Mutant: an insertion at the end leaves queue->tail alone.               *)
LinkAfter_KeepTail(k, q, prev, p) ==
  LET r == [k.q[q] EXCEPT !.length = Longer(k, q)] IN
  IF prev = NULL
  THEN SetQueue(SetNext(k, p, r.head), q, [r EXCEPT !.head = p])
  ELSE SetQueue(SetNext(SetNext(k, p, k.ptable[prev].next), prev, p), q, r)

LinkAfter(k, q, prev, p) ==
  LET r == [k.q[q] EXCEPT !.length = Longer(k, q)] IN
  IF prev = NULL
  THEN SetQueue(SetNext(k, p, r.head), q, [r EXCEPT !.head = p])
  ELSE IF k.ptable[prev].next = NULL
  THEN SetQueue(SetNext(k, prev, p), q, [r EXCEPT !.tail = p])
  ELSE SetQueue(SetNext(SetNext(k, p, k.ptable[prev].next), prev, p), q, r)

(* The rest of pcb_queue_insert, once pcb->next is known to be NULL.       *)
InsertUnlinked(k, q, p) ==
  LET Stop == Beyond(k, q, p)
      V == Visited(k, q, Stop)
      last == LastOf(k, V, Stop)
  IN IF k.q[q].head = NULL
     THEN SetQueue(k, q, [head |-> p, tail |-> p, length |-> 1])
     ELSE IF k.q[q].tail = NULL THEN Panic(k)
     ELSE IF IsFifo(q) THEN LinkAfter(k, q, k.q[q].tail, p)
     ELSE IF V = {} THEN LinkAfter(k, q, NULL, p)
     ELSE IF last = {} THEN Hang(k)
     ELSE LinkAfter(k, q, CHOOSE s \in last : TRUE, p)

(* pcb_queue_insert by a caller that panics when it is refused.            *)
pcb_queue_insert(k, q, p) ==
  IF ~Ok(k) THEN k
  ELSE IF k.ptable[p].next # NULL THEN Panic(k)
  ELSE InsertUnlinked(k, q, p)

pcb_queue_empty(k, q) == k.q[q].head = NULL

(* pcb_queue_remove from a queue that is not empty; the PCB it returns is  *)
(* the old head.                                                           *)
pcb_queue_remove(k, q) ==
  LET h == k.q[q].head
      n == k.ptable[h].next
  IN SetQueue(SetNext(k, h, NULL), q,
       [head |-> n,
        tail |-> IF n = NULL THEN NULL ELSE k.q[q].tail,
        length |-> IF n = NULL THEN 0 ELSE Shorter(k, q)])

(* The second half of pcb_queue_remove_this, once p and its predecessor    *)
(* are found.                                                              *)
Unlink(k, q, prev, p) ==
  LET n == k.ptable[p].next
      head == IF prev = NULL THEN n ELSE k.q[q].head
      tail == IF n = NULL THEN prev ELSE k.q[q].tail
      k1 == IF prev = NULL THEN k ELSE SetNext(k, prev, n)
      k2 == SetQueue(SetNext(k1, p, NULL), q,
                     [head |-> head, tail |-> tail, length |-> Shorter(k, q)])
  IN IF (head = NULL) # (tail = NULL) THEN Panic(k2) ELSE k2

(* What pcb_queue_remove_this returns, when its walk ends.                 *)
RemoveStatus(k, q, p) ==
  LET last == LastOf(k, Visited(k, q, {p}), {p})
  IN IF pcb_queue_empty(k, q) THEN E_EMPTY_QUEUE
     ELSE IF k.q[q].head = p \/ \E s \in last : k.ptable[s].next = p
          THEN SUCCESS
     ELSE E_NOT_FOUND

pcb_queue_remove_this(k, q, p) ==
  LET V == Visited(k, q, {p})
      last == LastOf(k, V, {p})
  IN IF V # {} /\ last = {} THEN Hang(k)
     ELSE IF RemoveStatus(k, q, p) # SUCCESS THEN k
     ELSE Unlink(k, q, IF V = {} THEN NULL ELSE CHOOSE s \in last : TRUE, p)

(* assert( status == SUCCESS )                                             *)
Assert(k, status) == IF Ok(k) /\ status # SUCCESS THEN Panic(k) ELSE k

(* assert( pcb_queue_remove_this(...) == SUCCESS )                         *)
MustRemoveThis(k, q, p) ==
  IF ~Ok(k) THEN k
  ELSE Assert(pcb_queue_remove_this(k, q, p), RemoveStatus(k, q, p))

-----------------------------------------------------------------------------
(* PCB allocation, scheduling and dispatching.                             *)

pcb_free(k, p) ==
  pcb_queue_insert(Detach(k, p, "Unused"), "freelist", p)

(* Mutant: the stack is not freed.                                         *)
pcb_cleanup_Leak(k, p) == IF ~Ok(k) THEN k ELSE pcb_free(k, p)

(* user_cleanup gives the stack back, pcb_free the PCB.                    *)
pcb_cleanup(k, p) ==
  IF ~Ok(k) THEN k ELSE pcb_free([k EXCEPT !.stacks = @ + 1], p)

(* schedule() of a process that is not marked killed.                      *)
MakeReady(k, p) ==
  IF ~Ok(k) THEN k
  ELSE pcb_queue_insert(Detach(k, p, "Ready"), "ready", p)

(* Mutant: only the children that are alive are given to init.             *)
Orphans_Alive(k, v) ==
  {s \in Slots : /\ k.ptable[s].state \notin {"Unused", "Zombie"}
                 /\ s # k.ptable[v].parent
                 /\ k.ptable[s].parent = v}

(* The children pcb_zombify's loop finds and gives to init.                *)
Orphans(k, v) ==
  {s \in Slots : /\ k.ptable[s].state # "Unused"
                 /\ s # k.ptable[v].parent
                 /\ k.ptable[s].parent = v}

Reparent(k, v) ==
  [k EXCEPT !.ptable = [s \in Slots |->
      IF s \in Orphans(k, v) THEN [@[s] EXCEPT !.parent = init_pcb]
      ELSE @[s]]]

(* init has been taken off the waiting queue and z off the zombie queue:   *)
(* init is given the PID of z, and z is freed.                             *)
InitCollects(k, z) ==
  IF ~Ok(k) THEN k
  ELSE pcb_cleanup(MakeReady(SetRet(k, init_pcb, k.ptable[z].pid), init_pcb), z)

GiveToInit(k, z) ==
  InitCollects(MustRemoveThis(MustRemoveThis(k, "zombie", z),
                              "waiting", init_pcb), z)

(* If init is waiting and inherits a zombie, it collects that zombie now.  *)
Inherit(k, zombies) ==
  IF zombies # {} /\ k.ptable[init_pcb].state = "Waiting"
  THEN GiveToInit(k, CHOOSE z \in zombies : TRUE) ELSE k

(* The parent is waiting for this child: it is woken and collects it.  The *)
(* parent is scheduled as it stands, on the waiting queue.                 *)
GiveToParent(k, v, parent) ==
  LET k1 == SetRet(k, parent, k.ptable[v].pid)
  IN pcb_cleanup(MakeReady(k1, parent), v)

BecomeZombie(k, v) ==
  pcb_queue_insert(Detach(k, v, "Zombie"), "zombie", v)

IsAwaited(k, v, parent) ==
  /\ k.ptable[parent].state = "Waiting"
  /\ k.ptable[parent].arg \in {0, k.ptable[v].pid}

Bury(k, v, parent) ==
  IF ~Ok(k) THEN k
  ELSE IF IsAwaited(k, v, parent) THEN GiveToParent(k, v, parent)
  ELSE BecomeZombie(k, v)

pcb_zombify(k, v) ==
  LET parent == k.ptable[v].parent
      zchild == LastIn({s \in Orphans(k, v) : k.ptable[s].state = "Zombie"})
  IN IF ~Ok(k) THEN k
     ELSE IF parent = NULL THEN Panic(k)
     ELSE Bury(Inherit(Reparent(k, v), zchild), v, parent)

(* The recursion schedule -> pcb_zombify -> schedule ends there: the inner *)
(* call is for a process in state Waiting, never for a killed one.         *)
schedule(k, p) ==
  IF ~Ok(k) THEN k
  ELSE IF k.ptable[p].state = "Killed" THEN pcb_zombify(k, p)
  ELSE MakeReady(k, p)

(* The caller has set current to NULL.                                     *)
dispatch(k) ==
  IF ~Ok(k) THEN k
  ELSE IF pcb_queue_empty(k, "ready") THEN Panic([k EXCEPT !.current = NULL])
  ELSE LET h == k.q["ready"].head
           k1 == SetState(pcb_queue_remove(k, "ready"), h, "Running")
       IN [k1 EXCEPT !.current = h, !.ticks = QUANTUM]

pcb_find_pid(k, pid) ==
  LET found == FirstIn({s \in Slots : /\ k.ptable[s].pid = pid
                                      /\ k.ptable[s].state # "Unused"})
  IN IF pid < 1 \/ found = {} THEN NULL ELSE CHOOSE s \in found : TRUE
=============================================================================
