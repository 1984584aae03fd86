------------------------------- MODULE Kernel -------------------------------
(***************************************************************************)
(* The kernel as its processes and devices see it: the system calls of     *)
(* syscalls.c, the clock handler of clock.c and the receive side of the    *)
(* serial handler of sio.c, on top of the process module Procs.            *)
(*                                                                         *)
(* The programs are the environment.  The running process may make any     *)
(* call of `Calls' with any argument of the sets below; init and idle do   *)
(* what usercode/init.c and usercode/idle.c do.                            *)
(***************************************************************************)
EXTENDS Procs

CONSTANTS
  Calls,        \* the system calls the ordinary processes make
  MaxPid,       \* no fork once next_pid, the count, is beyond this bound
  WaitTargets,  \* first arguments of waitpid
  KillTargets,  \* arguments of kill
  SleepTimes,   \* arguments of sleep
  ExitCodes,    \* arguments of exit
  SetPrios,     \* arguments of setprio
  ReadLens,     \* lengths given to read(CHAN_SIO)
  MaxBurst,     \* characters one receive interrupt may deliver
  IN_SIZE       \* capacity of the serial input buffer (BUF_SIZE)

ASSUME KernelAssumption ==
  /\ MaxPid \in Nat
  /\ WaitTargets \subseteq Nat /\ KillTargets \subseteq Nat
  /\ SleepTimes \subseteq Nat /\ ExitCodes \subseteq Int
  /\ SetPrios \subseteq Nat /\ ReadLens \subseteq Nat
  /\ MaxBurst \in Nat /\ IN_SIZE \in Nat

VARIABLE sys

PID_INIT == 1
PID_IDLE == 2
FIRST_USER_PID == 2
idle_pcb == 2                  \* the second PCB: init spawns idle first

-----------------------------------------------------------------------------
(* System call handlers: what sys_NAME(current) leaves.                    *)

Me(k) == k.ptable[k.current]

Return(k, r) == SetRet(k, k.current, r)

(* The caller's frame at the entry of a call: no result yet, and the       *)
(* argument that matters later if the call blocks.                         *)
Enter(k, arg) ==
  SetPCB(k, k.current, [Me(k) EXCEPT !.ret = 0, !.arg = arg])

(* Mutant: current is cleared and nobody is dispatched.                    *)
Redispatch_Forgotten(k) == [k EXCEPT !.current = NULL]

Redispatch(k) == dispatch([k EXCEPT !.current = NULL])

sys_exit(k0, status) ==
  LET k == Enter(k0, 0)
      k1 == SetPCB(k, k.current, [Me(k) EXCEPT !.exit_status = status])
  IN Redispatch(pcb_zombify(k1, k.current))

(* Found a zombie: collect it and clean it up.                             *)
Collect(k, child) == pcb_cleanup(Return(k, k.ptable[child].pid), child)

WaitBlock(k) ==
  Redispatch(pcb_queue_insert(SetState(k, k.current, "Waiting"),
                              "waiting", k.current))

(* The slots sys_waitpid's loop takes for children of the caller.          *)
ChildSlots(k) == {s \in Slots : k.ptable[s].parent = k.current}

WaitAny(k) ==
  LET dead == FirstIn({s \in ChildSlots(k) : k.ptable[s].state = "Zombie"})
  IN IF ChildSlots(k) = {} THEN Return(k, E_NO_CHILDREN)
     ELSE IF dead = {} THEN WaitBlock(k)
     ELSE Collect(k, CHOOSE s \in dead : TRUE)

WaitFor(k, target) ==
  LET child == pcb_find_pid(k, target)
  IN IF child = NULL THEN Return(k, E_BAD_PARAM)
     ELSE IF k.ptable[child].parent # k.current THEN Return(k, E_BAD_PARAM)
     ELSE IF k.ptable[child].state # "Zombie" THEN WaitBlock(k)
     ELSE Collect(k, child)

sys_waitpid(k0, target) ==
  LET k == Enter(k0, target)
  IN IF target = Me(k).pid THEN Return(k, E_BAD_PARAM)
     ELSE IF target = 0 THEN WaitAny(k) ELSE WaitFor(k, target)

(* next_pid++ has gone through 0: PIDs in use may be given again.          *)
Wrapped(k) == k.next_pid > PidMod

(* Mutant: next_pid is not incremented.                                    *)
sys_fork_SamePid(k0) ==
  LET k == Enter(k0, 0)
      new == k.q["freelist"].head
      k1 == pcb_queue_remove(k, "freelist")
      child == [k1.ptable[new] EXCEPT !.pid = k.next_pid % PidMod,
                                      !.parent = k.current, !.state = "New"]
      k2 == [SetPCB(k1, new, child) EXCEPT !.stacks = @ - 1]
  IN IF pcb_queue_empty(k, "freelist") THEN k
     ELSE IF k.stacks < 1 THEN pcb_free(k1, new)
     ELSE schedule(k2, new)

sys_fork(k0) ==
  LET k == Enter(k0, 0)
      new == k.q["freelist"].head
      k1 == pcb_queue_remove(k, "freelist")
      child == [k1.ptable[new] EXCEPT
                  !.pid = k.next_pid % PidMod, !.parent = k.current, !.state = "New",
                  !.priority = Me(k1).priority, !.arg = Me(k1).arg, !.ret = 0]
      k2 == [SetPCB(k1, new, child) EXCEPT !.stacks = @ - 1, !.next_pid = @ + 1]
  IN IF pcb_queue_empty(k, "freelist") THEN k
     ELSE IF k.stacks < 1 THEN pcb_free(k1, new)
     ELSE schedule(k2, new)

(* The new stack is allocated before the old one is freed, and starts with *)
(* every saved register clear.                                             *)
sys_exec(k) ==
  IF k.stacks < 1 THEN Panic(k)
  ELSE Redispatch(schedule(Enter(k, 0), k.current))

(* read(CHAN_SIO, ...) with a non-zero length.                             *)
sys_read(k0, len) ==
  LET k == Enter(k0, len)
      n == IF len < k.incount THEN len ELSE k.incount
      blocked == SetState(k, k.current, "Blocked")
  IN IF len = 0 THEN k
     ELSE IF k.incount < 1
     THEN Redispatch(pcb_queue_insert(blocked, "sioread", k.current))
     ELSE [k EXCEPT !.incount = @ - n]

sys_setprio(k0, new) ==
  LET k == Enter(k0, 0)
  IN SetPCB(k, k.current, [Me(k) EXCEPT !.priority = new])

KillSelf(k) == sys_exit(k, EXIT_KILLED)

Deliver(k, r) == IF ~Ok(k) THEN k ELSE Return(k, r)

(* Mutant: the victim is not taken off the waiting queue.                  *)
KillWaiter_StillQueued(k, victim) ==
  LET k1 == SetPCB(k, victim, [k.ptable[victim] EXCEPT !.exit_status = EXIT_KILLED])
  IN Deliver(pcb_zombify(k1, victim), SUCCESS)

KillWaiter(k, victim) ==
  LET k1 == SetPCB(k, victim, [k.ptable[victim] EXCEPT !.exit_status = EXIT_KILLED])
  IN Deliver(pcb_zombify(pcb_queue_remove_this(k1, "waiting", victim), victim),
             RemoveStatus(k1, "waiting", victim))

KillVictim(k, victim) ==
  LET state == k.ptable[victim].state
  IN CASE state \in {"Killed", "Zombie"} -> Return(k, SUCCESS)
       [] state \in {"Ready", "Sleeping", "Blocked"} ->
            Return(SetState(k, victim, "Killed"), SUCCESS)
       [] state = "Running" -> KillSelf(k)
       [] state = "Waiting" -> KillWaiter(k, victim)
       [] OTHER -> Panic(k)

(* Mutant: no test for an ordinary PID.                                    *)
sys_kill_Anyone(k0, pid) ==
  LET k == Enter(k0, 0)
      victim == pcb_find_pid(k, pid)
  IN IF pid = Me(k).pid THEN KillSelf(k)
     ELSE IF victim = NULL THEN Return(k, E_NOT_FOUND)
     ELSE KillVictim(k, victim)

sys_kill(k0, pid) ==
  LET k == Enter(k0, 0)
      victim == pcb_find_pid(k, pid)
  IN IF pid = Me(k).pid THEN KillSelf(k)
     ELSE IF pid < FIRST_USER_PID THEN Return(k, E_FAILURE)
     ELSE IF victim = NULL THEN Return(k, E_NOT_FOUND)
     ELSE KillVictim(k, victim)

sys_sleep(k0, length) ==
  LET k == Enter(k0, 0)
      p == k.current
      wakeup == (k.system_time + length) % TimeMod
      asleep == SetPCB(k, p, [Me(k) EXCEPT !.wakeup = wakeup])
  IN IF length = 0 THEN Redispatch(schedule(k, p))
     ELSE IF asleep.ptable[p].next # NULL THEN asleep
     ELSE Redispatch(pcb_queue_insert(asleep, "sleeping", p))

-----------------------------------------------------------------------------
(* Interrupt handlers.                                                     *)

(* Mutant: system_time does not wrap.                                      *)
ClockEnter_NoWrap(k) == [k EXCEPT !.status = "clock", !.system_time = @ + 1]

(* clk_isr up to its loop; ClockWake is one turn of the loop, ClockDone    *)
(* what follows it.  Nothing can run between these steps.                  *)
ClockEnter(k) ==
  [k EXCEPT !.status = "clock", !.system_time = (@ + 1) % TimeMod]

(* Mutant: < for <=.                                                       *)
SleeperIsDue_Later(k) ==
  /\ ~pcb_queue_empty(k, "sleeping")
  /\ k.ptable[k.q["sleeping"].head].wakeup < k.system_time

SleeperIsDue(k) ==
  /\ ~pcb_queue_empty(k, "sleeping")
  /\ k.ptable[k.q["sleeping"].head].wakeup <= k.system_time

ClockWake(k) == schedule(pcb_queue_remove(k, "sleeping"), k.q["sleeping"].head)

(* Mutant: the process whose slice ended is not put back.                  *)
ClockDone_Lost(k) ==
  LET k1 == [k EXCEPT !.status = "user", !.ticks = @ - 1]
  IN IF k1.ticks < 1 THEN Redispatch(k1) ELSE k1

ClockDone(k) ==
  LET k1 == [k EXCEPT !.status = "user", !.ticks = @ - 1]
  IN IF k1.ticks < 1 THEN Redispatch(schedule(k1, k1.current)) ELSE k1

(* The receive case of sio_isr: n characters are in the receiver.  What    *)
(* does not fit in the buffer is dropped; the first blocked reader gets    *)
(* what it asked for of what there is.                                     *)
sio_isr_rx(k, n) ==
  LET full == IF k.incount + n > IN_SIZE THEN IN_SIZE ELSE k.incount + n
      p == k.q["sioread"].head
      k1 == pcb_queue_remove([k EXCEPT !.incount = full], "sioread")
      num == IF k1.ptable[p].arg < full THEN k1.ptable[p].arg ELSE full
      k2 == [k1 EXCEPT !.incount = full - num]
  IN IF pcb_queue_empty(k, "sioread") THEN [k EXCEPT !.incount = full]
     ELSE schedule(k2, p)

-----------------------------------------------------------------------------
(* The state in which the system settles after boot: init has spawned idle *)
(* and the shell and waits for its children; the shell runs.               *)

BootPCB(pid, prio, state) ==
  [next |-> NULL, state |-> state, pid |-> pid, parent |-> init_pcb,
   priority |-> prio, wakeup |-> 0, exit_status |-> 0, arg |-> 0, ret |-> 0]

FreePCB(s) ==
  [next |-> IF s = N_PROCS THEN NULL ELSE s + 1, state |-> "Unused", pid |-> 0,
   parent |-> NULL, priority |-> PRIO_HIGH, wakeup |-> 0, exit_status |-> 0,
   arg |-> 0, ret |-> 0]

Only(p) == [head |-> p, tail |-> p, length |-> IF p = NULL THEN 0 ELSE 1]

Booted(t) ==
  [ptable |-> [s \in Slots |->
     CASE s = init_pcb -> BootPCB(PID_INIT, PRIO_HIGH, "Waiting")
       [] s = 2 -> BootPCB(PID_IDLE, PRIO_DEFERRED, "Ready")
       [] s = 3 -> BootPCB(3, PRIO_STD, "Running")
       [] OTHER -> FreePCB(s)],
   q |-> [r \in Queues |->
     CASE r = "waiting" -> Only(init_pcb)
       [] r = "ready" -> Only(2)
       [] r = "freelist" /\ N_PROCS > 3 ->
            [head |-> 4, tail |-> N_PROCS, length |-> N_PROCS - 3]
       [] OTHER -> Only(NULL)],
   current |-> 3, ticks |-> QUANTUM, next_pid |-> 4, system_time |-> t,
   incount |-> 0, stacks |-> N_STACKS - 3, status |-> "user"]

Init == \E t \in 0..TimeMod-1 : sys = Booted(t)

-----------------------------------------------------------------------------
(* The actions.                                                            *)

(* init is known by its slot, which it never leaves.  So is idle, but it   *)
(* may be killed and its slot taken over, with another PID.                *)
CallsOf(p) ==
  CASE p = init_pcb -> {"waitpid", "fork"}
    [] p = idle_pcb /\ sys.ptable[p].pid = PID_IDLE -> {}
    [] OTHER -> Calls

May(call) == sys.status = "user" /\ call \in CallsOf(sys.current)

Exit == May("exit") /\ \E c \in ExitCodes : sys' = sys_exit(sys, c)

BadCall == May("bad") /\ sys' = sys_exit(sys, EXIT_BAD_SYSCALL)

Waitpid ==
  /\ May("waitpid")
  /\ \E t \in WaitTargets :
       /\ sys.current = init_pcb => t = 0
       /\ sys' = sys_waitpid(sys, t)

Fork == May("fork") /\ sys.next_pid <= MaxPid /\ sys' = sys_fork(sys)

Exec == May("exec") /\ sys' = sys_exec(sys)

Read == May("read") /\ \E n \in ReadLens : sys' = sys_read(sys, n)

SetPrio == May("setprio") /\ \E n \in SetPrios : sys' = sys_setprio(sys, n)

Kill == May("kill") /\ \E pid \in KillTargets : sys' = sys_kill(sys, pid)

Sleep == May("sleep") /\ \E n \in SleepTimes : sys' = sys_sleep(sys, n)

ClockTick == sys.status = "user" /\ sys' = ClockEnter(sys)

ClockLoop ==
  sys.status = "clock" /\ SleeperIsDue(sys) /\ sys' = ClockWake(sys)

ClockEnd ==
  sys.status = "clock" /\ ~SleeperIsDue(sys) /\ sys' = ClockDone(sys)

SerialInput ==
  sys.status = "user" /\ \E n \in 1..MaxBurst : sys' = sio_isr_rx(sys, n)

(* panic() and an endless walk both spin with interrupts disabled.         *)
Halted == sys.status \in {"panic", "hang"} /\ UNCHANGED sys

Next ==
  \/ Exit \/ BadCall \/ Waitpid \/ Fork \/ Exec \/ Read \/ SetPrio \/ Kill
  \/ Sleep \/ ClockTick \/ ClockLoop \/ ClockEnd \/ SerialInput \/ Halted

Spec == Init /\ [][Next]_sys

(* The timer never stops, and a handler that is entered is finished.  The  *)
(* second is WF_sys(ClockLoop \/ ClockEnd) with its ENABLED written out:   *)
(* one of the two can be taken exactly when the status is "clock".         *)
FairSpec ==
  /\ Spec
  /\ WF_sys(ClockTick)
  /\ []<>(sys.status # "clock") \/ []<><<ClockLoop \/ ClockEnd>>_sys

-----------------------------------------------------------------------------
(* What the processes may rely on.                                         *)

(* The type invariant: every pointer of the process module is NULL or a    *)
(* slot of the process table, every state is one of enum state_e, the      *)
(* clock and the queue lengths stay within their width.                    *)
TypeOK == sys \in KernelState

(* Whenever the kernel returns to user code, or is in the clock handler,   *)
(* `current' designates a PCB: clk_isr and sys_isr dereference it without  *)
(* a test that could do anything but panic.                                *)
CurrentSet == Ok(sys) => sys.current # NULL

(* Until next_pid, a uint_t, has wrapped, two PCBs that have ever been     *)
(* given a PID have different PIDs, and next_pid is one that was never     *)
(* given: what pcb_find_pid relies on.  Afterwards nothing is promised,    *)
(* and sys_fork gives PIDs in use, 0 and 1 among them.                     *)
PidsUnique ==
  ~Wrapped(sys) =>
    /\ \A p \in Slots : sys.ptable[p].pid < sys.next_pid
    /\ \A p, r \in Slots :
         p # r /\ sys.ptable[p].pid # 0 => sys.ptable[p].pid # sys.ptable[r].pid

(* init, to which every orphan is given, is never killed and never exits:  *)
(* its slot keeps its PID and a state a live process has.                  *)
InitLives ==
  /\ sys.ptable[init_pcb].pid = PID_INIT
  /\ sys.ptable[init_pcb].state \in {"Ready", "Running", "Waiting"}

-----------------------------------------------------------------------------
(* What the process module keeps true of its own data, as long as no stale *)
(* queue entry exists.                                                     *)

Members(k, q) == Visited(k, q, {})

(* The links of q end, at its tail, after `length' PCBs, and are in the    *)
(* order its insertions promise.                                           *)
SoundQueue(k, q) ==
  LET members == Members(k, q) IN
  /\ Walk(k, q, {})[N_PROCS] = NULL
  /\ Cardinality(members) = k.q[q].length
  /\ IF members = {} THEN k.q[q].tail = NULL
     ELSE k.q[q].tail \in members /\ k.ptable[k.q[q].tail].next = NULL
  /\ ~IsFifo(q) => \A p \in members :
       LET n == k.ptable[p].next IN n # NULL => Key(k, q, p) <= Key(k, q, n)

QueuesSound == Ok(sys) => \A q \in Queues : SoundQueue(sys, q)

(* The queues a PCB is on are those its state calls for.  A sleeper keeps  *)
(* the state Running: sys_sleep does not change it.                        *)
RightPlace(state, p, on) ==
  CASE state = "Unused" -> on = {"freelist"}
    [] state = "Ready" -> on = {"ready"}
    [] state = "Waiting" -> on = {"waiting"}
    [] state = "Blocked" -> on = {"sioread"}
    [] state = "Zombie" -> on = {"zombie"}
    [] state = "Killed" -> on \in {{"ready"}, {"sioread"}}
    [] state = "Running" -> on = IF p = sys.current THEN {} ELSE {"sleeping"}
    [] OTHER -> FALSE

PlacedOnce ==
  LET members == [q \in Queues |-> Members(sys, q)] IN
  Ok(sys) =>
    /\ Me(sys).state = "Running"
    /\ \A p \in Slots :
         RightPlace(sys.ptable[p].state, p, {q \in Queues : p \in members[q]})

ParentAlive ==
  Ok(sys) => \A p \in Slots : sys.ptable[p].state # "Unused" =>
    /\ sys.ptable[p].parent # NULL
    /\ sys.ptable[sys.ptable[p].parent].state \notin {"Unused", "Zombie"}

StacksConserved ==
  Ok(sys) =>
    sys.stacks = N_STACKS
                 - Cardinality({p \in Slots : sys.ptable[p].state # "Unused"})

(* Every sleeper is woken: the wrap of system_time may shorten a sleep,    *)
(* but clk_isr leaves no one behind in the sleep queue.                    *)
SleepersWake == \A p \in Slots : []<>(p \notin Members(sys, "sleeping"))

(* Round robin: with every ordinary process at the standard priority, a    *)
(* ready one does not stay ready for ever.  (idle may.)                    *)
ReadyRuns ==
  \A p \in Slots : []<>(sys.ptable[p].state = "Ready"
                           => sys.ptable[p].priority # PRIO_STD)
=============================================================================
