----------------------------- MODULE MCKernel -----------------------------
(***************************************************************************)
(* The kernel with a history variable.                                     *)
(*                                                                         *)
(* Two handlers leave an entry behind in a queue: pcb_zombify wakes a      *)
(* waiting parent without taking it off the waiting queue, and sys_waitpid *)
(* frees a zombie it collects without taking it off the zombie queue.      *)
(* `stale' records that either has happened.  Both are seen by a waitpid   *)
(* that returns a PID; the third way for waitpid to return one, init       *)
(* inheriting a zombie, does dequeue both PCBs.                            *)
(***************************************************************************)
EXTENDS Kernel

VARIABLE stale

vars == <<sys, stale>>

(* This step makes waitpid return a PID to p.                              *)
Reaps(p) == /\ sys'.ptable[p].ret > 0
            /\ sys'.ptable[p].ret # sys.ptable[p].ret

(* ... and it is init, waiting, that is given the PID of a zombie.         *)
InheritsZombie(p) ==
  /\ p = init_pcb
  /\ sys.ptable[p].state = "Waiting"
  /\ sys.ptable[pcb_find_pid(sys, sys'.ptable[p].ret)].state = "Zombie"

HInit == Init /\ stale = FALSE

HNext ==
  /\ Next
  /\ stale' = (stale \/ \E p \in Slots : Reaps(p) /\ ~InheritsZombie(p))

HSpec == HInit /\ [][HNext]_vars

NotStale == ~stale

(* No stale entry was left, and next_pid has not wrapped.                  *)
Clean == ~stale /\ ~Wrapped(sys)

-----------------------------------------------------------------------------
(* Whatever mix of calls and interrupts happens, the six queues are sound  *)
(* lists in their promised order until one of the two handlers leaves a    *)
(* stale entry or next_pid wraps: nothing else in procs.c, syscalls.c,     *)
(* clock.c or sio.c damages them.                                          *)
QueuesSoundUntilStale == Clean => QueuesSound

(* Until then every PCB is on exactly the queue its state calls for, and   *)
(* the current process is Running and on none.                             *)
PlacedOnceUntilStale == Clean => PlacedOnce

(* Until then every process has a live parent: whoever exits or is killed  *)
(* leaves its children, dead or alive, to init.                            *)
ParentAliveUntilStale == Clean => ParentAlive

(* Until then no stack is lost or freed twice: the allocator is short of   *)
(* one stack per process that has a PCB.                                   *)
StacksConservedUntilStale == Clean => StacksConserved

(* Until then the kernel neither panics nor walks a list for ever.  In     *)
(* particular dispatch() always finds a process, even if idle is killed.   *)
KernelRunsUntilStale == Clean => Ok(sys)

=============================================================================
