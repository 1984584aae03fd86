----------------------------- MODULE MCFindings -----------------------------
(***************************************************************************)
(* What the comments of the source and doc/api.txt say of the kernel and   *)
(* the code does not do.  Each definition states one such sentence; TLC    *)
(* finds a behaviour of the code that contradicts it.                      *)
(***************************************************************************)
EXTENDS Kernel

State(p) == sys.ptable[p].state

(* find_prev_pid and its siblings return "a pointer to the predecessor in  *)
(* the queue, or NULL": the walk should end.                               *)
WalksEnd == sys.status # "hang"

(* sys_kill marks a process on a queue as killed to "let the scheduler     *)
(* deal with it": a killed process should never run again.                 *)
KilledNeverRuns ==
  [][\A p \in Slots :
       State(p) = "Killed" => sys'.ptable[p].state # "Running"]_sys

(* waitpid returns "E_NO_CHILDREN if no children exist": a process without *)
(* children should not begin to wait for one.                              *)
ChildlessNeverWaits ==
  [][\A p \in Slots :
       State(p) = "Running" /\ sys'.ptable[p].state = "Waiting" =>
         \E c \in Slots : State(c) # "Unused" /\ sys.ptable[c].parent = p]_sys
=============================================================================
