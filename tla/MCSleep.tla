------------------------------ MODULE MCSleep ------------------------------
(***************************************************************************)
(* Who runs when, and how long sleep() sleeps.  `left[p]' is the number of *)
(* ticks a sleeper still has to sleep, `wraps[p]' whether its wakeup time  *)
(* wrapped around.                                                         *)
(***************************************************************************)
EXTENDS Kernel

VARIABLES left, wraps

svars == <<sys, left, wraps>>

SInit == Init /\ left = [p \in Slots |-> 0] /\ wraps = [p \in Slots |-> FALSE]

FallsAsleep ==
  \E n \in SleepTimes :
    /\ May("sleep") /\ sys' = sys_sleep(sys, n)
    /\ left' = [left EXCEPT ![sys.current] = n]
    /\ wraps' = [wraps EXCEPT ![sys.current] = sys.system_time + n >= TimeMod]

TimePasses ==
  /\ ClockTick
  /\ left' = [p \in Slots |-> IF left[p] = 0 THEN 0 ELSE left[p] - 1]
  /\ UNCHANGED wraps

OtherStep ==
  /\ Exec \/ Fork \/ SetPrio \/ ClockLoop \/ ClockEnd
  /\ UNCHANGED <<left, wraps>>

SSpec == SInit /\ [][FallsAsleep \/ TimePasses \/ OtherStep]_svars

Asleep(k, p) == p \in Members(k, "sleeping")

(* clk_isr wakes every sleeper whose wakeup time did not wrap at exactly   *)
(* the tick it asked for: not earlier, and, once the handler has returned, *)
(* not later, whatever the other sleepers, wrapped ones included, do to    *)
(* the order of the sleep queue.                                           *)
WakesOnTime ==
  \A p \in Slots : ~wraps[p] =>
    /\ Asleep(sys, p) /\ sys.status = "user" => left[p] > 0
    /\ left[p] > 0 => Asleep(sys, p)

(* dispatch() picks a process of the highest priority: whoever yields,     *)
(* sleeps, wakes up, changes its priority or becomes another program, no   *)
(* ready process has a higher one than the process chosen.                 *)
DispatchHighest ==
  [][Ok(sys') /\ sys'.current # sys.current =>
       \A p \in Slots : sys'.ptable[p].state = "Ready" =>
                          Me(sys').priority <= sys'.ptable[p].priority]_svars
=============================================================================
