-------------------------------- MODULE Pci --------------------------------
(***************************************************************************)
(* pci.c: the search for a device in the configuration spaces of all       *)
(* functions, one read of a configuration register per step, and how the   *)
(* function found is enabled.                                              *)
(*                                                                         *)
(* A base address register holds [kind, addr]; kind is "none" (it reads as *)
(* 0 whatever is written), "io", "mem", "mem64" (the next register is its  *)
(* upper half) or "upper".  Probed is what a register reads after all ones *)
(* were written to it.                                                     *)
(***************************************************************************)
EXTENDS Integers, Sequences, FiniteSets

CONSTANTS
  PCI_MAX_BUSES, PCI_MAX_DEVICES_PER_BUS, PCI_MAX_FUNCTIONS,
  UINT8_RANGE,      \* 256, the values of uint8_t; PCI_MAX_BUSES is 256 too
  Boards            \* functions from some places to what is plugged in there

ASSUME PciAssumption ==
  /\ {PCI_MAX_BUSES, PCI_MAX_DEVICES_PER_BUS, PCI_MAX_FUNCTIONS} \subseteq Nat \ {0}
  /\ UINT8_RANGE \in Nat
  /\ UINT8_RANGE >= PCI_MAX_BUSES
  /\ UINT8_RANGE > PCI_MAX_DEVICES_PER_BUS
  /\ UINT8_RANGE > PCI_MAX_FUNCTIONS

VARIABLES
  space,        \* configuration space: place -> [id, class, cmd, bars]
  find          \* the search: what for, the place read next, the result

pvars == <<space, find>>

Sites == (0..PCI_MAX_BUSES-1) \X (0..PCI_MAX_DEVICES_PER_BUS-1) \X (0..PCI_MAX_FUNCTIONS-1)

(* The six base address registers of a function: a 64-bit one takes two,   *)
(* and one that exists has been given an address.                          *)
BarKinds == {"none", "io", "mem", "mem64", "upper"}
WellFormed(bars) ==
  /\ bars \in [1..6 -> [kind : BarKinds, addr : Nat]]
  /\ \A i \in 1..6 :
       /\ bars[i].kind = "upper" <=> i > 1 /\ bars[i - 1].kind = "mem64"
       /\ bars[i].kind = "mem64" => i < 6
       /\ bars[i].kind \in {"io", "mem", "mem64"} => bars[i].addr # 0

CommandBits == {"io", "mem", "master"}

PciFunctions ==
  [id : STRING, class : STRING, cmd : SUBSET CommandBits,
   bars : [1..6 -> [kind : BarKinds, addr : Nat]]]

ASSUME BoardsAssumption ==
  \A b \in Boards :
    /\ DOMAIN b \subseteq Sites
    /\ b \in [DOMAIN b -> PciFunctions]
    /\ \A p \in DOMAIN b : WellFormed(b[p].bars)

NoFunction == [id |-> "ones", class |-> "ones"]

(* A register of a function that is not there reads as all ones.           *)
pci_read_config(s, place) == IF place \in DOMAIN s THEN s[place] ELSE NoFunction

-----------------------------------------------------------------------------
(* pci_func_enable.  Each register is read, probed and restored.  The      *)
(* slots of base_addr it skips keep what the structure held.               *)

(* What the register reads after 0xFFFFFFFF was written to it.             *)
Probed(bar) == IF bar.kind = "none" THEN "zero" ELSE bar.kind

(* Mutant: both halves of a 64-bit register count as registers.            *)
BarWidth_Narrow(bar) == 1

BarWidth(bar) == IF Probed(bar) = "mem64" THEN 2 ELSE 1

(* The registers the loop looks at.                                        *)
BarsSeen(bars) ==
  LET f[i \in 1..7] == IF i > 6 THEN {}
                       ELSE {i} \cup (IF i + BarWidth(bars[i]) > 6 THEN {}
                                      ELSE f[i + BarWidth(bars[i])])
  IN f[1]

pci_func_enable(s, place, base_addr) ==
  LET bars == s[place].bars IN
  [space |-> [s EXCEPT ![place].cmd = @ \cup {"mem", "master"}],
   base_addr |-> [i \in 1..6 |-> IF i \in BarsSeen(bars) /\ Probed(bars[i]) # "zero"
                                 THEN bars[i].addr ELSE base_addr[i]]]

-----------------------------------------------------------------------------
(* The searches.  pci_find_device_by_id counts in int,                     *)
(* pci_find_device_by_class in uint8_t.                                    *)

Matches(config, f) ==
  IF f.by = "id" THEN config.id = f.what ELSE config.class = f.what

(* Mutant: the search by ID counts in uint8_t as well.                     *)
NextPlace_Wrap(by, at) ==
  LET carry == at[3] + 1 = PCI_MAX_FUNCTIONS
      bus == carry /\ at[2] + 1 = PCI_MAX_DEVICES_PER_BUS
  IN [end |-> FALSE,
      at |-> IF bus THEN <<(at[1] + 1) % UINT8_RANGE, 0, 0>>
             ELSE IF carry THEN <<at[1], at[2] + 1, 0>> ELSE <<at[1], at[2], at[3] + 1>>]

(* The counters after a place that does not match: `end' when a loop over  *)
(* all the buses is over.                                                  *)
NextPlace(by, at) ==
  LET b == at[1]  d == at[2]  f == at[3]
      carry == f + 1 = PCI_MAX_FUNCTIONS
      bus == carry /\ d + 1 = PCI_MAX_DEVICES_PER_BUS
      nextb == IF by = "id" THEN b + 1 ELSE (b + 1) % UINT8_RANGE
  IN IF bus THEN [end |-> nextb >= PCI_MAX_BUSES, at |-> <<nextb, 0, 0>>]
     ELSE [end |-> FALSE,
           at |-> IF carry THEN <<b, d + 1, 0>> ELSE <<b, d, f + 1>>]

(* One turn of the innermost loop.                                         *)
Probe ==
  /\ find.result = "searching"
  /\ LET config == pci_read_config(space, find.at)
         next == NextPlace(find.by, find.at)
     IN IF Matches(config, find)
        THEN LET e == pci_func_enable(space, find.at, find.base_addr)
             IN /\ space' = e.space
                /\ find' = [find EXCEPT !.result = "found", !.base_addr = e.base_addr]
        ELSE /\ find' = IF next.end THEN [find EXCEPT !.result = "absent"]
                        ELSE [find EXCEPT !.at = next.at]
             /\ UNCHANGED space

(* The memory of the structure that is filled in is not cleared first.     *)
PInit(garbage) ==
  /\ space \in Boards
  /\ find \in [by : {"id", "class"}, what : {"nic", "hda"}, at : {<<0, 0, 0>>},
               base_addr : {[i \in 1..6 |-> g] : g \in garbage}, result : {"searching"}]

=============================================================================
