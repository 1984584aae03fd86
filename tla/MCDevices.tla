----------------------------- MODULE MCDevices -----------------------------
(***************************************************************************)
(* All the devices: the console of MCConsole, the search of the PCI bus,   *)
(* the network controller and the audio controller.  They share no state   *)
(* once they are initialised, so `part' chooses the one the behaviour is   *)
(* about.                                                                  *)
(***************************************************************************)
EXTENDS MCConsole, Pci, Nic, Hda, TLC

CONSTANTS
  MaxFrames,    \* frames accepted, and frames stored
  MaxWalks,     \* times hda_init is run, hda_set_volume between them
  Pages         \* numbers of free pages at boot

ASSUME DevicesAssumption == Pages \subseteq Nat

VARIABLE part

dvars == <<part, cvars, pvars, nvars, hvars>>

(* Boards: a network or an audio device, or both, at some places, with     *)
(* memory, I/O, 64-bit and missing base address registers.                 *)
Bar(kind, addr) == [kind |-> kind, addr |-> addr]
Layouts ==
  {<<Bar("mem", 1), Bar("io", 2), Bar("mem", 3), Bar("none", 0), Bar("none", 0), Bar("none", 0)>>,
   <<Bar("mem64", 1), Bar("upper", 7), Bar("io", 3), Bar("mem64", 4), Bar("upper", 7), Bar("mem", 6)>>,
   <<Bar("none", 0), Bar("mem", 2), Bar("none", 0), Bar("none", 0), Bar("mem64", 5), Bar("upper", 0)>>}
Slot(what, bars) == [id |-> what, class |-> what, cmd |-> {}, bars |-> bars]
AllBoards ==
  UNION {[ps -> {Slot(w, l) : w \in {"nic", "hda"}, l \in Layouts}] :
           ps \in {{<<0, 0, 0>>}, {<<0, 1, 1>>, <<1, 0, 0>>}, {<<1, 1, 0>>, <<1, 1, 1>>}}}

(* Machines: every way i8255x_init can go.                                 *)
Machines ==
  [slices : 0..2, found : BOOLEAN, base_addr : {<<0, 0, 0, 0, 0, 0>>, <<0, 5, 0, 0, 0, 0>>},
   free : Pages, garbage : BOOLEAN]

(* Two codecs: one has an audio group between two others, one has none.    *)
AllCodecs ==
  0 :> [vid |-> 11, start |-> 1,
        groups |-> <<[type |-> 2, caps |-> 21, start |-> 4, widgets |-> <<31>>],
                     [type |-> 1, caps |-> 22, start |-> 5, widgets |-> <<32, 33>>]>>]
  @@ 2 :> [vid |-> 12, start |-> 1, groups |-> <<>>]

-----------------------------------------------------------------------------
ConsoleStep == part = "console" /\ CNext /\ UNCHANGED <<part, pvars, nvars, hvars>>

PciStep == part = "pci" /\ Probe /\ UNCHANGED <<part, cvars, nvars, hvars>>

Only(A) == A /\ UNCHANGED <<part, cvars, pvars, hvars>>

NetBoot == part = "nic" /\ Only(\E m \in Machines : net_init(m))
NetCall ==
  /\ part = "nic"
  /\ Only(\/ Len(accepted) < MaxFrames
             /\ \E n \in {ETH_MAX_FRAME_SIZE, ETH_MAX_FRAME_SIZE + 1} : sys_eth_tx(n)
          \/ \E n \in {ETH_MIN_FRAME_SIZE - 1, ETH_MIN_FRAME_SIZE} : sys_eth_rx(n)
          \/ NullDriver)
NetDevice ==
  part = "nic"
    /\ Only(DeviceSends \/ (Len(stored) < MaxFrames /\ \E n \in {3, 9} : DeviceReceives(n)))

(* Nothing is claimed once an answer may be the wrong one.                 *)
AudioStep ==
  /\ part = "hda" /\ ~spoilt
  /\ \/ SendVerb \/ VerbSent \/ VerbAnswered \/ VolumeSet
     \/ sw.walks < MaxWalks /\ (hda_init \/ hda_set_volume)
     \/ ControllerSends \/ CodecAnswers
  /\ UNCHANGED <<part, cvars, pvars, nvars>>

(* The parts that are not looked at stand still in one initial state.      *)
DInit ==
  /\ part \in {"console", "pci", "nic", "hda"}
  /\ CInit /\ (part # "console" => side = "screen")
  /\ IF part = "pci" THEN PInit({0, 9}) ELSE space = <<>> /\ find = [result |-> "absent", by |-> "id"]
  /\ NInit /\ HInit

DNext == ConsoleStep \/ PciStep \/ NetBoot \/ NetCall \/ NetDevice \/ AudioStep

(* The search is a loop and the device runs by itself.                     *)
DSpec ==
  DInit /\ [][DNext]_dvars /\ WF_dvars(PciStep)
    /\ WF_dvars(part = "nic" /\ Only(DeviceSends))

-----------------------------------------------------------------------------
Before(p, q) ==
  \/ p[1] < q[1]
  \/ p[1] = q[1] /\ (p[2] < q[2] \/ (p[2] = q[2] /\ p[3] < q[3]))

(* Both searches of the PCI bus find the first function that matches; one  *)
(* that reports that there is none is right.                               *)
FoundFirst ==
  part = "pci" =>
    LET matching == {p \in DOMAIN space : Matches(space[p], find)} IN
    /\ find.result = "found" =>
         find.at \in matching /\ \A p \in matching : ~Before(p, find.at)
    /\ find.result = "absent" => matching = {}

(* A function that was found is enabled and the address of each of its     *)
(* base address registers is in the slot of that register; the slots of    *)
(* missing registers and of upper halves keep what they held.  The         *)
(* registers of the network controller are where its first memory          *)
(* register says if that is its first register.                            *)
BarsProbed ==
  part = "pci" /\ find.result = "found" =>
    LET bars == space[find.at].bars
        Used(i) == bars[i].kind \in {"mem", "mem64", "io"}
    IN /\ {"mem", "master"} \subseteq space[find.at].cmd
       /\ \A i \in 1..6 : Used(i) => find.base_addr[i] = bars[i].addr
       /\ \A i, j \in 1..6 : ~Used(i) /\ ~Used(j) => find.base_addr[i] = find.base_addr[j]
       /\ Used(1) => get_mmio_addr(find.base_addr) = bars[1].addr

(* A search by ID ends, whether the device is there or not; a search by    *)
(* class ends if the device is there.                                      *)
SearchEndsIfFound ==
  part = "pci" /\ (find.by = "id" \/ \E p \in DOMAIN space : Matches(space[p], find))
    ~> find.result # "searching"

(* pci.c hands its callers the right function, ready for use.              *)
FoundAndProbed == FoundFirst /\ BarsProbed

(* Driver and device hand each other the descriptors of both rings without *)
(* losing, repeating or reordering a frame.                                *)
RingsInOrder == SentInOrder /\ DeliveredInOrder

(* The walk through the codecs learns what is there, and all of it.        *)
WalkRight == AnswersMatch /\ WalkComplete
=============================================================================
