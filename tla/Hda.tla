-------------------------------- MODULE Hda --------------------------------
(***************************************************************************)
(* hda.c: the immediate command interface of the audio controller, and the *)
(* walk through the nodes of its codecs that hda_init makes.               *)
(*                                                                         *)
(* The controller is external.  It clears "busy" when it has sent the      *)
(* command to the codec and sets "valid" when the answer has come back.    *)
(* Writing 1 to "valid" clears it.                                         *)
(***************************************************************************)
EXTENDS Integers, Sequences, FiniteSets

CONSTANTS
  Codecs,       \* address -> [vid, start, groups], groups a sequence of
                \*   [type, caps, start, widgets], widgets a sequence of caps
  NODE_RANGE    \* 256, the values of uint8_t

ASSUME HdaAssumption == NODE_RANGE \in Nat \ {0}

(* Node 0 is the root of a codec.  The numbers of nodes have seven bits,   *)
(* so that the one behind the last is still a uint8_t.                     *)
ASSUME CodecsAssumption ==
  /\ DOMAIN Codecs \subseteq Nat
  /\ \A c \in DOMAIN Codecs :
       /\ Codecs[c].start \in Nat \ {0}
       /\ Codecs[c].groups \in
            Seq([type : Nat, caps : Nat, start : Nat, widgets : Seq(Nat)])
       /\ Codecs[c].start + Len(Codecs[c].groups) < NODE_RANGE
       /\ \A g \in DOMAIN Codecs[c].groups :
            Codecs[c].groups[g].start + Len(Codecs[c].groups[g].widgets) < NODE_RANGE

VARIABLES
  regs,         \* [icb, irv, icoi, icii]
  link,         \* the commands sent whose answer has not come back
  sw,           \* the driver: where it is and what it has learnt
  spoilt        \* a command was sent while an answer nobody waits for was
                \*   still under way

hvars == <<regs, link, sw, spoilt>>

None == [verb |-> "none"]

(* What the codec answers, as the upper and the lower half: a parameter of *)
(* a node or the gain of its amplifier; 0 if it has no such node.          *)
Answer(cmd) ==
  LET c == Codecs[cmd.caddr]
      group == {g \in DOMAIN c.groups : cmd.nid = c.start + g - 1}
      widget == {x \in (DOMAIN c.groups) \X (1..NODE_RANGE) :
                   x[2] \in DOMAIN c.groups[x[1]].widgets
                     /\ cmd.nid = c.groups[x[1]].start + x[2] - 1}
      Of(set, F(_)) == IF set = {} THEN <<0, 0>> ELSE F(CHOOSE x \in set : TRUE)
      Subordinates(g) == <<c.groups[g].start, Len(c.groups[g].widgets)>>
      Type(g) == <<0, c.groups[g].type>>
      GroupCaps(g) == <<c.groups[g].caps, 0>>
      WidgetCaps(x) == <<c.groups[x[1]].widgets[x[2]], 0>>
  IN CASE cmd.verb = "VID" -> <<c.vid, 0>>
       [] cmd.verb = "SUBORDCNT" /\ cmd.nid = 0 -> <<c.start, Len(c.groups)>>
       [] cmd.verb = "SUBORDCNT" /\ cmd.nid # 0 -> Of(group, Subordinates)
       [] cmd.verb = "FGTYPE" -> Of(group, Type)
       [] cmd.verb = "FGCAPS" -> Of(group, GroupCaps)
       [] cmd.verb = "AWCAPS" -> Of(widget, WidgetCaps)
       [] cmd.verb = "AMP_GET_IN" -> <<1, cmd.nid>>
       [] cmd.verb = "AMP_GET_OUT" -> <<2, cmd.nid>>
       [] cmd.verb = "AMP_SET" -> <<0, 0>>

-----------------------------------------------------------------------------
(* send_verb_imm.  The caller's next command is sw.cmd; sw.pc says how far *)
(* it has got.                                                             *)

(* Mutant: an old answer is not discarded.                                 *)
Command_Stale(cmd) == [regs EXCEPT !.icoi = cmd, !.icb = TRUE]

(* "icis |= ...": the bit "valid" is written as 1, asked for or because it *)
(* was read as 1, and so cleared.                                          *)
Command(cmd) == [regs EXCEPT !.icoi = cmd, !.icb = TRUE, !.irv = FALSE]

SendVerb ==
  /\ sw.pc = "send" /\ ~regs.icb
  /\ regs' = Command(sw.cmd)
  /\ sw' = [sw EXCEPT !.pc = "busy"]
  /\ spoilt' = (spoilt \/ \E i \in DOMAIN link : link[i].verb = "AMP_SET")
  /\ UNCHANGED link

(* The command has left; whether its answer is awaited.                    *)
VerbSent ==
  /\ sw.pc = "busy" /\ ~regs.icb
  /\ sw' = [sw EXCEPT !.pc = IF sw.cmd.verb = "AMP_SET" THEN "return" ELSE "valid"]
  /\ UNCHANGED <<regs, link, spoilt>>

-----------------------------------------------------------------------------
(* enumerate_codecs: what is asked for after an answer.                    *)

Ask(s, verb, caddr, nid) ==
  [s EXCEPT !.cmd = [verb |-> verb, caddr |-> caddr, nid |-> nid], !.pc = "send"]

(* The next codec from address i on that is present.                       *)
NextCodec(s, i) ==
  LET present == {c \in DOMAIN Codecs : c >= i}
      c == CHOOSE n \in present : \A m \in present : n <= m
  IN IF present = {} THEN [s EXCEPT !.pc = "idle", !.cmd = None]
     ELSE Ask([s EXCEPT !.i = c], "VID", c, 0)

NextGroup(s, j) ==
  IF j < s.count THEN Ask([s EXCEPT !.j = j], "FGTYPE", s.i, j + s.start)
  ELSE NextCodec(s, s.i + 1)

NextWidget(s, wi) ==
  IF wi < s.s_start + s.s_count THEN Ask([s EXCEPT !.wi = wi], "AWCAPS", s.i, wi)
  ELSE NextGroup(s, s.j + 1)

(* The loops, one turn of the innermost per answer a.                      *)
Learn(s, a) ==
  LET verb == s.cmd.verb
      nid == s.cmd.nid
      k == [s EXCEPT !.log = @ \cup {<<s.cmd, a>>}]
  IN CASE verb = "VID" -> Ask(k, "SUBORDCNT", k.i, 0)
       [] verb = "SUBORDCNT" /\ nid = 0 ->
            NextGroup([k EXCEPT !.start = a[1], !.count = a[2]], 0)
       [] verb = "FGTYPE" -> Ask([k EXCEPT !.fg_type = a[2]], "SUBORDCNT", k.i, nid)
       [] verb = "SUBORDCNT" /\ nid # 0 ->
            LET g == [k EXCEPT !.s_start = a[1], !.s_count = a[2]]
            IN IF g.fg_type = 1 THEN Ask(g, "FGCAPS", k.i, nid) ELSE NextGroup(g, g.j + 1)
       [] verb = "FGCAPS" -> NextWidget(k, k.s_start)
       [] verb = "AWCAPS" -> Ask(k, "AMP_GET_IN", k.i, nid)
       [] verb = "AMP_GET_IN" -> Ask(k, "AMP_GET_OUT", k.i, nid)
       [] verb = "AMP_GET_OUT" -> NextWidget(k, (k.wi + 1) % NODE_RANGE)

(* send_verb_imm returns what is in the register.                          *)
VerbAnswered ==
  /\ sw.pc = "valid" /\ regs.irv
  /\ sw' = Learn(sw, regs.icii)
  /\ UNCHANGED <<regs, link, spoilt>>

(* hda_set_volume: called between walks; its answer is not awaited.        *)
hda_set_volume ==
  /\ sw.pc = "idle"
  /\ \E c \in DOMAIN Codecs : sw' = Ask(sw, "AMP_SET", c, Codecs[c].start)
  /\ UNCHANGED <<regs, link, spoilt>>

VolumeSet ==
  /\ sw.pc = "return"
  /\ sw' = [sw EXCEPT !.pc = "idle", !.cmd = None]
  /\ UNCHANGED <<regs, link, spoilt>>

(* hda_init: after the reset, the walk.                                    *)
hda_init ==
  /\ sw.pc = "idle"
  /\ sw' = NextCodec([sw EXCEPT !.log = {}, !.walks = @ + 1], 0)
  /\ UNCHANGED <<regs, link, spoilt>>

-----------------------------------------------------------------------------
(* The controller and the codecs: answers come back in order.              *)
ControllerSends ==
  /\ regs.icb
  /\ regs' = [regs EXCEPT !.icb = FALSE]
  /\ link' = Append(link, regs.icoi)
  /\ UNCHANGED <<sw, spoilt>>

CodecAnswers ==
  /\ link # <<>>
  /\ regs' = [regs EXCEPT !.irv = TRUE, !.icii = Answer(Head(link))]
  /\ link' = Tail(link)
  /\ UNCHANGED <<sw, spoilt>>

HInit ==
  /\ regs = [icb |-> FALSE, irv |-> FALSE, icoi |-> None, icii |-> <<0, 0>>]
  /\ link = <<>> /\ spoilt = FALSE
  /\ sw = [pc |-> "idle", cmd |-> None, i |-> 0, j |-> 0, wi |-> 0, start |-> 0,
           count |-> 0, s_start |-> 0, s_count |-> 0, fg_type |-> 0, log |-> {}, walks |-> 0]

-----------------------------------------------------------------------------
(* Every answer the walk works with is the codec's answer to the question  *)
(* asked, however long the controller takes for either, unless one was     *)
(* asked while the answer to hda_set_volume was still under way.           *)
AnswersMatch == ~spoilt => \A l \in sw.log : l[2] = Answer(l[1])

(* When the walk is over, every widget of every audio function group of    *)
(* every codec has been asked for, and nothing that is not there.          *)
WalkComplete ==
  ~spoilt /\ sw.pc = "idle" /\ sw.walks > 0 =>
    {<<l[1].caddr, l[1].nid>> : l \in {m \in sw.log : m[1].verb = "AWCAPS"}}
      = UNION {{<<y[1], Codecs[y[1]].groups[y[2]].start + w - 1>> :
                  w \in DOMAIN Codecs[y[1]].groups[y[2]].widgets} :
               y \in {x \in (DOMAIN Codecs) \X (1..NODE_RANGE) :
                   x[2] \in DOMAIN Codecs[x[1]].groups
                     /\ Codecs[x[1]].groups[x[2]].type = 1}}
=============================================================================
