--------------------------- MODULE UserlandProofs ---------------------------
(***************************************************************************)
(* The programs of usercode/, for every size of the process table, every   *)
(* spawn table and everything that may be typed: init, the shell and the   *)
(* tests know which children they have, and the shell runs the line it was *)
(* given.                                                                  *)
(***************************************************************************)
EXTENDS MCUserland, ProofBasics, SequenceTheorems, FiniteSetTheorems, TLAPS

(* The processes as records.                                               *)
ProgSet == TestProgs \cup {Prog("idle", 0), Prog("shell", 0), Prog("init", 0)}
Typed == (STRING \cup {NUL}) \ {CR}
ShLocals ==
  [pc : {"loop", "read", "run", "wait"}, buf : Seq(Typed), cmds : Seq(Typed),
   todo : Seq(TestProgs)]
Process ==
  [parent : Pids, prog : ProgSet, state : {"exec", "run", "zombie"}, pc : Int,
   killed : BOOLEAN, status : Int, children : Seq(Pids), n : Nat, failed : Nat,
   seq : Nat, sh : ShLocals]

IsTest(prog) == prog.name \notin {"init", "shell"}

(* The processes form a family: everybody but init has a parent, and it is *)
(* alive.                                                                  *)
Family(f) ==
  /\ f \in [DOMAIN f -> Process] /\ DOMAIN f \subseteq Pids /\ IsFiniteSet(DOMAIN f)
  /\ INIT \in DOMAIN f
  /\ f[INIT].prog = Prog("init", 0) /\ f[INIT].state = "run"
  /\ ~f[INIT].killed /\ f[INIT].parent = INIT
  /\ \A p \in DOMAIN f \ {INIT} :
       /\ f[p].prog.name # "init" /\ f[p].parent # p
       /\ f[p].parent \in DOMAIN f /\ f[f[p].parent].state # "zombie"
  /\ \A p \in DOMAIN f : IsTest(f[p].prog) => f[p].pc \in 1..Len(Text(f[p].prog))

Kids(f, p) == {q \in DOMAIN f : f[q].parent = p /\ q # p}

(* The children of a test that is to wait for them: progI waits until      *)
(* there are none, progTUV as often as there are PIDs in its array, or for *)
(* each of these.                                                          *)
Awaits(me, kids) ==
  LET end == Len(Text(me.prog))
      c == me.children
  IN /\ me.prog.name = "progI" /\ me.pc = end => kids = {}
     /\ me.prog.mode \in {"w", "W"} =>
          /\ me.pc = end => kids = {}
          /\ me.pc < end - 1 => me.n = 1
          /\ me.pc < end =>
               /\ me.n \in 1..Len(c) + 1
               /\ me.prog.mode = "w" => Cardinality(kids) = Len(c) + 1 - me.n
               /\ me.prog.mode = "W" =>
                    /\ \A i, j \in 1..Len(c) : c[i] = c[j] => i = j
                    /\ kids = {c[i] : i \in me.n..Len(c)}

(* The shell's: n is the count, and l says that a kill has hit the shell.  *)
Counts(me, kids, n, l) ==
  /\ me.sh.pc \in {"loop", "read"} => kids = {}
  /\ Cardinality(kids) <= n /\ (~l => n = Cardinality(kids))

KnowsOf(me, kids, n, l) ==
  me.state # "zombie" =>
    /\ IsTest(me.prog) => Awaits(me, kids)
    /\ me.prog.name = "shell" => Counts(me, kids, n, l)

Knows(f, p, n, l) == KnowsOf(f[p], Kids(f, p), n, l)

(* The shell is the process of its entry in init's table, and while there  *)
(* is none the count is 0.                                                 *)
Shelled(f, tab, n, l) ==
  /\ \A p \in DOMAIN f : f[p].prog.name = "shell" => p = tab[2].pid
  /\ ~l /\ n # 0 => tab[2].pid \in DOMAIN f /\ f[tab[2].pid].state # "zombie"

TableKept(f, tab) ==
  /\ tab \in [1..2 -> [prog : ProgSet, pid : Nat]]
  /\ tab[1].prog = Prog("idle", 0) /\ tab[2].prog = Prog("shell", 0)
  /\ \A i \in 1..2 : tab[i].pid # 0 =>
       tab[i].pid \in Kids(f, INIT) /\ f[tab[i].pid].prog = tab[i].prog
  /\ f[INIT].pc \in {1, 2, 0, -1, -2}
  /\ f[INIT].pc = 1 => tab[1].pid = 0 /\ tab[2].pid = 0
  /\ f[INIT].pc = 2 => tab[2].pid = 0
  /\ f[INIT].pc < 0 => tab[-f[INIT].pc].pid = 0

Statics(s) ==
  /\ s = [time_to_stop |-> s.time_to_stop, children |-> s.children,
          sh_spawn_table |-> s.sh_spawn_table, in_spawn_table |-> s.in_spawn_table]
  /\ s.time_to_stop \in BOOLEAN /\ s.children \in Nat
  /\ s.sh_spawn_table \in Seq([select : STRING, prog : TestProgs])

Inputs(i) == i \in [typed : Seq(Typed), coming : Seq(Typed)]

UInv ==
  /\ Family(proc) /\ Statics(static) /\ Inputs(input) /\ lost \in BOOLEAN
  /\ TableKept(proc, static.in_spawn_table)
  /\ Shelled(proc, static.in_spawn_table, static.children, lost)
  /\ \A p \in DOMAIN proc : Knows(proc, p, static.children, lost)

(* There is always a PID that nobody has.                                  *)
PidsLeft == NewPids # {}

-----------------------------------------------------------------------------
(* The texts of the tests.                                                 *)

(* The instructions after which a test goes on, and those that end it.     *)
GoOn ==
  [op : {"turn", "waitall", "bogus"}]
    \cup [op : {"spawn"}, prog : TestProgs, keep : BOOLEAN]
    \cup [op : {"kill"}, child : Nat]
    \cup [op : {"waiteach", "killeach"}, bypid : BOOLEAN]
    \cup [op : {"fork"}, skip : {5}]
Ends ==
  [op : {"exitfailed"}] \cup [op : {"exit"}, status : Int] \cup [op : {"goto"}, pc : {1, 2}]

(* The text t is in order: nobody runs past its end.                       *)
Well(t) ==
  /\ Len(t) \in Nat \ {0}
  /\ \A i \in 1..Len(t) :
       /\ t[i] \in GoOn \/ t[i] \in Ends
       /\ t[i] \in Ends \/ i < Len(t)
       /\ t[i].op = "goto" => t[i].pc \in 1..Len(t)
       /\ t[i].op = "fork" => t[i].skip \in 1..Len(t)

LEMMA TimesIs ==
  ASSUME NEW X, NEW s \in Seq(X), NEW n \in Nat
  PROVE  Times(n, s) \in Seq(X) /\ Len(Times(n, s)) = n * Len(s)
<1> DEFINE m == Len(s)
           l == n * m
<1>1. m \in Nat /\ l \in Nat
  OBVIOUS
<1>2. ASSUME NEW i \in 1..l PROVE s[((i - 1) % m) + 1] \in X
  <2>1. m # 0
    OBVIOUS
  <2> HIDE DEF l
  <2>2. i - 1 \in Nat
    BY <1>1
  <2>3. (i - 1) % m \in 0..m-1
    BY <1>1, <2>1, <2>2, ModRange
  <2>4. ((i - 1) % m) + 1 \in 1..m
    BY <1>1, <2>3
  <2> QED
    BY <2>4
<1>3. Times(n, s) = [i \in 1..l |-> s[((i - 1) % m) + 1]]
  BY DEF Times
<1> HIDE DEF l
<1>4. Times(n, s) \in [1..l -> X]
  BY <1>2, <1>3
<1> QED
  BY <1>1, <1>4 DEF l

LEMMA EndsWith ==
  ASSUME NEW s \in Seq(GoOn), NEW e \in Ends,
         e.op = "goto" => e.pc <= Len(s) + 1,
         \A i \in 1..Len(s) : s[i].op = "fork" => Len(s) >= 4
  PROVE  /\ Well(s \o <<e>>) /\ Len(s \o <<e>>) = Len(s) + 1
         /\ \A i \in 1..Len(s) : (s \o <<e>>)[i] = s[i]
         /\ (s \o <<e>>)[Len(s) + 1] = e
<1> DEFINE t == s \o <<e>>
           n == Len(s)
<1>1. /\ Len(t) = n + 1 /\ n \in Nat
      /\ \A i \in 1..n : t[i] = s[i] /\ t[i] \in GoOn
      /\ t[n + 1] = e
  OBVIOUS
<1> HIDE DEF t, n
<1>2. ASSUME NEW i \in 1..n + 1
      PROVE  /\ t[i] \in GoOn \/ t[i] \in Ends
             /\ t[i] \in Ends \/ i < n + 1
             /\ t[i].op = "goto" => t[i].pc \in 1..n + 1
             /\ t[i].op = "fork" => t[i].skip \in 1..n + 1
  <2>1. CASE i = n + 1
    <3>1. e.op # "fork" /\ (e.op = "goto" => e.pc \in {1, 2})
      BY DEF Ends
    <3> QED
      BY <1>1, <2>1, <3>1 DEF n
  <2>2. CASE i # n + 1
    <3>1. i \in 1..n /\ t[i] = s[i] /\ t[i] \in GoOn
      BY <1>1, <2>2
    <3>2. t[i].op # "goto" /\ (t[i].op = "fork" => t[i].skip = 5)
      BY <3>1 DEF GoOn
    <3>3. t[i].op = "fork" => n >= 4
      BY <3>1 DEF n
    <3> QED
      BY <1>1, <3>1, <3>2, <3>3
  <2> QED
    BY <2>1, <2>2
<1> QED
  BY <1>1, <1>2 DEF Well, t, n

LEMMA SmallProgs ==
  ASSUME NEW x \in Nat
  PROVE  /\ Prog("progZ", x) \in TestProgs /\ Prog("progW", x) \in TestProgs
         /\ Prog("progX", x) \in TestProgs /\ Prog("progY", x) \in TestProgs
<1>1. "" \notin {"k", "w", "W"}
  OBVIOUS
<1>2. ASSUME NEW s \in {"progZ", "progW", "progX", "progY"}
      PROVE  Prog(s, x) \in TestProgs
  <2>1. Prog(s, x).mode = ""
    BY DEF Prog
  <2>2. Prog(s, x).mode \notin {"k", "w", "W"}
    BY <1>1, <2>1
  <2> QED
    BY <2>2 DEF Prog, TestProgs
<1> QED
  BY <1>2

LEMMA Single ==
  ASSUME NEW X, NEW r \in X
  PROVE  <<r>> \in Seq(X) /\ Len(<<r>>) = 1 /\ <<r>>[1] = r
OBVIOUS

LEMMA Pieces ==
  ASSUME NEW X, NEW prog
  PROVE  /\ [op |-> "turn"] \in X => /\ Turn \in Seq(X) /\ Len(Turn) = 1
                                     /\ Sleep \in Seq(X) /\ Len(Sleep) = 1
         /\ [op |-> "spawn", prog |-> prog, keep |-> FALSE] \in X =>
              Spawn(prog) \in Seq(X) /\ Len(Spawn(prog)) = 1
         /\ [op |-> "spawn", prog |-> prog, keep |-> TRUE] \in X =>
              SpawnChild(prog) \in Seq(X) /\ Len(SpawnChild(prog)) = 1
<1> DEFINE r == [op |-> "turn"]
           f == [op |-> "spawn", prog |-> prog, keep |-> FALSE]
           c == [op |-> "spawn", prog |-> prog, keep |-> TRUE]
<1>1. Turn = <<r>> /\ Sleep = <<r>> /\ Spawn(prog) = <<f>> /\ SpawnChild(prog) = <<c>>
  BY DEF Turn, Sleep, Spawn, SpawnChild
<1> HIDE DEF r, f, c
<1>2. /\ r \in X => /\ Turn \in Seq(X) /\ Len(Turn) = 1 /\ Sleep \in Seq(X) /\ Len(Sleep) = 1
      /\ f \in X => Spawn(prog) \in Seq(X) /\ Len(Spawn(prog)) = 1
      /\ c \in X => SpawnChild(prog) \in Seq(X) /\ Len(SpawnChild(prog)) = 1
  BY <1>1, Single
<1> QED
  BY <1>2 DEF r, f, c

LEMMA GoingOn ==
  /\ [op |-> "turn"] \in GoOn
  /\ \A prog \in TestProgs, b \in BOOLEAN :
       [op |-> "spawn", prog |-> prog, keep |-> b] \in GoOn
BY DEF GoOn

(* The text of progI and progTUV: nothing but turns and spawn(), then the  *)
(* wait loop (for progI also two kill()), and the end.                     *)
Waiter(t) ==
  LET n == Len(t) IN
  /\ n > 2 /\ t[n].op = "exit"
  /\ \A i \in 1..n-1 : t[i].op \notin {"fork", "goto", "exit"}

WaitsForAll(t) ==
  /\ Waiter(t)
  /\ t[Len(t) - 1].op = "waitall"

WaitsForEach(t, bypid) ==
  LET n == Len(t) IN
  /\ Waiter(t)
  /\ t[n - 1].op = "waiteach" /\ t[n - 1].bypid = bypid
  /\ \A i \in 1..n-2 : t[i].op \in {"turn", "spawn"} /\ (t[i].op = "spawn" => t[i].keep)

LEMMA TextOfProgI ==
  ASSUME NEW n \in Nat
  PROVE  Well(progI(n)) /\ WaitsForAll(progI(n))
<1> DEFINE NoFork == {g \in GoOn : g.op \notin {"fork"}}
           w == [op |-> "waitall"]
           k1 == [op |-> "kill", child |-> 2]
           k2 == [op |-> "kill", child |-> 4]
           e == [op |-> "exit", status |-> 0]
           a == Times(n, SpawnChild(Prog("progW", 0)) \o Turn)
           s == Turn \o a \o Sleep \o <<k1, k2, w>>
<1>1. w \in NoFork /\ k1 \in NoFork /\ k2 \in NoFork /\ e \in Ends /\ e.op = "exit"
      /\ w.op = "waitall"
  BY DEF GoOn, Ends
<1>2. Turn \in Seq(NoFork) /\ Sleep \in Seq(NoFork) /\ Len(Turn) = 1 /\ Len(Sleep) = 1
  <2>1. [op |-> "turn"] \in NoFork
    BY GoingOn
  <2> QED
    BY <2>1, Pieces
<1>3. SpawnChild(Prog("progW", 0)) \in Seq(NoFork)
  <2>1. [op |-> "spawn", prog |-> Prog("progW", 0), keep |-> TRUE] \in NoFork
    BY GoingOn, SmallProgs
  <2> QED
    BY <2>1, Pieces
<1>4. a \in Seq(NoFork)
  <2>1. SpawnChild(Prog("progW", 0)) \o Turn \in Seq(NoFork)
    BY <1>2, <1>3
  <2> QED
    BY <2>1, TimesIs
<1>5. progI(n) = s \o <<e>>
  BY DEF progI, exit
<1> HIDE DEF a, w, k1, k2, e, NoFork
<1>6. <<k1, k2, w>> \in Seq(NoFork) /\ Len(<<k1, k2, w>>) = 3 /\ <<k1, k2, w>>[3] = w
  BY <1>1
<1>7. s \in Seq(NoFork) /\ Len(s) > 2 /\ s[Len(s)] = w
  BY <1>2, <1>4, <1>6
<1> HIDE DEF s
<1>8. s \in Seq(GoOn) /\ \A i \in 1..Len(s) : s[i].op \notin {"fork", "goto", "exit"}
  <2>1. \A g \in NoFork : g \in GoOn /\ g.op \notin {"fork", "goto", "exit"}
    BY DEF NoFork, GoOn
  <2> QED
    BY <1>7, <2>1
<1>9. e.op # "goto"
  BY <1>1
<1> DEFINE t == s \o <<e>>
<1>10. /\ Well(t) /\ Len(t) = Len(s) + 1
       /\ \A i \in 1..Len(s) : t[i] = s[i]
       /\ t[Len(s) + 1] = e
  BY <1>1, <1>8, <1>9, EndsWith
<1> HIDE DEF t
<1>11. WaitsForAll(t)
  BY <1>1, <1>7, <1>8, <1>10 DEF WaitsForAll, Waiter
<1> QED
  BY <1>5, <1>10, <1>11 DEF t

LEMMA TextOfProgTUV ==
  ASSUME NEW n \in Nat, NEW mode
  PROVE  /\ Well(progTUV(n, mode))
         /\ mode # "k" => WaitsForEach(progTUV(n, mode), mode # "w")
<1> DEFINE Some == [op : {"turn"}] \cup [op : {"spawn"}, prog : TestProgs, keep : {TRUE}]
           w == [op |-> IF mode = "k" THEN "killeach" ELSE "waiteach", bypid |-> mode # "w"]
           e == [op |-> "exit", status |-> 0]
           a == Times(n, SpawnChild(Prog("progW", 1)))
           b == Turn \o a \o Sleep
           s == b \o <<w>>
<1>1. w \in GoOn /\ w.op \in {"waiteach", "killeach"} /\ w.bypid = (mode # "w")
      /\ (mode # "k" => w.op = "waiteach") /\ e \in Ends /\ e.op = "exit"
  BY DEF GoOn, Ends
<1>2. Turn \in Seq(Some) /\ Sleep \in Seq(Some) /\ Len(Turn) = 1 /\ Len(Sleep) = 1
  <2>1. [op |-> "turn"] \in Some
    OBVIOUS
  <2> QED
    BY <2>1, Pieces
<1>3. SpawnChild(Prog("progW", 1)) \in Seq(Some)
  <2>1. [op |-> "spawn", prog |-> Prog("progW", 1), keep |-> TRUE] \in Some
    BY SmallProgs
  <2> QED
    BY <2>1, Pieces
<1>4. a \in Seq(Some)
  BY <1>3, TimesIs
<1>5. progTUV(n, mode) = s \o <<e>>
  BY DEF progTUV, exit
<1> HIDE DEF a, w, e
<1> HIDE DEF Some
<1>6. b \in Seq(Some) /\ Len(b) >= 2
  <2>1. Turn \o a \in Seq(Some) /\ Len(Turn \o a) = 1 + Len(a) /\ Len(a) \in Nat
    <3>1. Len(a) \in Nat
      BY <1>4
    <3>2. Turn \o a \in Seq(Some) /\ Len(Turn \o a) = Len(Turn) + Len(a)
      BY <1>2, <1>4, ConcatProperties
    <3> QED
      BY <1>2, <3>1, <3>2
  <2>2. b \in Seq(Some) /\ Len(b) = Len(Turn \o a) + 1
    BY <1>2, <2>1, ConcatProperties
  <2> QED
    BY <2>1, <2>2
<1>7. \A g \in Some : g \in GoOn /\ g.op \in {"turn", "spawn"} /\ (g.op = "spawn" => g.keep)
  BY DEF Some, GoOn
<1> HIDE DEF b, Some
<1>8. b \in Seq(GoOn) /\ Len(b) \in Nat
  BY <1>6, <1>7
<1>9. /\ s \in Seq(GoOn) /\ Len(s) = Len(b) + 1 /\ s[Len(s)] = w
      /\ \A i \in 1..Len(b) : s[i] = b[i]
  BY <1>1, <1>8
<1>10. \A i \in 1..Len(b) : s[i].op \in {"turn", "spawn"} /\ (s[i].op = "spawn" => s[i].keep)
  BY <1>6, <1>7, <1>9
<1> HIDE DEF s
<1>11. \A i \in 1..Len(s) : s[i].op \notin {"fork", "goto", "exit"}
  BY <1>1, <1>8, <1>9, <1>10
<1>12. e.op # "goto"
  BY <1>1
<1> DEFINE t == s \o <<e>>
<1>13. /\ Well(t) /\ Len(t) = Len(s) + 1
       /\ \A i \in 1..Len(s) : t[i] = s[i]
       /\ t[Len(s) + 1] = e
  BY <1>1, <1>9, <1>11, <1>12, EndsWith
<1> HIDE DEF t
<1>14. Waiter(t)
  BY <1>1, <1>6, <1>8, <1>9, <1>11, <1>13 DEF Waiter
<1>15. mode # "k" => WaitsForEach(t, mode # "w")
  BY <1>1, <1>6, <1>8, <1>9, <1>10, <1>13, <1>14 DEF WaitsForEach
<1> QED
  BY <1>5, <1>13, <1>15 DEF t

LEMMA TextWell ==
  ASSUME NEW prog \in TestProgs \cup {Prog("idle", 0)}
  PROVE  Well(Text(prog))
<1> DEFINE n == prog.n
           X == [op : {"fork"}, skip : {5}]
           Plain == GoOn \ X
<1>1. n \in Nat
  <2>1. CASE prog \in TestProgs
    BY <2>1 DEF TestProgs
  <2>2. CASE prog = Prog("idle", 0)
    BY <2>2 DEF Prog
  <2> QED
    BY <2>1, <2>2
<1>2. Turn \in Seq(Plain) /\ Sleep \in Seq(Plain) /\ Len(Turn) = 1 /\ Len(Sleep) = 1
  <2>1. [op |-> "turn"] \in Plain
    BY GoingOn
  <2> QED
    BY <2>1, Pieces
<1>3. ASSUME NEW p \in TestProgs PROVE Spawn(p) \in Seq(Plain)
  <2>1. [op |-> "spawn", prog |-> p, keep |-> FALSE] \in Plain
    BY GoingOn
  <2> QED
    BY <2>1, Pieces
<1>4. ASSUME NEW s \in Seq(Plain), NEW e \in Ends, e.op = "goto" => e.pc <= Len(s) + 1
      PROVE  Well(s \o <<e>>)
  <2>1. \A g \in Plain : g \in GoOn /\ g.op # "fork"
    BY DEF GoOn
  <2> HIDE DEF Plain
  <2>2. s \in Seq(GoOn) /\ \A i \in 1..Len(s) : s[i].op # "fork"
    BY <2>1
  <2> QED
    BY <1>4, <2>2, EndsWith
<1>5. ASSUME NEW s \in Seq(Plain)
      PROVE  Well(s \o exit(0)) /\ Well(s \o exit(1)) /\ Well(s \o exit(12))
  <2>1. ASSUME NEW status \in Int PROVE Well(s \o exit(status))
    <3>1. [op |-> "exit", status |-> status] \in Ends
      BY DEF Ends
    <3> HIDE DEF Plain
    <3> QED
      BY <1>4, <3>1 DEF exit
  <2> QED
    BY <2>1
<1>6. ASSUME NEW s \in Seq(Plain), NEW pc \in {1, 2}, pc <= Len(s) + 1
      PROVE  Well(s \o Again(pc))
  <2> DEFINE e == [op |-> "goto", pc |-> pc]
  <2>1. e \in Ends /\ e.pc = pc
    BY DEF Ends
  <2>2. Again(pc) = <<e>>
    BY DEF Again
  <2> HIDE DEF Plain, e
  <2> QED
    BY <1>4, <1>6, <2>1, <2>2
<1>7. [op |-> "bogus"] \in Plain /\ [op |-> "exitfailed"] \in Ends
  BY DEF GoOn, Ends
<1> HIDE DEF Plain
<1>8. ASSUME NEW s \in Seq(Plain) PROVE Times(n, s) \in Seq(Plain)
  BY <1>1, TimesIs
<1>9. Turn \o Sleep \in Seq(Plain) /\ Sleep \o Turn \in Seq(Plain) /\ Turn \o Turn \in Seq(Plain)
  BY <1>2
<1>10. CASE prog.name = "progABC"
  <2>1. Text(prog) = Turn \o Times(n, Turn) \o exit(0)
    BY <1>10 DEF Text, progABC
  <2>2. Turn \o Times(n, Turn) \in Seq(Plain)
    BY <1>2, <1>8
  <2> QED
    BY <1>5, <2>1, <2>2
<1>11. CASE prog.name = "progDE"
  <2>1. Text(prog) = Turn \o Times(n, Turn) \o exit(0)
    BY <1>11 DEF Text, progDE, fake_exit
  <2>2. Turn \o Times(n, Turn) \in Seq(Plain)
    BY <1>2, <1>8
  <2> QED
    BY <1>5, <2>1, <2>2
<1>12. CASE prog.name = "progFG"
  <2>1. Text(prog) = Turn \o Turn \o Times(n, Sleep \o Turn) \o exit(0)
    BY <1>12 DEF Text, progFG
  <2>2. Turn \o Turn \o Times(n, Sleep \o Turn) \in Seq(Plain)
    <3>1. Times(n, Sleep \o Turn) \in Seq(Plain)
      BY <1>8, <1>9
    <3> QED
      BY <1>9, <3>1, ConcatProperties
  <2> QED
    BY <1>5, <2>1, <2>2
<1>13. CASE prog.name = "progH"
  <2> DEFINE s == Turn \o Times(n, Spawn(Prog("progZ", 1))) \o Sleep \o Turn
             e == [op |-> "exitfailed"]
  <2>1. Text(prog) = s \o <<e>>
    BY <1>13 DEF Text, progH
  <2>2. Times(n, Spawn(Prog("progZ", 1))) \in Seq(Plain)
    BY <1>3, <1>8, SmallProgs
  <2>3. s \in Seq(Plain)
    BY <1>2, <2>2
  <2>4. e \in Ends /\ e.op # "goto"
    BY <1>7
  <2> HIDE DEF s, e
  <2> QED
    BY <1>4, <2>1, <2>3, <2>4
<1>14. CASE prog.name = "progI"
  BY <1>1, <1>14, TextOfProgI DEF Text
<1>15. CASE prog.name = "progJ"
  <2>1. Text(prog) = Turn \o Times(n, Spawn(Prog("progY", 0)) \o Turn) \o exit(0)
    BY <1>15 DEF Text, progJ
  <2>2. Spawn(Prog("progY", 0)) \o Turn \in Seq(Plain)
    BY <1>2, <1>3, SmallProgs
  <2>3. Turn \o Times(n, Spawn(Prog("progY", 0)) \o Turn) \in Seq(Plain)
    <3>1. Times(n, Spawn(Prog("progY", 0)) \o Turn) \in Seq(Plain)
      BY <1>8, <2>2
    <3> QED
      BY <1>2, <3>1, ConcatProperties
  <2> QED
    BY <1>5, <2>1, <2>3
<1>16. CASE prog.name = "progKL"
  <2> DEFINE r == Turn \o Spawn(Prog("progX", 1)) \o Turn \o Sleep
  <2>1. Text(prog) = Turn \o Times(n, r) \o exit(0)
    BY <1>16 DEF Text, progKL
  <2>2. Spawn(Prog("progX", 1)) \in Seq(Plain)
    BY <1>3, SmallProgs
  <2>3. r \in Seq(Plain)
    BY <1>2, <2>2
  <2> HIDE DEF r
  <2>4. Turn \o Times(n, r) \in Seq(Plain)
    BY <1>2, <1>8, <2>3
  <2> QED
    BY <1>5, <2>1, <2>4
<1>17. CASE prog.name = "progMN"
  <2> DEFINE z == IF prog.mode = "t" THEN Spawn(Prog("progZ", 1)) ELSE <<>>
             r == Turn \o Spawn(Prog("progW", 0)) \o z
  <2>1. Text(prog) = Turn \o Times(n, r) \o exit(0)
    BY <1>17 DEF Text, progMN
  <2>2. Spawn(Prog("progW", 0)) \in Seq(Plain) /\ Spawn(Prog("progZ", 1)) \in Seq(Plain)
    BY <1>3, SmallProgs
  <2>3. z \in Seq(Plain)
    BY <2>2
  <2> HIDE DEF z
  <2>4. r \in Seq(Plain)
    BY <1>2, <2>2, <2>3
  <2> HIDE DEF r
  <2>5. Turn \o Times(n, r) \in Seq(Plain)
    BY <1>2, <1>8, <2>4
  <2> QED
    BY <1>5, <2>1, <2>5
<1>18. CASE prog.name \in {"progP", "progY", "progW"}
  <2>1. Times(n, Sleep \o Turn) \in Seq(Plain) /\ Times(n, Turn \o Sleep) \in Seq(Plain)
    BY <1>8, <1>9
  <2>2. /\ Turn \o Times(n, Sleep \o Turn) \in Seq(Plain)
        /\ Turn \o Times(n, Turn \o Sleep) \in Seq(Plain)
        /\ Turn \o Turn \o Times(n, Turn \o Sleep) \in Seq(Plain)
    BY <1>2, <1>9, <2>1
  <2>3. Text(prog) \in {Turn \o Times(n, Sleep \o Turn) \o exit(0),
                        Turn \o Times(n, Turn \o Sleep) \o exit(0),
                        Turn \o Turn \o Times(n, Turn \o Sleep) \o exit(0)}
    BY <1>18 DEF Text, progP, progY, progW
  <2> QED
    BY <1>5, <2>2, <2>3
<1>19. CASE prog.name \in {"progX", "progZ"}
  <2>1. Text(prog) \in {Turn \o Times(n, Turn) \o exit(0), Turn \o Times(n, Turn) \o exit(12)}
    BY <1>19 DEF Text, progX, progZ
  <2>2. Turn \o Times(n, Turn) \in Seq(Plain)
    BY <1>2, <1>8
  <2> QED
    BY <1>5, <2>1, <2>2
<1>20. CASE prog.name = "progQ"
  <2> DEFINE r == [op |-> "bogus"]
  <2>1. Text(prog) = Turn \o <<r>> \o Turn \o exit(1)
    BY <1>20 DEF Text, progQ
  <2>2. r \in Plain
    BY <1>7
  <2> HIDE DEF r
  <2>3. Turn \o <<r>> \o Turn \in Seq(Plain)
    BY <1>2, <2>2
  <2> QED
    BY <1>5, <2>1, <2>3
<1>21. CASE prog.name \in {"progS", "dmxTest", "idle"}
  <2>1. /\ Turn \o Sleep \o Turn \in Seq(Plain) /\ Len(Turn \o Sleep \o Turn) = 3
        /\ Len(Turn \o Sleep) = 2
    <3>1. Turn \o Sleep \in Seq(Plain) /\ Len(Turn \o Sleep) = 2
      BY <1>2, ConcatProperties
    <3>2. (Turn \o Sleep) \o Turn \in Seq(Plain) /\ Len((Turn \o Sleep) \o Turn) = 3
      BY <1>2, <3>1, ConcatProperties
    <3> QED
      BY <3>1, <3>2
  <2>2. Text(prog) \in {Turn \o Sleep \o Turn \o Again(2), Turn \o Sleep \o Again(2),
                        Turn \o Again(1)}
    BY <1>21 DEF Text, progS, dmxTest, idle
  <2>3. /\ Well(Turn \o Sleep \o Turn \o Again(2)) /\ Well(Turn \o Sleep \o Again(2))
        /\ Well(Turn \o Again(1))
    <3>1. \A s \in Seq(Plain) : Len(s) >= 1 => Well(s \o Again(1)) /\ Well(s \o Again(2))
      BY <1>6
    <3>2. Len(Turn) >= 1 /\ Len(Turn \o Sleep) >= 1 /\ Len(Turn \o Sleep \o Turn) >= 1
      BY <1>2, <2>1
    <3> QED
      BY <1>2, <1>9, <2>1, <3>1, <3>2, Zenon
  <2> QED
    BY <2>2, <2>3
<1>22. CASE prog.name = "progR"
  <2> DEFINE r == [op |-> "fork", skip |-> 5]
             s == Turn \o Sleep \o <<r>> \o Sleep \o Turn
             e == [op |-> "exit", status |-> 0]
  <2>1. Text(prog) = s \o <<e>>
    BY <1>22 DEF Text, progR, exit
  <2>2. r \in GoOn /\ e \in Ends /\ e.op # "goto"
    BY DEF GoOn, Ends
  <2>3. \A g \in Plain : g \in GoOn
    BY DEF Plain
  <2> HIDE DEF r, e
  <2>4. Turn \in Seq(GoOn) /\ Sleep \in Seq(GoOn)
    BY <1>2, <2>3
  <2>5. s \in Seq(GoOn) /\ Len(s) = 5
    <3>1. <<r>> \in Seq(GoOn) /\ Len(<<r>>) = 1
      BY <2>2, Single
    <3>2. Turn \o Sleep \in Seq(GoOn) /\ Len(Turn \o Sleep) = 2
      BY <1>2, <2>4, ConcatProperties
    <3>3. Turn \o Sleep \o <<r>> \in Seq(GoOn) /\ Len(Turn \o Sleep \o <<r>>) = 3
      BY <3>1, <3>2, ConcatProperties
    <3>4. /\ Turn \o Sleep \o <<r>> \o Sleep \in Seq(GoOn)
          /\ Len(Turn \o Sleep \o <<r>> \o Sleep) = 4
      BY <1>2, <2>4, <3>3, ConcatProperties
    <3> QED
      BY <1>2, <2>4, <3>4, ConcatProperties
  <2> HIDE DEF s
  <2> QED
    BY <2>1, <2>2, <2>5, EndsWith
<1>23. CASE prog.name = "progTUV"
  BY <1>1, <1>23, TextOfProgTUV DEF Text
<1>24. prog.name \in {"progABC", "progDE", "progFG", "progH", "progI", "progJ", "progKL",
                      "progMN", "progP", "progQ", "progR", "progS", "progTUV", "progW",
                      "progX", "progY", "progZ", "dmxTest", "idle"}
  <2>1. CASE prog \in TestProgs
    BY <2>1 DEF TestProgs
  <2>2. CASE prog = Prog("idle", 0)
    BY <2>2 DEF Prog
  <2> QED
    BY <2>1, <2>2
<1> QED
  BY <1>10, <1>11, <1>12, <1>13, <1>14, <1>15, <1>16, <1>17, <1>18, <1>19, <1>20, <1>21,
     <1>22, <1>23, <1>24

-----------------------------------------------------------------------------
(* The family: what a step does to the children of everybody.              *)

LEMMA ChildIs ==
  ASSUME NEW p \in Pids, NEW prog \in ProgSet
  PROVE  LET c == Child(p, prog) IN
         /\ c \in Process /\ c.parent = p /\ c.prog = prog /\ c.state = "exec"
         /\ c.pc = 1 /\ ~c.killed /\ c.n = 1 /\ c.children = <<>> /\ c.sh.pc = "loop"
<1>1. prog.n \in Nat
  <2>1. CASE prog \in TestProgs
    BY <2>1 DEF TestProgs
  <2>2. CASE prog \notin TestProgs
    <3>1. prog \in {Prog("idle", 0), Prog("shell", 0), Prog("init", 0)}
      BY <2>2 DEF ProgSet
    <3>2. \A name : Prog(name, 0).n = 0
      BY DEF Prog
    <3> QED
      BY <3>1, <3>2
  <2> QED
    BY <2>1, <2>2
<1> DEFINE sh == [pc |-> "loop", buf |-> <<>>, cmds |-> <<>>, todo |-> <<>>]
<1>2. sh \in ShLocals /\ sh.pc = "loop"
  BY DEF ShLocals
<1> HIDE DEF sh
<1>3. Child(p, prog) =
        [parent |-> p, prog |-> prog, state |-> "exec", pc |-> 1, killed |-> FALSE,
         status |-> 0, children |-> <<>>, n |-> 1, failed |-> 0, seq |-> prog.n, sh |-> sh]
  BY DEF Child, sh
<1> QED
  BY <1>1, <1>2, <1>3 DEF Process

(* Process p has made a step by itself, or has killed somebody.            *)
Moved(f, g, p) ==
  /\ DOMAIN g = DOMAIN f /\ g \in [DOMAIN f -> Process]
  /\ \A q \in DOMAIN f :
       /\ g[q].parent = f[q].parent /\ g[q].prog = f[q].prog
       /\ g[q].state = "zombie" <=> f[q].state = "zombie"
  /\ \A q \in DOMAIN f \ {p} :
       /\ g[q].pc = f[q].pc /\ g[q].n = f[q].n
       /\ g[q].children = f[q].children /\ g[q].sh = f[q].sh
  /\ g[INIT].state = f[INIT].state /\ g[INIT].killed = f[INIT].killed

(* Nothing that matters to process q has changed.                          *)
LeftAlone(f, g, q) ==
  /\ q \in DOMAIN f /\ q \in DOMAIN g
  /\ g[q].prog = f[q].prog
  /\ g[q].state = "zombie" <=> f[q].state = "zombie"
  /\ g[q].pc = f[q].pc /\ g[q].n = f[q].n
  /\ g[q].children = f[q].children /\ g[q].sh = f[q].sh
  /\ Kids(g, q) = Kids(f, q)

LEMMA StillKnows ==
  ASSUME NEW f, NEW g, NEW q, LeftAlone(f, g, q), NEW n, NEW l, Knows(f, q, n, l),
         NEW m, NEW k, f[q].prog.name = "shell" => m = n /\ k = l
  PROVE  Knows(g, q, m, k)
<1>1. Awaits(f[q], Kids(f, q)) => Awaits(g[q], Kids(g, q))
  BY DEF LeftAlone, Awaits
<1>2. Counts(f[q], Kids(f, q), n, l) => Counts(g[q], Kids(g, q), n, l)
  BY DEF LeftAlone, Counts
<1> QED
  BY <1>1, <1>2 DEF LeftAlone, Knows, KnowsOf

LEMMA FamilyMoves ==
  ASSUME NEW f, NEW g, NEW p \in DOMAIN f, Family(f), Moved(f, g, p),
         IsTest(g[p].prog) => g[p].pc \in 1..Len(Text(g[p].prog))
  PROVE  /\ Family(g)
         /\ \A q : Kids(g, q) = Kids(f, q)
         /\ \A q \in DOMAIN f \ {p} : LeftAlone(f, g, q)
<1>1. \A q : Kids(g, q) = Kids(f, q)
  BY DEF Moved, Kids
<1>2. \A q \in DOMAIN f \ {p} : LeftAlone(f, g, q)
  BY <1>1 DEF Moved, LeftAlone
<1>3. Family(g)
  <2>1. INIT \in DOMAIN f /\ f[INIT].prog = Prog("init", 0)
    BY DEF Family
  <2>2. \A q \in DOMAIN f : IsTest(g[q].prog) => g[q].pc \in 1..Len(Text(g[q].prog))
    BY DEF Moved, Family
  <2> QED
    BY <2>1, <2>2 DEF Family, Moved
<1> QED
  BY <1>1, <1>2, <1>3

(* Process p goes on as me, and has a new child pid.                       *)
Grows(f, g, p, pid, me, child) ==
  /\ p \in DOMAIN f /\ f[p].state # "zombie" /\ pid \in Pids \ DOMAIN f
  /\ DOMAIN g = DOMAIN f \cup {pid} /\ g \in [DOMAIN g -> Process]
  /\ g[pid] = child /\ g[p] = me /\ \A q \in DOMAIN f \ {p} : g[q] = f[q]
  /\ me.parent = f[p].parent /\ me.prog = f[p].prog /\ me.state = f[p].state
  /\ p = INIT => ~me.killed
  /\ IsTest(me.prog) => me.pc \in 1..Len(Text(me.prog))
  /\ child.parent = p /\ child.state # "zombie" /\ child.prog.name # "init"
  /\ IsTest(child.prog) => child.pc \in 1..Len(Text(child.prog))

LEMMA FamilyGrows ==
  ASSUME NEW f, NEW g, NEW p, NEW pid, NEW me, NEW child, Family(f),
         Grows(f, g, p, pid, me, child)
  PROVE  /\ Family(g) /\ DOMAIN g = DOMAIN f \cup {pid} /\ g[pid] = child /\ g[p] = me
         /\ pid # p /\ pid # INIT
         /\ Kids(g, p) = Kids(f, p) \cup {pid} /\ pid \notin Kids(f, p) /\ Kids(g, pid) = {}
         /\ \A q \in DOMAIN f \ {p} : LeftAlone(f, g, q)
<1>1. /\ DOMAIN g = DOMAIN f \cup {pid} /\ g[pid] = child /\ g[p] = me /\ pid # p
      /\ \A q \in DOMAIN f \ {p} : g[q] = f[q]
      /\ g \in [DOMAIN g -> Process]
  BY DEF Family, Grows
<1>0. /\ me.parent = f[p].parent /\ me.prog = f[p].prog /\ me.state = f[p].state
      /\ p = INIT => ~me.killed
      /\ IsTest(me.prog) => me.pc \in 1..Len(Text(me.prog))
      /\ child.parent = p /\ child.state # "zombie" /\ child.prog.name # "init"
      /\ IsTest(child.prog) => child.pc \in 1..Len(Text(child.prog))
      /\ p \in DOMAIN f /\ f[p].state # "zombie" /\ pid \in Pids \ DOMAIN f
  BY DEF Grows
<1> USE <1>0
<1>2. /\ INIT \in DOMAIN f /\ DOMAIN f \subseteq Pids /\ IsFiniteSet(DOMAIN f)
      /\ \A q \in DOMAIN f : f[q].parent \in DOMAIN f /\ f[f[q].parent].state # "zombie"
      /\ \A q \in DOMAIN f \ {INIT} : f[q].parent # q /\ f[q].prog.name # "init"
      /\ f[INIT].parent = INIT
  BY DEF Family
<1>3. pid # INIT
  BY <1>2
<1>4. g[pid].parent = p /\ \A q \in DOMAIN f : g[q].parent = f[q].parent
  BY <1>1
<1>5. Kids(g, p) = Kids(f, p) \cup {pid} /\ pid \notin Kids(f, p)
  BY <1>1, <1>4 DEF Kids
<1>6. Kids(g, pid) = {}
  <2>1. ASSUME NEW r \in Kids(g, pid) PROVE FALSE
    <3>1. r \in DOMAIN f /\ f[r].parent = pid
      BY <1>1, <1>4, <2>1 DEF Kids
    <3> QED
      BY <1>2, <3>1
  <2> QED
    BY <2>1
<1>7. ASSUME NEW q \in DOMAIN f \ {p} PROVE Kids(g, q) = Kids(f, q)
  <2>1. ASSUME NEW r PROVE r \in Kids(g, q) <=> r \in Kids(f, q)
    BY <1>1, <1>4 DEF Kids
  <2> QED
    BY <2>1
<1>8. \A q \in DOMAIN f \ {p} : LeftAlone(f, g, q)
  BY <1>1, <1>7 DEF LeftAlone
<1>9. Family(g)
  <2>1. DOMAIN g \subseteq Pids /\ IsFiniteSet(DOMAIN g) /\ INIT \in DOMAIN g
    BY <1>1, <1>2, FS_AddElement
  <2>2. \A q \in DOMAIN f : g[q].prog = f[q].prog /\ g[q].state = f[q].state
    BY <1>1
  <2>3. \A q \in DOMAIN g \ {INIT} :
          /\ g[q].prog.name # "init" /\ g[q].parent # q
          /\ g[q].parent \in DOMAIN g /\ g[g[q].parent].state # "zombie"
    <3>1. ASSUME NEW q \in DOMAIN f \ {INIT}
          PROVE  /\ g[q].prog.name # "init" /\ g[q].parent # q
                 /\ g[q].parent \in DOMAIN g /\ g[g[q].parent].state # "zombie"
      <4> DEFINE r == f[q].parent
      <4>1. r \in DOMAIN f /\ f[r].state # "zombie" /\ g[q].parent = r /\ r # q
        BY <1>2, <1>4
      <4>2. g[r].state = f[r].state /\ g[q].prog = f[q].prog /\ r \in DOMAIN g
        BY <1>1, <2>2, <4>1
      <4> HIDE DEF r
      <4> QED
        BY <1>2, <4>1, <4>2
    <3>2. /\ g[pid].prog.name # "init" /\ g[pid].parent # pid
          /\ g[pid].parent \in DOMAIN g /\ g[g[pid].parent].state # "zombie"
      BY <1>1, <2>2
    <3> QED
      BY <1>1, <3>1, <3>2
  <2>4. \A q \in DOMAIN g : IsTest(g[q].prog) => g[q].pc \in 1..Len(Text(g[q].prog))
    BY <1>1 DEF Family
  <2>5. /\ g[INIT].prog = Prog("init", 0) /\ g[INIT].state = "run"
        /\ ~g[INIT].killed /\ g[INIT].parent = INIT
    BY <1>1, <1>2, <1>4, <2>2 DEF Family
  <2> QED
    BY <1>1, <2>1, <2>3, <2>4, <2>5 DEF Family
<1> QED
  BY <1>1, <1>3, <1>5, <1>6, <1>8, <1>9

(* Process p goes on as me, and has collected its child q.                 *)
Shrinks(f, g, p, q, me) ==
  /\ p \in DOMAIN f /\ f[p].state # "zombie" /\ q \in Kids(f, p) /\ f[q].state = "zombie"
  /\ DOMAIN g = DOMAIN f \ {q} /\ g \in [DOMAIN g -> Process]
  /\ \A r \in DOMAIN f \ {q} : g[r] = IF r = p THEN me ELSE f[r]
  /\ me.parent = f[p].parent /\ me.prog = f[p].prog /\ me.state = f[p].state
  /\ p = INIT => ~me.killed
  /\ IsTest(me.prog) => me.pc \in 1..Len(Text(me.prog))

LEMMA FamilyShrinks ==
  ASSUME NEW f, NEW g, NEW p, NEW q, NEW me, Family(f), Shrinks(f, g, p, q, me)
  PROVE  /\ Family(g) /\ DOMAIN g = DOMAIN f \ {q} /\ g[p] = me /\ q # p /\ q # INIT
         /\ p \in DOMAIN g
         /\ Kids(g, p) = Kids(f, p) \ {q}
         /\ \A r \in DOMAIN f \ {p, q} : LeftAlone(f, g, r)
<1>0. /\ p \in DOMAIN f /\ f[p].state # "zombie" /\ q \in Kids(f, p) /\ f[q].state = "zombie"
      /\ DOMAIN g = DOMAIN f \ {q} /\ g \in [DOMAIN g -> Process]
      /\ \A r \in DOMAIN f \ {q} : g[r] = IF r = p THEN me ELSE f[r]
      /\ me.parent = f[p].parent /\ me.prog = f[p].prog /\ me.state = f[p].state
      /\ p = INIT => ~me.killed
      /\ IsTest(me.prog) => me.pc \in 1..Len(Text(me.prog))
  BY DEF Shrinks
<1> USE <1>0
<1>1. q \in DOMAIN f /\ q # p /\ f[q].parent = p
  BY DEF Kids
<1>2. /\ INIT \in DOMAIN f /\ DOMAIN f \subseteq Pids /\ IsFiniteSet(DOMAIN f)
      /\ \A r \in DOMAIN f : f[r].parent \in DOMAIN f /\ f[f[r].parent].state # "zombie"
      /\ f[INIT].state = "run" /\ f \in [DOMAIN f -> Process]
  BY DEF Family
<1>3. q # INIT /\ \A r \in DOMAIN f : f[r].parent # q
  BY <1>2
<1>4. /\ DOMAIN g = DOMAIN f \ {q} /\ g[p] = me /\ p \in DOMAIN g
      /\ \A r \in DOMAIN f \ {p, q} : g[r] = f[r]
  BY <1>1
<1>5. g \in [DOMAIN g -> Process]
  BY <1>2, <1>4
<1>6. \A r \in DOMAIN g : /\ g[r].parent = f[r].parent /\ g[r].prog = f[r].prog
                          /\ g[r].state = f[r].state
  BY <1>4
<1>7. Kids(g, p) = Kids(f, p) \ {q}
  BY <1>4, <1>6 DEF Kids
<1>8. \A r \in DOMAIN f \ {p, q} : Kids(g, r) = Kids(f, r)
  BY <1>1, <1>4, <1>6 DEF Kids
<1>9. \A r \in DOMAIN f \ {p, q} : LeftAlone(f, g, r)
  BY <1>4, <1>8 DEF LeftAlone
<1>10. Family(g)
  <2>1. DOMAIN g \subseteq Pids /\ IsFiniteSet(DOMAIN g) /\ INIT \in DOMAIN g
    BY <1>2, <1>3, <1>4, FS_RemoveElement
  <2>2. \A r \in DOMAIN g \ {INIT} :
          /\ g[r].prog.name # "init" /\ g[r].parent # r
          /\ g[r].parent \in DOMAIN g /\ g[g[r].parent].state # "zombie"
    BY <1>2, <1>3, <1>4, <1>6 DEF Family
  <2>3. \A r \in DOMAIN g : IsTest(g[r].prog) => g[r].pc \in 1..Len(Text(g[r].prog))
    BY <1>4 DEF Family
  <2>4. /\ g[INIT].prog = Prog("init", 0) /\ g[INIT].state = "run"
        /\ ~g[INIT].killed /\ g[INIT].parent = INIT
    BY <1>3, <1>4, <1>6 DEF Family
  <2> QED
    BY <1>5, <2>1, <2>2, <2>3, <2>4 DEF Family
<1> QED
  BY <1>1, <1>3, <1>4, <1>7, <1>9, <1>10

LEMMA ProgName ==
  \A name, n : Prog(name, n).name = name
BY DEF Prog

LEMMA TestText ==
  ASSUME NEW prog \in ProgSet, IsTest(prog)
  PROVE  /\ prog \in TestProgs \cup {Prog("idle", 0)}
         /\ Well(Text(prog)) /\ Len(Text(prog)) \in Nat \ {0} /\ 1 \in 1..Len(Text(prog))
<1>1. prog \in TestProgs \cup {Prog("idle", 0)}
  <2>1. Prog("init", 0).name = "init" /\ Prog("shell", 0).name = "shell"
    BY DEF Prog
  <2> QED
    BY <2>1 DEF ProgSet, IsTest
<1>2. Well(Text(prog))
  BY <1>1, TextWell
<1> QED
  BY <1>1, <1>2 DEF Well

(* Process p has ended; q is another.                                      *)
Buried(f, p, status) ==
  [Child(f[p].parent, f[p].prog) EXCEPT !.state = "zombie", !.status = status]
Bereft(f, p, q) ==
  IF f[q].parent = p THEN [f[q] EXCEPT !.parent = INIT] ELSE f[q]

LEMMA FamilyEnds ==
  ASSUME NEW f, NEW g, NEW p \in DOMAIN f, Family(f), p # INIT, NEW status \in Int,
         g = [q \in DOMAIN f |-> g[q]],
         g[p] = Buried(f, p, status),
         \A q \in DOMAIN f \ {p} : g[q] = Bereft(f, p, q)
  PROVE  /\ Family(g) /\ DOMAIN g = DOMAIN f /\ g[p].state = "zombie" /\ g[INIT] = f[INIT]
         /\ Kids(f, INIT) \subseteq Kids(g, INIT)
         /\ \A q \in DOMAIN f : g[q].prog = f[q].prog
         /\ \A q \in DOMAIN f \ {p, INIT} : LeftAlone(f, g, q)
<1>1. /\ INIT \in DOMAIN f /\ DOMAIN f \subseteq Pids /\ IsFiniteSet(DOMAIN f)
      /\ \A q \in DOMAIN f : /\ f[q] \in Process /\ f[q].parent \in DOMAIN f
                             /\ f[f[q].parent].state # "zombie"
      /\ \A q \in DOMAIN f \ {INIT} : f[q].parent # q /\ f[q].prog.name # "init"
      /\ f[INIT].prog = Prog("init", 0) /\ f[INIT].state = "run"
      /\ ~f[INIT].killed /\ f[INIT].parent = INIT
      /\ \A q \in DOMAIN f : IsTest(f[q].prog) => f[q].pc \in 1..Len(Text(f[q].prog))
  BY DEF Family
<1> DEFINE c == Child(f[p].parent, f[p].prog)
<1>2. f[p].parent \in Pids /\ f[p].prog \in ProgSet
  BY <1>1 DEF Process
<1>3. c \in Process /\ c.parent = f[p].parent /\ c.prog = f[p].prog /\ c.pc = 1
  BY <1>2, ChildIs
<1> HIDE DEF c
<1>4. g[p] = [c EXCEPT !.state = "zombie", !.status = status]
  BY DEF c, Buried
<1>5. /\ g[p] \in Process /\ g[p].parent = f[p].parent /\ g[p].prog = f[p].prog
      /\ g[p].pc = 1 /\ g[p].state = "zombie"
  BY <1>3, <1>4 DEF Process
<1>6. ASSUME NEW q \in DOMAIN f \ {p}
      PROVE  /\ g[q] = IF f[q].parent = p THEN [f[q] EXCEPT !.parent = INIT] ELSE f[q]
             /\ g[q] \in Process
             /\ g[q].parent = IF f[q].parent = p THEN INIT ELSE f[q].parent
             /\ g[q].prog = f[q].prog /\ g[q].state = f[q].state /\ g[q].pc = f[q].pc
             /\ g[q].n = f[q].n /\ g[q].children = f[q].children /\ g[q].sh = f[q].sh
  <2>1. g[q] = IF f[q].parent = p THEN [f[q] EXCEPT !.parent = INIT] ELSE f[q]
    BY DEF Bereft
  <2>2. f[q] \in Process /\ INIT \in Pids
    BY <1>1
  <2> QED
    BY <2>1, <2>2 DEF Process
<1>7. DOMAIN g = DOMAIN f /\ g \in [DOMAIN f -> Process]
  BY <1>5, <1>6
<1>8. g[INIT] = f[INIT]
  BY <1>1, <1>6
<1>9. Kids(f, INIT) \subseteq Kids(g, INIT)
  BY <1>5, <1>6, <1>7 DEF Kids
<1>10. ASSUME NEW q \in DOMAIN f \ {p, INIT} PROVE LeftAlone(f, g, q)
  <2>1. ASSUME NEW r \in DOMAIN f PROVE g[r].parent = q <=> f[r].parent = q
    BY <1>5, <1>6
  <2>2. Kids(g, q) = Kids(f, q)
    BY <1>7, <2>1 DEF Kids
  <2> QED
    BY <1>6, <1>7, <2>2 DEF LeftAlone
<1>11. ASSUME NEW q \in DOMAIN f \ {INIT}
       PROVE  /\ g[q].prog.name # "init" /\ g[q].parent # q
              /\ g[q].parent \in DOMAIN f /\ g[g[q].parent].state # "zombie"
  <2> DEFINE r == g[q].parent
  <2>1. r \in {INIT, f[q].parent} /\ r # p /\ r # q /\ r \in DOMAIN f
    <3>1. CASE q = p
      BY <1>1, <1>5, <3>1
    <3>2. CASE q # p
      BY <1>1, <1>6, <3>2
    <3> QED
      BY <3>1, <3>2
  <2>2. f[r].state # "zombie"
    BY <1>1, <2>1
  <2>3. g[r].state = f[r].state
    BY <1>6, <2>1
  <2> HIDE DEF r
  <2>4. g[q].prog = f[q].prog
    BY <1>5, <1>6
  <2> QED
    BY <1>1, <2>1, <2>2, <2>3, <2>4 DEF r
<1>12. ASSUME NEW q \in DOMAIN f, IsTest(g[q].prog)
       PROVE  g[q].pc \in 1..Len(Text(g[q].prog))
  <2>1. CASE q = p
    <3>1. 1 \in 1..Len(Text(f[p].prog))
      BY <1>2, <1>5, <1>12, <2>1, TestText
    <3> QED
      BY <1>5, <2>1, <3>1
  <2>2. CASE q # p
    BY <1>1, <1>6, <1>12, <2>2
  <2> QED
    BY <2>1, <2>2
<1>13. Family(g)
  BY <1>1, <1>7, <1>8, <1>11, <1>12 DEF Family
<1> QED
  BY <1>5, <1>6, <1>7, <1>8, <1>9, <1>10, <1>13

-----------------------------------------------------------------------------
(* What of the invariant lasts through a step of a process but init.       *)

LEMMA TableLasts ==
  ASSUME NEW f, NEW g, NEW tab, TableKept(f, tab), g[INIT].pc = f[INIT].pc,
         \A q \in Kids(f, INIT) :
           (\A i \in 1..2 : tab[i].pid # q) \/ (q \in Kids(g, INIT) /\ g[q].prog = f[q].prog)
  PROVE  TableKept(g, tab)
BY DEF TableKept

LEMMA MoveKeeps ==
  ASSUME UInv, NEW p \in DOMAIN proc, p # INIT, Moved(proc, proc', p),
         IsTest(proc[p].prog) => proc'[p].pc \in 1..Len(Text(proc[p].prog)),
         KnowsOf(proc'[p], Kids(proc, p), static.children, lost),
         Statics(static'), static'.in_spawn_table = static.in_spawn_table,
         static'.children = static.children, Inputs(input'), lost' = lost
  PROVE  UInv'
<1>1. /\ Family(proc') /\ \A q : Kids(proc', q) = Kids(proc, q)
      /\ \A q \in DOMAIN proc \ {p} : LeftAlone(proc, proc', q)
  BY FamilyMoves DEF UInv, Moved
<1>2. ASSUME NEW q \in DOMAIN proc' PROVE Knows(proc', q, static'.children, lost')
  <2>1. CASE q = p
    BY <1>1, <2>1 DEF Knows
  <2>2. CASE q # p
    BY <1>1, <2>2, StillKnows DEF UInv, Moved
  <2> QED
    BY <2>1, <2>2
<1>3. TableKept(proc', static'.in_spawn_table)
  <2>1. proc'[INIT].pc = proc[INIT].pc
    BY DEF UInv, Family, Moved
  <2>2. \A q \in Kids(proc, INIT) : q \in Kids(proc', INIT) /\ proc'[q].prog = proc[q].prog
    BY <1>1 DEF Moved, Kids
  <2> QED
    BY <2>1, <2>2, TableLasts DEF UInv
<1>4. Shelled(proc', static'.in_spawn_table, static'.children, lost')
  BY DEF UInv, Moved, Shelled
<1> QED
  BY <1>1, <1>2, <1>3, <1>4 DEF UInv

LEMMA EndKeeps ==
  ASSUME UInv, NEW p \in DOMAIN proc, p # INIT, NEW status \in Int,
         proc' = Ended(p, status), static' = static, input' = input,
         lost' \in BOOLEAN, lost => lost',
         proc[p].prog.name # "shell" => lost' = lost,
         proc[p].prog.name = "shell" => lost' \/ static.children = 0
  PROVE  UInv'
<1>1. /\ Family(proc') /\ DOMAIN proc' = DOMAIN proc /\ proc'[p].state = "zombie"
      /\ proc'[INIT] = proc[INIT]
      /\ Kids(proc, INIT) \subseteq Kids(proc', INIT)
      /\ \A q \in DOMAIN proc : proc'[q].prog = proc[q].prog
      /\ \A q \in DOMAIN proc \ {p, INIT} : LeftAlone(proc, proc', q)
  <2>1. proc' = [q \in DOMAIN proc |-> proc'[q]]
    BY DEF Ended
  <2>2. proc'[p] = Buried(proc, p, status)
    BY DEF Ended, Buried
  <2>3. \A q \in DOMAIN proc \ {p} : proc'[q] = Bereft(proc, p, q)
    BY DEF Ended, Bereft
  <2>4. Family(proc)
    BY DEF UInv
  <2> QED
    BY <2>1, <2>2, <2>3, <2>4, FamilyEnds
<1>2. ASSUME NEW q \in DOMAIN proc' PROVE Knows(proc', q, static'.children, lost')
  <2>1. CASE q = p
    BY <1>1, <2>1 DEF Knows, KnowsOf
  <2>2. CASE q = INIT
    <3>1. proc[INIT].prog.name = "init"
      BY ProgName DEF UInv, Family
    <3>2. proc'[q].prog.name = "init"
      BY <1>1, <2>2, <3>1
    <3> QED
      BY <3>2 DEF Knows, KnowsOf, IsTest
  <2>3. CASE q \notin {p, INIT} /\ proc[q].prog.name # "shell"
    BY <1>1, <2>3, StillKnows DEF UInv
  <2>4. CASE q \notin {p, INIT} /\ proc[q].prog.name = "shell"
    <3>1. LeftAlone(proc, proc', q) /\ Knows(proc, q, static.children, lost)
      BY <1>1, <2>4 DEF UInv
    <3>2. proc[p].prog.name # "shell"
      BY <1>1, <2>4 DEF UInv, Shelled
    <3> QED
      BY <3>1, <3>2, StillKnows
  <2> QED
    BY <2>1, <2>2, <2>3, <2>4
<1>3. TableKept(proc', static'.in_spawn_table)
  <2>1. \A q \in Kids(proc, INIT) : q \in Kids(proc', INIT) /\ proc'[q].prog = proc[q].prog
    BY <1>1 DEF Kids
  <2> QED
    BY <1>1, <2>1, TableLasts DEF UInv
<1>4. Shelled(proc', static'.in_spawn_table, static'.children, lost')
  <2> DEFINE s == static.in_spawn_table[2].pid
  <2>1. \A q \in DOMAIN proc' : proc'[q].prog.name = "shell" => q = s
    BY <1>1 DEF UInv, Shelled
  <2>2. ASSUME ~lost', static.children # 0
        PROVE  s \in DOMAIN proc' /\ proc'[s].state # "zombie"
    <3>1. s \in DOMAIN proc /\ proc[s].state # "zombie"
      BY <2>2 DEF UInv, Shelled
    <3>2. s \in Kids(proc, INIT) /\ proc[s].prog.name = "shell"
      <4>1. s \in Pids /\ s # 0
        BY <3>1, UserlandAssumption DEF UInv, Family
      <4>2. /\ static.in_spawn_table[2].pid \in Kids(proc, INIT)
            /\ proc[s].prog = Prog("shell", 0)
        BY <4>1 DEF UInv, TableKept
      <4> QED
        BY <4>2, ProgName
    <3>3. s # p /\ s # INIT
      BY <2>2, <3>2 DEF Kids
    <3> QED
      BY <1>1, <3>1, <3>3 DEF LeftAlone
  <2> QED
    BY <2>1, <2>2 DEF Shelled
<1> QED
  BY <1>1, <1>2, <1>3, <1>4 DEF UInv

LEMMA NewPidIs ==
  ASSUME UInv, PidsLeft
  PROVE  NewPid \in Pids \ DOMAIN proc
<1>1. NewPids \subseteq Nat /\ NewPids # {} /\ NewPids \subseteq Pids \ DOMAIN proc
  BY UserlandAssumption DEF NewPids, PidsLeft
<1>2. \E p \in NewPids : \A q \in NewPids : p <= q
  BY <1>1, LeastNat
<1>3. NewPid \in NewPids
  BY <1>2, Zenon DEF NewPid
<1> QED
  BY <1>1, <1>3

(* A child begins without children.                                        *)
LEMMA NewbornKnows ==
  ASSUME NEW f, NEW q, IsTest(f[q].prog), f[q].pc = 1, f[q].n = 1,
         f[q].children = <<>>, Kids(f, q) = {}, NEW n, NEW l
  PROVE  Knows(f, q, n, l)
<1>1. f[q].prog.name \notin {"init", "shell"}
  BY DEF IsTest
<1>2. Len(f[q].children) = 0 /\ Cardinality(Kids(f, q)) = 0
  BY FS_EmptySet
<1>3. {f[q].children[i] : i \in f[q].n..Len(f[q].children)} = {}
  BY <1>2
<1>4. Awaits(f[q], Kids(f, q))
  BY <1>2, <1>3 DEF Awaits
<1> QED
  BY <1>1, <1>4 DEF Knows, KnowsOf

LEMMA ProcGrows ==
  ASSUME Family(proc), NEW p, NEW pid, NEW me, NEW child,
         Grows(proc, proc', p, pid, me, child)
  PROVE  /\ Family(proc') /\ DOMAIN proc' = DOMAIN proc \cup {pid} /\ proc'[pid] = child
         /\ proc'[p] = me /\ pid # p /\ pid # INIT
         /\ Kids(proc', p) = Kids(proc, p) \cup {pid} /\ pid \notin Kids(proc, p)
         /\ Kids(proc', pid) = {}
         /\ \A q \in DOMAIN proc \ {p} : LeftAlone(proc, proc', q)
<1>1. Family(proc')
  BY FamilyGrows
<1>2. DOMAIN proc' = DOMAIN proc \cup {pid}
  BY ZenonT(60), FamilyGrows
<1>3. proc'[pid] = child /\ proc'[p] = me
  BY DEF Grows
<1>4. pid # p /\ pid # INIT
  BY FamilyGrows
<1>5. Kids(proc', p) = Kids(proc, p) \cup {pid} /\ pid \notin Kids(proc, p)
  BY FamilyGrows
<1>6. Kids(proc', pid) = {}
  BY FamilyGrows
<1>7. \A q \in DOMAIN proc \ {p} : LeftAlone(proc, proc', q)
  BY FamilyGrows
<1> QED
  BY <1>1, <1>2, <1>3, <1>4, <1>5, <1>6, <1>7

LEMMA BirthKeeps ==
  ASSUME UInv, NEW p, p # INIT, NEW pid, NEW me, NEW child,
         Grows(proc, proc', p, pid, me, child), IsTest(child.prog),
         child.pc = 1, child.n = 1, child.children = <<>>,
         Statics(static'), static'.in_spawn_table = static.in_spawn_table,
         proc[p].prog.name # "shell" => static'.children = static.children,
         input' = input, lost' = lost,
         pid \notin Kids(proc, p)
           => KnowsOf(me, Kids(proc, p) \cup {pid}, static'.children, lost)
  PROVE  UInv'
<1>1. child.prog.name \notin {"init", "shell"}
  BY DEF IsTest
<1>3. Family(proc)
  BY DEF UInv
<1>2. Grows(proc, proc', p, pid, me, child)
  OBVIOUS
<1>0. /\ proc'[pid] = child /\ proc'[p] = me /\ me.prog = proc[p].prog
      /\ me.state = proc[p].state /\ p \in DOMAIN proc /\ proc[p].state # "zombie"
  BY DEF Grows
<1>4. /\ Family(proc') /\ DOMAIN proc' = DOMAIN proc \cup {pid} /\ proc'[pid] = child
      /\ proc'[p] = me /\ pid # p /\ pid # INIT
      /\ Kids(proc', p) = Kids(proc, p) \cup {pid} /\ pid \notin Kids(proc, p)
      /\ Kids(proc', pid) = {}
      /\ \A q \in DOMAIN proc \ {p} : LeftAlone(proc, proc', q)
  <2>1. /\ Family(proc') /\ DOMAIN proc' = DOMAIN proc \cup {pid}
        /\ pid # p /\ pid # INIT
        /\ Kids(proc', p) = Kids(proc, p) \cup {pid} /\ pid \notin Kids(proc, p)
        /\ Kids(proc', pid) = {}
        /\ \A q \in DOMAIN proc \ {p} : LeftAlone(proc, proc', q)
    BY <1>2, <1>3, ProcGrows
  <2> QED
    BY <1>0, <2>1
<1>8. ASSUME NEW q \in DOMAIN proc
      PROVE  proc'[q].prog = proc[q].prog /\ (proc'[q].state = "zombie" <=> proc[q].state = "zombie")
  <2>1. CASE q = p
    BY <1>0, <2>1
  <2>2. CASE q # p
    BY <1>4, <2>2 DEF LeftAlone
  <2> QED
    BY <2>1, <2>2
<1>5. ASSUME NEW q \in DOMAIN proc' PROVE Knows(proc', q, static'.children, lost')
  <2>1. CASE q = p
    BY <1>4, <2>1 DEF Knows
  <2>2. CASE q = pid
    BY <1>4, <2>2, NewbornKnows
  <2>3. CASE q \notin {p, pid}
    <3>1. LeftAlone(proc, proc', q) /\ Knows(proc, q, static.children, lost)
      BY <1>4, <2>3 DEF UInv
    <3>2. proc[q].prog.name = "shell" => proc[p].prog.name # "shell"
      BY <1>0, <1>4, <2>3 DEF UInv, Shelled
    <3> QED
      BY <3>1, <3>2, StillKnows
  <2> QED
    BY <2>1, <2>2, <2>3
<1>6. TableKept(proc', static'.in_spawn_table)
  <2>1. LeftAlone(proc, proc', INIT)
    BY <1>3, <1>4 DEF Family
  <2>3. \A q \in Kids(proc, INIT) : q \in Kids(proc', INIT) /\ proc'[q].prog = proc[q].prog
    BY <1>8, <2>1 DEF Kids, LeftAlone
  <2>4. proc'[INIT].pc = proc[INIT].pc
    BY <2>1 DEF LeftAlone
  <2>5. TableKept(proc, static.in_spawn_table)
    BY DEF UInv
  <2>6. TableKept(proc', static.in_spawn_table)
    BY <2>3, <2>4, <2>5, TableLasts
  <2> QED
    BY <2>6
<1>7. Shelled(proc', static'.in_spawn_table, static'.children, lost')
  <2> DEFINE s == static.in_spawn_table[2].pid
  <2>2. ASSUME NEW q \in DOMAIN proc', proc'[q].prog.name = "shell" PROVE q = s
    <3>1. q \in DOMAIN proc
      BY <1>1, <1>4, <2>2
    <3>2. proc[q].prog.name = "shell"
      BY <1>8, <2>2, <3>1
    <3> QED
      BY <3>1, <3>2 DEF UInv, Shelled
  <2>3. ASSUME ~lost', static'.children # 0
        PROVE  s \in DOMAIN proc' /\ proc'[s].state # "zombie"
    <3>1. s \in DOMAIN proc /\ proc[s].state # "zombie"
      <4>1. CASE proc[p].prog.name = "shell"
        BY <1>0, <4>1 DEF UInv, Shelled
      <4>2. CASE proc[p].prog.name # "shell"
        BY <2>3, <4>2 DEF UInv, Shelled
      <4> QED
        BY <4>1, <4>2
    <3> QED
      BY <1>4, <1>8, <3>1
  <2> QED
    BY <2>2, <2>3 DEF Shelled
<1> QED
  BY <1>4, <1>5, <1>6, <1>7 DEF UInv

LEMMA ProcShrinks ==
  ASSUME Family(proc), NEW p, NEW q, NEW me, Shrinks(proc, proc', p, q, me)
  PROVE  /\ Family(proc') /\ DOMAIN proc' = DOMAIN proc \ {q} /\ proc'[p] = me
         /\ q # p /\ q # INIT /\ p \in DOMAIN proc'
         /\ Kids(proc', p) = Kids(proc, p) \ {q}
         /\ \A r \in DOMAIN proc \ {p, q} : LeftAlone(proc, proc', r)
<1>1. Family(proc')
  BY FamilyShrinks
<1>2. DOMAIN proc' = DOMAIN proc \ {q}
  BY FamilyShrinks
<1>3. q # p /\ q # INIT /\ p \in DOMAIN proc'
  BY FamilyShrinks
<1>4. proc'[p] = me
  BY <1>3 DEF Shrinks
<1>5. Kids(proc', p) = Kids(proc, p) \ {q}
  BY FamilyShrinks
<1>6. \A r \in DOMAIN proc \ {p, q} : LeftAlone(proc, proc', r)
  BY FamilyShrinks
<1> QED
  BY <1>1, <1>2, <1>3, <1>4, <1>5, <1>6

LEMMA CollectKeeps ==
  ASSUME UInv, NEW p, p # INIT, NEW q, NEW me, Shrinks(proc, proc', p, q, me),
         Statics(static'), static'.in_spawn_table = static.in_spawn_table,
         proc[p].prog.name # "shell" => static'.children = static.children,
         input' = input, lost' = lost,
         KnowsOf(me, Kids(proc, p) \ {q}, static'.children, lost)
  PROVE  UInv'
<1>1. Family(proc)
  BY DEF UInv
<1>2. q \in Kids(proc, p) /\ proc[q].state = "zombie" /\ p \in DOMAIN proc
      /\ proc[p].state # "zombie" /\ me.prog = proc[p].prog /\ me.state = proc[p].state
  BY DEF Shrinks
<1>4. /\ Family(proc') /\ DOMAIN proc' = DOMAIN proc \ {q} /\ proc'[p] = me
      /\ q # p /\ q # INIT /\ p \in DOMAIN proc'
      /\ Kids(proc', p) = Kids(proc, p) \ {q}
      /\ \A r \in DOMAIN proc \ {p, q} : LeftAlone(proc, proc', r)
  BY <1>1, ProcShrinks
<1>5. ASSUME NEW r \in DOMAIN proc' PROVE Knows(proc', r, static'.children, lost')
  <2>1. CASE r = p
    BY <1>4, <2>1 DEF Knows
  <2>2. CASE r # p
    <3>1. LeftAlone(proc, proc', r) /\ Knows(proc, r, static.children, lost)
      BY <1>4, <2>2 DEF UInv
    <3>2. proc[r].prog.name = "shell" => proc[p].prog.name # "shell"
      BY <1>4, <2>2 DEF UInv, Shelled
    <3> QED
      BY <3>1, <3>2, StillKnows
  <2> QED
    BY <2>1, <2>2
<1>6. \A r \in DOMAIN proc' : proc'[r].prog = proc[r].prog
  BY <1>2, <1>4 DEF LeftAlone
<1>7. TableKept(proc', static'.in_spawn_table)
  <2>1. LeftAlone(proc, proc', INIT)
    BY <1>1, <1>4 DEF Family
  <2>2. q \notin Kids(proc, INIT)
    BY <1>2 DEF Kids
  <2>3. \A r \in Kids(proc, INIT) : r \in Kids(proc', INIT) /\ proc'[r].prog = proc[r].prog
    BY <1>4, <1>6, <2>1, <2>2 DEF Kids, LeftAlone
  <2>4. proc'[INIT].pc = proc[INIT].pc
    BY <2>1 DEF LeftAlone
  <2>5. TableKept(proc, static.in_spawn_table)
    BY DEF UInv
  <2>6. TableKept(proc', static.in_spawn_table)
    BY <2>3, <2>4, <2>5, TableLasts
  <2> QED
    BY <2>6
<1>8. Shelled(proc', static'.in_spawn_table, static'.children, lost')
  <2> DEFINE s == static.in_spawn_table[2].pid
  <2>1. \A r \in DOMAIN proc' : proc'[r].prog.name = "shell" => r = s
    BY <1>4, <1>6 DEF UInv, Shelled
  <2>2. ASSUME ~lost', static'.children # 0
        PROVE  s \in DOMAIN proc' /\ proc'[s].state # "zombie"
    <3>1. s \in DOMAIN proc /\ proc[s].state # "zombie"
      <4>1. CASE proc[p].prog.name = "shell"
        BY <1>2, <4>1 DEF UInv, Shelled
      <4>2. CASE proc[p].prog.name # "shell"
        BY <2>2, <4>2 DEF UInv, Shelled
      <4> QED
        BY <4>1, <4>2
    <3>2. CASE s = p
      BY <1>2, <1>4, <3>2
    <3>3. CASE s # p
      BY <1>2, <1>4, <3>1, <3>3 DEF LeftAlone
    <3> QED
      BY <3>2, <3>3
  <2> QED
    BY <2>1, <2>2 DEF Shelled
<1> QED
  BY <1>4, <1>5, <1>7, <1>8 DEF UInv

-----------------------------------------------------------------------------
(* The tests.                                                              *)

LEMMA StepKeeps ==
  ASSUME UInv, NEW p \in DOMAIN proc, p # INIT, proc[p].state # "zombie",
         NEW me \in Process, Step(p, me), me.parent = proc[p].parent,
         me.prog = proc[p].prog, me.state # "zombie",
         IsTest(me.prog) => me.pc \in 1..Len(Text(me.prog)),
         KnowsOf(me, Kids(proc, p), static.children, lost),
         Statics(static'), static'.in_spawn_table = static.in_spawn_table,
         static'.children = static.children, Inputs(input'), lost' = lost
  PROVE  UInv'
<1>1. DOMAIN proc' = DOMAIN proc /\ proc'[p] = me /\ \A q \in DOMAIN proc \ {p} : proc'[q] = proc[q]
  BY DEF Step
<1>2. INIT \in DOMAIN proc /\ \A q \in DOMAIN proc : proc[q] \in Process
  BY DEF UInv, Family
<1>3. proc' \in [DOMAIN proc -> Process]
  BY <1>1, <1>2 DEF Step
<1>4. Moved(proc, proc', p)
  BY <1>1, <1>2, <1>3 DEF Moved
<1>5. IsTest(proc[p].prog) => proc'[p].pc \in 1..Len(Text(proc[p].prog))
  BY <1>1
<1>6. KnowsOf(proc'[p], Kids(proc, p), static.children, lost)
  BY <1>1
<1> QED
  BY <1>4, <1>5, <1>6, MoveKeeps

TestHere(p) == p \in DOMAIN proc /\ proc[p].state = "run" /\ IsTest(proc[p].prog)

LEMMA AtTest ==
  ASSUME UInv, NEW p, TestHere(p)
  PROVE  LET me == proc[p]
             end == Len(Text(me.prog))
             at == At(p)
         IN /\ me \in Process /\ p \in Pids /\ p # INIT
            /\ end \in Nat /\ me.pc \in 1..end
            /\ at \in GoOn \cup Ends
            /\ at \in GoOn => me.pc + 1 \in 1..end
            /\ at.op = "goto" => at.pc \in 1..end
            /\ at.op = "fork" => at.skip \in 1..end
            /\ Awaits(me, Kids(proc, p))
<1> DEFINE me == proc[p]
           t == Text(me.prog)
           at == At(p)
<1>1. me \in Process /\ p \in Pids /\ me.pc \in 1..Len(t) /\ me.prog \in ProgSet
  BY DEF TestHere, UInv, Family, Process
<1>2. p # INIT
  <2>1. proc[INIT].prog.name = "init"
    BY ProgName DEF UInv, Family
  <2> QED
    BY <2>1 DEF TestHere, IsTest
<1>3. Well(t) /\ Len(t) \in Nat
  BY <1>1, TestText DEF TestHere
<1>4. at = t[me.pc]
  BY DEF At
<1>5. Awaits(me, Kids(proc, p))
  <2>1. Knows(proc, p, static.children, lost) /\ me.state # "zombie"
    BY DEF UInv, TestHere
  <2> QED
    BY <2>1 DEF Knows, KnowsOf, TestHere
<1> HIDE DEF t, at, me
<1>6. /\ at \in GoOn \cup Ends /\ (at \in Ends \/ me.pc < Len(t))
      /\ at.op = "goto" => at.pc \in 1..Len(t)
      /\ at.op = "fork" => at.skip \in 1..Len(t)
  BY <1>1, <1>3, <1>4 DEF Well
<1>7. at \in GoOn => at \notin Ends
  BY DEF GoOn, Ends
<1> QED
  BY <1>1, <1>2, <1>3, <1>5, <1>6, <1>7 DEF t, at, me

(* Where the tests are that wait for their children.                       *)
LEMMA AtWaiter ==
  ASSUME UInv, NEW p, TestHere(p)
  PROVE  LET me == proc[p]
             end == Len(Text(me.prog))
             at == At(p)
         IN /\ me.prog.name = "progI" =>
                 /\ at.op \notin {"goto", "fork"}
                 /\ me.pc = end <=> at.op = "exit"
                 /\ me.pc + 1 = end => at.op = "waitall"
            /\ me.prog.mode \in {"w", "W"} =>
                 /\ me.prog.name = "progTUV"
                 /\ me.pc = end <=> at.op = "exit"
                 /\ me.pc = end - 1 => at.op = "waiteach" /\ at.bypid = (me.prog.mode # "w")
                 /\ me.pc < end - 1 =>
                      at.op \in {"turn", "spawn"} /\ (at.op = "spawn" => at.keep)
<1> DEFINE me == proc[p]
           t == Text(me.prog)
           at == At(p)
<1>1. /\ me.pc \in 1..Len(t) /\ Len(t) \in Nat /\ at = t[me.pc]
      /\ me.prog \in TestProgs \cup {Prog("idle", 0)}
  <2>1. me.prog \in ProgSet
    BY AtTest DEF Process
  <2> QED
    BY <2>1, AtTest, TestText DEF At, TestHere
<1> HIDE DEF at, me, t
<1>2. ASSUME me.prog.name = "progI" PROVE WaitsForAll(t)
  <2>0. Prog("idle", 0).name # "progI"
    BY DEF Prog
  <2>1. me.prog.n \in Nat
    BY <1>1, <1>2, <2>0 DEF TestProgs
  <2>2. t = progI(me.prog.n)
    BY <1>2 DEF Text, t
  <2> QED
    BY <2>1, <2>2, TextOfProgI
<1>3. ASSUME me.prog.mode \in {"w", "W"}
      PROVE  me.prog.name = "progTUV" /\ WaitsForEach(t, me.prog.mode # "w")
  <2>0. Prog("idle", 0).mode = ""
    BY DEF Prog
  <2>1. me.prog.n \in Nat /\ me.prog.name = "progTUV"
    BY <1>1, <1>3, <2>0 DEF TestProgs
  <2>2. t = progTUV(me.prog.n, me.prog.mode)
    BY <2>1 DEF Text, t
  <2>3. me.prog.mode # "k"
    BY <1>3
  <2> QED
    BY <2>1, <2>2, <2>3, TextOfProgTUV
<1>4. ASSUME me.prog.name = "progI"
      PROVE  /\ at.op \notin {"goto", "fork"}
             /\ me.pc = Len(t) <=> at.op = "exit"
             /\ me.pc + 1 = Len(t) => at.op = "waitall"
  BY <1>1, <1>2, <1>4 DEF WaitsForAll, Waiter
<1>5. ASSUME me.prog.mode \in {"w", "W"}
      PROVE  /\ me.pc = Len(t) <=> at.op = "exit"
             /\ me.pc = Len(t) - 1 => at.op = "waiteach" /\ at.bypid = (me.prog.mode # "w")
             /\ me.pc < Len(t) - 1 =>
                  at.op \in {"turn", "spawn"} /\ (at.op = "spawn" => at.keep)
  <2>1. WaitsForEach(t, me.prog.mode # "w")
    BY <1>3, <1>5
  <2> QED
    BY <1>1, <2>1 DEF WaitsForEach, Waiter
<1> QED
  BY <1>3, <1>4, <1>5 DEF at, me, t

(* The test goes on, and its children are what they were.                  *)
LEMMA AwaitsOn ==
  ASSUME UInv, NEW p, TestHere(p), NEW you, you.prog = proc[p].prog,
         you.children = proc[p].children,
         At(p).op \notin {"waitall", "waiteach", "exit"},
         \/ /\ you.pc \in {proc[p].pc, proc[p].pc + 1}
            /\ you.n = proc[p].n \/ At(p).op = "killeach"
         \/ At(p).op \in {"goto", "fork"}
  PROVE  Awaits(you, Kids(proc, p))
<1> DEFINE me == proc[p]
           end == Len(Text(me.prog))
           kids == Kids(proc, p)
<1>1. me.pc \in 1..end /\ end \in Nat /\ Awaits(me, kids)
  BY AtTest
<1>2. /\ me.prog.name = "progI" => /\ At(p).op \notin {"goto", "fork"} /\ me.pc # end
                                   /\ me.pc + 1 # end
      /\ me.prog.mode \in {"w", "W"} => At(p).op \in {"turn", "spawn"} /\ me.pc < end - 1
  BY <1>1, AtWaiter
<1> HIDE DEF kids
<1>3. you.prog.name = "progI" /\ you.pc = end => kids = {}
  BY <1>1, <1>2
<1>4. ASSUME me.prog.mode \in {"w", "W"}
      PROVE  /\ me.n = 1 /\ you.n = 1 /\ you.pc < end
             /\ me.n \in 1..Len(me.children) + 1
             /\ me.prog.mode = "w" => Cardinality(kids) = Len(me.children) + 1 - me.n
             /\ me.prog.mode = "W" =>
                  /\ \A i, j \in 1..Len(me.children) : me.children[i] = me.children[j] => i = j
                  /\ kids = {me.children[i] : i \in me.n..Len(me.children)}
  <2>1. you.pc < end
    BY <1>1, <1>2, <1>4
  <2>2. me.n = 1 /\ you.n = 1
    BY <1>1, <1>2, <1>4 DEF Awaits
  <2> QED
    BY <1>1, <1>2, <1>4, <2>1, <2>2 DEF Awaits
<1> QED
  BY <1>3, <1>4 DEF Awaits, kids

LEMMA ExecKeeps ==
  ASSUME UInv, NEW p \in DOMAIN proc, exec(p)
  PROVE  UInv'
<1> DEFINE me == [proc[p] EXCEPT !.state = "run"]
<1>1. /\ proc[p].state = "exec" /\ Step(p, me)
      /\ static' = static /\ input' = input /\ lost' = lost
  BY DEF exec
<1>2. p # INIT /\ proc[p] \in Process
  BY <1>1 DEF UInv, Family
<1>3. /\ me \in Process /\ me.parent = proc[p].parent /\ me.prog = proc[p].prog
      /\ me.state = "run" /\ me.pc = proc[p].pc /\ me.n = proc[p].n
      /\ me.children = proc[p].children /\ me.sh = proc[p].sh
  BY <1>2 DEF Process
<1>4. Knows(proc, p, static.children, lost) /\ Statics(static) /\ Inputs(input)
  BY DEF UInv
<1> HIDE DEF me
<1>5. KnowsOf(me, Kids(proc, p), static.children, lost)
  BY <1>1, <1>3, <1>4 DEF Knows, KnowsOf, Awaits, Counts
<1>6. IsTest(me.prog) => me.pc \in 1..Len(Text(me.prog))
  BY <1>3 DEF UInv, Family
<1> QED
  BY <1>1, <1>2, <1>3, <1>4, <1>5, <1>6, StepKeeps

(* The test goes on as me.                                                 *)
LEMMA TestKeeps ==
  ASSUME UInv, NEW p, TestHere(p), NEW me \in Process, Step(p, me),
         me.parent = proc[p].parent, me.prog = proc[p].prog, me.state = "run",
         me.pc \in 1..Len(Text(me.prog)), Awaits(me, Kids(proc, p)),
         UNCHANGED <<static, input, lost>>
  PROVE  UInv'
<1>1. p \in DOMAIN proc /\ p # INIT /\ proc[p].state # "zombie" /\ me.prog.name # "shell"
  BY AtTest DEF TestHere, IsTest
<1>2. KnowsOf(me, Kids(proc, p), static.children, lost)
  BY <1>1 DEF KnowsOf
<1>3. Statics(static) /\ Inputs(input)
  BY DEF UInv
<1> QED
  BY <1>1, <1>2, <1>3, StepKeeps

LEMMA NextPcIs ==
  ASSUME UInv, NEW p, TestHere(p)
  PROVE  LET me == NextPc(p) IN
         /\ me \in Process /\ me.parent = proc[p].parent /\ me.prog = proc[p].prog
         /\ me.state = "run" /\ me.pc = proc[p].pc + 1 /\ me.n = proc[p].n
         /\ me.children = proc[p].children /\ me.failed = proc[p].failed
         /\ ~me.killed <=> ~proc[p].killed
<1>1. proc[p] \in Process /\ proc[p].state = "run"
  BY AtTest DEF TestHere
<1> QED
  BY SMTT(30), <1>1 DEF NextPc, Process

LEMMA TurnKeeps ==
  ASSUME UInv, NEW p, TestHere(p), UNCHANGED <<static, input, lost>>,
         DoTurn(p, At(p))
  PROVE  UInv'
<1>1. At(p).op = "turn" /\ Step(p, NextPc(p))
  BY DEF DoTurn
<1>2. At(p) \in GoOn
  BY <1>1, AtTest DEF Ends
<1>3. /\ NextPc(p) \in Process /\ NextPc(p).parent = proc[p].parent
      /\ NextPc(p).prog = proc[p].prog /\ NextPc(p).state = "run"
      /\ NextPc(p).pc = proc[p].pc + 1 /\ NextPc(p).n = proc[p].n
      /\ NextPc(p).children = proc[p].children
  BY NextPcIs
<1>4. NextPc(p).pc \in 1..Len(Text(NextPc(p).prog))
  BY <1>2, <1>3, AtTest
<1>5. Awaits(NextPc(p), Kids(proc, p))
  BY <1>1, <1>3, AwaitsOn
<1> QED
  BY <1>1, <1>3, <1>4, <1>5, TestKeeps

LEMMA GotoKeeps ==
  ASSUME UInv, NEW p, TestHere(p), UNCHANGED <<static, input, lost>>,
         DoGoto(p, At(p))
  PROVE  UInv'
<1> DEFINE pc == At(p).pc
           me == [proc[p] EXCEPT !.pc = pc]
<1>1. At(p).op = "goto" /\ Step(p, me)
  BY DEF DoGoto
<1>2. pc \in 1..Len(Text(proc[p].prog)) /\ proc[p] \in Process /\ proc[p].state = "run"
  BY <1>1, AtTest DEF TestHere
<1>3. /\ me \in Process /\ me.parent = proc[p].parent /\ me.prog = proc[p].prog
      /\ me.state = "run" /\ me.pc = pc /\ me.children = proc[p].children
  BY SMTT(30), <1>2 DEF Process
<1> HIDE DEF me, pc
<1>4. Awaits(me, Kids(proc, p))
  BY <1>1, <1>3, AwaitsOn
<1> QED
  BY <1>1, <1>2, <1>3, <1>4, TestKeeps

LEMMA ExitKeeps ==
  ASSUME UInv, NEW p, TestHere(p), UNCHANGED <<static, input, lost>>,
         DoExit(p, At(p))
  PROVE  UInv'
<1>1. p \in DOMAIN proc /\ p # INIT /\ proc[p].prog.name # "shell" /\ proc[p] \in Process
  BY AtTest DEF TestHere, IsTest
<1>2. PICK status \in Int : proc' = Ended(p, status)
  <2>1. CASE At(p).op = "exit" /\ proc' = Ended(p, At(p).status)
    <3>1. At(p).status \in Int
      BY <2>1, AtTest DEF GoOn, Ends
    <3> QED
      BY <2>1, <3>1
  <2>2. CASE proc' = Ended(p, proc[p].failed)
    BY <1>1, <2>2 DEF Process
  <2>3. CASE proc' = Ended(p, EXIT_BAD_SYSCALL)
    BY <2>3 DEF EXIT_BAD_SYSCALL
  <2> QED
    BY <2>1, <2>2, <2>3 DEF DoExit
<1>3. lost \in BOOLEAN
  BY DEF UInv
<1> QED
  BY <1>1, <1>2, <1>3, EndKeeps

(* A process goes on as me, and has a new child.                           *)
LEMMA BornGrows ==
  ASSUME UInv, PidsLeft, NEW p \in DOMAIN proc, proc[p].state # "zombie",
         NEW me \in Process, NEW child \in Process,
         proc' = Born([proc EXCEPT ![p] = me], NewPid, child),
         me.parent = proc[p].parent, me.prog = proc[p].prog, me.state = proc[p].state,
         p = INIT => ~me.killed, IsTest(me.prog) => me.pc \in 1..Len(Text(me.prog)),
         child.parent = p, child.state # "zombie", child.prog.name # "init", child.pc = 1
  PROVE  Grows(proc, proc', p, NewPid, me, child) /\ NewPid \in Pids /\ NewPid \notin Kids(proc, p)
<1>1. NewPid \in Pids \ DOMAIN proc
  BY NewPidIs
<1> DEFINE pid == NewPid
           f == [proc EXCEPT ![p] = me]
<1>2. proc' = Born(f, pid, child)
  OBVIOUS
<1>3. /\ DOMAIN f = DOMAIN proc /\ f[p] = me
      /\ \A q \in DOMAIN proc \ {p} : f[q] = proc[q]
  OBVIOUS
<1>4. \A q \in DOMAIN proc : proc[q] \in Process
  BY DEF UInv, Family
<1> HIDE DEF pid, f
<1>5. /\ DOMAIN proc' = DOMAIN f \cup {pid}
      /\ \A q \in DOMAIN f \cup {pid} : proc'[q] = IF q = pid THEN child ELSE f[q]
      /\ proc' = [q \in DOMAIN f \cup {pid} |-> proc'[q]]
  BY <1>2 DEF Born
<1>6. /\ DOMAIN proc' = DOMAIN proc \cup {pid} /\ proc'[pid] = child /\ proc'[p] = me
      /\ \A q \in DOMAIN proc \ {p} : proc'[q] = proc[q]
  BY ZenonT(60), <1>1, <1>3, <1>5 DEF pid
<1>7. proc' \in [DOMAIN proc' -> Process]
  <2>1. \A q \in DOMAIN proc' : proc'[q] \in Process
    BY <1>4, <1>6
  <2> QED
    BY <1>5, <2>1
<1>8. IsTest(child.prog) => child.pc \in 1..Len(Text(child.prog))
  <2>1. child.prog \in ProgSet
    BY DEF Process
  <2> QED
    BY <2>1, TestText
<1>9. pid \notin Kids(proc, p)
  BY <1>1 DEF Kids, pid
<1> QED
  BY <1>1, <1>6, <1>7, <1>8, <1>9 DEF Grows, pid

LEMMA AwaitsNew ==
  ASSUME UInv, NEW p, TestHere(p), At(p).op \in {"spawn", "fork"},
         NEW pid, pid \notin Kids(proc, p), NEW you, you.prog = proc[p].prog,
         you.pc = proc[p].pc + 1, you.n = proc[p].n,
         you.children = IF At(p).op = "spawn" /\ At(p).keep
                        THEN Append(proc[p].children, pid) ELSE proc[p].children
  PROVE  Awaits(you, Kids(proc, p) \cup {pid})
<1> DEFINE me == proc[p]
           end == Len(Text(me.prog))
           kids == Kids(proc, p)
           c == me.children
<1>1. me.pc \in 1..end /\ end \in Nat /\ Awaits(me, kids) /\ c \in Seq(Pids)
  BY AtTest DEF Process
<1>2. /\ me.prog.name = "progI" => me.pc + 1 # end
      /\ me.prog.mode \in {"w", "W"} => At(p).op = "spawn" /\ At(p).keep /\ me.pc < end - 1
  BY <1>1, AtWaiter
<1>3. IsFiniteSet(kids)
  <2>1. kids \subseteq DOMAIN proc /\ IsFiniteSet(DOMAIN proc)
    BY DEF Kids, UInv, Family
  <2> QED
    BY <2>1, FS_Subset
<1> HIDE DEF kids
<1>4. Cardinality(kids \cup {pid}) = Cardinality(kids) + 1 /\ Cardinality(kids) \in Nat
  BY <1>3, FS_AddElement, FS_CardinalityType DEF kids
<1>5. ASSUME me.prog.mode \in {"w", "W"}
      PROVE  LET d == you.children IN
             /\ me.n = 1 /\ you.n = 1 /\ you.pc < end
             /\ 1 \in 1..Len(d) + 1
             /\ me.prog.mode = "w" => Cardinality(kids \cup {pid}) = Len(d) + 1 - 1
             /\ me.prog.mode = "W" =>
                  /\ \A i, j \in 1..Len(d) : d[i] = d[j] => i = j
                  /\ kids \cup {pid} = {d[i] : i \in 1..Len(d)}
  <2> DEFINE d == you.children
  <2>1. you.pc < end /\ me.pc < end /\ me.n = 1 /\ you.n = 1
    BY <1>1, <1>2, <1>5 DEF Awaits
  <2>2. d = Append(c, pid)
    BY <1>2, <1>5
  <2>3. /\ Len(c) \in Nat /\ Len(d) = Len(c) + 1 /\ d[Len(c) + 1] = pid
        /\ \A i \in 1..Len(c) : d[i] = c[i]
    BY <1>1, <2>2
  <2>4. me.prog.mode = "w" => Cardinality(kids) = Len(c)
    BY <1>1, <1>5, <2>1, <2>3 DEF Awaits
  <2>5. ASSUME me.prog.mode = "W"
        PROVE  /\ \A i, j \in 1..Len(c) : c[i] = c[j] => i = j
               /\ kids = {c[i] : i \in 1..Len(c)}
    BY <1>1, <1>5, <2>1, <2>5 DEF Awaits
  <2> HIDE DEF d, c
  <2>6. ASSUME me.prog.mode = "W"
        PROVE  /\ \A i, j \in 1..Len(d) : d[i] = d[j] => i = j
               /\ kids \cup {pid} = {d[i] : i \in 1..Len(d)}
    <3>1. \A i \in 1..Len(c) : c[i] # pid
      BY <2>5, <2>6 DEF kids
    <3>2. \A i \in 1..Len(d) : i = Len(c) + 1 \/ i \in 1..Len(c)
      BY <2>3
    <3>3. \A i \in 1..Len(c) + 1 : i \in 1..Len(d)
      BY <2>3
    <3>4. kids \cup {pid} = {d[i] : i \in 1..Len(d)}
      <4>1. ASSUME NEW x \in kids PROVE \E i \in 1..Len(d) : x = d[i]
        <5>1. PICK i \in 1..Len(c) : x = c[i]
          BY <2>5, <2>6, <4>1
        <5>2. i \in 1..Len(d) /\ d[i] = x
          BY <2>3, <5>1
        <5> QED
          BY <5>2
      <4>2. Len(c) + 1 \in 1..Len(d) /\ d[Len(c) + 1] = pid
        BY <2>3
      <4>3. ASSUME NEW i \in 1..Len(d) PROVE d[i] \in kids \cup {pid}
        <5>1. CASE i = Len(c) + 1
          BY <2>3, <5>1
        <5>2. CASE i \in 1..Len(c)
          BY <2>3, <2>5, <2>6, <5>2
        <5> QED
          BY <3>2, <5>1, <5>2
      <4> QED
        BY <4>1, <4>2, <4>3
    <3>5. \A i, j \in 1..Len(d) : d[i] = d[j] => i = j
      BY <2>3, <2>5, <2>6, <3>1, <3>2
    <3> QED
      BY <3>4, <3>5
  <2>7. me.prog.mode = "w" => Cardinality(kids \cup {pid}) = Len(d)
    BY <1>4, <2>3, <2>4
  <2>8. 1 \in 1..Len(d) + 1 /\ Len(d) + 1 - 1 = Len(d)
    BY <2>3
  <2> QED
    BY <2>1, <2>6, <2>7, <2>8 DEF d
<1>6. you.prog.name = "progI" /\ you.pc = end => kids \cup {pid} = {}
  BY <1>1, <1>2
<1> DEFINE K == kids \cup {pid}
<1>7. Awaits(you, K)
  <2> DEFINE d == you.children
  <2>1. you.prog.name = "progI" /\ you.pc = end => K = {}
    BY <1>6
  <2>2. ASSUME you.prog.mode \in {"w", "W"}
        PROVE  /\ you.n = 1 /\ you.pc < end
               /\ you.n \in 1..Len(d) + 1
               /\ you.prog.mode = "w" => Cardinality(K) = Len(d) + 1 - you.n
               /\ you.prog.mode = "W" =>
                    /\ \A i, j \in 1..Len(d) : d[i] = d[j] => i = j
                    /\ K = {d[i] : i \in you.n..Len(d)}
    BY <1>5, <2>2
  <2>3. you.pc \in Int /\ end \in Nat /\ end = Len(Text(you.prog))
    BY <1>1
  <2> HIDE DEF K, end
  <2>4. /\ you.prog.name = "progI" /\ you.pc = end => K = {}
        /\ you.prog.mode \in {"w", "W"} =>
             /\ you.pc = end => K = {}
             /\ you.pc < end - 1 => you.n = 1
             /\ you.pc < end =>
                  /\ you.n \in 1..Len(d) + 1
                  /\ you.prog.mode = "w" => Cardinality(K) = Len(d) + 1 - you.n
                  /\ you.prog.mode = "W" =>
                       /\ \A i, j \in 1..Len(d) : d[i] = d[j] => i = j
                       /\ K = {d[i] : i \in you.n..Len(d)}
    <3>1. ASSUME you.prog.mode \in {"w", "W"}
          PROVE  /\ you.pc = end => K = {}
                 /\ you.pc < end - 1 => you.n = 1
      BY <2>2, <2>3, <3>1
    <3> QED
      BY <2>1, <2>2, <3>1, Zenon DEF end
  <2> QED
    BY <2>3, <2>4, Zenon DEF Awaits
<1> QED
  BY <1>7 DEF kids

(* The test goes on as me, and has a new child.                            *)
LEMMA TestGrows ==
  ASSUME UInv, PidsLeft, NEW p, TestHere(p), At(p).op \in {"spawn", "fork"},
         NEW me \in Process, NEW child \in Process,
         proc' = Born([proc EXCEPT ![p] = me], NewPid, child),
         me.parent = proc[p].parent, me.prog = proc[p].prog, me.state = "run",
         me.pc = proc[p].pc + 1, me.n = proc[p].n,
         me.children = IF At(p).op = "spawn" /\ At(p).keep
                       THEN Append(proc[p].children, NewPid) ELSE proc[p].children,
         child.parent = p, child.state # "zombie", IsTest(child.prog), child.pc = 1,
         child.n = 1, child.children = <<>>, UNCHANGED <<static, input, lost>>
  PROVE  UInv'
<1>1. /\ p \in DOMAIN proc /\ p # INIT /\ proc[p].state # "zombie" /\ me.state = proc[p].state
      /\ me.prog.name # "shell" /\ child.prog.name # "init"
  BY AtTest DEF TestHere, IsTest
<1>2. me.pc \in 1..Len(Text(me.prog))
  <2>1. At(p) \in GoOn
    BY AtTest DEF Ends
  <2> QED
    BY <2>1, AtTest
<1>3. Grows(proc, proc', p, NewPid, me, child) /\ NewPid \notin Kids(proc, p)
  BY <1>1, <1>2, BornGrows
<1>4. Awaits(me, Kids(proc, p) \cup {NewPid})
  BY <1>3, AwaitsNew
<1>5. KnowsOf(me, Kids(proc, p) \cup {NewPid}, static'.children, lost)
  BY <1>1, <1>4 DEF KnowsOf
<1>6. Statics(static') /\ static' = static /\ input' = input /\ lost' = lost
  BY DEF UInv
<1> QED
  BY <1>1, <1>3, <1>5, <1>6, BirthKeeps

LEMMA SpawnKeeps ==
  ASSUME UInv, PidsLeft, NEW p, TestHere(p), UNCHANGED <<static, input, lost>>,
         spawn(p, At(p))
  PROVE  UInv'
<1> DEFINE at == At(p)
           next == NextPc(p)
<1>1. at.op = "spawn" /\ at \in GoOn
  BY AtTest DEF spawn, Ends
<1>2. at.prog \in TestProgs /\ at.keep \in BOOLEAN
  BY <1>1 DEF GoOn
<1>3. /\ next \in Process /\ next.parent = proc[p].parent
      /\ next.prog = proc[p].prog /\ next.state = "run"
      /\ next.pc = proc[p].pc + 1 /\ next.n = proc[p].n
      /\ next.children = proc[p].children
  BY NextPcIs
<1>4. CASE Room
  <2> DEFINE me == IF at.keep THEN [next EXCEPT !.children = Append(@, NewPid)] ELSE next
             child == Child(p, at.prog)
  <2>1. proc' = Born([proc EXCEPT ![p] = me], NewPid, child)
    BY <1>4 DEF spawn
  <2>2. NewPid \in Pids
    BY NewPidIs
  <2>3. proc[p].children \in Seq(Pids)
    BY AtTest DEF Process
  <2> HIDE DEF next, at
  <2>4. /\ me \in Process /\ me.parent = proc[p].parent /\ me.prog = proc[p].prog
        /\ me.state = "run" /\ me.pc = proc[p].pc + 1 /\ me.n = proc[p].n
        /\ me.children = IF at.op = "spawn" /\ at.keep
                         THEN Append(proc[p].children, NewPid) ELSE proc[p].children
    <3>1. CASE at.keep
      <4>1. Append(proc[p].children, NewPid) \in Seq(Pids)
        BY <2>2, <2>3
      <4> QED
        BY <1>1, <1>3, <3>1, <4>1 DEF Process
    <3>2. CASE ~at.keep
      BY <1>3, <3>2
    <3> QED
      BY <3>1, <3>2
  <2>5. at.prog \in ProgSet /\ IsTest(at.prog)
    BY <1>2 DEF ProgSet, IsTest, TestProgs
  <2>6. p \in Pids
    BY AtTest
  <2>7. /\ child \in Process /\ child.parent = p /\ child.prog = at.prog
        /\ child.state = "exec" /\ child.pc = 1 /\ child.n = 1 /\ child.children = <<>>
    BY <2>5, <2>6, ChildIs
  <2> HIDE DEF me, child
  <2> QED
    BY <1>1, <2>1, <2>4, <2>5, <2>7, TestGrows DEF at
<1>5. CASE ~Room
  <2> DEFINE me == [next EXCEPT !.failed = @ + 1]
  <2>1. Step(p, me)
    BY <1>5 DEF spawn
  <2> HIDE DEF next
  <2>2. /\ me \in Process /\ me.parent = proc[p].parent /\ me.prog = proc[p].prog
        /\ me.state = "run" /\ me.pc = proc[p].pc + 1 /\ me.n = proc[p].n
        /\ me.children = proc[p].children
    BY <1>3 DEF Process
  <2> HIDE DEF me
  <2>3. me.pc \in 1..Len(Text(me.prog))
    BY <1>1, <2>2, AtTest
  <2>4. Awaits(me, Kids(proc, p))
    BY <1>1, <2>2, AwaitsOn
  <2> QED
    BY <2>1, <2>2, <2>3, <2>4, TestKeeps
<1> QED
  BY <1>4, <1>5

LEMMA ForkKeeps ==
  ASSUME UInv, PidsLeft, NEW p, TestHere(p), UNCHANGED <<static, input, lost>>,
         ForkR(p, At(p))
  PROVE  UInv'
<1> DEFINE at == At(p)
           next == NextPc(p)
<1>1. at.op = "fork" /\ at \in GoOn
  BY AtTest DEF ForkR, Ends
<1>2. at.skip \in 1..Len(Text(proc[p].prog)) /\ proc[p] \in Process /\ proc[p].state = "run"
      /\ p \in Pids
  BY <1>1, AtTest DEF TestHere
<1>3. /\ next \in Process /\ next.parent = proc[p].parent
      /\ next.prog = proc[p].prog /\ next.state = "run"
      /\ next.pc = proc[p].pc + 1 /\ next.n = proc[p].n
      /\ next.children = proc[p].children
  BY NextPcIs
<1>4. CASE Step(p, [proc[p] EXCEPT !.pc = at.skip])
  <2> DEFINE pc == at.skip
             me == [proc[p] EXCEPT !.pc = pc]
  <2>1. Step(p, me)
    BY <1>4
  <2>2. /\ me \in Process /\ me.parent = proc[p].parent /\ me.prog = proc[p].prog
        /\ me.state = "run" /\ me.pc = pc /\ me.children = proc[p].children
    BY SMTT(30), <1>2 DEF Process
  <2> HIDE DEF me, pc
  <2>3. Awaits(me, Kids(proc, p))
    BY <1>1, <2>2, AwaitsOn
  <2> QED
    BY <1>2, <2>1, <2>2, <2>3, TestKeeps DEF pc
<1>5. CASE Room /\ proc' = Born([proc EXCEPT ![p] = NextPc(p)], NewPid,
                                [Child(p, proc[p].prog) EXCEPT
                                   !.state = "run", !.seq = proc[p].seq + 1])
  <2> DEFINE c == Child(p, proc[p].prog)
             child == [c EXCEPT !.state = "run", !.seq = proc[p].seq + 1]
  <2>1. proc' = Born([proc EXCEPT ![p] = next], NewPid, child)
    BY <1>5
  <2>2. proc[p].prog \in ProgSet /\ IsTest(proc[p].prog) /\ proc[p].seq + 1 \in Nat
    BY <1>2 DEF Process, TestHere
  <2>3. /\ c \in Process /\ c.parent = p /\ c.prog = proc[p].prog
        /\ c.pc = 1 /\ c.n = 1 /\ c.children = <<>>
    BY <1>2, <2>2, ChildIs
  <2> HIDE DEF c, next
  <2>4. /\ child \in Process /\ child.parent = p /\ child.prog = proc[p].prog
        /\ child.state = "run" /\ child.pc = 1 /\ child.n = 1 /\ child.children = <<>>
    BY <2>2, <2>3 DEF Process
  <2> HIDE DEF child
  <2> QED
    BY <1>1, <1>3, <2>1, <2>2, <2>4, TestGrows
<1>6. CASE Step(p, NextPc(p))
  <2>1. Step(p, next)
    BY <1>6
  <2> HIDE DEF next
  <2>2. next.pc \in 1..Len(Text(next.prog))
    BY <1>1, <1>3, AtTest
  <2>3. Awaits(next, Kids(proc, p))
    BY <1>1, <1>3, AwaitsOn
  <2> QED
    BY <1>3, <2>1, <2>2, <2>3, TestKeeps
<1> QED
  BY <1>4, <1>5, <1>6 DEF ForkR

(* After kill(), but for the flag of the victim, everybody is the same.    *)
LEMMA ShotIs ==
  ASSUME UInv, NEW pid
  PROVE  LET s == Shot(pid) IN
         /\ DOMAIN s = DOMAIN proc /\ s \in [DOMAIN proc -> Process] /\ s[INIT] = proc[INIT]
         /\ \A q \in DOMAIN proc :
              /\ s[q].parent = proc[q].parent /\ s[q].prog = proc[q].prog
              /\ s[q].state = proc[q].state /\ s[q].pc = proc[q].pc /\ s[q].n = proc[q].n
              /\ s[q].children = proc[q].children /\ s[q].sh = proc[q].sh
<1>1. proc \in [DOMAIN proc -> Process] /\ INIT \in DOMAIN proc
  BY DEF UInv, Family
<1>2. CASE Killable(pid) /\ proc[pid].state # "zombie"
  <2>1. pid \in DOMAIN proc /\ pid # INIT /\ proc[pid] \in Process
    BY <1>1, <1>2 DEF Killable
  <2> DEFINE v == [proc[pid] EXCEPT !.killed = TRUE]
             s == Shot(pid)
  <2>2. /\ v \in Process /\ v.parent = proc[pid].parent /\ v.prog = proc[pid].prog
        /\ v.state = proc[pid].state /\ v.pc = proc[pid].pc /\ v.n = proc[pid].n
        /\ v.children = proc[pid].children /\ v.sh = proc[pid].sh
    BY <2>1 DEF Process
  <2>3. s = [proc EXCEPT ![pid] = v]
    BY <1>2 DEF Shot
  <2> HIDE DEF v, s
  <2>4. /\ DOMAIN s = DOMAIN proc /\ s \in [DOMAIN proc -> Process] /\ s[pid] = v
        /\ \A q \in DOMAIN proc \ {pid} : s[q] = proc[q]
    BY <1>1, <2>1, <2>2, <2>3
  <2> QED
    BY <1>1, <2>1, <2>2, <2>4 DEF s
<1>3. CASE ~(Killable(pid) /\ proc[pid].state # "zombie")
  <2>1. Shot(pid) = proc
    BY <1>3 DEF Shot
  <2> QED
    BY <1>1, <2>1
<1> QED
  BY <1>2, <1>3

(* The test goes on at pc, n after a kill().                               *)
LEMMA KillKeeps ==
  ASSUME UInv, NEW p, TestHere(p), NEW pid, NEW pc, NEW n \in Nat,
         proc' = [Shot(pid) EXCEPT ![p].pc = pc, ![p].n = n],
         At(p).op \in {"kill", "killeach"}, pc \in {proc[p].pc, proc[p].pc + 1},
         n = proc[p].n \/ At(p).op = "killeach",
         UNCHANGED <<static, input, lost>>
  PROVE  UInv'
<1> DEFINE s == Shot(pid)
           me == [s[p] EXCEPT !.pc = pc, !.n = n]
<1>1. /\ DOMAIN s = DOMAIN proc /\ s \in [DOMAIN proc -> Process] /\ s[INIT] = proc[INIT]
      /\ \A q \in DOMAIN proc :
           /\ s[q].parent = proc[q].parent /\ s[q].prog = proc[q].prog
           /\ s[q].state = proc[q].state /\ s[q].pc = proc[q].pc /\ s[q].n = proc[q].n
           /\ s[q].children = proc[q].children /\ s[q].sh = proc[q].sh
  BY ShotIs
<1>2. /\ p \in DOMAIN proc /\ p # INIT /\ proc[p].state = "run" /\ proc[p].pc \in Int
      /\ IsTest(proc[p].prog)
  BY AtTest DEF TestHere
<1>3. proc' = [s EXCEPT ![p].pc = pc, ![p].n = n]
  OBVIOUS
<1> HIDE DEF s
<1>4. proc' = [s EXCEPT ![p] = me]
  BY <1>1, <1>2, <1>3
<1>5. s[p] \in Process /\ pc \in Int
  BY <1>1, <1>2
<1>6. /\ me \in Process /\ me.parent = proc[p].parent /\ me.prog = proc[p].prog
      /\ me.state = "run" /\ me.pc = pc /\ me.n = n
      /\ me.children = proc[p].children /\ me.sh = proc[p].sh
  BY <1>1, <1>2, <1>5 DEF Process
<1> HIDE DEF me
<1>7. /\ DOMAIN proc' = DOMAIN proc /\ proc' \in [DOMAIN proc -> Process] /\ proc'[p] = me
      /\ \A q \in DOMAIN proc \ {p} : proc'[q] = s[q]
  BY ZenonT(60), <1>1, <1>2, <1>4, <1>6
<1>8. INIT \in DOMAIN proc
  BY DEF UInv, Family
<1>9. Moved(proc, proc', p)
  <2>1. ASSUME NEW q \in DOMAIN proc
        PROVE  /\ proc'[q].parent = proc[q].parent /\ proc'[q].prog = proc[q].prog
               /\ proc'[q].state = proc[q].state
    <3>1. CASE q = p
      BY <1>2, <1>6, <1>7, <3>1
    <3>2. CASE q # p
      BY <1>1, <1>7, <3>2
    <3> QED
      BY <3>1, <3>2
  <2>2. ASSUME NEW q \in DOMAIN proc \ {p}
        PROVE  /\ proc'[q].pc = proc[q].pc /\ proc'[q].n = proc[q].n
               /\ proc'[q].children = proc[q].children /\ proc'[q].sh = proc[q].sh
    BY <1>1, <1>7
  <2>3. proc'[INIT] = proc[INIT]
    BY <1>1, <1>2, <1>7, <1>8
  <2> QED
    BY <1>7, <2>1, <2>2, <2>3 DEF Moved
<1>10. At(p).op \notin {"waitall", "waiteach", "exit"}
  OBVIOUS
<1>11. Awaits(me, Kids(proc, p))
  BY <1>6, <1>10, AwaitsOn
<1>12. KnowsOf(proc'[p], Kids(proc, p), static.children, lost)
  BY <1>2, <1>6, <1>7, <1>11 DEF KnowsOf, IsTest
<1>13. proc'[p].pc \in 1..Len(Text(proc[p].prog))
  <2>1. At(p) \in GoOn
    BY AtTest DEF Ends
  <2> QED
    BY <1>6, <1>7, <2>1, AtTest
<1>14. Statics(static') /\ static' = static /\ Inputs(input') /\ lost' = lost
  BY DEF UInv
<1> QED
  BY <1>2, <1>9, <1>12, <1>13, <1>14, MoveKeeps

LEMMA KillChildKeeps ==
  ASSUME UInv, NEW p, TestHere(p), UNCHANGED <<static, input, lost>>,
         KillChild(p, At(p))
  PROVE  UInv'
<1>1. PICK pid : proc' = [Shot(pid) EXCEPT ![p].pc = @ + 1]
  BY DEF KillChild
<1> DEFINE s == Shot(pid)
<1>2. /\ DOMAIN s = DOMAIN proc /\ s[p] \in Process /\ s[p].pc = proc[p].pc
      /\ s[p].n = proc[p].n /\ p \in DOMAIN proc
  BY ShotIs DEF TestHere
<1>3. proc' = [s EXCEPT ![p].pc = @ + 1]
  BY <1>1
<1>4. s[p].n \in Nat
  BY <1>2 DEF Process
<1> HIDE DEF s
<1> DEFINE a == [s[p] EXCEPT !.pc = proc[p].pc + 1]
           b == [s[p] EXCEPT !.pc = proc[p].pc + 1, !.n = proc[p].n]
<1>5. a = b
  BY <1>2 DEF Process
<1>6. proc' = [s EXCEPT ![p] = a]
  BY <1>2, <1>3
<1> HIDE DEF a, b
<1>7. proc' = [s EXCEPT ![p] = b]
  BY <1>5, <1>6
<1>8. [s EXCEPT ![p] = b] = [s EXCEPT ![p].pc = proc[p].pc + 1, ![p].n = proc[p].n]
  BY <1>2 DEF b
<1>9. proc' = [Shot(pid) EXCEPT ![p].pc = proc[p].pc + 1, ![p].n = proc[p].n]
  BY <1>7, <1>8 DEF s
<1>10. At(p).op = "kill" /\ proc[p].n \in Nat
  BY <1>2, <1>4 DEF KillChild
<1> QED
  BY <1>9, <1>10, KillKeeps

LEMMA KillEachKeeps ==
  ASSUME UInv, NEW p, TestHere(p), UNCHANGED <<static, input, lost>>,
         KillEach(p, At(p))
  PROVE  UInv'
<1> DEFINE me == proc[p]
           next == Onward(p)
<1>0. At(p).op = "killeach"
  BY DEF KillEach
<1>1. PICK pid :
        proc' = [Shot(pid) EXCEPT ![p].pc = IF Killable(pid) THEN Onward(p).pc ELSE @ + 1,
                                  ![p].n = IF Killable(pid) THEN Onward(p).n ELSE @]
  BY DEF KillEach
<1>2. me \in Process /\ me.pc \in Int /\ me.n \in Nat
  BY AtTest DEF Process
<1>3. /\ next.pc \in {me.pc, me.pc + 1} /\ next.n \in Nat
  <2>1. CASE me.n < Len(me.children)
    <3>1. next = [me EXCEPT !.n = @ + 1]
      BY <2>1 DEF Onward
    <3> QED
      BY <1>2, <3>1 DEF Process
  <2>2. CASE ~(me.n < Len(me.children))
    <3>1. next = NextPc(p)
      BY <2>2 DEF Onward
    <3> QED
      BY <1>2, <3>1, NextPcIs
  <2> QED
    BY <2>1, <2>2
<1> DEFINE s == Shot(pid)
           pc == IF Killable(pid) THEN next.pc ELSE me.pc + 1
           n == IF Killable(pid) THEN next.n ELSE me.n
<1>4. /\ DOMAIN s = DOMAIN proc /\ s[p] \in Process /\ s[p].pc = me.pc
      /\ s[p].n = me.n /\ p \in DOMAIN proc
  BY ShotIs DEF TestHere
<1>5. proc' = [s EXCEPT ![p].pc = pc, ![p].n = n]
  <2>1. proc' = [s EXCEPT ![p].pc = IF Killable(pid) THEN next.pc ELSE @ + 1,
                          ![p].n = IF Killable(pid) THEN next.n ELSE @]
    BY <1>1
  <2> HIDE DEF s, next
  <2> QED
    BY <1>4, <2>1 DEF Process
<1>6. pc \in {me.pc, me.pc + 1} /\ n \in Nat
  BY <1>2, <1>3
<1> HIDE DEF pc, n
<1> QED
  BY <1>0, <1>5, <1>6, KillKeeps

(* A process goes on as me, and has collected its child q.                 *)
LEMMA CollectedShrinks ==
  ASSUME UInv, NEW p \in DOMAIN proc, proc[p].state # "zombie", NEW q \in Zombies(p),
         NEW me \in Process, proc' = Collected(p, q, me),
         me.parent = proc[p].parent, me.prog = proc[p].prog, me.state = proc[p].state,
         p = INIT => ~me.killed, IsTest(me.prog) => me.pc \in 1..Len(Text(me.prog))
  PROVE  Shrinks(proc, proc', p, q, me) /\ q \in Kids(proc, p)
<1>1. q \in Kids(proc, p) /\ proc[q].state = "zombie"
  BY DEF Zombies, Children, Kids
<1>2. /\ DOMAIN proc' = DOMAIN proc \ {q}
      /\ \A r \in DOMAIN proc \ {q} : proc'[r] = IF r = p THEN me ELSE proc[r]
      /\ proc' = [r \in DOMAIN proc \ {q} |-> proc'[r]]
  BY DEF Collected
<1>3. \A r \in DOMAIN proc : proc[r] \in Process
  BY DEF UInv, Family
<1>4. proc' \in [DOMAIN proc' -> Process]
  <2>1. \A r \in DOMAIN proc' : proc'[r] \in Process
    BY <1>2, <1>3
  <2> QED
    BY <1>2, <2>1
<1> QED
  BY <1>1, <1>2, <1>4 DEF Shrinks

LEMMA TestCollects ==
  ASSUME UInv, NEW p, TestHere(p), NEW q \in Zombies(p), NEW me \in Process,
         proc' = Collected(p, q, me), me.parent = proc[p].parent, me.prog = proc[p].prog,
         me.state = "run", me.pc \in 1..Len(Text(me.prog)),
         Awaits(me, Kids(proc, p) \ {q}), UNCHANGED <<static, input, lost>>
  PROVE  UInv'
<1>1. /\ p \in DOMAIN proc /\ p # INIT /\ proc[p].state # "zombie" /\ me.state = proc[p].state
      /\ me.prog.name # "shell"
  BY AtTest DEF TestHere, IsTest
<1>2. Shrinks(proc, proc', p, q, me)
  BY <1>1, CollectedShrinks
<1>3. KnowsOf(me, Kids(proc, p) \ {q}, static'.children, lost)
  BY <1>1 DEF KnowsOf
<1>4. Statics(static') /\ static' = static /\ input' = input /\ lost' = lost
  BY DEF UInv
<1> QED
  BY <1>1, <1>2, <1>3, <1>4, CollectKeeps

LEMMA WaitAllKeeps ==
  ASSUME UInv, NEW p, TestHere(p), UNCHANGED <<static, input, lost>>,
         WaitAll(p, At(p))
  PROVE  UInv'
<1> DEFINE me == proc[p]
           next == NextPc(p)
           end == Len(Text(me.prog))
<1>1. At(p).op = "waitall" /\ At(p) \in GoOn
  BY AtTest DEF WaitAll, Ends
<1>2. /\ me \in Process /\ me.state = "run" /\ me.pc \in 1..end /\ me.pc + 1 \in 1..end
      /\ end \in Nat
  BY <1>1, AtTest DEF TestHere
<1>3. me.prog.mode \notin {"w", "W"}
  BY <1>1, <1>2, AtWaiter
<1>4. me.prog.name = "progI" => me.pc # end
  BY <1>1, AtWaiter
<1>5. CASE Children(p) = {} /\ Step(p, NextPc(p))
  <2>1. /\ next \in Process /\ next.parent = proc[p].parent
        /\ next.prog = proc[p].prog /\ next.state = "run"
        /\ next.pc = proc[p].pc + 1
    BY NextPcIs
  <2>2. Kids(proc, p) = {}
    BY <1>5 DEF Children, Kids
  <2>3. Step(p, next)
    BY <1>5
  <2> HIDE DEF next
  <2>4. Awaits(next, Kids(proc, p))
    BY <1>3, <2>1, <2>2 DEF Awaits
  <2> QED
    BY <1>2, <2>1, <2>3, <2>4, TestKeeps
<1>6. CASE \E q \in Zombies(p) : proc' = Collected(p, q, proc[p])
  <2>1. PICK q \in Zombies(p) : proc' = Collected(p, q, me)
    BY <1>6
  <2>2. Awaits(me, Kids(proc, p) \ {q})
    BY <1>3, <1>4 DEF Awaits
  <2> QED
    BY <1>2, <2>1, <2>2, TestCollects
<1> QED
  BY <1>5, <1>6 DEF WaitAll

LEMMA OnwardIs ==
  ASSUME UInv, NEW p, TestHere(p)
  PROVE  LET me == proc[p]
             you == Onward(p)
         IN /\ you \in Process /\ you.parent = me.parent /\ you.prog = me.prog
            /\ you.state = "run" /\ you.children = me.children
            /\ IF me.n < Len(me.children) THEN you.n = me.n + 1 /\ you.pc = me.pc
               ELSE you.n = me.n /\ you.pc = me.pc + 1
<1> DEFINE me == proc[p]
<1>1. me \in Process /\ me.state = "run"
  BY AtTest DEF TestHere
<1>2. CASE me.n < Len(me.children)
  <2>1. Onward(p) = [me EXCEPT !.n = @ + 1]
    BY <1>2 DEF Onward
  <2> QED
    BY SMTT(30), <1>1, <1>2, <2>1 DEF Process
<1>3. CASE ~(me.n < Len(me.children))
  <2>1. Onward(p) = NextPc(p)
    BY <1>3 DEF Onward
  <2> QED
    BY <1>3, <2>1, NextPcIs
<1> QED
  BY <1>2, <1>3

(* How to show Awaits: nobody is left at the end, ...                      *)
LEMMA AwaitsNone ==
  ASSUME NEW you, NEW kids, kids = {}, Len(Text(you.prog)) \in Int,
         you.pc = Len(Text(you.prog))
  PROVE  Awaits(you, kids)
<1> DEFINE end == Len(Text(you.prog))
<1>1. ~(end < end) /\ ~(end < end - 1)
  OBVIOUS
<1> QED
  BY <1>1, Zenon DEF Awaits

(* ... or those who are left are counted at the wait loop.                 *)
LEMMA AwaitsLoop ==
  ASSUME NEW you, NEW kids, Len(Text(you.prog)) \in Int,
         you.pc = Len(Text(you.prog)) - 1, you.n \in 1..Len(you.children) + 1,
         you.prog.mode = "w" => Cardinality(kids) = Len(you.children) + 1 - you.n,
         you.prog.mode = "W" =>
           /\ \A i, j \in 1..Len(you.children) : you.children[i] = you.children[j] => i = j
           /\ kids = {you.children[i] : i \in you.n..Len(you.children)}
  PROVE  Awaits(you, kids)
<1>1. you.pc # Len(Text(you.prog)) /\ ~(you.pc < Len(Text(you.prog)) - 1)
  OBVIOUS
<1> QED
  BY <1>1, Zenon DEF Awaits

(* The loop over the PIDs goes on when child q was collected.              *)
LEMMA AwaitsNext ==
  ASSUME UInv, NEW p, TestHere(p), At(p).op = "waiteach", NEW q \in Kids(proc, p),
         proc[p].prog.mode = "W" =>
           (proc[p].n \in DOMAIN proc[p].children =>
              q = proc[p].children[proc[p].n])
  PROVE  Awaits(Onward(p), Kids(proc, p) \ {q})
<1> DEFINE me == proc[p]
           you == Onward(p)
           end == Len(Text(me.prog))
           kids == Kids(proc, p)
           K == kids \ {q}
           c == me.children
<1>1. /\ me.pc \in 1..end /\ end \in Nat /\ Awaits(me, kids) /\ c \in Seq(Pids)
      /\ At(p) \in GoOn /\ me.pc + 1 \in 1..end
  BY AtTest DEF Process, Ends
<1>2. /\ me.prog.name = "progI" => me.pc # end /\ me.pc + 1 # end
      /\ me.prog.mode \in {"w", "W"} => me.pc + 1 = end
  BY <1>1, AtWaiter
<1>3. IsFiniteSet(kids)
  <2>1. kids \subseteq DOMAIN proc /\ IsFiniteSet(DOMAIN proc)
    BY DEF Kids, UInv, Family
  <2> QED
    BY <2>1, FS_Subset
<1>0. end = Len(Text(you.prog))
  BY OnwardIs
<1> HIDE DEF kids, K
<1>4. /\ you.prog = me.prog /\ you.children = c
      /\ IF me.n < Len(c) THEN you.n = me.n + 1 /\ you.pc = me.pc
         ELSE you.n = me.n /\ you.pc = me.pc + 1
  BY OnwardIs
<1> HIDE DEF you
<1>5. q \in kids /\ IsFiniteSet(K) /\ Cardinality(K) = Cardinality(kids) - 1
      /\ Cardinality(K) \in Nat /\ Cardinality(kids) \in Nat
  BY <1>3, FS_RemoveElement, FS_CardinalityType DEF K, kids
<1> HIDE DEF end, c
<1>6. you.prog.name = "progI" /\ you.pc = end => K = {}
  BY <1>2, <1>4
<1> SUFFICES Awaits(you, K)
  BY DEF you, K, kids
<1>7. CASE me.prog.mode = "w"
  <2>0. me.pc = end - 1 /\ you.prog.mode = "w" /\ you.children = c
    BY <1>1, <1>2, <1>4, <1>7
  <2>1. me.n \in 1..Len(c) + 1 /\ Cardinality(kids) = Len(c) + 1 - me.n /\ Len(c) \in Nat
    BY <1>1, <2>0, <1>7 DEF Awaits, end, c
  <2>2. me.n \in 1..Len(c)
    BY <1>5, <2>1
  <2>3. CASE me.n < Len(c)
    <3>1. you.n = me.n + 1 /\ you.pc = end - 1
      BY <1>4, <2>0, <2>3
    <3>2. you.n \in 1..Len(c) + 1 /\ Cardinality(K) = Len(c) + 1 - you.n
      BY SMTT(30), <1>5, <2>1, <2>2, <3>1
    <3> QED
      BY <1>0, <1>1, <2>0, <3>1, <3>2, AwaitsLoop
  <2>4. CASE ~(me.n < Len(c))
    <3>0. you.pc = end
      BY <1>1, <1>4, <2>0, <2>4
    <3>1. Cardinality(K) = 0
      BY <1>5, <2>1, <2>2, <2>4
    <3>2. K = {}
      BY <1>5, <3>1, FS_EmptySet
    <3> QED
      BY <1>0, <1>1, <3>0, <3>2, AwaitsNone
  <2> QED
    BY <2>3, <2>4
<1>8. CASE me.prog.mode = "W"
  <2>0. me.pc = end - 1 /\ you.prog.mode = "W" /\ you.children = c
    BY <1>1, <1>2, <1>4, <1>8
  <2>1. /\ me.n \in 1..Len(c) + 1 /\ Len(c) \in Nat /\ DOMAIN c = 1..Len(c)
        /\ \A i, j \in 1..Len(c) : c[i] = c[j] => i = j
        /\ kids = {c[i] : i \in me.n..Len(c)}
    BY SMTT(30), <1>1, <2>0, <1>8 DEF Awaits, end, c
  <2>2. me.n \in 1..Len(c)
    <3>1. CASE me.n = Len(c) + 1
      BY <1>5, <2>1, <3>1
    <3> QED
      BY <2>1, <3>1
  <2>3. q = c[me.n]
    BY <1>8, <2>1, <2>2 DEF c
  <2>4. K = {c[i] : i \in me.n + 1..Len(c)}
    <3>1. ASSUME NEW x \in K PROVE \E i \in me.n + 1..Len(c) : x = c[i]
      <4>1. PICK i \in me.n..Len(c) : x = c[i]
        BY <2>1, <3>1 DEF K
      <4>2. i # me.n
        BY <2>3, <3>1, <4>1 DEF K
      <4> QED
        BY <2>1, <4>1, <4>2
    <3>2. ASSUME NEW i \in me.n + 1..Len(c) PROVE c[i] \in K
      <4>1. i \in me.n..Len(c) /\ i \in 1..Len(c) /\ i # me.n
        BY <2>1, <2>2
      <4>2. c[i] # q
        BY <2>1, <2>2, <2>3, <4>1
      <4> QED
        BY <2>1, <4>1, <4>2 DEF K
    <3> QED
      BY <3>1, <3>2
  <2>5. CASE me.n < Len(c)
    <3>0. you.n = me.n + 1 /\ you.pc = end - 1
      BY <1>4, <2>0, <2>5
    <3>1. you.n \in 1..Len(c) + 1
      BY <2>1, <2>2, <3>0
    <3>2. K = {c[i] : i \in you.n..Len(c)}
      BY <2>4, <3>0
    <3> QED
      <4>1. /\ \A i, j \in 1..Len(you.children) :
                  you.children[i] = you.children[j] => i = j
            /\ K = {you.children[i] : i \in you.n..Len(you.children)}
        BY <2>0, <2>1, <3>2
      <4>2. you.prog.mode # "w" /\ you.n \in 1..Len(you.children) + 1
        BY <2>0, <3>1
      <4>3. Len(Text(you.prog)) \in Int /\ you.pc = Len(Text(you.prog)) - 1
        BY <1>0, <1>1, <3>0
      <4> QED
        BY <4>1, <4>2, <4>3, AwaitsLoop
  <2>6. CASE ~(me.n < Len(c))
    <3>1. me.n = Len(c) /\ you.pc = end
      BY <1>1, <1>4, <2>0, <2>1, <2>2, <2>6
    <3>2. K = {}
      BY <2>1, <2>4, <3>1
    <3> QED
      BY <1>0, <1>1, <3>1, <3>2, AwaitsNone
  <2> QED
    BY <2>5, <2>6
<1>9. CASE me.prog.mode \notin {"w", "W"}
  <2>1. you.prog.mode \notin {"w", "W"}
    BY <1>4, <1>9
  <2> QED
    BY <1>0, <1>6, <2>1, Zenon DEF Awaits
<1> QED
  BY <1>7, <1>8, <1>9

LEMMA WaitEachKeeps ==
  ASSUME UInv, NEW p, TestHere(p), UNCHANGED <<static, input, lost>>,
         WaitEach(p, At(p))
  PROVE  UInv'
<1> DEFINE me == proc[p]
           next == NextPc(p)
           end == Len(Text(me.prog))
           kids == Kids(proc, p)
           c == me.children
<1>1. At(p).op = "waiteach" /\ At(p) \in GoOn
  BY AtTest DEF WaitEach, Ends
<1>2. /\ me \in Process /\ me.state = "run" /\ me.pc \in 1..end /\ me.pc + 1 \in 1..end
      /\ end \in Nat /\ Awaits(me, kids) /\ c \in Seq(Pids) /\ 0 \notin Pids
  BY <1>1, AtTest, UserlandAssumption DEF TestHere, Process
<1>3. /\ me.prog.name = "progI" => me.pc + 1 # end
      /\ me.prog.mode \in {"w", "W"} =>
           me.pc + 1 = end /\ At(p).bypid = (me.prog.mode # "w")
  BY <1>1, <1>2, AtWaiter
<1>4. Children(p) = kids
  BY DEF Children, Kids
<1>5. PICK pid \in (IF At(p).bypid THEN ChildAt(p, me.n) ELSE {0}) :
        \/ /\ (pid = 0 /\ Children(p) = {}) \/ (pid # 0 /\ pid \notin Children(p))
           /\ Step(p, NextPc(p))
        \/ \E q \in Zombies(p) : pid \in {0, q} /\ proc' = Collected(p, q, Onward(p))
  BY DEF WaitEach
<1>6. me.prog.mode = "w" => pid = 0
  BY <1>3, <1>5
<1>7. ASSUME me.prog.mode = "W", me.n \in DOMAIN c PROVE pid = c[me.n] /\ pid # 0
  <2>1. me.prog.mode \in {"w", "W"} /\ me.prog.mode # "w"
    BY <1>7
  <2>2. At(p).bypid
    BY <1>3, <2>1
  <2>3. pid \in ChildAt(p, me.n)
    BY <1>5, <2>2
  <2>4. ChildAt(p, me.n) = {c[me.n]}
    BY <1>7 DEF ChildAt
  <2>5. c[me.n] \in Pids
    BY <1>2, <1>7
  <2> QED
    BY <1>2, <2>3, <2>4, <2>5
<1> HIDE DEF next, kids, end
<1>8. CASE /\ (pid = 0 /\ Children(p) = {}) \/ (pid # 0 /\ pid \notin Children(p))
           /\ Step(p, NextPc(p))
  <2>1. /\ next \in Process /\ next.parent = proc[p].parent
        /\ next.prog = proc[p].prog /\ next.state = "run"
        /\ next.pc = proc[p].pc + 1
    BY NextPcIs DEF next
  <2>2. ASSUME me.prog.mode = "W" PROVE kids = {}
    <3> HIDE DEF c
    <3>1. /\ me.n \in 1..Len(c) + 1 /\ Len(c) \in Nat /\ DOMAIN c = 1..Len(c)
          /\ kids = {c[i] : i \in me.n..Len(c)}
      BY <1>2, <1>3, <2>2 DEF Awaits, end, c
    <3>2. CASE me.n \in 1..Len(c)
      <4>1. c[me.n] \in kids
        BY <3>1, <3>2
      <4> QED
        BY <1>4, <1>7, <1>8, <2>2, <3>1, <3>2, <4>1
    <3>3. CASE me.n = Len(c) + 1
      BY <3>1, <3>3
    <3> QED
      BY <3>1, <3>2, <3>3
  <2>3. me.prog.mode \in {"w", "W"} => kids = {}
    BY <1>4, <1>6, <1>8, <2>2
  <2>4. next.pc \in 1..Len(Text(next.prog)) /\ Len(Text(next.prog)) \in Nat
    BY <1>2, <2>1 DEF end
  <2>5. Awaits(next, kids)
    <3>1. CASE me.prog.mode \in {"w", "W"}
      <4>1. next.pc = Len(Text(next.prog))
        BY <1>2, <1>3, <2>1, <3>1 DEF end
      <4> QED
        BY <2>3, <2>4, <3>1, <4>1, AwaitsNone
    <3>2. CASE me.prog.mode \notin {"w", "W"}
      <4>1. next.prog.mode \notin {"w", "W"}
        BY <2>1, <3>2
      <4>2. next.prog.name = "progI" => next.pc # Len(Text(next.prog))
        BY <1>2, <1>3, <2>1 DEF end
      <4> QED
        BY <4>1, <4>2, Zenon DEF Awaits
    <3> QED
      BY <3>1, <3>2
  <2>6. Step(p, next)
    BY <1>8 DEF next
  <2> QED
    BY <2>1, <2>4, <2>5, <2>6, TestKeeps DEF kids
<1>9. CASE \E q \in Zombies(p) : pid \in {0, q} /\ proc' = Collected(p, q, Onward(p))
  <2>1. PICK q \in Zombies(p) : pid \in {0, q} /\ proc' = Collected(p, q, Onward(p))
    BY <1>9
  <2>2. q \in Kids(proc, p)
    BY DEF Zombies, Children, Kids
  <2>3. me.prog.mode = "W" => (me.n \in DOMAIN c => q = c[me.n])
    BY <1>7, <2>1
  <2>4. Awaits(Onward(p), Kids(proc, p) \ {q})
    BY <1>1, <2>2, <2>3, AwaitsNext
  <2>5. /\ Onward(p) \in Process /\ Onward(p).parent = me.parent /\ Onward(p).prog = me.prog
        /\ Onward(p).state = "run" /\ Onward(p).pc \in {me.pc, me.pc + 1}
    BY OnwardIs
  <2>6. Onward(p).pc \in 1..Len(Text(Onward(p).prog))
    BY <1>2, <2>5 DEF end
  <2> QED
    BY <2>1, <2>4, <2>5, <2>6, TestCollects
<1> QED
  BY <1>5, <1>8, <1>9

LEMMA ProgramKeeps ==
  ASSUME UInv, PidsLeft, NEW p \in DOMAIN proc, Program(p)
  PROVE  UInv'
<1>1. TestHere(p) /\ UNCHANGED <<static, input, lost>>
  BY DEF Program, TestHere, IsTest
<1>2. \/ DoTurn(p, At(p)) \/ DoGoto(p, At(p)) \/ DoExit(p, At(p)) \/ spawn(p, At(p))
      \/ ForkR(p, At(p)) \/ KillChild(p, At(p)) \/ WaitAll(p, At(p)) \/ WaitEach(p, At(p))
      \/ KillEach(p, At(p))
  BY Zenon DEF Program
<1> QED
  BY <1>1, <1>2, TurnKeeps, GotoKeeps, ExitKeeps, SpawnKeeps, ForkKeeps, KillChildKeeps,
     WaitAllKeeps, WaitEachKeeps, KillEachKeeps

-----------------------------------------------------------------------------
(* The line and its commands.                                              *)

LEMMA FirstIs ==
  ASSUME NEW X, NEW s \in Seq(X), NEW c, Has(s, c)
  PROVE  /\ FirstOf(s, c) \in 1..Len(s) /\ s[FirstOf(s, c)] = c
         /\ \A j \in 1..FirstOf(s, c) - 1 : s[j] # c
<1> DEFINE there == {i \in DOMAIN s : s[i] = c}
           P(i) == s[i] = c /\ \A j \in 1..i-1 : s[j] # c
<1>1. DOMAIN s = 1..Len(s) /\ Len(s) \in Nat
  OBVIOUS
<1>2. there \subseteq Nat /\ there # {}
  BY <1>1 DEF Has
<1>3. PICK i \in there : \A j \in there : i <= j
  BY <1>2, LeastNat
<1>4. \E n \in DOMAIN s : P(n)
  <2>1. i \in DOMAIN s /\ s[i] = c /\ i \in 1..Len(s)
    BY <1>1, <1>3
  <2>2. \A j \in 1..i-1 : s[j] # c
    <3>1. ASSUME NEW j \in 1..i-1 PROVE j \in DOMAIN s /\ ~(i <= j)
      BY <1>1, <2>1
    <3> QED
      BY <1>3, <3>1
  <2> QED
    BY <2>1, <2>2
<1>5. FirstOf(s, c) = CHOOSE n \in DOMAIN s : P(n)
  BY Zenon DEF FirstOf
<1> HIDE DEF P
<1>6. FirstOf(s, c) \in DOMAIN s /\ P(FirstOf(s, c))
  BY <1>4, <1>5, Zenon
<1> QED
  BY <1>1, <1>6 DEF P

LEMMA EditIs ==
  ASSUME NEW X, NEW s \in Seq(X)
  PROVE  /\ edit(s) \in 0..Len(s)
         /\ edit(s) # 0 => s[edit(s)] \notin {NL, CR}
         /\ \A i \in 1..Len(s) : edit(s) < i => s[i] \in {NL, CR}
<1> DEFINE kept == {i \in DOMAIN s : s[i] \notin {NL, CR}}
<1>1. DOMAIN s = 1..Len(s) /\ Len(s) \in Nat
  OBVIOUS
<1>2. edit(s) = IF kept = {} THEN 0 ELSE CHOOSE i \in kept : \A j \in kept : j <= i
  BY DEF edit
<1>3. kept \subseteq Nat /\ \A i \in kept : i < Len(s) + 1
  BY <1>1
<1>4. CASE kept = {}
  BY <1>1, <1>2, <1>4
<1>5. CASE kept # {}
  <2> HIDE DEF kept
  <2>1. \E i \in kept : \A j \in kept : j <= i
    <3>1. Len(s) + 1 \in Nat
      BY <1>1
    <3> QED
      BY <1>3, <1>5, <3>1, GreatestBelow
  <2>2. edit(s) \in kept /\ \A j \in kept : j <= edit(s)
    BY <1>2, <1>5, <2>1
  <2>3. \A i \in 1..Len(s) : edit(s) < i => i \notin kept
    <3>1. ASSUME NEW i \in 1..Len(s), edit(s) < i, i \in kept PROVE FALSE
      <4>1. i <= edit(s) /\ edit(s) \in Nat /\ i \in Nat
        BY <1>3, <2>2, <3>1
      <4> QED
        BY <3>1, <4>1
    <3> QED
      BY <3>1
  <2> QED
    BY <1>1, <2>2, <2>3 DEF kept
<1> QED
  BY <1>4, <1>5

LEMMA CommandsType ==
  ASSUME NEW X, NEW line \in Seq(X)
  PROVE  Commands(line) \in Seq(X)
<1> DEFINE n == edit(line)
           text == SubSeq(line, 1, n)
           f == FirstOf(text, "@")
           after == SubSeq(text, f + 1, n)
           g == FirstOf(after, NUL)
<1>1. n \in 0..Len(line) /\ Len(line) \in Nat
  BY EditIs
<1>2. Commands(line) = IF Len(line) < 3 \/ n < 2 \/ ~Has(text, "@") THEN <<>>
                       ELSE IF Has(after, NUL) THEN SubSeq(after, 1, g - 1) ELSE after
  BY DEF Commands
<1>3. \A i \in 1..Len(line) : line[i] \in X
  OBVIOUS
<1> HIDE DEF n, text, f, after, g
<1>4. text \in Seq(X) /\ Len(text) = n
  BY <1>1, <1>3, SubSeqProperties DEF text
<1>5. CASE Has(text, "@")
  <2>1. f \in 1..n
    BY <1>4, <1>5, FirstIs DEF f
  <2>2. after \in Seq(X)
    <3>1. f + 1 \in Int /\ n \in Int /\ \A i \in f + 1..n : text[i] \in X
      BY <1>1, <1>4, <2>1
    <3> QED
      BY <3>1, SubSeqProperties DEF after
  <2>3. Has(after, NUL) => SubSeq(after, 1, g - 1) \in Seq(X)
    <3>1. ASSUME Has(after, NUL) PROVE g \in 1..Len(after)
      BY <2>2, <3>1, FirstIs DEF g
    <3>2. ASSUME Has(after, NUL) PROVE g - 1 \in Int /\ \A i \in 1..g - 1 : after[i] \in X
      BY <2>2, <3>1, <3>2
    <3> QED
      BY <3>2, SubSeqProperties
  <2> QED
    BY <1>2, <2>2, <2>3
<1>6. CASE ~Has(text, "@")
  BY <1>2, <1>6
<1> QED
  BY <1>5, <1>6

LEMMA TerminatedIs ==
  ASSUME NEW buf \in Seq(Typed), NEW chunk \in Seq(Typed)
  PROVE  LET line == Terminated(buf, chunk) IN
         /\ line \in Seq(Typed) /\ Len(line) = Len(buf) + Len(chunk)
         /\ \A i \in 1..Len(line) : line[i] \in {NUL, (buf \o chunk)[i]}
<1> DEFINE all == buf \o chunk
           ptr == IF Has(chunk, NL) THEN Len(buf) + FirstOf(chunk, NL) ELSE Len(all)
           line == Terminated(buf, chunk)
<1>1. all \in Seq(Typed) /\ Len(all) = Len(buf) + Len(chunk)
  BY ConcatProperties
<1>2. line = [i \in DOMAIN all |-> IF i = ptr + 1 THEN NUL ELSE all[i]]
  BY DEF Terminated
<1> HIDE DEF all, ptr, line
<1>3. NUL \in Typed
  BY DEF Typed, NUL, CR
<1>4. DOMAIN all = 1..Len(all) /\ Len(all) \in Nat /\ \A i \in 1..Len(all) : all[i] \in Typed
  BY <1>1
<1>5. line \in [1..Len(all) -> Typed]
  BY <1>2, <1>3, <1>4
<1>6. line \in Seq(Typed) /\ Len(line) = Len(all)
  BY <1>4, <1>5
<1> QED
  BY <1>1, <1>2, <1>4, <1>6 DEF line, all

-----------------------------------------------------------------------------
(* The shell.                                                              *)

LEMMA AtShell ==
  ASSUME UInv, NEW p \in DOMAIN proc, NEW pc, InShell(p, pc)
  PROVE  /\ p # INIT /\ p \in Pids /\ proc[p] \in Process /\ proc[p].state = "run"
         /\ proc[p].prog.name = "shell" /\ ~IsTest(proc[p].prog)
         /\ proc[p].sh \in ShLocals /\ proc[p].sh.pc = pc
         /\ Counts(proc[p], Kids(proc, p), static.children, lost)
         /\ IsFiniteSet(Kids(proc, p)) /\ Cardinality(Kids(proc, p)) \in Nat
         /\ static.children \in Nat
<1>1. /\ proc[p].state = "run" /\ proc[p].prog.name = "shell" /\ proc[p].sh.pc = pc
      /\ ~IsTest(proc[p].prog)
  BY DEF InShell, IsTest
<1>2. p # INIT
  <2>1. proc[INIT].prog.name = "init"
    BY ProgName DEF UInv, Family
  <2> QED
    BY <1>1, <2>1
<1>3. p \in Pids /\ proc[p] \in Process /\ proc[p].sh \in ShLocals
  BY DEF UInv, Family, Process
<1>4. Counts(proc[p], Kids(proc, p), static.children, lost)
  <2>1. Knows(proc, p, static.children, lost)
    BY DEF UInv
  <2> QED
    BY <1>1, <2>1 DEF Knows, KnowsOf
<1>5. IsFiniteSet(Kids(proc, p)) /\ Cardinality(Kids(proc, p)) \in Nat
  <2>1. Kids(proc, p) \subseteq DOMAIN proc /\ IsFiniteSet(DOMAIN proc)
    BY DEF Kids, UInv, Family
  <2> QED
    BY <2>1, FS_Subset, FS_CardinalityType
<1>6. static.children \in Nat
  BY DEF UInv, Statics
<1> QED
  BY <1>1, <1>2, <1>3, <1>4, <1>5, <1>6

LEMMA ShellToIs ==
  ASSUME NEW p, proc[p] \in Process, NEW sh \in ShLocals
  PROVE  LET me == ShellTo(p, sh) IN
         /\ me \in Process /\ me.parent = proc[p].parent /\ me.prog = proc[p].prog
         /\ me.state = proc[p].state /\ me.sh = sh /\ me.pc = proc[p].pc
BY DEF ShellTo, Process

(* The shell goes on with the locals sh.                                   *)
LEMMA ShellKeeps ==
  ASSUME UInv, NEW p \in DOMAIN proc, NEW pc, InShell(p, pc), NEW sh \in ShLocals,
         Step(p, ShellTo(p, sh)), sh.pc \in {"loop", "read"} => Kids(proc, p) = {},
         Statics(static'), static'.in_spawn_table = static.in_spawn_table,
         static'.children = static.children, Inputs(input'), lost' = lost
  PROVE  UInv'
<1> DEFINE me == ShellTo(p, sh)
<1>1. /\ p # INIT /\ proc[p] \in Process /\ proc[p].state = "run" /\ ~IsTest(proc[p].prog)
      /\ Counts(proc[p], Kids(proc, p), static.children, lost)
  BY AtShell
<1>2. /\ me \in Process /\ me.parent = proc[p].parent /\ me.prog = proc[p].prog
      /\ me.state = "run" /\ me.sh = sh
  BY <1>1, ShellToIs
<1>3. Step(p, me)
  OBVIOUS
<1> HIDE DEF me
<1>4. Counts(me, Kids(proc, p), static.children, lost)
  BY <1>1, <1>2 DEF Counts
<1>5. ~IsTest(me.prog)
  BY <1>1, <1>2
<1>6. KnowsOf(me, Kids(proc, p), static.children, lost)
  BY <1>4, <1>5 DEF KnowsOf
<1> QED
  BY <1>1, <1>2, <1>3, <1>5, <1>6, StepKeeps

LEMMA ShellLoopKeeps ==
  ASSUME UInv, NEW p \in DOMAIN proc, ShellLoop(p)
  PROVE  UInv'
<1>1. /\ InShell(p, "loop") /\ static' = static /\ input' = input /\ lost' = lost
  BY DEF ShellLoop
<1>2. Kids(proc, p) = {} /\ p # INIT /\ proc[p].prog.name = "shell"
  BY <1>1, AtShell DEF Counts
<1>3. ~lost => static.children = 0
  <2>1. ~lost => static.children = Cardinality(Kids(proc, p))
    BY <1>1, AtShell DEF Counts
  <2> QED
    BY <1>2, <2>1, FS_EmptySet
<1>4. lost \in BOOLEAN /\ Statics(static) /\ Inputs(input)
  BY DEF UInv
<1>5. CASE static.time_to_stop
  <2>1. proc' = Ended(p, 1)
    BY <1>5 DEF ShellLoop
  <2> QED
    BY <1>1, <1>2, <1>3, <1>4, <2>1, EndKeeps
<1>6. CASE ~static.time_to_stop
  <2> DEFINE sh == [pc |-> "read", buf |-> <<>>, cmds |-> <<>>, todo |-> <<>>]
  <2>1. Step(p, ShellTo(p, sh))
    BY <1>6 DEF ShellLoop
  <2>2. sh \in ShLocals
    BY DEF ShLocals
  <2> HIDE DEF sh
  <2> QED
    BY <1>1, <1>2, <1>4, <2>1, <2>2, ShellKeeps
<1> QED
  BY <1>5, <1>6

LEMMA ReadlineKeeps ==
  ASSUME UInv, NEW p \in DOMAIN proc, readline(p)
  PROVE  UInv'
<1> DEFINE sh == proc[p].sh
           n == Min(LINE - 1 - Len(sh.buf), Len(input.typed))
           chunk == SubSeq(input.typed, 1, n)
           line == Terminated(sh.buf, chunk)
           done == Has(chunk, NL) \/ Len(line) = LINE - 1
           cmds == IF done THEN Commands(line) ELSE <<>>
           pc == IF done THEN "run" ELSE "read"
           you == [sh EXCEPT !.buf = line, !.cmds = cmds, !.pc = pc]
<1>1. /\ InShell(p, "read") /\ n > 0
      /\ input' = [input EXCEPT !.typed = SubSeq(@, n + 1, Len(@))]
      /\ Step(p, ShellTo(p, you)) /\ static' = static /\ lost' = lost
  BY DEF readline
<1>2. /\ sh \in ShLocals /\ sh.buf \in Seq(Typed) /\ Len(sh.buf) \in Nat
      /\ input.typed \in Seq(Typed) /\ Len(input.typed) \in Nat
      /\ Inputs(input) /\ Statics(static) /\ LINE \in Nat
  BY SMTT(30), <1>1, AtShell, UserlandAssumption DEF UInv, Inputs, ShLocals
<1>3. n \in Int /\ n <= Len(input.typed)
  <2> DEFINE a == LINE - 1 - Len(sh.buf)
             b == Len(input.typed)
  <2>1. a \in Int /\ b \in Int
    BY <1>2
  <2> HIDE DEF a, b
  <2>2. Min(a, b) \in Int /\ Min(a, b) <= b
    BY <2>1 DEF Min
  <2> QED
    BY <2>2 DEF a, b
<1> HIDE DEF n, sh
<1>4. chunk \in Seq(Typed)
  <2>1. \A i \in 1..n : input.typed[i] \in Typed
    BY <1>2, <1>3
  <2> QED
    BY <1>3, <2>1, SubSeqProperties
<1> HIDE DEF chunk
<1>5. line \in Seq(Typed)
  BY <1>2, <1>4, TerminatedIs
<1> HIDE DEF line
<1>6. cmds \in Seq(Typed) /\ pc \in {"run", "read"}
  BY <1>5, CommandsType
<1> HIDE DEF cmds, pc
<1>7. you \in ShLocals
  BY <1>2, <1>5, <1>6 DEF ShLocals
<1>8. Inputs(input')
  <2>1. SubSeq(input.typed, n + 1, Len(input.typed)) \in Seq(Typed)
    <3>1. n + 1 \in Int /\ \A i \in n + 1..Len(input.typed) : input.typed[i] \in Typed
      BY <1>1, <1>2, <1>3
    <3> QED
      BY <1>2, <3>1, SubSeqProperties
  <2> QED
    BY <1>1, <1>2, <2>1 DEF Inputs
<1> HIDE DEF you
<1>9. Kids(proc, p) = {}
  BY <1>1, AtShell DEF Counts
<1> QED
  BY <1>1, <1>2, <1>7, <1>8, <1>9, ShellKeeps

LEMMA RunKeeps ==
  ASSUME UInv, NEW p \in DOMAIN proc, run(p)
  PROVE  UInv'
<1> DEFINE sh == proc[p].sh
           c == LCASE(Head(sh.cmds))
           all == [i \in DOMAIN Entries |-> Entries[i].prog]
           one == <<Entries[CHOOSE i \in Found(c) : \A j \in Found(c) : i <= j].prog>>
           todo == CASE c = "*" -> all
                     [] c \in {"h", "@", "x"} \/ Found(c) = {} -> <<>>
                     [] OTHER -> one
           cmds == IF c = "x" THEN <<>> ELSE Tail(sh.cmds)
           you == [sh EXCEPT !.cmds = cmds, !.todo = todo]
<1>1. /\ InShell(p, "run") /\ sh.cmds # <<>>
      /\ Step(p, ShellTo(p, [sh EXCEPT !.cmds = IF c = "x" THEN <<>> ELSE Tail(@),
                                       !.todo = todo]))
      /\ static' = [static EXCEPT !.time_to_stop = @ \/ c = "x"]
      /\ input' = input /\ lost' = lost
  BY DEF run
<1>2. /\ sh \in ShLocals /\ sh.cmds \in Seq(Typed) /\ sh.pc = "run"
      /\ Inputs(input) /\ Statics(static)
      /\ Entries \in Seq([select : STRING, prog : TestProgs])
  <2>1. Statics(static) /\ Inputs(input) /\ sh \in ShLocals /\ sh.pc = "run"
    BY <1>1, AtShell DEF UInv
  <2> HIDE DEF sh
  <2>2. sh.cmds \in Seq(Typed)
    BY <2>1 DEF ShLocals
  <2>3. Entries \in Seq([select : STRING, prog : TestProgs])
    BY <2>1 DEF Statics, Entries
  <2> QED
    BY <2>1, <2>2, <2>3
<1>3. [sh EXCEPT !.cmds = IF c = "x" THEN <<>> ELSE Tail(@), !.todo = todo] = you
  <2> HIDE DEF todo, c
  <2> QED
    BY <1>2 DEF ShLocals
<1>4. cmds \in Seq(Typed)
  BY SMTT(30), <1>1, <1>2
<1>5. todo \in Seq(TestProgs)
  <2>1. DOMAIN Entries = 1..Len(Entries) /\ Len(Entries) \in Nat
        /\ \A i \in 1..Len(Entries) : Entries[i].prog \in TestProgs
    <3> DEFINE X == [select : STRING, prog : TestProgs]
    <3>1. \A x \in X : x.prog \in TestProgs
      OBVIOUS
    <3>2. Entries \in Seq(X)
      BY <1>2
    <3> HIDE DEF X
    <3>3. DOMAIN Entries = 1..Len(Entries) /\ Len(Entries) \in Nat
          /\ \A i \in 1..Len(Entries) : Entries[i] \in X
      BY <3>2
    <3> QED
      BY <3>1, <3>3
  <2>2. all \in Seq(TestProgs)
    <3>1. all \in [1..Len(Entries) -> TestProgs]
      BY <2>1
    <3> QED
      BY <2>1, <3>1
  <2>3. ASSUME Found(c) # {} PROVE one \in Seq(TestProgs)
    <3> DEFINE F0 == Found(c)
               i0 == CHOOSE i \in F0 : \A j \in F0 : i <= j
    <3>1. F0 \subseteq DOMAIN Entries
      BY DEF Found
    <3>2. F0 \subseteq Nat
      BY <2>1, <3>1
    <3>3. F0 # {}
      BY <2>3
    <3> HIDE DEF F0
    <3>4. \E i \in F0 : \A j \in F0 : i <= j
      BY <3>2, <3>3, LeastNat
    <3>5. i0 \in F0
      BY <3>4, Zenon
    <3>6. one = <<Entries[i0].prog>>
      BY DEF F0
    <3> HIDE DEF i0, one
    <3> QED
      BY <2>1, <3>1, <3>5, <3>6
  <2>4. <<>> \in Seq(TestProgs)
    OBVIOUS
  <2> HIDE DEF all, one, c
  <2>5. CASE c = "*"
    BY <2>2, <2>5
  <2>6. CASE c # "*" /\ (c \in {"h", "@", "x"} \/ Found(c) = {})
    BY <2>4, <2>6
  <2>7. CASE c # "*" /\ ~(c \in {"h", "@", "x"} \/ Found(c) = {})
    BY <2>3, <2>7
  <2> QED
    BY <2>5, <2>6, <2>7
<1> DEFINE stop == static.time_to_stop \/ c = "x"
<1>6. static' = [static EXCEPT !.time_to_stop = stop] /\ stop \in BOOLEAN
  BY <1>1, <1>2 DEF Statics
<1> HIDE DEF sh, c, todo, cmds, stop
<1>7. you \in ShLocals /\ you.pc = "run"
  BY <1>2, <1>4, <1>5 DEF ShLocals
<1>8. /\ Statics(static') /\ static'.in_spawn_table = static.in_spawn_table
      /\ static'.children = static.children
  BY <1>2, <1>6 DEF Statics
<1>9. Step(p, ShellTo(p, you))
  BY <1>1, <1>3
<1> HIDE DEF you
<1>10. Inputs(input')
  BY <1>1, <1>2
<1> QED
  BY <1>1, <1>7, <1>8, <1>9, <1>10, ShellKeeps

LEMMA ShellSpawnKeeps ==
  ASSUME UInv, PidsLeft, NEW p \in DOMAIN proc, ShellSpawn(p)
  PROVE  UInv'
<1> DEFINE sh == proc[p].sh
           you == [sh EXCEPT !.todo = Tail(@)]
           me == ShellTo(p, you)
           kids == Kids(proc, p)
<1>1. /\ InShell(p, "run") /\ sh.todo # <<>>
      /\ IF Room
         THEN proc' = Born([proc EXCEPT ![p] = me], NewPid, Child(p, Head(sh.todo)))
         ELSE Step(p, me)
      /\ static' = [static EXCEPT !.children = Counted(@, Room)]
      /\ input' = input /\ lost' = lost
  BY DEF ShellSpawn
<1>2. /\ p # INIT /\ p \in Pids /\ proc[p] \in Process /\ proc[p].state = "run"
      /\ proc[p].prog.name = "shell" /\ ~IsTest(proc[p].prog)
      /\ sh \in ShLocals /\ sh.pc = "run" /\ Counts(proc[p], kids, static.children, lost)
      /\ IsFiniteSet(kids) /\ Cardinality(kids) \in Nat /\ static.children \in Nat
  BY <1>1, AtShell
<1>3. Statics(static) /\ Inputs(input)
  BY DEF UInv
<1>4. sh.todo \in Seq(TestProgs)
  BY <1>2 DEF ShLocals
<1>5. Head(sh.todo) \in TestProgs /\ Tail(sh.todo) \in Seq(TestProgs)
  BY <1>1, <1>4
<1>6. you \in ShLocals /\ you.pc = "run"
  <2> HIDE DEF sh
  <2> QED
    BY <1>2, <1>5 DEF ShLocals
<1>7. /\ me \in Process /\ me.parent = proc[p].parent /\ me.prog = proc[p].prog
      /\ me.state = "run" /\ me.sh = you
  BY <1>2, <1>6, ShellToIs
<1> HIDE DEF me, you
<1>8. CASE Room
  <2> DEFINE child == Child(p, Head(sh.todo))
  <2>1. proc' = Born([proc EXCEPT ![p] = me], NewPid, child)
    BY <1>1, <1>8
  <2>2. Head(sh.todo) \in ProgSet /\ IsTest(Head(sh.todo))
    BY <1>5 DEF ProgSet, IsTest, TestProgs
  <2>3. /\ child \in Process /\ child.parent = p /\ IsTest(child.prog)
        /\ child.state = "exec" /\ child.pc = 1 /\ child.n = 1 /\ child.children = <<>>
    BY <1>2, <2>2, ChildIs
  <2> HIDE DEF child
  <2>4. child.prog.name # "init"
    BY <2>3 DEF IsTest
  <2>5. Grows(proc, proc', p, NewPid, me, child) /\ NewPid \notin kids
    BY <1>2, <1>7, <2>1, <2>3, <2>4, BornGrows
  <2>6. static' = [static EXCEPT !.children = static.children + 1]
    BY <1>1, <1>8 DEF Counted
  <2>7. /\ Statics(static') /\ static'.in_spawn_table = static.in_spawn_table
        /\ static'.children = static.children + 1
    BY <1>2, <1>3, <2>6 DEF Statics
  <2>8. Cardinality(kids \cup {NewPid}) = Cardinality(kids) + 1
    BY <1>2, <2>5, FS_AddElement
  <2>9. Counts(me, kids \cup {NewPid}, static'.children, lost)
    <3> HIDE DEF kids
    <3>1. Cardinality(kids) <= static.children
          /\ (~lost => static.children = Cardinality(kids))
      BY <1>2 DEF Counts
    <3>2. /\ Cardinality(kids \cup {NewPid}) <= static'.children
          /\ (~lost => static'.children = Cardinality(kids \cup {NewPid}))
      BY <1>2, <2>7, <2>8, <3>1
    <3>3. me.sh.pc = "run"
      BY <1>6, <1>7
    <3> QED
      BY <3>2, <3>3 DEF Counts
  <2>10. ~IsTest(me.prog)
    BY <1>2, <1>7
  <2>11. KnowsOf(me, Kids(proc, p) \cup {NewPid}, static'.children, lost)
    BY <2>9, <2>10 DEF KnowsOf
  <2> QED
    BY <1>1, <1>2, <2>3, <2>5, <2>7, <2>11, BirthKeeps
<1>9. CASE ~Room
  <2>1. Step(p, ShellTo(p, you))
    BY <1>1, <1>9 DEF me
  <2>2. static' = [static EXCEPT !.children = static.children]
    BY <1>1, <1>9 DEF Counted
  <2>3. /\ Statics(static') /\ static'.in_spawn_table = static.in_spawn_table
        /\ static'.children = static.children
    BY <1>2, <1>3, <2>2 DEF Statics
  <2>4. Inputs(input') /\ lost' = lost
    BY <1>1, <1>3
  <2> QED
    BY <1>1, <1>6, <2>1, <2>3, <2>4, ShellKeeps
<1> QED
  BY <1>8, <1>9

LEMMA ShellRanKeeps ==
  ASSUME UInv, NEW p \in DOMAIN proc, ShellRan(p)
  PROVE  UInv'
<1> DEFINE sh == proc[p].sh
           you == [sh EXCEPT !.pc = "wait"]
<1>1. /\ InShell(p, "run") /\ Step(p, ShellTo(p, you))
      /\ static' = static /\ input' = input /\ lost' = lost
  BY DEF ShellRan
<1>2. sh \in ShLocals /\ Statics(static) /\ Inputs(input)
  BY <1>1, AtShell DEF UInv
<1> HIDE DEF sh
<1>3. you \in ShLocals /\ you.pc = "wait"
  BY <1>2 DEF ShLocals
<1> HIDE DEF you
<1> QED
  BY <1>1, <1>2, <1>3, ShellKeeps

LEMMA ShellWaitKeeps ==
  ASSUME UInv, NEW p \in DOMAIN proc, ShellWait(p)
  PROVE  UInv'
<1> DEFINE sh == proc[p].sh
           you == [sh EXCEPT !.pc = "loop", !.buf = <<>>]
           kids == Kids(proc, p)
           me == proc[p]
<1>1. InShell(p, "wait") /\ input' = input /\ lost' = lost
  BY DEF ShellWait
<1>2. /\ p # INIT /\ p \in Pids /\ me \in Process /\ me.state = "run"
      /\ me.prog.name = "shell" /\ ~IsTest(me.prog)
      /\ sh \in ShLocals /\ sh.pc = "wait" /\ Counts(me, kids, static.children, lost)
      /\ IsFiniteSet(kids) /\ Cardinality(kids) \in Nat /\ static.children \in Nat
  BY <1>1, AtShell
<1>3. Statics(static) /\ Inputs(input) /\ Children(p) = kids
  BY DEF UInv, Children, Kids
<1>4. CASE WaitOver(p)
  <2>1. Step(p, ShellTo(p, you)) /\ static' = static
    BY <1>4 DEF ShellWait
  <2> HIDE DEF sh
  <2>2. you \in ShLocals
    <3>1. sh \in ShLocals /\ <<>> \in Seq(Typed) /\ "loop" \in {"loop", "read", "run", "wait"}
      BY <1>2
    <3> QED
      BY <3>1 DEF ShLocals
  <2> HIDE DEF you
  <2>3. kids = {}
    <3>1. CASE static.children <= 0
      <4> HIDE DEF kids
      <4>1. Cardinality(kids) <= static.children
        BY <1>2 DEF Counts
      <4>2. Cardinality(kids) = 0
        BY <1>2, <3>1, <4>1
      <4> QED
        BY <1>2, <4>2, FS_EmptySet
    <3>2. CASE Children(p) = {}
      BY <1>3, <3>2
    <3> QED
      BY <1>4, <3>1, <3>2 DEF WaitOver
  <2> QED
    BY <1>1, <1>3, <2>1, <2>2, <2>3, ShellKeeps
<1>5. CASE ~WaitOver(p)
  <2>1. PICK q \in Zombies(p) : /\ proc' = Collected(p, q, me)
                                /\ static' = [static EXCEPT !.children = @ - 1]
    BY <1>5 DEF ShellWait
  <2>2. static.children - 1 \in Nat
    BY <1>2, <1>5 DEF WaitOver
  <2>3. /\ Statics(static') /\ static'.in_spawn_table = static.in_spawn_table
        /\ static'.children = static.children - 1
    BY <1>3, <2>1, <2>2 DEF Statics
  <2>4. Shrinks(proc, proc', p, q, me) /\ q \in kids
    BY <1>2, <2>1, CollectedShrinks
  <2>5. Cardinality(kids \ {q}) = Cardinality(kids) - 1
    BY <1>2, <2>4, FS_RemoveElement
  <2>6. Counts(me, kids \ {q}, static'.children, lost)
    <3> HIDE DEF kids
    <3>1. Cardinality(kids) <= static.children
          /\ (~lost => static.children = Cardinality(kids))
      BY <1>2 DEF Counts
    <3>2. /\ Cardinality(kids \ {q}) <= static'.children
          /\ (~lost => static'.children = Cardinality(kids \ {q}))
      BY <1>2, <2>3, <2>5, <3>1
    <3>3. me.sh.pc = "wait"
      BY <1>2
    <3> QED
      BY <3>2, <3>3 DEF Counts
  <2>7. KnowsOf(me, Kids(proc, p) \ {q}, static'.children, lost)
    BY <1>2, <2>6 DEF KnowsOf
  <2> QED
    BY <1>1, <1>2, <2>3, <2>4, <2>7, CollectKeeps
<1> QED
  BY <1>4, <1>5

LEMMA DiesKeeps ==
  ASSUME UInv, NEW p \in DOMAIN proc, Dies(p)
  PROVE  UInv'
<1>1. /\ proc[p].killed /\ proc' = Ended(p, EXIT_KILLED)
      /\ lost' = (lost \/ proc[p].prog.name = "shell")
      /\ static' = static /\ input' = input
  BY DEF Dies
<1>2. p # INIT
  BY <1>1 DEF UInv, Family
<1>3. EXIT_KILLED \in Int /\ lost \in BOOLEAN
  BY DEF EXIT_KILLED, UInv
<1>4. lost' \in BOOLEAN /\ (lost => lost')
  BY <1>1, <1>3
<1>5. proc[p].prog.name # "shell" => lost' = lost
  BY <1>1, <1>3
<1>6. proc[p].prog.name = "shell" => lost'
  BY <1>1
<1> QED
  BY <1>1, <1>2, <1>3, <1>4, <1>5, <1>6, EndKeeps

LEMMA TypesKeeps ==
  ASSUME UInv, Types
  PROVE  UInv'
<1>1. /\ input.coming # <<>> /\ proc' = proc /\ static' = static /\ lost' = lost
      /\ input' = [typed |-> Append(input.typed, Head(input.coming)),
                   coming |-> Tail(input.coming)]
  BY DEF Types
<1>2. input.typed \in Seq(Typed) /\ input.coming \in Seq(Typed)
  BY DEF UInv, Inputs
<1>3. Inputs(input')
  BY <1>1, <1>2 DEF Inputs
<1> QED
  BY <1>1, <1>3 DEF UInv

-----------------------------------------------------------------------------
(* init.                                                                   *)

LEMMA AtInit ==
  ASSUME UInv
  PROVE  /\ INIT \in DOMAIN proc /\ INIT \in Pids /\ proc[INIT] \in Process
         /\ proc[INIT].state = "run" /\ proc[INIT].prog = Prog("init", 0)
         /\ proc[INIT].prog.name = "init" /\ ~IsTest(proc[INIT].prog)
         /\ ~proc[INIT].killed /\ proc[INIT].parent = INIT
         /\ Table \in [1..2 -> [prog : ProgSet, pid : Nat]]
         /\ DOMAIN Table = 1..2 /\ Len(Table) = 2
         /\ Table[1].prog = Prog("idle", 0) /\ Table[2].prog = Prog("shell", 0)
         /\ Table[1].prog.name = "idle" /\ Table[2].prog.name = "shell"
         /\ 0 \notin DOMAIN proc
<1>1. /\ INIT \in DOMAIN proc /\ INIT \in Pids /\ proc[INIT] \in Process
      /\ proc[INIT].state = "run" /\ proc[INIT].prog = Prog("init", 0)
      /\ ~proc[INIT].killed /\ proc[INIT].parent = INIT /\ DOMAIN proc \subseteq Pids
  BY DEF UInv, Family
<1>2. /\ Table \in [1..2 -> [prog : ProgSet, pid : Nat]]
      /\ Table[1].prog = Prog("idle", 0) /\ Table[2].prog = Prog("shell", 0)
  BY DEF UInv, TableKept, Table
<1>3. DOMAIN Table = 1..2 /\ Len(Table) = 2
  BY <1>2
<1>4. /\ proc[INIT].prog.name = "init"
      /\ Table[1].prog.name = "idle" /\ Table[2].prog.name = "shell"
  BY <1>1, <1>2, ProgName
<1>5. 0 \notin Pids
  BY UserlandAssumption
<1> QED
  BY <1>1, <1>2, <1>3, <1>4, <1>5 DEF IsTest

(* The PID of entry i is set.                                              *)
SetPid(i, pid) == [Table EXCEPT ![i] = [Table[i] EXCEPT !.pid = pid]]

LEMMA SetPidIs ==
  ASSUME UInv, NEW i \in 1..2, NEW pid \in Nat
  PROVE  LET tab == SetPid(i, pid) IN
         /\ tab \in [1..2 -> [prog : ProgSet, pid : Nat]]
         /\ tab[1].prog = Table[1].prog /\ tab[2].prog = Table[2].prog
         /\ tab[i].pid = pid /\ \A j \in 1..2 : j # i => tab[j] = Table[j]
         /\ Statics([static EXCEPT !.in_spawn_table = tab])
         /\ [static EXCEPT !.in_spawn_table = tab].in_spawn_table = tab
         /\ [static EXCEPT !.in_spawn_table = tab].children = static.children
<1> DEFINE tab == SetPid(i, pid)
           e == [Table[i] EXCEPT !.pid = pid]
<1>1. Table \in [1..2 -> [prog : ProgSet, pid : Nat]]
  BY AtInit
<1>2. e \in [prog : ProgSet, pid : Nat] /\ e.prog = Table[i].prog /\ e.pid = pid
  BY <1>1
<1>3. tab = [Table EXCEPT ![i] = e]
  BY DEF SetPid
<1> HIDE DEF tab, e
<1>4. /\ tab \in [1..2 -> [prog : ProgSet, pid : Nat]]
      /\ tab[i] = e /\ \A j \in 1..2 : j # i => tab[j] = Table[j]
  BY <1>1, <1>2, <1>3
<1>5. Statics(static)
  BY DEF UInv
<1>6. /\ Statics([static EXCEPT !.in_spawn_table = tab])
      /\ [static EXCEPT !.in_spawn_table = tab].in_spawn_table = tab
      /\ [static EXCEPT !.in_spawn_table = tab].children = static.children
  BY <1>5 DEF Statics
<1>7. tab[1].prog = Table[1].prog /\ tab[2].prog = Table[2].prog
  BY <1>2, <1>4
<1> QED
  BY <1>2, <1>4, <1>6, <1>7 DEF tab

(* init forks the process of entry i.                                      *)
LEMMA ForkedKeeps ==
  ASSUME UInv, PidsLeft, NEW i \in 1..2, NEW next \in {2, 0}, process(i, next), Room,
         Table[i].pid = 0, next = 2 => i = 1 /\ Table[2].pid = 0,
         input' = input, lost' = lost
  PROVE  UInv'
<1> DEFINE me == [proc[INIT] EXCEPT !.pc = next]
           prog == Table[i].prog
           child == Child(INIT, prog)
           tab == SetPid(i, NewPid)
           n == static.children
<1>1. /\ proc' = Born([proc EXCEPT ![INIT] = me], NewPid, child)
      /\ static' = [static EXCEPT !.in_spawn_table = tab]
  <2>1. /\ proc' = Born([proc EXCEPT ![INIT] = me], NewPid, child)
        /\ static' = [static EXCEPT !.in_spawn_table[i].pid = NewPid]
    BY DEF process
  <2>2. Table = static.in_spawn_table
    BY DEF Table
  <2> QED
    BY <2>1, <2>2 DEF SetPid
<1>2. NewPid \in Pids \ DOMAIN proc /\ NewPid \in Nat
  BY NewPidIs, UserlandAssumption
<1>3. /\ prog \in {Prog("idle", 0), Prog("shell", 0)} /\ prog.name \in {"idle", "shell"}
      /\ (prog.name = "shell" => i = 2)
      /\ prog \in ProgSet
  <2>1. i = 1 \/ i = 2
    OBVIOUS
  <2> QED
    BY <2>1, AtInit DEF ProgSet
<1>4. /\ INIT \in DOMAIN proc /\ INIT \in Pids /\ proc[INIT] \in Process
      /\ proc[INIT].state = "run" /\ proc[INIT].prog.name = "init"
      /\ ~IsTest(proc[INIT].prog) /\ ~proc[INIT].killed /\ proc[INIT].parent = INIT
      /\ 0 \notin DOMAIN proc
  BY AtInit
<1>5. /\ me \in Process /\ me.parent = INIT /\ me.prog = proc[INIT].prog
      /\ me.state = "run" /\ ~me.killed /\ me.pc = next
  BY SMTT(30), <1>4 DEF Process
<1>6. /\ child \in Process /\ child.parent = INIT /\ child.prog = prog
      /\ child.state = "exec" /\ child.pc = 1 /\ child.n = 1 /\ child.children = <<>>
      /\ child.sh.pc = "loop"
  BY <1>3, <1>4, ChildIs
<1> HIDE DEF me, child, prog
<1>7. Grows(proc, proc', INIT, NewPid, me, child)
  BY <1>1, <1>3, <1>4, <1>5, <1>6, BornGrows
<1>8. Family(proc)
  BY DEF UInv
<1>9. /\ Family(proc') /\ DOMAIN proc' = DOMAIN proc \cup {NewPid}
      /\ Kids(proc', INIT) = Kids(proc, INIT) \cup {NewPid}
      /\ Kids(proc', NewPid) = {} /\ NewPid # INIT
      /\ \A q \in DOMAIN proc \ {INIT} : LeftAlone(proc, proc', q)
  BY <1>7, <1>8, ProcGrows
<1>10. proc'[NewPid] = child /\ proc'[INIT] = me
  BY <1>7 DEF Grows
<1>11. /\ tab \in [1..2 -> [prog : ProgSet, pid : Nat]]
       /\ tab[1].prog = Table[1].prog /\ tab[2].prog = Table[2].prog
       /\ tab[i].pid = NewPid /\ \A j \in 1..2 : j # i => tab[j] = Table[j]
       /\ Statics(static') /\ static'.in_spawn_table = tab /\ static'.children = n
  BY <1>1, <1>2, SetPidIs
<1>12. /\ TableKept(proc, Table) /\ Shelled(proc, Table, n, lost) /\ n \in Nat
       /\ \A q \in DOMAIN proc : Knows(proc, q, n, lost)
  BY DEF UInv, Table, Statics
<1> HIDE DEF tab, n
<1>13. i = 2 /\ ~lost => n = 0
  BY <1>4, <1>12 DEF Shelled
<1>14. ASSUME NEW q \in DOMAIN proc' PROVE Knows(proc', q, n, lost)
  <2>1. CASE q = INIT
    BY <1>4, <1>5, <1>10, <2>1 DEF Knows, KnowsOf
  <2>2. CASE q = NewPid /\ prog.name = "idle"
    <3>1. IsTest(child.prog)
      BY <1>6, <2>2 DEF IsTest
    <3> QED
      BY <1>6, <1>9, <1>10, <2>2, <3>1, NewbornKnows
  <2>3. CASE q = NewPid /\ prog.name = "shell"
    <3>1. Cardinality(Kids(proc', q)) = 0 /\ Kids(proc', q) = {}
      BY <1>9, <2>3, FS_EmptySet
    <3>2. ~lost => n = 0
      BY <1>3, <1>13, <2>3
    <3>3. Counts(child, Kids(proc', q), n, lost)
      BY <1>6, <1>12, <3>1, <3>2 DEF Counts
    <3>4. ~IsTest(child.prog)
      BY <1>6, <2>3 DEF IsTest
    <3> QED
      BY <1>10, <2>3, <3>3, <3>4 DEF Knows, KnowsOf
  <2>4. CASE q \notin {INIT, NewPid}
    <3>1. q \in DOMAIN proc /\ LeftAlone(proc, proc', q) /\ Knows(proc, q, n, lost)
      BY <1>9, <1>12, <2>4
    <3> QED
      BY <3>1, StillKnows
  <2> QED
    BY <1>3, <2>1, <2>2, <2>3, <2>4
<1>15. TableKept(proc', tab)
  <2>1. ASSUME NEW j \in 1..2, tab[j].pid # 0
        PROVE  tab[j].pid \in Kids(proc', INIT) /\ proc'[tab[j].pid].prog = tab[j].prog
    <3>1. CASE j = i
      BY <1>6, <1>9, <1>10, <1>11, <3>1 DEF prog
    <3>2. CASE j # i
      <4>1. tab[j] = Table[j]
        BY <1>11, <3>2
      <4>2. tab[j].pid \in Kids(proc, INIT) /\ proc[tab[j].pid].prog = tab[j].prog
        BY <1>12, <2>1, <4>1 DEF TableKept
      <4>3. tab[j].pid \in DOMAIN proc \ {INIT}
        BY <4>2 DEF Kids
      <4> QED
        BY <1>9, <4>2, <4>3 DEF LeftAlone
    <3> QED
      BY <3>1, <3>2
  <2>2. proc'[INIT].pc = next
    BY <1>5, <1>10
  <2>3. next = 2 => tab[2].pid = 0
    BY <1>11
  <2>4. tab[1].prog = Prog("idle", 0) /\ tab[2].prog = Prog("shell", 0)
    BY <1>11, AtInit
  <2> QED
    BY <1>11, <2>1, <2>2, <2>3, <2>4 DEF TableKept
<1>16. Shelled(proc', tab, n, lost)
  <2>1. ASSUME NEW q \in DOMAIN proc', proc'[q].prog.name = "shell" PROVE q = tab[2].pid
    <3>1. CASE q = NewPid
      BY <1>3, <1>6, <1>10, <1>11, <2>1, <3>1
    <3>2. CASE q # NewPid
      <4>1. q \in DOMAIN proc /\ q # INIT
        BY <1>4, <1>5, <1>9, <1>10, <2>1, <3>2
      <4>2. proc[q].prog.name = "shell"
        BY <1>9, <2>1, <4>1 DEF LeftAlone
      <4>3. q = Table[2].pid
        BY <1>12, <4>1, <4>2 DEF Shelled
      <4>4. i # 2
        BY <1>4, <4>1, <4>3
      <4> QED
        BY <1>11, <4>3, <4>4
    <3> QED
      BY <3>1, <3>2
  <2>2. ASSUME ~lost, n # 0
        PROVE  tab[2].pid \in DOMAIN proc' /\ proc'[tab[2].pid].state # "zombie"
    <3>1. i # 2
      BY <1>13, <2>2
    <3>2. tab[2] = Table[2]
      BY <1>11, <3>1
    <3>3. tab[2].pid \in DOMAIN proc /\ proc[tab[2].pid].state # "zombie"
      BY <1>12, <2>2, <3>2 DEF Shelled
    <3>4. tab[2].pid # INIT
      <4>1. tab[2].pid # 0
        BY <1>4, <3>3
      <4> QED
        BY <1>12, <3>2, <4>1 DEF TableKept, Kids
    <3> QED
      BY <1>9, <3>3, <3>4 DEF LeftAlone
  <2> QED
    BY <2>1, <2>2 DEF Shelled
<1>17. Inputs(input') /\ lost' \in BOOLEAN
  BY DEF UInv
<1> QED
  BY <1>9, <1>11, <1>14, <1>15, <1>16, <1>17 DEF UInv

(* init goes on, and nothing else happens.                                 *)
LEMMA UnforkedKeeps ==
  ASSUME UInv, NEW next \in {2, 0},
         Step(INIT, [proc[INIT] EXCEPT !.pc = next]), next = 2 => Table[2].pid = 0,
         UNCHANGED <<static, input, lost>>
  PROVE  UInv'
<1> DEFINE me == [proc[INIT] EXCEPT !.pc = next]
<1>1. /\ INIT \in DOMAIN proc /\ proc[INIT] \in Process
      /\ proc[INIT].state = "run" /\ proc[INIT].prog.name = "init"
      /\ ~IsTest(proc[INIT].prog) /\ ~proc[INIT].killed
  BY AtInit
<1>2. /\ me \in Process /\ me.parent = proc[INIT].parent /\ me.prog = proc[INIT].prog
      /\ me.state = "run" /\ ~me.killed /\ me.pc = next
  BY <1>1 DEF Process
<1>3. Step(INIT, me)
  OBVIOUS
<1> HIDE DEF me
<1>4. /\ DOMAIN proc' = DOMAIN proc /\ proc'[INIT] = me
      /\ \A q \in DOMAIN proc \ {INIT} : proc'[q] = proc[q]
  BY <1>1, <1>3 DEF Step
<1>5. Family(proc)
  BY DEF UInv
<1>6. proc' \in [DOMAIN proc -> Process]
  BY <1>2, <1>3, <1>5 DEF Step, Family
<1>7. Moved(proc, proc', INIT)
  <2>1. \A q \in DOMAIN proc : /\ proc'[q].parent = proc[q].parent
                               /\ proc'[q].prog = proc[q].prog
                               /\ proc'[q].state = proc[q].state
    BY <1>1, <1>2, <1>4
  <2>2. proc'[INIT].killed = proc[INIT].killed
    BY <1>1, <1>2, <1>4 DEF Process
  <2> QED
    BY <1>4, <1>6, <2>1, <2>2, <1>1 DEF Moved
<1>8. /\ Family(proc') /\ \A q : Kids(proc', q) = Kids(proc, q)
      /\ \A q \in DOMAIN proc \ {INIT} : LeftAlone(proc, proc', q)
  <2>1. ~IsTest(proc'[INIT].prog)
    BY <1>1, <1>2, <1>4
  <2> QED
    BY <1>1, <1>5, <1>7, <2>1, FamilyMoves
<1>9. ASSUME NEW q \in DOMAIN proc' PROVE Knows(proc', q, static.children, lost)
  <2>1. CASE q = INIT
    BY <1>1, <1>2, <1>4, <2>1 DEF Knows, KnowsOf
  <2>2. CASE q # INIT
    <3>1. q \in DOMAIN proc /\ LeftAlone(proc, proc', q) /\ Knows(proc, q, static.children, lost)
      BY <1>4, <1>8, <2>2 DEF UInv
    <3> QED
      BY <3>1, StillKnows
  <2> QED
    BY <2>1, <2>2
<1>10. TableKept(proc', Table)
  <2>1. TableKept(proc, Table)
    BY DEF UInv, Table
  <2>2. \A q \in Kids(proc, INIT) : q \in Kids(proc', INIT) /\ proc'[q].prog = proc[q].prog
    BY <1>7, <1>8 DEF Kids, Moved
  <2>3. proc'[INIT].pc = next
    BY <1>2, <1>4
  <2>4. \A i \in 1..2 : Table[i].pid # 0 =>
          Table[i].pid \in Kids(proc', INIT) /\ proc'[Table[i].pid].prog = Table[i].prog
    BY <2>1, <2>2 DEF TableKept
  <2> QED
    BY <2>1, <2>3, <2>4 DEF TableKept
<1>11. Shelled(proc', Table, static.children, lost)
  BY <1>7 DEF UInv, Shelled, Moved, Table
<1>12. /\ static' = static /\ lost' = lost /\ lost \in BOOLEAN /\ Statics(static)
       /\ Inputs(input')
  BY DEF UInv
<1> QED
  BY <1>4, <1>8, <1>9, <1>10, <1>11, <1>12 DEF UInv, Table

LEMMA InitProcessKeeps ==
  ASSUME UInv, PidsLeft, NEW i \in 1..2, NEW next \in {2, 0}, process(i, next),
         Table[i].pid = 0, next = 2 => i = 1 /\ Table[2].pid = 0,
         input' = input, lost' = lost
  PROVE  UInv'
<1>1. CASE Room
  BY <1>1, ForkedKeeps
<1>2. CASE ~Room
  <2>1. Step(INIT, [proc[INIT] EXCEPT !.pc = next]) /\ static' = static
    BY <1>2 DEF process
  <2> QED
    BY <2>1, UnforkedKeeps
<1> QED
  BY <1>1, <1>2

LEMMA InitStartsKeeps ==
  ASSUME UInv, PidsLeft, InitStarts
  PROVE  UInv'
<1> DEFINE i == proc[INIT].pc
<1>1. /\ i \in DOMAIN Table /\ process(i, IF i < Len(Table) THEN i + 1 ELSE 0)
      /\ input' = input /\ lost' = lost
  BY DEF InitStarts
<1>2. DOMAIN Table = 1..2 /\ Len(Table) = 2 /\ TableKept(proc, Table)
  BY AtInit DEF UInv, Table
<1>3. /\ i = 1 => Table[1].pid = 0 /\ Table[2].pid = 0
      /\ i = 2 => Table[2].pid = 0
  BY <1>2 DEF TableKept
<1> HIDE DEF i
<1>4. CASE i = 1
  <2>1. process(1, 2)
    BY <1>1, <1>2, <1>4
  <2> QED
    BY <1>1, <1>3, <1>4, <2>1, InitProcessKeeps
<1>5. CASE i = 2
  <2>1. process(2, 0)
    BY <1>1, <1>2, <1>5
  <2> QED
    BY <1>1, <1>3, <1>5, <2>1, InitProcessKeeps
<1>6. i = 1 \/ i = 2
  BY <1>1, <1>2
<1> QED
  BY <1>4, <1>5, <1>6

LEMMA InitRestartsKeeps ==
  ASSUME UInv, PidsLeft, InitRestarts
  PROVE  UInv'
<1>1. /\ proc[INIT].pc < 0 /\ process(-proc[INIT].pc, 0) /\ input' = input /\ lost' = lost
  BY DEF InitRestarts
<1>2. TableKept(proc, Table)
  BY DEF UInv, Table
<1> DEFINE i == -proc[INIT].pc
<1>3. i \in 1..2 /\ Table[i].pid = 0
  BY <1>1, <1>2 DEF TableKept
<1> HIDE DEF i
<1>4. process(i, 0)
  BY <1>1 DEF i
<1> QED
  BY <1>1, <1>3, <1>4, InitProcessKeeps

(* What changes when init has collected a child q that it did not start,   *)
(* or whose PID it has reset: nobody in the table is q.                    *)
LEMMA InitCollects ==
  ASSUME UInv, NEW q, NEW me, Shrinks(proc, proc', INIT, q, me),
         me.prog.name = "init", ~IsTest(me.prog), NEW tab,
         tab \in [1..2 -> [prog : ProgSet, pid : Nat]],
         \A j \in 1..2 : /\ tab[j].prog = Table[j].prog
                         /\ tab[j].pid \in {0, Table[j].pid} /\ tab[j].pid # q
                         /\ tab[j].pid = Table[j].pid \/ Table[j].pid = q,
         me.pc = 0 \/ (me.pc \in {-1, -2} /\ tab[-me.pc].pid = 0),
         Statics(static'), static'.in_spawn_table = tab,
         static'.children = static.children, input' = input, lost' = lost
  PROVE  UInv'
<1> DEFINE n == static.children
<1>1. Family(proc) /\ TableKept(proc, Table) /\ Shelled(proc, Table, n, lost)
      /\ \A r \in DOMAIN proc : Knows(proc, r, n, lost)
  BY DEF UInv, Table
<1> HIDE DEF n
<1>2. /\ Family(proc') /\ DOMAIN proc' = DOMAIN proc \ {q} /\ proc'[INIT] = me
      /\ INIT \in DOMAIN proc' /\ q # INIT
      /\ Kids(proc', INIT) = Kids(proc, INIT) \ {q}
      /\ \A r \in DOMAIN proc \ {INIT, q} : LeftAlone(proc, proc', r)
  BY ZenonT(60), <1>1, ProcShrinks
<1>3. q \in Kids(proc, INIT) /\ proc[q].state = "zombie" /\ q \in DOMAIN proc
  BY DEF Shrinks, Kids
<1>4. 0 \notin DOMAIN proc
  BY AtInit
<1>5. ASSUME NEW r \in DOMAIN proc' PROVE Knows(proc', r, n, lost)
  <2>1. CASE r = INIT
    BY <1>2, <2>1 DEF Knows, KnowsOf
  <2>2. CASE r # INIT
    <3>1. r \in DOMAIN proc /\ LeftAlone(proc, proc', r) /\ Knows(proc, r, n, lost)
      BY <1>1, <1>2, <2>2
    <3> QED
      BY <3>1, StillKnows
  <2> QED
    BY <2>1, <2>2
<1>6. TableKept(proc', tab)
  <2>1. ASSUME NEW j \in 1..2, tab[j].pid # 0
        PROVE  tab[j].pid \in Kids(proc', INIT) /\ proc'[tab[j].pid].prog = tab[j].prog
    <3>1. tab[j].pid = Table[j].pid /\ tab[j].pid # q /\ tab[j].prog = Table[j].prog
      BY <2>1
    <3>2. tab[j].pid \in Kids(proc, INIT) /\ proc[tab[j].pid].prog = tab[j].prog
      BY <1>1, <2>1, <3>1 DEF TableKept
    <3>3. tab[j].pid \in DOMAIN proc \ {INIT, q}
      BY <3>1, <3>2 DEF Kids
    <3> QED
      BY <1>2, <3>1, <3>2, <3>3 DEF LeftAlone
  <2>2. tab[1].prog = Prog("idle", 0) /\ tab[2].prog = Prog("shell", 0)
    BY AtInit
  <2>3. proc'[INIT].pc = 0 \/ (proc'[INIT].pc \in {-1, -2} /\ tab[-proc'[INIT].pc].pid = 0)
    BY <1>2
  <2> QED
    BY <2>1, <2>2, <2>3 DEF TableKept
<1>7. Shelled(proc', tab, n, lost)
  <2>1. ASSUME NEW r \in DOMAIN proc', proc'[r].prog.name = "shell" PROVE r = tab[2].pid
    <3>1. r # INIT /\ r \in DOMAIN proc /\ r # q
      BY <1>2, <2>1
    <3>2. proc[r].prog.name = "shell"
      BY <1>2, <2>1, <3>1 DEF LeftAlone
    <3>3. r = Table[2].pid
      BY <1>1, <3>1, <3>2 DEF Shelled
    <3> QED
      BY <3>1, <3>3
  <2>2. ASSUME ~lost, n # 0
        PROVE  tab[2].pid \in DOMAIN proc' /\ proc'[tab[2].pid].state # "zombie"
    <3>1. Table[2].pid \in DOMAIN proc /\ proc[Table[2].pid].state # "zombie"
      BY <1>1, <2>2 DEF Shelled
    <3>2. tab[2].pid = Table[2].pid /\ tab[2].pid # q
      BY <1>3, <3>1
    <3>3. tab[2].pid # INIT
      BY <1>1, <1>4, <3>1, <3>2 DEF TableKept, Kids
    <3> QED
      BY <1>2, <3>1, <3>2, <3>3 DEF LeftAlone
  <2> QED
    BY <2>1, <2>2 DEF Shelled
<1>8. Inputs(input') /\ lost' \in BOOLEAN
  BY DEF UInv
<1> QED
  BY <1>2, <1>5, <1>6, <1>7, <1>8 DEF UInv, n

LEMMA InitWaitsKeeps ==
  ASSUME UInv, InitWaits
  PROVE  UInv'
<1>1. PICK q \in Zombies(INIT) :
        LET ours == {i \in DOMAIN Table : Table[i].pid = q}
            i == CHOOSE n \in ours : \A m \in ours : n <= m
        IN IF ours = {}
           THEN proc' = Collected(INIT, q, proc[INIT]) /\ UNCHANGED static
           ELSE /\ proc' = Collected(INIT, q, [proc[INIT] EXCEPT !.pc = -i])
                /\ static' = [static EXCEPT !.in_spawn_table = Forgotten(i)]
  BY DEF InitWaits, Awaited
<1> DEFINE ours == {i \in DOMAIN Table : Table[i].pid = q}
           i == CHOOSE n \in ours : \A m \in ours : n <= m
<1>2. /\ INIT \in DOMAIN proc /\ proc[INIT] \in Process
      /\ proc[INIT].state = "run" /\ proc[INIT].prog.name = "init"
      /\ ~IsTest(proc[INIT].prog) /\ ~proc[INIT].killed
      /\ Table \in [1..2 -> [prog : ProgSet, pid : Nat]] /\ DOMAIN Table = 1..2
      /\ Table[1].prog.name = "idle" /\ Table[2].prog.name = "shell"
      /\ 0 \notin DOMAIN proc
  BY AtInit
<1>3. proc[INIT].pc = 0 /\ input' = input /\ lost' = lost
  BY DEF InitWaits
<1>4. Statics(static) /\ static.in_spawn_table = Table /\ TableKept(proc, Table)
  BY DEF UInv, Table
<1>5. CASE ours = {}
  <2>1. proc' = Collected(INIT, q, proc[INIT]) /\ static' = static
    BY <1>1, <1>5
  <2>2. Shrinks(proc, proc', INIT, q, proc[INIT])
    BY <1>2, <2>1, CollectedShrinks
  <2>3. \A j \in 1..2 : Table[j].pid # q
    BY <1>2, <1>5
  <2> QED
    BY <1>2, <1>3, <1>4, <2>1, <2>2, <2>3, InitCollects
<1>6. CASE ours # {}
  <2> DEFINE me == [proc[INIT] EXCEPT !.pc = -i]
             tab == SetPid(i, 0)
  <2>1. proc' = Collected(INIT, q, me)
        /\ static' = [static EXCEPT !.in_spawn_table = Forgotten(i)]
    BY <1>1, <1>6
  <2>2. i \in 1..2 /\ Table[i].pid = q
    <3>1. ours \subseteq Nat
      BY <1>2
    <3> HIDE DEF ours
    <3>2. \E n \in ours : \A m \in ours : n <= m
      BY <1>6, <3>1, LeastNat
    <3>3. i \in ours
      BY <3>2, Zenon
    <3> HIDE DEF i
    <3> QED
      BY <1>2, <3>3 DEF ours
  <2> HIDE DEF i, ours
  <2>3. tab = Forgotten(i)
    BY DEF SetPid, Forgotten
  <2>4. /\ tab \in [1..2 -> [prog : ProgSet, pid : Nat]]
        /\ tab[1].prog = Table[1].prog /\ tab[2].prog = Table[2].prog
        /\ tab[i].pid = 0 /\ \A j \in 1..2 : j # i => tab[j] = Table[j]
        /\ Statics([static EXCEPT !.in_spawn_table = tab])
        /\ [static EXCEPT !.in_spawn_table = tab].in_spawn_table = tab
        /\ [static EXCEPT !.in_spawn_table = tab].children = static.children
    BY <2>2, SetPidIs
  <2> HIDE DEF tab
  <2>5. Statics(static') /\ static'.in_spawn_table = tab /\ static'.children = static.children
    BY <2>1, <2>3, <2>4
  <2>6. /\ me \in Process /\ me.parent = proc[INIT].parent /\ me.prog = proc[INIT].prog
        /\ me.state = proc[INIT].state /\ ~me.killed /\ me.pc = -i
    BY SMTT(30), <1>2, <2>2 DEF Process
  <2> HIDE DEF me
  <2>7. Shrinks(proc, proc', INIT, q, me)
    BY <1>2, <2>1, <2>6, CollectedShrinks
  <2>8. q \in DOMAIN proc /\ q # 0
    BY <1>2 DEF Zombies, Children
  <2>9. ASSUME NEW j \in 1..2, j # i PROVE Table[j].pid # q
    <3>1. ASSUME Table[j].pid = q PROVE FALSE
      <4>1. Table[j].prog = proc[q].prog /\ Table[i].prog = proc[q].prog
        BY <1>4, <2>2, <2>8, <3>1 DEF TableKept
      <4>2. Table[1].prog = Table[2].prog
        BY <2>2, <2>9, <4>1
      <4> QED
        BY <1>2, <4>2
    <3> QED
      BY <3>1
  <2>10. \A j \in 1..2 : /\ tab[j].prog = Table[j].prog
                         /\ tab[j].pid \in {0, Table[j].pid} /\ tab[j].pid # q
                         /\ tab[j].pid = Table[j].pid \/ Table[j].pid = q
    <3>1. ASSUME NEW j \in 1..2
          PROVE  /\ tab[j].prog = Table[j].prog
                 /\ tab[j].pid \in {0, Table[j].pid} /\ tab[j].pid # q
                 /\ tab[j].pid = Table[j].pid \/ Table[j].pid = q
      <4>1. CASE j = i
        BY <2>2, <2>4, <2>8, <4>1
      <4>2. CASE j # i
        BY <2>4, <2>9, <4>2
      <4> QED
        BY <4>1, <4>2
    <3> QED
      BY <3>1
  <2>11. me.pc \in {-1, -2} /\ tab[-me.pc].pid = 0
    <3>1. -(-i) = i /\ -i \in {-1, -2}
      BY <2>2
    <3> QED
      BY <2>4, <2>6, <3>1
  <2>12. me.prog.name = "init" /\ ~IsTest(me.prog)
    BY <1>2, <2>6
  <2> QED
    BY <1>3, <2>4, <2>5, <2>7, <2>10, <2>11, <2>12, InitCollects
<1> QED
  BY <1>5, <1>6

-----------------------------------------------------------------------------
(* The invariant.                                                          *)

LEMMA FirstUInv ==
  ASSUME UInit
  PROVE  UInv
<1>1. PICK job \in Jobs :
        /\ proc = [q \in {INIT} |-> [Child(INIT, Prog("init", 0)) EXCEPT !.state = "run"]]
        /\ static = [time_to_stop |-> FALSE, children |-> 0,
                     sh_spawn_table |-> job.table,
                     in_spawn_table |-> <<[prog |-> Prog("idle", 0), pid |-> 0],
                                          [prog |-> Prog("shell", 0), pid |-> 0]>>]
        /\ input = [typed |-> <<>>, coming |-> job.typed]
        /\ lost = FALSE
  BY DEF UInit
<1> DEFINE c == Child(INIT, Prog("init", 0))
           me == [c EXCEPT !.state = "run"]
           tab == <<[prog |-> Prog("idle", 0), pid |-> 0], [prog |-> Prog("shell", 0), pid |-> 0]>>
<1>2. INIT \in Pids /\ Prog("init", 0) \in ProgSet
  BY UserlandAssumption DEF INIT, ProgSet
<1>3. c \in Process /\ c.parent = INIT /\ c.prog = Prog("init", 0) /\ c.pc = 1
  BY <1>2, ChildIs
<1>4. c.killed = FALSE
  BY DEF Child
<1>5. DOMAIN proc = {INIT} /\ proc[INIT] = me /\ proc = [q \in {INIT} |-> me]
  BY <1>1
<1> HIDE DEF c
<1>6. /\ me \in Process /\ me.parent = INIT /\ me.prog = Prog("init", 0)
      /\ me.state = "run" /\ ~me.killed /\ me.pc = 1
  BY <1>3, <1>4 DEF Process
<1> HIDE DEF me
<1>7. proc[INIT].prog.name = "init" /\ ~IsTest(proc[INIT].prog)
  BY <1>5, <1>6, ProgName DEF IsTest
<1>8. Family(proc)
  <2>1. IsFiniteSet(DOMAIN proc)
    BY <1>5, FS_Singleton
  <2> QED
    BY <1>2, <1>5, <1>6, <1>7, <2>1 DEF Family
<1>9. Statics(static) /\ static.in_spawn_table = tab /\ static.children = 0
  <2>1. job.table \in Seq([select : STRING, prog : TestProgs])
    BY JobsAssumption
  <2> HIDE DEF tab
  <2>2. static = [time_to_stop |-> FALSE, children |-> 0,
                  sh_spawn_table |-> job.table, in_spawn_table |-> tab]
    BY <1>1 DEF tab
  <2> QED
    BY <2>1, <2>2 DEF Statics
<1>10. Inputs(input)
  <2>1. job.typed \in Seq(STRING \ {CR})
    BY JobsAssumption
  <2>2. job.typed \in Seq(Typed)
    BY <2>1 DEF Typed
  <2> QED
    BY <1>1, <2>2 DEF Inputs
<1>11. TableKept(proc, tab)
  <2> DEFINE a == [prog |-> Prog("idle", 0), pid |-> 0]
             b == [prog |-> Prog("shell", 0), pid |-> 0]
  <2>1. /\ a \in [prog : ProgSet, pid : Nat] /\ b \in [prog : ProgSet, pid : Nat]
        /\ a.pid = 0 /\ b.pid = 0 /\ a.prog = Prog("idle", 0) /\ b.prog = Prog("shell", 0)
    BY DEF ProgSet
  <2>2. tab = <<a, b>>
    OBVIOUS
  <2> HIDE DEF a, b, tab
  <2>3. /\ tab \in [1..2 -> [prog : ProgSet, pid : Nat]]
        /\ tab[1] = a /\ tab[2] = b /\ \A i \in 1..2 : tab[i].pid = 0
    BY <2>1, <2>2
  <2>4. proc[INIT].pc = 1
    BY <1>5, <1>6
  <2> QED
    BY <2>1, <2>3, <2>4 DEF TableKept
<1>12. Shelled(proc, tab, 0, lost)
  BY <1>5, <1>7 DEF Shelled
<1>13. \A p \in DOMAIN proc : Knows(proc, p, 0, lost)
  BY <1>5, <1>7 DEF Knows, KnowsOf
<1>14. lost \in BOOLEAN
  BY <1>1
<1> HIDE DEF tab
<1> QED
  BY <1>8, <1>9, <1>10, <1>11, <1>12, <1>13, <1>14 DEF UInv

LEMMA NextUInv ==
  ASSUME UInv, PidsLeft, [UNext]_uvars
  PROVE  UInv'
<1>1. CASE UNCHANGED uvars
  BY <1>1 DEF uvars, UInv
<1>2. CASE InitStarts
  BY <1>2, InitStartsKeeps
<1>3. CASE InitWaits
  BY <1>3, InitWaitsKeeps
<1>4. CASE InitRestarts
  BY <1>4, InitRestartsKeeps
<1>5. CASE Types
  BY <1>5, TypesKeeps
<1>6. ASSUME NEW p \in DOMAIN proc,
             exec(p) \/ Program(p) \/ ShellLoop(p) \/ readline(p) \/ run(p)
               \/ ShellSpawn(p) \/ ShellRan(p) \/ ShellWait(p) \/ Dies(p)
      PROVE  UInv'
  BY <1>6, ExecKeeps, ProgramKeeps, ShellLoopKeeps, ReadlineKeeps, RunKeeps,
     ShellSpawnKeeps, ShellRanKeeps, ShellWaitKeeps, DiesKeeps
<1> QED
  BY <1>1, <1>2, <1>3, <1>4, <1>5, <1>6 DEF UNext

(* No PID is given twice in the life of a machine: if there are infinitely *)
(* many, there is one that nobody has and nobody remembers.                *)
LEMMA AlwaysOneMore ==
  ASSUME UInv, ~IsFiniteSet(Pids)
  PROVE  PidsLeft
<1> DEFINE remembered(q) == {proc[q].children[i] : i \in DOMAIN proc[q].children}
           each == [q \in DOMAIN proc |-> remembered(q)]
           R0 == {each[q] : q \in DOMAIN proc}
           tabled == {Table[1].pid, Table[2].pid}
           used == DOMAIN proc \cup tabled \cup UNION R0
<1>1. IsFiniteSet(DOMAIN proc) /\ \A q \in DOMAIN proc : proc[q].children \in Seq(Pids)
  BY DEF UInv, Family, Process
<1>2. ASSUME NEW q \in DOMAIN proc PROVE IsFiniteSet(remembered(q))
  <2> DEFINE s == proc[q].children
             r == remembered(q)
  <2>1. s \in Seq(Pids) /\ DOMAIN s = 1..Len(s) /\ Len(s) \in Nat
    BY <1>1
  <2>2. IsFiniteSet(1..Len(s))
    BY <2>1, FS_Interval
  <2>3. s \in [1..Len(s) -> r] /\ \A x \in r : \E i \in 1..Len(s) : s[i] = x
    BY <2>1
  <2> HIDE DEF s, r
  <2>4. s \in Surjection(1..Len(s), r)
    BY <2>3 DEF Surjection
  <2>5. IsFiniteSet(r)
    BY <2>2, <2>4, FS_Surjection
  <2> QED
    BY <2>5 DEF r
<1>3. \A T0 \in R0 : IsFiniteSet(T0)
  BY <1>2
<1>4. IsFiniteSet(R0)
  <2>1. each \in [DOMAIN proc -> R0] /\ \A x \in R0 : \E q \in DOMAIN proc : each[q] = x
    OBVIOUS
  <2> HIDE DEF each, R0
  <2>2. each \in Surjection(DOMAIN proc, R0)
    BY <2>1 DEF Surjection
  <2> QED
    BY <1>1, <2>2, FS_Surjection
<1>5. IsFiniteSet(UNION R0)
  <2> HIDE DEF R0
  <2> QED
    BY <1>3, <1>4, FS_UNION
<1>6. IsFiniteSet(tabled)
  <2>1. IsFiniteSet({Table[1].pid}) /\ IsFiniteSet({Table[2].pid})
    BY FS_Singleton
  <2>2. IsFiniteSet({Table[1].pid} \cup {Table[2].pid})
    BY <2>1, FS_Union
  <2>3. tabled = {Table[1].pid} \cup {Table[2].pid}
    OBVIOUS
  <2> HIDE DEF tabled
  <2> QED
    BY <2>2, <2>3
<1>7. IsFiniteSet(used)
  <2> HIDE DEF R0, tabled
  <2>1. IsFiniteSet(DOMAIN proc \cup tabled)
    BY <1>1, <1>6, FS_Union
  <2> QED
    BY <1>5, <2>1, FS_Union
<1>8. PICK p \in Pids : p \notin used
  <2> HIDE DEF used
  <2>1. ~(Pids \subseteq used)
    BY <1>7, FS_Subset
  <2> QED
    BY <2>1
<1>9. \A i \in DOMAIN Table : Table[i].pid # p
  <2>1. \A i \in DOMAIN Table : i = 1 \/ i = 2
    BY AtInit
  <2> QED
    BY <1>8, <2>1
<1>10. \A q \in DOMAIN proc, i \in 1..N_PROCS :
         i \in DOMAIN proc[q].children => proc[q].children[i] # p
  <2>1. ASSUME NEW q \in DOMAIN proc, NEW i \in DOMAIN proc[q].children
        PROVE  proc[q].children[i] # p
    <3>1. proc[q].children[i] \in remembered(q) /\ each[q] = remembered(q) /\ each[q] \in R0
      OBVIOUS
    <3>2. p \notin UNION R0
      BY <1>8
    <3> HIDE DEF remembered, R0, each
    <3> QED
      BY <3>1, <3>2
  <2> QED
    BY <2>1
<1>11. p \in NewPids
  <2>1. p \notin DOMAIN proc
    BY <1>8
  <2> HIDE DEF used
  <2> QED
    BY <1>9, <1>10, <2>1 DEF NewPids, Table
<1> QED
  BY <1>11 DEF PidsLeft

(* In every state, the PIDs in init's table are those of its processes.    *)
LEMMA TableIsTrue ==
  ASSUME UInv
  PROVE  TableTrue
<1>1. DOMAIN Table = 1..2 /\ TableKept(proc, Table) /\ Kids(proc, INIT) = Children(INIT)
  BY AtInit DEF UInv, Table, Kids, Children
<1> QED
  BY <1>1 DEF TableTrue, TableKept

(* The shell and the tests that wait know who is left.                     *)
LEMMA ChildrenAreKnown ==
  ASSUME UInv
  PROVE  ChildrenKnown
<1>1. \A p : Kids(proc, p) = Children(p)
  BY DEF Kids, Children
<1>2. \A p \in DOMAIN proc : Knows(proc, p, static.children, lost)
  BY DEF UInv
<1>3. ChildrenCounted
  <2> SUFFICES ASSUME NEW p \in Shells, proc[p].state # "zombie"
               PROVE  /\ static.children >= Cardinality(Children(p))
                      /\ ~lost => static.children = Cardinality(Children(p))
    BY DEF ChildrenCounted
  <2>1. Counts(proc[p], Kids(proc, p), static.children, lost)
    BY <1>2 DEF Shells, Knows, KnowsOf
  <2>2. Cardinality(Kids(proc, p)) \in Nat
    <3>1. Kids(proc, p) \subseteq DOMAIN proc /\ IsFiniteSet(DOMAIN proc)
      BY DEF UInv, Family, Kids
    <3> QED
      BY <3>1, FS_Subset, FS_CardinalityType
  <2>3. static.children \in Nat
    BY DEF UInv, Statics
  <2> QED
    BY <1>1, <2>1, <2>2, <2>3 DEF Counts
<1>4. PromptAlone
  <2> SUFFICES ASSUME NEW p \in Shells, InShell(p, "read") PROVE Children(p) = {}
    BY DEF PromptAlone
  <2>1. p \in DOMAIN proc
    BY DEF Shells
  <2>2. Counts(proc[p], Kids(proc, p), static.children, lost) /\ proc[p].sh.pc = "read"
    BY <2>1, AtShell
  <2> QED
    BY <1>1, <2>2 DEF Counts
<1>5. ChildrenAwaited
  <2> SUFFICES ASSUME NEW p \in DOMAIN proc, proc[p].state = "run",
                      proc[p].prog.name = "progI" \/ proc[p].prog.mode \in {"w", "W"},
                      At(p).op = "exit"
               PROVE  Children(p) = {}
    BY DEF ChildrenAwaited
  <2>1. TestHere(p)
    <3>1. Prog("shell", 0).mode = "" /\ Prog("init", 0).mode = "" /\ Prog("idle", 0).mode = ""
      BY DEF Prog
    <3>2. proc[p].prog \in ProgSet
      BY DEF UInv, Family, Process
    <3>3. CASE proc[p].prog.name = "progI"
      BY <3>3 DEF TestHere, IsTest
    <3>4. CASE proc[p].prog.mode \in {"w", "W"}
      <4>1. proc[p].prog \in TestProgs
        BY <3>1, <3>2, <3>4 DEF ProgSet
      <4>2. proc[p].prog.name = "progTUV"
        BY <3>4, <4>1 DEF TestProgs
      <4> QED
        BY <4>2 DEF TestHere, IsTest
    <3> QED
      BY <3>3, <3>4
  <2>2. proc[p].pc = Len(Text(proc[p].prog))
    BY <2>1, AtWaiter
  <2>3. Awaits(proc[p], Kids(proc, p))
    BY <2>1, AtTest
  <2> QED
    BY <1>1, <2>2, <2>3 DEF Awaits
<1> QED
  BY <1>3, <1>4, <1>5 DEF ChildrenKnown

(* The invariant holds as long as there are PIDs to give: without one, the *)
(* result of fork() is not defined.                                        *)
LEMMA UInvariance ==
  USpec /\ []PidsLeft => []UInv
<1>1. UInit => UInv
  BY FirstUInv
<1>2. UInv /\ PidsLeft /\ [UNext]_uvars => UInv'
  BY NextUInv
<1> QED
  BY <1>1, <1>2, PTL DEF USpec

(* The PIDs do not run out if the counter of the kernel does not.          *)
THEOREM AlwaysPidsLeft ==
  ASSUME ~IsFiniteSet(Pids)
  PROVE  USpec => []PidsLeft
<1>1. UInit => UInv
  BY FirstUInv
<1>2. UInv => PidsLeft
  BY AlwaysOneMore
<1>3. UInv /\ [UNext]_uvars => UInv'
  BY <1>2, NextUInv
<1> QED
  BY <1>1, <1>2, <1>3, PTL DEF USpec

(* The PID init keeps for an entry of its table is that of a child of init *)
(* that was started for this entry, or 0: init never takes the end of an   *)
(* inherited process for that of its idle process or its shell.            *)
THEOREM AlwaysTableTrue == USpec /\ []PidsLeft => []TableTrue
<1>1. UInv => TableTrue
  BY TableIsTrue
<1> QED
  BY <1>1, UInvariance, PTL

(* Whoever fails to be spawned, dies or is killed, the shell gives its     *)
(* prompt, and progI, progT and progU exit, only when no child of theirs   *)
(* is left; and the shell's count is that of its children.                 *)
THEOREM AlwaysChildrenKnown == USpec /\ []PidsLeft => []ChildrenKnown
<1>1. UInv => ChildrenKnown
  BY ChildrenAreKnown
<1> QED
  BY <1>1, UInvariance, PTL

-----------------------------------------------------------------------------
(* The line that the shell runs.                                           *)

(* What another process q does leaves p, which runs, where it is.          *)
LEMMA OthersLeave ==
  ASSUME UInv, PidsLeft, NEW p \in DOMAIN proc, proc[p].state = "run", NEW q, q # p,
         \/ \E me : proc' = [proc EXCEPT ![q] = me]
         \/ \E me, child : proc' = Born([proc EXCEPT ![q] = me], NewPid, child)
         \/ \E status : proc' = Ended(q, status)
         \/ \E me : \E r \in Zombies(q) : proc' = Collected(q, r, me)
         \/ \E pid : proc' = [Shot(pid) EXCEPT ![q] = proc'[q]]
  PROVE  proc'[p].sh = proc[p].sh
<1>1. CASE \E me : proc' = [proc EXCEPT ![q] = me]
  BY <1>1
<1>2. CASE \E me, child : proc' = Born([proc EXCEPT ![q] = me], NewPid, child)
  <2>1. NewPid # p
    BY NewPidIs
  <2>2. PICK me, child : proc' = Born([proc EXCEPT ![q] = me], NewPid, child)
    BY <1>2
  <2> DEFINE f == [proc EXCEPT ![q] = me]
  <2>3. DOMAIN f = DOMAIN proc /\ f[p] = proc[p]
    OBVIOUS
  <2> HIDE DEF f
  <2>4. proc'[p] = f[p]
    BY <2>1, <2>2, <2>3 DEF Born, f
  <2> QED
    BY <2>3, <2>4
<1>3. CASE \E status : proc' = Ended(q, status)
  <2>1. proc'[p] \in {proc[p], [proc[p] EXCEPT !.parent = INIT]}
    BY <1>3 DEF Ended
  <2>2. proc[p] \in Process
    BY DEF UInv, Family
  <2> QED
    BY <2>1, <2>2 DEF Process
<1>4. CASE \E me : \E r \in Zombies(q) : proc' = Collected(q, r, me)
  BY <1>4 DEF Collected, Zombies
<1>5. CASE \E pid : proc' = [Shot(pid) EXCEPT ![q] = proc'[q]]
  <2>1. PICK pid : proc' = [Shot(pid) EXCEPT ![q] = proc'[q]]
    BY <1>5
  <2> DEFINE s == Shot(pid)
  <2>2. p \in DOMAIN s /\ s[p].sh = proc[p].sh
    BY ShotIs
  <2>3. proc' = [s EXCEPT ![q] = proc'[q]]
    BY <2>1
  <2> HIDE DEF s
  <2> QED
    BY <2>2, <2>3
<1> QED
  BY <1>1, <1>2, <1>3, <1>4, <1>5

(* The test q leaves the shell where it is.                                *)
LEMMA ProgramLeaves ==
  ASSUME UInv, PidsLeft, NEW p \in DOMAIN proc, proc[p].state = "run",
         proc[p].prog.name = "shell", NEW q \in DOMAIN proc, Program(q)
  PROVE  proc'[p].sh = proc[p].sh
<1>1. q # p /\ proc[q].prog.name \notin {"init", "shell"}
  BY DEF Program
<1> DEFINE at == At(q)
<1>2. \/ DoTurn(q, at) \/ DoGoto(q, at) \/ DoExit(q, at) \/ spawn(q, at)
      \/ ForkR(q, at) \/ KillChild(q, at) \/ WaitAll(q, at) \/ WaitEach(q, at)
      \/ KillEach(q, at)
  BY DEF Program
<1> HIDE DEF at
<1> DEFINE S == \E me : proc' = [proc EXCEPT ![q] = me]
           B == \E me, child : proc' = Born([proc EXCEPT ![q] = me], NewPid, child)
           E == \E status : proc' = Ended(q, status)
           C == \E me : \E r \in Zombies(q) : proc' = Collected(q, r, me)
           K == \E pid : proc' = [Shot(pid) EXCEPT ![q] = proc'[q]]
<1>3. CASE DoTurn(q, at) \/ DoGoto(q, at)
  <2>1. S
    BY <1>3 DEF DoTurn, DoGoto, Step
  <2> QED
    BY <1>1, <2>1, OthersLeave
<1>4. CASE DoExit(q, at)
  <2>1. E
    BY <1>4 DEF DoExit
  <2> QED
    BY <1>1, <2>1, OthersLeave
<1>5. CASE spawn(q, at)
  <2>1. CASE Room
    <3>1. B
      BY <1>5, <2>1 DEF spawn
    <3> QED
      BY ZenonT(60), <1>1, <3>1, OthersLeave
  <2>2. CASE ~Room
    <3>1. S
      BY <1>5, <2>2 DEF spawn, Step
    <3> QED
      BY <1>1, <3>1, OthersLeave
  <2> QED
    BY <2>1, <2>2
<1>6. CASE ForkR(q, at)
  <2>1. S \/ B
    BY <1>6 DEF ForkR, Step
  <2> QED
    BY ZenonT(60), <1>1, <2>1, OthersLeave
<1>7. CASE KillChild(q, at)
  <2>1. PICK pid : proc' = [Shot(pid) EXCEPT ![q].pc = @ + 1]
    BY <1>7 DEF KillChild
  <2>2. q \in DOMAIN Shot(pid)
    BY ShotIs
  <2>3. K
    BY <2>1, <2>2
  <2> QED
    BY <1>1, <2>3, OthersLeave
<1>8. CASE WaitAll(q, at)
  <2>1. S \/ C
    BY <1>8 DEF WaitAll, Step
  <2> QED
    BY <1>1, <2>1, OthersLeave
<1>9. CASE WaitEach(q, at)
  <2>1. S \/ C
    BY <1>9 DEF WaitEach, Step
  <2> QED
    BY <1>1, <2>1, OthersLeave
<1>10. CASE KillEach(q, at)
  <2>1. PICK pid :
          proc' = [Shot(pid) EXCEPT ![q].pc = IF Killable(pid) THEN Onward(q).pc ELSE @ + 1,
                                    ![q].n = IF Killable(pid) THEN Onward(q).n ELSE @]
    BY <1>10 DEF KillEach
  <2>2. q \in DOMAIN Shot(pid)
    BY ShotIs
  <2>3. K
    BY <2>1, <2>2
  <2> QED
    BY <1>1, <2>3, OthersLeave
<1> QED
  BY <1>2, <1>3, <1>4, <1>5, <1>6, <1>7, <1>8, <1>9, <1>10

(* A shell that was reading and now runs a line has called readline().     *)
LEMMA OnlyReadline ==
  ASSUME UInv, PidsLeft, UNext, NEW p \in DOMAIN proc, InShell(p, "read"),
         InShell(p, "run")'
  PROVE  readline(p)
<1>1. /\ proc[p].state = "run" /\ proc[p].prog.name = "shell" /\ proc[p].sh.pc = "read"
      /\ proc'[p].state = "run" /\ proc'[p].sh.pc = "run"
      /\ proc'[p].sh # proc[p].sh /\ p # INIT
  BY AtInit DEF InShell
<1>2. ASSUME InitStarts \/ InitRestarts PROVE FALSE
  <2>1. PICK i, next : process(i, next)
    BY <1>2 DEF InitStarts, InitRestarts
  <2>2. CASE Room
    <3>1. \E me, child : proc' = Born([proc EXCEPT ![INIT] = me], NewPid, child)
      BY <2>1, <2>2 DEF process
    <3>2. proc[p].state = "run" /\ INIT # p
      BY <1>1
    <3>3. proc'[p].sh = proc[p].sh
      BY <3>1, <3>2, OthersLeave
    <3> QED
      BY <1>1, <3>3
  <2>3. CASE ~Room
    <3>1. \E me : proc' = [proc EXCEPT ![INIT] = me]
      BY <2>1, <2>3 DEF process, Step
    <3> QED
      BY <1>1, <3>1, OthersLeave
  <2> QED
    BY <2>2, <2>3
<1>3. ASSUME InitWaits PROVE FALSE
  <2>1. \E me : \E r \in Zombies(INIT) : proc' = Collected(INIT, r, me)
    BY <1>3 DEF InitWaits, Awaited
  <2> QED
    BY <1>1, <2>1, OthersLeave
<1>4. ASSUME Types PROVE FALSE
  BY <1>1, <1>4 DEF Types
<1>5. ASSUME NEW q \in DOMAIN proc, q # p,
             exec(q) \/ ShellLoop(q) \/ readline(q) \/ run(q) \/ ShellSpawn(q)
               \/ ShellRan(q) \/ ShellWait(q) \/ Dies(q)
      PROVE  FALSE
  <2> DEFINE S == \E me : proc' = [proc EXCEPT ![q] = me]
             B == \E me, child : proc' = Born([proc EXCEPT ![q] = me], NewPid, child)
             E == \E status : proc' = Ended(q, status)
             C == \E me : \E r \in Zombies(q) : proc' = Collected(q, r, me)
  <2>1. CASE exec(q) \/ readline(q) \/ run(q) \/ ShellRan(q)
    <3>1. S
      BY <2>1 DEF exec, readline, run, ShellRan, Step
    <3> QED
      BY <1>1, <1>5, <3>1, OthersLeave
  <2>2. CASE ShellLoop(q) \/ Dies(q)
    <3>1. S \/ E
      BY <2>2 DEF ShellLoop, Dies, Step
    <3> QED
      BY <1>1, <1>5, <3>1, OthersLeave
  <2>3. CASE ShellSpawn(q)
    <3>1. CASE Room
      <4>1. B
        BY <2>3, <3>1 DEF ShellSpawn
      <4> HIDE DEF S, B, E, C
      <4>2. proc'[p].sh = proc[p].sh
        <5>1. proc[p].state = "run" /\ q # p
          BY <1>1, <1>5
        <5> QED
          BY <4>1, <5>1, OthersLeave DEF B
      <4> QED
        BY <1>1, <4>2
    <3>2. CASE ~Room
      <4>1. S
        BY <2>3, <3>2 DEF ShellSpawn, Step
      <4> QED
        BY <1>1, <1>5, <4>1, OthersLeave
    <3> QED
      BY <3>1, <3>2
  <2>4. CASE ShellWait(q)
    <3>1. S \/ C
      BY <2>4 DEF ShellWait, Step
    <3> QED
      BY <1>1, <1>5, <3>1, OthersLeave
  <2> QED
    BY <1>5, <2>1, <2>2, <2>3, <2>4
<1>6. ~Dies(p)
  <2>1. ASSUME NEW status, proc' = Ended(p, status) PROVE proc'[p].state = "zombie"
    BY <2>1 DEF Ended, Child
  <2> QED
    BY <1>1, <2>1 DEF Dies
<1>7. /\ ~exec(p) /\ ~ShellLoop(p) /\ ~run(p) /\ ~ShellSpawn(p) /\ ~ShellRan(p)
      /\ ~ShellWait(p)
  BY <1>1 DEF exec, ShellLoop, run, ShellSpawn, ShellRan, ShellWait, InShell
<1>8. \A q \in DOMAIN proc : ~Program(q)
  BY <1>1, ProgramLeaves
<1> QED
  BY <1>2, <1>3, <1>4, <1>5, <1>6, <1>7, <1>8 DEF UNext

(* The line without its newline, as edit() finds it.                       *)
LEMMA EditAlone ==
  ASSUME NEW line \in Seq(Typed), line # <<>>, Alone(line)
  PROVE  LET n == edit(line) IN
         /\ n \in 0..Len(line) /\ n >= Len(line) - 1
         /\ Body(line) = SubSeq(line, 1, n)
         /\ n = Len(line) <=> line[Len(line)] # NL
<1> DEFINE n == edit(line)
<1>1. /\ Len(line) \in Nat /\ Len(line) # 0 /\ line \in [1..Len(line) -> Typed]
      /\ \A i \in 1..Len(line) : line[i] # CR
  BY DEF Typed, CR
<1>2. /\ n \in 0..Len(line)
      /\ n # 0 => line[n] \notin {NL, CR}
      /\ \A i \in 1..Len(line) : n < i => line[i] \in {NL, CR}
  BY EditIs
<1> HIDE DEF n
<1>3. \A i \in 1..Len(line) - 1 : line[i] # NL
  BY DEF Alone
<1>6. n \in Int /\ n >= 0 /\ n <= Len(line) /\ Len(line) \in Int
  BY <1>1, <1>2
<1>7. Len(line) \in 1..Len(line)
  BY <1>1
<1>4. CASE line[Len(line)] = NL
  <2>1. n # Len(line)
    BY <1>1, <1>2, <1>4
  <2>2. ASSUME n < Len(line) - 1 PROVE FALSE
    <3>1. Len(line) - 1 \in 1..Len(line)
      BY <1>1, <1>2, <2>2
    <3>2. line[Len(line) - 1] \in {NL, CR}
      BY <1>2, <2>2, <3>1
    <3> QED
      BY <1>1, <1>3, <3>1, <3>2
  <2>3. n = Len(line) - 1
    <3>1. ~(n < Len(line) - 1)
      BY <2>2
    <3> QED
      BY <1>6, <2>1, <3>1
  <2>4. Body(line) = SubSeq(line, 1, n)
    BY <1>4, <2>3 DEF Body
  <2> QED
    BY <1>2, <1>4, <1>6, <2>1, <2>3, <2>4 DEF n
<1>5. CASE line[Len(line)] # NL
  <2>1. n = Len(line)
    <3>1. ASSUME n < Len(line) PROVE FALSE
      <4>1. line[Len(line)] \in {NL, CR}
        BY <1>2, <1>7, <3>1
      <4> QED
        BY <1>1, <1>5, <1>7, <4>1
    <3>2. ~(n < Len(line))
      BY <3>1
    <3> QED
      BY <1>6, <3>2
  <2>2. SubSeq(line, 1, Len(line)) = line
    BY <1>1
  <2> QED
    BY <1>1, <1>5, <2>1, <2>2 DEF Body, n
<1> QED
  BY <1>4, <1>5

(* What is run of a line that is whole: what follows the '@'.              *)
LEMMA CommandsAlone ==
  ASSUME NEW line \in Seq(Typed), line # <<>>, Alone(line),
         Len(line) >= 3 \/ line[Len(line)] = NL
  PROVE  LET body == Body(line)
         IN Commands(line) = IF ~Has(body, "@") THEN <<>>
                             ELSE SubSeq(body, FirstOf(body, "@") + 1, Len(body))
<1> DEFINE n == edit(line)
           text == SubSeq(line, 1, n)
<1>1. /\ n \in 0..Len(line) /\ n >= Len(line) - 1 /\ Body(line) = text
      /\ n = Len(line) <=> line[Len(line)] # NL
  BY EditAlone
<1>2. Len(line) \in Nat /\ line \in [1..Len(line) -> Typed] /\ Len(line) # 0
  OBVIOUS
<1> HIDE DEF n
<1>3. text \in Seq(Typed) /\ Len(text) = n /\ \A i \in 1..n : text[i] = line[i]
  <2>0. n \in 0..Len(line) /\ Len(line) \in Nat /\ line \in [1..Len(line) -> Typed]
    BY <1>1, <1>2
  <2>1. n \in Int /\ n >= 0 /\ 1 \in Int /\ \A i \in 1..n : line[i] \in Typed
    BY <2>0
  <2>2. /\ text \in Seq(Typed) /\ Len(text) = IF 1 <= n THEN n - 1 + 1 ELSE 0
        /\ \A i \in 1..n - 1 + 1 : text[i] = line[1 + i - 1]
    BY <2>1, SubSeqProperties
  <2>3. n - 1 + 1 = n /\ \A i \in 1..n : 1 + i - 1 = i
    BY <2>1
  <2> HIDE DEF text
  <2> QED
    BY <2>1, <2>2, <2>3
<1> HIDE DEF text
<1> DEFINE at == FirstOf(text, "@")
           after == SubSeq(text, at + 1, n)
<1>4. CASE ~Has(text, "@")
  BY <1>1, <1>4 DEF Commands, n, text
<1>5. CASE Has(text, "@")
  <2>1. at \in 1..n
    BY <1>3, <1>5, FirstIs
  <2> HIDE DEF at
  <2>2. /\ after \in Seq(Typed) /\ Len(after) = n - at
        /\ \A i \in 1..n - at : after[i] = text[at + i]
    BY <1>1, <1>3, <2>1
  <2> HIDE DEF after
  <2>3. ~Has(after, NUL)
    <3>1. ASSUME NEW i \in DOMAIN after, after[i] = NUL PROVE FALSE
      <4>1. i \in 1..n - at /\ at + i \in 1..n /\ at + i \in 1..Len(line)
        BY <1>1, <2>1, <2>2
      <4>2. line[at + i] = NUL
        BY <1>3, <2>2, <3>1, <4>1
      <4>3. at + i \in DOMAIN line
        BY <1>2, <4>1
      <4> QED
        BY <4>2, <4>3 DEF Alone, Has
    <3> QED
      BY <3>1 DEF Has
  <2>4. CASE Len(line) < 3 \/ n < 2
    <3>0. n \in 0..Len(line) /\ n >= Len(line) - 1 /\ Len(line) \in Nat
      BY <1>1, <1>2
    <3>1. ASSUME n >= 2 PROVE FALSE
      <4>1. Len(line) < 3 /\ n = Len(line)
        BY <2>4, <3>0, <3>1
      <4> QED
        BY <1>1, <4>1
    <3>2. n = 1 /\ at = 1
      BY <2>1, <3>0, <3>1
    <3>3. after = <<>>
      BY <2>2, <3>2
    <3>4. Commands(line) = <<>>
      BY <2>4 DEF Commands, n
    <3> QED
      BY <1>1, <1>3, <1>5, <3>3, <3>4 DEF after, at
  <2>5. CASE ~(Len(line) < 3 \/ n < 2)
    <3>1. Commands(line) = after
      BY <1>5, <2>3, <2>5 DEF Commands, n, text, after, at
    <3> QED
      BY <1>1, <1>3, <1>5, <3>1 DEF after, at
  <2> QED
    BY <2>4, <2>5
<1> QED
  BY <1>4, <1>5

(* The line that readline() gives to the shell.                            *)
LEMMA ReadlineGives ==
  ASSUME UInv, NEW p \in DOMAIN proc, readline(p), InShell(p, "run")',
         Alone(proc'[p].sh.buf)
  PROVE  LET line == proc'[p].sh.buf
             body == Body(line)
         IN proc'[p].sh.cmds = IF ~Has(body, "@") THEN <<>>
                               ELSE SubSeq(body, FirstOf(body, "@") + 1, Len(body))
<1> DEFINE sh == proc[p].sh
           n == Min(LINE - 1 - Len(sh.buf), Len(input.typed))
           chunk == SubSeq(input.typed, 1, n)
           line == Terminated(sh.buf, chunk)
           done == Has(chunk, NL) \/ Len(line) = LINE - 1
           sh1 == [sh EXCEPT !.buf = line, !.cmds = IF done THEN Commands(line) ELSE <<>>,
                             !.pc = IF done THEN "run" ELSE "read"]
<1>1. InShell(p, "read") /\ n > 0 /\ Step(p, ShellTo(p, sh1))
  BY DEF readline
<1>2. sh \in ShLocals /\ proc[p] \in Process
  BY <1>1, AtShell
<1>3. input.typed \in Seq(Typed) /\ Len(input.typed) \in Nat
  BY DEF UInv, Inputs
<1>4. sh.buf \in Seq(Typed) /\ Len(sh.buf) \in Nat
  BY <1>2 DEF ShLocals
<1>5. n \in Int /\ n <= Len(input.typed)
  <2>1. \A a, b \in Int : Min(a, b) \in Int /\ Min(a, b) <= b
    BY DEF Min
  <2>2. LINE - 1 - Len(sh.buf) \in Int /\ Len(input.typed) \in Int
    BY <1>3, <1>4, UserlandAssumption
  <2> HIDE DEF sh
  <2> QED
    BY <2>1, <2>2
<1> HIDE DEF n
<1>6. chunk \in Seq(Typed) /\ Len(chunk) = n
  BY <1>1, <1>3, <1>5
<1> HIDE DEF chunk
<1>7. line \in Seq(Typed) /\ Len(line) = Len(sh.buf) + Len(chunk)
  BY <1>4, <1>6, TerminatedIs
<1>8. Has(chunk, NL) => Has(line, NL)
  <2> SUFFICES ASSUME Has(chunk, NL) PROVE Has(line, NL)
    OBVIOUS
  <2> DEFINE i == FirstOf(chunk, NL)
             all == sh.buf \o chunk
  <2>1. i \in 1..Len(chunk) /\ chunk[i] = NL
    BY <1>6, FirstIs
  <2> HIDE DEF i
  <2>2. /\ Len(sh.buf) + i \in DOMAIN all /\ all[Len(sh.buf) + i] = NL
        /\ Len(sh.buf) + i # Len(sh.buf) + i + 1
    <3>1. /\ all \in Seq(Typed) /\ Len(all) = Len(sh.buf) + Len(chunk)
          /\ \A j \in 1..Len(sh.buf) + Len(chunk) :
               all[j] = IF j <= Len(sh.buf) THEN sh.buf[j] ELSE chunk[j - Len(sh.buf)]
      BY <1>4, <1>6, ConcatProperties
    <3> HIDE DEF all, sh
    <3>2. DOMAIN all = 1..Len(all) /\ Len(chunk) \in Nat
      BY <1>6, <3>1
    <3>3. /\ Len(sh.buf) + i \in 1..Len(sh.buf) + Len(chunk)
          /\ ~(Len(sh.buf) + i <= Len(sh.buf)) /\ Len(sh.buf) + i - Len(sh.buf) = i
      BY <1>4, <2>1, <3>2
    <3>4. Len(sh.buf) + i # Len(sh.buf) + i + 1
      BY <3>3
    <3>5. all[Len(sh.buf) + i] = chunk[i]
      <4> DEFINE k == Len(sh.buf) + i
      <4>1. k \in 1..Len(sh.buf) + Len(chunk) /\ ~(k <= Len(sh.buf)) /\ k - Len(sh.buf) = i
        BY <1>4, <2>1, <3>2
      <4> HIDE DEF k
      <4>2. all[k] = chunk[k - Len(sh.buf)]
        BY <3>1, <4>1
      <4> QED
        BY <4>1, <4>2 DEF k
    <3> QED
      BY <2>1, <3>1, <3>2, <3>3, <3>4, <3>5
  <2> HIDE DEF all
  <2>3. line = [j \in DOMAIN all |-> IF j = Len(sh.buf) + i + 1 THEN NUL ELSE all[j]]
    BY DEF Terminated, all, i
  <2>4. Len(sh.buf) + i \in DOMAIN line /\ line[Len(sh.buf) + i] = NL
    BY <2>2, <2>3
  <2> QED
    BY <2>4 DEF Has
<1> HIDE DEF line
<1> HIDE DEF sh, done
<1>9. sh1.pc = (IF done THEN "run" ELSE "read") /\ sh1.buf = line
      /\ sh1.cmds = IF done THEN Commands(line) ELSE <<>>
  BY <1>2 DEF ShLocals
<1> HIDE DEF sh1
<1>10. proc'[p].sh = sh1
  BY <1>1, <1>2 DEF Step, ShellTo, Process
<1>11. done /\ proc'[p].sh.buf = line /\ proc'[p].sh.cmds = Commands(line)
  BY <1>9, <1>10 DEF InShell
<1>12. line # <<>> /\ Alone(line)
  BY <1>1, <1>4, <1>6, <1>7, <1>11 DEF sh
<1>13. Len(line) >= 3 \/ line[Len(line)] = NL
  <2>1. CASE Len(line) = LINE - 1
    BY <2>1, UserlandAssumption
  <2>2. CASE Has(line, NL)
    <3>1. PICK i \in 1..Len(line) : line[i] = NL
      BY <1>7, <2>2 DEF Has
    <3>2. i = Len(line)
      BY <1>7, <1>12, <3>1 DEF Alone
    <3> QED
      BY <3>1, <3>2
  <2> QED
    BY <1>8, <1>11, <2>1, <2>2 DEF done
<1> QED
  BY <1>7, <1>11, <1>12, <1>13, CommandsAlone

(* However the serial driver cuts a line into the results of read(), the   *)
(* shell runs what follows the '@' in it, unless something typed ahead was *)
(* read with it.                                                           *)
THEOREM AlwaysLineRuns == USpec /\ []PidsLeft => LineRuns
<1>1. UInv /\ PidsLeft /\ [UNext]_uvars =>
        [\A p \in Shells :
           InShell(p, "read") /\ InShell(p, "run")' /\ Alone(proc'[p].sh.buf) =>
             LET body == Body(proc'[p].sh.buf)
             IN proc'[p].sh.cmds = IF ~Has(body, "@") THEN <<>>
                                   ELSE SubSeq(body, FirstOf(body, "@") + 1, Len(body))]_uvars
  BY OnlyReadline, ReadlineGives DEF Shells
<1> QED
  BY <1>1, UInvariance, PTL DEF USpec, LineRuns
=============================================================================
