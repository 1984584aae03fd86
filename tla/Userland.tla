------------------------------ MODULE Userland ------------------------------
(***************************************************************************)
(* The user processes: init, the shell and the test programs of usercode/, *)
(* on the system calls as ulib.h promises them.  (What the kernel makes of *)
(* that promise is module Kernel.)                                         *)
(*                                                                         *)
(* A test program is the sequence of what its process does to others: the  *)
(* loops over a count are unrolled, and writing, delaying and sleeping are *)
(* turns in which the others may do something.  All the programs are       *)
(* linked into one image: a process has a stack of its own, but the static *)
(* variables exist once, whoever runs the program.                         *)
(***************************************************************************)
EXTENDS Integers, Sequences, FiniteSets

CONSTANTS
  N_PROCS,      \* processes the system can hold (25 in the code)
  Pids,         \* process numbers: enough of them that one is always new
  LINE,         \* sizeof(line) in the shell (128 in the code)
  Garbage,      \* what an uninitialised word of children[] may hold
  Jobs          \* spawn tables of the shell, and what is typed

ASSUME UserlandAssumption ==
  /\ N_PROCS \in Nat /\ N_PROCS >= 3
  /\ Pids \subseteq Nat \ {0} /\ 1 \in Pids
  /\ LINE \in Nat /\ LINE >= 4

VARIABLES
  proc,     \* the processes, zombies included, by PID
  static,   \* the static variables of init.c and shell.c
  input,    \* the characters typed and not read, and those still to come
  lost      \* a kill has hit the shell

uvars == <<proc, static, input, lost>>

INIT == 1
NL == "\n"
CR == "\r"
NUL == "NUL"
EXIT_KILLED == -101
EXIT_BAD_SYSCALL == -102
MAX_SEQ == 5

-----------------------------------------------------------------------------
(* The test programs.                                                      *)

Turn == <<[op |-> "turn"]>>
Sleep == Turn
Spawn(prog) == <<[op |-> "spawn", prog |-> prog, keep |-> FALSE]>>
SpawnChild(prog) == <<[op |-> "spawn", prog |-> prog, keep |-> TRUE]>>
exit(status) == <<[op |-> "exit", status |-> status]>>
Again(pc) == <<[op |-> "goto", pc |-> pc]>>

(* A main() that returns returns to fake_exit.                             *)
fake_exit(status) == exit(status)

Times(n, s) == [i \in 1..n * Len(s) |-> s[((i - 1) % Len(s)) + 1]]

Prog(name, n) == [name |-> name, n |-> n, mode |-> ""]

progABC(n) == Turn \o Times(n, Turn) \o exit(0)
progDE(n) == Turn \o Times(n, Turn) \o fake_exit(0)
progFG(n) == Turn \o Turn \o Times(n, Sleep \o Turn) \o exit(0)

(* The exit status of progH is the number of failed spawn() calls.         *)
progH(n) ==
  Turn \o Times(n, Spawn(Prog("progZ", 1))) \o Sleep \o Turn
    \o <<[op |-> "exitfailed"]>>

(* "kill two of them", children[1] and children[3], then wait() until      *)
(* there are no children.                                                  *)
progI(n) ==
  Turn \o Times(n, SpawnChild(Prog("progW", 0)) \o Turn) \o Sleep
    \o <<[op |-> "kill", child |-> 2], [op |-> "kill", child |-> 4],
         [op |-> "waitall"]>>
    \o exit(0)

progJ(n) == Turn \o Times(n, Spawn(Prog("progY", 0)) \o Turn) \o exit(0)

progKL(n) ==
  Turn \o Times(n, Turn \o Spawn(Prog("progX", 1)) \o Turn \o Sleep) \o exit(0)

progMN(n, alsoZ) ==
  Turn \o Times(n, Turn \o Spawn(Prog("progW", 0))
                     \o (IF alsoZ = "t" THEN Spawn(Prog("progZ", 1)) ELSE <<>>))
    \o exit(0)

progP(n) == Turn \o Times(n, Sleep \o Turn) \o exit(0)
progQ == Turn \o <<[op |-> "bogus"]>> \o Turn \o exit(1)

(* fork() without exec(): the child restarts with the next sequence        *)
(* number.  Every result but 0, and -1, which fork does not give, is taken *)
(* for that of the parent.                                                 *)
progR == Turn \o Sleep \o <<[op |-> "fork", skip |-> 5]>> \o Sleep \o Turn \o exit(0)

progS == Turn \o Sleep \o Turn \o Again(2)

(* Waits for the children, by PID or not, or kills them.                   *)
progTUV(n, mode) ==
  Turn \o Times(n, SpawnChild(Prog("progW", 1))) \o Sleep
    \o <<[op |-> IF mode = "k" THEN "killeach" ELSE "waiteach",
          bypid |-> mode # "w"]>>
    \o exit(0)

progW(n) == Turn \o Turn \o Times(n, Turn \o Sleep) \o exit(0)
progX(n) == Turn \o Times(n, Turn) \o exit(12)
progY(n) == Turn \o Times(n, Turn \o Sleep) \o exit(0)
progZ(n) == Turn \o Times(n, Turn) \o exit(0)

idle == Turn \o Again(1)
dmxTest == Turn \o Sleep \o Again(2)

Text(prog) ==
  CASE prog.name = "progABC" -> progABC(prog.n)
    [] prog.name = "progDE" -> progDE(prog.n)
    [] prog.name = "progFG" -> progFG(prog.n)
    [] prog.name = "progH" -> progH(prog.n)
    [] prog.name = "progI" -> progI(prog.n)
    [] prog.name = "progJ" -> progJ(prog.n)
    [] prog.name = "progKL" -> progKL(prog.n)
    [] prog.name = "progMN" -> progMN(prog.n, prog.mode)
    [] prog.name = "progP" -> progP(prog.n)
    [] prog.name = "progQ" -> progQ
    [] prog.name = "progR" -> progR
    [] prog.name = "progS" -> progS
    [] prog.name = "progTUV" -> progTUV(prog.n, prog.mode)
    [] prog.name = "progW" -> progW(prog.n)
    [] prog.name = "progX" -> progX(prog.n)
    [] prog.name = "progY" -> progY(prog.n)
    [] prog.name = "progZ" -> progZ(prog.n)
    [] prog.name = "idle" -> idle
    [] prog.name = "dmxTest" -> dmxTest

(* What a spawn table may name: a program of usercode/ with the arguments  *)
(* it takes.  "f" and "t" are for progMN, "k", "w" and "W" for progTUV.    *)
TestProgs ==
  {prog \in [name : {"progABC", "progDE", "progFG", "progH", "progI", "progJ", "progKL",
                     "progMN", "progP", "progQ", "progR", "progS", "progTUV", "progW",
                     "progX", "progY", "progZ", "dmxTest"},
             n : Nat, mode : {"", "f", "t", "k", "w", "W"}] :
     prog.mode \in {"k", "w", "W"} => prog.name = "progTUV"}

(* The serial driver makes a newline of a carriage return.                 *)
ASSUME JobsAssumption ==
  \A job \in Jobs :
    /\ job.table \in Seq([select : STRING, prog : TestProgs])
    /\ job.typed \in Seq(STRING \ {CR})

-----------------------------------------------------------------------------
(* The promise of the system calls.                                        *)

(* A process between fork() and exec(): `n' is the child it is at, `seq'   *)
(* the sequence number of progR, `sh' the locals of the shell.             *)
Child(parent, prog) ==
  [parent |-> parent, prog |-> prog, state |-> "exec", pc |-> 1, killed |-> FALSE,
   status |-> 0, children |-> <<>>, n |-> 1, failed |-> 0, seq |-> prog.n,
   sh |-> [pc |-> "loop", buf |-> <<>>, cmds |-> <<>>, todo |-> <<>>]]

(* next_pid++ gives a PID that was never given; here, one that nobody has  *)
(* and nobody remembers.                                                   *)
NewPids ==
  {p \in Pids \ DOMAIN proc :
     /\ \A i \in DOMAIN static.in_spawn_table : static.in_spawn_table[i].pid # p
     /\ \A q \in DOMAIN proc, i \in 1..N_PROCS :
          i \in DOMAIN proc[q].children => proc[q].children[i] # p}
NewPid == CHOOSE p \in NewPids : \A q \in NewPids : p <= q

Room == Cardinality(DOMAIN proc) < N_PROCS

Born(procs, pid, child) ==
  [q \in DOMAIN procs \cup {pid} |-> IF q = pid THEN child ELSE procs[q]]

(* The process becomes a zombie and init inherits its children.            *)
Ended(p, status) ==
  [q \in DOMAIN proc |->
     IF q = p THEN [Child(proc[p].parent, proc[p].prog) EXCEPT
                      !.state = "zombie", !.status = status]
     ELSE IF proc[q].parent = p THEN [proc[q] EXCEPT !.parent = INIT]
     ELSE proc[q]]

Children(p) == {q \in DOMAIN proc : proc[q].parent = p /\ q # p}
Zombies(p) == {q \in Children(p) : proc[q].state = "zombie"}

Collected(p, q, me) ==
  [r \in DOMAIN proc \ {q} |-> IF r = p THEN me ELSE proc[r]]

Step(p, me) == proc' = [proc EXCEPT ![p] = me]

(* kill(): SUCCESS if there is such a process.  The victim ends at some    *)
(* time, or, as Kernel shows, runs on.                                     *)
Killable(pid) == pid \in DOMAIN proc /\ pid # INIT
Shot(pid) ==
  IF Killable(pid) /\ proc[pid].state # "zombie"
  THEN [proc EXCEPT ![pid].killed = TRUE] ELSE proc

Dies(p) ==
  /\ proc[p].killed /\ proc[p].state # "zombie"
  /\ proc' = Ended(p, EXIT_KILLED)
  /\ lost' = (lost \/ proc[p].prog.name = "shell")
  /\ UNCHANGED <<static, input>>

-----------------------------------------------------------------------------
(* One step of a test program; `at' is where it is in its text.            *)

At(p) == Text(proc[p].prog)[proc[p].pc]
NextPc(p) == [proc[p] EXCEPT !.pc = @ + 1]

exec(p) ==
  /\ proc[p].state = "exec"
  /\ Step(p, [proc[p] EXCEPT !.state = "run"])
  /\ UNCHANGED <<static, input, lost>>

DoTurn(p, at) == at.op = "turn" /\ Step(p, NextPc(p))
DoGoto(p, at) == at.op = "goto" /\ Step(p, [proc[p] EXCEPT !.pc = at.pc])
DoExit(p, at) ==
  \/ at.op = "exit" /\ proc' = Ended(p, at.status)
  \/ at.op = "exitfailed" /\ proc' = Ended(p, proc[p].failed)
  \/ at.op = "bogus" /\ proc' = Ended(p, EXIT_BAD_SYSCALL)

(* spawn(): the parent's side.  The programs that need them keep the PIDs. *)
spawn(p, at) ==
  /\ at.op = "spawn"
  /\ IF Room
     THEN LET me == IF at.keep
                    THEN [NextPc(p) EXCEPT !.children = Append(@, NewPid)]
                    ELSE NextPc(p)
          IN proc' = Born([proc EXCEPT ![p] = me], NewPid, Child(p, at.prog))
     ELSE Step(p, [NextPc(p) EXCEPT !.failed = @ + 1])

ForkR(p, at) ==
  /\ at.op = "fork"
  /\ IF proc[p].seq >= MAX_SEQ THEN Step(p, [proc[p] EXCEPT !.pc = at.skip])
     ELSE IF Room
     THEN proc' = Born([proc EXCEPT ![p] = NextPc(p)], NewPid,
                       [Child(p, proc[p].prog) EXCEPT
                          !.state = "run", !.seq = proc[p].seq + 1])
     ELSE Step(p, NextPc(p))

(* children[i - 1], initialised or not.                                    *)
ChildAt(p, i) ==
  IF i \in DOMAIN proc[p].children THEN {proc[p].children[i]} ELSE Garbage

KillChild(p, at) ==
  /\ at.op = "kill"
  /\ \E pid \in ChildAt(p, at.child) :
       proc' = [Shot(pid) EXCEPT ![p].pc = @ + 1]

(* waitpid(0) until E_NO_CHILDREN.                                         *)
WaitAll(p, at) ==
  /\ at.op = "waitall"
  /\ \/ Children(p) = {} /\ Step(p, NextPc(p))
     \/ \E q \in Zombies(p) : proc' = Collected(p, q, proc[p])

(* "++n ... while( n < nkids )"                                            *)
Onward(p) ==
  IF proc[p].n < Len(proc[p].children)
  THEN [proc[p] EXCEPT !.n = @ + 1] ELSE NextPc(p)

(* The do-loop of progTUV: any error ends it.                              *)
WaitEach(p, at) ==
  /\ at.op = "waiteach"
  /\ \E pid \in (IF at.bypid THEN ChildAt(p, proc[p].n) ELSE {0}) :
       \/ /\ (pid = 0 /\ Children(p) = {}) \/ (pid # 0 /\ pid \notin Children(p))
          /\ Step(p, NextPc(p))
       \/ \E q \in Zombies(p) :
            /\ pid \in {0, q}
            /\ proc' = Collected(p, q, Onward(p))

KillEach(p, at) ==
  /\ at.op = "killeach"
  /\ \E pid \in ChildAt(p, proc[p].n) :
       proc' = [Shot(pid) EXCEPT ![p].pc = IF Killable(pid) THEN Onward(p).pc ELSE @ + 1,
                                 ![p].n = IF Killable(pid) THEN Onward(p).n ELSE @]

Program(p) ==
  /\ proc[p].state = "run" /\ proc[p].prog.name \notin {"init", "shell"}
  /\ \E at \in {At(p)} :
       \/ DoTurn(p, at) \/ DoGoto(p, at) \/ DoExit(p, at) \/ spawn(p, at)
       \/ ForkR(p, at) \/ KillChild(p, at) \/ WaitAll(p, at) \/ WaitEach(p, at)
       \/ KillEach(p, at)
  /\ UNCHANGED <<static, input, lost>>

-----------------------------------------------------------------------------
(* The shell.                                                              *)

Min(a, b) == IF a < b THEN a ELSE b
FirstOf(s, c) == CHOOSE i \in DOMAIN s : s[i] = c /\ \A j \in 1..i-1 : s[j] # c
Has(s, c) == \E i \in DOMAIN s : s[i] = c

Lower == [A |-> "a", B |-> "b", C |-> "c", D |-> "d", E |-> "e", F |-> "f",
          G |-> "g", H |-> "h", I |-> "i", J |-> "j", K |-> "k", L |-> "l",
          M |-> "m", N |-> "n", O |-> "o", P |-> "p", Q |-> "q", R |-> "r",
          S |-> "s", T |-> "t", U |-> "u", V |-> "v", W |-> "w", X |-> "x",
          Y |-> "y", Z |-> "z"]
LCASE(c) == IF c \in DOMAIN Lower THEN Lower[c] ELSE c

(* readline: the buffer once `chunk' was read into it.  The NUL is put     *)
(* behind the newline, even if more has been read.                         *)
Terminated(buf, chunk) ==
  LET all == buf \o chunk
      ptr == IF Has(chunk, NL) THEN Len(buf) + FirstOf(chunk, NL) ELSE Len(all)
  IN [i \in DOMAIN all |-> IF i = ptr + 1 THEN NUL ELSE all[i]]

(* Mutant: a newline at the end is not stripped.                           *)
edit_Not(line) == Len(line)

(* edit: the length without the EOLN sequence.                             *)
edit(line) ==
  LET kept == {i \in DOMAIN line : line[i] \notin {NL, CR}}
  IN IF kept = {} THEN 0 ELSE CHOOSE i \in kept : \A j \in kept : j <= i

(* "find the '@'"; the commands are what follows, up to a NUL.             *)
Commands(line) ==
  LET n == edit(line)
      text == SubSeq(line, 1, n)
      after == SubSeq(text, FirstOf(text, "@") + 1, n)
  IN IF Len(line) < 3 \/ n < 2 \/ ~Has(text, "@") THEN <<>>
     ELSE IF Has(after, NUL) THEN SubSeq(after, 1, FirstOf(after, NUL) - 1) ELSE after

InShell(p, pc) ==
  /\ proc[p].state = "run" /\ proc[p].prog.name = "shell"
  /\ proc[p].sh.pc = pc

ShellTo(p, sh) == [proc[p] EXCEPT !.sh = sh]

(* while( !time_to_stop ): the prompt.                                     *)
ShellLoop(p) ==
  /\ InShell(p, "loop")
  /\ IF static.time_to_stop THEN proc' = Ended(p, 1)
     ELSE Step(p, ShellTo(p, [pc |-> "read", buf |-> <<>>, cmds |-> <<>>, todo |-> <<>>]))
  /\ UNCHANGED <<static, input, lost>>

(* One read() of readline.  It blocks while there is nothing to read, so   *)
(* its result is positive.                                                 *)
readline(p) ==
  LET sh == proc[p].sh
      n == Min(LINE - 1 - Len(sh.buf), Len(input.typed))
      chunk == SubSeq(input.typed, 1, n)
      line == Terminated(sh.buf, chunk)
      done == Has(chunk, NL) \/ Len(line) = LINE - 1
      cmds == Commands(line)
  IN /\ InShell(p, "read") /\ n > 0
     /\ input' = [input EXCEPT !.typed = SubSeq(@, n + 1, Len(@))]
     /\ Step(p, ShellTo(p, [sh EXCEPT !.buf = line, !.cmds = IF done THEN cmds ELSE <<>>,
                                      !.pc = IF done THEN "run" ELSE "read"]))
     /\ UNCHANGED <<static, lost>>

Entries == static.sh_spawn_table
Found(c) == {i \in DOMAIN Entries : LCASE(Entries[i].select) = LCASE(c)}

(* run(): 'h' and '@' only print, as does an unknown command; the programs *)
(* of the others are spawned one after the other.                          *)
run(p) ==
  LET sh == proc[p].sh
      c == LCASE(Head(sh.cmds))
      todo == CASE c = "*" -> [i \in DOMAIN Entries |-> Entries[i].prog]
                [] c \in {"h", "@", "x"} \/ Found(c) = {} -> <<>>
                [] OTHER -> <<Entries[CHOOSE i \in Found(c) :
                                        \A j \in Found(c) : i <= j].prog>>
  IN /\ InShell(p, "run") /\ sh.cmds # <<>> /\ sh.todo = <<>>
     /\ Step(p, ShellTo(p, [sh EXCEPT !.cmds = IF c = "x" THEN <<>> ELSE Tail(@),
                                      !.todo = todo]))
     /\ static' = [static EXCEPT !.time_to_stop = @ \/ c = "x"]
     /\ UNCHANGED <<input, lost>>

(* "if( status > 0 ) ++children"                                           *)
Counted(children, ok) == IF ok THEN children + 1 ELSE children

ShellSpawn(p) ==
  LET sh == proc[p].sh
      me == ShellTo(p, [sh EXCEPT !.todo = Tail(@)])
  IN /\ InShell(p, "run") /\ sh.todo # <<>>
     /\ IF Room
        THEN proc' = Born([proc EXCEPT ![p] = me], NewPid, Child(p, Head(sh.todo)))
        ELSE Step(p, me)
     /\ static' = [static EXCEPT !.children = Counted(@, Room)]
     /\ UNCHANGED <<input, lost>>

ShellRan(p) ==
  LET sh == proc[p].sh
  IN /\ InShell(p, "run") /\ sh.cmds = <<>> /\ sh.todo = <<>>
     /\ Step(p, ShellTo(p, [sh EXCEPT !.pc = "wait"]))
     /\ UNCHANGED <<static, input, lost>>

(* Mutant: the last child is not waited for.                               *)
WaitOver_Early(p) == static.children < 2 \/ Children(p) = {}

(* Mutant: E_NO_CHILDREN does not end the loop.                            *)
WaitOver_OnlyCount(p) == static.children <= 0

(* "while( children > 0 )", and "if( whom == E_NO_CHILDREN ) break"        *)
WaitOver(p) == static.children <= 0 \/ Children(p) = {}

ShellWait(p) ==
  LET back == ShellTo(p, [proc[p].sh EXCEPT !.pc = "loop", !.buf = <<>>])
  IN /\ InShell(p, "wait")
     /\ IF WaitOver(p) THEN Step(p, back) /\ UNCHANGED static
        ELSE \E q \in Zombies(p) :
               /\ proc' = Collected(p, q, proc[p])
               /\ static' = [static EXCEPT !.children = @ - 1]
     /\ UNCHANGED <<input, lost>>

Shell(p) ==
  \/ ShellLoop(p) \/ readline(p) \/ run(p) \/ ShellSpawn(p) \/ ShellRan(p)
  \/ ShellWait(p)

-----------------------------------------------------------------------------
(* init.                                                                   *)

Table == static.in_spawn_table

(* Mutant: the PID is not reset before the process is restarted.           *)
Forgotten_Not(i) == Table

(* "reset the PID field (in case the spawn attempt fails)"                 *)
Forgotten(i) == [Table EXCEPT ![i].pid = 0]

(* process(): fork() and, in the child, exec().  Where init goes on is in  *)
(* its pc: the table at first, then the wait loop, which is 0.             *)
process(i, next) ==
  LET me == [proc[INIT] EXCEPT !.pc = next]
  IN IF Room
     THEN /\ proc' = Born([proc EXCEPT ![INIT] = me], NewPid,
                          Child(INIT, Table[i].prog))
          /\ static' = [static EXCEPT !.in_spawn_table[i].pid = NewPid]
     ELSE Step(INIT, me) /\ UNCHANGED static

InitStarts ==
  LET i == proc[INIT].pc
  IN /\ proc[INIT].state = "run" /\ i \in DOMAIN Table
     /\ process(i, IF i < Len(Table) THEN i + 1 ELSE 0)
     /\ UNCHANGED <<input, lost>>

(* Mutant: init waits only for the processes it started.                   *)
Awaited_Own == {q \in Zombies(INIT) : \E i \in DOMAIN Table : Table[i].pid = q}

Awaited == Zombies(INIT)

(* The wait loop: a process of the table is restarted, pc -i, and the      *)
(* others, inherited, are only collected.                                  *)
InitWaits ==
  /\ proc[INIT].state = "run" /\ proc[INIT].pc = 0
  /\ \E q \in Awaited :
       LET ours == {i \in DOMAIN Table : Table[i].pid = q}
           i == CHOOSE n \in ours : \A m \in ours : n <= m
       IN IF ours = {}
          THEN proc' = Collected(INIT, q, proc[INIT]) /\ UNCHANGED static
          ELSE /\ proc' = Collected(INIT, q, [proc[INIT] EXCEPT !.pc = -i])
               /\ static' = [static EXCEPT !.in_spawn_table = Forgotten(i)]
  /\ UNCHANGED <<input, lost>>

InitRestarts ==
  /\ proc[INIT].state = "run" /\ proc[INIT].pc < 0
  /\ process(-proc[INIT].pc, 0)
  /\ UNCHANGED <<input, lost>>

-----------------------------------------------------------------------------
(* The kernel has started init; nothing has been typed.                    *)
UInit ==
  \E job \in Jobs :
    /\ proc = [q \in {INIT} |-> [Child(INIT, Prog("init", 0)) EXCEPT !.state = "run"]]
    /\ static = [time_to_stop |-> FALSE, children |-> 0,
                 sh_spawn_table |-> job.table,
                 in_spawn_table |-> <<[prog |-> Prog("idle", 0), pid |-> 0],
                                      [prog |-> Prog("shell", 0), pid |-> 0]>>]
    /\ input = [typed |-> <<>>, coming |-> job.typed]
    /\ lost = FALSE

(* A character arrives at the serial port.                                 *)
Types ==
  /\ input.coming # <<>>
  /\ input' = [typed |-> Append(input.typed, Head(input.coming)),
               coming |-> Tail(input.coming)]
  /\ UNCHANGED <<proc, static, lost>>

InitStep == InitStarts \/ InitWaits \/ InitRestarts

Runs(p) ==
  /\ p \in DOMAIN proc /\ proc[p].prog.name # "idle"
  /\ exec(p) \/ Program(p) \/ Shell(p)

UNext ==
  \/ InitStarts \/ InitWaits \/ InitRestarts \/ Types
  \/ \E p \in DOMAIN proc :
       exec(p) \/ Program(p) \/ ShellLoop(p) \/ readline(p) \/ run(p)
       \/ ShellSpawn(p) \/ ShellRan(p) \/ ShellWait(p) \/ Dies(p)

(* The scheduler lets every process that can do something do it, but for   *)
(* idle.  Nothing says that anybody types, or that a victim ends.          *)
USpec ==
  /\ UInit /\ [][UNext]_uvars /\ WF_uvars(InitStep)
  /\ \A p \in Pids : WF_uvars(Runs(p))
=============================================================================
