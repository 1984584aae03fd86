----------------------------- MODULE MCUserland -----------------------------
(***************************************************************************)
(* The user processes on a small machine.  A job is a spawn table and what *)
(* is typed at the shell; between them the jobs start every program of the *)
(* repository's table, with smaller counts.                                *)
(***************************************************************************)
EXTENDS Userland

Entry(c, name, n, mode) ==
  [select |-> c, prog |-> [name |-> name, n |-> n, mode |-> mode]]

A == Entry("A", "progABC", 1, "")
D == Entry("D", "progDE", 0, "")
F == Entry("F", "progFG", 1, "")
I == Entry("I", "progI", 2, "")
J == Entry("J", "progJ", 4, "")
T == Entry("T", "progTUV", 2, "w")
U == Entry("U", "progTUV", 2, "W")

Typing == <<
  [table |-> <<A, D>>, typed |-> <<"@", "a", NL, "@", "D", NL>>],
  [table |-> <<A, D, F>>, typed |-> <<"f", "@", "*", NL>>],
  [table |-> <<A, D>>, typed |-> <<"@", "a", "d", "a", "d", "a", "d">>],
  [table |-> <<A>>, typed |-> <<"@", NL, "h", "a", NL, "@", "h", "z", "@", NL>>],
  [table |-> <<D>>, typed |-> <<"@", "d", "X", "d", NL>>],
  [table |-> <<J, D>>, typed |-> <<"@", "j", "d", NL>>],
  [table |-> <<I>>, typed |-> <<"@", "i", NL, "@", "h", NL>>]>>

Programs == {
  T, U, Entry("V", "progTUV", 2, "k"), Entry("V", "progTUV", 0, "k"),
  Entry("H", "progH", 2, ""), Entry("I", "progI", 4, ""),
  Entry("K", "progKL", 2, ""), Entry("N", "progMN", 1, "t"),
  Entry("P", "progP", 1, ""), Entry("Q", "progQ", 0, ""), Entry("R", "progR", 3, ""),
  Entry("R", "progR", 20, ""), Entry("S", "progS", 0, ""), Entry("W", "dmxTest", 0, "")}

MCJobs ==
  {Typing[i] : i \in DOMAIN Typing}
    \cup {[table |-> <<e>>, typed |-> <<"@", e.select, NL>>] : e \in Programs}

MCPids == 1..14

(* Nobody, or the shell.                                                   *)
MCGarbage == {0, 3}

-----------------------------------------------------------------------------
Shells == {p \in DOMAIN proc : proc[p].prog.name = "shell"}

(* `children' of shell.c is the number of the shell's children it has not  *)
(* collected, whatever failed to be spawned; if a shell is killed its      *)
(* successor inherits the count but not the children, and it is too high.  *)
ChildrenCounted ==
  \A p \in Shells : proc[p].state # "zombie" =>
    /\ static.children >= Cardinality(Children(p))
    /\ ~lost => static.children = Cardinality(Children(p))

(* The shell gives its prompt only when no child of it is left, running or *)
(* dead, even if its count is too high.                                    *)
PromptAlone ==
  \A p \in Shells : InShell(p, "read") => Children(p) = {}

(* However the serial driver cuts a line into the results of read(), the   *)
(* shell runs the characters between the '@' and the end of the line,      *)
(* unless something typed ahead was read with them.                        *)
Alone(line) == ~Has(line, NUL) /\ \A i \in 1..Len(line)-1 : line[i] # NL
Body(line) == IF line[Len(line)] = NL THEN SubSeq(line, 1, Len(line) - 1) ELSE line
LineRuns ==
  [][\A p \in Shells :
       InShell(p, "read") /\ InShell(p, "run")' /\ Alone(proc'[p].sh.buf) =>
         LET body == Body(proc'[p].sh.buf)
         IN proc'[p].sh.cmds = IF ~Has(body, "@") THEN <<>>
                               ELSE SubSeq(body, FirstOf(body, "@") + 1, Len(body))]_uvars

(* Before they exit, progT, progU and progI have collected every child     *)
(* they spawned: init inherits none of them.                               *)
ChildrenAwaited ==
  \A p \in DOMAIN proc :
    /\ proc[p].state = "run"
    /\ proc[p].prog.name = "progI" \/ proc[p].prog.mode \in {"w", "W"}
    /\ At(p).op = "exit"
    => Children(p) = {}

(* The PID init keeps for an entry of its table is that of a child of init *)
(* that was started for this entry, or 0: never that of a process it has   *)
(* collected.                                                              *)
TableTrue ==
  \A i \in DOMAIN Table : Table[i].pid # 0 =>
    /\ Table[i].pid \in Children(INIT)
    /\ proc[Table[i].pid].prog = Table[i].prog

(* Every process that has ended is collected in the end: by its parent, or *)
(* by init if the parent did not wait for it.                              *)
ZombiesCollected ==
  \A p \in Pids : []<>(p \notin DOMAIN proc \/ proc[p].state # "zombie")

(* The shell comes back to its prompt, unless it was told to stop, could   *)
(* not be restarted, or runs a program that has no end.                    *)
Endless(p) == proc[p].prog.name \in {"progS", "dmxTest"}
ShellReturns ==
  []<>(\/ \E p \in Shells : InShell(p, "read")
       \/ static.time_to_stop \/ Shells = {}
       \/ \E p \in DOMAIN proc : Endless(p))

(* The programs know their children: whoever fails to be spawned, dies or  *)
(* is killed, nobody goes on as if its children were gone while one is     *)
(* left.                                                                   *)
ChildrenKnown == ChildrenCounted /\ PromptAlone /\ ChildrenAwaited
=============================================================================
