----------------------------- MODULE UserStack -----------------------------
(***************************************************************************)
(* user.c: stack_setup lays out the cleared stack of a new program: its    *)
(* argument strings and vector, the return address of main() and the       *)
(* context it will be started from.                                        *)
(*                                                                         *)
(* The stack is memory of addresses 0..SZ_USTACK-1.  A word is held by the *)
(* first of its four bytes; the other three hold REST.  The strings come   *)
(* from another stack or from data, so their addresses do not matter; a    *)
(* string is the sequence of its characters, without the NUL.              *)
(***************************************************************************)
EXTENDS Integers, Sequences

CONSTANTS
  SZ_PAGE,         \* 4096 in the code; also the limit of the strings
  N_USTKPAGES,     \* 2
  N_ARGS,          \* 10: the size of the arrays kv_strs, strlengths, uv_offsets
  SZ_CONTEXT       \* sizeof(context_t)

SZ_USTACK == N_USTKPAGES * SZ_PAGE

(* The deepest the layout can reach must be inside the stack.              *)
ASSUME StackAssumption ==
  /\ SZ_PAGE % 16 = 0 /\ N_USTKPAGES \in Nat /\ N_ARGS \in Nat
  /\ SZ_CONTEXT % 4 = 0
  /\ SZ_CONTEXT + 4 + 16 + 4 * (N_ARGS + 3) + SZ_PAGE + 4 <= SZ_USTACK

REST == -1
FAKE_EXIT == -2      \* the address of fake_exit
CONTEXT == -3        \* a word of the context

StoreWord(m, a, v) ==
  [b \in DOMAIN m |-> IF b = a THEN v ELSE IF b \in a+1..a+3 THEN REST ELSE m[b]]

RoundUp4(n) == ((n + 3) \div 4) * 4
RoundDown(n, to) == (n \div to) * to

-----------------------------------------------------------------------------
(* The bytes of the first i strings, each with its NUL: uv_offsets[i].     *)
Offset(args, i) ==
  LET f[n \in 0..i] == IF n = 0 THEN 0 ELSE f[n - 1] + Len(args[n]) + 1 IN f[i]

(* Where the first loop stops: at the argument that does not fit the page. *)
Argc(args) ==
  LET fits == {i \in 0..Len(args) : Offset(args, i) <= SZ_PAGE}
  IN CHOOSE i \in fits : i + 1 \notin fits

(* That loop does not compare argc with N_ARGS: it stores strlengths[argc] *)
(* for every argument it looks at, the one it stops at included.           *)
ArraysOverrun(args) ==
  (IF Argc(args) < Len(args) THEN Argc(args) + 1 ELSE Argc(args)) > N_ARGS

(* argstrings: the strings one after another, and zeroes up to a word.     *)
ArgStrings(args, argc) ==
  [b \in 0..RoundUp4(Offset(args, argc))-1 |->
     LET i == {j \in 1..argc : b \in Offset(args, j-1)..Offset(args, j)-2}
     IN IF i = {} THEN 0
        ELSE LET j == CHOOSE n \in i : TRUE IN args[j][b - Offset(args, j-1) + 1]]

(* Mutant: the two words for argc and argv are not counted.                *)
ArgcPlace_Short(strs, argc) == RoundDown(strs - 4 * (argc + 1), 16)

(* Where argc goes: below the argc + 1 entries of argv and argv itself, at *)
(* a multiple of 16.                                                       *)
ArgcPlace(strs, argc) == RoundDown(strs - 4 * (argc + 3), 16)

(* stack_setup(pcb, entry, args): the stack and its context pointer.       *)
stack_setup(args) ==
  LET argc == Argc(args)
      argstrings == ArgStrings(args, argc)
      zero == StoreWord([b \in 0..SZ_USTACK-1 |-> 0], SZ_USTACK - 4, 0)
      strs == RoundDown(SZ_USTACK - 4 - RoundUp4(Offset(args, argc)), 4)
      strings == [b \in DOMAIN zero |-> IF b - strs \in DOMAIN argstrings
                                        THEN argstrings[b - strs] ELSE zero[b]]
      acptr == ArgcPlace(strs, argc)
      av[n \in 0..argc] ==
        IF n = 0 THEN StoreWord(StoreWord(strings, acptr, argc), acptr + 4, acptr + 8)
        ELSE StoreWord(av[n-1], acptr + 4 + 4*n, strs + Offset(args, n-1))
      null == StoreWord(av[argc], acptr + 8 + 4*argc, 0)
      ret == StoreWord(null, acptr - 4, FAKE_EXIT)
      ctx == acptr - 4 - SZ_CONTEXT
  IN [mem |-> [b \in DOMAIN ret |-> IF b \in ctx..acptr-5 THEN CONTEXT ELSE ret[b]],
      context |-> ctx]
=============================================================================
