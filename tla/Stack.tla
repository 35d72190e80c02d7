------------------------------- MODULE Stack --------------------------------
(***************************************************************************)
(* The stack of open elements of the configuration parsers (sd/stack.c):   *)
(* an array that is doubled when it is full, up to a maximum, and halved   *)
(* when less than a quarter of it is in use.                               *)
(*                                                                         *)
(* The functions are operators on a stack, which the parsers use, and the  *)
(* state machine is a program that calls them in any order.  The parsers   *)
(* give 0 for the maximum, which stands for INT_MAX.  A maximum below the  *)
(* first size is taken as it is: the array starts larger than it, and the  *)
(* push that finds the array full shrinks it under the elements, which the *)
(* assertion that follows does not let pass.                               *)
(***************************************************************************)
EXTENDS Integers, Sequences

CONSTANTS
  Item,                 \* what is pushed
  SD_STACK_INIT_SIZE,   \* 32
  INT_MAX,
  Maxima                \* arguments of sd_stack_new

ASSUME SizesAssumption ==
  /\ SD_STACK_INIT_SIZE \in Nat \ {0}
  /\ INT_MAX \in Nat /\ INT_MAX >= SD_STACK_INIT_SIZE
  /\ Maxima \subseteq Nat

VARIABLES
  stack,      \* struct __sd_stack: max, sp, size, iter and the array
  returned    \* the last call, and what it returned

svars == <<stack, returned>>

Result(by, rc, data) == [by |-> by, rc |-> rc, data |-> data]
Nothing == << >>      \* NULL, or a slot nothing was written to
Slot == {<<d>> : d \in Item} \cup {Nothing}

sd_stack_new(max) ==
  [max |-> IF max = 0 THEN INT_MAX ELSE max, sp |-> 0, size |-> SD_STACK_INIT_SIZE, iter |-> 0,
   array |-> [j \in 0..SD_STACK_INIT_SIZE-1 |-> Nothing]]

\* sd_realloc of the array: what fits is kept, the rest is unwritten.
Resized(s, n) ==
  [s EXCEPT !.size = n,
            !.array = [j \in 0..n-1 |-> IF j < s.size THEN s.array[j] ELSE Nothing]]

Full(s) == s.sp = s.size /\ s.size = s.max

\* Variant: the doubling may pass the maximum.
GrowPast(s) == IF s.sp = s.size THEN Resized(s, s.size * 2) ELSE s

Grown(s) ==
  IF s.sp < s.size THEN s
  ELSE IF s.size * 2 > s.max THEN Resized(s, s.max) ELSE Resized(s, s.size * 2)

Shrunk(s) ==
  IF s.size >= SD_STACK_INIT_SIZE * 4 /\ s.sp < s.size \div 4
  THEN Resized(s, s.size \div 2) ELSE s

\* The assertion of sd_stack_push: what it grew the array to holds the elements.
Asserted(s) == s.sp <= Grown(s).size

\* sd_stack_push of d, unless it returns -1.
Push(s, d) ==
  LET g == Grown(s) IN [g EXCEPT !.array[g.sp] = <<d>>, !.sp = @ + 1]

\* Variant: nothing is taken out by the call that halves the array.
PopOnlyShrinks(s) ==
  IF s.sp = 0 THEN s
  ELSE IF Shrunk(s) # s THEN Shrunk(s) ELSE [s EXCEPT !.sp = @ - 1]

\* sd_stack_pop and sd_stack_peek, and what the first of them returns.
Pop(s)   == IF s.sp = 0 THEN s ELSE [Shrunk(s) EXCEPT !.sp = @ - 1]
Peek(s)  == IF s.sp = 0 THEN Nothing ELSE s.array[s.sp - 1]
Popped(s) == Shrunk(s).array[s.sp - 1]

-----------------------------------------------------------------------------
\* The program has not been aborted by the assertion.
Running == returned.by # "abort"

DoPush ==
  /\ Running
  /\ \E d \in Item :
       \/ /\ Full(stack)
          /\ returned' = Result("push", -1, Nothing) /\ UNCHANGED stack
       \/ /\ ~Full(stack) /\ Asserted(stack)
          /\ stack' = Push(stack, d) /\ returned' = Result("push", 0, Nothing)

(* A push of anything that never returns: the program ends with the stack   *)
(* as it was.                                                               *)
PushAborts ==
  /\ Running /\ ~Full(stack) /\ ~Asserted(stack)
  /\ returned' = Result("abort", 0, Nothing) /\ UNCHANGED stack

DoPop ==
  /\ Running
  /\ stack' = Pop(stack)
  /\ returned' = Result("pop", 0, IF stack.sp = 0 THEN Nothing ELSE Popped(stack))

DoPeek == Running /\ returned' = Result("peek", 0, Peek(stack)) /\ UNCHANGED stack

(* sd_stack_clear takes the elements out only if it is told how to free     *)
(* them.                                                                    *)
DoClear ==
  /\ Running
  /\ \E free_data_fn \in BOOLEAN : stack' = [stack EXCEPT !.sp = IF free_data_fn THEN 0 ELSE @]
  /\ returned' = Result("clear", 0, Nothing)

(* sd_stack_begin returns the first slot without moving on, so that the     *)
(* first sd_stack_next returns it again.                                    *)
DoBegin ==
  /\ Running
  /\ stack' = [stack EXCEPT !.iter = 0]
  /\ returned' = Result("look", 0, stack.array[0])

DoNext ==
  /\ Running
  /\ IF stack.iter < stack.sp
     THEN /\ stack' = [stack EXCEPT !.iter = @ + 1]
          /\ returned' = Result("look", 0, stack.array[stack.iter])
     ELSE returned' = Result("look", 0, Nothing) /\ UNCHANGED stack

StackInit == returned = Result("clear", 0, Nothing) /\ \E max \in Maxima : stack = sd_stack_new(max)

StackNext == DoPush \/ PushAborts \/ DoPop \/ DoPeek \/ DoClear \/ DoBegin \/ DoNext

StackSpec == StackInit /\ [][StackNext]_svars

-----------------------------------------------------------------------------
StackTypes ==
  /\ stack.max \in Nat /\ stack.sp \in Nat /\ stack.size \in Nat /\ stack.iter \in Nat
  /\ stack.array \in [0..stack.size-1 -> Slot]
  /\ returned \in [by : {"push", "pop", "peek", "clear", "look", "abort"}, rc : {0, -1}, data : Slot]

(* With any maximum, no element lies outside of the array as it is          *)
(* allocated, every slot below sp has been written, and the array is never  *)
(* larger than the maximum it was given, but for its first size.  The       *)
(* assertion of push fails only where that first size is above the maximum, *)
(* once so many elements are in.                                            *)
StackInBounds ==
  /\ stack.sp <= stack.size
  /\ stack.size <= stack.max \/ stack.size = SD_STACK_INIT_SIZE
  /\ DOMAIN stack.array = 0..stack.size-1
  /\ \A j \in 0..stack.sp-1 : stack.array[j] # Nothing
  /\ ~Running => stack.max < SD_STACK_INIT_SIZE /\ stack.sp = SD_STACK_INIT_SIZE

(* Pushing and popping is last in, first out up to the maximum, or to the   *)
(* first size of the array if that is larger; what pop and peek return is   *)
(* the last item: neither growing nor shrinking the array loses or moves an *)
(* element.  The push that aborts is one at that limit, where the interface *)
(* has it refused.                                                          *)
StackLimit == IF stack.max < SD_STACK_INIT_SIZE THEN SD_STACK_INIT_SIZE ELSE stack.max
StackGot   == IF Running THEN returned ELSE Result("push", -1, Nothing)

Lf == INSTANCE Lifo WITH
        limit <- StackLimit,
        got   <- StackGot,
        items <- [j \in 1..stack.sp |-> stack.array[j-1][1]]

ImplementsLifo == Lf!Spec
=============================================================================
