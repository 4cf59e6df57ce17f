-------------------------------- MODULE Lifo --------------------------------
(***************************************************************************)
(* The values of the virtual call stack, seen from its users: a sequence   *)
(* of at most Capacity words whose last element is the top.  The operators *)
(* are the results of the three functions of stack.c; CallStack shows that *)
(* the linked frames of that file implement them.                          *)
(***************************************************************************)
EXTENDS Integers, Sequences

CONSTANT
  Capacity,   \* STACK_CAPACITY: the number of frames
  AllOnes     \* (uint32_t)-1, what stack_pop and stack_peek answer when empty

ASSUME CapacityAssumption == Capacity \in Nat \ {0}

IsFull(s) == Len(s) = Capacity
IsEmpty(s) == s = << >>

\* stack_push answers -1 and drops the word when no frame is free.
Pushed(s, d) == IF IsFull(s) THEN s ELSE Append(s, d)

TopOf(s) == IF IsEmpty(s) THEN AllOnes ELSE s[Len(s)]

Popped(s) == IF IsEmpty(s) THEN s ELSE SubSeq(s, 1, Len(s) - 1)
=============================================================================
