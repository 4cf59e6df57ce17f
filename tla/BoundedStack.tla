---------------------------- MODULE BoundedStack ----------------------------
(***************************************************************************)
(* What stack.c promises: a last-in first-out store of at most Capacity    *)
(* words that reports every outcome in the value it returns.               *)
(***************************************************************************)
EXTENDS Lifo

CONSTANT Data     \* the words that are pushed

VARIABLES
  items,          \* the words held, oldest first
  ret             \* the value returned by the last call

vars == <<items, ret>>

Init == items = << >> /\ ret = 0

Push(d) ==
  /\ ret' = IF IsFull(items) THEN -1 ELSE 0
  /\ items' = Pushed(items, d)

Pop ==
  /\ ret' = TopOf(items)
  /\ items' = Popped(items)

Peek ==
  /\ ret' = TopOf(items)
  /\ UNCHANGED items

Next == (\E d \in Data : Push(d)) \/ Pop \/ Peek

Spec == Init /\ [][Next]_vars
=============================================================================
