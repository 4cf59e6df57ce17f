----------------------------- MODULE CallStack ------------------------------
(***************************************************************************)
(* stack.c: the private call stack of one emulated thread, an array of     *)
(* frames threaded by two linked lists.  `top' heads the list of frames in *)
(* use, `free' the list of frames that may be taken; -1 ends a list.       *)
(* A word is a natural number; the largest, AllOnes, is 0xFFFFFFFF.        *)
(***************************************************************************)
EXTENDS Lifo

ASSUME StackAssumption == AllOnes \in Nat \ {0}

VARIABLES
  frames,         \* Stack.frames
  top,            \* Stack.top
  free,           \* Stack.free
  ret             \* value returned by the last call

stackVars == <<frames, top, free, ret>>

Nil == -1
Index == 0 .. Capacity - 1
\* handle_call pushes a 24-bit address, so the all-ones word is never pushed.
Data == 0 .. AllOnes - 1

\* `Stack stk = {0}' in emulate, then stack_init.
StackInit ==
  /\ frames = [i \in Index |->
                 [data |-> 0, next |-> IF i = Capacity - 1 THEN Nil ELSE i + 1]]
  /\ top = Nil
  /\ free = 0
  /\ ret = 0

PushFull ==
  /\ free = Nil
  /\ ret' = -1
  /\ UNCHANGED <<frames, top, free>>

Push(d) ==
  /\ free # Nil
  /\ free' = frames[free].next
  /\ frames' = [frames EXCEPT ![free] = [data |-> d, next |-> top]]
  /\ top' = free
  /\ ret' = 0

\* Mutant of PopEmpty: the error is reported as push reports it.
PopEmpty_Minus1 ==
  /\ top = Nil
  /\ ret' = -1
  /\ UNCHANGED <<frames, top, free>>

PopEmpty ==
  /\ top = Nil
  /\ ret' = AllOnes
  /\ UNCHANGED <<frames, top, free>>

\* Mutants of Pop: the frame is not recycled; one frame too many is popped.
Pop_NoRecycle ==
  /\ top # Nil
  /\ ret' = frames[top].data
  /\ top' = frames[top].next
  /\ UNCHANGED <<frames, free>>

Pop_OffByOne ==
  /\ top # Nil
  /\ ret' = frames[top].data
  /\ top' = frames[top].next - 1
  /\ frames' = [frames EXCEPT ![top].next = free]
  /\ free' = top

Pop ==
  /\ top # Nil
  /\ ret' = frames[top].data
  /\ top' = frames[top].next
  /\ frames' = [frames EXCEPT ![top].next = free]
  /\ free' = top

Peek ==
  /\ ret' = IF top = Nil THEN AllOnes ELSE frames[top].data
  /\ UNCHANGED <<frames, top, free>>

StackNext == PushFull \/ (\E d \in Data : Push(d)) \/ PopEmpty \/ Pop \/ Peek

StackSpec == StackInit /\ [][StackNext]_stackVars

-----------------------------------------------------------------------------
\* Every link names a frame or ends a list, and every stored word was pushed
\* (stack.h, the fields of StackFrame and Stack).
StackTypeOK ==
  /\ frames \in [Index -> [data : Data, next : Index \cup {Nil}]]
  /\ top \in Index \cup {Nil}
  /\ free \in Index \cup {Nil}
  /\ ret \in Data \cup {-1, AllOnes}

\* The two lists never share, lose or reorder a frame, whatever mix of pushes
\* and pops ran: the frames in use are exactly those up to `top', linked
\* downwards, and the free list runs through the others in order.
NoFrameLost ==
  /\ free = IF top = Capacity - 1 THEN Nil ELSE top + 1
  /\ \A i \in Index :
       frames[i].next = IF i <= top THEN i - 1
                        ELSE IF i = Capacity - 1 THEN Nil ELSE i + 1

\* The refinement mapping: the words in use, oldest first.
Items == [i \in 1 .. top + 1 |-> frames[i - 1].data]

Abstract == INSTANCE BoundedStack WITH items <- Items

\* The linked frames behave as a bounded last-in first-out store: each call
\* returns the value, and leaves the words, that BoundedStack allows.
ImplementsBoundedStack == Abstract!Spec
=============================================================================
