------------------------------- MODULE Locals -------------------------------
(* PUT and GET: the local variables of the virtual program.  A variable    *)
(* lives where the hash of the return address on top of the call stack and *)
(* of its identifier points to, in an area of vmem all threads share.      *)
(* Nothing keeps two hashes from falling on the same bytes, nor a variable *)
(* from running over the end of the area, into the shared list of return   *)
(* addresses, which CALL and RET overwrite.                                *)
(*                                                                         *)
(* dict is a ghost, the dictionary that README.md promises for each        *)
(* activation: what it has last PUT under each identifier.  Two activations*)
(* with one key share their variables: clashed, a ghost too, has the keys  *)
(* that two activations have had at the same time.                         *)
(*                                                                         *)
(* The call stack is the bounded one of Lifo.  A CALL whose return address *)
(* it drops gives the callee its caller's key; the caller is not resumed,  *)
(* since the callee's RET takes the address below, so that the callee's    *)
(* dictionary takes the place of its caller's.                             *)
EXTENDS Lifo, SequencesExt

CONSTANTS
  Threads,
  Sites,       \* return addresses: one for each CALL of the program
  Ids,         \* identifiers of local variables
  Marks,       \* bytes other than 0; a value repeats one of them
  Widths,      \* the widths the program uses
  LocalTop,    \* the last address of the area (WEEPER_VMEM_LOCAL_HI)
  Hash,        \* fnv1a_hash, from a key and an identifier to an address
  Depth        \* bound: the return addresses in all stacks together

VARIABLES
  vmem,        \* the bytes of the area that variables use
  stack,       \* the call stack of each thread
  dict,        \* ghost: the dictionaries of the activations of each thread
  clashed,     \* ghost: the keys two activations have had at once
  result,      \* what the last instruction got, if it was a GET
  live         \* the threads still in emulate

vars == <<vmem, stack, dict, clashed, result, live>>

NoSite == 0   \* the key outside any call: stack_peek's -1 becomes 0
Keys == Sites \union {NoSite}
Bytes(v) == IF v = 1 THEN 1 ELSE IF v = 2 THEN 2 ELSE 4
BytesAt(a, v) == a .. a + Bytes(v) - 1
Area == 0 .. LocalTop
\* Where the variable is: offs of PUT and GET.
Place(key, id) == Hash[<<key, id>>]

Cells == (UNION {BytesAt(Place(key, id), 3) : key \in Keys, id \in Ids}) \intersect Area

Unset == [v |-> 0, mark |-> 0]
Entries == [v : Widths, mark : Marks] \union {Unset}
Nothing == [by |-> "none"]
Empty == [id \in Ids |-> Unset]

ASSUME LocalsAssumption ==
  /\ LocalTop \in Nat /\ Depth \in Nat
  /\ Widths \subseteq 1 .. 3 /\ 0 \notin Marks
  /\ NoSite \notin Sites /\ AllOnes \notin Sites /\ "none" \notin Threads
  /\ Hash \in [Keys \X Ids -> Area]

-----------------------------------------------------------------------------

\* Mutant: the key is not taken from the call stack.
Key_NoPeek(t) == NoSite

\* stack_peek, with -1 for an empty stack replaced by 0.
Key(t) == IF TopOf(stack[t]) = AllOnes THEN NoSite ELSE TopOf(stack[t])

\* The return addresses in all stacks together.
Pending == FoldFunction(LAMBDA calls, n : Len(calls) + n, 0, stack)

Init ==
  /\ vmem = [a \in Cells |-> 0]
  /\ stack = [t \in Threads |-> << >>]
  /\ dict = [t \in Threads |-> <<Empty>>]
  /\ clashed = {k \in {NoSite} : \E t, u \in Threads : t # u}
  /\ result = Nothing
  /\ live = Threads

Put(t, id, v, m) ==
  LET a == Place(Key(t), id)
  IN /\ t \in live
     /\ vmem' = [b \in Cells |-> IF b \in BytesAt(a, v) THEN m ELSE vmem[b]]
     /\ dict' = [dict EXCEPT ![t][Len(dict[t])][id] = [v |-> v, mark |-> m]]
     /\ result' = Nothing
     /\ UNCHANGED <<stack, clashed, live>>

\* Behind the area is whatever CALL, RET and PUT have left there.
Read(a, v, behind) ==
  [k \in 1 .. Bytes(v) |-> IF a + k - 1 \in Area THEN vmem[a + k - 1] ELSE behind]

\* Mutant: GET looks outside the activation.
Get_OuterKey(t, id, v) ==
  /\ t \in live
  /\ \E behind \in Marks \union {0} :
       result' = [by |-> t, id |-> id, got |-> Read(Place(NoSite, id), v, behind)]
  /\ UNCHANGED <<vmem, stack, dict, clashed, live>>

Get(t, id, v) ==
  /\ t \in live
  /\ \E behind \in Marks \union {0} :
       result' = [by |-> t, id |-> id, got |-> Read(Place(Key(t), id), v, behind)]
  /\ UNCHANGED <<vmem, stack, dict, clashed, live>>

\* Bound: a full stack takes no more addresses, so a call on it is free.
InBounds(t) == IsFull(stack[t]) \/ Pending < Depth

\* Mutant: CALL does not push its return address.
Call_NoPush(t, s) ==
  /\ t \in live /\ InBounds(t)
  /\ dict' = [dict EXCEPT ![t] = Append(@, Empty)]
  /\ result' = Nothing
  /\ UNCHANGED <<stack, vmem, clashed, live>>

Call(t, s) ==
  /\ t \in live /\ InBounds(t)
  /\ stack' = [stack EXCEPT ![t] = Pushed(@, s)]
  /\ IF IsFull(stack[t])
     THEN /\ dict' = [dict EXCEPT ![t][Len(dict[t])] = Empty]
          /\ UNCHANGED clashed
     ELSE /\ dict' = [dict EXCEPT ![t] = Append(@, Empty)]
          /\ clashed' = clashed \union {k \in {s} : \E u \in live : k \in ToSet(stack[u])}
  /\ result' = Nothing
  /\ UNCHANGED <<vmem, live>>

Ret(t) ==
  /\ t \in live /\ stack[t] # << >>
  /\ stack' = [stack EXCEPT ![t] = Popped(@)]
  /\ dict' = [dict EXCEPT ![t] = Front(@)]
  /\ result' = Nothing
  /\ UNCHANGED <<vmem, clashed, live>>

\* RET with an empty stack leaves the emulation loop ...
Leave(t) ==
  /\ t \in live /\ stack[t] = << >>
  /\ live' = live \ {t}
  /\ result' = Nothing
  /\ UNCHANGED <<vmem, stack, dict, clashed>>

\* ... and EXIT ends the thread wherever it is.
Exit(t) ==
  /\ t \in live /\ stack[t] # << >>
  /\ live' = live \ {t}
  /\ result' = Nothing
  /\ UNCHANGED <<vmem, stack, dict, clashed>>

Ended == live = {} /\ UNCHANGED vars

Next ==
  \/ \E t \in Threads, id \in Ids, v \in Widths, m \in Marks : Put(t, id, v, m)
  \/ \E t \in Threads, id \in Ids, v \in Widths : Get(t, id, v)
  \/ \E t \in Threads, s \in Sites : Call(t, s)
  \/ \E t \in Threads : Ret(t) \/ Leave(t) \/ Exit(t)
  \/ Ended

Spec == Init /\ [][Next]_vars

-----------------------------------------------------------------------------

\* Memory holds bytes, and a thread has one dictionary more than return addresses.
TypeOK ==
  /\ vmem \in [Cells -> Marks \union {0}]
  /\ stack \in [Threads -> Seq(Sites)]
  /\ dict \in [Threads -> Seq([Ids -> Entries])]
  /\ \A t \in Threads : Len(dict[t]) = Len(stack[t]) + 1
  /\ clashed \subseteq Keys
  /\ result = Nothing \/ (result.by \in Threads /\ result.id \in Ids
                            /\ result.got \in Seq(Marks \union {0}))
  /\ live \subseteq Threads

\* The key of the k-th activation of a thread, the first being outside any call.
KeyOf(t, k) == IF k = 1 THEN NoSite ELSE stack[t][k - 1]

\* The variable lies inside the area, and no other variable overlaps it.
Isolated(key, id) ==
  LET own == BytesAt(Place(key, id), 3)
  IN /\ own \subseteq Area
     /\ \A k \in Keys, i \in Ids :
          k # key \/ i # id => BytesAt(Place(k, i), 3) \intersect own = {}

\* What an activation has PUT stays in memory for as long as the activation
\* lasts, whatever its callees and the other threads PUT (README.md:36, "a
\* unique key is calculated per local variable"), and however deep the calls
\* nest: but for hashes that overlap, for another activation with its return
\* address at the same time, and for a caller whose return address was dropped.
LocalsKept ==
  \A t \in live : \A k \in DOMAIN dict[t] : \A id \in Ids :
    LET e == dict[t][k][id]
        key == KeyOf(t, k)
    IN e # Unset /\ key \notin clashed /\ Isolated(key, id) =>
         \A b \in BytesAt(Place(key, id), e.v) : vmem[b] = e.mark

\* GET returns to an activation what that activation has PUT under the
\* identifier, never what a callee or another thread stored, with the same two
\* exceptions.
GetReturnsPut ==
  [][\A t \in Threads :
       result' # Nothing /\ result'.by = t /\ Key(t) \notin clashed
         /\ Isolated(Key(t), result'.id) =>
       LET e == dict[t][Len(dict[t])][result'.id]
       IN e # Unset =>
            \A k \in DOMAIN result'.got : k <= Bytes(e.v) => result'.got[k] = e.mark]_vars
=============================================================================
