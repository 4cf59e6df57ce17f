-------------------------------- MODULE Fork --------------------------------
(***************************************************************************)
(* What FORK promises to virtual programs (handle_fork): each call that    *)
(* succeeds creates one thread that was not there before, and its parent   *)
(* goes on exactly once, after the new thread has reported.  How the two   *)
(* meet, and what becomes of their stacks, is not visible here.            *)
(***************************************************************************)
CONSTANTS Threads, Main

VARIABLES
  place,      \* "unborn", "born", "runs", "waits" or "gone"
  child       \* the thread that the last FORK of a thread created

forkVars == <<place, child>>

Init ==
  /\ place = [t \in Threads |-> IF t = Main THEN "runs" ELSE "unborn"]
  /\ child = [t \in Threads |-> t]

\* The parent waits from the birth of its child on.
Create(p) ==
  /\ place[p] = "runs"
  /\ \E c \in Threads :
       /\ place[c] = "unborn"
       /\ place' = [place EXCEPT ![p] = "waits", ![c] = "born"]
       /\ child' = [child EXCEPT ![p] = c]

\* The child raises its flag and runs the virtual program.
Report(c) ==
  /\ place[c] = "born"
  /\ place' = [place EXCEPT ![c] = "runs"]
  /\ UNCHANGED child

Resume(p) ==
  /\ place[p] = "waits" /\ place[child[p]] # "born"
  /\ place' = [place EXCEPT ![p] = "runs"]
  /\ UNCHANGED child

\* The end of a thread's program, or a FORK that fails.
Stop(t) ==
  /\ place[t] = "runs"
  /\ place' = [place EXCEPT ![t] = "gone"]
  /\ UNCHANGED child

Next == \E t \in Threads : Create(t) \/ Report(t) \/ Resume(t) \/ Stop(t)

Spec == Init /\ [][Next]_forkVars
=============================================================================
