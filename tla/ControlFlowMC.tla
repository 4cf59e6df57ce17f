--------------------------- MODULE ControlFlowMC ----------------------------
(***************************************************************************)
(* Virtual programs and small constants for model checking ControlFlow.    *)
(***************************************************************************)
EXTENDS ControlFlow, TLC

I(op, dst, next) ==
  [op |-> op, dst |-> dst, test |-> FALSE, cond |-> {}, next |-> next]
If(cond, op, dst, next) ==
  [op |-> op, dst |-> dst, test |-> TRUE, cond |-> cond, next |-> next]

CONSTANTS main, worker

MCEnd == 98
MCAllOnes == 99

\* The main thread may first call r, again and again; r calls itself as long as
\* it finds equal operands: deeper than the private stack, and until the shared
\* list is full.  Then it forks a worker; both call f, which may call g; then
\* either may return from its entry point or end by EXIT, the worker may call f
\* again and again and may ask for one thread too many.
Server ==
  0 :> I("CMP", 0, 1) @@ 1 :> If({"EQ"}, "CALL", 14, 2)
  @@ 2 :> If({"LT"}, "JMP", 0, 3) @@ 3 :> I("FORK", 8, 4)
  @@ 4 :> I("CALL", 5, 7) @@ 5 :> I("CMP", 0, 6) @@ 6 :> If({"EQ"}, "CALL", 13, 13)
  @@ 7 :> If({"LT"}, "RET", 0, 17)
  @@ 8 :> I("CALL", 5, 9) @@ 9 :> If({"LT"}, "JMP", 8, 10)
  @@ 10 :> If({"GT"}, "RET", 0, 11)
  @@ 11 :> If({"LT"}, "FORK", 8, 12) @@ 12 :> I("FORK", 8, 17)
  @@ 13 :> I("RET", 0, MCEnd)
  @@ 14 :> I("CMP", 0, 15) @@ 15 :> If({"EQ"}, "CALL", 14, 16)
  @@ 16 :> I("DATA", 0, 13) @@ 17 :> I("EXIT", 0, MCEnd)

ServerAddr == DOMAIN Server

\* Three calls deep.
Nested ==
  0 :> I("CALL", 1, 4) @@ 1 :> I("CALL", 2, 3) @@ 2 :> I("CALL", 3, 3)
  @@ 3 :> I("RET", 0, MCEnd) @@ 4 :> I("EXIT", 0, MCEnd)
NestedAddr == DOMAIN Nested
=============================================================================
