------------------------------ MODULE CodecMC ------------------------------
(* Instances of Codec: operands of every form, with numbers on both sides  *)
(* of the lengths at which their encoding grows.                           *)
EXTENDS Codec

NoOperand == [kind |-> "none"]
Register(r, v) == [kind |-> "register", v |-> v, r |-> r]
Number32(x) == [kind |-> "immediate", v |-> V_INT, x |-> x]
Indexed(b, i, sign) ==
  [kind |-> "indexed", v |-> 2, base |-> b, bv |-> V_INT, index |-> i, iv |-> V_BYTE,
   sign |-> sign]
Based(b, d, sign) == [kind |-> "based", v |-> V_BYTE, base |-> b, bv |-> 2, disp |-> d, sign |-> sign]
Absolute(d) == [kind |-> "absolute", v |-> V_INT, disp |-> d]

Numbers == {0, 255, 256, 65535, 65536, 16777215, 16777216, 2147483647}
Offsets == {0, 255, 256, 65535, 65536, 1048575}

Destinations == {Register(0, V_BYTE), Register(15, V_INT), Indexed(6, 9, 1), Based(13, 256, 1), Absolute(1048575)}

EveryForm ==
  {<<NoOperand, NoOperand>>}
  \union ({Number32(1122867)} \X {NoOperand, Number32(5)})
  \union ({Register(3, 2)} \X
          ({Number32(x) : x \in Numbers} \union {Based(7, d, 1) : d \in Offsets}
           \union {Absolute(d) : d \in Offsets} \union {Indexed(15, 0, 1)}))
  \union (Destinations \X {Register(5, V_BYTE), Number32(65536)})
=============================================================================
