-------------------------------- MODULE Fnv --------------------------------
(* fnv1a_hash of emulate.c: where a local variable lives.  The code works  *)
(* on 32 bits and returns the low 16; no step of it carries from the high  *)
(* half to the low one, so the low half is computed alone.                 *)
EXTENDS Naturals

Half == 65536

\* x * y modulo 2^16, in two parts that fit the integers of TLC.
Times(x, y) == (x * (y % 256) + 256 * ((x * (y \div 256)) % 256)) % Half

\* Exclusive or: of bits of weight w, of hexadecimal digits, of four digits.
XorBit(x, y, w) == IF (x \div w) % 2 = (y \div w) % 2 THEN 0 ELSE w
XorDigit(x, y) == XorBit(x, y, 1) + XorBit(x, y, 2) + XorBit(x, y, 4) + XorBit(x, y, 8)
XorAt(x, y, w) == XorDigit((x \div w) % 16, (y \div w) % 16) * w
Xor(x, y) == XorAt(x, y, 1) + XorAt(x, y, 16) + XorAt(x, y, 256) + XorAt(x, y, 4096)

\* Turn i takes the return address less its i low bytes, not byte i alone.
Shifted(base, i) ==
  base \div (IF i = 0 THEN 1 ELSE IF i = 1 THEN 256 ELSE IF i = 2 THEN 65536 ELSE 16777216)
Turn(h, base, i) == Times(Xor(h, Shifted(base, i)), 26741)

Mixed(base) == Turn(Turn(Turn(Turn(52194, base, 0), base, 1), base, 2), base, 3)

\* Mutant: the identifier is not spread by a multiplication.
Spread_NoTimes(h, id) == Xor(h, id)

\* The last step, which takes the identifier.
Spread(h, id) == Times(Xor(h, id), 50354)

fnv1a_hash(base, id) == Spread(Mixed(base), id)
=============================================================================
