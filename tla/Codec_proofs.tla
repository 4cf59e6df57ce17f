----------------------------- MODULE Codec_proofs -----------------------------
(* An instruction survives the way from the assembly to its handler: proofs  *)
(* about Codec, for every opcode, register, width, immediate of 32 bits and  *)
(* displacement of 20.                                                       *)
EXTENDS Codec, SequenceTheorems, TLAPS

Five == 0 .. 31
Bit(x, k) == Field(x, k, 1)

\* A number of five bits is the sum of its bits ...
LEMMA BitsOf ==
  ASSUME NEW x \in Five
  PROVE  /\ \A k \in 0 .. 4 : Bit(x, k) \in {0, 1}
         /\ x = Bit(x, 0) + 2 * Bit(x, 1) + 4 * Bit(x, 2) + 8 * Bit(x, 3) + 16 * Bit(x, 4)
<1>1. /\ Bit(x, 0) = x % 2 /\ Bit(x, 1) = (x \div 2) % 2 /\ Bit(x, 2) = (x \div 4) % 2
      /\ Bit(x, 3) = (x \div 8) % 2 /\ Bit(x, 4) = (x \div 16) % 2
  BY DEF Bit, Field, Five
<1>2. ASSUME NEW k \in 0 .. 4 PROVE Bit(x, k) \in {0, 1}
  <2>1. k = 0 \/ k = 1 \/ k = 2 \/ k = 3 \/ k = 4
    OBVIOUS
  <2> QED BY <1>1, <2>1 DEF Five
<1>3. x = (x % 2) + 2 * ((x \div 2) % 2) + 4 * ((x \div 4) % 2) + 8 * ((x \div 8) % 2)
          + 16 * ((x \div 16) % 2)
  BY DEF Five
<1> QED BY <1>1, <1>2, <1>3

\* ... and five bits make one.
LEMMA BitsMake ==
  ASSUME NEW a \in {0, 1}, NEW b \in {0, 1}, NEW c \in {0, 1}, NEW d \in {0, 1}, NEW e \in {0, 1}, NEW x,
         x = a + 2 * b + 4 * c + 8 * d + 16 * e
  PROVE  /\ x \in Five
         /\ Bit(x, 0) = a /\ Bit(x, 1) = b /\ Bit(x, 2) = c /\ Bit(x, 3) = d /\ Bit(x, 4) = e
<1>1. x \in Five
  BY DEF Five
<1>2. /\ Bit(x, 0) = x % 2 /\ Bit(x, 1) = (x \div 2) % 2 /\ Bit(x, 2) = (x \div 4) % 2
      /\ Bit(x, 3) = (x \div 8) % 2 /\ Bit(x, 4) = (x \div 16) % 2
  BY <1>1 DEF Bit, Field, Five
<1> QED BY <1>1, <1>2

\* Exclusive or and complement, bit by bit.
LEMMA XorBits ==
  ASSUME NEW x \in Five, NEW y \in Five
  PROVE  /\ Xor5(x, y) \in Five
         /\ \A k \in 0 .. 4 : Bit(Xor5(x, y), k) = (Bit(x, k) + Bit(y, k)) % 2
<1> DEFINE b(k) == (Bit(x, k) + Bit(y, k)) % 2
<1>1. \A k \in 0 .. 4 : b(k) \in {0, 1}
  BY BitsOf
<1>2. Xor5(x, y) = b(0) + 2 * b(1) + 4 * b(2) + 8 * b(3) + 16 * b(4)
  BY DEF Xor5, Bit
<1> HIDE DEF b
<1>3. Xor5(x, y) \in Five /\ Bit(Xor5(x, y), 0) = b(0) /\ Bit(Xor5(x, y), 1) = b(1)
      /\ Bit(Xor5(x, y), 2) = b(2) /\ Bit(Xor5(x, y), 3) = b(3) /\ Bit(Xor5(x, y), 4) = b(4)
  BY <1>1, <1>2, BitsMake
<1> QED BY <1>3 DEF b

LEMMA FlipBits ==
  ASSUME NEW x \in Five
  PROVE  /\ Flip(x) \in Five /\ Flip(Flip(x)) = x
         /\ \A k \in 0 .. 4 : Bit(Flip(x), k) = 1 - Bit(x, k)
<1> DEFINE b(k) == 1 - Bit(x, k)
<1>1. \A k \in 0 .. 4 : b(k) \in {0, 1}
  BY BitsOf
<1>2. Flip(x) = b(0) + 2 * b(1) + 4 * b(2) + 8 * b(3) + 16 * b(4)
  BY BitsOf DEF Flip
<1>3. Flip(x) \in Five /\ Flip(Flip(x)) = x
  BY DEF Flip, Five
<1> HIDE DEF b
<1>4. Bit(Flip(x), 0) = b(0) /\ Bit(Flip(x), 1) = b(1) /\ Bit(Flip(x), 2) = b(2)
      /\ Bit(Flip(x), 3) = b(3) /\ Bit(Flip(x), 4) = b(4)
  BY <1>1, <1>2, BitsMake
<1> QED BY <1>3, <1>4 DEF b

\* Numbers with the same bits are the same.
LEMMA SameBits ==
  ASSUME NEW x \in Five, NEW y \in Five, \A k \in 0 .. 4 : Bit(x, k) = Bit(y, k)
  PROVE  x = y
BY BitsOf

\* decode undoes each of the four ciphers.
LEMMA OpcodeRecovered ==
  ASSUME NEW l \in Five, NEW o \in 0 .. 3, NEW n \in Five, NEW h,
         h.opcode_l = l, h.xor_t = o, h.opcode_r = OpcodeRight(l, o, n)
  PROVE  OpcodeRight(l, o, n) \in Five /\ DecodeOpcode(h) = n
<1>1. ASSUME NEW x \in Five, NEW y \in Five
      PROVE  Xor5(Xor5(x, y), x) = y /\ Xor5(Flip(x), Flip(y)) = Xor5(x, y)
  <2>1. /\ Xor5(x, y) \in Five /\ Xor5(Xor5(x, y), x) \in Five
        /\ Flip(x) \in Five /\ Flip(y) \in Five /\ Xor5(Flip(x), Flip(y)) \in Five
    BY XorBits, FlipBits
  <2>2. ASSUME NEW k \in 0 .. 4 PROVE Bit(Xor5(Xor5(x, y), x), k) = Bit(y, k)
    <3>1. Bit(x, k) \in {0, 1} /\ Bit(y, k) \in {0, 1}
      BY BitsOf
    <3>2. Bit(Xor5(x, y), k) = (Bit(x, k) + Bit(y, k)) % 2
      BY XorBits
    <3>3. Bit(Xor5(Xor5(x, y), x), k) = (Bit(Xor5(x, y), k) + Bit(x, k)) % 2
      BY <2>1, XorBits
    <3> QED BY <3>1, <3>2, <3>3
  <2>3. ASSUME NEW k \in 0 .. 4 PROVE Bit(Xor5(Flip(x), Flip(y)), k) = Bit(Xor5(x, y), k)
    <3>1. Bit(x, k) \in {0, 1} /\ Bit(y, k) \in {0, 1}
      BY BitsOf
    <3>2. Bit(Xor5(x, y), k) = (Bit(x, k) + Bit(y, k)) % 2
      BY XorBits
    <3>3. Bit(Xor5(Flip(x), Flip(y)), k) = ((1 - Bit(x, k)) + (1 - Bit(y, k))) % 2
      BY <2>1, XorBits, FlipBits
    <3> QED BY <3>1, <3>2, <3>3
  <2> QED BY <2>1, <2>2, <2>3, SameBits
<1>2. Flip(l) \in Five /\ Flip(n) \in Five /\ Flip(Flip(l)) = l
  BY FlipBits
<1>3. Xor5(l, n) \in Five /\ Xor5(Flip(l), n) \in Five /\ Xor5(l, Flip(n)) \in Five
  BY <1>2, XorBits
<1>4. CASE o = 0
  BY <1>1, <1>3, <1>4 DEF OpcodeRight, DecodeOpcode
<1>5. CASE o = 1
  BY <1>1, <1>3, <1>5, FlipBits DEF OpcodeRight, DecodeOpcode
<1>6. CASE o = 2
  BY <1>1, <1>2, <1>3, <1>6 DEF OpcodeRight, DecodeOpcode
<1>7. CASE o = 3
  <2>1. Xor5(l, Flip(n)) = Xor5(Flip(l), n)
    <3>1. Xor5(Flip(Flip(l)), Flip(n)) = Xor5(Flip(l), n)
      BY <1>1, <1>2
    <3> QED BY <3>1, <1>2
  <2>2. OpcodeRight(l, o, n) = Flip(Xor5(l, Flip(n)))
    BY <1>7 DEF OpcodeRight
  <2>3. DecodeOpcode(h) = Xor5(Flip(h.opcode_r), Flip(l))
    BY <1>7 DEF DecodeOpcode
  <2>4. Flip(h.opcode_r) = Xor5(Flip(l), n)
    BY <1>3, <2>1, <2>2, FlipBits
  <2>5. DecodeOpcode(h) = n
    BY <1>1, <1>2, <2>3, <2>4
  <2> QED BY <1>3, <2>2, <2>5, FlipBits
<1> QED BY <1>4, <1>5, <1>6, <1>7

\* The decision tree finds every opcode.
LEMMA TreeRight == \A k \in DOMAIN OPCODES : k - 1 \in Five /\ HandlerOf(k - 1) = OPCODES[k]
<1> SUFFICES ASSUME NEW k \in 1 .. 28 PROVE k - 1 \in Five /\ HandlerOf(k - 1) = OPCODES[k]
  BY DEF OPCODES
<1> USE DEF HandlerOf, MultipleOfSix, MultipleOfThree, MultipleOfTwo, OneBelowFour, OneAboveFour, OPCODES
<1>1. CASE k \in 1 .. 7
  BY <1>1 DEF Five
<1>2. CASE k \in 8 .. 14
  BY <1>2 DEF Five
<1>3. CASE k \in 15 .. 21
  BY <1>3 DEF Five
<1>4. CASE k \in 22 .. 28
  BY <1>4 DEF Five
<1> QED BY <1>1, <1>2, <1>3, <1>4

Two == 0 .. 3

\* fetch finds the fields the assembler packed.
LEMMA HeaderCarries ==
  ASSUME NEW l \in Five, NEW o \in Two, NEW n, OpcodeRight(l, o, n) \in Five,
         NEW a, a.t \in Two, a.v \in Two, a.l \in Two,
         NEW b, b.t \in Two, b.v \in Two, b.l \in Two
  PROVE  LET h == ToBytes(PackHeader(l, o, n, a, b), 3)
         IN /\ h \in Seq(Int) /\ Len(h) = 3
            /\ \A c : c[1] = h[1] /\ c[2] = h[2] /\ c[3] = h[3] =>
                 FetchHeader(c) =
                   [opcode_l |-> l, op1_t |-> a.t, op1_v |-> a.v, op1_l |-> a.l, xor_t |-> o,
                    op2_t |-> b.t, op2_v |-> b.v, op2_l |-> b.l,
                    opcode_r |-> OpcodeRight(l, o, n)]
<1>1. PICK r \in Five : r = OpcodeRight(l, o, n)
  OBVIOUS
<1>2. PICK at \in Two, ah \in {0, 1}, aw \in {0, 1}, al \in Two :
        at = a.t /\ a.v = 2 * ah + aw /\ al = a.l
  <2>1. a.v \div 2 \in {0, 1} /\ a.v % 2 \in {0, 1} /\ a.v = 2 * (a.v \div 2) + (a.v % 2)
    BY DEF Two
  <2> QED BY <2>1
<1>3. PICK bt \in Two, bh \in {0, 1}, bw \in {0, 1}, bl \in Two :
        bt = b.t /\ b.v = 2 * bh + bw /\ bl = b.l
  <2>1. b.v \div 2 \in {0, 1} /\ b.v % 2 \in {0, 1} /\ b.v = 2 * (b.v \div 2) + (b.v % 2)
    BY DEF Two
  <2> QED BY <2>1
<1> DEFINE x == PackHeader(l, o, n, a, b)
           p == l * 8 + at * 2 + ah
           q == aw * 128 + al * 32 + o * 8 + bt * 2 + bh
           s == bw * 128 + bl * 32 + r
<1>4. x = l * 524288 + at * 131072 + (2 * ah + aw) * 32768 + al * 8192 + o * 2048
            + bt * 512 + (2 * bh + bw) * 128 + bl * 32 + r
  BY <1>1, <1>2, <1>3 DEF PackHeader
<1> HIDE DEF x
<1>5. p \in 0 .. 255 /\ q \in 0 .. 255 /\ s \in 0 .. 255
  BY DEF Two, Five
<1>6. x = p * 65536 + q * 256 + s
  BY <1>4 DEF Two, Five
<1>7. /\ (p \div 8) % 32 = l /\ (p \div 2) % 4 = at /\ p % 2 = ah
      /\ (q \div 128) % 2 = aw /\ (q \div 32) % 4 = al /\ (q \div 8) % 4 = o
      /\ (q \div 2) % 4 = bt /\ q % 2 = bh
      /\ (s \div 128) % 2 = bw /\ (s \div 32) % 4 = bl /\ s % 32 = r
  <2>1. (p \div 8) % 32 = l /\ (p \div 2) % 4 = at /\ p % 2 = ah
    BY DEF Two, Five
  <2>2. /\ (q \div 128) % 2 = aw /\ (q \div 32) % 4 = al /\ (q \div 8) % 4 = o
        /\ (q \div 2) % 4 = bt /\ q % 2 = bh
    BY DEF Two
  <2>3. (s \div 128) % 2 = bw /\ (s \div 32) % 4 = bl /\ s % 32 = r
    BY DEF Two, Five
  <2> QED BY <2>1, <2>2, <2>3
<1> HIDE DEF p, q, s
<1>8. /\ Field(p, 3, 5) = l /\ Field(p, 1, 2) = at /\ Field(p, 0, 1) = ah
      /\ Field(q, 7, 1) = aw /\ Field(q, 5, 2) = al /\ Field(q, 3, 2) = o
      /\ Field(q, 1, 2) = bt /\ Field(q, 0, 1) = bh
      /\ Field(s, 7, 1) = bw /\ Field(s, 5, 2) = bl /\ Field(s, 0, 5) = r
  BY <1>5, <1>7 DEF Field
<1>9. Field(x, 16, 8) = p /\ Field(x, 8, 8) = q /\ Field(x, 0, 8) = s
  <2>1. x \in Nat /\ (x \div 65536) % 256 = p /\ (x \div 256) % 256 = q /\ x % 256 = s
    BY <1>5, <1>6
  <2> QED BY <2>1 DEF Field
<1> DEFINE h == ToBytes(x, 3)
<1>10. h = <<p, q, s>>
  <2>1. h = [k \in 1 .. 3 |-> IF k = 1 THEN p ELSE IF k = 2 THEN q ELSE s]
    <3>1. ASSUME NEW k \in 1 .. 3
          PROVE  Field(x, 8 * (3 - k), 8) = IF k = 1 THEN p ELSE IF k = 2 THEN q ELSE s
      <4>1. k = 1 \/ k = 2 \/ k = 3
        OBVIOUS
      <4> QED BY <1>9, <4>1
    <3> QED BY <3>1 DEF ToBytes
  <2> QED BY <2>1
<1> HIDE DEF h
<1>11. h \in Seq(Int) /\ Len(h) = 3 /\ h[1] = p /\ h[2] = q /\ h[3] = s
  BY <1>5, <1>10
<1>12. ASSUME NEW c, c[1] = h[1], c[2] = h[2], c[3] = h[3]
       PROVE  FetchHeader(c) =
                [opcode_l |-> l, op1_t |-> a.t, op1_v |-> a.v, op1_l |-> a.l, xor_t |-> o,
                 op2_t |-> b.t, op2_v |-> b.v, op2_l |-> b.l,
                 opcode_r |-> OpcodeRight(l, o, n)]
  <2>1. c[1] = p /\ c[2] = q /\ c[3] = s
    BY <1>11, <1>12
  <2> QED BY <1>1, <1>2, <1>3, <1>8, <2>1 DEF FetchHeader
<1> QED BY <1>11, <1>12 DEF h, x

\* How many bytes a number takes.
LEMMA LengthRight ==
  ASSUME NEW x \in Immediates
  PROVE  /\ ByteLength(x) \in 1 .. 4
         /\ ByteLength(x) = 1 => x < 256
         /\ ByteLength(x) = 2 => x < 65536
         /\ ByteLength(x) = 3 => x \div 65536 < 256
         /\ ByteLength(x) = 4 => x \div 65536 >= 256
<1> DEFINE P(n) == (n = 4 \/ x < 256 ^ n) /\ (n = 1 \/ x >= 256 ^ (n - 1))
<1>1. x \in Nat /\ 256 ^ 1 = 256 /\ 256 ^ 2 = 65536
      /\ (x < 256 ^ 3 <=> x \div 65536 < 256) /\ (x >= 256 ^ 3 <=> x \div 65536 >= 256)
  BY DEF Immediates
<1>3. /\ P(1) <=> x < 256
      /\ P(2) <=> (x < 65536 /\ x >= 256)
      /\ P(3) <=> (x \div 65536 < 256 /\ x >= 65536)
      /\ P(4) <=> x \div 65536 >= 256
  BY <1>1
<1> HIDE DEF P
<1>4. \E n \in 1 .. 4 : P(n)
  BY <1>1, <1>3
<1>5. ByteLength(x) = CHOOSE n \in 1 .. 4 : P(n)
  BY DEF ByteLength, P
<1>6. ByteLength(x) \in 1 .. 4 /\ P(ByteLength(x))
  BY <1>4, <1>5
<1>7. ByteLength(x) = 1 \/ ByteLength(x) = 2 \/ ByteLength(x) = 3 \/ ByteLength(x) = 4
  BY <1>6
<1> QED BY <1>3, <1>6, <1>7

\* The bytes of a number by division.
LEMMA FieldsRight ==
  ASSUME NEW x \in Nat
  PROVE  /\ Field(x, 0, 8) = x % 256 /\ Field(x, 8, 8) = (x \div 256) % 256
         /\ Field(x, 16, 8) = (x \div 65536) % 256 /\ Field(x, 24, 8) = (x \div 16777216) % 256
BY DEF Field

\* ToBytes makes as many bytes as it is asked for.
LEMMA BytesRight ==
  ASSUME NEW x \in Nat, NEW n \in 1 .. 4
  PROVE  ToBytes(x, n) \in Seq(Int) /\ Len(ToBytes(x, n)) = n
<1>1. ASSUME NEW k \in 1 .. n PROVE Field(x, 8 * (n - k), 8) \in Int
  <2> DEFINE j == 8 * (n - k)
  <2>1. j = 0 \/ j = 8 \/ j = 16 \/ j = 24
    OBVIOUS
  <2>2. /\ Field(x, 0, 8) \in Int /\ Field(x, 8, 8) \in Int
        /\ Field(x, 16, 8) \in Int /\ Field(x, 24, 8) \in Int
    BY DEF Field
  <2> HIDE DEF j
  <2>3. Field(x, j, 8) \in Int
    BY <2>1, <2>2
  <2> QED BY <2>3 DEF j
<1> DEFINE f == ToBytes(x, n)
<1>2. f \in [1 .. n -> Int]
  BY <1>1 DEF ToBytes
<1> HIDE DEF f
<1>3. f \in Seq(Int) /\ Len(f) = n
  BY <1>2
<1> QED BY <1>3 DEF f

\* A byte in front of a sequence.
LEMMA InFront ==
  ASSUME NEW b \in Int, NEW s \in Seq(Int)
  PROVE  /\ <<b>> \o s \in Seq(Int) /\ Len(<<b>> \o s) = Len(s) + 1
         /\ (<<b>> \o s)[1] = b
         /\ \A k \in 1 .. Len(s) : (<<b>> \o s)[k + 1] = s[k]
OBVIOUS

Bytes(op) == ParseOperand(op).bytes

\* An operand without its sign, which the assembler loses.
Unsigned(op) == IF op.kind \in {"indexed", "based"} THEN [op EXCEPT !.sign = 1] ELSE op

\* The bytes of op lie at place d of the code c.
LiesIn(c, op, d) == \A k \in 1 .. Len(Bytes(op)) : c[d + (k - 1)] = Bytes(op)[k]
LiesAt(op, d) == LiesIn(code, op, d)

Found(op, d) ==
  LET p == ParseOperand(op)
  IN ReadOperand([t |-> p.t, v |-> p.v, l |-> p.l + 1, data |-> d])

ParsedRight(op) ==
  LET p == ParseOperand(op)
  IN /\ p.t \in Two /\ p.v \in Two /\ p.l \in Two /\ p.bytes \in Seq(Int)
     /\ IF op.kind = "none" THEN p.t = T_NONE /\ Len(p.bytes) = 0 /\ p.l = 0
        ELSE p.t # T_NONE /\ Len(p.bytes) = p.l + 1

\* The length field of an operand with bytes.
LEMMA ParsedIs ==
  ASSUME NEW t \in Two, NEW v \in Two, NEW b \in Seq(Int), Len(b) \in 1 .. 4, t # T_NONE
  PROVE  /\ Parsed(t, v, b) = [t |-> t, v |-> v, l |-> Len(b) - 1, bytes |-> b]
         /\ Len(b) - 1 \in Two
<1>1. b # << >>
  OBVIOUS
<1> QED BY <1>1 DEF Parsed, Two

\* An operand as decode describes it.
Place(t, v, n, d) == [t |-> t, v |-> v, l |-> n, data |-> d]

\* The fields of an operand in memory.
LEMMA PlaceIs ==
  ASSUME NEW t, NEW v, NEW n, NEW d
  PROVE  /\ Place(t, v, n, d).t = t /\ Place(t, v, n, d).v = v
         /\ Place(t, v, n, d).l = n /\ Place(t, v, n, d).data = d
BY DEF Place

\* An operand whose value is the bytes b, at place d of the code.
LEMMA BytesFound ==
  ASSUME NEW op, op.kind # "none", NEW t \in Two, t # T_NONE, NEW v \in Widths,
         NEW b \in Seq(Int), Len(b) \in 1 .. 4, ParseOperand(op) = Parsed(t, v, b),
         NEW d \in Nat
  PROVE  /\ ParsedRight(op)
         /\ LiesAt(op, d) =>
              /\ Found(op, d) = ReadOperand(Place(t, v, Len(b), d))
              /\ ByteOf(Place(t, v, Len(b), d), 0) = b[1]
              /\ \A k \in 1 .. Len(b) : code[d + (k - 1)] = b[k]
<1>1. v \in Two
  BY DEF Two, Widths
<1>2. ParseOperand(op) = [t |-> t, v |-> v, l |-> Len(b) - 1, bytes |-> b] /\ Len(b) - 1 \in Two
  BY <1>1, ParsedIs
<1>3. ParsedRight(op)
  BY <1>1, <1>2 DEF ParsedRight
<1> DEFINE q == Place(t, v, Len(b), d)
<1>4. Found(op, d) = ReadOperand(q)
  <2>1. Found(op, d) = ReadOperand([t |-> t, v |-> v, l |-> (Len(b) - 1) + 1, data |-> d])
    BY <1>2 DEF Found
  <2>2. (Len(b) - 1) + 1 = Len(b)
    OBVIOUS
  <2> QED BY <2>1, <2>2 DEF Place
<1>5. ASSUME LiesAt(op, d)
      PROVE  ByteOf(q, 0) = b[1] /\ \A k \in 1 .. Len(b) : code[d + (k - 1)] = b[k]
  <2>1. Bytes(op) = b
    BY <1>2 DEF Bytes
  <2>2. \A k \in 1 .. Len(b) : code[d + (k - 1)] = b[k]
    BY <1>5, <2>1, Zenon DEF LiesAt, LiesIn
  <2>3. code[d + (1 - 1)] = b[1]
    BY <2>2
  <2> QED BY <2>2, <2>3 DEF ByteOf, Place
<1> QED BY <1>3, <1>4, <1>5

\* The two bytes of a number.
LEMMA TwoBytes ==
  ASSUME NEW x \in Nat
  PROVE  /\ ToBytes(x, 2) \in Seq(Int) /\ Len(ToBytes(x, 2)) = 2
         /\ ToBytes(x, 2)[1] = Field(x, 8, 8) /\ ToBytes(x, 2)[2] = Field(x, 0, 8)
<1>1. 2 \in 1 .. 4
  OBVIOUS
<1>2. ToBytes(x, 2)[1] = Field(x, 8, 8) /\ ToBytes(x, 2)[2] = Field(x, 0, 8)
  BY DEF ToBytes
<1> QED BY <1>1, <1>2, BytesRight

\* The arms of the operand readers.
LEMMA ReadIs ==
  ASSUME NEW op
  PROVE  /\ op.t = T_NONE => ReadOperand(op) = [kind |-> "none"]
         /\ op.t = T_REG =>
              ReadOperand(op) = [kind |-> "register", v |-> op.v, r |-> ByteOf(op, 0) % 16]
         /\ op.t = T_IMM =>
              ReadOperand(op) = [kind |-> "immediate", v |-> op.v, x |-> Number(op, 0, op.l - 1)]
         /\ op.t = T_MEM /\ Field(ByteOf(op, 0), 6, 1) = 1 =>
              ReadOperand(op) = ReadIndexed(op)
         /\ op.t = T_MEM /\ Field(ByteOf(op, 0), 6, 1) = 0 /\ Field(ByteOf(op, 0), 7, 1) = 1 =>
              ReadOperand(op) = ReadBased(op)
         /\ op.t = T_MEM /\ Field(ByteOf(op, 0), 6, 1) = 0 /\ Field(ByteOf(op, 0), 7, 1) = 0 =>
              ReadOperand(op) =
                [kind |-> "absolute", v |-> op.v, disp |-> Number(op, 1, op.l - 1)]
<1> USE DEF T_NONE, T_REG, T_IMM, T_MEM
<1>1. op.t = T_NONE => ReadOperand(op) = [kind |-> "none"]
  BY DEF ReadOperand
<1>2. op.t = T_REG =>
        ReadOperand(op) = [kind |-> "register", v |-> op.v, r |-> ByteOf(op, 0) % 16]
  BY DEF ReadOperand
<1>3. op.t = T_IMM =>
        ReadOperand(op) = [kind |-> "immediate", v |-> op.v, x |-> Number(op, 0, op.l - 1)]
  BY DEF ReadOperand
<1>4. op.t = T_MEM /\ Field(ByteOf(op, 0), 6, 1) = 1 =>
        ReadOperand(op) = ReadIndexed(op)
  BY DEF ReadOperand
<1>5. op.t = T_MEM /\ Field(ByteOf(op, 0), 6, 1) = 0 /\ Field(ByteOf(op, 0), 7, 1) = 1 =>
        ReadOperand(op) = ReadBased(op)
  BY DEF ReadOperand
<1>6. op.t = T_MEM /\ Field(ByteOf(op, 0), 6, 1) = 0 /\ Field(ByteOf(op, 0), 7, 1) = 0 =>
        ReadOperand(op) =
          [kind |-> "absolute", v |-> op.v, disp |-> Number(op, 1, op.l - 1)]
  BY DEF ReadOperand
<1> QED BY <1>1, <1>2, <1>3, <1>4, <1>5, <1>6, Zenon

\* Each kind of operand: it fits the header, and its bytes read back give it.
LEMMA NoneRead ==
  ASSUME NEW op \in {[kind |-> "none"]}, NEW d \in Nat
  PROVE  ParsedRight(op) /\ Found(op, d) = op
<1>1. ParseOperand(op) = [t |-> T_NONE, v |-> 0, l |-> 0, bytes |-> << >>]
  BY DEF ParseOperand, Parsed
<1>2. ParsedRight(op)
  BY <1>1 DEF ParsedRight, Two, T_NONE
<1>3. Found(op, d) = op
  BY <1>1, ReadIs DEF Found
<1> QED BY <1>2, <1>3

LEMMA RegisterFound ==
  ASSUME NEW op \in [kind : {"register"}, v : Widths, r : Registers], NEW d \in Nat
  PROVE  ParsedRight(op) /\ (LiesAt(op, d) => Found(op, d) = op)
<1>1. ParseOperand(op) = [t |-> T_REG, v |-> op.v, l |-> 0, bytes |-> <<op.r>>]
  BY DEF ParseOperand, ParseRegister, Parsed
<1>2. op.r \in Registers /\ op.v \in Widths /\ op = [kind |-> "register", v |-> op.v, r |-> op.r]
  OBVIOUS
<1>3. ParsedRight(op)
  BY <1>1, <1>2 DEF ParsedRight, Two, T_NONE, T_REG, Widths, Registers
<1>4. LiesAt(op, d) => code[d] = op.r
  BY <1>1 DEF LiesAt, LiesIn, Bytes
<1>5. ASSUME LiesAt(op, d) PROVE Found(op, d) = op
  <2>1. Found(op, d) = [kind |-> "register", v |-> op.v, r |-> code[d + 0] % 16]
    BY <1>1, ReadIs DEF Found, ByteOf
  <2>2. code[d + 0] % 16 = op.r
    BY <1>2, <1>4, <1>5 DEF Registers
  <2> QED BY <1>2, <2>1, <2>2
<1> QED BY <1>3, <1>5

\* The bytes i .. i + n - 1 at d hold the number x.
LEMMA NumberRead ==
  ASSUME NEW x \in Immediates, NEW n \in 1 .. 4,
         n = 1 => x < 256, n = 2 => x < 65536, n = 3 => x \div 65536 < 256,
         NEW d \in Nat, NEW i \in {0, 1}, NEW op, op.data = d,
         \A k \in 1 .. n : code[d + (i + k - 1)] = ToBytes(x, n)[k]
  PROVE  Number(op, i, i + n - 1) = x
<1>1. x \in Nat /\ x < 4294967296
  <2>1. x \in Nat /\ x \div 65536 < 65536
    BY DEF Immediates
  <2> QED BY <2>1
<1>2. \A k \in 1 .. n : ByteOf(op, i + k - 1) = Field(x, 8 * (n - k), 8)
  <2> SUFFICES ASSUME NEW k \in 1 .. n PROVE ByteOf(op, i + k - 1) = Field(x, 8 * (n - k), 8)
    OBVIOUS
  <2>1. ToBytes(x, n)[k] = Field(x, 8 * (n - k), 8)
    BY DEF ToBytes
  <2> QED BY <2>1 DEF ByteOf
<1>3. /\ Field(x, 0, 8) = x % 256 /\ Field(x, 8, 8) = (x \div 256) % 256
      /\ Field(x, 16, 8) = (x \div 65536) % 256 /\ Field(x, 24, 8) = (x \div 16777216) % 256
  BY <1>1, FieldsRight
<1> DEFINE byte(k) == IF k < i THEN 0 ELSE ByteOf(op, k)
<1>4. Number(op, i, i + n - 1) =
        16777216 * byte((i + n - 1) - 3) + 65536 * byte((i + n - 1) - 2)
          + 256 * byte((i + n - 1) - 1) + byte(i + n - 1)
  BY DEF Number
<1>5. CASE n = 1
  <2>1. byte(i) = x /\ byte(i - 1) = 0 /\ byte(i - 2) = 0 /\ byte(i - 3) = 0
    <3>1. ByteOf(op, i) = Field(x, 0, 8)
      BY <1>2, <1>5
    <3> QED BY <1>1, <1>3, <1>5, <3>1
  <2> HIDE DEF byte
  <2> QED BY <1>1, <1>4, <1>5, <2>1
<1>6. CASE n = 2
  <2>1. byte(i + 1) = x % 256 /\ byte(i) = x \div 256 /\ byte(i - 1) = 0 /\ byte(i - 2) = 0
    <3>1. ByteOf(op, i + 1) = Field(x, 0, 8) /\ ByteOf(op, i) = Field(x, 8, 8)
      BY <1>2, <1>6
    <3>2. (x \div 256) % 256 = x \div 256
      BY <1>1, <1>6
    <3> QED BY <1>3, <3>1, <3>2
  <2> HIDE DEF byte
  <2> QED BY <1>1, <1>4, <1>6, <2>1
<1>7. CASE n = 3
  <2>1. /\ byte(i + 2) = x % 256 /\ byte(i + 1) = (x \div 256) % 256
        /\ byte(i) = x \div 65536 /\ byte(i - 1) = 0
    <3>1. /\ ByteOf(op, i + 2) = Field(x, 0, 8) /\ ByteOf(op, i + 1) = Field(x, 8, 8)
          /\ ByteOf(op, i) = Field(x, 16, 8)
      BY <1>2, <1>7
    <3>2. (x \div 65536) % 256 = x \div 65536
      BY <1>1, <1>7
    <3> QED BY <1>3, <3>1, <3>2
  <2> HIDE DEF byte
  <2> QED BY <1>1, <1>4, <1>7, <2>1
<1>8. CASE n = 4
  <2>1. /\ byte(i + 3) = x % 256 /\ byte(i + 2) = (x \div 256) % 256
        /\ byte(i + 1) = (x \div 65536) % 256 /\ byte(i) = x \div 16777216
    <3>1. /\ ByteOf(op, i + 3) = Field(x, 0, 8) /\ ByteOf(op, i + 2) = Field(x, 8, 8)
          /\ ByteOf(op, i + 1) = Field(x, 16, 8) /\ ByteOf(op, i) = Field(x, 24, 8)
      BY <1>2, <1>8
    <3>2. (x \div 16777216) % 256 = x \div 16777216
      BY <1>1
    <3> QED BY <1>3, <3>1, <3>2
  <2>2. x = 16777216 * (x \div 16777216) + 65536 * ((x \div 65536) % 256)
              + 256 * ((x \div 256) % 256) + (x % 256)
    BY <1>1
  <2>3. /\ (i + n - 1) - 3 = i /\ (i + n - 1) - 2 = i + 1
        /\ (i + n - 1) - 1 = i + 2 /\ i + n - 1 = i + 3
    BY <1>8
  <2> HIDE DEF byte
  <2> QED BY <1>4, <2>1, <2>2, <2>3
<1> QED BY <1>5, <1>6, <1>7, <1>8

LEMMA ImmediateFound ==
  ASSUME NEW v \in Widths, NEW x \in Immediates, NEW d \in Nat,
         NEW op, op = [kind |-> "immediate", v |-> v, x |-> x]
  PROVE  ParsedRight(op) /\ (LiesAt(op, d) => Found(op, d) = op)
<1> DEFINE n == ByteLength(x)
           b == ToBytes(x, n)
           q == Place(T_IMM, v, Len(b), d)
<1>1. x \in Nat
  BY DEF Immediates
<1>2. n \in 1 .. 4 /\ (n = 1 => x < 256) /\ (n = 2 => x < 65536) /\ (n = 3 => x \div 65536 < 256)
  BY LengthRight
<1>3. n \in 1 .. 4
  BY <1>2
<1> HIDE DEF n
<1>4. b \in Seq(Int) /\ Len(b) = n
  <2>1. ToBytes(x, n) \in Seq(Int) /\ Len(ToBytes(x, n)) = n
    BY <1>1, <1>3, BytesRight, Zenon
  <2> QED BY <2>1
<1>5. ParseOperand(op) = Parsed(T_IMM, v, b) /\ op.kind # "none"
  BY DEF ParseOperand, ParseImmediate, n
<1>6. T_IMM \in Two /\ T_IMM # T_NONE
  BY DEF Two, T_IMM, T_NONE
<1>7. q.t = T_IMM /\ q.v = v /\ q.l = n /\ q.data = d
  BY <1>4, PlaceIs
<1> HIDE DEF b, q
<1>8. /\ ParsedRight(op)
      /\ LiesAt(op, d) =>
           Found(op, d) = ReadOperand(q) /\ \A k \in 1 .. Len(b) : code[d + (k - 1)] = b[k]
  <2>1. q = Place(T_IMM, v, Len(b), d) /\ Len(b) \in 1 .. 4
    BY <1>3, <1>4 DEF q
  <2> QED BY <1>4, <1>5, <1>6, <2>1, BytesFound
<1>9. ASSUME LiesAt(op, d) PROVE Found(op, d) = op
  <2>1. ReadOperand(q) = [kind |-> "immediate", v |-> v, x |-> Number(q, 0, q.l - 1)]
    BY <1>7, ReadIs
  <2>2. \A k \in 1 .. n : code[d + (0 + k - 1)] = ToBytes(x, n)[k]
    <3> SUFFICES ASSUME NEW k \in 1 .. n PROVE code[d + (0 + k - 1)] = b[k]
      BY DEF b
    <3>1. 0 + k - 1 = k - 1
      BY <1>3
    <3> QED BY <1>4, <1>8, <1>9, <3>1
  <2>3. Number(q, 0, 0 + n - 1) = x
    BY <1>2, <1>7, <2>2, NumberRead
  <2>4. 0 + n - 1 = q.l - 1
    BY <1>3, <1>7
  <2> QED BY <1>8, <1>9, <2>1, <2>3, <2>4
<1> QED BY <1>8, <1>9

\* An address with a displacement x behind its first byte h.
LEMMA DisplacedFound ==
  ASSUME NEW v \in Widths, NEW x \in Displacements, NEW h \in Int, NEW d \in Nat,
         NEW op, op.kind # "none",
         ParseOperand(op) = Parsed(T_MEM, v, <<h>> \o ToBytes(x, ByteLength(x)))
  PROVE  /\ ParsedRight(op)
         /\ LiesAt(op, d) =>
              \E q : /\ Found(op, d) = ReadOperand(q)
                     /\ q.t = T_MEM /\ q.v = v
                     /\ ByteOf(q, 0) = h
                     /\ Number(q, 1, q.l - 1) = x
<1> DEFINE n == ByteLength(x)
           s == ToBytes(x, n)
           b == <<h>> \o s
           q == Place(T_MEM, v, Len(b), d)
<1>1. x \in Nat
  BY DEF Displacements
<1>2. x \in Immediates /\ x \div 65536 < 256
  BY DEF Displacements, Immediates
<1>3. n \in 1 .. 3 /\ (n = 1 => x < 256) /\ (n = 2 => x < 65536) /\ (n = 3 => x \div 65536 < 256)
  <2>1. /\ ByteLength(x) \in 1 .. 4 /\ (ByteLength(x) = 1 => x < 256)
        /\ (ByteLength(x) = 2 => x < 65536) /\ (ByteLength(x) = 4 => x \div 65536 >= 256)
    BY <1>2, LengthRight
  <2> QED BY <1>1, <1>2, <2>1
<1>4. n \in 1 .. 3 /\ n \in 1 .. 4
  BY <1>3
<1>5. ParseOperand(op) = Parsed(T_MEM, v, b)
  OBVIOUS
<1> HIDE DEF n
<1>6. s \in Seq(Int) /\ Len(s) = n
  <2>1. ToBytes(x, n) \in Seq(Int) /\ Len(ToBytes(x, n)) = n
    BY <1>1, <1>4, BytesRight, Zenon
  <2> QED BY <2>1
<1> HIDE DEF s
<1>7. b \in Seq(Int) /\ Len(b) = n + 1 /\ b[1] = h /\ \A k \in 1 .. n : b[k + 1] = s[k]
  BY <1>6, InFront
<1> HIDE DEF b
<1>8. T_MEM \in Two /\ T_MEM # T_NONE /\ Len(b) \in 1 .. 4
  BY <1>4, <1>7 DEF Two, T_MEM, T_NONE
<1> HIDE DEF q
<1>9. /\ ParsedRight(op)
      /\ LiesAt(op, d) =>
           /\ Found(op, d) = ReadOperand(q) /\ ByteOf(q, 0) = b[1]
           /\ \A k \in 1 .. Len(b) : code[d + (k - 1)] = b[k]
  <2>1. q = Place(T_MEM, v, Len(b), d)
    BY DEF q
  <2> QED BY <1>5, <1>7, <1>8, <2>1, BytesFound
<1>10. q.t = T_MEM /\ q.v = v /\ q.l = n + 1 /\ q.data = d
  BY <1>7, PlaceIs DEF q
<1>11. ASSUME LiesAt(op, d) PROVE Number(q, 1, q.l - 1) = x
  <2>1. \A k \in 1 .. n : code[d + (1 + k - 1)] = ToBytes(x, n)[k]
    <3> SUFFICES ASSUME NEW k \in 1 .. n PROVE code[d + (1 + k - 1)] = s[k]
      BY DEF s
    <3>1. k + 1 \in 1 .. n + 1 /\ (k + 1) - 1 = 1 + k - 1
      BY <1>4
    <3>2. code[d + ((k + 1) - 1)] = b[k + 1]
      BY <1>7, <1>9, <1>11, <3>1
    <3> QED BY <1>7, <3>1, <3>2
  <2>2. Number(q, 1, 1 + n - 1) = x
    BY <1>2, <1>3, <1>4, <1>10, <2>1, NumberRead
  <2>3. 1 + n - 1 = q.l - 1
    BY <1>4, <1>10
  <2> QED BY <2>2, <2>3
<1> QED BY <1>7, <1>9, <1>10, <1>11

LEMMA AbsoluteFound ==
  ASSUME NEW v \in Widths, NEW x \in Displacements, NEW d \in Nat,
         NEW op, op = [kind |-> "absolute", v |-> v, disp |-> x]
  PROVE  ParsedRight(op) /\ (LiesAt(op, d) => Found(op, d) = op)
<1>1. /\ op.kind # "none"
      /\ ParseOperand(op) = Parsed(T_MEM, v, <<0>> \o ToBytes(x, ByteLength(x)))
  BY DEF ParseOperand, ParseMemory
<1>2. /\ ParsedRight(op)
      /\ LiesAt(op, d) =>
           \E q : /\ Found(op, d) = ReadOperand(q)
                  /\ q.t = T_MEM /\ q.v = v /\ ByteOf(q, 0) = 0 /\ Number(q, 1, q.l - 1) = x
  BY <1>1, DisplacedFound
<1>3. Field(0, 6, 1) = 0 /\ Field(0, 7, 1) = 0
  BY DEF Field
<1>4. ASSUME LiesAt(op, d) PROVE Found(op, d) = op
  <2>1. PICK q : /\ Found(op, d) = ReadOperand(q)
                 /\ q.t = T_MEM /\ q.v = v /\ ByteOf(q, 0) = 0 /\ Number(q, 1, q.l - 1) = x
    BY <1>2, <1>4
  <2>2. ReadOperand(q) = [kind |-> "absolute", v |-> q.v, disp |-> Number(q, 1, q.l - 1)]
    BY <1>3, <2>1, ReadIs
  <2> QED BY <2>1, <2>2
<1> QED BY <1>2, <1>4

LEMMA BasedFound ==
  ASSUME NEW v \in Widths, NEW r \in Registers, NEW w \in Widths, NEW x \in Displacements,
         NEW d \in Nat, NEW op,
         NEW g \in {-1, 1},
         op = [kind |-> "based", v |-> v, base |-> r, bv |-> w, disp |-> x, sign |-> g]
  PROVE  ParsedRight(op) /\ (LiesAt(op, d) => Found(op, d) = Unsigned(op))
<1> DEFINE h == 128 + w * 16 + r
<1>1. /\ op.kind # "none" /\ h \in Int
      /\ ParseOperand(op) = Parsed(T_MEM, v, <<h>> \o ToBytes(x, ByteLength(x)))
  BY DEF ParseOperand, ParseMemory, Widths, Registers
<1>2. /\ Field(h, 6, 1) = 0 /\ Field(h, 7, 1) = 1
      /\ Field(h, 0, 4) = r /\ Field(h, 4, 2) = w
  <2>1. h \in Nat /\ (h \div 64) % 2 = 0 /\ (h \div 128) % 2 = 1 /\ h % 16 = r /\ (h \div 16) % 4 = w
    BY DEF Widths, Registers
  <2> HIDE DEF h
  <2> QED BY <2>1 DEF Field
<1> HIDE DEF h
<1>3. /\ ParsedRight(op)
      /\ LiesAt(op, d) =>
           \E q : /\ Found(op, d) = ReadOperand(q)
                  /\ q.t = T_MEM /\ q.v = v /\ ByteOf(q, 0) = h /\ Number(q, 1, q.l - 1) = x
  BY <1>1, DisplacedFound
<1>4. ASSUME LiesAt(op, d) PROVE Found(op, d) = Unsigned(op)
  <2>1. PICK q : /\ Found(op, d) = ReadOperand(q)
                 /\ q.t = T_MEM /\ q.v = v /\ ByteOf(q, 0) = h /\ Number(q, 1, q.l - 1) = x
    BY <1>3, <1>4
  <2>2. ReadOperand(q) = ReadBased(q)
    BY <1>2, <2>1, ReadIs
  <2>3. ReadBased(q) = [kind |-> "based", v |-> q.v, base |-> r, bv |-> w, disp |-> x, sign |-> 1]
    BY <1>2, <2>1 DEF ReadBased
  <2>4. Unsigned(op) = [kind |-> "based", v |-> v, base |-> r, bv |-> w, disp |-> x, sign |-> 1]
    BY DEF Unsigned
  <2> QED BY <2>1, <2>2, <2>3, <2>4
<1> QED BY <1>3, <1>4

\* The two bytes of an address of two registers.
LEMMA IndexedBytes ==
  ASSUME NEW r \in Registers, NEW w \in Widths, NEW i \in Registers, NEW u \in Widths,
         NEW b, b = ToBytes(4 * (12288 + w * 1024 + u * 256 + r * 16 + i), 2)
  PROVE  /\ b \in Seq(Int) /\ Len(b) = 2
         /\ Field(b[1], 6, 1) = 1 /\ Field(b[1], 4, 2) = w /\ Field(b[1], 2, 2) = u
         /\ 4 * Field(b[1], 0, 2) + Field(b[2], 6, 2) = r /\ Field(b[2], 2, 4) = i
<1> DEFINE x == 4 * (12288 + w * 1024 + u * 256 + r * 16 + i)
           a == r \div 4
           c == r % 4
           g == 192 + w * 16 + u * 4 + a
           k == 64 * c + 4 * i
<1>1. a \in 0 .. 3 /\ c \in 0 .. 3 /\ r = 4 * a + c
  BY DEF Registers
<1>2. x = 256 * g + k
  BY <1>1 DEF Widths, Registers
<1> HIDE DEF a, c
<1>3. g \in 0 .. 255 /\ k \in 0 .. 255
  BY <1>1 DEF Widths, Registers
<1>4. /\ (g \div 64) % 2 = 1 /\ (g \div 16) % 4 = w /\ (g \div 4) % 4 = u /\ g % 4 = a
      /\ (k \div 64) % 4 = c /\ (k \div 4) % 16 = i
  BY <1>1 DEF Widths, Registers
<1> HIDE DEF g, k
<1>5. /\ Field(g, 6, 1) = 1 /\ Field(g, 4, 2) = w /\ Field(g, 2, 2) = u /\ Field(g, 0, 2) = a
      /\ Field(k, 6, 2) = c /\ Field(k, 2, 4) = i
  BY <1>3, <1>4 DEF Field
<1> HIDE DEF x
<1>6. x \in Nat
  BY <1>2, <1>3
<1>7. Field(x, 8, 8) = g /\ Field(x, 0, 8) = k
  <2>1. (x \div 256) % 256 = g /\ x % 256 = k
    BY <1>2, <1>3
  <2> QED BY <1>6, <2>1 DEF Field
<1>8. b = ToBytes(x, 2)
  BY DEF x
<1>9. b \in Seq(Int) /\ Len(b) = 2 /\ b[1] = g /\ b[2] = k
  BY <1>6, <1>7, <1>8, TwoBytes
<1> QED BY <1>1, <1>5, <1>9

LEMMA IndexedFound ==
  ASSUME NEW v \in Widths, NEW r \in Registers, NEW w \in Widths, NEW i \in Registers,
         NEW u \in Widths, NEW d \in Nat, NEW op, NEW g \in {-1, 1},
         op = [kind |-> "indexed", v |-> v, base |-> r, bv |-> w, index |-> i, iv |-> u,
               sign |-> g]
  PROVE  ParsedRight(op) /\ (LiesAt(op, d) => Found(op, d) = Unsigned(op))
<1> DEFINE b == ToBytes(4 * (12288 + w * 1024 + u * 256 + r * 16 + i), 2)
           q == Place(T_MEM, v, Len(b), d)
<1>1. ParseOperand(op) = Parsed(T_MEM, v, b) /\ op.kind # "none"
  BY DEF ParseOperand, ParseMemory
<1>2. /\ b \in Seq(Int) /\ Len(b) = 2
      /\ Field(b[1], 6, 1) = 1 /\ Field(b[1], 4, 2) = w /\ Field(b[1], 2, 2) = u
      /\ 4 * Field(b[1], 0, 2) + Field(b[2], 6, 2) = r /\ Field(b[2], 2, 4) = i
  BY IndexedBytes
<1> HIDE DEF b
<1>3. T_MEM \in Two /\ T_MEM # T_NONE /\ Len(b) \in 1 .. 4
  BY <1>2 DEF Two, T_MEM, T_NONE
<1> HIDE DEF q
<1>4. /\ ParsedRight(op)
      /\ LiesAt(op, d) =>
           /\ Found(op, d) = ReadOperand(q) /\ ByteOf(q, 0) = b[1]
           /\ \A k \in 1 .. Len(b) : code[d + (k - 1)] = b[k]
  <2>1. q = Place(T_MEM, v, Len(b), d)
    BY DEF q
  <2>2. b \in Seq(Int) /\ ParseOperand(op) = Parsed(T_MEM, v, b)
    BY <1>1, <1>2
  <2>3. op.kind # "none"
    BY <1>1
  <2> QED BY <1>3, <2>1, <2>2, <2>3, BytesFound
<1>5. q.t = T_MEM /\ q.v = v /\ q.data = d
  BY PlaceIs DEF q
<1>6. ASSUME LiesAt(op, d) PROVE Found(op, d) = Unsigned(op)
  <2>1. ByteOf(q, 0) = b[1] /\ ByteOf(q, 1) = b[2]
    <3>1. code[d + (2 - 1)] = b[2]
      BY <1>2, <1>4, <1>6
    <3> QED BY <1>4, <1>5, <1>6, <3>1 DEF ByteOf
  <2>2. ReadOperand(q) = ReadIndexed(q)
    BY <1>2, <1>5, <2>1, ReadIs
  <2>3. ReadIndexed(q) = [kind |-> "indexed", v |-> v,
                          base |-> 4 * Field(b[1], 0, 2) + Field(b[2], 6, 2), bv |-> w,
                          index |-> i, iv |-> u, sign |-> 1]
    BY <1>2, <1>5, <2>1 DEF ReadIndexed
  <2>4. Unsigned(op) = [kind |-> "indexed", v |-> v, base |-> r, bv |-> w, index |-> i, iv |-> u,
                        sign |-> 1]
    BY DEF Unsigned
  <2> QED BY <1>2, <1>4, <1>6, <2>2, <2>3, <2>4
<1> QED BY <1>4, <1>6

\* Every operand parses to fields that fit the header, and is read back from its
\* bytes, but for its sign.
LEMMA OperandRead ==
  ASSUME NEW op \in Operands, NEW d \in Nat
  PROVE  ParsedRight(op) /\ (LiesAt(op, d) => Found(op, d) = Unsigned(op))
<1>1. CASE op \in {[kind |-> "none"]}
  <2>1. Unsigned(op) = op
    BY <1>1 DEF Unsigned
  <2> QED BY <1>1, <2>1, NoneRead
<1>2. CASE op \in [kind : {"register"}, v : Widths, r : Registers]
  <2>1. Unsigned(op) = op
    BY <1>2 DEF Unsigned
  <2> QED BY <1>2, <2>1, RegisterFound
<1>3. CASE op \in [kind : {"immediate"}, v : Widths, x : Immediates]
  <2>1. /\ op.v \in Widths /\ op.x \in Immediates
        /\ op = [kind |-> "immediate", v |-> op.v, x |-> op.x]
    BY <1>3
  <2>2. Unsigned(op) = op
    BY <1>3 DEF Unsigned
  <2> QED BY <2>1, <2>2, ImmediateFound
<1>4. CASE op \in [kind : {"indexed"}, v : Widths, base : Registers, bv : Widths,
                   index : Registers, iv : Widths, sign : {-1, 1}]
  <2>1. /\ op.v \in Widths /\ op.base \in Registers /\ op.bv \in Widths
        /\ op.index \in Registers /\ op.iv \in Widths /\ op.sign \in {-1, 1}
        /\ op = [kind |-> "indexed", v |-> op.v, base |-> op.base, bv |-> op.bv,
                 index |-> op.index, iv |-> op.iv, sign |-> op.sign]
    BY <1>4
  <2> QED BY <2>1, IndexedFound
<1>5. CASE op \in [kind : {"based"}, v : Widths, base : Registers, bv : Widths,
                   disp : Displacements, sign : {-1, 1}]
  <2>1. /\ op.v \in Widths /\ op.base \in Registers /\ op.bv \in Widths
        /\ op.disp \in Displacements /\ op.sign \in {-1, 1}
        /\ op = [kind |-> "based", v |-> op.v, base |-> op.base, bv |-> op.bv,
                 disp |-> op.disp, sign |-> op.sign]
    BY <1>5
  <2> QED BY <2>1, BasedFound
<1>6. CASE op \in [kind : {"absolute"}, v : Widths, disp : Displacements]
  <2>1. /\ op.v \in Widths /\ op.disp \in Displacements
        /\ op = [kind |-> "absolute", v |-> op.v, disp |-> op.disp]
    BY <1>6
  <2>2. Unsigned(op) = op
    BY <1>6 DEF Unsigned
  <2> QED BY <2>1, <2>2, AbsoluteFound
<1> QED BY <1>1, <1>2, <1>3, <1>4, <1>5, <1>6 DEF Operands

\* c is s and t, one behind the other.
Joins(s, t, c) ==
  /\ c \in Seq(Int) /\ Len(c) = Len(s) + Len(t)
  /\ \A k \in 1 .. Len(s) : c[k] = s[k]
  /\ \A k \in 1 .. Len(t) : c[Len(s) + k] = t[k]

LEMMA Behind ==
  ASSUME NEW s \in Seq(Int), NEW t \in Seq(Int)
  PROVE  s \o t \in Seq(Int) /\ Joins(s, t, s \o t)
BY DEF Joins

\* The parts of an instruction lie one behind the other.
Parts(h, s, t, u) == h \o s \o t \o u

PartsLie(c, h, s, t) ==
  /\ Len(c) = 6 + Len(s) + Len(t)
  /\ \A k \in 1 .. 3 : c[k] = h[k]
  /\ \A k \in 1 .. Len(s) : c[3 + k] = s[k]
  /\ \A k \in 1 .. Len(t) : c[3 + Len(s) + k] = t[k]

LEMMA PartsBehind ==
  ASSUME NEW h \in Seq(Int), NEW s \in Seq(Int), NEW t \in Seq(Int), NEW u \in Seq(Int),
         Len(h) = 3, Len(u) = 3
  PROVE  PartsLie(Parts(h, s, t, u), h, s, t)
<1> DEFINE m == Len(s)
           n == Len(t)
           hs == h \o s
           hst == hs \o t
           c == hst \o u
<1>0. Parts(h, s, t, u) = c
  BY DEF Parts
<1>a. hs \in Seq(Int) /\ Joins(h, s, hs)
  BY Behind
<1> HIDE DEF hs
<1>b. hst \in Seq(Int) /\ Joins(hs, t, hst)
  BY <1>a, Behind
<1> HIDE DEF hst
<1>c. Joins(hst, u, c)
  BY <1>b, Behind
<1> HIDE DEF c
<1>1. m \in Nat /\ n \in Nat
  OBVIOUS
<1> HIDE DEF m, n
<1>2. /\ Len(hs) = 3 + m
      /\ \A k \in 1 .. 3 : hs[k] = h[k]
      /\ \A k \in 1 .. m : hs[3 + k] = s[k]
  BY <1>a DEF Joins, m
<1>3. /\ Len(hst) = 3 + m + n
      /\ \A k \in 1 .. 3 + m : hst[k] = hs[k]
      /\ \A k \in 1 .. n : hst[3 + m + k] = t[k]
  BY <1>2, <1>b DEF Joins, n
<1>4. /\ Len(c) = 6 + m + n
      /\ \A k \in 1 .. 3 + m + n : c[k] = hst[k]
  <2>1. Len(c) = Len(hst) + Len(u) /\ \A k \in 1 .. Len(hst) : c[k] = hst[k]
    BY <1>c DEF Joins
  <2>2. Len(hst) = 3 + m + n
    BY <1>3
  <2>3. Len(c) = (3 + m + n) + 3
    BY <2>1, <2>2
  <2>4. (3 + m + n) + 3 = 6 + m + n
    BY <1>1
  <2> QED BY <2>1, <2>2, <2>3, <2>4
<1>5. ASSUME NEW k \in 1 .. 3 PROVE c[k] = h[k]
  <2>1. k \in 1 .. 3 + m /\ k \in 1 .. 3 + m + n
    BY <1>1
  <2> QED BY <1>2, <1>3, <1>4, <2>1
<1>6. ASSUME NEW k \in 1 .. m PROVE c[3 + k] = s[k]
  <2>1. 3 + k \in 1 .. 3 + m /\ 3 + k \in 1 .. 3 + m + n
    BY <1>1
  <2>2. c[3 + k] = hst[3 + k] /\ hst[3 + k] = hs[3 + k] /\ hs[3 + k] = s[k]
    BY <1>2, <1>3, <1>4, <2>1
  <2> QED BY <2>2
<1>7. ASSUME NEW k \in 1 .. n PROVE c[3 + m + k] = t[k]
  <2>1. 3 + m + k \in 1 .. 3 + m + n
    BY <1>1
  <2>2. c[3 + m + k] = hst[3 + m + k] /\ hst[3 + m + k] = t[k]
    BY <1>3, <1>4, <2>1
  <2> QED BY <2>2
<1> QED BY <1>0, <1>4, <1>5, <1>6, <1>7 DEF m, n, PartsLie

First(s) == ParseOperand(s.ops[1])
Second(s) == ParseOperand(s.ops[2])

\* The fields of the header the assembler packs for s.
HeaderFor(l, o, s) ==
  [opcode_l |-> l, op1_t |-> First(s).t, op1_v |-> First(s).v, op1_l |-> First(s).l, xor_t |-> o,
   op2_t |-> Second(s).t, op2_v |-> Second(s).v, op2_l |-> Second(s).l,
   opcode_r |-> OpcodeRight(l, o, s.opcode - 1)]

\* The code c is an instruction that fetch and decode take apart into s.
Laid(c, s) ==
  /\ Len(c) = 6 + Len(First(s).bytes) + Len(Second(s).bytes)
  /\ \E l \in Five, o \in 0 .. 3 : FetchHeader(c) = HeaderFor(l, o, s)
  /\ LiesIn(c, s.ops[1], 4)
  /\ s.ops[1].kind # "none" => LiesIn(c, s.ops[2], 4 + First(s).l + 1)

\* What the assumptions say of an instruction in the assembly.
LEMMA SourceRight ==
  ASSUME NEW s \in Sources
  PROVE  /\ s.opcode \in DOMAIN OPCODES /\ s.opcode - 1 \in Five
         /\ s.ops[1] \in Operands /\ s.ops[2] \in Operands
         /\ s.ops[1].kind = "none" => s.ops[2].kind = "none"
         /\ ParsedRight(s.ops[1]) /\ ParsedRight(s.ops[2])
<1>1. s.opcode \in DOMAIN OPCODES /\ s.ops \in OperandPairs
  BY DEF Sources
<1>2. s.ops \in Operands \X Operands /\ (s.ops[1].kind = "none" => s.ops[2].kind = "none")
  BY <1>1, CodecAssumption, Zenon
<1>3. s.ops[1] \in Operands /\ s.ops[2] \in Operands
  BY <1>2
<1>4. ParsedRight(s.ops[1]) /\ ParsedRight(s.ops[2])
  BY <1>3, OperandRead
<1> QED BY <1>1, <1>2, <1>3, <1>4, TreeRight

\* What compile packs is what fetch finds.
LEMMA PackedFetched ==
  ASSUME NEW s \in Sources, NEW l \in Five, NEW o \in 0 .. 3,
         NEW h, h = ToBytes(PackHeader(l, o, s.opcode - 1, First(s), Second(s)), 3)
  PROVE  /\ h \in Seq(Int) /\ Len(h) = 3
         /\ \A c : c[1] = h[1] /\ c[2] = h[2] /\ c[3] = h[3] =>
              FetchHeader(c) = HeaderFor(l, o, s)
<1> DEFINE a == First(s)
           b == Second(s)
           n == s.opcode - 1
<1>1. /\ a.t \in Two /\ a.v \in Two /\ a.l \in Two
      /\ b.t \in Two /\ b.v \in Two /\ b.l \in Two
  BY SourceRight DEF ParsedRight, First, Second
<1>2. OpcodeRight(l, o, n) \in Five
  <2> DEFINE g == [opcode_l |-> l, xor_t |-> o, opcode_r |-> OpcodeRight(l, o, n)]
  <2>1. n \in Five
    BY SourceRight
  <2> HIDE DEF n
  <2>2. g.opcode_l = l /\ g.xor_t = o /\ g.opcode_r = OpcodeRight(l, o, n)
    OBVIOUS
  <2> HIDE DEF g
  <2> QED BY <2>1, <2>2, OpcodeRecovered
<1>3. o \in Two
  BY DEF Two
<1> HIDE DEF a, b, n
<1>4. h = ToBytes(PackHeader(l, o, n, a, b), 3)
  BY DEF a, b, n
<1>5. /\ h \in Seq(Int) /\ Len(h) = 3
      /\ \A c : c[1] = h[1] /\ c[2] = h[2] /\ c[3] = h[3] =>
           FetchHeader(c) =
             [opcode_l |-> l, op1_t |-> a.t, op1_v |-> a.v, op1_l |-> a.l, xor_t |-> o,
              op2_t |-> b.t, op2_v |-> b.v, op2_l |-> b.l, opcode_r |-> OpcodeRight(l, o, n)]
  BY <1>1, <1>2, <1>3, <1>4, HeaderCarries
<1> QED BY <1>5 DEF HeaderFor, a, b, n

\* What Compile writes is taken apart into the instruction it came from.
LEMMA CompileLays ==
  ASSUME NEW s \in Sources, NEW l \in Nonces, NEW o \in 0 .. 3,
         NEW c, c = Parts(ToBytes(PackHeader(l, o, s.opcode - 1, First(s), Second(s)), 3),
                          First(s).bytes, Second(s).bytes, <<-1, -1, -1>>)
  PROVE  Laid(c, s)
<1> DEFINE h == ToBytes(PackHeader(l, o, s.opcode - 1, First(s), Second(s)), 3)
           a == First(s).bytes
           b == Second(s).bytes
           u == <<-1, -1, -1>>
           d == Parts(h, a, b, u)
<1>1. c = d
  OBVIOUS
<1>2. l \in Five
  BY CodecAssumption DEF Five
<1>3. /\ h \in Seq(Int) /\ Len(h) = 3
      /\ \A e : e[1] = h[1] /\ e[2] = h[2] /\ e[3] = h[3] => FetchHeader(e) = HeaderFor(l, o, s)
  BY <1>2, PackedFetched
<1>4. a \in Seq(Int) /\ b \in Seq(Int)
  BY SourceRight DEF ParsedRight, First, Second
<1>5. u \in Seq(Int) /\ Len(u) = 3
  OBVIOUS
<1> HIDE DEF h, a, b, u
<1>6. PartsLie(d, h, a, b)
  BY <1>3, <1>4, <1>5, PartsBehind
<1> HIDE DEF d
<1>9. /\ Len(d) = 6 + Len(a) + Len(b)
      /\ \A k \in 1 .. 3 : d[k] = h[k]
      /\ \A k \in 1 .. Len(a) : d[3 + k] = a[k]
      /\ \A k \in 1 .. Len(b) : d[3 + Len(a) + k] = b[k]
  BY <1>6 DEF PartsLie
<1>10. FetchHeader(d) = HeaderFor(l, o, s)
  <2>1. d[1] = h[1] /\ d[2] = h[2] /\ d[3] = h[3]
    BY <1>9
  <2> QED BY <1>3, <2>1
<1>11. LiesIn(d, s.ops[1], 4)
  <2> SUFFICES ASSUME NEW k \in 1 .. Len(a) PROVE d[4 + (k - 1)] = a[k]
    BY DEF LiesIn, Bytes, a, First
  <2>1. 4 + (k - 1) = 3 + k
    OBVIOUS
  <2> QED BY <1>9, <2>1
<1>12. ASSUME s.ops[1].kind # "none" PROVE LiesIn(d, s.ops[2], 4 + First(s).l + 1)
  <2> SUFFICES ASSUME NEW k \in 1 .. Len(b) PROVE d[4 + First(s).l + 1 + (k - 1)] = b[k]
    BY DEF LiesIn, Bytes, b, Second
  <2>1. Len(a) = First(s).l + 1 /\ First(s).l \in Two
    BY <1>12, SourceRight DEF ParsedRight, a, First
  <2>2. 4 + First(s).l + 1 + (k - 1) = 3 + Len(a) + k
    BY <2>1 DEF Two
  <2> QED BY <1>9, <2>2
<1>13. Laid(d, s)
  BY <1>2, <1>9, <1>10, <1>11, <1>12 DEF Laid, a, b
<1> QED BY <1>1, <1>13

-----------------------------------------------------------------------------

\* The inductive invariant: each stage is the function of the stage before it.
CodecInv ==
  /\ source \in Sources
  /\ pc \in {"compile", "fetch", "decode", "dispatch", "done"}
  /\ pc # "compile" => Laid(code, source)
  /\ pc \in {"decode", "dispatch", "done"} => header = FetchHeader(code)
  /\ pc \in {"dispatch", "done"} =>
       decoded = [opcode |-> DecodeOpcode(header), ops |-> DecodeOperands(header)]
  /\ pc = "done" => handler = HandlerOf(decoded.opcode)

LEMMA CodecInvInit == Init => CodecInv
BY DEF Init, CodecInv

LEMMA CodecInvNext == CodecInv /\ [Next]_vars => CodecInv'
<1> SUFFICES ASSUME CodecInv, [Next]_vars PROVE CodecInv'
  OBVIOUS
<1> USE DEF CodecInv
<1>1. CASE Compile
  <2>1. PICK l \in Nonces, o \in 0 .. 3 :
          code' = Parts(ToBytes(PackHeader(l, o, source.opcode - 1, First(source),
                                           Second(source)), 3),
                        First(source).bytes, Second(source).bytes, <<-1, -1, -1>>)
    BY <1>1, Zenon DEF Compile, First, Second, Parts
  <2>2. Laid(code', source)
    BY <2>1, CompileLays
  <2> QED BY <1>1, <2>2 DEF Compile
<1>2. CASE Fetch
  BY <1>2 DEF Fetch
<1>3. CASE Decode
  BY <1>3 DEF Decode
<1>4. CASE Dispatch
  BY <1>4 DEF Dispatch
<1>5. CASE UNCHANGED vars
  BY <1>5 DEF vars
<1>6. CASE Done
  BY <1>5, <1>6 DEF Done
<1> QED BY <1>1, <1>2, <1>3, <1>4, <1>5, <1>6 DEF Next

LEMMA CodecInvHolds == Spec => []CodecInv
BY CodecInvInit, CodecInvNext, PTL DEF Spec

\* What decode leaves, in terms of the instruction in the assembly.
LEMMA DecodedRight ==
  ASSUME CodecInv, pc \in {"dispatch", "done"}
  PROVE  /\ decoded.opcode = source.opcode - 1
         /\ decoded.ops.op1 = Place(First(source).t, First(source).v, First(source).l + 1, 4)
         /\ decoded.ops.op2 = Place(Second(source).t, Second(source).v, Second(source).l + 1,
                                    4 + First(source).l + 1)
<1>1. PICK l \in Five, o \in 0 .. 3 : header = HeaderFor(l, o, source)
  BY DEF CodecInv, Laid
<1>2. decoded.opcode = DecodeOpcode(header) /\ decoded.ops = DecodeOperands(header)
  BY DEF CodecInv
<1>3. source.opcode - 1 \in Five
  BY SourceRight DEF CodecInv
<1>4. DecodeOpcode(header) = source.opcode - 1
  <2>1. /\ header.opcode_l = l /\ header.xor_t = o
        /\ header.opcode_r = OpcodeRight(l, o, source.opcode - 1)
    BY <1>1 DEF HeaderFor
  <2> QED BY <1>3, <2>1, OpcodeRecovered
<1>5. /\ header.op1_t = First(source).t /\ header.op1_v = First(source).v
      /\ header.op1_l = First(source).l /\ header.op2_t = Second(source).t
      /\ header.op2_v = Second(source).v /\ header.op2_l = Second(source).l
  BY <1>1 DEF HeaderFor
<1> QED BY <1>2, <1>4, <1>5 DEF DecodeOperands, Place

\* Whatever halves and cipher the assembler draws for the opcode, decode undoes
\* them and the decision tree of dispatch calls the handler of the mnemonic.
THEOREM HandlerRight == Spec => []HandlerMatches
<1>1. CodecInv => HandlerMatches
  <2> SUFFICES ASSUME CodecInv, pc = "done" PROVE handler = OPCODES[source.opcode]
    BY DEF HandlerMatches
  <2>1. decoded.opcode = source.opcode - 1
    BY DecodedRight
  <2>2. source.opcode \in DOMAIN OPCODES
    BY SourceRight DEF CodecInv
  <2>3. handler = HandlerOf(decoded.opcode)
    BY DEF CodecInv
  <2> QED BY <2>1, <2>2, <2>3, TreeRight
<1> QED BY <1>1, CodecInvHolds, PTL

\* The fallthrough is looked for right behind the operands, where the assembler
\* put it, for every kind and length of operand.
THEOREM FallthroughRight == Spec => []FallthroughFound
<1>1. CodecInv => FallthroughFound
  <2> SUFFICES ASSUME CodecInv, pc \in {"dispatch", "done"}
               PROVE  SkipTo(decoded.ops) = Len(code) - 2
    BY DEF FallthroughFound
  <2> DEFINE a == First(source)
             b == Second(source)
  <2>1. /\ decoded.ops.op1.t = a.t /\ decoded.ops.op1.l = a.l + 1
        /\ decoded.ops.op2.t = b.t /\ decoded.ops.op2.l = b.l + 1
    BY DecodedRight, PlaceIs
  <2>2. Len(code) = 6 + Len(a.bytes) + Len(b.bytes)
    BY DEF CodecInv, Laid
  <2>3. /\ a.l \in Two /\ b.l \in Two
        /\ Len(a.bytes) = IF a.t # T_NONE THEN a.l + 1 ELSE 0
        /\ Len(b.bytes) = IF b.t # T_NONE THEN b.l + 1 ELSE 0
    BY SourceRight DEF CodecInv, ParsedRight, First, Second
  <2>4. SkipTo(decoded.ops) = 1 + (IF a.t # T_NONE THEN a.l + 1 ELSE 0)
                                + (IF b.t # T_NONE THEN b.l + 1 ELSE 0) + 3
    BY <2>1 DEF SkipTo
  <2> DEFINE m == Len(a.bytes)
             n == Len(b.bytes)
  <2>5. m \in Nat /\ n \in Nat
    BY <2>3 DEF Two
  <2>6. SkipTo(decoded.ops) = 1 + m + n + 3
    BY <2>3, <2>4
  <2> HIDE DEF m, n
  <2>7. Len(code) = 6 + m + n
    BY <2>2 DEF m, n
  <2> QED BY <2>5, <2>6, <2>7
<1> QED BY <1>1, CodecInvHolds, PTL

\* The operands decode leaves, read, but for their signs.
OperandsRead ==
  pc \in {"dispatch", "done"} =>
    /\ ReadOperand(decoded.ops.op1) = Unsigned(source.ops[1])
    /\ ReadOperand(decoded.ops.op2) = Unsigned(source.ops[2])

\* decode and the operand readers find the operand of the assembly, but for the
\* sign that parse_memory splits off, which no byte of the code holds.
THEOREM OperandsRight == Spec => []OperandsRead
<1>1. CodecInv => OperandsRead
  <2> SUFFICES ASSUME CodecInv, pc \in {"dispatch", "done"}
               PROVE  /\ ReadOperand(decoded.ops.op1) = Unsigned(source.ops[1])
                      /\ ReadOperand(decoded.ops.op2) = Unsigned(source.ops[2])
    BY DEF OperandsRead
  <2> DEFINE o1 == source.ops[1]
             o2 == source.ops[2]
             d == 4 + First(source).l + 1
  <2>1. o1 \in Operands /\ o2 \in Operands /\ (o1.kind = "none" => o2.kind = "none")
    BY SourceRight DEF CodecInv
  <2>2. d \in Nat /\ 4 \in Nat
    <3>1. First(source).l \in Two
      BY SourceRight DEF CodecInv, ParsedRight, First
    <3> QED BY <3>1 DEF Two
  <2>3. /\ ReadOperand(decoded.ops.op1) = Found(o1, 4)
        /\ ReadOperand(decoded.ops.op2) = Found(o2, d)
    BY DecodedRight DEF Found, Place, First, Second
  <2>4. LiesAt(o1, 4) /\ (o1.kind # "none" => LiesAt(o2, d))
    BY DEF CodecInv, Laid, LiesAt
  <2> HIDE DEF d, o1, o2
  <2>5. o1.kind = "none" => LiesAt(o2, d)
    <3>1. ParsedRight(o2)
      BY <2>1, <2>2, OperandRead
    <3>2. o1.kind = "none" => Len(Bytes(o2)) = 0
      BY <2>1, <3>1 DEF ParsedRight, Bytes
    <3> QED BY <3>2 DEF LiesAt, LiesIn
  <2>6. Found(o1, 4) = Unsigned(o1) /\ Found(o2, d) = Unsigned(o2)
    BY <2>1, <2>2, <2>4, <2>5, OperandRead
  <2> QED BY <2>3, <2>6 DEF o1, o2
<1> QED BY <1>1, CodecInvHolds, PTL

\* No sign is written in front of a displacement or an index.
NoSigns ==
  \A pair \in OperandPairs, i \in {1, 2} :
    pair[i].kind \in {"indexed", "based"} => pair[i].sign = 1

\* Where the assembly writes no sign, they find it exactly.
THEOREM OperandsExact ==
  ASSUME NoSigns
  PROVE  Spec => []OperandsMatch
<1>1. CodecInv /\ OperandsRead => OperandsMatch
  <2> SUFFICES ASSUME CodecInv, OperandsRead PROVE OperandsMatch
    OBVIOUS
  <2>1. ASSUME NEW i \in {1, 2} PROVE Unsigned(source.ops[i]) = source.ops[i]
    <3> DEFINE op == source.ops[i]
    <3>1. op \in Operands
      <4>1. i = 1 \/ i = 2
        OBVIOUS
      <4>2. source.ops[1] \in Operands /\ source.ops[2] \in Operands
        BY SourceRight DEF CodecInv
      <4> QED BY <4>1, <4>2
    <3>2. op.kind \in {"indexed", "based"} => op.sign = 1
      BY DEF CodecInv, Sources, NoSigns
    <3> HIDE DEF op
    <3>3. CASE op.kind \in {"indexed", "based"}
      <4>1. [op EXCEPT !.sign = 1] = op
        BY <3>1, <3>2, <3>3 DEF Operands
      <4> QED BY <3>3, <4>1 DEF Unsigned, op
    <3>4. CASE op.kind \notin {"indexed", "based"}
      BY <3>4 DEF Unsigned, op
    <3> QED BY <3>3, <3>4
  <2> QED BY <2>1 DEF OperandsRead, OperandsMatch
<1> QED BY <1>1, CodecInvHolds, OperandsRight, PTL
=============================================================================
