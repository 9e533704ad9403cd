------------------------------ MODULE Scramble ------------------------------
(***************************************************************************)
(* connection::scramble (net_connection.h): the answer to a validation     *)
(* value.  A 64-bit value is a function from its 16 hexadecimal digits,    *)
(* digit 0 the least significant one, and a digit is the set of its bits   *)
(* that are 1: the bitwise operators are those of sets.                    *)
(***************************************************************************)
EXTENDS Integers, Sequences

CONSTANT SizeOfUint64  \* sizeof(uint64_t), the modulus of a challenge

Digits == 0 .. 15
Bits == 0 .. 3
Words == [Digits -> SUBSET Bits]

ASSUME ScrambleAssumption == SizeOfUint64 \in 1 .. 16

Weight == [b \in Bits |-> CASE b = 0 -> 1 [] b = 1 -> 2 [] b = 2 -> 4 [] b = 3 -> 8]
Digit(n) == {b \in Bits : (n \div Weight[b]) % 2 = 1}

(* A literal of the source: its digits in the order they are written.      *)
Hex(s) == [d \in Digits |-> IF d < Len(s) THEN Digit(s[Len(s) - d]) ELSE {}]

Zero == [d \in Digits |-> {}]

KeyIn    == Hex(<<13,14,10,13, 11,14,14,15, 12,0,13,14, 12,10,15,14>>)
KeyOut   == Hex(<<12,0,13,14, 15,10,12,14, 1,2,3,4, 5,6,7,8>>)
HighMask == Hex(<<15,0, 15,0, 15,0, 15,0, 15,0, 15,0, 15,0>>)
LowMask  == Hex(<<0,15, 0,15, 0,15, 0,15, 0,15, 0,15, 0,15>>)

Flipped(s, t) == (s \ t) \cup (t \ s)
Xored(a, b) == [d \in Digits |-> Flipped(a[d], b[d])]
Masked(a, b) == [d \in Digits |-> a[d] \cap b[d]]
Joined(a, b) == [d \in Digits |-> a[d] \cup b[d]]

(* Shifts by four bits; what leaves the 64 bits is lost.                   *)
ShiftRight(a) == [d \in Digits |-> IF d = 15 THEN {} ELSE a[d + 1]]
ShiftLeft(a)  == [d \in Digits |-> IF d = 0 THEN {} ELSE a[d - 1]]

SwapDigits(out) == Joined(ShiftRight(Masked(out, HighMask)), ShiftLeft(Masked(out, LowMask)))

scramble(nInput) == Xored(SwapDigits(Xored(nInput, KeyIn)), KeyOut)

(* The constructor of a server's connection: any value below sizeof.       *)
Challenge(n) == [Zero EXCEPT ![0] = Digit(n % SizeOfUint64)]
Challenges == {Challenge(n) : n \in 0 .. SizeOfUint64 - 1}
-----------------------------------------------------------------------------
Partner(d) == IF d % 2 = 0 THEN d + 1 ELSE d - 1

(* The reference definition: digits 0 .. 13 swap in pairs under the two    *)
(* keys, and the top two digits do not depend on the argument, because the *)
(* masks have 56 bits.                                                     *)
ByPairs(nInput) == [d \in Digits |->
  IF d <= 13 THEN Flipped(Flipped(nInput[Partner(d)], KeyIn[Partner(d)]), KeyOut[d])
             ELSE KeyOut[d]]

(* A server that expects the answer to one challenge takes no answer to    *)
(* another value below 2^56 for it, nor the challenge sent back as it is.  *)
AnswersOnly(nInput, c) ==
  /\ nInput[14] = {} /\ nInput[15] = {} /\ scramble(nInput) = scramble(c) => nInput = c
  /\ scramble(c) # c
=============================================================================
