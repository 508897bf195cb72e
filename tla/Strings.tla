------------------------------ MODULE Strings -------------------------------
(***************************************************************************)
(* The functions of pandos/stdlib/string.c.                                *)
(*                                                                         *)
(* A character is its code and a string the sequence of its characters,    *)
(* without the terminating 0.  An int has WordBits bits.  The build does   *)
(* not trap on overflow, and division truncates towards zero.              *)
(***************************************************************************)
EXTENDS Integers, Sequences

CONSTANT WordBits  \* 32

ASSUME StringsAssumption == WordBits \in Nat \ {0}

Least == -(2 ^ (WordBits - 1))
EOS == 0

(* The operators / and % of C, for a positive divisor.                     *)
Quotient(n, b) == IF n < 0 THEN -((-n) \div b) ELSE n \div b
Remainder(n, b) == n - b * Quotient(n, b)

(* -n is again the least integer when n is.                                *)
abs(n) == IF n < 0 /\ n # Least THEN -n ELSE n

reverse(s) == [i \in DOMAIN s |-> s[Len(s) + 1 - i]]

Char(r) == IF r >= 10 THEN 65 + (r - 10) ELSE 48 + r

(* Bug for the runs to find: zero has no digits.                           *)
itoaEmpty(value, base) ==
  LET digits[n \in Int] ==
        IF n = 0 THEN <<>>
        ELSE <<Char(Remainder(n, base))>> \o digits[Quotient(n, base)]
      sign == IF value < 0 /\ base = 10 THEN <<45>> ELSE <<>>
  IN  reverse(digits[abs(value)] \o sign)

(* itoa for a base from 2 to 32: the digits come out from the last to the  *)
(* first, and then the sign, in base 10 only.                              *)
itoa(value, base) ==
  LET digits[n \in Int] ==
        IF n = 0 THEN <<>>
        ELSE <<Char(Remainder(n, base))>> \o digits[Quotient(n, base)]
      all == IF digits[abs(value)] = <<>> THEN <<48>> ELSE digits[abs(value)]
      sign == IF value < 0 /\ base = 10 THEN <<45>> ELSE <<>>
  IN  reverse(all \o sign)

(* What strlen counts and strcpy copies: the characters up to the first 0. *)
CString(s) ==
  LET ends == {i \in 1..(Len(s) + 1) : i = Len(s) + 1 \/ s[i] = EOS}
  IN  SubSeq(s, 1, (CHOOSE i \in ends : \A j \in ends : i <= j) - 1)
=============================================================================
