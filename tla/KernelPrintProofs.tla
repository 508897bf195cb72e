------------------------- MODULE KernelPrintProofs -------------------------
(***************************************************************************)
(* Proofs about the printing of the kernel, for any messages, any width of *)
(* an int and any size of the buffer.                                      *)
(***************************************************************************)
EXTENDS KernelPrint, ListProofs

Text == Seq(Int)

-----------------------------------------------------------------------------
(* The functions of string.c return strings.                               *)

LEMMA PowerOfTwo ==
  ASSUME NEW n \in Nat
  PROVE  2 ^ n \in Nat /\ 2 ^ n # 0
  <1>1. IsFiniteSet(1..n) /\ Cardinality(1..n) = n
    BY FS_Interval
  <1>2. IsFiniteSet(SUBSET (1..n)) /\ Cardinality(SUBSET (1..n)) = 2 ^ n
    BY <1>1, FS_SUBSET
  <1>3. SUBSET (1..n) # {}
    OBVIOUS
  <1> QED
    BY <1>2, <1>3, FS_CardinalityType, FS_EmptySet

LEMMA WordFacts ==
  /\ WordBits \in Nat /\ Least \in Int
  /\ \A n \in Int : n % 2 ^ WordBits \in Nat
  /\ \A n \in Int : abs(n) \in Int
  <1>1. WordBits \in Nat /\ WordBits - 1 \in Nat
    BY StringsAssumption
  <1>2. 2 ^ (WordBits - 1) \in Nat
    BY <1>1, PowerOfTwo
  <1>3. Least \in Int
    BY <1>2 DEF Least
  <1>4. ASSUME NEW n \in Int PROVE n % 2 ^ WordBits \in Nat
    <2> DEFINE w == 2 ^ WordBits
    <2>1. w \in Nat /\ w # 0
      BY <1>1, PowerOfTwo
    <2> HIDE DEF w
    <2>2. n % w \in Nat
      BY <2>1
    <2> QED
      BY <2>2 DEF w
  <1> QED
    BY <1>1, <1>3, <1>4 DEF abs

(* In a base other than 10 a number is written like its opposite (the      *)
(* comment of itoa, string.c:62, has it unsigned).                         *)
LEMMA SignLost ==
  ASSUME NEW n \in Int, n # Least, -n # Least, NEW b, b # 10
  PROVE  itoa(-n, b) = itoa(n, b)
  <1>1. abs(-n) = abs(n)
    BY DEF abs
  <1> QED
    BY <1>1 DEF itoa

LEMMA ReverseType ==
  ASSUME NEW s \in Text
  PROVE  reverse(s) \in Text
  BY DEF reverse, Text

LEMMA CStringType ==
  ASSUME NEW s \in Text
  PROVE  CString(s) \in Text
  <1> DEFINE ends == {k \in 1..(Len(s) + 1) : k = Len(s) + 1 \/ s[k] = EOS}
             first == CHOOSE k \in ends : \A j \in ends : k <= j
  <1>1. ends \in SUBSET Nat /\ Len(s) + 1 \in ends /\ Len(s) \in Nat
    BY DEF Text
  <1>2. \E k \in ends : \A j \in ends : k <= j
    <2> HIDE DEF ends
    <2> QED
      BY <1>1, LeastExists
  <1>3. first \in ends
    <2> HIDE DEF ends
    <2> QED
      BY <1>2
  <1>4. first \in 1..(Len(s) + 1) /\ CString(s) = SubSeq(s, 1, first - 1)
    BY <1>3 DEF CString
  <1> HIDE DEF first
  <1>5. \A k \in 1..(first - 1) : s[k] \in Int
    BY <1>1, <1>4 DEF Text
  <1> QED
    BY <1>4, <1>5, SubSeqProperties DEF Text

-----------------------------------------------------------------------------
(* The recursive function of itoa, in the bases printf has: it is there,   *)
(* and it returns strings.  The induction is on the magnitude of n.        *)

Bases == {2, 10, 16}

Digits(b, n, f) ==
  IF n = 0 THEN <<>> ELSE <<Char(Remainder(n, b))>> \o f[Quotient(n, b)]

(* f does so for the numbers up to m.                                      *)
Writes(b, f, m) ==
  /\ f = [n \in (-m)..m |-> f[n]]
  /\ \A n \in (-m)..m : f[n] = Digits(b, n, f)

Magnitude(n) == IF n < 0 THEN -n ELSE n

LEMMA MagnitudeFacts ==
  ASSUME NEW n \in Int
  PROVE  /\ Magnitude(n) \in Nat /\ n \in (-Magnitude(n))..Magnitude(n)
         /\ Magnitude(n) = 0 <=> n = 0
         /\ \A m \in Nat : n \in (-m)..m <=> Magnitude(n) <= m
  BY DEF Magnitude

LEMMA QuotientFacts ==
  ASSUME NEW b \in Bases, NEW n \in Int, n # 0
  PROVE  /\ Quotient(n, b) \in Int /\ Magnitude(Quotient(n, b)) < Magnitude(n)
         /\ Char(Remainder(n, b)) \in Int
  BY DEF Bases, Quotient, Remainder, Char, Magnitude

(* Two functions which do so agree where both do.                          *)
LEMMA WritesUnique ==
  ASSUME NEW b \in Bases, NEW f, NEW g, NEW l \in Nat, NEW m \in Nat,
         Writes(b, f, l), Writes(b, g, m), NEW n \in Int,
         Magnitude(n) <= l, Magnitude(n) <= m
  PROVE  f[n] = g[n]
  <1> DEFINE Bad == {k \in Nat : \E x \in Int : /\ Magnitude(x) = k /\ k <= l /\ k <= m
                                                /\ f[x] # g[x]}
  <1> SUFFICES ASSUME Bad # {} PROVE FALSE
    BY MagnitudeFacts
  <1>1. PICK k \in Bad : \A j \in Bad : k <= j
    <2>1. Bad \in SUBSET Nat
      OBVIOUS
    <2> HIDE DEF Bad
    <2> QED
      BY <2>1, LeastExists
  <1>2. PICK x \in Int : Magnitude(x) = k /\ k <= l /\ k <= m /\ f[x] # g[x]
    BY <1>1
  <1>3. f[x] = Digits(b, x, f) /\ g[x] = Digits(b, x, g)
    BY <1>2, MagnitudeFacts DEF Writes
  <1>4. x # 0
    BY <1>2, <1>3 DEF Digits
  <1>5. Quotient(x, b) \in Int /\ Magnitude(Quotient(x, b)) < Magnitude(x)
    BY <1>4, QuotientFacts
  <1>6. Magnitude(Quotient(x, b)) \notin Bad
    <2>1. Magnitude(Quotient(x, b)) \in Nat /\ k \in Nat /\ ~(k <= Magnitude(Quotient(x, b)))
      BY <1>1, <1>2, <1>5, MagnitudeFacts
    <2> HIDE DEF Bad
    <2> QED
      BY <2>1, <1>1
  <1>7. Magnitude(Quotient(x, b)) \in Nat /\ Magnitude(Quotient(x, b)) <= l
        /\ Magnitude(Quotient(x, b)) <= m
    BY <1>1, <1>2, <1>5, MagnitudeFacts
  <1>8. f[Quotient(x, b)] = g[Quotient(x, b)]
    BY <1>5, <1>6, <1>7
  <1> QED
    BY <1>2, <1>3, <1>4, <1>8 DEF Digits

LEMMA WritesExists ==
  ASSUME NEW b \in Bases
  PROVE  \A m \in Nat : \E f : Writes(b, f, m)
  <1> DEFINE Bad == {m \in Nat : ~ \E f : Writes(b, f, m)}
  <1> SUFFICES ASSUME Bad # {} PROVE FALSE
    OBVIOUS
  <1>1. PICK m \in Bad : \A j \in Bad : m <= j
    <2>1. Bad \in SUBSET Nat
      OBVIOUS
    <2> HIDE DEF Bad
    <2> QED
      BY <2>1, LeastExists
  <1>2. m # 0
    <2> DEFINE f == [n \in (-0)..0 |-> <<>>]
    <2>1. Writes(b, f, 0)
      BY DEF Writes, Digits
    <2> HIDE DEF f
    <2> QED
      BY <2>1, <1>1
  <1>3. m \in Nat /\ m - 1 \in Nat /\ m - 1 \notin Bad
    <2>1. m \in Nat
      BY <1>1
    <2>2. m - 1 \in Nat /\ ~(m <= m - 1)
      BY <2>1, <1>2
    <2> HIDE DEF Bad
    <2> QED
      BY <2>1, <2>2, <1>1
  <1>4. PICK g : Writes(b, g, m - 1)
    BY <1>3
  <1> DEFINE f == [n \in (-m)..m |-> Digits(b, n, g)]
  <1>5. ASSUME NEW n \in (-(m - 1))..(m - 1) PROVE f[n] = g[n]
    <2>1. n \in (-m)..m
      BY <1>3
    <2> QED
      BY <2>1, <1>4 DEF Writes
  <1>6. ASSUME NEW n \in (-m)..m PROVE f[n] = Digits(b, n, f)
    <2>1. CASE n = 0
      BY <2>1 DEF Digits
    <2>2. CASE n # 0
      <3>1. n \in Int /\ Magnitude(n) <= m
        BY <1>3, MagnitudeFacts
      <3>2. Quotient(n, b) \in (-(m - 1))..(m - 1)
        <4>1. Quotient(n, b) \in Int /\ Magnitude(Quotient(n, b)) < Magnitude(n)
          BY <3>1, <2>2, QuotientFacts
        <4>2. Magnitude(Quotient(n, b)) <= m - 1
          BY <4>1, <3>1, <1>3, MagnitudeFacts
        <4> QED
          BY <4>1, <4>2, <1>3, MagnitudeFacts
      <3>3. f[Quotient(n, b)] = g[Quotient(n, b)]
        BY <3>2, <1>5
      <3>4. f[n] = Digits(b, n, g)
        OBVIOUS
      <3> HIDE DEF f
      <3> QED
        BY <3>3, <3>4 DEF Digits
    <2> QED
      BY <2>1, <2>2
  <1>7. f = [n \in (-m)..m |-> f[n]]
    OBVIOUS
  <1> HIDE DEF f
  <1>8. Writes(b, f, m)
    BY <1>6, <1>7 DEF Writes
  <1> QED
    BY <1>8, <1>1

LEMMA DigitsType ==
  ASSUME NEW b \in Bases, NEW f, \A n \in Int : f[n] = Digits(b, n, f), NEW n \in Int
  PROVE  f[n] \in Text
  <1> DEFINE Bad == {k \in Nat : \E x \in Int : Magnitude(x) = k /\ f[x] \notin Text}
  <1> SUFFICES ASSUME Bad # {} PROVE FALSE
    BY MagnitudeFacts
  <1>1. PICK k \in Bad : \A j \in Bad : k <= j
    <2>1. Bad \in SUBSET Nat
      OBVIOUS
    <2> HIDE DEF Bad
    <2> QED
      BY <2>1, LeastExists
  <1>2. PICK x \in Int : Magnitude(x) = k /\ f[x] \notin Text
    BY <1>1
  <1>3. f[x] = Digits(b, x, f)
    OBVIOUS
  <1>4. x # 0
    BY <1>2, <1>3 DEF Digits, Text
  <1>5. Quotient(x, b) \in Int /\ Magnitude(Quotient(x, b)) < Magnitude(x)
    BY <1>4, QuotientFacts
  <1>6. Magnitude(Quotient(x, b)) \in Nat /\ Magnitude(Quotient(x, b)) \notin Bad
    <2>1. Magnitude(Quotient(x, b)) \in Nat /\ k \in Nat /\ ~(k <= Magnitude(Quotient(x, b)))
      BY <1>1, <1>2, <1>5, MagnitudeFacts
    <2> HIDE DEF Bad
    <2> QED
      BY <2>1, <1>1
  <1>7. f[Quotient(x, b)] \in Text
    BY <1>5, <1>6
  <1>8. <<Char(Remainder(x, b))>> \in Text
    BY <1>4, QuotientFacts DEF Text
  <1> QED
    BY <1>2, <1>3, <1>4, <1>7, <1>8, ConcatProperties DEF Digits, Text

LEMMA ItoaType ==
  ASSUME NEW value \in Int, NEW b \in Bases
  PROVE  itoa(value, b) \in Text
  <1> DEFINE Body(n, f) == IF n = 0 THEN <<>>
                           ELSE <<Char(Remainder(n, b))>> \o f[Quotient(n, b)]
             Full(f) == f = [n \in Int |-> Body(n, f)]
             digits == CHOOSE f : Full(f)
             some(n) == CHOOSE f : Writes(b, f, Magnitude(n))
             all == [n \in Int |-> some(n)[n]]
  <1>1. ASSUME NEW n \in Int PROVE Writes(b, some(n), Magnitude(n))
    <2>1. \E f : Writes(b, f, Magnitude(n))
      BY MagnitudeFacts, WritesExists
    <2> QED
      BY <2>1
  <1> HIDE DEF some
  <1>2. ASSUME NEW n \in Int PROVE all[n] = Digits(b, n, all)
    <2>1. all[n] = Digits(b, n, some(n))
      BY <1>1, MagnitudeFacts DEF Writes
    <2>2. CASE n = 0
      BY <2>1, <2>2 DEF Digits
    <2>3. CASE n # 0
      <3> DEFINE q == Quotient(n, b)
      <3>1. q \in Int /\ Magnitude(q) < Magnitude(n)
        BY <2>3, QuotientFacts
      <3> HIDE DEF q
      <3>2. Magnitude(q) \in Nat /\ Magnitude(n) \in Nat /\ Magnitude(q) <= Magnitude(n)
            /\ Magnitude(q) <= Magnitude(q)
        BY <3>1, MagnitudeFacts
      <3>3. some(n)[q] = some(q)[q]
        <4>1. Writes(b, some(n), Magnitude(n)) /\ Writes(b, some(q), Magnitude(q))
          BY <1>1, <3>1
        <4> QED
          BY <4>1, <3>1, <3>2, WritesUnique
      <3>4. all[q] = some(n)[q]
        BY <3>1, <3>3
      <3> HIDE DEF all
      <3> QED
        BY <2>1, <2>3, <3>4 DEF Digits, q
    <2> QED
      BY <2>2, <2>3
  <1>3. \E f : Full(f)
    <2>1. Full(all)
      BY <1>2 DEF Digits
    <2> HIDE DEF all, Full
    <2> QED
      BY <2>1
  <1>4. Full(digits)
    <2> HIDE DEF Full
    <2> QED
      BY <1>3
  <1> DEFINE number == IF digits[abs(value)] = <<>> THEN <<48>> ELSE digits[abs(value)]
             sign == IF value < 0 /\ b = 10 THEN <<45>> ELSE <<>>
  <1>5. itoa(value, b) = reverse(number \o sign)
    BY DEF itoa
  <1> HIDE DEF digits
  <1>6. digits[abs(value)] \in Text
    <2>1. \A n \in Int : digits[n] = Digits(b, n, digits)
      BY <1>4 DEF Digits
    <2> QED
      BY <2>1, WordFacts, DigitsType
  <1>7. number \in Text /\ sign \in Text
    BY <1>6 DEF Text
  <1> HIDE DEF number, sign
  <1> QED
    BY <1>5, <1>7, ConcatProperties, ReverseType DEF Text

-----------------------------------------------------------------------------
(* What a directive appends is a string.                                   *)

Arguments == ((STRING \ {"s"}) \X Int) \cup ({"s"} \X Seq(Int))

LEMMA MessageFacts ==
  ASSUME NEW m \in Messages
  PROVE  Len(m) \in Nat /\ \A k \in 1..Len(m) : m[k] \in Arguments
  <1>1. Messages \subseteq Seq(Arguments)
    BY PrintAssumption DEF Arguments
  <1> QED
    BY <1>1

LEMMA AppendedType ==
  ASSUME NEW d \in Arguments
  PROVE  Appended(d) \in Text
  <1>1. CASE d[1] = "s"
    <2>1. d[2] \in Text /\ Appended(d) = CString(d[2])
      BY <1>1 DEF Appended, Arguments, Text
    <2> QED
      BY <2>1, CStringType
  <1>2. CASE d[1] # "s"
    <2>1. d[2] \in Int
      BY <1>2 DEF Arguments
    <2>2. \A b \in Bases : itoa(d[2], b) \in Text
      BY <2>1, ItoaType
    <2>3. padding(itoa(d[2], 2)) \in Text
      <3>1. itoa(d[2], 2) \in Seq(Int)
        BY <2>2 DEF Bases, Text
      <3> DEFINE l == (16 - Len(itoa(d[2], 2))) % 2 ^ WordBits
      <3>2. l \in Nat
        <4>1. 16 - Len(itoa(d[2], 2)) \in Int
          BY <3>1
        <4> QED
          BY <4>1, WordFacts
      <3>3. padding(itoa(d[2], 2)) = [k \in 1..l |-> 48]
        BY DEF padding
      <3> HIDE DEF l
      <3> QED
        BY <3>2, <3>3 DEF Text
    <2>4. CASE d[1] \in {"lit", "c"}
      BY <2>1, <2>4 DEF Appended, Text
    <2>5. CASE d[1] = "d"
      BY <2>2, <2>5 DEF Appended, Bases
    <2>6. CASE d[1] = "x"
      BY <2>2, <2>6 DEF Appended, Bases
    <2>7. CASE d[1] = "b"
      <3>1. Appended(d) = padding(itoa(d[2], 2)) \o itoa(d[2], 2)
        BY <2>7 DEF Appended
      <3> QED
        BY <3>1, <2>2, <2>3, ConcatProperties DEF Bases, Text
    <2>8. CASE d[1] = "p"
      <3>1. Appended(d) = <<48, 120>> \o itoa(d[2], 16)
        BY <2>8 DEF Appended
      <3>2. <<48, 120>> \in Text
        BY DEF Text
      <3> QED
        BY <3>1, <3>2, <2>2, ConcatProperties DEF Bases, Text
    <2>9. CASE d[1] \notin {"lit", "c", "d", "x", "b", "p"}
      <3>1. Appended(d) = <<>>
        BY <1>2, <2>9 DEF Appended
      <3> QED
        BY <3>1 DEF Text
    <2> QED
      BY <2>4, <2>5, <2>6, <2>7, <2>8, <2>9
  <1> QED
    BY <1>1, <1>2

-----------------------------------------------------------------------------
(* The way to the screen.                                                  *)

TypeInv ==
  /\ message \in Messages /\ read \in 0..Len(message)
  /\ buff \in Text /\ str \in Text /\ shown \in Text
  /\ error \in BOOLEAN
  /\ pc \in {"format", "overrun", "test", "print", "wait", "last ack", "done"}

(* What is shown and what is left to print are the message, as long as     *)
(* there was no error; at "wait" the device may have shown the first       *)
(* character before the pointer moves.  After an error something is        *)
(* missing, or nothing was printed at all.                                 *)
Left == IF pc = "wait" /\ term = "transmitted" THEN Tail(str) ELSE str

OnTheWay ==
  /\ pc \in {"format", "overrun", "test"} => shown = <<>> /\ ~error
  /\ pc = "test" => str = CString(buff)
  /\ pc = "wait" => ~error /\ str # <<>> /\ term \in {"busy", "failed", "transmitted"}
  /\ pc \in {"print", "wait"} /\ ~error => shown \o Left = CString(buff)
  /\ pc \in {"last ack", "done"} /\ ~error => shown = CString(buff)
  /\ error => \/ shown = <<>>
              \/ \E rest \in Text : rest # <<>> /\ shown \o rest = CString(buff)

IInv == TypeInv /\ OnTheWay

LEMMA InitStep == Init => IInv
  <1> SUFFICES ASSUME Init PROVE IInv
    OBVIOUS
  <1>1. message \in Messages /\ Len(message) \in Nat
    BY MessageFacts DEF Init
  <1>2. <<>> \in Text
    BY DEF Text
  <1>3. TypeInv
    <2>1. read \in 0..Len(message)
      BY <1>1 DEF Init
    <2>2. error \in BOOLEAN
      BY Zenon DEF Init
    <2> QED
      BY <1>1, <1>2, <2>1, <2>2 DEF Init, TypeInv
  <1>4. OnTheWay
    BY DEF Init, OnTheWay
  <1> QED
    BY <1>3, <1>4 DEF IInv

LEMMA FormatStep ==
  ASSUME IInv, FormatOne \/ addokbuf
  PROVE  IInv'
  <1>1. CASE FormatOne
    <2> DEFINE d == message[read + 1]
    <2>1. message \in Messages /\ read \in 0..Len(message) /\ Len(message) \in Nat
      BY MessageFacts DEF IInv, TypeInv
    <2>2. read + 1 \in 1..Len(message)
      BY <1>1, <2>1 DEF FormatOne
    <2>3. d \in Arguments
      BY <2>1, <2>2, MessageFacts
    <2>4. buff \o Appended(d) \in Text
      <3>1. buff \in Text /\ Appended(d) \in Text
        BY <2>3, AppendedType DEF IInv, TypeInv
      <3> HIDE DEF d
      <3> QED
        BY <3>1, ConcatProperties DEF Text
    <2>5. TypeInv'
      <3>1. buff' \in Text /\ pc' \in {"format", "overrun"}
        BY <1>1, <2>4 DEF FormatOne, IInv, TypeInv
      <3>2. /\ message' = message /\ read' = read + 1
            /\ str' = str /\ shown' = shown /\ error' = error
        BY <1>1 DEF FormatOne
      <3>3. message' \in Messages /\ read' \in 0..Len(message')
        BY <2>1, <2>2, <3>2
      <3> QED
        BY <3>1, <3>2, <3>3 DEF IInv, TypeInv
    <2>6. pc = "format" /\ pc' \in {"format", "overrun"} /\ shown' = shown /\ error' = error
      BY <1>1 DEF FormatOne
    <2> QED
      BY <2>5, <2>6 DEF IInv, OnTheWay
  <1>2. CASE addokbuf
    <2>1. CString(buff) \in Text
      BY CStringType DEF IInv, TypeInv
    <2>2. TypeInv'
      BY <1>2, <2>1 DEF addokbuf, IInv, TypeInv
    <2>3. /\ pc = "format" /\ pc' = "test" /\ shown' = shown /\ error' = error
          /\ str' = CString(buff) /\ buff' = buff
      BY <1>2 DEF addokbuf
    <2> QED
      BY <2>2, <2>3 DEF IInv, OnTheWay
  <1> QED
    BY <1>1, <1>2

LEMMA PrintStep ==
  ASSUME IInv, TestStatus \/ PrintChar \/ LoopEnds
  PROVE  IInv'
  <1>0. UNCHANGED <<message, read, buff, str, shown>> /\ CString(buff') = CString(buff)
    BY DEF TestStatus, PrintChar, LoopEnds
  <1>1. CASE TestStatus
    <2>1. TypeInv'
      BY <1>0, <1>1 DEF TestStatus, IInv, TypeInv
    <2>2. <<>> \o str = str
      BY ConcatEmptySeq DEF IInv, TypeInv, Text
    <2>3. /\ shown = <<>> /\ ~error /\ str = CString(buff)
          /\ \/ pc' = "print" /\ ~error'
             \/ pc' = "last ack" /\ error'
      BY <1>1 DEF TestStatus, IInv, OnTheWay
    <2>4. OnTheWay'
      BY <1>0, <2>2, <2>3 DEF OnTheWay, Left
    <2> QED
      BY <2>1, <2>4 DEF IInv
  <1>2. CASE PrintChar
    <2>1. TypeInv'
      BY <1>0, <1>2 DEF PrintChar, IInv, TypeInv
    <2>2. /\ pc = "print" /\ ~error /\ str # <<>>
          /\ pc' = "wait" /\ term' = "busy" /\ ~error'
      BY <1>2 DEF PrintChar
    <2>3. shown \o str = CString(buff)
      BY <2>2 DEF IInv, OnTheWay, Left
    <2>4. OnTheWay'
      BY <1>0, <2>2, <2>3 DEF OnTheWay, Left
    <2> QED
      BY <2>1, <2>4 DEF IInv
  <1>3. CASE LoopEnds
    <2>1. TypeInv'
      BY <1>0, <1>3 DEF LoopEnds, IInv, TypeInv
    <2>2. /\ pc = "print" /\ (str = <<>> \/ error)
          /\ pc' = "last ack" /\ error' = error
      BY <1>3 DEF LoopEnds
    <2>3. ~error => shown = CString(buff)
      <3>1. ~error => shown \o str = CString(buff) /\ str = <<>>
        BY <2>2 DEF IInv, OnTheWay, Left
      <3>2. shown \o <<>> = shown
        BY ConcatEmptySeq DEF IInv, TypeInv, Text
      <3> QED
        BY <3>1, <3>2
    <2>4. error => \/ shown = <<>>
                   \/ \E rest \in Text : rest # <<>> /\ shown \o rest = CString(buff)
      BY DEF IInv, OnTheWay
    <2>5. OnTheWay'
      BY <1>0, <2>2, <2>3, <2>4 DEF OnTheWay
    <2> QED
      BY <2>1, <2>5 DEF IInv
  <1> QED
    BY <1>1, <1>2, <1>3

(* After the wait a character has been shown, or it is the first of those  *)
(* which are missing.                                                      *)
LEMMA WaitStep ==
  ASSUME IInv, Waited \/ LastAck
  PROVE  IInv'
  <1>0. UNCHANGED <<message, read, buff, shown>> /\ CString(buff') = CString(buff)
    BY DEF Waited, LastAck
  <1>1. CASE Waited
    <2>1. /\ pc = "wait" /\ ~error /\ str # <<>> /\ str \in Text /\ pc' = "print"
          /\ str' = Tail(str)
          /\ \/ term = "transmitted" /\ ~error'
             \/ term = "failed" /\ error'
      BY <1>1 DEF Waited, IInv, TypeInv, OnTheWay
    <2>2. Tail(str) \in Text
      BY <2>1, HeadTailProperties DEF Text
    <2>3. error' \in BOOLEAN
      BY <1>1 DEF Waited, IInv, TypeInv
    <2>4. TypeInv'
      BY <1>0, <2>1, <2>2, <2>3 DEF IInv, TypeInv
    <2>5. shown \o Left = CString(buff)
      BY <2>1 DEF IInv, OnTheWay
    <2>6. CASE term = "transmitted" /\ ~error'
      BY <1>0, <2>1, <2>4, <2>5, <2>6 DEF IInv, OnTheWay, Left
    <2>7. CASE term = "failed" /\ error'
      <3>1. \E rest \in Text : rest # <<>> /\ shown \o rest = CString(buff)
        BY <2>1, <2>5, <2>7 DEF Left
      <3> QED
        BY <1>0, <2>1, <2>4, <2>7, <3>1 DEF IInv, OnTheWay
    <2> QED
      BY <2>1, <2>6, <2>7
  <1>2. CASE LastAck
    <2>1. pc = "last ack" /\ pc' = "done" /\ error' = error /\ str' = str
      BY <1>2 DEF LastAck
    <2>2. TypeInv'
      BY <1>0, <2>1 DEF IInv, TypeInv
    <2> QED
      BY <1>0, <2>1, <2>2 DEF IInv, OnTheWay
  <1> QED
    BY <1>1, <1>2

(* Only at "wait" does a character of the message come on the screen, and  *)
(* it is the one that is next.                                             *)
LEMMA CompleteStep ==
  ASSUME IInv, Complete
  PROVE  IInv'
  <1>0. UNCHANGED <<message, read, buff, str, error, pc>> /\ CString(buff') = CString(buff)
    BY DEF Complete
  <1>1. term = "busy" /\ term' \in {"transmitted", "failed"}
    BY DEF Complete
  <1>2. CASE pc = "wait" /\ term' = "transmitted"
    <2>1. shown' = Append(shown, Head(str)) /\ str # <<>> /\ ~error
      BY <1>1, <1>2 DEF Complete, IInv, OnTheWay
    <2>2. shown \in Seq(Int) /\ str \in Seq(Int) /\ Head(str) \in Int /\ Tail(str) \in Seq(Int)
      BY <2>1, HeadTailProperties DEF IInv, TypeInv, Text
    <2>3. Append(shown, Head(str)) \in Text
      BY <2>2 DEF Text
    <2>4. Append(shown, Head(str)) \o Tail(str) = shown \o str
      BY <2>1, <2>2
    <2>5. shown \o str = CString(buff)
      BY <1>1, <1>2, <2>1 DEF IInv, OnTheWay, Left
    <2>6. TypeInv'
      BY <1>0, <2>1, <2>3 DEF IInv, TypeInv
    <2>7. OnTheWay'
      BY <1>0, <1>2, <2>1, <2>4, <2>5 DEF OnTheWay, Left
    <2> QED
      BY <2>6, <2>7 DEF IInv
  <1>3. CASE ~(pc = "wait" /\ term' = "transmitted")
    <2>1. shown' = shown
      BY <1>1, <1>3 DEF Complete
    <2>2. TypeInv'
      BY <1>0, <2>1 DEF IInv, TypeInv
    <2>3. Left = str /\ Left' = str'
      BY <1>0, <1>1, <1>3 DEF Left
    <2>4. OnTheWay'
      BY <1>0, <1>1, <2>1, <2>3 DEF IInv, OnTheWay
    <2> QED
      BY <2>2, <2>4 DEF IInv
  <1> QED
    BY <1>2, <1>3

LEMMA NextStep == IInv /\ [Next]_vars => IInv'
  <1> SUFFICES ASSUME IInv, [Next]_vars PROVE IInv'
    OBVIOUS
  <1>1. CASE UNCHANGED vars
    BY <1>1 DEF vars, IInv, TypeInv, OnTheWay, Left
  <1>2. CASE Next
    BY <1>2, FormatStep, PrintStep, WaitStep, CompleteStep DEF Next, Kernel
  <1> QED
    BY <1>1, <1>2

-----------------------------------------------------------------------------

LEMMA PrefixFacts ==
  ASSUME NEW s \in Text, NEW rest \in Text
  PROVE  /\ IsPrefix(s, s \o rest) /\ IsPrefix(<<>>, rest) /\ IsPrefix(s, s)
         /\ s \o rest = s => rest = <<>>
  BY DEF IsPrefix, Text

LEMMA Shown == IInv => ShownIfTrue
  <1> SUFFICES ASSUME IInv PROVE ShownIfTrue
    OBVIOUS
  <1> DEFINE S == CString(buff)
  <1>1. S \in Text /\ shown \in Text /\ str \in Text
    BY CStringType DEF IInv, TypeInv
  <1>2. Left \in Text
    <2>1. str # <<>> => Tail(str) \in Text
      BY <1>1, HeadTailProperties DEF Text
    <2> QED
      BY <1>1, <2>1 DEF Left, IInv, OnTheWay
  <1>3. \/ shown = <<>>
        \/ shown = S
        \/ \E rest \in Text : shown \o rest = S
    <2>1. CASE error
      BY <2>1 DEF IInv, OnTheWay
    <2>2. CASE ~error
      BY <1>2, <2>2 DEF IInv, TypeInv, OnTheWay
    <2> QED
      BY <2>1, <2>2 DEF IInv, TypeInv
  <1>4. pc = "done" => IF error THEN shown # S \/ shown = <<>> ELSE shown = S
    BY <1>1, PrefixFacts DEF IInv, OnTheWay
  <1> HIDE DEF S
  <1>5. IsPrefix(shown, S)
    BY <1>1, <1>3, PrefixFacts
  <1> QED
    BY <1>4, <1>5 DEF ShownIfTrue, S

(* After TRUE of termprint all of the message is on the screen, once and   *)
(* in order, and after FALSE not all of it, or nothing.                    *)
THEOREM ShownIfTrueAlways == Spec => []ShownIfTrue
  <1>1. Init => IInv
    BY InitStep
  <1>2. IInv /\ [Next]_vars => IInv'
    BY NextStep
  <1>3. IInv => ShownIfTrue
    BY Shown
  <1> QED
    BY <1>1, <1>2, <1>3, PTL DEF Spec
=============================================================================
