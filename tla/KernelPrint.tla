----------------------------- MODULE KernelPrint -----------------------------
(***************************************************************************)
(* The kernel prints a message: printf, addokbuf and termprint of          *)
(* pandos/stdlib/print.c.                                                  *)
(*                                                                         *)
(* printf writes the message into a buffer of its own and termprint sends  *)
(* it to a terminal, character by character, waiting for the device with   *)
(* interrupts off.  A directive of the format stands with its argument;    *)
(* any other character of the format is a directive "lit".                 *)
(***************************************************************************)
EXTENDS Strings, FiniteSets, SequencesExt

CONSTANTS Messages,  \* the calls of printf: sequences of directives
          BuffSize   \* the size of buff (200)

(* The argument of %s is a string, that of any other directive an int.     *)
ASSUME PrintAssumption ==
  /\ BuffSize \in Nat \ {0}
  /\ Messages \subseteq Seq(((STRING \ {"s"}) \X Int) \cup ({"s"} \X Seq(Int)))

VARIABLES message,  \* the call
          read,     \* how many of its directives are done
          buff,     \* what is in buff
          str,      \* what termprint has not printed yet
          error,    \* termprint's variable of that name
          pc,       \* where the kernel is
          term,     \* the status of the transmitter
          shown     \* what has appeared on the screen

vars == <<message, read, buff, str, error, pc, term, shown>>

(* The terminal may be in any state: a process may be using it, its last   *)
(* operation may have failed, or it may be missing.                        *)
Statuses == {"not installed", "ready", "busy", "failed", "transmitted"}

Init ==
  /\ message \in Messages
  /\ read = 0 /\ buff = <<>>
  /\ str = <<>> /\ error = FALSE
  /\ pc = "format"
  /\ term \in Statuses
  /\ shown = <<>>

-----------------------------------------------------------------------------
(* printf.                                                                 *)

(* The zeros before a binary number.  strlen is unsigned, and so is the    *)
(* difference, also when there are more than 16 digits.                    *)
padding(text) == [k \in 1..((16 - Len(text)) % 2 ^ WordBits) |-> 48]

(* What a directive appends to buff.  An unknown one appends nothing.      *)
Appended(d) ==
  CASE d[1] \in {"lit", "c"} -> <<d[2]>>
    [] d[1] = "d" -> itoa(d[2], 10)
    [] d[1] = "x" -> itoa(d[2], 16)
    [] d[1] = "b" -> padding(itoa(d[2], 2)) \o itoa(d[2], 2)
    [] d[1] = "s" -> CString(d[2])
    [] d[1] = "p" -> <<48, 120>> \o itoa(d[2], 16)
    [] OTHER -> <<>>

(* One turn of the loop of printf.  Beyond the end of buff lies the stack  *)
(* of the kernel: the model stops there.                                   *)
FormatOne ==
  /\ pc = "format" /\ read < Len(message)
  /\ read' = read + 1
  /\ LET text == buff \o Appended(message[read + 1]) IN
     IF Len(text) < BuffSize
     THEN buff' = text /\ UNCHANGED pc
     ELSE pc' = "overrun" /\ UNCHANGED buff
  /\ UNCHANGED <<message, str, error, term, shown>>

(* The end of the message: addokbuf copies it up to the first 0 and calls  *)
(* termprint.                                                              *)
addokbuf ==
  /\ pc = "format" /\ read = Len(message)
  /\ str' = CString(buff)
  /\ pc' = "test"
  /\ UNCHANGED <<message, read, buff, error, term, shown>>

-----------------------------------------------------------------------------
(* termprint.                                                              *)

(* The terminal must be there and not busy.                                *)
TestStatus ==
  /\ pc = "test"
  /\ IF term \in {"ready", "transmitted"}
     THEN pc' = "print" /\ UNCHANGED error
     ELSE pc' = "last ack" /\ error' = TRUE
  /\ UNCHANGED <<message, read, buff, str, term, shown>>

(* The loop: while str is not at its end and there was no error, a command *)
(* is written.                                                             *)
PrintChar ==
  /\ pc = "print" /\ str # <<>> /\ ~error
  /\ term' = "busy"
  /\ pc' = "wait"
  /\ UNCHANGED <<message, read, buff, str, error, shown>>

LoopEnds ==
  /\ pc = "print" /\ (str = <<>> \/ error)
  /\ pc' = "last ack"
  /\ UNCHANGED <<message, read, buff, str, error, term, shown>>

(* Bugs for the runs to find: what the device reports is not looked at;    *)
(* only a transmission ends the busy waiting.                              *)
WaitedBlind ==
  /\ pc = "wait" /\ term # "busy"
  /\ term' = "ready" /\ UNCHANGED error
  /\ str' = Tail(str)
  /\ pc' = "print"
  /\ UNCHANGED <<message, read, buff, shown>>

WaitedPatient ==
  /\ pc = "wait" /\ term = "transmitted"
  /\ term' = "ready"
  /\ str' = Tail(str)
  /\ pc' = "print"
  /\ UNCHANGED <<message, read, buff, error, shown>>

(* The end of the busy waiting.  Only a character which was transmitted is *)
(* acknowledged; the pointer moves on in either case.                      *)
Waited ==
  /\ pc = "wait" /\ term # "busy"
  /\ IF term = "transmitted"
     THEN term' = "ready" /\ UNCHANGED error
     ELSE error' = TRUE /\ UNCHANGED term
  /\ str' = Tail(str)
  /\ pc' = "print"
  /\ UNCHANGED <<message, read, buff, shown>>

(* The acknowledgement after the loop; a busy device ignores it.           *)
LastAck ==
  /\ pc = "last ack"
  /\ term' = IF term \in {"busy", "not installed"} THEN term ELSE "ready"
  /\ pc' = "done"
  /\ UNCHANGED <<message, read, buff, str, error, shown>>

Kernel ==
  FormatOne \/ addokbuf \/ TestStatus \/ PrintChar \/ LoopEnds \/ Waited \/ LastAck

(* The terminal completes a command or fails to.  At "wait" the command is *)
(* the kernel's, before that it was the one of a process.                  *)
Complete ==
  /\ term = "busy"
  /\ \/ /\ term' = "transmitted"
        /\ shown' = IF pc = "wait" THEN Append(shown, Head(str)) ELSE shown
     \/ /\ term' = "failed"
        /\ UNCHANGED shown
  /\ UNCHANGED <<message, read, buff, str, error, pc>>

Next == Kernel \/ Complete

(* The processor executes the kernel, which cannot be interrupted, and a   *)
(* terminal completes what it was told to do.                              *)
Spec == Init /\ [][Next]_vars /\ WF_vars(Kernel) /\ WF_vars(Complete)

-----------------------------------------------------------------------------

(* The numeral of n in base b, digit by digit from its definition.         *)
Numeral(n, b) ==
  LET k == CHOOSE l \in 1..WordBits : n < b ^ l /\ (l = 1 \/ n >= b ^ (l - 1))
  IN  [j \in 1..k |-> Char((n \div b ^ (k - j)) % b)]

(* What a directive means.  Only %d has a sign: "With any other base,      *)
(* value is always considered unsigned" (string.c:62).                     *)
Meaning(d) ==
  LET unsigned == d[2] % 2 ^ WordBits IN
  CASE d[1] \in {"lit", "c"} -> <<d[2]>>
    [] d[1] = "d" -> IF d[2] < 0 THEN <<45>> \o Numeral(-d[2], 10) ELSE Numeral(d[2], 10)
    [] d[1] = "x" -> Numeral(unsigned, 16)
    [] d[1] = "b" -> [j \in 1..16 |-> Char((unsigned \div 2 ^ (16 - j)) % 2)]
    [] d[1] = "s" -> d[2]
    [] d[1] = "p" -> <<48, 120>> \o Numeral(unsigned, 16)
    [] OTHER -> <<>>

(* Where itoa agrees with that: it has no digits for the least integer,    *)
(* and takes the absolute value also in the other bases, in which a        *)
(* negative number comes out as its opposite (SignLost in                  *)
(* KernelPrintProofs); and %b has 16 places.                               *)
InRange(d) ==
  /\ d[1] = "d" => d[2] # Least
  /\ d[1] \in {"x", "p"} => d[2] >= 0
  /\ d[1] = "b" => d[2] \in 0..(2 ^ 16 - 1)

Done == SubSeq(message, 1, read)
Meant == FlattenSeq([k \in DOMAIN Done |-> Meaning(Done[k])])

(* printf writes what the format means, for all integers but the least in  *)
(* base 10, and in the other bases for those which are not negative and,   *)
(* with %b, have at most 16 digits; and it leaves its buffer only if the   *)
(* message is too long for it or has another argument.                     *)
FormatRight ==
  (\A k \in DOMAIN Done : InRange(Done[k])) =>
    IF pc = "overrun" THEN Len(Meant) >= BuffSize ELSE buff = Meant

(* termprint returns TRUE if the print was successful, FALSE if not        *)
(* (print.c:30): after TRUE all of the message is on the screen, once and  *)
(* in order, also if a process was using the terminal; what is on the      *)
(* screen after FALSE is less than that, or the terminal was not free.     *)
ShownIfTrue ==
  /\ IsPrefix(shown, CString(buff))
  /\ pc = "done" => IF error THEN shown # CString(buff) \/ shown = <<>>
                             ELSE shown = CString(buff)

(* Printing ends, whatever the terminal does.                              *)
PrintEnds == pc = "format" ~> pc \in {"done", "overrun"}
=============================================================================
