------------------------------ MODULE Numbers ------------------------------
(***************************************************************************)
(* Numbers to text and back: to_string(uint64_t) writes into a buffer that *)
(* all its callers share, strtoi reads a word of a command.  A character   *)
(* is its code.                                                            *)
(***************************************************************************)
EXTENDS Integers, Sequences, SequencesExt

CONSTANT IntMax         \* 2^31 - 1

Byte == 0 .. 255

Zero == 48              \* '0'
Minus == 45
Plus == 43

\* v after k turns of a loop that divides it by ten.
Divided(v) ==
    LET After[k \in 0 .. v] == IF k = 0 THEN v ELSE After[k - 1] \div 10
    IN  After

\* How often v can be divided by ten: the turns of each of the two loops.
Tens(v) ==
    CHOOSE k \in 0 .. v :
        Divided(v)[k] \div 10 = 0 /\ \A j \in 0 .. k - 1 : Divided(v)[j] \div 10 > 0

\* uint_output after to_string(v): from the last digit to the first, then the 0.
\* size is not initialised in the code: it starts from whatever byte of the stack it
\* lies in, which moves the text on.  What is written outside the buffer is left out.
Written(uint_output, size, v) ==
    LET last == (size + Tens(v)) % 256
    IN  [i \in DOMAIN uint_output |->
            IF i = last + 1 THEN 0
            ELSE IF i \in last - Tens(v) .. last THEN Zero + (Divided(v)[last - i] % 10)
            ELSE uint_output[i]]

\* The text a reader of the buffer sees, if it ends.
TextIn(uint_output) ==
    LET end == CHOOSE i \in DOMAIN uint_output :
                  uint_output[i] = 0 /\ \A j \in 0 .. i - 1 : uint_output[j] # 0
    IN  [i \in 1 .. end |-> uint_output[i - 1]]

\* One character of the digits that strtoi reads: behind anything else nothing is
\* read, and 0 is the result once the number has left the range of an int.  The
\* sum is kept negative.
Added(sign, r, c) ==
    IF r.stop \/ c \notin Zero .. Zero + 9 THEN [r EXCEPT !.stop = TRUE]
    ELSE LET sum == 10 * r.sum - (c - Zero)
         IN  IF sum < -IntMax - 1 \/ (sign # Minus /\ -sum > IntMax)
             THEN [sum |-> 0, stop |-> TRUE] ELSE [r EXCEPT !.sum = sum]

\* strtoi: a sign, then digits as far as they go.
strtoi(s) ==
    LET sign == IF s = <<>> THEN 0 ELSE s[1]
        word == IF sign \in {Minus, Plus} THEN Tail(s) ELSE s
        read == FoldLeft(LAMBDA r, c : Added(sign, r, c), [sum |-> 0, stop |-> FALSE], word)
    IN  IF sign = Minus THEN read.sum ELSE -read.sum
=============================================================================
