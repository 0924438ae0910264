------------------------------- MODULE Blocks -------------------------------
(***************************************************************************)
(* memcopy and memset, which draw, clear pages and hand out buffers.       *)
(* Memory is a function from addresses to bytes.                           *)
(***************************************************************************)
EXTENDS Integers, Sequences, SequencesExt

\* The n bytes at s loaded and then stored at d.
Moved(memory, d, s, n) ==
    [a \in DOMAIN memory |-> IF a \in d .. d + n - 1 THEN memory[a - d + s] ELSE memory[a]]

\* k units of n bytes, one behind the other.
Loop(memory, d, s, n, k) ==
    FoldLeft(LAMBDA m, i : Moved(m, d + (i - 1) * n, s + (i - 1) * n, n),
             memory, [i \in 1 .. k |-> i])

\* mutant: the registers are not seen to have moved on after the first loop
memcopyFromStart(memory, d, s, n) ==
    LET wide == 16 * (n \div 16)
        long == 8 * ((n % 16) \div 8)
        first == Loop(memory, d, s, 16, n \div 16)
        second == Loop(first, d, s, 8, (n % 16) \div 8)
    IN  Loop(second, d + long, s + long, 1, n % 8)

\* Sixteen bytes at a time, then eight, then one; each loop goes on where the one
\* before it stopped.
memcopy(memory, d, s, n) ==
    LET wide == 16 * (n \div 16)
        long == wide + 8 * ((n % 16) \div 8)
        first == Loop(memory, d, s, 16, n \div 16)
        second == Loop(first, d + wide, s + wide, 8, (n % 16) \div 8)
    IN  Loop(second, d + long, s + long, 1, n % 8)

\* Eight bytes at a time the 32-bit word twice, then its bytes in turn.
memset(memory, start, word, n) ==
    LET qwords == 8 * (n \div 8)
    IN  [a \in DOMAIN memory |->
            IF a \in start .. start + qwords - 1 THEN word[((a - start) % 8) % 4]
            ELSE IF a \in start + qwords .. start + n - 1 THEN word[(a - start - qwords) % 4]
            ELSE memory[a]]

\* What a copy and a fill are for.
Copied(memory, d, s, n) ==
    [a \in DOMAIN memory |-> IF a - d \in 0 .. n - 1 THEN memory[s + (a - d)] ELSE memory[a]]
Filled(memory, start, word, n) ==
    [a \in DOMAIN memory |-> IF a - start \in 0 .. n - 1 THEN word[(a - start) % 4] ELSE memory[a]]
=============================================================================
