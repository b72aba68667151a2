--------------------------------- MODULE ItStr --------------------------------
(***************************************************************************)
(* Conversion of an integer to digits, wiloc/user/itstr.c.  Storage is a   *)
(* function from offsets to bytes; characters are their ASCII codes.  No   *)
(* intermediate value exceeds n, so 32 bits are enough for all of them.    *)
(* A loop is a function of the number of rounds, or of the loop variable.  *)
(***************************************************************************)
EXTENDS Integers

\* The values of an int.
IntMin == -2147483647 - 1
IntMax == 2147483647
Ints   == IntMin .. IntMax

\* Rounds that a loop over an int makes at most.
Bits == 31

\* value after i rounds of the loop of logi.
Divided(value, base) ==
    LET v[i \in 0 .. Bits] == IF i = 0 THEN value ELSE v[i - 1] \div base IN v

\* Number of digits of value; none for zero, nor for a negative value: the loop
\* ends in the first round that finds nothing left.
logi(value, base) ==
    LET v == Divided(value, base)
    IN  CHOOSE i \in 0 .. Bits : v[i] <= 0 /\ \A j \in 0 .. i - 1 : v[j] > 0

powi(b, e) == LET r[i \in 0 .. e] == IF i = 0 THEN 1 ELSE r[i - 1] * b IN r[e]

tokenChars(k) == IF k < 10 THEN 48 + k ELSE 87 + k

larger(a, b) == IF a > b THEN a ELSE b

\* The value itstr returns.
itstr_ret(buffer_len, n, z, lz) ==
    z > 1 /\ z <= 16 /\ buffer_len >= larger(lz, logi(n, z))

\* Mutant of Remainder: the weight is off by one place.
RemainderShort(n, z, s) ==
    LET r[i \in 0 .. s - 1] ==
          IF i = s - 1 THEN n
          ELSE r[i + 1] - (r[i + 1] \div powi(z, i)) * powi(z, i)
    IN  r

\* The digit loop: n as it is left for the digit of weight z^i, i < s.
Remainder(n, z, s) ==
    LET r[i \in 0 .. s - 1] ==
          IF i = s - 1 THEN n
          ELSE r[i + 1] - (r[i + 1] \div powi(z, i + 1)) * powi(z, i + 1)
    IN  r

\* itstr on the part of mem that starts at offset at: leading zeros up to lz
\* characters, the digits, and a zero byte behind the last one.
itstr(mem, at, buffer_len, n, z, lz) ==
    LET s    == logi(n, z)
        size == larger(lz, s)
        left == Remainder(n, z, s)
        k(i) == left[i] \div powi(z, i)
    IN  IF ~itstr_ret(buffer_len, n, z, lz) THEN mem
        ELSE [p \in DOMAIN mem |->
                CASE p \in at .. at + size - s - 1        -> 48
                  [] p \in at + size - s .. at + size - 1 -> tokenChars(k(at + size - 1 - p))
                  [] p = at + size                        -> 0
                  [] OTHER                                -> mem[p]]

===============================================================================
