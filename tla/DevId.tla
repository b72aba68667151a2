--------------------------------- MODULE DevId --------------------------------
(***************************************************************************)
(* The identifier of a sniffer, wiloc/user/user_main.c: the low byte of a  *)
(* CRC over the station's address.  An unsigned int is the set of its one  *)
(* bits, the lowest being 1.  A round only looks at the low 16 of them, so *)
(* only these are kept.                                                    *)
(***************************************************************************)
EXTENDS Integers

ByteBits == 1 .. 8
WordBits == 1 .. 16

PlaceValue == <<1, 2, 4, 8, 16, 32, 64, 128>>

\* The bits of a byte, and the byte that has bits w.
BitsOf(n) == {i \in ByteBits : (n \div PlaceValue[i]) % 2 = 1}

NumberOf(w) ==
    LET value(i) == IF i \in w THEN PlaceValue[i] ELSE 0
    IN  value(1) + value(2) + value(3) + value(4) + value(5) + value(6) + value(7) + value(8)

\* x >> k, x << k and x ^ y
Shr(x, k) == {i \in WordBits : i + k \in x}
Shl(x, k) == {i \in WordBits : i - k \in x}
Xor(x, y) == (x \ y) \cup (y \ x)

\* Mutant of calcCRC16r: the last step assigns (= for ^=).
CrcAssigned(crc, c) ==
    LET swapped == (Shr(crc, 8) \cap ByteBits) \cup Shl(crc, 8)
        x1 == Xor(swapped, c)
        x2 == Xor(x1, Shr(x1 \cap ByteBits, 4))
        x3 == Xor(x2, Shl(Shl(x2, 8), 4))
    IN  Shl(Shl(x3 \cap ByteBits, 4), 1)

\* CCITT 16 bit
calcCRC16r(crc, c) ==
    LET swapped == (Shr(crc, 8) \cap ByteBits) \cup Shl(crc, 8)
        x1 == Xor(swapped, c)
        x2 == Xor(x1, Shr(x1 \cap ByteBits, 4))
        x3 == Xor(x2, Shl(Shl(x2, 8), 4))
    IN  Xor(x3, Shl(Shl(x3 \cap ByteBits, 4), 1))

\* crc after the i-th byte of the address.
Rounds(address) ==
    LET crc[i \in 1 .. 6] == IF i = 1 THEN BitsOf(address[1])
                            ELSE calcCRC16r(crc[i - 1], BitsOf(address[i]))
    IN  crc

assign_dev_id(address) == NumberOf(Rounds(address)[6])

===============================================================================
