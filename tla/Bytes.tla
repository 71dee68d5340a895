------------------------------- MODULE Bytes -------------------------------
(***************************************************************************)
(* The data the virtual machine moves about: bytes, little-endian numbers  *)
(* of 1 to 8 bytes, and blocks of bytes copied by memcpy.  A block is a    *)
(* function from 0..n-1 to bytes.                                          *)
(***************************************************************************)
EXTENDS Integers

CONSTANT QWORD    \* bytes of a uint64_t: 8 in the code, fewer for TLC

RADIX == 256
Byte == 0 .. RADIX - 1

ASSUME QwordAssumption == QWORD \in 2 .. 8

\* TLAPS does not know what an exponent is.
ASSUME PowerAssumption ==
    RADIX^0 = 1 /\ \A k \in 1 .. QWORD : RADIX^k = RADIX * RADIX^(k - 1)

----------------------------------------------------------------------------
\* memcpy out of memory: the n bytes of m that start at address at.
Slice(m, at, n) == [i \in 0 .. n - 1 |-> m[at + i]]

\* memcpy into memory: m with a block laid over it at address at.
Overwrite(m, at, block) ==
    [i \in DOMAIN m |-> IF i - at \in DOMAIN block THEN block[i - at] ELSE m[i]]

\* The n low bytes of an integer, least significant first (wraps at 256^n).
LE(x, n) == [i \in 0 .. n - 1 |-> (x \div RADIX^i) % RADIX]

\* The number a block of n <= 8 bytes holds, as memcpy to a zeroed uint64_t
\* leaves it there.
Num(block, n) ==
    LET d(i) == IF i < n THEN block[i] ELSE 0
        up(i, high) == d(i) + RADIX * high
    IN up(0, up(1, up(2, up(3, up(4, up(5, up(6, d(7))))))))

----------------------------------------------------------------------------
\* The C operators & and | on blocks of the same length, bit by bit.
Bit(x, k) == (x \div <<1, 2, 4, 8, 16, 32, 64, 128>>[k + 1]) % 2

Join(bit) ==
    bit[0] + 2 * bit[1] + 4 * bit[2] + 8 * bit[3]
    + 16 * bit[4] + 32 * bit[5] + 64 * bit[6] + 128 * bit[7]

And(x, y) ==
    [i \in DOMAIN x |-> Join([k \in 0 .. 7 |-> Bit(x[i], k) * Bit(y[i], k)])]

Or(x, y) ==
    [i \in DOMAIN x |->
        Join([k \in 0 .. 7 |-> IF Bit(x[i], k) + Bit(y[i], k) > 0 THEN 1 ELSE 0])]

=============================================================================
