-------------------------------- MODULE Crc --------------------------------
(* Common_CRCCalculate of common/tools/tools.c: the CRC-32 that ends the   *)
(* sections of a transport stream.  Its third argument is the CRC of what  *)
(* came before (a comment there takes it for the polynomial); 0 stands for *)
(* nothing before.                                                         *)
(*                                                                         *)
(* A 32-bit value is the sequence of its bits, from the highest.           *)
EXTENDS Integers, Sequences

CONSTANTS
    Chunks,      \* the data of a call: sequences of bytes
    MaxCalls     \* bound: calls

ASSUME CrcAssumption == Chunks \subseteq Seq(0..255) /\ MaxCalls \in Nat

VARIABLES
    crc,         \* the local, and between calls what the last call returned
    todo,        \* the data the call has not got through
    bit_count,
    since,       \* what the CRC is of: all data since a call started afresh
    complete,    \* the last call was over a section's own CRC
    calls

crcVars == <<crc, todo, bit_count, since, complete, calls>>

Ones == [i \in 1..32 |-> 1]
Zeros == [i \in 1..32 |-> 0]
(* 0x04c11db7                                                              *)
Poly == <<0,0,0,0, 0,1,0,0, 1,1,0,0, 0,0,0,1, 0,0,0,1, 1,1,0,1, 1,0,1,1, 0,1,1,1>>

Xor(a, b) == [i \in 1..32 |-> (a[i] + b[i]) % 2]
Shifted(a) == Append(Tail(a), 0)

(* The bits of a byte are taken from the highest.                          *)
(* Slip: from the lowest.                                                  *)
DataBitLow(byte, n) == (byte \div 2^n) % 2
DataBit(byte, n) == (byte \div 2^(7 - n)) % 2

Fed(a, bit) == IF a[1] = bit THEN Shifted(a) ELSE Xor(Shifted(a), Poly)

CrcInit == /\ crc = Zeros /\ todo = <<>> /\ bit_count = 0
           /\ since = <<>> /\ complete = FALSE /\ calls = 0

NoData == todo = <<>>

(* A byte of the CRC itself, as a section carries it.                      *)
CrcByte(k) == LET b(i) == crc[8 * k + i] * 2^(8 - i)
              IN b(1) + b(2) + b(3) + b(4) + b(5) + b(6) + b(7) + b(8)
OwnCrc == [k \in 1..4 |-> CrcByte(k - 1)]

(* A call continues from the last one's result.                            *)
Calculate(data, own) ==
    /\ NoData /\ calls < MaxCalls /\ calls' = calls + 1
    /\ crc' = IF crc = Zeros THEN Ones ELSE crc
    /\ since' = (IF crc = Zeros THEN <<>> ELSE since) \o data
    /\ todo' = data /\ complete' = (own /\ crc # Zeros)
    /\ UNCHANGED bit_count

(* A call without data is an error, which 0 stands for too.                *)
CalculateNothing ==
    /\ NoData /\ calls < MaxCalls /\ calls' = calls + 1
    /\ crc' = Zeros /\ since' = <<>> /\ complete' = FALSE
    /\ UNCHANGED <<todo, bit_count>>

NextBit ==
    /\ ~NoData
    /\ crc' = Fed(crc, DataBit(Head(todo), bit_count))
    /\ IF bit_count = 7 THEN bit_count' = 0 /\ todo' = Tail(todo)
                        ELSE bit_count' = bit_count + 1 /\ UNCHANGED todo
    /\ UNCHANGED <<since, complete, calls>>

CrcNext == \/ \E data \in Chunks : Calculate(data, FALSE)
           \/ calls > 0 /\ Calculate(OwnCrc, TRUE)
           \/ CalculateNothing \/ NextBit

-----------------------------------------------------------------------------
(* Properties.                                                             *)

(* The reference: the data's bits and 32 zeros behind them, the first 32   *)
(* inverted, divided by the polynomial, a one after the other from the     *)
(* left; the remainder are the last 32.                                    *)
Bit(data, i) == IF i > 8 * Len(data) THEN 0
                ELSE (data[(i + 7) \div 8] \div 2^((8 - (i % 8)) % 8)) % 2
Dividend(data) == [i \in 1..(8 * Len(data) + 32) |->
                     IF i <= 32 THEN 1 - Bit(data, i) ELSE Bit(data, i)]

Reduced(bits, i) ==
    IF bits[i] = 0 THEN bits
    ELSE [k \in DOMAIN bits |-> IF k = i THEN 0
                                ELSE IF k \in (i + 1)..(i + 32) THEN (bits[k] + Poly[k - i]) % 2
                                ELSE bits[k]]

(* What is left of the dividend after each of the data's bits.             *)
Division(data) ==
    LET left[i \in 0..(8 * Len(data))] ==
          IF i = 0 THEN Dividend(data) ELSE Reduced(left[i - 1], i)
    IN  left
Remainder(data) ==
    LET n == 8 * Len(data)
    IN  [k \in 1..32 |-> Division(data)[n][n + k]]

(* A call returns the CRC of all data since one began with 0, however the  *)
(* data is split between calls, so data followed by its own CRC gives 0,   *)
(* and a first part whose CRC is 0 is forgotten (tools.c:33-68).           *)
CrcIsRemainder ==
    NoData => /\ since # <<>> \/ crc # Zeros => crc = Remainder(since)
              /\ complete => crc = Zeros
=============================================================================
