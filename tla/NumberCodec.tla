---------------------------- MODULE NumberCodec -----------------------------
(***************************************************************************)
(* How a number travels: the encoding loops of both libraries (toBytes,    *)
(* numberToBuffer), their decoding loops (toSize_T, bufferToNumber), and   *)
(* the two things a decoded number is used for: the length of a string to  *)
(* read, and the time a message was sent, checked against the server's     *)
(* window.  Any end may be either library.                                 *)
(*                                                                         *)
(* The libraries have bytes of Base = 256, an int of IntDigits = 4 bytes   *)
(* and a size_t of SizeDigits = 8.  What happens at their limits depends   *)
(* only on these being a base and two numbers of digits, so TLC checks a   *)
(* smaller base.  Shifts are those of the languages: >> of JavaScript      *)
(* first converts to an int, << of both works on an int (a short is        *)
(* promoted to one); JavaScript reduces the shift count modulo the width   *)
(* of an int, and in C++ a larger count is undefined.                      *)
(***************************************************************************)
EXTENDS Integers, Sequences

CONSTANTS Base, IntDigits, SizeDigits,
          Numbers,   \* the numbers sent
          Delays,    \* the times a message may travel
          Past,      \* lower_limit, upload_time_error_tolerance: how old a
                     \* message may be
          Future     \* upper_limit, time_delay_tolerance

ASSUME WidthAssumption ==
    /\ Base \in Nat \ {0} /\ Base % 2 = 0 /\ IntDigits \in Nat \ {0}
    /\ SizeDigits \in IntDigits + 1 .. 2 * IntDigits
ASSUME NumberAssumption == Numbers \subseteq Nat /\ Delays \subseteq Int
ASSUME WindowAssumption == Past \in Nat /\ Future \in Nat

Libraries == {"cpp", "node"}

VARIABLES number,    \* the number to send
          use,       \* what for: "length" or "time"
          encoder, decoder,  \* the library at each end
          rest,      \* num, the variable of the encoding loop
          bytes,     \* the digits encoded so far
          idx, value,\* the variables of the decoding loop
          phase,     \* "encode", "decode", "use", "accepted", "refused",
                     \* "read", "assertion" (of BufferReader.read)
          delay      \* the time the message has travelled when it is checked

codecState == <<number, use, encoder, decoder, rest, bytes, idx, value, phase, delay>>

Power[n \in Nat] == IF n = 0 THEN 1 ELSE Base * Power[n - 1]

Half == Power[IntDigits] \div 2
SizeT(n) == n % Power[SizeDigits]

(* n as an int: the low digits, in two's complement.                       *)
ToInt(n) == LET low == n % (2 * Half) IN IF low < Half THEN low ELSE low - 2 * Half

CodecInit ==
    /\ number \in Numbers /\ use \in {"length", "time"}
    /\ encoder \in Libraries /\ decoder \in Libraries
    /\ rest = number /\ bytes = <<>>
    /\ idx = 0 /\ value = 0
    /\ phase = "encode" /\ delay \in Delays
-----------------------------------------------------------------------------
\* Mutant: the loop of toBytes shifts by one digit too many.
ShiftTwo(n) == n \div (Base * Base)
(* number >> 8 on a size_t; num >> 8 on a number of JavaScript.            *)
ShiftSize(n) == n \div Base
ShiftNumber(n) == ToInt(n) \div Base

(* The byte written for n: a cast to unsigned char; num & 255.             *)
Digit(n) == n % Base

(* One turn of while (number > 0) of the encoder.                          *)
EncodeStep ==
    /\ phase = "encode" /\ rest > 0
    /\ bytes' = Append(bytes, Digit(rest))
    /\ rest' = IF encoder = "cpp" THEN ShiftSize(rest) ELSE ShiftNumber(rest)
    /\ UNCHANGED <<number, use, encoder, decoder, idx, value, phase, delay>>

EncodeDone ==
    /\ phase = "encode" /\ rest <= 0
    /\ phase' = "decode"
    /\ UNCHANGED <<number, use, encoder, decoder, rest, bytes, idx, value, delay>>

(* next << (idx * 8), as an int; the outcomes of a count beyond its width  *)
(* in C++ are those of an optimiser (nothing) and of the machine (modulo). *)
ShiftLeftNode(next) == ToInt(next * Power[idx % IntDigits])
ShiftsLeftCpp(next) == IF idx < IntDigits THEN {ToInt(next * Power[idx])}
                       ELSE {0, ShiftLeftNode(next)}

(* One turn of the decoding loop.                                          *)
DecodeStep ==
    /\ phase = "decode" /\ idx < Len(bytes)
    /\ \/ decoder = "node" /\ value' = value + ShiftLeftNode(bytes[idx + 1])
       \/ /\ decoder = "cpp"
          /\ \E term \in ShiftsLeftCpp(bytes[idx + 1]) : value' = SizeT(value + term)
    /\ idx' = idx + 1
    /\ UNCHANGED <<number, use, encoder, decoder, rest, bytes, phase, delay>>

DecodeDone ==
    /\ phase = "decode" /\ idx = Len(bytes)
    /\ phase' = "use"
    /\ UNCHANGED <<number, use, encoder, decoder, rest, bytes, idx, value, delay>>

(* assert(amount > 0) of BufferReader.read.                                *)
Readable(amount) == amount > 0

(* extractDynamicBuffer: stream.read(len), which asserts amount > 0; the   *)
(* C++ queue transfers any number of bytes.                                *)
Read ==
    /\ phase = "use" /\ use = "length"
    /\ phase' = IF decoder = "cpp" \/ Readable(value) THEN "read" ELSE "assertion"
    /\ UNCHANGED <<number, use, encoder, decoder, rest, bytes, idx, value, delay>>

\* Mutant: the limits of the window are swapped.
InWindowSwapped(center) == /\ SizeT(center - Future) < value
                           /\ SizeT(center + Past) > value
(* SlidingTimeWindow::in_window, on size_t.                                *)
InWindow(center) == /\ SizeT(center - Past) < value
                    /\ SizeT(center + Future) > value

(* The test of verify_message_authenticity, negated.                       *)
InTolerance(current) == ~ (value + Past < current \/ value - Future > current)

CheckTime ==
    /\ phase = "use" /\ use = "time"
    /\ phase' = IF IF decoder = "cpp" THEN InWindow(number + delay)
                                      ELSE InTolerance(number + delay)
                THEN "accepted" ELSE "refused"
    /\ UNCHANGED <<number, use, encoder, decoder, rest, bytes, idx, value, delay>>

CodecNext == EncodeStep \/ EncodeDone \/ DecodeStep \/ DecodeDone \/ Read \/ CheckTime

CodecSpec == CodecInit /\ [][CodecNext]_codecState
-----------------------------------------------------------------------------
(* Every variable keeps its type: what is put on the wire are bytes.       *)
CodecTypeOK ==
    /\ number \in Numbers /\ use \in {"length", "time"}
    /\ encoder \in Libraries /\ decoder \in Libraries
    /\ rest \in Int /\ value \in Int
    /\ bytes \in Seq(0 .. Base - 1)
    /\ idx \in 0 .. Len(bytes) /\ delay \in Delays
    /\ phase \in {"encode", "decode", "use", "accepted", "refused", "read", "assertion"}

Decoded == phase \notin {"encode", "decode"}

(* A number arrives as it was sent, between any two ends, exactly if an    *)
(* int can hold it (but for the largest of a size_t, which are what small  *)
(* negative ints extend to); such a number is put on the wire without      *)
(* leading zeros and is a length any end can read, but for 0 at a Node     *)
(* end.  The docs and the C++ test speak of larger numbers.                *)
OnlyIntsArrive ==
    Decoded => /\ number < SizeT(-Half) => (value = number <=> number < Half)
               /\ number < Half /\ bytes # <<>> => bytes[Len(bytes)] # 0
               /\ number < Half /\ phase = "assertion" => number = 0 /\ decoder = "node"

(* While an int can hold the time (until 2038), a message is accepted when *)
(* it arrives inside the window and refused when it arrives outside; at    *)
(* the very edge the libraries differ.  A size_t holds the times compared. *)
WindowRespected ==
    number < Half /\ number + delay \in Past .. Power[SizeDigits] - Future - 1 =>
        /\ phase = "accepted" => -Future <= delay /\ delay <= Past
        /\ phase = "refused" => delay <= -Future \/ delay >= Past
=============================================================================
