--------------------------- MODULE MCNumberCodec ----------------------------
(* Instances of NumberCodec for TLC: bytes of two bits, an int of four of  *)
(* them (Half = 128), a size_t of eight.                                   *)
EXTENDS NumberCodec

(* All numbers an int can hold, and the first ones it cannot: with the top *)
(* bit of an int set, and of one digit more.                               *)
SomeNumbers == 0 .. 160 \cup 250 .. 270
SomeDelays == {-4, -3, -2, 0, 4, 5, 6}
=============================================================================
