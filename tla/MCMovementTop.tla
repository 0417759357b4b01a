--------------------------- MODULE MCMovementTop ---------------------------
(* Instances of MovementTop for TLC: programs of a few descriptors over    *)
(* four words of data memory and four words of block RAM.                  *)
EXTENDS MovementTop

ToSram(src, dst, len) == <<src, dst, len, 1>>
FromSram(src, dst, len) == <<src, dst, len, 0>>

(* Both directions, overlapping ranges, one and two beats, one rejected.   *)
MixedDescs ==
  {ToSram(0, 1, 2), ToSram(1, 0, 1), FromSram(1, 2, 2), FromSram(0, 0, 1), ToSram(0, 7, 2)}

MixedPrograms == [1 .. 3 -> MixedDescs]

(* A program that ends with an empty descriptor.                           *)
ZeroLengthPrograms == {<<ToSram(0, 0, 0), FromSram(0, 0, 0)>>}

(* Long reads of the block RAM towards an address behind system memory,    *)
(* where sys_mem drops the words: long bursts without large memories.      *)
LongPrograms == {[k \in 1 .. 12 |-> FromSram(0, 64, 255)]}
=============================================================================
