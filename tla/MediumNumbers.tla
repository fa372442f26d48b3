--------------------------- MODULE MediumNumbers ---------------------------
(***************************************************************************)
(* The numbers of the media of a media set (class MediumNumber): an 8-bit  *)
(* number that is never zero. MaxMedium is 255 in the code; it is a        *)
(* parameter so that small instances reach the upper end.                  *)
(***************************************************************************)
EXTENDS Naturals

CONSTANT MaxMedium   \* the largest medium number, 2^8 - 1 in the code

ASSUME MediumAssumption == MaxMedium \in Nat \ {0}

MediumNumber == 1 .. MaxMedium
FirstMedium == 1

(* Mutant: zero is kept.                                                   *)
MediumNumberRaw(n) == n

(* A medium number made of an arbitrary 8-bit number. *)
MediumNumberOf(n) == IF n = 0 THEN FirstMedium ELSE n

(* The prefix and postfix increment stop at the end of the range.          *)
NextMedium(m) == IF m < MaxMedium THEN m + 1 ELSE m

(* A loop "for ( m = first; m <= last; ++m )" goes on after m exactly if   *)
(* the incremented number is within the bound. At MaxMedium the increment  *)
(* changes nothing, and the loop visits MaxMedium again.                   *)
LoopGoesOn(m, last) == NextMedium(m) <= last
=============================================================================
