------------------------------ MODULE ScoreMap ------------------------------
(***************************************************************************)
(* score.sv: the three decimal digits of the score, clocked by the rising  *)
(* edge of the collision flag of the player's missile.                     *)
(***************************************************************************)
EXTENDS Naturals

VARIABLES score_hundreds, score_tens, score_ones

vars == <<score_hundreds, score_tens, score_ones>>

Init == score_hundreds = 0 /\ score_tens = 0 /\ score_ones = 0

Reset == score_hundreds' = 0 /\ score_tens' = 0 /\ score_ones' = 0

(* The carry out of a digit, given the carry into it. *)
CarryOut(carry, digit) == IF carry + digit > 9 THEN 1 ELSE 0

(* A digit after its carry. *)
Wrapped(carry, digit) == IF carry + digit > 9 THEN 0 ELSE carry + digit

(* posedge enemy_collision *)
Count ==
  LET toTens     == CarryOut(1, score_ones)
      toHundreds == CarryOut(toTens, score_tens)
  IN  /\ score_ones' = Wrapped(1, score_ones)
      /\ score_tens' = Wrapped(toTens, score_tens)
      /\ score_hundreds' = Wrapped(toHundreds, score_hundreds)

Next == Count \/ Reset

Spec == Init /\ [][Next]_vars

----------------------------------------------------------------------------

Digit == 0 .. 9

TypeOK ==
  /\ score_hundreds \in Digit
  /\ score_tens \in Digit
  /\ score_ones \in Digit

Value == 100 * score_hundreds + 10 * score_tens + score_ones

(* The digits are those of the number of hits since the last reset, modulo *)
(* the thousand that three digits can show: no carry is lost (score.sv:45).*)
CountsHits == [][Value' = (Value + 1) % 1000 \/ Reset]_vars

============================================================================
