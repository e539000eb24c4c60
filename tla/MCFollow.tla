------------------------------ MODULE MCFollow ------------------------------
(* Two backends; the clock of the first is ahead of the second's.          *)
EXTENDS Follow

CONSTANTS a, b

OneAhead == [x \in {a, b} |-> IF x = a THEN 1 ELSE 0]
=============================================================================
