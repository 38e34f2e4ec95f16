------------------------------ MODULE OnePart ------------------------------
(* What modules that put several parts of an instance beside one another share:*)
(* a behaviour is one part's, and `part` says whose; the variables of the other*)
(* parts are Idle in it.                                                       *)
VARIABLE part
Idle == "idle"
=============================================================================
