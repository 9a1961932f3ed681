--------------------------- MODULE MCActiveChecks ---------------------------
(***************************************************************************)
(* Three keys, a threshold of two and three generations: the stack is      *)
(* below, at and above the threshold, and the generation starts over.      *)
(***************************************************************************)
EXTENDS ActiveChecks

CONSTANTS k1, k2, k3

=============================================================================
