--------------------------- MODULE MCStrapiClient ---------------------------
(* Constants for TLC: workers are model values. *)
EXTENDS StrapiClient

CONSTANTS w1, w2

MCCallers == {w1, w2}
=============================================================================
