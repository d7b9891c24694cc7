---------------------------- MODULE MCWgSession ----------------------------
(* WgSession with two devices as model values. *)
EXTENDS WgSession

CONSTANTS a, b
=============================================================================
