---------------------------- MODULE ReplayWindow ----------------------------
(***************************************************************************)
(* The sliding window of wireguard.c that tells a packet received twice:   *)
(* `top` is replay_counter, the greatest packet number seen, counted from  *)
(* one; `seen` is replay_bitmap, the set of the distances below `top` that *)
(* have been seen. The packet number has 64 bits and the distance is kept  *)
(* in 32: both widths are parameters.                                      *)
(***************************************************************************)
EXTENDS Integers

CONSTANTS Window,    \* bits of replay_bitmap
          DiffMod,   \* 2^32: the distance is a uint32_t
          SeqMod     \* 2^64: the packet number is a uint64_t

ASSUME WindowAssumption ==
  /\ Window \in Nat \ {0} /\ DiffMod \in Nat /\ SeqMod \in Nat
  /\ Window <= DiffMod /\ DiffMod <= SeqMod

EmptyWindow == [top |-> 0, seen |-> {}]
Windows     == [top : 0..SeqMod - 1, seen : SUBSET (0..Window - 1)]

Number(nonce) == (nonce + 1) % SeqMod
Ahead(w, q)   == (q - w.top) % DiffMod
Behind(w, q)  == (w.top - q) % DiffMod

(* What wireguard_check_replay() returns. *)
Accepts(w, nonce) ==
  LET q == Number(nonce)
  IN /\ q # 0
     /\ q > w.top \/ (Behind(w, q) < Window /\ Behind(w, q) \notin w.seen)

(* replay_bitmap <<= d: distances that leave the window are forgotten. *)
Shift(seen, d) == {b \in 0..Window - 1 : b - d \in seen}

(* Mutant: the packet that moves the window is not marked itself. *)
MutNoted(w, nonce) ==
  LET q == Number(nonce)
  IN IF q > w.top THEN [top |-> q, seen |-> Shift(w.seen, Ahead(w, q))]
     ELSE [top |-> w.top, seen |-> w.seen \cup {Behind(w, q)}]

(* The window after a packet it accepts. *)
Noted(w, nonce) ==
  LET q == Number(nonce)
  IN IF q > w.top
     THEN [top |-> q,
           seen |-> (IF Ahead(w, q) < Window THEN Shift(w.seen, Ahead(w, q)) ELSE {})
                    \cup {0}]
     ELSE [top |-> w.top, seen |-> w.seen \cup {Behind(w, q)}]
=============================================================================
