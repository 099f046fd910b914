---------------------------- MODULE MCWalFencing ----------------------------
(* Instances of WalFencing for TLC. *)
EXTENDS WalFencing, TLC

CONSTANTS w1, w2, w3

\* Two openings that lose answers to puts, and three with a checkpoint
TakeoverSetups == {[opens |-> 2, max_seq |-> 2, max_pins |-> 0, losses |-> TRUE],
                   [opens |-> 3, max_seq |-> 1, max_pins |-> 1, losses |-> FALSE]}
Symmetry == Permutations(Writer)
====
