----------------------------- MODULE MCCommands -----------------------------
(* Three keys for two places in the list; two write commands and two keys  *)
(* with a limit for pools of one, so that the list and both pools fill up. *)
EXTENDS Commands, TLC

CONSTANTS a, b, c

Row(key, active, write, limit) ==
  [key |-> key, active |-> active, write |-> write, limit |-> limit]

Requests4 == {Row(a, TRUE, 1, NoLimit), Row(a, FALSE, NoWrite, 1),
              Row(b, TRUE, 2, 1), Row(c, TRUE, 1, NoLimit)}

Symmetry == Permutations(PollIds)
=============================================================================
