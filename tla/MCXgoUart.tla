------------------------------ MODULE MCXgoUart ------------------------------
(* A small robot for TLC, with the data that is hardest to cut: header     *)
(* pairs, plausible lengths and tails inside the payloads.                 *)
EXTENDS XgoUart

MCPayloads == [p \in Phase |->
    CASE p = 0 -> {<<85, 0>>}
      [] p = 1 -> {<<85, 0, 9, 2>>}
      [] p = 2 -> {<<0, 170, 85, 0>>}
      [] p = 3 -> {<<1, 85, 0, 12>>}
      [] p = 4 -> {<<85>>}]
MCNoiseBytes == {85}
=============================================================================
