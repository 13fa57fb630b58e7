---------------------------- MODULE MCMessenger ----------------------------
(***************************************************************************)
(* Model-checking instance of Messenger: a byte has 4 values and the      *)
(* length type 4 bits (2 header bytes), so the largest accepted message  *)
(* is 13 bytes with its header.  The payloads include the longest one    *)
(* accepted (11 bytes), the shortest one refused (12) and one (16) whose *)
(* length would wrap to 0 in the header if it were not refused.          *)
(***************************************************************************)
EXTENDS Messenger

Ones(n) == [i \in 1..n |-> 1]

MCPayloads == {<<2>>, <<3, 0>>, Ones(11), Ones(12), Ones(16)}
=============================================================================
