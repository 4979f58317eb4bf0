------------------------------- MODULE MCLlm --------------------------------
(* Instances of LlmChain for TLC. *)
EXTENDS LlmChain, TLC

CONSTANTS qwen, oss, c1, c2, column, pair

MCPlace == [m \in Hosted |-> IF m = qwen THEN 0 ELSE 1]
=============================================================================
