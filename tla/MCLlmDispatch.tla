---------------------------- MODULE MCLlmDispatch -----------------------------
(* LlmDispatch for TLC: three records over two places, so that one waits for   *)
(* another to return, and the code's two retries, so that an attempt may fail  *)
(* after another failed and the last one may not re-ask.                       *)
EXTENDS LlmDispatch
===============================================================================
