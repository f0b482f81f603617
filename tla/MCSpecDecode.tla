---------------------------- MODULE MCSpecDecode ----------------------------
(* spec_loop on a request that may fill the context, its reply of plain     *)
(* tokens but for one checkpoint token.                                     *)
EXTENDS SpecDecode

OnePause ==
    {[t \in Prompt + 1 .. Prompt + MaxTokens + 1 |-> IF t = c THEN "ckpt" ELSE "plain"] :
        c \in Prompt + 2 .. Prompt + MaxTokens}
=============================================================================
