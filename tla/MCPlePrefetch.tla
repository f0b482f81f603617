--------------------------- MODULE MCPlePrefetch ---------------------------
(* Instances of PlePrefetch: two prompts.                                   *)
EXTENDS PlePrefetch, TLC
CONSTANTS a, b
AtZero == [r \in {a, b} |-> 0]
Apart == a :> 0 @@ b :> 1
OneRow == [r \in {a, b} |-> 1]
Fours == [r \in {a, b} |-> 4]
Sixes == [r \in {a, b} |-> 6]
=============================================================================
