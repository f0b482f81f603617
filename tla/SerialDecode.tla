---------------------------- MODULE SerialDecode ----------------------------
(***************************************************************************)
(* What decoding promises a client, without drafts: tokens go out one      *)
(* after the other, each the one the model gives behind the ones before,   *)
(* never more than were asked for, and the reply ends in front of an end   *)
(* token, at the budget, or because the client wants no more of it.  This  *)
(* is the plain loop of gen_one.                                           *)
(***************************************************************************)
EXTENDS Naturals, Sequences

CONSTANTS Prompt, MaxTokens

VARIABLES kind,  \* token -> "plain", "ckpt" or "eos"; tokens are numbered by position
          sent,  \* the tokens the client got
          why    \* "" while decoding, then the reason of the D line

vars == <<kind, sent, why>>

Init == sent = <<>> /\ why = ""

(* The tokens behind those that were sent: k more of them, none an end.     *)
More(k) ==
    /\ Len(sent) + k <= MaxTokens
    /\ sent' = sent \o [i \in 1 .. k |-> Prompt + Len(sent) + i]
    /\ \A i \in 1 .. k : kind[Prompt + Len(sent) + i] # "eos"

Reason(w) ==
    CASE w = "done"   -> kind[Prompt + Len(sent') + 1] = "eos"
      [] w = "length" -> Len(sent') = MaxTokens
      [] OTHER        -> TRUE

Next ==
    /\ why = "" /\ UNCHANGED kind
    /\ \E k \in 0 .. MaxTokens, w \in {"", "done", "length", "cancel", "dead"} :
           More(k) /\ why' = w /\ Reason(w)

Spec == Init /\ [][Next]_vars
=============================================================================
