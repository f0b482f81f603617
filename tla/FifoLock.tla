------------------------------ MODULE FifoLock ------------------------------
(***************************************************************************)
(* What a fair lock promises: the threads that asked for it stand in a     *)
(* queue in the order they asked, the first of them owns the lock, and     *)
(* giving it up removes the owner.  The scheduler reasons about the GPU in *)
(* these terms; module Turnstile is the ticket lock that implements it.    *)
(***************************************************************************)
EXTENDS Naturals, Sequences

CONSTANT Thread

VARIABLES line,     \* the threads that asked, in order; the head may own
          owns      \* the threads that know they own it

Ask(t) ==
    /\ \A i \in DOMAIN line : line[i] # t
    /\ line' = Append(line, t)
    /\ owns' = IF line = <<>> THEN {t} ELSE owns

Notice(t) ==
    /\ line # <<>> /\ t = Head(line) /\ t \notin owns
    /\ owns' = owns \cup {t}
    /\ UNCHANGED line

GiveUp(t) ==
    /\ line # <<>> /\ t = Head(line) /\ t \in owns
    /\ line' = Tail(line)
    /\ owns' = owns \ {t}

Init == line = <<>> /\ owns = {}
Next == \E t \in Thread : Ask(t) \/ Notice(t) \/ GiveUp(t)
Spec == Init /\ [][Next]_<<line, owns>>
=============================================================================
