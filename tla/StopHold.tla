------------------------------ MODULE StopHold ------------------------------
(* Stop sequences (emit and deliver in run_generation, api/main.cpp).  The  *)
(* text of the tokens passes through a buffer that holds back as much as    *)
(* the longest stop sequence could still need; a stop ends the request      *)
(* before any of it reaches the client.                                     *)
(*                                                                          *)
(* Symbols are bytes: "L" "C" is the one character of two bytes.            *)
EXTENDS Texts

CONSTANTS Chars,     \* the characters of this reply, as byte sequences
          Stops,     \* the request's stop sequences
          MaxText,   \* bound on the bytes of the reply
          MaxPiece   \* bound on the characters of one token

StopsAssumption == \A s \in Stops : Len(s) > 0

VARIABLES text,       \* what the model produced, as text
          pending,    \* pending_emit
          full,       \* what was delivered; the text of the response
          hitStop,
          clientGone,
          phase       \* "running", "ended" (generate returned), "done"

vars == <<text, pending, full, hitStop, clientGone, phase>>

MaxStopLen == Max({Len(s) : s \in Stops} \union {0})

\* utf8_boundary_at_or_before
Boundary(s, n) == Max({i \in 0 .. n : i = 0 \/ i = Len(s) \/ s[i + 1] # "C"})

\* Fault: the window is cut at any byte.
\* Fault: the window is cut at any byte, also inside a character.
SafeBytes(s) == Max({0, Len(s) - Max({0, MaxStopLen - 1})})

\* How much of the buffer cannot be the beginning of a stop sequence.
Safe(s) == IF MaxStopLen <= 1 THEN Len(s)
           ELSE Boundary(s, Max({0, Len(s) - (MaxStopLen - 1)}))

\* deliver: the client takes the piece, or is gone; an empty one is not sent.
Deliver(piece) ==
    /\ full' = full \o piece
    /\ clientGone' \in IF piece = <<>> THEN {clientGone} ELSE {clientGone, TRUE}

\* The text in front of the first stop.
Cut(s) == FirstOf(Stops, s) - 1

\* emit: a piece of text.  A stop in the buffer drops what follows it.
Emit(piece) ==
    LET s == pending \o piece
        stop == Occurs(Stops, s)
        n == IF stop THEN Cut(s) ELSE Safe(s)
    IN  /\ Deliver(Upto(s, n))
        /\ pending' = IF stop THEN <<>> ELSE From(s, n + 1)
        /\ hitStop' = (hitStop \/ stop)

-----------------------------------------------------------------------------
Init == /\ text = <<>> /\ pending = <<>> /\ full = <<>>
        /\ hitStop = FALSE /\ clientGone = FALSE /\ phase = "running"

\* A token: on false, generate cancels the request and calls back no more.
Token(piece) ==
    /\ phase = "running" /\ Len(text) + Len(piece) <= MaxText
    /\ text' = text \o piece
    /\ Emit(piece)
    /\ phase' = IF hitStop' \/ clientGone' THEN "ended" ELSE "running"

\* The engine's D line.
EngineDone ==
    /\ phase = "running" /\ phase' = "ended"
    /\ UNCHANGED <<text, pending, full, hitStop, clientGone>>

\* After generate: the detokenizer's last piece, then what was held back,
\* unless the client goes away between the two.
Flush(piece) ==
    /\ phase = "ended" /\ phase' = "done" /\ ~hitStop /\ ~clientGone
    /\ Len(text) + Len(piece) <= MaxText
    /\ text' = text \o piece
    /\ LET s == pending \o piece
           stop == Occurs(Stops, s)
       IN  /\ hitStop' = stop
           /\ pending' = <<>>
           /\ \/ Deliver(IF stop THEN Upto(s, Cut(s)) ELSE s)
              \/ /\ ~stop /\ Safe(s) > 0
                 /\ full' = full \o Upto(s, Safe(s))
                 /\ clientGone' = TRUE

Cancelled ==
    /\ phase = "ended" /\ phase' = "done" /\ (hitStop \/ clientGone)
    /\ UNCHANGED <<text, pending, full, hitStop, clientGone>>

Pieces == {FlattenSeq(cs) : cs \in BoundedSeq(Chars, MaxPiece)}
LastPieces == {p \in Pieces : Len(p) <= 1}

Next == \/ \E piece \in Pieces : Token(piece)
        \/ EngineDone
        \/ \E piece \in LastPieces : Flush(piece)
        \/ Cancelled

Spec == Init /\ [][Next]_vars

-----------------------------------------------------------------------------
\* While the reply runs, delivered and held text are the whole text.
TypeOK ==
    /\ phase \in {"running", "ended", "done"} /\ {hitStop, clientGone} \subseteq BOOLEAN
    /\ IsPrefix(full, text)
    /\ ~hitStop /\ ~clientGone => full \o pending = text
    /\ ~hitStop => Len(pending) <= MaxStopLen

\* No stop sequence, and no beginning of the one that ended the reply,
\* reaches the client, however the tokens cut the text (emit's comment).
NoStopDelivered ==
    /\ ~Occurs(Stops, full)
    /\ hitStop => \E s \in Stops : StandsAt(s, Len(full) + 1, text)

\* A reply without a stop in it arrives whole, and the finish reason says so.
WholeReply == phase = "done" /\ ~clientGone => /\ hitStop <=> Occurs(Stops, text)
                                               /\ ~hitStop => full = text

\* The reply ends in front of the first stop in the text the tokens made.
CutAtFirst == phase = "done" /\ hitStop /\ ~clientGone =>
                  full = Upto(text, FirstOf(Stops, text) - 1)

\* Every delta on the wire is valid UTF-8 by itself: what is out never ends
\* inside a character.
WholeCharacters == Len(full) = Len(text) \/ text[Len(full) + 1] # "C"
=============================================================================
