----------------------------- MODULE ThinkSplit -----------------------------
(* The split of a model's reply into reasoning and answer, as the text      *)
(* arrives (class ThinkSplitter in api/main.cpp).  A non-streamed reply is  *)
(* split as a whole by split_reasoning; a streamed one, piece by piece, and *)
(* what has been sent cannot be taken back.                                 *)
(*                                                                          *)
(* Symbols: "<" stands for the common beginning of the closing markers,     *)
(* `</think>` is <k>, `</thinking>` <kg> and `</ think>` <sk>: they share   *)
(* the prefixes the hold-back is about.  "N" is a newline, "R" a carriage   *)
(* return, "x" any other character.  What is held back is ASCII, so the cut *)
(* at a character boundary does not move it.  Replies that repeat the       *)
(* opening <think> of the template are not modelled.                        *)
EXTENDS Texts

CONSTANTS Alphabet,  \* the symbols of this reply
          MaxText,   \* bound on its length
          MaxPiece   \* bound on the text of one token

Close    == <<"<", "k", ">">>
CloseAlt == <<"<", "k", "g", ">">>
CloseGap == <<"<", "s", "k", ">">>

\* A newline, which split_reasoning trims, and what the splitter skips.
Newline == {"N"}
Skipped == {"N", "R"}

VARIABLES buf,        \* every piece so far
          rpos,       \* reasoning sent up to here
          rend,       \* where the reasoning ends, once the marker landed
          cpos,       \* answer sent, or skipped, up to here
          split,      \* the marker has landed
          started,    \* the answer has begun
          reasoning,  \* what the client got as reasoning_content
          content,    \* and as content
          thinking,   \* reasoning was asked for
          done        \* the stream ended

vars == <<buf, rpos, rend, cpos, split, started, reasoning, content, thinking, done>>

-----------------------------------------------------------------------------
\* split_reasoning: the same, of a whole reply.
Split(t) ==
    LET at == FirstOf({Close, CloseAlt, CloseGap}, t)
        past(m) == SkippedTo(t, at + Len(m) - 1, Newline)
        hit == CHOOSE m \in {Close, CloseAlt, CloseGap} : StandsAt(m, at, t)
    IN  IF at = 0 THEN [reasoning |-> Upto(t, TrimmedTo(t, Len(t), Newline)),
                        content   |-> <<>>]
        ELSE [reasoning |-> Upto(t, TrimmedTo(t, at - 1, Newline)),
              content   |-> From(t, past(hit) + 1)]

Wanted(t) == IF thinking THEN Split(t) ELSE [reasoning |-> <<>>, content |-> t]

-----------------------------------------------------------------------------
\* Where in b the splitter sees the marker, and the marker.
MarkerAt(b) == FirstOf({Close, CloseAlt}, b)
MarkerIn(b) == IF StandsAt(Close, MarkerAt(b), b) THEN Close ELSE CloseAlt

\* Up to here b cannot be part of a marker or of the newlines before it.
Safe(b) == LET partial == PartialTail(Close, b)
           IN  TrimmedTo(b, Len(b) - partial, Newline)

\* The marker has not landed: send what is safe, if it is new.
Think(b) ==
    /\ ~split /\ MarkerAt(b) = 0
    /\ rpos' = Max({Safe(b), rpos})
    /\ reasoning' = reasoning \o SubSeq(b, rpos + 1, rpos')
    /\ UNCHANGED <<rend, cpos, split, started, content>>

\* Where the reasoning ends.
End(b) == IF split THEN rend ELSE TrimmedTo(b, MarkerAt(b) - 1, Newline)

\* Up to here the answer is sent or skipped: newlines, until it has begun.
AnswerAt(b) ==
    LET next == IF split THEN cpos ELSE MarkerAt(b) + Len(MarkerIn(b)) - 1
    IN  IF started THEN next ELSE SkippedTo(b, next, Skipped)

\* The marker is in the buffer: the rest of the reasoning, then the answer.
Answer(b) ==
    /\ split \/ MarkerAt(b) # 0
    /\ split' = TRUE
    /\ rend' = End(b)
    /\ rpos' = Max({rpos, rend'})
    /\ reasoning' = reasoning \o SubSeq(b, rpos + 1, rend')
    /\ started' = (started \/ AnswerAt(b) < Len(b))
    /\ content' = content \o From(b, AnswerAt(b) + 1)
    /\ cpos' = IF started' THEN Len(b) ELSE AnswerAt(b)

\* feed: one more piece of the reply.
Feed(piece) ==
    /\ ~done /\ Len(buf) + Len(piece) <= MaxText
    /\ buf' = buf \o piece
    /\ Think(buf') \/ Answer(buf')
    /\ UNCHANGED <<thinking, done>>

\* finish: the stream ended; without a marker everything was reasoning.
Flush ==
    LET end == TrimmedTo(buf, Len(buf), Newline)
    IN  /\ ~split
        /\ rpos' = Max({rpos, end})
        /\ reasoning' = reasoning \o SubSeq(buf, rpos + 1, end)
        /\ UNCHANGED <<rend, cpos, split, started, content>>

Finish ==
    /\ ~done
    /\ done' = TRUE
    /\ Flush \/ (split /\ Answer(buf))
    /\ UNCHANGED <<buf, thinking>>

\* Without reasoning the splitter starts behind the marker.
Init ==
    /\ thinking \in BOOLEAN
    /\ split = ~thinking /\ started = ~thinking
    /\ buf = <<>> /\ rpos = 0 /\ rend = 0 /\ cpos = 0
    /\ reasoning = <<>> /\ content = <<>>
    /\ done = FALSE

Pieces == BoundedSeq(Alphabet, MaxPiece) \ {<<>>}

Next == (\E piece \in Pieces : Feed(piece)) \/ Finish

Spec == Init /\ [][Next]_vars

-----------------------------------------------------------------------------
\* The cursors stay in the buffer and the reasoning cursor never passes the
\* end of the reasoning.
TypeOK ==
    /\ buf \in Seq(Alphabet) /\ Len(buf) <= MaxText
    /\ 0 <= rpos /\ rpos <= Len(buf)
    /\ 0 <= cpos /\ cpos <= Len(buf)
    /\ split => rpos <= rend
    /\ {split, started, thinking, done} \subseteq BOOLEAN

\* A streamed reply is split as the whole reply would be, however the text
\* was cut into pieces; but the splitter also leaves out the carriage returns
\* in front of the answer.
Trimmed(t) == IF thinking THEN From(t, SkippedTo(t, 0, Skipped) + 1) ELSE t
SameSplit ==
    done => /\ reasoning = Wanted(buf).reasoning
            /\ content = Trimmed(Wanted(buf).content)

\* What is not sent yet could still belong to the marker: newlines and a
\* proper prefix of it (feed's comment: not a blind window).
HeldCouldBeMarker ==
    ~split /\ ~done =>
        \E n \in 0 .. Len(Close) - 1, s \in 0 .. Len(buf) :
            /\ rpos + s + n = Len(buf)
            /\ \A i \in rpos + 1 .. rpos + s : buf[i] \in Newline
            /\ From(buf, rpos + s + 1) = Upto(Close, n)

\* The answer starts only when the reasoning is complete: clients close the
\* reasoning block at the first content delta.
ReasoningBeforeContent ==
    thinking /\ content # <<>> => reasoning = Split(buf).reasoning

=============================================================================
