----------------------------- MODULE Utf8Stream -----------------------------
(* From the bytes of the tokens to text (take_utf8 and Detokenizer in       *)
(* api/main.cpp).  A token may end inside a character; what is complete is  *)
(* sent, ill-formed bytes become U+FFFD.  The whole text of a reply is      *)
(* decoded by the tokenizer's utf8_lossy: the reference here.               *)
(*                                                                          *)
(* A byte is named by its class: "41" is any ASCII byte, "C2" any lead of   *)
(* two bytes, "E1" and "F1" the leads of three and four without limits on   *)
(* the second byte, "80", "90" and "A0" the three ranges of continuation    *)
(* bytes those limits tell apart, "FF" a byte no character contains.        *)
EXTENDS Texts

CONSTANTS Bytes,     \* the classes that occur in this reply
          MaxBytes,  \* bound on the reply
          MaxPiece   \* bound on the bytes of one token

Trail == {"80", "90", "A0"}

Need == [b \in {"41", "FF"} \union Trail |-> IF b = "41" THEN 1 ELSE 0]
        @@ [b \in {"C2"} |-> 2]
        @@ [b \in {"E0", "E1", "ED"} |-> 3]
        @@ [b \in {"F0", "F1", "F4"} |-> 4]

\* The second bytes a lead allows (lo2 and hi2).
Second(b) == CASE b = "E0" -> {"A0"}
               [] b = "ED" -> {"80", "90"}
               [] b = "F0" -> {"90", "A0"}
               [] b = "F4" -> {"80"}
               [] OTHER -> Trail

VARIABLES text,     \* every byte so far
          pending,  \* bytes not yet turned into text
          out,      \* characters sent: byte sequences, or Repl
          done

vars == <<text, pending, out, done>>

Repl == <<"U+FFFD">>

-----------------------------------------------------------------------------
\* The maximal subpart at the front of s, of a lead that needs n bytes.
Valid(s, n) == Max({k \in 1 .. Min({n, Len(s)}) :
                       \A i \in 2 .. k : s[i] \in IF i = 2 THEN Second(s[1]) ELSE Trail})

\* One round of the loop of take_utf8 at the front of s: a character or a
\* replacement, and how many bytes it takes.
Char(s) ==
    LET n == Need[s[1]] IN
    CASE n = 0 -> [char |-> Repl, len |-> 1]
      [] n > Len(s) -> [char |-> Repl, len |-> Len(s)]
      [] OTHER -> LET k == Valid(s, n)
                  IN  [char |-> IF k = n THEN Upto(s, n) ELSE Repl, len |-> k]

\* The same round of utf8_lossy: a truncated character is a maximal subpart.
LossyChar(s) ==
    LET n == Need[s[1]] IN
    IF n = 0 THEN [char |-> Repl, len |-> 1]
    ELSE LET k == Valid(s, n)
         IN  [char |-> IF k = n THEN Upto(s, n) ELSE Repl, len |-> k]

Lossy(s) ==
    LET RECURSIVE from(_)
        from(i) == IF i > Len(s) THEN <<>>
                   ELSE LET c == LossyChar(From(s, i)) IN <<c.char>> \o from(i + c.len)
    IN  from(1)

\* A character whose last byte has not come stays in the buffer.
Waits(s, final) == ~final /\ Need[s[1]] > Len(s)

\* take_utf8: the text it returns and the bytes it leaves.
Take(s, final) ==
    LET RECURSIVE from(_)
        from(i) == IF i > Len(s) \/ Waits(From(s, i), final)
                   THEN [text |-> <<>>, rest |-> From(s, i)]
                   ELSE LET c == Char(From(s, i))
                            t == from(i + c.len)
                        IN  [t EXCEPT !.text = <<c.char>> \o @]
    IN  from(1)

-----------------------------------------------------------------------------
Init == text = <<>> /\ pending = <<>> /\ out = <<>> /\ done = FALSE

\* Detokenizer::push: the bytes of one token.
Push(piece) ==
    LET t == Take(pending \o piece, FALSE) IN
    /\ ~done /\ Len(text) + Len(piece) <= MaxBytes
    /\ text' = text \o piece
    /\ out' = out \o t.text
    /\ pending' = t.rest
    /\ UNCHANGED done

\* Detokenizer::flush, after the last token.
Flush ==
    LET t == Take(pending, TRUE) IN
    /\ ~done
    /\ done' = TRUE
    /\ out' = out \o t.text
    /\ pending' = t.rest
    /\ UNCHANGED text

Pieces == BoundedSeq(Bytes, MaxPiece) \ {<<>>}

Next == (\E piece \in Pieces : Push(piece)) \/ Flush

Spec == Init /\ [][Next]_vars

-----------------------------------------------------------------------------
\* pending never holds a whole character: three bytes, at most, of one that
\* needs more.
TypeOK ==
    /\ text \in Seq(Bytes) /\ Len(text) <= MaxBytes
    /\ pending \in Seq(Bytes)
    /\ pending # <<>> => Len(pending) < Need[pending[1]]
    /\ done => pending = <<>>

\* What was sent, and what is still held, decode to the text: no cut between
\* tokens changes, drops or doubles a character.
NothingLostSoFar == ~done => out \o Lossy(pending) = Lossy(text)

\* At the end the client has the text the tokenizer decodes (take_utf8's
\* comment: "the same way the tokenizer's lossy decode does"), if the reply
\* does not end in a truncated character with other bytes behind it: the
\* stream puts one U+FFFD for all of them, the tokenizer keeps those bytes.
Ragged(s) == \E i \in 1 .. Len(s) : /\ Need[s[i]] > Len(s) - i + 1
                                    /\ Valid(From(s, i), Need[s[i]]) < Len(s) - i + 1
SameDecodeOfWhole == done /\ ~Ragged(text) => out = Lossy(text)
=============================================================================
