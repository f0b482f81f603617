----------------------------- MODULE Tokenizer -----------------------------
(* Text to tokens (encode_with_offsets, api/tokenizer.cpp): added tokens    *)
(* are cut out of the text, the pieces between them are brought to NFC,     *)
(* split into words by a hand-written form of a regular expression, and the *)
(* words merged by rank.  The prompt the engine computes, the tokens the    *)
(* transcript cache reuses and the places of checkpoints depend on it.      *)
(*                                                                          *)
(* A character is one byte, a token the characters it stands for.           *)
EXTENDS Texts

CONSTANTS
    Alphabet, MaxText,          \* the texts: all up to this length
    Ccc,                        \* combining class of each character, 0: starter
    Pairs,                      \* what composed characters decompose into
    Letters, Digits, Blanks,    \* \p{L}, \p{N} and \s
    Tables,                     \* merge tables: pairs of tokens by rank
    Added                       \* the added tokens

Breaks == {"N"}  \* \r and \n
Space  == " "

VARIABLES text, table,
          at,     \* how far the text is encoded
          spans   \* the tokens so far, with the part of the text each covers

vars == <<text, table, at, spans>>

-----------------------------------------------------------------------------
(* NFC.  A character carries the part of the text it comes from.            *)
RECURSIVE Apart(_)
Apart(x) == IF x.c \in DOMAIN Pairs
            THEN FlattenSeq([k \in 1 .. 2 |-> Apart([x EXCEPT !.c = Pairs[x.c][k]])])
            ELSE <<x>>

\* A mark moves in front of the marks of a higher class before it.
Settle(done, x) ==
    InsertAt(done, IF Ccc[x.c] = 0 THEN Len(done) + 1
                   ELSE 1 + Max({k \in 0 .. Len(done) :
                            k > 0 => Ccc[done[k].c] = 0 \/ Ccc[done[k].c] <= Ccc[x.c]}), x)
Reordered(items) == FoldLeft(Settle, <<>>, items)

\* A character joins the last starter unless what is between them blocks it.
Compose(st, x) ==
    LET joint == {c \in DOMAIN Pairs : Pairs[c] = <<st.out[st.starter].c, x.c>>}
    IN  IF st.starter > 0 /\ (st.prev = 0 \/ st.prev < Ccc[x.c]) /\ joint # {}
        THEN [st EXCEPT !.out[st.starter] = [@ EXCEPT !.c = CHOOSE c \in joint : TRUE,
                                                      !.to = x.to]]
        ELSE [out     |-> Append(st.out, x),
              starter |-> IF Ccc[x.c] = 0 THEN Len(st.out) + 1 ELSE st.starter,
              prev    |-> Ccc[x.c]]

Decomposed(items) == Reordered(FlattenSeq([k \in DOMAIN items |-> Apart(items[k])]))
Nfc(items) ==
    FoldLeft(Compose, [out |-> <<>>, starter |-> 0, prev |-> 0], Decomposed(items)).out

Items(t, i, e) == [k \in 1 .. e - i |-> [c |-> t[i + k - 1], from |-> i + k - 1, to |-> i + k]]
Plain(items) == [k \in DOMAIN items |-> items[k].c]

-----------------------------------------------------------------------------
(* Words.  "s" stands for s, t, m and d, "r" for r and v.                   *)
Run(s, i, S) == Min({k \in i .. Len(s) + 1 : k > Len(s) \/ s[k] \notin S})
Is(s, i, c)  == i <= Len(s) /\ s[i] = c

\* match_pretoken: where the word that begins at i ends.
WordEnd(s, i) ==
    LET word  == Run(s, i + 1, Letters)
        start == IF s[i] = Space THEN i + 1 ELSE i
        signs == Min({k \in start .. Len(s) + 1 :
                        k > Len(s) \/ s[k] \in Blanks \union Letters \union Digits})
        blank == Run(s, i, Blanks)
        lines == {k \in i .. blank - 1 : s[k] \in Breaks}
    IN  CASE s[i] = "'" /\ Is(s, i + 1, "s") -> i + 2
          [] s[i] = "'" /\ Is(s, i + 1, "r") /\ Is(s, i + 2, "e") -> i + 3
          [] s[i] = "'" /\ Is(s, i + 1, "l") /\ Is(s, i + 2, "l") -> i + 3
          [] OTHER ->
        CASE s[i] \in Letters -> word
          [] s[i] \in Digits -> i + 1
          [] s[i] \notin Breaks /\ word > i + 1 -> word
          [] OTHER ->
        IF signs > start THEN Run(s, signs, Breaks)
        ELSE IF lines # {} THEN Max(lines) + 1
        ELSE IF blank <= Len(s) /\ blank >= i + 2 THEN blank - 1 ELSE blank

RECURSIVE WordsFrom(_, _)
WordsFrom(s, i) == IF i > Len(s) THEN <<>>
                   ELSE <<SubSeq(s, i, WordEnd(s, i) - 1)>> \o WordsFrom(s, WordEnd(s, i))

-----------------------------------------------------------------------------
(* bpe: in each pass every pair of the best rank is merged, from the left.  *)
Ranks(tab, w) == {k \in DOMAIN tab : \E i \in 1 .. Len(w) - 1 : tab[k] = <<w[i], w[i + 1]>>}
Pass(w, pair) ==
    FoldLeft(LAMBDA done, x :
                IF done # <<>> /\ <<Last(done), x>> = pair
                THEN Append(Front(done), Last(done) \o x) ELSE Append(done, x),
             <<>>, w)
RECURSIVE Merged(_, _)
Merged(tab, w) == IF Ranks(tab, w) = {} THEN w
                  ELSE Merged(tab, Pass(w, tab[Min(Ranks(tab, w))]))
Singles(s) == [k \in DOMAIN s |-> <<s[k]>>]

-----------------------------------------------------------------------------
\* The added token that stands at i: the longest.
AddedAt(t, i) == {a \in Added : i + Len(a) - 1 <= Len(t) /\ StandsAt(a, i, t)}
PieceEnd(t, i) == Min({e \in i + 1 .. Len(t) + 1 : e > Len(t) \/ AddedAt(t, e) # {}})

Span(id, from, to) == [id |-> id, from |-> from, to |-> to]

\* The tokens of the piece of t from i to e: each begins where its first
\* character comes from and ends where the next one begins.
PieceSpans(t, i, e, tab) ==
    LET chars  == Nfc(Items(t, i, e))
        words  == WordsFrom(Plain(chars), 1)
        tokens == FlattenSeq([k \in DOMAIN words |-> Merged(tab, Singles(words[k]))])
        first(k) == 1 + FoldLeft(LAMBDA n, x : n + Len(x), 0, Upto(tokens, k - 1))
    IN  [k \in DOMAIN tokens |->
            Span(tokens[k], chars[first(k)].from,
                 IF k < Len(tokens) THEN chars[first(k + 1)].from ELSE e)]

Init == /\ text \in BoundedSeq(Alphabet, MaxText) /\ table \in Tables
        /\ at = 1 /\ spans = <<>>

TakeAdded ==
    /\ at <= Len(text) /\ AddedAt(text, at) # {}
    /\ LET a == CHOOSE a \in AddedAt(text, at) : \A b \in AddedAt(text, at) : Len(b) <= Len(a)
       IN  spans' = Append(spans, Span(a, at, at + Len(a))) /\ at' = at + Len(a)
    /\ UNCHANGED <<text, table>>

TakePiece ==
    /\ at <= Len(text) /\ AddedAt(text, at) = {}
    /\ spans' = spans \o PieceSpans(text, at, PieceEnd(text, at), table)
    /\ at' = PieceEnd(text, at)
    /\ UNCHANGED <<text, table>>

Next == TakeAdded \/ TakePiece

Spec == Init /\ [][Next]_vars

-----------------------------------------------------------------------------
(* What the words should be: the regular expression itself, matched as a    *)
(* backtracking matcher does.  Ends lists the ends of a match from i in the *)
(* order in which they are tried.                                           *)
In(S)    == [op |-> "in", set |-> S]
Seq1(R)  == [op |-> "seq", of |-> R]
Either(R) == [op |-> "or", of |-> R]
Many(r)  == [op |-> "many", of |-> r]
More(r)  == Seq1(<<r, Many(r)>>)
Maybe(r) == Either(<<r, Seq1(<<>>)>>)
NoneNext(r) == [op |-> "not", of |-> r]

RECURSIVE Ends(_, _, _)
Ends(r, s, i) ==
    LET then(q, from) == FlattenSeq([k \in DOMAIN from |-> Ends(q, s, from[k])])
    IN  CASE r.op = "in"   -> IF i <= Len(s) /\ s[i] \in r.set THEN <<i + 1>> ELSE <<>>
          [] r.op = "seq"  -> FoldLeft(LAMBDA from, q : then(q, from), <<i>>, r.of)
          [] r.op = "or"   -> FlattenSeq([k \in DOMAIN r.of |-> Ends(r.of[k], s, i)])
          [] r.op = "many" -> then(r, Ends(r.of, s, i)) \o <<i>>
          [] r.op = "not"  -> IF Ends(r.of, s, i) = <<>> THEN <<i>> ELSE <<>>

Regex ==
    LET other == Alphabet \ (Blanks \union Letters \union Digits)
    IN  Either(<<Seq1(<<In({"'"}), In({"s"})>>),
                 Seq1(<<In({"'"}), In({"r"}), In({"e"})>>),
                 Seq1(<<In({"'"}), In({"l"}), In({"l"})>>),
                 Seq1(<<Maybe(In(Alphabet \ (Breaks \union Letters \union Digits))),
                        More(In(Letters))>>),
                 In(Digits),
                 Seq1(<<Maybe(In({Space})), More(In(other)), Many(In(Breaks))>>),
                 Seq1(<<Many(In(Blanks)), More(In(Breaks))>>),
                 Seq1(<<More(In(Blanks)), NoneNext(In(Alphabet \ Blanks))>>),
                 More(In(Blanks))>>)

Done == at > Len(text)

\* The hand-written splitting is that of the regular expression, and finds a
\* word in every text.
WordsOfRegex ==
    Done /\ text # <<>> => WordEnd(text, 1) = Head(Ends(Regex, text, 1))

-----------------------------------------------------------------------------
\* Merging as training recorded it: one pair at a time, the best rank first,
\* of these the leftmost.
RECURSIVE OneByOne(_, _)
OneByOne(tab, w) ==
    IF Ranks(tab, w) = {} THEN w
    ELSE LET pair == tab[Min(Ranks(tab, w))]
             i == Min({k \in 1 .. Len(w) - 1 : <<w[k], w[k + 1]>> = pair})
         IN  OneByOne(tab, ReplaceAt(RemoveAt(w, i + 1), i, w[i] \o w[i + 1]))

\* Merging whole passes gives the same tokens.
MergedOneByOne == Done => Merged(table, Singles(text)) = OneByOne(table, Singles(text))

-----------------------------------------------------------------------------
Chars(t)  == Items(t, 1, Len(t) + 1)
Normal(t) == Plain(Nfc(Chars(t)))
Canon(t)  == Plain(Decomposed(Chars(t)))
Swapped(t, i) == ReplaceAt(ReplaceAt(t, i, t[i + 1]), i + 1, t[i])

\* Normalising loses nothing, is done once for all, and does not tell apart
\* what is canonically equivalent: marks of different classes in another
\* order, composed or not.
NormalForm == Done =>
    /\ Canon(Normal(text)) = Canon(text)
    /\ Normal(Normal(text)) = Normal(text)
    /\ \A i \in 1 .. Len(text) - 1 :
          Ccc[text[i]] * Ccc[text[i + 1]] # 0 /\ Ccc[text[i]] # Ccc[text[i + 1]]
          => Normal(Swapped(text, i)) = Normal(text)
    /\ \A i \in DOMAIN text : text[i] \in DOMAIN Pairs =>
          Normal(Upto(text, i - 1) \o Pairs[text[i]] \o From(text, i + 1)) = Normal(text)

\* The tokens decode to the text, up to normalisation.
Ids(sp) == [k \in DOMAIN sp |-> sp[k].id]
DecodesBack ==
    Done => Canon(FlattenSeq(Ids(spans))) = Canon(text)

\* The tokens tile the text, in order, if no mark had to be moved: what the
\* cuts of checkpoints are found by.
InOrder(t) == FlattenSeq([i \in DOMAIN t |-> Apart(Chars(t)[i])]) = Decomposed(Chars(t))
SpansTile ==
    InOrder(text) /\ spans # <<>> =>
        /\ spans[1].from = 1 /\ Last(spans).to = at
        /\ \A k \in 1 .. Len(spans) - 1 : spans[k].to = spans[k + 1].from
        /\ \A k \in DOMAIN spans : spans[k].from <= spans[k].to

\* All tokens of a text, as a function of the text.
RECURSIVE EncodeFrom(_, _, _)
EncodeFrom(t, i, tab) ==
    IF i > Len(t) THEN <<>>
    ELSE IF AddedAt(t, i) # {}
         THEN LET a == CHOOSE a \in AddedAt(t, i) : \A b \in AddedAt(t, i) : Len(b) <= Len(a)
              IN  <<a>> \o EncodeFrom(t, i + Len(a), tab)
         ELSE Ids(PieceSpans(t, i, PieceEnd(t, i), tab)) \o EncodeFrom(t, PieceEnd(t, i), tab)

\* Behind an added token encoding begins anew: the tokens of the text are
\* those of its front and those of the rest, encoded each by itself, which is
\* why the transcript cache may reuse the front.
AddedTokensSplit ==
    Done => \A k \in DOMAIN spans : spans[k].id \in Added =>
        EncodeFrom(text, 1, table) =
            Ids(Upto(spans, k)) \o EncodeFrom(From(text, spans[k].to), 1, table)
=============================================================================
