------------------------------- MODULE Texts -------------------------------
(* Searching and trimming in texts, which are sequences of symbols.  The    *)
(* server does this with std::string::find, compare, back and pop_back.     *)
EXTENDS Integers, Sequences, SequencesExt, FiniteSetsExt

\* p stands in t at position i.
StandsAt(p, i, t) == SubSeq(t, i, i + Len(p) - 1) = p

Places(P, t) == {i \in 1 .. Len(t) : \E p \in P : i + Len(p) - 1 <= Len(t)
                                                 /\ StandsAt(p, i, t)}

\* The first place in t where a member of P stands, 0 if there is none.
FirstOf(P, t) == LET at == Places(P, t) IN IF at = {} THEN 0 ELSE Min(at)

Occurs(P, t) == Places(P, t) # {}

From(t, i) == SubSeq(t, i, Len(t))
Upto(t, i) == SubSeq(t, 1, i)

\* How much of the first n symbols is left when the members of S at their
\* end are dropped, and the position of the first symbol after n not in S.
TrimmedTo(t, n, S) == Max({i \in 0 .. n : i > 0 => t[i] \notin S})
SkippedTo(t, n, S) == Min({i \in n .. Len(t) : i = Len(t) \/ t[i + 1] \notin S})

\* The longest proper prefix of p that t ends with.
PartialTail(p, t) == Max({n \in 0 .. Min({Len(t), Len(p) - 1}) :
                              From(t, Len(t) - n + 1) = Upto(p, n)})
=============================================================================
