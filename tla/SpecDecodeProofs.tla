-------------------------- MODULE SpecDecodeProofs --------------------------
(* Facts about SpecDecode for every loop, text, ring and length of drafts.  *)
EXTENDS SpecDecode, SequenceTheorems, WellFoundedInduction, TLAPS

(* No text has a token to pause at.                                         *)
NoPauses == \A k \in Kinds : \A t \in DOMAIN k : k[t] # "ckpt"

Unpaused == \A t \in DOMAIN kind : kind[t] # "ckpt"

(* What spec_loop needs to stay in the context, since it does not look at   *)
(* its end: no new budget after a pause, or room for it behind the last     *)
(* token.                                                                   *)
RoomBehind == Loop = "spec" => NoPauses \/ Prompt + MaxTokens + Gamma <= MaxCtx

IsModel(x) ==
    /\ DOMAIN x = {"chist", "S", "kv", "mtp", "mtpPos", "pos", "ring", "R"}
    /\ x.chist \in Seq(Nat) /\ x.S \in Seq(Nat) /\ x.kv \in Seq(Nat) /\ x.mtp \in Seq(Nat)
    /\ x.mtpPos \in Nat /\ x.pos \in Nat /\ x.R \in Nat
    /\ DOMAIN x.ring = 0 .. Ring - 1

(* The model is in the state of exactly its text.                           *)
OfText(x) ==
    /\ IsModel(x) /\ Intact(x) /\ x.R = x.pos
    /\ Len(x.chist) = x.pos /\ Right(x.chist, x.pos)

(* What is left to verify fits in the budget and in the context.            *)
DraftFits ==
    /\ draft.len \in Nat \ {0} /\ draft.right \in 0 .. draft.len
    /\ draft.len <= Gen - n - 1 /\ draft.len <= MaxCtx - m.pos - 1

DecodeInv ==
    /\ kind \in Kinds
    /\ pc \in {"first", "round", "chunk", "pause", "over"}
    /\ why \in {"", "done", "length", "cancel", "dead"} /\ (why = "" <=> pc # "over")
    /\ n \in 0 .. Gen + 1 /\ reach \in Nat
    /\ OfText(m) /\ cur = m.pos + 1 /\ m.pos >= Prompt
    /\ MtpInStep
    /\ sent \in Seq(Nat) /\ Len(sent) <= MaxTokens
    /\ Len(sent) \in {m.pos - Prompt, m.pos - Prompt + 1}
    /\ pc = "first" => n = 0 /\ m.pos = Prompt /\ sent = <<>>
    /\ pc \in {"round", "chunk"} =>
           /\ Len(sent) = m.pos - Prompt + 1
           /\ n <= m.pos - Prompt
           /\ Unpaused => n = m.pos - Prompt
    /\ pc = "chunk" => DraftFits /\ Loop # "spec"
    /\ pc = "pause" =>
           KindOf(cur) = "ckpt" /\ Len(sent) = m.pos - Prompt /\ Len(sent) < MaxTokens
    /\ WithinBudget
    /\ RoomBehind => WithinContext

-----------------------------------------------------------------------------
(* Extremes of sets of numbers, and positions that share a slot.            *)

LEMMA MaxIs ==
    ASSUME NEW S \in SUBSET Int, NEW x \in S, \A y \in S : y <= x
    PROVE  Max(S) = x
<1>1. Max(S) \in S /\ \A y \in S : Max(S) >= y
  BY DEF Max
<1>2. Max(S) \in Int /\ Max(S) >= x /\ Max(S) <= x
  BY <1>1
<1> QED
  BY <1>2

LEMMA MinIs ==
    ASSUME NEW S \in SUBSET Int, NEW x \in S, \A y \in S : x <= y
    PROVE  Min(S) = x
<1>1. Min(S) \in S /\ \A y \in S : Min(S) <= y
  BY DEF Min
<1>2. Min(S) \in Int /\ Min(S) <= x /\ x <= Min(S)
  BY <1>1
<1> QED
  BY <1>2

LEMMA MaxOfTwo ==
    ASSUME NEW a \in Int, NEW b \in Int
    PROVE  Max({a, b}) = IF a <= b THEN b ELSE a
<1>1. CASE a <= b
  BY <1>1, MaxIs
<1>2. CASE b < a
  BY <1>2, MaxIs
<1> QED
  BY <1>1, <1>2

LEMMA MinOfTwo ==
    ASSUME NEW a \in Int, NEW b \in Int
    PROVE  Min({a, b}) = IF a <= b THEN a ELSE b
<1>1. CASE a <= b
  BY <1>1, MinIs
<1>2. CASE b < a
  BY <1>2, MinIs
<1> QED
  BY <1>1, <1>2

LEMMA MinOfThree ==
    ASSUME NEW a \in Int, NEW b \in Int, NEW c \in Int
    PROVE  /\ Min({a, b, c}) \in {a, b, c}
           /\ Min({a, b, c}) <= a /\ Min({a, b, c}) <= b /\ Min({a, b, c}) <= c
<1>1. CASE a <= b /\ a <= c
  BY <1>1, MinIs, Min({a, b, c}) = a
<1>2. CASE b <= a /\ b <= c
  BY <1>2, MinIs, Min({a, b, c}) = b
<1>3. CASE c <= a /\ c <= b
  BY <1>3, MinIs, Min({a, b, c}) = c
<1> QED
  BY <1>1, <1>2, <1>3

LEMMA MinOfNaturals ==
    ASSUME NEW S \in SUBSET Nat, S # {}
    PROVE  Min(S) \in S /\ \A y \in S : Min(S) <= y
<1>1. PICK x \in S : \A y \in S : ~ (<<y, x>> \in OpToRel(<, Nat))
  BY WFMin, NatLessThanWellFounded, Zenon
<1>2. \A y \in S : ~ (y < x)
  BY <1>1 DEF OpToRel
<1>3. \A y \in S : x <= y
  BY <1>2
<1> QED
  BY <1>3, MinIs

(* Two positions with the same slot are a ring apart.                       *)
LEMMA SameSlot ==
    ASSUME NEW r \in Nat \ {0}, NEW a \in Nat, NEW b \in Nat, a < b, a % r = b % r
    PROVE  a <= b - r
<1> DEFINE p == a \div r
           q == b \div r
<1>1. /\ p \in Nat /\ a = r * p + (a % r)
      /\ q \in Nat /\ b = r * q + (b % r)
  <2>1. \A x \in Nat : x \div r \in Nat /\ x = r * (x \div r) + (x % r)
    OBVIOUS
  <2> QED
    BY <2>1
<1>2. a % r \in Nat /\ b % r \in Nat
  OBVIOUS
<1>3. r * p < r * q
  BY <1>1, <1>2
<1>4. p < q
  BY <1>1, <1>3
<1>5. r * (p + 1) <= r * q
  BY <1>1, <1>4
<1>6. r * (p + 1) = r * p + r
  BY <1>1
<1> QED
  BY <1>1, <1>2, <1>5, <1>6

-----------------------------------------------------------------------------
(* The model: ingesting rows and taking them back.                          *)

LEMMA RingFacts == Ring \in Nat \ {0} /\ Gamma \in Nat \ {0} /\ Gamma < Ring
BY DecodeAssumption DEF DecodeAssumption

LEMMA RingApart == \A a, b \in Nat : a < b /\ a % Ring = b % Ring => a <= b - Ring
BY RingFacts, SameSlot

(* Rows that continue a right text leave it right.                          *)
LEMMA PutIsRight ==
    ASSUME NEW s \in Seq(Nat), NEW rows \in Seq(Nat), NEW p \in Nat, Right(s, p),
           NEW k \in 0 .. Len(rows), \A i \in 1 .. k : rows[i] = p + i
    PROVE  Put(s, p, rows) \in Seq(Nat) /\ Right(Put(s, p, rows), p + k)
<1> DEFINE l == Max({Len(s), p + Len(rows)})
<1>01. Len(s) \in Nat /\ Len(rows) \in Nat
  BY LenProperties
<1>02. l = IF Len(s) <= p + Len(rows) THEN p + Len(rows) ELSE Len(s)
  <2>1. Len(s) \in Int /\ p + Len(rows) \in Int
    BY <1>01
  <2> QED
    BY <2>1, MaxOfTwo
<1>03. Put(s, p, rows) = [i \in 1 .. l |->
                            IF i \in p + 1 .. p + Len(rows) THEN rows[i - p] ELSE s[i]]
  BY DEF Put
<1> HIDE DEF l
<1>1. l \in Nat /\ l >= Len(s) /\ l >= p + Len(rows)
  BY <1>01, <1>02
<1>2. \A i \in 1 .. l : i \in p + 1 .. p + Len(rows) => i - p \in 1 .. Len(rows)
  OBVIOUS
<1>3. \A i \in 1 .. l :
          (IF i \in p + 1 .. p + Len(rows) THEN rows[i - p] ELSE s[i]) \in Nat
  <2>1. \A i \in 1 .. l : i \notin p + 1 .. p + Len(rows) => i \in 1 .. Len(s)
    BY <1>01, <1>02 DEF Right
  <2> QED
    BY <1>2, <2>1, ElementOfSeq
<1>4. Put(s, p, rows) \in Seq(Nat) /\ Len(Put(s, p, rows)) = l
  <2> DEFINE f == [i \in 1 .. l |->
                      IF i \in p + 1 .. p + Len(rows) THEN rows[i - p] ELSE s[i]]
  <2>1. f \in [1 .. l -> Nat]
    BY <1>3
  <2> HIDE DEF f
  <2>2. f \in Seq(Nat) /\ Len(f) = l
    BY <1>1, <2>1
  <2> QED
    BY <1>03, <2>2 DEF f
<1>5. \A i \in 1 .. p + k : Put(s, p, rows)[i] = i
  <2> TAKE i \in 1 .. p + k
  <2>1. i \in 1 .. l
    BY <1>1
  <2>2. Put(s, p, rows)[i] = IF i \in p + 1 .. p + Len(rows) THEN rows[i - p] ELSE s[i]
    BY <1>03, <2>1
  <2>3. CASE i <= p
    BY <2>2, <2>3 DEF Right
  <2>4. CASE i > p
    <3>1. i - p \in 1 .. k /\ i \in p + 1 .. p + Len(rows)
      BY <2>4
    <3> QED
      BY <2>2, <3>1
  <2> QED
    BY <2>3, <2>4
<1>6. p + k <= l
  BY <1>1, LenProperties
<1> QED
  BY <1>4, <1>5, <1>6 DEF Right

(* What the rings hold, without the extreme in the definition.              *)
RingHolds(ring, p) == \A t \in 1 .. p : t > p - Ring => ring[t % Ring] = t

LEMMA IntactMeans ==
    ASSUME NEW x, x.pos \in Nat
    PROVE  Intact(x) <=> /\ Len(x.S) = x.pos /\ Right(x.S, x.pos) /\ Right(x.kv, x.pos)
                         /\ RingHolds(x.ring, x.pos)
<1>1. Max({1, x.pos - Ring + 1}) = IF 1 <= x.pos - Ring + 1 THEN x.pos - Ring + 1 ELSE 1
  BY MaxOfTwo, RingFacts
<1>2. Max({1, x.pos - Ring + 1}) .. x.pos = {t \in 1 .. x.pos : t > x.pos - Ring}
  BY <1>1, RingFacts
<1> QED
  BY <1>2 DEF Intact, RingHolds

LEMMA IngestedFields ==
    ASSUME NEW x, IsModel(x), NEW rows \in Seq(Nat)
    PROVE  LET y == Ingested(x, rows)
           IN  /\ DOMAIN y = DOMAIN x
               /\ y.chist = x.chist \o rows /\ y.S = x.S \o rows
               /\ y.pos = x.pos + Len(rows) /\ y.R = x.pos + Len(rows)
               /\ y.kv = Put(x.kv, x.pos, rows) /\ y.ring = Slots(x.ring, x.pos, rows)
               /\ y.mtp = x.mtp /\ y.mtpPos = x.mtpPos
BY DEF IsModel, Ingested

(* A text that is continued.                                                *)
LEMMA ConcatIsRight ==
    ASSUME NEW s \in Seq(Nat), NEW rows \in Seq(Nat), NEW p \in Nat, Right(s, p), Len(s) = p,
           NEW k \in 0 .. Len(rows), \A i \in 1 .. k : rows[i] = p + i
    PROVE  /\ s \o rows \in Seq(Nat) /\ Len(s \o rows) = p + Len(rows)
           /\ Right(s \o rows, p + k)
<1>1. /\ s \o rows \in Seq(Nat) /\ Len(s \o rows) = p + Len(rows)
      /\ \A i \in 1 .. p + Len(rows) :
            (s \o rows)[i] = IF i <= p THEN s[i] ELSE rows[i - p]
  BY ConcatProperties
<1>2. \A i \in 1 .. p + k : (s \o rows)[i] = i
  <2> TAKE i \in 1 .. p + k
  <2>1. CASE i <= p
    BY <1>1, <2>1 DEF Right
  <2>2. CASE i > p
    <3>1. i - p \in 1 .. k /\ i \in p + 1 .. p + Len(rows)
      BY <2>2
    <3> QED
      BY <1>1, <3>1
  <2> QED
    BY <2>1, <2>2
<1> QED
  BY <1>1, <1>2 DEF Right

LEMMA PrefixIsRight ==
    ASSUME NEW s \in Seq(Nat), NEW k \in 0 .. Len(s), Right(s, k)
    PROVE  /\ SubSeq(s, 1, k) \in Seq(Nat) /\ Len(SubSeq(s, 1, k)) = k
           /\ Right(SubSeq(s, 1, k), k)
BY SubSeqProperties DEF Right

(* A ring in which the next tokens of the text are put.                     *)
LEMMA RingIngests ==
    ASSUME NEW ring, NEW p \in Nat, RingHolds(ring, p), NEW rows \in Seq(Nat),
           NEW l \in Nat, l = Len(rows), \A i \in 1 .. l : rows[i] = p + i
    PROVE  RingHolds(Slots(ring, p, rows), p + l)
<1> SUFFICES ASSUME NEW t \in 1 .. p + l, t > p + l - Ring
             PROVE  Slots(ring, p, rows)[t % Ring] = t
  BY RingFacts DEF RingHolds
<1> DEFINE I == {i \in 1 .. l : (p + i) % Ring = t % Ring}
<1>1. t % Ring \in 0 .. Ring - 1
  BY RingFacts
<1>2. Slots(ring, p, rows)[t % Ring] = IF I = {} THEN ring[t % Ring] ELSE rows[Max(I)]
  BY <1>1 DEF Slots
<1>3. ASSUME NEW i \in 1 .. l, (p + i) % Ring = t % Ring PROVE p + i <= t
  <2> SUFFICES ASSUME t < p + i PROVE FALSE
    OBVIOUS
  <2>1. p + i \in Nat
    OBVIOUS
  <2>2. t \in Nat
    OBVIOUS
  <2>3. t <= (p + i) - Ring
    BY <1>3, <2>1, <2>2, RingApart
  <2> QED
    BY <2>3, RingFacts
<1>4. CASE t > p
  <2>1. t - p \in I
    BY <1>4
  <2>2. \A i \in I : i <= t - p
    BY <1>3
  <2>3. Max(I) = t - p
    <3>1. I \in SUBSET Int
      OBVIOUS
    <3> HIDE DEF I
    <3> QED
      BY <2>1, <2>2, <3>1, MaxIs
  <2>4. rows[t - p] = t
    BY <2>1
  <2> QED
    BY <1>2, <2>1, <2>3, <2>4
<1>5. CASE t <= p
  <2>1. I = {}
    BY <1>3, <1>5
  <2>2. ring[t % Ring] = t
    BY <1>5, RingFacts DEF RingHolds
  <2> QED
    BY <1>2, <2>1, <2>2
<1> QED
  BY <1>4, <1>5

(* The ring after a pass over g + 1 rows of which d + 1 were right, with    *)
(* the slots of the others from before the pass.                            *)
LEMMA RingRollsBack ==
    ASSUME NEW ring, NEW p \in Nat, RingHolds(ring, p), NEW rows \in Seq(Nat),
           NEW g \in Nat, NEW d \in 0 .. g, Len(rows) = g + 1, g + 1 <= Ring,
           \A i \in 1 .. d + 1 : rows[i] = p + i,
           NEW back,
           back = [j \in 0 .. Ring - 1 |->
                      IF \E t \in p + d + 1 + 1 .. p + g + 1 : t % Ring = j
                      THEN ring[j] ELSE Slots(ring, p, rows)[j]]
    PROVE  RingHolds(back, p + d + 1)
<1> SUFFICES \A t \in 1 .. p + d + 1 : t > (p + d + 1) - Ring => back[t % Ring] = t
  BY Zenon DEF RingHolds
<1> TAKE t \in 1 .. p + d + 1
<1> HAVE t > (p + d + 1) - Ring
<1>1. t % Ring \in 0 .. Ring - 1
  BY RingFacts
<1>2. CASE \E u \in p + d + 1 + 1 .. p + g + 1 : u % Ring = t % Ring
  <2>1. PICK u \in p + d + 1 + 1 .. p + g + 1 : u % Ring = t % Ring
    BY <1>2
  <2>2. u \in Nat /\ t \in Nat /\ t < u
    OBVIOUS
  <2>3. t <= u - Ring
    BY <2>1, <2>2, RingApart
  <2>4. t <= p /\ t > p - Ring
    BY <2>3, RingFacts
  <2>5. ring[t % Ring] = t
    BY <2>4 DEF RingHolds
  <2> QED
    BY <1>1, <1>2, <2>5
<1>3. CASE ~ \E u \in p + d + 1 + 1 .. p + g + 1 : u % Ring = t % Ring
  <2> DEFINE I == {i \in 1 .. Len(rows) : (p + i) % Ring = t % Ring}
  <2>1. back[t % Ring] = IF I = {} THEN ring[t % Ring] ELSE rows[Max(I)]
    <3>1. back[t % Ring] = Slots(ring, p, rows)[t % Ring]
      BY <1>1, <1>3
    <3> QED
      BY <1>1, <3>1 DEF Slots
  <2>2. ASSUME NEW i \in 1 .. g + 1, (p + i) % Ring = t % Ring
        PROVE  i \in 1 .. d + 1 /\ p + i <= t
    <3>1. i \in 1 .. d + 1
      <4>1. p + i \notin p + d + 1 + 1 .. p + g + 1
        BY <1>3, <2>2
      <4> QED
        BY <4>1
    <3>2. ASSUME t < p + i PROVE FALSE
      <4>1. p + i \in Nat
        OBVIOUS
      <4>2. t \in Nat
        OBVIOUS
      <4>3. t <= (p + i) - Ring
        BY <2>2, <3>2, <4>1, <4>2, RingApart
      <4> QED
        BY <3>1, <4>3, RingFacts
    <3> QED
      BY <3>1, <3>2
  <2>3. CASE t > p
    <3>1. t - p \in I /\ t - p \in 1 .. d + 1
      BY <2>3
    <3>2. \A i \in I : i <= t - p
      BY <2>2
    <3>3. Max(I) = t - p
      <4>1. I \in SUBSET Int
        OBVIOUS
      <4> HIDE DEF I
      <4> QED
        BY <3>1, <3>2, <4>1, MaxIs
    <3>4. rows[t - p] = t
      BY <3>1
    <3> QED
      BY <2>1, <3>1, <3>3, <3>4
  <2>4. CASE t <= p
    <3>1. I = {}
      <4> SUFFICES ASSUME NEW i \in I PROVE FALSE
        OBVIOUS
      <4>1. p + i <= t
        BY <2>2
      <4> QED
        BY <2>4, <4>1
    <3>2. ring[t % Ring] = t
      BY <2>4, RingFacts DEF RingHolds
    <3> QED
      BY <2>1, <3>1, <3>2
  <2> QED
    BY <2>3, <2>4
<1> QED
  BY <1>2, <1>3

(* Ingesting the next tokens of the text.                                   *)
LEMMA IngestKeepsText ==
    ASSUME NEW x, OfText(x), NEW rows \in Seq(Nat),
           \A i \in 1 .. Len(rows) : rows[i] = x.pos + i
    PROVE  LET y == Ingested(x, rows)
           IN  OfText(y) /\ y.pos = x.pos + Len(rows) /\ y.mtp = x.mtp
<1> DEFINE y == Ingested(x, rows)
           l == Len(rows)
<1>1. IsModel(x) /\ x.pos \in Nat /\ l \in Nat /\ l \in 0 .. Len(rows)
  BY LenProperties DEF OfText, IsModel
<1>2. /\ Len(x.chist) = x.pos /\ Right(x.chist, x.pos)
      /\ Len(x.S) = x.pos /\ Right(x.S, x.pos) /\ Right(x.kv, x.pos)
      /\ RingHolds(x.ring, x.pos)
  BY <1>1, IntactMeans DEF OfText
<1>3. x.chist \in Seq(Nat) /\ x.S \in Seq(Nat) /\ x.kv \in Seq(Nat) /\ x.pos \in Nat
  BY <1>1 DEF IsModel
<1>4. /\ x.chist \o rows \in Seq(Nat) /\ Len(x.chist \o rows) = x.pos + l
      /\ Right(x.chist \o rows, x.pos + l)
  BY <1>1, <1>2, <1>3, ConcatIsRight
<1>5. /\ x.S \o rows \in Seq(Nat) /\ Len(x.S \o rows) = x.pos + l
      /\ Right(x.S \o rows, x.pos + l)
  BY <1>1, <1>2, <1>3, ConcatIsRight
<1>6. /\ Put(x.kv, x.pos, rows) \in Seq(Nat)
      /\ Right(Put(x.kv, x.pos, rows), x.pos + l)
  BY <1>1, <1>2, <1>3, PutIsRight
<1>7. RingHolds(Slots(x.ring, x.pos, rows), x.pos + l)
  BY <1>1, <1>2, <1>3, RingIngests
<1>8. DOMAIN Slots(x.ring, x.pos, rows) = 0 .. Ring - 1
  BY DEF Slots
<1>9. x.pos + l \in Nat
  BY <1>1
<1>10. /\ DOMAIN y = DOMAIN x
       /\ y.chist = x.chist \o rows /\ y.S = x.S \o rows
       /\ y.pos = x.pos + l /\ y.R = x.pos + l
       /\ y.kv = Put(x.kv, x.pos, rows) /\ y.ring = Slots(x.ring, x.pos, rows)
       /\ y.mtp = x.mtp /\ y.mtpPos = x.mtpPos
  BY <1>1, IngestedFields
<1> HIDE DEF y, l
<1>11. IsModel(y) /\ y.pos \in Nat
  BY <1>1, <1>4, <1>5, <1>6, <1>8, <1>9, <1>10 DEF IsModel
<1>12. Intact(y)
  BY <1>5, <1>6, <1>7, <1>10, <1>11, IntactMeans
<1>13. OfText(y)
  BY <1>4, <1>10, <1>11, <1>12 DEF OfText
<1> QED
  BY <1>10, <1>13 DEF y, l

LEMMA RolledBackFields ==
    ASSUME NEW x, NEW y, NEW d, NEW g, IsModel(x), IsModel(y)
    PROVE  LET z == RolledBack(x, y, d, g)
               k == x.pos + d + 1
           IN  /\ DOMAIN z = DOMAIN y
               /\ z.chist = SubSeq(y.chist, 1, Len(x.chist) + d + 1)
               /\ z.S = SubSeq(y.S, 1, k) /\ z.pos = k /\ z.R = k /\ z.kv = y.kv
               /\ z.mtp = y.mtp /\ z.mtpPos = y.mtpPos
               /\ z.ring = [j \in DOMAIN y.ring |->
                               IF \E t \in k + 1 .. x.pos + g + 1 : t % Ring = j
                               THEN x.ring[j] ELSE y.ring[j]]
BY DEF IsModel, RolledBack

(* Taking back the rows of a pass behind its first d + 1, which were right. *)
LEMMA RollBackKeepsText ==
    ASSUME NEW x, OfText(x), NEW rows \in Seq(Nat), NEW g \in Nat, NEW d \in 0 .. g,
           Len(rows) = g + 1, g + 1 <= Ring,
           \A i \in 1 .. d + 1 : rows[i] = x.pos + i
    PROVE  LET z == RolledBack(x, Ingested(x, rows), d, g)
           IN  OfText(z) /\ z.pos = x.pos + d + 1 /\ z.mtp = x.mtp
<1> DEFINE y == Ingested(x, rows)
           z == RolledBack(x, y, d, g)
           p == x.pos
           k == p + d + 1
           e == d + 1
<1>1. IsModel(x) /\ p \in Nat /\ e \in 0 .. Len(rows) /\ e \in Nat
  BY DEF OfText, IsModel
<1>2. /\ Len(x.chist) = p /\ Right(x.chist, p)
      /\ Len(x.S) = p /\ Right(x.S, p) /\ Right(x.kv, p) /\ RingHolds(x.ring, p)
  BY <1>1, IntactMeans DEF OfText
<1>3. x.chist \in Seq(Nat) /\ x.S \in Seq(Nat) /\ x.kv \in Seq(Nat) /\ p \in Nat
  BY <1>1 DEF IsModel
<1>4. /\ DOMAIN y = DOMAIN x
      /\ y.chist = x.chist \o rows /\ y.S = x.S \o rows
      /\ y.pos = p + Len(rows) /\ y.R = p + Len(rows)
      /\ y.kv = Put(x.kv, p, rows) /\ y.ring = Slots(x.ring, p, rows)
      /\ y.mtp = x.mtp /\ y.mtpPos = x.mtpPos
  BY <1>1, IngestedFields
<1>5. RingHolds([j \in 0 .. Ring - 1 |->
                    IF \E t \in k + 1 .. p + g + 1 : t % Ring = j
                    THEN x.ring[j] ELSE Slots(x.ring, p, rows)[j]], k)
  BY <1>2, <1>3, RingRollsBack
<1>6. \A i \in 1 .. e : rows[i] = p + i
  OBVIOUS
<1>7. k = p + e /\ k \in Nat /\ p + Len(rows) \in Nat /\ k \in 0 .. p + Len(rows)
  BY <1>1
<1> HIDE DEF y, p, e, k
<1>8. /\ x.chist \o rows \in Seq(Nat) /\ Len(x.chist \o rows) = p + Len(rows)
      /\ Right(x.chist \o rows, p + e)
  BY <1>1, <1>2, <1>3, <1>6, ConcatIsRight
<1>9. /\ x.S \o rows \in Seq(Nat) /\ Len(x.S \o rows) = p + Len(rows)
      /\ Right(x.S \o rows, p + e)
  BY <1>1, <1>2, <1>3, <1>6, ConcatIsRight
<1>10. /\ Put(x.kv, p, rows) \in Seq(Nat)
       /\ Right(Put(x.kv, p, rows), p + e)
  BY <1>1, <1>2, <1>3, <1>6, PutIsRight
<1>11. DOMAIN Slots(x.ring, p, rows) = 0 .. Ring - 1
  BY DEF Slots
<1>12. IsModel(y)
  BY <1>1, <1>4, <1>7, <1>8, <1>9, <1>10, <1>11 DEF IsModel
<1>13. /\ DOMAIN z = DOMAIN y
       /\ z.chist = SubSeq(y.chist, 1, k)
       /\ z.S = SubSeq(y.S, 1, k) /\ z.pos = k /\ z.R = k /\ z.kv = y.kv
       /\ z.mtp = y.mtp /\ z.mtpPos = y.mtpPos
       /\ z.ring = [j \in DOMAIN y.ring |->
                       IF \E t \in k + 1 .. p + g + 1 : t % Ring = j
                       THEN x.ring[j] ELSE y.ring[j]]
  <2>1. /\ DOMAIN z = DOMAIN y
        /\ z.chist = SubSeq(y.chist, 1, Len(x.chist) + d + 1)
        /\ z.S = SubSeq(y.S, 1, x.pos + d + 1) /\ z.kv = y.kv
        /\ z.pos = x.pos + d + 1 /\ z.R = x.pos + d + 1
        /\ z.mtp = y.mtp /\ z.mtpPos = y.mtpPos
        /\ z.ring = [j \in DOMAIN y.ring |->
                        IF \E t \in x.pos + d + 1 + 1 .. x.pos + g + 1 : t % Ring = j
                        THEN x.ring[j] ELSE y.ring[j]]
    BY <1>1, <1>12, RolledBackFields
  <2>2. Len(x.chist) + d + 1 = k
    BY <1>2 DEF k
  <2> QED
    BY <2>1, <2>2 DEF p, k
<1> HIDE DEF z
<1>14. /\ z.chist \in Seq(Nat) /\ Len(z.chist) = k /\ Right(z.chist, k)
       /\ z.S \in Seq(Nat) /\ Len(z.S) = k /\ Right(z.S, k)
  <2>1. k \in 0 .. Len(y.chist) /\ k \in 0 .. Len(y.S)
    BY <1>4, <1>7, <1>8, <1>9
  <2>2. Right(y.chist, k) /\ Right(y.S, k) /\ y.chist \in Seq(Nat) /\ y.S \in Seq(Nat)
    BY <1>4, <1>7, <1>8, <1>9
  <2>3. /\ SubSeq(y.chist, 1, k) \in Seq(Nat) /\ Len(SubSeq(y.chist, 1, k)) = k
        /\ Right(SubSeq(y.chist, 1, k), k)
    BY <2>1, <2>2, PrefixIsRight
  <2>4. /\ SubSeq(y.S, 1, k) \in Seq(Nat) /\ Len(SubSeq(y.S, 1, k)) = k
        /\ Right(SubSeq(y.S, 1, k), k)
    BY <2>1, <2>2, PrefixIsRight
  <2> QED
    BY <1>13, <2>3, <2>4
<1>15. RingHolds(z.ring, k) /\ DOMAIN z.ring = 0 .. Ring - 1
  <2>1. y.ring = Slots(x.ring, p, rows) /\ DOMAIN y.ring = 0 .. Ring - 1
    BY <1>4, <1>11
  <2>2. z.ring = [j \in 0 .. Ring - 1 |->
                     IF \E t \in k + 1 .. p + g + 1 : t % Ring = j
                     THEN x.ring[j] ELSE Slots(x.ring, p, rows)[j]]
    BY <1>13, <2>1, Zenon
  <2> QED
    BY <1>5, <2>2
<1>16. IsModel(z) /\ z.pos \in Nat
  BY <1>7, <1>12, <1>13, <1>14, <1>15 DEF IsModel
<1>17. Intact(z)
  <2>1. Len(z.S) = z.pos /\ Right(z.S, z.pos) /\ RingHolds(z.ring, z.pos)
    BY <1>13, <1>14, <1>15, Zenon
  <2>2. Right(z.kv, z.pos)
    BY <1>4, <1>7, <1>10, <1>13, Zenon
  <2> QED
    BY <1>16, <2>1, <2>2, IntactMeans
<1>18. OfText(z)
  BY <1>13, <1>14, <1>16, <1>17 DEF OfText
<1>19. z.pos = x.pos + d + 1 /\ z.mtp = x.mtp
  BY <1>4, <1>13 DEF k, p
<1> QED
  BY <1>18, <1>19 DEF y, z

(* Ingesting the first d + 1 rows of a pass once more.                      *)
LEMMA ReplayKeepsText ==
    ASSUME NEW x, OfText(x), NEW rows \in Seq(Nat), NEW d \in Nat, d + 1 <= Len(rows),
           \A i \in 1 .. d + 1 : rows[i] = x.pos + i
    PROVE  LET z == Replayed(x, Ingested(x, rows), SubSeq(rows, 1, d + 1))
           IN  OfText(z) /\ z.pos = x.pos + d + 1 /\ z.mtp = x.mtp
<1> DEFINE kv == Put(x.kv, x.pos, rows)
           y == [x EXCEPT !.kv = kv]
           again == SubSeq(rows, 1, d + 1)
<1>1. IsModel(x) /\ x.pos \in Nat /\ x.kv \in Seq(Nat)
  BY DEF OfText, IsModel
<1>2. /\ Len(x.S) = x.pos /\ Right(x.S, x.pos) /\ Right(x.kv, x.pos)
      /\ RingHolds(x.ring, x.pos)
  BY <1>1, IntactMeans DEF OfText
<1>3. kv \in Seq(Nat) /\ Right(kv, x.pos)
  <2>1. 0 \in 0 .. Len(rows) /\ \A i \in 1 .. 0 : rows[i] = x.pos + i
    BY LenProperties
  <2>2. x.pos \in Nat /\ x.pos + 0 = x.pos
    BY <1>1
  <2> QED
    BY <1>1, <1>2, <2>1, <2>2, PutIsRight
<1>4. Ingested(x, rows).kv = kv
  BY <1>1, IngestedFields
<1> HIDE DEF kv
<1>5. /\ DOMAIN y = DOMAIN x /\ y.kv = kv /\ y.chist = x.chist /\ y.S = x.S
      /\ y.mtp = x.mtp /\ y.mtpPos = x.mtpPos /\ y.pos = x.pos /\ y.ring = x.ring
      /\ y.R = x.R
  BY <1>1 DEF IsModel
<1> HIDE DEF y
<1>6. OfText(y)
  <2>1. IsModel(y)
    BY <1>1, <1>3, <1>5 DEF IsModel
  <2>2. Intact(y)
    BY <1>1, <1>2, <1>3, <1>5, IntactMeans
  <2> QED
    BY <1>5, <2>1, <2>2 DEF OfText
<1>7. /\ again \in Seq(Nat) /\ Len(again) = d + 1
      /\ \A i \in 1 .. d + 1 : again[i] = rows[i]
  <2>1. \A i \in 1 .. d + 1 : rows[i] \in Nat
    BY ElementOfSeq, LenProperties
  <2> QED
    BY <2>1, SubSeqProperties
<1> HIDE DEF again
<1>8. \A i \in 1 .. Len(again) : again[i] = y.pos + i
  BY <1>5, <1>7
<1>9. /\ OfText(Ingested(y, again)) /\ Ingested(y, again).pos = y.pos + Len(again)
      /\ Ingested(y, again).mtp = y.mtp
  BY <1>6, <1>7, <1>8, IngestKeepsText
<1>10. Replayed(x, Ingested(x, rows), SubSeq(rows, 1, d + 1)) = Ingested(y, again)
  BY <1>4 DEF Replayed, y, again
<1>11. y.pos + Len(again) = x.pos + d + 1
  <2>1. y.pos \in Nat /\ y.pos = x.pos /\ Len(again) = d + 1
    BY <1>1, <1>5, <1>7
  <2>2. \A p \in Nat : p + (d + 1) = p + d + 1
    OBVIOUS
  <2> QED
    BY <2>1, <2>2
<1> QED
  BY <1>5, <1>9, <1>10, <1>11

(* MTP rows leave the text alone; those of right tokens continue its rows.  *)
LEMMA PatchKeepsText ==
    ASSUME NEW x, OfText(x), NEW p \in Nat, Right(x.mtp, p), NEW rows \in Seq(Nat),
           NEW k \in 0 .. Len(rows), \A i \in 1 .. k : rows[i] = p + i
    PROVE  LET z == MtpPatched(x, p + 1, rows)
           IN  /\ OfText(z) /\ z.pos = x.pos /\ z.mtpPos = p + Len(rows)
               /\ Right(z.mtp, p + k)
<1> DEFINE mtp == Put(x.mtp, p, rows)
           z == MtpPatched(x, p + 1, rows)
<1>1. IsModel(x) /\ x.pos \in Nat /\ x.mtp \in Seq(Nat)
  BY DEF OfText, IsModel
<1>2. mtp \in Seq(Nat) /\ Right(mtp, p + k)
  BY <1>1, PutIsRight
<1>3. p + 1 - 1 = p /\ p + Len(rows) \in Nat
  BY LenProperties
<1> HIDE DEF mtp
<1>4. /\ DOMAIN z = DOMAIN x /\ z.kv = x.kv /\ z.chist = x.chist /\ z.S = x.S
      /\ z.mtp = mtp /\ z.mtpPos = p + Len(rows) /\ z.pos = x.pos /\ z.ring = x.ring
      /\ z.R = x.R
  BY <1>1, <1>3 DEF IsModel, MtpPatched, mtp
<1> HIDE DEF z
<1>5. OfText(z)
  <2>1. IsModel(z)
    BY <1>1, <1>2, <1>3, <1>4 DEF IsModel
  <2>2. Intact(z)
    BY <1>1, <1>4, IntactMeans DEF OfText
  <2> QED
    BY <1>4, <2>1, <2>2 DEF OfText
<1> QED
  BY <1>2, <1>4, <1>5 DEF z

-----------------------------------------------------------------------------
(* What the emit callbacks let through.                                     *)

(* The k tokens of the text behind token p + 1.                             *)
Behind(p, k) == [i \in 1 .. k |-> p + 1 + i]

LEMMA BehindIs ==
    ASSUME NEW p \in Nat, NEW k \in Nat
    PROVE  /\ Behind(p, k) \in Seq(Nat) /\ Len(Behind(p, k)) = k
           /\ \A i \in 1 .. k : Behind(p, k)[i] = p + 1 + i
BY DEF Behind

LEMMA BehindPrefix ==
    ASSUME NEW p \in Nat, NEW k \in Nat, NEW j \in 0 .. k
    PROVE  SubSeq(Behind(p, k), 1, j) = Behind(p, j)
<1>1. j \in Nat /\ \A i \in 1 .. j : i \in 1 .. k
  OBVIOUS
<1>2. /\ Behind(p, j) \in Seq(Nat) /\ Len(Behind(p, j)) = j
      /\ \A i \in 1 .. j : Behind(p, j)[i] = p + 1 + i
  BY <1>1, BehindIs
<1>3. \A i \in 1 .. j : Behind(p, k)[i] = p + 1 + i
  BY <1>1, BehindIs
<1>4. \A i \in 1 .. j : Behind(p, k)[i] \in Nat
  BY <1>3
<1> HIDE DEF Behind
<1>5. /\ SubSeq(Behind(p, k), 1, j) \in Seq(Nat) /\ Len(SubSeq(Behind(p, k), 1, j)) = j
      /\ \A i \in 1 .. j : SubSeq(Behind(p, k), 1, j)[i] = Behind(p, k)[i]
  BY <1>1, <1>4, SubSeqProperties
<1> QED
  BY <1>2, <1>3, <1>5, SeqEqual

(* The outcome o of emitting a + 1 tokens of the text behind token p + 1,   *)
(* of which k arrive.                                                       *)
Arrive(o, p, a, k) ==
    /\ o.toks = Behind(p, k) /\ o.kept \in 0 .. a + 1 /\ k \in 0 .. a + 1
    /\ o.why \in {"", "length", "done", "pause", "cancel", "dead"}
    /\ Len(sent) + k <= MaxTokens
    /\ \A i \in 1 .. k : KindOf(p + 1 + i) \notin {"eos", "ckpt"}
    /\ IF o.why = "" THEN o.kept = a + 1 ELSE o.kept <= a
    /\ k = IF o.why = "cancel" THEN o.kept + 1 ELSE o.kept
    /\ o.why = "length" => Len(sent) + k = MaxTokens
    /\ o.why = "done" => KindOf(p + k + 2) = "eos"
    /\ o.why = "pause" => KindOf(p + k + 2) = "ckpt" /\ Len(sent) + k < MaxTokens

LEMMA OutcomeIs ==
    ASSUME sent \in Seq(Nat), Len(sent) <= MaxTokens, NEW p \in Nat, NEW a \in Nat,
           NEW o \in Emitted(Behind(p, a + 1))
    PROVE  \E k \in 0 .. a + 1 : Arrive(o, p, a, k)
<1>1. PICK c : c = Behind(p, a + 1)
  OBVIOUS
<1>2. /\ Len(c) = a + 1 /\ a + 1 \in Nat
      /\ \A i \in 1 .. a + 1 : c[i] = p + 1 + i
      /\ \A j \in 0 .. a + 1 : SubSeq(c, 1, j) = Behind(p, j)
  <2>1. a + 1 \in Nat
    OBVIOUS
  <2> QED
    BY <1>1, <2>1, BehindIs, BehindPrefix
<1>3. Len(sent) \in Nat /\ MaxTokens \in Nat
  BY LenProperties, DecodeAssumption DEF DecodeAssumption
<1>4. PICK R : R = {j \in 1 .. Len(c) : Refused(c[j], j - 1)}
  OBVIOUS
<1>5. PICK all : all = IF R = {} THEN Len(c) ELSE Min(R) - 1
  OBVIOUS
<1>6. \/ R = {} /\ o = Outcome(all, c, "")
      \/ R # {} /\ o = Outcome(all, SubSeq(c, 1, all), Refusal(c[all + 1], all))
      \/ \E k \in 1 .. all : o = Outcome(k - 1, SubSeq(c, 1, k), "cancel")
      \/ \E k \in 1 .. all : o = Outcome(k - 1, SubSeq(c, 1, k - 1), "dead")
  BY <1>1, <1>4, <1>5 DEF Emitted
<1>7. R \in SUBSET (1 .. a + 1) /\ \A j \in 1 .. a + 1 : j \in R <=> Refused(c[j], j - 1)
  BY <1>2, <1>4
<1>8. /\ all \in 0 .. a + 1 /\ \A j \in 1 .. all : j \in 1 .. a + 1 /\ j \notin R
      /\ R = {} => all = a + 1
      /\ R # {} => all \in 0 .. a /\ all + 1 \in R
  <2>1. CASE R = {}
    <3>1. all = a + 1
      BY <1>2, <1>5, <2>1
    <3> QED
      BY <2>1, <3>1
  <2>2. CASE R # {}
    <3>1. R \in SUBSET Nat
      BY <1>7
    <3>2. Min(R) \in R /\ \A y \in R : Min(R) <= y
      BY <2>2, <3>1, MinOfNaturals
    <3>3. PICK x \in R : all = x - 1 /\ \A y \in R : x <= y
      BY <1>5, <2>2, <3>2
    <3>4. x \in 1 .. a + 1
      BY <1>7
    <3>5. all \in 0 .. a /\ all + 1 = x
      BY <3>3, <3>4
    <3>6. \A j \in 1 .. all : j \in 1 .. a + 1 /\ ~ (x <= j)
      BY <3>4, <3>5
    <3>7. \A j \in 1 .. all : j \in 1 .. a + 1 /\ j \notin R
      BY <3>3, <3>6
    <3> QED
      BY <2>2, <3>5, <3>7
  <2> QED
    BY <2>1, <2>2
<1>9. \A j \in 1 .. all : /\ Len(sent) + (j - 1) < MaxTokens
                          /\ KindOf(p + 1 + j) \notin {"eos", "ckpt"}
  <2> TAKE j \in 1 .. all
  <2>1. ~ Refused(c[j], j - 1) /\ c[j] = p + 1 + j
    BY <1>2, <1>7, <1>8
  <2>2. ~ (Len(sent) + (j - 1) >= MaxTokens) /\ KindOf(p + 1 + j) \notin {"eos", "ckpt"}
    BY <2>1 DEF Refused
  <2> QED
    BY <1>3, <1>8, <2>2
<1>10. ASSUME NEW k \in 0 .. all
       PROVE  /\ k \in 0 .. a + 1 /\ Len(sent) + k <= MaxTokens
              /\ \A i \in 1 .. k : KindOf(p + 1 + i) \notin {"eos", "ckpt"}
              /\ SubSeq(c, 1, k) = Behind(p, k)
  <2>1. k \in 0 .. a + 1 /\ \A i \in 1 .. k : i \in 1 .. all
    BY <1>8
  <2>2. Len(sent) + k <= MaxTokens
    <3>1. CASE k = 0
      BY <1>3, <3>1
    <3>2. CASE k # 0
      <4>1. k \in 1 .. all
        BY <1>8, <3>2
      <4>2. Len(sent) + (k - 1) < MaxTokens
        BY <1>9, <4>1
      <4> QED
        BY <1>3, <2>1, <4>2
    <3> QED
      BY <3>1, <3>2
  <2> QED
    BY <1>2, <1>9, <2>1, <2>2
<1>11. CASE R = {} /\ o = Outcome(all, c, "")
  <2>1. o.kept = a + 1 /\ o.toks = Behind(p, a + 1) /\ o.why = ""
    BY <1>1, <1>8, <1>11 DEF Outcome
  <2>2. a + 1 \in 0 .. all /\ a + 1 \in 0 .. a + 1
    BY <1>8, <1>11
  <2>3. /\ Len(sent) + (a + 1) <= MaxTokens
        /\ \A i \in 1 .. a + 1 : KindOf(p + 1 + i) \notin {"eos", "ckpt"}
    BY <1>10, <2>2
  <2>4. Arrive(o, p, a, a + 1)
    BY <2>1, <2>2, <2>3 DEF Arrive
  <2> QED
    BY <2>2, <2>4
<1>12. CASE R # {} /\ o = Outcome(all, SubSeq(c, 1, all), Refusal(c[all + 1], all))
  <2>1. o.kept = all /\ o.toks = SubSeq(c, 1, all) /\ o.why = Refusal(c[all + 1], all)
    BY <1>12 DEF Outcome
  <2>2. all \in 0 .. a /\ all + 1 \in 1 .. a + 1 /\ all + 1 - 1 = all /\ all \in 0 .. all
    BY <1>8, <1>12
  <2>3. Refused(c[all + 1], all) /\ c[all + 1] = p + all + 2
    <3>1. c[all + 1] = p + 1 + (all + 1) /\ p + 1 + (all + 1) = p + all + 2
      BY <1>2, <2>2
    <3>2. Refused(c[all + 1], all + 1 - 1)
      BY <1>7, <1>8, <1>12
    <3> QED
      BY <2>2, <3>1, <3>2
  <2>4. /\ all \in 0 .. a + 1 /\ Len(sent) + all <= MaxTokens
        /\ \A i \in 1 .. all : KindOf(p + 1 + i) \notin {"eos", "ckpt"}
        /\ SubSeq(c, 1, all) = Behind(p, all)
    BY <1>10, <2>2
  <2>5. /\ o.why \in {"length", "done", "pause"}
        /\ o.why = "length" => Len(sent) + all >= MaxTokens
        /\ o.why = "done" => KindOf(p + all + 2) = "eos"
        /\ o.why = "pause" => /\ KindOf(p + all + 2) = "ckpt"
                              /\ ~ (Len(sent) + all >= MaxTokens)
    BY <2>1, <2>3, Zenon DEF Refused, Refusal
  <2>6. /\ o.why = "length" => Len(sent) + all = MaxTokens
        /\ o.why = "pause" => Len(sent) + all < MaxTokens
    BY <1>3, <1>8, <2>4, <2>5
  <2>7. o.why # "" /\ o.why # "cancel"
    BY <2>5, Zenon
  <2>8. all <= a
    BY <2>2
  <2>9. Arrive(o, p, a, all)
    BY <2>1, <2>4, <2>5, <2>6, <2>7, <2>8 DEF Arrive
  <2> QED
    BY <2>4, <2>9
<1>13. CASE \E k \in 1 .. all : o = Outcome(k - 1, SubSeq(c, 1, k), "cancel")
  <2>1. PICK k \in 1 .. all : o = Outcome(k - 1, SubSeq(c, 1, k), "cancel")
    BY <1>13
  <2>2. o.kept = k - 1 /\ o.toks = SubSeq(c, 1, k) /\ o.why = "cancel"
    BY <2>1 DEF Outcome
  <2>3. k \in 0 .. all /\ k - 1 \in 0 .. a + 1 /\ k - 1 <= a /\ k = k - 1 + 1
    BY <1>8
  <2>4. /\ k \in 0 .. a + 1 /\ Len(sent) + k <= MaxTokens
        /\ \A i \in 1 .. k : KindOf(p + 1 + i) \notin {"eos", "ckpt"}
        /\ SubSeq(c, 1, k) = Behind(p, k)
    BY <1>10, <2>3
  <2>5. Arrive(o, p, a, k)
    BY <2>2, <2>3, <2>4 DEF Arrive
  <2> QED
    BY <2>4, <2>5
<1>14. CASE \E k \in 1 .. all : o = Outcome(k - 1, SubSeq(c, 1, k - 1), "dead")
  <2>1. PICK k \in 1 .. all : o = Outcome(k - 1, SubSeq(c, 1, k - 1), "dead")
    BY <1>14
  <2>2. PICK j \in 0 .. all : j = k - 1 /\ j <= a
    BY <1>8
  <2>3. o.kept = j /\ o.toks = SubSeq(c, 1, j) /\ o.why = "dead"
    BY <2>1, <2>2 DEF Outcome
  <2>4. /\ j \in 0 .. a + 1 /\ Len(sent) + j <= MaxTokens
        /\ \A i \in 1 .. j : KindOf(p + 1 + i) \notin {"eos", "ckpt"}
        /\ SubSeq(c, 1, j) = Behind(p, j)
    BY <1>10
  <2>5. Arrive(o, p, a, j)
    BY <2>2, <2>3, <2>4 DEF Arrive
  <2> QED
    BY <2>4, <2>5
<1> QED
  BY <1>6, <1>11, <1>12, <1>13, <1>14

-----------------------------------------------------------------------------
(* What every pass has in common.                                           *)

LEMMA Sizes ==
    /\ Prompt \in Nat \ {0} /\ MaxTokens \in Nat \ {0} /\ Gen \in Nat /\ Gen = MaxTokens - 1
    /\ MaxCtx \in Nat /\ Prompt + MaxTokens <= MaxCtx
BY DecodeAssumption DEF DecodeAssumption, Gen

LEMMA TokensAre ==
    ASSUME NEW p \in Nat, NEW k \in Nat
    PROVE  Tokens(p + 1, p + k) = [i \in 1 .. k |-> p + i]
<1>1. (p + k) - (p + 1) + 1 = k /\ \A i \in 1 .. k : p + 1 + i - 1 = p + i
  OBVIOUS
<1> QED
  BY <1>1 DEF Tokens

LEMMA HeadsAre ==
    ASSUME DecodeInv, NEW a \in Nat
    PROVE  Heads(a) = Behind(m.pos, a + 1)
<1>1. PICK p \in Nat : p = m.pos
  BY DEF DecodeInv, OfText, IsModel
<1>2. Intact(m) /\ cur = m.pos + 1
  BY DEF DecodeInv, OfText
<1>3. PICK q \in Nat : q = p + 1
  OBVIOUS
<1>4. p + 2 = q + 1 /\ p + a + 2 = q + (a + 1) /\ a + 1 \in Nat
  BY <1>3
<1>5. Heads(a) = Tokens(q + 1, q + (a + 1))
  BY <1>1, <1>2, <1>4 DEF Heads
<1>6. Tokens(q + 1, q + (a + 1)) = [i \in 1 .. a + 1 |-> q + i]
  BY <1>4, TokensAre
<1> QED
  BY <1>1, <1>3, <1>5, <1>6 DEF Behind

LEMMA RowsAre ==
    ASSUME DecodeInv, NEW g \in Nat, NEW a \in 0 .. g
    PROVE  /\ Rows(a, g) \in Seq(Nat) /\ Len(Rows(a, g)) = g + 1
           /\ \A i \in 1 .. a + 1 : Rows(a, g)[i] = m.pos + i
<1>1. PICK p \in Nat : p = m.pos /\ cur = p + 1
  BY DEF DecodeInv, OfText, IsModel
<1>2. PICK f : f = [j \in 1 .. g |-> IF j <= a THEN p + j + 1 ELSE Wrong]
  OBVIOUS
<1>3. f \in Seq(Nat) /\ Len(f) = g /\ \A j \in 1 .. a : f[j] = p + j + 1
  BY <1>2 DEF Wrong
<1>4. <<cur>> \in Seq(Nat) /\ Len(<<cur>>) = 1 /\ <<cur>>[1] = p + 1
  BY <1>1
<1>5. PICK h : h = <<cur>>
  OBVIOUS
<1>6. h \in Seq(Nat) /\ Len(h) = 1 /\ h[1] = p + 1
  BY <1>4, <1>5
<1>7. Rows(a, g) = h \o f
  BY <1>1, <1>2, <1>5 DEF Rows
<1>8. /\ h \o f \in Seq(Nat) /\ Len(h \o f) = g + 1
      /\ \A i \in 1 .. g + 1 : (h \o f)[i] = IF i <= 1 THEN h[i] ELSE f[i - 1]
  <2>1. /\ h \o f \in Seq(Nat) /\ Len(h \o f) = Len(h) + Len(f)
        /\ \A i \in 1 .. Len(h) + Len(f) : (h \o f)[i] = IF i <= Len(h) THEN h[i] ELSE f[i - Len(h)]
    <3>1. h \in Seq(Nat) /\ f \in Seq(Nat)
      BY <1>3, <1>6
    <3> QED
      BY <3>1, ConcatProperties, Zenon
  <2> QED
    BY <1>3, <1>6, <2>1
<1>9. \A i \in 1 .. a + 1 : (h \o f)[i] = p + i
  <2> TAKE i \in 1 .. a + 1
  <2>1. CASE i = 1
    BY <1>6, <1>8, <2>1
  <2>2. CASE i # 1
    <3>1. i - 1 \in 1 .. a /\ ~ (i <= 1) /\ i \in 1 .. g + 1
      BY <2>2
    <3> QED
      BY <1>3, <1>8, <3>1
  <2> QED
    BY <2>1, <2>2
<1> QED
  BY <1>1, <1>7, <1>8, <1>9

(* The tokens that are sent on.                                             *)
LEMMA SentGrows ==
    ASSUME sent \in Seq(Nat), NEW p \in Nat, NEW k \in Nat
    PROVE  sent \o Behind(p, k) \in Seq(Nat) /\ Len(sent \o Behind(p, k)) = Len(sent) + k
<1>1. Behind(p, k) \in Seq(Nat) /\ Len(Behind(p, k)) = k
  BY BehindIs
<1> QED
  BY <1>1, ConcatProperties

(* A pass over g + 1 rows of which a + 1 are right: keep + 1 of them are    *)
(* kept, k of their heads are sent.                                         *)
Pass(g, a, o, k, keep, next) ==
    /\ pc \in {"round", "chunk"} /\ next \in {"round", "chunk"}
    /\ g <= Gen - n /\ (RoomBehind => m.pos + g + 1 <= MaxCtx)
    /\ Arrive(o, m.pos, a, k)
    /\ keep = IF o.why = "" THEN a ELSE o.kept
    /\ OfText(m') /\ m'.pos = m.pos + keep + 1 /\ MtpInStep'
    /\ cur' = m.pos + keep + 2 /\ n' = n + o.kept /\ sent' = sent \o o.toks
    /\ Leaves(o.why, next) /\ Reaches(m.pos + g + 1) /\ UNCHANGED kind
    /\ o.why = "" /\ next = "chunk" => DraftFits' /\ Loop # "spec"

LEMMA PassKeepsInv ==
    ASSUME DecodeInv, NEW g \in Nat, NEW a \in 0 .. g, NEW o, NEW k \in 0 .. a + 1,
           NEW keep, NEW next, Pass(g, a, o, k, keep, next)
    PROVE  DecodeInv'
<1>1. PICK p \in Nat : p = m.pos /\ p >= Prompt
  BY DEF DecodeInv, OfText, IsModel
<1>2. PICK z \in Nat : z = n /\ z <= p - Prompt /\ (Unpaused => z = p - Prompt)
  <2>1. n \in Nat
    <3>1. n \in 0 .. Gen + 1
      BY Zenon DEF DecodeInv
    <3> QED
      BY <3>1, Sizes
  <2>2. n <= m.pos - Prompt /\ (Unpaused => n = m.pos - Prompt)
    BY DEF DecodeInv, Pass
  <2> QED
    BY <1>1, <2>1, <2>2
<1>3. PICK l \in Nat : l = Len(sent) /\ l = p - Prompt + 1 /\ l <= MaxTokens
  <2>1. sent \in Seq(Nat) /\ Len(sent) <= MaxTokens /\ Len(sent) = m.pos - Prompt + 1
    BY DEF DecodeInv, Pass
  <2> QED
    BY <1>1, <2>1, LenProperties
<1>4. PICK e \in 0 .. a + 1, d \in 0 .. a :
          /\ e = o.kept /\ d = keep
          /\ \/ o.why = "" /\ e = a + 1 /\ k = a + 1 /\ d = a
             \/ o.why = "cancel" /\ k = e + 1 /\ d = e
             \/ o.why \notin {"", "cancel"} /\ k = e /\ d = e
  <2>1. /\ o.kept \in 0 .. a + 1
        /\ IF o.why = "" THEN o.kept = a + 1 ELSE o.kept <= a
        /\ k = IF o.why = "cancel" THEN o.kept + 1 ELSE o.kept
        /\ keep = IF o.why = "" THEN a ELSE o.kept
    BY Zenon DEF Arrive, Pass
  <2>2. CASE o.why = ""
    <3>1. o.kept = a + 1 /\ k = o.kept /\ keep = a
      BY <2>1, <2>2
    <3>2. a \in 0 .. a
      OBVIOUS
    <3> QED
      BY <2>1, <2>2, <3>1, <3>2
  <2>3. CASE o.why # ""
    <3>1. o.kept <= a /\ keep = o.kept
      BY <2>1, <2>3, Zenon
    <3>2. o.kept \in 0 .. a
      <4>1. o.kept \in 0 .. a + 1
        BY <2>1
      <4> QED
        BY <3>1, <4>1
    <3>3. /\ o.why = "cancel" => k = o.kept + 1
          /\ o.why # "cancel" => k = o.kept
      BY <2>1, Zenon
    <3>4. \/ o.why = "cancel" /\ k = o.kept + 1 /\ keep = o.kept
          \/ o.why \notin {"", "cancel"} /\ k = o.kept /\ keep = o.kept
      BY <2>3, <3>1, <3>3, Zenon
    <3> QED
      BY <2>1, <3>1, <3>2, <3>4, Zenon
  <2> QED
    BY <2>2, <2>3
<1>5. /\ o.toks = Behind(p, k) /\ l + k <= MaxTokens
      /\ o.why \in {"", "length", "done", "pause", "cancel", "dead"}
      /\ o.why = "pause" => KindOf(p + k + 2) = "ckpt" /\ l + k < MaxTokens
  BY <1>1, <1>3, Zenon DEF Arrive, Pass
<1>7. sent' \in Seq(Nat) /\ Len(sent') = l + k
  <2>1. sent \in Seq(Nat) /\ k \in Nat
    <3>1. sent \in Seq(Nat)
      BY Zenon DEF DecodeInv
    <3> QED
      BY <3>1
  <2>2. sent \o Behind(p, k) \in Seq(Nat) /\ Len(sent \o Behind(p, k)) = Len(sent) + k
    BY <2>1, SentGrows
  <2>3. sent' = sent \o Behind(p, k)
    BY <1>5 DEF Pass
  <2> QED
    BY <1>3, <2>2, <2>3
<1>8. n' = z + e /\ m'.pos = p + d + 1 /\ cur' = p + d + 2 /\ g <= Gen - z
  <2>1. /\ n' = n + o.kept /\ m'.pos = m.pos + keep + 1 /\ cur' = m.pos + keep + 2
        /\ g <= Gen - n
    BY Zenon DEF Pass
  <2> QED
    BY <1>1, <1>2, <1>4, <2>1
<1>9. /\ cur' = m'.pos + 1 /\ m'.pos >= Prompt /\ Len(sent') <= MaxTokens
      /\ Len(sent') \in {m'.pos - Prompt, m'.pos - Prompt + 1}
  <2>1. k = d \/ k = d + 1
    BY <1>4
  <2>2. cur' = m'.pos + 1
    BY <1>8
  <2>3. m'.pos >= Prompt
    BY <1>1, <1>8, Sizes
  <2>4. Len(sent') <= MaxTokens
    BY <1>5, <1>7
  <2>5. CASE k = d
    <3>1. Len(sent') = m'.pos - Prompt
      BY <1>3, <1>7, <1>8, <2>5, Sizes
    <3> QED
      BY <2>2, <2>3, <2>4, <3>1
  <2>6. CASE k = d + 1
    <3>1. Len(sent') = m'.pos - Prompt + 1
      BY <1>3, <1>7, <1>8, <2>6, Sizes
    <3> QED
      BY <2>2, <2>3, <2>4, <3>1
  <2> QED
    BY <2>1, <2>5, <2>6
<1>10. n' \in 0 .. Gen + 1
  <2>1. e <= g + 1
    OBVIOUS
  <2>2. n' = z + e /\ g <= Gen - z
    BY <1>8
  <2> QED
    BY <2>1, <2>2, Sizes
<1>11. ASSUME o.why = ""
       PROVE  /\ Len(sent') = m'.pos - Prompt + 1 /\ n' <= m'.pos - Prompt
              /\ Unpaused => n' = m'.pos - Prompt
  <2>1. e = a + 1 /\ k = a + 1 /\ d = a
    BY <1>4, <1>11
  <2>2. Len(sent') = m'.pos - Prompt + 1 /\ n' <= m'.pos - Prompt
    BY <1>2, <1>3, <1>7, <1>8, <2>1, Sizes
  <2>3. z = p - Prompt => n' = m'.pos - Prompt
    BY <1>8, <2>1, Sizes
  <2> QED
    BY <1>2, <2>2, <2>3, Zenon
<1>12. ASSUME o.why = "pause"
       PROVE  /\ KindOf(cur') = "ckpt" /\ Len(sent') = m'.pos - Prompt
              /\ Len(sent') < MaxTokens
  <2>1. k = d
    BY <1>4, <1>12
  <2>2. cur' = p + k + 2
    BY <1>8, <2>1
  <2> QED
    BY <1>3, <1>5, <1>7, <1>8, <1>12, <2>1, <2>2, Sizes
<1>13. /\ pc' \in {"first", "round", "chunk", "pause", "over"} /\ pc' # "first"
       /\ why' \in {"", "done", "length", "cancel", "dead"} /\ (why' = "" <=> pc' # "over")
       /\ pc' \in {"round", "chunk"} => o.why = "" /\ pc' = next
       /\ pc' = "pause" => o.why = "pause"
  BY <1>5 DEF Leaves, DecodeInv, Pass
<1>14. reach' \in Nat /\ (reach' = reach \/ reach' = p + g + 1)
  <2>1. reach \in Nat
    BY DEF DecodeInv
  <2>2. PICK r \in Nat : r = p + g + 1
    OBVIOUS
  <2>3. Max({reach, r}) = IF reach <= r THEN r ELSE reach
    BY <2>1, MaxOfTwo
  <2>4. reach' = Max({reach, r})
    BY <1>1, <2>2 DEF Reaches, Pass
  <2> QED
    BY <2>1, <2>2, <2>3, <2>4
<1>15. WithinBudget'
  <2> SUFFICES ASSUME Unpaused PROVE reach' <= Prompt + MaxTokens
    BY DEF WithinBudget, Unpaused, Pass
  <2>1. reach <= Prompt + MaxTokens
    BY DEF DecodeInv, WithinBudget, Unpaused
  <2>2. z = p - Prompt
    BY <1>2, Zenon
  <2>3. p + g + 1 <= Prompt + MaxTokens
    BY <1>8, <2>2, Sizes
  <2> QED
    BY <1>14, <2>1, <2>3
<1>16. RoomBehind => WithinContext'
  <2> SUFFICES ASSUME RoomBehind PROVE reach' <= MaxCtx
    BY DEF WithinContext
  <2>1. reach <= MaxCtx /\ m.pos + g + 1 <= MaxCtx
    BY Zenon DEF DecodeInv, WithinContext, Pass
  <2> QED
    BY <1>1, <1>14, <2>1
<1>17. pc' = "chunk" => DraftFits' /\ Loop # "spec"
  BY <1>13, Zenon DEF Pass
<1>18. kind' \in Kinds /\ (Unpaused <=> Unpaused') /\ (KindOf(cur))' = KindOf(cur')
  BY DEF DecodeInv, Unpaused, KindOf, Pass
<1> QED
  BY <1>7, <1>9, <1>10, <1>11, <1>12, <1>13, <1>14, <1>15, <1>16, <1>17, <1>18, Zenon
  DEF DecodeInv, Pass

-----------------------------------------------------------------------------
(* What MTP leaves behind a round.                                          *)

LEMMA MtpRowsAre ==
    ASSUME NEW p \in Nat \ {0}, NEW k \in Nat
    PROVE  /\ MtpRows(p, k, p) \in Seq(Nat) /\ Len(MtpRows(p, k, p)) = k
           /\ \A i \in 1 .. k : MtpRows(p, k, p)[i] = p - 1 + i
<1>1. \A i \in 1 .. k : p + i - 1 = p - 1 + i /\ p + i - 1 \in Nat
  OBVIOUS
<1>2. MtpRows(p, k, p) = [i \in 1 .. k |-> p + i - 1]
  BY DEF MtpRows
<1> QED
  BY <1>1, <1>2

(* The row in front of the drafts' own.                                     *)
LEMMA FirstRowIs ==
    ASSUME NEW p \in Nat \ {0}, NEW g \in Nat \ {0}, NEW f,
           f = MtpRows(p, 1, p) \o [j \in 1 .. g - 1 |-> Wrong]
    PROVE  f \in Seq(Nat) /\ 1 \in 0 .. Len(f) /\ f[1] = p
<1>1. PICK s : s = MtpRows(p, 1, p)
  OBVIOUS
<1>2. PICK t : t = [j \in 1 .. g - 1 |-> Wrong]
  OBVIOUS
<1>3. s \in Seq(Nat) /\ Len(s) = 1 /\ s[1] = p
  <2>1. 1 \in Nat /\ 1 \in 1 .. 1 /\ p - 1 + 1 = p
    OBVIOUS
  <2> QED
    BY <1>1, <2>1, MtpRowsAre
<1>4. t \in Seq(Nat) /\ Len(t) = g - 1
  BY <1>2 DEF Wrong
<1>5. f = s \o t
  BY <1>1, <1>2
<1>6. /\ s \o t \in Seq(Nat) /\ Len(s \o t) = Len(s) + Len(t)
      /\ \A i \in 1 .. Len(s) + Len(t) :
            (s \o t)[i] = IF i <= Len(s) THEN s[i] ELSE t[i - Len(s)]
  BY <1>3, <1>4, ConcatProperties
<1>7. s \o t \in Seq(Nat) /\ 1 \in 0 .. Len(s \o t) /\ (s \o t)[1] = p
  BY <1>3, <1>4, <1>6
<1> QED
  BY <1>5, <1>7

(* A pass over g + 1 rows that keeps the first d + 1 of them.               *)
PassOver(x, rows, g, d, z) ==
    /\ OfText(x) /\ rows \in Seq(Nat) /\ g \in Nat /\ d \in 0 .. g
    /\ Len(rows) = g + 1 /\ g + 1 <= Ring /\ \A i \in 1 .. d + 1 : rows[i] = x.pos + i
    /\ \/ z = Ingested(x, rows) /\ d = g
       \/ z = RolledBack(x, Ingested(x, rows), d, g)

LEMMA PassKeepsText ==
    ASSUME NEW x, NEW rows, NEW g, NEW d, NEW z, PassOver(x, rows, g, d, z)
    PROVE  OfText(z) /\ z.pos = x.pos + d + 1 /\ z.mtp = x.mtp
<1> /\ OfText(x) /\ rows \in Seq(Nat) /\ g \in Nat /\ d \in 0 .. g
    /\ Len(rows) = g + 1 /\ g + 1 <= Ring /\ \A i \in 1 .. d + 1 : rows[i] = x.pos + i
  BY Zenon DEF PassOver
<1>1. CASE z = Ingested(x, rows) /\ d = g
  <2>1. \A i \in 1 .. Len(rows) : rows[i] = x.pos + i
    BY <1>1
  <2>2. /\ OfText(z) /\ z.pos = x.pos + Len(rows) /\ z.mtp = x.mtp
    BY <1>1, <2>1, IngestKeepsText
  <2>3. \A u, v \in Nat : u + (v + 1) = u + v + 1
    OBVIOUS
  <2>4. x.pos \in Nat
    BY DEF OfText, IsModel
  <2>5. x.pos + (d + 1) = x.pos + d + 1 /\ Len(rows) = d + 1
    <3>1. d \in Nat
      OBVIOUS
    <3> QED
      BY <1>1, <2>3, <2>4, <3>1
  <2> QED
    BY <2>2, <2>5
<1>2. CASE z = RolledBack(x, Ingested(x, rows), d, g)
  BY <1>2, RollBackKeepsText
<1> QED
  BY <1>1, <1>2, Zenon DEF PassOver

PatchFits(x, p, rows, k) ==
    /\ OfText(x) /\ p \in Nat /\ Right(x.mtp, p) /\ rows \in Seq(Nat)
    /\ k \in 0 .. Len(rows) /\ \A i \in 1 .. k : rows[i] = p + i

LEMMA PatchFitting ==
    ASSUME NEW x, NEW p, NEW rows, NEW k, PatchFits(x, p, rows, k)
    PROVE  LET z == MtpPatched(x, p + 1, rows)
           IN  /\ OfText(z) /\ z.pos = x.pos /\ z.mtpPos = p + Len(rows)
               /\ Right(z.mtp, p + k)
<1>1. /\ OfText(x) /\ p \in Nat /\ Right(x.mtp, p) /\ rows \in Seq(Nat)
      /\ k \in 0 .. Len(rows) /\ \A i \in 1 .. k : rows[i] = p + i
  BY Zenon DEF PatchFits
<1> QED
  BY <1>1, PatchKeepsText

(* MTP rows of k more tokens of the text.                                   *)
LEMMA PatchOfKept ==
    ASSUME NEW x, OfText(x), NEW p \in Nat, Right(x.mtp, p), NEW d \in Nat
    PROVE  LET z == MtpPatched(x, p + 1, Tokens(p + 1, p + d))
           IN  /\ OfText(z) /\ z.pos = x.pos /\ z.mtpPos = p + d /\ Right(z.mtp, p + d)
<1>1. PICK kept : kept = Tokens(p + 1, p + d)
  OBVIOUS
<1>2. kept \in Seq(Nat) /\ Len(kept) = d /\ \A i \in 1 .. d : kept[i] = p + i
  <2>1. Tokens(p + 1, p + d) = [i \in 1 .. d |-> p + i]
    BY TokensAre
  <2>2. kept = [i \in 1 .. d |-> p + i]
    BY <1>1, <2>1, Zenon
  <2> QED
    BY <2>2
<1>3. d \in 0 .. Len(kept)
  BY <1>2
<1>4. LET z == MtpPatched(x, p + 1, kept)
      IN  /\ OfText(z) /\ z.pos = x.pos /\ z.mtpPos = p + Len(kept) /\ Right(z.mtp, p + d)
  BY <1>2, <1>3, PatchKeepsText
<1> QED
  BY <1>1, <1>2, <1>4

(* A round leaves the text, and MTP's row of each of its tokens but one.    *)
RoundOf(p, g, d, a, rows, whole, y) ==
    /\ p \in Nat \ {0} /\ p = m.pos /\ OfText(m) /\ m.mtpPos = p - 1 /\ Right(m.mtp, p - 1)
    /\ g \in Nat \ {0} /\ g + 1 <= Ring /\ d \in 0 .. g
    /\ rows \in Seq(Nat) /\ rows = Rows(a, g) /\ Len(rows) = g + 1
    /\ \A i \in 1 .. d + 1 : rows[i] = p + i
    /\ whole \in BOOLEAN /\ (whole => d = g) /\ y = AfterRound(g, a, d, whole)

LEMMA AfterRoundIsText ==
    ASSUME NEW p, NEW g, NEW d, NEW a, NEW rows, NEW whole, NEW y,
           RoundOf(p, g, d, a, rows, whole, y)
    PROVE  OfText(y) /\ y.pos = p + d + 1 /\ y.mtpPos = y.pos - 1 /\ Right(y.mtp, y.pos - 1)
<1> /\ p \in Nat \ {0} /\ p = m.pos /\ OfText(m) /\ m.mtpPos = p - 1 /\ Right(m.mtp, p - 1)
    /\ g \in Nat \ {0} /\ g + 1 <= Ring /\ d \in 0 .. g
    /\ rows \in Seq(Nat) /\ Len(rows) = g + 1
    /\ \A i \in 1 .. d + 1 : rows[i] = p + i
  BY Zenon DEF RoundOf
<1>1. PICK q \in Nat : q = p - 1
  OBVIOUS
<1>2. PICK first : first = MtpRows(p, 1, p) \o [j \in 1 .. g - 1 |-> Wrong]
  OBVIOUS
<1>3. first \in Seq(Nat) /\ 1 \in 0 .. Len(first) /\ \A i \in 1 .. 1 : first[i] = q + i
  <2>1. first \in Seq(Nat) /\ 1 \in 0 .. Len(first) /\ first[1] = p
    BY <1>2, FirstRowIs
  <2> QED
    BY <1>1, <2>1
<1>4. m.mtpPos + 1 = q + 1 /\ m.mtpPos + 1 = p /\ m.R = p
  BY <1>1 DEF OfText
<1>5. PICK drew, mm :
          /\ drew = MtpPatched(m, q + 1, first)
          /\ \/ mm = Ingested(drew, rows) /\ d = g
             \/ mm = RolledBack(drew, Ingested(drew, rows), d, g)
          /\ y = IF d > 0 THEN MtpPatched(mm, p + 1, Tokens(p + 1, p + d))
                 ELSE [mm EXCEPT !.mtpPos = p]
  BY <1>2, <1>4, Zenon DEF AfterRound, RoundOf
<1>6. OfText(drew) /\ drew.pos = p /\ Right(drew.mtp, p)
  <2>1. Right(m.mtp, q)
    BY <1>1
  <2>2. /\ OfText(MtpPatched(m, q + 1, first)) /\ MtpPatched(m, q + 1, first).pos = m.pos
        /\ Right(MtpPatched(m, q + 1, first).mtp, q + 1)
    BY <1>3, <2>1, PatchKeepsText
  <2> QED
    BY <1>1, <1>5, <2>2
<1>7. OfText(mm) /\ mm.pos = p + d + 1 /\ mm.mtp = drew.mtp
  <2>1. \A i \in 1 .. d + 1 : rows[i] = drew.pos + i
    BY <1>6
  <2>2. g \in Nat
    OBVIOUS
  <2>3. \/ mm = Ingested(drew, rows) /\ d = g
        \/ mm = RolledBack(drew, Ingested(drew, rows), d, g)
    BY <1>5, Zenon
  <2>4. OfText(drew) /\ d \in 0 .. g /\ Len(rows) = g + 1 /\ g + 1 <= Ring
    BY <1>6
  <2>5. OfText(mm) /\ mm.pos = drew.pos + d + 1 /\ mm.mtp = drew.mtp
    <3>1. PassOver(drew, rows, g, d, mm)
      BY <2>1, <2>2, <2>3, <2>4, Zenon DEF PassOver
    <3> QED
      BY <3>1, PassKeepsText
  <2> QED
    BY <1>6, <2>5
<1>8. CASE d > 0
  <2>1. p \in Nat /\ d \in Nat /\ Right(mm.mtp, p) /\ OfText(mm)
    BY <1>6, <1>7
  <2>2. LET z == MtpPatched(mm, p + 1, Tokens(p + 1, p + d))
        IN  /\ OfText(z) /\ z.pos = mm.pos /\ z.mtpPos = p + d /\ Right(z.mtp, p + d)
    BY <2>1, PatchOfKept, SMTT(30)
  <2>3. y = MtpPatched(mm, p + 1, Tokens(p + 1, p + d))
    BY <1>5, <1>8, Zenon
  <2> QED
    BY <1>7, <2>2, <2>3, SMTT(30)
<1>9. CASE d = 0
  <2>1. y = [mm EXCEPT !.mtpPos = p]
    BY <1>5, <1>9
  <2>2. IsModel(mm)
    BY <1>7 DEF OfText
  <2>3. /\ DOMAIN y = DOMAIN mm /\ y.kv = mm.kv /\ y.chist = mm.chist /\ y.S = mm.S
        /\ y.mtp = mm.mtp /\ y.mtpPos = p /\ y.pos = mm.pos /\ y.ring = mm.ring
        /\ y.R = mm.R
    BY <2>1, <2>2 DEF IsModel
  <2>4. IsModel(y)
    BY <2>2, <2>3 DEF IsModel
  <2>5. Intact(y)
    BY <1>7, <2>2, <2>3, IntactMeans DEF OfText, IsModel
  <2>6. OfText(y)
    BY <1>7, <2>3, <2>4, <2>5 DEF OfText
  <2>7. p + d = p
    BY <1>9
  <2>8. y.pos = p + d + 1
    BY <1>7, <2>3, Zenon
  <2>9. y.mtpPos = p + d /\ Right(y.mtp, p + d)
    BY <1>6, <1>7, <2>3, <2>7, Zenon
  <2> QED
    BY <2>6, <2>8, <2>9, SMTT(30)
<1>10. OfText(y) /\ y.pos = p + d + 1 /\ y.mtpPos = p + d /\ Right(y.mtp, p + d)
  <2>1. d > 0 \/ d = 0
    OBVIOUS
  <2> QED
    BY <1>8, <1>9, <2>1, SMTT(30)
<1>11. (p + d + 1) - 1 = p + d
  OBVIOUS
<1> QED
  BY <1>10, <1>11
-----------------------------------------------------------------------------
(* The steps.                                                               *)

(* The numbers a step starts from.                                          *)
LEMMA Counts ==
    ASSUME DecodeInv
    PROVE  /\ m.pos \in Nat \ {0} /\ m.pos >= Prompt /\ n \in Nat /\ reach \in Nat
           /\ sent \in Seq(Nat) /\ Len(sent) \in Nat /\ Len(sent) <= MaxTokens
           /\ OfText(m) /\ cur = m.pos + 1 /\ m.R = m.pos
<1>1. n \in 0 .. Gen + 1 /\ OfText(m) /\ m.pos >= Prompt /\ sent \in Seq(Nat)
      /\ Len(sent) <= MaxTokens /\ cur = m.pos + 1 /\ reach \in Nat
  BY Zenon DEF DecodeInv
<1>2. Len(sent) \in Nat /\ n \in Nat
  BY <1>1, Sizes, LenProperties
<1>3. m.pos \in Nat \ {0} /\ m.R = m.pos
  <2>1. m.pos \in Nat /\ m.R = m.pos
    BY <1>1 DEF OfText, IsModel
  <2> QED
    BY <1>1, <2>1, Sizes
<1> QED
  BY <1>1, <1>2, <1>3

(* The room a round may use, which leaves a row for its last token.         *)
LEMMA RoomStays ==
    ASSUME DecodeInv, Running, Mtp, RoomBehind, NEW g \in Nat,
           g <= Gamma, g <= Gen - n, Loop = "chain" => g <= MaxCtx - m.pos - 1
    PROVE  m.pos + g + 1 <= MaxCtx
<1>1. PICK p \in Nat, z \in Nat : p = m.pos /\ z = n
  BY Counts
<1>2. Len(sent) = p - Prompt + 1 /\ Len(sent) <= MaxTokens
  BY <1>1, Zenon DEF DecodeInv, Running
<1>3. Unpaused => z = p - Prompt
  BY <1>1, Zenon DEF DecodeInv, Running
<1>4. Loop \in {"spec", "chain"}
  BY DecodeAssumption DEF DecodeAssumption, Mtp
<1>5. CASE Loop = "chain"
  <2>1. g <= MaxCtx - p - 1
    BY <1>1, <1>5
  <2> QED
    BY <1>1, <2>1, Sizes
<1>6. CASE NoPauses
  <2>1. Unpaused
    BY <1>6, Zenon DEF NoPauses, Unpaused, DecodeInv
  <2>2. z = p - Prompt
    BY <1>3, <2>1, Zenon
  <2> QED
    BY <1>1, <2>2, Sizes
<1>7. CASE Prompt + MaxTokens + Gamma <= MaxCtx
  <2>1. PICK l \in Nat : l = p - Prompt + 1 /\ l <= MaxTokens
    BY <1>1, <1>2, Counts
  <2>2. p + Gamma + 1 <= MaxCtx
    BY <1>7, <2>1, Sizes, RingFacts
  <2> QED
    BY <1>1, <2>2, RingFacts, Sizes
<1> QED
  BY <1>4, <1>5, <1>6, <1>7, Zenon DEF RoomBehind

LEMMA MtpRoomIs ==
    ASSUME DecodeInv
    PROVE  /\ MtpRoom \in Int /\ MtpRoom <= Gamma /\ MtpRoom <= Gen - n
           /\ Loop = "chain" => MtpRoom <= MaxCtx - m.pos - 1
<1>1. Gamma \in Int /\ Gen - n \in Int /\ MaxCtx - m.pos - 1 \in Int
  BY Counts, Sizes, RingFacts
<1>2. PICK a \in Int, b \in Int, c \in Int : a = Gamma /\ b = Gen - n /\ c = MaxCtx - m.pos - 1
  BY <1>1
<1>3. CASE Loop = "chain"
  <2>1. MtpRoom = Min({a, b} \union {c})
    BY <1>2, <1>3 DEF MtpRoom
  <2>2. {a, b} \union {c} = {a, b, c}
    OBVIOUS
  <2>3. Min({a, b, c}) \in Int /\ Min({a, b, c}) <= a /\ Min({a, b, c}) <= b /\ Min({a, b, c}) <= c
    BY MinOfThree
  <2> QED
    BY <1>2, <2>1, <2>2, <2>3
<1>4. CASE Loop # "chain"
  <2>1. MtpRoom = Min({a, b} \union {})
    BY <1>2, <1>4 DEF MtpRoom
  <2>2. {a, b} \union {} = {a, b}
    OBVIOUS
  <2>3. Min({a, b}) \in Int /\ Min({a, b}) <= a /\ Min({a, b}) <= b
    BY MinOfTwo
  <2> QED
    BY <1>2, <1>4, <2>1, <2>2, <2>3
<1> QED
  BY <1>3, <1>4

(* How many of the rows a pass keeps.                                       *)
LEMMA KeepIs ==
    ASSUME NEW a \in Nat, NEW o, NEW p, NEW k, Arrive(o, p, a, k)
    PROVE  /\ Min({o.kept, a}) = IF o.why = "" THEN a ELSE o.kept
           /\ Min({o.kept, a}) \in 0 .. a
           /\ (o.kept < a + 1) <=> o.why # ""
<1>1. (o.why = "" => o.kept = a + 1) /\ (o.why # "" => o.kept <= a)
  BY Zenon DEF Arrive
<1>2. o.kept \in 0 .. a + 1
  BY Zenon DEF Arrive
<1>3. PICK e \in Nat : e = o.kept
  BY <1>2
<1>4. Min({e, a}) = IF e <= a THEN e ELSE a
  BY MinOfTwo
<1>5. CASE o.why = ""
  <2>1. e = a + 1
    BY <1>1, <1>3, <1>5, Zenon
  <2>2. Min({e, a}) = a /\ a \in 0 .. a /\ ~ (e < a + 1)
    BY <1>4, <2>1
  <2> QED
    BY <1>3, <1>5, <2>2, Zenon
<1>6. CASE o.why # ""
  <2>1. e <= a
    BY <1>1, <1>3, <1>6, Zenon
  <2>2. Min({e, a}) = e /\ e \in 0 .. a /\ e < a + 1
    BY <1>4, <2>1
  <2> QED
    BY <1>3, <1>6, <2>2, Zenon
<1> QED
  BY <1>5, <1>6

LEMMA NextHead ==
    ASSUME DecodeInv, NEW a \in Nat, NEW d \in 0 .. a
    PROVE  Heads(a)[d + 1] = m.pos + d + 2
<1>1. PICK p \in Nat : p = m.pos
  BY Counts
<1>2. Heads(a) = Behind(p, a + 1)
  BY <1>1, HeadsAre
<1>3. d + 1 \in 1 .. a + 1 /\ a + 1 \in Nat /\ p + 1 + (d + 1) = p + d + 2
  OBVIOUS
<1>4. Behind(p, a + 1)[d + 1] = p + 1 + (d + 1)
  BY <1>3, BehindIs
<1> QED
  BY <1>1, <1>2, <1>3, <1>4

IsPass ==
    \E g \in Nat : \E a \in 0 .. g : \E k \in 0 .. a + 1 : \E o, keep, next :
        Pass(g, a, o, k, keep, next)

(* What reaches the client of a pass.                                       *)
LEMMA HeadsArrive ==
    ASSUME DecodeInv, NEW a \in Nat, NEW o \in Emitted(Heads(a))
    PROVE  \E k \in 0 .. a + 1 : Arrive(o, m.pos, a, k)
<1>1. PICK p \in Nat : p = m.pos
  BY Counts
<1>2. Heads(a) = Behind(p, a + 1)
  BY <1>1, HeadsAre
<1>3. sent \in Seq(Nat) /\ Len(sent) <= MaxTokens /\ o \in Emitted(Behind(p, a + 1))
  BY <1>2, Counts
<1> QED
  BY <1>1, <1>3, OutcomeIs

LEMMA MtpRoundIsPass ==
    ASSUME DecodeInv, MtpRound
    PROVE  IsPass
<1>1. PICK p \in Nat \ {0} : p = m.pos
  BY Counts
<1>2. PICK g \in 1 .. MtpRoom, a \in 0 .. MtpRoom :
          /\ Accepts(a, g) /\ Reaches(m.pos + g + 1)
          /\ \E o \in Emitted(Heads(a)) :
                LET d == Min({o.kept, a})
                IN  /\ m' = AfterRound(g, a, d, ~ (o.kept < a + 1) /\ d = g)
                    /\ cur' = Heads(a)[d + 1] /\ n' = n + o.kept /\ sent' = sent \o o.toks
                    /\ Leaves(o.why, "round")
  BY Zenon DEF MtpRound
<1>17. PICK o, d :
          /\ o \in Emitted(Heads(a)) /\ d = Min({o.kept, a})
          /\ m' = AfterRound(g, a, d, ~ (o.kept < a + 1) /\ d = g)
          /\ cur' = Heads(a)[d + 1] /\ n' = n + o.kept /\ sent' = sent \o o.toks
          /\ Leaves(o.why, "round")
  BY <1>2, Zenon
<1>3. /\ g \in Nat \ {0} /\ a \in 0 .. g /\ g <= Gamma /\ g <= Gen - n
      /\ Loop = "chain" => g <= MaxCtx - m.pos - 1
  <2>1. a <= g
    BY <1>2 DEF Accepts
  <2>2. MtpRoom \in Int
    BY MtpRoomIs
  <2>3. g \in Nat \ {0} /\ a \in 0 .. g /\ g <= MtpRoom
    BY <2>1, <2>2
  <2>4. g <= Gamma
    BY <2>2, <2>3, MtpRoomIs, RingFacts
  <2>5. g <= Gen - n
    BY <2>2, <2>3, MtpRoomIs, Sizes, Counts
  <2>6. ASSUME Loop = "chain" PROVE g <= MaxCtx - m.pos - 1
    BY <2>2, <2>3, <2>6, MtpRoomIs, Sizes, Counts
  <2> QED
    BY <2>3, <2>4, <2>5, <2>6
<1>4. PICK k \in 0 .. a + 1 : Arrive(o, m.pos, a, k)
  BY <1>3, <1>17, HeadsArrive
<1>5. d = (IF o.why = "" THEN a ELSE o.kept) /\ d \in 0 .. a
  <2>1. a \in Nat
    BY <1>3
  <2>2. /\ Min({o.kept, a}) = IF o.why = "" THEN a ELSE o.kept
        /\ Min({o.kept, a}) \in 0 .. a
    BY <1>4, <2>1, KeepIs, Zenon
  <2> QED
    BY <1>17, <2>2, Zenon
<1>6. d \in 0 .. a /\ d \in 0 .. g /\ a \in Nat /\ g \in Nat
  <2>1. g \in Nat /\ a \in 0 .. g /\ d \in 0 .. a
    BY <1>3, <1>5, Zenon
  <2> QED
    BY <2>1
<1>7. /\ Rows(a, g) \in Seq(Nat) /\ Len(Rows(a, g)) = g + 1
      /\ \A i \in 1 .. d + 1 : Rows(a, g)[i] = p + i
  <2>1. \A i \in 1 .. d + 1 : i \in 1 .. a + 1
    BY <1>6
  <2>2. /\ Rows(a, g) \in Seq(Nat) /\ Len(Rows(a, g)) = g + 1
        /\ \A i \in 1 .. a + 1 : Rows(a, g)[i] = m.pos + i
    BY <1>3, <1>6, RowsAre, Zenon
  <2> QED
    BY <1>1, <2>1, <2>2, Zenon
<1>8. g + 1 <= Ring
  BY <1>3, RingFacts
<1>9. Running /\ Mtp /\ pc = "round" /\ UNCHANGED <<kind, draft>>
  BY Zenon DEF MtpRound, Running
<1>10. m.mtpPos = p - 1 /\ Right(m.mtp, p - 1) /\ OfText(m)
  BY <1>1, <1>9 DEF DecodeInv, MtpInStep
<1>12. /\ OfText(m') /\ m'.pos = p + d + 1
       /\ m'.mtpPos = m'.pos - 1 /\ Right(m'.mtp, m'.pos - 1)
  <2>1. PICK whole : whole = (~ (o.kept < a + 1) /\ d = g)
    OBVIOUS
  <2>2. whole \in BOOLEAN /\ (whole => d = g) /\ m' = AfterRound(g, a, d, whole)
    BY <1>17, <2>1, Zenon
  <2>3. PICK rows \in Seq(Nat) : rows = Rows(a, g)
    BY <1>7
  <2>4. Len(rows) = g + 1 /\ \A i \in 1 .. d + 1 : rows[i] = p + i
    BY <1>7, <2>3, Zenon
  <2>5. RoundOf(p, g, d, a, rows, whole, m')
    BY <1>1, <1>3, <1>6, <1>8, <1>10, <2>2, <2>3, <2>4, Zenon DEF RoundOf
  <2> QED
    BY <2>5, AfterRoundIsText
<1>13. MtpInStep'
  BY <1>12, Zenon DEF MtpInStep
<1>14. cur' = m.pos + d + 2
  BY <1>5, <1>6, <1>17, NextHead
<1>15. RoomBehind => m.pos + g + 1 <= MaxCtx
  BY <1>3, <1>6, <1>9, RoomStays
<1>16. Pass(g, a, o, k, d, "round")
  <2>1. g <= Gen - n /\ m'.pos = m.pos + d + 1 /\ d = (IF o.why = "" THEN a ELSE o.kept)
    BY <1>1, <1>3, <1>5, <1>12
  <2> QED
    BY <1>2, <1>17, <1>4, <1>9, <1>12, <1>13, <1>14, <1>15, <2>1, Zenon DEF Pass
<1> QED
  BY <1>3, <1>4, <1>6, <1>16, Zenon DEF IsPass

LEMMA SerialStepIsPass ==
    ASSUME DecodeInv, SerialStep
    PROVE  IsPass
<1>1. /\ Running /\ Loop = "ngram" /\ pc = "round" /\ n < Gen /\ m.pos < MaxCtx
      /\ m' = Ingested(m, <<cur>>) /\ Reaches(m.pos + 1) /\ UNCHANGED kind
  BY Zenon DEF SerialStep, Running
<1>2. PICK o \in Emitted(Heads(0)) :
          /\ cur' = Heads(0)[1] /\ n' = n + o.kept /\ sent' = sent \o o.toks
          /\ Leaves(o.why, "round")
  BY Zenon DEF SerialStep
<1>3. 0 \in Nat /\ 0 \in 0 .. 0
  OBVIOUS
<1>4. PICK k \in 0 .. 0 + 1 : Arrive(o, m.pos, 0, k)
  BY <1>2, <1>3, HeadsArrive
<1>5. PICK keep : keep = (IF o.why = "" THEN 0 ELSE o.kept) /\ keep = 0
  <2>1. Min({o.kept, 0}) = IF o.why = "" THEN 0 ELSE o.kept
    BY <1>3, <1>4, KeepIs, Zenon
  <2>2. Min({o.kept, 0}) \in 0 .. 0
    BY <1>3, <1>4, KeepIs, Zenon
  <2>3. Min({o.kept, 0}) = 0
    BY <2>2
  <2> QED
    BY <2>1, <2>3, Zenon
<1>6. PICK p \in Nat \ {0} : p = m.pos
  BY Counts
<1>7. OfText(m') /\ m'.pos = p + 1
  <2>1. PICK rows : rows = <<cur>>
    OBVIOUS
  <2>2. rows \in Seq(Nat) /\ Len(rows) = 1 /\ rows[1] = m.pos + 1
    BY <1>6, <2>1, Counts
  <2>3. \A i \in 1 .. Len(rows) : rows[i] = m.pos + i
    BY <2>2
  <2>4. /\ OfText(Ingested(m, rows)) /\ Ingested(m, rows).pos = m.pos + Len(rows)
    BY <2>2, <2>3, Counts, IngestKeepsText
  <2> QED
    BY <1>1, <1>6, <2>1, <2>2, <2>4
<1>8. MtpInStep'
  BY <1>1 DEF MtpInStep, Mtp
<1>9. cur' = m.pos + keep + 2
  <2>1. Heads(0)[0 + 1] = m.pos + 0 + 2
    BY <1>3, NextHead
  <2>2. 0 + 1 = 1
    OBVIOUS
  <2> QED
    BY <1>2, <1>5, <2>1, <2>2, Zenon
<1>10. /\ 0 <= Gen - n /\ m.pos + 0 + 1 <= MaxCtx /\ m'.pos = m.pos + keep + 1
       /\ m.pos + 0 + 1 = m.pos + 1
  <2>1. 0 <= Gen - n
    BY <1>1, Counts, Sizes
  <2>2. p + 0 + 1 = p + 1 /\ p + 1 <= MaxCtx
    BY <1>1, <1>6, Sizes
  <2> QED
    BY <1>5, <1>6, <1>7, <2>1, <2>2, Zenon
<1>11. Pass(0, 0, o, k, keep, "round")
  BY <1>1, <1>2, <1>4, <1>5, <1>7, <1>8, <1>9, <1>10, Zenon DEF Pass
<1> QED
  BY <1>3, <1>4, <1>11, Zenon DEF IsPass

(* A pass of the ngram loop over c drafts leaves the text of what it keeps. *)
PassOf(p, c, d, a, rows, y) ==
    /\ p \in Nat \ {0} /\ p = m.pos /\ OfText(m) /\ MtpInStep
    /\ c \in Nat /\ d \in 0 .. c /\ d <= a /\ (d = c => a = c)
    /\ rows \in Seq(Nat) /\ rows = Rows(a, c) /\ Len(rows) = c + 1
    /\ \A i \in 1 .. d + 1 : rows[i] = p + i
    /\ y = AfterPass(c, a, d)

LEMMA AfterPassIsText ==
    ASSUME NEW p, NEW c, NEW d, NEW a, NEW rows, NEW y, PassOf(p, c, d, a, rows, y)
    PROVE  /\ OfText(y) /\ y.pos = p + d + 1
           /\ Mtp => y.mtpPos = y.pos - 1 /\ Right(y.mtp, y.pos - 1)
<1> /\ p \in Nat \ {0} /\ p = m.pos /\ OfText(m) /\ c \in Nat /\ d \in 0 .. c
    /\ rows \in Seq(Nat) /\ Len(rows) = c + 1 /\ \A i \in 1 .. d + 1 : rows[i] = p + i
  BY Zenon DEF PassOf
<1>1. PICK q \in Nat : q = p - 1 /\ p = q + 1
  OBVIOUS
<1>2. PICK mm : /\ mm = IF d = c THEN Ingested(m, rows)
                        ELSE Replayed(m, Ingested(m, rows), SubSeq(rows, 1, d + 1))
                /\ y = IF Mtp THEN MtpPatched(mm, p, MtpRows(p, d + 1, p)) ELSE mm
  <2>1. m.R = p
    BY DEF OfText
  <2> QED
    BY <2>1, Zenon DEF PassOf, AfterPass
<1>3. OfText(mm) /\ mm.pos = p + d + 1 /\ mm.mtp = m.mtp
  <2>1. CASE d = c
    <3>1. \A i \in 1 .. Len(rows) : rows[i] = m.pos + i
      BY <2>1
    <3>2. OfText(mm) /\ mm.pos = m.pos + Len(rows) /\ mm.mtp = m.mtp
      BY <1>2, <2>1, <3>1, IngestKeepsText
    <3>3. p + (d + 1) = p + d + 1 /\ Len(rows) = d + 1
      BY <2>1
    <3> QED
      BY <3>2, <3>3
  <2>2. CASE d # c
    <3>1. d \in Nat /\ d + 1 <= Len(rows)
      BY <2>2
    <3>2. \A i \in 1 .. d + 1 : rows[i] = m.pos + i
      OBVIOUS
    <3>3. mm = Replayed(m, Ingested(m, rows), SubSeq(rows, 1, d + 1))
      BY <1>2, <2>2, Zenon
    <3>4. OfText(mm) /\ mm.pos = m.pos + d + 1 /\ mm.mtp = m.mtp
      BY <3>1, <3>2, <3>3, ReplayKeepsText
    <3> QED
      BY <3>4
  <2> QED
    BY <2>1, <2>2
<1>4. CASE ~ Mtp
  <2>1. y = mm
    BY <1>2, <1>4, Zenon
  <2> QED
    BY <1>3, <1>4, <2>1
<1>5. CASE Mtp
  <2>1. PICK add : add = MtpRows(p, d + 1, p)
    OBVIOUS
  <2>2. add \in Seq(Nat) /\ Len(add) = d + 1 /\ \A i \in 1 .. d + 1 : add[i] = q + i
    <3>1. d + 1 \in Nat
      OBVIOUS
    <3>2. /\ MtpRows(p, d + 1, p) \in Seq(Nat) /\ Len(MtpRows(p, d + 1, p)) = d + 1
          /\ \A i \in 1 .. d + 1 : MtpRows(p, d + 1, p)[i] = p - 1 + i
      BY <3>1, MtpRowsAre
    <3> QED
      BY <1>1, <2>1, <3>2
  <2>3. y = MtpPatched(mm, q + 1, add)
    BY <1>1, <1>2, <1>5, <2>1, Zenon
  <2>4. Right(m.mtp, q)
    BY <1>1, <1>5, Zenon DEF PassOf, MtpInStep
  <2>10. d + 1 \in 0 .. Len(add) /\ Right(mm.mtp, q)
    BY <1>3, <2>2, <2>4
  <2>5. PICK e : e = d + 1 /\ e \in 0 .. Len(add) /\ Right(mm.mtp, q)
    BY <2>10, Zenon
  <2>6. /\ OfText(y) /\ y.pos = mm.pos /\ y.mtpPos = q + Len(add)
        /\ Right(y.mtp, q + (d + 1))
    <3>1. \A i \in 1 .. e : add[i] = q + i
      BY <2>2, <2>5, Zenon
    <3>2. PatchFits(mm, q, add, e)
      BY <1>3, <2>2, <2>5, <3>1, Zenon DEF PatchFits
    <3>3. LET z == MtpPatched(mm, q + 1, add)
          IN  OfText(z) /\ z.pos = mm.pos /\ z.mtpPos = q + Len(add) /\ Right(z.mtp, q + e)
      BY <3>2, PatchFitting
    <3> QED
      BY <2>3, <2>5, <3>3, Zenon
  <2>7. q + (d + 1) = (p + d + 1) - 1
    <3>1. \A u, v \in Nat : u + (v + 1) = ((u + 1) + v + 1) - 1
      OBVIOUS
    <3>2. d \in Nat
      OBVIOUS
    <3>3. q + (d + 1) = ((q + 1) + d + 1) - 1
      BY <3>1, <3>2
    <3> QED
      BY <1>1, <3>3, Zenon
  <2>8. y.pos = p + d + 1
    BY <1>3, <2>6, Zenon
  <2>9. y.mtpPos = (p + d + 1) - 1 /\ Right(y.mtp, (p + d + 1) - 1)
    BY <2>2, <2>6, <2>7
  <2> QED
    BY <2>6, <2>8, <2>9
<1> QED
  BY <1>4, <1>5

(* What a pass finds of the draft.                                          *)
LEMMA DraftIs ==
    ASSUME DecodeInv, pc = "chunk"
    PROVE  /\ Loop # "spec" /\ DraftFits
           /\ \E len, right \in Nat :
                 /\ len = draft.len /\ right = draft.right /\ len >= 1 /\ right <= len
                 /\ len <= Gen - n - 1 /\ len <= MaxCtx - m.pos - 1
<1>1. Loop # "spec" /\ DraftFits
  BY Zenon DEF DecodeInv
<1>2. /\ draft.len \in Nat \ {0} /\ draft.right \in 0 .. draft.len
      /\ draft.len <= Gen - n - 1 /\ draft.len <= MaxCtx - m.pos - 1
  BY <1>1, Zenon DEF DraftFits
<1>3. draft.len \in Nat /\ draft.len >= 1
  BY <1>2
<1>4. draft.right \in Nat /\ draft.right <= draft.len
  BY <1>2
<1> QED
  BY <1>1, <1>2, <1>3, <1>4

LEMMA NgramPassIsPass ==
    ASSUME DecodeInv, NgramPass
    PROVE  IsPass
<1>1. pc = "chunk" /\ UNCHANGED kind
  BY Zenon DEF NgramPass
<1>2. Loop # "spec" /\ DraftFits
  BY <1>1, DraftIs
<1>3. PICK len \in Nat, right \in Nat :
          /\ len = draft.len /\ right = draft.right /\ len >= 1 /\ right <= len
          /\ len <= Gen - n - 1 /\ len <= MaxCtx - m.pos - 1
  BY <1>1, DraftIs
<1>4. PICK c, a :
          /\ c = (IF Loop = "chain" THEN Min({Chunk, len}) ELSE len) /\ a = Min({right, c})
          /\ \E o \in Emitted(Heads(a)) :
                LET keep == Min({o.kept, a})
                    on   == /\ ~ (o.kept < a + 1) /\ keep = c /\ len - c - 1 > 0
                            /\ right > c
                IN  /\ m' = AfterPass(c, a, keep) /\ cur' = Heads(a)[keep + 1]
                    /\ n' = n + o.kept /\ sent' = sent \o o.toks
                    /\ draft' = IF on THEN [len |-> len - c - 1, right |-> right - c - 1]
                                ELSE <<>>
                    /\ Leaves(o.why, IF on THEN "chunk" ELSE "round")
          /\ Reaches(m.pos + c + 1)
  BY <1>3, Zenon DEF NgramPass
<1>5. PICK o, keep, on, next :
          /\ o \in Emitted(Heads(a))
          /\ keep = Min({o.kept, a}) /\ next = (IF on THEN "chunk" ELSE "round")
          /\ on = (/\ ~ (o.kept < a + 1) /\ keep = c /\ len - c - 1 > 0 /\ right > c)
          /\ m' = AfterPass(c, a, keep) /\ cur' = Heads(a)[keep + 1]
          /\ n' = n + o.kept /\ sent' = sent \o o.toks
          /\ draft' = IF on THEN [len |-> len - c - 1, right |-> right - c - 1] ELSE <<>>
          /\ Leaves(o.why, next)
  BY <1>4, Zenon
<1>6. c \in Nat /\ c >= 1 /\ c <= len
  <2>1. Chunk \in Nat /\ Chunk >= 1
    BY DecodeAssumption DEF DecodeAssumption
  <2>2. Min({Chunk, len}) = IF Chunk <= len THEN Chunk ELSE len
    BY <2>1, MinOfTwo
  <2>3. Min({Chunk, len}) \in Nat /\ Min({Chunk, len}) >= 1 /\ Min({Chunk, len}) <= len
    BY <1>3, <2>1, <2>2
  <2> QED
    BY <1>3, <1>4, <2>3
<1>7. a \in Nat /\ a \in 0 .. c /\ a <= right
  <2>1. Min({right, c}) = IF right <= c THEN right ELSE c
    BY <1>6, MinOfTwo
  <2>2. a = Min({right, c})
    BY <1>4, Zenon
  <2> QED
    BY <1>6, <2>1, <2>2
<1>8. PICK k \in 0 .. a + 1 : Arrive(o, m.pos, a, k)
  BY <1>5, <1>7, HeadsArrive
<1>9. keep = (IF o.why = "" THEN a ELSE o.kept) /\ keep \in 0 .. a
      /\ ((o.kept < a + 1) <=> o.why # "")
  BY <1>5, <1>7, <1>8, KeepIs, Zenon
<1>10. keep \in 0 .. c /\ keep <= a /\ (keep = c => a = c) /\ keep \in Nat
  <2>1. keep \in 0 .. a
    BY <1>9, Zenon
  <2> QED
    BY <1>6, <1>7, <2>1
<1>11. PICK p \in Nat \ {0}, z \in Nat : p = m.pos /\ z = n
  BY Counts
<1>12. PICK rows \in Seq(Nat) :
           /\ rows = Rows(a, c) /\ Len(rows) = c + 1
           /\ \A i \in 1 .. keep + 1 : rows[i] = p + i
  <2>1. \A i \in 1 .. keep + 1 : i \in 1 .. a + 1
    BY <1>7, <1>10
  <2>2. /\ Rows(a, c) \in Seq(Nat) /\ Len(Rows(a, c)) = c + 1
        /\ \A i \in 1 .. a + 1 : Rows(a, c)[i] = m.pos + i
    BY <1>6, <1>7, RowsAre, Zenon
  <2> QED
    BY <1>11, <2>1, <2>2, Zenon
<1>13. /\ OfText(m') /\ m'.pos = p + keep + 1
       /\ Mtp => m'.mtpPos = m'.pos - 1 /\ Right(m'.mtp, m'.pos - 1)
  <2>1. OfText(m) /\ MtpInStep
    BY Zenon DEF DecodeInv
  <2>2. PassOf(p, c, keep, a, rows, m')
    BY <1>5, <1>6, <1>10, <1>11, <1>12, <2>1, Zenon DEF PassOf
  <2> QED
    BY <2>2, AfterPassIsText
<1>14. MtpInStep'
  BY <1>13, Zenon DEF MtpInStep, Mtp
<1>15. cur' = m.pos + keep + 2
  BY <1>5, <1>7, <1>9, NextHead, Zenon
<1>16. c <= Gen - n /\ m.pos + c + 1 <= MaxCtx
  <2>1. len <= Gen - z - 1 /\ len <= MaxCtx - p - 1
    BY <1>3, <1>11, Zenon
  <2>2. c <= Gen - z /\ p + c + 1 <= MaxCtx
    BY <1>6, <2>1, Sizes
  <2> QED
    BY <1>11, <2>2, Zenon
<1>17. next \in {"round", "chunk"} /\ (next = "chunk" => on)
  BY <1>5, Zenon
<1>18. ASSUME o.why = "", next = "chunk" PROVE DraftFits'
  <2>1. /\ on /\ keep = c /\ len - c - 1 > 0 /\ right > c
        /\ draft' = [len |-> len - c - 1, right |-> right - c - 1]
    BY <1>5, <1>17, <1>18, Zenon
  <2>2. draft'.len = len - c - 1 /\ draft'.right = right - c - 1
    BY <2>1
  <2>3. n' = z + c + 1
    <3>1. o.kept = a + 1
      BY <1>8, <1>18, Zenon DEF Arrive
    <3>2. a = c
      BY <1>10, <2>1
    <3> QED
      BY <1>5, <1>6, <1>11, <3>1, <3>2
  <2>4. m'.pos = p + c + 1
    BY <1>13, <2>1, Zenon
  <2>5. len <= Gen - z - 1 /\ len <= MaxCtx - p - 1
    BY <1>3, <1>11, Zenon
  <2>6. /\ len - c - 1 \in Nat \ {0} /\ right - c - 1 \in 0 .. len - c - 1
        /\ len - c - 1 <= Gen - (z + c + 1) - 1
        /\ len - c - 1 <= MaxCtx - (p + c + 1) - 1
    <3>1. len - c - 1 > 0 /\ right > c /\ right <= len
      BY <1>3, <2>1
    <3> QED
      BY <1>6, <2>5, <3>1, Sizes
  <2> QED
    BY <2>2, <2>3, <2>4, <2>6, Zenon DEF DraftFits, Gen
<1>19. Pass(c, a, o, k, keep, next)
  <2>1. pc \in {"round", "chunk"} /\ m'.pos = m.pos + keep + 1
    BY <1>1, <1>11, <1>13, Zenon
  <2>2. o.why = "" /\ next = "chunk" => DraftFits' /\ Loop # "spec"
    BY <1>2, <1>18, Zenon
  <2> QED
    BY <1>1, <1>4, <1>5, <1>8, <1>9, <1>13, <1>14, <1>15, <1>16, <1>17, <2>1, <2>2, Zenon
    DEF Pass
<1> QED
  BY <1>6, <1>7, <1>8, <1>19, Zenon DEF IsPass

-----------------------------------------------------------------------------
(* The invariant.                                                           *)

(* What the prefill leaves.                                                 *)
LEMMA PrefilledIs ==
    /\ OfText(Prefilled) /\ Prefilled.pos = Prompt
    /\ Prefilled.mtpPos = Prompt - 1 /\ Right(Prefilled.mtp, Prompt - 1)
<1>1. PICK q \in Nat : Prompt = q + 1 /\ q = Prompt - 1
  <2>1. Prompt - 1 \in Nat /\ Prompt = (Prompt - 1) + 1
    BY Sizes
  <2> QED
    BY <2>1
<1>2. OfText(Blank) /\ Blank.pos = 0
  <2>1. IsModel(Blank) /\ Blank.pos = 0
    BY DEF IsModel, Blank
  <2>2. RingHolds(Blank.ring, 0) /\ Right(<<>>, 0) /\ Len(<<>>) = 0
    BY DEF RingHolds, Right
  <2>3. Blank.S = <<>> /\ Blank.kv = <<>> /\ Blank.chist = <<>> /\ Blank.R = 0
    BY DEF Blank
  <2>4. Intact(Blank)
    BY <2>1, <2>2, <2>3, IntactMeans
  <2> QED
    BY <2>1, <2>2, <2>3, <2>4 DEF OfText
<1>3. ASSUME NEW k \in Nat
      PROVE  /\ Tokens(1, k) \in Seq(Nat) /\ Len(Tokens(1, k)) = k
             /\ \A i \in 1 .. k : Tokens(1, k)[i] = i
  <2>1. Tokens(0 + 1, 0 + k) = [i \in 1 .. k |-> 0 + i]
    BY TokensAre
  <2>2. 0 + 1 = 1 /\ 0 + k = k /\ \A i \in 1 .. k : 0 + i = i
    OBVIOUS
  <2>3. Tokens(1, k) = [i \in 1 .. k |-> i]
    BY <2>1, <2>2
  <2> QED
    BY <2>3
<1>4. PICK rows : rows = Tokens(1, Prompt)
  OBVIOUS
<1>5. rows \in Seq(Nat) /\ Len(rows) = Prompt /\ \A i \in 1 .. Len(rows) : rows[i] = i
  <2>1. Prompt \in Nat
    BY Sizes
  <2> QED
    BY <1>3, <1>4, <2>1
<1>6. OfText(Ingested(Blank, rows)) /\ Ingested(Blank, rows).pos = Prompt
  <2>1. \A i \in 1 .. Len(rows) : rows[i] = Blank.pos + i
    BY <1>2, <1>5
  <2>2. /\ OfText(Ingested(Blank, rows)) /\ Ingested(Blank, rows).pos = Blank.pos + Len(rows)
    BY <1>2, <1>5, <2>1, IngestKeepsText
  <2> QED
    BY <1>2, <1>5, <2>2, Sizes
<1>7. PICK y : y = Ingested(Blank, rows)
  OBVIOUS
<1>8. Prefilled = [y EXCEPT !.mtp = Tokens(1, q), !.mtpPos = q]
  BY <1>1, <1>4, <1>7, Zenon DEF Prefilled
<1>9. IsModel(y) /\ OfText(y) /\ y.pos = Prompt
  BY <1>6, <1>7 DEF OfText
<1>10. /\ DOMAIN Prefilled = DOMAIN y /\ Prefilled.kv = y.kv /\ Prefilled.chist = y.chist
       /\ Prefilled.S = y.S /\ Prefilled.mtp = Tokens(1, q) /\ Prefilled.mtpPos = q
       /\ Prefilled.pos = y.pos /\ Prefilled.ring = y.ring /\ Prefilled.R = y.R
  BY <1>8, <1>9 DEF IsModel
<1>11. Tokens(1, q) \in Seq(Nat) /\ Right(Tokens(1, q), q)
  BY <1>3 DEF Right
<1>12. IsModel(Prefilled)
  BY <1>9, <1>10, <1>11 DEF IsModel
<1>13. Intact(Prefilled)
  BY <1>9, <1>10, <1>12, IntactMeans DEF OfText, IsModel
<1>14. OfText(Prefilled)
  BY <1>9, <1>10, <1>12, <1>13 DEF OfText
<1> QED
  BY <1>1, <1>9, <1>10, <1>11, <1>14

LEMMA InitInv == Init => DecodeInv
<1> SUFFICES ASSUME Init PROVE DecodeInv
  OBVIOUS
<1>1. /\ kind \in Kinds /\ m = Prefilled /\ cur = Prompt + 1 /\ n = 0 /\ reach = Prompt
      /\ sent = <<>> /\ pc = "first" /\ why = ""
  BY Zenon DEF Init
<1>2. OfText(m) /\ m.pos = Prompt /\ m.mtpPos = m.pos - 1 /\ Right(m.mtp, m.pos - 1)
  BY <1>1, PrefilledIs
<1>3. /\ cur = m.pos + 1 /\ m.pos >= Prompt /\ n \in 0 .. Gen + 1 /\ reach \in Nat
      /\ sent \in Seq(Nat) /\ Len(sent) = 0 /\ Len(sent) <= MaxTokens
      /\ Len(sent) = m.pos - Prompt
  <2>1. sent \in Seq(Nat) /\ Len(sent) = 0
    <3>1. sent = <<>>
      BY <1>1, Zenon
    <3> QED
      BY <3>1
  <2>2. cur = Prompt + 1 /\ m.pos = Prompt /\ n = 0 /\ reach = Prompt
    BY <1>1, <1>2
  <2>3. n \in 0 .. Gen + 1 /\ reach \in Nat /\ 0 <= MaxTokens /\ 0 = Prompt - Prompt
    BY <2>2, Sizes
  <2> QED
    BY <2>1, <2>2, <2>3, Sizes
<1>4. WithinBudget /\ WithinContext
  <2>1. reach = Prompt
    BY <1>1
  <2>2. reach <= Prompt + MaxTokens /\ reach <= MaxCtx
    BY <2>1, Sizes
  <2> QED
    BY <2>2 DEF WithinBudget, WithinContext
<1>5. MtpInStep
  BY <1>2 DEF MtpInStep
<1>6. Len(sent) \in {m.pos - Prompt, m.pos - Prompt + 1}
  BY <1>3
<1> QED
  BY <1>1, <1>2, <1>3, <1>4, <1>5, <1>6, Zenon DEF DecodeInv

LEMMA FirstTokenInv == ASSUME DecodeInv, FirstToken PROVE DecodeInv'
<1>1. /\ pc = "first" /\ UNCHANGED <<kind, m, cur, n, draft, reach>>
      /\ \/ pc' = "over" /\ why' = "done" /\ UNCHANGED sent
         \/ pc' = "round" /\ sent' = <<cur>> /\ UNCHANGED why
         \/ pc' = "over" /\ why' = "dead" /\ UNCHANGED sent
  BY Zenon DEF FirstToken
<1>2. PICK p \in Nat : p = m.pos /\ p = Prompt /\ n = 0 /\ sent = <<>> /\ cur = p + 1
  BY <1>1, Counts, Zenon DEF DecodeInv
<1>3. why = ""
  BY <1>1, Zenon DEF DecodeInv
<1>4. CASE pc' = "over" /\ why' \in {"done", "dead"} /\ UNCHANGED sent
  BY <1>1, <1>4, Zenon
  DEF DecodeInv, OfText, IsModel, Intact, MtpInStep, WithinBudget, WithinContext, KindOf
<1>5. CASE pc' = "round" /\ sent' = <<cur>> /\ UNCHANGED why
  <2>1. sent' \in Seq(Nat) /\ Len(sent') = 1
    BY <1>2, <1>5
  <2>2. /\ Len(sent') <= MaxTokens /\ Len(sent') = m'.pos - Prompt + 1
        /\ n' = m'.pos - Prompt /\ n' <= m'.pos - Prompt
    BY <1>1, <1>2, <2>1, Sizes
  <2>3. Len(sent') \in {m'.pos - Prompt, m'.pos - Prompt + 1}
    BY <2>2
  <2> QED
    BY <1>1, <1>3, <1>5, <2>1, <2>2, <2>3, Zenon
    DEF DecodeInv, OfText, IsModel, Intact, MtpInStep, WithinBudget, WithinContext, KindOf
<1> QED
  BY <1>1, <1>4, <1>5, Zenon

LEMMA EndInv ==
    ASSUME DecodeInv, pc' = "over", why' = "length",
           UNCHANGED <<kind, m, cur, n, sent, draft, reach>>
    PROVE  DecodeInv'
BY Zenon DEF DecodeInv, OfText, IsModel, Intact, MtpInStep, WithinBudget, WithinContext, KindOf

LEMMA WantIs ==
    ASSUME DecodeInv
    PROVE  Want \in Int /\ Want <= Gen - n - 1 /\ Want <= MaxCtx - m.pos - 1
<1>1. PICK a \in Int, b \in Int, c \in Int :
          a = MaxDraft /\ b = Gen - n - 1 /\ c = MaxCtx - m.pos - 1
  <2>1. MaxDraft \in Int
    BY DecodeAssumption DEF DecodeAssumption
  <2>2. Gen - n - 1 \in Int /\ MaxCtx - m.pos - 1 \in Int
    BY Counts, Sizes
  <2> QED
    BY <2>1, <2>2
<1>2. Min({a, b, c}) \in Int /\ Min({a, b, c}) <= b /\ Min({a, b, c}) <= c
  BY MinOfThree
<1> QED
  BY <1>1, <1>2 DEF Want

LEMMA NgramDraftsInv == ASSUME DecodeInv, NgramDrafts PROVE DecodeInv'
<1>1. /\ Running /\ Loop # "spec" /\ pc = "round" /\ pc' = "chunk"
      /\ UNCHANGED <<kind, m, cur, n, sent, why, reach>>
  BY Zenon DEF NgramDrafts, Running
<1>2. PICK len \in 1 .. Want, right \in 0 .. Want :
          right <= len /\ draft' = [len |-> len, right |-> right]
  BY Zenon DEF NgramDrafts
<1>3. draft'.len = len /\ draft'.right = right
  BY <1>2
<1>4. PICK w \in Int : w = Want /\ w <= Gen - n - 1 /\ w <= MaxCtx - m.pos - 1
  BY WantIs
<1>5. len \in 1 .. w /\ right \in 0 .. w
  BY <1>4
<1>6. len \in Nat \ {0} /\ right \in 0 .. len /\ len <= Gen - n - 1 /\ len <= MaxCtx - m.pos - 1
  <2>1. len \in Nat \ {0} /\ right \in 0 .. len /\ len <= w
    BY <1>2, <1>5
  <2>2. Gen - n - 1 \in Int /\ MaxCtx - m.pos - 1 \in Int
    <3>1. n \in Nat /\ m.pos \in Nat
      BY Counts
    <3> QED
      BY <3>1, Sizes
  <2>3. len <= Gen - n - 1 /\ len <= MaxCtx - m.pos - 1
    BY <1>4, <2>1, <2>2
  <2> QED
    BY <2>1, <2>3
<1>7. DraftFits'
  BY <1>1, <1>3, <1>6, Zenon DEF DraftFits, Gen
<1> QED
  BY <1>1, <1>7, Zenon
  DEF DecodeInv, OfText, IsModel, Intact, MtpInStep, WithinBudget, WithinContext, KindOf, Unpaused

(* The pause at a checkpoint token ingests it and goes on.                  *)
PauseNew ==
    Ingested(IF Mtp THEN MtpPatched(m, m.pos, MtpRows(m.pos, 1, m.R)) ELSE m, <<cur>>)

LEMMA PauseNewIs ==
    ASSUME DecodeInv
    PROVE  /\ OfText(PauseNew) /\ PauseNew.pos = m.pos + 1
           /\ Mtp => PauseNew.mtpPos = m.pos /\ Right(PauseNew.mtp, m.pos)
<1>1. PICK p \in Nat \ {0}, q \in Nat : p = m.pos /\ p = q + 1 /\ q = p - 1
  <2>1. PICK p \in Nat \ {0} : p = m.pos
    BY Counts
  <2>2. p - 1 \in Nat /\ p = (p - 1) + 1
    OBVIOUS
  <2> QED
    BY <2>1, <2>2
<1>2. OfText(m) /\ m.R = p /\ cur = p + 1
  BY <1>1, Counts
<1>3. PICK fed : fed = (IF Mtp THEN MtpPatched(m, p, MtpRows(p, 1, p)) ELSE m)
  OBVIOUS
<1>4. OfText(fed) /\ fed.pos = p /\ (Mtp => fed.mtpPos = p /\ Right(fed.mtp, p))
  <2>1. CASE ~ Mtp
    BY <1>1, <1>2, <1>3, <2>1
  <2>2. CASE Mtp
    <3>1. PICK rows : rows = MtpRows(p, 1, p)
      OBVIOUS
    <3>2. rows \in Seq(Nat) /\ Len(rows) = 1 /\ \A i \in 1 .. 1 : rows[i] = q + i
      <4>1. 1 \in Nat
        OBVIOUS
      <4> QED
        BY <1>1, <3>1, <4>1, MtpRowsAre
    <3>3. Right(m.mtp, q)
      BY <1>1, <2>2, Zenon DEF DecodeInv, MtpInStep
    <3>4. 1 \in 0 .. Len(rows)
      BY <3>2
    <3>5. PatchFits(m, q, rows, 1)
      BY <1>2, <3>2, <3>3, <3>4, Zenon DEF PatchFits
    <3>6. LET z == MtpPatched(m, q + 1, rows)
          IN  OfText(z) /\ z.pos = m.pos /\ z.mtpPos = q + Len(rows) /\ Right(z.mtp, q + 1)
      BY <3>5, PatchFitting
    <3>7. fed = MtpPatched(m, q + 1, rows)
      BY <1>1, <1>3, <2>2, <3>1, Zenon
    <3> QED
      BY <1>1, <3>2, <3>6, <3>7
  <2> QED
    BY <2>1, <2>2
<1>5. PICK rows : rows = <<cur>>
  OBVIOUS
<1>6. rows \in Seq(Nat) /\ Len(rows) = 1 /\ \A i \in 1 .. Len(rows) : rows[i] = fed.pos + i
  <2>1. rows = <<p + 1>>
    BY <1>2, <1>5
  <2>2. rows \in Seq(Nat) /\ Len(rows) = 1 /\ rows[1] = p + 1
    BY <2>1
  <2> QED
    BY <1>4, <2>2
<1>7. /\ OfText(Ingested(fed, rows)) /\ Ingested(fed, rows).pos = fed.pos + Len(rows)
      /\ Ingested(fed, rows).mtp = fed.mtp /\ Ingested(fed, rows).mtpPos = fed.mtpPos
  <2>1. IsModel(fed)
    BY <1>4 DEF OfText
  <2> QED
    BY <1>4, <1>6, <2>1, IngestKeepsText, IngestedFields
<1>8. PauseNew = Ingested(fed, rows)
  BY <1>1, <1>2, <1>3, <1>5, Zenon DEF PauseNew
<1> QED
  BY <1>1, <1>4, <1>6, <1>7, <1>8

LEMMA CkptPauseMeans ==
    ASSUME DecodeInv, CkptPause
    PROVE  /\ pc = "pause" /\ UNCHANGED <<kind, draft>>
           /\ \/ /\ pc' = "over" /\ why' = "dead" /\ UNCHANGED <<m, cur, n, sent, reach>>
              \/ /\ m' = PauseNew /\ cur' = PauseNew.pos + 1 /\ Reaches(PauseNew.pos)
                 /\ \/ /\ pc' = "over" /\ sent' = Append(sent, cur) /\ n' \in {0, n}
                       /\ why' \in {"done", "length", "dead"}
                       /\ why' = "length" => Len(sent) + 1 >= MaxTokens
                       /\ why' = "done" => KindOf(PauseNew.pos + 1) = "eos"
                    \/ /\ pc' = "round" /\ sent' = sent \o <<cur, PauseNew.pos + 1>>
                       /\ n' = 0 /\ UNCHANGED why /\ ~ (Len(sent) + 1 >= MaxTokens)
                       /\ KindOf(PauseNew.pos + 1) # "eos"
<1>1. Intact(PauseNew)
  BY PauseNewIs DEF OfText
<1>2. PICK fed, new, next, end :
          /\ fed = (IF Mtp THEN MtpPatched(m, m.pos, MtpRows(m.pos, 1, m.R)) ELSE m)
          /\ new = Ingested(fed, <<cur>>)
          /\ next = (IF Intact(new) THEN new.pos + 1 ELSE Wrong)
          /\ end = (IF KindOf(next) = "eos" THEN "done"
                    ELSE IF Len(sent) + 1 >= MaxTokens THEN "length" ELSE "")
          /\ \/ /\ pc' = "over" /\ why' = "dead" /\ UNCHANGED <<m, cur, n, sent, reach>>
             \/ /\ end # "" /\ pc' = "over" /\ why' = end /\ sent' = Append(sent, cur)
                /\ m' = new /\ cur' = next /\ Reaches(new.pos) /\ UNCHANGED n
             \/ /\ end = "" /\ m' = new /\ cur' = next /\ Reaches(new.pos) /\ n' = 0
                /\ \/ pc' = "round" /\ sent' = sent \o <<cur, next>> /\ UNCHANGED why
                   \/ pc' = "over" /\ sent' = Append(sent, cur) /\ why' = "dead"
  BY Zenon DEF CkptPause
<1>3. new = PauseNew
  BY <1>2, Zenon DEF PauseNew
<1>4. next = PauseNew.pos + 1
  BY <1>1, <1>2, <1>3, Zenon
<1>5. /\ end \in {"", "done", "length"}
      /\ end = "length" => Len(sent) + 1 >= MaxTokens
      /\ end = "done" => KindOf(next) = "eos"
      /\ end = "" => KindOf(next) # "eos" /\ ~ (Len(sent) + 1 >= MaxTokens)
  BY <1>2, Zenon
<1>6. pc = "pause" /\ UNCHANGED <<kind, draft>>
  BY Zenon DEF CkptPause
<1> QED
  BY <1>2, <1>3, <1>4, <1>5, <1>6, Zenon

LEMMA CkptPauseInv == ASSUME DecodeInv, CkptPause PROVE DecodeInv'
<1>1. pc = "pause" /\ UNCHANGED <<kind, draft>> /\ why = ""
  BY CkptPauseMeans, Zenon DEF DecodeInv
<1>2. CASE pc' = "over" /\ why' = "dead" /\ UNCHANGED <<m, cur, n, sent, reach>>
  BY <1>1, <1>2, Zenon
  DEF DecodeInv, OfText, IsModel, Intact, MtpInStep, WithinBudget, WithinContext, KindOf
<1>3. ASSUME /\ m' = PauseNew /\ cur' = PauseNew.pos + 1 /\ Reaches(PauseNew.pos)
             /\ \/ /\ pc' = "over" /\ sent' = Append(sent, cur) /\ n' \in {0, n}
                   /\ why' \in {"done", "length", "dead"}
                \/ /\ pc' = "round" /\ sent' = sent \o <<cur, PauseNew.pos + 1>>
                   /\ n' = 0 /\ UNCHANGED why /\ ~ (Len(sent) + 1 >= MaxTokens)
      PROVE  DecodeInv'
  <2>1. PICK p \in Nat, l \in Nat :
            /\ p = m.pos /\ l = Len(sent) /\ p >= Prompt /\ cur = p + 1 /\ l <= MaxTokens
    BY Counts
  <2>2. l = p - Prompt /\ l < MaxTokens /\ KindOf(cur) = "ckpt"
    BY <1>1, <2>1, Zenon DEF DecodeInv
  <2>3. /\ OfText(m') /\ m'.pos = p + 1 /\ m'.pos - 1 = p /\ MtpInStep'
    <3>1. /\ OfText(PauseNew) /\ PauseNew.pos = p + 1
          /\ Mtp => PauseNew.mtpPos = p /\ Right(PauseNew.mtp, p)
      BY <2>1, PauseNewIs, Zenon
    <3>2. (p + 1) - 1 = p
      OBVIOUS
    <3> QED
      BY <1>3, <3>1, <3>2, Zenon DEF MtpInStep
  <2>4. cur' = m'.pos + 1 /\ m'.pos >= Prompt
    BY <1>3, <2>1, <2>3, Sizes
  <2>5. PICK r \in Nat : r = reach /\ reach' = IF r <= p + 1 THEN p + 1 ELSE r
    <3>1. PICK r \in Nat : r = reach
      BY Counts
    <3>2. Max({r, p + 1}) = IF r <= p + 1 THEN p + 1 ELSE r
      BY MaxOfTwo
    <3>3. reach' = Max({r, p + 1})
      BY <1>3, <2>3, <3>1, Zenon DEF Reaches
    <3> QED
      BY <3>1, <3>2, <3>3
  <2>6. reach' \in Nat
    BY <2>5
  <2>7. ~ Unpaused
    BY <2>2 DEF Unpaused, KindOf
  <2>8. kind' \in Kinds /\ ~ Unpaused' /\ WithinBudget'
    BY <1>1, <2>7 DEF DecodeInv, Unpaused, WithinBudget
  <2>9. RoomBehind => WithinContext'
    <3> SUFFICES ASSUME RoomBehind PROVE reach' <= MaxCtx
      BY DEF WithinContext
    <3>1. r <= MaxCtx
      BY <2>5, Zenon DEF DecodeInv, WithinContext
    <3>2. p + 1 <= MaxCtx
      BY <2>2, Sizes
    <3> QED
      BY <2>5, <3>1, <3>2
  <2>10. CASE pc' = "over" /\ sent' = Append(sent, cur) /\ n' \in {0, n}
              /\ why' \in {"done", "length", "dead"}
    <3>1. sent' \in Seq(Nat) /\ Len(sent') = l + 1
      <4>1. sent \in Seq(Nat) /\ cur \in Nat
        BY <2>1, Counts
      <4>2. Append(sent, cur) \in Seq(Nat) /\ Len(Append(sent, cur)) = Len(sent) + 1
        BY <4>1, AppendProperties
      <4> QED
        BY <2>1, <2>10, <4>2
    <3>2. Len(sent') <= MaxTokens /\ Len(sent') = m'.pos - Prompt
      <4>1. l + 1 <= MaxTokens /\ l + 1 = (p + 1) - Prompt
        BY <2>2, Sizes
      <4> QED
        BY <2>3, <3>1, <4>1, Zenon
    <3>3. Len(sent') \in {m'.pos - Prompt, m'.pos - Prompt + 1}
      BY <3>2
    <3>4. n' \in 0 .. Gen + 1
      <4>1. n \in 0 .. Gen + 1
        BY Zenon DEF DecodeInv
      <4>2. 0 \in 0 .. Gen + 1
        BY Sizes
      <4>3. n' = 0 \/ n' = n
        BY <2>10
      <4> QED
        BY <4>1, <4>2, <4>3, Zenon
    <3>5. pc' = "over" /\ why' \in {"", "done", "length", "cancel", "dead"} /\ why' # ""
      BY <2>10
    <3> QED
      BY <2>3, <2>4, <2>6, <2>8, <2>9, <3>1, <3>2, <3>3, <3>4, <3>5, Zenon DEF DecodeInv
  <2>11. CASE /\ pc' = "round" /\ sent' = sent \o <<cur, PauseNew.pos + 1>>
              /\ n' = 0 /\ UNCHANGED why /\ ~ (Len(sent) + 1 >= MaxTokens)
    <3>1. sent' \in Seq(Nat) /\ Len(sent') = l + 2
      <4>1. PICK two : two = <<cur, PauseNew.pos + 1>>
        OBVIOUS
      <4>2. two = <<p + 1, p + 2>>
        <5>1. PauseNew.pos = p + 1
          BY <2>1, PauseNewIs
        <5> QED
          BY <2>1, <4>1, <5>1
      <4>3. two \in Seq(Nat) /\ Len(two) = 2
        BY <4>2
      <4>4. sent \in Seq(Nat)
        BY Counts
      <4>5. sent \o two \in Seq(Nat) /\ Len(sent \o two) = Len(sent) + Len(two)
        BY <4>3, <4>4, ConcatProperties
      <4>6. sent' = sent \o two
        BY <2>11, <4>1, Zenon
      <4> QED
        BY <2>1, <4>3, <4>5, <4>6
    <3>2. l + 1 < MaxTokens
      <4>1. ~ (l + 1 >= MaxTokens)
        BY <2>1, <2>11, Zenon
      <4> QED
        BY <4>1, Sizes
    <3>3. Len(sent') <= MaxTokens /\ Len(sent') = m'.pos - Prompt + 1
      <4>1. l + 2 <= MaxTokens /\ l + 2 = (p + 1) - Prompt + 1
        BY <2>2, <3>2, Sizes
      <4> QED
        BY <2>3, <3>1, <4>1, Zenon
    <3>4. Len(sent') \in {m'.pos - Prompt, m'.pos - Prompt + 1}
      BY <3>3
    <3>5. n' \in 0 .. Gen + 1 /\ n' <= m'.pos - Prompt
      <4>1. n' = 0
        BY <2>11
      <4>2. 0 \in 0 .. Gen + 1 /\ 0 <= m'.pos - Prompt
        BY <2>1, <2>3, Sizes
      <4> QED
        BY <4>1, <4>2
    <3>6. pc' = "round" /\ why' = ""
      BY <1>1, <2>11
    <3> QED
      BY <2>3, <2>4, <2>6, <2>8, <2>9, <3>1, <3>3, <3>4, <3>5, <3>6, Zenon DEF DecodeInv
  <2> QED
    BY <1>3, <2>10, <2>11
<1> QED
  BY <1>2, <1>3, CkptPauseMeans, Zenon

LEMMA NextInv == DecodeInv /\ [Next]_vars => DecodeInv'
<1> SUFFICES ASSUME DecodeInv, [Next]_vars PROVE DecodeInv'
  OBVIOUS
<1>1. IsPass => DecodeInv'
  BY PassKeepsInv, Zenon DEF IsPass
<1>2. CASE FirstToken
  BY <1>2, FirstTokenInv
<1>3. CASE LoopEnds
  BY <1>3, EndInv, Zenon DEF LoopEnds
<1>4. CASE MtpRound
  BY <1>1, <1>4, MtpRoundIsPass
<1>5. CASE ContextEdge
  BY <1>5, EndInv, Zenon DEF ContextEdge
<1>6. CASE SerialStep
  BY <1>1, <1>6, SerialStepIsPass
<1>7. CASE NgramDrafts
  BY <1>7, NgramDraftsInv
<1>8. CASE NgramPass
  BY <1>1, <1>8, NgramPassIsPass
<1>9. CASE CkptPause
  BY <1>9, CkptPauseInv
<1>10. CASE UNCHANGED vars
  BY <1>10, Zenon
  DEF vars, DecodeInv, OfText, IsModel, Intact, MtpInStep, WithinBudget, WithinContext,
      KindOf, Unpaused, DraftFits
<1> QED
  BY <1>2, <1>3, <1>4, <1>5, <1>6, <1>7, <1>8, <1>9, <1>10, Zenon DEF Next

(* Whatever is drafted, accepted, refused or taken back, in any of the      *)
(* three loops, the counts, the states and the rows fit together.           *)
THEOREM DecodeInductive == Spec => []DecodeInv
BY InitInv, NextInv, PTL DEF Spec

(* In all three loops, without a condition: a rejected or refused draft     *)
(* leaves no trace in the history, the recurrent state, the rings, the rows *)
(* or MTP, and what the model holds is what the client got, but for one     *)
(* token.                                                                   *)
THEOREM StateStaysText ==
    Spec => [](TypeOK /\ StateIsText /\ MtpInStep /\ HistIsSent /\ WithinBudget)
<1>1. DecodeInv => TypeOK /\ StateIsText /\ MtpInStep /\ HistIsSent /\ WithinBudget
  <2> SUFFICES ASSUME DecodeInv
               PROVE  TypeOK /\ StateIsText /\ MtpInStep /\ HistIsSent /\ WithinBudget
    OBVIOUS
  <2>1. /\ pc \in {"first", "round", "chunk", "pause", "over"}
        /\ why \in {"", "done", "length", "cancel", "dead"} /\ (why = "" <=> pc # "over")
        /\ n \in 0 .. Gen + 1 /\ reach \in Nat
        /\ OfText(m) /\ MtpInStep /\ WithinBudget
    BY Zenon DEF DecodeInv
  <2>2. DOMAIN m = DOMAIN Blank
    BY <2>1 DEF OfText, IsModel, Blank
  <2>3. StateIsText
    BY <2>1 DEF OfText, StateIsText
  <2>4. HistIsSent
    <3>1. PICK p \in Nat, l \in Nat : p = m.pos /\ l = Len(sent)
      BY Counts
    <3>2. l \in {p - Prompt, p - Prompt + 1} /\ (pc \in {"round", "chunk"} => l = p - Prompt + 1)
      BY <3>1, Zenon DEF DecodeInv
    <3>3. p - Prompt <= l /\ l <= p - Prompt + 1
      BY <3>2, Sizes
    <3> QED
      BY <3>1, <3>2, <3>3, Zenon DEF HistIsSent
  <2> QED
    BY <2>1, <2>2, <2>3, <2>4, Zenon DEF TypeOK
<1> QED
  BY <1>1, DecodeInductive, PTL

(* Nor does a pass run past the context, as long as spec_loop has the room  *)
(* it does not look for.                                                    *)
THEOREM DraftsSafe == ASSUME RoomBehind PROVE Spec => []DraftsLeaveNoTrace
<1>1. DecodeInv => WithinContext
  BY Zenon DEF DecodeInv
<1>2. TypeOK /\ StateIsText /\ MtpInStep /\ HistIsSent /\ WithinBudget /\ WithinContext
      => DraftsLeaveNoTrace
  BY Zenon DEF DraftsLeaveNoTrace
<1> QED
  BY <1>1, <1>2, DecodeInductive, StateStaysText, PTL

-----------------------------------------------------------------------------
(* The loops are the plain one to a client.                                 *)

LEMMA TextIs ==
    ASSUME DecodeInv, NEW t \in Nat, t >= Prompt + 1, t <= Prompt + MaxTokens + 1
    PROVE  KindOf(t) = kind[t]
<1>1. DOMAIN kind = Prompt + 1 .. Prompt + MaxTokens + 1
  BY DecodeAssumption, Zenon DEF DecodeInv, DecodeAssumption
<1> QED
  BY <1>1, Sizes DEF KindOf

(* k tokens of the text go out behind l others, and the reply may end.      *)
GoOut(l, k, w) ==
    /\ why = "" /\ UNCHANGED kind /\ sent \in Seq(Nat) /\ l = Len(sent) /\ l \in Nat
    /\ k \in Nat /\ l + k <= MaxTokens
    /\ sent' = sent \o [i \in 1 .. k |-> Prompt + l + i]
    /\ \A i \in 1 .. k : kind[Prompt + l + i] # "eos"
    /\ w \in {"", "done", "length", "cancel", "dead"} /\ why' = w
    /\ w = "done" => kind[Prompt + (l + k) + 1] = "eos"
    /\ w = "length" => l + k = MaxTokens

LEMMA TokensGoOut ==
    ASSUME NEW l, NEW k, NEW w, GoOut(l, k, w)
    PROVE  Serial!Next
<1>1. sent \in Seq(Nat) /\ l = Len(sent) /\ l \in Nat /\ k \in Nat /\ l + k <= MaxTokens
  BY Zenon DEF GoOut
<1>2. PICK f : f = [i \in 1 .. k |-> Prompt + l + i]
  OBVIOUS
<1>3. f \in Seq(Nat) /\ Len(f) = k
  BY <1>1, <1>2, Sizes
<1>4. Len(sent') = l + k
  <2>1. Len(sent \o f) = Len(sent) + Len(f)
    BY <1>1, <1>3, ConcatProperties
  <2>2. sent' = sent \o f
    BY <1>2, Zenon DEF GoOut
  <2> QED
    BY <1>1, <1>3, <2>1, <2>2
<1>5. k \in 0 .. MaxTokens
  BY <1>1, Sizes
<1>6. Serial!More(k)
  BY <1>1, Zenon DEF Serial!More, GoOut
<1>7. Serial!Reason(w)
  BY <1>4, Zenon DEF Serial!Reason, GoOut
<1> QED
  BY <1>5, <1>6, <1>7, Zenon DEF Serial!Next, GoOut

LEMMA NoMoreTokens == sent \in Seq(Nat) => sent = sent \o [i \in 1 .. 0 |-> Prompt + Len(sent) + i]
<1>1. [i \in 1 .. 0 |-> Prompt + Len(sent) + i] = <<>>
  OBVIOUS
<1> QED
  BY <1>1, ConcatEmptySeq

LEMMA ZeroIsNothing == 0 \in Nat /\ 1 .. 0 = {} /\ \A l \in Nat : l + 0 = l
OBVIOUS

LEMMA NothingGoesOut ==
    ASSUME DecodeInv, why = "", UNCHANGED <<kind, sent>>,
           NEW w \in {"", "done", "length", "cancel", "dead"}, why' = w,
           w = "done" => kind[Prompt + Len(sent) + 1] = "eos", w = "length" => Len(sent) = MaxTokens
    PROVE  Serial!Next
<1>1. PICK l \in Nat : l = Len(sent) /\ l <= MaxTokens
  BY Counts
<1>2. l + 0 = l /\ l + 0 <= MaxTokens /\ 0 \in Nat
  BY <1>1, ZeroIsNothing, Zenon
<1>3. sent \in Seq(Nat) /\ sent' = sent \o [i \in 1 .. 0 |-> Prompt + l + i]
  BY <1>1, Counts, NoMoreTokens, Zenon
<1>4. \A i \in 1 .. 0 : kind[Prompt + l + i] # "eos"
  BY ZeroIsNothing, Zenon
<1>5. (w = "done" => kind[Prompt + (l + 0) + 1] = "eos") /\ (w = "length" => l + 0 = MaxTokens)
  BY <1>1, <1>2, Zenon
<1>6. GoOut(l, 0, w)
  BY <1>1, <1>2, <1>3, <1>4, <1>5, Zenon DEF GoOut
<1> QED
  BY <1>6, TokensGoOut

LEMMA PlacesAre ==
    ASSUME NEW p \in Nat, NEW l \in Nat, NEW k \in Nat, p >= Prompt, l = p - Prompt + 1,
           l + k <= MaxTokens
    PROVE  /\ \A i \in Nat : Prompt + l + i = p + 1 + i
           /\ \A i \in 1 .. k : p + 1 + i >= Prompt + 1 /\ p + 1 + i <= Prompt + MaxTokens + 1
           /\ Prompt + (l + k) + 1 = p + k + 2
           /\ p + k + 2 >= Prompt + 1 /\ p + k + 2 <= Prompt + MaxTokens + 1
BY Sizes

LEMMA PassIsSerial ==
    ASSUME DecodeInv, NEW g \in Nat, NEW a \in 0 .. g, NEW o, NEW k \in 0 .. a + 1,
           NEW keep, NEW next, Pass(g, a, o, k, keep, next)
    PROVE  Serial!Next
<1>1. PICK p \in Nat, l \in Nat : p = m.pos /\ l = Len(sent) /\ p >= Prompt /\ sent \in Seq(Nat)
  BY Counts
<1>2. l = p - Prompt + 1 /\ why = "" /\ UNCHANGED kind
  BY <1>1, Zenon DEF DecodeInv, Pass
<1>3. /\ o.toks = Behind(p, k) /\ l + k <= MaxTokens
      /\ \A i \in 1 .. k : KindOf(p + 1 + i) \notin {"eos", "ckpt"}
      /\ o.why \in {"", "length", "done", "pause", "cancel", "dead"}
      /\ o.why = "length" => l + k = MaxTokens
      /\ o.why = "done" => KindOf(p + k + 2) = "eos"
  BY <1>1, Zenon DEF Pass, Arrive
<1>4. k \in Nat
  OBVIOUS
<1>5. /\ \A i \in Nat : Prompt + l + i = p + 1 + i
      /\ \A i \in 1 .. k : p + 1 + i >= Prompt + 1 /\ p + 1 + i <= Prompt + MaxTokens + 1
      /\ Prompt + (l + k) + 1 = p + k + 2
      /\ p + k + 2 >= Prompt + 1 /\ p + k + 2 <= Prompt + MaxTokens + 1
  <2>1. l = p - Prompt + 1 /\ l + k <= MaxTokens /\ p >= Prompt
    BY <1>1, <1>2, <1>3
  <2> QED
    BY <1>4, <2>1, PlacesAre
<1>6. sent' = sent \o [i \in 1 .. k |-> Prompt + l + i]
  <2>1. sent' = sent \o Behind(p, k)
    BY <1>3, Zenon DEF Pass
  <2>2. Behind(p, k) = [i \in 1 .. k |-> Prompt + l + i]
    BY <1>4, <1>5 DEF Behind
  <2> QED
    BY <2>1, <2>2
<1>7. ASSUME NEW i \in 1 .. k PROVE kind[Prompt + l + i] # "eos"
  <2>1. PICK t \in Nat : t = p + 1 + i
    BY <1>4
  <2>2. t >= Prompt + 1 /\ t <= Prompt + MaxTokens + 1
    BY <1>5, <2>1, Zenon
  <2>3. KindOf(t) = kind[t]
    BY <2>2, TextIs
  <2>4. KindOf(t) # "eos"
    BY <1>3, <2>1, Zenon
  <2>5. Prompt + l + i = t
    BY <1>4, <1>5, <2>1
  <2> QED
    BY <2>3, <2>4, <2>5, Zenon
<1>8. ASSUME o.why = "done" PROVE kind[Prompt + (l + k) + 1] = "eos"
  <2>1. PICK t \in Nat : t = p + k + 2
    BY <1>4
  <2>2. Prompt + (l + k) + 1 = t /\ t >= Prompt + 1 /\ t <= Prompt + MaxTokens + 1
    BY <1>5, <2>1, Zenon
  <2>3. KindOf(t) = kind[t]
    BY <2>2, TextIs
  <2> QED
    BY <1>3, <1>8, <2>1, <2>2, <2>3, Zenon
<1>9. PICK w \in {"", "done", "length", "cancel", "dead"} :
          why' = w /\ (w = "done" => o.why = "done") /\ (w = "length" => o.why = "length")
  <2>1. \/ o.why \in {"", "pause"} /\ why' = why
        \/ why' = "cancel"
        \/ o.why \in {"length", "done", "cancel", "dead"} /\ why' = o.why
    BY <1>3, Zenon DEF Pass, Leaves
  <2> QED
    BY <1>2, <2>1, Zenon
<1>10. GoOut(l, k, w)
  BY <1>1, <1>2, <1>3, <1>4, <1>6, <1>7, <1>8, <1>9, Zenon DEF GoOut
<1> QED
  BY <1>10, TokensGoOut

LEMMA FirstTokenIsSerial == ASSUME DecodeInv, FirstToken PROVE Serial!Next
<1>1. /\ pc = "first" /\ UNCHANGED kind
      /\ \/ pc' = "over" /\ why' = "done" /\ UNCHANGED sent /\ kind[cur] = "eos"
         \/ pc' = "round" /\ sent' = <<cur>> /\ UNCHANGED why /\ kind[cur] # "eos"
         \/ pc' = "over" /\ why' = "dead" /\ UNCHANGED sent
  BY Zenon DEF FirstToken
<1>2. sent = <<>> /\ m.pos = Prompt /\ cur = m.pos + 1 /\ why = ""
  BY <1>1, Zenon DEF DecodeInv
<1>3. Len(sent) = 0 /\ cur = Prompt + 0 + 1 /\ sent \in Seq(Nat)
  <2>1. sent \in Seq(Nat) /\ Len(sent) = 0 /\ m.pos = Prompt /\ cur = m.pos + 1
    BY <1>2, Counts
  <2> QED
    BY <2>1, Sizes
<1>4. CASE pc' = "over" /\ why' = "done" /\ UNCHANGED sent /\ kind[cur] = "eos"
  BY <1>1, <1>2, <1>3, <1>4, NothingGoesOut, Zenon
<1>5. CASE pc' = "over" /\ why' = "dead" /\ UNCHANGED sent
  BY <1>1, <1>2, <1>5, NothingGoesOut, Zenon
<1>6. CASE pc' = "round" /\ sent' = <<cur>> /\ UNCHANGED why /\ kind[cur] # "eos"
  <2>1. sent' = sent \o [i \in 1 .. 1 |-> Prompt + 0 + i]
    <3>1. PICK t \in Nat : t = Prompt + 0 + 1 /\ cur = t
      BY <1>3, Sizes
    <3>2. [i \in 1 .. 1 |-> Prompt + 0 + i] = <<t>>
      BY <3>1, Sizes
    <3>3. <<t>> \in Seq(Nat)
      OBVIOUS
    <3>4. <<>> \o <<t>> = <<t>>
      BY <3>3, ConcatEmptySeq
    <3> QED
      BY <1>2, <1>6, <3>1, <3>2, <3>4, Zenon
  <2>2. \A i \in 1 .. 1 : kind[Prompt + 0 + i] # "eos"
    <3>1. \A i \in 1 .. 1 : i = 1
      OBVIOUS
    <3> QED
      BY <1>3, <1>6, <3>1, Zenon
  <2>3. 0 \in Nat /\ 1 \in Nat /\ 0 + 1 <= MaxTokens
    BY Sizes
  <2>4. GoOut(0, 1, "")
    BY <1>1, <1>2, <1>3, <1>6, <2>1, <2>2, <2>3, Zenon DEF GoOut
  <2> QED
    BY <2>4, TokensGoOut
<1> QED
  BY <1>1, <1>4, <1>5, <1>6, Zenon

LEMMA LoopEndsIsSerial == ASSUME DecodeInv, LoopEnds \/ ContextEdge PROVE Serial!Next
<1>1. pc = "round" /\ why' = "length" /\ UNCHANGED <<kind, sent>>
  BY Zenon DEF LoopEnds, ContextEdge, Running
<1>2. why = "" /\ n <= m.pos - Prompt /\ Len(sent) = m.pos - Prompt + 1
  BY <1>1, Zenon DEF DecodeInv
<1>3. PICK p \in Nat, l \in Nat, z \in Nat :
          /\ p = m.pos /\ l = Len(sent) /\ z = n /\ p >= Prompt /\ l <= MaxTokens
          /\ z <= p - Prompt /\ l = p - Prompt + 1
  BY <1>2, Counts
<1>4. z >= Gen \/ p >= MaxCtx - 1
  <2>1. CASE LoopEnds
    <3>1. ~ (n < Gen) \/ ~ (m.pos < MaxCtx)
      BY <2>1, Zenon DEF LoopEnds
    <3> QED
      BY <1>3, <3>1, Sizes
  <2>2. CASE ContextEdge
    <3>1. Loop = "chain" /\ MtpRoom < 1 /\ n < Gen
      BY <2>2, Zenon DEF ContextEdge, Running
    <3>2. PICK c \in Int : c = MaxCtx - p - 1
      BY Sizes
    <3>3. PICK b \in Int : b = Gen - z
      BY Sizes
    <3>4. MtpRoom = Min({Gamma, b, c})
      <4>1. MtpRoom = Min({Gamma, b} \union {c})
        BY <1>3, <3>1, <3>2, <3>3, Zenon DEF MtpRoom
      <4>2. {Gamma, b} \union {c} = {Gamma, b, c}
        OBVIOUS
      <4> QED
        BY <4>1, <4>2
    <3>5. Min({Gamma, b, c}) \in {Gamma, b, c}
      BY RingFacts, MinOfThree
    <3>6. Gamma >= 1 /\ b >= 1
      <4>1. z < Gen
        BY <1>3, <3>1
      <4> QED
        BY <3>3, <4>1, RingFacts, Sizes
    <3>7. PICK r : r = Min({Gamma, b, c})
      OBVIOUS
    <3>8. r < 1 /\ r \in {Gamma, b, c}
      BY <3>1, <3>4, <3>5, <3>7, Zenon
    <3>9. r = c /\ c < 1
      BY <3>6, <3>8, RingFacts
    <3> QED
      BY <3>2, <3>9, Sizes
  <2> QED
    BY <2>1, <2>2
<1>5. l = MaxTokens
  BY <1>3, <1>4, Sizes
<1> QED
  BY <1>1, <1>2, <1>3, <1>5, NothingGoesOut, Zenon

LEMMA PausePlaces ==
    ASSUME NEW p \in Nat, NEW l \in Nat, p >= Prompt, l = p - Prompt, l < MaxTokens
    PROVE  /\ Prompt + l + 1 = p + 1 /\ Prompt + l + 2 = p + 2 /\ Prompt + (l + 1) + 1 = p + 2
           /\ p + 1 >= Prompt + 1 /\ p + 2 >= Prompt + 1
           /\ p + 1 <= Prompt + MaxTokens + 1 /\ p + 2 <= Prompt + MaxTokens + 1
           /\ p + 1 \in Nat /\ p + 2 \in Nat /\ l + 1 <= MaxTokens
BY Sizes

LEMMA CkptPauseIsSerial == ASSUME DecodeInv, CkptPause PROVE Serial!Next
<1>1. pc = "pause" /\ UNCHANGED kind /\ why = ""
  BY CkptPauseMeans, Zenon DEF DecodeInv
<1>2. PICK p \in Nat, l \in Nat :
          /\ p = m.pos /\ l = Len(sent) /\ p >= Prompt /\ cur = p + 1 /\ sent \in Seq(Nat)
  BY Counts
<1>3. l = p - Prompt /\ l < MaxTokens /\ KindOf(p + 1) = "ckpt"
  BY <1>1, <1>2, Zenon DEF DecodeInv
<1>4. /\ Prompt + l + 1 = p + 1 /\ Prompt + l + 2 = p + 2 /\ Prompt + (l + 1) + 1 = p + 2
      /\ p + 1 >= Prompt + 1 /\ p + 2 >= Prompt + 1
      /\ p + 1 <= Prompt + MaxTokens + 1 /\ p + 2 <= Prompt + MaxTokens + 1
      /\ p + 1 \in Nat /\ p + 2 \in Nat /\ l + 1 <= MaxTokens
  <2>1. l = p - Prompt /\ l < MaxTokens /\ p >= Prompt
    BY <1>2, <1>3
  <2> QED
    BY <2>1, PausePlaces
<1>5. kind[p + 1] = "ckpt" /\ KindOf(p + 2) = kind[p + 2]
  BY <1>3, <1>4, TextIs
<1>6. PauseNew.pos + 1 = p + 2
  <2>1. PauseNew.pos = p + 1
    BY <1>2, PauseNewIs
  <2> QED
    BY <2>1
<1>7. CASE pc' = "over" /\ why' = "dead" /\ UNCHANGED <<m, cur, n, sent, reach>>
  BY <1>1, <1>7, NothingGoesOut, Zenon
<1>8. CASE /\ sent' = Append(sent, cur) /\ why' \in {"done", "length", "dead"}
           /\ why' = "length" => Len(sent) + 1 >= MaxTokens
           /\ why' = "done" => KindOf(PauseNew.pos + 1) = "eos"
  <2>1. sent' = sent \o [i \in 1 .. 1 |-> Prompt + l + i]
    <3>1. [i \in 1 .. 1 |-> Prompt + l + i] = <<p + 1>>
      BY <1>4
    <3>2. Append(sent, p + 1) = sent \o <<p + 1>>
      <4>1. p + 1 \in Nat
        OBVIOUS
      <4> QED
        BY <1>2, <4>1, AppendIsConcat
    <3> QED
      BY <1>2, <1>8, <3>1, <3>2, Zenon
  <2>2. \A i \in 1 .. 1 : kind[Prompt + l + i] # "eos"
    <3>1. \A i \in 1 .. 1 : i = 1
      OBVIOUS
    <3>2. kind[Prompt + l + 1] = "ckpt"
      BY <1>4, <1>5, Zenon
    <3> QED
      BY <3>1, <3>2
  <2>3. why' = "done" => kind[Prompt + (l + 1) + 1] = "eos"
    BY <1>4, <1>5, <1>6, <1>8, Zenon
  <2>4. why' = "length" => l + 1 = MaxTokens
    <3>1. l + 1 >= MaxTokens => l + 1 = MaxTokens
      BY <1>4, Sizes
    <3> QED
      BY <1>2, <1>8, <3>1, Zenon
  <2>5. 1 \in Nat
    OBVIOUS
  <2>6. GoOut(l, 1, why')
    BY <1>1, <1>2, <1>4, <1>8, <2>1, <2>2, <2>3, <2>4, <2>5, Zenon DEF GoOut
  <2> QED
    BY <2>6, TokensGoOut
<1>9. CASE /\ sent' = sent \o <<cur, PauseNew.pos + 1>> /\ UNCHANGED why
           /\ ~ (Len(sent) + 1 >= MaxTokens) /\ KindOf(PauseNew.pos + 1) # "eos"
  <2>1. sent' = sent \o [i \in 1 .. 2 |-> Prompt + l + i]
    <3>1. [i \in 1 .. 2 |-> Prompt + l + i] = <<p + 1, p + 2>>
      BY <1>4
    <3> QED
      BY <1>2, <1>6, <1>9, <3>1, Zenon
  <2>2. \A i \in 1 .. 2 : kind[Prompt + l + i] # "eos"
    <3>1. \A i \in 1 .. 2 : i = 1 \/ i = 2
      OBVIOUS
    <3>2. kind[Prompt + l + 1] = "ckpt"
      BY <1>4, <1>5, Zenon
    <3>3. kind[Prompt + l + 2] # "eos"
      BY <1>4, <1>5, <1>6, <1>9, Zenon
    <3> QED
      BY <3>1, <3>2, <3>3
  <2>3. l + 2 <= MaxTokens /\ 2 \in Nat
    <3>1. ~ (l + 1 >= MaxTokens)
      BY <1>2, <1>9, Zenon
    <3> QED
      BY <3>1, Sizes
  <2>4. GoOut(l, 2, "")
    BY <1>1, <1>2, <1>9, <2>1, <2>2, <2>3, Zenon DEF GoOut
  <2> QED
    BY <2>4, TokensGoOut
<1> QED
  BY <1>7, <1>8, <1>9, CkptPauseMeans, Zenon

(* A client of any of the loops sees what it would see of the plain one:    *)
(* every step sends the next tokens of the text, none of them an end and    *)
(* never more than were asked for, and the reply ends for its reason.       *)
THEOREM LoopsAreSerial == Spec => ImplementsSerial
<1>1. Init => Serial!Init
  BY Zenon DEF Init, Serial!Init
<1>2. DecodeInv /\ [Next]_vars => [Serial!Next]_(Serial!vars)
  <2> SUFFICES ASSUME DecodeInv, [Next]_vars
               PROVE  Serial!Next \/ UNCHANGED <<kind, sent, why>>
    BY Zenon DEF Serial!vars
  <2>1. IsPass => Serial!Next
    BY PassIsSerial, Zenon DEF IsPass
  <2>2. CASE FirstToken
    BY <2>2, FirstTokenIsSerial
  <2>3. CASE LoopEnds
    BY <2>3, LoopEndsIsSerial
  <2>4. CASE MtpRound
    BY <2>1, <2>4, MtpRoundIsPass
  <2>5. CASE ContextEdge
    BY <2>5, LoopEndsIsSerial
  <2>6. CASE SerialStep
    BY <2>1, <2>6, SerialStepIsPass
  <2>7. CASE NgramDrafts
    BY <2>7, Zenon DEF NgramDrafts
  <2>8. CASE NgramPass
    BY <2>1, <2>8, NgramPassIsPass
  <2>9. CASE CkptPause
    BY <2>9, CkptPauseIsSerial
  <2>10. CASE UNCHANGED vars
    BY <2>10, Zenon DEF vars
  <2> QED
    BY <2>2, <2>3, <2>4, <2>5, <2>6, <2>7, <2>8, <2>9, <2>10, Zenon DEF Next
<1> QED
  BY <1>1, <1>2, DecodeInductive, PTL DEF Spec, ImplementsSerial, Serial!Spec
=============================================================================
