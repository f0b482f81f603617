--------------------------- MODULE ApiSlotsProofs ---------------------------
(***************************************************************************)
(* For every set of requests and every width of the engine: a pooled       *)
(* connection is in one hand or in the free list, the counters of /health  *)
(* are exact, and no more requests fail on a lost connection than          *)
(* connections went stale; when the probe at the start is answered, who is *)
(* given a slot finds a connection.                                        *)
(***************************************************************************)
EXTENDS ApiSlots, FiniteSetTheorems, SequenceTheorems, TLAPS

USE SlotsAssumption DEF SlotsAssumption

HeldPlaces == {"held", "connect", "gen", "leave"}
WaitPlaces == {"poll", "doze"}

-----------------------------------------------------------------------------
(* Counting.  Those that a function p maps into W.                          *)
At(p, W) == {x \in DOMAIN p : p[x] \in W}
In(w, W) == IF w \in W THEN 1 ELSE 0
(* A count of those in W went from n to m as one of them went from v to w.   *)
Follows(n, m, v, w, W) == m = n + In(w, W) - In(v, W)
Moved(p, q, v, w, W) == Follows(Cardinality(At(p, W)), Cardinality(At(q, W)), v, w, W)

LEMMA CountFinite ==
    ASSUME NEW D, IsFiniteSet(D), NEW S, NEW p \in [D -> S], NEW W
    PROVE  /\ IsFiniteSet(At(p, W))
           /\ Cardinality(At(p, W)) \in Nat
           /\ Cardinality(At(p, W)) <= Cardinality(D)
<1>1. At(p, W) \in SUBSET D
  BY DEF At
<1>2. IsFiniteSet(At(p, W)) /\ Cardinality(At(p, W)) <= Cardinality(D)
  BY <1>1, FS_Subset
<1> QED BY <1>2, FS_CardinalityType

(* One of them moves.                                                       *)
LEMMA CountMoves ==
    ASSUME NEW D, IsFiniteSet(D), NEW S, NEW p \in [D -> S], NEW x \in D, NEW w, NEW W
    PROVE  Moved(p, [p EXCEPT ![x] = w], p[x], w, W)
<1> DEFINE A == At(p, W)
<1> DEFINE B == At([p EXCEPT ![x] = w], W)
<1>1. IsFiniteSet(A) /\ Cardinality(A) \in Nat
  BY CountFinite
<1>2. x \in A <=> p[x] \in W
  BY DEF At
<1>3. CASE w \in W
  <2>1. B = A \cup {x}
    BY <1>3 DEF At
  <2>2. Cardinality(B) = IF x \in A THEN Cardinality(A) ELSE Cardinality(A) + 1
    BY <1>1, <2>1, FS_AddElement
  <2> QED BY <1>1, <1>2, <1>3, <2>2 DEF In, Follows, Moved
<1>4. CASE w \notin W
  <2>1. B = A \ {x}
    BY <1>4 DEF At
  <2>2. Cardinality(B) = IF x \in A THEN Cardinality(A) - 1 ELSE Cardinality(A)
    BY <1>1, <2>1, FS_RemoveElement
  <2> QED BY <1>1, <1>2, <1>4, <2>2 DEF In, Follows, Moved
<1> QED BY <1>3, <1>4

(* All of u become w: they are counted with those that were.                *)
Joined(p, q, u, w) == Cardinality(At(q, {w})) = Cardinality(At(p, {w})) + Cardinality(At(p, {u}))

LEMMA CountJoins ==
    ASSUME NEW D, IsFiniteSet(D), NEW S, NEW p \in [D -> S], NEW u, NEW w, u # w
    PROVE  Joined(p, [x \in D |-> IF p[x] = u THEN w ELSE p[x]], u, w)
<1> DEFINE A == At(p, {w})
<1> DEFINE B == At(p, {u})
<1>1. /\ IsFiniteSet(A) /\ Cardinality(A) \in Nat
      /\ IsFiniteSet(B) /\ Cardinality(B) \in Nat
  BY CountFinite
<1>2. At([x \in D |-> IF p[x] = u THEN w ELSE p[x]], {w}) = A \cup B
  BY DEF At
<1>3. A \cap B = {}
  BY DEF At
<1>4. Cardinality(A \cup B) = Cardinality(A) + Cardinality(B) - Cardinality(A \cap B)
  BY <1>1, FS_Union
<1>5. Cardinality(A \cap B) = 0
  BY <1>3, FS_EmptySet
<1>6. Cardinality(A \cup B) = Cardinality(A) + Cardinality(B)
  BY <1>1, <1>4, <1>5
<1> QED BY <1>2, <1>6 DEF Joined

-----------------------------------------------------------------------------
(* Clients.  Each of 1 .. n is in the hand of one request (c[r], 0 for none) *)
(* or once in the list f.                                                   *)
Dealt(c, f, n) ==
    /\ \A r, s \in Requests : c[r] # 0 /\ c[r] = c[s] => r = s
    /\ \A i, j \in 1 .. Len(f) : f[i] = f[j] => i = j
    /\ \A r \in Requests, i \in 1 .. Len(f) : c[r] # f[i]
    /\ \A r \in Requests : c[r] \in 0 .. n
    /\ \A i \in 1 .. Len(f) : f[i] \in 1 .. n
    /\ \A k \in 1 .. n : (\E r \in Requests : c[r] = k) \/ (\E i \in 1 .. Len(f) : f[i] = k)

(* The last of the list is handed out.                                      *)
LEMMA ClientTaken ==
    ASSUME NEW n \in Nat, NEW f \in Seq(Nat), f # <<>>, NEW c \in [Requests -> Nat],
           Dealt(c, f, n), NEW r \in Requests, c[r] = 0
    PROVE  Dealt([c EXCEPT ![r] = f[Len(f)]], SubSeq(f, 1, Len(f) - 1), n)
<1> DEFINE g == SubSeq(f, 1, Len(f) - 1)
<1> DEFINE d == [c EXCEPT ![r] = f[Len(f)]]
<1>1. Len(f) \in Nat \ {0}
  OBVIOUS
<1>2. Len(g) = Len(f) - 1 /\ \A i \in 1 .. Len(g) : g[i] = f[i]
  <2>1. 1 \in Int /\ Len(f) - 1 \in Int /\ \A i \in 1 .. Len(f) - 1 : f[i] \in Nat
    BY <1>1, ElementOfSeq
  <2>2. /\ Len(g) = IF 1 <= Len(f) - 1 THEN Len(f) - 1 - 1 + 1 ELSE 0
        /\ \A i \in 1 .. Len(f) - 1 - 1 + 1 : g[i] = f[1 + i - 1]
    BY <2>1, SubSeqProperties
  <2> HIDE DEF g
  <2>3. Len(g) = Len(f) - 1 /\ Len(f) - 1 - 1 + 1 = Len(f) - 1
    <3>1. Len(f) - 1 - 1 + 1 = Len(f) - 1
      BY <1>1
    <3>2. CASE 1 <= Len(f) - 1
      BY <2>2, <3>1, <3>2
    <3>3. CASE ~(1 <= Len(f) - 1)
      <4>1. \A m \in Nat \ {0} : ~(1 <= m - 1) => m - 1 = 0
        OBVIOUS
      <4>2. Len(f) - 1 = 0
        BY <1>1, <3>3, <4>1
      <4> QED BY <2>2, <3>3, <4>2
    <3> QED BY <3>1, <3>2, <3>3
  <2>4. ASSUME NEW i \in 1 .. Len(g) PROVE g[i] = f[i]
    <3>1. g[i] = f[1 + i - 1] /\ 1 + i - 1 = i
      BY <1>1, <2>2, <2>3
    <3> QED BY <3>1
  <2> QED BY <2>3, <2>4
<1>3. f[Len(f)] \in 1 .. n /\ d[r] = f[Len(f)] /\ \A q \in Requests \ {r} : d[q] = c[q]
  BY <1>1 DEF Dealt
<1> HIDE DEF g, d
<1>4. \A q, s \in Requests : d[q] # 0 /\ d[q] = d[s] => q = s
  BY <1>1, <1>3 DEF Dealt
<1>5. \A i, j \in 1 .. Len(g) : g[i] = g[j] => i = j
  <2> TAKE i \in 1 .. Len(g), j \in 1 .. Len(g)
  <2>1. g[i] = f[i] /\ g[j] = f[j]
    BY <1>2
  <2>2. i \in 1 .. Len(f) /\ j \in 1 .. Len(f)
    BY <1>1, <1>2
  <2>3. f[i] = f[j] => i = j
    BY <2>2 DEF Dealt
  <2> QED BY <2>1, <2>3
<1>6. \A q \in Requests, i \in 1 .. Len(g) : d[q] # g[i]
  BY <1>1, <1>2, <1>3 DEF Dealt
<1>7. \A q \in Requests : d[q] \in 0 .. n
  BY <1>3 DEF Dealt
<1>8. \A i \in 1 .. Len(g) : g[i] \in 1 .. n
  BY <1>1, <1>2 DEF Dealt
<1>9. ASSUME NEW k \in 1 .. n
      PROVE  (\E q \in Requests : d[q] = k) \/ (\E i \in 1 .. Len(g) : g[i] = k)
  <2>1. CASE \E q \in Requests : c[q] = k
    BY <1>3, <2>1
  <2>2. CASE \E i \in 1 .. Len(f) : f[i] = k
    <3>1. PICK i \in 1 .. Len(f) : f[i] = k
      BY <2>2
    <3>2. CASE i = Len(f)
      BY <1>3, <3>1, <3>2
    <3>3. CASE i # Len(f)
      <4>1. i \in 1 .. Len(g)
        BY <1>1, <1>2, <3>3
      <4> QED BY <1>2, <3>1, <4>1
    <3> QED BY <3>2, <3>3
  <2> QED BY <2>1, <2>2 DEF Dealt
<1>10. Dealt(d, g, n)
  BY <1>4, <1>5, <1>6, <1>7, <1>8, <1>9 DEF Dealt
<1> QED BY <1>10 DEF d, g

(* A client is given back.                                                  *)
LEMMA ClientGiven ==
    ASSUME NEW n \in Nat, NEW f \in Seq(Nat), NEW c \in [Requests -> Nat], Dealt(c, f, n),
           NEW r \in Requests, c[r] # 0
    PROVE  Dealt([c EXCEPT ![r] = 0], Append(f, c[r]), n)
<1> DEFINE g == Append(f, c[r])
<1> DEFINE d == [c EXCEPT ![r] = 0]
<1>1. Len(f) \in Nat /\ Len(g) = Len(f) + 1 /\ g[Len(g)] = c[r]
      /\ \A i \in 1 .. Len(f) : g[i] = f[i]
  OBVIOUS
<1>2. c[r] \in 1 .. n /\ d[r] = 0 /\ \A q \in Requests \ {r} : d[q] = c[q]
  BY DEF Dealt
<1>3. \A i \in 1 .. Len(g) : i \in 1 .. Len(f) \/ i = Len(g)
  BY <1>1
<1> HIDE DEF g, d
<1>4. \A q, s \in Requests : d[q] # 0 /\ d[q] = d[s] => q = s
  BY <1>2 DEF Dealt
<1>5. \A i, j \in 1 .. Len(g) : g[i] = g[j] => i = j
  <2> TAKE i \in 1 .. Len(g), j \in 1 .. Len(g)
  <2>1. CASE i \in 1 .. Len(f) /\ j \in 1 .. Len(f)
    BY <1>1, <2>1 DEF Dealt
  <2>2. CASE i \in 1 .. Len(f) /\ j = Len(g)
    BY <1>1, <2>2 DEF Dealt
  <2>3. CASE i = Len(g) /\ j \in 1 .. Len(f)
    <3>1. c[r] # f[j]
      BY <2>3 DEF Dealt
    <3> QED BY <1>1, <2>3, <3>1
  <2> QED BY <1>3, <2>1, <2>2, <2>3
<1>6. \A q \in Requests, i \in 1 .. Len(g) : d[q] # g[i]
  <2> TAKE q \in Requests, i \in 1 .. Len(g)
  <2>1. g[i] \in 1 .. n
    BY <1>1, <1>2, <1>3 DEF Dealt
  <2>2. CASE q = r
    BY <1>2, <2>1, <2>2
  <2>3. CASE q # r /\ i = Len(g)
    BY <1>1, <1>2, <2>3 DEF Dealt
  <2>4. CASE q # r /\ i \in 1 .. Len(f)
    BY <1>1, <1>2, <2>4 DEF Dealt
  <2> QED BY <1>3, <2>2, <2>3, <2>4
<1>7. \A q \in Requests : d[q] \in 0 .. n
  BY <1>2 DEF Dealt
<1>8. \A i \in 1 .. Len(g) : g[i] \in 1 .. n
  BY <1>1, <1>2, <1>3 DEF Dealt
<1>9. ASSUME NEW k \in 1 .. n
      PROVE  (\E q \in Requests : d[q] = k) \/ (\E i \in 1 .. Len(g) : g[i] = k)
  <2>1. CASE \E q \in Requests : c[q] = k
    <3>1. PICK q \in Requests : c[q] = k
      BY <2>1
    <3>2. Len(g) \in 1 .. Len(g)
      BY <1>1
    <3> QED BY <1>1, <1>2, <3>1, <3>2
  <2>2. CASE \E i \in 1 .. Len(f) : f[i] = k
    <3>1. PICK i \in 1 .. Len(f) : f[i] = k
      BY <2>2
    <3>2. i \in 1 .. Len(g)
      BY <1>1
    <3> QED BY <1>1, <3>1, <3>2
  <2> QED BY <2>1, <2>2 DEF Dealt
<1>10. Dealt(d, g, n)
  BY <1>4, <1>5, <1>6, <1>7, <1>8, <1>9 DEF Dealt
<1> QED BY <1>10 DEF d, g

(* The first clients of the pool.                                           *)
LEMMA ClientsAdded ==
    ASSUME NEW n \in Nat, NEW f \in Seq(Nat), NEW c \in [Requests -> Nat], Dealt(c, f, 0)
    PROVE  f = <<>> /\ Dealt(c, f \o [i \in 1 .. n - 0 |-> 0 + i], n)
<1> DEFINE g == [i \in 1 .. n - 0 |-> 0 + i]
<1>1. f = <<>>
  BY DEF Dealt
<1>2. g \in Seq(Nat) /\ Len(g) = n /\ \A i \in 1 .. n : g[i] = i
  OBVIOUS
<1>3. f \o g = g
  BY <1>1, <1>2
<1>4. \A r \in Requests : c[r] = 0
  BY DEF Dealt
<1> HIDE DEF g
<1>5. Dealt(c, g, n)
  BY <1>2, <1>4 DEF Dealt
<1> QED BY <1>1, <1>3, <1>5 DEF g

-----------------------------------------------------------------------------
(* The inductive invariant.                                                 *)

(* A request has a client exactly while it has a slot, and the pool has its *)
(* width once the engine answered; before it was asked nobody is served.    *)
Served ==
    /\ \A r \in Requests : cli[r] # 0 <=> pc[r] \in HeldPlaces
    /\ Dealt(cli, free, pool)
    /\ probe # "done" => pool = 0
    /\ probe = "start" => \A r \in Requests : pc[r] = "none"
    /\ probe = "done" => pool = Width /\ slots = Width
Counted ==
    /\ inFlight = Cardinality(At(pc, HeldPlaces))
    /\ queued = Cardinality(At(pc, WaitPlaces))
Paid == Cardinality(At(outcome, {"lost"})) + Cardinality(At(conn, {"stale"})) <= spoiled
SlotsInv ==
    /\ TypeOK /\ Counted /\ Paid
    /\ ~fault => Served
    /\ probe = "retry" \/ fault => ProbeMayFail

Places   == HeldPlaces \cup WaitPlaces \cup {"none", "ended"}
Outcomes == {"none", "gone", "unreachable", "refused", "done", "timeout", "lost"}
States   == {"closed", "open", "stale"}

LEMMA WidthType == Width \in Nat \ {0}
BY DEF Width

(* The sets that the counters are about, as counts of pc.                   *)
LEMMA CountsAreThose ==
    ASSUME TypeOK
    PROVE  /\ Held = At(pc, HeldPlaces)
           /\ {r \in Requests : pc[r] \in {"poll", "doze"}} = At(pc, WaitPlaces)
BY DEF TypeOK, Held, At, HeldPlaces, WaitPlaces

LEMMA InitHolds == Init => SlotsInv
<1> SUFFICES ASSUME Init PROVE SlotsInv
  OBVIOUS
<1>1. Cardinality({}) = 0
  BY FS_EmptySet
<1>2. Cardinality(Requests) \in Nat
  BY FS_CardinalityType
<1>3. TypeOK
  <2>1. 1 \in 1 .. Width /\ 0 \in {0, Width} /\ <<>> \in Seq(1 .. Width)
    BY WidthType
  <2>2. 0 \in 0 .. 1 /\ 0 \in 0 .. Cardinality(Requests) /\ 0 \in 0 .. MaxCrashes
        /\ 0 \in 0 .. Width
    BY <1>2, WidthType
  <2>3. conn \in [1 .. Width -> {"closed", "open", "stale"}]
    BY DEF Init
  <2>4. /\ pc \in [Requests -> {"none", "poll", "doze", "held", "connect", "gen", "leave", "ended"}]
        /\ cli \in [Requests -> 0 .. Width]
        /\ outcome \in [Requests -> {"none", "gone", "unreachable", "refused", "done", "timeout",
                                 "lost"}]
    BY <2>2 DEF Init
  <2> QED BY <2>1, <2>2, <2>3, <2>4 DEF TypeOK, Init
<1>4. /\ At(pc, HeldPlaces) = {} /\ At(pc, WaitPlaces) = {}
      /\ At(outcome, {"lost"}) = {} /\ At(conn, {"stale"}) = {}
  BY DEF Init, At, HeldPlaces, WaitPlaces
<1>5. Counted /\ Paid
  <2>1. inFlight = 0 /\ queued = 0 /\ spoiled = 0
    BY DEF Init
  <2> QED BY <1>1, <1>4, <2>1 DEF Counted, Paid
<1>6. Served
  BY DEF Init, Served, Dealt, HeldPlaces
<1> QED BY <1>3, <1>5, <1>6 DEF SlotsInv, Init

-----------------------------------------------------------------------------
(* What happens on a connection.  A request that has its slot and keeps it  *)
(* moves on; its outcome and the connection may change.                     *)
LEMMA HolderMoves ==
    ASSUME SlotsInv, ~fault, NEW r \in Requests, NEW w \in HeldPlaces, pc[r] \in HeldPlaces,
           pc' = [pc EXCEPT ![r] = w], UNCHANGED <<probe, slots, pool, free, inFlight, queued,
                                                   cli, fault>>
    PROVE  /\ Counted' /\ Served'
           /\ cli[r] \in 1 .. Width
           /\ pc' \in [Requests -> Places]
<1> USE DEF SlotsInv
<1>1. pc \in [Requests -> Places] /\ pc' \in [Requests -> Places]
  BY DEF TypeOK, Places, HeldPlaces, WaitPlaces
<1>2. /\ Cardinality(At(pc, HeldPlaces)) \in Nat
      /\ Cardinality(At(pc, WaitPlaces)) \in Nat
  BY <1>1, CountFinite
<1>3. Cardinality(At([pc EXCEPT ![r] = w], HeldPlaces)) = Cardinality(At(pc, HeldPlaces))
  <2>1. Moved(pc, [pc EXCEPT ![r] = w], pc[r], w, HeldPlaces)
    BY <1>1, CountMoves
  <2> QED BY <1>2, <2>1 DEF In, Follows, Moved
<1>4. Cardinality(At([pc EXCEPT ![r] = w], WaitPlaces)) = Cardinality(At(pc, WaitPlaces))
  <2>1. Moved(pc, [pc EXCEPT ![r] = w], pc[r], w, WaitPlaces)
    BY <1>1, CountMoves
  <2>2. w \notin WaitPlaces /\ pc[r] \notin WaitPlaces
    BY DEF HeldPlaces, WaitPlaces
  <2> QED BY <1>2, <2>1, <2>2 DEF In, Follows, Moved
<1>5. Counted'
  BY <1>3, <1>4 DEF Counted
<1>6. Served'
  <2>1. ASSUME NEW q \in Requests PROVE pc'[q] \in HeldPlaces <=> pc[q] \in HeldPlaces
    BY <1>1
  <2>2. probe # "start"
    BY DEF Served, HeldPlaces
  <2> QED BY <2>1, <2>2 DEF Served
<1>7. cli[r] \in 1 .. Width
  BY WidthType DEF TypeOK, Served
<1> QED BY <1>1, <1>5, <1>6, <1>7

(* Paid when one outcome and one connection change: no more may be lost or  *)
(* stale than were and than the step itself spoils.                         *)
LEMMA StaysPaid ==
    ASSUME NEW o \in [Requests -> Outcomes], NEW c \in [1 .. Width -> States], NEW n \in Nat,
           NEW m \in Nat,
           Cardinality(At(o, {"lost"})) + Cardinality(At(c, {"stale"})) <= n,
           NEW r \in Requests, NEW i \in 1 .. Width, NEW why \in Outcomes, NEW now \in States,
           \/ why # "lost" /\ now # "stale" /\ m = n
           \/ why # "lost" /\ now = c[i] /\ m = n
           \/ why # "lost" /\ now = "stale" /\ m = n + 1
           \/ why = "lost" /\ c[i] = "stale" /\ now # "stale" /\ m = n
    PROVE  Cardinality(At([o EXCEPT ![r] = why], {"lost"}))
             + Cardinality(At([c EXCEPT ![i] = now], {"stale"})) <= m
<1>1. IsFiniteSet(1 .. Width)
  BY FS_Interval, WidthType
<1>2. Cardinality(At(o, {"lost"})) \in Nat /\ Cardinality(At(c, {"stale"})) \in Nat
  BY <1>1, CountFinite
<1>3. Moved(o, [o EXCEPT ![r] = why], o[r], why, {"lost"})
  BY CountMoves
<1>4. Moved(c, [c EXCEPT ![i] = now], c[i], now, {"stale"})
  BY <1>1, CountMoves
<1> QED BY <1>2, <1>3, <1>4 DEF In, Follows, Moved

(* A generation ends.                                                       *)
LEMMA EndHolds ==
    ASSUME SlotsInv, ~fault, NEW r \in Requests, pc[r] \in HeldPlaces,
           NEW why \in Outcomes, NEW now \in States, Ends(r, why, now),
           connMtx' \in Requests \cup {NoReq}, spoiled' \in Nat,
           \/ why # "lost" /\ now # "stale" /\ spoiled' = spoiled
           \/ why # "lost" /\ now = conn[cli[r]] /\ spoiled' = spoiled
           \/ why # "lost" /\ now = "stale" /\ spoiled' = spoiled + 1
           \/ why = "lost" /\ conn[cli[r]] = "stale" /\ now # "stale" /\ spoiled' = spoiled,
           UNCHANGED <<probe, slots, pool, free, inFlight, queued, cli, engine, fault>>
    PROVE  SlotsInv'
<1> USE DEF Ends
<1>1. "leave" \in HeldPlaces
  BY DEF HeldPlaces
<1>2. Counted' /\ Served' /\ cli[r] \in 1 .. Width /\ pc' \in [Requests -> Places]
  BY <1>1, HolderMoves
<1>3. /\ outcome \in [Requests -> Outcomes] /\ conn \in [1 .. Width -> States]
      /\ spoiled \in Nat
  BY DEF SlotsInv, TypeOK, Outcomes, States
<1>4. outcome' \in [Requests -> Outcomes] /\ conn' \in [1 .. Width -> States]
  BY <1>3
<1>5. Paid'
  BY <1>2, <1>3, StaysPaid DEF SlotsInv, Paid
<1>6. TypeOK'
  BY <1>2, <1>4 DEF SlotsInv, TypeOK, Outcomes, States, Places, HeldPlaces, WaitPlaces, engine
<1> QED BY <1>2, <1>5, <1>6 DEF SlotsInv

LEMMA ReadyHolds ==
    ASSUME SlotsInv, ~fault, NEW r \in Requests, Ready(r) PROVE SlotsInv'
<1> USE DEF Ready
<1>1. PICK w \in {"connect", "gen"} : pc' = [pc EXCEPT ![r] = w]
  OBVIOUS
<1>2. w \in HeldPlaces /\ pc[r] \in HeldPlaces
  BY DEF HeldPlaces
<1>3. Counted' /\ Served' /\ pc' \in [Requests -> Places]
  BY <1>1, <1>2, HolderMoves
<1>4. connMtx' \in Requests \cup {NoReq}
  OBVIOUS
<1>5. TypeOK'
  BY <1>3, <1>4 DEF SlotsInv, TypeOK, Places, HeldPlaces, WaitPlaces, engine
<1>6. Paid'
  BY DEF SlotsInv, Paid
<1> QED BY <1>3, <1>5, <1>6 DEF SlotsInv

LEMMA ConnectHolds ==
    ASSUME SlotsInv, ~fault, NEW r \in Requests, Connect(r) PROVE SlotsInv'
<1> USE DEF Connect
<1>1. pc[r] \in HeldPlaces /\ "gen" \in HeldPlaces
  BY DEF HeldPlaces
<1>2. CASE ~alive /\ Ends(r, "unreachable", "closed")
  BY <1>1, <1>2, EndHolds DEF SlotsInv, TypeOK, Outcomes, States
<1>3. CASE /\ alive /\ conn' = [conn EXCEPT ![cli[r]] = "open"]
           /\ pc' = [pc EXCEPT ![r] = "gen"] /\ UNCHANGED outcome
  <2>1. Counted' /\ Served' /\ cli[r] \in 1 .. Width /\ pc' \in [Requests -> Places]
    BY <1>1, <1>3, HolderMoves
  <2>2. /\ outcome \in [Requests -> Outcomes] /\ conn \in [1 .. Width -> States]
        /\ spoiled \in Nat
    BY DEF SlotsInv, TypeOK, Outcomes, States
  <2>3. conn' \in [1 .. Width -> States]
    BY <1>3, <2>2 DEF States
  <2>4. TypeOK'
    BY <1>3, <2>1, <2>3
       DEF SlotsInv, TypeOK, Outcomes, States, Places, HeldPlaces, WaitPlaces, engine
  <2>5. IsFiniteSet(1 .. Width) /\ IsFiniteSet(Requests)
    BY FS_Interval, WidthType
  <2>6. Moved(conn, [conn EXCEPT ![cli[r]] = "open"], conn[cli[r]], "open", {"stale"})
    BY <2>1, <2>2, <2>5, CountMoves
  <2>7. Cardinality(At(conn, {"stale"})) \in Nat /\ Cardinality(At(outcome, {"lost"})) \in Nat
    BY <2>2, <2>5, CountFinite
  <2>8. Paid'
    BY <1>3, <2>2, <2>6, <2>7 DEF SlotsInv, Paid, In, Follows, Moved
  <2> QED BY <2>1, <2>4, <2>8 DEF SlotsInv
<1> QED BY <1>2, <1>3

(* The answers to a GEN.                                                    *)
LEMMA AnswerHolds ==
    ASSUME SlotsInv, ~fault, NEW r \in Requests,
           Refused(r) \/ Finished(r) \/ Undrainable(r) \/ TimedOut(r) \/ Lost(r)
    PROVE  SlotsInv'
<1>1. pc[r] \in HeldPlaces
  BY DEF Refused, Finished, Undrainable, TimedOut, Lost, HeldPlaces
<1>2. spoiled \in Nat /\ connMtx \in Requests \cup {NoReq}
      /\ conn \in [1 .. Width -> States] /\ cli \in [Requests -> 0 .. Width]
  BY DEF SlotsInv, TypeOK, States
<1>3. cli[r] \in 1 .. Width
  BY <1>1, <1>2, WidthType DEF SlotsInv, Served
<1>4. conn[cli[r]] \in States
  BY <1>2, <1>3
<1>5. /\ {"refused", "done", "timeout", "lost"} \subseteq Outcomes
      /\ {"open", "stale", "closed"} \subseteq States
  BY DEF Outcomes, States
<1>6. CASE Refused(r)
  BY <1>1, <1>2, <1>4, <1>5, <1>6, EndHolds DEF Refused
<1>7. CASE Finished(r)
  BY <1>1, <1>2, <1>5, <1>7, EndHolds DEF Finished
<1>8. CASE Undrainable(r)
  BY <1>1, <1>2, <1>5, <1>8, EndHolds DEF Undrainable
<1>9. CASE TimedOut(r)
  BY <1>1, <1>2, <1>5, <1>9, EndHolds DEF TimedOut
<1>10. CASE Lost(r)
  BY <1>1, <1>2, <1>5, <1>10, EndHolds DEF Lost
<1> QED BY <1>6, <1>7, <1>8, <1>9, <1>10

-----------------------------------------------------------------------------
(* The queue and the free list.                                             *)

(* How the two counters follow when one request moves.                      *)
LEMMA CountersFollow ==
    ASSUME SlotsInv, NEW r \in Requests, NEW w \in Places, pc' = [pc EXCEPT ![r] = w],
           Follows(inFlight, inFlight', pc[r], w, HeldPlaces),
           Follows(queued, queued', pc[r], w, WaitPlaces)
    PROVE  /\ Counted' /\ pc' \in [Requests -> Places]
           /\ inFlight' \in Nat /\ queued' \in 0 .. Cardinality(Requests)
<1>1. pc \in [Requests -> Places] /\ pc' \in [Requests -> Places]
  BY DEF SlotsInv, TypeOK, Places, HeldPlaces, WaitPlaces
<1>2. Moved(pc, [pc EXCEPT ![r] = w], pc[r], w, HeldPlaces)
  BY <1>1, CountMoves
<1>3. Moved(pc, [pc EXCEPT ![r] = w], pc[r], w, WaitPlaces)
  BY <1>1, CountMoves
<1>4. Counted'
  <2>1. /\ Cardinality(At(pc', HeldPlaces)) = inFlight'
        /\ Cardinality(At(pc', WaitPlaces)) = queued'
    BY <1>2, <1>3 DEF SlotsInv, Counted, Follows, Moved
  <2> QED BY <2>1 DEF Counted
<1>5. /\ Cardinality(At(pc', HeldPlaces)) \in Nat
      /\ Cardinality(At(pc', WaitPlaces)) \in Nat
      /\ Cardinality(At(pc', WaitPlaces)) <= Cardinality(Requests)
      /\ Cardinality(Requests) \in Nat
  BY <1>1, CountFinite, FS_CardinalityType
<1> QED BY <1>1, <1>4, <1>5 DEF Counted

(* With the pool at its width, below g_in_flight = g_slots a client is free: *)
(* the others are in as many hands.                                         *)
LEMMA FreeOne ==
    ASSUME SlotsInv, ~fault, probe = "done", inFlight < slots
    PROVE  free # <<>>
<1> SUFFICES ASSUME free = <<>> PROVE FALSE
  OBVIOUS
<1> DEFINE H == At(pc, HeldPlaces)
<1> DEFINE f == [r \in H |-> cli[r]]
<1>1. /\ pc \in [Requests -> Places] /\ cli \in [Requests -> 0 .. Width]
      /\ pool = Width /\ slots = Width
  BY DEF SlotsInv, Served, TypeOK, Places, HeldPlaces, WaitPlaces
<1>2. IsFiniteSet(H) /\ Cardinality(H) \in Nat
  BY <1>1, CountFinite
<1>3. \A r \in Requests : cli[r] # 0 <=> r \in H
  BY <1>1 DEF At, SlotsInv, Served
<1>4. H \subseteq Requests
  BY <1>1 DEF At
<1>5. f \in [H -> 1 .. Width]
  BY <1>1, <1>3, <1>4, WidthType
<1>6. \A k \in 1 .. Width : \E r \in H : f[r] = k
  <2> TAKE k \in 1 .. Width
  <2>1. PICK r \in Requests : cli[r] = k
    BY <1>1 DEF SlotsInv, Served, Dealt
  <2>2. r \in H
    BY <1>3, <2>1, WidthType
  <2> QED BY <2>1, <2>2
<1>7. f \in Surjection(H, 1 .. Width)
  BY <1>5, <1>6 DEF Surjection
<1>8. Cardinality(1 .. Width) <= Cardinality(H)
  BY <1>2, <1>7, FS_Surjection
<1>9. Cardinality(1 .. Width) = Width
  BY FS_Interval, WidthType
<1>10. inFlight = Cardinality(H)
  BY DEF SlotsInv, Counted
<1> QED BY <1>1, <1>2, <1>8, <1>9, <1>10, WidthType

(* A request gets a slot, at once or from the queue; without a pool it      *)
(* faults.                                                                  *)
LEMMA AcquireHolds ==
    ASSUME SlotsInv, ~fault, NEW r \in Requests, pc[r] \in {"none", "poll", "doze"},
           probe # "start", inFlight < slots, Acquire(r),
           queued' = queued - In(pc[r], WaitPlaces),
           UNCHANGED <<probe, slots, pool, connMtx, conn, outcome, engine, spoiled>>
    PROVE  SlotsInv'
<1> USE DEF Acquire
<1>1. /\ "held" \in Places /\ "held" \in HeldPlaces /\ "held" \notin WaitPlaces
      /\ pc[r] \notin HeldPlaces
  BY DEF Places, HeldPlaces, WaitPlaces
<1>2. queued \in Int /\ inFlight \in Nat /\ slots \in Nat /\ slots \in 1 .. Width
  BY WidthType, FS_CardinalityType DEF SlotsInv, TypeOK
<1>3. Counted' /\ pc' \in [Requests -> Places] /\ queued' \in 0 .. Cardinality(Requests)
  <2>1. Follows(inFlight, inFlight', pc[r], "held", HeldPlaces)
    BY <1>1, <1>2 DEF In, Follows
  <2>2. Follows(queued, queued', pc[r], "held", WaitPlaces)
    BY <1>1, <1>2 DEF In, Follows
  <2> QED BY <1>1, <2>1, <2>2, CountersFollow
<1>4. inFlight' \in 0 .. slots
  BY <1>2
<1>5. Paid'
  BY DEF SlotsInv, Paid
<1>6. CASE free = <<>>
  <2>1. TypeOK'
    BY <1>3, <1>4, <1>6
       DEF SlotsInv, TypeOK, Places, HeldPlaces, WaitPlaces, engine
  <2>2. probe # "done"
    BY <1>6, FreeOne
  <2>3. probe = "retry"
    BY <2>2 DEF SlotsInv, TypeOK
  <2>4. fault' = TRUE /\ ProbeMayFail
    BY <1>6, <2>3 DEF SlotsInv
  <2> QED BY <1>3, <1>5, <2>1, <2>4 DEF SlotsInv
<1>7. CASE free # <<>>
  <2>1. /\ free \in Seq(1 .. Width) /\ cli \in [Requests -> 0 .. Width] /\ pool \in Nat
        /\ pc \in [Requests -> Places]
    BY WidthType DEF SlotsInv, TypeOK, Places, HeldPlaces, WaitPlaces
  <2>2. free[Len(free)] \in 1 .. Width /\ free' \in Seq(1 .. Width)
    <3>1. Len(free) \in Nat \ {0}
      BY <1>7, <2>1, EmptySeq
    <3>2. \A i \in 1 .. Len(free) : free[i] \in 1 .. Width
      BY <2>1, ElementOfSeq
    <3>3. free[Len(free)] \in 1 .. Width
      BY <3>1, <3>2
    <3>4. 1 \in Int /\ Len(free) - 1 \in Int /\ \A i \in 1 .. Len(free) - 1 : free[i] \in 1 .. Width
      BY <3>1, <3>2
    <3>5. SubSeq(free, 1, Len(free) - 1) \in Seq(1 .. Width)
      BY <3>4, SubSeqProperties
    <3> QED BY <1>7, <3>3, <3>5
  <2>3. cli' \in [Requests -> 0 .. Width]
    <3>1. free[Len(free)] \in 0 .. Width
      BY <2>2, WidthType
    <3>2. cli' = [cli EXCEPT ![r] = free[Len(free)]]
      BY <1>7
    <3> QED BY <2>1, <3>1, <3>2
  <2>4. TypeOK'
    BY <1>3, <1>4, <1>7, <2>2, <2>3
       DEF SlotsInv, TypeOK, Places, HeldPlaces, WaitPlaces, engine
  <2>5. cli[r] = 0
    BY <1>1, <2>1 DEF SlotsInv, Served
  <2>6. free \in Seq(Nat) /\ cli \in [Requests -> Nat]
    BY <2>1, WidthType
  <2>7. Dealt(cli', free', pool')
    <3>1. Dealt(cli, free, pool)
      BY DEF SlotsInv, Served
    <3>2. Dealt([cli EXCEPT ![r] = free[Len(free)]], SubSeq(free, 1, Len(free) - 1), pool)
      BY <1>7, <2>1, <2>5, <2>6, <3>1, ClientTaken
    <3> QED BY <1>7, <3>2
  <2>8. ASSUME NEW q \in Requests PROVE cli'[q] # 0 <=> pc'[q] \in HeldPlaces
    <3>1. CASE q = r
      BY <1>1, <1>7, <2>1, <2>2, <3>1
    <3>2. CASE q # r
      BY <1>7, <2>1, <3>2 DEF SlotsInv, Served
    <3> QED BY <3>1, <3>2
  <2>9. Served'
    BY <2>7, <2>8 DEF SlotsInv, Served
  <2> QED BY <1>3, <1>5, <1>7, <2>4, <2>9 DEF SlotsInv
<1> QED BY <1>6, <1>7

(* A request joins the queue, waits on in it, or leaves it unserved.        *)
LEMMA WaitHolds ==
    ASSUME SlotsInv, ~fault, NEW r \in Requests, pc[r] \in {"none", "poll", "doze"},
           probe # "start", NEW w \in {"poll", "doze", "ended"}, pc' = [pc EXCEPT ![r] = w],
           Follows(queued, queued', pc[r], w, WaitPlaces),
           \/ UNCHANGED outcome
           \/ outcome' = [outcome EXCEPT ![r] = "gone"],
           UNCHANGED <<probe, slots, pool, free, inFlight, connMtx, conn, cli, engine,
                       spoiled, fault>>
    PROVE  SlotsInv'
<1>1. w \in Places /\ w \notin HeldPlaces /\ pc[r] \notin HeldPlaces
  BY DEF Places, HeldPlaces, WaitPlaces
<1>2. /\ inFlight \in Nat /\ pc \in [Requests -> Places] /\ outcome \in [Requests -> Outcomes]
      /\ conn \in [1 .. Width -> States] /\ spoiled \in Nat
  BY WidthType DEF SlotsInv, TypeOK, Places, HeldPlaces, WaitPlaces, Outcomes, States
<1>3. Counted' /\ pc' \in [Requests -> Places] /\ queued' \in 0 .. Cardinality(Requests)
  <2>1. Follows(inFlight, inFlight', pc[r], w, HeldPlaces)
    BY <1>1, <1>2 DEF In, Follows
  <2> QED BY <1>1, <2>1, CountersFollow
<1>4. outcome' \in [Requests -> Outcomes]
  BY <1>2 DEF Outcomes
<1>5. TypeOK'
  BY <1>3, <1>4
     DEF SlotsInv, TypeOK, Places, HeldPlaces, WaitPlaces, Outcomes, engine
<1>6. Served'
  <2>1. ASSUME NEW q \in Requests PROVE pc'[q] \in HeldPlaces <=> pc[q] \in HeldPlaces
    BY <1>1, <1>2
  <2> QED BY <2>1 DEF SlotsInv, Served
<1>7. Paid'
  <2>1. CASE UNCHANGED outcome
    BY <2>1 DEF SlotsInv, Paid
  <2>2. CASE outcome' = [outcome EXCEPT ![r] = "gone"]
    <3>1. IsFiniteSet(1 .. Width)
      BY FS_Interval, WidthType
    <3>2. Moved(outcome, [outcome EXCEPT ![r] = "gone"], outcome[r], "gone", {"lost"})
      BY <1>2, CountMoves
    <3>3. /\ Cardinality(At(outcome, {"lost"})) \in Nat
          /\ Cardinality(At(conn, {"stale"})) \in Nat
      BY <1>2, <3>1, CountFinite
    <3> QED BY <1>2, <2>2, <3>2, <3>3 DEF SlotsInv, Paid, In, Follows, Moved
  <2> QED BY <2>1, <2>2
<1> QED BY <1>3, <1>5, <1>6, <1>7 DEF SlotsInv

LEMMA QueueHolds ==
    ASSUME SlotsInv, ~fault, NEW r \in Requests, Enter(r) \/ Poll(r) \/ Wake(r) \/ LeaveQueue(r)
    PROVE  SlotsInv'
<1>1. /\ In("none", WaitPlaces) = 0 /\ In("ended", WaitPlaces) = 0
      /\ In("poll", WaitPlaces) = 1 /\ In("doze", WaitPlaces) = 1
  BY DEF In, WaitPlaces
<1>2. queued \in Int /\ (pc[r] \in {"poll", "doze"} => probe # "start")
  <2>1. queued \in Int
    BY FS_CardinalityType DEF SlotsInv, TypeOK
  <2> QED BY <2>1 DEF SlotsInv, Served
<1>3. CASE Enter(r)
  <2>1. CASE inFlight < slots /\ Acquire(r) /\ UNCHANGED queued
    BY <1>1, <1>2, <1>3, <2>1, AcquireHolds DEF Enter
  <2>2. CASE /\ inFlight >= slots
             /\ queued' = queued + 1 /\ pc' = [pc EXCEPT ![r] = "poll"]
             /\ UNCHANGED <<inFlight, free, cli, fault>>
    <3>1. Follows(queued, queued', pc[r], "poll", WaitPlaces)
      BY <1>1, <1>2, <1>3, <2>2 DEF Enter, Follows
    <3> QED BY <1>2, <1>3, <2>2, <3>1, WaitHolds DEF Enter
  <2> QED BY <1>3, <2>1, <2>2 DEF Enter
<1>4. CASE Poll(r)
  <2>1. CASE inFlight < slots /\ queued' = queued - 1 /\ Acquire(r)
    BY <1>1, <1>2, <1>4, <2>1, AcquireHolds DEF Poll
  <2>2. CASE /\ inFlight >= slots /\ pc' = [pc EXCEPT ![r] = "doze"]
             /\ UNCHANGED <<queued, inFlight, free, cli, fault>>
    <3>1. Follows(queued, queued', pc[r], "doze", WaitPlaces)
      BY <1>1, <1>2, <1>4, <2>2 DEF Poll, Follows
    <3> QED BY <1>2, <1>4, <2>2, <3>1, WaitHolds DEF Poll
  <2> QED BY <1>4, <2>1, <2>2 DEF Poll, Retry
<1>5. CASE Wake(r)
  <2>1. CASE inFlight < slots /\ queued' = queued - 1 /\ Acquire(r)
    BY <1>1, <1>2, <1>5, <2>1, AcquireHolds DEF Wake
  <2>2. CASE /\ inFlight >= slots /\ pc' = [pc EXCEPT ![r] = "poll"]
             /\ UNCHANGED <<queued, inFlight, free, cli, fault>>
    <3>1. Follows(queued, queued', pc[r], "poll", WaitPlaces)
      BY <1>1, <1>2, <1>5, <2>2 DEF Wake, Follows
    <3> QED BY <1>2, <1>5, <2>2, <3>1, WaitHolds DEF Wake
  <2> QED BY <1>5, <2>1, <2>2 DEF Wake, Retry
<1>6. CASE LeaveQueue(r)
  <2>1. Follows(queued, queued', pc[r], "ended", WaitPlaces)
    BY <1>1, <1>2, <1>6 DEF LeaveQueue, Follows
  <2> QED BY <1>2, <1>6, <2>1, WaitHolds DEF LeaveQueue
<1> QED BY <1>3, <1>4, <1>5, <1>6

LEMMA LeaveHolds ==
    ASSUME SlotsInv, ~fault, NEW r \in Requests, Leave(r) PROVE SlotsInv'
<1> USE DEF Leave
<1>1. /\ "ended" \in Places /\ "ended" \notin HeldPlaces /\ "ended" \notin WaitPlaces
      /\ pc[r] \in HeldPlaces /\ pc[r] \notin WaitPlaces
  BY DEF Places, HeldPlaces, WaitPlaces
<1>2. /\ queued \in Int /\ inFlight \in Nat /\ inFlight <= slots /\ slots \in Nat
      /\ free \in Seq(1 .. Width) /\ cli \in [Requests -> 0 .. Width] /\ pool \in Nat
      /\ pc \in [Requests -> Places]
  BY WidthType, FS_CardinalityType DEF SlotsInv, TypeOK, Places, HeldPlaces, WaitPlaces
<1>3. /\ Counted' /\ pc' \in [Requests -> Places]
      /\ inFlight' \in Nat /\ queued' \in 0 .. Cardinality(Requests)
  <2>1. Follows(inFlight, inFlight', pc[r], "ended", HeldPlaces)
    BY <1>1, <1>2 DEF In, Follows
  <2>2. Follows(queued, queued', pc[r], "ended", WaitPlaces)
    BY <1>1, <1>2 DEF In, Follows
  <2> QED BY <1>1, <2>1, <2>2, CountersFollow
<1>4. inFlight' \in 0 .. slots'
  BY <1>2, <1>3
<1>5. cli[r] \in 1 .. Width
  BY <1>1, <1>2, WidthType DEF SlotsInv, Served
<1>6. free' \in Seq(1 .. Width) /\ cli' \in [Requests -> 0 .. Width]
  BY <1>2, <1>5, WidthType
<1>7. TypeOK'
  BY <1>3, <1>4, <1>6
     DEF SlotsInv, TypeOK, Places, HeldPlaces, WaitPlaces, engine
<1>8. free \in Seq(Nat) /\ cli \in [Requests -> Nat] /\ cli[r] # 0
  BY <1>2, <1>5, WidthType
<1>9. Dealt(cli', free', pool')
  BY <1>2, <1>8, ClientGiven DEF SlotsInv, Served
<1>10. ASSUME NEW q \in Requests PROVE cli'[q] # 0 <=> pc'[q] \in HeldPlaces
  BY <1>1, <1>2 DEF SlotsInv, Served
<1>11. Served'
  BY <1>9, <1>10 DEF SlotsInv, Served
<1>12. Paid'
  BY DEF SlotsInv, Paid
<1> QED BY <1>3, <1>7, <1>11, <1>12 DEF SlotsInv

-----------------------------------------------------------------------------
(* The probe and the engine.                                                *)

LEMMA ProbeHolds ==
    ASSUME SlotsInv, ~fault, ProbeAnswered \/ ProbeFailed \/ Reprobe PROVE SlotsInv'
<1>1. CASE ProbeFailed
  <2> USE <1>1 DEF ProbeFailed
  <2>1. TypeOK'
    BY DEF SlotsInv, TypeOK, engine
  <2>2. Counted' /\ Paid' /\ Served'
    BY DEF SlotsInv, Counted, Paid, Served
  <2> QED BY <2>1, <2>2 DEF SlotsInv
<1>2. CASE ProbeAnswered \/ Reprobe
  <2>1. /\ probe # "done" /\ probe' = "done" /\ Apply
        /\ UNCHANGED <<inFlight, queued, connMtx, conn, pc, cli, outcome, engine, spoiled,
                       fault>>
    BY <1>2 DEF ProbeAnswered, Reprobe
  <2>2. pool = 0 /\ Dealt(cli, free, 0)
    BY <2>1 DEF SlotsInv, Served
  <2>3. free' = free \o [i \in 1 .. Width - 0 |-> 0 + i] /\ pool' = Width /\ slots' = Width
    BY <2>1, <2>2 DEF Apply
  <2>4. /\ Width \in Nat /\ free \in Seq(Nat) /\ cli \in [Requests -> Nat]
        /\ inFlight \in 0 .. slots /\ slots \in 1 .. Width
    BY WidthType DEF SlotsInv, TypeOK
  <2>5. free = <<>> /\ Dealt(cli, free', Width)
    BY <2>2, <2>3, <2>4, ClientsAdded
  <2>6. free' \in Seq(1 .. Width)
    <3> DEFINE new == [i \in 1 .. Width - 0 |-> 0 + i]
    <3>1. new \in Seq(1 .. Width)
      BY <2>4
    <3>2. <<>> \o new = new
      BY <3>1, ConcatEmptySeq
    <3> QED BY <2>3, <2>5, <3>1, <3>2
  <2>7. inFlight \in 0 .. Width /\ Width \in 1 .. Width
    BY <2>4, WidthType
  <2>8. TypeOK'
    BY <2>1, <2>3, <2>6, <2>7 DEF SlotsInv, TypeOK, engine
  <2>9. Counted' /\ Paid'
    BY <2>1 DEF SlotsInv, Counted, Paid
  <2>10. Served'
    BY <2>1, <2>3, <2>5 DEF SlotsInv, Served
  <2> QED BY <2>1, <2>8, <2>9, <2>10 DEF SlotsInv
<1> QED BY <1>1, <1>2

LEMMA EngineHolds ==
    ASSUME SlotsInv, ~fault, Crash \/ Restart PROVE SlotsInv'
<1>1. CASE Restart
  <2> USE <1>1 DEF Restart
  <2>1. TypeOK'
    BY DEF SlotsInv, TypeOK
  <2>2. Counted' /\ Paid' /\ Served'
    BY DEF SlotsInv, Counted, Paid, Served
  <2> QED BY <2>1, <2>2 DEF SlotsInv
<1>2. CASE Crash
  <2> USE <1>2 DEF Crash
  <2>1. /\ outcome \in [Requests -> Outcomes] /\ conn \in [1 .. Width -> States]
        /\ spoiled \in Nat
    BY DEF SlotsInv, TypeOK, Outcomes, States
  <2>2. IsFiniteSet(1 .. Width)
    BY FS_Interval, WidthType
  <2>3. /\ conn' = [i \in 1 .. Width |-> IF conn[i] = "open" THEN "stale" ELSE conn[i]]
        /\ {i \in DOMAIN conn : conn[i] = "open"} = At(conn, {"open"})
    BY <2>1 DEF At
  <2>4. /\ Cardinality(At(conn, {"open"})) \in Nat
        /\ Cardinality(At(conn, {"stale"})) \in Nat
        /\ Cardinality(At(outcome, {"lost"})) \in Nat
    BY <2>1, <2>2, CountFinite
  <2>5. Joined(conn, conn', "open", "stale")
    <3>1. conn' = [i \in 1 .. Width |-> IF conn[i] = "open" THEN "stale" ELSE conn[i]]
      BY <2>3
    <3>2. conn \in [1 .. Width -> States] /\ "open" # "stale"
      BY <2>1
    <3>3. Joined(conn, [i \in 1 .. Width |-> IF conn[i] = "open" THEN "stale" ELSE conn[i]],
                 "open", "stale")
      BY <2>2, <3>2, CountJoins
    <3> QED BY <3>1, <3>3
  <2>6. spoiled' = spoiled + Cardinality(At(conn, {"open"})) /\ outcome' = outcome
    BY <2>3
  <2>7. Paid'
    BY <2>1, <2>4, <2>5, <2>6 DEF SlotsInv, Paid, Joined
  <2>8. conn' \in [1 .. Width -> States] /\ spoiled' \in Nat
    BY <2>1, <2>3, <2>4, <2>6 DEF States
  <2>9. crashes' \in 0 .. MaxCrashes
    BY DEF SlotsInv, TypeOK
  <2>10. TypeOK'
    BY <2>8, <2>9 DEF SlotsInv, TypeOK, States
  <2>11. Counted' /\ Served'
    BY DEF SlotsInv, Counted, Served
  <2> QED BY <2>7, <2>10, <2>11 DEF SlotsInv
<1> QED BY <1>1, <1>2

-----------------------------------------------------------------------------
(* The theorems.                                                            *)

THEOREM SlotsInvHolds == Spec => []SlotsInv
<1>1. Init => SlotsInv
  BY InitHolds
<1>2. SlotsInv /\ [Next]_vars => SlotsInv'
  <2> SUFFICES ASSUME SlotsInv, [Next]_vars PROVE SlotsInv'
    OBVIOUS
  <2>1. CASE Next
    <3>1. ~fault
      BY <2>1 DEF Next
    <3>2. CASE ProbeAnswered \/ ProbeFailed \/ Reprobe
      BY <3>1, <3>2, ProbeHolds
    <3>3. CASE Crash \/ Restart
      BY <3>1, <3>3, EngineHolds
    <3>4. CASE \E r \in Requests : Step(r)
      <4>1. PICK r \in Requests : Step(r)
        BY <3>4
      <4> QED BY <3>1, <4>1, QueueHolds, ReadyHolds, ConnectHolds, AnswerHolds, LeaveHolds
              DEF Step, Holding
    <3> QED BY <2>1, <3>2, <3>3, <3>4 DEF Next
  <2>2. CASE UNCHANGED vars
    <3>1. TypeOK'
      BY <2>2 DEF vars, engine, SlotsInv, TypeOK
    <3>2. Counted' /\ Paid' /\ (Served' <=> Served)
      BY <2>2 DEF vars, engine, SlotsInv, Counted, Paid, Served
    <3>3. probe' = probe /\ fault' = fault
      BY <2>2 DEF vars
    <3> QED BY <3>1, <3>2, <3>3 DEF SlotsInv
  <2> QED BY <2>1, <2>2
<1> QED BY <1>1, <1>2, PTL DEF Spec

LEMMA ExclusiveFollows == SlotsInv => ClientExclusive
<1> SUFFICES ASSUME SlotsInv, ~fault PROVE ClientExclusive
  BY DEF ClientExclusive
<1>1. Served /\ pc \in [Requests -> Places] /\ cli \in [Requests -> 0 .. Width]
  BY DEF SlotsInv, TypeOK, Places, HeldPlaces, WaitPlaces
<1>2. \A r \in Requests : r \in Held <=> cli[r] # 0
  BY <1>1 DEF Held, Served, HeldPlaces
<1>3. Held \subseteq Requests
  BY DEF Held
<1>4. pool \in Nat /\ Len(free) \in Nat
  BY WidthType DEF SlotsInv, TypeOK
<1>5. \A r, s \in Held : cli[r] = cli[s] => r = s
  BY <1>1, <1>2, <1>3 DEF Served, Dealt
<1>6. \A i, j \in 1 .. Len(free) : free[i] = free[j] => i = j
  BY <1>1 DEF Served, Dealt
<1>7. {cli[r] : r \in Held} \cap {free[i] : i \in 1 .. Len(free)} = {}
  BY <1>1, <1>3 DEF Served, Dealt
<1>8. {cli[r] : r \in Held} \cup {free[i] : i \in 1 .. Len(free)} \subseteq 1 .. pool
  <2>1. \A r \in Held : cli[r] \in 1 .. pool
    BY <1>1, <1>2, <1>3, <1>4 DEF Served, Dealt
  <2>2. \A i \in 1 .. Len(free) : free[i] \in 1 .. pool
    BY <1>1 DEF Served, Dealt
  <2> QED BY <2>1, <2>2
<1>9. 1 .. pool \subseteq {cli[r] : r \in Held} \cup {free[i] : i \in 1 .. Len(free)}
  <2> SUFFICES ASSUME NEW k \in 1 .. pool
               PROVE  (\E r \in Held : cli[r] = k) \/ (\E i \in 1 .. Len(free) : free[i] = k)
    OBVIOUS
  <2>1. (\E r \in Requests : cli[r] = k) \/ (\E i \in 1 .. Len(free) : free[i] = k)
    BY <1>1 DEF Served, Dealt
  <2>2. ASSUME NEW r \in Requests, cli[r] = k PROVE r \in Held
    BY <1>2, <1>4, <2>2
  <2> QED BY <2>1, <2>2
<1> QED BY <1>5, <1>6, <1>7, <1>8, <1>9 DEF ClientExclusive

LEMMA CountsFollow == SlotsInv => CountsAreExact
BY CountsAreThose DEF SlotsInv, Counted, CountsAreExact

LEMMA PaidFollows == SlotsInv => LostIsPaid
<1> SUFFICES ASSUME SlotsInv PROVE LostIsPaid
  OBVIOUS
<1>1. /\ {r \in Requests : outcome[r] = "lost"} = At(outcome, {"lost"})
      /\ {i \in DOMAIN conn : conn[i] = "stale"} = At(conn, {"stale"})
  BY DEF SlotsInv, TypeOK, At
<1> QED BY <1>1 DEF SlotsInv, Paid, LostIsPaid

(* A pooled connection is in one hand or once in the free list, whatever    *)
(* way requests end and whenever the engine dies, for every number of       *)
(* requests and every width (SlotGuard).                                    *)
THEOREM ClientsAreExclusive == Spec => [](TypeOK /\ ClientExclusive)
BY SlotsInvHolds, ExclusiveFollows, PTL DEF SlotsInv

(* What /health reports is what there is, a process about to die included.  *)
THEOREM CountsHold == Spec => []CountsAreExact
BY SlotsInvHolds, CountsFollow, PTL

(* No more requests fail with a lost connection than connections went stale *)
(* (engine_ready, the reset on a timeout).                                  *)
THEOREM LostArePaid == Spec => []LostIsPaid
BY SlotsInvHolds, PaidFollows, PTL

(* With an engine that answers the probe at startup, whoever is given a     *)
(* slot finds a connection: "g_in_flight < g_slots: one is free".  Without  *)
(* that answer the pool is empty while g_slots is 1 (probe_engine).         *)
THEOREM SlotsStaySafe ==
    ASSUME ProbeMayFail = FALSE PROVE Spec => []SlotsAreSafe
<1>1. SlotsInv => SlotsAreSafe
  <2> SUFFICES ASSUME SlotsInv PROVE SlotsAreSafe
    OBVIOUS
  <2>1. ~fault /\ probe # "retry"
    BY DEF SlotsInv
  <2>2. OneIsFree
    BY <2>1, FreeOne DEF OneIsFree, SlotsInv, TypeOK
  <2> QED BY <2>2, ExclusiveFollows, CountsFollow, PaidFollows DEF SlotsInv, SlotsAreSafe
<1> QED BY <1>1, SlotsInvHolds, PTL
=============================================================================
