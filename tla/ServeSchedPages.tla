--------------------------- MODULE ServeSchedPages ---------------------------
(***************************************************************************)
(* What admission promises, for every set of requests, number of slots and *)
(* pages: a restore always finds its pages; requests whose budget is inside *)
(* the decode reservation are never aborted; and nobody is sacrificed for a *)
(* request that came later.                                                 *)
(*                                                                         *)
(* Promises are counted as sets of cells, one per slot and page.  When the *)
(* pool is dry every page is in a cell, so a promise that leaves a cell     *)
(* unmapped, or maps a page twice, would count more pages than there are.  *)
(***************************************************************************)
EXTENDS ServeSchedProofs

(* A cell for each of the first w[s] pages of each slot s.                  *)
Cells(w) == UNION {{s} \X (1 .. w[s]) : s \in Slot}

LEMMA CellsAre ==
    ASSUME NEW w
    PROVE  \A c : c \in Cells(w) <=> \E s \in Slot : \E i \in 1 .. w[s] : c = <<s, i>>
BY DEF Cells

LEMMA ColumnFinite ==
    ASSUME NEW s, NEW n \in Int
    PROVE  /\ IsFiniteSet({s} \X (1 .. n))
           /\ n \in Nat => Cardinality({s} \X (1 .. n)) = n
<1>1. IsFiniteSet({s}) /\ Cardinality({s}) = 1
  BY FS_Singleton
<1>2. IsFiniteSet(1 .. n) /\ Cardinality(1 .. n) = IF 1 > n THEN 0 ELSE n - 1 + 1
  BY FS_Interval
<1>3. /\ IsFiniteSet({s} \X (1 .. n))
      /\ Cardinality({s} \X (1 .. n)) = Cardinality({s}) * Cardinality(1 .. n)
  BY <1>1, <1>2, FS_Product
<1>4. n \in Nat => Cardinality(1 .. n) = n
  BY <1>2
<1>5. n \in Nat => Cardinality({s} \X (1 .. n)) = 1 * n
  BY <1>1, <1>3, <1>4
<1> QED BY <1>3, <1>5

LEMMA CellsFinite ==
    ASSUME NEW w \in [Slot -> Int]
    PROVE  IsFiniteSet(Cells(w)) /\ Cardinality(Cells(w)) \in Nat
<1> DEFINE F == {{s} \X (1 .. w[s]) : s \in Slot}
<1> DEFINE f == [s \in Slot |-> {s} \X (1 .. w[s])]
<1>1. IsFiniteSet(Slot)
  BY FS_Interval, SizesAssumption DEF SizesAssumption, Slot
<1>2. f \in Surjection(Slot, F)
  BY DEF Surjection
<1>3. IsFiniteSet(F)
  <2> HIDE DEF f, F
  <2> QED BY <1>1, <1>2, FS_Surjection
<1>4. \A T \in F : IsFiniteSet(T)
  <2>1. \A s \in Slot : w[s] \in Int
    OBVIOUS
  <2>2. \A s \in Slot : IsFiniteSet({s} \X (1 .. w[s]))
    BY <2>1, ColumnFinite
  <2> QED BY <2>2
<1>5. IsFiniteSet(UNION F)
  <2> HIDE DEF F
  <2> QED BY <1>3, <1>4, FS_UNION
<1>6. IsFiniteSet(Cells(w))
  BY <1>5 DEF Cells
<1> QED BY <1>6, FS_CardinalityType

(* Narrower columns hold no more cells.                                     *)
LEMMA CellsShrink ==
    ASSUME NEW w \in [Slot -> Int], NEW v \in [Slot -> Int], \A s \in Slot : w[s] <= v[s]
    PROVE  Cells(w) \subseteq Cells(v) /\ Cardinality(Cells(w)) <= Cardinality(Cells(v))
<1>1. \A s \in Slot : 1 .. w[s] \subseteq 1 .. v[s]
  OBVIOUS
<1>2. Cells(w) \subseteq Cells(v)
  BY <1>1, CellsAre
<1> QED BY <1>2, CellsFinite, FS_Subset

(* One column of n cells more.                                              *)
LEMMA ColumnAdded ==
    ASSUME NEW w \in [Slot -> Int], NEW v \in [Slot -> Int], NEW m \in Slot, NEW n \in Nat,
           w[m] <= n, \A s \in Slot \ {m} : w[s] <= v[s]
    PROVE  Cardinality(Cells(w)) <= n + Cardinality(Cells(v))
<1> DEFINE column == {m} \X (1 .. n)
<1>1. \A s \in Slot \ {m} : 1 .. w[s] \subseteq 1 .. v[s]
  OBVIOUS
<1>2. 1 .. w[m] \subseteq 1 .. n
  OBVIOUS
<1>3. Cells(w) \subseteq column \cup Cells(v)
  BY <1>1, <1>2, CellsAre
<1>4. IsFiniteSet(column) /\ Cardinality(column) = n
  <2>1. n \in Int
    OBVIOUS
  <2>2. IsFiniteSet({m} \X (1 .. n)) /\ Cardinality({m} \X (1 .. n)) = n
    BY <2>1, ColumnFinite, Zenon
  <2> QED BY <2>2
<1>5. IsFiniteSet(Cells(v)) /\ Cardinality(Cells(v)) \in Nat
  BY CellsFinite
<1> HIDE DEF column
<1>6. /\ IsFiniteSet(column \cup Cells(v))
      /\ Cardinality(column \cup Cells(v))
           = Cardinality(column) + Cardinality(Cells(v)) - Cardinality(column \cap Cells(v))
  BY <1>4, <1>5, FS_Union
<1>7. Cardinality(column \cap Cells(v)) \in Nat
  BY <1>4, FS_Subset, FS_CardinalityType
<1>8. Cardinality(Cells(w)) <= Cardinality(column \cup Cells(v))
  BY <1>3, <1>6, FS_Subset
<1>9. Cardinality(Cells(w)) \in Nat
  BY CellsFinite
<1> QED BY <1>4, <1>5, <1>6, <1>7, <1>8, <1>9

(* Cells whose tables name every page are at least as many as the pages.    *)
LEMMA PagesCounted ==
    ASSUME NEW C, IsFiniteSet(C), NEW t,
           \A p \in Pages : \E s \in Slot : \E i \in 1 .. Len(t[s]) :
               t[s][i] = p /\ <<s, i>> \in C
    PROVE  NPages <= Cardinality(C)
<1> DEFINE D == {c \in C : t[c[1]][c[2]] \in Pages}
<1> DEFINE f == [c \in D |-> t[c[1]][c[2]]]
<1>1. IsFiniteSet(D) /\ Cardinality(D) <= Cardinality(C)
  BY FS_Subset
<1>2. \A p \in Pages : \E c \in D : f[c] = p
  <2> TAKE p \in Pages
  <2>0. PICK s \in Slot : \E i \in 1 .. Len(t[s]) : t[s][i] = p /\ <<s, i>> \in C
    OBVIOUS
  <2>1. PICK i \in 1 .. Len(t[s]) : t[s][i] = p /\ <<s, i>> \in C
    BY <2>0
  <2> DEFINE c == <<s, i>>
  <2>2. c[1] = s /\ c[2] = i
    OBVIOUS
  <2>3. c \in D /\ f[c] = p
    BY <2>1, <2>2
  <2> QED BY <2>3
<1>3. f \in Surjection(D, Pages)
  BY <1>2 DEF Surjection
<1>4. Cardinality(Pages) <= Cardinality(D)
  <2> HIDE DEF f, D
  <2> QED BY <1>1, <1>3, FS_Surjection
<1>5. NPages \in Nat /\ Cardinality(Pages) = NPages
  BY FS_Interval, SizesAssumption DEF SizesAssumption, Pages
<1>6. Cardinality(D) \in Nat /\ Cardinality(C) \in Nat
  BY <1>1, FS_CardinalityType
<1> HIDE DEF D
<1> QED BY <1>1, <1>4, <1>5, <1>6
-----------------------------------------------------------------------------
(* Promises.                                                                *)

(* What the running requests but that of slot m hold or reserved, whichever *)
(* is more, with books l and sequences q.                                   *)
Others(l, q, m) ==
    [s \in Slot |-> IF s # m /\ l[s].busy /\ ~l[s].abort
                    THEN Larger(l[s].reserved, Len(q[s].tab)) ELSE 0]

LEMMA TablesTyped ==
    ASSUME NEW q \in [Slot -> SeqRecord]
    PROVE  \A s \in Slot : q[s].tab \in Seq(Pages) /\ Len(q[s].tab) \in Nat
BY LenProperties DEF SeqRecord

LEMMA OthersTyped ==
    ASSUME NEW l \in [Slot -> SlotRecord], NEW q \in [Slot -> SeqRecord], NEW m
    PROVE  Others(l, q, m) \in [Slot -> Int]
<1>1. \A s \in Slot : l[s].reserved \in Int /\ Len(q[s].tab) \in Int
  BY TablesTyped DEF SlotRecord
<1> QED BY <1>1 DEF Others, Larger

LEMMA SupplyIs ==
    ASSUME Types, RestTypes, NEW m \in Slot
    PROVE  Supply(m) = NPages - Cardinality(Cells(Others(sl, seq, m)))
<1>2. \A s \in Slot : 1 .. Others(sl, seq, m)[s] =
          IF s # m /\ sl[s].busy /\ ~sl[s].abort
          THEN 1 .. Larger(sl[s].reserved, Len(seq[s].tab)) ELSE {}
  BY DEF Others
<1>3. /\ DOMAIN States = Slot
      /\ \A s \in Slot : /\ States[s].busy <=> sl[s].busy /\ ~sl[s].abort
                         /\ States[s].mapped = Len(seq[s].tab)
                         /\ States[s].reserved = sl[s].reserved
  BY DEF States
<1>4. Promised(States, m) = Cells(Others(sl, seq, m))
  <2>1. \A c : c \in Promised(States, m) <=>
          \E s \in Slot : /\ s # m /\ sl[s].busy /\ ~sl[s].abort
                          /\ c \in {s} \X (1 .. Larger(sl[s].reserved, Len(seq[s].tab)))
    BY <1>3 DEF Promised
  <2>2. \A c : c \in Cells(Others(sl, seq, m)) <=>
          \E s \in Slot : c \in {s} \X (1 .. Others(sl, seq, m)[s])
    BY DEF Cells
  <2>3. ASSUME NEW s \in Slot, NEW c
        PROVE  c \in {s} \X (1 .. Others(sl, seq, m)[s]) <=>
                  /\ s # m /\ sl[s].busy /\ ~sl[s].abort
                  /\ c \in {s} \X (1 .. Larger(sl[s].reserved, Len(seq[s].tab)))
    BY <1>2
  <2> QED BY <2>1, <2>2, <2>3
<1> QED BY <1>4 DEF Supply, AdmissionAvailable

(* The promises to others shrink when they keep no more than they had.      *)
LEMMA OthersShrink ==
    ASSUME NEW l \in [Slot -> SlotRecord], NEW q \in [Slot -> SeqRecord],
           NEW k \in [Slot -> SlotRecord], NEW p \in [Slot -> SeqRecord], NEW m,
           \A s \in Slot \ {m} : k[s].busy /\ ~k[s].abort =>
               /\ l[s].busy /\ ~l[s].abort /\ k[s].reserved = l[s].reserved
               /\ Len(p[s].tab) <= Len(q[s].tab)
    PROVE  /\ Cardinality(Cells(Others(k, p, m))) \in Nat
           /\ Cardinality(Cells(Others(l, q, m))) \in Nat
           /\ Cardinality(Cells(Others(k, p, m))) <= Cardinality(Cells(Others(l, q, m)))
<1>1. Others(l, q, m) \in [Slot -> Int] /\ Others(k, p, m) \in [Slot -> Int]
  BY OthersTyped
<1>2. \A s \in Slot : /\ l[s].reserved \in Int /\ k[s].reserved \in Int
                      /\ Len(q[s].tab) \in Nat /\ Len(p[s].tab) \in Nat
  BY TablesTyped DEF SlotRecord
<1>3. \A s \in Slot : Others(k, p, m)[s] <= Others(l, q, m)[s]
  BY <1>2 DEF Others, Larger
<1> QED BY <1>1, <1>3, CellsShrink, CellsFinite

LEMMA TargetFacts ==
    ASSUME NEW r \in Req
    PROVE  /\ Target(r) \in Nat /\ PagesFor(Snap[r], Page) <= Target(r)
           /\ Target(r) <= PagesFor(MaxCtx, Page)
           /\ Budget[r] <= DecodeCap => Target(r) = PagesFor(LastRow(r), Page)
<1>1. /\ Prompt[r] \in Nat /\ Budget[r] \in Nat /\ Prompt[r] + Budget[r] <= MaxCtx
      /\ Snap[r] \in Nat /\ Snap[r] < Prompt[r] /\ MaxCtx \in Nat /\ DecodeCap \in Nat
  BY RequestAssumption, SizesAssumption DEF RequestAssumption, SizesAssumption
<1> DEFINE rows == Smaller(MaxCtx, Smaller(Prompt[r], MaxCtx)
                                     + Larger(0, Smaller(Budget[r], DecodeCap)))
<1>2. /\ rows \in Nat /\ Snap[r] <= rows /\ rows <= MaxCtx
      /\ Budget[r] <= DecodeCap => rows = Prompt[r] + Budget[r]
  BY <1>1 DEF Smaller, Larger
<1>3. Target(r) = PagesFor(rows, Page)
  BY DEF Target, AdmissionTarget
<1> HIDE DEF rows
<1> QED BY <1>1, <1>2, <1>3, RowPages DEF LastRow

(* Steps that touch books, sequences or checkpoints own the GPU.            *)
LEMMA OnlyTheOwner ==
    ASSUME Types, NEW q \in Req, Worker(q), ~Owns(q)
    PROVE  /\ UNCHANGED <<mine, job, sl, seq, ck, lendVars, copies, admitted>>
           /\ pc'[q] \in {"queued", "ended", "admit", "back"}
<1> USE DEF At, Goto, Types, slotVars, lendVars, copies, clocks
<1>1. CASE Admission(q)
  BY <1>1 DEF Admission, Arrive, LeaveQueue, TryTurn, TurnAway, Claim
<1>2. CASE Reuse(q)
  BY <1>2 DEF Reuse, Continue, RestoreRam, RestoreSsd, Fresh, Refuse, Begin, Reusing
<1>3. CASE MapRows(q)
  BY <1>3 DEF MapRows, CopyOnWrite, MapPage, EvictCheckpoint, DropIdle, AbortLater, Overflow,
              SnapRead, Starving, Dry, Backed, Mapping
<1>4. CASE Prefill(q)
  BY <1>4 DEF Prefill, Skip, StartChunk, EnterLayers, Lend, EndChunk, Backed, Mapping
<1>5. CASE HandOver(q)
  BY <1>5 DEF HandOver, KeepGpu, YieldGpu, AskAgain, Regain
<1>6. CASE Decode(q)
  BY <1>6 DEF Decode, StopDecode, StartRound, SkipRound, Verify, EndRound, Backed, Mapping
<1>7. CASE Leaving(q)
  BY <1>7 DEF Leaving, Catch, LeaveSlot, ReleaseGpu
<1> QED BY <1>1, <1>2, <1>3, <1>4, <1>5, <1>6, <1>7 DEF Worker
-----------------------------------------------------------------------------
(* A restore from the SSD cache.                                            *)
Restoring(r) == pc[r] = "map" /\ job[r].kind = "snap"

(* The rows mapped for a snapshot are fresh pages, and between admission    *)
(* and the end of the restore the pool still holds what was promised.       *)
FreshRows(r) == Restoring(r) => \A p \in PagesOf(mine[r]) : ~SharedPage(mine[r], p)
HasRoom(r) ==
    pc[r] = "reuse" \/ Restoring(r) =>
        Target(r) + Cardinality(Cells(Others(sl, seq, mine[r]))) <= NPages
RoomInv == \A r \in Req : FreshRows(r) /\ HasRoom(r)

(* Nobody else's promise grows while this worker maps.                      *)
LEMMA RoomKept ==
    ASSUME Types, RestTypes, Types', RestTypes', NEW r \in Req,
           pc[r] = "reuse" \/ Restoring(r), HasRoom(r), mine'[r] = mine[r],
           \A s \in Slot \ {mine[r]} : sl'[s].busy /\ ~sl'[s].abort =>
               /\ sl[s].busy /\ ~sl[s].abort /\ sl'[s].reserved = sl[s].reserved
               /\ Len(seq'[s].tab) <= Len(seq[s].tab)
    PROVE  HasRoom(r)'
<1> DEFINE m == mine[r]
<1>1. /\ sl \in [Slot -> SlotRecord] /\ sl' \in [Slot -> SlotRecord]
      /\ seq \in [Slot -> SeqRecord] /\ seq' \in [Slot -> SeqRecord]
  BY DEF Types, RestTypes
<1>2. /\ Cardinality(Cells(Others(sl', seq', m))) \in Nat
      /\ Cardinality(Cells(Others(sl, seq, m))) \in Nat
      /\ Cardinality(Cells(Others(sl', seq', m))) <= Cardinality(Cells(Others(sl, seq, m)))
  BY <1>1, OthersShrink
<1>3. Target(r) \in Nat /\ Target(r)' = Target(r) /\ NPages \in Nat
  BY TargetFacts, SizesAssumption DEF Target, SizesAssumption
<1>4. Target(r) + Cardinality(Cells(Others(sl, seq, m))) <= NPages
  BY DEF HasRoom
<1>5. Target(r) + Cardinality(Cells(Others(sl', seq', m))) <= NPages
  BY <1>2, <1>3, <1>4
<1> QED BY <1>3, <1>5 DEF HasRoom

LEMMA RoomWorker ==
    ASSUME IInv, SInv, IInv', SInv', RoomInv, NEW r \in Req, Worker(r), Owns(r)
    PROVE  FreshRows(r)' /\ HasRoom(r)'
<1>1. /\ Types /\ RestTypes /\ Types' /\ RestTypes' /\ FreshRows(r) /\ HasRoom(r)
      /\ pc \in [Req -> Labels] /\ JobFits(r) /\ JobFits(r)'
  BY DEF IInv, SInv, RoomInv, Types
<1> USE DEF At, Goto
<1>2. ASSUME ~Restoring(r)', pc'[r] # "reuse" PROVE FreshRows(r)' /\ HasRoom(r)'
  BY <1>2 DEF FreshRows, HasRoom
<1>3. CASE Claim(r)
  <2>1. pc'[r] = "reuse"
    BY <1>1, <1>3 DEF Claim
  <2>2. PICK s \in Slot :
          /\ Need(r, s) <= Supply(s)
          /\ sl' = [sl EXCEPT ![s] =
                    [busy |-> TRUE, abort |-> FALSE, seq |-> admitted + 1,
                     lastUse |-> sl[s].lastUse, owner |-> {r}, reserved |-> Target(r)]]
          /\ mine' = [mine EXCEPT ![r] = s]
    BY <1>3, CandidatesIdle DEF Claim, Idle
  <2>3. mine'[r] = s /\ seq' = seq /\ \A u \in Slot \ {s} : sl'[u] = sl[u]
    BY <1>1, <1>3, <2>2 DEF Claim, Types
  <2>4. Need(r, s) >= Target(r) /\ Target(r) \in Nat /\ Need(r, s) \in Nat
    <3>1. Target(r) \in Nat /\ Len(seq[s].tab) \in Nat
      BY <1>1, TargetFacts, SequenceTyped
    <3> QED BY <3>1 DEF Need, AdmissionNeed, Larger
  <2>5. Others(sl', seq', s) = Others(sl, seq, s)
    BY <2>3 DEF Others
  <2>6. Cardinality(Cells(Others(sl, seq, s))) \in Nat /\ NPages \in Nat
    <3>1. Others(sl, seq, s) \in [Slot -> Int]
      BY <1>1, OthersTyped DEF Types, RestTypes
    <3> QED BY <3>1, CellsFinite, SizesAssumption DEF SizesAssumption
  <2>7. Target(r) + Cardinality(Cells(Others(sl, seq, s))) <= NPages
    <3>1. Supply(s) = NPages - Cardinality(Cells(Others(sl, seq, s)))
      BY <1>1, SupplyIs
    <3> QED BY <2>2, <2>4, <2>6, <3>1
  <2>8. Target(r)' = Target(r)
    BY DEF Target
  <2>9. HasRoom(r)'
    BY <2>3, <2>5, <2>7, <2>8 DEF HasRoom
  <2> QED BY <2>1, <2>9 DEF FreshRows, Restoring
<1>4. CASE RestoreSsd(r)
  <2>1. /\ pc[r] = "reuse" /\ mine' = mine /\ sl' = sl /\ mine[r] \in Slot
        /\ seq' = [seq EXCEPT ![mine[r]].tab = <<>>]
    BY <1>1, <1>4 DEF RestoreSsd, Reusing, IInv, Placed, Homeless, Types
  <2>2. seq'[mine[r]].tab = <<>> /\ \A s \in Slot \ {mine[r]} : seq'[s] = seq[s]
    BY <1>1, <2>1 DEF RestTypes, SeqRecord
  <2>3. HasRoom(r)'
    <3>1. \A s \in Slot : Len(seq[s].tab) \in Nat
      BY <1>1, SequenceTyped
    <3> QED BY <1>1, <2>1, <2>2, <3>1, RoomKept
  <2>4. FreshRows(r)'
    BY <2>1, <2>2 DEF FreshRows, PagesOf, ToSet
  <2> QED BY <2>3, <2>4
<1>5. CASE MapRows(r) /\ ~SnapRead(r) /\ ~Overflow(r)
  <2>1. /\ pc[r] = "map" /\ pc'[r] = "map" /\ mine' = mine /\ job' = job /\ mine[r] \in Slot
        /\ sl[mine[r]].busy
    BY <1>1, <1>5 DEF MapRows, CopyOnWrite, MapPage, EvictCheckpoint, DropIdle, AbortLater,
       Starving, Dry, Mapping, threadVars, IInv, Placed, Homeless, Types, SlotExclusive
  <2>2. SUFFICES ASSUME Restoring(r) PROVE FreshRows(r)' /\ HasRoom(r)'
    BY <2>1, <1>2 DEF Restoring
  <2>3. \A s \in Slot : Len(seq[s].tab) \in Nat
    BY <1>1, SequenceTyped
  <2>4. Shared(r) = {}
    <3>1. \A i \in DOMAIN seq[mine[r]].tab : seq[mine[r]].tab[i] \in PagesOf(mine[r])
      BY DEF PagesOf, ToSet
    <3> QED BY <1>1, <2>2, <3>1 DEF FreshRows, Shared
  <2>5. ~CopyOnWrite(r)
    BY <2>4 DEF CopyOnWrite
  <2>6. CASE MapPage(r)
    <3> DEFINE new == LowestFree
    <3>1. new \in Free /\ new \in Pages
      BY <2>6, LowestIsFree DEF MapPage
    <3>2. /\ seq' = [seq EXCEPT ![mine[r]].tab = Append(seq[mine[r]].tab, new)]
          /\ sl' = sl /\ ck' = ck
      BY <2>6 DEF MapPage
    <3> HIDE DEF new
    <3>3. /\ seq'[mine[r]].tab = Append(seq[mine[r]].tab, new)
          /\ \A s \in Slot \ {mine[r]} : seq'[s] = seq[s]
      BY <1>1, <2>1, <3>2 DEF RestTypes, SeqRecord
    <3>4. HasRoom(r)'
      BY <1>1, <2>1, <2>2, <2>3, <3>2, <3>3, RoomKept
    <3>5. PagesOf(mine[r])' \subseteq PagesOf(mine[r]) \cup {new}
      <4>1. seq[mine[r]].tab \in Seq(Pages)
        BY <1>1, <2>1, SequenceTyped
      <4> DEFINE t == seq[mine[r]].tab
      <4>2. \A i \in 1 .. Len(Append(t, new)) : Append(t, new)[i] = new \/
                (i \in 1 .. Len(t) /\ Append(t, new)[i] = t[i])
        <5> HIDE DEF t
        <5> QED BY <3>1, <4>1, AppendProperties DEF t
      <4>3. DOMAIN Append(t, new) = 1 .. Len(Append(t, new)) /\ DOMAIN t = 1 .. Len(t)
        <5> HIDE DEF t
        <5> QED BY <3>1, <4>1, AppendProperties, LenProperties DEF t
      <4>4. PagesOf(mine[r])' = {Append(t, new)[i] : i \in DOMAIN Append(t, new)}
        BY <2>1, <3>3 DEF PagesOf, ToSet
      <4>5. PagesOf(mine[r]) = {t[i] : i \in DOMAIN t}
        BY DEF PagesOf, ToSet
      <4> HIDE DEF t
      <4> QED BY <4>2, <4>3, <4>4, <4>5
    <3>6. \A p : SharedPage(mine[r], p)' <=> SharedPage(mine[r], p)
      BY <2>1, <3>2, <3>3 DEF SharedPage, Pinned, PagesOf
    <3>7. ~SharedPage(mine[r], new)
      BY <3>1 DEF Free, SharedPage
    <3> QED BY <1>1, <2>1, <2>2, <3>4, <3>5, <3>6, <3>7 DEF FreshRows
  <2>7. CASE EvictCheckpoint(r)
    <3>1. seq' = seq /\ sl' = sl /\ ck' = Tail(ck) /\ ck # <<>> /\ ck \in Seq(CkRecord)
      BY <1>1, <2>7 DEF EvictCheckpoint, slotVars, RestTypes
    <3>2. HasRoom(r)'
      BY <1>1, <2>1, <2>2, <2>3, <3>1, RoomKept
    <3>3. Pinned' \subseteq Pinned
      <4>1. /\ DOMAIN Tail(ck) = 1 .. Len(ck) - 1 /\ DOMAIN ck = 1 .. Len(ck) /\ Len(ck) \in Nat
            /\ \A i \in 1 .. Len(ck) - 1 : Tail(ck)[i] = ck[i + 1]
        BY <3>1, HeadTailProperties, LenProperties
      <4>2. \A i \in DOMAIN Tail(ck) : i + 1 \in DOMAIN ck /\ Tail(ck)[i] = ck[i + 1]
        BY <4>1
      <4> QED BY <3>1, <4>2 DEF Pinned
    <3>4. \A p : SharedPage(mine[r], p)' => SharedPage(mine[r], p)
      BY <2>1, <3>1, <3>3 DEF SharedPage, PagesOf
    <3> QED BY <1>1, <2>1, <2>2, <3>1, <3>2, <3>4 DEF FreshRows, PagesOf
  <2>8. CASE DropIdle(r) \/ AbortLater(r)
    <3>1. PICK v \in Slot, x \in SeqRecord :
            /\ v # mine[r] /\ x.tab = <<>> /\ seq' = [seq EXCEPT ![v] = x]
            /\ ~sl'[v].busy \/ sl'[v].abort
            /\ \A s \in Slot \ {v} : sl'[s] = sl[s]
            /\ ck' = ck
      <4>1. \A s \in Slot : Reset(seq[s]) \in SeqRecord /\ Reset(seq[s]).tab = <<>>
        BY <1>1, SequenceTyped, EmptySeq DEF Reset, SeqRecord
      <4>2. Dropped \in SeqRecord /\ Dropped.tab = <<>>
        BY TokensTyped, EmptySeq DEF Dropped, SeqRecord
      <4>3. CASE DropIdle(r)
        <5>1. PICK v \in Slot : ~sl[v].busy /\ seq' = [seq EXCEPT ![v] = Dropped]
          BY <4>3 DEF DropIdle, LeastUsed, IdleHolders, Idle
        <5> QED BY <2>1, <4>2, <4>3, <5>1 DEF DropIdle
      <4>4. CASE AbortLater(r)
        <5>1. PICK v \in Later(r) : /\ seq' = [seq EXCEPT ![v] = Reset(seq[v])]
                                    /\ sl' = [sl EXCEPT ![v].abort = TRUE]
          BY <4>4 DEF AbortLater
        <5>2. v \in Slot /\ sl[v].seq > sl[mine[r]].seq /\ sl[v].seq \in Nat
          BY <1>1, <5>1 DEF Later, Types, SlotRecord
        <5>3. sl'[v].abort /\ \A s \in Slot \ {v} : sl'[s] = sl[s]
          BY <1>1, <5>1, <5>2 DEF Types, SlotRecord
        <5>4. v # mine[r] /\ ck' = ck
          BY <4>4, <5>2 DEF AbortLater
        <5> QED BY <4>1, <5>1, <5>2, <5>3, <5>4
      <4> QED BY <2>8, <4>3, <4>4
    <3>2. seq'[v].tab = <<>> /\ \A s \in Slot \ {v} : seq'[s] = seq[s]
      BY <1>1, <3>1 DEF RestTypes
    <3>3. HasRoom(r)'
      BY <1>1, <2>1, <2>2, <2>3, <3>1, <3>2, RoomKept
    <3>4. \A s \in Slot : PagesOf(s)' \subseteq PagesOf(s)
      BY <3>2 DEF PagesOf, ToSet
    <3>5. \A p : SharedPage(mine[r], p)' => SharedPage(mine[r], p)
      BY <2>1, <3>1, <3>4 DEF SharedPage, Pinned
    <3>6. PagesOf(mine[r])' = PagesOf(mine[r])
      BY <2>1, <3>1, <3>2 DEF PagesOf
    <3> QED BY <1>1, <2>1, <2>2, <3>3, <3>5, <3>6 DEF FreshRows
  <2> QED BY <1>5, <2>5, <2>6, <2>7, <2>8 DEF MapRows
<1>6. CASE ~Claim(r) /\ ~RestoreSsd(r) /\ ~(MapRows(r) /\ ~SnapRead(r) /\ ~Overflow(r))
  <2>1. pc'[r] # "reuse"
    BY <1>1, <1>6 DEF Worker, Types, Onward, UnlessAborted, threadVars,
       Admission, Arrive, LeaveQueue, TryTurn, TurnAway,
       Reuse, Continue, RestoreRam, Fresh, Refuse, Begin, MapRows, SnapRead, Overflow,
       Prefill, Skip, StartChunk, EnterLayers, Lend, EndChunk,
       HandOver, KeepGpu, YieldGpu, AskAgain, Regain,
       Decode, StopDecode, StartRound, SkipRound, Verify, EndRound,
       Leaving, Catch, LeaveSlot, ReleaseGpu
  <2>2. pc'[r] = "map" => StartChunk(r) \/ Verify(r)
    BY <1>1, <1>6 DEF Worker, Types, Onward, UnlessAborted, threadVars,
       Admission, Arrive, LeaveQueue, TryTurn, TurnAway,
       Reuse, Continue, RestoreRam, Fresh, Refuse, Begin, MapRows, SnapRead, Overflow,
       Prefill, Skip, EnterLayers, Lend, EndChunk,
       HandOver, KeepGpu, YieldGpu, AskAgain, Regain,
       Decode, StopDecode, StartRound, SkipRound, EndRound,
       Leaving, Catch, LeaveSlot, ReleaseGpu
  <2>3. CASE StartChunk(r)
    <3>1. job'[r].kind = "chunk"
      BY <1>1, <2>3 DEF StartChunk, SetJob, RestTypes, JobRecord
    <3> QED BY <1>2, <2>1, <3>1 DEF Restoring
  <2>4. CASE Verify(r)
    <3>1. job'[r].kind = "round"
      BY <1>1, <2>4 DEF Verify, JobFits, Verifying, GoesTo
    <3> QED BY <1>2, <2>1, <3>1 DEF Restoring
  <2> QED BY <1>2, <2>1, <2>2, <2>3, <2>4 DEF Restoring
<1> QED BY <1>3, <1>4, <1>5, <1>6

LEMMA RoomInductive ==
    ASSUME IInv, SInv, IInv', SInv', RoomInv, [Next]_vars
    PROVE  RoomInv'
<1>1. /\ Types /\ RestTypes /\ Types' /\ RestTypes'
  BY DEF IInv, SInv
<1>2. \A q \in Req : pc[q] = "reuse" \/ Restoring(q) => Owns(q) /\ mine[q] \in Slot
  BY <1>1 DEF Restoring, IInv, TurnHeld, Work, Placed, Homeless, Types
(* Nothing a restore looks at moves.                                        *)
<1>3. ASSUME NEW q \in Req, seq' = seq, ck' = ck, mine'[q] = mine[q],
             pc'[q] = "reuse" => pc[q] = "reuse", Restoring(q)' => Restoring(q),
             \A s \in Slot : /\ sl'[s].busy = sl[s].busy /\ sl'[s].abort = sl[s].abort
                             /\ sl'[s].reserved = sl[s].reserved
      PROVE  FreshRows(q)' /\ HasRoom(q)'
  <2>1. FreshRows(q)'
    BY <1>3 DEF RoomInv, FreshRows, PagesOf, SharedPage, Pinned
  <2>2. ASSUME pc[q] = "reuse" \/ Restoring(q) PROVE HasRoom(q)'
    <3>1. \A s \in Slot : Len(seq[s].tab) \in Nat
      BY <1>1, SequenceTyped
    <3> QED BY <1>1, <1>3, <2>2, <3>1, RoomKept DEF RoomInv
  <2> QED BY <1>3, <2>1, <2>2 DEF HasRoom
<1>4. ASSUME NEW r \in Req, Worker(r) PROVE RoomInv'
  <2>1. CASE Owns(r)
    <3>1. FreshRows(r)' /\ HasRoom(r)'
      BY <1>4, <2>1, RoomWorker
    <3>2. ASSUME NEW q \in Req \ {r} PROVE FreshRows(q)' /\ HasRoom(q)'
      <4>1. OthersStay(r) /\ job'[q] = job[q]
        BY <1>1, <1>4, WorkerAlone, JobAlone
      <4>2. pc[q] # "reuse" /\ ~Restoring(q)
        BY <1>2, <2>1 DEF Owns
      <4>3. pc'[q] # "reuse" /\ ~Restoring(q)'
        BY <4>1, <4>2 DEF OthersStay, Restoring
      <4> QED BY <4>3 DEF FreshRows, HasRoom
    <3> QED BY <3>1, <3>2 DEF RoomInv
  <2>2. CASE ~Owns(r)
    <3>1. /\ mine' = mine /\ job' = job /\ sl' = sl /\ seq' = seq /\ ck' = ck
          /\ pc'[r] \in {"queued", "ended", "admit", "back"} /\ OthersStay(r)
      BY <1>1, <1>4, <2>2, OnlyTheOwner, WorkerAlone
    <3>2. \A q \in Req : /\ pc'[q] = "reuse" => pc[q] = "reuse"
                         /\ Restoring(q)' => Restoring(q)
      BY <3>1 DEF OthersStay, Restoring
    <3> QED BY <1>3, <3>1, <3>2 DEF RoomInv
  <2> QED BY <2>1, <2>2
<1>5. ASSUME UNCHANGED <<pc, job, mine, seq, ck>>,
             \A s \in Slot : /\ sl'[s].busy = sl[s].busy /\ sl'[s].abort = sl[s].abort
                             /\ sl'[s].reserved = sl[s].reserved
      PROVE  RoomInv'
  BY <1>3, <1>5 DEF RoomInv, Restoring
<1>6. ASSUME NEW r \in Req, Cancel(r) PROVE RoomInv'
  BY <1>5, <1>6 DEF Cancel, threadVars, slotVars
<1>7. ASSUME NEW r \in Req, Disown(r) PROVE RoomInv'
  <2>1. sl' = [s \in Slot |-> IF sl[s].owner = {r} THEN [sl[s] EXCEPT !.owner = {}] ELSE sl[s]]
    BY <1>7 DEF Disown
  <2>2. \A s \in Slot : /\ sl'[s].busy = sl[s].busy /\ sl'[s].abort = sl[s].abort
                        /\ sl'[s].reserved = sl[s].reserved
    BY <1>1, <2>1 DEF Types, SlotRecord
  <2> QED BY <1>5, <1>7, <2>2 DEF Disown, threadVars
<1>8. CASE UNCHANGED vars
  BY <1>5, <1>8 DEF vars
<1> QED BY <1>4, <1>6, <1>7, <1>8 DEF Next, AllServed

(* With the pool dry, no checkpoint and no idle slot left, every page is in *)
(* the table of a running request that was not sacrificed.                  *)
LEMMA DryPool ==
    ASSUME IInv, SInv, NEW r \in Req, Starving(r), IdleHolders = {}
    PROVE  \A p \in Pages : \E s \in Slot : \E i \in 1 .. Len(seq[s].tab) :
               seq[s].tab[i] = p /\ sl[s].busy /\ ~sl[s].abort
<1>1. Free = {} /\ ck = <<>> /\ RestTypes
  BY DEF Starving, Dry, SInv
<1>2. Pinned = {}
  BY <1>1 DEF Pinned
<1>3. \A p \in Pages : \E s \in Slot : p \in PagesOf(s)
  BY <1>1, <1>2 DEF Free
<1>4. \A s \in Slot : DOMAIN seq[s].tab = 1 .. Len(seq[s].tab)
  BY <1>1, SequenceTyped, LenProperties
<1>5. \A s \in Slot : sl[s].busy /\ sl[s].abort => seq[s].tab = <<>>
  BY DEF IInv, VictimHoldsNothing
<1>6. \A s \in Slot : ~sl[s].busy => seq[s].tab = <<>>
  BY DEF IdleHolders, Idle
<1> QED
  <2> TAKE p \in Pages
  <2>1. PICK s \in Slot : p \in PagesOf(s)
    BY <1>3
  <2>2. PICK i \in 1 .. Len(seq[s].tab) : seq[s].tab[i] = p
    BY <1>4, <2>1 DEF PagesOf, ToSet
  <2>3. seq[s].tab # <<>>
    BY <2>2
  <2> QED BY <1>5, <1>6, <2>2, <2>3

LEMMA RestoreServed ==
    ASSUME IInv, SInv, RoomInv
    PROVE  RestoreHasRoom
<1> SUFFICES ASSUME NEW r \in Req, Starving(r), job[r].kind = "snap", IdleHolders = {}
             PROVE  FALSE
  BY DEF RestoreHasRoom
<1> DEFINE m == mine[r]
<1> DEFINE tab == seq[m].tab
<1>1. Types /\ RestTypes /\ Restoring(r) /\ m \in Slot /\ sl[m].busy
  BY DEF IInv, SInv, Starving, Dry, Mapping, At, Restoring, Placed, Homeless, Types, SlotExclusive
<1>2. tab \in Seq(Pages) /\ Len(tab) \in Nat /\ DOMAIN tab = 1 .. Len(tab)
  BY <1>1, SequenceTyped, LenProperties
<1>3. Shared(r) = {}
  <2>1. \A i \in DOMAIN tab : tab[i] \in PagesOf(m)
    BY DEF PagesOf, ToSet
  <2> QED BY <1>1, <2>1 DEF RoomInv, FreshRows, Shared
<1>4. Len(tab) < Target(r) /\ Target(r) \in Nat
  <2>1. Short(r) /\ job[r].end = Snap[r]
    BY <1>1, <1>3 DEF Starving, Dry, SInv, JobFits, Restoring
  <2>2. PagesFor(Snap[r], Page) \in Nat
    BY RowPages, RequestAssumption DEF RequestAssumption
  <2>3. Len(tab) < PagesFor(Snap[r], Page)
    BY <2>1, <2>2, <1>2 DEF Short
  <2> QED BY <1>2, <2>2, <2>3, TargetFacts
<1> DEFINE v == Others(sl, seq, m)
<1> DEFINE w == [s \in Slot |-> IF s = m THEN Len(tab) ELSE v[s]]
<1>5. v \in [Slot -> Int] /\ w \in [Slot -> Int]
  <2>1. v \in [Slot -> Int]
    BY <1>1, OthersTyped DEF Types, RestTypes
  <2> HIDE DEF v
  <2> QED BY <1>2, <2>1
<1>6. NPages <= Cardinality(Cells(w))
  <2> DEFINE t == [s \in Slot |-> seq[s].tab]
  <2>1. \A s \in Slot : sl[s].busy /\ ~sl[s].abort => Len(seq[s].tab) <= w[s] /\ w[s] \in Int
    <3>1. \A s \in Slot : Len(seq[s].tab) \in Nat /\ sl[s].reserved \in Int
      BY <1>1, SequenceTyped DEF Types, SlotRecord
    <3> QED BY <3>1 DEF Others, Larger
  <2>2. \A p \in Pages : \E s \in Slot : \E i \in 1 .. Len(seq[s].tab) :
            seq[s].tab[i] = p /\ i \in 1 .. w[s]
    <3>1. \A s \in Slot : Len(seq[s].tab) \in Nat
      BY <1>1, SequenceTyped
    <3> HIDE DEF w
    <3>2. \A s \in Slot : sl[s].busy /\ ~sl[s].abort => 1 .. Len(seq[s].tab) \subseteq 1 .. w[s]
      BY <2>1, <3>1
    <3> QED BY <3>2, DryPool
  <2>3. \A p \in Pages : \E s \in Slot : \E i \in 1 .. Len(t[s]) :
            t[s][i] = p /\ <<s, i>> \in Cells(w)
    <3> HIDE DEF w
    <3> QED BY <2>2, CellsAre
  <2>4. IsFiniteSet(Cells(w))
    <3> HIDE DEF w
    <3> QED BY <1>5, CellsFinite
  <2> HIDE DEF w, t
  <2> QED BY <2>3, <2>4, PagesCounted
<1>7. Cardinality(Cells(w)) <= Len(tab) + Cardinality(Cells(v))
  <2>1. w[m] <= Len(tab) /\ \A s \in Slot \ {m} : w[s] <= v[s]
    BY <1>1, <1>2, <1>5
  <2> HIDE DEF w, v, m, tab
  <2> QED BY <1>1, <1>2, <1>5, <2>1, ColumnAdded
<1>8. Target(r) + Cardinality(Cells(v)) <= NPages
  BY <1>1 DEF RoomInv, HasRoom
<1>9. Cardinality(Cells(v)) \in Nat /\ Cardinality(Cells(w)) \in Nat /\ NPages \in Nat
  <2> HIDE DEF v, w
  <2> QED BY <1>5, CellsFinite, SizesAssumption DEF SizesAssumption
<1> HIDE DEF v, w, tab
<1> QED BY <1>2, <1>4, <1>6, <1>7, <1>8, <1>9

(* A restore from the SSD cache never fails for want of pages and aborts    *)
(* nobody: admission checked its pages against what everyone else holds or  *)
(* reserved, and nobody else runs until it is done.                         *)
THEOREM RestoresFindRoom == Spec => []RestoreHasRoom
<1>1. Init => RoomInv
  BY DEF Init, RoomInv, FreshRows, HasRoom, Restoring
<1>2. IInv /\ SInv /\ IInv' /\ SInv' /\ RoomInv /\ [Next]_vars => RoomInv'
  BY RoomInductive
<1>3. IInv /\ SInv /\ RoomInv => RestoreHasRoom
  BY RestoreServed
<1> QED BY StateInvariant, <1>1, <1>2, <1>3, PTL DEF Spec

(* Types, reusable tokens, mapped positions and restores together, with the *)
(* hypothesis of TokensAreIngested on requests whose images may be refused. *)
THEOREM StateStaysBacked ==
    ASSUME \A r \in Refusable : Snap[r] > 0
    PROVE  Spec => []StateIsBacked
<1>1. Spec => []HistIsIngested
  BY TokensAreIngested
<1>2. TypeOK /\ HistIsIngested /\ IngestedIsMapped /\ RestoreHasRoom => StateIsBacked
  BY DEF StateIsBacked
<1> QED BY TypesHold, IngestedStaysMapped, RestoresFindRoom, <1>1, <1>2, PTL
-----------------------------------------------------------------------------
(* The decode reservation.                                                  *)

(* The request was just admitted to a slot whose pages it will drop.        *)
Stale == {s \in Slot : \E r \in Req : mine[r] = s /\ pc[r] = "reuse" /\ ~Live(r)}

(* The pages the running requests may come to hold, with books l, sequences *)
(* q and the slots of S not cleared yet.                                    *)
Widths(l, q, S) ==
    [s \in Slot |-> IF ~l[s].busy THEN 0
                    ELSE IF s \in S THEN l[s].reserved
                    ELSE Larger(l[s].reserved, Len(q[s].tab))]

(* Nobody failed or was sacrificed, each has its whole target reserved, and *)
(* all of it is in the pool.                                                *)
Unharmed == \A r \in Req :
    /\ pc[r] # "catch"
    /\ Holding(r) => ~sl[mine[r]].abort /\ sl[mine[r]].reserved = Target(r)
Committed == Cardinality(Cells(Widths(sl, seq, Stale))) <= NPages
Kept == Unharmed /\ Committed

LEMMA WidthsTyped ==
    ASSUME NEW l \in [Slot -> SlotRecord], NEW q \in [Slot -> SeqRecord], NEW S
    PROVE  Widths(l, q, S) \in [Slot -> Int]
<1>1. \A s \in Slot : l[s].reserved \in Int /\ Len(q[s].tab) \in Int
  BY TablesTyped DEF SlotRecord
<1> QED BY <1>1 DEF Widths, Larger

(* The rows a worker maps are inside its target.                            *)
LEMMA JobInTarget ==
    ASSUME IInv, SInv, NEW r \in Req, pc[r] = "map", Budget[r] <= DecodeCap
    PROVE  PagesFor(job[r].end, Page) \in Nat /\ PagesFor(job[r].end, Page) <= Target(r)
<1>1. /\ Prompt[r] \in Nat /\ Budget[r] \in Nat /\ Snap[r] \in Nat /\ Snap[r] < Prompt[r]
  BY RequestAssumption DEF RequestAssumption
<1>2. JobFits(r) /\ job[r] \in JobRecord
  BY DEF SInv, RestTypes
<1>3. job[r].end \in Nat /\ job[r].end <= LastRow(r) /\ LastRow(r) \in Nat
  BY <1>1, <1>2 DEF JobFits, InPass, Ingesting, Verifying, JobRecord, LastRow
<1> QED BY <1>3, RowPages, TargetFacts

(* Of the workers only the owner of the GPU may be about to clear its slot. *)
LEMMA StaleIsOwners ==
    ASSUME IInv, NEW r \in Req, Owns(r)
    PROVE  Stale \subseteq {mine[r]} /\ (pc[r] # "reuse" => Stale = {})
BY DEF Stale, IInv, TurnHeld, Work, Owns

(* A promise that holds leaves nobody to sacrifice for.                     *)
LEMMA NobodyStarves ==
    ASSUME IInv, SInv, Kept, \A q \in Req : Budget[q] <= DecodeCap,
           NEW r \in Req, Starving(r)
    PROVE  IdleHolders # {}
<1> SUFFICES ASSUME IdleHolders = {} PROVE FALSE
  OBVIOUS
<1> DEFINE m == mine[r]
<1> DEFINE tab == seq[m].tab
<1> DEFINE w == Widths(sl, seq, Stale)
<1>1. /\ Types /\ RestTypes /\ pc[r] = "map" /\ Owns(r) /\ m \in Slot /\ sl[m].busy
      /\ ck = <<>> /\ (Shared(r) # {} \/ Short(r)) /\ Stale = {}
  BY StaleIsOwners DEF IInv, SInv, Starving, Dry, Mapping, At, Placed, Homeless, Types,
                       SlotExclusive
<1>2. \A s \in Slot : /\ Len(seq[s].tab) \in Nat /\ sl[s].reserved \in Int
                      /\ seq[s].tab # <<>> => sl[s].busy
                      /\ DOMAIN seq[s].tab = 1 .. Len(seq[s].tab)
  BY <1>1, SequenceTyped, LenProperties DEF IdleHolders, Idle, Types, SlotRecord
<1>3. w \in [Slot -> Int]
  BY <1>1, WidthsTyped DEF Types, RestTypes
<1>4. \A s \in Slot : sl[s].busy => w[s] = Larger(sl[s].reserved, Len(seq[s].tab))
  BY <1>1 DEF Widths
<1>5. \A s \in Slot : sl[s].busy => Len(seq[s].tab) <= w[s]
  <2> HIDE DEF w
  <2> QED BY <1>2, <1>4 DEF Larger
<1>6. IsFiniteSet(Cells(w)) /\ Cardinality(Cells(w)) \in Nat /\ Cardinality(Cells(w)) <= NPages
  BY <1>3, CellsFinite DEF Kept, Committed
<1> HIDE DEF w
<1>7. \A s \in Slot : \A i \in 1 .. Len(seq[s].tab) :
          sl[s].busy => <<s, i>> \in Cells(w)
  <2>1. \A s \in Slot : sl[s].busy => 1 .. Len(seq[s].tab) \subseteq 1 .. w[s]
    BY <1>2, <1>3, <1>5
  <2> QED BY <2>1, CellsAre
(* A cell the pages can do without is one too many.                         *)
<1>8. ASSUME NEW hole \in Cells(w),
             \A p \in Pages : \E s \in Slot : \E i \in 1 .. Len(seq[s].tab) :
                 seq[s].tab[i] = p /\ sl[s].busy /\ <<s, i>> # hole
      PROVE  FALSE
  <2> DEFINE C == Cells(w) \ {hole}
  <2> DEFINE t == [s \in Slot |-> seq[s].tab]
  <2>1. IsFiniteSet(C) /\ Cardinality(C) = Cardinality(Cells(w)) - 1
    BY <1>6, FS_RemoveElement
  <2>2. \A p \in Pages : \E s \in Slot : \E i \in 1 .. Len(t[s]) :
            t[s][i] = p /\ <<s, i>> \in C
    BY <1>7, <1>8
  <2>3. NPages <= Cardinality(C)
    <3> HIDE DEF C, t
    <3> QED BY <2>1, <2>2, PagesCounted
  <2> HIDE DEF C
  <2> QED BY <1>6, <2>1, <2>3, SizesAssumption DEF SizesAssumption
<1>9. CASE Shared(r) # {}
  <2>1. PICK i \in DOMAIN tab : SharedPage(m, tab[i])
    BY <1>9 DEF Shared
  <2>2. PICK u \in Slot \ {m} : tab[i] \in PagesOf(u)
    BY <1>1, <2>1 DEF SharedPage, Pinned
  <2>3. PICK j \in 1 .. Len(seq[u].tab) : seq[u].tab[j] = tab[i]
    BY <1>2, <2>2 DEF PagesOf, ToSet
  <2>4. sl[u].busy
    BY <1>2, <2>3
  <2>5. <<m, i>> \in Cells(w)
    BY <1>1, <1>2, <1>7, <2>1
  <2>6. ASSUME NEW p \in Pages
        PROVE  \E s \in Slot : \E k \in 1 .. Len(seq[s].tab) :
                  seq[s].tab[k] = p /\ sl[s].busy /\ <<s, k>> # <<m, i>>
    <3>1. PICK s \in Slot : \E k \in 1 .. Len(seq[s].tab) : seq[s].tab[k] = p /\ sl[s].busy
      BY DryPool
    <3>2. PICK k \in 1 .. Len(seq[s].tab) : seq[s].tab[k] = p /\ sl[s].busy
      BY <3>1
    <3>3. CASE s = m /\ k = i
      BY <2>2, <2>3, <2>4, <3>2, <3>3
    <3>4. CASE ~(s = m /\ k = i)
      BY <3>2, <3>4
    <3> QED BY <3>3, <3>4
  <2> QED BY <1>8, <2>5, <2>6
<1>10. CASE Short(r)
  <2> DEFINE k == Target(r)
  <2>1. k \in Nat /\ Len(tab) < k /\ sl[m].reserved = k
    <3>1. PagesFor(job[r].end, Page) \in Nat /\ PagesFor(job[r].end, Page) <= k /\ k \in Nat
      BY <1>1, JobInTarget, TargetFacts
    <3>2. sl[m].reserved = k
      BY <1>1, SlotFacts, SizesAssumption DEF Kept, Unharmed, Holding
    <3> QED BY <1>1, <1>2, <1>10, <3>1, <3>2 DEF Short
  <2> HIDE DEF k
  <2>2. w[m] \in Int /\ k <= w[m]
    BY <1>1, <1>2, <1>3, <1>4, <2>1 DEF Larger
  <2>3. k \in 1 .. w[m]
    BY <1>1, <1>2, <2>1, <2>2
  <2>4. <<m, k>> \in Cells(w)
    BY <1>1, <2>3, CellsAre
  <2>5. ASSUME NEW p \in Pages
        PROVE  \E s \in Slot : \E i \in 1 .. Len(seq[s].tab) :
                  seq[s].tab[i] = p /\ sl[s].busy /\ <<s, i>> # <<m, k>>
    <3>1. PICK s \in Slot : \E i \in 1 .. Len(seq[s].tab) : seq[s].tab[i] = p /\ sl[s].busy
      BY DryPool
    <3>2. PICK i \in 1 .. Len(seq[s].tab) : seq[s].tab[i] = p /\ sl[s].busy
      BY <3>1
    <3>3. s # m \/ i # k
      BY <1>1, <1>2, <2>1, <3>2
    <3> QED BY <3>2, <3>3
  <2> QED BY <1>8, <2>4, <2>5
<1> QED BY <1>1, <1>9, <1>10

(* What a step of the worker on slot m leaves of the promise.               *)
LEMMA CommittedKept ==
    ASSUME Types, RestTypes, Types', RestTypes', Committed, NEW m,
           \A s \in Slot \ {m} :
               /\ sl'[s].busy = sl[s].busy /\ sl'[s].reserved = sl[s].reserved
               /\ sl[s].busy => seq'[s] = seq[s]
               /\ s \notin Stale /\ s \notin Stale',
           m \in Slot => Widths(sl', seq', Stale')[m] <= Widths(sl, seq, Stale)[m]
    PROVE  Committed'
<1> DEFINE w == Widths(sl, seq, Stale)
<1> DEFINE v == Widths(sl', seq', Stale')
<1>1. /\ sl \in [Slot -> SlotRecord] /\ sl' \in [Slot -> SlotRecord]
      /\ seq \in [Slot -> SeqRecord] /\ seq' \in [Slot -> SeqRecord]
  BY DEF Types, RestTypes
<1>2. w \in [Slot -> Int] /\ v \in [Slot -> Int]
  BY <1>1, WidthsTyped
<1>3. \A s \in Slot \ {m} : v[s] = w[s]
  BY DEF Widths
<1> HIDE DEF v, w
<1>4. \A s \in Slot : v[s] <= w[s]
  <2> TAKE s \in Slot
  <2>1. v[s] \in Int /\ w[s] \in Int
    BY <1>2
  <2>2. CASE s = m
    BY <2>2 DEF v, w
  <2>3. CASE s # m
    BY <1>3, <2>1, <2>3
  <2> QED BY <2>2, <2>3
<1>5. Cardinality(Cells(v)) <= Cardinality(Cells(w))
  BY <1>2, <1>4, CellsShrink
<1>6. Cardinality(Cells(v)) \in Nat /\ Cardinality(Cells(w)) \in Nat
  BY <1>2, CellsFinite
<1>7. Cardinality(Cells(w)) <= NPages
  BY DEF Committed, w
<1>8. Cardinality(Cells(v)) <= NPages
  BY <1>5, <1>6, <1>7, SizesAssumption DEF SizesAssumption
<1> QED BY <1>8 DEF Committed, v

(* How far a worker's table may go.                                         *)
LEMMA TablesGrow ==
    ASSUME IInv, SInv, \A q \in Req : Budget[q] <= DecodeCap,
           NEW r \in Req, Worker(r), Owns(r), ~Claim(r), mine[r] \in Slot
    PROVE  \/ /\ Len(seq'[mine[r]].tab) <= Target(r)
              /\ pc[r] = "reuse" \/ pc[r] = "map"
           \/ /\ seq'[mine[r]].tab = <<>>
              /\ pc[r] # "reuse"
           \/ /\ Len(seq'[mine[r]].tab) = Len(seq[mine[r]].tab)
              /\ pc[r] = "reuse" => Live(r)
<1> DEFINE m == mine[r]
<1>1. /\ Types /\ RestTypes /\ pc \in [Req -> Labels] /\ m \in Slot
      /\ seq[m].tab \in Seq(Pages) /\ Len(seq[m].tab) \in Nat
      /\ seq \in [Slot -> SeqRecord]
  BY SequenceTyped DEF IInv, SInv, Types, RestTypes
<1>2. Target(r) \in Nat
  BY TargetFacts
<1> USE DEF At, Goto
<1>3. CASE RestoreRam(r)
  <2> DEFINE i == BestCk(r)
  <2>1. /\ seq' = [seq EXCEPT ![m] = [hist |-> ck[i].toks, pos |-> ck[i].toks.len,
                                      tab |-> ck[i].pages]]
        /\ pc[r] = "reuse"
    BY <1>3 DEF RestoreRam, Reusing
  <2>2. i \in 1 .. Len(ck) /\ Extends(r, ck[i].toks)
    BY <1>1, <1>3, BestMatches, LenProperties DEF RestoreRam, RestTypes, Matching
  <2>3. ck[i] \in CkRecord
    BY <1>1, <2>2, ElementOfSeq DEF RestTypes
  <2> DEFINE n == ck[i].toks.len
  <2>4. n \in Nat /\ n < Prompt[r] /\ Len(ck[i].pages) = PagesFor(n, Page)
    BY <2>2, <2>3 DEF CkRecord, TokenRun, Extends
  <2>5. n <= LastRow(r) /\ LastRow(r) \in Nat
    <3> HIDE DEF n
    <3> QED BY <2>4, RequestAssumption DEF RequestAssumption, LastRow
  <2>6. PagesFor(n, Page) <= Target(r)
    <3> HIDE DEF n
    <3> QED BY <2>4, <2>5, RowPages, TargetFacts
  <2>7. seq'[m].tab = ck[i].pages
    BY <1>1, <2>1
  <2> QED BY <2>1, <2>4, <2>6, <2>7
<1>4. CASE RestoreSsd(r)
  <2>1. seq'[m].tab = <<>> /\ pc[r] = "reuse"
    BY <1>1, <1>4 DEF RestoreSsd, Reusing, SeqRecord
  <2> QED BY <1>2, <2>1, EmptySeq
<1>5. CASE Fresh(r)
  <2>1. seq'[m].tab = <<>> /\ pc[r] = "reuse"
    BY <1>1, <1>5 DEF Fresh, Reusing, Reset
  <2> QED BY <1>2, <2>1, EmptySeq
<1>6. CASE SnapRead(r)
  <2>1. pc[r] = "map"
    BY <1>6 DEF SnapRead, Backed, Mapping
  <2>2. CASE seq' = [seq EXCEPT ![m].hist = Tokens(r, Snap[r]), ![m].pos = Snap[r]]
    <3>1. seq' = [seq EXCEPT ![m] = Sequence(Tokens(r, Snap[r]), Snap[r], seq[m].tab)]
      BY <1>1, <2>2, TokensWritten
    <3> QED BY <1>1, <2>1, <3>1 DEF Sequence
  <2>3. CASE seq' = [seq EXCEPT ![m] = Dropped]
    BY <1>1, <2>1, <2>3 DEF Dropped
  <2> QED BY <1>6, <2>2, <2>3 DEF SnapRead
<1>7. CASE CopyOnWrite(r)
  <2> DEFINE i == CHOOSE i \in Shared(r) : \A j \in Shared(r) : i <= j
  <2>1. i \in 1 .. Len(seq[m].tab) /\ LowestFree \in Pages
    BY <1>1, <1>7, SharedChosen, LowestIsFree DEF CopyOnWrite
  <2>2. seq' = [seq EXCEPT ![m].tab[i] = LowestFree] /\ pc[r] = "map"
    BY <1>7 DEF CopyOnWrite, Mapping
  <2> HIDE DEF i
  <2> DEFINE t == seq[m].tab
  <2>3. seq'[m].tab = [t EXCEPT ![i] = LowestFree]
    BY <1>1, <2>2 DEF SeqRecord
  <2>4. Len([t EXCEPT ![i] = LowestFree]) = Len(t)
    <3> HIDE DEF t
    <3> QED BY <1>1, <2>1, ExceptSeq DEF t
  <2> QED BY <2>2, <2>3, <2>4
<1>8. CASE MapPage(r)
  <2>1. pc[r] = "map" /\ Short(r) /\ seq'[m].tab = Append(seq[m].tab, LowestFree)
    BY <1>1, <1>8 DEF MapPage, Mapping, SeqRecord
  <2>2. Len(Append(seq[m].tab, LowestFree)) = Len(seq[m].tab) + 1
    BY <1>1, <1>8, LowestIsFree, AppendProperties DEF MapPage
  <2>3. PagesFor(job[r].end, Page) \in Nat /\ PagesFor(job[r].end, Page) <= Target(r)
    BY <2>1, JobInTarget
  <2>4. Len(seq[m].tab) < PagesFor(job[r].end, Page)
    BY <2>1 DEF Short
  <2> QED BY <1>1, <1>2, <2>1, <2>2, <2>3, <2>4
<1>9. CASE Begin(r) \/ EndChunk(r) \/ StopDecode(r) \/ EndRound(r)
  <2>1. pc[r] # "reuse"
    BY <1>9 DEF Begin, EndChunk, StopDecode, EndRound, Backed, Mapping
  <2>2. seq'[m].tab = seq[m].tab
    <3>1. CASE Begin(r)
      BY <1>1, <3>1 DEF Begin, SeqRecord
    <3>2. CASE EndChunk(r)
      <4>1. PICK h : seq' = [seq EXCEPT ![m].pos = job[r].end, ![m].hist = h]
        BY <3>2 DEF EndChunk
      <4>2. seq' = [seq EXCEPT ![m] = Sequence(h, job[r].end, seq[m].tab)]
        BY <1>1, <4>1, TokensWritten
      <4> QED BY <1>1, <4>2 DEF Sequence
    <3>3. CASE StopDecode(r)
      BY <1>1, <3>3 DEF StopDecode, SeqRecord
    <3>4. CASE EndRound(r)
      <4>1. PICK p \in (job[r].base + 1) .. job[r].end :
              \E h : seq' = [seq EXCEPT ![m].pos = p, ![m].hist = h]
        BY <3>4 DEF EndRound
      <4>2. PICK h : seq' = [seq EXCEPT ![m].pos = p, ![m].hist = h]
        BY <4>1
      <4>3. seq' = [seq EXCEPT ![m] = Sequence(h, p, seq[m].tab)]
        BY <1>1, <4>2, TokensWritten
      <4> QED BY <1>1, <4>3 DEF Sequence
    <3> QED BY <1>9, <3>1, <3>2, <3>3, <3>4
  <2> QED BY <2>1, <2>2
<1>10. CASE Catch(r)
  <2>1. seq' = [seq EXCEPT ![m] = Dropped] /\ pc[r] = "catch"
    BY <1>10 DEF Catch
  <2> QED BY <1>1, <2>1 DEF Dropped
<1>11. CASE DropIdle(r) \/ AbortLater(r)
  <2>1. pc[r] = "map" /\ sl[m].busy
    BY <1>1, <1>11 DEF DropIdle, AbortLater, Starving, Dry, Mapping, IInv, SlotExclusive
  <2>2. PICK v \in Slot : v # m /\ \E x : seq' = [seq EXCEPT ![v] = x]
    <3>1. CASE DropIdle(r)
      BY <2>1, <3>1 DEF DropIdle, LeastUsed, IdleHolders, Idle
    <3>2. CASE AbortLater(r)
      <4>1. PICK v \in Later(r) : seq' = [seq EXCEPT ![v] = Reset(seq[v])]
        BY <3>2 DEF AbortLater
      <4>2. v \in Slot /\ sl[v].seq > sl[m].seq
        BY <4>1 DEF Later
      <4>3. sl[v].seq \in Nat
        BY <1>1, <4>2 DEF Types, SlotRecord
      <4>4. v # m
        BY <4>2, <4>3
      <4> QED BY <4>1, <4>2, <4>4
    <3> QED BY <1>11, <3>1, <3>2
  <2> QED BY <1>1, <2>1, <2>2
<1>12. CASE Continue(r)
  BY <1>12 DEF Continue, slotVars
<1>13. CASE ~(\/ RestoreRam(r) \/ RestoreSsd(r) \/ Fresh(r) \/ SnapRead(r) \/ CopyOnWrite(r)
              \/ MapPage(r) \/ Begin(r) \/ EndChunk(r) \/ StopDecode(r) \/ EndRound(r)
              \/ Catch(r) \/ DropIdle(r) \/ AbortLater(r) \/ Continue(r))
  <2>1. seq' = seq /\ pc[r] # "reuse"
    BY <1>13 DEF Worker, Admission, Arrive, LeaveQueue, TryTurn, TurnAway,
       Reuse, Refuse, MapRows, EvictCheckpoint, Overflow, Starving, Dry, Mapping,
       Prefill, Skip, StartChunk, EnterLayers, Lend, Backed,
       HandOver, KeepGpu, YieldGpu, AskAgain, Regain,
       Decode, StartRound, SkipRound, Verify, Leaving, LeaveSlot, ReleaseGpu, slotVars
  <2> QED BY <2>1
<1> QED BY <1>3, <1>4, <1>5, <1>6, <1>7, <1>8, <1>9, <1>10, <1>11, <1>12, <1>13

LEMMA KeptWorker ==
    ASSUME IInv, SInv, IInv', SInv', Kept, \A q \in Req : Budget[q] <= DecodeCap,
           NEW r \in Req, Worker(r)
    PROVE  Kept'
<1>1. /\ Types /\ RestTypes /\ Types' /\ RestTypes' /\ Unharmed /\ Committed
      /\ pc \in [Req -> Labels] /\ OthersStay(r)
  BY WorkerAlone DEF IInv, SInv, Kept, Types
<1>2. \A s \in Slot : /\ Len(seq[s].tab) \in Nat /\ sl[s].reserved \in Int
                      /\ Len(seq'[s].tab) \in Nat /\ sl'[s].reserved \in Int
  BY <1>1, TablesTyped DEF Types, RestTypes, SlotRecord
<1>3. Target(r) \in Nat /\ \A q \in Req : Target(q)' = Target(q)
  BY TargetFacts DEF Target
<1> USE DEF At, Goto
<1>4. ~AbortLater(r) /\ ~Overflow(r)
  BY <1>1, NobodyStarves DEF AbortLater, Overflow
<1>5. CASE ~Owns(r)
  <2>1. /\ mine' = mine /\ sl' = sl /\ seq' = seq
        /\ pc'[r] \in {"queued", "ended", "admit", "back"} /\ pc[r] # "reuse"
    BY <1>1, <1>5, OnlyTheOwner DEF IInv, TurnHeld, Work
  <2>2. Unharmed'
    BY <1>1, <1>3, <2>1 DEF Unharmed, Holding, OthersStay
  <2>3. Stale' = Stale
    BY <1>1, <2>1 DEF Stale, Live, OthersStay
  <2> QED BY <1>1, <2>1, <2>2, <2>3 DEF Kept, Committed
<1>6. CASE Claim(r)
  <2>1. PICK s \in Slot :
          /\ ~sl[s].busy /\ Need(r, s) <= Supply(s)
          /\ sl' = [sl EXCEPT ![s] =
                    [busy |-> TRUE, abort |-> FALSE, seq |-> admitted + 1,
                     lastUse |-> sl[s].lastUse, owner |-> {r}, reserved |-> Target(r)]]
          /\ mine' = [mine EXCEPT ![r] = s]
    BY <1>6, CandidatesIdle DEF Claim, Idle
  <2>2. /\ mine'[r] = s /\ seq' = seq /\ pc[r] = "admit" /\ Owns(r) /\ pc'[r] = "reuse"
        /\ \A q \in Req \ {r} : mine'[q] = mine[q]
        /\ sl'[s].busy /\ ~sl'[s].abort /\ sl'[s].reserved = Target(r)
        /\ \A u \in Slot \ {s} : sl'[u] = sl[u]
    BY <1>1, <1>6, <2>1 DEF Claim, Types
  <2>3. Unharmed'
    <3>1. \A q \in Req \ {r} : Holding(q)' => Holding(q) /\ mine[q] \in Slot \ {s}
      BY <1>1, <2>1, <2>2 DEF Holding, IInv, SlotExclusive, Types
    <3> QED BY <1>1, <1>3, <2>2, <3>1 DEF Unharmed, Holding, OthersStay
  <2>4. Stale = {}
    BY <2>2, StaleIsOwners
  <2>5. Stale' \subseteq {s} /\ (s \in Stale' <=> ~Extends(r, seq[s].hist))
    <3>1. ASSUME NEW q \in Req \ {r} PROVE pc'[q] # "reuse"
      BY <1>1, <2>2 DEF OthersStay, IInv, TurnHeld, Work, Owns
    <3>2. Live(r)' <=> Extends(r, seq[s].hist)
      BY <2>2 DEF Live, Extends
    <3> QED BY <2>2, <3>1, <3>2 DEF Stale
  <2> DEFINE w == Widths(sl', seq', Stale')
  <2> DEFINE v == Others(sl, seq, s)
  <2>6. w \in [Slot -> Int] /\ v \in [Slot -> Int]
    BY <1>1, WidthsTyped, OthersTyped DEF Types, RestTypes
  <2>7. w[s] = Need(r, s) /\ Need(r, s) \in Nat
    <3>1. w[s] = IF Extends(r, seq[s].hist) THEN Larger(Target(r), Len(seq[s].tab)) ELSE Target(r)
      BY <2>2, <2>5 DEF Widths
    <3>2. Len(seq[s].tab) \in Nat
      BY <1>2
    <3> HIDE DEF w
    <3> QED BY <1>3, <3>1, <3>2 DEF Need, AdmissionNeed, Larger
  <2>8. \A u \in Slot \ {s} : w[u] = v[u]
    <3>1. ASSUME NEW u \in Slot, sl[u].busy PROVE ~sl[u].abort
      <4>1. PICK q \in Req : mine[q] = u
        BY <3>1 DEF IInv, SlotExclusive
      <4> QED BY <1>1, <4>1, SlotFacts, SizesAssumption DEF Unharmed, Holding
    <3> QED BY <2>2, <2>5, <3>1 DEF Widths, Others
  <2>9. Cardinality(Cells(w)) <= Need(r, s) + Cardinality(Cells(v))
    <3>1. Need(r, s) \in Int /\ w[s] <= Need(r, s)
      <4> HIDE DEF w
      <4> QED BY <2>7
    <3>2. \A u \in Slot \ {s} : w[u] <= v[u]
      <4> HIDE DEF w, v
      <4> QED BY <2>6, <2>8
    <3> HIDE DEF w, v
    <3> QED BY <2>6, <2>7, <3>1, <3>2, ColumnAdded
  <2>10. Supply(s) = NPages - Cardinality(Cells(v))
    BY <1>1, SupplyIs
  <2>11. Cardinality(Cells(w)) \in Nat /\ Cardinality(Cells(v)) \in Nat /\ NPages \in Nat
    <3> HIDE DEF w, v
    <3> QED BY <2>6, CellsFinite, SizesAssumption DEF SizesAssumption
  <2>12. Cardinality(Cells(w)) <= NPages
    <3> HIDE DEF w, v
    <3> QED BY <2>1, <2>7, <2>9, <2>10, <2>11
  <2> QED BY <2>3, <2>12 DEF Kept, Committed
<1>7. CASE LeaveSlot(r)
  <2> DEFINE m == mine[r]
  <2>1. /\ m \in Slot /\ seq' = seq /\ mine'[r] = 0 /\ pc'[r] = "release" /\ Owns(r)
        /\ pc[r] = "finish"
        /\ \A q \in Req \ {r} : mine'[q] = mine[q]
        /\ ~sl'[m].busy /\ \A u \in Slot \ {m} : sl'[u] = sl[u]
    BY <1>1, <1>7 DEF LeaveSlot, Types, SlotRecord, IInv, Placed, Homeless
  <2>2. Unharmed'
    <3>1. \A q \in Req \ {r} : Holding(q)' => Holding(q) /\ mine[q] \in Slot \ {m}
      BY <1>1, <2>1 DEF Holding, IInv, SlotExclusive, Types
    <3> QED BY <1>1, <1>3, <2>1, <3>1 DEF Unharmed, Holding, OthersStay
  <2>3. Stale = {} /\ Stale' = {}
    <3>1. Stale = {}
      BY <2>1, StaleIsOwners
    <3>2. \A q \in Req \ {r} : pc[q] # "reuse"
      BY <2>1 DEF IInv, TurnHeld, Work, Owns
    <3>3. \A q \in Req : pc'[q] # "reuse"
      BY <1>1, <2>1, <3>2 DEF OthersStay
    <3> QED BY <3>1, <3>3 DEF Stale
  <2>4. Widths(sl', seq', Stale')[m] <= Widths(sl, seq, Stale)[m]
    <3>1. sl[m].busy /\ sl[m].reserved = Target(r)
      BY <1>1, <2>1, SlotFacts, SizesAssumption DEF Unharmed, Holding, IInv, SlotExclusive
    <3>2. Widths(sl, seq, Stale)[m] = Larger(Target(r), Len(seq[m].tab))
      BY <2>1, <2>3, <3>1 DEF Widths
    <3>3. Larger(Target(r), Len(seq[m].tab)) >= 0
      BY <1>2, <1>3, <2>1 DEF Larger
    <3>4. Widths(sl', seq', Stale')[m] = 0
      BY <2>1 DEF Widths
    <3> QED BY <3>2, <3>3, <3>4
  <2>5. Committed'
    BY <1>1, <2>1, <2>3, <2>4, CommittedKept
  <2> QED BY <2>2, <2>5 DEF Kept
<1>8. CASE Owns(r) /\ ~Claim(r) /\ ~LeaveSlot(r)
  <2> DEFINE m == mine[r]
  <2>1. sl' = sl /\ mine' = mine
    BY <1>4, <1>8 DEF Worker, Admission, Arrive, LeaveQueue, TryTurn, TurnAway,
       Reuse, Continue, RestoreRam, RestoreSsd, Fresh, Refuse, Begin, MapRows,
       CopyOnWrite, MapPage, EvictCheckpoint, DropIdle, SnapRead,
       Prefill, Skip, StartChunk, EnterLayers, Lend, EndChunk,
       HandOver, KeepGpu, YieldGpu, AskAgain, Regain,
       Decode, StopDecode, StartRound, SkipRound, Verify, EndRound,
       Leaving, Catch, ReleaseGpu, slotVars, threadVars
  <2>2. pc'[r] # "catch" /\ pc'[r] # "reuse"
    <3>1. pc[r] = "yield" \/ pc[r] = "back" => ~sl[m].abort
      BY <1>1 DEF Unharmed, Holding, IInv, Placed, Homeless
    <3> QED BY <1>1, <1>4, <1>8, <3>1
        DEF Worker, Types, Unharmed, Onward, UnlessAborted, threadVars,
       Admission, Arrive, LeaveQueue, TryTurn, TurnAway,
       Reuse, Continue, RestoreRam, RestoreSsd, Fresh, Refuse, Begin, MapRows,
       CopyOnWrite, MapPage, EvictCheckpoint, DropIdle, SnapRead, Starving, Dry, Mapping,
       Prefill, Skip, StartChunk, EnterLayers, Lend, EndChunk,
       HandOver, KeepGpu, YieldGpu, AskAgain, Regain,
       Decode, StopDecode, StartRound, SkipRound, Verify, EndRound,
       Leaving, Catch, ReleaseGpu
  <2>3. Unharmed'
    BY <1>1, <1>3, <2>1, <2>2 DEF Unharmed, Holding, OthersStay
  <2>4. Stale \subseteq {m} /\ Stale' = {}
    <3>1. \A q \in Req : pc'[q] # "reuse"
      BY <1>1, <1>8, <2>2 DEF OthersStay, IInv, TurnHeld, Work, Owns
    <3> QED BY <1>8, <3>1, StaleIsOwners DEF Stale
  <2>5. \A s \in Slot \ {m} : sl[s].busy => seq'[s] = seq[s]
    <3>1. CASE DropIdle(r)
      <4>1. PICK v \in Slot : ~sl[v].busy /\ seq' = [seq EXCEPT ![v] = Dropped]
        BY <3>1 DEF DropIdle, LeastUsed, IdleHolders, Idle
      <4> QED BY <1>1, <4>1 DEF RestTypes
    <3>2. CASE \/ RestoreRam(r) \/ RestoreSsd(r) \/ Fresh(r) \/ Begin(r)
               \/ CopyOnWrite(r) \/ MapPage(r) \/ SnapRead(r)
               \/ EndChunk(r) \/ StopDecode(r) \/ EndRound(r) \/ Catch(r)
      <4>1. PICK h \in TokenRun, p \in Nat, t \in Seq(Pages) : Writes(r, h, p, t)
        BY <3>2, WritesOwn
      <4> QED BY <1>1, <4>1 DEF Writes, RestTypes
    <3>3. CASE ~DropIdle(r) /\ ~(\/ RestoreRam(r) \/ RestoreSsd(r) \/ Fresh(r) \/ Begin(r)
               \/ CopyOnWrite(r) \/ MapPage(r) \/ SnapRead(r)
               \/ EndChunk(r) \/ StopDecode(r) \/ EndRound(r) \/ Catch(r))
      <4>1. seq' = seq
        BY <1>4, <1>8, <3>3 DEF Worker, Admission, Arrive, LeaveQueue, TryTurn, TurnAway,
           Reuse, Continue, Refuse, MapRows, EvictCheckpoint,
           Prefill, Skip, StartChunk, EnterLayers, Lend,
           HandOver, KeepGpu, YieldGpu, AskAgain, Regain,
           Decode, StartRound, SkipRound, Verify, Leaving, ReleaseGpu, slotVars
      <4> QED BY <4>1
    <3> QED BY <3>1, <3>2, <3>3
  <2>6. ASSUME m \in Slot
        PROVE  Widths(sl', seq', Stale')[m] <= Widths(sl, seq, Stale)[m]
    <3>1. sl[m].busy /\ sl[m].reserved = Target(r)
      BY <1>1, <2>6, SlotFacts, SizesAssumption DEF Unharmed, Holding, IInv, SlotExclusive
    <3>2. Widths(sl', seq', Stale')[m] = Larger(Target(r), Len(seq'[m].tab))
      BY <2>1, <2>4, <2>6, <3>1 DEF Widths
    <3>3. Widths(sl, seq, Stale)[m] = IF m \in Stale THEN Target(r)
                                      ELSE Larger(Target(r), Len(seq[m].tab))
      BY <2>6, <3>1 DEF Widths
    <3>4. m \in Stale => pc[r] = "reuse" /\ ~Live(r)
      <4>1. \A q \in Req : mine[q] = m => q = r
        BY <1>1, <2>6, SlotFacts, SizesAssumption DEF IInv, SlotExclusive, Holding
      <4> QED BY <4>1 DEF Stale
    <3>5. Len(seq[m].tab) \in Nat /\ Len(seq'[m].tab) \in Nat
      BY <1>2, <2>6
    <3>6. seq'[m].tab = <<>> => Len(seq'[m].tab) = 0
      BY EmptySeq
    <3>7. \/ Len(seq'[m].tab) <= Target(r)
          \/ Len(seq'[m].tab) = Len(seq[m].tab) /\ m \notin Stale
      <4>1. \/ /\ Len(seq'[mine[r]].tab) <= Target(r)
               /\ pc[r] = "reuse" \/ pc[r] = "map"
            \/ /\ seq'[mine[r]].tab = <<>>
               /\ pc[r] # "reuse"
            \/ /\ Len(seq'[mine[r]].tab) = Len(seq[mine[r]].tab)
               /\ pc[r] = "reuse" => Live(r)
        BY <1>8, <2>6, TablesGrow
      <4> QED BY <1>3, <3>4, <3>6, <4>1
    <3> QED BY <1>3, <3>2, <3>3, <3>5, <3>7 DEF Larger
  <2>7. Committed'
    BY <1>1, <2>1, <2>4, <2>5, <2>6, CommittedKept
  <2> QED BY <2>3, <2>7 DEF Kept
<1> QED BY <1>5, <1>6, <1>7, <1>8

(* When every budget is inside the decode reservation, what admission       *)
(* promised suffices: no request is sacrificed and none fails.              *)
THEOREM ReservationsHold == Spec => []ReservationHolds
<1>1. CASE \A q \in Req : Budget[q] <= DecodeCap
  <2>1. Init => Kept
    <3> SUFFICES ASSUME Init PROVE Kept
      OBVIOUS
    <3>1. Unharmed
      BY DEF Init, Unharmed, Holding
    <3> DEFINE w == Widths(sl, seq, Stale)
    <3>2. w = [s \in Slot |-> 0]
      BY DEF Init, Widths
    <3>3. Cells(w) = {}
      BY <3>2, CellsAre
    <3>4. Cardinality(Cells(w)) = 0
      BY <3>3, FS_EmptySet
    <3> QED BY <3>1, <3>4, SizesAssumption DEF Kept, Committed, SizesAssumption
  <2>2. ASSUME IInv, SInv, IInv', SInv', Kept, [Next]_vars PROVE Kept'
    <3>1. ASSUME NEW r \in Req, Worker(r) PROVE Kept'
      BY <1>1, <2>2, <3>1, KeptWorker
    <3>2. ASSUME UNCHANGED <<pc, mine, seq>>,
                 \A s \in Slot : /\ sl'[s].busy = sl[s].busy /\ sl'[s].abort = sl[s].abort
                                 /\ sl'[s].reserved = sl[s].reserved
          PROVE  Kept'
      <4>1. Stale' = Stale
        BY <3>2 DEF Stale, Live
      <4>2. Widths(sl', seq', Stale') = Widths(sl, seq, Stale)
        BY <3>2, <4>1 DEF Widths
      <4>3. Unharmed'
        <5>1. \A q \in Req : Holding(q) => mine[q] \in Slot
          BY <2>2 DEF IInv, Types, Holding
        <5> QED BY <2>2, <3>2, <5>1 DEF Kept, Unharmed, Holding, Target
      <4> QED BY <2>2, <4>2, <4>3 DEF Kept, Committed
    <3>3. ASSUME NEW r \in Req, Cancel(r) PROVE Kept'
      BY <3>2, <3>3 DEF Cancel, threadVars, slotVars
    <3>4. ASSUME NEW r \in Req, Disown(r) PROVE Kept'
      <4>1. sl' = [s \in Slot |-> IF sl[s].owner = {r} THEN [sl[s] EXCEPT !.owner = {}] ELSE sl[s]]
        BY <3>4 DEF Disown
      <4>2. \A s \in Slot : /\ sl'[s].busy = sl[s].busy /\ sl'[s].abort = sl[s].abort
                            /\ sl'[s].reserved = sl[s].reserved
        BY <2>2, <4>1 DEF IInv, Types, SlotRecord
      <4> QED BY <3>2, <3>4, <4>2 DEF Disown, threadVars
    <3>5. CASE UNCHANGED vars
      BY <3>2, <3>5 DEF vars
    <3> QED BY <2>2, <3>1, <3>3, <3>4, <3>5 DEF Next, AllServed
  <2>3. Kept => ReservationHolds
    BY DEF Kept, Unharmed, ReservationHolds, Failing
  <2> QED BY StateInvariant, <2>1, <2>2, <2>3, PTL DEF Spec
<1>2. CASE ~ \A q \in Req : Budget[q] <= DecodeCap
  <2>1. ReservationHolds
    BY <1>2 DEF ReservationHolds
  <2> QED BY <2>1, PTL
<1> QED BY <1>1, <1>2
-----------------------------------------------------------------------------
(* Who is sacrificed.                                                       *)

(* Admission numbers grow, and running requests have different ones.        *)
Numbered ==
    /\ \A s \in Slot : sl[s].seq <= admitted
    /\ \A s, u \in Slot : sl[s].busy /\ sl[u].busy /\ sl[s].seq = sl[u].seq => s = u

LEMMA NumberedStep ==
    ASSUME IInv, Numbered, [Next]_vars
    PROVE  Numbered'
<1>1. Types /\ admitted \in Nat /\ \A s \in Slot : sl[s].seq \in Nat
  BY DEF IInv, Types, SlotRecord
<1>2. ASSUME admitted' = admitted,
             \A s \in Slot : sl'[s].seq = sl[s].seq /\ (sl'[s].busy => sl[s].busy)
      PROVE  Numbered'
  BY <1>2 DEF Numbered
<1>3. ASSUME NEW r \in Req, Claim(r) PROVE Numbered'
  <2>1. PICK s \in Slot :
          sl' = [sl EXCEPT ![s] =
                    [busy |-> TRUE, abort |-> FALSE, seq |-> admitted + 1,
                     lastUse |-> sl[s].lastUse, owner |-> {r}, reserved |-> Target(r)]]
    BY <1>3, CandidatesIdle DEF Claim, Idle
  <2>2. /\ sl'[s].seq = admitted + 1 /\ admitted' = admitted + 1
        /\ \A u \in Slot \ {s} : sl'[u] = sl[u]
    BY <1>1, <1>3, <2>1 DEF Claim, Types
  <2> QED BY <1>1, <2>2 DEF Numbered
<1>4. ASSUME NEW r \in Req, LeaveSlot(r) PROVE Numbered'
  <2> DEFINE left == [sl[mine[r]] EXCEPT !.busy = FALSE, !.reserved = 0, !.lastUse = uses + 1]
  <2>1. sl' = [sl EXCEPT ![mine[r]] = left] /\ admitted' = admitted /\ mine[r] \in Slot
    BY <1>1, <1>4 DEF LeaveSlot, At, IInv, Placed, Homeless, Types
  <2>2. left.seq = sl[mine[r]].seq /\ left.busy = FALSE
    <3> DEFINE x == sl[mine[r]]
    <3> DEFINE y == [x EXCEPT !.busy = FALSE]
    <3> DEFINE z == [y EXCEPT !.reserved = 0]
    <3>1. x \in SlotRecord
      BY <1>1, <2>1 DEF Types
    <3>2. y \in SlotRecord /\ y.seq = x.seq /\ y.busy = FALSE
      <4> HIDE DEF x
      <4> QED BY <3>1 DEF SlotRecord
    <3>3. z \in SlotRecord /\ z.seq = y.seq /\ z.busy = y.busy
      <4> HIDE DEF y
      <4> QED BY <3>2 DEF SlotRecord
    <3>4. [z EXCEPT !.lastUse = uses + 1].seq = z.seq /\ [z EXCEPT !.lastUse = uses + 1].busy = z.busy
      <4> HIDE DEF z
      <4> QED BY <3>3 DEF SlotRecord
    <3>5. left = [z EXCEPT !.lastUse = uses + 1]
      BY Zenon
    <3> HIDE DEF x, y, z, left
    <3> QED BY <3>2, <3>3, <3>4, <3>5 DEF x
  <2> HIDE DEF left
  <2>3. sl'[mine[r]] = left /\ \A s \in Slot \ {mine[r]} : sl'[s] = sl[s]
    BY <1>1, <2>1 DEF Types
  <2> QED BY <1>2, <2>1, <2>2, <2>3
<1>5. ASSUME NEW r \in Req, AbortLater(r) PROVE Numbered'
  <2>1. PICK v \in Later(r) : sl' = [sl EXCEPT ![v].abort = TRUE]
    BY <1>5 DEF AbortLater
  <2>2. \A s \in Slot : sl'[s].seq = sl[s].seq /\ sl'[s].busy = sl[s].busy
    BY <1>1, <2>1 DEF Types, SlotRecord
  <2> QED BY <1>2, <1>5, <2>2 DEF AbortLater, clocks
<1>6. ASSUME NEW r \in Req, Worker(r), ~Claim(r), ~LeaveSlot(r), ~AbortLater(r) PROVE Numbered'
  <2>1. sl' = sl /\ admitted' = admitted
    BY <1>6 DEF Worker, Admission, Arrive, LeaveQueue, TryTurn, TurnAway,
       Reuse, Continue, RestoreRam, RestoreSsd, Fresh, Refuse, Begin, MapRows,
       CopyOnWrite, MapPage, EvictCheckpoint, DropIdle, Overflow, SnapRead,
       Prefill, Skip, StartChunk, EnterLayers, Lend, EndChunk,
       HandOver, KeepGpu, YieldGpu, AskAgain, Regain,
       Decode, StopDecode, StartRound, SkipRound, Verify, EndRound,
       Leaving, Catch, ReleaseGpu, slotVars, clocks
  <2> QED BY <1>2, <2>1
<1>7. ASSUME NEW r \in Req, Cancel(r) PROVE Numbered'
  BY <1>2, <1>7 DEF Cancel, slotVars, clocks
<1>8. ASSUME NEW r \in Req, Disown(r) PROVE Numbered'
  <2>1. sl' = [s \in Slot |-> IF sl[s].owner = {r} THEN [sl[s] EXCEPT !.owner = {}] ELSE sl[s]]
    BY <1>8 DEF Disown
  <2>2. \A s \in Slot : sl'[s].seq = sl[s].seq /\ sl'[s].busy = sl[s].busy
    BY <1>1, <2>1 DEF Types, SlotRecord
  <2> QED BY <1>2, <1>8, <2>2 DEF Disown, clocks
<1>9. CASE UNCHANGED vars
  BY <1>2, <1>9 DEF vars
<1> QED BY <1>3, <1>4, <1>5, <1>6, <1>7, <1>8, <1>9 DEF Next, AllServed

(* One request alone fits in the pool: who overflows is not alone.          *)
LEMMA NotAlone ==
    ASSUME IInv, SInv, Numbered, NEW r \in Req,
           Starving(r), IdleHolders = {}, Later(r) = {}
    PROVE  \E q \in Req : Holding(q) /\ ~Doomed(q) /\ sl[mine[q]].seq < sl[mine[r]].seq
<1> SUFFICES ASSUME \A q \in Req : Holding(q) /\ ~Doomed(q) =>
                                       ~(sl[mine[q]].seq < sl[mine[r]].seq)
             PROVE  FALSE
  OBVIOUS
<1> DEFINE m == mine[r]
<1> DEFINE tab == seq[m].tab
<1>1. /\ Types /\ RestTypes /\ pc[r] = "map" /\ Owns(r) /\ m \in Slot /\ sl[m].busy
      /\ ck = <<>> /\ (Shared(r) # {} \/ Short(r))
  BY DEF IInv, SInv, Starving, Dry, Mapping, At, Placed, Homeless, Types, SlotExclusive
<1>2. \A s \in Slot : /\ Len(seq[s].tab) \in Nat /\ sl[s].seq \in Nat
                      /\ DOMAIN seq[s].tab = 1 .. Len(seq[s].tab)
  BY <1>1, SequenceTyped, LenProperties DEF Types, SlotRecord
<1>3. ASSUME NEW s \in Slot \ {m}, sl[s].busy, ~sl[s].abort PROVE seq[s].tab = <<>>
  <2>1. PICK q \in Req : mine[q] = s
    BY <1>3 DEF IInv, SlotExclusive
  <2>2. q # r /\ Holding(q)
    BY <1>3, <2>1, SlotFacts, SizesAssumption DEF Holding
  <2>3. pc[q] # "catch"
    BY <1>1, <2>2 DEF IInv, TurnHeld, Work, Owns
  <2>4. ~Doomed(q)
    BY <1>3, <2>1, <2>3 DEF Doomed, Failing
  <2>5. ~(sl[s].seq < sl[m].seq)
    BY <2>1, <2>2, <2>4
  <2>6. sl[s].seq # sl[m].seq
    BY <1>1, <1>3 DEF Numbered
  <2>7. sl[s].seq > sl[m].seq
    BY <1>1, <1>2, <2>5, <2>6
  <2> QED BY <1>3, <2>7 DEF Later
<1>4. \A s \in Slot \ {m} : seq[s].tab = <<>>
  BY <1>3 DEF IdleHolders, Idle, IInv, VictimHoldsNothing
<1>5. Shared(r) = {}
  <2>1. Pinned = {}
    BY <1>1 DEF Pinned
  <2>2. \A u \in Slot \ {m} : PagesOf(u) = {}
    BY <1>4 DEF PagesOf, ToSet
  <2> QED BY <2>1, <2>2 DEF Shared, SharedPage
<1>6. NPages <= Len(tab)
  <2> DEFINE C == {m} \X (1 .. Len(tab))
  <2> DEFINE t == [s \in Slot |-> seq[s].tab]
  <2>1. IsFiniteSet(C) /\ Cardinality(C) = Len(tab)
    <3>1. Len(tab) \in Nat /\ Len(tab) \in Int
      BY <1>1, <1>2
    <3> HIDE DEF tab, m
    <3> QED BY <3>1, ColumnFinite
  <2>2. \A p \in Pages : \E s \in Slot : \E i \in 1 .. Len(t[s]) :
            t[s][i] = p /\ <<s, i>> \in C
    <3> TAKE p \in Pages
    <3>1. PICK s \in Slot : \E i \in 1 .. Len(seq[s].tab) : seq[s].tab[i] = p
      BY DryPool
    <3>2. PICK i \in 1 .. Len(seq[s].tab) : seq[s].tab[i] = p
      BY <3>1
    <3>3. s = m
      <4>1. CASE s # m
        <5>1. seq[s].tab = <<>>
          BY <1>4, <4>1
        <5>2. Len(seq[s].tab) = 0
          BY <5>1, EmptySeq
        <5> QED BY <3>2, <5>2
      <4> QED BY <4>1
    <3>4. <<m, i>> \in C /\ t[m] = tab
      BY <1>1, <3>2, <3>3
    <3> QED BY <1>1, <3>2, <3>3, <3>4
  <2>3. NPages <= Cardinality(C)
    <3> HIDE DEF C, t
    <3> QED BY <2>1, <2>2, PagesCounted
  <2> HIDE DEF C
  <2> QED BY <2>1, <2>3
<1>7. Len(tab) < NPages
  <2>1. /\ Prompt[r] \in Nat /\ Budget[r] \in Nat /\ Snap[r] \in Nat /\ Snap[r] < Prompt[r]
        /\ Prompt[r] + Budget[r] <= MaxCtx /\ MaxCtx \in Nat
    BY RequestAssumption, SizesAssumption DEF RequestAssumption, SizesAssumption
  <2>2. JobFits(r) /\ job[r] \in JobRecord
    BY <1>1 DEF SInv, RestTypes
  <2>3. job[r].end \in Nat /\ job[r].end <= MaxCtx
    BY <1>1, <2>1, <2>2 DEF JobFits, InPass, Ingesting, Verifying, JobRecord, LastRow
  <2>4. /\ PagesFor(job[r].end, Page) \in Nat /\ PagesFor(MaxCtx, Page) \in Nat
        /\ PagesFor(job[r].end, Page) <= PagesFor(MaxCtx, Page)
    BY <2>1, <2>3, RowPages
  <2>5. Len(tab) < PagesFor(job[r].end, Page)
    BY <1>1, <1>5 DEF Short
  <2> HIDE DEF tab
  <2>6. NPages \in Nat /\ NPages >= PagesFor(MaxCtx, Page)
    BY SizesAssumption DEF SizesAssumption
  <2>7. Len(tab) \in Nat
    BY <1>1, <1>2 DEF tab
  <2> QED BY <2>4, <2>5, <2>6, <2>7
<1>8. Len(tab) \in Nat /\ NPages \in Nat
  BY <1>1, <1>2, SizesAssumption DEF SizesAssumption
<1> HIDE DEF tab
<1> QED BY <1>6, <1>7, <1>8

LEMMA DoomedStep ==
    ASSUME IInv, SInv, Numbered, [Next]_vars
    PROVE  EarliestSurvivesStep
<1> SUFFICES ASSUME NEW r \in Req, Holding(r), ~Doomed(r), Doomed(r)'
             PROVE  \E q \in Req : Holding(q) /\ ~Doomed(q) /\ sl[mine[q]].seq < sl[mine[r]].seq
  BY DEF EarliestSurvivesStep
<1>1. /\ Types /\ RestTypes /\ pc \in [Req -> Labels] /\ mine[r] \in Slot
      /\ pc[r] # "catch" /\ ~sl[mine[r]].abort
  BY DEF IInv, SInv, Types, Holding, Doomed, Failing
<1>2. mine'[r] # 0 /\ (pc'[r] = "catch" \/ sl'[mine'[r]].abort)
  BY DEF Doomed, Holding, Failing
<1>3. ASSUME mine'[r] = mine[r], pc'[r] # "catch", sl'[mine[r]].abort = sl[mine[r]].abort
      PROVE  FALSE
  BY <1>1, <1>2, <1>3
<1> USE DEF At, Goto
<1>4. ASSUME NEW q \in Req, AbortLater(q)
      PROVE  \E p \in Req : Holding(p) /\ ~Doomed(p) /\ sl[mine[p]].seq < sl[mine[r]].seq
  <2>1. PICK v \in Later(q) : sl' = [sl EXCEPT ![v].abort = TRUE]
    BY <1>4 DEF AbortLater
  <2>2. mine' = mine /\ pc' = pc /\ pc[q] = "map"
    BY <1>4 DEF AbortLater, threadVars, Starving, Dry, Mapping
  <2>3. v \in Slot /\ sl[v].seq > sl[mine[q]].seq
    BY <2>1 DEF Later
  <2>4. \A s \in Slot \ {v} : sl'[s].abort = sl[s].abort
    BY <1>1, <2>1 DEF Types
  <2>5. mine[r] = v
    BY <1>1, <1>3, <2>2, <2>4
  <2>6. Holding(q) /\ mine[q] \in Slot
    BY <1>1, <2>2 DEF Holding, IInv, Placed, Homeless, Types
  <2>7. ~Doomed(q)
    BY <2>2, <2>6 DEF Doomed, Failing, IInv, VictimsAside
  <2>8. sl[mine[q]].seq < sl[mine[r]].seq
    BY <1>1, <2>3, <2>5, <2>6 DEF Types, SlotRecord
  <2> QED BY <2>6, <2>7, <2>8
<1>5. ASSUME NEW q \in Req, Overflow(q)
      PROVE  \E p \in Req : Holding(p) /\ ~Doomed(p) /\ sl[mine[p]].seq < sl[mine[r]].seq
  <2>1. /\ Starving(q) /\ IdleHolders = {} /\ Later(q) = {}
        /\ mine' = mine /\ sl' = sl /\ \A p \in Req \ {q} : pc'[p] = pc[p]
    BY <1>1, <1>5 DEF Overflow, slotVars
  <2>2. q = r
    BY <1>1, <1>3, <2>1
  <2> QED BY <2>1, <2>2, NotAlone
<1>6. ASSUME NEW q \in Req, Claim(q) PROVE FALSE
  <2>1. PICK s \in Slot :
          /\ ~sl[s].busy
          /\ sl' = [sl EXCEPT ![s] =
                    [busy |-> TRUE, abort |-> FALSE, seq |-> admitted + 1,
                     lastUse |-> sl[s].lastUse, owner |-> {q}, reserved |-> Target(q)]]
          /\ mine' = [mine EXCEPT ![q] = s]
    BY <1>6, CandidatesIdle DEF Claim, Idle
  <2>2. q # r /\ s # mine[r] /\ pc'[r] = pc[r]
    BY <1>1, <1>6, <2>1 DEF Claim, Holding, IInv, Placed, Homeless, SlotExclusive
  <2>3. mine'[r] = mine[r] /\ sl'[mine[r]] = sl[mine[r]]
    BY <1>1, <2>1, <2>2 DEF Types
  <2> QED BY <1>1, <1>3, <2>2, <2>3
<1>7. ASSUME NEW q \in Req, LeaveSlot(q) PROVE FALSE
  <2>1. /\ mine' = [mine EXCEPT ![q] = 0] /\ mine[q] \in Slot
        /\ \A s \in Slot \ {mine[q]} : sl'[s] = sl[s]
        /\ \A p \in Req \ {q} : pc'[p] = pc[p]
    BY <1>1, <1>7 DEF LeaveSlot, Types, IInv, Placed, Homeless
  <2>2. q # r
    BY <1>1, <1>2, <2>1 DEF Types
  <2>3. mine'[r] = mine[r] /\ mine[q] # mine[r]
    BY <1>1, <2>1, <2>2 DEF Types, IInv, SlotExclusive, Holding
  <2> QED BY <1>1, <1>3, <2>1, <2>2, <2>3
<1>8. ASSUME NEW q \in Req, Worker(q), ~Claim(q), ~LeaveSlot(q), ~AbortLater(q), ~Overflow(q)
      PROVE  FALSE
  <2>1. sl' = sl /\ mine' = mine
    BY <1>8 DEF Worker, Admission, Arrive, LeaveQueue, TryTurn, TurnAway,
       Reuse, Continue, RestoreRam, RestoreSsd, Fresh, Refuse, Begin, MapRows,
       CopyOnWrite, MapPage, EvictCheckpoint, DropIdle, SnapRead,
       Prefill, Skip, StartChunk, EnterLayers, Lend, EndChunk,
       HandOver, KeepGpu, YieldGpu, AskAgain, Regain,
       Decode, StopDecode, StartRound, SkipRound, Verify, EndRound,
       Leaving, Catch, ReleaseGpu, slotVars, threadVars
  <2>2. pc'[r] = "catch"
    BY <1>1, <1>3, <2>1
  <2>3. OthersStay(q)
    BY <1>1, <1>8, WorkerAlone
  <2>4. q = r
    BY <1>1, <2>2, <2>3 DEF OthersStay
  <2>5. KeepGpu(r) \/ Regain(r)
    BY <1>1, <1>8, <2>2, <2>4
       DEF Worker, Types, Admission, Arrive, LeaveQueue, TryTurn, TurnAway,
       Reuse, Continue, RestoreRam, RestoreSsd, Fresh, Refuse, Begin, MapRows,
       CopyOnWrite, MapPage, EvictCheckpoint, DropIdle, SnapRead, threadVars,
       Prefill, Skip, StartChunk, EnterLayers, Lend, EndChunk,
       HandOver, YieldGpu, AskAgain,
       Decode, StopDecode, StartRound, SkipRound, Verify, EndRound,
       Leaving, Catch, ReleaseGpu
  <2>6. pc'[r] # "catch"
    <3>1. CASE KeepGpu(r)
      BY <1>1, <3>1 DEF KeepGpu, UnlessAborted, Onward, Types
    <3>2. CASE Regain(r)
      BY <1>1, <3>2 DEF Regain, UnlessAborted, Types
    <3> QED BY <2>5, <3>1, <3>2
  <2> QED BY <2>2, <2>6
<1>9. ASSUME NEW q \in Req, Cancel(q) PROVE FALSE
  BY <1>1, <1>3, <1>9 DEF Cancel, threadVars, slotVars
<1>10. ASSUME NEW q \in Req, Disown(q) PROVE FALSE
  <2>1. sl' = [s \in Slot |-> IF sl[s].owner = {q} THEN [sl[s] EXCEPT !.owner = {}] ELSE sl[s]]
    BY <1>10 DEF Disown
  <2>2. \A s \in Slot : sl'[s].abort = sl[s].abort
    BY <1>1, <2>1 DEF Types, SlotRecord
  <2> QED BY <1>1, <1>3, <1>10, <2>2 DEF Disown, threadVars
<1>11. CASE UNCHANGED vars
  BY <1>1, <1>3, <1>11 DEF vars
<1> QED BY <1>4, <1>5, <1>6, <1>7, <1>8, <1>9, <1>10, <1>11 DEF Next, AllServed

(* "An earlier request is never sacrificed for a later one": whoever is     *)
(* aborted, or fails for want of pages, was admitted after a request that   *)
(* runs on unharmed.  One request alone never fails for want of pages.      *)
THEOREM LaterOnesGiveWay == Spec => EarliestSurvives
<1>1. Init => Numbered
  BY DEF Init, Numbered
<1>2. IInv /\ Numbered /\ [Next]_vars => Numbered'
  BY NumberedStep
<1>3. IInv /\ SInv /\ Numbered /\ [Next]_vars => [EarliestSurvivesStep]_vars
  BY DoomedStep
<1> QED BY StateInvariant, <1>1, <1>2, <1>3, PTL DEF Spec, EarliestSurvives

-----------------------------------------------------------------------------
(***************************************************************************)
(* What is kept while a chunk is lent and between the steps of a round:     *)
(* rounds on the lent GPU fit the small workspace, a lent chunk is not      *)
(* disturbed, a round rolls back to its own saved state, and the shadow     *)
(* set of an in-pass cut is given back.                                     *)
(***************************************************************************)

(* Whoever maps rows, or is about to verify, is the only one that can step  *)
(* what it depends on: another worker's step leaves job, books and copies.  *)
LEMMA OwnerUndisturbed ==
    ASSUME IInv, NEW r \in Req, Owns(r), NEW q \in Req, q # r, Worker(q)
    PROVE  /\ pc'[r] = pc[r] /\ ret'[r] = ret[r]
           /\ UNCHANGED <<mine, job, sl, seq, ck, lendVars, copies, admitted>>
<1>1. Types /\ ~Owns(q)
  BY DEF IInv, Owns
<1>2. OthersStay(q)
  BY <1>1, WorkerAlone
<1> QED BY <1>1, <1>2, OnlyTheOwner DEF OthersStay

(* What is left of a step that moves no worker.                             *)
LEMMA IdleStep ==
    ASSUME NEW r \in Req, Cancel(r) \/ Disown(r) \/ UNCHANGED vars
    PROVE  UNCHANGED <<pc, ret, job, mine, seq, lendVars, copies>>
BY DEF Cancel, Disown, vars, threadVars, slotVars, lendVars, copies
-----------------------------------------------------------------------------
(* Rows on the lent GPU.  They were checked against the light flag before   *)
(* the worker began to map them; nobody raises the flag in between.         *)
LightFits ==
    \A r \in Req : pc[r] = "map" /\ job[r].kind \in {"chunk", "round"} /\ light > 0 =>
        job[r].end - job[r].base <= LightRows

LEMMA LightWorker ==
    ASSUME IInv, SInv, LightFits, NEW r \in Req, Worker(r)
    PROVE  LightFits'
<1>1. Types /\ RestTypes /\ \A q \in Req \ {r} : pc'[q] = pc[q]
  BY WorkerAlone DEF IInv, SInv, OthersStay
<1>2. ASSUME NEW q \in Req \ {r}, pc'[q] = "map", job'[q].kind \in {"chunk", "round"}, light' > 0
      PROVE  job'[q].end - job'[q].base <= LightRows
  <2>1. pc[q] = "map" /\ Owns(q)
    BY <1>1, <1>2 DEF IInv, TurnHeld, Work
  <2>2. job' = job /\ light' = light
    BY <2>1, OwnerUndisturbed DEF lendVars
  <2> QED BY <1>2, <2>1, <2>2 DEF LightFits
<1>3. ASSUME pc'[r] = "map", job'[r].kind \in {"chunk", "round"}, light' > 0
      PROVE  job'[r].end - job'[r].base <= LightRows
  <2>1. CASE pc[r] = "map"
    <3>1. UNCHANGED <<job, light>>
      BY <1>1, <1>3, <2>1 DEF Types, At, Goto, lendVars, threadVars, Worker,
         Admission, Arrive, LeaveQueue, TryTurn, TurnAway, Claim,
         Reuse, Continue, RestoreRam, RestoreSsd, Fresh, Refuse, Begin, Reusing,
         MapRows, CopyOnWrite, MapPage, EvictCheckpoint, DropIdle, AbortLater, Overflow,
         SnapRead, Prefill, Skip, StartChunk, EnterLayers, Lend, EndChunk, Backed, Mapping,
         HandOver, KeepGpu, YieldGpu, AskAgain, Regain,
         Decode, StopDecode, StartRound, SkipRound, Verify, EndRound,
         Leaving, Catch, LeaveSlot, ReleaseGpu
    <3> QED BY <1>3, <2>1, <3>1 DEF LightFits
  <2>2. CASE pc[r] # "map"
    <3>1. RestoreSsd(r) \/ StartChunk(r) \/ Verify(r)
      BY <1>1, <1>3, <2>2 DEF Types, At, Goto, threadVars, Worker, UnlessAborted, Onward,
         Admission, Arrive, LeaveQueue, TryTurn, TurnAway, Claim,
         Reuse, Continue, RestoreRam, Fresh, Refuse, Begin,
         MapRows, CopyOnWrite, MapPage, EvictCheckpoint, DropIdle, AbortLater, Overflow,
         SnapRead, Prefill, Skip, EnterLayers, Lend, EndChunk,
         HandOver, KeepGpu, YieldGpu, AskAgain, Regain,
         Decode, StopDecode, StartRound, SkipRound, EndRound,
         Leaving, Catch, LeaveSlot, ReleaseGpu
    <3>2. CASE RestoreSsd(r)
      <4>1. SetJob(r, "snap", 0, Snap[r])
        BY <3>2 DEF RestoreSsd
      <4>2. job'[r].kind = "snap"
        BY <1>1, <4>1 DEF SetJob, RestTypes
      <4> QED BY <1>3, <4>2
    <3>3. CASE StartChunk(r)
      <4>1. /\ SetJob(r, "chunk", job[r].base, job[r].base + NextRows(r))
            /\ light' = light /\ ~Barred(r) /\ job[r].base < Prompt[r]
        BY <3>3 DEF StartChunk, At, lendVars, SInv, JobFits, GoesTo
      <4>2. job[r].base \in Nat /\ NextRows(r) \in Nat
        BY <1>1, <4>1, NextRowsFit
      <4>3. job'[r].base = job[r].base /\ job'[r].end = job[r].base + NextRows(r)
        BY <1>1, <4>1 DEF SetJob, RestTypes
      <4>4. NextRows(r) <= LightRows
        BY <1>3, <4>1, <4>2, SizesAssumption DEF Barred, SizesAssumption
      <4> QED BY <4>2, <4>3, <4>4
    <3>4. CASE Verify(r)
      <4>1. job' = job /\ light' = light /\ ~HeavyRound(r)
        BY <3>4 DEF Verify, lendVars
      <4>2. job[r].end \in Nat /\ job[r].base \in Nat
        BY <1>1 DEF RestTypes, JobRecord
      <4> QED BY <1>3, <4>1, <4>2, SizesAssumption DEF HeavyRound, SizesAssumption
    <3> QED BY <3>1, <3>2, <3>3, <3>4
  <2> QED BY <2>1, <2>2
<1> QED BY <1>2, <1>3 DEF LightFits

(* While a chunk is lent nobody writes more rows than the small workspace   *)
(* has room for.                                                            *)
THEOREM LentRoundsAreLight == Spec => []LentRoundsFit
<1>1. Init => LightFits
  BY DEF Init, LightFits
<1>2. IInv /\ SInv /\ LightFits /\ [Next]_vars => LightFits'
  <2> SUFFICES ASSUME IInv, SInv, LightFits, [Next]_vars PROVE LightFits'
    OBVIOUS
  <2>1. ASSUME NEW r \in Req, Worker(r) PROVE LightFits'
    BY <2>1, LightWorker
  <2>2. ASSUME UNCHANGED <<pc, ret, job, mine, seq, lendVars, copies>> PROVE LightFits'
    BY <2>2 DEF LightFits, lendVars
  <2>3. ASSUME NEW r \in Req, Cancel(r) \/ Disown(r) PROVE LightFits'
    BY <2>2, <2>3, IdleStep
  <2>4. CASE UNCHANGED vars
    BY <2>4 DEF LightFits, vars
  <2> QED BY <2>1, <2>3, <2>4 DEF Next, AllServed
<1>3. IInv /\ LightFits => LentRoundsFit
  BY DEF IInv, OneLent, LightFits, LentRoundsFit, Mapping, At
<1> QED BY StateInvariant, <1>1, <1>2, <1>3, PTL DEF Spec
-----------------------------------------------------------------------------
(* The recurrent state of a round.  A round inside the small workspace      *)
(* never gives the GPU up between saving its state and verifying.           *)
RoundIsOwn(r) ==
    /\ pc[r] \in {"away", "back"} =>
        ret[r] # "verify" /\ (ret[r] = "layers" => job[r].kind # "round")
    /\ pc[r] \in {"verify", "map", "layers"} /\ job[r].kind = "round" =>
        /\ job[r].end - job[r].base <= 1 + Draft
        /\ job[r].end - job[r].base > 1 => shadow = {r}

LEMMA RoundWorker ==
    ASSUME 1 + Draft <= LightRows, IInv, SInv, \A q \in Req : RoundIsOwn(q),
           NEW r \in Req, Worker(r)
    PROVE  \A q \in Req : RoundIsOwn(q)'
<1>1. /\ Types /\ RestTypes /\ \A q \in Req \ {r} : pc'[q] = pc[q] /\ ret'[q] = ret[q]
      /\ job[r].base \in Nat /\ job[r].end \in Nat
  BY WorkerAlone DEF IInv, SInv, OthersStay, RestTypes, JobRecord
<1>4. \A q \in Req \ {r} : job'[q] = job[q]
  BY JobAlone DEF SInv
<1>2. ASSUME NEW q \in Req \ {r} PROVE RoundIsOwn(q)'
  <2>1. CASE pc[q] \in {"verify", "map", "layers"}
    <3>1. Owns(q)
      BY <2>1 DEF IInv, TurnHeld, Work
    <3>2. job' = job /\ shadow' = shadow
      BY <3>1, OwnerUndisturbed DEF copies
    <3> QED BY <1>1, <3>2 DEF RoundIsOwn
  <2>2. CASE pc[q] \notin {"verify", "map", "layers"}
    BY <1>1, <1>4, <2>2 DEF RoundIsOwn
  <2> QED BY <2>1, <2>2
<1>3. RoundIsOwn(r)'
  <2> DEFINE InHand == {"verify", "map", "layers"}
  <2>1. CASE pc'[r] \in InHand /\ pc[r] \in InHand
    <3>1. UNCHANGED <<job, shadow>>
      BY <1>1, <2>1 DEF Types, At, Goto, copies, threadVars, Worker,
         Admission, Arrive, LeaveQueue, TryTurn, TurnAway, Claim,
         Reuse, Continue, RestoreRam, RestoreSsd, Fresh, Refuse, Begin, Reusing,
         MapRows, CopyOnWrite, MapPage, EvictCheckpoint, DropIdle, AbortLater, Overflow,
         SnapRead, Prefill, Skip, StartChunk, EnterLayers, Lend, EndChunk, Backed, Mapping,
         HandOver, KeepGpu, YieldGpu, AskAgain, Regain,
         Decode, StopDecode, StartRound, SkipRound, Verify, EndRound,
         Leaving, Catch, LeaveSlot, ReleaseGpu
    <3> QED BY <2>1, <3>1 DEF RoundIsOwn
  <2>2. CASE pc'[r] \in InHand /\ pc[r] \notin InHand
    <3>1. RestoreSsd(r) \/ StartChunk(r) \/ StartRound(r) \/ Regain(r)
      BY <1>1, <2>2 DEF Types, At, Goto, threadVars, Worker, UnlessAborted, Onward, RoundIsOwn,
         Admission, Arrive, LeaveQueue, TryTurn, TurnAway, Claim,
         Reuse, Continue, RestoreRam, Fresh, Refuse, Begin,
         MapRows, CopyOnWrite, MapPage, EvictCheckpoint, DropIdle, AbortLater, Overflow,
         SnapRead, Prefill, Skip, EnterLayers, Lend, EndChunk, Backed, Mapping,
         HandOver, KeepGpu, YieldGpu, AskAgain,
         Decode, StopDecode, SkipRound, Verify, EndRound,
         Leaving, Catch, LeaveSlot, ReleaseGpu
    <3>5. CASE Regain(r)
      <4>1. pc[r] = "back" /\ job' = job /\ pc'[r] = ret[r]
        BY <1>1, <2>2, <3>5 DEF Regain, UnlessAborted, At, Goto, Types
      <4>2. ret[r] = "layers" /\ job[r].kind # "round"
        BY <1>1, <2>2, <4>1 DEF RoundIsOwn, Types
      <4> QED BY <2>2, <4>1, <4>2 DEF RoundIsOwn
    <3>2. CASE RestoreSsd(r)
      <4>1. SetJob(r, "snap", 0, Snap[r])
        BY <3>2 DEF RestoreSsd
      <4>2. job'[r].kind = "snap"
        BY <1>1, <4>1 DEF SetJob, RestTypes
      <4> QED BY <2>2, <4>2 DEF RoundIsOwn
    <3>3. CASE StartChunk(r)
      <4>1. SetJob(r, "chunk", job[r].base, job[r].base + NextRows(r))
        BY <3>3 DEF StartChunk
      <4>2. job'[r].kind = "chunk"
        BY <1>1, <4>1 DEF SetJob, RestTypes
      <4> QED BY <2>2, <4>2 DEF RoundIsOwn
    <3>4. CASE StartRound(r)
      <4> DEFINE pos == seq[mine[r]].pos
      <4>1. mine[r] \in Slot /\ pos \in Nat /\ Draft \in Nat /\ LastRow(r) \in Nat
        <5>0. pc[r] = "round"
          BY <3>4 DEF StartRound, At
        <5>1. mine[r] \in Slot
          BY <5>0 DEF IInv, Types, Placed, Homeless
        <5>2. pos \in Nat
          BY <1>1, <5>1, SequenceTyped
        <5>3. Draft \in Nat
          BY SizesAssumption DEF SizesAssumption
        <5>4. LastRow(r) \in Nat
          <6>1. Prompt[r] \in Nat /\ Budget[r] \in Nat
            BY RequestAssumption DEF RequestAssumption
          <6> QED BY <6>1 DEF LastRow
        <5> QED BY <5>1, <5>2, <5>3, <5>4
      <4>2. PICK rows \in 1 .. Smaller(1 + Draft, LastRow(r) - pos) :
              /\ SetJob(r, "round", pos, pos + rows)
              /\ shadow' = IF rows > 1 THEN {r} ELSE shadow
        BY <3>4 DEF StartRound
      <4>3. job'[r].base = pos /\ job'[r].end = pos + rows
        BY <1>1, <4>2 DEF SetJob, RestTypes
      <4> HIDE DEF pos
      <4>4. rows \in Nat /\ rows <= 1 + Draft
        BY <4>1 DEF Smaller
      <4>5. job'[r].end - job'[r].base = rows
        BY <4>1, <4>3, <4>4
      <4> QED BY <2>2, <4>2, <4>4, <4>5 DEF RoundIsOwn
    <3> QED BY <3>1, <3>2, <3>3, <3>4, <3>5
  <2>3. CASE pc'[r] \in {"away", "back"}
    <3>1. ~SkipRound(r)
      BY <1>1, SizesAssumption DEF SkipRound, At, HeavyRound, SInv, JobFits, GoesTo,
         Verifying, RoundIsOwn, SizesAssumption
    <3>2. ret'[r] # "verify"
      BY <1>1, <2>3, <3>1 DEF Types, At, Goto, threadVars, Worker, UnlessAborted, Onward, RoundIsOwn,
         Admission, Arrive, LeaveQueue, TryTurn, TurnAway, Claim,
         Reuse, Continue, RestoreRam, RestoreSsd, Fresh, Refuse, Begin, Reusing,
         MapRows, CopyOnWrite, MapPage, EvictCheckpoint, DropIdle, AbortLater, Overflow,
         SnapRead, Prefill, Skip, StartChunk, EnterLayers, Lend, EndChunk, Backed, Mapping,
         HandOver, KeepGpu, YieldGpu, AskAgain, Regain,
         Decode, StopDecode, StartRound, Verify, EndRound,
         Leaving, Catch, LeaveSlot, ReleaseGpu
    <3>3. ret'[r] = "layers" => job'[r].kind # "round"
      <4>1. CASE Lend(r)
        <5>1. pc[r] = "layers" /\ ~(job[r].end - job[r].base <= LightRows)
          BY <1>1, <4>1, SizesAssumption DEF Lend, At, SizesAssumption
        <5>2. job[r].kind # "round"
          BY <1>1, <5>1, SizesAssumption DEF RoundIsOwn, SizesAssumption
        <5>3. job'[r].kind = job[r].kind
          BY <1>1, <4>1 DEF Lend, RestTypes, JobRecord
        <5> QED BY <5>2, <5>3
      <4>2. CASE AskAgain(r)
        BY <1>1, <4>2 DEF AskAgain, Goto, RoundIsOwn
      <4>3. CASE ~Lend(r) /\ ~AskAgain(r)
        <5>1. ret'[r] # "layers"
          BY <1>1, <2>3, <3>1, <4>3
          DEF Types, At, Goto, threadVars, Worker, UnlessAborted, Onward,
           Admission, Arrive, LeaveQueue, TryTurn, TurnAway, Claim,
           Reuse, Continue, RestoreRam, RestoreSsd, Fresh, Refuse, Begin, Reusing,
           MapRows, CopyOnWrite, MapPage, EvictCheckpoint, DropIdle, AbortLater, Overflow,
           SnapRead, Dry, Starving, Prefill, Skip, StartChunk, EnterLayers, EndChunk, Backed, Mapping,
           HandOver, KeepGpu, YieldGpu, Regain,
           Decode, StopDecode, StartRound, Verify, EndRound,
           Leaving, Catch, LeaveSlot, ReleaseGpu
        <5> QED BY <5>1
      <4> QED BY <4>1, <4>2, <4>3
    <3> QED BY <2>3, <3>2, <3>3 DEF RoundIsOwn
  <2> QED BY <2>1, <2>2, <2>3 DEF RoundIsOwn
<1> QED BY <1>2, <1>3

(* "spec verify never yields": when every round fits the small workspace,   *)
(* a round that drafted finds its own recurrent state in d_ckpt.            *)
THEOREM RoundsRollBackToTheirOwn ==
    ASSUME 1 + Draft <= LightRows
    PROVE  Spec => []RollbackIsOwn
<1> DEFINE Own == \A r \in Req : RoundIsOwn(r)
<1>1. Init => Own
  BY DEF Init, RoundIsOwn
<1>2. IInv /\ SInv /\ Own /\ [Next]_vars => Own'
  <2> SUFFICES ASSUME IInv, SInv, Own, [Next]_vars PROVE Own'
    OBVIOUS
  <2>1. ASSUME NEW r \in Req, Worker(r) PROVE Own'
    BY <2>1, RoundWorker
  <2>2. ASSUME NEW r \in Req, Cancel(r) \/ Disown(r) PROVE Own'
    BY <2>2, IdleStep DEF RoundIsOwn, copies
  <2>3. CASE UNCHANGED vars
    BY <2>3 DEF RoundIsOwn, vars
  <2> QED BY <2>1, <2>2, <2>3 DEF Next, AllServed
<1>3. Own => RollbackIsOwn
  BY DEF RoundIsOwn, RollbackIsOwn, Mapping, At
<1> HIDE DEF Own
<1> QED BY StateInvariant, <1>1, <1>2, <1>3, PTL DEF Spec
-----------------------------------------------------------------------------
(* A lent chunk.                                                            *)

(* Another worker's step leaves the sequence of a lent chunk alone, or      *)
(* takes its pages and raises its abort flag.                               *)
LEMMA LenderStep ==
    ASSUME IInv, SInv, [Next]_vars
    PROVE  LenderUndisturbedStep
<1> SUFFICES ASSUME NEW r \in Req, pc[r] \in {"away", "back"}, ret[r] = "layers",
                    pc'[r] \in {"away", "back"}
             PROVE  seq'[mine[r]] = seq[mine[r]] \/ sl'[mine[r]].abort
  BY DEF LenderUndisturbedStep
<1>1. Types /\ RestTypes /\ mine[r] \in Slot /\ sl[mine[r]].busy
  BY DEF IInv, SInv, Types, Placed, Homeless, SlotExclusive
<1>2. ASSUME NEW q \in Req, Worker(q) PROVE seq'[mine[r]] = seq[mine[r]] \/ sl'[mine[r]].abort
  <2>1. CASE RestoreRam(q) \/ RestoreSsd(q) \/ Fresh(q) \/ Begin(q) \/ CopyOnWrite(q)
             \/ MapPage(q) \/ SnapRead(q) \/ EndChunk(q) \/ StopDecode(q) \/ EndRound(q)
             \/ Catch(q)
    <3>1. PICK h \in TokenRun, p \in Nat, t \in Seq(Pages) : Writes(q, h, p, t)
      BY <2>1, WritesOwn
    <3>2. q # r
      BY <2>1 DEF At, RestoreRam, RestoreSsd, Fresh, Begin, Reusing, CopyOnWrite, MapPage,
         SnapRead, Backed, Mapping, EndChunk, StopDecode, EndRound, Catch
    <3>3. mine[q] # mine[r]
      BY <1>1, <3>2, SlotFacts, SizesAssumption DEF IInv, SlotExclusive, Holding
    <3> QED BY <1>1, <3>1, <3>3 DEF Writes, RestTypes
  <2>2. CASE DropIdle(q)
    <3>1. PICK s \in IdleHolders : seq' = [seq EXCEPT ![s] = Dropped]
      BY <2>2 DEF DropIdle, LeastUsed
    <3> QED BY <1>1, <3>1 DEF IdleHolders, Idle, RestTypes
  <2>3. CASE AbortLater(q)
    <3>1. PICK v \in Later(q) : /\ seq' = [seq EXCEPT ![v] = Reset(seq[v])]
                                /\ sl' = [sl EXCEPT ![v].abort = TRUE]
      BY <2>3 DEF AbortLater
    <3>2. v \in Slot
      BY <3>1 DEF Later
    <3>3. sl'[v].abort
      BY <1>1, <3>1, <3>2 DEF Types, SlotRecord
    <3> QED BY <1>1, <3>1, <3>2, <3>3 DEF RestTypes
  <2>4. CASE seq' = seq
    BY <2>4
  <2> QED BY <1>2, <2>1, <2>2, <2>3, <2>4 DEF Worker, slotVars,
         Admission, Arrive, LeaveQueue, TryTurn, TurnAway, Claim, Reuse, Continue, Refuse,
         MapRows, EvictCheckpoint, Overflow, Prefill, Skip, StartChunk, EnterLayers, Lend,
         HandOver, KeepGpu, YieldGpu, AskAgain, Regain,
         Decode, StartRound, SkipRound, Verify, Leaving, LeaveSlot, ReleaseGpu
<1>3. ASSUME NEW q \in Req, Cancel(q) \/ Disown(q) PROVE seq' = seq
  BY <1>3, IdleStep
<1>4. CASE UNCHANGED vars
  BY <1>4 DEF vars
<1> QED BY <1>2, <1>3, <1>4 DEF Next, AllServed

(* Until its worker is back, a lent chunk's slot keeps its tokens, its      *)
(* position and its pages, unless the request was sacrificed.               *)
THEOREM LendersAreUndisturbed == Spec => LenderUndisturbed
<1>1. IInv /\ SInv /\ [Next]_vars => [LenderUndisturbedStep]_vars
  BY LenderStep
<1> QED BY StateInvariant, <1>1, PTL DEF Spec, LenderUndisturbed
-----------------------------------------------------------------------------
(* The shadow set of the in-pass cut.                                       *)

(* Who took the shadow set is in its prompt: no request fails there as long *)
(* as admission's promise holds.                                            *)
InPrompt(r) ==
    \/ GoesTo(r, "chunk") \/ Ingesting(r)
    \/ pc[r] = "yield" /\ job[r].base < Prompt[r]
CutInv ==
    /\ \A r \in inpass : InPrompt(r)
    /\ \A r, q \in inpass : r = q
    /\ cutBusy <=> inpass # {}

(* A worker in its prompt stays there, until its last chunk ends.           *)
LEMMA PromptGoesOn ==
    ASSUME IInv, SInv, NEW r \in Req, Worker(r), InPrompt(r), pc'[r] # "catch"
    PROVE  InPrompt(r)' \/ (EndChunk(r) /\ job[r].end = Prompt[r])
<1>1. /\ Types /\ RestTypes /\ JobFits(r) /\ job[r] \in JobRecord
      /\ Prompt[r] \in Nat
  BY RequestAssumption DEF IInv, SInv, RestTypes, RequestAssumption
<1> USE DEF InPrompt, InPass, Ingesting, GoesTo, At, Goto
<1>2. CASE StartChunk(r)
  <2>1. SetJob(r, "chunk", job[r].base, job[r].base + NextRows(r)) /\ pc'[r] = "map"
    BY <1>1, <1>2 DEF StartChunk, Types
  <2>2. job'[r].kind = "chunk"
    BY <1>1, <2>1 DEF SetJob, RestTypes
  <2> QED BY <2>1, <2>2
<1>3. CASE EndChunk(r)
  <2> SUFFICES ASSUME job[r].end # Prompt[r] PROVE InPrompt(r)'
    BY <1>3
  <2> DEFINE next == [job[r] EXCEPT !.base = job[r].end]
  <2>1. pc'[r] = "yield" /\ job' = [job EXCEPT ![r] = next]
    BY <1>1, <1>3 DEF EndChunk, Types
  <2>2. job[r].end \in Nat /\ job[r].end <= Prompt[r]
    BY <1>1, <1>3 DEF EndChunk, JobFits, JobRecord
  <2>3. next.base = job[r].end
    BY <1>1 DEF JobRecord
  <2>4. job'[r].base = job[r].end
    <3> HIDE DEF next
    <3> QED BY <1>1, <2>1, <2>3 DEF RestTypes
  <2> QED BY <1>1, <2>1, <2>2, <2>4
<1>4. CASE KeepGpu(r) \/ YieldGpu(r)
  <2>1. job[r].base < Prompt[r]
    BY <1>4 DEF KeepGpu, YieldGpu
  <2> QED BY <1>1, <1>4, <2>1 DEF KeepGpu, YieldGpu, Onward, UnlessAborted, Types
<1>5. CASE Skip(r) \/ Lend(r) \/ EnterLayers(r) \/ Regain(r) \/ AskAgain(r)
  BY <1>1, <1>5 DEF Skip, Lend, EnterLayers, Backed, Mapping, Regain, AskAgain, UnlessAborted, Types,
                    JobFits, RestTypes, JobRecord
<1>6. CASE CopyOnWrite(r) \/ MapPage(r) \/ EvictCheckpoint(r) \/ DropIdle(r) \/ AbortLater(r)
  BY <1>6 DEF CopyOnWrite, MapPage, EvictCheckpoint, DropIdle, AbortLater, threadVars
<1>7. CASE Overflow(r)
  BY <1>1, <1>7 DEF Overflow, Types
<1> QED BY <1>2, <1>3, <1>4, <1>5, <1>6, <1>7 DEF Worker,
       Admission, Arrive, LeaveQueue, TryTurn, TurnAway, Claim,
       Reuse, Continue, RestoreRam, RestoreSsd, Fresh, Refuse, Begin, Reusing,
       MapRows, SnapRead, Backed, Mapping, Prefill, HandOver,
       Decode, StopDecode, StartRound, SkipRound, Verify, EndRound,
       Leaving, Catch, LeaveSlot, ReleaseGpu

LEMMA CutWorker ==
    ASSUME IInv, SInv, CutInv, NEW r \in Req, Worker(r), pc'[r] # "catch"
    PROVE  CutInv'
<1>1. /\ Types /\ RestTypes
      /\ \A q \in Req \ {r} : pc'[q] = pc[q] /\ ret'[q] = ret[q] /\ job'[q] = job[q]
  BY WorkerAlone, JobAlone DEF IInv, SInv, OthersStay
<1>2. inpass \subseteq Req /\ \A q \in Req \ {r} : InPrompt(q) => InPrompt(q)'
  BY <1>1, JobAlone DEF SInv, RestTypes, InPrompt, InPass, Ingesting, GoesTo
<1>3. CASE Begin(r)
  <2> DEFINE take == Cut[r] > job[r].base /\ ~cutBusy
  <2>1. /\ cutBusy' = (cutBusy \/ take)
        /\ inpass' = IF take THEN inpass \cup {r} ELSE inpass
        /\ pc'[r] = "chunk" /\ pc[r] = "check"
    BY <1>1, <1>3 DEF Begin, At, Goto, Types
  <2>2. InPrompt(r)' /\ ~InPrompt(r)
    BY <2>1 DEF InPrompt, InPass, Ingesting, GoesTo
  <2>3. CASE take
    <3>1. inpass = {} /\ inpass' = {r} /\ cutBusy'
      BY <2>1, <2>3 DEF CutInv
    <3> QED BY <2>2, <3>1 DEF CutInv
  <2>4. CASE ~take
    <3>1. inpass' = inpass /\ (cutBusy' <=> cutBusy)
      BY <2>1, <2>4
    <3> QED BY <1>2, <2>2, <3>1 DEF CutInv
  <2> QED BY <2>3, <2>4
<1>4. CASE EndChunk(r) /\ job[r].end = Prompt[r]
  <2>1. cutBusy' = (cutBusy /\ ~(r \in inpass)) /\ inpass' = inpass \ {r}
    BY <1>4 DEF EndChunk, CutBusyAfter
  <2> QED BY <1>2, <2>1 DEF CutInv
<1>5. CASE ~Begin(r) /\ ~(EndChunk(r) /\ job[r].end = Prompt[r])
  <2>1. inpass' = inpass /\ (cutBusy' <=> cutBusy)
    <3>1. CASE EndChunk(r)
      BY <1>5, <3>1 DEF EndChunk, CutBusyAfter
    <3>2. CASE ~EndChunk(r)
      <4>1. UNCHANGED <<cutBusy, inpass>>
        BY <1>5, <3>2 DEF copies, Worker,
         Admission, Arrive, LeaveQueue, TryTurn, TurnAway, Claim,
         Reuse, Continue, RestoreRam, RestoreSsd, Fresh, Refuse,
         MapRows, CopyOnWrite, MapPage, EvictCheckpoint, DropIdle, AbortLater, Overflow,
         SnapRead, Prefill, Skip, StartChunk, EnterLayers, Lend,
         HandOver, KeepGpu, YieldGpu, AskAgain, Regain,
         Decode, StopDecode, StartRound, SkipRound, Verify, EndRound,
         Leaving, Catch, LeaveSlot, ReleaseGpu
      <4> QED BY <4>1
    <3> QED BY <3>1, <3>2
  <2>2. InPrompt(r) => InPrompt(r)'
    BY <1>5, PromptGoesOn
  <2> QED BY <1>2, <2>1, <2>2 DEF CutInv
<1> QED BY <1>3, <1>4, <1>5

(* "released after the save below", "one owner at a time": the shadow set   *)
(* of the in-pass cut is taken only while one running request is to save    *)
(* its cut.  It holds when admission's promise does: a request that fails   *)
(* in its prompt never gives the set back.                                  *)
THEOREM ShadowSetComesBack ==
    ASSUME \A q \in Req : Budget[q] <= DecodeCap
    PROVE  Spec => []CutSetReleased
<1>1. Init => CutInv
  BY DEF Init, CutInv
<1>2. IInv /\ SInv /\ ReservationHolds' /\ CutInv /\ [Next]_vars => CutInv'
  <2> SUFFICES ASSUME IInv, SInv, ReservationHolds', CutInv, [Next]_vars PROVE CutInv'
    OBVIOUS
  <2>1. ASSUME NEW r \in Req, Worker(r) PROVE CutInv'
    <3>1. pc'[r] # "catch"
      BY DEF ReservationHolds, Failing
    <3> QED BY <2>1, <3>1, CutWorker
  <2>2. ASSUME NEW r \in Req, Cancel(r) \/ Disown(r) PROVE CutInv'
    BY <2>2, IdleStep DEF CutInv, InPrompt, InPass, Ingesting, GoesTo, copies
  <2>3. CASE UNCHANGED vars
    BY <2>3 DEF CutInv, InPrompt, InPass, Ingesting, GoesTo, vars
  <2> QED BY <2>1, <2>2, <2>3 DEF Next, AllServed
<1>3. IInv /\ SInv /\ CutInv => CutSetReleased
  <2> SUFFICES ASSUME IInv, SInv, CutInv PROVE CutSetReleased
    OBVIOUS
  <2>1. inpass \subseteq Req /\ \A r \in inpass : Holding(r)
    BY DEF SInv, RestTypes, CutInv, InPrompt, InPass, Ingesting, GoesTo, IInv, Placed, Homeless, Holding
  <2> QED BY <2>1 DEF CutInv, CutSetReleased
<1> QED BY StateInvariant, ReservationsHold, <1>1, <1>2, <1>3, PTL DEF Spec
=============================================================================
