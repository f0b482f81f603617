-------------------------- MODULE ServeSchedProofs --------------------------
(***************************************************************************)
(* Safety of concurrent serving for every set of requests, number of slots *)
(* and pages: slots are exclusive, only the owner of the GPU computes and   *)
(* on its own slot, one chunk at most is lent, and the victim of an         *)
(* overflow maps nothing until its worker has noticed.  The second part is  *)
(* about the queues and the service (SlotService) that serving implements,  *)
(* the third about what serving keeps of every sequence.                    *)
(*                                                                         *)
(* The invariant IInv ties each worker's place to what it may hold.  Most   *)
(* steps are quiet: the GPU owner moves between two computing places and    *)
(* touches no sequence but its own (lemma QuietStep); the others hand the   *)
(* GPU over, claim or leave a slot, or starve another request.              *)
(***************************************************************************)
EXTENDS ServeSched, FiniteSetTheorems, SequenceTheorems, WellFoundedInduction, TLAPS

(* Places where a worker holds a slot and computes on the GPU.              *)
Work == {"reuse", "check", "map", "chunk", "layers", "yield", "round", "verify",
         "catch", "finish"}
Homeless == {"new", "queued", "admit", "release", "ended"}

SlotRecord == [busy : BOOLEAN, abort : BOOLEAN, seq : Nat, lastUse : Nat,
               owner : SUBSET Req, reserved : Int]

Types ==
    /\ pc \in [Req -> Labels]
    /\ ret \in [Req -> {"chunk", "round", "layers", "verify"}]
    /\ mine \in [Req -> {0} \cup Slot]
    /\ gate \in Seq(Req)
    /\ sl \in [Slot -> SlotRecord]
    /\ DOMAIN seq = Slot
    /\ lent \in BOOLEAN /\ light \in Nat
    /\ admitted \in Nat /\ uses \in Nat

(* A worker holds a slot exactly between its claim and ~Lease.              *)
Placed == \A r \in Req : mine[r] = 0 <=> pc[r] \in Homeless

(* Whoever computes, or is about to release, owns the GPU.                  *)
TurnHeld == \A r \in Req : pc[r] \in Work \cup {"release"} => Owns(r)

(* A victim's worker is away from the GPU, or failing, or already leaving.  *)
VictimsAside ==
    \A r \in Req : Holding(r) /\ sl[mine[r]].abort =>
        pc[r] \in {"away", "back", "catch", "finish"}

(* One lender at most; flag and workspace say whether there is one.         *)
OneLent ==
    /\ \A r, q \in Lenders : r = q
    /\ lent <=> Lenders # {}
    /\ light = IF lent THEN 1 ELSE 0

IInv == Types /\ Placed /\ SlotExclusive /\ TurnHeld /\ BoundToOwner
        /\ VictimsAside /\ VictimHoldsNothing /\ OneLent
-----------------------------------------------------------------------------
LEMMA GateFacts ==
    ASSUME NEW g \in Seq(Req), NEW x \in Req
    PROVE  /\ Append(g, x) \in Seq(Req)
           /\ g # <<>> => /\ Tail(g) \in Seq(Req)
                          /\ Append(g, x) # <<>> /\ Head(Append(g, x)) = Head(g)
OBVIOUS

(* Only one worker can own the GPU, and a slot number is not 0.             *)
LEMMA SlotFacts == SizesAssumption => Slot \subseteq Nat /\ 0 \notin Slot
BY DEF SizesAssumption, Slot

(* A step of the GPU owner that moves it to another computing place and     *)
(* touches no other busy slot.                                              *)
Quiet(r) ==
    /\ pc[r] \in Work \ {"catch", "finish"}
    /\ pc' = pc \/ \E l \in Work : pc' = [pc EXCEPT ![r] = l]
    /\ UNCHANGED <<ret, mine, gate, sl, lendVars, bound, clocks>>
    /\ DOMAIN seq' = Slot
    /\ \A s \in Slot \ {mine[r]} : sl[s].busy => seq'[s] = seq[s]

LEMMA QuietStep ==
    ASSUME IInv, NEW r \in Req, Quiet(r)
    PROVE  IInv'
<1> USE DEF IInv
<1>1. PICK l \in Work : pc' = [pc EXCEPT ![r] = l]
  BY DEF Quiet, Types
<1>2. /\ pc \in [Req -> Labels] /\ pc' \in [Req -> Labels]
      /\ pc'[r] = l /\ \A q \in Req \ {r} : pc'[q] = pc[q]
  BY <1>1 DEF Types, Work, Labels
<1>3. Types'
  BY <1>2 DEF Quiet, Types, lendVars, clocks
<1>4. Placed'
  BY <1>2 DEF Quiet, Placed, Work, Homeless
<1>5. SlotExclusive'
  BY DEF Quiet, SlotExclusive, Holding
<1>6. TurnHeld'
  BY <1>2 DEF Quiet, TurnHeld, Owns, Work
<1>7. BoundToOwner'
  BY <1>2 DEF Quiet, BoundToOwner, Computing, Holding, Owns, Work
<1>8. mine[r] \in Slot /\ ~sl[mine[r]].abort
  BY DEF Quiet, VictimsAside, Holding, Placed, Homeless, Work, Types
<1>9. VictimsAside'
  BY <1>2, <1>8 DEF Quiet, VictimsAside, Holding
<1>10. VictimHoldsNothing'
  BY <1>8 DEF Quiet, VictimHoldsNothing
<1>11. Lenders' = Lenders
  BY <1>2 DEF Quiet, Lenders, Work
<1>12. OneLent'
  BY <1>11 DEF Quiet, OneLent, lendVars
<1> QED BY <1>3, <1>4, <1>5, <1>6, <1>7, <1>9, <1>10, <1>12

(* The GPU owner hands the GPU over and remembers where to go on; when it   *)
(* leaves a chunk in its layers it lends the workspace.                     *)
Away(r) ==
    /\ pc[r] \in Work \ {"catch", "finish"} /\ Owns(r)
    /\ pc' = [pc EXCEPT ![r] = "away"] /\ gate' = Tail(gate)
    /\ UNCHANGED <<mine, sl, seq, bound, clocks>>
    /\ \E x \in {"chunk", "round", "layers", "verify"} :
        /\ ret' = [ret EXCEPT ![r] = x]
        /\ \/ x # "layers" /\ UNCHANGED lendVars
           \/ x = "layers" /\ ~lent /\ lent' = TRUE /\ light' = light + 1

LEMMA AwayStep ==
    ASSUME IInv, NEW r \in Req, Away(r)
    PROVE  IInv'
<1> USE DEF IInv
<1>1. PICK x \in {"chunk", "round", "layers", "verify"} :
        /\ ret' = [ret EXCEPT ![r] = x]
        /\ \/ x # "layers" /\ UNCHANGED lendVars
           \/ x = "layers" /\ ~lent /\ lent' = TRUE /\ light' = light + 1
  BY DEF Away
<1>2. /\ pc'[r] = "away" /\ ret'[r] = x
      /\ \A q \in Req \ {r} : pc'[q] = pc[q] /\ ret'[q] = ret[q]
  BY <1>1 DEF Away, Types
<1>3. gate # <<>> /\ Tail(gate) \in Seq(Req)
  BY GateFacts DEF Away, Owns, Types
<1>4. Types'
  <2>1. pc' \in [Req -> Labels]
    BY DEF Away, Types, Labels
  <2>2. ret' \in [Req -> {"chunk", "round", "layers", "verify"}]
    BY <1>1 DEF Types
  <2>3. lent' \in BOOLEAN /\ light' \in Nat
    <3>1. lent \in BOOLEAN /\ light \in Nat
      BY DEF Types
    <3>2. lent' \in BOOLEAN
      BY <1>1, <3>1, Zenon DEF lendVars
    <3>3. light' \in Nat
      BY <1>1, <3>1 DEF lendVars
    <3> QED BY <3>2, <3>3
  <2> QED BY <1>3, <2>1, <2>2, <2>3 DEF Away, Types, clocks
<1>5. Placed'
  BY <1>2 DEF Away, Placed, Work, Homeless
<1>6. SlotExclusive'
  BY DEF Away, SlotExclusive, Holding
<1>7. \A q \in Req : pc'[q] \notin Work \cup {"release"}
  BY <1>2 DEF Away, TurnHeld, Owns, Work
<1>8. TurnHeld' /\ BoundToOwner'
  <2>1. \A q \in Req : ~Computing(q)'
    BY <1>5, <1>7 DEF Computing, Holding, Placed, Types, Labels, Work, Homeless, Away
  <2> QED BY <2>1, <1>7 DEF TurnHeld, BoundToOwner
<1>9. VictimsAside'
  BY <1>2 DEF Away, VictimsAside, Holding
<1>10. VictimHoldsNothing'
  BY DEF Away, VictimHoldsNothing
<1>11. OneLent'
  <2>1. r \notin Lenders
    BY DEF Lenders, Away, Work
  <2>2. CASE x # "layers"
    <3>1. Lenders' = Lenders
      BY <1>2, <2>1, <2>2 DEF Lenders
    <3> QED BY <3>1, <1>1, <2>2 DEF OneLent, lendVars
  <2>3. CASE x = "layers"
    <3>1. Lenders = {}
      BY <1>1, <2>3 DEF OneLent
    <3>2. Lenders' = {r}
      BY <1>2, <2>3, <3>1 DEF Lenders
    <3> QED BY <3>2, <1>1, <2>3 DEF OneLent
  <2> QED BY <2>2, <2>3
<1> QED BY <1>4, <1>5, <1>6, <1>8, <1>9, <1>10, <1>11

(* A worker without a slot moves between two places without one, and the    *)
(* queue for the GPU only grows.                                            *)
Outside(r) ==
    /\ pc[r] \in {"new", "queued"}
    /\ \E l \in {"queued", "admit", "ended"} : pc' = [pc EXCEPT ![r] = l]
    /\ gate' = gate \/ gate' = Append(gate, r)
    /\ UNCHANGED <<ret, mine, sl, seq, lendVars, bound, clocks>>

LEMMA OutsideStep ==
    ASSUME IInv, NEW r \in Req, Outside(r)
    PROVE  IInv'
<1> USE DEF IInv
<1>1. PICK l \in {"queued", "admit", "ended"} : pc' = [pc EXCEPT ![r] = l]
  BY DEF Outside
<1>2. pc'[r] = l /\ \A q \in Req \ {r} : pc'[q] = pc[q]
  BY <1>1 DEF Types
<1>3. gate' \in Seq(Req) /\ \A q \in Req : Owns(q) => Owns(q)'
  BY GateFacts DEF Outside, Types, Owns
<1>4. Types'
  BY <1>1, <1>3 DEF Outside, Types, Labels, lendVars, clocks
<1>5. Placed'
  BY <1>2 DEF Outside, Placed, Homeless
<1>6. SlotExclusive'
  BY DEF Outside, SlotExclusive, Holding
<1>7. TurnHeld'
  BY <1>2, <1>3 DEF TurnHeld, Work
<1>8. BoundToOwner'
  BY <1>2, <1>3 DEF Outside, BoundToOwner, Computing, Holding, Placed, Homeless
<1>9. VictimsAside'
  BY <1>2 DEF Outside, VictimsAside, Holding, Placed, Homeless
<1>10. VictimHoldsNothing'
  BY DEF Outside, VictimHoldsNothing
<1>11. Lenders' = Lenders
  BY <1>2 DEF Outside, Lenders
<1>12. OneLent'
  BY <1>11 DEF Outside, OneLent, lendVars
<1> QED BY <1>4, <1>5, <1>6, <1>7, <1>8, <1>9, <1>10, <1>12

(* The GPU owner, holding no slot any more or not yet, gives the GPU up.    *)
GiveBack(r) ==
    /\ pc[r] \in {"admit", "release"} /\ Owns(r)
    /\ pc' = [pc EXCEPT ![r] = "ended"] /\ gate' = Tail(gate)
    /\ UNCHANGED <<ret, mine, sl, seq, lendVars, bound, clocks>>

LEMMA GiveBackStep ==
    ASSUME IInv, NEW r \in Req, GiveBack(r)
    PROVE  IInv'
<1> USE DEF IInv
<1>1. pc'[r] = "ended" /\ \A q \in Req \ {r} : pc'[q] = pc[q]
  BY DEF GiveBack, Types
<1>2. gate # <<>> /\ Tail(gate) \in Seq(Req)
  BY GateFacts DEF GiveBack, Owns, Types
<1>3. Types'
  BY <1>2 DEF GiveBack, Types, Labels, lendVars, clocks
<1>4. Placed'
  BY <1>1 DEF GiveBack, Placed, Homeless
<1>5. SlotExclusive'
  BY DEF GiveBack, SlotExclusive, Holding
<1>6. \A q \in Req : pc'[q] \notin Work \cup {"release"}
  BY <1>1 DEF GiveBack, TurnHeld, Owns, Work
<1>7. TurnHeld' /\ BoundToOwner'
  <2>1. \A q \in Req : ~Computing(q)'
    BY <1>4, <1>6, <1>3 DEF Computing, Holding, Placed, Types, Labels, Work, Homeless
  <2> QED BY <2>1, <1>6 DEF TurnHeld, BoundToOwner
<1>8. VictimsAside'
  BY <1>1 DEF GiveBack, VictimsAside, Holding, Placed, Homeless
<1>9. VictimHoldsNothing'
  BY DEF GiveBack, VictimHoldsNothing
<1>10. Lenders' = Lenders
  BY <1>1 DEF GiveBack, Lenders
<1>11. OneLent'
  BY <1>10 DEF GiveBack, OneLent, lendVars
<1> QED BY <1>3, <1>4, <1>5, <1>7, <1>8, <1>9, <1>11
-----------------------------------------------------------------------------
(* The steps of a kind of their own.                                        *)

LEMMA ClaimStep ==
    ASSUME IInv, SizesAssumption, RequestAssumption, NEW r \in Req, Claim(r)
    PROVE  IInv'
<1> USE DEF IInv
<1>1. PICK s \in Slot :
        /\ ~sl[s].busy
        /\ sl' = [sl EXCEPT ![s] =
                    [busy |-> TRUE, abort |-> FALSE, seq |-> admitted + 1,
                     lastUse |-> sl[s].lastUse, owner |-> {r}, reserved |-> Target(r)]]
        /\ mine' = [mine EXCEPT ![r] = s] /\ bound' = s
  BY DEF Claim, Candidates, Idle, LeastUsed
<1>2. /\ pc[r] = "admit" /\ pc'[r] = "reuse" /\ \A q \in Req \ {r} : pc'[q] = pc[q]
      /\ mine[r] = 0 /\ mine'[r] = s /\ \A q \in Req \ {r} : mine'[q] = mine[q]
      /\ Owns(r) /\ Owns(r)' /\ s # 0
  BY <1>1, SlotFacts DEF Claim, At, Goto, Types, Placed, Homeless, Owns
<1>3. Target(r) \in Int
  BY DEF Target, AdmissionTarget, PagesFor, Smaller, Larger, SizesAssumption, RequestAssumption
<1>4. /\ sl' \in [Slot -> SlotRecord]
      /\ sl'[s].busy /\ ~sl'[s].abort
      /\ \A u \in Slot \ {s} : sl'[u] = sl[u]
  <2> DEFINE claimed == [busy |-> TRUE, abort |-> FALSE, seq |-> admitted + 1,
                         lastUse |-> sl[s].lastUse, owner |-> {r}, reserved |-> Target(r)]
  <2>1. sl \in [Slot -> SlotRecord] /\ sl[s] \in SlotRecord /\ admitted + 1 \in Nat
    BY DEF Types
  <2>2. claimed \in SlotRecord
    BY <2>1, <1>3 DEF SlotRecord
  <2>3. sl' = [sl EXCEPT ![s] = claimed]
    BY <1>1, Zenon
  <2>4. claimed.busy /\ ~claimed.abort
    OBVIOUS
  <2> HIDE DEF claimed
  <2> QED BY <2>1, <2>2, <2>3, <2>4
<1>5. \A q \in Req : mine[q] # s
  BY <1>1 DEF SlotExclusive
<1>6. Types'
  <2>1. mine' \in [Req -> {0} \cup Slot] /\ pc' \in [Req -> Labels]
    BY <1>1 DEF Claim, Goto, Types, Labels
  <2>2. admitted' = admitted + 1 /\ admitted \in Nat
    BY Zenon DEF Claim, Types
  <2> QED BY <1>4, <2>1, <2>2 DEF Claim, Types, lendVars
<1>7. Placed'
  BY <1>2 DEF Claim, Placed, Homeless
<1>8. SlotExclusive'
  <2>1. \A q, p \in Req : Holding(q)' /\ mine'[q] = mine'[p] => q = p
    BY <1>2, <1>5 DEF SlotExclusive, Holding
  <2>2. ASSUME NEW u \in Slot
        PROVE  sl'[u].busy <=> \E q \in Req : mine'[q] = u
    <3>1. CASE u = s
      BY <3>1, <1>2, <1>4
    <3>2. CASE u # s
      <4>1. sl[u].busy <=> \E q \in Req : mine[q] = u
        BY DEF SlotExclusive
      <4>2. \A q \in Req : mine'[q] = u <=> mine[q] = u
        BY <3>2, <1>2, SlotFacts
      <4> QED BY <4>1, <4>2, <3>2, <1>4
    <3> QED BY <3>1, <3>2
  <2> QED BY <2>1, <2>2 DEF SlotExclusive
<1>9. TurnHeld'
  BY <1>2 DEF Claim, TurnHeld, Owns, Work
<1>10. \A q \in Req : Computing(q)' => q = r
  BY <1>2 DEF Claim, TurnHeld, Owns, Computing, Holding, Placed, Types, Labels, Work, Homeless
<1>11. BoundToOwner'
  BY <1>1, <1>2, <1>10 DEF BoundToOwner
<1>12. VictimsAside'
  <2> SUFFICES ASSUME NEW q \in Req, Holding(q)', sl'[mine'[q]].abort
               PROVE  pc'[q] \in {"away", "back", "catch", "finish"}
    BY DEF VictimsAside
  <2>1. q # r
    BY <1>2, <1>4
  <2>2. mine'[q] = mine[q] /\ mine[q] \in Slot \ {s}
    BY <2>1, <1>2, <1>5 DEF Holding, Types
  <2> QED BY <2>1, <2>2, <1>2, <1>4 DEF VictimsAside, Holding
<1>13. VictimHoldsNothing'
  BY <1>4 DEF Claim, VictimHoldsNothing
<1>14. Lenders' = Lenders
  BY <1>2 DEF Claim, Lenders
<1>15. OneLent'
  BY <1>14 DEF Claim, OneLent, lendVars
<1> QED BY <1>6, <1>7, <1>8, <1>9, <1>11, <1>12, <1>13, <1>15

LEMMA AskAgainStep ==
    ASSUME IInv, NEW r \in Req, AskAgain(r)
    PROVE  IInv'
<1> USE DEF IInv
<1>1. pc[r] = "away" /\ pc'[r] = "back" /\ \A q \in Req \ {r} : pc'[q] = pc[q]
  BY DEF AskAgain, Goto, Types
<1>2. gate' \in Seq(Req) /\ \A q \in Req : Owns(q) => Owns(q)'
  BY GateFacts DEF AskAgain, Types, Owns
<1>3. Types'
  BY <1>2 DEF AskAgain, Goto, Types, Labels, slotVars, lendVars, clocks
<1>4. Placed'
  BY <1>1 DEF AskAgain, Placed, Homeless
<1>5. SlotExclusive' /\ VictimHoldsNothing'
  BY DEF AskAgain, SlotExclusive, VictimHoldsNothing, Holding, slotVars
<1>6. TurnHeld' /\ BoundToOwner'
  BY <1>1, <1>2 DEF AskAgain, TurnHeld, BoundToOwner, Computing, Holding, Work
<1>7. VictimsAside'
  BY <1>1 DEF AskAgain, VictimsAside, Holding, slotVars
<1>8. Lenders' = Lenders
  BY <1>1 DEF AskAgain, Lenders
<1>9. OneLent'
  BY <1>8 DEF AskAgain, OneLent, lendVars
<1> QED BY <1>3, <1>4, <1>5, <1>6, <1>7, <1>9

LEMMA RegainStep ==
    ASSUME IInv, NEW r \in Req, Regain(r)
    PROVE  IInv'
<1> USE DEF IInv
<1>1. PICK l \in {"catch", "chunk", "round", "layers", "verify"} :
        /\ pc' = [pc EXCEPT ![r] = l]
        /\ sl[mine[r]].abort => l = "catch"
  BY DEF Regain, Goto, UnlessAborted, Types
<1>2. /\ pc[r] = "back" /\ pc'[r] = l /\ \A q \in Req \ {r} : pc'[q] = pc[q]
      /\ Owns(r) /\ Owns(r)'
  BY <1>1 DEF Regain, At, Types, Owns
<1>3. lent' \in BOOLEAN /\ light' \in Nat
  <2>1. lent' \in BOOLEAN
    BY DEF Regain
  <2>2. CASE ret[r] = "layers"
    <3>1. light = 1
      BY <2>2, <1>2 DEF OneLent, Lenders
    <3> QED BY <3>1, <2>1, <2>2 DEF Regain
  <2>3. CASE ret[r] # "layers"
    <3>1. light' \in Nat
      BY <2>3 DEF Regain, Types
    <3> QED BY <3>1, <2>1
  <2> QED BY <2>2, <2>3
<1>4. Types'
  BY <1>1, <1>3 DEF Regain, Types, Labels, slotVars, clocks
<1>5. Placed'
  BY <1>2 DEF Regain, Placed, Homeless
<1>6. SlotExclusive' /\ VictimHoldsNothing'
  BY DEF Regain, SlotExclusive, VictimHoldsNothing, Holding, slotVars
<1>7. TurnHeld'
  BY <1>2 DEF Regain, TurnHeld, Owns, Work
<1>8. \A q \in Req : Computing(q)' => q = r
  BY <1>2 DEF Regain, TurnHeld, Owns, Computing, Holding, Placed, Types, Labels, Work, Homeless
<1>9. BoundToOwner'
  BY <1>2, <1>8 DEF Regain, BoundToOwner
<1>10. VictimsAside'
  BY <1>1, <1>2 DEF Regain, VictimsAside, Holding, slotVars
<1>11. OneLent'
  <2>1. CASE ret[r] = "layers"
    <3>1. r \in Lenders
      BY <2>1, <1>2 DEF Lenders
    <3>2. Lenders' = {}
      BY <3>1, <1>2 DEF Regain, OneLent, Lenders
    <3>3. lent /\ light = 1
      BY <3>1 DEF OneLent
    <3>4. lent' <=> FALSE
      BY <2>1 DEF Regain
    <3>5. light' = 0
      BY <2>1, <3>3 DEF Regain
    <3> QED BY <3>2, <3>4, <3>5 DEF OneLent
  <2>2. CASE ret[r] # "layers"
    <3>1. Lenders' = Lenders
      BY <2>2, <1>2 DEF Regain, Lenders
    <3>2. lent' <=> lent
      BY <2>2 DEF Regain
    <3>3. light' = light
      BY <2>2 DEF Regain
    <3> QED BY <3>1, <3>2, <3>3 DEF OneLent
  <2> QED BY <2>1, <2>2
<1> QED BY <1>4, <1>5, <1>6, <1>7, <1>9, <1>10, <1>11

(* The request starved of its pages is away from the GPU: the starving one  *)
(* owns it.                                                                 *)
LEMMA AbortLaterStep ==
    ASSUME IInv, NEW r \in Req, AbortLater(r)
    PROVE  IInv'
<1> USE DEF IInv
<1>1. PICK v \in Slot :
        /\ sl[v].busy /\ sl[v].seq > sl[mine[r]].seq
        /\ seq' = [seq EXCEPT ![v] = Reset(@)]
        /\ sl' = [sl EXCEPT ![v].abort = TRUE]
  BY DEF AbortLater, Later
<1>2. UNCHANGED <<pc, ret, mine, gate, lent, light, bound, admitted, uses>>
  BY DEF AbortLater, threadVars, lendVars, clocks
<1>3. pc[r] = "map" /\ Owns(r) /\ mine[r] \in Slot
  BY DEF AbortLater, Starving, Dry, Mapping, At, Placed, Types, Homeless
<1>4. v # mine[r]
  <2>1. sl[mine[r]].seq \in Nat
    BY <1>3 DEF Types, SlotRecord
  <2> QED BY <2>1, <1>1
<1>5. /\ sl' \in [Slot -> SlotRecord]
      /\ \A u \in Slot : sl'[u].busy <=> sl[u].busy
      /\ \A u \in Slot \ {v} : sl'[u] = sl[u]
  BY <1>1 DEF Types, SlotRecord
<1>6. /\ DOMAIN seq' = Slot /\ seq'[v].tab = <<>> /\ seq'[v].pos = 0
      /\ \A u \in Slot \ {v} : seq'[u] = seq[u]
  BY <1>1 DEF Types, Reset
<1>7. Types'
  BY <1>2, <1>5, <1>6 DEF Types
<1>8. Placed' /\ TurnHeld' /\ BoundToOwner'
  BY <1>2 DEF Placed, TurnHeld, BoundToOwner, Computing, Holding, Owns
<1>9. SlotExclusive'
  BY <1>2, <1>5 DEF SlotExclusive, Holding
<1>10. VictimsAside'
  <2> SUFFICES ASSUME NEW q \in Req, Holding(q)', sl'[mine'[q]].abort
               PROVE  pc'[q] \in {"away", "back", "catch", "finish"}
    BY DEF VictimsAside
  <2>1. mine'[q] = mine[q] /\ mine[q] \in Slot /\ Holding(q) /\ pc'[q] = pc[q]
    BY <1>2 DEF Holding, Types
  <2>2. CASE mine[q] # v
    BY <2>1, <2>2, <1>5 DEF VictimsAside
  <2>3. CASE mine[q] = v
    <3>1. q # r
      BY <2>3, <1>4
    <3>2. pc[q] \notin Work
      BY <3>1, <1>3 DEF TurnHeld, Owns
    <3> QED BY <3>2, <2>1 DEF Placed, Types, Labels, Work, Homeless, Holding
  <2> QED BY <2>2, <2>3
<1>11. VictimHoldsNothing'
  BY <1>5, <1>6 DEF VictimHoldsNothing
<1>12. OneLent'
  BY <1>2 DEF OneLent, Lenders
<1> QED BY <1>7, <1>8, <1>9, <1>10, <1>11, <1>12

(* The catch block empties the failing worker's own slot.                   *)
LEMMA CatchStep ==
    ASSUME IInv, NEW r \in Req, Catch(r)
    PROVE  IInv'
<1> USE DEF IInv
<1>1. /\ pc[r] = "catch" /\ pc'[r] = "finish" /\ Owns(r)
      /\ \A q \in Req \ {r} : pc'[q] = pc[q]
  BY DEF Catch, At, Goto, Types
<1>2. UNCHANGED <<ret, mine, gate, sl, lent, light, bound, admitted, uses>>
  BY DEF Catch, lendVars, clocks
<1>3. DOMAIN seq' = Slot /\ \A s \in Slot : seq'[s] = seq[s] \/ seq'[s] = Dropped
  BY DEF Catch, Types
<1>4. Types'
  BY <1>2, <1>3 DEF Catch, Goto, Types, Labels
<1>5. Placed'
  BY <1>1, <1>2 DEF Placed, Homeless
<1>6. SlotExclusive'
  BY <1>2 DEF SlotExclusive, Holding
<1>7. TurnHeld' /\ BoundToOwner'
  BY <1>1, <1>2 DEF TurnHeld, BoundToOwner, Computing, Holding, Owns, Work
<1>8. VictimsAside'
  BY <1>1, <1>2 DEF VictimsAside, Holding
<1>9. VictimHoldsNothing'
  BY <1>2, <1>3 DEF VictimHoldsNothing, Dropped
<1>10. Lenders' = Lenders
  BY <1>1, <1>2 DEF Lenders
<1>11. OneLent'
  BY <1>10, <1>2 DEF OneLent
<1> QED BY <1>4, <1>5, <1>6, <1>7, <1>8, <1>9, <1>11

(* A slot record stays one when a leaving request clears it.                *)
LEMMA LeftRecord ==
    ASSUME NEW x \in SlotRecord, NEW n \in Nat
    PROVE  [x EXCEPT !.busy = FALSE, !.reserved = 0, !.lastUse = n] \in SlotRecord
<1> DEFINE y == [x EXCEPT !.busy = FALSE]
<1> DEFINE z == [y EXCEPT !.reserved = 0]
<1>1. y \in SlotRecord
  BY DEF SlotRecord
<1>2. z \in SlotRecord
  <2> HIDE DEF y
  <2> QED BY <1>1 DEF SlotRecord
<1>3. [z EXCEPT !.lastUse = n] \in SlotRecord
  <2> HIDE DEF z
  <2> QED BY <1>2 DEF SlotRecord
<1>4. [z EXCEPT !.lastUse = n] = [x EXCEPT !.busy = FALSE, !.reserved = 0, !.lastUse = n]
  BY Zenon
<1> QED BY <1>3, <1>4

(* ~Lease: exactly this worker's slot turns idle.                           *)
LEMMA LeaveSlotStep ==
    ASSUME IInv, SizesAssumption, NEW r \in Req, LeaveSlot(r)
    PROVE  IInv'
<1> USE DEF IInv
<1> DEFINE s == mine[r]
<1>1. /\ pc[r] = "finish" /\ pc'[r] = "release" /\ Owns(r) /\ s \in Slot
      /\ \A q \in Req \ {r} : pc'[q] = pc[q]
  BY DEF LeaveSlot, At, Goto, Types, Placed, Homeless
<1>2. UNCHANGED <<ret, gate, seq, lent, light, bound, admitted>>
  BY DEF LeaveSlot, lendVars
<1>3. mine'[r] = 0 /\ \A q \in Req \ {r} : mine'[q] = mine[q]
  BY DEF LeaveSlot, Types
<1>4. /\ sl' \in [Slot -> SlotRecord] /\ ~sl'[s].busy
      /\ \A u \in Slot \ {s} : sl'[u] = sl[u]
  <2> DEFINE left == [sl[s] EXCEPT !.busy = FALSE, !.reserved = 0, !.lastUse = uses + 1]
  <2>1. sl \in [Slot -> SlotRecord] /\ sl[s] \in SlotRecord /\ uses + 1 \in Nat
    BY <1>1 DEF Types
  <2>2. left \in SlotRecord /\ ~left.busy
    <3>1. left \in SlotRecord
      BY <2>1, LeftRecord
    <3>2. left.busy = FALSE
      BY <2>1 DEF SlotRecord
    <3> QED BY <3>1, <3>2
  <2>3. sl' = [sl EXCEPT ![s] = left]
    BY DEF LeaveSlot
  <2> HIDE DEF left
  <2> QED BY <2>1, <2>2, <2>3, <1>1
<1>5. \A q \in Req \ {r} : mine[q] # s
  BY <1>1, SlotFacts DEF SlotExclusive, Holding
<1>6. Types'
  <2>1. uses' = uses + 1 /\ uses \in Nat
    BY Zenon DEF LeaveSlot, Types
  <2>2. mine' \in [Req -> {0} \cup Slot] /\ pc' \in [Req -> Labels]
    BY DEF LeaveSlot, Goto, Types, Labels
  <2> QED BY <2>1, <2>2, <1>2, <1>4 DEF Types
<1>7. Placed'
  BY <1>1, <1>3 DEF Placed, Homeless
<1>8. SlotExclusive'
  <2>1. \A q, p \in Req : Holding(q)' /\ mine'[q] = mine'[p] => q = p
    BY <1>3 DEF SlotExclusive, Holding
  <2>2. ASSUME NEW u \in Slot
        PROVE  sl'[u].busy <=> \E q \in Req : mine'[q] = u
    <3>1. CASE u = s
      <4>1. \A q \in Req : mine'[q] # u
        BY <3>1, <1>1, <1>3, <1>5, SlotFacts
      <4> QED BY <4>1, <3>1, <1>4
    <3>2. CASE u # s
      <4>1. sl[u].busy <=> \E q \in Req : mine[q] = u
        BY DEF SlotExclusive
      <4>2. \A q \in Req : mine'[q] = u <=> mine[q] = u
        BY <3>2, <1>3, SlotFacts
      <4> QED BY <4>1, <4>2, <3>2, <1>4
    <3> QED BY <3>1, <3>2
  <2> QED BY <2>1, <2>2 DEF SlotExclusive
<1>9. TurnHeld'
  BY <1>1, <1>2 DEF TurnHeld, Owns, Work
<1>10. BoundToOwner'
  BY <1>1, <1>2, <1>3 DEF BoundToOwner, Computing, Holding, Owns
<1>11. VictimsAside'
  <2> SUFFICES ASSUME NEW q \in Req, Holding(q)', sl'[mine'[q]].abort
               PROVE  pc'[q] \in {"away", "back", "catch", "finish"}
    BY DEF VictimsAside
  <2>1. q # r
    BY <1>3 DEF Holding
  <2>2. mine'[q] = mine[q] /\ mine[q] \in Slot \ {s} /\ Holding(q)
    BY <2>1, <1>3, <1>5 DEF Holding, Types
  <2> QED BY <2>1, <2>2, <1>1, <1>4 DEF VictimsAside
<1>12. VictimHoldsNothing'
  BY <1>2, <1>4 DEF VictimHoldsNothing
<1>13. Lenders' = Lenders
  BY <1>1, <1>2 DEF Lenders
<1>14. OneLent'
  BY <1>13, <1>2 DEF OneLent
<1> QED BY <1>6, <1>7, <1>8, <1>9, <1>10, <1>11, <1>12, <1>14

(* Only the owner marks of slots change.                                    *)
LEMMA DisownStep ==
    ASSUME IInv, NEW r \in Req, Disown(r)
    PROVE  IInv'
<1> USE DEF IInv
<1>1. UNCHANGED <<pc, ret, mine, gate, seq, lent, light, bound, admitted, uses>>
  BY DEF Disown, threadVars, lendVars, clocks
<1>2. /\ sl' \in [Slot -> SlotRecord]
      /\ \A s \in Slot : (sl'[s].busy <=> sl[s].busy) /\ (sl'[s].abort <=> sl[s].abort)
  <2>1. sl' = [s \in Slot |-> IF sl[s].owner = {r} THEN [sl[s] EXCEPT !.owner = {}] ELSE sl[s]]
    BY DEF Disown
  <2>2. ASSUME NEW x \in SlotRecord
        PROVE  /\ [x EXCEPT !.owner = {}] \in SlotRecord
               /\ [x EXCEPT !.owner = {}].busy = x.busy
               /\ [x EXCEPT !.owner = {}].abort = x.abort
    BY DEF SlotRecord
  <2>3. ASSUME NEW s \in Slot
        PROVE  sl'[s] \in SlotRecord /\ sl'[s].busy = sl[s].busy /\ sl'[s].abort = sl[s].abort
    BY <2>1, <2>2 DEF Types
  <2>4. sl' \in [Slot -> SlotRecord]
    BY <2>1, <2>3
  <2> QED BY <2>3, <2>4
<1>3. Types'
  BY <1>1, <1>2 DEF Types
<1>4. Placed' /\ TurnHeld' /\ BoundToOwner' /\ OneLent'
  BY <1>1 DEF Placed, TurnHeld, BoundToOwner, OneLent, Lenders, Computing, Holding, Owns
<1>5. SlotExclusive'
  BY <1>1, <1>2 DEF SlotExclusive, Holding
<1>6. VictimsAside'
  BY <1>1, <1>2 DEF VictimsAside, Holding, Types
<1>7. VictimHoldsNothing'
  BY <1>1, <1>2 DEF VictimHoldsNothing
<1> QED BY <1>3, <1>4, <1>5, <1>6, <1>7
-----------------------------------------------------------------------------
(* Each action is a step of one of these kinds.                             *)

(* Choosing the state a prompt continues from, on the GPU all along.        *)
LEMMA ReuseIsQuiet ==
    ASSUME Types, NEW r \in Req, Reuse(r)
    PROVE  Quiet(r)
<1> USE DEF Quiet, At, Goto, Work, Types, slotVars, lendVars, clocks, threadVars
<1>1. CASE Continue(r)
  BY <1>1 DEF Continue, Reusing
<1>2. CASE RestoreRam(r)
  BY <1>2 DEF RestoreRam, Reusing
<1>3. CASE RestoreSsd(r)
  BY <1>3 DEF RestoreSsd, Reusing
<1>4. CASE Fresh(r)
  BY <1>4 DEF Fresh, Reusing
<1>5. CASE Refuse(r)
  BY <1>5 DEF Refuse
<1>6. CASE Begin(r)
  BY <1>6 DEF Begin
<1> QED BY <1>1, <1>2, <1>3, <1>4, <1>5, <1>6 DEF Reuse

(* Backing rows with pages, but for starving another request.               *)
LEMMA MapRowsIsQuiet ==
    ASSUME Types, NEW r \in Req, MapRows(r), ~AbortLater(r)
    PROVE  Quiet(r)
<1> USE DEF Quiet, At, Goto, Work, Types, slotVars, lendVars, clocks, threadVars
<1>1. CASE CopyOnWrite(r)
  BY <1>1 DEF CopyOnWrite, Mapping
<1>2. CASE MapPage(r)
  BY <1>2 DEF MapPage, Mapping
<1>3. CASE EvictCheckpoint(r)
  BY <1>3 DEF EvictCheckpoint, Dry, Mapping
<1>4. CASE DropIdle(r)
  BY <1>4 DEF DropIdle, Starving, Dry, Mapping, LeastUsed, IdleHolders, Idle
<1>5. CASE Overflow(r)
  BY <1>5 DEF Overflow, Starving, Dry, Mapping
<1>6. CASE SnapRead(r)
  BY <1>6 DEF SnapRead, Backed, Mapping
<1> QED BY <1>1, <1>2, <1>3, <1>4, <1>5, <1>6 DEF MapRows

(* Prompt ingest: the GPU is kept, or handed over at a chunk or a layer.    *)
LEMMA PrefillIsQuietOrAway ==
    ASSUME Types, NEW r \in Req, Prefill(r)
    PROVE  Quiet(r) \/ Away(r)
<1> USE DEF At, Goto, Work, Types, slotVars, lendVars, clocks, threadVars
<1>1. CASE Skip(r)
  BY <1>1 DEF Skip, Away
<1>2. CASE StartChunk(r)
  BY <1>2 DEF StartChunk, Quiet
<1>3. CASE EnterLayers(r)
  BY <1>3 DEF EnterLayers, Backed, Mapping, Quiet
<1>4. CASE Lend(r)
  BY <1>4 DEF Lend, Away
<1>5. CASE EndChunk(r)
  BY <1>5 DEF EndChunk, Quiet
<1> QED BY <1>1, <1>2, <1>3, <1>4, <1>5 DEF Prefill

(* Decode rounds: likewise.                                                 *)
LEMMA DecodeIsQuietOrAway ==
    ASSUME Types, NEW r \in Req, Decode(r)
    PROVE  Quiet(r) \/ Away(r)
<1> USE DEF At, Goto, Work, Types, slotVars, lendVars, clocks, threadVars
<1>1. CASE StopDecode(r)
  BY <1>1 DEF StopDecode, Quiet
<1>2. CASE StartRound(r)
  BY <1>2 DEF StartRound, Quiet
<1>3. CASE SkipRound(r)
  BY <1>3 DEF SkipRound, Away
<1>4. CASE Verify(r)
  BY <1>4 DEF Verify, Quiet
<1>5. CASE EndRound(r)
  BY <1>5 DEF EndRound, Backed, Mapping, Quiet
<1> QED BY <1>1, <1>2, <1>3, <1>4, <1>5 DEF Decode

(* The inductive step: one case per kind of action.                         *)
LEMMA Inductive ==
    ASSUME IInv, SizesAssumption, RequestAssumption, [Next]_vars
    PROVE  IInv'
<1>1. ASSUME NEW r \in Req, Admission(r)
      PROVE  IInv'
  <2>1. CASE Arrive(r)
    BY <2>1, OutsideStep DEF Arrive, Outside, Goto, slotVars, lendVars, clocks
  <2>2. CASE LeaveQueue(r)
    BY <2>2, OutsideStep DEF LeaveQueue, Outside, Goto, slotVars, lendVars, clocks
  <2>3. CASE TryTurn(r)
    BY <2>3, OutsideStep DEF TryTurn, Outside, Goto, slotVars, lendVars, clocks
  <2>4. CASE TurnAway(r)
    BY <2>4, GiveBackStep DEF TurnAway, GiveBack, At, Goto, slotVars, lendVars, clocks
  <2>5. CASE Claim(r)
    BY <2>5, ClaimStep, SizesAssumption, RequestAssumption
  <2> QED BY <1>1, <2>1, <2>2, <2>3, <2>4, <2>5 DEF Admission
<1>2. ASSUME NEW r \in Req, Reuse(r)
      PROVE  IInv'
  BY <1>2, ReuseIsQuiet, QuietStep DEF IInv
<1>3. ASSUME NEW r \in Req, MapRows(r)
      PROVE  IInv'
  BY <1>3, MapRowsIsQuiet, QuietStep, AbortLaterStep DEF IInv
<1>4. ASSUME NEW r \in Req, Prefill(r)
      PROVE  IInv'
  BY <1>4, PrefillIsQuietOrAway, QuietStep, AwayStep DEF IInv
<1>5. ASSUME NEW r \in Req, HandOver(r)
      PROVE  IInv'
  <2>1. CASE KeepGpu(r)
    <3>1. ~sl[mine[r]].abort
      BY <2>1 DEF KeepGpu, At, IInv, VictimsAside, Holding, Placed, Homeless
    <3>2. Quiet(r)
      BY <2>1, <3>1 DEF KeepGpu, At, Goto, UnlessAborted, Onward, Quiet, Work, IInv, Types,
                        slotVars, lendVars, clocks
    <3> QED BY <3>2, QuietStep
  <2>2. CASE YieldGpu(r)
    BY <2>2, AwayStep DEF YieldGpu, At, Goto, Onward, Away, Work, slotVars, lendVars, clocks
  <2>3. CASE AskAgain(r)
    BY <2>3, AskAgainStep
  <2>4. CASE Regain(r)
    BY <2>4, RegainStep
  <2> QED BY <1>5, <2>1, <2>2, <2>3, <2>4 DEF HandOver
<1>6. ASSUME NEW r \in Req, Decode(r)
      PROVE  IInv'
  BY <1>6, DecodeIsQuietOrAway, QuietStep, AwayStep DEF IInv
<1>7. ASSUME NEW r \in Req, Leaving(r)
      PROVE  IInv'
  <2>1. CASE Catch(r)
    BY <2>1, CatchStep
  <2>2. CASE LeaveSlot(r)
    BY <2>2, LeaveSlotStep, SizesAssumption
  <2>3. CASE ReleaseGpu(r)
    BY <2>3, GiveBackStep DEF ReleaseGpu, GiveBack, At, Goto, slotVars, lendVars, clocks
  <2> QED BY <1>7, <2>1, <2>2, <2>3 DEF Leaving
<1>8. ASSUME UNCHANGED <<pc, ret, mine, gate, sl, seq, lent, light, bound, admitted, uses>>
      PROVE  IInv'
  BY <1>8 DEF IInv, Types, Placed, SlotExclusive, TurnHeld, BoundToOwner, VictimsAside,
              VictimHoldsNothing, OneLent, Lenders, Computing, Holding, Owns
<1>9. ASSUME NEW r \in Req, Cancel(r)
      PROVE  IInv'
  BY <1>9, <1>8 DEF Cancel, threadVars, slotVars, lendVars, clocks
<1>10. ASSUME NEW r \in Req, Disown(r)
      PROVE  IInv'
  BY <1>10, DisownStep
<1>11. CASE UNCHANGED vars
  BY <1>11, <1>8 DEF vars
<1> QED
  BY <1>1, <1>2, <1>3, <1>4, <1>5, <1>6, <1>7, <1>9, <1>10, <1>11
  DEF Next, Worker, AllServed

LEMMA Initially ==
    ASSUME SizesAssumption, Init
    PROVE  IInv
<1> USE DEF Init
<1>1. Types
  <2>1. sl \in [Slot -> SlotRecord]
    BY DEF SlotRecord
  <2>2. pc \in [Req -> Labels] /\ mine \in [Req -> {0} \cup Slot] /\ gate \in Seq(Req)
    BY DEF Labels
  <2>3. /\ ret \in [Req -> {"chunk", "round", "layers", "verify"}]
        /\ DOMAIN seq = Slot /\ light \in Nat /\ admitted \in Nat /\ uses \in Nat
    OBVIOUS
  <2>4. lent \in BOOLEAN
    BY Zenon
  <2> QED BY <2>1, <2>2, <2>3, <2>4 DEF Types
<1>2. Placed /\ TurnHeld /\ BoundToOwner
  BY DEF Placed, TurnHeld, BoundToOwner, Computing, Holding, Homeless, Work
<1>3. SlotExclusive
  BY SlotFacts DEF SlotExclusive, Holding
<1>4. VictimsAside /\ VictimHoldsNothing
  BY DEF VictimsAside, VictimHoldsNothing, Holding
<1>5. OneLent
  BY DEF OneLent, Lenders
<1> QED BY <1>1, <1>2, <1>3, <1>4, <1>5 DEF IInv

(* The places of the workers, the slots, the GPU, the lent workspace and    *)
(* the victims of an overflow agree in every reachable state.               *)
THEOREM SchedInvariant == Spec => []IInv
<1>1. Init => IInv
  BY Initially, SizesAssumption
<1>2. IInv /\ [Next]_vars => IInv'
  BY Inductive, SizesAssumption, RequestAssumption
<1> QED BY <1>1, <1>2, PTL DEF Spec

(* No two requests run on one slot, and busy says exactly who holds one.    *)
THEOREM SlotsAreExclusive == Spec => []SlotExclusive
<1>1. IInv => SlotExclusive
  BY DEF IInv
<1> QED BY SchedInvariant, <1>1, PTL

(* Whoever runs the GpuModel owns the GPU, and runs it on its own slot.     *)
THEOREM OwnerOnOwnSlot == Spec => []BoundToOwner
<1>1. IInv => BoundToOwner
  BY DEF IInv
<1> QED BY SchedInvariant, <1>1, PTL

(* The victim of an overflow maps nothing until its worker has noticed.     *)
THEOREM VictimsStayEmpty == Spec => []VictimHoldsNothing
<1>1. IInv => VictimHoldsNothing
  BY DEF IInv
<1> QED BY SchedInvariant, <1>1, PTL

(* At most one chunk is lent; the light flag counts it and the members      *)
(* point at the small workspace exactly then.                               *)
THEOREM OneLenderOnly == Spec => []OneLender
<1>1. ASSUME IInv PROVE OneLender
  <2>1. CASE lent
    <3>1. PICK r \in Lenders : Lenders = {r}
      BY <1>1, <2>1 DEF IInv, OneLent
    <3>2. Cardinality(Lenders) = 1
      BY <3>1, FS_Singleton
    <3>3. light = 1
      BY <1>1, <2>1 DEF IInv, OneLent
    <3> QED BY <2>1, <3>2, <3>3 DEF OneLender
  <2>2. CASE ~lent
    <3>1. Lenders = {}
      BY <1>1, <2>2 DEF IInv, OneLent
    <3>2. Cardinality(Lenders) = 0
      BY <3>1, FS_EmptySet
    <3>3. light = 0
      BY <1>1, <2>2 DEF IInv, OneLent
    <3> QED BY <2>2, <3>2, <3>3 DEF OneLender
  <2> QED BY <2>1, <2>2
<1> QED BY SchedInvariant, <1>1, PTL

-----------------------------------------------------------------------------
(***************************************************************************)
(* The queues: who waits for admission and who for the GPU, and that a     *)
(* ticket is nowhere else and not twice.  Admission, which pops the front   *)
(* of its queue without looking, pops its own ticket; and serving           *)
(* implements the service it promises (SlotService): first come, first      *)
(* served, one request per slot.                                            *)
(***************************************************************************)

(* Removing an element of a sequence.                                       *)
LEMMA RemovedFacts ==
    ASSUME NEW S, NEW s \in Seq(S), NEW i \in 1 .. Len(s)
    PROVE  /\ RemoveAt(s, i) \in Seq(S)
           /\ Len(RemoveAt(s, i)) = Len(s) - 1
           /\ \A j \in 1 .. Len(s) - 1 :
                RemoveAt(s, i)[j] = IF j < i THEN s[j] ELSE s[j + 1]
<1>1. Len(s) \in Nat /\ \A j \in 1 .. Len(s) : s[j] \in S
  BY ElementOfSeq, LenProperties
<1> DEFINE a == SubSeq(s, 1, i - 1)
<1> DEFINE b == SubSeq(s, i + 1, Len(s))
<1>2. a \in Seq(S) /\ Len(a) = i - 1 /\ \A j \in 1 .. i - 1 : a[j] = s[j]
  BY <1>1, SubSeqProperties
<1>3. b \in Seq(S) /\ Len(b) = Len(s) - i /\ \A j \in 1 .. Len(s) - i : b[j] = s[i + j]
  BY <1>1, SubSeqProperties
<1>4. /\ a \o b \in Seq(S) /\ Len(a \o b) = Len(a) + Len(b)
      /\ \A j \in 1 .. Len(a) + Len(b) : (a \o b)[j] = IF j <= Len(a) THEN a[j] ELSE b[j - Len(a)]
  <2> HIDE DEF a, b
  <2> QED BY <1>2, <1>3, ConcatProperties
<1>5. RemoveAt(s, i) = a \o b
  BY DEF RemoveAt
<1> HIDE DEF a, b
<1>6. Len(a) = i - 1 /\ Len(b) = Len(s) - i /\ i \in Nat /\ i > 0 /\ i <= Len(s) /\ Len(s) \in Nat
  BY <1>1, <1>2, <1>3
<1>7. ASSUME NEW j \in 1 .. Len(s) - 1
      PROVE  (a \o b)[j] = IF j < i THEN s[j] ELSE s[j + 1]
  <2>1. CASE j < i
    BY <2>1, <1>2, <1>4, <1>6
  <2>2. CASE ~ j < i
    <3>1. (a \o b)[j] = b[j - (i - 1)] /\ j - (i - 1) \in 1 .. Len(s) - i
      BY <2>2, <1>4, <1>6
    <3>2. b[j - (i - 1)] = s[i + (j - (i - 1))] /\ i + (j - (i - 1)) = j + 1
      BY <3>1, <1>3, <1>6
    <3> QED BY <3>1, <3>2, <2>2
  <2> QED BY <2>1, <2>2
<1>8. a \o b \in Seq(S) /\ Len(a \o b) = Len(s) - 1
  BY <1>4, <1>6
<1> QED BY <1>5, <1>7, <1>8

LEMMA TailFacts ==
    ASSUME NEW S, NEW s \in Seq(S), s # <<>>
    PROVE  /\ Tail(s) \in Seq(S) /\ Len(s) \in Nat /\ Len(s) > 0
           /\ Head(s) = s[1] /\ Len(Tail(s)) = Len(s) - 1
           /\ \A j \in 1 .. Len(s) - 1 : Tail(s)[j] = s[j + 1]
BY HeadTailProperties, EmptySeq, LenProperties

LEMMA AppendFacts ==
    ASSUME NEW S, NEW s \in Seq(S), NEW x \in S
    PROVE  /\ Append(s, x) \in Seq(S) /\ Len(s) \in Nat
           /\ Len(Append(s, x)) = Len(s) + 1 /\ Append(s, x)[Len(s) + 1] = x
           /\ \A j \in 1 .. Len(s) : Append(s, x)[j] = s[j]
BY AppendProperties, LenProperties

(* A sequence without duplicates, and what it holds.                        *)
Holds(s, x) == \E i \in 1 .. Len(s) : s[i] = x
Once(s) == \A i, j \in 1 .. Len(s) : s[i] = s[j] => i = j

LEMMA AppendOnce ==
    ASSUME NEW S, NEW s \in Seq(S), NEW x \in S, Once(s), ~Holds(s, x)
    PROVE  /\ Once(Append(s, x)) /\ Append(s, x) \in Seq(S)
           /\ \A y : Holds(Append(s, x), y) <=> y = x \/ Holds(s, y)
<1>1. /\ Len(s) \in Nat /\ Len(Append(s, x)) = Len(s) + 1 /\ Append(s, x)[Len(s) + 1] = x
      /\ \A j \in 1 .. Len(s) : Append(s, x)[j] = s[j]
      /\ Append(s, x) \in Seq(S)
  BY AppendFacts
<1>2. \A y : Holds(Append(s, x), y) <=> y = x \/ Holds(s, y)
  BY <1>1 DEF Holds
<1>3. Once(Append(s, x))
  BY <1>1 DEF Once, Holds
<1> QED BY <1>1, <1>2, <1>3

LEMMA RemoveOnce ==
    ASSUME NEW S, NEW s \in Seq(S), NEW i \in 1 .. Len(s), Once(s)
    PROVE  /\ Once(RemoveAt(s, i)) /\ RemoveAt(s, i) \in Seq(S)
           /\ \A y : Holds(RemoveAt(s, i), y) <=> y # s[i] /\ Holds(s, y)
           /\ i # 1 => RemoveAt(s, i) # <<>> /\ Head(RemoveAt(s, i)) = Head(s)
<1> DEFINE t == RemoveAt(s, i)
<1>1. /\ t \in Seq(S) /\ Len(s) \in Nat /\ Len(t) = Len(s) - 1
      /\ \A j \in 1 .. Len(s) - 1 : t[j] = IF j < i THEN s[j] ELSE s[j + 1]
  BY RemovedFacts, LenProperties
<1> HIDE DEF t
<1>2. Once(t)
  BY <1>1 DEF Once
<1>3. ASSUME NEW y PROVE Holds(t, y) <=> y # s[i] /\ Holds(s, y)
  <2>1. ASSUME Holds(t, y) PROVE y # s[i] /\ Holds(s, y)
    BY <1>1, <2>1 DEF Holds, Once
  <2>2. ASSUME y # s[i], Holds(s, y) PROVE Holds(t, y)
    <3>1. PICK k \in 1 .. Len(s) : s[k] = y
      BY <2>2 DEF Holds
    <3>2. CASE k < i
      BY <3>1, <3>2, <1>1 DEF Holds
    <3>3. CASE k > i
      <4>1. k - 1 \in 1 .. Len(t) /\ t[k - 1] = y
        BY <3>1, <3>3, <1>1
      <4> QED BY <4>1 DEF Holds
    <3> QED BY <3>1, <3>2, <3>3, <2>2, <1>1
  <2> QED BY <2>1, <2>2
<1>4. ASSUME i # 1 PROVE t # <<>> /\ Head(t) = Head(s)
  <2>1. s # <<>> /\ Len(t) > 0
    BY <1>1, <1>4
  <2>2. t # <<>>
    BY <2>1
  <2> QED BY <1>1, <1>4, <2>1, <2>2, TailFacts
<1> USE DEF t
<1>5. i # 1 => t # <<>> /\ Head(t) = Head(s)
  BY <1>4
<1> QED BY <1>1, <1>2, <1>3, <1>5

LEMMA TailOnce ==
    ASSUME NEW S, NEW s \in Seq(S), s # <<>>, Once(s)
    PROVE  /\ Once(Tail(s)) /\ Tail(s) \in Seq(S)
           /\ \A y : Holds(Tail(s), y) <=> y # Head(s) /\ Holds(s, y)
           /\ Tail(s) = RemoveAt(s, 1) /\ 1 \in 1 .. Len(s) /\ s[1] = Head(s)
<1>1. /\ Tail(s) \in Seq(S) /\ Len(s) \in Nat /\ Len(s) > 0 /\ Head(s) = s[1]
      /\ Len(Tail(s)) = Len(s) - 1 /\ \A j \in 1 .. Len(s) - 1 : Tail(s)[j] = s[j + 1]
  BY TailFacts
<1>4. 1 \in 1 .. Len(s)
  BY <1>1
<1>2. RemoveAt(s, 1) \in Seq(S) /\ Len(RemoveAt(s, 1)) = Len(s) - 1
      /\ \A j \in 1 .. Len(s) - 1 : RemoveAt(s, 1)[j] = s[j + 1]
  <2>1. /\ RemoveAt(s, 1) \in Seq(S) /\ Len(RemoveAt(s, 1)) = Len(s) - 1
        /\ \A j \in 1 .. Len(s) - 1 : RemoveAt(s, 1)[j] = IF j < 1 THEN s[j] ELSE s[j + 1]
    BY <1>4, RemovedFacts, Zenon
  <2>2. \A j \in 1 .. Len(s) - 1 : ~(j < 1)
    OBVIOUS
  <2> QED BY <2>1, <2>2, Zenon
<1>3. Tail(s) = RemoveAt(s, 1)
  <2>1. \A j \in 1 .. Len(Tail(s)) : Tail(s)[j] = RemoveAt(s, 1)[j]
    BY <1>1, <1>2
  <2> QED BY <1>1, <1>2, <2>1, SeqEqual
<1>5. /\ Once(RemoveAt(s, 1))
      /\ \A y : Holds(RemoveAt(s, 1), y) <=> y # s[1] /\ Holds(s, y)
  BY <1>4, RemoveOnce
<1> QED BY <1>1, <1>3, <1>4, <1>5
-----------------------------------------------------------------------------
(* One step moves one worker.                                               *)
OthersStay(r) ==
    \A q \in Req \ {r} : pc'[q] = pc[q] /\ ret'[q] = ret[q] /\ mine'[q] = mine[q]

LEMMA WorkerAlone ==
    ASSUME Types, NEW r \in Req, Worker(r)
    PROVE  OthersStay(r)
<1> USE DEF OthersStay, Types, Goto, At, threadVars
<1>1. CASE Admission(r)
  BY <1>1 DEF Admission, Arrive, LeaveQueue, TryTurn, TurnAway, Claim
<1>2. CASE Reuse(r)
  BY <1>2 DEF Reuse, Continue, RestoreRam, RestoreSsd, Fresh, Refuse, Begin
<1>3. CASE MapRows(r)
  BY <1>3 DEF MapRows, CopyOnWrite, MapPage, EvictCheckpoint, DropIdle, AbortLater, Overflow,
              SnapRead
<1>4. CASE Prefill(r)
  BY <1>4 DEF Prefill, Skip, StartChunk, EnterLayers, Lend, EndChunk
<1>5. CASE HandOver(r)
  BY <1>5 DEF HandOver, KeepGpu, YieldGpu, AskAgain, Regain
<1>6. CASE Decode(r)
  BY <1>6 DEF Decode, StopDecode, StartRound, SkipRound, Verify, EndRound
<1>7. CASE Leaving(r)
  BY <1>7 DEF Leaving, Catch, LeaveSlot, ReleaseGpu
<1> QED BY <1>1, <1>2, <1>3, <1>4, <1>5, <1>6, <1>7 DEF Worker

-----------------------------------------------------------------------------
(* Who is in the queue for the GPU.                                         *)
AtGate(r) == pc[r] \in Work \cup {"admit", "back", "release"}

(* A worker waits for admission, or pops its ticket next, exactly when its  *)
(* ticket is in the queue, once.                                            *)
WaitTrue ==
    /\ wait \in Seq(Req) /\ Once(wait)
    /\ \A r \in Req : Holds(wait, r) <=> pc[r] \in {"queued", "admit"}

(* Who asked for the GPU is the front of the queue, and a slot is left.     *)
FrontWaits ==
    \A r \in Req : pc[r] = "admit" => wait # <<>> /\ Head(wait) = r /\ Idle # {}

GateTrue == Once(gate) /\ \A r \in Req : Holds(gate, r) => AtGate(r)

(* An idle slot has nothing reserved.                                       *)
NoneReserved == \A s \in Slot : ~sl[s].busy => sl[s].reserved = 0

QInv == WaitTrue /\ FrontWaits /\ GateTrue /\ NoneReserved

(* The GPU queue is left alone, joined, or left by its owner.               *)
LEMMA GateStep ==
    ASSUME Types, GateTrue, NEW r \in Req, OthersStay(r),
           \/ gate' = gate /\ (AtGate(r) => AtGate(r)')
           \/ gate' = Append(gate, r) /\ ~AtGate(r) /\ AtGate(r)'
           \/ gate' = Tail(gate) /\ Owns(r)
    PROVE  GateTrue'
<1>1. gate \in Seq(Req) /\ Once(gate) /\ \A q \in Req : Holds(gate, q) => AtGate(q)
  BY DEF Types, GateTrue
<1>2. \A q \in Req \ {r} : AtGate(q) => AtGate(q)'
  BY DEF OthersStay, AtGate
<1>3. CASE gate' = gate /\ (AtGate(r) => AtGate(r)')
  BY <1>1, <1>2, <1>3 DEF GateTrue, Once, Holds
<1>4. CASE gate' = Append(gate, r) /\ ~AtGate(r) /\ AtGate(r)'
  <2>1. /\ Once(Append(gate, r))
        /\ \A y : Holds(Append(gate, r), y) <=> y = r \/ Holds(gate, y)
    BY <1>1, <1>4, AppendOnce
  <2> QED BY <2>1, <1>1, <1>2, <1>4 DEF GateTrue, Once, Holds
<1>5. CASE gate' = Tail(gate) /\ Owns(r)
  <2>1. /\ Once(Tail(gate))
        /\ \A y : Holds(Tail(gate), y) <=> y # r /\ Holds(gate, y)
    BY <1>1, <1>5, TailOnce DEF Owns
  <2> QED BY <2>1, <1>1, <1>2, <1>5 DEF GateTrue, Once, Holds
<1> QED BY <1>3, <1>4, <1>5

LEMMA GateInductive ==
    ASSUME Types, TurnHeld, GateTrue, NEW r \in Req, Worker(r)
    PROVE  GateTrue'
<1>1. OthersStay(r)
  BY WorkerAlone
<1>2. \/ gate' = gate /\ (AtGate(r) => AtGate(r)')
      \/ gate' = Append(gate, r) /\ ~AtGate(r) /\ AtGate(r)'
      \/ gate' = Tail(gate) /\ Owns(r)
  <2> USE DEF AtGate, Types, Goto, At, Work
  <2>1. CASE Admission(r)
    BY <2>1 DEF Admission, Arrive, LeaveQueue, TryTurn, TurnAway, Claim
  <2>2. CASE Reuse(r)
    BY <2>2 DEF Reuse, Continue, RestoreRam, RestoreSsd, Fresh, Refuse, Begin
  <2>3. CASE MapRows(r)
    BY <2>3 DEF MapRows, CopyOnWrite, MapPage, EvictCheckpoint, DropIdle, AbortLater, Overflow,
                SnapRead, threadVars
  <2>4. CASE Prefill(r)
    BY <2>4 DEF Prefill, Skip, StartChunk, EnterLayers, Lend, EndChunk
  <2>5. CASE HandOver(r)
    BY <2>5 DEF HandOver, KeepGpu, YieldGpu, AskAgain, Regain, UnlessAborted, Onward
  <2>6. CASE Decode(r)
    BY <2>6 DEF Decode, StopDecode, StartRound, SkipRound, Verify, EndRound
  <2>7. CASE Leaving(r)
    BY <2>7 DEF Leaving, Catch, LeaveSlot, ReleaseGpu
  <2> QED BY <2>1, <2>2, <2>3, <2>4, <2>5, <2>6, <2>7 DEF Worker
<1> QED BY <1>1, <1>2, GateStep

(* Every step after admission leaves the admission queue alone, and the     *)
(* slots idle that were.                                                    *)
Serving(r) == Reuse(r) \/ MapRows(r) \/ Prefill(r) \/ HandOver(r) \/ Decode(r) \/ Leaving(r)

LEMMA ServingStaysOut ==
    ASSUME Types, NoneReserved, NEW r \in Req, Serving(r)
    PROVE  /\ wait' = wait
           /\ pc[r] \notin {"queued", "admit"} /\ pc'[r] \notin {"queued", "admit"}
           /\ \A s \in Slot : ~sl[s].busy => ~sl'[s].busy
           /\ NoneReserved'
<1> USE DEF Types, Goto, At, Reusing, Mapping
<1>1. wait' = wait /\ pc[r] \notin {"queued", "admit"} /\ pc'[r] \notin {"queued", "admit"}
  <2>2. CASE Reuse(r)
    BY <2>2 DEF Reuse, Continue, RestoreRam, RestoreSsd, Fresh, Refuse, Begin
  <2>3. CASE MapRows(r)
    BY <2>3 DEF MapRows, CopyOnWrite, MapPage, EvictCheckpoint, DropIdle, AbortLater, Overflow,
                SnapRead, threadVars, Dry, Starving, Backed
  <2>4. CASE Prefill(r)
    BY <2>4 DEF Prefill, Skip, StartChunk, EnterLayers, Lend, EndChunk, Backed
  <2>5. CASE HandOver(r)
    BY <2>5 DEF HandOver, KeepGpu, YieldGpu, AskAgain, Regain, UnlessAborted, Onward
  <2>6. CASE Decode(r)
    BY <2>6 DEF Decode, StopDecode, StartRound, SkipRound, Verify, EndRound, Backed
  <2>7. CASE Leaving(r)
    BY <2>7 DEF Leaving, Catch, LeaveSlot, ReleaseGpu
  <2> QED BY <2>2, <2>3, <2>4, <2>5, <2>6, <2>7 DEF Serving
<1>2. \A s \in Slot : (~sl[s].busy => ~sl'[s].busy) /\ (~sl'[s].busy => sl'[s].reserved = 0)
  <2>1. CASE sl' = sl
    BY <2>1 DEF NoneReserved
  <2>2. CASE AbortLater(r)
    <3>1. PICK v \in Slot : sl' = [sl EXCEPT ![v].abort = TRUE]
      BY <2>2 DEF AbortLater, Later
    <3>2. \A s \in Slot : sl'[s].busy = sl[s].busy /\ sl'[s].reserved = sl[s].reserved
      BY <3>1 DEF SlotRecord
    <3> QED BY <3>2 DEF NoneReserved
  <2>3. CASE LeaveSlot(r)
    <3>1. ASSUME NEW s \in Slot
          PROVE  sl'[s] = sl[s] \/ (~sl'[s].busy /\ sl'[s].reserved = 0)
      BY <2>3 DEF LeaveSlot, SlotRecord
    <3> QED BY <3>1 DEF NoneReserved
  <2>4. CASE Serving(r) /\ ~AbortLater(r) /\ ~LeaveSlot(r)
    <3>1. sl' = sl
      BY <2>4 DEF Serving, Reuse, Continue, RestoreRam, RestoreSsd, Fresh, Refuse, Begin,
          MapRows, CopyOnWrite, MapPage, EvictCheckpoint, DropIdle, Overflow, SnapRead,
          Prefill, Skip, StartChunk, EnterLayers, Lend, EndChunk,
          HandOver, KeepGpu, YieldGpu, AskAgain, Regain,
          Decode, StopDecode, StartRound, SkipRound, Verify, EndRound,
          Leaving, Catch, ReleaseGpu, slotVars
    <3> QED BY <3>1, <2>1
  <2> QED BY <2>1, <2>2, <2>3, <2>4
<1> QED BY <1>1, <1>2 DEF NoneReserved

LEMMA CandidatesIdle == \A r \in Req : Candidates(r) \subseteq Idle
BY DEF Candidates, LeastUsed, Idle

(* The admission queue and its front.                                       *)
LEMMA WaitInductive ==
    ASSUME Types, QInv, NEW r \in Req, Worker(r)
    PROVE  WaitTrue' /\ FrontWaits' /\ NoneReserved'
<1>0. /\ OthersStay(r) /\ pc \in [Req -> Labels]
      /\ wait \in Seq(Req) /\ Once(wait)
      /\ \A q \in Req : Holds(wait, q) <=> pc[q] \in {"queued", "admit"}
  BY WorkerAlone DEF Types, QInv, WaitTrue
<1>1. CASE Serving(r)
  <2>1. /\ wait' = wait
        /\ pc[r] \notin {"queued", "admit"} /\ pc'[r] \notin {"queued", "admit"}
        /\ \A s \in Slot : ~sl[s].busy => ~sl'[s].busy
        /\ NoneReserved'
    BY <1>1, ServingStaysOut DEF QInv
  <2>2. \A q \in Req : pc'[q] \in {"queued", "admit"} => q # r /\ pc'[q] = pc[q]
    BY <2>1, <1>0 DEF OthersStay
  <2>3. WaitTrue'
    <3>1. \A q \in Req : pc[q] \in {"queued", "admit"} <=> pc'[q] \in {"queued", "admit"}
      BY <2>1, <1>0 DEF OthersStay
    <3> QED BY <2>1, <3>1, <1>0 DEF WaitTrue, Once, Holds
  <2>4. FrontWaits'
    BY <2>1, <2>2 DEF QInv, FrontWaits, Idle
  <2> QED BY <2>1, <2>3, <2>4
<1>2. CASE Arrive(r)
  <2>1. /\ pc[r] = "new" /\ pc'[r] = "queued" /\ wait' = Append(wait, r) /\ sl' = sl
    BY <1>2 DEF Arrive, Goto, Types, slotVars
  <2>2. ~Holds(wait, r)
    BY <2>1, <1>0
  <2>3. /\ Once(Append(wait, r)) /\ Append(wait, r) \in Seq(Req)
        /\ \A y : Holds(Append(wait, r), y) <=> y = r \/ Holds(wait, y)
    BY <2>2, <1>0, AppendOnce
  <2>4. WaitTrue'
    BY <2>1, <2>3, <1>0 DEF WaitTrue, OthersStay, Once, Holds
  <2>5. wait # <<>> => Head(Append(wait, r)) = Head(wait) /\ Append(wait, r) # <<>>
    BY <1>0, GateFacts
  <2>6. FrontWaits'
    BY <2>1, <2>5, <1>0 DEF QInv, FrontWaits, OthersStay, Idle
  <2> QED BY <2>1, <2>4, <2>6 DEF QInv, NoneReserved
<1>3. CASE LeaveQueue(r)
  <2>1. /\ pc[r] = "queued" /\ pc'[r] = "ended" /\ sl' = sl
    BY <1>3 DEF LeaveQueue, Goto, Types, slotVars
  <2>2. PICK i \in 1 .. Len(wait) : wait[i] = r /\ wait' = RemoveAt(wait, i)
    BY <1>3, <1>0, LenProperties DEF LeaveQueue
  <2>3. /\ Once(wait') /\ wait' \in Seq(Req)
        /\ \A y : Holds(RemoveAt(wait, i), y) <=> y # r /\ Holds(wait, y)
        /\ i # 1 => wait' # <<>> /\ Head(wait') = Head(wait)
    BY <2>2, <1>0, RemoveOnce
  <2>4. WaitTrue'
    <3>1. \A q \in Req : pc'[q] \in {"queued", "admit"}
                            <=> q # r /\ pc[q] \in {"queued", "admit"}
      BY <2>1, <1>0 DEF OthersStay
    <3>2. \A q \in Req : Holds(wait', q) <=> q # r /\ Holds(wait, q)
      BY <2>2, <2>3
    <3> QED BY <3>1, <3>2, <2>3, <1>0 DEF WaitTrue
  <2>5. ASSUME NEW q \in Req, pc'[q] = "admit"
        PROVE  wait' # <<>> /\ Head(wait') = q /\ Idle' # {}
    <3>1. q # r /\ pc[q] = "admit" /\ wait # <<>> /\ Head(wait) = q /\ Idle # {}
      BY <2>1, <2>5, <1>0 DEF OthersStay, QInv, FrontWaits
    <3>2. i # 1
      BY <2>2, <3>1, <1>0, TailFacts
    <3> QED BY <2>1, <2>3, <3>1, <3>2 DEF Idle
  <2> QED BY <2>1, <2>4, <2>5 DEF QInv, NoneReserved, FrontWaits
<1>4. CASE TryTurn(r)
  <2>1. /\ pc[r] = "queued" /\ pc'[r] = "admit" /\ sl' = sl /\ wait' = wait
        /\ Head(wait) = r /\ Candidates(r) # {}
    BY <1>4 DEF TryTurn, Goto, Types, slotVars
  <2>2. wait # <<>> /\ Idle # {}
    <3>1. Holds(wait, r)
      BY <2>1, <1>0
    <3> QED BY <2>1, <3>1, CandidatesIdle DEF Holds
  <2>3. WaitTrue'
    BY <2>1, <1>0 DEF WaitTrue, OthersStay, Once, Holds
  <2>4. FrontWaits'
    BY <2>1, <2>2, <1>0 DEF QInv, FrontWaits, OthersStay, Idle
  <2> QED BY <2>1, <2>3, <2>4 DEF QInv, NoneReserved
<1>5. CASE TurnAway(r) \/ Claim(r)
  <2>1. /\ pc[r] = "admit" /\ pc'[r] \in {"ended", "reuse"} /\ wait' = Tail(wait)
    BY <1>5 DEF TurnAway, Claim, At, Goto, Types
  <2>2. wait # <<>> /\ Head(wait) = r
    BY <2>1 DEF QInv, FrontWaits
  <2>3. /\ Once(Tail(wait)) /\ Tail(wait) \in Seq(Req)
        /\ \A y : Holds(Tail(wait), y) <=> y # r /\ Holds(wait, y)
    BY <2>2, <1>0, TailOnce
  <2>4. WaitTrue'
    <3>1. \A q \in Req : pc'[q] \in {"queued", "admit"}
                            <=> q # r /\ pc[q] \in {"queued", "admit"}
      BY <2>1, <1>0 DEF OthersStay
    <3>2. \A q \in Req : Holds(wait', q) <=> q # r /\ Holds(wait, q)
      BY <2>1, <2>3
    <3> QED BY <3>1, <3>2, <2>1, <2>3, <1>0 DEF WaitTrue
  <2>5. \A q \in Req : pc'[q] # "admit"
    BY <2>1, <2>2, <1>0 DEF OthersStay, QInv, FrontWaits
  <2>6. NoneReserved'
    <3>1. CASE TurnAway(r)
      BY <3>1 DEF TurnAway, slotVars, QInv, NoneReserved
    <3>2. CASE Claim(r)
      <4>1. PICK s \in Slot :
              sl' = [sl EXCEPT ![s] =
                    [busy |-> TRUE, abort |-> FALSE, seq |-> admitted + 1,
                     lastUse |-> sl[s].lastUse, owner |-> {r}, reserved |-> Target(r)]]
        BY <3>2, CandidatesIdle DEF Claim, Idle
      <4>2. sl'[s].busy /\ \A u \in Slot \ {s} : sl'[u] = sl[u]
        BY <4>1 DEF Types
      <4> QED BY <4>2 DEF QInv, NoneReserved
    <3> QED BY <1>5, <3>1, <3>2
  <2> QED BY <2>4, <2>5, <2>6 DEF FrontWaits
<1> QED BY <1>1, <1>2, <1>3, <1>4, <1>5 DEF Worker, Admission, Serving

LEMMA QueuesInductive ==
    ASSUME IInv, QInv, [Next]_vars
    PROVE  QInv'
<1>1. ASSUME NEW r \in Req, Worker(r) PROVE QInv'
  BY <1>1, GateInductive, WaitInductive DEF IInv, QInv
<1>2. ASSUME UNCHANGED <<pc, gate, wait>>,
             \A s \in Slot : sl'[s].busy = sl[s].busy /\ sl'[s].reserved = sl[s].reserved
      PROVE  QInv'
  BY <1>2 DEF QInv, WaitTrue, FrontWaits, GateTrue, NoneReserved, AtGate, Idle, Once, Holds
<1>3. ASSUME NEW r \in Req, Cancel(r) PROVE QInv'
  BY <1>2, <1>3 DEF Cancel, threadVars, slotVars
<1>4. ASSUME NEW r \in Req, Disown(r) PROVE QInv'
  <2>1. sl' = [s \in Slot |-> IF sl[s].owner = {r} THEN [sl[s] EXCEPT !.owner = {}] ELSE sl[s]]
    BY <1>4 DEF Disown
  <2>2. \A s \in Slot : sl'[s].busy = sl[s].busy /\ sl'[s].reserved = sl[s].reserved
    BY <2>1 DEF IInv, Types, SlotRecord
  <2> QED BY <1>2, <1>4, <2>2 DEF Disown, threadVars
<1>5. CASE UNCHANGED vars
  BY <1>2, <1>5 DEF vars
<1> QED BY <1>1, <1>3, <1>4, <1>5 DEF Next, AllServed

LEMMA QueuesInitially ==
    ASSUME Init
    PROVE  QInv
<1> USE DEF Init
<1>1. wait = <<>> /\ gate = <<>> /\ Len(<<>>) = 0 /\ wait \in Seq(Req)
  BY EmptySeq
<1>2. WaitTrue /\ GateTrue
  BY <1>1 DEF WaitTrue, GateTrue, Once, Holds
<1>3. FrontWaits /\ NoneReserved
  BY DEF FrontWaits, NoneReserved
<1> QED BY <1>2, <1>3 DEF QInv

(* Both queues hold exactly the workers that wait, once each, and whoever   *)
(* asked for the GPU to be admitted is the front of the admission queue.    *)
THEOREM QueueInvariant == Spec => []QInv
<1>1. Init => QInv
  BY QueuesInitially
<1>2. IInv /\ QInv /\ [Next]_vars => QInv'
  BY QueuesInductive
<1> QED BY SchedInvariant, <1>1, <1>2, PTL DEF Spec
-----------------------------------------------------------------------------
(* Serving as SlotService sees it.                                          *)

(* A serving step leaves the running requests alone, or ends one.           *)
LEMMA ServingRuns ==
    ASSUME IInv, NEW r \in Req, Serving(r), ~LeaveSlot(r)
    PROVE  Running' = Running
<1>1. mine' = mine
  BY DEF Serving, Reuse, Continue, RestoreRam, RestoreSsd, Fresh, Refuse, Begin,
         MapRows, CopyOnWrite, MapPage, EvictCheckpoint, DropIdle, AbortLater, Overflow, SnapRead,
         Prefill, Skip, StartChunk, EnterLayers, Lend, EndChunk,
         HandOver, KeepGpu, YieldGpu, AskAgain, Regain,
         Decode, StopDecode, StartRound, SkipRound, Verify, EndRound,
         Leaving, Catch, ReleaseGpu, threadVars
<1> QED BY <1>1 DEF Running

LEMMA ServiceStep ==
    ASSUME IInv, QInv, [Next]_vars
    PROVE  [Service!Next]_<<wait, Running>>
<1> USE DEF Service!Next
<1>1. ASSUME NEW r \in Req, Serving(r) PROVE Service!Next \/ UNCHANGED <<wait, Running>>
  <2>1. wait' = wait
    BY <1>1, ServingStaysOut DEF IInv, QInv
  <2>2. CASE LeaveSlot(r)
    <3>1. mine[r] \in Slot /\ mine' = [mine EXCEPT ![r] = 0]
      BY <2>2 DEF LeaveSlot, At, IInv, Placed, Homeless, Types
    <3>2. Running[mine[r]] = {r}
      BY <3>1, SlotFacts, SizesAssumption DEF Running, IInv, SlotExclusive, Holding
    <3>3. Running' = [Running EXCEPT ![mine[r]] = {}]
      <4>1. ASSUME NEW s \in Slot
            PROVE  Running'[s] = IF s = mine[r] THEN {} ELSE Running[s]
        <5>1. \A q \in Req : mine'[q] = s <=> (mine[q] = s /\ q # r)
          BY <3>1, SlotFacts, SizesAssumption DEF IInv, Types
        <5>2. Running'[s] = {q \in Req : mine[q] = s} \ {r}
          BY <5>1 DEF Running
        <5>3. Running[s] = {q \in Req : mine[q] = s}
          BY DEF Running
        <5>4. CASE s = mine[r]
          BY <3>2, <5>2, <5>3, <5>4
        <5>5. CASE s # mine[r]
          BY <5>2, <5>3, <5>5
        <5> QED BY <5>4, <5>5
      <4> QED BY <4>1 DEF Running
    <3>4. Service!Stop(r, mine[r])
      BY <2>1, <3>2, <3>3 DEF Service!Stop
    <3> QED BY <3>1, <3>4
  <2>3. CASE ~LeaveSlot(r)
    BY <1>1, <2>1, <2>3, ServingRuns
  <2> QED BY <2>2, <2>3
<1>2. ASSUME NEW r \in Req, Arrive(r) PROVE Service!Next
  <2>1. pc[r] = "new" /\ wait' = Append(wait, r) /\ mine' = mine
    BY <1>2 DEF Arrive
  <2>2. ~Service!Waits(r)
    BY <2>1, LenProperties DEF Service!Waits, QInv, WaitTrue, Holds
  <2>3. ~Service!Runs(r)
    <3>1. mine[r] = 0
      BY <2>1 DEF IInv, Placed, Homeless
    <3> QED BY <3>1, SlotFacts, SizesAssumption DEF Service!Runs, Running
  <2>4. Service!Come(r)
    BY <2>1, <2>2, <2>3 DEF Service!Come, Running
  <2> QED BY <2>4
<1>3. ASSUME NEW r \in Req, LeaveQueue(r) PROVE Service!Next
  <2>1. Service!Abandon(r)
    BY <1>3 DEF LeaveQueue, Service!Abandon, Running, RemoveAt, Service!RemoveAt
  <2> QED BY <2>1
<1>4. ASSUME NEW r \in Req, TryTurn(r) PROVE UNCHANGED <<wait, Running>>
  BY <1>4 DEF TryTurn, Running
<1>5. ASSUME NEW r \in Req, At(r, "admit"), wait' = Tail(wait)
      PROVE  /\ wait # <<>> /\ r = Head(wait)
             /\ \E i \in DOMAIN wait : wait[i] = r /\ wait' = RemoveAt(wait, i)
  <2>1. wait # <<>> /\ Head(wait) = r /\ wait \in Seq(Req) /\ Once(wait)
    BY <1>5 DEF At, QInv, FrontWaits, WaitTrue
  <2>2. Tail(wait) = RemoveAt(wait, 1) /\ 1 \in 1 .. Len(wait) /\ wait[1] = Head(wait)
    BY <2>1, TailOnce
  <2> QED BY <2>1, <2>2, <1>5, LenProperties
<1>6. ASSUME NEW r \in Req, TurnAway(r) PROVE Service!Next
  <2>1. Service!Abandon(r)
    BY <1>5, <1>6 DEF TurnAway, Service!Abandon, Running, RemoveAt, Service!RemoveAt
  <2> QED BY <2>1
<1>7. ASSUME NEW r \in Req, Claim(r) PROVE Service!Next
  <2>1. PICK s \in Slot : ~sl[s].busy /\ mine' = [mine EXCEPT ![r] = s]
    BY <1>7, CandidatesIdle DEF Claim, Idle
  <2>2. mine[r] = 0 /\ \A q \in Req : mine[q] # s
    BY <1>7, <2>1 DEF Claim, At, IInv, Placed, Homeless, SlotExclusive
  <2>3. Running[s] = {}
    BY <2>2 DEF Running
  <2>4. Running' = [Running EXCEPT ![s] = {r}]
    <3>1. ASSUME NEW u \in Slot
          PROVE  Running'[u] = IF u = s THEN {r} ELSE Running[u]
      <4>1. \A q \in Req : mine'[q] = u <=> IF u = s THEN q = r ELSE mine[q] = u
        BY <2>1, <2>2, SlotFacts, SizesAssumption DEF IInv, Types
      <4> QED BY <4>1 DEF Running
    <3> QED BY <3>1 DEF Running
  <2>5. wait # <<>> /\ r = Head(wait) /\ wait' = Tail(wait)
    BY <1>5, <1>7 DEF Claim
  <2>6. Service!Start(r, s)
    BY <2>3, <2>4, <2>5 DEF Service!Start
  <2> QED BY <2>6
<1>8. ASSUME NEW r \in Req, Cancel(r) \/ Disown(r) PROVE UNCHANGED <<wait, Running>>
  BY <1>8 DEF Cancel, Disown, threadVars, Running
<1>9. CASE UNCHANGED vars
  BY <1>9 DEF vars, Running
<1> QED
  BY <1>1, <1>2, <1>3, <1>4, <1>6, <1>7, <1>8, <1>9
  DEF Next, Worker, Admission, Serving, AllServed

(* Serving implements SlotService: requests are taken in the order they     *)
(* came, one per slot, and each leaves once, from the queue or its slot.    *)
THEOREM Refinement == Spec => ImplementsService
<1>1. Init => Service!Init
  <2>1. ASSUME Init PROVE Running = [s \in Slot |-> {}]
    BY <2>1, SlotFacts, SizesAssumption DEF Init, Running
  <2> QED BY <2>1 DEF Init, Service!Init
<1>2. IInv /\ QInv /\ [Next]_vars => [Service!Next]_<<wait, Running>>
  BY ServiceStep
<1> QED BY SchedInvariant, QueueInvariant, <1>1, <1>2, PTL DEF Spec, ImplementsService, Service!Spec

------------------------------------------------------------------------------
(* The third part: what serving keeps of every sequence.  Every position a *)
(* sequence ingested is backed by a mapped page, every checkpoint holds    *)
(* exactly the pages of its tokens, and what an idle slot calls its tokens *)
(* is what its state ingested.  SInv goes on from IInv: it says at each    *)
(* place of a worker which rows its job may name and how far they are      *)
(* backed.                                                                 *)

-----------------------------------------------------------------------------
(* Pages.                                                                   *)

LEMMA DivFacts ==
    ASSUME NEW a \in Nat, NEW p \in Nat \ {0}
    PROVE  a \div p \in Nat /\ p * (a \div p) <= a /\ a < p * (a \div p) + p
OBVIOUS

LEMMA ProductMonotone ==
    ASSUME NEW a \in Nat, NEW b \in Nat, NEW p \in Nat, a <= b
    PROVE  p * a <= p * b
OBVIOUS

(* More rows never need fewer pages.                                        *)
LEMMA PagesMonotone ==
    ASSUME NEW a \in Nat, NEW b \in Nat, NEW p \in Nat \ {0}, a <= b
    PROVE  PagesFor(a, p) \in Nat /\ PagesFor(a, p) <= PagesFor(b, p)
<1> DEFINE x == PagesFor(a, p)
<1> DEFINE y == PagesFor(b, p)
<1>1. x \in Nat /\ y \in Nat /\ p * x <= a + p - 1 /\ b + p - 1 < p * y + p
  BY DivFacts DEF PagesFor
<1>2. p * x < p * (y + 1)
  <2> HIDE DEF x, y
  <2> QED BY <1>1
<1>3. x < y + 1
  <2> HIDE DEF x, y
  <2>1. CASE x >= y + 1
    BY <2>1, <1>1, <1>2, ProductMonotone
  <2> QED BY <2>1, <1>1
<1> QED BY <1>1, <1>3

LEMMA NoRowsNoPages ==
    ASSUME NEW p \in Nat \ {0}
    PROVE  PagesFor(0, p) = 0
<1>1. (p - 1) \div p \in Nat /\ p * ((p - 1) \div p) <= p - 1
  BY DivFacts
<1>2. CASE (p - 1) \div p >= 1
  BY <1>1, <1>2, ProductMonotone
<1> QED BY <1>1, <1>2 DEF PagesFor

(* A set of naturals has a least element.                                   *)
LEMMA LeastOfNaturals ==
    ASSUME NEW S, S \subseteq Nat, S # {}
    PROVE  \E m \in S : \A n \in S : m <= n
<1>1. PICK m \in S : \A n \in S : ~ (<<n, m>> \in OpToRel(<, Nat))
  BY WFMin, NatLessThanWellFounded, Zenon
<1>2. \A n \in S : ~ (n < m)
  BY <1>1 DEF OpToRel
<1> QED BY <1>2

LEMMA RowPages ==
    /\ \A a, b \in Nat : a <= b => PagesFor(a, Page) <= PagesFor(b, Page)
    /\ \A a \in Nat : PagesFor(a, Page) \in Nat
    /\ PagesFor(0, Page) = 0
BY PagesMonotone, NoRowsNoPages, SizesAssumption DEF SizesAssumption

LEMMA LowestIsFree ==
    ASSUME Free # {}
    PROVE  LowestFree \in Free /\ LowestFree \in Pages
<1>1. Free \subseteq Nat /\ Free \subseteq Pages
  BY DEF Free, Pages
<1>2. \E p \in Free : \A q \in Free : p <= q
  BY <1>1, LeastOfNaturals
<1> QED BY <1>1, <1>2 DEF LowestFree
-----------------------------------------------------------------------------
(* The part of the state IInv does not type.                                *)
JobRecord == [kind : {"fresh", "cont", "snap", "chunk", "round"},
              base : Nat, end : Nat, lends : Nat]
SeqRecord == [hist : TokenRun, pos : Nat, tab : Seq(Pages)]
(* A checkpoint holds exactly the pages of its tokens.                      *)
CkRecord == {c \in [toks : TokenRun, pages : Seq(Pages)] :
                Len(c.pages) = PagesFor(c.toks.len, Page)}

RestTypes ==
    /\ job \in [Req -> JobRecord]
    /\ wait \in Seq(Req) /\ cancel \in SUBSET Req
    /\ seq \in [Slot -> SeqRecord]
    /\ ck \in Seq(CkRecord)
    /\ bound \in Slot
    /\ cutBusy \in BOOLEAN /\ inpass \in SUBSET Req /\ shadow \in SUBSET Req

(* A worker is at a place, or gave the GPU up there.                        *)
GoesTo(r, label) == pc[r] = label \/ (pc[r] \in {"away", "back"} /\ ret[r] = label)

(* The rows a job may name at each place.                                   *)
InPass(r) == pc[r] = "map" \/ GoesTo(r, "layers")
Ingesting(r) == InPass(r) /\ job[r].kind = "chunk"
Verifying(r) == (InPass(r) /\ job[r].kind = "round") \/ GoesTo(r, "verify")
JobFits(r) ==
    /\ pc[r] = "check" => job[r].kind \in {"cont", "fresh"}
    /\ pc[r] = "check" \/ GoesTo(r, "chunk") => job[r].base < Prompt[r]
    /\ pc[r] = "map" =>
        \/ job[r].kind = "snap" /\ job[r].base = 0 /\ job[r].end = Snap[r]
        \/ job[r].kind \in {"chunk", "round"}
    /\ GoesTo(r, "layers") => job[r].kind \in {"chunk", "round"}
    /\ Ingesting(r) => job[r].base < job[r].end /\ job[r].end <= Prompt[r]
    /\ Verifying(r) => /\ job[r].kind = "round"
                       /\ job[r].base < job[r].end /\ job[r].end <= LastRow(r)

(* A chunk or round in its layers has its rows backed, unless it was        *)
(* sacrificed.                                                              *)
ChunkBacked(r) ==
    GoesTo(r, "layers") /\ ~sl[mine[r]].abort =>
        PagesFor(job[r].end, Page) <= Len(seq[mine[r]].tab)

(* The pages of a sequence reach its position, but for a snapshot that is   *)
(* still being mapped.                                                      *)
Arriving(s) == \E r \in Req : mine[r] = s /\ pc[r] \in {"map", "catch"} /\ job[r].kind = "snap"
SeqBacked(s) == Arriving(s) \/ PagesFor(seq[s].pos, Page) <= Len(seq[s].tab)

SInv == /\ RestTypes
        /\ \A r \in Req : JobFits(r) /\ ChunkBacked(r)
        /\ \A s \in Slot : SeqBacked(s)
-----------------------------------------------------------------------------
(* Choices.                                                                 *)

(* Of some naturals one with the smallest key comes first.                  *)
LEMMA LeastKeyed ==
    ASSUME NEW S, S \subseteq Nat, S # {}, NEW f \in [S -> Nat]
    PROVE  \E x \in S : \A y \in S : f[x] < f[y] \/ (f[x] = f[y] /\ x <= y)
<1> DEFINE V == {f[x] : x \in S}
<1>1. PICK m \in V : \A n \in V : m <= n
  <2>1. V \subseteq Nat /\ V # {}
    OBVIOUS
  <2> HIDE DEF V
  <2> QED BY <2>1, LeastOfNaturals
<1> DEFINE T == {x \in S : f[x] = m}
<1>2. PICK x \in T : \A y \in T : x <= y
  <2>1. T \subseteq Nat /\ T # {}
    OBVIOUS
  <2> HIDE DEF T
  <2> QED BY <2>1, LeastOfNaturals
<1>3. \A y \in S : f[y] \in Nat /\ m <= f[y]
  BY <1>1
<1> QED BY <1>1, <1>2, <1>3

LEMMA BestMatches ==
    ASSUME RestTypes, NEW r \in Req, Matching(r) # {}
    PROVE  BestCk(r) \in Matching(r)
<1>1. Matching(r) \subseteq Nat /\ \A i \in Matching(r) : i \in 1 .. Len(ck)
  BY LenProperties DEF RestTypes, Matching
<1> DEFINE f == [i \in Matching(r) |-> Prompt[r] - ck[i].toks.len]
<1>2. \A i \in Matching(r) : ck[i].toks.len \in Nat /\ ck[i].toks.len < Prompt[r]
  BY <1>1, ElementOfSeq DEF RestTypes, Matching, Extends, CkRecord, TokenRun
<1>3. f \in [Matching(r) -> Nat]
  BY <1>2, RequestAssumption DEF RequestAssumption
<1>4. PICK x \in Matching(r) : \A y \in Matching(r) :
        f[x] < f[y] \/ (f[x] = f[y] /\ x <= y)
  <2> HIDE DEF f
  <2> QED BY <1>1, <1>3, LeastKeyed
<1>5. \A y \in Matching(r) : ck[y].toks.len < ck[x].toks.len
                \/ (ck[y].toks.len = ck[x].toks.len /\ x <= y)
  BY <1>2, <1>4, RequestAssumption DEF RequestAssumption
<1> QED BY <1>5 DEF BestCk

(* Appending, saving a checkpoint.                                          *)
LEMMA TouchedTyped ==
    ASSUME NEW S, NEW s \in Seq(S), NEW i \in 1 .. Len(s)
    PROVE  Append(RemoveAt(s, i), s[i]) \in Seq(S)
BY RemovedFacts, ElementOfSeq, AppendProperties

LEMMA TokensTyped ==
    /\ NoTokens \in TokenRun
    /\ \A r \in Req, n \in Nat : Tokens(r, n) \in TokenRun /\ Tokens(r, n).len = n
BY DEF NoTokens, Tokens, TokenRun

LEMMA SavedTyped ==
    ASSUME NEW list \in Seq(CkRecord), NEW toks \in TokenRun, NEW tab \in Seq(Pages),
           PagesFor(toks.len, Page) <= Len(tab)
    PROVE  Saved(list, toks, tab) \in Seq(CkRecord)
<1> DEFINE n == PagesFor(toks.len, Page)
<1> DEFINE entry == [toks |-> toks, pages |-> SubSeq(tab, 1, n)]
<1> DEFINE longer == Append(list, entry)
<1>1. n \in Nat /\ n <= Len(tab) /\ Len(tab) \in Nat
  BY RowPages, LenProperties DEF TokenRun
<1>2. SubSeq(tab, 1, n) \in Seq(Pages) /\ Len(SubSeq(tab, 1, n)) = n
  <2>1. \A i \in 1 .. n : tab[i] \in Pages
    BY <1>1, ElementOfSeq
  <2> HIDE DEF n
  <2> QED BY <1>1, <2>1, SubSeqProperties
<1>3. entry \in CkRecord
  BY <1>2 DEF CkRecord
<1>4. longer \in Seq(CkRecord) /\ longer # <<>>
  <2> HIDE DEF entry
  <2> QED BY <1>3, AppendProperties
<1>5. Tail(longer) \in Seq(CkRecord)
  <2> HIDE DEF longer
  <2> QED BY <1>4, HeadTailProperties
<1> DEFINE same == {i \in DOMAIN list : list[i].toks = toks}
<1>6. CASE same # {}
  <2> DEFINE i == CHOOSE i \in same : TRUE
  <2>1. i \in 1 .. Len(list)
    BY <1>6, LenProperties
  <2>2. Saved(list, toks, tab) = Append(RemoveAt(list, i), list[i])
    BY <1>6 DEF Saved
  <2> HIDE DEF i
  <2> QED BY <2>1, <2>2, TouchedTyped
<1>7. CASE same = {}
  <2>1. Saved(list, toks, tab) = IF Len(longer) > MaxCk THEN Tail(longer) ELSE longer
    BY <1>7 DEF Saved
  <2> HIDE DEF longer
  <2> QED BY <2>1, <1>4, <1>5
<1> QED BY <1>6, <1>7
-----------------------------------------------------------------------------
(* The next chunk is not empty and does not pass the prompt's end.          *)
LEMMA NextRowsFit ==
    ASSUME RestTypes, NEW r \in Req, job[r].base < Prompt[r]
    PROVE  /\ job[r].base \in Nat /\ Prompt[r] \in Nat
           /\ NextRows(r) \in Nat /\ NextRows(r) > 0
           /\ job[r].base + NextRows(r) <= Prompt[r]
<1>1. job[r].base \in Nat /\ Prompt[r] \in Nat /\ Cut[r] \in Nat /\ Cut[r] < Prompt[r]
  BY RequestAssumption DEF RestTypes, JobRecord, RequestAssumption
<1>2. SegEnd(r) \in Nat /\ SegEnd(r) > job[r].base /\ SegEnd(r) <= Prompt[r]
  BY <1>1 DEF SegEnd
<1> QED BY <1>1, <1>2, SizesAssumption DEF SizesAssumption, NextRows, ChunkRows, ChunkSize

LEMMA JobSet ==
    ASSUME RestTypes, NEW r \in Req, NEW k \in {"fresh", "cont", "snap", "chunk", "round"},
           NEW b \in Nat, NEW e \in Nat, SetJob(r, k, b, e)
    PROVE  /\ job' \in [Req -> JobRecord]
           /\ job'[r].kind = k /\ job'[r].base = b /\ job'[r].end = e
<1>1. [kind |-> k, base |-> b, end |-> e, lends |-> 0] \in JobRecord
  BY DEF JobRecord
<1> QED BY <1>1 DEF RestTypes, SetJob

LEMMA JobAlone ==
    ASSUME RestTypes, NEW r \in Req, Worker(r)
    PROVE  \A q \in Req \ {r} : job'[q] = job[q]
<1> USE DEF RestTypes, SetJob, threadVars
<1>1. CASE Admission(r)
  BY <1>1 DEF Admission, Arrive, LeaveQueue, TryTurn, TurnAway, Claim
<1>2. CASE Reuse(r)
  BY <1>2 DEF Reuse, Continue, RestoreRam, RestoreSsd, Fresh, Refuse, Begin
<1>3. CASE MapRows(r)
  BY <1>3 DEF MapRows, CopyOnWrite, MapPage, EvictCheckpoint, DropIdle, AbortLater, Overflow,
              SnapRead
<1>4. CASE Prefill(r)
  BY <1>4 DEF Prefill, Skip, StartChunk, EnterLayers, Lend, EndChunk
<1>5. CASE HandOver(r)
  BY <1>5 DEF HandOver, KeepGpu, YieldGpu, AskAgain, Regain
<1>6. CASE Decode(r)
  BY <1>6 DEF Decode, StopDecode, StartRound, SkipRound, Verify, EndRound
<1>7. CASE Leaving(r)
  BY <1>7 DEF Leaving, Catch, LeaveSlot, ReleaseGpu
<1> QED BY <1>1, <1>2, <1>3, <1>4, <1>5, <1>6, <1>7 DEF Worker

LEMMA JobStep ==
    ASSUME IInv, SInv, NEW r \in Req, Worker(r)
    PROVE  job' \in [Req -> JobRecord] /\ \A q \in Req : JobFits(q)'
<1>1. Types /\ RestTypes /\ JobFits(r) /\ job[r] \in JobRecord /\ mine[r] \in {0} \cup Slot
  BY DEF IInv, SInv, RestTypes, Types
<1>2. OthersStay(r) /\ \A q \in Req \ {r} : job'[q] = job[q]
  BY <1>1, WorkerAlone, JobAlone
<1>3. \A q \in Req \ {r} : JobFits(q)'
  BY <1>2 DEF SInv, JobFits, OthersStay, GoesTo, InPass, Ingesting, Verifying, LastRow
<1>4. SUFFICES job' \in [Req -> JobRecord] /\ JobFits(r)'
  BY <1>3
<1>5. /\ Prompt[r] \in Nat /\ Budget[r] \in Nat /\ Snap[r] \in Nat /\ Snap[r] < Prompt[r]
  BY RequestAssumption DEF RequestAssumption
<1> USE DEF JobFits, GoesTo, InPass, Ingesting, Verifying, LastRow
<1>6. ASSUME job' = job, pc'[r] \in {"new", "queued", "admit", "reuse", "yield", "round", "catch",
                                     "finish", "release", "ended"}
      PROVE  job' \in [Req -> JobRecord] /\ JobFits(r)'
  BY <1>1, <1>6 DEF RestTypes
<1>7. ASSUME job' = job, pc'[r] = pc[r] \/ (pc'[r] = "back" /\ pc[r] = "away"),
             ret' = ret
      PROVE  job' \in [Req -> JobRecord] /\ JobFits(r)'
  BY <1>1, <1>7 DEF RestTypes
<1>8. ASSUME NEW l \in {"chunk", "layers", "round", "verify"},
             job' = job, pc[r] = l, pc'[r] = "away", ret'[r] = l
      PROVE  job' \in [Req -> JobRecord] /\ JobFits(r)'
  BY <1>1, <1>8 DEF RestTypes
<1> USE DEF At, Goto
<1>10. CASE Admission(r)
  <2>1. job' = job /\ pc'[r] \in {"queued", "admit", "reuse", "ended"}
    BY <1>1, <1>10 DEF Admission, Arrive, LeaveQueue, TryTurn, TurnAway, Claim, threadVars, Types
  <2> QED BY <2>1, <1>6
<1>11. CASE Reuse(r)
  <2>0. mine[r] \in Slot
    BY <1>1, <1>11 DEF Reuse, Continue, RestoreRam, RestoreSsd, Fresh, Refuse, Begin, Reusing,
                       IInv, Placed, Homeless
  <2>1. CASE Continue(r)
    <3>1. seq[mine[r]].hist.len \in Nat /\ seq[mine[r]].hist.len < Prompt[r]
      BY <2>0, <2>1, <1>1 DEF Continue, Live, Extends, RestTypes, SeqRecord, TokenRun
    <3>2. SetJob(r, "cont", seq[mine[r]].hist.len, 0) /\ pc'[r] = "check"
      BY <2>1, <1>1 DEF Continue, Types
    <3>3. /\ job' \in [Req -> JobRecord]
          /\ job'[r].kind = "cont" /\ job'[r].base = seq[mine[r]].hist.len
      BY <3>1, <3>2, <1>1, JobSet
    <3> QED BY <3>1, <3>2, <3>3
  <2>2. CASE RestoreRam(r)
    <3> DEFINE i == BestCk(r)
    <3>1. i \in 1 .. Len(ck) /\ Extends(r, ck[i].toks)
      BY <2>2, <1>1, BestMatches, LenProperties DEF RestoreRam, RestTypes, Matching
    <3>2. ck[i].toks.len \in Nat /\ ck[i].toks.len < Prompt[r]
      BY <3>1, <1>1, ElementOfSeq DEF RestTypes, Extends, CkRecord, TokenRun
    <3>3. SetJob(r, "cont", ck[i].toks.len, 0) /\ pc'[r] = "check"
      BY <2>2, <1>1 DEF RestoreRam, Types
    <3>4. /\ job' \in [Req -> JobRecord]
          /\ job'[r].kind = "cont" /\ job'[r].base = ck[i].toks.len
      BY <3>2, <3>3, <1>1, JobSet
    <3> QED BY <3>2, <3>3, <3>4
  <2>3. CASE RestoreSsd(r)
    <3>1. SetJob(r, "snap", 0, Snap[r]) /\ pc'[r] = "map"
      BY <2>3, <1>1 DEF RestoreSsd, Types
    <3> QED BY <3>1, <1>1, <1>5, JobSet
  <2>4. CASE Fresh(r)
    <3>1. SetJob(r, "fresh", 0, 0) /\ pc'[r] = "check"
      BY <2>4, <1>1 DEF Fresh, Types
    <3> QED BY <3>1, <1>1, <1>5, JobSet
  <2>5. CASE Refuse(r)
    BY <2>5, <1>1, <1>6 DEF Refuse, Types
  <2>6. CASE Begin(r)
    BY <2>6, <1>1 DEF Begin, Types, RestTypes
  <2> QED BY <1>11, <2>1, <2>2, <2>3, <2>4, <2>5, <2>6 DEF Reuse
<1>12. CASE MapRows(r)
  <2>1. CASE SnapRead(r)
    <3>1. pc'[r] = "check" /\ (SetJob(r, "cont", Snap[r], 0) \/ SetJob(r, "fresh", 0, 0))
      BY <2>1, <1>1 DEF SnapRead, Types
    <3> QED BY <3>1, <1>1, <1>5, JobSet
  <2>2. CASE Overflow(r)
    BY <2>2, <1>1, <1>6 DEF Overflow, Types
  <2>3. CASE ~SnapRead(r) /\ ~Overflow(r)
    <3>1. job' = job /\ pc' = pc /\ ret' = ret
      BY <1>12, <2>3 DEF MapRows, CopyOnWrite, MapPage, EvictCheckpoint, DropIdle, AbortLater,
                         threadVars
    <3> QED BY <3>1, <1>1 DEF RestTypes
  <2> QED BY <2>1, <2>2, <2>3
<1>13. CASE Prefill(r)
  <2>1. CASE Skip(r)
    BY <2>1, <1>1, <1>8 DEF Skip, Types
  <2>2. CASE StartChunk(r)
    <3>1. pc[r] = "chunk" /\ pc'[r] = "map"
          /\ SetJob(r, "chunk", job[r].base, job[r].base + NextRows(r))
      BY <2>2, <1>1 DEF StartChunk, Types
    <3>2. NextRows(r) \in Nat /\ NextRows(r) > 0 /\ job[r].base + NextRows(r) <= Prompt[r]
          /\ job[r].base \in Nat
      BY <3>1, <1>1, NextRowsFit
    <3> QED BY <3>1, <3>2, <1>1, JobSet
  <2>3. CASE EnterLayers(r)
    BY <2>3, <1>1 DEF EnterLayers, Backed, Mapping, Types, RestTypes
  <2>4. CASE Lend(r)
    <3>1. /\ pc[r] = "layers" /\ pc'[r] = "away" /\ ret'[r] = "layers"
          /\ job' = [job EXCEPT ![r].lends = @ + 1]
      BY <2>4, <1>1 DEF Lend, Types
    <3>2. job' \in [Req -> JobRecord] /\ job'[r].kind = job[r].kind
          /\ job'[r].base = job[r].base /\ job'[r].end = job[r].end
      <4> DEFINE more == [job[r] EXCEPT !.lends = @ + 1]
      <4>1. /\ more \in JobRecord /\ more.kind = job[r].kind
            /\ more.base = job[r].base /\ more.end = job[r].end
        BY <1>1 DEF JobRecord
      <4>2. job' = [job EXCEPT ![r] = more]
        BY <3>1
      <4> HIDE DEF more
      <4> QED BY <4>1, <4>2, <1>1 DEF RestTypes
    <3>3. /\ job[r].kind \in {"chunk", "round"} /\ job[r].base < job[r].end
          /\ job[r].kind = "chunk" => job[r].end <= Prompt[r]
          /\ job[r].kind = "round" => job[r].end <= LastRow(r)
      BY <3>1, <1>1
    <3>4. JobFits(r)'
      BY <3>1, <3>2, <3>3
    <3> QED BY <3>2, <3>4
  <2>5. CASE EndChunk(r)
    <3>1. pc'[r] \in {"round", "yield"} /\ job' = [job EXCEPT ![r].base = job[r].end]
      BY <2>5, <1>1 DEF EndChunk, Types
    <3>2. job' \in [Req -> JobRecord]
      BY <3>1, <1>1 DEF RestTypes, JobRecord
    <3> QED BY <3>1, <3>2
  <2> QED BY <1>13, <2>1, <2>2, <2>3, <2>4, <2>5 DEF Prefill
<1>14. CASE HandOver(r)
  <2>0. job' = job /\ job \in [Req -> JobRecord]
    BY <1>14, <1>1 DEF HandOver, KeepGpu, YieldGpu, AskAgain, Regain, RestTypes
  <2>1. CASE KeepGpu(r)
    <3>1. pc'[r] \in {"catch", Onward(r)}
      BY <2>1, <1>1 DEF KeepGpu, UnlessAborted, Types
    <3> QED BY <2>0, <3>1 DEF Onward
  <2>2. CASE YieldGpu(r)
    <3>1. pc'[r] = "away" /\ ret'[r] = Onward(r)
      BY <2>2, <1>1 DEF YieldGpu, Types
    <3> QED BY <2>0, <3>1 DEF Onward
  <2>3. CASE AskAgain(r)
    BY <2>3, <1>1, <1>7 DEF AskAgain, Types
  <2>4. CASE Regain(r)
    <3>1. pc[r] = "back" /\ (pc'[r] = "catch" \/ pc'[r] = ret[r])
      BY <2>4, <1>1 DEF Regain, UnlessAborted, Types
    <3>2. ret[r] \in {"chunk", "round", "layers", "verify"}
      BY <1>1 DEF Types
    <3> QED BY <2>0, <3>1, <3>2, <1>1
  <2> QED BY <1>14, <2>1, <2>2, <2>3, <2>4 DEF HandOver
<1>15. CASE Decode(r)
  <2>1. CASE StopDecode(r)
    BY <2>1, <1>1, <1>6 DEF StopDecode, Types
  <2>2. CASE StartRound(r)
    <3> DEFINE pos == seq[mine[r]].pos
    <3>0. mine[r] \in Slot /\ pos \in Nat
      BY <2>2, <1>1 DEF StartRound, IInv, Placed, Homeless, RestTypes, SeqRecord
    <3>1. PICK rows \in 1 .. Smaller(1 + Draft, LastRow(r) - pos) :
            SetJob(r, "round", pos, pos + rows)
      BY <2>2 DEF StartRound
    <3>2. rows \in Nat /\ rows > 0 /\ pos + rows <= LastRow(r)
      <4> HIDE DEF pos
      <4> QED BY <3>0, <3>1, <1>5, SizesAssumption DEF SizesAssumption, Smaller
    <3>4. pc'[r] = "verify"
      BY <2>2, <1>1 DEF StartRound, Types
    <3> HIDE DEF pos
    <3>3. /\ job' \in [Req -> JobRecord] /\ job'[r].kind = "round"
          /\ job'[r].base = pos /\ job'[r].end = pos + rows
      BY <3>0, <3>1, <3>2, <1>1, JobSet
    <3> QED BY <3>0, <3>2, <3>3, <3>4
  <2>3. CASE SkipRound(r)
    BY <2>3, <1>1, <1>8 DEF SkipRound, Types
  <2>4. CASE Verify(r)
    BY <2>4, <1>1 DEF Verify, Types, RestTypes
  <2>5. CASE EndRound(r)
    BY <2>5, <1>1, <1>6 DEF EndRound, Types
  <2> QED BY <1>15, <2>1, <2>2, <2>3, <2>4, <2>5 DEF Decode
<1>16. CASE Leaving(r)
  BY <1>16, <1>1, <1>6 DEF Leaving, Catch, LeaveSlot, ReleaseGpu, Types
<1> QED BY <1>10, <1>11, <1>12, <1>13, <1>14, <1>15, <1>16 DEF Worker
-----------------------------------------------------------------------------
(* Sequences.  A worker that maps rows for a snapshot is not backed yet.    *)
Snapping(r) == pc[r] \in {"map", "catch"} /\ job[r].kind = "snap"

Alone(r) == OthersStay(r) /\ \A q \in Req \ {r} : job'[q] = job[q]

(* No sequence is written: who holds what may change.                       *)
LEMMA SeqKept ==
    ASSUME IInv, SInv, NEW r \in Req, Alone(r), seq' = seq,
           \A q \in Req \ {r} : mine[q] # 0 => sl'[mine[q]].abort = sl[mine[q]].abort,
           Snapping(r) => Snapping(r)' /\ mine'[r] = mine[r],
           ChunkBacked(r)'
    PROVE  /\ seq' \in [Slot -> SeqRecord]
           /\ \A q \in Req : ChunkBacked(q)'
           /\ \A s \in Slot : SeqBacked(s)'
<1>1. ASSUME NEW q \in Req \ {r} PROVE ChunkBacked(q)'
  <2>1. ChunkBacked(q) /\ GoesTo(q, "layers")' = GoesTo(q, "layers")
        /\ job'[q] = job[q] /\ mine'[q] = mine[q]
    BY DEF SInv, Alone, OthersStay, GoesTo
  <2>2. GoesTo(q, "layers") => mine[q] # 0
    BY DEF GoesTo, IInv, Placed, Homeless
  <2> QED BY <2>1, <2>2 DEF ChunkBacked
<1>2. ASSUME NEW s \in Slot PROVE SeqBacked(s)'
  <2>1. CASE Arriving(s)
    <3>1. PICK q \in Req : mine[q] = s /\ Snapping(q)
      BY <2>1 DEF Arriving, Snapping
    <3>2. mine'[q] = s /\ Snapping(q)'
      BY <3>1 DEF Snapping, Alone, OthersStay
    <3> QED BY <3>2 DEF Snapping, SeqBacked, Arriving
  <2>2. CASE PagesFor(seq[s].pos, Page) <= Len(seq[s].tab)
    BY <2>2 DEF SeqBacked
  <2> QED BY <2>1, <2>2 DEF SInv, SeqBacked
<1> QED BY <1>1, <1>2 DEF SInv, RestTypes

(* A worker writes the sequence of its own slot.                            *)
LEMMA SeqWritten ==
    ASSUME IInv, SInv, NEW r \in Req, Alone(r), NEW x \in SeqRecord,
           mine[r] \in Slot, seq' = [seq EXCEPT ![mine[r]] = x],
           sl' = sl, mine' = mine, ~GoesTo(r, "layers")',
           Snapping(r)' \/ PagesFor(x.pos, Page) <= Len(x.tab)
    PROVE  /\ seq' \in [Slot -> SeqRecord]
           /\ \A q \in Req : ChunkBacked(q)'
           /\ \A s \in Slot : SeqBacked(s)'
<1>1. /\ seq' \in [Slot -> SeqRecord] /\ seq'[mine[r]] = x
      /\ \A s \in Slot \ {mine[r]} : seq'[s] = seq[s]
  BY DEF SInv, RestTypes
<1>2. \A q \in Req \ {r} : mine[q] # 0 => mine[q] # mine[r] /\ mine[q] \in Slot
  BY DEF IInv, SlotExclusive, Holding, Types
<1>3. ASSUME NEW q \in Req \ {r} PROVE ChunkBacked(q)'
  <2>1. ChunkBacked(q) /\ GoesTo(q, "layers")' = GoesTo(q, "layers")
        /\ job'[q] = job[q] /\ mine'[q] = mine[q]
    BY DEF SInv, Alone, OthersStay, GoesTo
  <2>2. GoesTo(q, "layers") => mine[q] # 0
    BY DEF GoesTo, IInv, Placed, Homeless
  <2> QED BY <1>1, <1>2, <2>1, <2>2 DEF ChunkBacked
<1>4. ASSUME NEW s \in Slot \ {mine[r]} PROVE SeqBacked(s)'
  <2>1. CASE Arriving(s)
    <3>1. PICK q \in Req : mine[q] = s /\ Snapping(q)
      BY <2>1 DEF Arriving, Snapping
    <3>2. mine'[q] = s /\ Snapping(q)'
      BY <3>1, <1>4 DEF Snapping, Alone, OthersStay
    <3> QED BY <3>2 DEF Snapping, SeqBacked, Arriving
  <2>2. CASE PagesFor(seq[s].pos, Page) <= Len(seq[s].tab)
    BY <2>2, <1>1, <1>4 DEF SeqBacked
  <2> QED BY <2>1, <2>2, <1>4 DEF SInv, SeqBacked
<1>5. SeqBacked(mine[r])'
  BY <1>1 DEF SeqBacked, Arriving, Snapping
<1>6. ChunkBacked(r)'
  BY DEF ChunkBacked
<1> QED BY <1>1, <1>3, <1>4, <1>5, <1>6

(* The pages of a slot are dropped, and whoever runs on it is told.         *)
LEMMA SeqTaken ==
    ASSUME IInv, SInv, NEW v \in Slot, NEW x \in SeqRecord, x.pos = 0,
           seq' = [seq EXCEPT ![v] = x],
           UNCHANGED <<pc, ret, job, mine>>,
           \A q \in Req : mine[q] = v => sl'[v].abort,
           \A s \in Slot \ {v} : sl'[s] = sl[s]
    PROVE  /\ seq' \in [Slot -> SeqRecord]
           /\ \A q \in Req : ChunkBacked(q)'
           /\ \A s \in Slot : SeqBacked(s)'
<1>1. /\ seq' \in [Slot -> SeqRecord] /\ seq'[v] = x
      /\ \A s \in Slot \ {v} : seq'[s] = seq[s]
  BY DEF SInv, RestTypes
<1>2. PagesFor(x.pos, Page) <= Len(x.tab)
  BY RowPages, LenProperties DEF SeqRecord
<1>3. ASSUME NEW q \in Req PROVE ChunkBacked(q)'
  <2>1. ChunkBacked(q) /\ GoesTo(q, "layers")' = GoesTo(q, "layers")
    BY DEF SInv, GoesTo
  <2>2. GoesTo(q, "layers") => mine[q] \in Slot
    BY DEF GoesTo, IInv, Placed, Homeless, Types
  <2> QED BY <1>1, <2>1, <2>2 DEF ChunkBacked
<1>4. ASSUME NEW s \in Slot PROVE SeqBacked(s)'
  BY <1>1, <1>2 DEF SInv, SeqBacked, Arriving
<1> QED BY <1>1, <1>3, <1>4

(* Writing fields of a sequence.                                            *)
Sequence(h, p, t) == [hist |-> h, pos |-> p, tab |-> t]

LEMMA RecordWrites ==
    ASSUME NEW x \in SeqRecord
    PROVE  /\ x = Sequence(x.hist, x.pos, x.tab)
           /\ \A t : [x EXCEPT !.tab = t] = Sequence(x.hist, x.pos, t)
           /\ \A h : [x EXCEPT !.hist = h] = Sequence(h, x.pos, x.tab)
<1> USE DEF Sequence
<1>1. DOMAIN x = {"hist", "pos", "tab"} /\ x = [f \in {"hist", "pos", "tab"} |-> x[f]]
  BY DEF SeqRecord
<1>2. x = Sequence(x.hist, x.pos, x.tab)
  BY DEF SeqRecord
<1>3. ASSUME NEW t PROVE [x EXCEPT !.tab = t] = Sequence(x.hist, x.pos, t)
  BY <1>1
<1>4. ASSUME NEW h PROVE [x EXCEPT !.hist = h] = Sequence(h, x.pos, x.tab)
  BY <1>1
<1> QED BY <1>2, <1>3, <1>4

LEMMA SequenceTyped ==
    ASSUME RestTypes, NEW s \in Slot
    PROVE  /\ seq[s] \in SeqRecord
           /\ seq[s].hist \in TokenRun /\ seq[s].pos \in Nat
           /\ seq[s].tab \in Seq(Pages) /\ Len(seq[s].tab) \in Nat
           /\ seq = [seq EXCEPT ![s] = Sequence(seq[s].hist, seq[s].pos, seq[s].tab)]
<1> DEFINE x == seq[s]
<1>1. x \in SeqRecord /\ seq \in [Slot -> SeqRecord]
  BY DEF RestTypes
<1> HIDE DEF x
<1>2. x.hist \in TokenRun /\ x.pos \in Nat /\ x.tab \in Seq(Pages) /\ Len(x.tab) \in Nat
  BY <1>1, LenProperties DEF SeqRecord
<1>3. x = Sequence(x.hist, x.pos, x.tab)
  BY <1>1, RecordWrites
<1> QED BY <1>1, <1>2, <1>3 DEF x

(* A step that writes fields of a sequence.                                 *)
LEMMA TabWritten ==
    ASSUME RestTypes, NEW s \in Slot, NEW t, seq' = [seq EXCEPT ![s].tab = t]
    PROVE  seq' = [seq EXCEPT ![s] = Sequence(seq[s].hist, seq[s].pos, t)]
<1>1. [seq[s] EXCEPT !.tab = t] = Sequence(seq[s].hist, seq[s].pos, t)
  BY SequenceTyped, RecordWrites
<1> QED BY <1>1

LEMMA HistWritten ==
    ASSUME RestTypes, NEW s \in Slot, NEW h, seq' = [seq EXCEPT ![s].hist = h]
    PROVE  seq' = [seq EXCEPT ![s] = Sequence(h, seq[s].pos, seq[s].tab)]
<1>1. [seq[s] EXCEPT !.hist = h] = Sequence(h, seq[s].pos, seq[s].tab)
  BY SequenceTyped, RecordWrites
<1> QED BY <1>1

LEMMA TokensWritten ==
    ASSUME RestTypes, NEW s \in Slot, NEW h, NEW p,
           \/ seq' = [seq EXCEPT ![s].hist = h, ![s].pos = p]
           \/ seq' = [seq EXCEPT ![s].pos = p, ![s].hist = h]
    PROVE  seq' = [seq EXCEPT ![s] = Sequence(h, p, seq[s].tab)]
<1> DEFINE x == seq[s]
<1>1. x \in SeqRecord /\ seq \in [Slot -> SeqRecord]
  BY DEF RestTypes
<1> HIDE DEF x
<1>2. DOMAIN x = {"hist", "pos", "tab"} /\ x = [f \in {"hist", "pos", "tab"} |-> x[f]]
  BY <1>1 DEF SeqRecord
<1>3. [x EXCEPT !.hist = h, !.pos = p] = Sequence(h, p, x.tab)
  <2> DEFINE y == [x EXCEPT !.hist = h]
  <2>1. y = [hist |-> h, pos |-> x.pos, tab |-> x.tab]
    BY <1>2
  <2>2. [x EXCEPT !.hist = h, !.pos = p] = [y EXCEPT !.pos = p]
    OBVIOUS
  <2> HIDE DEF y
  <2>3. [y EXCEPT !.pos = p] = Sequence(h, p, x.tab)
    BY <2>1 DEF Sequence
  <2> QED BY <2>2, <2>3
<1>4. [x EXCEPT !.pos = p, !.hist = h] = Sequence(h, p, x.tab)
  <2> DEFINE y == [x EXCEPT !.pos = p]
  <2>1. y = [hist |-> x.hist, pos |-> p, tab |-> x.tab]
    BY <1>2
  <2>2. [x EXCEPT !.pos = p, !.hist = h] = [y EXCEPT !.hist = h]
    OBVIOUS
  <2> HIDE DEF y
  <2>3. [y EXCEPT !.hist = h] = Sequence(h, p, x.tab)
    BY <2>1 DEF Sequence
  <2> QED BY <2>2, <2>3
<1> USE DEF x
<1>5. [seq EXCEPT ![s].hist = h, ![s].pos = p] = [seq EXCEPT ![s] = [x EXCEPT !.hist = h, !.pos = p]]
  BY <1>1
<1>6. [seq EXCEPT ![s].pos = p, ![s].hist = h] = [seq EXCEPT ![s] = [x EXCEPT !.pos = p, !.hist = h]]
  BY <1>1
<1> QED BY <1>3, <1>4, <1>5, <1>6

(* The page that is unshared first is one of the table's.                   *)
LEMMA SharedChosen ==
    ASSUME RestTypes, NEW r \in Req, mine[r] \in Slot, Shared(r) # {}
    PROVE  LET i == CHOOSE i \in Shared(r) : \A j \in Shared(r) : i <= j
           IN  i \in Shared(r) /\ i \in 1 .. Len(seq[mine[r]].tab)
<1>1. Shared(r) \subseteq 1 .. Len(seq[mine[r]].tab) /\ seq[mine[r]].tab \in Seq(Pages)
  BY LenProperties DEF RestTypes, SeqRecord, Shared
<1>2. Shared(r) \subseteq Nat
  BY <1>1
<1>3. \E i \in Shared(r) : \A j \in Shared(r) : i <= j
  BY <1>2, LeastOfNaturals
<1> QED BY <1>1, <1>3

(* A mapping step never shortens the table of the slot.                     *)
LEMMA TableMapped ==
    ASSUME RestTypes, NEW r \in Req, mine[r] \in Slot, CopyOnWrite(r) \/ MapPage(r)
    PROVE  \E t \in Seq(Pages) :
              /\ Len(t) >= Len(seq[mine[r]].tab)
              /\ seq' = [seq EXCEPT ![mine[r]] = Sequence(seq[mine[r]].hist, seq[mine[r]].pos, t)]
<1> DEFINE old == seq[mine[r]]
<1>1. old.tab \in Seq(Pages) /\ Len(old.tab) \in Nat /\ LowestFree \in Pages
  BY SequenceTyped, LowestIsFree DEF CopyOnWrite, MapPage
<1>2. CASE CopyOnWrite(r)
  <2> DEFINE i == CHOOSE i \in Shared(r) : \A j \in Shared(r) : i <= j
  <2> DEFINE t == [old.tab EXCEPT ![i] = LowestFree]
  <2>1. i \in 1 .. Len(old.tab)
    BY <1>2, SharedChosen DEF CopyOnWrite
  <2>2. seq' = [seq EXCEPT ![mine[r]].tab[i] = LowestFree]
    BY <1>2 DEF CopyOnWrite
  <2> HIDE DEF i
  <2>3. t \in Seq(Pages) /\ Len(t) = Len(old.tab)
    <3> HIDE DEF old
    <3> QED BY <1>1, <2>1, ExceptSeq
  <2>4. seq' = [seq EXCEPT ![mine[r]] = Sequence(old.hist, old.pos, t)]
    <3>1. seq' = [seq EXCEPT ![mine[r]].tab = t]
      BY <2>2
    <3> HIDE DEF t
    <3> QED BY <3>1, TabWritten
  <2> HIDE DEF t, old
  <2>5. Len(t) >= Len(old.tab)
    BY <1>1, <2>3
  <2> USE DEF old
  <2> QED BY <2>3, <2>4, <2>5, Zenon
<1>3. CASE MapPage(r)
  <2> DEFINE t == Append(old.tab, LowestFree)
  <2>2. seq' = [seq EXCEPT ![mine[r]].tab = t]
    BY <1>3 DEF MapPage
  <2>3. seq' = [seq EXCEPT ![mine[r]] = Sequence(old.hist, old.pos, t)]
    BY <2>2, TabWritten
  <2> HIDE DEF old
  <2>4. t \in Seq(Pages) /\ Len(t) = Len(old.tab) + 1
    BY <1>1, AppendProperties
  <2> HIDE DEF t
  <2>5. Len(t) >= Len(old.tab)
    BY <1>1, <2>4
  <2> USE DEF old
  <2> QED BY <2>3, <2>4, <2>5, Zenon
<1> QED BY <1>2, <1>3

Writes(r, h, p, t) ==
    /\ mine[r] \in Slot
    /\ seq' = [seq EXCEPT ![mine[r]] = Sequence(h, p, t)]
    /\ sl' = sl /\ mine' = mine /\ ~GoesTo(r, "layers")'
    /\ Snapping(r)' \/ PagesFor(p, Page) <= Len(t)

(* Every way a worker writes the sequence of its slot.                      *)
LEMMA WritesOwn ==
    ASSUME IInv, SInv, NEW r \in Req,
           \/ RestoreRam(r) \/ RestoreSsd(r) \/ Fresh(r) \/ Begin(r)
           \/ CopyOnWrite(r) \/ MapPage(r) \/ SnapRead(r)
           \/ EndChunk(r) \/ StopDecode(r) \/ EndRound(r) \/ Catch(r)
    PROVE  \E h \in TokenRun, p \in Nat, t \in Seq(Pages) : Writes(r, h, p, t)
<1> USE DEF At, Goto, Writes
<1>1. /\ Types /\ RestTypes /\ pc \in [Req -> Labels] /\ pc[r] \notin Homeless
      /\ mine[r] \in Slot
  BY DEF IInv, SInv, Types, Placed, Homeless, RestoreRam, RestoreSsd, Fresh, Begin, Reusing,
         CopyOnWrite, MapPage, SnapRead, Backed, Mapping, EndChunk, StopDecode, EndRound, Catch
<1> DEFINE old == seq[mine[r]]
<1>2. old.hist \in TokenRun /\ old.pos \in Nat /\ old.tab \in Seq(Pages) /\ Len(old.tab) \in Nat
  BY <1>1, SequenceTyped
<1>3. ~Snapping(r) => PagesFor(old.pos, Page) <= Len(old.tab)
  <2>1. \A q \in Req : mine[q] = mine[r] => q = r
    BY <1>1, SlotFacts, SizesAssumption DEF IInv, SlotExclusive, Holding
  <2> QED BY <2>1, <1>1 DEF SInv, SeqBacked, Arriving, Snapping
<1>4. <<>> \in Seq(Pages) /\ PagesFor(0, Page) <= Len(<<>>)
  BY EmptySeq, RowPages
<1>5. NoTokens \in TokenRun /\ Dropped = Sequence(NoTokens, 0, <<>>)
  BY TokensTyped DEF Dropped, Sequence
<1>10. CASE RestoreRam(r)
  <2> DEFINE i == BestCk(r)
  <2>1. i \in 1 .. Len(ck) /\ ck \in Seq(CkRecord)
    BY <1>1, <1>10, BestMatches, LenProperties DEF RestoreRam, RestTypes, Matching
  <2>2. ck[i] \in CkRecord
    <3> HIDE DEF i
    <3> QED BY <2>1, ElementOfSeq
  <2>3. /\ ck[i].toks \in TokenRun /\ ck[i].toks.len \in Nat /\ ck[i].pages \in Seq(Pages)
        /\ Len(ck[i].pages) = PagesFor(ck[i].toks.len, Page)
    <3> HIDE DEF i
    <3> QED BY <2>2 DEF CkRecord, TokenRun
  <2>4. seq' = [seq EXCEPT ![mine[r]] = Sequence(ck[i].toks, ck[i].toks.len, ck[i].pages)]
    BY <1>10 DEF RestoreRam, Sequence
  <2>5. sl' = sl /\ mine' = mine /\ pc'[r] = "check"
    BY <1>1, <1>10 DEF RestoreRam
  <2>6. PagesFor(ck[i].toks.len, Page) <= Len(ck[i].pages)
    <3>1. PagesFor(ck[i].toks.len, Page) \in Nat
      BY <2>3, RowPages
    <3> HIDE DEF i
    <3> QED BY <2>3, <3>1
  <2>7. Writes(r, ck[i].toks, ck[i].toks.len, ck[i].pages)
    BY <1>1, <2>4, <2>5, <2>6 DEF GoesTo
  <2> QED BY <2>3, <2>7
<1>11. CASE RestoreSsd(r)
  <2>1. seq' = [seq EXCEPT ![mine[r]] = Sequence(old.hist, old.pos, <<>>)]
    <3>1. seq' = [seq EXCEPT ![mine[r]].tab = <<>>]
      BY <1>11 DEF RestoreSsd
    <3> QED BY <3>1, <1>1, TabWritten
  <2>2. sl' = sl /\ mine' = mine /\ pc'[r] = "map" /\ job'[r].kind = "snap"
    BY <1>1, <1>11 DEF RestoreSsd, SetJob, RestTypes
  <2>3. Writes(r, old.hist, old.pos, <<>>)
    BY <1>1, <2>1, <2>2 DEF GoesTo, Snapping
  <2> QED BY <1>2, <1>4, <2>3
<1>12. CASE Fresh(r)
  <2>1. seq' = [seq EXCEPT ![mine[r]] = Sequence(old.hist, 0, <<>>)]
    BY <1>1, <1>12 DEF Fresh, Reset, Sequence
  <2>2. sl' = sl /\ mine' = mine /\ pc'[r] = "check"
    BY <1>1, <1>12 DEF Fresh
  <2>3. Writes(r, old.hist, 0, <<>>)
    BY <1>1, <1>4, <2>1, <2>2 DEF GoesTo
  <2> QED BY <1>2, <1>4, <2>3
<1>13. CASE Begin(r)
  <2>1. ~Snapping(r) /\ sl' = sl /\ mine' = mine /\ pc'[r] = "chunk"
    BY <1>1, <1>13 DEF Begin, Snapping, SInv, JobFits
  <2>2. CASE job[r].kind = "fresh"
    <3>1. seq' = [seq EXCEPT ![mine[r]].hist = NoTokens]
      BY <2>2, <1>13 DEF Begin
    <3>2. seq' = [seq EXCEPT ![mine[r]] = Sequence(NoTokens, old.pos, old.tab)]
      BY <3>1, <1>1, HistWritten
    <3>3. Writes(r, NoTokens, old.pos, old.tab)
      BY <1>1, <1>3, <2>1, <3>2 DEF GoesTo
    <3> QED BY <1>2, <1>5, <3>3
  <2>3. CASE job[r].kind # "fresh"
    <3>1. seq' = [seq EXCEPT ![mine[r]] = Sequence(old.hist, old.pos, old.tab)]
      BY <2>3, <1>13, <1>1, SequenceTyped DEF Begin
    <3>2. Writes(r, old.hist, old.pos, old.tab)
      BY <1>1, <1>3, <2>1, <3>1 DEF GoesTo
    <3> QED BY <1>2, <3>2
  <2> QED BY <2>2, <2>3
<1>14. CASE CopyOnWrite(r) \/ MapPage(r)
  <2>1. PICK t \in Seq(Pages) :
              /\ Len(t) >= Len(old.tab)
              /\ seq' = [seq EXCEPT ![mine[r]] = Sequence(old.hist, old.pos, t)]
    BY <1>1, <1>14, TableMapped
  <2>2. sl' = sl /\ mine' = mine /\ pc' = pc /\ job' = job /\ pc[r] = "map"
    BY <1>14 DEF CopyOnWrite, MapPage, Mapping, threadVars
  <2>4. Len(t) \in Nat /\ PagesFor(old.pos, Page) \in Nat
    BY <1>2, LenProperties, RowPages
  <2>5. Snapping(r)' \/ PagesFor(old.pos, Page) <= Len(t)
    BY <1>2, <1>3, <2>1, <2>2, <2>4 DEF Snapping
  <2>6. Writes(r, old.hist, old.pos, t)
    BY <1>1, <2>1, <2>2, <2>5 DEF GoesTo
  <2> QED BY <1>2, <2>6
<1>15. CASE SnapRead(r)
  <2>1. sl' = sl /\ mine' = mine /\ pc'[r] = "check"
    BY <1>1, <1>15 DEF SnapRead
  <2>2. job[r].end = Snap[r] /\ ~Short(r) /\ Snap[r] \in Nat
    BY <1>1, <1>15, RequestAssumption DEF RequestAssumption, SnapRead, Backed, Mapping, SInv, JobFits
  <2>3. PagesFor(Snap[r], Page) <= Len(old.tab)
    <3>1. PagesFor(Snap[r], Page) \in Nat /\ Len(old.tab) \in Nat
      BY <2>2, <1>2, RowPages
    <3> QED BY <2>2, <3>1 DEF Short
  <2>4. CASE seq' = [seq EXCEPT ![mine[r]].hist = Tokens(r, Snap[r]), ![mine[r]].pos = Snap[r]]
    <3>1. seq' = [seq EXCEPT ![mine[r]] = Sequence(Tokens(r, Snap[r]), Snap[r], old.tab)]
      BY <2>4, <1>1, TokensWritten
    <3>2. Writes(r, Tokens(r, Snap[r]), Snap[r], old.tab)
      BY <1>1, <2>1, <2>3, <3>1 DEF GoesTo
    <3> QED BY <1>2, <2>2, <3>2, TokensTyped
  <2>5. CASE seq' = [seq EXCEPT ![mine[r]] = Dropped]
    <3>1. Writes(r, NoTokens, 0, <<>>)
      BY <1>1, <1>4, <1>5, <2>1, <2>5 DEF GoesTo
    <3> QED BY <3>1, <1>4, <1>5
  <2> QED BY <1>15, <2>4, <2>5 DEF SnapRead
<1>16. CASE EndChunk(r)
  <2>1. sl' = sl /\ mine' = mine /\ pc'[r] \in {"round", "yield"} /\ pc[r] = "layers"
    BY <1>1, <1>16 DEF EndChunk
  <2>2. ~sl[mine[r]].abort
    BY <1>1, <2>1, SlotFacts, SizesAssumption DEF IInv, VictimsAside, Holding
  <2>3. PagesFor(job[r].end, Page) <= Len(old.tab)
    BY <2>1, <2>2 DEF SInv, ChunkBacked, GoesTo
  <2>4. job[r].end \in Nat
    BY <1>1 DEF RestTypes, JobRecord
  <2>5. PICK h : /\ h = old.hist \/ h = Tokens(r, job[r].end)
                 /\ seq' = [seq EXCEPT ![mine[r]].pos = job[r].end, ![mine[r]].hist = h]
    BY <1>16 DEF EndChunk
  <2>6. h \in TokenRun
    BY <1>2, <2>4, <2>5, TokensTyped
  <2>7. seq' = [seq EXCEPT ![mine[r]] = Sequence(h, job[r].end, old.tab)]
    BY <2>5, <1>1, TokensWritten
  <2>8. Writes(r, h, job[r].end, old.tab)
    BY <1>1, <2>1, <2>3, <2>7 DEF GoesTo
  <2> QED BY <1>2, <2>4, <2>6, <2>8
<1>17. CASE StopDecode(r)
  <2>1. ~Snapping(r) /\ sl' = sl /\ mine' = mine /\ pc'[r] = "finish"
    BY <1>1, <1>17 DEF StopDecode, Snapping
  <2>2. seq' = [seq EXCEPT ![mine[r]] = Sequence(Tokens(r, old.pos), old.pos, old.tab)]
    <3>1. seq' = [seq EXCEPT ![mine[r]].hist = Tokens(r, old.pos)]
      BY <1>17 DEF StopDecode
    <3> QED BY <3>1, <1>1, HistWritten
  <2>3. Writes(r, Tokens(r, old.pos), old.pos, old.tab)
    BY <1>1, <1>3, <2>1, <2>2 DEF GoesTo
  <2> QED BY <1>2, <2>3, TokensTyped
<1>18. CASE EndRound(r)
  <2>1. sl' = sl /\ mine' = mine /\ pc'[r] \in {"finish", "yield"} /\ pc[r] = "layers"
    BY <1>1, <1>18 DEF EndRound
  <2>9. ~sl[mine[r]].abort
    BY <1>1, <2>1, SlotFacts, SizesAssumption DEF IInv, VictimsAside, Holding
  <2>0. PICK pos \in (job[r].base + 1) .. job[r].end :
          \E h : /\ h = old.hist \/ h = Tokens(r, pos)
                /\ seq' = [seq EXCEPT ![mine[r]].pos = pos, ![mine[r]].hist = h]
    BY <1>18 DEF EndRound
  <2>2. PICK h : /\ h = old.hist \/ h = Tokens(r, pos)
                 /\ seq' = [seq EXCEPT ![mine[r]].pos = pos, ![mine[r]].hist = h]
    BY <2>0
  <2>3. job[r].base \in Nat /\ job[r].end \in Nat /\ pos \in Nat /\ pos <= job[r].end
    BY <1>1, <2>2 DEF RestTypes, JobRecord
  <2>4. PagesFor(pos, Page) <= Len(old.tab)
    <3>1. /\ PagesFor(job[r].end, Page) \in Nat /\ PagesFor(pos, Page) \in Nat
          /\ PagesFor(pos, Page) <= PagesFor(job[r].end, Page) /\ Len(old.tab) \in Nat
      BY <2>3, <1>2, RowPages
    <3>2. PagesFor(job[r].end, Page) <= Len(old.tab)
      BY <2>1, <2>9 DEF SInv, ChunkBacked, GoesTo
    <3> QED BY <3>1, <3>2
  <2>5. h \in TokenRun
    BY <1>2, <2>2, <2>3, TokensTyped
  <2>6. seq' = [seq EXCEPT ![mine[r]] = Sequence(h, pos, old.tab)]
    BY <2>2, <1>1, TokensWritten
  <2>7. Writes(r, h, pos, old.tab)
    BY <1>1, <2>1, <2>4, <2>6 DEF GoesTo
  <2> QED BY <1>2, <2>3, <2>5, <2>7
<1>19. CASE Catch(r)
  <2>1. seq' = [seq EXCEPT ![mine[r]] = Dropped] /\ sl' = sl /\ mine' = mine /\ pc'[r] = "finish"
    BY <1>1, <1>19 DEF Catch
  <2>2. Writes(r, NoTokens, 0, <<>>)
    BY <1>1, <1>4, <1>5, <2>1 DEF GoesTo
  <2> QED BY <2>2, <1>4, <1>5
<1> QED BY <1>10, <1>11, <1>12, <1>13, <1>14, <1>15, <1>16, <1>17, <1>18, <1>19

LEMMA SequencesStep ==
    ASSUME IInv, SInv, NEW r \in Req, Worker(r)
    PROVE  /\ seq' \in [Slot -> SeqRecord]
           /\ \A q \in Req : ChunkBacked(q)'
           /\ \A s \in Slot : SeqBacked(s)'
<1> DEFINE Goal == /\ seq' \in [Slot -> SeqRecord]
                   /\ \A q \in Req : ChunkBacked(q)'
                   /\ \A s \in Slot : SeqBacked(s)'
<1>1. Types /\ RestTypes /\ pc \in [Req -> Labels] /\ Alone(r)
  BY WorkerAlone, JobAlone DEF IInv, SInv, Types, Alone
<1> USE DEF At, Goto
<1>2. CASE \/ RestoreRam(r) \/ RestoreSsd(r) \/ Fresh(r) \/ Begin(r)
           \/ CopyOnWrite(r) \/ MapPage(r) \/ SnapRead(r)
           \/ EndChunk(r) \/ StopDecode(r) \/ EndRound(r) \/ Catch(r)
  <2>1. PICK h \in TokenRun, p \in Nat, t \in Seq(Pages) : Writes(r, h, p, t)
    BY <1>2, WritesOwn
  <2> DEFINE x == Sequence(h, p, t)
  <2>2. x \in SeqRecord /\ x.pos = p /\ x.tab = t
    BY DEF Sequence, SeqRecord
  <2>3. /\ mine[r] \in Slot /\ seq' = [seq EXCEPT ![mine[r]] = x]
        /\ sl' = sl /\ mine' = mine /\ ~GoesTo(r, "layers")'
        /\ Snapping(r)' \/ PagesFor(x.pos, Page) <= Len(x.tab)
    BY <2>1, <2>2 DEF Writes
  <2> HIDE DEF x
  <2> QED BY <1>1, <2>2, <2>3, SeqWritten
<1>3. CASE DropIdle(r)
  <2>1. PICK v \in Slot : ~sl[v].busy /\ seq' = [seq EXCEPT ![v] = Dropped]
    BY <1>3 DEF DropIdle, LeastUsed, IdleHolders, Idle
  <2>2. \A q \in Req : mine[q] # v
    BY <2>1 DEF IInv, SlotExclusive
  <2>3. Dropped \in SeqRecord /\ Dropped.pos = 0
    BY TokensTyped, EmptySeq DEF Dropped, SeqRecord
  <2>4. UNCHANGED <<pc, ret, job, mine>> /\ sl' = sl
    BY <1>3 DEF DropIdle, threadVars
  <2> QED BY <2>1, <2>2, <2>3, <2>4, SeqTaken
<1>4. CASE AbortLater(r)
  <2>1. PICK v \in Slot : /\ seq' = [seq EXCEPT ![v] = Reset(seq[v])]
                          /\ sl' = [sl EXCEPT ![v].abort = TRUE]
    BY <1>4 DEF AbortLater, Later
  <2>2. sl'[v].abort /\ \A s \in Slot \ {v} : sl'[s] = sl[s]
    BY <1>1, <2>1 DEF Types, SlotRecord
  <2>3. Reset(seq[v]) \in SeqRecord /\ Reset(seq[v]).pos = 0
    BY <1>1, SequenceTyped, EmptySeq DEF Reset, SeqRecord
  <2>4. UNCHANGED <<pc, ret, job, mine>>
    BY <1>4 DEF AbortLater, threadVars
  <2> QED BY <2>1, <2>2, <2>3, <2>4, SeqTaken
<1>5. ASSUME seq' = seq, sl' = sl, mine' = mine, Snapping(r) => Snapping(r)', ChunkBacked(r)'
      PROVE  Goal
  BY <1>1, <1>5, SeqKept
<1>6. ASSUME seq' = seq, sl' = sl, mine' = mine, ~Snapping(r), ~GoesTo(r, "layers")'
      PROVE  Goal
  BY <1>5, <1>6 DEF ChunkBacked
<1>7. CASE Claim(r)
  <2>1. PICK s \in Slot :
          /\ ~sl[s].busy
          /\ sl' = [sl EXCEPT ![s] =
                    [busy |-> TRUE, abort |-> FALSE, seq |-> admitted + 1,
                     lastUse |-> sl[s].lastUse, owner |-> {r}, reserved |-> Target(r)]]
    BY <1>7, CandidatesIdle DEF Claim, Idle
  <2>2. \A q \in Req : mine[q] # s
    BY <2>1 DEF IInv, SlotExclusive
  <2>3. \A q \in Req \ {r} : mine[q] # 0 => sl'[mine[q]] = sl[mine[q]]
    BY <1>1, <2>1, <2>2 DEF Types
  <2>4. seq' = seq /\ ~Snapping(r) /\ ~GoesTo(r, "layers")'
    BY <1>1, <1>7 DEF Claim, Snapping, GoesTo
  <2> QED BY <1>1, <2>3, <2>4, SeqKept DEF ChunkBacked
<1>8. CASE LeaveSlot(r)
  <2>1. seq' = seq /\ ~Snapping(r) /\ ~GoesTo(r, "layers")' /\ mine[r] # 0
    BY <1>1, <1>8 DEF LeaveSlot, Snapping, GoesTo, IInv, Placed, Homeless
  <2>2. \A q \in Req \ {r} : mine[q] # 0 => sl'[mine[q]] = sl[mine[q]]
    <3>1. \A q \in Req \ {r} : mine[q] # mine[r]
      BY <2>1 DEF IInv, SlotExclusive, Holding
    <3> QED BY <1>1, <1>8, <3>1 DEF LeaveSlot, Types
  <2> QED BY <1>1, <2>1, <2>2, SeqKept DEF ChunkBacked
<1>9. CASE Arrive(r) \/ LeaveQueue(r) \/ TryTurn(r) \/ TurnAway(r) \/ Continue(r) \/ Refuse(r)
           \/ Skip(r) \/ StartChunk(r) \/ StartRound(r) \/ SkipRound(r) \/ Verify(r) \/ ReleaseGpu(r)
  <2>1. seq' = seq /\ sl' = sl /\ mine' = mine
    BY <1>9 DEF Arrive, LeaveQueue, TryTurn, TurnAway, Continue, Refuse, Skip, StartChunk,
                StartRound, SkipRound, Verify, ReleaseGpu, slotVars
  <2>2. ~Snapping(r) /\ ~GoesTo(r, "layers")'
    BY <1>1, <1>9 DEF Arrive, LeaveQueue, TryTurn, TurnAway, Continue, Reusing, Refuse, Skip, StartChunk,
                StartRound, SkipRound, Verify, ReleaseGpu, Snapping, GoesTo, Types
  <2> QED BY <1>6, <2>1, <2>2
<1>10. CASE EvictCheckpoint(r) \/ Overflow(r)
  <2>1. seq' = seq /\ sl' = sl /\ mine' = mine /\ job' = job /\ pc[r] = "map"
    BY <1>10 DEF EvictCheckpoint, Overflow, Starving, Dry, Mapping, slotVars, threadVars
  <2>2. pc'[r] \in {"map", "catch"}
    BY <1>1, <1>10, <2>1 DEF EvictCheckpoint, Overflow, threadVars
  <2> QED BY <1>5, <2>1, <2>2 DEF Snapping, ChunkBacked, GoesTo
<1>11. CASE EnterLayers(r)
  <2>1. /\ seq' = seq /\ sl' = sl /\ mine' = mine /\ job' = job /\ ~Short(r)
        /\ pc[r] = "map" /\ job[r].kind # "snap"
    BY <1>11 DEF EnterLayers, Backed, Mapping, slotVars
  <2>2. mine[r] \in Slot
    BY <2>1 DEF IInv, Placed, Homeless, Types
  <2>3. PagesFor(job[r].end, Page) <= Len(seq[mine[r]].tab)
    <3>1. PagesFor(job[r].end, Page) \in Nat /\ Len(seq[mine[r]].tab) \in Nat
      BY <1>1, <2>2, SequenceTyped, RowPages DEF RestTypes, JobRecord
    <3> QED BY <2>1, <3>1 DEF Short
  <2>4. ChunkBacked(r)'
    BY <2>1, <2>3 DEF ChunkBacked
  <2> QED BY <1>5, <2>1, <2>4 DEF Snapping
<1>12. CASE Lend(r)
  <2>1. seq' = seq /\ sl' = sl /\ mine' = mine /\ pc[r] = "layers"
    BY <1>12 DEF Lend, slotVars
  <2>2. job'[r].end = job[r].end
    BY <1>1, <1>12 DEF Lend, RestTypes, JobRecord
  <2>3. ChunkBacked(r) /\ GoesTo(r, "layers")
    BY <2>1 DEF SInv, GoesTo
  <2>4. ChunkBacked(r)'
    BY <2>1, <2>2, <2>3 DEF ChunkBacked
  <2> QED BY <1>5, <2>1, <2>4 DEF Snapping
<1>13. CASE HandOver(r)
  <2>1. seq' = seq /\ sl' = sl /\ mine' = mine /\ job' = job /\ ~Snapping(r)
    BY <1>13 DEF HandOver, KeepGpu, YieldGpu, AskAgain, Regain, slotVars, Snapping
  <2>2. GoesTo(r, "layers")' => GoesTo(r, "layers")
    BY <1>1, <1>13 DEF HandOver, KeepGpu, YieldGpu, AskAgain, Regain, UnlessAborted, Onward,
                       GoesTo, Types
  <2>3. ChunkBacked(r)'
    BY <2>1, <2>2 DEF ChunkBacked, SInv
  <2> QED BY <1>5, <2>1, <2>3
<1> QED
  BY <1>2, <1>3, <1>4, <1>7, <1>8, <1>9, <1>10, <1>11, <1>12, <1>13
  DEF Worker, Admission, Reuse, MapRows, Prefill, Decode, Leaving
-----------------------------------------------------------------------------
(* Checkpoints keep the pages of exactly their tokens.                      *)
LEMMA CheckpointsStep ==
    ASSUME IInv, SInv, NEW r \in Req, Worker(r)
    PROVE  ck' \in Seq(CkRecord)
<1>1. Types /\ RestTypes /\ ck \in Seq(CkRecord)
  BY DEF IInv, SInv, RestTypes
<1>2. CASE RestoreRam(r)
  <2>1. BestCk(r) \in 1 .. Len(ck) /\ ck' = Touched(BestCk(r))
    BY <1>1, <1>2, BestMatches, LenProperties DEF RestoreRam, RestTypes, Matching
  <2> QED BY <1>1, <2>1, TouchedTyped DEF Touched
<1>3. CASE EvictCheckpoint(r)
  BY <1>1, <1>3, HeadTailProperties DEF EvictCheckpoint
<1>4. CASE EndChunk(r)
  <2> DEFINE tab == seq[mine[r]].tab
  <2> DEFINE end == job[r].end
  <2>1. pc[r] = "layers" /\ mine[r] \in Slot /\ end \in Nat /\ end <= Prompt[r]
    BY <1>1, <1>4 DEF EndChunk, At, IInv, Placed, Homeless, Types, RestTypes, JobRecord,
                      SInv, JobFits, InPass, Ingesting, GoesTo
  <2>2. ~sl[mine[r]].abort
    BY <2>1, SlotFacts, SizesAssumption DEF IInv, VictimsAside, Holding
  <2>3. tab \in Seq(Pages) /\ PagesFor(end, Page) <= Len(tab) /\ Len(tab) \in Nat
    BY <1>1, <2>1, <2>2, SequenceTyped DEF SInv, ChunkBacked, GoesTo
  <2>4. Tokens(r, end) \in TokenRun /\ Tokens(r, end).len = end
    BY <2>1, TokensTyped
  <2>5. Tokens(r, Cut[r]) \in TokenRun /\ Tokens(r, Cut[r]).len = Cut[r] /\ Cut[r] \in Nat
        /\ Cut[r] < Prompt[r] /\ Prompt[r] \in Nat
    BY RequestAssumption, TokensTyped DEF RequestAssumption
  <2> DEFINE cutSaved == IF end = Prompt[r] /\ r \in inpass
                         THEN Saved(ck, Tokens(r, Cut[r]), tab) ELSE ck
  <2>6. cutSaved \in Seq(CkRecord)
    <3>1. CASE end = Prompt[r] /\ r \in inpass
      <4>1. PagesFor(Cut[r], Page) <= Len(tab)
        <5>1. PagesFor(Cut[r], Page) \in Nat /\ PagesFor(end, Page) \in Nat
              /\ PagesFor(Cut[r], Page) <= PagesFor(end, Page)
          BY <3>1, <2>1, <2>5, RowPages
        <5> HIDE DEF tab, end
        <5> QED BY <2>3, <5>1
      <4> HIDE DEF tab, end
      <4>2. Saved(ck, Tokens(r, Cut[r]), tab) \in Seq(CkRecord)
        BY <1>1, <2>3, <2>5, <4>1, SavedTyped
      <4> QED BY <3>1, <4>2
    <3> QED BY <3>1, <1>1
  <2>7. ck' = cutSaved \/ ck' = Saved(cutSaved, Tokens(r, end), tab)
    BY <1>4 DEF EndChunk
  <2> HIDE DEF cutSaved, tab, end
  <2>8. Saved(cutSaved, Tokens(r, end), tab) \in Seq(CkRecord)
    BY <2>3, <2>4, <2>6, SavedTyped
  <2> QED BY <2>6, <2>7, <2>8
<1>5. CASE EndRound(r)
  <2> DEFINE tab == seq[mine[r]].tab
  <2>1. pc[r] = "layers" /\ mine[r] \in Slot
    BY <1>5 DEF EndRound, At, IInv, Placed, Homeless, Types
  <2>0. ~sl[mine[r]].abort
    BY <2>1, SlotFacts, SizesAssumption DEF IInv, VictimsAside, Holding
  <2>2. PICK pos \in (job[r].base + 1) .. job[r].end :
          ck' = ck \/ ck' = Saved(ck, Tokens(r, pos), tab)
    BY <1>5 DEF EndRound
  <2>3. job[r].base \in Nat /\ job[r].end \in Nat /\ pos \in Nat /\ pos <= job[r].end
    BY <1>1, <2>2 DEF RestTypes, JobRecord
  <2>4. tab \in Seq(Pages) /\ Len(tab) \in Nat
    BY <1>1, <2>1, SequenceTyped
  <2>5. PagesFor(pos, Page) <= Len(tab)
    <3>1. /\ PagesFor(job[r].end, Page) \in Nat /\ PagesFor(pos, Page) \in Nat
          /\ PagesFor(pos, Page) <= PagesFor(job[r].end, Page)
      BY <2>3, RowPages
    <3>2. PagesFor(job[r].end, Page) <= Len(tab)
      BY <2>0, <2>1 DEF SInv, ChunkBacked, GoesTo
    <3> QED BY <2>4, <3>1, <3>2
  <2>6. Tokens(r, pos) \in TokenRun /\ Tokens(r, pos).len = pos
    BY <2>3, TokensTyped
  <2> HIDE DEF tab
  <2> QED BY <1>1, <2>2, <2>4, <2>5, <2>6, SavedTyped
<1>6. CASE ~RestoreRam(r) /\ ~EvictCheckpoint(r) /\ ~EndChunk(r) /\ ~EndRound(r)
  <2>1. ck' = ck
    BY <1>6 DEF Worker, Admission, Arrive, LeaveQueue, TryTurn, TurnAway, Claim,
         Reuse, Continue, RestoreSsd, Fresh, Refuse, Begin,
         MapRows, CopyOnWrite, MapPage, DropIdle, AbortLater, Overflow, SnapRead,
         Prefill, Skip, StartChunk, EnterLayers, Lend,
         HandOver, KeepGpu, YieldGpu, AskAgain, Regain,
         Decode, StopDecode, StartRound, SkipRound, Verify,
         Leaving, Catch, LeaveSlot, ReleaseGpu
  <2> QED BY <1>1, <2>1
<1> QED BY <1>2, <1>3, <1>4, <1>5, <1>6
-----------------------------------------------------------------------------
(* SInv is inductive.                                                       *)
LEMMA RestStep ==
    ASSUME IInv, QInv, SInv, NEW r \in Req, Worker(r)
    PROVE  RestTypes'
<1>1. Types /\ RestTypes
  BY DEF IInv, SInv
<1>2. job' \in [Req -> JobRecord] /\ seq' \in [Slot -> SeqRecord] /\ ck' \in Seq(CkRecord)
  BY JobStep, SequencesStep, CheckpointsStep
<1>3. wait' \in Seq(Req)
  BY <1>1, WaitInductive DEF WaitTrue
<1>4. cancel' = cancel
  BY DEF Worker, Admission, Arrive, LeaveQueue, TryTurn, TurnAway, Claim,
         Reuse, Continue, RestoreRam, RestoreSsd, Fresh, Refuse, Begin,
         MapRows, CopyOnWrite, MapPage, EvictCheckpoint, DropIdle, AbortLater, Overflow, SnapRead,
         Prefill, Skip, StartChunk, EnterLayers, Lend, EndChunk,
         HandOver, KeepGpu, YieldGpu, AskAgain, Regain,
         Decode, StopDecode, StartRound, SkipRound, Verify, EndRound,
         Leaving, Catch, LeaveSlot, ReleaseGpu
<1>5. bound' \in Slot
  <2>1. CASE Claim(r)
    BY <2>1, CandidatesIdle DEF Claim, Idle
  <2>2. CASE Regain(r)
    <3>1. mine[r] \in Slot /\ bound' = mine[r]
      BY <1>1, <2>2 DEF Regain, At, IInv, Placed, Homeless, Types
    <3> QED BY <3>1
  <2>3. CASE ~Claim(r) /\ ~Regain(r)
    <3>1. bound' = bound
      BY <2>3 DEF Worker, Admission, Arrive, LeaveQueue, TryTurn, TurnAway,
         Reuse, Continue, RestoreRam, RestoreSsd, Fresh, Refuse, Begin,
         MapRows, CopyOnWrite, MapPage, EvictCheckpoint, DropIdle, AbortLater, Overflow, SnapRead,
         Prefill, Skip, StartChunk, EnterLayers, Lend, EndChunk,
         HandOver, KeepGpu, YieldGpu, AskAgain,
         Decode, StopDecode, StartRound, SkipRound, Verify, EndRound,
         Leaving, Catch, LeaveSlot, ReleaseGpu
    <3> QED BY <1>1, <3>1 DEF RestTypes
  <2> QED BY <2>1, <2>2, <2>3
<1>6. cutBusy' \in BOOLEAN /\ inpass' \in SUBSET Req /\ shadow' \in SUBSET Req
  <2>1. cutBusy \in BOOLEAN /\ inpass \in SUBSET Req /\ shadow \in SUBSET Req
    BY <1>1 DEF RestTypes
  <2>2. CASE Begin(r)
    <3>1. shadow' = shadow /\ (inpass' = inpass \/ inpass' = inpass \cup {r})
      BY <2>2 DEF Begin
    <3>2. cutBusy' = (cutBusy \/ (Cut[r] > job[r].base /\ ~cutBusy))
      BY <2>2 DEF Begin
    <3>3. cutBusy' \in BOOLEAN
      BY <3>2, Zenon
    <3> QED BY <2>1, <3>1, <3>3
  <2>3. CASE EndChunk(r)
    <3>1. shadow' = shadow /\ (inpass' = inpass \/ inpass' = inpass \ {r})
      BY <2>3 DEF EndChunk, copies
    <3>2. cutBusy' = CutBusyAfter(r, job[r].end = Prompt[r])
      BY <2>3 DEF EndChunk
    <3>3. cutBusy' \in BOOLEAN
      BY <3>2, Zenon DEF CutBusyAfter
    <3> QED BY <2>1, <3>1, <3>3
  <2>4. CASE StartRound(r)
    BY <2>1, <2>4 DEF StartRound
  <2>5. CASE ~Begin(r) /\ ~EndChunk(r) /\ ~StartRound(r)
    <3>1. UNCHANGED <<cutBusy, inpass, shadow>>
      BY <2>5 DEF Worker, Admission, Arrive, LeaveQueue, TryTurn, TurnAway, Claim,
         Reuse, Continue, RestoreRam, RestoreSsd, Fresh, Refuse,
         MapRows, CopyOnWrite, MapPage, EvictCheckpoint, DropIdle, AbortLater, Overflow, SnapRead,
         Prefill, Skip, StartChunk, EnterLayers, Lend,
         HandOver, KeepGpu, YieldGpu, AskAgain, Regain,
         Decode, StopDecode, SkipRound, Verify, EndRound,
         Leaving, Catch, LeaveSlot, ReleaseGpu, copies
    <3> QED BY <2>1, <3>1
  <2> QED BY <2>2, <2>3, <2>4, <2>5
<1> QED BY <1>1, <1>2, <1>3, <1>4, <1>5, <1>6 DEF RestTypes

LEMMA StateInductive ==
    ASSUME IInv, QInv, SInv, [Next]_vars
    PROVE  SInv'
<1>1. ASSUME NEW r \in Req, Worker(r) PROVE SInv'
  BY <1>1, RestStep, JobStep, SequencesStep DEF SInv
<1>2. ASSUME UNCHANGED <<threadVars, wait, seq, ck, bound, copies>>, cancel' \in SUBSET Req,
             \A s \in Slot : sl'[s].abort = sl[s].abort
      PROVE  SInv'
  <2>1. RestTypes'
    BY <1>2 DEF SInv, RestTypes, threadVars, copies
  <2>2. \A q \in Req : GoesTo(q, "layers") => mine[q] \in Slot
    BY DEF GoesTo, IInv, Placed, Homeless, Types
  <2>3. \A q \in Req : JobFits(q)' /\ ChunkBacked(q)'
    BY <1>2, <2>2 DEF SInv, JobFits, ChunkBacked, GoesTo, InPass, Ingesting, Verifying, threadVars
  <2>4. \A s \in Slot : SeqBacked(s)'
    BY <1>2 DEF SInv, SeqBacked, Arriving, threadVars
  <2> QED BY <2>1, <2>3, <2>4 DEF SInv
<1>3. ASSUME NEW r \in Req, Cancel(r) PROVE SInv'
  <2>1. cancel' \in SUBSET Req
    BY <1>3 DEF Cancel, SInv, RestTypes
  <2> QED BY <1>2, <1>3, <2>1 DEF Cancel, slotVars
<1>4. ASSUME NEW r \in Req, Disown(r) PROVE SInv'
  <2>1. sl' = [s \in Slot |-> IF sl[s].owner = {r} THEN [sl[s] EXCEPT !.owner = {}] ELSE sl[s]]
    BY <1>4 DEF Disown
  <2>2. \A s \in Slot : sl'[s].abort = sl[s].abort
    BY <2>1 DEF IInv, Types, SlotRecord
  <2>3. cancel' \in SUBSET Req
    BY <1>4 DEF Disown, SInv, RestTypes
  <2> QED BY <1>2, <1>4, <2>2, <2>3 DEF Disown
<1>5. CASE UNCHANGED vars
  BY <1>2, <1>5 DEF vars, SInv, RestTypes, threadVars, copies
<1> QED BY <1>1, <1>3, <1>4, <1>5 DEF Next, AllServed

LEMMA StateInitially ==
    ASSUME Init
    PROVE  SInv
<1> USE DEF Init
<1>1. 1 \in Slot
  BY SizesAssumption DEF SizesAssumption, Slot
<1>2. RestTypes
  BY <1>1, TokensTyped, EmptySeq DEF RestTypes, JobRecord, SeqRecord
<1>3. \A r \in Req : JobFits(r) /\ ChunkBacked(r)
  BY DEF JobFits, ChunkBacked, GoesTo, InPass, Ingesting, Verifying
<1>4. \A s \in Slot : SeqBacked(s)
  BY RowPages, EmptySeq DEF SeqBacked
<1> QED BY <1>2, <1>3, <1>4 DEF SInv

THEOREM StateInvariant == Spec => [](IInv /\ QInv /\ SInv)
<1>1. Init => SInv
  BY StateInitially
<1>2. IInv /\ QInv /\ SInv /\ [Next]_vars => SInv'
  BY StateInductive
<1> QED BY SchedInvariant, QueueInvariant, <1>1, <1>2, PTL DEF Spec

(* Every variable keeps its type, whatever requests come and go.            *)
THEOREM TypesHold == Spec => []TypeOK
<1>1. IInv /\ SInv => TypeOK
  <2> SUFFICES ASSUME IInv, SInv PROVE TypeOK
    OBVIOUS
  <2>1. ck \in Seq([toks : TokenRun, pages : Seq(Pages)])
    <3>1. CkRecord \subseteq [toks : TokenRun, pages : Seq(Pages)] /\ ck \in Seq(CkRecord)
      BY DEF CkRecord, SInv, RestTypes
    <3> QED BY <3>1, SeqMonotonic
  <2> QED BY <2>1 DEF IInv, SInv, Types, RestTypes, TypeOK, SlotRecord, JobRecord, SeqRecord
<1> QED BY StateInvariant, <1>1, PTL

(* Every position a sequence ingested is backed by a mapped page, across    *)
(* copies, restores, evictions and aborts, except while a snapshot arrives. *)
THEOREM IngestedStaysMapped == Spec => []IngestedIsMapped
<1>1. SInv => IngestedIsMapped
  <2> SUFFICES ASSUME SInv, NEW s \in Slot, PagesFor(seq[s].pos, Page) > Len(seq[s].tab)
               PROVE  Arriving(s)
    BY DEF Arriving, IngestedIsMapped
  <2>1. Len(seq[s].tab) \in Nat /\ PagesFor(seq[s].pos, Page) \in Nat
    BY SequenceTyped, RowPages DEF SInv
  <2> QED BY <2>1 DEF SInv, SeqBacked
<1> QED BY StateInvariant, <1>1, PTL
-----------------------------------------------------------------------------
(* The tokens of a slot, against what its state ingested.                   *)
Ingested(s) == seq[s].hist.len = seq[s].pos

(* Where the next request may continue from the slot, or this one is about  *)
(* to leave it as it is.                                                    *)
Known(r) == pc[r] \in {"reuse", "finish"} \/ (pc[r] = "check" /\ r \in Refusable)

HistInv ==
    /\ \A s \in Slot : ~sl[s].busy => Ingested(s)
    /\ \A r \in Req : Known(r) => Ingested(mine[r])

(* A worker that writes no slot but its own.                                *)
LEMMA HistFrame ==
    ASSUME IInv, HistInv, NEW r \in Req, OthersStay(r), mine' = mine, sl' = sl,
           \A s \in Slot \ {mine[r]} : seq'[s] = seq[s],
           mine[r] = 0 \/ mine[r] \in Slot,
           Known(r)' => Ingested(mine[r])'
    PROVE  HistInv'
<1>1. ASSUME NEW s \in Slot, ~sl[s].busy PROVE Ingested(s)'
  <2>1. s # mine[r]
    BY <1>1 DEF IInv, SlotExclusive
  <2> QED BY <1>1, <2>1 DEF HistInv, Ingested
<1>2. ASSUME NEW q \in Req \ {r}, Known(q)' PROVE Ingested(mine[q])'
  <2>1. Known(q)
    BY <1>2 DEF Known, OthersStay
  <2>2. mine[q] \in Slot /\ mine[q] # mine[r]
    BY <2>1 DEF Known, IInv, Placed, Homeless, Types, SlotExclusive, Holding
  <2> QED BY <2>1, <2>2 DEF HistInv, Ingested
<1> QED BY <1>1, <1>2 DEF HistInv

LEMMA HistWorker ==
    ASSUME IInv, SInv, HistInv, \A r \in Refusable : Snap[r] > 0, NEW r \in Req, Worker(r)
    PROVE  HistInv'
<1>1. /\ Types /\ RestTypes /\ pc \in [Req -> Labels] /\ OthersStay(r)
      /\ mine[r] = 0 \/ mine[r] \in Slot
  BY WorkerAlone DEF IInv, SInv, Types
<1> USE DEF At, Goto
<1>2. CASE \/ RestoreRam(r) \/ RestoreSsd(r) \/ Fresh(r) \/ Begin(r)
           \/ CopyOnWrite(r) \/ MapPage(r) \/ SnapRead(r)
           \/ EndChunk(r) \/ StopDecode(r) \/ EndRound(r) \/ Catch(r)
  <2>1. PICK h \in TokenRun, p \in Nat, t \in Seq(Pages) : Writes(r, h, p, t)
    BY <1>2, WritesOwn
  <2>2. /\ mine[r] \in Slot /\ sl' = sl /\ mine' = mine
        /\ \A s \in Slot \ {mine[r]} : seq'[s] = seq[s]
    BY <2>1, <1>1 DEF Writes, RestTypes
  <2>3. ASSUME Known(r)' PROVE Ingested(mine[r])'
    <3>1. CASE RestoreRam(r)
      BY <1>1, <2>2, <3>1 DEF RestoreRam, Ingested, RestTypes
    <3>2. CASE Fresh(r)
      <4>1. pc'[r] = "check" /\ Snap[r] = 0
        BY <1>1, <3>2 DEF Fresh
      <4> QED BY <2>3, <4>1 DEF Known
    <3>3. CASE RestoreSsd(r) \/ Begin(r) \/ CopyOnWrite(r) \/ MapPage(r) \/ EndChunk(r)
      <4>1. pc'[r] \in {"map", "chunk", "round", "yield"}
        BY <1>1, <3>3 DEF RestoreSsd, Begin, CopyOnWrite, MapPage, EndChunk, Mapping, threadVars
      <4> QED BY <2>3, <4>1 DEF Known
    <3>4. CASE SnapRead(r)
      <4>1. Tokens(r, Snap[r]).len = Snap[r] /\ Dropped.hist.len = 0 /\ Dropped.pos = 0
        BY RequestAssumption, TokensTyped DEF RequestAssumption, Dropped, NoTokens
      <4>2. CASE seq' = [seq EXCEPT ![mine[r]].hist = Tokens(r, Snap[r]), ![mine[r]].pos = Snap[r]]
        <5>1. seq' = [seq EXCEPT ![mine[r]] = Sequence(Tokens(r, Snap[r]), Snap[r], seq[mine[r]].tab)]
          BY <4>2, <1>1, <2>2, TokensWritten
        <5> QED BY <5>1, <1>1, <2>2, <4>1 DEF Ingested, RestTypes, Sequence
      <4>3. CASE seq' = [seq EXCEPT ![mine[r]] = Dropped]
        BY <1>1, <2>2, <4>1, <4>3 DEF Ingested, RestTypes
      <4> QED BY <3>4, <4>2, <4>3 DEF SnapRead
    <3>5. CASE StopDecode(r)
      <4> DEFINE pos == seq[mine[r]].pos
      <4>1. pos \in Nat
        BY <1>1, <2>2, SequenceTyped
      <4>2. seq' = [seq EXCEPT ![mine[r]].hist = Tokens(r, pos)]
        BY <3>5 DEF StopDecode
      <4>3. seq' = [seq EXCEPT ![mine[r]] = Sequence(Tokens(r, pos), pos, seq[mine[r]].tab)]
        BY <4>2, <1>1, <2>2, HistWritten
      <4>4. Tokens(r, pos).len = pos
        BY <4>1, TokensTyped
      <4> QED BY <4>3, <4>4, <1>1, <2>2 DEF Ingested, RestTypes, Sequence
    <3>6. CASE EndRound(r)
      <4>1. r \in cancel
        BY <1>1, <2>3, <3>6 DEF EndRound, Known
      <4>2. PICK pos \in (job[r].base + 1) .. job[r].end :
              seq' = [seq EXCEPT ![mine[r]].pos = pos, ![mine[r]].hist = Tokens(r, pos)]
        BY <3>6, <4>1 DEF EndRound
      <4>3. pos \in Nat
        BY <1>1 DEF RestTypes, JobRecord
      <4>4. seq' = [seq EXCEPT ![mine[r]] = Sequence(Tokens(r, pos), pos, seq[mine[r]].tab)]
        BY <4>2, <1>1, <2>2, TokensWritten
      <4>5. Tokens(r, pos).len = pos
        BY <4>3, TokensTyped
      <4> QED BY <4>4, <4>5, <1>1, <2>2 DEF Ingested, RestTypes, Sequence
    <3>7. CASE Catch(r)
      BY <3>7, <1>1, <2>2 DEF Catch, Ingested, RestTypes, Dropped, NoTokens
    <3> QED BY <1>2, <3>1, <3>2, <3>3, <3>4, <3>5, <3>6, <3>7
  <2> QED BY <1>1, <2>2, <2>3, HistFrame
<1>3. CASE DropIdle(r)
  <2>1. PICK v \in Slot : ~sl[v].busy /\ seq' = [seq EXCEPT ![v] = Dropped]
    BY <1>3 DEF DropIdle, LeastUsed, IdleHolders, Idle
  <2>2. \A q \in Req : mine[q] # v
    BY <2>1 DEF IInv, SlotExclusive
  <2>3. Ingested(v)' /\ \A s \in Slot \ {v} : seq'[s] = seq[s]
    BY <1>1, <2>1 DEF Ingested, RestTypes, Dropped, NoTokens
  <2>4. UNCHANGED <<pc, mine>> /\ sl' = sl
    BY <1>3 DEF DropIdle, threadVars
  <2>5. \A q \in Req : Known(q) => mine[q] \in Slot \ {v}
    BY <2>2 DEF Known, IInv, Placed, Homeless, Types
  <2> QED BY <2>3, <2>4, <2>5 DEF HistInv, Known, Ingested
<1>4. CASE AbortLater(r)
  <2>1. PICK v \in Later(r) : /\ seq' = [seq EXCEPT ![v] = Reset(seq[v])]
                              /\ sl' = [sl EXCEPT ![v].abort = TRUE]
    BY <1>4 DEF AbortLater
  <2>2. /\ v \in Slot /\ sl[v].busy /\ v # mine[r] /\ mine[r] \in Slot /\ Owns(r)
        /\ \A s \in Slot : sl'[s].busy = sl[s].busy
        /\ \A s \in Slot \ {v} : seq'[s] = seq[s]
        /\ UNCHANGED <<pc, mine>>
    <3>1. pc[r] = "map" /\ Owns(r) /\ mine[r] \in Slot /\ UNCHANGED <<pc, mine>>
      BY <1>1, <1>4 DEF AbortLater, Starving, Dry, Mapping, threadVars, IInv, Placed, Homeless
    <3>2. v \in Slot /\ sl[v].busy /\ sl[v].seq > sl[mine[r]].seq
      BY <2>1 DEF Later
    <3>3. sl[v].seq \in Nat
      BY <1>1, <3>2 DEF Types, SlotRecord
    <3>4. v # mine[r]
      BY <3>2, <3>3
    <3>5. \A s \in Slot : sl'[s].busy = sl[s].busy
      BY <1>1, <2>1 DEF Types, SlotRecord
    <3>6. \A s \in Slot \ {v} : seq'[s] = seq[s]
      BY <1>1, <2>1 DEF RestTypes
    <3> QED BY <3>1, <3>2, <3>4, <3>5, <3>6
  <2>3. \A q \in Req : Known(q) => q = r
    BY <2>2 DEF Known, IInv, TurnHeld, Owns, Work
  <2> QED BY <2>2, <2>3 DEF HistInv, Known, Ingested
<1>5. CASE Claim(r)
  <2>1. PICK s \in Slot :
          /\ ~sl[s].busy
          /\ sl' = [sl EXCEPT ![s] =
                    [busy |-> TRUE, abort |-> FALSE, seq |-> admitted + 1,
                     lastUse |-> sl[s].lastUse, owner |-> {r}, reserved |-> Target(r)]]
          /\ mine' = [mine EXCEPT ![r] = s]
    BY <1>5, CandidatesIdle DEF Claim, Idle
  <2>2. /\ seq' = seq /\ mine'[r] = s /\ sl'[s].busy
        /\ \A u \in Slot \ {s} : sl'[u] = sl[u]
    BY <1>1, <1>5, <2>1 DEF Claim, Types
  <2>3. \A u \in Slot : ~sl'[u].busy => Ingested(u)'
    BY <2>2 DEF HistInv, Ingested
  <2>4. \A q \in Req \ {r} : Known(q)' => Ingested(mine[q])' /\ mine'[q] = mine[q]
    BY <1>1, <2>2 DEF HistInv, Ingested, Known, OthersStay
  <2>5. Ingested(s)'
    BY <2>1, <2>2 DEF HistInv, Ingested
  <2> QED BY <2>2, <2>3, <2>4, <2>5 DEF HistInv
<1>6. CASE LeaveSlot(r)
  <2>1. /\ mine[r] \in Slot /\ seq' = seq /\ Known(r) /\ ~Known(r)'
        /\ \A u \in Slot \ {mine[r]} : sl'[u] = sl[u]
        /\ \A q \in Req \ {r} : mine'[q] = mine[q]
    BY <1>1, <1>6 DEF LeaveSlot, Types, Known, IInv, Placed, Homeless
  <2>2. \A u \in Slot : ~sl'[u].busy => Ingested(u)'
    BY <2>1 DEF HistInv, Ingested
  <2>3. \A q \in Req \ {r} : Known(q)' => Ingested(mine[q])' /\ mine'[q] = mine[q]
    BY <1>1, <2>1 DEF HistInv, Ingested, Known, OthersStay
  <2> QED BY <2>1, <2>2, <2>3 DEF HistInv
<1>7. ASSUME seq' = seq, sl' = sl, mine' = mine, Known(r)' => Known(r)
      PROVE  HistInv'
  BY <1>1, <1>7, HistFrame DEF HistInv, Ingested
<1>8. CASE Arrive(r) \/ LeaveQueue(r) \/ TryTurn(r) \/ TurnAway(r) \/ Continue(r) \/ Refuse(r)
           \/ Skip(r) \/ StartChunk(r) \/ StartRound(r) \/ SkipRound(r) \/ Verify(r) \/ ReleaseGpu(r)
           \/ EvictCheckpoint(r) \/ Overflow(r) \/ EnterLayers(r) \/ Lend(r) \/ HandOver(r)
  <2>1. seq' = seq /\ sl' = sl /\ mine' = mine
    BY <1>8 DEF Arrive, LeaveQueue, TryTurn, TurnAway, Continue, Refuse, Skip, StartChunk,
                StartRound, SkipRound, Verify, ReleaseGpu, EvictCheckpoint, Overflow, EnterLayers,
                Lend, HandOver, KeepGpu, YieldGpu, AskAgain, Regain, slotVars, threadVars
  <2>2. CASE Continue(r) \/ Refuse(r)
    <3>1. Known(r)
      BY <2>2 DEF Continue, Reusing, Refuse, Known
    <3> QED BY <1>7, <2>1, <3>1
  <2>3. CASE ~(Continue(r) \/ Refuse(r))
    <3>1. pc'[r] \in {"queued", "admit", "ended", "map", "catch", "layers", "away", "back", "chunk",
                      "round", "verify"}
      BY <1>1, <1>8, <2>3
         DEF Arrive, LeaveQueue, TryTurn, TurnAway, Skip, StartChunk,
             StartRound, SkipRound, Verify, ReleaseGpu, EvictCheckpoint, Overflow, EnterLayers,
             Starving, Dry, Mapping, Lend, HandOver, KeepGpu, YieldGpu, AskAgain, Regain,
             UnlessAborted, Onward, threadVars, Types
    <3> QED BY <1>7, <2>1, <3>1 DEF Known
  <2> QED BY <2>2, <2>3
<1> QED
  BY <1>2, <1>3, <1>4, <1>5, <1>6, <1>8
  DEF Worker, Admission, Reuse, MapRows, Prefill, Decode, Leaving

(* A slot's tokens are what its state ingested whenever the slot is idle,   *)
(* so the next prompt may continue from it.  A request whose images may be  *)
(* refused must not have begun from nothing: the code resets the state      *)
(* before it looks at the images and leaves the old tokens standing.        *)
THEOREM TokensAreIngested ==
    ASSUME \A r \in Refusable : Snap[r] > 0
    PROVE  Spec => []HistIsIngested
<1>1. Init => HistInv
  BY DEF Init, HistInv, Ingested, Known, NoTokens
<1>2. ASSUME IInv, SInv, HistInv, [Next]_vars PROVE HistInv'
  <2>1. ASSUME NEW r \in Req, Worker(r) PROVE HistInv'
    BY <1>2, <2>1, HistWorker
  <2>2. ASSUME UNCHANGED <<pc, mine, seq>>, \A s \in Slot : sl'[s].busy = sl[s].busy
        PROVE  HistInv'
    BY <1>2, <2>2 DEF HistInv, Ingested, Known
  <2>3. ASSUME NEW r \in Req, Cancel(r) PROVE HistInv'
    BY <2>2, <2>3 DEF Cancel, threadVars, slotVars
  <2>4. ASSUME NEW r \in Req, Disown(r) PROVE HistInv'
    <3>1. sl' = [s \in Slot |-> IF sl[s].owner = {r} THEN [sl[s] EXCEPT !.owner = {}] ELSE sl[s]]
      BY <2>4 DEF Disown
    <3>2. \A s \in Slot : sl'[s].busy = sl[s].busy
      BY <3>1, <1>2 DEF IInv, Types, SlotRecord
    <3> QED BY <2>2, <2>4, <3>2 DEF Disown, threadVars
  <2>5. CASE UNCHANGED vars
    BY <2>2, <2>5 DEF vars
  <2> QED BY <1>2, <2>1, <2>3, <2>4, <2>5 DEF Next, AllServed
<1>3. HistInv => HistIsIngested
  BY DEF HistInv, HistIsIngested, Ingested
<1> QED BY StateInvariant, <1>1, <1>2, <1>3, PTL DEF Spec
-----------------------------------------------------------------------------
(* Queues and slots: a choice among the idle slots always finds one.        *)
LEMMA LeastUsedExists ==
    ASSUME Types, NEW S, S \subseteq Slot, S # {}
    PROVE  LeastUsed(S) # {}
<1> DEFINE f == [s \in S |-> sl[s].lastUse]
<1>1. S \subseteq Nat /\ f \in [S -> Nat]
  BY SlotFacts, SizesAssumption DEF Types, SlotRecord
<1>2. PICK x \in S : \A y \in S : f[x] < f[y] \/ (f[x] = f[y] /\ x <= y)
  <2> HIDE DEF f
  <2> QED BY <1>1, LeastKeyed
<1>3. \A y \in S : sl[x].lastUse < sl[y].lastUse \/ (sl[x].lastUse = sl[y].lastUse /\ x <= y)
  BY <1>2
<1> QED BY <1>3 DEF LeastUsed

LEMMA SomeCandidate ==
    ASSUME Types, RestTypes, NEW r \in Req, Idle # {}
    PROVE  Candidates(r) # {}
<1> DEFINE live   == {s \in Idle : Extends(r, seq[s].hist)}
<1> DEFINE empty  == {s \in Idle : seq[s].hist.len = 0}
<1> DEFINE orphan == {s \in Idle \ empty : sl[s].owner = {}}
<1>0. Idle \subseteq Slot /\ Slot \subseteq Nat
  BY SlotFacts, SizesAssumption DEF Idle
<1>1. CASE live # {}
  <2> DEFINE f == [s \in live |-> Prompt[r] - seq[s].hist.len]
  <2>1. \A s \in live : seq[s].hist.len \in Nat /\ seq[s].hist.len < Prompt[r]
    <3>1. \A s \in Slot : seq[s].hist \in TokenRun
      BY SequenceTyped
    <3> QED BY <1>0, <3>1 DEF TokenRun, Extends
  <2>2. live \subseteq Nat /\ f \in [live -> Nat]
    <3>1. \A s \in live : Prompt[r] - seq[s].hist.len \in Nat
      BY <2>1, RequestAssumption DEF RequestAssumption
    <3>2. live \subseteq Nat
      BY <1>0
    <3> HIDE DEF live
    <3> QED BY <3>1, <3>2
  <2>3. PICK x \in live : \A y \in live : f[x] < f[y] \/ (f[x] = f[y] /\ x <= y)
    <3> HIDE DEF f, live
    <3> QED BY <1>1, <2>2, LeastKeyed
  <2>4. \A y \in live : \/ seq[y].hist.len < seq[x].hist.len
                        \/ seq[y].hist.len = seq[x].hist.len /\ x <= y
    BY <2>1, <2>3, RequestAssumption DEF RequestAssumption
  <2>5. x \in Candidates(r)
    BY <1>1, <2>4 DEF Candidates
  <2> QED BY <2>5
<1>2. CASE live = {} /\ empty # {}
  <2>1. \E s \in empty : \A u \in empty : s <= u
    <3>1. empty \subseteq Nat
      BY <1>0
    <3> HIDE DEF empty
    <3> QED BY <1>2, <3>1, LeastOfNaturals
  <2>2. Candidates(r) = {s \in empty : \A u \in empty : s <= u}
    BY <1>2 DEF Candidates
  <2> QED BY <2>1, <2>2
<1>3. CASE live = {} /\ empty = {} /\ orphan # {}
  <2>1. Candidates(r) = LeastUsed(orphan)
    BY <1>3 DEF Candidates
  <2>2. LeastUsed(orphan) # {}
    <3>1. orphan \subseteq Slot
      BY <1>0
    <3> HIDE DEF orphan
    <3> QED BY <1>3, <3>1, LeastUsedExists
  <2> QED BY <2>1, <2>2
<1>4. CASE live = {} /\ empty = {} /\ orphan = {}
  <2>1. Candidates(r) = LeastUsed(Idle)
    BY <1>4 DEF Candidates
  <2> QED BY <2>1, <1>0, LeastUsedExists
<1> QED BY <1>1, <1>2, <1>3, <1>4

(* slot_admit pops its own ticket and finds the slot it saw idle, though it *)
(* let go of the lock in between; and when all requests are served nobody   *)
(* is left in a queue, no slot is busy or reserved, no workspace lent.      *)
THEOREM QueuesStayTrue == Spec => []QueuesAreTrue
<1>1. ASSUME IInv, QInv, SInv PROVE FrontIsMine
  <2> SUFFICES ASSUME NEW r \in Req, pc[r] = "admit"
               PROVE  wait # <<>> /\ Head(wait) = r /\ Candidates(r) # {}
    BY DEF FrontIsMine
  <2>1. wait # <<>> /\ Head(wait) = r /\ Idle # {}
    BY <1>1 DEF QInv, FrontWaits
  <2>2. Types /\ RestTypes
    BY <1>1 DEF IInv, SInv
  <2> QED BY <2>1, <2>2, SomeCandidate
<1>2. ASSUME IInv, QInv PROVE NothingLeft
  <2> SUFFICES ASSUME \A r \in Req : pc[r] = "ended"
               PROVE  /\ \A s \in Slot : ~sl[s].busy /\ sl[s].reserved = 0
                      /\ gate = <<>> /\ wait = <<>> /\ light = 0 /\ ~lent
    BY DEF NothingLeft
  <2>1. \A r \in Req : mine[r] = 0
    BY <1>2 DEF IInv, Placed, Homeless
  <2>2. \A s \in Slot : ~sl[s].busy
    BY <1>2, <2>1, SlotFacts, SizesAssumption DEF IInv, SlotExclusive
  <2>3. \A s \in Slot : sl[s].reserved = 0
    BY <1>2, <2>2 DEF QInv, NoneReserved
  <2>4. ASSUME NEW q \in Seq(Req), q # <<>> PROVE \E r \in Req : Holds(q, r)
    BY <2>4, TailFacts, ElementOfSeq DEF Holds
  <2>5. gate = <<>>
    BY <1>2, <2>4 DEF IInv, Types, QInv, GateTrue, AtGate, Work
  <2>6. wait = <<>>
    BY <1>2, <2>4 DEF QInv, WaitTrue
  <2>7. Lenders = {}
    BY DEF Lenders
  <2>8. light = 0 /\ ~lent
    BY <1>2, <2>7 DEF IInv, OneLent
  <2> QED BY <2>2, <2>3, <2>5, <2>6, <2>8
<1>3. IInv /\ QInv /\ SInv => QueuesAreTrue
  BY <1>1, <1>2 DEF QueuesAreTrue
<1> QED BY StateInvariant, <1>3, PTL
=============================================================================
