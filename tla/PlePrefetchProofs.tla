------------------------- MODULE PlePrefetchProofs -------------------------
(***************************************************************************)
(* For every set of prompts and every number of threads: a gather is        *)
(* started only over joined threads; no flight is left under way while a    *)
(* chunk is lent; prompts that never meet at one position with chunks of    *)
(* one size are dequantized from their own rows; and prefill_batch never    *)
(* hands prefill_chunk more rows than its buffers hold.                     *)
(***************************************************************************)
EXTENDS PlePrefetch, FiniteSetTheorems, TLAPS

(* A flight that does not count has no thread left running.                 *)
InvalidIsJoined == flight.valid = FALSE => Joined
Flights == flight.valid \in BOOLEAN /\ DOMAIN thread = Thread

LEMMA SpawnIsValid ==
    ASSUME NEW r, NEW base, Spawn(r, base)
    PROVE  flight'.valid = TRUE /\ DOMAIN thread' = Thread
BY DEF Spawn

LEMMA FlightStep ==
    ASSUME Flights, InvalidIsJoined, [Next]_vars
    PROVE  Flights' /\ InvalidIsJoined'
<1>1. CASE UNCHANGED <<flight, thread>>
  BY <1>1 DEF Flights, InvalidIsJoined, Joined
<1>2. CASE \E r, base : Spawn(r, base)
  BY <1>2, SpawnIsValid DEF Flights, InvalidIsJoined
<1>3. CASE \E r \in Req : Consume(r)
  BY <1>3 DEF Consume, Flights, InvalidIsJoined, Joined, pool
<1>4. CASE \E w \in Thread : Gather(w)
  <2>1. ~Joined /\ UNCHANGED flight
    BY <1>4 DEF Gather, Hash, Read, Joined
  <2>2. DOMAIN thread' = DOMAIN thread
    BY <1>4 DEF Gather, Hash, Read
  <2> QED BY <2>1, <2>2 DEF Flights, InvalidIsJoined
<1> QED
  BY <1>1, <1>2, <1>3, <1>4
  DEF Next, Worker, StartPrefetched, StartGather, Lend, TakeBack, Abort, EndChunk, Leave,
      Dequant, Served, vars, pool

(* ple_spawn never finds a thread of an earlier flight unjoined.            *)
THEOREM SpawnsOverJoined == Spec => JoinedBeforeSpawn
<1> DEFINE Step == thread' = [w \in Thread |-> "hash"] /\ thread # thread' => Joined
<1>1. Init => Flights /\ InvalidIsJoined
  BY DEF Init, Flights, InvalidIsJoined, Joined
<1>2. Flights /\ InvalidIsJoined /\ [Next]_vars => (Flights /\ InvalidIsJoined)'
  BY FlightStep
<1>3. Flights /\ InvalidIsJoined /\ [Next]_vars => [Step]_vars
  <2> SUFFICES ASSUME Flights, InvalidIsJoined, Next,
                      thread' = [w \in Thread |-> "hash"], thread # thread'
               PROVE  Joined
    OBVIOUS
  <2>1. CASE \E r \in Req : StartGather(r)
    BY <2>1 DEF StartGather, Flights, InvalidIsJoined
  <2>2. CASE \E r \in Req : EndChunk(r)
    BY <2>2 DEF EndChunk, Flights, InvalidIsJoined, pool
  <2>3. ASSUME NEW w \in Thread, Gather(w) PROVE FALSE
    <3>1. thread'[w] \in {"barrier", "out"}
      BY <2>3 DEF Gather, Hash, Read, Flights
    <3> QED BY <3>1
  <2> QED
    BY <2>1, <2>2, <2>3
    DEF Next, Worker, StartPrefetched, Consume, Lend, TakeBack, Abort, Leave, Dequant, Served,
        vars, pool
<1> QED BY <1>1, <1>2, <1>3, PTL DEF Spec, JoinedBeforeSpawn

(* maxbatch_cap is the smaller of maxctx and maxbatch plus a slack, and no  *)
(* prompt is longer than maxctx: prefill_chunk's own limit is never hit.    *)
THEOREM ChunksFit ==
    ASSUME NEW remaining \in Nat \ {0}, NEW batch \in Nat \ {0}, NEW slack \in Nat,
           NEW maxctx \in Nat, remaining <= maxctx,
           NEW capacity, capacity = IF maxctx < batch + slack THEN maxctx ELSE batch + slack
    PROVE  /\ ChunkSize(remaining, batch, capacity) \in 1 .. remaining
           /\ ChunkSize(remaining, batch, capacity) <= capacity
BY DEF ChunkSize
-----------------------------------------------------------------------------
(* Types.                                                                   *)
Row == Req \X Nat
FlightRecord == [valid : BOOLEAN, rows : {NoRows} \cup Row, count : Int, buf : {0, 1},
                 into : Memory]
Entry == [buf : {0, 1}, from : Memory, need : Row]

Types ==
    /\ at \in [Req -> {"chunk", "embed", "layers", "lent", "done"}]
    /\ pos \in [Req -> Nat] /\ lends \in [Req -> 0 .. MaxLends]
    /\ owner \in SUBSET Req /\ bound \in SUBSET Req
    /\ flight \in FlightRecord /\ par \in {0, 1}
    /\ thread \in [Thread -> {"out", "hash", "barrier"}]
    /\ \A w \in Thread : thread[w] = "barrier" => w \in Pump
    /\ barrier \in Nat
    /\ addr \in [Thread -> {NoRows} \cup Row]
    /\ staged \in [Memory -> [Pump -> {NoRows} \cup Row]]
    /\ gpu \in Seq(Entry)
    /\ \A r \in Req : pos[r] <= Last(r)

(* The barrier counts the threads that have hashed.                         *)
Hashing == {w \in Thread : thread[w] = "hash"}
Counted == barrier + Cardinality(Hashing) <= NThread

(* A chunk has at least a row and ends at most at the prompt's end.         *)
LEMMA RowsFit ==
    ASSUME NEW r \in Req, NEW p \in Nat, p <= Last(r)
    PROVE  /\ Last(r) \in Nat /\ Prompt[r] \in Nat /\ RowsAt(r, p) \in Nat
           /\ p + RowsAt(r, p) <= Last(r)
           /\ p < Prompt[r] => RowsAt(r, p) > 0
           \* a chunk that does not end the prompt is a full one
           /\ p + RowsAt(r, p) < Prompt[r] => RowsAt(r, p) = Batch
<1>1. Prompt[r] \in Nat /\ Rounds[r] \in Nat /\ Batch \in Nat \ {0} /\ BatchCap \in Nat
  BY SizesAssumption, PromptAssumption DEF SizesAssumption, PromptAssumption
<1> QED BY <1>1 DEF Last, RowsAt, ChunkSize

LEMMA SpawnTyped ==
    ASSUME Types, NEW r \in Req, NEW p \in Nat, p <= Last(r), Spawn(r, p)
    PROVE  /\ flight' \in FlightRecord /\ thread' \in [Thread -> {"out", "hash", "barrier"}]
           /\ barrier' = 0 /\ addr' = addr /\ staged' = staged
           /\ flight'.valid /\ flight'.rows = <<r, p>> /\ flight'.count = RowsAt(r, p)
           /\ flight'.buf = par /\ flight'.into = MemoryOf(par)
           /\ \A w \in Thread : thread'[w] = "hash"
<1>1. MemoryOf(par) \in Memory /\ RowsAt(r, p) \in Int /\ <<r, p>> \in Row
  BY RowsFit DEF MemoryOf, Memory, Row
<1> QED BY <1>1 DEF Spawn, Types, FlightRecord

(* A flight does not count any more.                                        *)
LEMMA FlightDropped ==
    ASSUME Types, flight' = [flight EXCEPT !.valid = FALSE]
    PROVE  flight' \in FlightRecord /\ flight'.valid = FALSE
BY DEF Types, FlightRecord

LEMMA ConsumeTyped ==
    ASSUME Types, NEW r \in Req, Consume(r)
    PROVE  /\ gpu' \in Seq(Entry) /\ par' \in {0, 1}
           /\ gpu' = Append(gpu, [buf |-> flight.buf, from |-> MemoryOf(flight.buf),
                                  need |-> <<r, pos[r]>>])
<1>1. [buf |-> flight.buf, from |-> MemoryOf(flight.buf), need |-> <<r, pos[r]>>] \in Entry
  BY DEF Types, FlightRecord, Entry, Row, MemoryOf, Memory
<1>2. flight.buf \in {0, 1}
  BY DEF Types, FlightRecord
<1> QED BY <1>1, <1>2 DEF Consume, Types

LEMMA TypesStep ==
    ASSUME Types, [Next]_vars
    PROVE  Types'
<1> USE DEF Types
<1>1. ASSUME NEW r \in Req, StartPrefetched(r) \/ TakeBack(r) \/ Abort(r) \/ Leave(r)
      PROVE  Types'
  BY <1>1 DEF StartPrefetched, TakeBack, Abort, Leave, TakeGpu, pool, Last
<1>2. ASSUME NEW r \in Req, StartGather(r) PROVE Types'
  <2>1. Spawn(r, pos[r]) /\ pos[r] \in Nat /\ pos[r] <= Last(r)
    BY <1>2 DEF StartGather
  <2>2. /\ flight' \in FlightRecord /\ thread' \in [Thread -> {"out", "hash", "barrier"}]
        /\ barrier' = 0 /\ addr' = addr /\ staged' = staged
        /\ \A w \in Thread : thread'[w] = "hash"
    BY <2>1, SpawnTyped
  <2> QED BY <1>2, <2>2 DEF StartGather, TakeGpu, Last
<1>3. ASSUME NEW r \in Req, Consume(r) PROVE Types'
  <2>1. gpu' \in Seq(Entry) /\ par' \in {0, 1} /\ flight' \in FlightRecord
    BY <1>3, ConsumeTyped, FlightDropped DEF Consume
  <2> QED BY <1>3, <2>1 DEF Consume, pool, Last
<1>4. ASSUME NEW r \in Req, Lend(r) PROVE Types'
  <2>1. lends' \in [Req -> 0 .. MaxLends]
    BY <1>4, SizesAssumption DEF Lend, SizesAssumption
  <2> QED BY <1>4, <2>1 DEF Lend, pool, Last
<1>5. ASSUME NEW r \in Req, EndChunk(r) PROVE Types'
  <2> DEFINE next == pos[r] + Rows(r)
  <2>1. next \in Nat /\ next <= Last(r)
    BY RowsFit DEF Rows
  <2>2. /\ pos' = [pos EXCEPT ![r] = next]
        /\ Spawn(r, next) \/ UNCHANGED <<flight, pool>>
    BY <1>5 DEF EndChunk
  <2> HIDE DEF next
  <2>3. /\ flight' \in FlightRecord /\ thread' \in [Thread -> {"out", "hash", "barrier"}]
        /\ barrier' \in Nat /\ addr' = addr /\ staged' = staged
        /\ \A w \in Thread : thread'[w] = "barrier" => w \in Pump
    <3>1. CASE Spawn(r, next)
      BY <2>1, <3>1, SpawnTyped
    <3>2. CASE UNCHANGED <<flight, pool>>
      BY <3>2 DEF pool
    <3> QED BY <2>2, <3>1, <3>2
  <2>4. pos' \in [Req -> Nat] /\ \A q \in Req : pos'[q] <= Last(q)
    BY <2>1, <2>2
  <2>5. at' \in [Req -> {"chunk", "embed", "layers", "lent", "done"}]
    BY <1>5 DEF EndChunk
  <2> QED BY <1>5, <2>3, <2>4, <2>5 DEF EndChunk, Last
<1>6. ASSUME NEW w \in Thread, Gather(w) PROVE Types'
  <2>1. CASE Hash(w)
    BY <1>6, <2>1 DEF Hash, FlightRecord, Last
  <2>2. CASE Read(w)
    <3>1. w \in Pump
      BY <2>2 DEF Read
    <3> QED BY <2>2 DEF Read, FlightRecord, Last
  <2> QED BY <1>6, <2>1, <2>2 DEF Gather
<1>7. CASE Dequant
  BY <1>7 DEF Dequant, pool, Last
<1>8. CASE UNCHANGED vars
  BY <1>8 DEF vars, Last
<1> QED BY <1>1, <1>2, <1>3, <1>4, <1>5, <1>6, <1>7, <1>8 DEF Next, Worker, Served
(* The barrier is never passed by more threads than there are, and when it  *)
(* opens none is still hashing.                                             *)
LEMMA ThreadsFinite ==
    ASSUME NEW S \in SUBSET Thread
    PROVE  /\ IsFiniteSet(S) /\ Cardinality(S) \in Nat
           /\ Cardinality(S) <= NThread
<1>1. NThread \in Nat
  BY SizesAssumption DEF SizesAssumption
<1>2. IsFiniteSet(Thread) /\ Cardinality(Thread) = NThread
  BY <1>1, FS_Interval DEF Thread
<1> QED BY <1>2, FS_Subset, FS_CardinalityType

LEMMA HashingFinite ==
    /\ IsFiniteSet(Hashing) /\ Cardinality(Hashing) \in Nat
    /\ Cardinality(Hashing) <= NThread
<1>1. Hashing \in SUBSET Thread
  BY DEF Hashing
<1> QED BY <1>1, ThreadsFinite

LEMMA NoneHashing ==
    ASSUME Types, Counted, barrier >= NThread
    PROVE  \A w \in Thread : thread[w] # "hash"
<1>1. NThread \in Nat /\ barrier \in Nat
  BY SizesAssumption DEF SizesAssumption, Types
<1>2. Cardinality(Hashing) = 0
  BY <1>1, HashingFinite DEF Counted
<1>3. Hashing = {}
  BY <1>2, HashingFinite, FS_EmptySet
<1> QED BY <1>3 DEF Hashing

LEMMA CountedStep ==
    ASSUME Types, Counted, [Next]_vars
    PROVE  Counted'
<1>1. Types'
  BY TypesStep
<1>2. CASE UNCHANGED <<thread, barrier>>
  BY <1>2 DEF Counted, Hashing
<1>3. ASSUME NEW r \in Req, NEW p \in Nat, p <= Last(r), Spawn(r, p) PROVE Counted'
  <2>1. barrier' = 0
    BY <1>3, SpawnTyped
  <2>2. NThread \in Nat /\ Cardinality(Hashing') \in Nat /\ Cardinality(Hashing') <= NThread
    <3>1. Hashing' \in SUBSET Thread
      BY DEF Hashing
    <3> QED BY <3>1, ThreadsFinite, SizesAssumption DEF SizesAssumption
  <2> QED BY <2>1, <2>2 DEF Counted
<1>4. ASSUME NEW w \in Thread, Hash(w) PROVE Counted'
  <2>1. w \in Hashing /\ Hashing' = Hashing \ {w} /\ barrier' = barrier + 1
    BY <1>4 DEF Hash, Hashing, Types
  <2>2. Cardinality(Hashing') = Cardinality(Hashing) - 1
    BY <2>1, HashingFinite, FS_RemoveElement
  <2>3. NThread \in Nat /\ barrier \in Nat /\ Cardinality(Hashing) \in Nat
    BY HashingFinite, SizesAssumption DEF SizesAssumption, Types
  <2> QED BY <2>1, <2>2, <2>3 DEF Counted
<1>5. ASSUME NEW w \in Thread, Read(w) PROVE Counted'
  <2>1. Hashing' = Hashing /\ barrier' = barrier
    BY <1>5 DEF Read, Hashing, Types
  <2> QED BY <2>1 DEF Counted
<1>6. ASSUME NEW r \in Req, StartGather(r) PROVE Counted'
  BY <1>3, <1>6 DEF StartGather, Types
<1>7. ASSUME NEW r \in Req, EndChunk(r) PROVE Counted'
  <2> DEFINE next == pos[r] + Rows(r)
  <2>1. next \in Nat /\ next <= Last(r)
    BY RowsFit DEF Rows, Types
  <2>2. Spawn(r, next) \/ UNCHANGED <<flight, pool>>
    BY <1>7 DEF EndChunk
  <2> HIDE DEF next
  <2> QED BY <1>2, <1>3, <2>1, <2>2 DEF pool
<1> QED BY <1>2, <1>4, <1>5, <1>6, <1>7 DEF Next, Worker, Gather, StartPrefetched, Consume,
       Lend, TakeBack, Abort, Leave, Dequant, Served, vars, pool

LEMMA TypesInitially ==
    ASSUME Init
    PROVE  Types /\ Counted
<1> USE DEF Init
<1>1. flight \in FlightRecord /\ gpu \in Seq(Entry)
  BY DEF FlightRecord, Memory
<1>2. \A r \in Req : pos[r] \in Nat /\ pos[r] <= Last(r)
  BY PromptAssumption DEF PromptAssumption, Last
<1>3. lends \in [Req -> 0 .. MaxLends]
  BY SizesAssumption DEF SizesAssumption
<1>4. Types
  BY <1>1, <1>2, <1>3, PromptAssumption DEF Types, PromptAssumption
<1>5. Hashing = {}
  BY DEF Hashing
<1> QED BY <1>4, <1>5, FS_EmptySet, SizesAssumption DEF Counted, SizesAssumption

(* Every variable keeps its type, and the barrier's count its range.        *)
THEOREM TypesHold == Spec => []TypeOK
<1>1. Types /\ Counted => TypeOK
  <2> SUFFICES ASSUME Types, Counted PROVE TypeOK
    OBVIOUS
  <2>1. barrier \in 0 .. NThread
    BY HashingFinite, SizesAssumption DEF Counted, Types, SizesAssumption
  <2> QED BY <2>1 DEF Types, FlightRecord, TypeOK
<1>2. Init => Types /\ Counted
  BY TypesInitially
<1>3. Types /\ Counted /\ [Next]_vars => Types' /\ Counted'
  BY TypesStep, CountedStep
<1> QED BY <1>1, <1>2, <1>3, PTL DEF Spec
-----------------------------------------------------------------------------
(* Where flights and requests are.  Whoever embeds or computes owns the     *)
(* GPU; one request at most is lent, and while it is only light chunks run. *)
Turns ==
    /\ \A r \in Req : at[r] \in {"embed", "layers"} => owner = {r}
    /\ \A r, q \in Req : at[r] = "lent" /\ at[q] = "lent" => r = q
    /\ \A r \in Req : at[r] \in {"embed", "layers"} /\ Lent => Rows(r) <= LightRows

(* A chunk consumes its flight before its layers, and none is left behind   *)
(* while one is lent.                                                       *)
Underway ==
    /\ \A r \in Req : at[r] = "embed" => flight.valid
    /\ \A r \in Req : at[r] = "layers" => ~flight.valid
    /\ Lent /\ flight.valid => \E r \in Req : at[r] = "embed"

LEMMA TurnsStep ==
    ASSUME Types, Turns, [Next]_vars
    PROVE  Turns'
<1> USE DEF Types, Turns, Lent
<1>1. ASSUME NEW r \in Req, StartPrefetched(r) \/ StartGather(r) PROVE Turns'
  <2>1. /\ owner = {} /\ owner' = {r} /\ at[r] = "chunk" /\ at' = [at EXCEPT ![r] = "embed"]
        /\ Lent => Rows(r) <= LightRows
    <3>1. Rows(r) \in Int /\ LightRows \in Int
      BY RowsFit, SizesAssumption DEF Rows, SizesAssumption
    <3> QED BY <1>1, <3>1 DEF StartPrefetched, StartGather, MayStart, TakeGpu
  <2>2. pos' = pos
    BY <1>1 DEF StartPrefetched, StartGather
  <2> QED BY <2>1, <2>2 DEF Rows, RowsAt, Last
<1>2. ASSUME NEW r \in Req, Consume(r) PROVE Turns'
  BY <1>2 DEF Consume, Rows, RowsAt, Last
<1>3. ASSUME NEW r \in Req, Lend(r) PROVE Turns'
  BY <1>3 DEF Lend, Rows, RowsAt, Last
<1>4. ASSUME NEW r \in Req, TakeBack(r) PROVE Turns'
  BY <1>4 DEF TakeBack, TakeGpu, Rows, RowsAt, Last
<1>5. ASSUME NEW r \in Req, Abort(r) \/ Leave(r) PROVE Turns'
  BY <1>5 DEF Abort, Leave, TakeGpu, Rows, RowsAt, Last
<1>6. ASSUME NEW r \in Req, EndChunk(r) PROVE Turns'
  <2>1. /\ owner = {r} /\ at[r] = "layers" /\ at'[r] \in {"done", "chunk"}
        /\ \A q \in Req \ {r} : at'[q] = at[q]
    BY <1>6 DEF EndChunk
  <2>2. \A q \in Req : at'[q] \notin {"embed", "layers"}
    BY <2>1
  <2> QED BY <2>1, <2>2
<1>7. CASE UNCHANGED <<at, owner, pos>>
  BY <1>7 DEF Rows, RowsAt, Last
<1> QED BY <1>1, <1>2, <1>3, <1>4, <1>5, <1>6, <1>7 DEF Next, Worker, Gather, Hash, Read,
       Dequant, Served, vars

(* A light chunk that does not end its prompt would be a full one.          *)
LEMMA LightEnds ==
    ASSUME LightRows < Batch, Types, Turns, Lent, NEW r \in Req, EndChunk(r)
    PROVE  flight' = flight
<1> DEFINE next == pos[r] + Rows(r)
<1>1. /\ Rows(r) <= LightRows /\ LightRows \in Int /\ Batch \in Int
      /\ pos[r] \in Nat /\ pos[r] <= Last(r) /\ Rows(r) = RowsAt(r, pos[r])
  BY SizesAssumption DEF EndChunk, Turns, Types, SizesAssumption, Rows
<1>2. ~(next < Prompt[r])
  BY <1>1, RowsFit
<1> QED BY <1>2 DEF EndChunk

LEMMA UnderwayStep ==
    ASSUME LightRows < Batch, Types, Turns, Underway, [Next]_vars
    PROVE  Underway'
<1> USE DEF Underway, Lent
<1>1. ASSUME NEW r \in Req, StartPrefetched(r) \/ StartGather(r) PROVE Underway'
  <2>1. owner = {} /\ at' = [at EXCEPT ![r] = "embed"] /\ flight'.valid
    BY <1>1, SpawnIsValid DEF StartPrefetched, StartGather, TakeGpu, Matches
  <2> QED BY <2>1 DEF Types, Turns
<1>2. ASSUME NEW r \in Req, Consume(r) PROVE Underway'
  <2>1. flight'.valid = FALSE
    BY <1>2, FlightDropped DEF Consume
  <2>2. \A q \in Req : at'[q] # "embed"
    BY <1>2 DEF Consume, Types, Turns
  <2> QED BY <2>1, <2>2
<1>3. ASSUME NEW r \in Req, Lend(r) PROVE Underway'
  BY <1>3 DEF Lend, Types, Turns
<1>4. ASSUME NEW r \in Req, TakeBack(r) PROVE Underway'
  BY <1>4 DEF TakeBack, TakeGpu, Types, Turns
<1>5. ASSUME NEW r \in Req, Abort(r) PROVE Underway'
  <2>1. owner = {} /\ flight' = flight /\ at' = [at EXCEPT ![r] = "done"]
    BY <1>5 DEF Abort, TakeGpu
  <2>2. \A q \in Req : at[q] \notin {"embed", "layers"}
    BY <2>1 DEF Turns
  <2> QED BY <2>1, <2>2 DEF Types
<1>6. ASSUME NEW r \in Req, EndChunk(r) PROVE Underway'
  <2>1. /\ owner = {r} /\ at[r] = "layers" /\ at'[r] \in {"done", "chunk"}
        /\ \A q \in Req \ {r} : at'[q] = at[q]
    BY <1>6 DEF EndChunk, Types
  <2>2. \A q \in Req : at'[q] \notin {"embed", "layers"}
    BY <2>1 DEF Turns
  <2>3. Lent' => Lent
    BY <2>1
  <2>4. Lent => ~flight'.valid
    BY <1>6, <2>1, LightEnds
  <2> QED BY <2>2, <2>3, <2>4
<1>7. CASE UNCHANGED <<at, flight>>
  BY <1>7
<1> QED BY <1>1, <1>2, <1>3, <1>4, <1>5, <1>6, <1>7 DEF Next, Worker, Leave, Gather, Hash, Read,
       Dequant, Served, vars

FlightInv == Types /\ Counted /\ Flights /\ InvalidIsJoined /\ Turns /\ Underway

LEMMA FlightInvariant ==
    ASSUME LightRows < Batch
    PROVE  Spec => []FlightInv
<1>1. Init => FlightInv
  <2> SUFFICES ASSUME Init PROVE FlightInv
    OBVIOUS
  <2>1. Types /\ Counted
    BY TypesInitially
  <2> QED BY <2>1 DEF Init, FlightInv, Flights, InvalidIsJoined, Joined, Turns, Underway, Lent
<1>2. FlightInv /\ [Next]_vars => FlightInv'
  BY TypesStep, CountedStep, FlightStep, TurnsStep, UnderwayStep DEF FlightInv
<1> QED BY <1>1, <1>2, PTL DEF Spec

(* When light rounds are smaller than a chunk, a chunk is lent with no      *)
(* flight under way and the borrowers leave none behind: no thread writes   *)
(* to a workspace that has been swapped out.                                *)
THEOREM NoFlightIsLeft ==
    ASSUME LightRows < Batch
    PROVE  Spec => []FlightsAreSound
<1>1. FlightInv => NoFlightLeftLent
  <2> SUFFICES ASSUME FlightInv, Lent, owner = {} PROVE Joined /\ ~flight.valid
    BY DEF NoFlightLeftLent
  <2>1. ~flight.valid
    BY DEF FlightInv, Underway, Turns
  <2> QED BY <2>1 DEF FlightInv, InvalidIsJoined, Flights
<1>2. TypeOK /\ NoFlightLeftLent => FlightsAreSound
  BY DEF FlightsAreSound
<1> QED BY TypesHold, FlightInvariant, <1>1, <1>2, PTL
-----------------------------------------------------------------------------
(* Whose rows are staged.  A flight is taken by its position and its number *)
(* of rows, so prompts must not meet in both: Reach bounds the positions    *)
(* each request comes to, and no two requests come to one position with     *)
(* chunks of one size while the first still has prompt rows to ingest.      *)
Apart(Reach) ==
    /\ Reach \in [Req -> SUBSET Nat]
    /\ \A r \in Req : Start[r] \in Reach[r]
    /\ \A r \in Req : \A p \in Reach[r] : p <= Last(r) => p + RowsAt(r, p) \in Reach[r]
    /\ \A q, r \in Req : \A p \in Reach[q] \cap Reach[r] :
        /\ q # r /\ p < Prompt[q]
        /\ RowsAt(r, p) > 0
        => RowsAt(q, p) # RowsAt(r, p)

(* A flight is for a position its request comes to; one nobody is embedding *)
(* is a prefetch of prompt rows; the one being embedded is one's own.       *)
FlightNamed(Reach) ==
    /\ \A r \in Req : pos[r] \in Reach[r]
    /\ flight.valid =>
        \E q \in Req, p \in Nat :
            /\ flight.rows = <<q, p>> /\ p \in Reach[q] /\ flight.count = RowsAt(q, p)
            /\ (\A r \in Req : at[r] # "embed") => p < Prompt[q]
    /\ \A r \in Req : at[r] = "embed" => flight.rows = <<r, pos[r]>>

(* Its threads write where its dequant will look, and nowhere a dequant     *)
(* still looks.                                                             *)
FlightPlaced ==
    /\ flight.valid => Consumed(flight.buf) /\ flight.into = MemoryOf(flight.buf)
    /\ \A i \in DOMAIN gpu : gpu[i].from = "second" <=> gpu[i].buf = 1

FlightFilled ==
    flight.valid =>
        /\ \A u \in Thread : thread[u] # "hash" => addr[u] = flight.rows
        /\ \A w \in Pump : thread[w] = "out" => staged[flight.into][w] = flight.rows

LEMMA NamedStep ==
    ASSUME NEW Reach, Apart(Reach), FlightInv, FlightNamed(Reach), [Next]_vars
    PROVE  FlightNamed(Reach)'
<1> USE DEF FlightNamed
<1>1. Types /\ Turns /\ Underway /\ Reach \in [Req -> SUBSET Nat]
  BY DEF FlightInv, Apart
<1>2. ASSUME NEW r \in Req, StartPrefetched(r) PROVE FlightNamed(Reach)'
  <2>1. /\ owner = {} /\ at' = [at EXCEPT ![r] = "embed"] /\ flight' = flight /\ pos' = pos
        /\ Rows(r) > 0 /\ flight.valid /\ flight.rows[2] = pos[r] /\ flight.count = Rows(r)
    BY <1>2 DEF StartPrefetched, MayStart, TakeGpu, Matches
  <2>2. PICK q \in Req, p \in Nat :
            /\ flight.rows = <<q, p>> /\ p \in Reach[q] /\ flight.count = RowsAt(q, p)
            /\ (\A s \in Req : at[s] # "embed") => p < Prompt[q]
    BY <2>1
  <2>3. \A s \in Req : at[s] # "embed"
    BY <1>1, <2>1 DEF Turns
  <2>4. p = pos[r] /\ RowsAt(q, p) = RowsAt(r, p) /\ p \in Reach[r] /\ RowsAt(r, p) > 0
    <3>1. flight.rows[2] = p
      BY <2>2
    <3> QED BY <2>1, <2>2, <3>1 DEF Rows
  <2>5. q = r
    BY <2>2, <2>3, <2>4 DEF Apart
  <2>6. \A s \in Req : at'[s] = "embed" => s = r
    BY <1>1, <2>1, <2>3 DEF Types
  <2>7. at'[r] = "embed"
    BY <1>1, <2>1 DEF Types
  <2> QED BY <2>1, <2>2, <2>4, <2>5, <2>6, <2>7
<1>3. ASSUME NEW r \in Req, StartGather(r) PROVE FlightNamed(Reach)'
  <2>1. /\ owner = {} /\ at' = [at EXCEPT ![r] = "embed"] /\ pos' = pos /\ Spawn(r, pos[r])
    BY <1>3 DEF StartGather, TakeGpu
  <2>2. flight'.rows = <<r, pos[r]>> /\ flight'.count = RowsAt(r, pos[r]) /\ pos[r] \in Nat
    BY <1>1, <2>1, SpawnTyped DEF Types
  <2>3. at'[r] = "embed" /\ \A s \in Req : at'[s] = "embed" => s = r
    BY <1>1, <2>1 DEF Types, Turns
  <2>4. RowsAt(r, pos[r])' = RowsAt(r, pos[r])
    BY <2>1 DEF RowsAt, Last
  <2> QED BY <2>1, <2>2, <2>3
<1>4. ASSUME NEW r \in Req, Consume(r) PROVE FlightNamed(Reach)'
  <2>1. flight'.valid = FALSE /\ pos' = pos
    BY <1>1, <1>4, FlightDropped DEF Consume
  <2>2. \A q \in Req : at'[q] # "embed"
    BY <1>1, <1>4 DEF Consume, Types, Turns
  <2> QED BY <2>1, <2>2
<1>5. ASSUME NEW r \in Req, EndChunk(r) PROVE FlightNamed(Reach)'
  <2> DEFINE next == pos[r] + RowsAt(r, pos[r])
  <2>1. /\ pos[r] \in Nat /\ pos[r] <= Last(r) /\ next \in Nat /\ next <= Last(r)
        /\ next \in Reach[r]
    BY <1>1, RowsFit DEF Types, Apart
  <2>2. /\ pos' = [pos EXCEPT ![r] = next]
        /\ (next < Prompt[r] /\ Spawn(r, next)) \/ UNCHANGED flight
    BY <1>5 DEF EndChunk, Rows
  <2>3. ~flight.valid /\ \A s \in Req : at'[s] # "embed"
    BY <1>1, <1>5 DEF EndChunk, Types, Turns, Underway
  <2> HIDE DEF next
  <2>4. \A s \in Req : pos'[s] \in Reach[s]
    BY <1>1, <2>1, <2>2 DEF Types
  <2>5. CASE next < Prompt[r] /\ Spawn(r, next)
    <3>1. flight'.rows = <<r, next>> /\ flight'.count = RowsAt(r, next)
      BY <1>1, <2>1, <2>5, SpawnTyped
    <3> QED BY <2>1, <2>3, <2>4, <2>5, <3>1
  <2>6. CASE UNCHANGED flight
    BY <2>3, <2>4, <2>6
  <2> QED BY <2>2, <2>5, <2>6
<1>6. ASSUME NEW r \in Req, Lend(r) \/ TakeBack(r) \/ Abort(r) PROVE FlightNamed(Reach)'
  <2>1. /\ pos' = pos /\ flight' = flight
        /\ \A s \in Req : at'[s] = "embed" <=> at[s] = "embed"
    BY <1>1, <1>6 DEF Lend, TakeBack, Abort, Types
  <2> QED BY <2>1
<1>7. CASE UNCHANGED <<at, flight, pos>>
  BY <1>7
<1> QED BY <1>2, <1>3, <1>4, <1>5, <1>6, <1>7 DEF Next, Worker, Leave, Gather, Hash, Read,
       Dequant, Served, vars
(* The GPU is lent or taken back only when no flight is under way.          *)
LEMMA LentStays ==
    ASSUME FlightInv, [Next]_vars, flight.valid, flight'.valid
    PROVE  Lent' = Lent
<1> USE DEF Lent
<1>1. Types /\ Turns /\ Underway
  BY DEF FlightInv
<1>2. ASSUME NEW r \in Req, StartPrefetched(r) \/ StartGather(r) PROVE Lent' = Lent
  <2>1. at[r] = "chunk" /\ at' = [at EXCEPT ![r] = "embed"]
    BY <1>2 DEF StartPrefetched, StartGather, MayStart
  <2> QED BY <1>1, <2>1 DEF Types
<1>3. ASSUME NEW r \in Req, Consume(r) PROVE FALSE
  BY <1>1, <1>3, FlightDropped DEF Consume
<1>4. ASSUME NEW r \in Req, Lend(r) \/ EndChunk(r) PROVE FALSE
  BY <1>1, <1>4 DEF Lend, EndChunk, Underway
<1>5. ASSUME NEW r \in Req, TakeBack(r) PROVE FALSE
  BY <1>1, <1>5 DEF TakeBack, TakeGpu, Turns, Underway
<1>6. ASSUME NEW r \in Req, Abort(r) PROVE Lent' = Lent
  <2>1. owner = {} /\ at' = [at EXCEPT ![r] = "done"]
    BY <1>6 DEF Abort, TakeGpu
  <2>2. ~Lent
    BY <1>1, <2>1 DEF Turns, Underway
  <2> QED BY <1>1, <2>1, <2>2 DEF Types
<1>7. CASE at' = at
  BY <1>7
<1> QED BY <1>2, <1>3, <1>4, <1>5, <1>6, <1>7 DEF Next, Worker, Leave, Gather, Hash, Read,
       Dequant, Served, vars

LEMMA PlacedStep ==
    ASSUME FlightInv, FlightPlaced, [Next]_vars
    PROVE  FlightPlaced'
<1>1. Types /\ Turns /\ Underway /\ gpu \in Seq(Entry)
  BY DEF FlightInv, Types
<1>2. ASSUME NEW r \in Req, NEW p \in Nat, p <= Last(r), Spawn(r, p), gpu' = gpu, Lent' = Lent
      PROVE  FlightPlaced'
  <2>1. flight'.buf = par /\ flight'.into = MemoryOf(par) /\ Consumed(par)
    BY <1>1, <1>2, SpawnTyped DEF Spawn
  <2>3. flight'.into = MemoryOf(flight.buf)'
    BY <1>2, <2>1 DEF MemoryOf
  <2>4. Consumed(flight.buf)'
    BY <1>2, <2>1 DEF Consumed
  <2> QED BY <1>2, <2>3, <2>4 DEF FlightPlaced
<1>3. ASSUME NEW r \in Req, StartGather(r) PROVE FlightPlaced'
  <2>1. /\ Spawn(r, pos[r]) /\ gpu' = gpu /\ pos[r] \in Nat /\ pos[r] <= Last(r)
        /\ at[r] = "chunk" /\ at' = [at EXCEPT ![r] = "embed"]
    BY <1>1, <1>3 DEF StartGather, MayStart, Types
  <2>2. Lent' = Lent
    BY <1>1, <2>1 DEF Lent, Types
  <2> QED BY <1>2, <2>1, <2>2
<1>4. ASSUME NEW r \in Req, EndChunk(r) PROVE FlightPlaced'
  <2> DEFINE next == pos[r] + Rows(r)
  <2>1. next \in Nat /\ next <= Last(r)
    BY <1>1, RowsFit DEF Rows, Types
  <2>2. Spawn(r, next) \/ flight' = flight
    BY <1>4 DEF EndChunk
  <2> HIDE DEF next
  <2>3. /\ gpu' = gpu /\ at[r] = "layers" /\ at'[r] \in {"done", "chunk"}
        /\ \A q \in Req \ {r} : at'[q] = at[q]
    BY <1>1, <1>4 DEF EndChunk, Types
  <2>4. Lent' = Lent
    BY <2>3 DEF Lent
  <2>5. CASE Spawn(r, next)
    BY <1>2, <2>1, <2>3, <2>4, <2>5
  <2>6. CASE flight' = flight
    BY <2>3, <2>4, <2>6 DEF FlightPlaced, MemoryOf, Consumed
  <2> QED BY <2>2, <2>5, <2>6
<1>5. ASSUME NEW r \in Req, Consume(r) PROVE FlightPlaced'
  <2> DEFINE new == [buf |-> flight.buf, from |-> MemoryOf(flight.buf), need |-> <<r, pos[r]>>]
  <2>1. flight'.valid = FALSE /\ gpu' = Append(gpu, new)
    BY <1>1, <1>5, ConsumeTyped, FlightDropped DEF Consume
  <2>2. new.from = "second" <=> new.buf = 1
    BY DEF MemoryOf
  <2> HIDE DEF new
  <2>3. \A i \in DOMAIN gpu' : gpu'[i] = new \/ (i \in DOMAIN gpu /\ gpu'[i] = gpu[i])
    BY <1>1, <2>1
  <2> QED BY <2>1, <2>2, <2>3 DEF FlightPlaced
<1>6. CASE flight' = flight /\ gpu' = gpu
  <2>1. flight.valid => Lent' = Lent
    BY <1>6, LentStays
  <2> QED BY <1>6, <2>1 DEF FlightPlaced, MemoryOf, Consumed
<1>7. CASE Dequant
  <2>1. flight' = flight /\ at' = at /\ gpu' = Tail(gpu) /\ gpu # <<>>
    BY <1>7 DEF Dequant
  <2>2. \A i \in DOMAIN gpu' : i + 1 \in DOMAIN gpu /\ gpu'[i] = gpu[i + 1]
    BY <1>1, <2>1
  <2> QED BY <2>1, <2>2 DEF FlightPlaced, MemoryOf, Consumed, Lent
<1> QED BY <1>3, <1>4, <1>5, <1>6, <1>7 DEF Next, Worker, StartPrefetched, Lend, TakeBack, Abort,
       Leave, Gather, Hash, Read, Served, vars

LEMMA FilledStep ==
    ASSUME FlightInv, FlightFilled, [Next]_vars
    PROVE  FlightFilled'
<1>1. Types /\ Counted
  BY DEF FlightInv
<1>2. ASSUME NEW r \in Req, NEW p \in Nat, p <= Last(r), Spawn(r, p) PROVE FlightFilled'
  <2>1. \A w \in Thread : thread'[w] = "hash"
    BY <1>1, <1>2, SpawnTyped
  <2>2. Pump \subseteq Thread
    BY SizesAssumption DEF SizesAssumption, Pump, Thread
  <2> QED BY <2>1, <2>2 DEF FlightFilled
<1>3. ASSUME NEW r \in Req, StartGather(r) PROVE FlightFilled'
  BY <1>1, <1>2, <1>3 DEF StartGather, Types
<1>4. ASSUME NEW r \in Req, EndChunk(r) PROVE FlightFilled'
  <2> DEFINE next == pos[r] + Rows(r)
  <2>1. next \in Nat /\ next <= Last(r)
    BY <1>1, RowsFit DEF Rows, Types
  <2>2. Spawn(r, next) \/ UNCHANGED <<flight, pool>>
    BY <1>4 DEF EndChunk
  <2> HIDE DEF next
  <2> QED BY <1>2, <2>1, <2>2 DEF FlightFilled, pool
<1>5. ASSUME NEW r \in Req, Consume(r) PROVE FlightFilled'
  BY <1>1, <1>5, FlightDropped DEF Consume, FlightFilled
<1>6. ASSUME NEW w \in Thread, Hash(w) PROVE FlightFilled'
  BY <1>1, <1>6 DEF Hash, FlightFilled, Types
<1>7. ASSUME NEW w \in Thread, Read(w) PROVE FlightFilled'
  <2>1. w \in Pump /\ \A u \in Thread : thread[u] # "hash"
    BY <1>1, <1>7, NoneHashing DEF Read, Types
  <2>2. flight' = flight /\ addr' = addr /\ thread' = [thread EXCEPT ![w] = "out"]
    BY <1>7 DEF Read
  <2>3. ASSUME flight.valid
        PROVE  staged' = [staged EXCEPT ![flight.into][w] = flight.rows]
    BY <1>7, <2>1, <2>3 DEF Read, FlightFilled
  <2>4. flight.into \in Memory
    BY <1>1 DEF Types, FlightRecord
  <2> QED BY <1>1, <2>1, <2>2, <2>3, <2>4 DEF FlightFilled, Types
<1>8. CASE UNCHANGED <<flight, pool>>
  BY <1>8 DEF FlightFilled, pool
<1> QED BY <1>3, <1>4, <1>5, <1>6, <1>7, <1>8 DEF Next, Worker, StartPrefetched, Lend, TakeBack,
       Abort, Leave, Gather, Dequant, Served, vars, pool

LEMMA OwnRowsStep ==
    ASSUME NEW Reach, FlightInv, FlightNamed(Reach), FlightPlaced, FlightFilled, OwnRows,
           [Next]_vars
    PROVE  OwnRows'
<1>1. Types /\ gpu \in Seq(Entry) /\ Underway /\ InvalidIsJoined /\ flight.valid \in BOOLEAN
  BY DEF FlightInv, Types, Flights
<1>2. CASE UNCHANGED <<gpu, staged>>
  BY <1>2 DEF OwnRows
<1>3. ASSUME NEW r \in Req, Consume(r) PROVE OwnRows'
  <2> DEFINE new == [buf |-> flight.buf, from |-> MemoryOf(flight.buf), need |-> <<r, pos[r]>>]
  <2>1. gpu' = Append(gpu, new) /\ staged' = staged /\ at[r] = "embed" /\ Joined
    BY <1>1, <1>3, ConsumeTyped DEF Consume, pool
  <2>2. /\ flight.valid /\ flight.rows = <<r, pos[r]>> /\ flight.into = MemoryOf(flight.buf)
    BY <1>1, <2>1 DEF Underway, FlightNamed, FlightPlaced
  <2>3. \A w \in Pump : w \in Thread
    BY SizesAssumption DEF SizesAssumption, Pump, Thread
  <2>4. \A w \in Pump : staged[new.from][w] = new.need
    BY <2>1, <2>2, <2>3 DEF FlightFilled, Joined
  <2> HIDE DEF new
  <2>5. \A i \in DOMAIN gpu' : gpu'[i] = new \/ (i \in DOMAIN gpu /\ gpu'[i] = gpu[i])
    BY <1>1, <2>1
  <2> QED BY <2>1, <2>4, <2>5 DEF OwnRows
<1>4. ASSUME NEW w \in Thread, Read(w) PROVE OwnRows'
  <2>1. flight.valid
    BY <1>1, <1>4 DEF Read, InvalidIsJoined, Joined
  <2>2. gpu' = gpu /\ \A m \in Memory \ {flight.into} : staged'[m] = staged[m]
    BY <1>1, <1>4 DEF Read, Types
  <2>3. flight.buf \in {0, 1} /\ (flight.into = "second" <=> flight.buf = 1)
    BY <1>1, <2>1 DEF Types, FlightRecord, FlightPlaced, MemoryOf
  <2>4. ASSUME NEW i \in DOMAIN gpu PROVE gpu[i].from \in Memory \ {flight.into}
    <3>1. gpu[i] \in Entry
      BY <1>1
    <3>2. gpu[i].from \in Memory /\ gpu[i].buf \in {0, 1}
      BY <3>1 DEF Entry
    <3>3. gpu[i].buf # flight.buf /\ (gpu[i].from = "second" <=> gpu[i].buf = 1)
      BY <2>1 DEF FlightPlaced, Consumed
    <3> QED BY <2>3, <3>2, <3>3
  <2> QED BY <2>2, <2>4 DEF OwnRows
<1>5. CASE Dequant
  <2>1. staged' = staged /\ gpu' = Tail(gpu) /\ gpu # <<>>
    BY <1>5 DEF Dequant, pool
  <2>2. \A i \in DOMAIN gpu' : i + 1 \in DOMAIN gpu /\ gpu'[i] = gpu[i + 1]
    BY <1>1, <2>1
  <2> QED BY <2>1, <2>2 DEF OwnRows
<1>6. ASSUME NEW r, NEW p, Spawn(r, p) PROVE staged' = staged
  BY <1>6 DEF Spawn
<1> QED BY <1>2, <1>3, <1>4, <1>5, <1>6 DEF Next, Worker, StartPrefetched, StartGather, Lend,
       TakeBack, Abort, EndChunk, Leave, Gather, Hash, Served, vars, pool

(* "each one computes exactly what it would alone": prompts that never meet *)
(* at one position with chunks of one size, and light rounds smaller than a *)
(* chunk, are dequantized from their own rows, all of them, for any number  *)
(* of prompts and threads.                                                  *)
THEOREM DequantsReadTheirOwn ==
    ASSUME LightRows < Batch, NEW CONSTANT Reach, Apart(Reach)
    PROVE  Spec => []OwnRows
<1> DEFINE RowsInv == FlightNamed(Reach) /\ FlightPlaced /\ FlightFilled /\ OwnRows
<1>1. Init => RowsInv
  BY DEF Init, Apart, FlightNamed, FlightPlaced, FlightFilled, OwnRows
<1>2. FlightInv /\ RowsInv /\ [Next]_vars => RowsInv'
  BY NamedStep, PlacedStep, FilledStep, OwnRowsStep
<1>3. RowsInv => OwnRows
  OBVIOUS
<1> HIDE DEF RowsInv
<1> QED BY FlightInvariant, <1>1, <1>2, <1>3, PTL DEF Spec
=============================================================================
