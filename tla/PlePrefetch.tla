---------------------------- MODULE PlePrefetch ----------------------------
(***************************************************************************)
(* The PLE gather of parts/40_model.inc: the embedding rows of a chunk are *)
(* read from disk by host threads into pinned staging (a "flight") while   *)
(* the GPU runs the layers of the chunk before; the GPU dequantizes them   *)
(* from there, asynchronously.  One flight, two staging buffers, shared by *)
(* every sequence slot; the first buffer is swapped for a small one while  *)
(* a chunk is lent.                                                        *)
(*                                                                         *)
(* A set of rows is named by the request and the position of its first     *)
(* token.  Which worker owns the GPU next is a choice (ServeSched has the  *)
(* queue); the flight's threads and the GPU run beside the owner.          *)
(***************************************************************************)
EXTENDS ChunkSizes, FiniteSets, Sequences

CONSTANTS
    Req,        \* prompts being ingested, each on a slot of its own
    Start,      \* request -> rows of its prompt a checkpoint already covered
    Prompt,     \* request -> prompt length
    Rounds,     \* request -> rows of the decode round that follows, 0 if none
    Batch,      \* rows of a prefill chunk (maxbatch)
    BatchCap,   \* maxbatch_cap
    LightRows,  \* conc_rmax_
    NThread,    \* threads of a flight
    NPump,      \* those of them that read from disk
    MaxLends,   \* bound: times a request lends the GPU
    Victims     \* requests a pool overflow may abort

Thread == 1 .. NThread
Pump == 1 .. NPump

ASSUME SizesAssumption ==
    /\ Batch \in Nat \ {0} /\ BatchCap \in Nat /\ LightRows \in Nat
    /\ NThread \in Nat /\ NPump \in 1 .. NThread /\ MaxLends \in Nat
ASSUME PromptAssumption ==
    /\ Start \in [Req -> Nat] /\ Prompt \in [Req -> Nat] /\ Rounds \in [Req -> Nat]
    /\ \A r \in Req : Start[r] < Prompt[r]

VARIABLES
    at,       \* where each request is
    pos,      \* rows it has ingested
    lends,    \* times it lent the GPU
    owner,    \* the request whose worker owns the GPU, {} between owners
    bound,    \* the request whose slot is bound
    flight,   \* ple_fl
    par,      \* ple_par: the buffer the next gather writes
    thread,   \* where each thread of the flight is
    barrier,  \* threads that passed the address phase
    addr,     \* whose row addresses each thread left in fl.addrs
    staged,   \* staging memory -> pump -> whose rows it last read into it
    gpu       \* dequants enqueued, not yet run

vars == <<at, pos, lends, owner, bound, flight, par, thread, barrier, addr, staged, gpu>>
pool == <<thread, barrier, addr, staged>>

NoRows == <<>>
Memory == {"first", "second", "small"}

Init ==
    /\ at = [r \in Req |-> "chunk"]
    /\ pos = Start
    /\ lends = [r \in Req |-> 0]
    /\ owner = {} /\ bound = {}
    /\ flight = [valid |-> FALSE, rows |-> NoRows, count |-> 0, buf |-> 0, into |-> "first"]
    /\ par = 0
    /\ thread = [w \in Thread |-> "out"]
    /\ barrier = 0
    /\ addr = [w \in Thread |-> NoRows]
    /\ staged = [m \in Memory |-> [w \in Pump |-> NoRows]]
    /\ gpu = <<>>
-----------------------------------------------------------------------------
Last(r) == Prompt[r] + Rounds[r]
Decoding(r) == pos[r] >= Prompt[r]
(* Rows of the next chunk or round at `base`, 0 at the end.                 *)
RowsAt(r, base) ==
    IF base < Prompt[r] THEN ChunkSize(Prompt[r] - base, Batch, BatchCap) ELSE Last(r) - base
Rows(r) == RowsAt(r, pos[r])

Lent == \E r \in Req : at[r] = "lent"
MemoryOf(buf) == IF buf = 1 THEN "second" ELSE IF Lent THEN "small" ELSE "first"

Joined == \A w \in Thread : thread[w] = "out"
(* hipEventSynchronize of the event the last dequant of `buf` recorded.     *)
Consumed(buf) == \A i \in DOMAIN gpu : gpu[i].buf # buf

(* Variant: the staging buffer is not waited for.                           *)
SpawnAtOnce(r, base) ==
    /\ flight' = [valid |-> TRUE, rows |-> <<r, base>>, count |-> RowsAt(r, base),
                  buf |-> par, into |-> MemoryOf(par)]
    /\ thread' = [w \in Thread |-> "hash"]
    /\ barrier' = 0
    /\ UNCHANGED <<addr, staged>>

(* ple_spawn.                                                               *)
Spawn(r, base) ==
    /\ Consumed(par)
    /\ flight' = [valid |-> TRUE, rows |-> <<r, base>>, count |-> RowsAt(r, base),
                  buf |-> par, into |-> MemoryOf(par)]
    /\ thread' = [w \in Thread |-> "hash"]
    /\ barrier' = 0
    /\ UNCHANGED <<addr, staged>>

(* The next worker gets the GPU and binds its slot, which waits for the     *)
(* device when another slot was bound.                                      *)
TakeGpu(r) ==
    /\ owner = {}
    /\ bound = {r} \/ gpu = <<>>
    /\ owner' = {r} /\ bound' = {r}

(* A heavy chunk requeues while one is lent (borrow_skip).                  *)
MayStart(r) ==
    /\ at[r] = "chunk" /\ Rows(r) > 0
    /\ Rows(r) > LightRows => ~Lent

(* prefill_chunk takes a flight for its position and its number of rows.    *)
Matches(r) == flight.valid /\ flight.rows # NoRows
              /\ flight.rows[2] = pos[r] /\ flight.count = Rows(r)

StartPrefetched(r) ==
    /\ MayStart(r) /\ TakeGpu(r)
    /\ Matches(r)
    /\ at' = [at EXCEPT ![r] = "embed"]
    /\ UNCHANGED <<pos, lends, flight, par, pool, gpu>>

(* Variant: a stale flight is dropped without waiting for its threads.      *)
StartGatherUnjoined(r) ==
    /\ MayStart(r) /\ TakeGpu(r)
    /\ ~Matches(r)
    /\ Spawn(r, pos[r])
    /\ at' = [at EXCEPT ![r] = "embed"]
    /\ UNCHANGED <<pos, lends, par, gpu>>

(* Otherwise it finishes and drops a stale flight and starts its own.       *)
StartGather(r) ==
    /\ MayStart(r) /\ TakeGpu(r)
    /\ ~Matches(r)
    /\ flight.valid => Joined
    /\ Spawn(r, pos[r])
    /\ at' = [at EXCEPT ![r] = "embed"]
    /\ UNCHANGED <<pos, lends, par, gpu>>

(* Variant: the consumed flight still counts as one.                        *)
ConsumeStaysValid(r) ==
    /\ at[r] = "embed" /\ Joined
    /\ gpu' = Append(gpu, [buf |-> flight.buf, from |-> MemoryOf(flight.buf),
                           need |-> <<r, pos[r]>>])
    /\ par' = 1 - flight.buf
    /\ at' = [at EXCEPT ![r] = "layers"]
    /\ UNCHANGED <<pos, lends, owner, bound, flight, pool>>

(* After layer 0: join the flight, enqueue the dequant of its buffer.       *)
Consume(r) ==
    /\ at[r] = "embed" /\ Joined
    /\ flight' = [flight EXCEPT !.valid = FALSE]
    /\ gpu' = Append(gpu, [buf |-> flight.buf, from |-> MemoryOf(flight.buf),
                           need |-> <<r, pos[r]>>])
    /\ par' = 1 - flight.buf
    /\ at' = [at EXCEPT ![r] = "layers"]
    /\ UNCHANGED <<pos, lends, owner, bound, pool>>

(* conc_borrow_yield: the GPU drained, the small workspace swapped in.      *)
Lend(r) ==
    /\ at[r] = "layers" /\ owner = {r} /\ Rows(r) > LightRows /\ ~Lent
    /\ gpu = <<>>
    /\ lends[r] < MaxLends
    /\ \E q \in Req \ {r} : at[q] # "done"
    /\ lends' = [lends EXCEPT ![r] = @ + 1]
    /\ at' = [at EXCEPT ![r] = "lent"]
    /\ owner' = {}
    /\ UNCHANGED <<pos, bound, flight, par, pool, gpu>>

TakeBack(r) ==
    /\ at[r] = "lent" /\ TakeGpu(r)
    /\ at' = [at EXCEPT ![r] = "layers"]
    /\ UNCHANGED <<pos, lends, flight, par, pool, gpu>>

(* A worker that finds itself aborted at a hand-over leaves; whatever       *)
(* flight it had started stays.                                             *)
Abort(r) ==
    /\ r \in Victims /\ TakeGpu(r)
    /\ at[r] = "lent" \/ (at[r] = "chunk" /\ pos[r] > 0)   \* it has pages to lose
    /\ at' = [at EXCEPT ![r] = "done"]
    /\ UNCHANGED <<pos, lends, flight, par, pool, gpu>>

(* The chunk is done: the next one's gather starts, the GPU changes hands.  *)
EndChunk(r) ==
    /\ at[r] = "layers" /\ owner = {r}
    /\ Decoding(r) => gpu = <<>>      \* the round reads its argmax back
    /\ LET next == pos[r] + Rows(r)
       IN  /\ pos' = [pos EXCEPT ![r] = next]
           /\ IF next < Prompt[r] /\ ~flight.valid
              THEN Spawn(r, next) ELSE UNCHANGED <<flight, pool>>
           /\ at' = [at EXCEPT ![r] = IF next = Last(r) THEN "done" ELSE "chunk"]
    /\ owner' = {}
    /\ UNCHANGED <<lends, bound, par, gpu>>

(* A done request's worker leaves the GPU.                                  *)
Leave(r) ==
    /\ at[r] = "done" /\ owner = {r}
    /\ owner' = {}
    /\ UNCHANGED <<at, pos, lends, bound, flight, par, pool, gpu>>
-----------------------------------------------------------------------------
(* Variant: a thread that does not read leaves without counting itself.     *)
HashUncounted(w) ==
    /\ thread[w] = "hash"
    /\ addr' = [addr EXCEPT ![w] = flight.rows]
    /\ barrier' = IF w \in Pump THEN barrier + 1 ELSE barrier
    /\ thread' = [thread EXCEPT ![w] = IF w \in Pump THEN "barrier" ELSE "out"]
    /\ UNCHANGED <<at, pos, lends, owner, bound, flight, par, staged, gpu>>

(* Every thread computes the addresses of its share of the rows ...         *)
Hash(w) ==
    /\ thread[w] = "hash"
    /\ addr' = [addr EXCEPT ![w] = flight.rows]
    /\ barrier' = barrier + 1
    /\ thread' = [thread EXCEPT ![w] = IF w \in Pump THEN "barrier" ELSE "out"]
    /\ UNCHANGED <<at, pos, lends, owner, bound, flight, par, staged, gpu>>

(* ... and when all are there each pump reads its share, in token order.    *)
Read(w) ==
    /\ thread[w] = "barrier" /\ barrier >= NThread
    /\ staged' = [staged EXCEPT ![flight.into][w] =
                    IF \A u \in Thread : addr[u] = addr[w] THEN addr[w] ELSE NoRows]
    /\ thread' = [thread EXCEPT ![w] = "out"]
    /\ UNCHANGED <<at, pos, lends, owner, bound, flight, par, barrier, addr, gpu>>

Dequant ==
    /\ gpu # <<>>
    /\ gpu' = Tail(gpu)
    /\ UNCHANGED <<at, pos, lends, owner, bound, flight, par, pool>>

Served == (\A r \in Req : at[r] = "done") /\ owner = {} /\ UNCHANGED vars

Worker(r) == StartPrefetched(r) \/ StartGather(r) \/ Consume(r) \/ Lend(r)
             \/ TakeBack(r) \/ Abort(r) \/ EndChunk(r) \/ Leave(r)
Gather(w) == Hash(w) \/ Read(w)

Next == (\E r \in Req : Worker(r)) \/ (\E w \in Thread : Gather(w)) \/ Dequant \/ Served

(* Threads are scheduled, the device finishes what it was given, and the    *)
(* Turnstile gives every worker its turn.                                   *)
Fairness ==
    /\ \A r \in Req : SF_vars(Worker(r))
    /\ \A w \in Thread : WF_vars(Gather(w))
    /\ WF_vars(Dequant)

Spec == Init /\ [][Next]_vars
FairSpec == Spec /\ Fairness
-----------------------------------------------------------------------------
TypeOK ==
    /\ at \in [Req -> {"chunk", "embed", "layers", "lent", "done"}]
    /\ pos \in [Req -> Nat] /\ lends \in [Req -> 0 .. MaxLends]
    /\ owner \in SUBSET Req /\ bound \in SUBSET Req
    /\ flight.valid \in BOOLEAN /\ flight.buf \in {0, 1} /\ flight.into \in Memory
    /\ par \in {0, 1}
    /\ thread \in [Thread -> {"out", "hash", "barrier"}]
    /\ barrier \in 0 .. NThread

(* "each one computes exactly what it would alone": when the GPU gets to a  *)
(* dequant, its staging holds the rows of the very chunk that enqueued it,  *)
(* all of them, whoever ran in between.                                     *)
OwnRows ==
    \A i \in DOMAIN gpu : \A w \in Pump : staged[gpu[i].from][w] = gpu[i].need

(* A flight is spawned over joined threads only (std::thread's assignment   *)
(* or destruction over a running one terminates the process): once invalid  *)
(* it has none.                                                             *)
JoinedBeforeSpawn == [][thread' = [w \in Thread |-> "hash"] /\ thread # thread' => Joined]_vars

(* A chunk is lent with no flight under way, and the borrowers leave none:  *)
(* no thread writes to a workspace that has been swapped out.               *)
NoFlightLeftLent == Lent /\ owner = {} => Joined /\ ~flight.valid

(* A flight is what its flag says, wherever its chunk is.                   *)
FlightsAreSound == TypeOK /\ NoFlightLeftLent

(* Every prompt is ingested to its end or aborted: no wait for a thread, an *)
(* event or the GPU is for ever.                                            *)
EveryPromptEnds == \A r \in Req : <>(at[r] = "done")
=============================================================================
