------------------------------ MODULE ApiSlots ------------------------------
(***************************************************************************)
(* How the API server hands its pooled engine connections to requests      *)
(* (main.cpp): SlotGuard, engine_ready, the part of run_generation that    *)
(* holds a slot, and the probe of the engine that sizes the pool, beside   *)
(* an engine that may die and come back.  What one generation does on its  *)
(* connection is EngineLink; here it is one step.                          *)
(*                                                                         *)
(* Every caller of run_generation passes on_wait, so a queued request      *)
(* polls; the branch of SlotGuard without it is left out.                  *)
(***************************************************************************)
EXTENDS Integers, Sequences, FiniteSets

CONSTANTS
    Requests,     \* HTTP requests that want a generation
    EngineSlots,  \* kv_slots of the engine's INFO line, 0 of an old engine
    ProbeMayFail, \* whether the probe at startup may get no answer
    MaxCrashes    \* bound: times the engine dies

ASSUME SlotsAssumption ==
    /\ IsFiniteSet(Requests) /\ EngineSlots \in 0 .. 64
    /\ ProbeMayFail \in BOOLEAN /\ MaxCrashes \in Nat

VARIABLES
    probe,      \* "start", then "retry" (reprobe_engine_loop) or "done"
    slots,      \* g_slots
    pool,       \* g_pool.size(); the clients are 1 .. pool
    free,       \* g_pool_free
    inFlight,   \* g_in_flight
    queued,     \* g_queued
    connMtx,    \* request that holds g_conn_mtx over a connect, or none
    conn,       \* client -> "closed", "open", or "stale": open here only
    pc, cli,    \* request -> where its handler is, and its client
    outcome,    \* request -> how its generation ended
    alive,      \* the engine listens
    crashes,    \* times it died
    spoiled,    \* connections that went stale (history)
    fault       \* back() or pop_back() of an empty vector: the process is gone

engine == <<alive, crashes>>
vars == <<probe, slots, pool, free, inFlight, queued, connMtx, conn, pc, cli,
          outcome, engine, spoiled, fault>>

NoReq  == 0
Client == 1 .. 64
Width  == IF EngineSlots > 1 THEN EngineSlots ELSE 1

Init ==
    /\ probe = "start" /\ slots = 1 /\ pool = 0 /\ free = <<>>
    /\ inFlight = 0 /\ queued = 0 /\ connMtx = NoReq
    /\ conn = [i \in 1 .. Width |-> "closed"]
    /\ pc = [r \in Requests |-> "none"] /\ cli = [r \in Requests |-> 0]
    /\ outcome = [r \in Requests |-> "none"]
    /\ alive \in IF ProbeMayFail THEN BOOLEAN ELSE {TRUE}
    /\ crashes = 0 /\ spoiled = 0 /\ fault = FALSE

---------------------------------------------------------------------------
(* The probe.                                                               *)

(* apply_engine_info: the pool only grows, to g_slots clients.              *)
Apply ==
    /\ slots' = Width
    /\ pool' = Width
    /\ free' = free \o [i \in 1 .. Width - pool |-> pool + i]

(* probe_engine, before the server listens.                                 *)
ProbeAnswered ==
    /\ probe = "start" /\ probe' = "done"
    /\ alive /\ Apply
    /\ UNCHANGED <<inFlight, queued, connMtx, conn, pc, cli, outcome, engine, spoiled, fault>>

ProbeFailed ==
    /\ probe = "start" /\ ProbeMayFail
    /\ probe' = "retry"
    /\ UNCHANGED <<slots, pool, free, inFlight, queued, connMtx, conn, pc, cli, outcome,
                   engine, spoiled, fault>>

(* An attempt of reprobe_engine_loop that gets an answer.                   *)
Reprobe ==
    /\ probe = "retry" /\ alive
    /\ probe' = "done"
    /\ Apply
    /\ UNCHANGED <<inFlight, queued, connMtx, conn, pc, cli, outcome, engine, spoiled, fault>>

---------------------------------------------------------------------------
(* SlotGuard.                                                               *)

(* The end of the constructor.                                              *)
Acquire(r) ==
    /\ inFlight' = inFlight + 1
    /\ pc' = [pc EXCEPT ![r] = "held"]
    /\ IF free = <<>> THEN fault' = TRUE /\ UNCHANGED <<cli, free>>
       ELSE /\ cli' = [cli EXCEPT ![r] = free[Len(free)]]
            /\ free' = SubSeq(free, 1, Len(free) - 1)
            /\ UNCHANGED fault

Enter(r) ==
    /\ pc[r] = "none" /\ probe # "start"
    /\ \/ /\ inFlight < slots /\ Acquire(r) /\ UNCHANGED queued
       \/ /\ inFlight >= slots
          /\ queued' = queued + 1 /\ pc' = [pc EXCEPT ![r] = "poll"]
          /\ UNCHANGED <<inFlight, free, cli, fault>>
    /\ UNCHANGED <<probe, slots, pool, connMtx, conn, outcome, engine, spoiled>>

(* The test of the while loop and of the line before wait_for, one lock.    *)
Retry(r, else) ==
    \/ /\ inFlight < slots /\ queued' = queued - 1 /\ Acquire(r)
    \/ /\ inFlight >= slots /\ pc' = [pc EXCEPT ![r] = else]
       /\ UNCHANGED <<queued, inFlight, free, cli, fault>>

(* on_wait(), outside the lock, finds the HTTP client gone.                 *)
LeaveQueue(r) ==
    /\ pc[r] = "poll"
    /\ queued' = queued - 1
    /\ pc' = [pc EXCEPT ![r] = "ended"] /\ outcome' = [outcome EXCEPT ![r] = "gone"]
    /\ UNCHANGED <<probe, slots, pool, free, inFlight, connMtx, conn, cli, engine, spoiled,
                   fault>>

Poll(r) ==
    /\ pc[r] = "poll" /\ Retry(r, "doze")
    /\ UNCHANGED <<probe, slots, pool, connMtx, conn, outcome, engine, spoiled>>

(* wait_for: a notify, or the second is over.                               *)
Wake(r) ==
    /\ pc[r] = "doze" /\ Retry(r, "poll")
    /\ UNCHANGED <<probe, slots, pool, connMtx, conn, outcome, engine, spoiled>>

(* Variant: the destructor forgets the counter.                             *)
LeaveUncounted(r) ==
    /\ pc[r] = "leave"
    /\ pc' = [pc EXCEPT ![r] = "ended"] /\ cli' = [cli EXCEPT ![r] = 0]
    /\ free' = Append(free, cli[r])
    /\ UNCHANGED <<probe, slots, pool, inFlight, queued, connMtx, conn, outcome, engine,
                   spoiled, fault>>

(* Variant: a connection that was closed meanwhile is not given back.       *)
LeaveEarly(r) ==
    /\ pc[r] = "leave"
    /\ pc' = [pc EXCEPT ![r] = "ended"] /\ cli' = [cli EXCEPT ![r] = 0]
    /\ free' = IF conn[cli[r]] = "closed" THEN free ELSE Append(free, cli[r])
    /\ inFlight' = inFlight - 1
    /\ UNCHANGED <<probe, slots, pool, queued, connMtx, conn, outcome, engine, spoiled, fault>>

(* ~SlotGuard, also when http::fail throws.                                 *)
Leave(r) ==
    /\ pc[r] = "leave"
    /\ pc' = [pc EXCEPT ![r] = "ended"] /\ cli' = [cli EXCEPT ![r] = 0]
    /\ free' = Append(free, cli[r]) /\ inFlight' = inFlight - 1
    /\ UNCHANGED <<probe, slots, pool, queued, connMtx, conn, outcome, engine, spoiled, fault>>

---------------------------------------------------------------------------
(* With a slot: engine_ready and generate().                                *)

Ready(r) ==
    /\ pc[r] = "held" /\ connMtx = NoReq
    /\ IF conn[cli[r]] = "closed"
       THEN pc' = [pc EXCEPT ![r] = "connect"] /\ connMtx' = r
       ELSE pc' = [pc EXCEPT ![r] = "gen"] /\ UNCHANGED connMtx
    /\ UNCHANGED <<probe, slots, pool, free, inFlight, queued, conn, cli, outcome, engine,
                   spoiled, fault>>

Ends(r, why, now) ==
    /\ pc' = [pc EXCEPT ![r] = "leave"]
    /\ outcome' = [outcome EXCEPT ![r] = why]
    /\ conn' = [conn EXCEPT ![cli[r]] = now]

Connect(r) ==
    /\ pc[r] = "connect" /\ connMtx' = NoReq
    /\ \/ /\ alive /\ conn' = [conn EXCEPT ![cli[r]] = "open"]
          /\ pc' = [pc EXCEPT ![r] = "gen"] /\ UNCHANGED outcome
       \/ ~alive /\ Ends(r, "unreachable", "closed")
    /\ UNCHANGED <<probe, slots, pool, free, inFlight, queued, cli, engine, spoiled, fault>>

(* The prompt leaves no budget in the context, or the engine rejects it.    *)
Refused(r) ==
    /\ pc[r] = "gen" /\ Ends(r, "refused", conn[cli[r]])
    /\ UNCHANGED <<probe, slots, pool, free, inFlight, queued, connMtx, cli, engine, spoiled,
                   fault>>

Finished(r) ==
    /\ pc[r] = "gen" /\ conn[cli[r]] = "open" /\ alive
    /\ Ends(r, "done", "open")
    /\ UNCHANGED <<probe, slots, pool, free, inFlight, queued, connMtx, cli, engine, spoiled,
                   fault>>

(* An answer after which the engine closes its end (EngineLink, Reject).    *)
Undrainable(r) ==
    /\ pc[r] = "gen" /\ conn[cli[r]] = "open" /\ alive
    /\ Ends(r, "refused", "stale")
    /\ spoiled' = spoiled + 1
    /\ UNCHANGED <<probe, slots, pool, free, inFlight, queued, connMtx, cli, engine, fault>>

TimedOut(r) ==
    /\ pc[r] = "gen" /\ conn[cli[r]] = "open" /\ alive
    /\ Ends(r, "timeout", "closed")
    /\ UNCHANGED <<probe, slots, pool, free, inFlight, queued, connMtx, cli, engine, spoiled,
                   fault>>

(* Nothing comes from a connection whose other end is closed.               *)
Lost(r) ==
    /\ pc[r] = "gen" /\ conn[cli[r]] = "stale"
    /\ Ends(r, "lost", "closed")
    /\ UNCHANGED <<probe, slots, pool, free, inFlight, queued, connMtx, cli, engine, spoiled,
                   fault>>

---------------------------------------------------------------------------
(* During the probe a death is ProbeFailed.                                 *)
Crash ==
    /\ alive /\ crashes < MaxCrashes /\ probe # "start"
    /\ alive' = FALSE /\ crashes' = crashes + 1
    /\ conn' = [i \in DOMAIN conn |-> IF conn[i] = "open" THEN "stale" ELSE conn[i]]
    /\ spoiled' = spoiled + Cardinality({i \in DOMAIN conn : conn[i] = "open"})
    /\ UNCHANGED <<probe, slots, pool, free, inFlight, queued, connMtx, pc, cli, outcome, fault>>

Restart ==
    /\ ~alive /\ alive' = TRUE
    /\ UNCHANGED <<probe, slots, pool, free, inFlight, queued, connMtx, conn, pc, cli, outcome,
                   crashes, spoiled, fault>>

Holding(r) == \/ Ready(r) \/ Connect(r) \/ Refused(r) \/ Finished(r) \/ Undrainable(r)
              \/ TimedOut(r) \/ Lost(r) \/ Leave(r)
Step(r) == Enter(r) \/ Poll(r) \/ Wake(r) \/ LeaveQueue(r) \/ Holding(r)

Next ==
    /\ ~fault
    /\ \/ ProbeAnswered \/ ProbeFailed \/ Reprobe \/ Crash \/ Restart
       \/ \E r \in Requests : Step(r)

Spec == Init /\ [][Next]_vars

(* Handlers run; a generation ends (EngineLink, EveryRequestReturns); the   *)
(* engine is started again.                                                 *)
FairSpec ==
    /\ Spec
    /\ WF_vars(~fault /\ (ProbeAnswered \/ ProbeFailed))
    /\ WF_vars(~fault /\ Reprobe) /\ WF_vars(~fault /\ Restart)
    /\ \A r \in Requests : /\ WF_vars(~fault /\ (Poll(r) \/ Wake(r)))
                      /\ WF_vars(~fault /\ Holding(r))

---------------------------------------------------------------------------
Held == {r \in Requests : pc[r] \in {"held", "connect", "gen", "leave"}}

TypeOK ==
    /\ probe \in {"start", "retry", "done"}
    /\ slots \in 1 .. Width /\ pool \in {0, Width}
    /\ free \in Seq(1 .. Width)
    /\ inFlight \in 0 .. slots /\ queued \in 0 .. Cardinality(Requests)
    /\ connMtx \in Requests \cup {NoReq}
    /\ conn \in [1 .. Width -> {"closed", "open", "stale"}]
    /\ pc \in [Requests -> {"none", "poll", "doze", "held", "connect", "gen", "leave", "ended"}]
    /\ cli \in [Requests -> 0 .. Width]
    /\ outcome \in [Requests -> {"none", "gone", "unreachable", "refused", "done", "timeout",
                             "lost"}]
    /\ alive \in BOOLEAN /\ crashes \in 0 .. MaxCrashes /\ spoiled \in Nat
    /\ fault \in BOOLEAN

(* A pooled connection is in the hands of one request or in the free list,  *)
(* never in two hands, and none is lost: a GEN never meets another one on   *)
(* its connection, whatever way requests end.                               *)
ClientExclusive ==
    ~fault =>
    /\ \A r, s \in Held : cli[r] = cli[s] => r = s
    /\ \A i, j \in 1 .. Len(free) : free[i] = free[j] => i = j
    /\ {cli[r] : r \in Held} \cap {free[i] : i \in 1 .. Len(free)} = {}
    /\ {cli[r] : r \in Held} \cup {free[i] : i \in 1 .. Len(free)} = 1 .. pool

(* What /health reports as in_flight and queued is what there is: nobody is *)
(* counted as waiting who left, was served, or is being served.             *)
CountsAreExact ==
    /\ inFlight = Cardinality(Held)
    /\ queued = Cardinality({r \in Requests : pc[r] \in {"poll", "doze"}})

(* A stale connection is found out once: however requests and crashes mix,  *)
(* no more of them fail with "engine connection lost" than connections went *)
(* stale under the pool.                                                    *)
LostIsPaid ==
    Cardinality({r \in Requests : outcome[r] = "lost"})
      + Cardinality({i \in DOMAIN conn : conn[i] = "stale"}) <= spoiled

(* SlotGuard: "g_in_flight < g_slots: one is free".                         *)
OneIsFree == inFlight < slots /\ probe # "start" => free # <<>>

(* However a request leaves its slot, by an exception too, and whenever the *)
(* engine restarts: a connection is in one hand or in the list, the counts  *)
(* are exact, and a slot that is given has a connection.                    *)
SlotsAreSafe == TypeOK /\ ClientExclusive /\ CountsAreExact /\ LostIsPaid /\ OneIsFree

(* probe_engine: "the caller then retries ... so the pool still reaches     *)
(* full width once the engine is up".                                       *)
FullWidth == fault \/ (pool = Width /\ slots = Width)
PoolReachesWidth == <>FullWidth

(* Whatever the engine does, a request that came gets an answer and gives    *)
(* its slot back, whoever else is waiting.                                  *)
HasEnded(r) == fault \/ pc[r] = "ended"
EveryRequestEnds == \A r \in Requests : pc[r] # "none" ~> HasEnded(r)
=============================================================================
