----------------------------- MODULE EngineSup -----------------------------
(***************************************************************************)
(* The engine supervisor of the API process (engine_sup.cpp) and the two   *)
(* admin handlers that call it (handle_engine_start, handle_engine_stop):  *)
(* one child process, one monitor thread per child, a mutex g_mtx around   *)
(* the status, and an engine that somebody else may run on the same port.  *)
(* g_mtx is taken for one step, except by start, which spawns under it.    *)
(***************************************************************************)
EXTENDS Integers, FiniteSets

CONSTANTS
    Handler,    \* threads of the HTTP server in an admin handler
    MaxRuns,    \* bound: children spawned
    MaxDeaths,  \* bound: times the API process ends
    MaxFails,   \* bound: jobs and monitors that fail
    Polls        \* of the port until START_TIMEOUT is over

Run == 1 .. MaxRuns
None == "none"

ASSUME SupAssumption ==
    /\ IsFiniteSet(Handler) /\ None \notin Handler
    /\ MaxRuns \in Nat \ {0} /\ MaxDeaths \in Nat
    /\ MaxFails \in Nat /\ Polls \in Nat

VARIABLES
    state,     \* g_st.state
    detail,    \* g_st.detail is set: the start timed out
    stopping,  \* g_stopping
    proc,      \* g_proc: the run whose handle is open, 0 for null
    mtx,       \* handler inside start, which spawned a child, or none
    child,     \* run -> its process
    jobbed,    \* run -> in the job that kills it with the API process
    monitor,   \* run -> where its monitor thread is
    external,  \* an engine nobody here started listens on the port
    pc,        \* handler -> where it is
    snap,      \* handler -> the state status() copied
    asked,     \* the newest run, if stop() terminated its child (history)
    waited,    \* run -> polls its monitor has slept after
    orphaned,  \* children the API process died over inside start (history)
    unjobbed,  \* children that could not be put into the job (history)
    unwatched, \* its children whose monitor thread could not be created (history)
    before,    \* children spawned by the API processes before this one (history)
    runs, deaths

sup   == <<state, detail, stopping, proc, mtx>>
world == <<child, jobbed, external>>
call  == <<pc, snap>>
left  == <<orphaned, unjobbed, unwatched, before>>
ghost == <<asked, waited, left, runs, deaths>>
vars  == <<sup, world, monitor, call, ghost>>

Init ==
    /\ state = "stopped" /\ detail = FALSE /\ stopping = FALSE /\ proc = 0 /\ mtx = None
    /\ child = [r \in Run |-> "none"] /\ jobbed = [r \in Run |-> FALSE]
    /\ monitor = [r \in Run |-> "none"]
    /\ external \in BOOLEAN
    /\ pc = [h \in Handler |-> "idle"] /\ snap = [h \in Handler |-> "stopped"]
    /\ asked = {} /\ waited = [r \in Run |-> 0] /\ runs = 0 /\ deaths = 0
    /\ orphaned = {} /\ unjobbed = {} /\ unwatched = {} /\ before = 0

(* "killed" is a process that TerminateProcess has been called for.         *)
Alive(r) == child[r] \in {"loading", "listening", "killed"}
Listening == external \/ \E r \in Run : child[r] = "listening"
Kill(r, c) == IF c[r] \in {"loading", "listening"} THEN [c EXCEPT ![r] = "killed"] ELSE c

---------------------------------------------------------------------------
(* The child process, and the engine of somebody else.                      *)

(* It listens once loaded, unless the port is taken: then it exits.         *)
ChildLoaded(r) ==
    /\ child[r] = "loading"
    /\ child' = [child EXCEPT ![r] = IF Listening THEN "dead" ELSE "listening"]
    /\ UNCHANGED <<sup, jobbed, external, monitor, call, ghost>>

ChildExits(r) ==
    /\ child[r] \in {"loading", "listening"}
    /\ child' = [child EXCEPT ![r] = "dead"]
    /\ UNCHANGED <<sup, jobbed, external, monitor, call, ghost>>

ChildKilled(r) ==
    /\ child[r] = "killed"
    /\ child' = [child EXCEPT ![r] = "dead"]
    /\ UNCHANGED <<sup, jobbed, external, monitor, call, ghost>>

ExternalEngine ==
    /\ external' = ~external
    /\ external' => ~Listening
    /\ UNCHANGED <<sup, child, jobbed, monitor, call, ghost>>

---------------------------------------------------------------------------
(* monitor_thread.  It uses g_proc, not a handle of its own, and reads it   *)
(* without the lock.                                                        *)

Goes(r, to) == monitor' = [monitor EXCEPT ![r] = to]
Forgets(r) == waited' = [waited EXCEPT ![r] = 0]

(* The child has exited, or the port is tried.                              *)
Watch(r) ==
    /\ monitor[r] = "watch"
    /\ \/ child[proc] = "dead" /\ Goes(r, "wait") /\ Forgets(r)
       \/ child[proc] # "dead" /\ Listening /\ Goes(r, "ready") /\ Forgets(r)
       \/ child[proc] # "dead" /\ ~Listening /\ Goes(r, "clock") /\ UNCHANGED waited
    /\ UNCHANGED <<sup, world, call, asked, left, runs, deaths>>

BecomeReady(r) ==
    /\ monitor[r] = "ready" /\ mtx = None
    /\ state' = IF state = "starting" THEN "running" ELSE state
    /\ Goes(r, "wait")
    /\ UNCHANGED <<detail, stopping, proc, mtx, world, call, ghost>>

(* START_TIMEOUT is over, or another second is slept.                       *)
Clock(r) ==
    /\ monitor[r] = "clock"
    /\ IF waited[r] < Polls
       THEN /\ waited' = [waited EXCEPT ![r] = @ + 1] /\ Goes(r, "watch") /\ UNCHANGED child
       ELSE /\ child' = Kill(proc, child) /\ Goes(r, "late") /\ Forgets(r)
    /\ UNCHANGED <<sup, jobbed, external, call, asked, left, runs, deaths>>

NoteTimeout(r) ==
    /\ monitor[r] = "late" /\ mtx = None
    /\ detail' = TRUE /\ Goes(r, "wait")
    /\ UNCHANGED <<state, stopping, proc, mtx, world, call, ghost>>

Record(r) ==
    /\ monitor[r] = "wait" /\ child[proc] = "dead" /\ mtx = None
    /\ state' = IF stopping THEN "stopped" ELSE "exited"
    /\ stopping' = FALSE /\ proc' = 0 /\ Goes(r, "gone")
    /\ UNCHANGED <<detail, mtx, world, call, ghost>>

Monitor(r) == Watch(r) \/ BecomeReady(r) \/ Clock(r) \/ NoteTimeout(r) \/ Record(r)

---------------------------------------------------------------------------
(* The handlers: status(), then start() or stop().                          *)

To(h, where) == pc' = [pc EXCEPT ![h] = where]

Request(h) ==
    /\ pc[h] = "idle" /\ mtx = None
    /\ snap' = [snap EXCEPT ![h] = state]
    /\ \E where \in {"start?", "stop?"} : To(h, where)
    /\ UNCHANGED <<sup, world, monitor, ghost>>

(* The port is tried outside the lock, only when nothing runs.              *)
Probe(h) ==
    /\ pc[h] \in {"start?", "stop?"}
    /\ LET outside == snap[h] \in {"stopped", "exited"} /\ Listening
           running == outside \/ snap[h] \in {"starting", "running"}
       IN  \/ pc[h] = "start?" /\ To(h, IF running THEN "idle" ELSE "start")
           \/ pc[h] = "stop?" /\ To(h, IF outside THEN "idle" ELSE "stop")
    /\ snap' = [snap EXCEPT ![h] = "stopped"]
    /\ UNCHANGED <<sup, world, monitor, ghost>>

(* Variant: a child that has not got ready is no obstacle.                  *)
MayStartBesides == state # "running"

MayStart == state \notin {"starting", "running"}

(* start(): refused; or a file is missing or CreateProcess fails; or the    *)
(* child exists and the lock is kept.                                       *)
Spawn(h) ==
    /\ pc[h] = "start" /\ mtx = None
    /\ \/ To(h, "idle") /\ UNCHANGED <<mtx, child, runs>>
       \/ /\ MayStart /\ runs < MaxRuns
          /\ runs' = runs + 1 /\ child' = [child EXCEPT ![runs + 1] = "loading"]
          /\ mtx' = h /\ To(h, "spawned")
    /\ UNCHANGED <<state, detail, stopping, proc, jobbed, external, monitor, snap, asked, waited,
                   left, deaths>>

Fails == Cardinality(unjobbed) + Cardinality(unwatched)

(* The rest of start(): the job, the status, the monitor.  That there is no *)
(* job, or the child cannot be put into it, or the monitor's thread cannot  *)
(* be created, goes unnoticed.                                              *)
Adopt(h) ==
    /\ pc[h] = "spawned"
    /\ \/ jobbed' = [jobbed EXCEPT ![runs] = TRUE] /\ UNCHANGED unjobbed
       \/ Fails < MaxFails /\ unjobbed' = unjobbed \cup {runs} /\ UNCHANGED jobbed
    /\ proc' = runs /\ state' = "starting" /\ detail' = FALSE /\ stopping' = FALSE
    /\ \/ Goes(runs, "watch") /\ UNCHANGED unwatched
       \/ Fails < MaxFails /\ unwatched' = unwatched \cup {runs} /\ UNCHANGED monitor
    /\ mtx' = None /\ To(h, "idle")
    /\ asked' = {}
    /\ UNCHANGED <<child, external, snap, waited, orphaned, before, runs, deaths>>

(* Variant: the child is left to end by itself.                             *)
StopGently(h) ==
    /\ pc[h] = "stop" /\ mtx = None
    /\ IF proc = 0 THEN UNCHANGED <<stopping, child, asked>>
       ELSE stopping' = TRUE /\ asked' = {proc} /\ UNCHANGED child
    /\ To(h, "idle")
    /\ UNCHANGED <<state, detail, proc, mtx, jobbed, external, monitor, snap, waited, left,
                   runs, deaths>>

Stop(h) ==
    /\ pc[h] = "stop" /\ mtx = None
    /\ IF proc = 0 THEN UNCHANGED <<stopping, child, asked>>
       ELSE stopping' = TRUE /\ child' = Kill(proc, child) /\ asked' = {proc}
    /\ To(h, "idle")
    /\ UNCHANGED <<state, detail, proc, mtx, jobbed, external, monitor, snap, waited, left,
                   runs, deaths>>

(* The API process ends, in whatever way, and is started again: closing the *)
(* job kills the children in it.                                            *)
Die ==
    /\ deaths < MaxDeaths /\ deaths' = deaths + 1
    /\ orphaned' = IF mtx = None THEN orphaned ELSE orphaned \cup {runs}
    /\ before' = runs
    /\ child' = [r \in Run |-> IF jobbed[r] /\ Alive(r) THEN "dead" ELSE child[r]]
    /\ state' = "stopped" /\ detail' = FALSE /\ stopping' = FALSE /\ proc' = 0 /\ mtx' = None
    /\ monitor' = [r \in Run |-> "none"]
    /\ pc' = [h \in Handler |-> "idle"] /\ snap' = [h \in Handler |-> "stopped"]
    /\ asked' = {} /\ unwatched' = {} /\ waited' = [r \in Run |-> 0]
    /\ UNCHANGED <<jobbed, external, unjobbed, runs>>

Next ==
    \/ \E r \in Run : ChildLoaded(r) \/ ChildExits(r) \/ ChildKilled(r) \/ Monitor(r)
    \/ \E h \in Handler : Request(h) \/ Probe(h) \/ Spawn(h) \/ Adopt(h) \/ Stop(h)
    \/ ExternalEngine \/ Die

Spec == Init /\ [][Next]_vars

(* The monitors and a handler inside start() run; a terminated process      *)
(* goes.  Weak fairness is enough: while a monitor wants g_mtx, its child   *)
(* has the handle and no start holds the lock.                              *)
FairSpec ==
    /\ Spec
    /\ \A r \in Run : WF_vars(ChildKilled(r)) /\ WF_vars(Monitor(r))
    /\ \A h \in Handler : WF_vars(Adopt(h))

---------------------------------------------------------------------------
TypeOK ==
    /\ state \in {"stopped", "starting", "running", "exited"}
    /\ detail \in BOOLEAN /\ stopping \in BOOLEAN /\ proc \in 0 .. MaxRuns
    /\ mtx \in Handler \cup {None}
    /\ child \in [Run -> {"none", "loading", "listening", "killed", "dead"}]
    /\ jobbed \in [Run -> BOOLEAN] /\ external \in BOOLEAN
    /\ monitor \in [Run -> {"none", "watch", "ready", "clock", "late", "wait", "gone"}]
    /\ pc \in [Handler -> {"idle", "start?", "stop?", "start", "stop", "spawned"}]
    /\ snap \in [Handler -> {"stopped", "starting", "running", "exited"}]
    /\ {asked, orphaned, unjobbed, unwatched} \subseteq SUBSET Run
    /\ waited \in [Run -> 0 .. Polls] /\ before \in 0 .. MaxRuns
    /\ runs \in 0 .. MaxRuns /\ deaths \in 0 .. MaxDeaths
    /\ mtx # None => pc[mtx] = "spawned"

(* One API process never has two engines loaded side by side (engine_sup.h: *)
(* start returns false while one runs or starts): not by two clicks, not by *)
(* a start while the last child is still dying, in the job or not.          *)
OneChild == Cardinality({r \in Run : r > before /\ Alive(r)}) <= 1

(* A monitor waits on the handle of its own child, and that is open: it     *)
(* reads g_proc unlocked, while start replaces it and monitors close it.    *)
MonitorOwnsHandle ==
    \A r \in Run : monitor[r] \notin {"none", "gone"} => proc = r

(* The state shown says "running" or "starting" exactly while a handle is   *)
(* open, and without one every child of this process is dead.               *)
StateIsChild ==
    /\ state \in {"starting", "running"} <=> proc # 0
    /\ proc = 0 /\ mtx = None => \A r \in Run : r > before => ~Alive(r)

(* "stopped" is what a child is recorded as that was stopped on request,    *)
(* "exited" what one is that went by itself or was too late.                *)
StoppedWasAsked ==
    proc = 0 /\ runs > 0 /\ monitor[runs] = "gone" =>
        (state = "stopped" <=> runs \in asked)

(* An engine outlives the API process that started it (engine_sup.cpp:3     *)
(* says none does) only if that died between CreateProcess and the job, or  *)
(* went on without the job (engine_sup.cpp:365).                            *)
NoOrphan == \A r \in Run : r <= before /\ Alive(r) => r \in orphaned \cup unjobbed

(* One engine at most of this API process, watched by its own monitor,      *)
(* shown as what it is; and which engines of an earlier one may still live. *)
SupervisorIsSafe ==
    TypeOK /\ OneChild /\ MonitorOwnsHandle /\ StateIsChild /\ StoppedWasAsked /\ NoOrphan

(* A stop that was accepted ends with the handle closed and the child       *)
(* recorded, if the child is watched.                                       *)
StopCompletes == proc \in asked \ unwatched ~> proc \notin asked

(* A start does not stay "starting" for ever, if the child is watched.      *)
StartResolves == state = "starting" /\ proc \notin unwatched ~> state # "starting"
=============================================================================
