--------------------------- MODULE EngineSupProofs ---------------------------
(***************************************************************************)
(* Safety of the engine supervisor for any number of handlers, children,   *)
(* polls and ends of the API process: one engine at most of one process,    *)
(* watched through its own handle, shown as what it is and recorded as how  *)
(* it ended; and an engine outlives its process only if that died over it   *)
(* in start or went on without the job.                                     *)
(*                                                                         *)
(* SupInv says where everything of the newest child, runs, is: nowhere yet, *)
(* in the hand of the start that spawned it, or with g_proc and its monitor.*)
(***************************************************************************)
EXTENDS EngineSup, FiniteSetTheorems, TLAPS

(* The lock is kept over the end of a step only by a start that spawned;    *)
(* its child is of this process, in no job, has no monitor and was never    *)
(* stopped.                                                                 *)
StartHoldsLock ==
    /\ \A h \in Handler : pc[h] = "spawned" => mtx = h
    /\ mtx # None =>
         /\ runs > before /\ proc = 0 /\ ~jobbed[runs] /\ monitor[runs] = "none"
         /\ runs \notin asked \cup orphaned \cup unjobbed \cup unwatched

(* An open handle is that of the newest child, which has its job and its    *)
(* monitor unless start() failed to get them; g_stopping says whether it    *)
(* was stopped.                                                             *)
HandleIsNewest ==
    /\ state \in {"starting", "running"} <=> proc # 0
    /\ proc # 0 =>
         /\ proc = runs /\ proc > before /\ (jobbed[runs] \/ runs \in unjobbed)
         /\ monitor[runs] \notin {"none", "gone"} \/ runs \in unwatched
         /\ stopping <=> runs \in asked

(* Whoever lives has the open handle, is held by a start, or is left over   *)
(* from an API process that died over it or had no job for it.              *)
Left == orphaned \cup unjobbed
NobodyElseLives ==
    /\ \A r \in Run : Alive(r) =>
          r = proc \/ (mtx # None /\ r = runs) \/ (r <= before /\ r \in Left)
    /\ before <= runs

(* Children that were not spawned yet have left no trace.                   *)
NotYetSpawned ==
    \A r \in Run : r > runs =>
        /\ child[r] = "none" /\ ~jobbed[r] /\ monitor[r] = "none"
        /\ r \notin asked \cup orphaned \cup unjobbed \cup unwatched

SupInv ==
    /\ TypeOK /\ StartHoldsLock /\ HandleIsNewest /\ MonitorOwnsHandle
    /\ NobodyElseLives /\ NotYetSpawned /\ StoppedWasAsked

LEMMA InitHolds == Init => SupInv
<1> SUFFICES ASSUME Init PROVE SupInv
  OBVIOUS
<1> USE SupAssumption DEF SupAssumption, Init, None
<1>1. TypeOK
  <2>1. /\ waited \in [Run -> 0 .. Polls] /\ runs \in 0 .. MaxRuns /\ deaths \in 0 .. MaxDeaths
        /\ proc \in 0 .. MaxRuns
    OBVIOUS
  <2> QED BY <2>1 DEF TypeOK
<1>2. StartHoldsLock /\ HandleIsNewest /\ MonitorOwnsHandle
  BY DEF StartHoldsLock, HandleIsNewest, MonitorOwnsHandle
<1>3. NobodyElseLives /\ NotYetSpawned /\ StoppedWasAsked
  BY DEF NobodyElseLives, NotYetSpawned, StoppedWasAsked, Alive, Run
<1> QED BY <1>1, <1>2, <1>3 DEF SupInv

-----------------------------------------------------------------------------
(* The child and the world outside: only what lives, and fewer do.          *)
Books == <<sup, jobbed, monitor, asked, left, runs>>

LEMMA ChildDies ==
    ASSUME SupInv, TypeOK', UNCHANGED Books, UNCHANGED pc,
           \A r \in Run : /\ Alive(r)' => Alive(r)
                          /\ child[r] = "none" => child'[r] = "none"
    PROVE  SupInv'
<1> USE DEF Books, sup
<1>1. StartHoldsLock' /\ HandleIsNewest' /\ MonitorOwnsHandle'
  BY DEF SupInv, StartHoldsLock, HandleIsNewest, MonitorOwnsHandle, left
<1>2. NobodyElseLives'
  <2>1. ASSUME NEW r \in Run, Alive(r)'
        PROVE  r = proc \/ (mtx # None /\ r = runs) \/ (r <= before /\ r \in Left)
    BY <2>1 DEF SupInv, NobodyElseLives
  <2> QED BY <2>1 DEF SupInv, NobodyElseLives, Left, left
<1>3. NotYetSpawned' /\ StoppedWasAsked'
  BY DEF SupInv, NotYetSpawned, StoppedWasAsked, left
<1> QED BY <1>1, <1>2, <1>3 DEF SupInv

LEMMA WorldSteps ==
    ASSUME SupInv, NEW r \in Run,
           ChildLoaded(r) \/ ChildExits(r) \/ ChildKilled(r) \/ ExternalEngine
    PROVE  SupInv'
<1> USE DEF ChildLoaded, ChildExits, ChildKilled, ExternalEngine, sup, world, call, ghost, left
<1>1. TypeOK'
  <2>1. child' \in [Run -> {"none", "loading", "listening", "killed", "dead"}]
    BY DEF SupInv, TypeOK
  <2>2. external' \in BOOLEAN
    BY DEF SupInv, TypeOK
  <2> QED BY <2>1, <2>2 DEF SupInv, TypeOK
<1>2. ASSUME NEW q \in Run
      PROVE  (Alive(q)' => Alive(q)) /\ (child[q] = "none" => child'[q] = "none")
  BY DEF SupInv, TypeOK, Alive
<1>3. UNCHANGED Books /\ UNCHANGED pc
  BY DEF Books
<1> QED BY <1>1, <1>2, <1>3, ChildDies

-----------------------------------------------------------------------------
(* The monitors.                                                            *)

(* A monitor that is at work has the handle of the newest child.            *)
LEMMA OwnHandle ==
    ASSUME SupInv, NEW r \in Run, monitor[r] \notin {"none", "gone"}
    PROVE  proc = r /\ r = runs /\ proc # 0 /\ mtx = None
BY DEF SupInv, MonitorOwnsHandle, HandleIsNewest, StartHoldsLock, Run

(* What only moves a monitor, sleeps, or terminates the child.              *)
LEMMA MonitorMoves ==
    ASSUME SupInv, TypeOK', NEW r \in Run, monitor[r] \notin {"none", "gone"},
           NEW to \in {"watch", "ready", "clock", "late", "wait"}, Goes(r, to),
           UNCHANGED <<stopping, proc, mtx, jobbed, asked, left, runs, pc>>,
           state' \in {"starting", "running"} <=> state \in {"starting", "running"},
           \A q \in Run : /\ Alive(q)' => Alive(q)
                          /\ child[q] = "none" => child'[q] = "none"
    PROVE  SupInv'
<1> USE DEF Goes, left
<1>1. proc = r /\ r = runs /\ proc # 0 /\ mtx = None
  BY OwnHandle
<1>2. /\ monitor'[r] = to
      /\ \A q \in Run : q # r => monitor'[q] = monitor[q]
  BY DEF SupInv, TypeOK
<1>3. StartHoldsLock' /\ HandleIsNewest' /\ MonitorOwnsHandle'
  BY <1>1, <1>2 DEF SupInv, StartHoldsLock, HandleIsNewest, MonitorOwnsHandle
<1>4. NobodyElseLives'
  <2>1. ASSUME NEW q \in Run, Alive(q)'
        PROVE  q = proc \/ (mtx # None /\ q = runs) \/ (q <= before /\ q \in Left)
    BY <2>1 DEF SupInv, NobodyElseLives
  <2> QED BY <2>1 DEF SupInv, NobodyElseLives, Left
<1>5. NotYetSpawned' /\ StoppedWasAsked'
  <2>1. r \in Int /\ ~(r > runs)
    BY <1>1 DEF Run
  <2>2. NotYetSpawned'
    BY <1>2, <2>1 DEF SupInv, NotYetSpawned
  <2>3. StoppedWasAsked'
    BY <1>1 DEF StoppedWasAsked
  <2> QED BY <2>2, <2>3
<1> QED BY <1>3, <1>4, <1>5 DEF SupInv

LEMMA MonitorSteps ==
    ASSUME SupInv, NEW r \in Run, Watch(r) \/ BecomeReady(r) \/ Clock(r) \/ NoteTimeout(r)
    PROVE  SupInv'
<1> USE DEF sup, world, call, ghost, left
<1>1. monitor[r] \notin {"none", "gone"} /\ proc = r
  BY OwnHandle DEF Watch, BecomeReady, Clock, NoteTimeout
<1>2. CASE Watch(r)
  <2>1. PICK to \in {"wait", "ready", "clock"} : Goes(r, to)
    BY <1>2 DEF Watch
  <2>2. TypeOK'
    <3>1. waited' \in [Run -> 0 .. Polls]
      BY <1>2, SupAssumption DEF Watch, Forgets, SupInv, TypeOK, SupAssumption
    <3> QED BY <1>2, <2>1, <3>1 DEF Watch, SupInv, TypeOK, Goes
  <2>3. \A q \in Run : (Alive(q)' => Alive(q)) /\ (child[q] = "none" => child'[q] = "none")
    BY <1>2 DEF Watch, Alive
  <2> QED BY <1>1, <1>2, <2>1, <2>2, <2>3, MonitorMoves DEF Watch
<1>3. CASE BecomeReady(r)
  <2>1. TypeOK'
    BY <1>3 DEF BecomeReady, SupInv, TypeOK, Goes
  <2>2. \A q \in Run : (Alive(q)' => Alive(q)) /\ (child[q] = "none" => child'[q] = "none")
    BY <1>3 DEF BecomeReady, Alive
  <2>3. state' \in {"starting", "running"} <=> state \in {"starting", "running"}
    BY <1>3 DEF BecomeReady
  <2> QED BY <1>1, <1>3, <2>1, <2>2, <2>3, MonitorMoves DEF BecomeReady
<1>4. CASE Clock(r)
  <2>1. PICK to \in {"watch", "late"} : Goes(r, to)
    BY <1>4 DEF Clock
  <2>2. waited' \in [Run -> 0 .. Polls]
    <3>1. CASE waited[r] < Polls /\ waited' = [waited EXCEPT ![r] = @ + 1]
      <4>1. waited \in [Run -> 0 .. Polls] /\ waited[r] + 1 \in 0 .. Polls
        BY <3>1, SupAssumption DEF SupInv, TypeOK, SupAssumption
      <4> QED BY <3>1, <4>1
    <3>2. CASE Forgets(r)
      BY <3>2, SupAssumption DEF Forgets, SupInv, TypeOK, SupAssumption
    <3> QED BY <1>4, <3>1, <3>2 DEF Clock
  <2>3. /\ child' \in [Run -> {"none", "loading", "listening", "killed", "dead"}]
        /\ \A q \in Run : (Alive(q)' => Alive(q)) /\ (child[q] = "none" => child'[q] = "none")
    BY <1>1, <1>4 DEF Clock, Kill, Alive, SupInv, TypeOK
  <2>4. TypeOK'
    BY <1>4, <2>1, <2>2, <2>3 DEF Clock, SupInv, TypeOK, Goes
  <2> QED BY <1>1, <1>4, <2>1, <2>3, <2>4, MonitorMoves DEF Clock
<1>5. CASE NoteTimeout(r)
  <2>1. TypeOK'
    BY <1>5 DEF NoteTimeout, SupInv, TypeOK, Goes
  <2>2. \A q \in Run : (Alive(q)' => Alive(q)) /\ (child[q] = "none" => child'[q] = "none")
    BY <1>5 DEF NoteTimeout, Alive
  <2> QED BY <1>1, <1>5, <2>1, <2>2, MonitorMoves DEF NoteTimeout
<1> QED BY <1>2, <1>3, <1>4, <1>5

(* The child is dead: the handle is closed, and how it ended is what        *)
(* g_stopping says.                                                         *)
LEMMA RecordStep ==
    ASSUME SupInv, NEW r \in Run, Record(r)
    PROVE  SupInv'
<1> USE DEF Record, world, call, ghost, left
<1>1. proc = r /\ r = runs /\ proc # 0 /\ mtx = None
  BY OwnHandle
<1>2. /\ monitor' = [monitor EXCEPT ![r] = "gone"] /\ monitor'[r] = "gone"
      /\ \A q \in Run : q # r => monitor'[q] = monitor[q]
  BY DEF SupInv, TypeOK, Goes
<1>3. TypeOK'
  <2>1. proc' \in 0 .. MaxRuns
    BY SupAssumption DEF SupAssumption
  <2> QED BY <1>2, <2>1 DEF SupInv, TypeOK
<1>4. StartHoldsLock' /\ HandleIsNewest' /\ MonitorOwnsHandle'
  BY <1>1, <1>2 DEF SupInv, StartHoldsLock, HandleIsNewest, MonitorOwnsHandle
<1>5. NobodyElseLives'
  <2>1. ~Alive(r)
    BY <1>1 DEF Alive
  <2>2. ASSUME NEW q \in Run, Alive(q)'
        PROVE  q <= before /\ q \in Left
    BY <1>1, <2>1, <2>2 DEF SupInv, NobodyElseLives, Alive
  <2> QED BY <2>2 DEF SupInv, NobodyElseLives, Left
<1>6. NotYetSpawned'
  <2>1. r \in Int /\ ~(r > runs)
    BY <1>1 DEF Run
  <2> QED BY <1>2, <2>1 DEF SupInv, NotYetSpawned
<1>7. StoppedWasAsked'
  BY <1>1 DEF SupInv, HandleIsNewest, StoppedWasAsked
<1> QED BY <1>3, <1>4, <1>5, <1>6, <1>7 DEF SupInv

-----------------------------------------------------------------------------
(* The handlers.                                                            *)

(* A handler that looks around changes nothing but its own place.           *)
LEMMA LookSteps ==
    ASSUME SupInv, NEW h \in Handler, Request(h) \/ Probe(h)
    PROVE  SupInv'
<1> USE DEF sup, world, ghost, left
<1>1. UNCHANGED <<sup, world, monitor, ghost>> /\ pc[h] # "spawned"
  BY DEF Request, Probe
<1>2. PICK to \in {"idle", "start?", "stop?", "start", "stop"} : pc' = [pc EXCEPT ![h] = to]
  BY DEF Request, Probe, To
<1>3. snap' \in [Handler -> {"stopped", "starting", "running", "exited"}]
  BY DEF Request, Probe, SupInv, TypeOK
<1>4. /\ pc' \in [Handler -> {"idle", "start?", "stop?", "start", "stop", "spawned"}]
      /\ \A g \in Handler : pc'[g] = "spawned" <=> pc[g] = "spawned"
  BY <1>1, <1>2 DEF SupInv, TypeOK
<1>5. TypeOK'
  BY <1>1, <1>3, <1>4 DEF SupInv, TypeOK
<1>6. StartHoldsLock' /\ HandleIsNewest' /\ MonitorOwnsHandle'
  BY <1>1, <1>4 DEF SupInv, StartHoldsLock, HandleIsNewest, MonitorOwnsHandle
<1>7. NobodyElseLives' /\ NotYetSpawned' /\ StoppedWasAsked'
  BY <1>1 DEF SupInv, NobodyElseLives, Left, NotYetSpawned, StoppedWasAsked, Alive
<1> QED BY <1>5, <1>6, <1>7 DEF SupInv

(* start() is refused or fails, or the newest child is there and the lock   *)
(* is kept.                                                                 *)
LEMMA SpawnStep ==
    ASSUME SupInv, NEW h \in Handler, Spawn(h)
    PROVE  SupInv'
<1> USE SupAssumption DEF SupAssumption, left
<1>1. UNCHANGED <<state, detail, stopping, proc, jobbed, external, monitor, snap, asked, waited,
                  left, deaths>> /\ mtx = None /\ pc[h] = "start"
  BY DEF Spawn
<1>2. CASE To(h, "idle") /\ UNCHANGED <<mtx, child, runs>>
  <2>1. /\ pc' \in [Handler -> {"idle", "start?", "stop?", "start", "stop", "spawned"}]
        /\ \A g \in Handler : pc'[g] = "spawned" <=> pc[g] = "spawned"
    BY <1>1, <1>2 DEF To, SupInv, TypeOK
  <2>2. TypeOK'
    BY <1>1, <1>2, <2>1 DEF SupInv, TypeOK
  <2>3. StartHoldsLock' /\ HandleIsNewest' /\ MonitorOwnsHandle'
    BY <1>1, <1>2, <2>1 DEF SupInv, StartHoldsLock, HandleIsNewest, MonitorOwnsHandle
  <2>4. NobodyElseLives' /\ NotYetSpawned' /\ StoppedWasAsked'
    BY <1>1, <1>2 DEF SupInv, NobodyElseLives, Left, NotYetSpawned, StoppedWasAsked, Alive
  <2> QED BY <2>2, <2>3, <2>4 DEF SupInv
<1>3. CASE /\ MayStart /\ runs < MaxRuns
           /\ runs' = runs + 1 /\ child' = [child EXCEPT ![runs + 1] = "loading"]
           /\ mtx' = h /\ To(h, "spawned")
  <2>1. /\ runs \in Nat /\ runs' \in Run /\ runs' = runs + 1 /\ runs' \in 0 .. MaxRuns
        /\ runs' > 0 /\ runs' > runs
        /\ \A r \in Run : r > runs' => r > runs
        /\ \A r \in Run : r > runs' => r # runs'
    BY <1>3 DEF SupInv, TypeOK, Run
  <2>2. h # None /\ \A g \in Handler : pc[g] # "spawned"
    BY <1>1, SupAssumption DEF SupInv, StartHoldsLock
  <2>3. proc = 0
    BY <1>3 DEF MayStart, SupInv, HandleIsNewest
  <2>4. /\ child[runs'] = "none" /\ ~jobbed[runs'] /\ monitor[runs'] = "none"
        /\ runs' \notin asked \cup orphaned \cup unjobbed \cup unwatched
    BY <2>1 DEF SupInv, NotYetSpawned
  <2>5. /\ child'[runs'] = "loading"
        /\ \A r \in Run : r # runs' => child'[r] = child[r]
        /\ child' \in [Run -> {"none", "loading", "listening", "killed", "dead"}]
    BY <1>3, <2>1 DEF SupInv, TypeOK
  <2>6. /\ pc' \in [Handler -> {"idle", "start?", "stop?", "start", "stop", "spawned"}]
        /\ \A g \in Handler : pc'[g] = "spawned" <=> g = h
    BY <1>3, <2>2 DEF To, SupInv, TypeOK
  <2>7. TypeOK'
    BY <1>1, <1>3, <2>1, <2>5, <2>6 DEF SupInv, TypeOK
  <2>8. StartHoldsLock'
    <3>1. before \in Nat /\ before <= runs /\ runs' > before
      BY <2>1 DEF SupInv, TypeOK, NobodyElseLives
    <3> QED BY <1>1, <1>3, <3>1, <2>1, <2>3, <2>4, <2>6 DEF StartHoldsLock
  <2>9. HandleIsNewest' /\ MonitorOwnsHandle'
    BY <1>1, <2>3 DEF SupInv, HandleIsNewest, MonitorOwnsHandle
  <2>10. NobodyElseLives'
    <3>1. ASSUME NEW r \in Run, r # runs', Alive(r)'
          PROVE  r <= before /\ r \in Left
      BY <1>1, <2>3, <2>5, <3>1 DEF SupInv, NobodyElseLives, Alive, Run
    <3>2. mtx' # None
      BY <1>3, <2>2
    <3>3. before \in Nat /\ before <= runs'
      BY <2>1 DEF SupInv, TypeOK, NobodyElseLives
    <3> QED BY <1>1, <3>1, <3>2, <3>3 DEF NobodyElseLives, Left
  <2>11. NotYetSpawned'
    BY <1>1, <2>1, <2>5 DEF SupInv, NotYetSpawned
  <2>12. StoppedWasAsked'
    BY <1>1, <2>4 DEF StoppedWasAsked
  <2> QED BY <2>7, <2>8, <2>9, <2>10, <2>11, <2>12 DEF SupInv
<1> QED BY <1>2, <1>3 DEF Spawn

(* The rest of start(): the child gets its job and its monitor, or that     *)
(* fails unnoticed, and the handle is open.                                 *)
LEMMA AdoptStep ==
    ASSUME SupInv, NEW h \in Handler, Adopt(h)
    PROVE  SupInv'
<1>1. /\ mtx = h /\ mtx # None /\ runs > before /\ proc = 0 /\ ~jobbed[runs]
      /\ monitor[runs] = "none" /\ runs \notin asked \cup orphaned \cup unjobbed \cup unwatched
  BY SupAssumption DEF Adopt, SupInv, StartHoldsLock, SupAssumption
<1>2. runs \in Run /\ runs # 0 /\ runs \in 0 .. MaxRuns /\ before \in 0 .. MaxRuns
  BY <1>1, SupAssumption DEF SupInv, TypeOK, Run, SupAssumption
<1>3. /\ proc' = runs /\ state' = "starting" /\ detail' = FALSE /\ stopping' = FALSE
      /\ mtx' = None /\ pc' = [pc EXCEPT ![h] = "idle"]
      /\ asked' = {}
      /\ UNCHANGED <<child, external, snap, waited, orphaned, before, runs, deaths>>
  BY DEF Adopt, To
<1>4. /\ jobbed' \in [Run -> BOOLEAN] /\ unjobbed' \subseteq Run /\ unjobbed \subseteq unjobbed'
      /\ jobbed'[runs] \/ runs \in unjobbed'
      /\ \A r \in Run : r # runs => jobbed'[r] = jobbed[r] /\ (r \in unjobbed' => r \in unjobbed)
  BY <1>2 DEF Adopt, SupInv, TypeOK
<1>5. /\ monitor' \in [Run -> {"none", "watch", "ready", "clock", "late", "wait", "gone"}]
      /\ unwatched' \subseteq Run
      /\ monitor'[runs] \notin {"none", "gone"} \/ runs \in unwatched'
      /\ monitor'[runs] # "gone"
      /\ \A r \in Run : r # runs =>
           monitor'[r] = monitor[r] /\ (r \in unwatched' => r \in unwatched)
  BY <1>1, <1>2 DEF Adopt, Goes, SupInv, TypeOK
<1>6. \A g \in Handler : pc'[g] # "spawned"
  BY <1>1, <1>3 DEF SupInv, TypeOK, StartHoldsLock
<1>7. TypeOK'
  <2>1. /\ state' = "starting" /\ detail' \in BOOLEAN /\ stopping' \in BOOLEAN /\ mtx' = None
        /\ pc' \in [Handler -> {"idle", "start?", "stop?", "start", "stop", "spawned"}]
    BY <1>3 DEF SupInv, TypeOK
  <2>2. /\ proc' \in 0 .. MaxRuns /\ before' \in 0 .. MaxRuns /\ runs' \in 0 .. MaxRuns
        /\ {asked', orphaned', unjobbed', unwatched'} \subseteq SUBSET Run
    BY <1>2, <1>3, <1>4, <1>5 DEF SupInv, TypeOK
  <2> QED BY <1>3, <1>4, <1>5, <2>1, <2>2 DEF SupInv, TypeOK
<1>8. StartHoldsLock' /\ HandleIsNewest'
  BY <1>1, <1>2, <1>3, <1>4, <1>5, <1>6 DEF StartHoldsLock, HandleIsNewest
<1>9. MonitorOwnsHandle'
  BY <1>1, <1>2, <1>3, <1>5 DEF SupInv, MonitorOwnsHandle, Run
<1>10. NobodyElseLives'
  <2>1. ASSUME NEW r \in Run, Alive(r)'
        PROVE  r = proc' \/ (r <= before /\ r \in Left)
    BY <1>1, <1>3, <2>1 DEF SupInv, NobodyElseLives, Alive, Run
  <2> QED BY <1>3, <1>4, <2>1 DEF SupInv, NobodyElseLives, Left
<1>11. NotYetSpawned'
  <2>1. \A r \in Run : r > runs => r # runs
    BY DEF Run
  <2> QED BY <1>3, <1>4, <1>5, <2>1 DEF SupInv, NotYetSpawned
<1>12. StoppedWasAsked'
  BY <1>3, <1>5 DEF StoppedWasAsked
<1> QED BY <1>7, <1>8, <1>9, <1>10, <1>11, <1>12 DEF SupInv

(* stop() only terminates the child and notes it; the monitor does the rest.*)
LEMMA StopStep ==
    ASSUME SupInv, NEW h \in Handler, Stop(h)
    PROVE  SupInv'
<1> USE DEF left
<1>1. /\ UNCHANGED <<state, detail, proc, mtx, jobbed, external, monitor, snap, waited, left,
                     runs, deaths>>
      /\ mtx = None /\ pc[h] = "stop" /\ pc' = [pc EXCEPT ![h] = "idle"]
  BY DEF Stop, To
<1>2. \/ proc = 0 /\ UNCHANGED <<stopping, child, asked>>
      \/ /\ proc # 0 /\ stopping' = TRUE /\ child' = Kill(proc, child)
         /\ asked' = {proc}
  BY DEF Stop
<1>3. proc # 0 => proc = runs /\ proc \in Run /\ ~(proc > runs)
  BY SupAssumption DEF SupInv, TypeOK, HandleIsNewest, Run, SupAssumption
<1>4. /\ child' \in [Run -> {"none", "loading", "listening", "killed", "dead"}]
      /\ \A r \in Run : (Alive(r)' => Alive(r)) /\ (child[r] = "none" => child'[r] = "none")
  BY <1>2 DEF Kill, Alive, SupInv, TypeOK
<1>5. /\ pc' \in [Handler -> {"idle", "start?", "stop?", "start", "stop", "spawned"}]
      /\ \A g \in Handler : pc'[g] = "spawned" <=> pc[g] = "spawned"
  BY <1>1 DEF SupInv, TypeOK
<1>6. stopping' \in BOOLEAN /\ asked' \subseteq Run
  BY <1>2, <1>3 DEF SupInv, TypeOK
<1>7. TypeOK'
  BY <1>1, <1>4, <1>5, <1>6 DEF SupInv, TypeOK
<1>8. StartHoldsLock' /\ HandleIsNewest' /\ MonitorOwnsHandle'
  BY <1>1, <1>2, <1>3, <1>5 DEF SupInv, StartHoldsLock, HandleIsNewest, MonitorOwnsHandle
<1>9. NobodyElseLives'
  <2>1. ASSUME NEW r \in Run, Alive(r)'
        PROVE  r = proc \/ (r <= before /\ r \in Left)
    BY <1>1, <1>4, <2>1 DEF SupInv, NobodyElseLives
  <2> QED BY <1>1, <2>1 DEF SupInv, NobodyElseLives, Left
<1>10. NotYetSpawned'
  BY <1>1, <1>2, <1>3, <1>4 DEF SupInv, NotYetSpawned
<1>11. StoppedWasAsked'
  <2>1. CASE proc = 0
    BY <1>1, <1>2, <2>1 DEF SupInv, StoppedWasAsked
  <2>2. CASE proc # 0
    BY <1>1, <2>2 DEF StoppedWasAsked
  <2> QED BY <2>1, <2>2
<1> QED BY <1>7, <1>8, <1>9, <1>10, <1>11 DEF SupInv

-----------------------------------------------------------------------------
(* The API process ends: whoever has a job goes with it, and only a child   *)
(* without one is left behind.                                              *)
LEMMA DieStep ==
    ASSUME SupInv, Die
    PROVE  SupInv'
<1>1. /\ deaths' = deaths + 1 /\ deaths < MaxDeaths
      /\ orphaned' = IF mtx = None THEN orphaned ELSE orphaned \cup {runs}
      /\ before' = runs
      /\ child' = [r \in Run |-> IF jobbed[r] /\ Alive(r) THEN "dead" ELSE child[r]]
      /\ state' = "stopped" /\ detail' = FALSE /\ stopping' = FALSE /\ proc' = 0 /\ mtx' = None
      /\ monitor' = [r \in Run |-> "none"]
      /\ pc' = [h \in Handler |-> "idle"] /\ snap' = [h \in Handler |-> "stopped"]
      /\ asked' = {} /\ unwatched' = {} /\ waited' = [r \in Run |-> 0]
      /\ UNCHANGED <<jobbed, external, unjobbed, runs>>
  BY DEF Die
<1>2. mtx # None => runs \in Run /\ ~jobbed[runs] /\ ~(runs > runs)
  BY SupAssumption DEF SupInv, TypeOK, StartHoldsLock, Run, SupAssumption
<1>3. child' \in [Run -> {"none", "loading", "listening", "killed", "dead"}]
  BY <1>1 DEF SupInv, TypeOK
<1>4. TypeOK'
  <2>1. deaths' \in 0 .. MaxDeaths /\ proc' \in 0 .. MaxRuns
    BY <1>1, SupAssumption DEF SupInv, TypeOK, SupAssumption
  <2>2. orphaned' \subseteq Run
    BY <1>1, <1>2 DEF SupInv, TypeOK
  <2>0. before' \in 0 .. MaxRuns
    BY <1>1 DEF SupInv, TypeOK
  <2>3. monitor' \in [Run -> {"none", "watch", "ready", "clock", "late", "wait", "gone"}]
    BY <1>1
  <2>4. pc' \in [Handler -> {"idle", "start?", "stop?", "start", "stop", "spawned"}]
    BY <1>1
  <2>5. snap' \in [Handler -> {"stopped", "starting", "running", "exited"}]
    BY <1>1
  <2>6. /\ state' = "stopped" /\ detail' = FALSE /\ stopping' = FALSE /\ mtx' = None
        /\ asked' = {} /\ unwatched' = {} /\ waited' = [r \in Run |-> 0]
        /\ UNCHANGED <<jobbed, external, unjobbed, runs>>
    BY <1>1
  <2>7. /\ jobbed' \in [Run -> BOOLEAN] /\ external' \in BOOLEAN
        /\ {asked', orphaned', unjobbed', unwatched'} \subseteq SUBSET Run
        /\ waited' \in [Run -> 0 .. Polls] /\ before' \in 0 .. MaxRuns
        /\ runs' \in 0 .. MaxRuns
    BY <2>0, <2>2, <2>6, SupAssumption DEF SupInv, TypeOK, SupAssumption
  <2> QED BY <1>3, <2>1, <2>3, <2>4, <2>5, <2>6, <2>7 DEF TypeOK
<1>5. StartHoldsLock' /\ HandleIsNewest' /\ MonitorOwnsHandle'
  BY <1>1 DEF StartHoldsLock, HandleIsNewest, MonitorOwnsHandle
<1>6. NobodyElseLives'
  <2>1. \A r \in Run : Alive(r)' => Alive(r) /\ ~jobbed[r]
    BY <1>1 DEF Alive
  <2>2. \A r \in Run : r = proc /\ r # 0 => jobbed[r] \/ r \in unjobbed
    BY DEF SupInv, HandleIsNewest
  <2>3. /\ before' = runs /\ before \in Nat /\ before <= runs /\ runs \in Nat
        /\ orphaned \subseteq orphaned' /\ unjobbed' = unjobbed
        /\ mtx # None => runs \in orphaned'
    BY <1>1 DEF SupInv, TypeOK, NobodyElseLives
  <2>4. \A r \in Run : child[r] # "none" => r <= runs
    BY <2>3 DEF SupInv, NotYetSpawned, Run
  <2>5. ASSUME NEW r \in Run, Alive(r)'
        PROVE  r <= before' /\ r \in Left'
    <3>1. Alive(r) /\ ~jobbed[r] /\ r <= runs /\ r # 0
      BY <2>1, <2>4, <2>5 DEF Alive, Run
    <3> QED BY <2>2, <2>3, <3>1 DEF SupInv, NobodyElseLives, Left
  <2> QED BY <2>3, <2>5, <1>1 DEF NobodyElseLives
<1>7. NotYetSpawned'
  <2>1. ASSUME NEW r \in Run, r > runs
        PROVE  child'[r] = "none" /\ monitor'[r] = "none" /\ r \notin orphaned'
    BY <1>1, <1>2, <2>1 DEF SupInv, NotYetSpawned
  <2> QED BY <1>1, <2>1 DEF SupInv, NotYetSpawned
<1>8. StoppedWasAsked'
  <2>1. runs > 0 => runs \in Run
    BY SupAssumption DEF SupInv, TypeOK, Run, SupAssumption
  <2> QED BY <1>1, <2>1 DEF StoppedWasAsked
<1> QED BY <1>4, <1>5, <1>6, <1>7, <1>8 DEF SupInv

-----------------------------------------------------------------------------
LEMMA StepKeepsSupInv == SupInv /\ [Next]_vars => SupInv'
<1> SUFFICES ASSUME SupInv, [Next]_vars PROVE SupInv'
  OBVIOUS
<1>1. CASE UNCHANGED vars
  <2>1. TypeOK'
    BY <1>1 DEF SupInv, TypeOK, vars, sup, world, call, ghost, left
  <2>2. UNCHANGED Books /\ UNCHANGED pc /\ UNCHANGED child
    BY <1>1 DEF Books, vars, sup, world, call, ghost, left
  <2>3. \A r \in Run : (Alive(r)' => Alive(r)) /\ (child[r] = "none" => child'[r] = "none")
    BY <2>2 DEF Alive
  <2> QED BY <2>1, <2>2, <2>3, ChildDies
<1>2. CASE ExternalEngine
  <2>1. 1 \in Run
    BY SupAssumption DEF Run, SupAssumption
  <2> QED BY <1>2, <2>1, WorldSteps
<1>3. ASSUME NEW r \in Run,
             ChildLoaded(r) \/ ChildExits(r) \/ ChildKilled(r) \/ Monitor(r)
      PROVE  SupInv'
  BY <1>3, WorldSteps, MonitorSteps, RecordStep DEF Monitor
<1>4. ASSUME NEW h \in Handler, Request(h) \/ Probe(h) \/ Spawn(h) \/ Adopt(h) \/ Stop(h)
      PROVE  SupInv'
  BY <1>4, LookSteps, SpawnStep, AdoptStep, StopStep
<1> QED BY <1>1, <1>2, <1>3, <1>4, DieStep DEF Next

(* Where the newest child, its handle, its job and its monitor are, in      *)
(* every reachable state.                                                   *)
THEOREM SupInvariant == Spec => []SupInv
BY InitHolds, StepKeepsSupInv, PTL DEF Spec

(* Children of this process that live: the one whose handle is open or that *)
(* a start holds.                                                           *)
LEMMA LivingIsNewest ==
    ASSUME SupInv, NEW r \in Run, Alive(r), r > before
    PROVE  r = runs /\ (r = proc \/ mtx # None)
<1>1. before \in Nat /\ r \in Nat /\ ~(r <= before) /\ r # 0
  BY DEF SupInv, TypeOK, Run
<1>2. r = proc \/ (mtx # None /\ r = runs)
  BY <1>1 DEF SupInv, NobodyElseLives
<1> QED BY <1>1, <1>2 DEF SupInv, HandleIsNewest

LEMMA InvariantIsSafe == SupInv => SupervisorIsSafe
<1> SUFFICES ASSUME SupInv PROVE SupervisorIsSafe
  OBVIOUS
<1>1. OneChild
  <2> DEFINE living == {r \in Run : r > before /\ Alive(r)}
  <2>1. living \subseteq {runs}
    BY LivingIsNewest
  <2>2. IsFiniteSet({runs}) /\ Cardinality({runs}) = 1
    BY FS_Singleton
  <2>3. IsFiniteSet(living) /\ Cardinality(living) <= Cardinality({runs})
    BY <2>1, <2>2, FS_Subset
  <2> QED BY <2>2, <2>3 DEF OneChild
<1>2. StateIsChild
  <2>1. ASSUME proc = 0, mtx = None, NEW r \in Run, r > before
        PROVE  ~Alive(r)
    BY <2>1, LivingIsNewest DEF Run
  <2> QED BY <2>1 DEF StateIsChild, SupInv, HandleIsNewest
<1>3. NoOrphan
  <2>1. ASSUME NEW r \in Run, r <= before, Alive(r)
        PROVE  r \in orphaned \cup unjobbed
    <3>1. r # 0 /\ r \in Int /\ before \in Nat /\ runs \in Nat
      BY DEF Run, SupInv, TypeOK
    <3>2. r # proc /\ ~(mtx # None /\ r = runs)
      BY <2>1, <3>1 DEF SupInv, HandleIsNewest, StartHoldsLock
    <3> QED BY <2>1, <3>2 DEF SupInv, NobodyElseLives, Left
  <2> QED BY <2>1 DEF NoOrphan
<1> QED BY <1>1, <1>2, <1>3 DEF SupervisorIsSafe, SupInv

(* One API process never has two engines at once and always knows the one   *)
(* it has; the state it shows and the end it records are true; and only a   *)
(* child it died over in start, or had no job for, outlives it.             *)
THEOREM SupervisorStaysSafe == Spec => []SupervisorIsSafe
BY SupInvariant, InvariantIsSafe, PTL
=============================================================================
