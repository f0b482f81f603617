------------------------------ MODULE MCEnds ------------------------------
(* What must happen at last, in the components of the API server and of the *)
(* engine, each on a small instance: one behaviour is of one part, chosen   *)
(* at the start, and the variables of the other components stay "off".      *)
(* Those of the supervisor, EngineSup, stay as they are at the start in      *)
(* another part, and so it is checked for safety here as well.               *)
EXTENDS EngineSup, Sequences, TLC

Off == "off"  \* value of a variable of a part that is not chosen

VARIABLES
    part,  \* which part this behaviour is of; it never changes
    \* EngineLink
    req, linkPhase, unsent, fd, cancelled, linkOutcome, got, link, linkAlive,
    linkCrashes, linkMade, verdict, linkAsked,
    \* ApiSlots
    probe, slotsSlots, pool, free, inFlight, queued, connMtx, conn, slotsPc, cli,
    slotsOutcome, slotsAlive, slotsCrashes, spoiled, fault,
    \* KvSnap
    snapDb, snapQ, qbytes, snapW, work, snapRs, damaged, snapMade, restores, fails,
    damages, snapCrashes,
    \* SpecDecode
    decodeKind, decodeM, decodeCur, decodeN, sent, draft, decodePc, why, reach,
    \* ReplyStream
    answerPhase, reason, inside, broken, pieces, content, answerMade, args,
    created, msg, calls, index, answerSlots, todo, answerWire, started, gone, waits,
    \* HttpConn
    script, unread, cut, httpPhase, pending, httpAsked, handed, httpWire, active,
    deaf

linkVars == <<req, linkPhase, unsent, fd, cancelled, linkOutcome, got, link,
    linkAlive, linkCrashes, linkMade, verdict, linkAsked>>
slotsVars == <<probe, slotsSlots, pool, free, inFlight, queued, connMtx, conn,
    slotsPc, cli, slotsOutcome, slotsAlive, slotsCrashes, spoiled, fault>>
snapVars == <<snapDb, snapQ, qbytes, snapW, work, snapRs, damaged, snapMade,
    restores, fails, damages, snapCrashes>>
decodeVars == <<decodeKind, decodeM, decodeCur, decodeN, sent, draft, decodePc,
    why, reach>>
answerVars == <<answerPhase, reason, inside, broken, pieces, content,
    answerMade, args, created, msg, calls, index, answerSlots, todo, answerWire,
    started, gone, waits>>
httpVars == <<script, unread, cut, httpPhase, pending, httpAsked, handed,
    httpWire, active, deaf>>
endsVars == <<part, vars, linkVars, slotsVars, snapVars, decodeVars, answerVars, httpVars>>

NoLink == /\ req = Off /\ linkPhase = Off /\ unsent = Off /\ fd = Off
    /\ cancelled = Off /\ linkOutcome = Off /\ got = Off /\ link = Off
    /\ linkAlive = Off /\ linkCrashes = Off /\ linkMade = Off /\ verdict = Off
    /\ linkAsked = Off
NoSlots == /\ probe = Off /\ slotsSlots = Off /\ pool = Off /\ free = Off
    /\ inFlight = Off /\ queued = Off /\ connMtx = Off /\ conn = Off
    /\ slotsPc = Off /\ cli = Off /\ slotsOutcome = Off /\ slotsAlive = Off
    /\ slotsCrashes = Off /\ spoiled = Off /\ fault = Off
NoSnap == /\ snapDb = Off /\ snapQ = Off /\ qbytes = Off /\ snapW = Off
    /\ work = Off /\ snapRs = Off /\ damaged = Off /\ snapMade = Off
    /\ restores = Off /\ fails = Off /\ damages = Off /\ snapCrashes = Off
NoDecode == /\ decodeKind = Off /\ decodeM = Off /\ decodeCur = Off
    /\ decodeN = Off /\ sent = Off /\ draft = Off /\ decodePc = Off /\ why = Off
    /\ reach = Off
NoAnswer == /\ answerPhase = Off /\ reason = Off /\ inside = Off
    /\ broken = Off /\ pieces = Off /\ content = Off /\ answerMade = Off
    /\ args = Off /\ created = Off /\ msg = Off /\ calls = Off /\ index = Off
    /\ answerSlots = Off /\ todo = Off /\ answerWire = Off /\ started = Off
    /\ gone = Off /\ waits = Off
NoHttp == /\ script = Off /\ unread = Off /\ cut = Off /\ httpPhase = Off
    /\ pending = Off /\ httpAsked = Off /\ handed = Off /\ httpWire = Off
    /\ active = Off /\ deaf = Off

\* Only the variables of one component, g, may change.
Others(g) ==
    /\ UNCHANGED part
    /\ g # "sup" => UNCHANGED vars
    /\ g # "link" => UNCHANGED linkVars
    /\ g # "slots" => UNCHANGED slotsVars
    /\ g # "snap" => UNCHANGED snapVars
    /\ g # "decode" => UNCHANGED decodeVars
    /\ g # "answer" => UNCHANGED answerVars
    /\ g # "http" => UNCHANGED httpVars

-----------------------------------------------------------------------------
\* SpecDecode: all texts behind a prompt of two tokens.
Texts ==
    {k \in [3 .. 6 -> {"plain", "ckpt", "eos"}] : \A t \in 4 .. 6 : k[t - 1] = "eos" => k[t] = "eos"}

\* KvSnap: the turns of MCSharedState, one page for each prefix and the one
\* before it.
Pages == "p" :> <<"c1">> @@ "pq" :> <<"c1", "c2">> @@ "pr" :> <<"c1", "c3">>
Sections == "p" :> <<"m1">> @@ "pq" :> <<"m1", "m2">> @@ "pr" :> <<"m1", "m3">>
Save(s, mtp) == [s |-> s, mtp |-> mtp]
Turns == {<<Save("p", FALSE)>>, <<Save("p", TRUE), Save("pq", FALSE)>>, <<Save("pr", TRUE)>>}

\* HttpConn: scripts of one and two requests.
Get(head, body) == [head |-> head, body |-> body, good |-> TRUE, expect |-> FALSE,
                    keep |-> TRUE, status |-> 200]
Requests == {Get(2, 2), [Get(2, 3) EXCEPT !.expect = TRUE], [Get(1, 2) EXCEPT !.keep = FALSE],
             [Get(2, 0) EXCEPT !.good = FALSE], Get(6, 0), Get(1, 10)}
Scripts == UNION {[1 .. n -> Requests] : n \in 1 .. 2}

-----------------------------------------------------------------------------
Hung == INSTANCE EngineLink WITH NReq <- 2, Kind <- <<"good", "good">>,
    Frames <- <<0, 1>>, MaxTokens <- 0, Cap <- 2, MaxCrashes <- 1, Stalls <- FALSE,
    phase <- linkPhase, outcome <- linkOutcome, alive <- linkAlive,
    crashes <- linkCrashes, made <- linkMade, asked <- linkAsked
Live == INSTANCE EngineLink WITH NReq <- 2, Kind <- <<"good", "good">>,
    Frames <- <<0, 1>>, MaxTokens <- 0, Cap <- 1, MaxCrashes <- 0, Stalls <- TRUE,
    phase <- linkPhase, outcome <- linkOutcome, alive <- linkAlive,
    crashes <- linkCrashes, made <- linkMade, asked <- linkAsked
Slots == INSTANCE ApiSlots WITH Requests <- 1 .. 3, EngineSlots <- 2,
    ProbeMayFail <- TRUE, MaxCrashes <- 1, slots <- slotsSlots, pc <- slotsPc,
    outcome <- slotsOutcome, alive <- slotsAlive, crashes <- slotsCrashes
Snap == INSTANCE KvSnap WITH Page <- {"c1", "c2", "c3"},
    Section <- {"m1", "m2", "m3"}, State <- {"p", "pq", "pr"}, PagesOf <- Pages,
    SectionsOf <- Sections, Turns <- Turns, Cap <- 4, QCap <- 1,
    Upgrades <- "published", MaxEnt <- 3, MaxRestores <- 1, MaxFail <- 1,
    MaxDamage <- 0, MaxCrash <- 0, db <- snapDb, q <- snapQ, w <- snapW,
    rs <- snapRs, made <- snapMade, crashes <- snapCrashes
Chain == INSTANCE SpecDecode WITH Loop <- "chain", Prompt <- 2, MaxTokens <- 3,
    MaxCtx <- 5, Gamma <- 1, MaxDraft <- 2, Chunk <- 1, Ring <- 2, Kinds <- Texts,
    kind <- decodeKind, m <- decodeM, cur <- decodeCur, n <- decodeN, pc <- decodePc
Chat == INSTANCE ReplyStream WITH Api <- "chat", Forced <- FALSE,
    MaxPieces <- 1, MaxCalls <- 1, MaxWaits <- 1, phase <- answerPhase,
    made <- answerMade, slots <- answerSlots, wire <- answerWire
Framing == INSTANCE HttpConn WITH Conns <- {"c1"}, Scripts <- Scripts,
    MaxConnections <- 1, MaxHeaderBytes <- 4, MaxRequestBytes <- 9, Blank <- 2,
    Chunk <- 3, phase <- httpPhase, asked <- httpAsked, wire <- httpWire

\* What the components assume of their constants.
ASSUME PartsAssumption ==
    Hung!LinkAssumption /\ Live!LinkAssumption /\ Slots!SlotsAssumption /\
    Chain!DecodeAssumption /\ Chat!ApiAssumption /\ Framing!LimitAssumption

EndsInit ==
    /\ part \in {"hung", "live", "slots", "sup", "snap", "chain", "chat", "framing"}
    /\ Init
    /\ part # "sup" => ~external
    /\ CASE part = "hung" -> Hung!Init
         [] part = "live" -> Live!Init
         [] OTHER -> NoLink
    /\ IF part = "slots" THEN Slots!Init ELSE NoSlots
    /\ IF part = "snap" THEN Snap!Init ELSE NoSnap
    /\ IF part = "chain" THEN Chain!Init ELSE NoDecode
    /\ IF part = "chat" THEN Chat!Init ELSE NoAnswer
    /\ IF part = "framing" THEN Framing!Init ELSE NoHttp

EndsNext ==
    \/ part = "hung" /\ Hung!Next /\ Others("link")
    \/ part = "live" /\ Live!Next /\ Others("link")
    \/ part = "slots" /\ Slots!Next /\ Others("slots")
    \/ part = "sup" /\ Next /\ Others("sup")
    \/ part = "snap" /\ Snap!Next /\ Others("snap")
    \/ part = "chain" /\ Chain!Next /\ Others("decode")
    \/ part = "chat" /\ Chat!Next /\ Others("answer")
    \/ part = "framing" /\ Framing!Next /\ Others("http")

EndsSpec == EndsInit /\ [][EndsNext]_endsVars

\* The calling thread runs, whatever the engine and the HTTP client do, but
\* for its writes, which wait for an engine that does not read; in "live" the
\* threads of the engine run, and so all of the client.
LinkFairness ==
    /\ WF_linkVars(part = "hung" /\ Hung!Unblocked) /\ WF_linkVars(part = "live" /\ Live!Client)
    /\ \A c \in 1 .. 2 : /\ WF_linkVars(part = "live" /\ Live!Reader(c))
                         /\ WF_linkVars(part = "live" /\ Live!Worker(c))

\* Handlers run, a generation ends, the engine is started again.
SlotsFairness ==
    /\ WF_slotsVars(part = "slots" /\ ~fault /\ (Slots!ProbeAnswered \/ Slots!ProbeFailed))
    /\ WF_slotsVars(part = "slots" /\ ~fault /\ Slots!Reprobe)
    /\ WF_slotsVars(part = "slots" /\ ~fault /\ Slots!Restart)
    /\ \A r \in 1 .. 3 : /\ WF_slotsVars(part = "slots" /\ ~fault /\ (Slots!Poll(r) \/ Slots!Wake(r)))
                         /\ WF_slotsVars(part = "slots" /\ ~fault /\ Slots!Holding(r))

\* The monitors and a handler inside start() run; a terminated process goes.
SupFairness ==
    /\ \A r \in Run : /\ WF_vars(part = "sup" /\ ChildKilled(r))
                      /\ WF_vars(part = "sup" /\ Monitor(r))
    /\ \A h \in Handler : WF_vars(part = "sup" /\ Adopt(h))

\* A request decodes while it has the GPU, which comes back (ServeSched); the
\* writer and the GPU thread of the cache and the handlers of the server run.
OtherFairness ==
    /\ WF_decodeVars(part = "chain" /\ Chain!Next)
    /\ WF_snapVars(part = "snap" /\ Snap!Writer) /\ WF_snapVars(part = "snap" /\ Snap!Gpu)
    /\ WF_answerVars(part = "chat" /\ Chat!Send) /\ WF_answerVars(part = "chat" /\ Chat!Begin)
    /\ WF_answerVars(part = "chat" /\ Chat!Notice)
    /\ WF_answerVars(part = "chat" /\ (Chat!TagEvent \/ Chat!CallEvent) /\ answerPhase = "prefix")
    /\ WF_answerVars(part = "chat" /\ (Chat!GenerationEnds \/ Chat!GenerationFails))
    /\ WF_answerVars(part = "chat" /\ Chat!Finishes)
    /\ WF_httpVars(part = "framing" /\ Framing!Accept("c1"))
    /\ WF_httpVars(part = "framing" /\ Framing!Refuse("c1"))
    /\ WF_httpVars(part = "framing" /\ Framing!Serve("c1"))

EndsFairSpec == EndsSpec /\ LinkFairness /\ SlotsFairness /\ SupFairness /\ OtherFairness

-----------------------------------------------------------------------------
\* "hung" assumes nothing of the engine: a request that was written, with room
\* left for an X, or whose connection was closed, returns.
WrittenReturns == (part = "hung" /\ Hung!Returning) ~> (part = "hung" => linkPhase = "idle")

\* A connection whose client has gone is closed by the engine, its worker
\* joined.
HungUpIsReleased ==
    \A c \in 1 .. 2 : (part = "live" /\ link[c].hung) ~> (part = "live" => link[c].shut)

\* Whatever the engine does, a request that came gets an answer and gives its
\* slot back.  One request stands for all: nothing tells them apart.
SlotIsGivenBack ==
    (part = "slots" /\ slotsPc[1] # "none") ~> (part = "slots" => Slots!HasEnded(1))

\* The pool reaches full width once the engine is up.
PoolReachesWidth == <>(part = "slots" => Slots!FullWidth)

\* A turn gets all it has to save into the queue, and the queue drains.
Drains == (part = "snap" /\ work # <<>>) ~> (part = "snap" => Snap!Quiet)

\* Every request returns to its caller if the engine's threads run; decoding
\* ends, whatever is drafted and however often it pauses; a stream ends, and
\* its handler does not go on for a client that is gone; a connection ends, and
\* before it every request up to the first that ends it is answered.
Concludes ==
    <>(/\ part = "live" => Live!AllReturned
       /\ part = "chain" => decodePc = "over"
       /\ part = "chat" => answerPhase = "over"
       /\ part = "framing" => Framing!Answered("c1"))

\* What the run checks.

\* What comes from a client comes to an end: a call of an engine that runs
\* returns, and one that was written does whatever the engine does; a slot
\* is given back, a stream ends, a connection is answered and closed.
EveryRequestReturns == Concludes /\ WrittenReturns /\ HungUpIsReleased /\ SlotIsGivenBack

\* What concerns the engine comes to an end: it is up with all its
\* connections, a start or a stop is resolved, and what is to be saved is on
\* the disk.
EngineSettles ==
    /\ PoolReachesWidth /\ StopCompletes /\ StartResolves /\ Drains
=============================================================================
