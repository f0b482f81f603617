--------------------------- MODULE MCSharedState ---------------------------
(* The components of the API server and of the engine that keep state over  *)
(* requests, each on small instances: one behaviour is of one part, chosen  *)
(* at the start, and the variables of the other components stay "off".  The *)
(* slots are the module's own; they stay as they start in the other parts.  *)
EXTENDS ApiSlots, TLC

Off == "off"  \* value of a variable of a part that is not chosen

VARIABLES
    part,  \* which part this behaviour is of; it never changes
    \* EngineLink
    req, phase, unsent, fd, cancelled, linkOutcome, got, link, linkAlive,
    linkCrashes, linkMade, verdict, linkAsked,
    \* KvSnap
    snapDb, snapQ, qbytes, snapW, work, snapRs, damaged, snapMade, restores,
    snapFails, snapDamages, snapCrashes,
    \* TokenCache
    entries, total, clock, cachePc, snap, handle, cacheFile, tmp, content,
    cacheLast, records, hits, cacheCrashes, cacheFails,
    \* ReqStat
    live, rotated, statAt, statUp, cnt, fseq, limit, statEnv, statNext, acked, rd,
    statCrashes, statFails, tails, statDamages,
    \* ServiceConf
    confFile, bak, conf, saving, whole, confParts, confAsked, askedVer, posts,
    confCrashes, confFails

linkVars == <<req, phase, unsent, fd, cancelled, linkOutcome, got, link,
    linkAlive, linkCrashes, linkMade, verdict, linkAsked>>
snapVars == <<snapDb, snapQ, qbytes, snapW, work, snapRs, damaged, snapMade,
    restores, snapFails, snapDamages, snapCrashes>>
cacheVars == <<entries, total, clock, cachePc, snap, handle, cacheFile, tmp,
    content, cacheLast, records, hits, cacheCrashes, cacheFails>>
statVars == <<live, rotated, statAt, statUp, cnt, fseq, limit, statEnv,
    statNext, acked, rd, statCrashes, statFails, tails, statDamages>>
confVars == <<confFile, bak, conf, saving, whole, confParts, confAsked,
    askedVer, posts, confCrashes, confFails>>
sharedVars == <<part, vars, linkVars, snapVars, cacheVars, statVars, confVars>>

NoLink == /\ req = Off /\ phase = Off /\ unsent = Off /\ fd = Off
    /\ cancelled = Off /\ linkOutcome = Off /\ got = Off /\ link = Off
    /\ linkAlive = Off /\ linkCrashes = Off /\ linkMade = Off /\ verdict = Off
    /\ linkAsked = Off
NoSnap == /\ snapDb = Off /\ snapQ = Off /\ qbytes = Off /\ snapW = Off
    /\ work = Off /\ snapRs = Off /\ damaged = Off /\ snapMade = Off
    /\ restores = Off /\ snapFails = Off /\ snapDamages = Off /\ snapCrashes = Off
NoCache == /\ entries = Off /\ total = Off /\ clock = Off /\ cachePc = Off
    /\ snap = Off /\ handle = Off /\ cacheFile = Off /\ tmp = Off /\ content = Off
    /\ cacheLast = Off /\ records = Off /\ hits = Off /\ cacheCrashes = Off
    /\ cacheFails = Off
NoStat == /\ live = Off /\ rotated = Off /\ statAt = Off /\ statUp = Off
    /\ cnt = Off /\ fseq = Off /\ limit = Off /\ statEnv = Off /\ statNext = Off
    /\ acked = Off /\ rd = Off /\ statCrashes = Off /\ statFails = Off
    /\ tails = Off /\ statDamages = Off
NoConf == /\ confFile = Off /\ bak = Off /\ conf = Off /\ saving = Off
    /\ whole = Off /\ confParts = Off /\ confAsked = Off /\ askedVer = Off
    /\ posts = Off /\ confCrashes = Off /\ confFails = Off

\* Only the variables of one component, g, may change.
Others(g) ==
    /\ UNCHANGED part
    /\ g # "slots" => UNCHANGED vars
    /\ g # "link" => UNCHANGED linkVars
    /\ g # "snap" => UNCHANGED snapVars
    /\ g # "cache" => UNCHANGED cacheVars
    /\ g # "stat" => UNCHANGED statVars
    /\ g # "conf" => UNCHANGED confVars

-----------------------------------------------------------------------------
\* KvSnap: a short prefix, and two that continue it differently; the first
\* page and its section are shared.
Pages == "p" :> <<"c1">> @@ "pq" :> <<"c1", "c2">> @@ "pr" :> <<"c1", "c3">>
Sections == "p" :> <<"m1">> @@ "pq" :> <<"m1", "m2">> @@ "pr" :> <<"m1", "m3">>
Save(s, mtp) == [s |-> s, mtp |-> mtp]
PlainTurns == {<<Save("p", FALSE), Save("pq", FALSE)>>, <<Save("pr", FALSE)>>, <<Save("p", FALSE)>>}
MixedTurns == {<<Save("p", FALSE)>>, <<Save("p", TRUE), Save("pq", FALSE)>>, <<Save("pr", TRUE)>>}

\* ServiceConf: files with the keys in their order, one twice, some missing;
\* posts of one or two keys.  -1 is no value, -2 is $MODEL_FILE.
Text(lines) == [lines |-> lines, ended |-> TRUE]
Note == [kind |-> "note"]
Mark(v) == [kind |-> "mark", val |-> v]
Line(k, form, v) == [kind |-> "key", key |-> k, form |-> form, val |-> v]
Model(v)   == Line("MODEL_FILE", ":-", v)
Ngram(v)   == Line("NGRAM_FILE", ":-", v)
Port(v)    == Line("API_PORT", ":-", v)
WeightFiles ==
    {Text(<<Note, Model(11), Ngram(-2), Line("OVERLAY_FILE", "-", 31), Port(2)>>),
     Text(<<Model(11), Note, Mark("v2"), Model(12), Ngram(21)>>),
     Text(<<Model(11), Note, Port(2)>>)}
NumberFiles ==
    {Text(<<Note, Port(2)>>),
     Text(<<Line("ROPE_ORIGINAL_CTX", ":-", 2), Line("KV_PAGED", "=", 1)>>)}

One(k, vs) == {k :> v : v \in vs}
Both(A, B) == {a @@ b : a \in A, b \in B}
WeightPosts ==
    [vals : {<<>>} \union One("MODEL_FILE", {11, 12}) \union One("API_PORT", {3})
            \union Both(One("NGRAM_FILE", {22}), One("OVERLAY_FILE", {-1, 32})),
     ver : {"", "v1", "v2", "gguf"}]
NumberPosts ==
    [vals : UNION {One("API_PORT", {1, 3}), One("ENGINE_PORT", {2, 3}), One("PARALLEL", {1, 2, 3}),
                   One("KV_PAGED", {0, 1}), One("MAX_CONTEXT", {2, 4, 5}),
                   One("KV_POOL_TOKENS", {0, 4, 5}), One("ROPE_FACTOR", {1, 2}),
                   Both(One("API_PORT", {1}), One("ENGINE_PORT", {2}))},
     ver : {""}]

ConfOrder == <<"API_PORT", "ENGINE_PORT", "GGUF_FILE", "KV_PAGED", "KV_POOL_TOKENS",
               "MAX_CONTEXT", "MODEL_FILE", "NGRAM_FILE", "OVERLAY_FILE", "PARALLEL",
               "ROPE_FACTOR">>
Defaults == [k \in {"MODEL_FILE", "NGRAM_FILE", "GGUF_FILE"} |-> -1]
            @@ [ENGINE_PORT |-> 1, API_PORT |-> 2, PARALLEL |-> 1, KV_PAGED |-> 1,
                MAX_CONTEXT |-> 2, KV_POOL_TOKENS |-> 0, PREFILL_CHUNK |-> 0,
                KVSNAP_MAX_GB |-> 1, ROPE_FACTOR |-> 1, ROPE_BETA_FAST |-> 2,
                ROPE_BETA_SLOW |-> 1, ROPE_ORIGINAL_CTX |-> 2, OVERLAY_FILE |-> 30]
Limits == [ENGINE_PORT |-> [lo |-> 1, hi |-> 3], API_PORT |-> [lo |-> 1, hi |-> 3],
           PARALLEL |-> [lo |-> 1, hi |-> 2], KV_PAGED |-> [lo |-> 0, hi |-> 1],
           MAX_CONTEXT |-> [lo |-> 2, hi |-> 5], KV_POOL_TOKENS |-> [lo |-> 0, hi |-> 5],
           PREFILL_CHUNK |-> [lo |-> 0, hi |-> 3], KVSNAP_MAX_GB |-> [lo |-> 0, hi |-> 3],
           ROPE_ORIGINAL_CTX |-> [lo |-> 1, hi |-> 5]]

-----------------------------------------------------------------------------
Faults == INSTANCE EngineLink WITH NReq <- 3,
    Kind <- <<"good", "good", "broken">>, Frames <- <<0, 1, 1>>, MaxTokens <- 0,
    Cap <- 2, MaxCrashes <- 0, Stalls <- TRUE, outcome <- linkOutcome,
    alive <- linkAlive, crashes <- linkCrashes, made <- linkMade, asked <- linkAsked
Crashes == INSTANCE EngineLink WITH NReq <- 2, Kind <- <<"good", "good">>,
    Frames <- <<0, 1>>, MaxTokens <- 1, Cap <- 2, MaxCrashes <- 1, Stalls <- FALSE,
    outcome <- linkOutcome, alive <- linkAlive, crashes <- linkCrashes,
    made <- linkMade, asked <- linkAsked
Steady == INSTANCE EngineLink WITH NReq <- 3,
    Kind <- <<"long", "sampler", "good">>, Frames <- <<0, 1, 1>>, MaxTokens <- 1,
    Cap <- 2, MaxCrashes <- 0, Stalls <- FALSE, outcome <- linkOutcome,
    alive <- linkAlive, crashes <- linkCrashes, made <- linkMade, asked <- linkAsked
SnapFaults == INSTANCE KvSnap WITH Page <- {"c1", "c2", "c3"},
    Section <- {"m1", "m2", "m3"}, State <- {"p", "pq", "pr"}, PagesOf <- Pages,
    SectionsOf <- Sections, Turns <- MixedTurns, Cap <- 5, QCap <- 2,
    Upgrades <- "published", MaxEnt <- 4, MaxRestores <- 2, MaxFail <- 2,
    MaxDamage <- 0, MaxCrash <- 0, db <- snapDb, q <- snapQ, w <- snapW,
    rs <- snapRs, made <- snapMade, fails <- snapFails, damages <- snapDamages,
    crashes <- snapCrashes
SnapCrash == INSTANCE KvSnap WITH Page <- {"c1", "c2", "c3"},
    Section <- {"m1", "m2", "m3"}, State <- {"p", "pq", "pr"}, PagesOf <- Pages,
    SectionsOf <- Sections, Turns <- MixedTurns, Cap <- 5, QCap <- 2,
    Upgrades <- "published", MaxEnt <- 3, MaxRestores <- 1, MaxFail <- 1,
    MaxDamage <- 0, MaxCrash <- 1, db <- snapDb, q <- snapQ, w <- snapW,
    rs <- snapRs, made <- snapMade, fails <- snapFails, damages <- snapDamages,
    crashes <- snapCrashes
SnapDamage == INSTANCE KvSnap WITH Page <- {"c1", "c2", "c3"},
    Section <- {"m1", "m2", "m3"}, State <- {"p", "pq", "pr"}, PagesOf <- Pages,
    SectionsOf <- Sections, Turns <- PlainTurns, Cap <- 5, QCap <- 2,
    Upgrades <- "never", MaxEnt <- 4, MaxRestores <- 2, MaxFail <- 0,
    MaxDamage <- 1, MaxCrash <- 0, db <- snapDb, q <- snapQ, w <- snapW,
    rs <- snapRs, made <- snapMade, fails <- snapFails, damages <- snapDamages,
    crashes <- snapCrashes
Cache == INSTANCE TokenCache WITH Thread <- {"t1", "t2"},
    Transcripts <- {<<1>>, <<1, 2>>, <<1, 2, 3>>, <<2>>, <<2, 3>>}, Cap <- 5,
    MaxEntries <- 2, Throttled <- TRUE, MaxRecords <- 3, MaxCrashes <- 1,
    MaxFails <- 1, MaxHits <- 1, pc <- cachePc, file <- cacheFile,
    last <- cacheLast, crashes <- cacheCrashes, fails <- cacheFails
Stat == INSTANCE ReqStat WITH Limits <- {1, 2}, TailLen <- 2, MaxRecords <- 5,
    MaxCrashes <- 2, MaxFails <- 1, MaxTails <- 0, MaxDamage <- 0, at <- statAt,
    up <- statUp, env <- statEnv, next <- statNext, crashes <- statCrashes,
    fails <- statFails, damages <- statDamages
StatDamage == INSTANCE ReqStat WITH Limits <- {1, 2}, TailLen <- 2,
    MaxRecords <- 4, MaxCrashes <- 1, MaxFails <- 0, MaxTails <- 1, MaxDamage <- 1,
    at <- statAt, up <- statUp, env <- statEnv, next <- statNext,
    crashes <- statCrashes, fails <- statFails, damages <- statDamages
Weights == INSTANCE ServiceConf WITH Order <- ConfOrder, Builtin <- Defaults,
    Allowed <- Limits,
    PoolLimit <- 4, Files <- WeightFiles, Posts <- WeightPosts, Env <- <<>>,
    MaxPosts <- 3, MaxCrashes <- 0, MaxFails <- 0, file <- confFile,
    parts <- confParts, asked <- confAsked, crashes <- confCrashes,
    fails <- confFails
ConfCrash == INSTANCE ServiceConf WITH Order <- ConfOrder, Builtin <- Defaults,
    Allowed <- Limits,
    PoolLimit <- 4, Files <- WeightFiles, Posts <- WeightPosts, Env <- <<>>,
    MaxPosts <- 3, MaxCrashes <- 2, MaxFails <- 1, file <- confFile,
    parts <- confParts, asked <- confAsked, crashes <- confCrashes,
    fails <- confFails
Numbers == INSTANCE ServiceConf WITH Order <- ConfOrder, Builtin <- Defaults,
    Allowed <- Limits,
    PoolLimit <- 4, Files <- NumberFiles, Posts <- NumberPosts,
    Env <- [ENGINE_PORT |-> 3], MaxPosts <- 3, MaxCrashes <- 0, MaxFails <- 0,
    file <- confFile, parts <- confParts, asked <- confAsked,
    crashes <- confCrashes, fails <- confFails

\* What the components assume of their constants.
ASSUME PartsAssumption ==
    Faults!LinkAssumption /\ Crashes!LinkAssumption /\ Steady!LinkAssumption

SharedInit ==
    /\ part \in {"faults", "crash", "steady", "slots", "snapFaults", "snapCrash",
                "snapDamage", "cache", "stat", "statDamage", "weights", "confCrash",
                "numbers"}
    /\ Init
    /\ CASE part = "faults" -> Faults!Init
         [] part = "crash" -> Crashes!Init
         [] part = "steady" -> Steady!Init
         [] OTHER -> NoLink
    /\ CASE part = "snapFaults" -> SnapFaults!Init
         [] part = "snapCrash" -> SnapCrash!Init
         [] part = "snapDamage" -> SnapDamage!Init
         [] OTHER -> NoSnap
    /\ IF part = "cache" THEN Cache!Init ELSE NoCache
    /\ CASE part = "stat" -> Stat!Init
         [] part = "statDamage" -> StatDamage!Init
         [] OTHER -> NoStat
    /\ CASE part = "weights" -> Weights!Init
         [] part = "confCrash" -> ConfCrash!Init
         [] part = "numbers" -> Numbers!Init
         [] OTHER -> NoConf

SharedNext ==
    \/ part = "faults" /\ Faults!Next /\ Others("link")
    \/ part = "crash" /\ Crashes!Next /\ Others("link")
    \/ part = "steady" /\ Steady!Next /\ Others("link")
    \/ part = "slots" /\ Next /\ Others("slots")
    \/ part = "snapFaults" /\ SnapFaults!Next /\ Others("snap")
    \/ part = "snapCrash" /\ SnapCrash!Next /\ Others("snap")
    \/ part = "snapDamage" /\ SnapDamage!Next /\ Others("snap")
    \/ part = "cache" /\ Cache!Next /\ Others("cache")
    \/ part = "stat" /\ Stat!Next /\ Others("stat")
    \/ part = "statDamage" /\ StatDamage!Next /\ Others("stat")
    \/ part = "weights" /\ Weights!Next /\ Others("conf")
    \/ part = "confCrash" /\ ConfCrash!Next /\ Others("conf")
    \/ part = "numbers" /\ Numbers!Next /\ Others("conf")

SharedSpec == SharedInit /\ [][SharedNext]_sharedVars

-----------------------------------------------------------------------------
\* The type invariants of the components of Link.
LinkTypes ==
    /\ part = "faults" => Faults!TypeOK
    /\ part = "crash" => Crashes!TypeOK
    /\ part = "steady" => Steady!TypeOK

\* The type invariants of the components of Snap.
SnapTypes ==
    /\ part = "snapFaults" => SnapFaults!TypeOK
    /\ part = "snapCrash" => SnapCrash!TypeOK
    /\ part = "snapDamage" => SnapDamage!TypeOK

\* The type invariants of the components of Records.
RecordsTypes ==
    /\ part = "cache" => Cache!TypeOK
    /\ part = "stat" => Stat!TypeOK
    /\ part = "statDamage" => StatDamage!TypeOK

\* The type invariants of the components of Settings.
SettingsTypes ==
    /\ part = "weights" => Weights!TypeOK
    /\ part = "confCrash" => ConfCrash!TypeOK
    /\ part = "numbers" => Numbers!TypeOK

\* A GEN sent the moment its client has read the D line before it is never
\* taken for a pipelined one (gen_one).
NotTakenForPipelined ==
    /\ part = "faults" => Faults!NotTakenForPipelined
    /\ part = "crash" => Crashes!NotTakenForPipelined
    /\ part = "steady" => Steady!NotTakenForPipelined

\* The bytes of a VIMG frame are never read as protocol lines, whatever
\* becomes of the GEN they belong to.
FramesAreNotLines ==
    /\ part = "faults" => Faults!FramesAreNotLines
    /\ part = "crash" => Crashes!FramesAreNotLines
    /\ part = "steady" => Steady!FramesAreNotLines

\* A worker is cancelled only by an X for its own request or because its
\* client hung up.
CancelIsOwn ==
    /\ part = "faults" => Faults!CancelIsOwn
    /\ part = "crash" => Crashes!CancelIsOwn
    /\ part = "steady" => Steady!CancelIsOwn

\* However a request ends, one X at most is sent for it.
CancelledOnce ==
    /\ part = "faults" => Faults!CancelledOnce
    /\ part = "crash" => Crashes!CancelledOnce
    /\ part = "steady" => Steady!CancelledOnce

\* While the engine runs, no request loses its connection to what another one
\* did with it.
NoneLost == part = "steady" => Steady!NoneLost

\* A block has as many references as checkpoints of the index name it.
CountsExact == part = "snapFaults" => SnapFaults!CountsExact

\* A checkpoint that can be matched has its file and all its pages, through
\* evictions, failed writes and crashes.
IndexOnDisk ==
    /\ part = "snapFaults" => SnapFaults!IndexOnDisk
    /\ part = "snapCrash" => SnapCrash!IndexOnDisk
    /\ part = "snapDamage" => SnapDamage!IndexOnDisk

\* The bytes accounted for are those of what is published.
TotalIsSum ==
    /\ part = "snapFaults" => SnapFaults!TotalIsSum
    /\ part = "snapCrash" => SnapCrash!TotalIsSum

\* When KVSYNC answers, no file is on the disk that the index does not know.
NothingLeaked ==
    /\ part = "snapFaults" => SnapFaults!NothingLeaked
    /\ part = "snapCrash" => SnapCrash!NothingLeaked
    /\ part = "snapDamage" => SnapDamage!NothingLeaked

\* A checkpoint is given up only after a write or a capture failed.
SavedUnlessFailed == part = "snapFaults" => SnapFaults!SavedUnlessFailed

\* No entry of the token cache is the beginning of a later one.
NoHistory == part = "cache" => Cache!NoHistory

\* The turn recorded last is there when the client's next turn comes.
LastTurnKnown == part = "cache" => Cache!LastTurnKnown

\* The saved file was written to its end, whenever the server dies.
FileIsWhole == part = "cache" => Cache!FileIsWhole

\* A request whose record() returned is in the chain, once and in order.
Durable == part = "stat" => Stat!Durable

\* The live file has the highest number of the chain.
LiveIsNewest == part = "stat" => Stat!LiveIsNewest

\* A file is rotated at its limit, and no empty one is kept.
FilesBounded == part = "stat" => Stat!FilesBounded

\* A window of time is the filter of the chain.
ScanIsFilter == part = "stat" => Stat!ScanIsFilter

\* A page is the slice of the records it names, wherever the files are cut.
PageIsSlice == part = "statDamage" => StatDamage!PageIsSlice

\* A tail query names no request twice and is in order, whatever is renamed
\* under it.
TailIsNewest == part = "statDamage" => StatDamage!TailIsNewest

\* What was saved last for a key is in effect after every later save.
ReadBack == part = "weights" => Weights!ReadBack

\* The version shown is the one saved last.
VersionReadBack == part = "weights" => Weights!VersionReadBack

\* NGRAM_FILE=$MODEL_FILE is read from the model file, whichever that is by
\* now.
V1Follows == part = "weights" => Weights!V1Follows

\* The last whole file is there or in the backup, also after the server died.
Recoverable == part = "confCrash" => ConfCrash!Recoverable

\* What is in effect is valid, whatever was saved one by one.
StaysValid == part = "numbers" => Numbers!StaysValid

\* Published means within the budget, as far as there is something to evict.
BudgetKept == [][part = "snapFaults" => SnapFaults!BudgetKeptStep]_snapVars

\* A restore fails only on a damaged file: what the match promised is not
\* taken away while it reads.
RestoreServed ==
    [][/\ part = "snapFaults" => SnapFaults!RestoreServedStep
       /\ part = "snapDamage" => SnapDamage!RestoreServedStep]_snapVars

\* A bad page costs one restore: nothing built on it can be matched again.
BadPageForgotten == [][part = "snapDamage" => SnapDamage!BadPageForgottenStep]_snapVars

\* A restart has what was saved, all of it and in its order.
RestartRestores == [][part = "cache" => Cache!RestartRestoresStep]_cacheVars

\* A save keeps the comments and the values of the other keys.
OthersKept == [][part = "weights" => Weights!OthersKeptStep]_confVars

\* EngineClient and the engine's connection implement what a generation
\* promises its caller (module Generation): TLC checks the initial states and
\* every step.
ImplementsGeneration ==
    /\ part = "crash" => Crashes!Abstract!Init
    /\ [][part = "crash" => Crashes!Abstract!Next \/ UNCHANGED Crashes!Abstract!vars]_linkVars

\* What the run checks of each component.

\* Whoever stalls, dies, cancels or hangs up, and wherever it does: the two
\* ends of a connection agree on what is a line and what a frame, nothing is
\* cancelled but what was asked to be, and no request pays for another one.
LinkIsSafe ==
    /\ LinkTypes /\ NotTakenForPipelined /\ FramesAreNotLines /\ CancelIsOwn
    /\ CancelledOnce /\ NoneLost

\* The index of the SSD cache, its reference counts and its bytes are what
\* the disk holds, through evictions, failed writes, damage and crashes.
SnapIsSafe ==
    /\ SnapTypes /\ CountsExact /\ IndexOnDisk /\ TotalIsSum /\ NothingLeaked
    /\ SavedUnlessFailed

\* What is kept in files: what was recorded or set last is found again, each
\* request is there once, also while a file is rotated, a whole file survives
\* a crash, and the settings in effect are valid together.
FilesAreSafe ==
    /\ RecordsTypes /\ NoHistory /\ LastTurnKnown /\ FileIsWhole /\ Durable
    /\ LiveIsNewest /\ FilesBounded /\ ScanIsFilter /\ PageIsSlice /\ TailIsNewest
    /\ SettingsTypes /\ ReadBack /\ VersionReadBack /\ V1Follows /\ Recoverable
    /\ StaysValid

\* What a step of the caches and of the settings may not do: evict too little
\* or too much, offer what is damaged, lose or reorder what was saved, or the
\* values and comments of others.
StoresKeep ==
    /\ BudgetKept /\ RestoreServed /\ BadPageForgotten /\ RestartRestores
    /\ OthersKept
=============================================================================
