----------------------------- MODULE EngineLink -----------------------------
(***************************************************************************)
(* The two ends of the engine's line protocol: one pooled EngineClient of  *)
(* the API server (engine_client.cpp), which serves one request after the  *)
(* other, and the connections it opens to the engine (conn_main and the    *)
(* protocol part of gen_one).                                              *)
(*                                                                         *)
(* A line is a record with its kind and its request: GEN, a VIMG frame (F) *)
(* and X go up; T and D come down.  What the generation computes is left   *)
(* out: a worker emits up to MaxTokens tokens and ends.                    *)
(***************************************************************************)
EXTENDS Integers, Sequences

CONSTANTS
    NReq,       \* requests served by this client, numbered as g_req_seq does
    Kind,       \* request -> how parse_gen and conn_main judge its GEN line
    Frames,     \* request -> VIMG frames that follow the line
    MaxTokens,  \* bound: tokens of a generation
    Cap,        \* lines a connection holds before a write blocks
    MaxCrashes, \* bound: times the engine dies and comes back
    Stalls      \* whether reading a frame may take more than its 120 s

Req  == 1 .. NReq
Conn == Req         \* a connection is named after the request that opened it

(* good: accepted.  long: prompt + max_tokens exceed maxctx.  sampler:      *)
(* sampler-only fields without a sampler, noticed when the whole line has   *)
(* been read.  broken: the parse stops before the VIMG field.               *)
Kinds == {"good", "long", "sampler", "broken"}

LinkAssumption ==
    /\ NReq \in Nat \ {0} /\ MaxTokens \in Nat /\ MaxCrashes \in Nat
    /\ Cap \in Nat \ {0} /\ Stalls \in BOOLEAN
    /\ Kind \in [Req -> Kinds] /\ Frames \in [Req -> Nat]

VARIABLES
    req,        \* the request being served, or to be served next
    phase,      \* generate(): "idle" outside, "writing" frames, "reading" lines
    unsent,     \* frames still to write
    fd,         \* fd_: the connection, 0 when closed
    cancelled,  \* cancelled: X was sent and the 10 s grace is running
    outcome,    \* request -> how generate() returned
    got,        \* request -> T lines it delivered
    link,       \* connection -> its lines in flight and the engine's end of it
    alive,      \* the engine runs
    crashes,    \* times it died
    made,       \* request -> T lines its worker wrote (history)
    verdict,    \* request -> reason of its worker's or the reader's D (history)
    asked       \* request -> X lines sent for it (history)

client  == <<req, phase, unsent, fd, cancelled, outcome, got, asked>>
history == <<made, verdict>>
engine  == <<alive, crashes>>
vars    == <<client, link, engine, history>>

Line(kind, r)  == [kind |-> kind, req |-> r, why |-> ""]
Done(r, why)   == [kind |-> "D", req |-> r, why |-> why]

(* A connection: up and dn are its lines on their way, buffers included;    *)
(* hung and shut say that the client's, the engine's end is closed; the     *)
(* rest is struct Conn and the locals of conn_main.                         *)
Closed == [up |-> <<>>, dn |-> <<>>, hung |-> TRUE, shut |-> TRUE,
           reader |-> "gone", gen |-> 0, left |-> 0, in_flight |-> FALSE,
           cur |-> 0, cancel |-> FALSE, worker |-> "none", reply |-> ""]
Opened == [Closed EXCEPT !.hung = FALSE, !.shut = FALSE, !.reader = "top"]

Init ==
    /\ req = 1 /\ phase = "idle" /\ unsent = 0 /\ fd = 0 /\ cancelled = FALSE
    /\ outcome = [r \in Req |-> "none"]
    /\ got = [r \in Req |-> 0]
    /\ link = [c \in Conn |-> Closed]
    /\ alive = TRUE /\ crashes = 0
    /\ made = [r \in Req |-> 0]
    /\ verdict = [r \in Req |-> "none"]
    /\ asked = [r \in Req |-> 0]

---------------------------------------------------------------------------
(* TCP.  The lines a peer has not read when an end closes may be lost.      *)

Prefixes(s) == {SubSeq(s, 1, n) : n \in 0 .. Len(s)}

HangUp(l) ==
    {IF l.shut THEN Closed ELSE [l EXCEPT !.hung = TRUE, !.dn = <<>>, !.up = u] :
        u \in IF l.dn = <<>> THEN {l.up} ELSE Prefixes(l.up)}

Shut(l) ==
    IF l.shut THEN {l} ELSE IF l.hung THEN {Closed}
    ELSE {[Closed EXCEPT !.hung = FALSE, !.dn = d] :
            d \in IF l.up = <<>> THEN {l.dn} ELSE Prefixes(l.dn)}

Up(l, m)   == IF l.shut THEN l ELSE [l EXCEPT !.up = Append(@, m)]
Down(l, m) == IF l.hung THEN l ELSE [l EXCEPT !.dn = Append(@, m)]

---------------------------------------------------------------------------
(* The client.                                                              *)

Return(why) ==
    /\ outcome' = [outcome EXCEPT ![req] = why]
    /\ phase' = "idle" /\ cancelled' = FALSE /\ unsent' = 0
    /\ req' = req + 1

(* close(), with generate() returning without an answer.                    *)
GiveUp(l, why) ==
    /\ \E m \in HangUp(l) : link' = [link EXCEPT ![fd] = m]
    /\ fd' = 0
    /\ Return(why)

(* engine_ready(): a closed connection is opened, an open one is trusted.   *)
Connect ==
    /\ phase = "idle" /\ req <= NReq /\ fd = 0 /\ alive
    /\ fd' = req
    /\ link' = [link EXCEPT ![req] = Opened]
    /\ UNCHANGED <<req, phase, unsent, cancelled, outcome, got, asked, engine, history>>

Unreachable ==
    /\ phase = "idle" /\ req <= NReq /\ fd = 0 /\ ~alive
    /\ Return("unreachable")
    /\ UNCHANGED <<fd, got, asked, link, engine, history>>

(* write_all() waits until the engine reads when the connection is full,    *)
(* without a time limit; into one the engine has closed it may succeed.     *)
WriteGen ==
    /\ phase = "idle" /\ req <= NReq /\ fd # 0
    /\ \/ /\ Len(link[fd].up) < Cap
          /\ link' = [link EXCEPT ![fd] = Up(@, Line("GEN", req))]
          /\ phase' = IF Frames[req] = 0 THEN "reading" ELSE "writing"
          /\ unsent' = Frames[req]
          /\ UNCHANGED <<req, fd, cancelled, outcome>>
       \/ link[fd].shut /\ GiveUp(link[fd], "lost")
    /\ UNCHANGED <<got, asked, engine, history>>

WriteFrame ==
    /\ phase = "writing"
    /\ \/ /\ Len(link[fd].up) < Cap
          /\ link' = [link EXCEPT ![fd] = Up(@, Line("F", req))]
          /\ unsent' = unsent - 1
          /\ phase' = IF unsent' = 0 THEN "reading" ELSE "writing"
          /\ UNCHANGED <<req, fd, cancelled, outcome>>
       \/ link[fd].shut /\ GiveUp(link[fd], "lost")
    /\ UNCHANGED <<got, asked, engine, history>>

(* cancel(): the X waits for room as any line; one that cannot be written   *)
(* closes the connection; the lines read before are still in buf_.          *)
SendX(l) ==
    /\ cancelled' = TRUE
    /\ asked' = [asked EXCEPT ![req] = @ + 1]
    /\ \/ Len(l.up) < Cap /\ link' = [link EXCEPT ![fd] = Up(l, Line("X", req))]
       \/ /\ l.shut
          /\ \E d \in Prefixes(l.dn) :
                link' = [link EXCEPT ![fd] = [l EXCEPT !.hung = TRUE, !.dn = d]]

(* on_wait() returns false: the HTTP client is gone.                        *)
Heartbeat ==
    /\ phase = "reading" /\ ~cancelled
    /\ SendX(link[fd])
    /\ UNCHANGED <<req, phase, unsent, fd, outcome, got, engine, history>>

(* The rest of the line just read.                                          *)
Read == [link[fd] EXCEPT !.dn = Tail(@)]
Arrived(kind) == phase = "reading" /\ link[fd].dn # <<>> /\ Head(link[fd].dn).kind = kind

ReadT ==
    /\ Arrived("T") /\ Head(link[fd].dn).req = req
    /\ got' = [got EXCEPT ![req] = @ + 1]
    /\ \/ /\ link' = [link EXCEPT ![fd] = Read]
          /\ UNCHANGED <<cancelled, asked>>
       \/ ~cancelled /\ SendX(Read)     \* on_token() returns false
    /\ UNCHANGED <<req, phase, unsent, fd, outcome, engine, history>>

(* Variant: any D line ends the request.                                    *)
ReadAnyD ==
    /\ Arrived("D")
    /\ link' = [link EXCEPT ![fd] = Read]
    /\ Return(Head(link[fd].dn).why)
    /\ fd' = IF link[fd].hung THEN 0 ELSE fd
    /\ UNCHANGED <<got, asked, engine, history>>

ReadD ==
    /\ Arrived("D") /\ Head(link[fd].dn).req = req
    /\ link' = [link EXCEPT ![fd] = Read]
    /\ Return(Head(link[fd].dn).why)
    /\ fd' = IF link[fd].hung THEN 0 ELSE fd
    /\ UNCHANGED <<got, asked, engine, history>>

(* A line of another request: an answer to an X that crossed the D.         *)
SkipLine ==
    /\ phase = "reading" /\ link[fd].dn # <<>> /\ Head(link[fd].dn).req # req
    /\ link' = [link EXCEPT ![fd] = Read]
    /\ UNCHANGED <<client, engine, history>>

ReadEof ==
    /\ phase = "reading" /\ link[fd].dn = <<>> /\ link[fd].shut
    /\ GiveUp(link[fd], "lost")
    /\ UNCHANGED <<got, asked, engine, history>>

(* first_timeout_ or next_timeout_: nothing came; the X needs room.         *)
IdleTimeout ==
    /\ phase = "reading" /\ link[fd].dn = <<>> /\ ~link[fd].shut /\ ~cancelled
    /\ Len(link[fd].up) < Cap
    /\ asked' = [asked EXCEPT ![req] = @ + 1]
    /\ GiveUp(Up(link[fd], Line("X", req)), "timeout")
    /\ UNCHANGED <<got, engine, history>>

(* cancel_deadline: no D within the grace, whatever else came.              *)
GraceTimeout ==
    /\ phase = "reading" /\ cancelled
    /\ GiveUp(link[fd], "timeout")
    /\ UNCHANGED <<got, asked, engine, history>>

Client == \/ Connect \/ Unreachable \/ WriteGen \/ WriteFrame
          \/ ReadT \/ ReadD \/ SkipLine \/ ReadEof \/ IdleTimeout \/ GraceTimeout

(* What the client does without waiting for the engine to read: a line may  *)
(* be longer than all buffers, so a write counts only when it must fail.    *)
Unblocked == Client /\ (phase = "reading" \/ fd = 0 \/ link[fd].shut)

---------------------------------------------------------------------------
(* The engine's reader thread, conn_main.                                   *)

Set(c, l) == link' = [link EXCEPT ![c] = l]
Took(c) == [link[c] EXCEPT !.up = Tail(@)]
AtTop(c, kind) ==
    link[c].reader = "top" /\ link[c].up # <<>> /\ Head(link[c].up).kind = kind

(* `alive = c.send(..)`: a reply to a closed socket may end the loop.       *)
Answer(c, l, m) ==
    \/ Set(c, Down(l, m))
    \/ l.hung /\ Set(c, [l EXCEPT !.reader = "ending"])

HandleX(c) ==
    /\ AtTop(c, "X")
    /\ LET r == Head(link[c].up).req
       IN  \/ /\ link[c].in_flight /\ link[c].cur = r
              /\ Set(c, [Took(c) EXCEPT !.cancel = TRUE])
           \/ /\ ~(link[c].in_flight /\ link[c].cur = r)
              /\ Answer(c, Took(c), Done(r, "cancel"))
    /\ UNCHANGED <<client, engine, history>>

(* VIMG frames the parse knows of are drained before any reply.             *)
Announced(r) == IF Kind[r] = "broken" THEN 0 ELSE Frames[r]

HandleGen(c) ==
    /\ AtTop(c, "GEN")
    /\ LET r == Head(link[c].up).req
       IN  Set(c, [Took(c) EXCEPT !.reader = "frames", !.gen = r, !.left = Announced(r)])
    /\ UNCHANGED <<client, engine, history>>

DrainFrame(c) ==
    /\ link[c].reader = "frames" /\ link[c].left > 0
    /\ link[c].up # <<>> /\ Head(link[c].up).kind = "F"
    /\ Set(c, [Took(c) EXCEPT !.left = @ - 1])
    /\ UNCHANGED <<client, engine, history>>

(* A short read, or the 120 s ceiling: D error, and the connection closes.  *)
FrameReadFails(c) ==
    /\ link[c].reader = "frames" /\ link[c].left > 0 /\ link[c].up = <<>>
    /\ link[c].hung \/ Stalls
    /\ Set(c, [Down(link[c], Done(link[c].gen, "error")) EXCEPT !.reader = "ending"])
    /\ verdict' = [verdict EXCEPT ![link[c].gen] = "error"]
    /\ UNCHANGED <<client, engine, made>>

Rejected(r) == Kind[r] # "good"

(* A rejected request closes the connection unless its frames were drained  *)
(* (`g.reject && g.vimg <= 0`); a prompt that is too long never does.       *)
Undrainable(r) == Kind[r] \in {"sampler", "broken"} /\ Announced(r) = 0

Reject(c) ==
    /\ link[c].reader = "frames" /\ link[c].left = 0 /\ Rejected(link[c].gen)
    /\ Answer(c, [link[c] EXCEPT
                    !.reader = IF Undrainable(link[c].gen) THEN "ending" ELSE "top"],
              Done(link[c].gen, "error"))
    /\ verdict' = [verdict EXCEPT ![link[c].gen] = "error"]
    /\ UNCHANGED <<client, engine, made>>

(* One GEN at a time; the worker of the request before is joined first, its *)
(* work after the D line included.                                          *)
Dispatch(c) ==
    /\ link[c].reader = "frames" /\ link[c].left = 0 /\ ~Rejected(link[c].gen)
    /\ IF link[c].in_flight
       THEN /\ Answer(c, [link[c] EXCEPT !.reader = "top"], Done(link[c].gen, "error"))
            /\ verdict' = [verdict EXCEPT ![link[c].gen] = "error"]
       ELSE /\ link[c].worker \in {"none", "exited"}
            /\ Set(c, [link[c] EXCEPT !.reader = "top", !.cancel = FALSE,
                         !.cur = link[c].gen, !.in_flight = TRUE, !.worker = "run"])
            /\ UNCHANGED verdict
    /\ UNCHANGED <<client, engine, made>>

(* End of the stream: cancel what is in flight, join, close.                *)
ReadEnd(c) ==
    /\ link[c].reader = "top" /\ link[c].up = <<>> /\ link[c].hung
    /\ Set(c, [link[c] EXCEPT !.reader = "ending"])
    /\ UNCHANGED <<client, engine, history>>

Disconnect(c) ==
    /\ link[c].reader = "ending" /\ ~link[c].cancel
    /\ Set(c, [link[c] EXCEPT !.cancel = TRUE])
    /\ UNCHANGED <<client, engine, history>>

Close(c) ==
    /\ link[c].reader = "ending" /\ link[c].cancel
    /\ link[c].worker \in {"none", "exited"}
    /\ \E l \in Shut(link[c]) : Set(c, l)
    /\ UNCHANGED <<client, engine, history>>

---------------------------------------------------------------------------
(* The worker, gen_one.                                                     *)

Emit(c) ==
    /\ link[c].worker = "run" /\ made[link[c].cur] < MaxTokens
    /\ \/ Set(c, Down(link[c], Line("T", link[c].cur)))
       \/ /\ link[c].hung     \* dead: the write failed, no D line
          /\ Set(c, [link[c] EXCEPT !.worker = "exited", !.in_flight = FALSE])
    /\ made' = [made EXCEPT ![link[c].cur] = @ + 1]
    /\ UNCHANGED <<client, engine, verdict>>

(* Variant: in_flight is still set when the D line is written.              *)
EndInFlight(c) ==
    /\ link[c].worker = "run"
    /\ \E why \in {"done", "error", "cancel"} :
         /\ why = "cancel" => link[c].cancel
         /\ Set(c, [link[c] EXCEPT !.worker = "finish", !.reply = why])
         /\ verdict' = [verdict EXCEPT ![link[c].cur] = why]
    /\ UNCHANGED <<client, engine, made>>

(* How the generation ends: cancelled, complete, or aborted when the pool   *)
(* overflows.  finish() drops in_flight first.                              *)
End(c) ==
    /\ link[c].worker = "run"
    /\ \E why \in {"done", "error", "cancel"} :
         /\ why = "cancel" => link[c].cancel
         /\ Set(c, [link[c] EXCEPT !.worker = "finish", !.in_flight = FALSE, !.reply = why])
         /\ verdict' = [verdict EXCEPT ![link[c].cur] = why]
    /\ UNCHANGED <<client, engine, made>>

WriteD(c) ==
    /\ link[c].worker = "finish"
    /\ Set(c, [Down(link[c], Done(link[c].cur, link[c].reply)) EXCEPT !.worker = "tail"])
    /\ UNCHANGED <<client, engine, history>>

(* After the D line: snapshots, statistics.  An exception there reaches the *)
(* catch block, which sends a second D.                                     *)
Exit(c) ==
    /\ link[c].worker = "tail"
    /\ LET l == [link[c] EXCEPT !.worker = "exited", !.reply = "", !.in_flight = FALSE]
       IN  Set(c, l) \/ Set(c, Down(l, Done(l.cur, "error")))
    /\ UNCHANGED <<client, engine, history>>

Reader(c) == \/ HandleX(c) \/ HandleGen(c) \/ DrainFrame(c) \/ FrameReadFails(c)
             \/ Reject(c) \/ Dispatch(c) \/ ReadEnd(c) \/ Disconnect(c) \/ Close(c)
Worker(c) == Emit(c) \/ End(c) \/ WriteD(c) \/ Exit(c)

(* The engine process dies, and is started again.                           *)
Crash ==
    /\ alive /\ crashes < MaxCrashes
    /\ alive' = FALSE /\ crashes' = crashes + 1
    /\ link' \in {f \in [Conn -> UNION {Shut(link[c]) : c \in Conn}] :
                    \A c \in Conn : f[c] \in Shut(link[c])}
    /\ UNCHANGED <<client, history>>

Restart ==
    /\ ~alive /\ alive' = TRUE
    /\ UNCHANGED <<client, link, crashes, history>>

(* Every request has been served.                                           *)
AllServed == req > NReq /\ UNCHANGED vars

Next == \/ Client \/ Heartbeat \/ Crash \/ Restart \/ AllServed
        \/ \E c \in Conn : Reader(c) \/ Worker(c)

Spec == Init /\ [][Next]_vars

(* The calling thread is scheduled; nothing is assumed of the engine, which *)
(* need not read, and nothing of the HTTP client, which need not go away.   *)
ClientSpec == Spec /\ WF_vars(Unblocked)

(* The engine's threads are scheduled too: what is written is read.         *)
FairSpec ==
    /\ Spec /\ WF_vars(Client)
    /\ \A c \in Conn : WF_vars(Reader(c)) /\ WF_vars(Worker(c))

---------------------------------------------------------------------------
TypeOK ==
    /\ req \in 1 .. NReq + 1
    /\ phase \in {"idle", "writing", "reading"}
    /\ unsent \in Nat /\ fd \in 0 .. NReq /\ cancelled \in BOOLEAN
    /\ phase # "idle" => req <= NReq /\ fd # 0
    /\ outcome \in [Req -> {"none", "done", "error", "cancel", "timeout", "lost",
                              "unreachable"}]
    /\ got \in [Req -> 0 .. MaxTokens] /\ made \in [Req -> 0 .. MaxTokens]
    /\ verdict \in [Req -> {"none", "done", "error", "cancel"}]
    /\ asked \in [Req -> Nat]
    /\ alive \in BOOLEAN /\ crashes \in 0 .. MaxCrashes
    /\ \A c \in Conn :
         /\ link[c].hung \in BOOLEAN /\ link[c].shut \in BOOLEAN
         /\ link[c].reader \in {"gone", "top", "frames", "ending"}
         /\ link[c].worker \in {"none", "run", "finish", "tail", "exited"}
         /\ link[c].in_flight \in BOOLEAN /\ link[c].cancel \in BOOLEAN

(* What generate() returns is about its own request: a generation reported  *)
(* as done was done, and every token the worker wrote was delivered; an     *)
(* answer is given once and a cancelled one only after the engine was done  *)
(* with the request.                                                        *)
Abstract == INSTANCE Generation WITH delivered <- got, produced <- made, answer <- outcome
ImplementsGeneration == Abstract!Spec

(* A GEN sent the moment its client has read the D line before it is never  *)
(* taken for a pipelined one (gen_one: "in_flight drops first").            *)
NotTakenForPipelined ==
    \A c \in Conn : link[c].reader = "frames" => ~link[c].in_flight

(* The bytes of a VIMG frame are never read as protocol lines, whatever     *)
(* becomes of the GEN they belong to.                                       *)
FramesAreNotLines ==
    \A c \in Conn : link[c].reader = "top" /\ link[c].up # <<>> =>
        Head(link[c].up).kind # "F"

(* A worker is cancelled only by an X for the request it runs or because    *)
(* its client hung up: not by an X that crossed the D line of the request   *)
(* before it on the same connection.                                        *)
CancelIsOwn ==
    \A c \in Conn : link[c].worker = "run" /\ link[c].cancel =>
        asked[link[c].cur] > 0 \/ link[c].hung

(* However a request ends, one X at most is sent for it                     *)
(* (api_disconnect_test: cancel-once-and-drain).                            *)
CancelledOnce == \A r \in Req : asked[r] <= 1

(* While the engine runs, no request loses its connection: a rejection or a *)
(* cancel of one request leaves the pooled connection usable for the next.  *)
NoneLost == \A r \in Req : outcome[r] # "lost"

(* Every request returns to its caller, which gets its slot back, if the    *)
(* engine's threads run.                                                    *)
AllReturned == req > NReq
EveryRequestReturns == <>AllReturned

(* Whatever the engine does, a call returns once it has written its request *)
(* and the connection has room for an X, or once the connection is closed   *)
(* under it.  Until then it may wait in write_all() for ever.               *)
Returning ==
    /\ phase # "idle"
    /\ \/ link[fd].shut
       \/ phase = "reading" /\ (cancelled \/ Len(link[fd].up) < Cap)
WrittenReturns == Returning ~> phase = "idle"

(* A connection whose client has gone is closed by the engine, its worker   *)
(* joined: what it held is free again.                                      *)
HungUpIsReleased == \A c \in Conn : link[c].hung ~> link[c].shut
=============================================================================
