------------------------------ MODULE HttpConn ------------------------------
(* The HTTP server of the API front end (api/http.cpp): its accept loop with *)
(* a limit on connections, and on every connection the requests that are     *)
(* read from the byte stream and answered one after the other (run,          *)
(* read_into, read_request, serve_connection).                               *)
(*                                                                           *)
(* A request is [head, body, good, expect, keep, status]: the lengths of its *)
(* header and of the body it declares, whether the header can be read,       *)
(* whether the client waits for "100 Continue" and wants the connection      *)
(* kept, and what its handler answers.  A byte is <<request, "h">> in a      *)
(* header and <<request, "t">> in the blank line that ends it and in a body: *)
(* a body looks like nothing but ends of headers.                            *)
EXTENDS Integers, Sequences, FiniteSets, SequencesExt

CONSTANTS Conns,           \* connections clients make
          Scripts,         \* what a client may send: sequences of requests
          MaxConnections, MaxHeaderBytes, MaxRequestBytes,
          Blank,           \* length of the blank line, 4
          Chunk            \* what one recv may return

LimitAssumption ==
    {MaxConnections, MaxHeaderBytes, MaxRequestBytes, Blank, Chunk} \subseteq Nat \ {0}

MaxBufferedBytes == MaxRequestBytes + MaxHeaderBytes

VARIABLES
    script, unread, cut, \* of the client: its requests, the bytes to come; it stopped
    phase,   \* client, refusing, reading, handling, closed, left
    pending, \* bytes received
    asked,   \* the request whose header was acknowledged by "100 Continue"
    handed,  \* the requests given to a handler: <<request, body>>
    wire,    \* the statuses of the answers
    active,  \* active_connections_
    deaf     \* the accept loop is over
client == <<script, unread, cut>>
vars == <<client, phase, pending, asked, handed, wire, active, deaf>>

Head_(i, r) == [k \in 1 .. r.head |-> <<i, "h">>]
Body(i, r)  == [k \in 1 .. r.body |-> <<i, "t">>]
Bytes(i, r) == Head_(i, r) \o [k \in 1 .. Blank |-> <<i, "t">>] \o Body(i, r)
Size(s)     == FoldLeft(LAMBDA n, r : n + r.head + Blank + r.body, 0, s)
Stream(s)   == FlattenSeq([i \in DOMAIN s |-> Bytes(i, s[i])])

-----------------------------------------------------------------------------
(* read_request.                                                             *)

\* Where the blank line begins in the pending bytes; 0 if it is not there.
HdrEnd(p) ==
    LET ends == {k \in 1 .. Len(p) - Blank + 1 :
                    \A j \in k .. k + Blank - 1 : p[j][2] = "t"}
    IN  IF ends = {} THEN 0 ELSE CHOOSE k \in ends : \A j \in ends : k <= j

\* The header read: the request it is, 0 if it is none.
Parsed(c) ==
    LET p == pending[c]
        h == SubSeq(p, 1, HdrEnd(p) - 1)
    IN  IF h = <<>> THEN 0
        ELSE LET i == h[1][1] IN IF h = Head_(i, script[c][i]) THEN i ELSE 0

\* Why the header is refused, 0 if it is not.
Refusal(c) ==
    LET e == HdrEnd(pending[c])
    IN  IF e = 0 THEN IF Len(pending[c]) > MaxHeaderBytes THEN 413 ELSE 0
        ELSE IF e - 1 > MaxHeaderBytes THEN 413
        ELSE IF Parsed(c) = 0 THEN 400
        ELSE LET r == script[c][Parsed(c)]
             IN  IF ~r.good THEN 400 ELSE IF r.body > MaxRequestBytes THEN 413 ELSE 0

HasHeader(c) == HdrEnd(pending[c]) # 0 /\ Refusal(c) = 0
Total(c) == HdrEnd(pending[c]) - 1 + Blank + script[c][Parsed(c)].body
MustAsk(c) == HasHeader(c) /\ script[c][Parsed(c)].expect /\ asked[c] # Parsed(c)

Reading(c) == phase[c] = "reading"
\* read_into: more bytes are needed.
Wants(c) == /\ Reading(c) /\ Refusal(c) = 0 /\ ~MustAsk(c)
            /\ HasHeader(c) => Len(pending[c]) < Total(c)

\* The client sends the body of a request it asked about when it is told to.
Sendable(c) ==
    IF unread[c] = <<>> THEN 0
    ELSE LET first == unread[c][1][1]
             stop(i) == /\ script[c][i].expect /\ asked[c] # i /\ script[c][i].body > 0
             after(i) == Size(SubSeq(script[c], i + 1, Len(script[c]))) + script[c][i].body
             stops == {Len(unread[c]) - after(i) :
                            i \in {j \in first .. Len(script[c]) : stop(j)}}
         IN  IF stops = {} THEN Len(unread[c]) ELSE CHOOSE n \in stops : \A m \in stops : n <= m

-----------------------------------------------------------------------------
Init ==
    /\ script \in [Conns -> Scripts]
    /\ unread = [c \in Conns |-> Stream(script[c])]
    /\ cut = [c \in Conns |-> FALSE] /\ phase = [c \in Conns |-> "client"]
    /\ pending = [c \in Conns |-> <<>>] /\ asked = [c \in Conns |-> 0]
    /\ handed = [c \in Conns |-> <<>>] /\ wire = [c \in Conns |-> <<>>] /\ active = 0
    /\ deaf = FALSE

\* accept: fetch_add, and the thread of the connection unless there are enough.
Accept(c) ==
    /\ phase[c] = "client" /\ ~deaf /\ \A d \in Conns : phase[d] # "refusing"
    /\ active' = active + 1
    /\ phase' = [phase EXCEPT ![c] = IF active >= MaxConnections THEN "refusing" ELSE "reading"]
    /\ UNCHANGED <<client, pending, asked, handed, wire, deaf>>

Refuse(c) ==
    /\ phase[c] = "refusing"
    /\ active' = active - 1 /\ phase' = [phase EXCEPT ![c] = "left"]
    /\ wire' = [wire EXCEPT ![c] = Append(@, 503)]
    /\ UNCHANGED <<client, pending, asked, handed, deaf>>

\* accept fails, not for a signal: run() returns.  What is accepted goes on in
\* the tray, and ends with the process otherwise.
AcceptFails ==
    /\ ~deaf /\ \A d \in Conns : phase[d] # "refusing"
    /\ deaf' = TRUE
    /\ UNCHANGED <<client, phase, pending, asked, handed, wire, active>>

\* The thread cannot be made: the connection is closed.
NoThread(c) ==
    /\ Reading(c) /\ pending[c] = <<>> /\ wire[c] = <<>>
    /\ active' = active - 1 /\ phase' = [phase EXCEPT ![c] = "left"]
    /\ UNCHANGED <<client, pending, asked, handed, wire, deaf>>

\* The client goes away or sends nothing more for 30 s.
Stops(c) ==
    /\ phase[c] # "left" /\ ~cut[c]
    /\ cut' = [cut EXCEPT ![c] = TRUE] /\ unread' = [unread EXCEPT ![c] = <<>>]
    /\ UNCHANGED <<script, phase, pending, asked, handed, wire, active, deaf>>

\* A request is refused or cannot be read to its end: an answer, unless there
\* was nothing of it, and the connection is closed.
Close(c, status) ==
    /\ phase' = [phase EXCEPT ![c] = "closed"]
    /\ wire' = IF status = 0 THEN wire ELSE [wire EXCEPT ![c] = Append(@, status)]
    /\ UNCHANGED <<client, pending, asked, handed, active, deaf>>

\* recv returns any number of the bytes sent, of this request and the next.
Receive(c) ==
    /\ Wants(c)
    /\ \E n \in 1 .. Chunk :
         /\ n <= Sendable(c)
         /\ IF Len(pending[c]) + n > MaxBufferedBytes THEN Close(c, 400)
            ELSE /\ pending' = [pending EXCEPT ![c] = @ \o SubSeq(unread[c], 1, n)]
                 /\ unread' = [unread EXCEPT ![c] = SubSeq(@, n + 1, Len(@))]
                 /\ UNCHANGED <<script, cut, phase, asked, handed, wire, active, deaf>>

\* End of the stream or the time is up.
ReceiveFails(c) ==
    /\ Wants(c) /\ unread[c] = <<>>
    /\ Close(c, IF pending[c] = <<>> THEN 0 ELSE 400)

Reject(c) == Reading(c) /\ Refusal(c) # 0 /\ Close(c, Refusal(c))

\* "100 Continue"; when it cannot be written the request is refused.
Continue(c) ==
    /\ Reading(c) /\ MustAsk(c)
    /\ \/ /\ asked' = [asked EXCEPT ![c] = Parsed(c)]
          /\ UNCHANGED <<client, phase, pending, handed, wire, active, deaf>>
       \/ cut[c] /\ Close(c, 400)

\* Fault: all that came is the body.
HandleAll(c) ==
    /\ Reading(c) /\ HasHeader(c) /\ ~MustAsk(c) /\ Len(pending[c]) >= Total(c)
    /\ phase' = [phase EXCEPT ![c] = "handling"]
    /\ handed' = [handed EXCEPT ![c] =
          Append(@, <<Parsed(c), SubSeq(pending[c], HdrEnd(pending[c]) + Blank, Len(pending[c]))>>)]
    /\ pending' = [pending EXCEPT ![c] = <<>>]
    /\ UNCHANGED <<client, asked, wire, active, deaf>>

\* The request is whole: its bytes leave the buffer, its handler runs.
Handle(c) ==
    /\ Reading(c) /\ HasHeader(c) /\ ~MustAsk(c) /\ Len(pending[c]) >= Total(c)
    /\ phase' = [phase EXCEPT ![c] = "handling"]
    /\ handed' = [handed EXCEPT ![c] =
          Append(@, <<Parsed(c), SubSeq(pending[c], HdrEnd(pending[c]) + Blank, Total(c))>>)]
    /\ pending' = [pending EXCEPT ![c] = SubSeq(@, Total(c) + 1, Len(@))]
    /\ UNCHANGED <<client, asked, wire, active, deaf>>

\* The answer of the handler, of the router or for what the handler threw.
Answer(c) ==
    LET r == script[c][Last(handed[c])[1]]
    IN  /\ phase[c] = "handling"
        /\ \E ok \in IF cut[c] THEN BOOLEAN ELSE {TRUE} :
             /\ wire' = IF ok THEN [wire EXCEPT ![c] = Append(@, r.status)] ELSE wire
             /\ phase' = [phase EXCEPT ![c] = IF ok /\ r.keep THEN "reading" ELSE "closed"]
        /\ UNCHANGED <<client, pending, asked, handed, active, deaf>>

\* The thread ends.
Leave(c) ==
    /\ phase[c] = "closed" /\ phase' = [phase EXCEPT ![c] = "left"]
    /\ active' = active - 1
    /\ UNCHANGED <<client, pending, asked, handed, wire, deaf>>

Serve(c) == Receive(c) \/ ReceiveFails(c) \/ Reject(c) \/ Continue(c) \/ Handle(c)
            \/ Answer(c) \/ Leave(c)
Next == \/ AcceptFails
        \/ \E c \in Conns : Accept(c) \/ Refuse(c) \/ NoThread(c) \/ Stops(c) \/ Serve(c)
Spec == Init /\ [][Next]_vars

\* The threads run and a client that has something to send sends it.
Fairness == \A c \in Conns : WF_vars(Accept(c)) /\ WF_vars(Refuse(c)) /\ WF_vars(Serve(c))
FairSpec == Spec /\ Fairness

-----------------------------------------------------------------------------
\* What a request is answered, whatever comes before or after it and however
\* its bytes arrive.
Verdict(r) == IF r.head > MaxHeaderBytes THEN 413 ELSE IF ~r.good THEN 400
              ELSE IF r.body > MaxRequestBytes THEN 413 ELSE r.status
Ends(r) == r.head > MaxHeaderBytes \/ ~r.good \/ r.body > MaxRequestBytes \/ ~r.keep

TypeOK ==
    /\ phase \in [Conns -> {"client", "refusing", "reading", "handling", "closed", "left"}]
    /\ active \in 0 .. Cardinality(Conns) /\ deaf \in BOOLEAN
    /\ \A c \in Conns : Len(pending[c]) <= MaxBufferedBytes /\ asked[c] <= Len(script[c])

Refused(c) == wire[c] = <<503>>

\* The n-th answer is that of the n-th request, none comes after one that ends
\* the connection; one the client did not finish may get a 400.
VerdictIsOwn ==
    \A c \in Conns : ~Refused(c) =>
       \A i \in DOMAIN wire[c] :
          /\ i \in DOMAIN script[c]
          /\ wire[c][i] = Verdict(script[c][i]) \/ (cut[c] /\ i = Len(wire[c]) /\ wire[c][i] = 400)
          /\ i < Len(wire[c]) => ~Ends(script[c][i])

\* A handler gets the request that is next and its body.
BodyIsOwn ==
    \A c \in Conns : \A i \in DOMAIN handed[c] :
       handed[c][i] = <<i, Body(i, script[c][i])>>

\* Every place that is counted is that of a connection, and no more than
\* MaxConnections are served at a time.
CountIsLive ==
    /\ active = Cardinality({c \in Conns : phase[c] \notin {"client", "left"}})
    /\ Cardinality({c \in Conns : phase[c] \in {"reading", "handling", "closed"}}) <= MaxConnections

\* Every connection ends, and before it does every request up to the first
\* that ends it is answered, unless the client stops or the connection is
\* refused before anything is read; but nobody is accepted once accept failed.
Expected(s) == IF \E i \in DOMAIN s : Ends(s[i])
               THEN CHOOSE i \in DOMAIN s : Ends(s[i]) /\ \A j \in 1 .. i - 1 : ~Ends(s[j])
               ELSE Len(s)
Answered(c) ==
    \/ deaf /\ phase[c] = "client"
    \/ /\ phase[c] = "left"
       /\ cut[c] \/ Len(unread[c]) = Size(script[c]) \/ Len(wire[c]) = Expected(script[c])
AllAnswered == \A c \in Conns : <>Answered(c)
=============================================================================
