-------------------------- MODULE EngineLinkProofs --------------------------
(***************************************************************************)
(* Safety of the line protocol for any requests, frames, tokens, buffer    *)
(* sizes and crashes of the engine.  The first part is the inductive       *)
(* invariant LinkInv (who waits on which connection, what is in line) and  *)
(* what follows from it; the second is FlowInv (what comes down on the     *)
(* connection in use), the refinement of Generation and the connection     *)
(* that stays usable while nothing breaks.                                 *)
(***************************************************************************)
EXTENDS EngineLink, SequenceTheorems, TLAPS

(* The lines of the two directions, and a connection.                       *)
Judged == {"done", "error", "cancel"}
UpLine == [kind : {"GEN", "F", "X"}, req : Req, why : {""}]
DnLine == [kind : {"T", "D"}, req : Req, why : {""} \cup Judged]

LinkRecord ==
    [up : Seq(UpLine), dn : Seq(DnLine), hung : BOOLEAN, shut : BOOLEAN,
     reader : {"gone", "top", "frames", "ending"}, gen : 0 .. NReq, left : Nat,
     in_flight : BOOLEAN, cur : 0 .. NReq, cancel : BOOLEAN,
     worker : {"none", "run", "finish", "tail", "exited"}, reply : {""} \cup Judged]

Is(s, i, kind) == s[i].kind = kind

(* Requests this end has yet to judge: the line is under way, its frames    *)
(* are read, or the worker runs.                                            *)
Waits(l, r) ==
    \/ \E i \in 1 .. Len(l.up) : Is(l.up, i, "GEN") /\ l.up[i].req = r
    \/ l.reader = "frames" /\ l.gen = r
    \/ l.worker = "run" /\ l.cur = r

(* One request at a time, and what the threads hold while they are there.   *)
OneAtATime(l) ==
    /\ \A i, j \in 1 .. Len(l.up) : Is(l.up, i, "GEN") /\ Is(l.up, j, "GEN") => i = j
    /\ l.reader = "frames" \/ l.worker = "run" =>
         \A i \in 1 .. Len(l.up) : ~Is(l.up, i, "GEN")
    /\ ~(l.reader = "frames" /\ l.worker = "run")
    /\ l.in_flight <=> l.worker = "run"
    /\ l.worker = "run" /\ l.reader = "ending" => l.hung
    /\ l.worker \in {"run", "finish", "tail"} => l.cur \in Req
    /\ l.reader = "frames" => l.gen \in Req
    /\ l.reader = "gone" <=> l.shut
    /\ l.shut => l.up = <<>> /\ l.worker = "none"

(* A frame stands behind its GEN, or behind a reader that expects it.       *)
FramesInLine(l) ==
    /\ l.reader = "top" =>
         \A i \in 1 .. Len(l.up) : Is(l.up, i, "F") =>
            \E g \in 1 .. i - 1 :
                /\ Is(l.up, g, "GEN") /\ i - g <= Frames[l.up[g].req]
                /\ \A k \in g + 1 .. i : Is(l.up, k, "F")
    /\ l.reader = "frames" =>
         \A i \in 1 .. Len(l.up) : Is(l.up, i, "F") =>
            /\ \A k \in 1 .. i : Is(l.up, k, "F")
            /\ Kind[l.gen] # "broken" => i <= l.left

(* A D line says how its request ended.                                     *)
SaysHow(l) ==
    /\ \A i \in 1 .. Len(l.dn) : Is(l.dn, i, "D") => l.dn[i].why # ""
    /\ l.worker = "finish" => l.reply # ""

Proper(l) == l \in LinkRecord /\ OneAtATime(l) /\ FramesInLine(l) /\ SaysHow(l)

(* The u frames the client has yet to write for r are those the engine has  *)
(* yet to expect.                                                           *)
FramesToCome(l, r, u) ==
    /\ l.reader = "top" =>
         \E g \in 1 .. Len(l.up) :
            /\ Is(l.up, g, "GEN") /\ l.up[g].req = r /\ Len(l.up) - g + u = Frames[r]
            /\ \A i \in g + 1 .. Len(l.up) : Is(l.up, i, "F")
    /\ l.reader = "frames" =>
         /\ l.gen = r
         /\ \A i \in 1 .. Len(l.up) : Is(l.up, i, "F")
         /\ Kind[r] # "broken" => Len(l.up) + u = l.left

(* Who waits is not judged.  The request of an X that was not given up      *)
(* waits in front of it, or is judged; lines that came down tell of tokens  *)
(* made and of judgements.  v and p are verdict and made.                   *)
Before(l, i, r) ==
    \/ \E g \in 1 .. i - 1 : Is(l.up, g, "GEN") /\ l.up[g].req = r
    \/ l.reader = "frames" /\ l.gen = r
    \/ l.worker = "run" /\ l.cur = r
UpAccounted(l, v) ==
    /\ \A r \in Req : Waits(l, r) => v[r] = "none"
    /\ \A i \in 1 .. Len(l.up) : Is(l.up, i, "X") =>
         l.hung \/ v[l.up[i].req] # "none" \/ Before(l, i, l.up[i].req)
DnAccounted(l, v, p) ==
    /\ \A i \in 1 .. Len(l.dn) :
         IF Is(l.dn, i, "D") THEN v[l.dn[i].req] # "none" ELSE p[l.dn[i].req] > 0
    /\ l.worker = "finish" => v[l.cur] = l.reply
    /\ l.worker = "tail" => v[l.cur] # "none"

(* Cancels have an X behind them, or nobody in front of them.               *)
CancelsAreAsked(l) ==
    /\ \A i \in 1 .. Len(l.up) : Is(l.up, i, "X") => asked[l.up[i].req] > 0
    /\ l.worker = "run" /\ l.cancel => asked[l.cur] > 0 \/ l.hung

(* The connection in use serves the present request only; any other has     *)
(* been given up by the client.                                             *)
InUse(l) ==
    /\ l.hung => l.shut
    /\ \A r \in Req : Waits(l, r) => phase # "idle" /\ r = req
    /\ phase = "writing" /\ ~l.shut => FramesToCome(l, req, unsent)
    /\ phase # "idle" => l.shut \/ verdict[req] # "none" \/ Waits(l, req)
GivenUp(l) == l.hung /\ \A r \in Req : Waits(l, r) => r < req

ClientTypes ==
    /\ req \in 1 .. NReq + 1 /\ phase \in {"idle", "writing", "reading"}
    /\ unsent \in Nat /\ fd \in 0 .. NReq /\ cancelled \in BOOLEAN
    /\ phase # "idle" => req <= NReq /\ fd # 0
    /\ phase = "writing" => unsent > 0
    /\ outcome \in [Req -> {"none", "timeout", "lost", "unreachable"} \cup Judged]
    /\ got \in [Req -> Nat]
EngineTypes ==
    /\ made \in [Req -> 0 .. MaxTokens] /\ verdict \in [Req -> {"none"} \cup Judged]
    /\ alive \in BOOLEAN /\ crashes \in 0 .. MaxCrashes
AskedOnce ==
    /\ asked \in [Req -> 0 .. 1]
    /\ \A r \in Req : asked[r] > 0 => r < req \/ (r = req /\ cancelled)
    /\ cancelled => phase = "reading"

(* Nothing is known of a request before it is sent.                         *)
Sent(r) == r < req \/ (r = req /\ phase # "idle")
Fresh ==
    /\ \A r \in Req : ~Sent(r) => verdict[r] = "none" /\ made[r] = 0 /\ got[r] = 0
    /\ \A r \in Req : r >= req => outcome[r] = "none"

Unshared ==
    \A c, d \in Conn, r \in Req : Waits(link[c], r) /\ Waits(link[d], r) => c = d

LinkInv ==
    /\ LinkAssumption /\ ClientTypes /\ EngineTypes /\ AskedOnce /\ Fresh /\ Unshared
    /\ link \in [Conn -> LinkRecord]
    /\ \A c \in Conn : /\ Proper(link[c]) /\ CancelsAreAsked(link[c])
                       /\ UpAccounted(link[c], verdict) /\ DnAccounted(link[c], verdict, made)
                       /\ IF c = fd THEN InUse(link[c]) ELSE GivenUp(link[c])

-----------------------------------------------------------------------------
(* Sequences of lines.                                                      *)

LEMMA LinkFacts ==
    ASSUME LinkInv
    PROVE  /\ NReq \in Nat \ {0} /\ MaxTokens \in Nat /\ MaxCrashes \in Nat
           /\ Kind \in [Req -> Kinds] /\ Frames \in [Req -> Nat]
BY DEF LinkInv, LinkAssumption

LEMMA TailIs ==
    ASSUME NEW S, NEW s \in Seq(S), s # <<>>
    PROVE  /\ Tail(s) \in Seq(S) /\ Len(Tail(s)) = Len(s) - 1 /\ Len(s) \in Nat \ {0}
           /\ Head(s) = s[1] /\ s[1] \in S
           /\ \A i \in 1 .. Len(s) - 1 : Tail(s)[i] = s[i + 1]
BY HeadTailProperties

LEMMA AppendIs ==
    ASSUME NEW S, NEW s \in Seq(S), NEW m \in S
    PROVE  /\ Append(s, m) \in Seq(S) /\ Len(Append(s, m)) = Len(s) + 1 /\ Len(s) \in Nat
           /\ \A i \in 1 .. Len(s) : Append(s, m)[i] = s[i]
           /\ Append(s, m)[Len(s) + 1] = m
BY AppendProperties

LEMMA PrefixIs ==
    ASSUME NEW S, NEW s \in Seq(S), NEW p \in Prefixes(s)
    PROVE  /\ p \in Seq(S) /\ Len(p) \in Nat /\ Len(p) <= Len(s) /\ Len(s) \in Nat
           /\ \A i \in 1 .. Len(p) : p[i] = s[i]
<1>1. PICK n \in 0 .. Len(s) : p = SubSeq(s, 1, n)
  BY DEF Prefixes
<1> QED
  BY <1>1, SubSeqProperties

LEMMA LinesKnown ==
    ASSUME NEW l, Proper(l)
    PROVE  /\ l.up \in Seq(UpLine) /\ l.dn \in Seq(DnLine)
           /\ \A i \in 1 .. Len(l.up) : l.up[i] \in UpLine /\ l.up[i].req \in Req
           /\ \A i \in 1 .. Len(l.dn) : l.dn[i] \in DnLine /\ l.dn[i].req \in Req
<1>1. l.up \in Seq(UpLine) /\ l.dn \in Seq(DnLine)
  BY DEF Proper, LinkRecord
<1>2. /\ \A i \in 1 .. Len(l.up) : l.up[i] \in UpLine
      /\ \A i \in 1 .. Len(l.dn) : l.dn[i] \in DnLine
  BY <1>1, ElementOfSeq
<1> QED BY <1>1, <1>2 DEF UpLine, DnLine

-----------------------------------------------------------------------------
(* What an engine's step on a connection may do to it.                      *)

(* X lines of l that also are in front of the engine in k.                  *)
NoNewX(l, k) ==
    \A i \in 1 .. Len(k.up) : Is(k.up, i, "X") =>
        \E j \in 1 .. Len(l.up) : Is(l.up, j, "X") /\ l.up[j].req = k.up[i].req

Follows(l, k) ==
    /\ Proper(k)
    /\ l.hung => k.hung
    /\ k.hung => l.hung \/ k.shut
    /\ l.shut => k.shut
    /\ \A r \in Req : Waits(k, r) => Waits(l, r)
    /\ NoNewX(l, k)
    /\ k.worker = "run" /\ k.cancel =>
         \/ l.worker = "run" /\ l.cancel /\ l.cur = k.cur
         \/ k.hung
         \/ \E j \in 1 .. Len(l.up) : Is(l.up, j, "X") /\ l.up[j].req = k.cur
    /\ \A r \in Req, u \in Nat \ {0} :
         ~k.shut /\ FramesToCome(l, r, u) => FramesToCome(k, r, u)

(* Who waited waits, is judged, or was given up.                            *)
Keeps(l, k, v, w) ==
    /\ UpAccounted(k, w)
    /\ \A r \in Req : Waits(l, r) => Waits(k, r) \/ w[r] # "none" \/ k.shut \/ l.hung

(* It may judge a request that waits there, or make a token of it.          *)
Judges(l, k, v, w, p, q) ==
    /\ \A r \in Req : w[r] = v[r] \/ (v[r] = "none" /\ Waits(l, r))
    /\ \A r \in Req : q[r] = p[r] \/ (q[r] = p[r] + 1 /\ Waits(l, r))
    /\ Keeps(l, k, v, w) /\ DnAccounted(k, w, q)

LEMMA FollowsKeeps ==
    ASSUME LinkInv, NEW c \in Conn, NEW k, Follows(link[c], k), UNCHANGED client,
           Judges(link[c], k, verdict, verdict', made, made')
    PROVE  /\ k \in LinkRecord /\ Proper(k) /\ CancelsAreAsked(k)'
           /\ UpAccounted(k, verdict') /\ DnAccounted(k, verdict', made')
           /\ IF c = fd THEN InUse(k)' ELSE GivenUp(k)'
<1> DEFINE old == link[c]
<1>1. k \in LinkRecord /\ Proper(k) /\ UpAccounted(k, verdict') /\ DnAccounted(k, verdict', made')
  BY DEF Follows, Proper, Judges, Keeps
<1>2. CancelsAreAsked(k)'
  <2>1. \A i \in 1 .. Len(k.up) : Is(k.up, i, "X") => asked[k.up[i].req] > 0
    BY DEF Follows, NoNewX, LinkInv, CancelsAreAsked
  <2>2. k.worker = "run" /\ k.cancel => asked[k.cur] > 0 \/ k.hung
    BY DEF Follows, LinkInv, CancelsAreAsked
  <2> QED BY <2>1, <2>2 DEF CancelsAreAsked, client
<1>3. CASE c = fd
  <2>1. InUse(old)
    BY <1>3 DEF LinkInv
  <2>2. k.hung => k.shut
    BY <2>1 DEF Follows, InUse
  <2>3. \A r \in Req : Waits(k, r) => phase # "idle" /\ r = req
    BY <2>1 DEF Follows, InUse
  <2>4. phase = "writing" /\ ~k.shut => FramesToCome(k, req, unsent)
    <3> HAVE phase = "writing" /\ ~k.shut
    <3>1. req \in Req /\ unsent \in Nat \ {0}
      BY DEF LinkInv, ClientTypes, Req
    <3>2. FramesToCome(old, req, unsent)
      BY <2>1 DEF InUse, Follows
    <3>3. \A r \in Req, u \in Nat \ {0} :
             ~k.shut /\ FramesToCome(old, r, u) => FramesToCome(k, r, u)
      BY DEF Follows
    <3> QED BY <3>1, <3>2, <3>3
  <2>5. ASSUME phase # "idle" PROVE k.shut \/ verdict'[req] # "none" \/ Waits(k, req)
    <3>1. req \in Req
      BY <2>5 DEF LinkInv, ClientTypes, Req
    <3>2. old.shut \/ verdict[req] # "none" \/ Waits(old, req)
      BY <2>1, <2>5 DEF InUse
    <3>3. old.shut => k.shut
      BY DEF Follows
    <3>4. verdict[req] # "none" => verdict'[req] # "none"
      BY <3>1 DEF Judges
    <3>5. Waits(old, req) => Waits(k, req) \/ verdict'[req] # "none" \/ k.shut \/ old.hung
      BY <3>1 DEF Judges, Keeps
    <3>6. old.hung => k.shut
      BY <2>1, <3>3 DEF InUse
    <3> QED BY <3>2, <3>3, <3>4, <3>5, <3>6
  <2>6. InUse(k)'
    BY <2>2, <2>3, <2>4, <2>5 DEF InUse, client
  <2> QED BY <1>1, <1>2, <1>3, <2>6
<1>4. CASE c # fd
  <2>1. old.hung /\ \A r \in Req : Waits(old, r) => r < req
    BY <1>4 DEF LinkInv, GivenUp
  <2>2. k.hung /\ \A r \in Req : Waits(k, r) => r < req
    BY <2>1 DEF Follows
  <2> QED BY <1>1, <1>2, <1>4, <2>2 DEF GivenUp, client
<1> QED BY <1>3, <1>4

(* The other connections do not wait for what is judged.                    *)
LEMMA OthersStay ==
    ASSUME LinkInv, NEW c \in Conn, NEW d \in Conn, c # d, NEW k,
           Judges(link[c], k, verdict, verdict', made, made'), UNCHANGED client,
           link'[d] = link[d]
    PROVE  /\ Proper(link[d])' /\ CancelsAreAsked(link[d])'
           /\ UpAccounted(link[d], verdict)' /\ DnAccounted(link[d], verdict, made)'
           /\ IF d = fd' THEN InUse(link[d])' ELSE GivenUp(link[d])'
<1> DEFINE o == link[d]
<1>1. /\ Proper(o) /\ CancelsAreAsked(o) /\ UpAccounted(o, verdict)
      /\ DnAccounted(o, verdict, made) /\ IF d = fd THEN InUse(o) ELSE GivenUp(o)
  BY DEF LinkInv
<1>2. \A r \in Req : verdict[r] # "none" => verdict'[r] = verdict[r]
  BY DEF Judges
<1>3. \A r \in Req : Waits(o, r) => verdict'[r] = "none"
  <2> SUFFICES ASSUME NEW r \in Req, Waits(o, r) PROVE verdict'[r] = "none"
    OBVIOUS
  <2>1. verdict[r] = "none" /\ ~Waits(link[c], r)
    BY <1>1 DEF LinkInv, Unshared, UpAccounted
  <2> QED BY <2>1 DEF Judges
<1>4. \A r \in Req : made[r] > 0 => made'[r] > 0
  <2>1. \A r \in Req : made[r] \in Nat
    BY LinkFacts DEF LinkInv, EngineTypes
  <2> QED BY <2>1 DEF Judges
<1>5. o.up \in Seq(UpLine) /\ o.dn \in Seq(DnLine) /\ o.reply \in {""} \cup Judged
  BY <1>1 DEF Proper, LinkRecord
<1>6. UpAccounted(o, verdict')
  <2>1. \A i \in 1 .. Len(o.up) : o.up[i].req \in Req
    BY <1>1, LinesKnown
  <2> QED BY <1>1, <1>2, <1>3, <2>1 DEF UpAccounted
<1>7. DnAccounted(o, verdict', made')
  <2>1. \A i \in 1 .. Len(o.dn) : o.dn[i].req \in Req
    BY <1>1, LinesKnown
  <2>2. o.worker \in {"finish", "tail"} => o.cur \in Req
    BY <1>1 DEF Proper, OneAtATime
  <2>3. \A i \in 1 .. Len(o.dn) :
           IF Is(o.dn, i, "D") THEN verdict'[o.dn[i].req] # "none" ELSE made'[o.dn[i].req] > 0
    BY <1>1, <1>2, <1>4, <2>1 DEF DnAccounted
  <2>4. o.worker = "finish" => verdict[o.cur] = o.reply /\ verdict[o.cur] # "none"
    BY <1>1, <1>5 DEF DnAccounted, Judged
  <2>5. o.worker = "tail" => verdict[o.cur] # "none"
    BY <1>1 DEF DnAccounted
  <2> QED BY <1>2, <2>2, <2>3, <2>4, <2>5 DEF DnAccounted
<1>8. CASE d = fd
  <2>1. phase # "idle" => req \in Req
    BY DEF LinkInv, ClientTypes, Req
  <2>2. InUse(o) /\ (phase # "idle" => o.shut \/ verdict'[req] # "none" \/ Waits(o, req))
    BY <1>1, <1>2, <1>8, <2>1 DEF InUse
  <2>3. InUse(link[d])'
    BY <2>2 DEF InUse, client
  <2> QED BY <1>1, <1>6, <1>7, <1>8, <2>3 DEF client, CancelsAreAsked
<1>9. CASE d # fd
  BY <1>1, <1>6, <1>7, <1>9 DEF client, CancelsAreAsked, GivenUp
<1> QED BY <1>8, <1>9

LEMMA WaitsMeansSent ==
    ASSUME LinkInv, NEW c \in Conn, NEW r \in Req, Waits(link[c], r)
    PROVE  Sent(r) /\ r <= req
<1>1. req \in Nat
  BY DEF LinkInv, ClientTypes
<1> QED BY <1>1 DEF LinkInv, InUse, GivenUp, Sent, Req

LEMMA EngineStep ==
    ASSUME LinkInv, NEW c \in Conn, NEW k, Follows(link[c], k),
           Judges(link[c], k, verdict, verdict', made, made'),
           link' = [link EXCEPT ![c] = k], UNCHANGED client, EngineTypes'
    PROVE  LinkInv'
<1>1. ClientTypes' /\ AskedOnce' /\ LinkAssumption'
  BY DEF LinkInv, ClientTypes, AskedOnce, client
<1>2. link' \in [Conn -> LinkRecord]
  BY FollowsKeeps DEF LinkInv
<1>3. ASSUME NEW d \in Conn
      PROVE  /\ Proper(link[d])' /\ CancelsAreAsked(link[d])'
             /\ UpAccounted(link[d], verdict)' /\ DnAccounted(link[d], verdict, made)'
             /\ IF d = fd' THEN InUse(link[d])' ELSE GivenUp(link[d])'
  <2>1. CASE d = c
    <3>1. link'[d] = k
      BY <2>1 DEF LinkInv
    <3>2. fd' = fd
      BY DEF client
    <3>3. /\ Proper(k) /\ CancelsAreAsked(k)'
          /\ UpAccounted(k, verdict') /\ DnAccounted(k, verdict', made')
          /\ IF d = fd THEN InUse(k)' ELSE GivenUp(k)'
      BY <2>1, FollowsKeeps
    <3> QED BY <3>1, <3>2, <3>3 DEF CancelsAreAsked, InUse, GivenUp
  <2>2. CASE d # c
    <3>1. link'[d] = link[d]
      BY <2>2 DEF LinkInv
    <3> QED BY <3>1, <2>2, OthersStay
  <2> QED BY <2>1, <2>2
<1>4. Fresh'
  <2>1. \A r \in Req : Sent(r)' <=> Sent(r)
    BY DEF Sent, client
  <2>2. \A r \in Req : ~Sent(r) => ~Waits(link[c], r)
    BY WaitsMeansSent
  <2>3. \A r \in Req : ~Sent(r) => verdict'[r] = verdict[r] /\ made'[r] = made[r]
    BY <2>2 DEF Judges
  <2> QED BY <2>1, <2>3 DEF LinkInv, Fresh, client
<1>5. Unshared'
  <2>1. \A d \in Conn, r \in Req : Waits(link'[d], r) => Waits(link[d], r)
    <3> TAKE d \in Conn, r \in Req
    <3>1. CASE d = c
      <4>1. link'[d] = k
        BY <3>1 DEF LinkInv
      <4> QED BY <3>1, <4>1 DEF Follows
    <3>2. CASE d # c
      BY <3>2 DEF LinkInv
    <3> QED BY <3>1, <3>2
  <2> QED BY <2>1 DEF LinkInv, Unshared
<1> QED BY <1>1, <1>2, <1>3, <1>4, <1>5 DEF LinkInv

-----------------------------------------------------------------------------
(* Steps that leave the lines to the engine alone.                          *)

FrontStays(l, k) ==
    /\ k.up = l.up /\ k.reader = l.reader /\ k.gen = l.gen /\ k.left = l.left
    /\ k.hung = l.hung /\ k.shut = l.shut /\ k.cur = l.cur /\ k.cancel = l.cancel
    /\ k.in_flight <=> k.worker = "run"
    /\ k.worker = "run" => l.worker = "run"
    /\ k.worker \in {"finish", "tail"} => l.worker \in {"run", "finish", "tail"}
    /\ l.shut => k.worker = "none"

(* A worker that ends has judged its request, or nobody hears it.           *)
WorkerJudges(l, k, v, w) ==
    /\ \A r \in Req : \/ w[r] = v[r]
                      \/ v[r] = "none" /\ l.worker = "run" /\ k.worker # "run" /\ r = l.cur
    /\ l.worker = "run" /\ k.worker # "run" => l.hung \/ w[l.cur] # "none"

LEMMA SameFront ==
    ASSUME NEW l, NEW k \in LinkRecord, Proper(l), SaysHow(k), FrontStays(l, k)
    PROVE  Follows(l, k)
<1> USE DEF FrontStays
<1>1. OneAtATime(k)
  BY DEF Proper, OneAtATime
<1>2. FramesInLine(k)
  BY DEF Proper, FramesInLine
<1>3. \A r \in Req : Waits(k, r) => Waits(l, r)
  BY DEF Waits
<1>4. NoNewX(l, k)
  BY DEF NoNewX
<1>5. \A r \in Req, u \in Nat \ {0} :
         ~k.shut /\ FramesToCome(l, r, u) => FramesToCome(k, r, u)
  BY DEF FramesToCome
<1> QED BY <1>1, <1>2, <1>3, <1>4, <1>5 DEF Follows, Proper

LEMMA FrontKeeps ==
    ASSUME NEW l, NEW k, Proper(l), FrontStays(l, k),
           NEW v, NEW w, UpAccounted(l, v), WorkerJudges(l, k, v, w)
    PROVE  Keeps(l, k, v, w)
<1> USE DEF FrontStays
<1>1. \A r \in Req : Waits(k, r) => Waits(l, r)
  BY DEF Waits
<1>2. l.worker = "run" =>
         l.cur \in Req /\ l.reader # "frames" /\ \A i \in 1 .. Len(l.up) : ~Is(l.up, i, "GEN")
  BY DEF Proper, OneAtATime
<1>3. \A r \in Req : Waits(k, r) => w[r] = "none"
  <2> SUFFICES ASSUME NEW r \in Req, Waits(k, r) PROVE w[r] = "none"
    OBVIOUS
  <2>1. v[r] = "none"
    BY <1>1 DEF UpAccounted
  <2>2. CASE w[r] = v[r]
    BY <2>1, <2>2
  <2>3. CASE l.worker = "run" /\ k.worker # "run" /\ r = l.cur
    BY <2>3, <1>2 DEF Waits
  <2> QED BY <2>2, <2>3 DEF WorkerJudges
<1>4. ASSUME NEW i \in 1 .. Len(k.up), Is(k.up, i, "X")
      PROVE  k.hung \/ w[k.up[i].req] # "none" \/ Before(k, i, k.up[i].req)
  <2> DEFINE r == l.up[i].req
  <2>1. r \in Req
    BY LinesKnown
  <2>2. l.hung \/ v[r] # "none" \/ Before(l, i, r)
    BY <1>4 DEF UpAccounted
  <2>3. v[r] # "none" => w[r] # "none"
    BY <2>1 DEF WorkerJudges
  <2>4. Before(l, i, r) => Before(k, i, r) \/ l.hung \/ w[r] # "none"
    BY DEF Before, WorkerJudges
  <2> QED BY <2>2, <2>3, <2>4
<1>5. \A r \in Req : Waits(l, r) => Waits(k, r) \/ w[r] # "none" \/ l.hung
  BY DEF Waits, WorkerJudges
<1> QED BY <1>3, <1>4, <1>5 DEF UpAccounted, Keeps

(* A line that goes down, or would.                                         *)
LEMMA DownIs ==
    ASSUME NEW l \in LinkRecord, NEW m \in DnLine
    PROVE  /\ Down(l, m) \in LinkRecord
           /\ Down(l, m) = [l EXCEPT !.dn = IF l.hung THEN l.dn ELSE Append(l.dn, m)]
           /\ SaysHow(l) /\ (m.kind = "D" => m.why # "") => SaysHow(Down(l, m))
<1> DEFINE k == Down(l, m)
<1>1. k = [l EXCEPT !.dn = IF l.hung THEN l.dn ELSE Append(l.dn, m)]
  <2>1. l = [l EXCEPT !.dn = l.dn]
    BY DEF LinkRecord
  <2> QED BY <2>1 DEF Down
<1>2. l.dn \in Seq(DnLine)
  BY DEF LinkRecord
<1>3. k.dn = (IF l.hung THEN l.dn ELSE Append(l.dn, m)) /\ k.worker = l.worker /\ k.reply = l.reply
  BY <1>1 DEF LinkRecord
<1>4. k.dn \in Seq(DnLine)
  BY <1>2, <1>3
<1>5. k \in LinkRecord
  BY <1>1, <1>3, <1>4 DEF LinkRecord
<1>6. ASSUME SaysHow(l), m.kind = "D" => m.why # "" PROVE SaysHow(k)
  <2>1. \A i \in 1 .. Len(k.dn) : Is(k.dn, i, "D") => k.dn[i].why # ""
    <3>1. CASE l.hung
      BY <1>6, <1>3, <3>1 DEF SaysHow, Is
    <3>2. CASE ~l.hung
      <4>1. k.dn = Append(l.dn, m)
        BY <1>3, <3>2
      <4>2. /\ Len(k.dn) = Len(l.dn) + 1 /\ Len(l.dn) \in Nat /\ k.dn[Len(l.dn) + 1] = m
            /\ \A i \in 1 .. Len(l.dn) : k.dn[i] = l.dn[i]
        BY <4>1, <1>2, AppendIs
      <4>3. ASSUME NEW i \in 1 .. Len(k.dn), Is(k.dn, i, "D") PROVE k.dn[i].why # ""
        <5>1. CASE i = Len(l.dn) + 1
          BY <5>1, <4>2, <4>3, <1>6 DEF Is
        <5>2. CASE i \in 1 .. Len(l.dn)
          BY <5>2, <4>2, <4>3, <1>6 DEF Is, SaysHow
        <5>3. i \in 1 .. Len(l.dn) + 1 /\ Len(l.dn) \in Nat
          BY <4>2
        <5>4. i = Len(l.dn) + 1 \/ i \in 1 .. Len(l.dn)
          BY <5>3
        <5> QED BY <5>1, <5>2, <5>4
      <4> QED BY <4>3
    <3> QED BY <3>1, <3>2
  <2> QED BY <2>1, <1>3, <1>6 DEF SaysHow
<1> QED BY <1>1, <1>5, <1>6

LEMMA LinesAre ==
    /\ \A r \in Req : Line("T", r) \in DnLine /\ Line("T", r).kind # "D" /\ Line("T", r).req = r
    /\ \A r \in Req, why \in Judged : /\ Done(r, why) \in DnLine /\ Done(r, why).why # ""
                                      /\ Done(r, why).kind = "D" /\ Done(r, why).req = r
    /\ \A r \in Req, kind \in {"GEN", "F", "X"} :
         Line(kind, r) \in UpLine /\ Line(kind, r).kind = kind /\ Line(kind, r).req = r
BY DEF Line, Done, DnLine, UpLine, Judged

LEMMA DoneIs ==
    ASSUME NEW r \in Req, NEW why \in Judged
    PROVE  /\ Done(r, why) \in DnLine /\ Done(r, why).why # ""
           /\ Done(r, why).kind = "D" /\ Done(r, why).req = r
BY DEF Done, DnLine, Judged

LEMMA LineIs ==
    ASSUME NEW r \in Req, NEW kind \in {"GEN", "F", "X"}
    PROVE  Line(kind, r) \in UpLine /\ Line(kind, r).kind = kind /\ Line(kind, r).req = r
BY DEF Line, UpLine

LEMMA ReadsIs ==
    ASSUME LinkInv, NEW c \in Conn
    PROVE  link[c] \in LinkRecord /\ Proper(link[c])
BY DEF LinkInv

(* A step of the engine's end of a connection.                              *)
Moves(c) ==
    \E k : /\ Follows(link[c], k) /\ Keeps(link[c], k, verdict, verdict')
           /\ DnAccounted(k, verdict', made') /\ link' = [link EXCEPT ![c] = k]

JudgedAt(c) ==
    \A r \in Req : /\ verdict'[r] = verdict[r] \/ (verdict[r] = "none" /\ Waits(link[c], r))
                   /\ made'[r] = made[r] \/ (made'[r] = made[r] + 1 /\ Waits(link[c], r))

LEMMA MoveInv ==
    ASSUME LinkInv, NEW c \in Conn, Moves(c), UNCHANGED client, EngineTypes',
           JudgedAt(c)
    PROVE  LinkInv'
<1>1. PICK k : /\ Follows(link[c], k) /\ Keeps(link[c], k, verdict, verdict')
               /\ DnAccounted(k, verdict', made') /\ link' = [link EXCEPT ![c] = k]
  BY DEF Moves
<1>2. /\ \A r \in Req : verdict'[r] = verdict[r] \/ (verdict[r] = "none" /\ Waits(link[c], r))
      /\ \A r \in Req : made'[r] = made[r] \/ (made'[r] = made[r] + 1 /\ Waits(link[c], r))
  BY DEF JudgedAt
<1>3. Judges(link[c], k, verdict, verdict', made, made')
  BY <1>1, <1>2 DEF Judges
<1> QED BY <1>1, <1>3, EngineStep

(* What came down stays true, and so does a line put behind it.             *)
Later(v, w) == \A r \in Req : v[r] # "none" => w[r] = v[r]
More(p, q)  == \A r \in Req : p[r] > 0 => q[r] > 0

LEMMA DnSame ==
    ASSUME NEW l, Proper(l), NEW k, NEW v, NEW w, NEW p, NEW q, DnAccounted(l, v, p),
           Later(v, w), More(p, q), k.dn = l.dn,
           k.worker = "finish" => w[k.cur] = k.reply,
           k.worker = "tail" => w[k.cur] # "none"
    PROVE  DnAccounted(k, w, q)
<1>1. \A i \in 1 .. Len(l.dn) : l.dn[i].req \in Req
  BY LinesKnown
<1>2. \A i \in 1 .. Len(k.dn) :
         IF Is(k.dn, i, "D") THEN w[k.dn[i].req] # "none" ELSE q[k.dn[i].req] > 0
  BY <1>1 DEF DnAccounted, Later, More
<1> QED BY <1>2 DEF DnAccounted

LEMMA DnGrows ==
    ASSUME NEW l, Proper(l), NEW k, NEW v, NEW w, NEW p, NEW q, DnAccounted(l, v, p),
           Later(v, w), More(p, q), NEW m \in DnLine,
           k.dn = IF l.hung THEN l.dn ELSE Append(l.dn, m),
           l.hung \/ IF m.kind = "D" THEN w[m.req] # "none" ELSE q[m.req] > 0,
           k.worker = "finish" => w[k.cur] = k.reply,
           k.worker = "tail" => w[k.cur] # "none"
    PROVE  DnAccounted(k, w, q)
<1>1. CASE l.hung
  BY <1>1, DnSame
<1>2. CASE ~l.hung
  <2>1. /\ Len(k.dn) = Len(l.dn) + 1 /\ Len(l.dn) \in Nat /\ k.dn[Len(l.dn) + 1] = m
        /\ \A i \in 1 .. Len(l.dn) : k.dn[i] = l.dn[i]
    BY <1>2, LinesKnown, AppendIs
  <2>2. \A i \in 1 .. Len(l.dn) : l.dn[i].req \in Req
    BY LinesKnown
  <2>3. ASSUME NEW i \in 1 .. Len(k.dn)
        PROVE  IF Is(k.dn, i, "D") THEN w[k.dn[i].req] # "none" ELSE q[k.dn[i].req] > 0
    <3>1. CASE i = Len(l.dn) + 1
      BY <1>2, <2>1, <3>1 DEF Is
    <3>2. CASE i \in 1 .. Len(l.dn)
      <4>1. IF Is(l.dn, i, "D") THEN v[l.dn[i].req] # "none" ELSE p[l.dn[i].req] > 0
        BY <3>2 DEF DnAccounted
      <4>2. IF Is(l.dn, i, "D") THEN w[l.dn[i].req] # "none" ELSE q[l.dn[i].req] > 0
        BY <4>1, <2>2, <3>2 DEF Later, More
      <4> QED BY <2>1, <3>2, <4>2 DEF Is
    <3>3. i = Len(l.dn) + 1 \/ i \in 1 .. Len(l.dn)
      BY <2>1
    <3> QED BY <3>1, <3>2, <3>3
  <2> QED BY <2>3 DEF DnAccounted
<1> QED BY <1>1, <1>2

LEMMA DownFields ==
    ASSUME NEW l \in LinkRecord, SaysHow(l), NEW m \in DnLine, m.kind = "D" => m.why # ""
    PROVE  LET k == Down(l, m)
           IN  /\ k \in LinkRecord /\ SaysHow(k)
               /\ k.dn = (IF l.hung THEN l.dn ELSE Append(l.dn, m))
               /\ k.up = l.up /\ k.reader = l.reader /\ k.gen = l.gen /\ k.left = l.left
               /\ k.hung = l.hung /\ k.shut = l.shut /\ k.cur = l.cur /\ k.cancel = l.cancel
               /\ k.worker = l.worker /\ k.in_flight = l.in_flight /\ k.reply = l.reply
<1> DEFINE k == Down(l, m)
<1>1. k \in LinkRecord /\ SaysHow(k)
  BY DownIs
<1>2. k = [l EXCEPT !.dn = IF l.hung THEN l.dn ELSE Append(l.dn, m)]
  BY DownIs
<1> HIDE DEF k
<1>3. /\ k.dn = (IF l.hung THEN l.dn ELSE Append(l.dn, m))
      /\ k.up = l.up /\ k.reader = l.reader /\ k.gen = l.gen /\ k.left = l.left
      /\ k.hung = l.hung /\ k.shut = l.shut /\ k.cur = l.cur /\ k.cancel = l.cancel
      /\ k.worker = l.worker /\ k.in_flight = l.in_flight /\ k.reply = l.reply
  BY <1>2 DEF LinkRecord
<1> QED BY <1>1, <1>3 DEF k

LEMMA ReaderAt ==
    ASSUME NEW l \in LinkRecord, SaysHow(l), NEW at \in {"top", "ending"}
    PROVE  LET k == [l EXCEPT !.reader = at]
           IN  /\ k \in LinkRecord /\ SaysHow(k) /\ k.reader = at /\ k.dn = l.dn
               /\ k.up = l.up /\ k.gen = l.gen /\ k.left = l.left
               /\ k.hung = l.hung /\ k.shut = l.shut /\ k.cur = l.cur /\ k.cancel = l.cancel
               /\ k.worker = l.worker /\ k.in_flight = l.in_flight /\ k.reply = l.reply
<1> DEFINE k == [l EXCEPT !.reader = at]
<1>1. /\ k \in LinkRecord /\ k.dn = l.dn /\ k.reader = at
      /\ k.up = l.up /\ k.gen = l.gen /\ k.left = l.left
      /\ k.hung = l.hung /\ k.shut = l.shut /\ k.cur = l.cur /\ k.cancel = l.cancel
      /\ k.worker = l.worker /\ k.in_flight = l.in_flight /\ k.reply = l.reply
  BY DEF LinkRecord
<1> HIDE DEF k
<1>2. SaysHow(k)
  BY <1>1 DEF SaysHow
<1> QED BY <1>1, <1>2 DEF k

LEMMA AccountedAt ==
    ASSUME LinkInv, NEW c \in Conn
    PROVE  /\ link[c] \in LinkRecord /\ Proper(link[c]) /\ UpAccounted(link[c], verdict)
           /\ DnAccounted(link[c], verdict, made)
BY DEF LinkInv

LEMMA EmitInv == ASSUME LinkInv, NEW c \in Conn, Emit(c) PROVE LinkInv'
<1> DEFINE old == link[c]
           r == old.cur
<1>1. /\ old \in LinkRecord /\ Proper(old) /\ UpAccounted(old, verdict)
      /\ DnAccounted(old, verdict, made) /\ old.worker = "run" /\ r \in Req
  BY AccountedAt DEF Emit, Proper, OneAtATime
<1>2. made[r] \in Nat /\ made'[r] = made[r] + 1 /\ made'[r] > 0 /\ made'[r] \in 0 .. MaxTokens
      /\ \A q \in Req \ {r} : made'[q] = made[q]
  <2>1. made \in [Req -> 0 .. MaxTokens] /\ made[r] < MaxTokens /\ MaxTokens \in Nat
    BY LinkFacts DEF Emit, LinkInv, EngineTypes
  <2>2. made' = [made EXCEPT ![r] = @ + 1]
    BY DEF Emit
  <2> QED BY <2>1, <2>2, <1>1
<1>3. EngineTypes'
  <2>1. made' \in [Req -> 0 .. MaxTokens]
    BY <1>2 DEF Emit, LinkInv, EngineTypes
  <2> QED BY <2>1 DEF Emit, LinkInv, EngineTypes, engine
<1>4. verdict' = verdict /\ UNCHANGED client
  BY DEF Emit
<1>5. Later(verdict, verdict') /\ More(made, made')
  BY <1>2, <1>4 DEF Later, More
<1>6. Moves(c)
  <2>1. CASE Set(c, Down(old, Line("T", r)))
    <3> DEFINE k == Down(old, Line("T", r))
    <3>1. Line("T", r) \in DnLine /\ Line("T", r).kind # "D" /\ Line("T", r).req = r
      BY <1>1, LinesAre
    <3>2. /\ k \in LinkRecord /\ SaysHow(k)
          /\ k.dn = (IF old.hung THEN old.dn ELSE Append(old.dn, Line("T", r)))
          /\ k.up = old.up /\ k.reader = old.reader /\ k.gen = old.gen /\ k.left = old.left
          /\ k.hung = old.hung /\ k.shut = old.shut /\ k.cur = old.cur
          /\ k.cancel = old.cancel /\ k.worker = old.worker /\ k.in_flight = old.in_flight
      BY <1>1, <3>1, DownFields DEF Proper
    <3>3. link' = [link EXCEPT ![c] = k]
      BY <2>1 DEF Set
    <3> HIDE DEF k
    <3>4. Follows(old, k) /\ Keeps(old, k, verdict, verdict)
      <4>1. FrontStays(old, k) /\ WorkerJudges(old, k, verdict, verdict)
        BY <1>1, <3>2 DEF Proper, OneAtATime, FrontStays, WorkerJudges
      <4> QED BY <1>1, <3>2, <4>1, SameFront, FrontKeeps
    <3>5. DnAccounted(k, verdict', made')
      BY <1>1, <1>2, <1>5, <3>1, <3>2, DnGrows
    <3> QED BY <1>4, <3>3, <3>4, <3>5 DEF Moves
  <2>2. CASE old.hung /\ Set(c, [old EXCEPT !.worker = "exited", !.in_flight = FALSE])
    <3> DEFINE k == [old EXCEPT !.worker = "exited", !.in_flight = FALSE]
    <3>1. /\ k \in LinkRecord /\ k.dn = old.dn
          /\ k.up = old.up /\ k.reader = old.reader /\ k.gen = old.gen /\ k.left = old.left
          /\ k.hung = old.hung /\ k.shut = old.shut /\ k.cur = old.cur
          /\ k.cancel = old.cancel /\ k.worker = "exited" /\ ~k.in_flight
      BY <1>1 DEF LinkRecord
    <3>2. link' = [link EXCEPT ![c] = k]
      BY <2>2 DEF Set
    <3> HIDE DEF k
    <3>3. SaysHow(k)
      BY <1>1, <3>1 DEF Proper, SaysHow
    <3>4. Follows(old, k) /\ Keeps(old, k, verdict, verdict)
      <4>1. FrontStays(old, k) /\ WorkerJudges(old, k, verdict, verdict)
        BY <1>1, <2>2, <3>1 DEF Proper, OneAtATime, FrontStays, WorkerJudges
      <4> QED BY <1>1, <3>1, <3>3, <4>1, SameFront, FrontKeeps
    <3>5. DnAccounted(k, verdict', made')
      BY <1>1, <1>5, <3>1, DnSame
    <3> QED BY <1>4, <3>2, <3>4, <3>5 DEF Moves
  <2> QED BY <2>1, <2>2 DEF Emit
<1>7. JudgedAt(c)
  <2>1. Waits(old, r)
    BY <1>1 DEF Waits
  <2> QED BY <1>2, <1>4, <2>1 DEF JudgedAt
<1> QED BY <1>3, <1>4, <1>6, <1>7, MoveInv

LEMMA EndInv == ASSUME LinkInv, NEW c \in Conn, End(c) PROVE LinkInv'
<1> DEFINE old == link[c]
           r == old.cur
<1>1. /\ old \in LinkRecord /\ Proper(old) /\ UpAccounted(old, verdict)
      /\ DnAccounted(old, verdict, made) /\ old.worker = "run" /\ r \in Req
  BY AccountedAt DEF End, Proper, OneAtATime
<1>2. PICK why \in Judged :
        /\ link' = [link EXCEPT ![c] = [old EXCEPT !.worker = "finish", !.in_flight = FALSE,
                                                   !.reply = why]]
        /\ verdict' = [verdict EXCEPT ![r] = why]
  BY DEF End, Set, Judged
<1>3. /\ Waits(old, r) /\ verdict[r] = "none" /\ why # "none" /\ verdict'[r] = why
      /\ \A q \in Req \ {r} : verdict'[q] = verdict[q]
  <2>1. Waits(old, r)
    BY <1>1 DEF Waits
  <2>2. verdict[r] = "none"
    BY <1>1, <2>1 DEF UpAccounted
  <2>3. verdict \in [Req -> {"none"} \cup Judged]
    BY DEF LinkInv, EngineTypes
  <2> QED BY <1>1, <1>2, <2>1, <2>2, <2>3 DEF Judged
<1>4. EngineTypes' /\ UNCHANGED <<client, made>>
  <2>1. verdict' \in [Req -> {"none"} \cup Judged]
    BY <1>2, <1>1 DEF LinkInv, EngineTypes
  <2> QED BY <2>1 DEF End, LinkInv, EngineTypes, engine
<1> DEFINE k == [old EXCEPT !.worker = "finish", !.in_flight = FALSE, !.reply = why]
<1>5. /\ k \in LinkRecord
      /\ k.up = old.up /\ k.reader = old.reader /\ k.gen = old.gen /\ k.left = old.left
      /\ k.hung = old.hung /\ k.shut = old.shut /\ k.cur = old.cur /\ k.cancel = old.cancel
      /\ ~k.in_flight /\ k.worker = "finish" /\ k.dn = old.dn /\ k.reply = why
  BY <1>1 DEF LinkRecord
<1>6. link' = [link EXCEPT ![c] = k]
  BY <1>2
<1> HIDE DEF k
<1>7. SaysHow(k)
  BY <1>1, <1>5 DEF Proper, SaysHow, Judged
<1>8. Follows(old, k) /\ Keeps(old, k, verdict, verdict')
  <2>1. FrontStays(old, k)
    BY <1>1, <1>5 DEF Proper, OneAtATime, FrontStays
  <2>2. WorkerJudges(old, k, verdict, verdict')
    BY <1>1, <1>3, <1>5 DEF WorkerJudges
  <2> QED BY <1>1, <1>5, <1>7, <2>1, <2>2, SameFront, FrontKeeps
<1>9. DnAccounted(k, verdict', made')
  <2>1. Later(verdict, verdict') /\ More(made, made')
    BY <1>3, <1>4 DEF Later, More
  <2> QED BY <1>1, <1>3, <1>5, <2>1, DnSame
<1>10. Moves(c)
  BY <1>6, <1>8, <1>9 DEF Moves
<1>11. JudgedAt(c)
  BY <1>3, <1>4 DEF JudgedAt
<1> QED BY <1>4, <1>10, <1>11, MoveInv

LEMMA NothingJudged ==
    /\ Later(verdict, verdict) /\ More(made, made)
    /\ \A c : UNCHANGED <<verdict, made>> => JudgedAt(c)
BY DEF Later, More, JudgedAt

LEMMA WriteDInv == ASSUME LinkInv, NEW c \in Conn, WriteD(c) PROVE LinkInv'
<1> DEFINE old == link[c]
           m == Done(old.cur, old.reply)
           down == Down(old, m)
           k == [down EXCEPT !.worker = "tail"]
<1>1. /\ old \in LinkRecord /\ Proper(old) /\ UpAccounted(old, verdict)
      /\ DnAccounted(old, verdict, made)
      /\ old.worker = "finish" /\ old.cur \in Req /\ old.reply \in Judged
  <2>1. old \in LinkRecord /\ Proper(old) /\ old.worker = "finish" /\ old.cur \in Req
        /\ old.reply # ""
    BY AccountedAt DEF WriteD, Proper, OneAtATime, SaysHow
  <2> QED BY <2>1, AccountedAt DEF LinkRecord
<1>2. EngineTypes' /\ UNCHANGED <<client, verdict, made>>
  BY DEF WriteD, LinkInv, EngineTypes, engine, history
<1>3. m \in DnLine /\ m.why # "" /\ m.kind = "D" /\ m.req = old.cur
  BY <1>1, DoneIs
<1>4. link' = [link EXCEPT ![c] = k]
  BY DEF WriteD, Set
<1> HIDE DEF m
<1>5. /\ down \in LinkRecord /\ SaysHow(down)
      /\ down.dn = (IF old.hung THEN old.dn ELSE Append(old.dn, m))
      /\ down.up = old.up /\ down.reader = old.reader /\ down.gen = old.gen
      /\ down.left = old.left /\ down.hung = old.hung /\ down.shut = old.shut
      /\ down.cur = old.cur /\ down.cancel = old.cancel /\ down.in_flight = old.in_flight
  BY <1>1, <1>3, DownFields DEF Proper
<1> HIDE DEF down
<1>6. /\ k \in LinkRecord /\ k.dn = down.dn
      /\ k.up = old.up /\ k.reader = old.reader /\ k.gen = old.gen /\ k.left = old.left
      /\ k.hung = old.hung /\ k.shut = old.shut /\ k.cur = old.cur /\ k.cancel = old.cancel
      /\ k.in_flight = old.in_flight /\ k.worker = "tail"
  BY <1>5 DEF LinkRecord
<1> HIDE DEF k
<1>7. SaysHow(k)
  BY <1>5, <1>6 DEF SaysHow
<1>8. Follows(old, k) /\ Keeps(old, k, verdict, verdict)
  <2>1. FrontStays(old, k) /\ WorkerJudges(old, k, verdict, verdict)
    BY <1>1, <1>6 DEF Proper, OneAtATime, FrontStays, WorkerJudges
  <2> QED BY <1>1, <1>6, <1>7, <2>1, SameFront, FrontKeeps
<1>9. verdict[old.cur] # "none"
  BY <1>1 DEF DnAccounted, Judged
<1>10. DnAccounted(k, verdict, made)
  BY <1>1, <1>3, <1>5, <1>6, <1>9, DnGrows, NothingJudged
<1>11. Moves(c)
  BY <1>2, <1>4, <1>8, <1>10 DEF Moves
<1> QED BY <1>2, <1>11, MoveInv, NothingJudged

LEMMA ExitInv == ASSUME LinkInv, NEW c \in Conn, Exit(c) PROVE LinkInv'
<1> DEFINE old == link[c]
           l == [old EXCEPT !.worker = "exited", !.reply = "", !.in_flight = FALSE]
           m == Done(l.cur, "error")
           down == Down(l, m)
<1>1. /\ old \in LinkRecord /\ Proper(old) /\ UpAccounted(old, verdict)
      /\ DnAccounted(old, verdict, made) /\ old.worker = "tail" /\ old.cur \in Req
  BY AccountedAt DEF Exit, Proper, OneAtATime
<1>2. EngineTypes' /\ UNCHANGED <<client, verdict, made>>
  BY DEF Exit, LinkInv, EngineTypes, engine, history
<1>3. link' = [link EXCEPT ![c] = l] \/ link' = [link EXCEPT ![c] = down]
  BY DEF Exit, Set
<1>4. /\ l \in LinkRecord
      /\ l.up = old.up /\ l.reader = old.reader /\ l.gen = old.gen /\ l.left = old.left
      /\ l.hung = old.hung /\ l.shut = old.shut /\ l.cur = old.cur /\ l.cancel = old.cancel
      /\ ~l.in_flight /\ l.worker = "exited" /\ l.dn = old.dn
  BY <1>1 DEF LinkRecord
<1> HIDE DEF l
<1>5. SaysHow(l)
  BY <1>1, <1>4 DEF Proper, SaysHow
<1>6. Follows(old, l) /\ Keeps(old, l, verdict, verdict)
  <2>1. FrontStays(old, l) /\ WorkerJudges(old, l, verdict, verdict)
    BY <1>1, <1>4 DEF Proper, OneAtATime, FrontStays, WorkerJudges
  <2> QED BY <1>1, <1>4, <1>5, <2>1, SameFront, FrontKeeps
<1>7. DnAccounted(l, verdict, made)
  BY <1>1, <1>4, DnSame, NothingJudged
<1>8. m \in DnLine /\ m.why # "" /\ m.kind = "D" /\ m.req = old.cur
  <2>1. "error" \in Judged /\ l.cur = old.cur
    BY <1>4 DEF Judged
  <2> QED BY <1>1, <2>1, DoneIs
<1> HIDE DEF m
<1>9. /\ down \in LinkRecord /\ SaysHow(down)
      /\ down.dn = (IF l.hung THEN l.dn ELSE Append(l.dn, m))
      /\ down.up = l.up /\ down.reader = l.reader /\ down.gen = l.gen
      /\ down.left = l.left /\ down.hung = l.hung /\ down.shut = l.shut
      /\ down.cur = l.cur /\ down.cancel = l.cancel /\ down.in_flight = l.in_flight
      /\ down.worker = l.worker
  BY <1>4, <1>5, <1>8, DownFields
<1> HIDE DEF down
<1>10. Follows(old, down) /\ Keeps(old, down, verdict, verdict)
  <2>1. FrontStays(old, down) /\ WorkerJudges(old, down, verdict, verdict)
    BY <1>1, <1>4, <1>9 DEF Proper, OneAtATime, FrontStays, WorkerJudges
  <2> QED BY <1>1, <1>9, <2>1, SameFront, FrontKeeps
<1>11. verdict[old.cur] # "none"
  BY <1>1 DEF DnAccounted
<1>12. DnAccounted(down, verdict, made)
  BY <1>1, <1>4, <1>8, <1>9, <1>11, DnGrows, NothingJudged
<1>13. Moves(c)
  BY <1>2, <1>3, <1>6, <1>7, <1>10, <1>12 DEF Moves
<1> QED BY <1>2, <1>13, MoveInv, NothingJudged

-----------------------------------------------------------------------------
(* The reader takes a line.                                                 *)

LEMMA TookIs ==
    ASSUME NEW l \in LinkRecord, l.up # <<>>
    PROVE  /\ Tail(l.up) \in Seq(UpLine) /\ Len(Tail(l.up)) = Len(l.up) - 1
           /\ Len(l.up) \in Nat \ {0} /\ Head(l.up) = l.up[1] /\ l.up[1] \in UpLine
           /\ \A i \in 1 .. Len(l.up) - 1 : Tail(l.up)[i] = l.up[i + 1]
<1>1. l.up \in Seq(UpLine)
  BY DEF LinkRecord
<1> QED BY <1>1, TailIs

LEMMA XTaken ==
    ASSUME NEW l, NEW k \in LinkRecord, Proper(l), SaysHow(k),
           l.reader = "top", l.up # <<>>, Is(l.up, 1, "X"), k.up = Tail(l.up),
           k.reader = "top" \/ (k.reader = "ending" /\ l.hung),
           k.gen = l.gen, k.left = l.left, k.hung = l.hung, k.shut = l.shut,
           k.cur = l.cur, k.worker = l.worker, k.in_flight = l.in_flight,
           k.cancel => l.cancel \/ l.up[1].req = k.cur,
           NEW v, UpAccounted(l, v)
    PROVE  Follows(l, k) /\ Keeps(l, k, v, v)
<1>1. /\ Len(k.up) = Len(l.up) - 1 /\ Len(l.up) \in Nat \ {0} /\ Len(k.up) \in Nat
      /\ \A i \in 1 .. Len(k.up) : i + 1 \in 2 .. Len(l.up) /\ k.up[i] = l.up[i + 1]
  BY TookIs DEF Proper
<1>2. OneAtATime(k)
  <2>1. \A i, j \in 1 .. Len(k.up) : Is(k.up, i, "GEN") /\ Is(k.up, j, "GEN") => i = j
    <3> TAKE i, j \in 1 .. Len(k.up)
    <3> HAVE Is(k.up, i, "GEN") /\ Is(k.up, j, "GEN")
    <3>1. /\ i + 1 \in 1 .. Len(l.up) /\ Is(l.up, i + 1, "GEN")
          /\ j + 1 \in 1 .. Len(l.up) /\ Is(l.up, j + 1, "GEN")
      BY <1>1 DEF Is
    <3>2. i + 1 = j + 1
      BY <3>1 DEF Proper, OneAtATime
    <3> QED BY <3>2
  <2>2. k.worker = "run" => \A i \in 1 .. Len(k.up) : ~Is(k.up, i, "GEN")
    <3> HAVE k.worker = "run"
    <3> TAKE i \in 1 .. Len(k.up)
    <3>1. i + 1 \in 1 .. Len(l.up) /\ k.up[i] = l.up[i + 1]
      BY <1>1
    <3> QED BY <3>1 DEF Proper, OneAtATime, Is
  <2>3. l.up # <<>> /\ ~l.shut /\ k.reader # "frames" /\ k.reader # "gone"
    BY DEF Proper, OneAtATime
  <2> QED BY <2>1, <2>2, <2>3 DEF Proper, OneAtATime
<1>3. FramesInLine(k)
  <2>1. ASSUME k.reader = "top", NEW i \in 1 .. Len(k.up), Is(k.up, i, "F")
        PROVE  \E g \in 1 .. i - 1 :
                 /\ Is(k.up, g, "GEN") /\ i - g <= Frames[k.up[g].req]
                 /\ \A n \in g + 1 .. i : Is(k.up, n, "F")
    <3>1. i + 1 \in 1 .. Len(l.up) /\ Is(l.up, i + 1, "F")
      BY <1>1, <2>1 DEF Is
    <3>2. PICK g \in 1 .. i : /\ Is(l.up, g, "GEN") /\ i + 1 - g <= Frames[l.up[g].req]
                              /\ \A n \in g + 1 .. i + 1 : Is(l.up, n, "F")
      <4>1. (i + 1) - 1 = i
        OBVIOUS
      <4> QED BY <3>1, <4>1 DEF Proper, FramesInLine
    <3>3. g # 1
      BY <3>2 DEF Is
    <3>4. g - 1 \in 1 .. i - 1 /\ g - 1 \in 1 .. Len(k.up)
      BY <3>2, <3>3
    <3>5. Is(k.up, g - 1, "GEN") /\ i - (g - 1) <= Frames[k.up[g - 1].req]
      <4>1. k.up[g - 1] = l.up[g] /\ i - (g - 1) = i + 1 - g
        BY <1>1, <3>2, <3>4
      <4> QED BY <4>1, <3>2 DEF Is
    <3>6. \A n \in (g - 1) + 1 .. i : Is(k.up, n, "F")
      <4> TAKE n \in (g - 1) + 1 .. i
      <4>1. n + 1 \in g + 1 .. i + 1 /\ n \in 1 .. Len(k.up)
        BY <3>2
      <4> QED BY <4>1, <3>2, <1>1 DEF Is
    <3> QED BY <3>4, <3>5, <3>6
  <2> QED BY <2>1 DEF FramesInLine
<1>4. \A r \in Req : Waits(k, r) => Waits(l, r)
  <2>1. ASSUME NEW r \in Req, NEW i \in 1 .. Len(k.up), Is(k.up, i, "GEN") /\ k.up[i].req = r
        PROVE  Waits(l, r)
    <3>1. i + 1 \in 1 .. Len(l.up) /\ Is(l.up, i + 1, "GEN") /\ l.up[i + 1].req = r
      BY <1>1, <2>1 DEF Is
    <3> QED BY <3>1 DEF Waits
  <2> QED BY <2>1 DEF Waits
<1>5. NoNewX(l, k)
  <2> SUFFICES ASSUME NEW i \in 1 .. Len(k.up), Is(k.up, i, "X")
               PROVE  \E j \in 1 .. Len(l.up) : Is(l.up, j, "X") /\ l.up[j].req = k.up[i].req
    BY DEF NoNewX
  <2>1. i + 1 \in 1 .. Len(l.up) /\ Is(l.up, i + 1, "X") /\ l.up[i + 1].req = k.up[i].req
    BY <1>1 DEF Is
  <2> QED BY <2>1
<1>6. ASSUME NEW r \in Req, NEW u \in Nat \ {0}, FramesToCome(l, r, u)
      PROVE  FramesToCome(k, r, u)
  <2>1. PICK g \in 1 .. Len(l.up) :
            /\ Is(l.up, g, "GEN") /\ l.up[g].req = r /\ Len(l.up) - g + u = Frames[r]
            /\ \A i \in g + 1 .. Len(l.up) : Is(l.up, i, "F")
    BY <1>6 DEF FramesToCome
  <2>2. g # 1
    BY <2>1 DEF Is
  <2>3. g - 1 \in 1 .. Len(k.up) /\ k.up[g - 1] = l.up[g]
    BY <1>1, <2>1, <2>2
  <2>4. Len(k.up) - (g - 1) + u = Frames[r]
    BY <1>1, <2>1
  <2>5. \A i \in (g - 1) + 1 .. Len(k.up) : Is(k.up, i, "F")
    <3> TAKE i \in (g - 1) + 1 .. Len(k.up)
    <3>1. i + 1 \in g + 1 .. Len(l.up) /\ i \in 1 .. Len(k.up)
      BY <1>1, <2>1
    <3> QED BY <3>1, <2>1, <1>1 DEF Is
  <2>6. Is(k.up, g - 1, "GEN") /\ k.up[g - 1].req = r
    BY <2>1, <2>3 DEF Is
  <2> QED BY <2>3, <2>4, <2>5, <2>6 DEF FramesToCome
<1>7. k.worker = "run" /\ k.cancel =>
         \/ l.worker = "run" /\ l.cancel /\ l.cur = k.cur
         \/ \E j \in 1 .. Len(l.up) : Is(l.up, j, "X") /\ l.up[j].req = k.cur
  BY <1>1
<1>8. ASSUME NEW i \in 1 .. Len(k.up), Is(k.up, i, "X")
      PROVE  k.hung \/ v[k.up[i].req] # "none" \/ Before(k, i, k.up[i].req)
  <2>1. i + 1 \in 1 .. Len(l.up) /\ Is(l.up, i + 1, "X") /\ l.up[i + 1].req = k.up[i].req
    BY <1>1, <1>8 DEF Is
  <2>2. l.hung \/ v[k.up[i].req] # "none" \/ Before(l, i + 1, k.up[i].req)
    BY <2>1 DEF UpAccounted
  <2>3. ASSUME NEW g \in 1 .. (i + 1) - 1, Is(l.up, g, "GEN"), l.up[g].req = k.up[i].req
        PROVE  Before(k, i, k.up[i].req)
    <3>1. g # 1
      BY <2>3 DEF Is
    <3>2. g - 1 \in 1 .. i - 1 /\ g - 1 \in 1 .. Len(k.up) /\ (g - 1) + 1 = g
      BY <3>1
    <3>3. k.up[g - 1] = l.up[g]
      BY <1>1, <3>2
    <3> QED BY <2>3, <3>2, <3>3 DEF Before, Is
  <2>4. Before(l, i + 1, k.up[i].req) => Before(k, i, k.up[i].req)
    BY <2>3 DEF Before
  <2> QED BY <2>2, <2>4
<1>9. \A r \in Req : Waits(l, r) => Waits(k, r)
  <2>1. ASSUME NEW r \in Req, NEW i \in 1 .. Len(l.up), Is(l.up, i, "GEN") /\ l.up[i].req = r
        PROVE  Waits(k, r)
    <3>1. i # 1
      BY <2>1 DEF Is
    <3>2. i - 1 \in 1 .. Len(k.up) /\ (i - 1) + 1 = i
      BY <3>1, <1>1
    <3>3. k.up[i - 1] = l.up[i]
      BY <3>2, <1>1
    <3> QED BY <2>1, <3>2, <3>3 DEF Waits, Is
  <2> QED BY <2>1 DEF Waits
<1>10. UpAccounted(k, v)
  BY <1>4, <1>8 DEF UpAccounted
<1> QED BY <1>2, <1>3, <1>4, <1>5, <1>6, <1>7, <1>9, <1>10 DEF Follows, Proper, Keeps

LEMMA GenTaken ==
    ASSUME LinkAssumption, NEW l, NEW k \in LinkRecord, Proper(l), SaysHow(k),
           l.reader = "top", l.up # <<>>, Is(l.up, 1, "GEN"), k.up = Tail(l.up),
           k.reader = "frames", k.gen = l.up[1].req, k.left = Announced(k.gen),
           k.hung = l.hung, k.shut = l.shut, k.cur = l.cur, k.worker = l.worker,
           k.in_flight = l.in_flight, k.cancel = l.cancel,
           NEW v, UpAccounted(l, v)
    PROVE  Follows(l, k) /\ Keeps(l, k, v, v)
<1>1. /\ Len(k.up) = Len(l.up) - 1 /\ Len(l.up) \in Nat \ {0} /\ Len(k.up) \in Nat
      /\ l.up[1] \in UpLine
      /\ \A i \in 1 .. Len(k.up) : i + 1 \in 2 .. Len(l.up) /\ k.up[i] = l.up[i + 1]
  BY TookIs DEF Proper
<1>2. k.gen \in Req
  BY <1>1 DEF UpLine
<1>3. \A i \in 2 .. Len(l.up) : ~Is(l.up, i, "GEN")
  <2> SUFFICES ASSUME NEW i \in 2 .. Len(l.up), Is(l.up, i, "GEN") PROVE FALSE
    OBVIOUS
  <2>1. i = 1
    BY <1>1 DEF Proper, OneAtATime
  <2> QED BY <2>1
<1>4. \A i \in 1 .. Len(k.up) : ~Is(k.up, i, "GEN")
  BY <1>1, <1>3 DEF Is
<1>5. OneAtATime(k)
  <2>1. l.worker # "run" /\ ~l.shut
    BY <1>1 DEF Proper, OneAtATime
  <2> QED BY <1>2, <1>4, <2>1 DEF Proper, OneAtATime
<1>6. FramesInLine(k)
  <2>1. ASSUME NEW i \in 1 .. Len(k.up), Is(k.up, i, "F")
        PROVE  /\ \A n \in 1 .. i : Is(k.up, n, "F")
               /\ Kind[k.gen] # "broken" => i <= k.left
    <3>1. i + 1 \in 1 .. Len(l.up) /\ Is(l.up, i + 1, "F")
      BY <1>1, <2>1 DEF Is
    <3>2. PICK g \in 1 .. i : /\ Is(l.up, g, "GEN") /\ i + 1 - g <= Frames[l.up[g].req]
                              /\ \A n \in g + 1 .. i + 1 : Is(l.up, n, "F")
      <4>1. (i + 1) - 1 = i
        OBVIOUS
      <4> QED BY <3>1, <4>1 DEF Proper, FramesInLine
    <3>3. g = 1
      BY <3>1, <3>2, <1>3
    <3>4. \A n \in 1 .. i : Is(k.up, n, "F")
      <4> TAKE n \in 1 .. i
      <4>1. n + 1 \in g + 1 .. i + 1 /\ n \in 1 .. Len(k.up)
        BY <3>3
      <4> QED BY <4>1, <3>2, <1>1 DEF Is
    <3>5. i <= Frames[k.gen]
      BY <3>2, <3>3
    <3> QED BY <3>4, <3>5 DEF Announced
  <2> QED BY <2>1 DEF FramesInLine
<1>7. \A r \in Req : Waits(k, r) => Waits(l, r)
  BY <1>1, <1>4 DEF Waits
<1>8. NoNewX(l, k)
  <2> SUFFICES ASSUME NEW i \in 1 .. Len(k.up), Is(k.up, i, "X")
               PROVE  \E j \in 1 .. Len(l.up) : Is(l.up, j, "X") /\ l.up[j].req = k.up[i].req
    BY DEF NoNewX
  <2>1. i + 1 \in 1 .. Len(l.up) /\ Is(l.up, i + 1, "X") /\ l.up[i + 1].req = k.up[i].req
    BY <1>1 DEF Is
  <2> QED BY <2>1
<1>9. ASSUME NEW r \in Req, NEW u \in Nat \ {0}, FramesToCome(l, r, u)
      PROVE  FramesToCome(k, r, u)
  <2>1. PICK g \in 1 .. Len(l.up) :
            /\ Is(l.up, g, "GEN") /\ l.up[g].req = r /\ Len(l.up) - g + u = Frames[r]
            /\ \A i \in g + 1 .. Len(l.up) : Is(l.up, i, "F")
    BY <1>9 DEF FramesToCome
  <2>2. g = 1
    BY <2>1, <1>3
  <2>3. k.gen = r /\ (Kind[r] # "broken" => Len(k.up) + u = k.left)
    BY <1>1, <2>1, <2>2 DEF Announced
  <2>4. \A i \in 1 .. Len(k.up) : Is(k.up, i, "F")
    <3> TAKE i \in 1 .. Len(k.up)
    <3>1. i + 1 \in g + 1 .. Len(l.up)
      BY <1>1, <2>2
    <3> QED BY <3>1, <2>1, <1>1 DEF Is
  <2> QED BY <2>3, <2>4 DEF FramesToCome
<1>10. ASSUME NEW i \in 1 .. Len(k.up), Is(k.up, i, "X")
       PROVE  k.hung \/ v[k.up[i].req] # "none" \/ Before(k, i, k.up[i].req)
  <2>1. i + 1 \in 1 .. Len(l.up) /\ Is(l.up, i + 1, "X") /\ l.up[i + 1].req = k.up[i].req
    BY <1>1, <1>10 DEF Is
  <2>2. l.hung \/ v[k.up[i].req] # "none" \/ Before(l, i + 1, k.up[i].req)
    BY <2>1 DEF UpAccounted
  <2>3. ASSUME NEW g \in 1 .. (i + 1) - 1, Is(l.up, g, "GEN"), l.up[g].req = k.up[i].req
        PROVE  Before(k, i, k.up[i].req)
    <3>1. g = 1
      BY <2>1, <2>3, <1>3
    <3> QED BY <2>3, <3>1 DEF Before
  <2>4. Before(l, i + 1, k.up[i].req) => Before(k, i, k.up[i].req)
    BY <2>3 DEF Before
  <2> QED BY <2>2, <2>4
<1>11. \A r \in Req : Waits(l, r) => Waits(k, r)
  <2>1. ASSUME NEW r \in Req, NEW i \in 1 .. Len(l.up), Is(l.up, i, "GEN") /\ l.up[i].req = r
        PROVE  Waits(k, r)
    <3>1. i = 1
      BY <2>1, <1>3
    <3> QED BY <2>1, <3>1 DEF Waits
  <2> QED BY <2>1 DEF Waits
<1>12. UpAccounted(k, v)
  BY <1>7, <1>10 DEF UpAccounted
<1> QED BY <1>5, <1>6, <1>7, <1>8, <1>9, <1>11, <1>12 DEF Follows, Proper, Keeps

LEMMA FrameTaken ==
    ASSUME LinkAssumption, NEW l, NEW k \in LinkRecord, Proper(l), SaysHow(k),
           l.reader = "frames", l.left > 0, l.up # <<>>, Is(l.up, 1, "F"), k.up = Tail(l.up),
           k.reader = "frames", k.gen = l.gen, k.left = l.left - 1,
           k.hung = l.hung, k.shut = l.shut, k.cur = l.cur, k.worker = l.worker,
           k.in_flight = l.in_flight, k.cancel = l.cancel,
           NEW v, UpAccounted(l, v)
    PROVE  Follows(l, k) /\ Keeps(l, k, v, v)
<1>1. /\ Len(k.up) = Len(l.up) - 1 /\ Len(l.up) \in Nat \ {0} /\ Len(k.up) \in Nat
      /\ \A i \in 1 .. Len(k.up) : i + 1 \in 2 .. Len(l.up) /\ k.up[i] = l.up[i + 1]
  BY TookIs DEF Proper
<1>2. \A i \in 1 .. Len(k.up) : ~Is(k.up, i, "GEN")
  <2> TAKE i \in 1 .. Len(k.up)
  <2>1. i + 1 \in 1 .. Len(l.up) /\ k.up[i] = l.up[i + 1]
    BY <1>1
  <2> QED BY <2>1 DEF Proper, OneAtATime, Is
<1>3. OneAtATime(k)
  <2>1. l.worker # "run" /\ ~l.shut
    BY DEF Proper, OneAtATime
  <2> QED BY <1>2, <2>1 DEF Proper, OneAtATime
<1>4. FramesInLine(k)
  <2>1. ASSUME NEW i \in 1 .. Len(k.up), Is(k.up, i, "F")
        PROVE  /\ \A n \in 1 .. i : Is(k.up, n, "F")
               /\ Kind[k.gen] # "broken" => i <= k.left
    <3>1. i + 1 \in 1 .. Len(l.up) /\ Is(l.up, i + 1, "F")
      BY <1>1, <2>1 DEF Is
    <3>2. /\ \A n \in 1 .. i + 1 : Is(l.up, n, "F")
          /\ Kind[l.gen] # "broken" => i + 1 <= l.left
      BY <3>1 DEF Proper, FramesInLine
    <3>3. \A n \in 1 .. i : Is(k.up, n, "F")
      <4> TAKE n \in 1 .. i
      <4>1. n + 1 \in 1 .. i + 1 /\ n \in 1 .. Len(k.up)
        OBVIOUS
      <4> QED BY <4>1, <3>2, <1>1 DEF Is
    <3>4. l.left \in Nat
      BY DEF Proper, LinkRecord
    <3> QED BY <3>2, <3>3, <3>4
  <2> QED BY <2>1 DEF FramesInLine
<1>5. \A r \in Req : Waits(k, r) => Waits(l, r)
  BY <1>2 DEF Waits
<1>6. NoNewX(l, k)
  <2> SUFFICES ASSUME NEW i \in 1 .. Len(k.up), Is(k.up, i, "X")
               PROVE  \E j \in 1 .. Len(l.up) : Is(l.up, j, "X") /\ l.up[j].req = k.up[i].req
    BY DEF NoNewX
  <2>1. i + 1 \in 1 .. Len(l.up) /\ Is(l.up, i + 1, "X") /\ l.up[i + 1].req = k.up[i].req
    BY <1>1 DEF Is
  <2> QED BY <2>1
<1>7. ASSUME NEW r \in Req, NEW u \in Nat \ {0}, FramesToCome(l, r, u)
      PROVE  FramesToCome(k, r, u)
  <2>1. /\ l.gen = r
        /\ \A i \in 1 .. Len(l.up) : Is(l.up, i, "F")
        /\ Kind[r] # "broken" => Len(l.up) + u = l.left
    BY <1>7 DEF FramesToCome
  <2>2. \A i \in 1 .. Len(k.up) : Is(k.up, i, "F")
    <3> TAKE i \in 1 .. Len(k.up)
    <3>1. i + 1 \in 1 .. Len(l.up)
      BY <1>1
    <3> QED BY <3>1, <2>1, <1>1 DEF Is
  <2>3. l.left \in Nat
    BY DEF Proper, LinkRecord
  <2>4. Kind[r] # "broken" => Len(k.up) + u = k.left
    BY <2>1, <2>3, <1>1
  <2> QED BY <2>1, <2>2, <2>4 DEF FramesToCome
<1>8. \A i \in 1 .. Len(l.up) : ~Is(l.up, i, "GEN")
  BY DEF Proper, OneAtATime
<1>9. ASSUME NEW i \in 1 .. Len(k.up), Is(k.up, i, "X")
      PROVE  k.hung \/ v[k.up[i].req] # "none" \/ Before(k, i, k.up[i].req)
  <2>1. i + 1 \in 1 .. Len(l.up) /\ Is(l.up, i + 1, "X") /\ l.up[i + 1].req = k.up[i].req
    BY <1>1, <1>9 DEF Is
  <2>2. l.hung \/ v[k.up[i].req] # "none" \/ Before(l, i + 1, k.up[i].req)
    BY <2>1 DEF UpAccounted
  <2>3. Before(l, i + 1, k.up[i].req) => Before(k, i, k.up[i].req)
    BY <1>8, <2>1 DEF Before
  <2> QED BY <2>2, <2>3
<1>10. \A r \in Req : Waits(l, r) => Waits(k, r)
  BY <1>8 DEF Waits
<1>11. UpAccounted(k, v)
  BY <1>5, <1>9 DEF UpAccounted
<1> QED BY <1>3, <1>4, <1>5, <1>6, <1>7, <1>10, <1>11 DEF Follows, Proper, Keeps

(* The reader judges a request it has read, or gives up reading.            *)
LEMMA FramesOver ==
    ASSUME NEW l, NEW k \in LinkRecord, Proper(l), SaysHow(k),
           l.reader = "frames", k.up = l.up,
           \/ k.reader = "ending" /\ k.worker = l.worker
           \/ k.reader = "top" /\ l.left = 0 /\ Kind[l.gen] # "broken" /\ k.worker = l.worker
           \/ /\ k.reader = "top" /\ l.left = 0 /\ Kind[l.gen] # "broken" /\ l.worker # "run"
              /\ k.worker = "run" /\ k.cur = l.gen /\ ~k.cancel,
           k.worker # "run" => k.cur = l.cur,
           k.hung = l.hung, k.shut = l.shut, k.in_flight <=> k.worker = "run",
           NEW v, NEW w, UpAccounted(l, v),
           \A r \in Req : w[r] = v[r] \/ (v[r] = "none" /\ k.worker # "run" /\ r = l.gen),
           k.worker # "run" => w[l.gen] # "none"
    PROVE  Follows(l, k) /\ Keeps(l, k, v, w)
<1>1. l.gen \in Req /\ ~l.shut /\ l.worker # "run"
  BY DEF Proper, OneAtATime
<1>2. \A i \in 1 .. Len(k.up) : ~Is(k.up, i, "GEN")
  BY DEF Proper, OneAtATime
<1>3. OneAtATime(k)
  BY <1>1, <1>2 DEF Proper, OneAtATime
<1>4. l.left \in Nat /\ Len(l.up) \in Nat
  <2>1. l.left \in Nat /\ l.up \in Seq(UpLine)
    BY DEF Proper, LinkRecord
  <2> QED BY <2>1
<1>5. k.reader = "top" => \A i \in 1 .. Len(k.up) : ~Is(k.up, i, "F")
  BY <1>4 DEF Proper, FramesInLine
<1>6. FramesInLine(k)
  BY <1>5 DEF FramesInLine
<1>7. \A r \in Req : Waits(k, r) => Waits(l, r)
  BY <1>1, <1>2 DEF Waits
<1>8. NoNewX(l, k)
  BY DEF NoNewX
<1>9. ASSUME NEW r \in Req, NEW u \in Nat \ {0}, FramesToCome(l, r, u)
      PROVE  FramesToCome(k, r, u)
  <2>1. l.gen = r /\ (Kind[r] # "broken" => Len(l.up) + u = l.left)
    BY <1>9 DEF FramesToCome
  <2>2. k.reader # "top"
    BY <2>1, <1>4
  <2>3. k.reader # "frames"
    OBVIOUS
  <2> QED BY <2>2, <2>3 DEF FramesToCome
<1>10. ~(k.worker = "run" /\ k.cancel)
  BY <1>1
<1>11. \A r \in Req : Waits(k, r) => w[r] = "none"
  <2> SUFFICES ASSUME NEW r \in Req, Waits(k, r) PROVE w[r] = "none"
    OBVIOUS
  <2>1. v[r] = "none" /\ k.worker = "run"
    BY <1>2, <1>7 DEF UpAccounted, Waits
  <2> QED BY <2>1
<1>12. ASSUME NEW i \in 1 .. Len(k.up), Is(k.up, i, "X")
       PROVE  k.hung \/ w[k.up[i].req] # "none" \/ Before(k, i, k.up[i].req)
  <2> DEFINE r == l.up[i].req
  <2>1. r \in Req /\ i \in 1 .. Len(l.up)
    BY LinesKnown
  <2>2. l.hung \/ v[r] # "none" \/ Before(l, i, r)
    BY <1>12 DEF UpAccounted
  <2>3. v[r] # "none" => w[r] # "none"
    BY <2>1
  <2>4. Before(l, i, r) => r = l.gen
    BY <1>1, <1>2, <2>1 DEF Before
  <2>5. r = l.gen => w[r] # "none" \/ Before(k, i, r)
    BY <1>1 DEF Before
  <2> QED BY <2>2, <2>3, <2>4, <2>5
<1>13. \A r \in Req : Waits(l, r) => Waits(k, r) \/ w[r] # "none"
  BY <1>1, <1>2 DEF Waits
<1> QED BY <1>3, <1>6, <1>7, <1>8, <1>9, <1>10, <1>11, <1>12, <1>13
        DEF Follows, Proper, Keeps, UpAccounted

(* The reader leaves its loop when the client has gone, and cancels.        *)
LEMMA ReaderEnds ==
    ASSUME NEW l, NEW k \in LinkRecord, Proper(l), SaysHow(k),
           k.up = l.up, k.reader = "ending",
           \/ l.reader = "top" /\ l.hung /\ k.cancel = l.cancel
           \/ l.reader = "ending" /\ k.cancel,
           k.hung = l.hung, k.shut = l.shut, k.cur = l.cur, k.worker = l.worker,
           k.in_flight = l.in_flight,
           NEW v, UpAccounted(l, v)
    PROVE  Follows(l, k) /\ Keeps(l, k, v, v)
<1>1. OneAtATime(k)
  BY DEF Proper, OneAtATime
<1>2. FramesInLine(k) /\ NoNewX(l, k)
  BY DEF FramesInLine, NoNewX
<1>3. \A r \in Req : Waits(k, r) => Waits(l, r)
  BY DEF Waits
<1>4. \A r \in Req, u \in Nat \ {0} : FramesToCome(k, r, u)
  BY DEF FramesToCome
<1>5. k.worker = "run" => k.hung
  BY <1>1 DEF OneAtATime
<1>6. \A r \in Req : Waits(l, r) => Waits(k, r)
  BY DEF Waits
<1>7. UpAccounted(k, v)
  BY <1>3 DEF UpAccounted, Before
<1> QED BY <1>1, <1>2, <1>3, <1>4, <1>5, <1>6, <1>7 DEF Follows, Proper, Keeps

(* Either end of a connection closes.                                       *)
LEMMA ClosedIs ==
    ASSUME LinkAssumption
    PROVE
    /\ Closed \in LinkRecord /\ Opened \in LinkRecord
    /\ Closed.up = <<>> /\ Closed.dn = <<>> /\ Closed.hung /\ Closed.shut
    /\ Closed.reader = "gone" /\ ~Closed.in_flight /\ Closed.worker = "none" /\ ~Closed.cancel
    /\ Opened.up = <<>> /\ Opened.dn = <<>> /\ ~Opened.hung /\ ~Opened.shut
    /\ Opened.reader = "top" /\ ~Opened.in_flight /\ Opened.worker = "none" /\ ~Opened.cancel
<1>1. <<>> \in Seq(UpLine) /\ <<>> \in Seq(DnLine) /\ 0 \in 0 .. NReq
  BY DEF LinkAssumption
<1>2. Closed \in LinkRecord
  BY <1>1 DEF Closed, LinkRecord
<1>3. /\ Closed.up = <<>> /\ Closed.dn = <<>> /\ Closed.hung /\ Closed.shut
      /\ Closed.reader = "gone" /\ ~Closed.in_flight /\ Closed.worker = "none" /\ ~Closed.cancel
  BY DEF Closed
<1>4. Opened \in LinkRecord
  BY <1>2 DEF Opened, LinkRecord
<1>5. /\ Opened.up = <<>> /\ Opened.dn = <<>> /\ ~Opened.hung /\ ~Opened.shut
      /\ Opened.reader = "top" /\ ~Opened.in_flight /\ Opened.worker = "none" /\ ~Opened.cancel
  BY <1>2, <1>3 DEF Opened, LinkRecord
<1> QED BY <1>2, <1>3, <1>4, <1>5

LEMMA NoLines ==
    ASSUME NEW k \in LinkRecord, k.up = <<>>, k.dn = <<>> \/ SaysHow(k), k.worker = "none",
           ~k.in_flight, k.reader = (IF k.shut THEN "gone" ELSE "top")
    PROVE  Proper(k) /\ (\A r \in Req : ~Waits(k, r)) /\ CancelsAreAsked(k)
<1>1. OneAtATime(k)
  BY DEF OneAtATime
<1>2. FramesInLine(k)
  BY DEF FramesInLine
<1>3. SaysHow(k)
  <2>1. CASE k.dn = <<>>
    BY <2>1 DEF SaysHow
  <2> QED BY <2>1
<1>4. \A r \in Req : ~Waits(k, r)
  BY DEF Waits
<1>5. CancelsAreAsked(k)
  BY DEF CancelsAreAsked
<1> QED BY <1>1, <1>2, <1>3, <1>4, <1>5 DEF Proper

LEMMA ShutIs ==
    ASSUME LinkAssumption, NEW l, Proper(l), NEW k \in Shut(l)
    PROVE  /\ Follows(l, k) /\ k.shut /\ k.up = <<>> /\ k.worker = "none" /\ k.reader = "gone"
           /\ \A v : Keeps(l, k, v, v)
           /\ k.dn \in Prefixes(l.dn)
           /\ \A v, p : DnAccounted(l, v, p) => DnAccounted(k, v, p)
<1> DEFINE Rest == /\ Follows(l, k) /\ k.shut /\ k.up = <<>> /\ k.worker = "none"
                   /\ k.reader = "gone" /\ k.dn \in Prefixes(l.dn)
<1>1. ASSUME l.shut PROVE Rest
  <2>1. k = l
    BY <1>1 DEF Shut
  <2>2. l.up = <<>> /\ l.worker = "none" /\ l.reader = "gone" /\ l \in LinkRecord
    BY <1>1 DEF Proper, OneAtATime
  <2>3. Follows(l, l)
    BY <1>1, <2>2 DEF Follows, NoNewX
  <2>4. l.dn = SubSeq(l.dn, 1, Len(l.dn)) /\ Len(l.dn) \in 0 .. Len(l.dn)
    <3>1. l.dn \in Seq(DnLine)
      BY <2>2 DEF LinkRecord
    <3> QED BY <3>1
  <2>5. l.dn \in Prefixes(l.dn)
    BY <2>4 DEF Prefixes
  <2> QED BY <1>1, <2>1, <2>2, <2>3, <2>5
<1>2. ASSUME ~l.shut /\ l.hung PROVE Rest
  <2>1. k = Closed
    BY <1>2 DEF Shut
  <2>2. Proper(k) /\ \A r \in Req : ~Waits(k, r)
    BY <2>1, ClosedIs, NoLines
  <2>3. NoNewX(l, k)
    BY <2>1, ClosedIs DEF NoNewX
  <2>4. <<>> \in Prefixes(l.dn)
    <3>1. l.dn \in Seq(DnLine)
      BY DEF Proper, LinkRecord
    <3>2. Len(l.dn) \in Nat /\ SubSeq(l.dn, 1, 0) = <<>>
      BY <3>1
    <3> QED BY <3>2 DEF Prefixes
  <2> QED BY <1>2, <2>1, <2>2, <2>3, <2>4, ClosedIs DEF Follows
<1>3. ASSUME ~l.shut /\ ~l.hung PROVE Rest
  <2>1. PICK d \in {l.dn} \cup Prefixes(l.dn) : k = [Closed EXCEPT !.hung = FALSE, !.dn = d]
    BY <1>3 DEF Shut
  <2>2. l.dn \in Seq(DnLine) /\ l.dn \in Prefixes(l.dn)
    <3>1. l.dn \in Seq(DnLine)
      BY DEF Proper, LinkRecord
    <3>2. l.dn = SubSeq(l.dn, 1, Len(l.dn)) /\ Len(l.dn) \in 0 .. Len(l.dn)
      BY <3>1
    <3> QED BY <3>1, <3>2 DEF Prefixes
  <2>3. /\ d \in Seq(DnLine) /\ Len(d) \in Nat /\ Len(d) <= Len(l.dn) /\ Len(l.dn) \in Nat
        /\ \A i \in 1 .. Len(d) : d[i] = l.dn[i]
    BY <2>2, PrefixIs
  <2>4. /\ k \in LinkRecord /\ k.dn = d /\ k.up = <<>> /\ ~k.hung /\ k.shut /\ ~k.in_flight
        /\ k.worker = "none" /\ k.reader = "gone"
    BY <2>1, <2>3, ClosedIs DEF LinkRecord
  <2>5. SaysHow(k)
    <3>1. \A i \in 1 .. Len(l.dn) : Is(l.dn, i, "D") => l.dn[i].why # ""
      BY DEF SaysHow, Proper
    <3>2. \A i \in 1 .. Len(d) : Is(d, i, "D") => d[i].why # ""
      <4> TAKE i \in 1 .. Len(d)
      <4>1. i \in 1 .. Len(l.dn) /\ d[i] = l.dn[i]
        BY <2>3
      <4> QED BY <4>1, <3>1 DEF Is
    <3> QED BY <3>2, <2>4 DEF SaysHow
  <2>6. Proper(k) /\ \A r \in Req : ~Waits(k, r)
    BY <2>4, <2>5, NoLines
  <2>7. NoNewX(l, k)
    BY <2>4 DEF NoNewX
  <2> QED BY <1>3, <2>2, <2>4, <2>6, <2>7 DEF Follows
<1>4. Rest
  BY <1>1, <1>2, <1>3
<1>5. k.shut /\ k.up = <<>> /\ k.reader # "frames" /\ k.worker # "run"
  BY <1>4
<1> HIDE DEF Rest
<1>6. \A v : Keeps(l, k, v, v)
  <2>1. \A i \in 1 .. Len(k.up) : FALSE
    BY <1>5
  <2>2. \A r \in Req : ~Waits(k, r)
    BY <1>5, <2>1 DEF Waits
  <2> QED BY <1>5, <2>1, <2>2 DEF Keeps, UpAccounted
<1>7. ASSUME NEW v, NEW p, DnAccounted(l, v, p) PROVE DnAccounted(k, v, p)
  <2>1. l.dn \in Seq(DnLine)
    BY DEF Proper, LinkRecord
  <2>2. k.dn \in Prefixes(l.dn) /\ k.worker = "none"
    BY <1>4 DEF Rest
  <2>3. /\ Len(k.dn) \in Nat /\ Len(k.dn) <= Len(l.dn) /\ Len(l.dn) \in Nat
        /\ \A i \in 1 .. Len(k.dn) : k.dn[i] = l.dn[i]
    BY <2>1, <2>2, PrefixIs
  <2>4. \A i \in 1 .. Len(l.dn) :
           IF Is(l.dn, i, "D") THEN v[l.dn[i].req] # "none" ELSE p[l.dn[i].req] > 0
    BY <1>7 DEF DnAccounted
  <2>5. \A i \in 1 .. Len(k.dn) : i \in 1 .. Len(l.dn)
    BY <2>3
  <2> QED BY <2>2, <2>3, <2>4, <2>5 DEF DnAccounted, Is
<1> QED BY <1>4, <1>6, <1>7 DEF Rest

-----------------------------------------------------------------------------
(* The steps of the reader.                                                 *)

LEMMA TookFields ==
    ASSUME NEW l, Proper(l), l.up # <<>>
    PROVE  LET k == [l EXCEPT !.up = Tail(@)]
           IN  /\ k \in LinkRecord /\ SaysHow(k) /\ k.dn = l.dn /\ k.reader = l.reader
               /\ k.up = Tail(l.up) /\ k.gen = l.gen /\ k.left = l.left
               /\ k.hung = l.hung /\ k.shut = l.shut /\ k.cur = l.cur /\ k.cancel = l.cancel
               /\ k.worker = l.worker /\ k.in_flight = l.in_flight /\ k.reply = l.reply
<1> DEFINE k == [l EXCEPT !.up = Tail(@)]
<1>1. l \in LinkRecord /\ SaysHow(l) /\ Tail(l.up) \in Seq(UpLine)
  BY TookIs DEF Proper
<1>2. /\ k \in LinkRecord /\ k.dn = l.dn /\ k.reader = l.reader
      /\ k.up = Tail(l.up) /\ k.gen = l.gen /\ k.left = l.left
      /\ k.hung = l.hung /\ k.shut = l.shut /\ k.cur = l.cur /\ k.cancel = l.cancel
      /\ k.worker = l.worker /\ k.in_flight = l.in_flight /\ k.reply = l.reply
  BY <1>1 DEF LinkRecord
<1> HIDE DEF k
<1>3. SaysHow(k)
  BY <1>1, <1>2 DEF SaysHow
<1> QED BY <1>2, <1>3 DEF k

LEMMA HandleXMoves ==
    ASSUME LinkInv, NEW c \in Conn, HandleX(c)
    PROVE  Moves(c)
<1> DEFINE old == link[c]
           took == Took(c)
           r == old.up[1].req
<1>1. /\ old \in LinkRecord /\ Proper(old) /\ UpAccounted(old, verdict)
      /\ DnAccounted(old, verdict, made)
      /\ old.reader = "top" /\ old.up # <<>> /\ Is(old.up, 1, "X")
      /\ Head(old.up) = old.up[1] /\ r \in Req
  <2>1. Proper(old) /\ old.reader = "top" /\ old.up # <<>> /\ Head(old.up).kind = "X"
    BY ReadsIs DEF HandleX, AtTop
  <2>2. Head(old.up) = old.up[1] /\ old.up[1] \in UpLine
    BY <2>1, TookIs DEF Proper
  <2> QED BY <2>1, <2>2, AccountedAt DEF Is, UpLine
<1>2. /\ took \in LinkRecord /\ SaysHow(took) /\ took.dn = old.dn /\ took.reader = old.reader
      /\ took.up = Tail(old.up) /\ took.gen = old.gen /\ took.left = old.left
      /\ took.hung = old.hung /\ took.shut = old.shut /\ took.cur = old.cur
      /\ took.cancel = old.cancel /\ took.worker = old.worker
      /\ took.in_flight = old.in_flight /\ took.reply = old.reply
  BY <1>1, TookFields DEF Took
<1> HIDE DEF took
<1>3. UNCHANGED <<verdict, made>>
  BY DEF HandleX, history
<1>4. /\ old.worker = "finish" => verdict[old.cur] = old.reply
      /\ old.worker = "tail" => verdict[old.cur] # "none"
  BY <1>1 DEF DnAccounted
<1>5. CASE old.cur = r /\ Set(c, [took EXCEPT !.cancel = TRUE])
  <2> DEFINE k == [took EXCEPT !.cancel = TRUE]
  <2>1. /\ k \in LinkRecord /\ k.dn = old.dn /\ k.reader = old.reader
        /\ k.up = Tail(old.up) /\ k.gen = old.gen /\ k.left = old.left
        /\ k.hung = old.hung /\ k.shut = old.shut /\ k.cur = old.cur
        /\ k.worker = old.worker /\ k.in_flight = old.in_flight /\ k.reply = old.reply
    BY <1>2 DEF LinkRecord
  <2>2. link' = [link EXCEPT ![c] = k]
    BY <1>5 DEF Set
  <2> HIDE DEF k
  <2>3. SaysHow(k)
    BY <1>2, <2>1 DEF SaysHow
  <2>4. Follows(old, k) /\ Keeps(old, k, verdict, verdict)
    BY <1>1, <1>5, <2>1, <2>3, XTaken
  <2>5. DnAccounted(k, verdict, made)
    BY <1>1, <1>4, <2>1, DnSame, NothingJudged
  <2> QED BY <1>3, <2>2, <2>4, <2>5 DEF Moves
<1>6. CASE ~(old.in_flight /\ old.cur = r) /\ Set(c, Down(took, Done(r, "cancel")))
  <2> DEFINE m == Done(r, "cancel")
             k == Down(took, m)
  <2>1. m \in DnLine /\ m.why # "" /\ m.kind = "D" /\ m.req = r
    <3>1. "cancel" \in Judged
      BY DEF Judged
    <3>2. r \in Req
      BY <1>1
    <3> HIDE DEF k
    <3> QED BY <3>1, <3>2, DoneIs
  <2>2. link' = [link EXCEPT ![c] = k]
    BY <1>6 DEF Set
  <2> HIDE DEF m
  <2>3. /\ k \in LinkRecord /\ SaysHow(k)
        /\ k.dn = (IF took.hung THEN took.dn ELSE Append(took.dn, m))
        /\ k.up = took.up /\ k.reader = took.reader /\ k.gen = took.gen /\ k.left = took.left
        /\ k.hung = took.hung /\ k.shut = took.shut /\ k.cur = took.cur
        /\ k.cancel = took.cancel /\ k.worker = took.worker /\ k.in_flight = took.in_flight
        /\ k.reply = took.reply
    BY <1>2, <2>1, DownFields
  <2> HIDE DEF k
  <2>4. Follows(old, k) /\ Keeps(old, k, verdict, verdict)
    BY <1>1, <1>2, <2>3, XTaken
  <2>5. old.hung \/ verdict[r] # "none"
    <3>1. 1 \in 1 .. Len(old.up)
      BY <1>1, TookIs
    <3>2. old.hung \/ verdict[r] # "none" \/ Before(old, 1, r)
      BY <1>1, <3>1 DEF UpAccounted
    <3>3. old.worker = "run" => old.in_flight
      BY <1>1 DEF Proper, OneAtATime
    <3> QED BY <1>1, <1>6, <3>2, <3>3 DEF Before
  <2>6. DnAccounted(k, verdict, made)
    <3>1. k.dn = IF old.hung THEN old.dn ELSE Append(old.dn, m)
      BY <1>2, <2>3
    <3>2. old.hung \/ IF m.kind = "D" THEN verdict[m.req] # "none" ELSE made[m.req] > 0
      BY <2>1, <2>5
    <3>3. /\ k.worker = "finish" => verdict[k.cur] = k.reply
          /\ k.worker = "tail" => verdict[k.cur] # "none"
      BY <1>2, <1>4, <2>3
    <3> QED BY <1>1, <2>1, <3>1, <3>2, <3>3, DnGrows, NothingJudged
  <2> QED BY <1>3, <2>2, <2>4, <2>6 DEF Moves
<1>7. CASE took.hung /\ Set(c, [took EXCEPT !.reader = "ending"])
  <2> DEFINE k == [took EXCEPT !.reader = "ending"]
  <2>1. /\ k \in LinkRecord /\ SaysHow(k) /\ k.reader = "ending" /\ k.dn = took.dn
        /\ k.up = took.up /\ k.gen = took.gen /\ k.left = took.left
        /\ k.hung = took.hung /\ k.shut = took.shut /\ k.cur = took.cur
        /\ k.cancel = took.cancel /\ k.worker = took.worker /\ k.in_flight = took.in_flight
        /\ k.reply = took.reply
    BY <1>2, ReaderAt
  <2>2. link' = [link EXCEPT ![c] = k]
    BY <1>7 DEF Set
  <2> HIDE DEF k
  <2>3. Follows(old, k) /\ Keeps(old, k, verdict, verdict)
    BY <1>1, <1>2, <1>7, <2>1, XTaken
  <2>4. DnAccounted(k, verdict, made)
    BY <1>1, <1>2, <1>4, <2>1, DnSame, NothingJudged
  <2> QED BY <1>3, <2>2, <2>3, <2>4 DEF Moves
<1> QED BY <1>1, <1>5, <1>6, <1>7 DEF HandleX, Answer, took

LEMMA HandleGenMoves ==
    ASSUME LinkInv, NEW c \in Conn, HandleGen(c)
    PROVE  Moves(c)
<1> DEFINE old == link[c]
           took == Took(c)
           r == old.up[1].req
           k == [took EXCEPT !.reader = "frames", !.gen = r, !.left = Announced(r)]
<1>1. /\ old \in LinkRecord /\ Proper(old) /\ UpAccounted(old, verdict)
      /\ DnAccounted(old, verdict, made)
      /\ old.reader = "top" /\ old.up # <<>> /\ Is(old.up, 1, "GEN")
      /\ Head(old.up) = old.up[1] /\ r \in Req
  <2>1. Proper(old) /\ old.reader = "top" /\ old.up # <<>> /\ Head(old.up).kind = "GEN"
    BY ReadsIs DEF HandleGen, AtTop
  <2>2. Head(old.up) = old.up[1] /\ old.up[1] \in UpLine
    BY <2>1, TookIs DEF Proper
  <2> QED BY <2>1, <2>2, AccountedAt DEF Is, UpLine
<1>2. /\ took \in LinkRecord /\ SaysHow(took) /\ took.dn = old.dn
      /\ took.up = Tail(old.up) /\ took.hung = old.hung /\ took.shut = old.shut
      /\ took.cur = old.cur /\ took.cancel = old.cancel /\ took.worker = old.worker
      /\ took.in_flight = old.in_flight /\ took.reply = old.reply
  BY <1>1, TookFields DEF Took
<1>3. link' = [link EXCEPT ![c] = k] /\ UNCHANGED <<verdict, made>>
  BY <1>1 DEF HandleGen, Set, history
<1> HIDE DEF took
<1>4. Announced(r) \in Nat /\ r \in 0 .. NReq
  BY <1>1, LinkFacts DEF Announced, Req
<1>5. /\ k \in LinkRecord /\ k.dn = old.dn /\ k.reader = "frames"
      /\ k.up = Tail(old.up) /\ k.gen = r /\ k.left = Announced(r)
      /\ k.hung = old.hung /\ k.shut = old.shut /\ k.cur = old.cur /\ k.cancel = old.cancel
      /\ k.worker = old.worker /\ k.in_flight = old.in_flight /\ k.reply = old.reply
  BY <1>2, <1>4 DEF LinkRecord
<1> HIDE DEF k
<1>6. SaysHow(k)
  BY <1>2, <1>5 DEF SaysHow
<1>7. LinkAssumption
  BY DEF LinkInv
<1>8. Follows(old, k) /\ Keeps(old, k, verdict, verdict)
  BY <1>1, <1>5, <1>6, <1>7, GenTaken
<1>9. DnAccounted(k, verdict, made)
  <2>1. /\ old.worker = "finish" => verdict[old.cur] = old.reply
        /\ old.worker = "tail" => verdict[old.cur] # "none"
    BY <1>1 DEF DnAccounted
  <2> QED BY <1>1, <1>5, <2>1, DnSame, NothingJudged
<1> QED BY <1>3, <1>8, <1>9 DEF Moves

LEMMA DrainFrameMoves ==
    ASSUME LinkInv, NEW c \in Conn, DrainFrame(c)
    PROVE  Moves(c)
<1> DEFINE old == link[c]
           took == Took(c)
           k == [took EXCEPT !.left = @ - 1]
<1>1. /\ old \in LinkRecord /\ Proper(old) /\ UpAccounted(old, verdict)
      /\ DnAccounted(old, verdict, made)
      /\ old.reader = "frames" /\ old.left > 0 /\ old.up # <<>>
      /\ Is(old.up, 1, "F")
  <2>1. /\ Proper(old) /\ old.reader = "frames" /\ old.left > 0 /\ old.up # <<>>
        /\ Head(old.up).kind = "F"
    BY ReadsIs DEF DrainFrame
  <2>2. Head(old.up) = old.up[1]
    BY <2>1, TookIs DEF Proper
  <2> QED BY <2>1, <2>2, AccountedAt DEF Is
<1>2. /\ took \in LinkRecord /\ SaysHow(took) /\ took.dn = old.dn /\ took.reader = old.reader
      /\ took.up = Tail(old.up) /\ took.hung = old.hung /\ took.shut = old.shut
      /\ took.gen = old.gen /\ took.left = old.left
      /\ took.cur = old.cur /\ took.cancel = old.cancel /\ took.worker = old.worker
      /\ took.in_flight = old.in_flight /\ took.reply = old.reply
  BY <1>1, TookFields DEF Took
<1>3. link' = [link EXCEPT ![c] = k] /\ UNCHANGED <<verdict, made>>
  BY DEF DrainFrame, Set, history
<1> HIDE DEF took
<1>4. took.left - 1 \in Nat
  <2>1. old.left \in Nat
    BY <1>1 DEF Proper, LinkRecord
  <2> QED BY <2>1, <1>1, <1>2
<1>5. /\ k \in LinkRecord /\ k.dn = old.dn /\ k.reader = "frames"
      /\ k.up = Tail(old.up) /\ k.gen = old.gen /\ k.left = old.left - 1
      /\ k.hung = old.hung /\ k.shut = old.shut /\ k.cur = old.cur /\ k.cancel = old.cancel
      /\ k.worker = old.worker /\ k.in_flight = old.in_flight /\ k.reply = old.reply
  BY <1>1, <1>2, <1>4 DEF LinkRecord
<1> HIDE DEF k
<1>6. SaysHow(k)
  BY <1>2, <1>5 DEF SaysHow
<1>7. LinkAssumption
  BY DEF LinkInv
<1>8. Follows(old, k) /\ Keeps(old, k, verdict, verdict)
  BY <1>1, <1>5, <1>6, <1>7, FrameTaken
<1>9. DnAccounted(k, verdict, made)
  <2>1. /\ old.worker = "finish" => verdict[old.cur] = old.reply
        /\ old.worker = "tail" => verdict[old.cur] # "none"
    BY <1>1 DEF DnAccounted
  <2> QED BY <1>1, <1>5, <2>1, DnSame, NothingJudged
<1> QED BY <1>3, <1>8, <1>9 DEF Moves

(* The reader judges the request it has read.                               *)
GenIsJudged(c) ==
    /\ link[c].gen \in Req /\ verdict'[link[c].gen] = "error"
    /\ \A r \in Req : verdict'[r] = verdict[r] \/ (verdict[r] = "none" /\ r = link[c].gen)
    /\ Later(verdict, verdict') /\ More(made, made') /\ JudgedAt(c)
    /\ link[c].worker = "finish" => verdict'[link[c].cur] = link[c].reply
    /\ link[c].worker = "tail" => verdict'[link[c].cur] # "none"

LEMMA GenJudged ==
    ASSUME LinkInv, NEW c \in Conn, link[c].reader = "frames", made' = made,
           verdict' = [verdict EXCEPT ![link[c].gen] = "error"]
    PROVE  GenIsJudged(c)
<1> DEFINE old == link[c]
<1>1. /\ old \in LinkRecord /\ Proper(old) /\ UpAccounted(old, verdict)
      /\ DnAccounted(old, verdict, made) /\ old.gen \in Req
      /\ (old.worker \in {"finish", "tail"} => old.cur \in Req)
  BY AccountedAt DEF Proper, OneAtATime
<1>2. Waits(old, old.gen)
  BY DEF Waits
<1>3. verdict[old.gen] = "none"
  BY <1>1, <1>2 DEF UpAccounted
<1>4. verdict \in [Req -> {"none"} \cup Judged]
  BY DEF LinkInv, EngineTypes
<1>5. verdict'[old.gen] = "error" /\ \A r \in Req \ {old.gen} : verdict'[r] = verdict[r]
  BY <1>1, <1>4
<1>6. \A r \in Req : verdict'[r] = verdict[r] \/ (verdict[r] = "none" /\ r = old.gen)
  BY <1>3, <1>5
<1>7. Later(verdict, verdict') /\ More(made, made')
  BY <1>6 DEF Later, More
<1>8. JudgedAt(c)
  BY <1>2, <1>6 DEF JudgedAt
<1>9. /\ old.worker = "finish" => verdict[old.cur] = old.reply /\ verdict[old.cur] # "none"
      /\ old.worker = "tail" => verdict[old.cur] # "none"
  <2>1. old.reply # "none"
    BY <1>1 DEF LinkRecord, Judged
  <2> QED BY <1>1, <2>1 DEF DnAccounted
<1>10. /\ old.worker = "finish" => verdict'[old.cur] = old.reply
       /\ old.worker = "tail" => verdict'[old.cur] # "none"
  BY <1>1, <1>7, <1>9 DEF Later
<1> QED BY <1>1, <1>5, <1>6, <1>7, <1>8, <1>10 DEF GenIsJudged

(* Its answer, after which it is at the top or leaves.                      *)
LEMMA AnswerMoves ==
    ASSUME LinkInv, NEW c \in Conn, link[c].reader = "frames", GenIsJudged(c),
           link[c].worker # "run",
           NEW l \in LinkRecord, SaysHow(l), l.up = link[c].up, l.dn = link[c].dn,
           \/ l.reader = "ending"
           \/ l.reader = "top" /\ link[c].left = 0 /\ Kind[link[c].gen] # "broken",
           l.hung = link[c].hung, l.shut = link[c].shut, l.cur = link[c].cur,
           l.worker = link[c].worker, l.in_flight = link[c].in_flight, l.reply = link[c].reply,
           Answer(c, l, Done(link[c].gen, "error"))
    PROVE  Moves(c) /\ JudgedAt(c)
<1> DEFINE old == link[c]
           m == Done(old.gen, "error")
<1>1. /\ old \in LinkRecord /\ Proper(old) /\ UpAccounted(old, verdict)
      /\ DnAccounted(old, verdict, made)
      /\ old.gen \in Req /\ (old.in_flight <=> old.worker = "run")
  BY AccountedAt DEF Proper, OneAtATime
<1>2. m \in DnLine /\ m.why # "" /\ m.kind = "D" /\ m.req = old.gen
  <2>1. "error" \in Judged
    BY DEF Judged
  <2> QED BY <1>1, <2>1, DoneIs
<1>3. /\ old.gen \in Req /\ verdict'[old.gen] = "error"
      /\ \A r \in Req : verdict'[r] = verdict[r] \/ (verdict[r] = "none" /\ r = old.gen)
      /\ Later(verdict, verdict') /\ More(made, made') /\ JudgedAt(c)
      /\ old.worker = "finish" => verdict'[old.cur] = old.reply
      /\ old.worker = "tail" => verdict'[old.cur] # "none"
  BY DEF GenIsJudged
<1> HIDE DEF m
<1>4. CASE Set(c, Down(l, m))
  <2> DEFINE k == Down(l, m)
  <2>1. /\ k \in LinkRecord /\ SaysHow(k) /\ k.up = l.up /\ k.reader = l.reader
        /\ k.dn = (IF l.hung THEN l.dn ELSE Append(l.dn, m))
        /\ k.hung = l.hung /\ k.shut = l.shut /\ k.cur = l.cur
        /\ k.worker = l.worker /\ k.in_flight = l.in_flight /\ k.reply = l.reply
    BY <1>2, DownFields
  <2>2. link' = [link EXCEPT ![c] = k]
    BY <1>4 DEF Set
  <2> HIDE DEF k
  <2>3. Follows(old, k) /\ Keeps(old, k, verdict, verdict')
    <3>1. verdict'[old.gen] # "none"
      BY <1>3
    <3>2. /\ k.up = old.up /\ k.cur = old.cur /\ k.worker = old.worker /\ k.worker # "run"
          /\ k.hung = old.hung /\ k.shut = old.shut /\ (k.in_flight <=> k.worker = "run")
          /\ \/ k.reader = "ending"
             \/ k.reader = "top" /\ old.left = 0 /\ Kind[old.gen] # "broken"
      BY <1>1, <2>1
    <3>3. \A r \in Req :
             verdict'[r] = verdict[r] \/ (verdict[r] = "none" /\ k.worker # "run" /\ r = old.gen)
      BY <1>3, <3>2
    <3> QED BY <1>1, <2>1, <3>1, <3>2, <3>3, FramesOver
  <2>4. DnAccounted(k, verdict', made')
    <3>1. k.dn = IF old.hung THEN old.dn ELSE Append(old.dn, m)
      BY <2>1
    <3>2. old.hung \/ IF m.kind = "D" THEN verdict'[m.req] # "none" ELSE made'[m.req] > 0
      BY <1>2, <1>3
    <3>3. /\ k.worker = "finish" => verdict'[k.cur] = k.reply
          /\ k.worker = "tail" => verdict'[k.cur] # "none"
      BY <1>3, <2>1
    <3> QED BY <1>1, <1>2, <1>3, <3>1, <3>2, <3>3, DnGrows
  <2>5. Moves(c)
    BY <2>2, <2>3, <2>4 DEF Moves
  <2> QED BY <1>3, <2>5
<1>5. CASE Set(c, [l EXCEPT !.reader = "ending"])
  <2> DEFINE k == [l EXCEPT !.reader = "ending"]
  <2>1. /\ k \in LinkRecord /\ SaysHow(k) /\ k.up = l.up /\ k.reader = "ending"
        /\ k.dn = l.dn /\ k.hung = l.hung /\ k.shut = l.shut /\ k.cur = l.cur
        /\ k.worker = l.worker /\ k.in_flight = l.in_flight /\ k.reply = l.reply
    BY ReaderAt
  <2>2. link' = [link EXCEPT ![c] = k]
    BY <1>5 DEF Set
  <2> HIDE DEF k
  <2>3. Follows(old, k) /\ Keeps(old, k, verdict, verdict')
    <3>1. verdict'[old.gen] # "none"
      BY <1>3
    <3>2. /\ k.up = old.up /\ k.cur = old.cur /\ k.worker = old.worker /\ k.worker # "run"
          /\ k.hung = old.hung /\ k.shut = old.shut /\ (k.in_flight <=> k.worker = "run")
          /\ \/ k.reader = "ending"
             \/ k.reader = "top" /\ old.left = 0 /\ Kind[old.gen] # "broken"
      BY <1>1, <2>1
    <3>3. \A r \in Req :
             verdict'[r] = verdict[r] \/ (verdict[r] = "none" /\ k.worker # "run" /\ r = old.gen)
      BY <1>3, <3>2
    <3> QED BY <1>1, <2>1, <3>1, <3>2, <3>3, FramesOver
  <2>4. DnAccounted(k, verdict', made')
    <3>1. /\ k.worker = "finish" => verdict'[k.cur] = k.reply
          /\ k.worker = "tail" => verdict'[k.cur] # "none"
      BY <1>3, <2>1
    <3>2. k.dn = old.dn
      BY <2>1
    <3> QED BY <1>1, <1>3, <3>1, <3>2, DnSame
  <2>5. Moves(c)
    BY <2>2, <2>3, <2>4 DEF Moves
  <2> QED BY <1>3, <2>5
<1> QED BY <1>4, <1>5 DEF Answer, m

LEMMA FrameReadFailsMoves ==
    ASSUME LinkInv, NEW c \in Conn, FrameReadFails(c)
    PROVE  Moves(c) /\ JudgedAt(c)
<1> DEFINE old == link[c]
           m == Done(old.gen, "error")
           down == Down(old, m)
           k == [down EXCEPT !.reader = "ending"]
<1>1. /\ old \in LinkRecord /\ Proper(old) /\ UpAccounted(old, verdict)
      /\ DnAccounted(old, verdict, made)
      /\ old.reader = "frames" /\ old.gen \in Req /\ old.worker # "run"
      /\ (old.in_flight <=> old.worker = "run")
  BY AccountedAt DEF FrameReadFails, Proper, OneAtATime
<1>2. m \in DnLine /\ m.why # "" /\ m.kind = "D" /\ m.req = old.gen
  <2>1. "error" \in Judged
    BY DEF Judged
  <2> QED BY <1>1, <2>1, DoneIs
<1>3. made' = made /\ verdict' = [verdict EXCEPT ![old.gen] = "error"]
  BY DEF FrameReadFails
<1>4. /\ old.gen \in Req /\ verdict'[old.gen] = "error"
      /\ \A r \in Req : verdict'[r] = verdict[r] \/ (verdict[r] = "none" /\ r = old.gen)
      /\ Later(verdict, verdict') /\ More(made, made') /\ JudgedAt(c)
      /\ old.worker = "finish" => verdict'[old.cur] = old.reply
      /\ old.worker = "tail" => verdict'[old.cur] # "none"
  <2>1. GenIsJudged(c)
    BY <1>1, <1>3, GenJudged
  <2> QED BY <2>1 DEF GenIsJudged
<1>5. link' = [link EXCEPT ![c] = k]
  BY DEF FrameReadFails, Set
<1> HIDE DEF m
<1>6. /\ down \in LinkRecord /\ SaysHow(down) /\ down.up = old.up
      /\ down.dn = (IF old.hung THEN old.dn ELSE Append(old.dn, m))
      /\ down.hung = old.hung /\ down.shut = old.shut /\ down.cur = old.cur
      /\ down.worker = old.worker /\ down.in_flight = old.in_flight /\ down.reply = old.reply
  BY <1>1, <1>2, DownFields DEF Proper
<1> HIDE DEF down
<1>7. /\ k \in LinkRecord /\ SaysHow(k) /\ k.up = down.up /\ k.reader = "ending"
      /\ k.dn = down.dn /\ k.hung = down.hung /\ k.shut = down.shut /\ k.cur = down.cur
      /\ k.worker = down.worker /\ k.in_flight = down.in_flight /\ k.reply = down.reply
  BY <1>6, ReaderAt
<1> HIDE DEF k
<1>8. Follows(old, k) /\ Keeps(old, k, verdict, verdict')
  <2>1. verdict'[old.gen] # "none"
    BY <1>4
  <2> QED BY <1>1, <1>4, <1>6, <1>7, <2>1, FramesOver
<1>9. DnAccounted(k, verdict', made')
  <2>1. k.dn = IF old.hung THEN old.dn ELSE Append(old.dn, m)
    BY <1>6, <1>7
  <2>2. old.hung \/ IF m.kind = "D" THEN verdict'[m.req] # "none" ELSE made'[m.req] > 0
    BY <1>2, <1>4
  <2>3. /\ k.worker = "finish" => verdict'[k.cur] = k.reply
        /\ k.worker = "tail" => verdict'[k.cur] # "none"
    BY <1>4, <1>6, <1>7
  <2> QED BY <1>1, <1>2, <1>4, <2>1, <2>2, <2>3, DnGrows
<1>10. Moves(c)
  BY <1>5, <1>8, <1>9 DEF Moves
<1> QED BY <1>4, <1>10

LEMMA RejectMoves ==
    ASSUME LinkInv, NEW c \in Conn, Reject(c)
    PROVE  Moves(c) /\ JudgedAt(c)
<1> DEFINE old == link[c]
           at == IF Undrainable(old.gen) THEN "ending" ELSE "top"
           l == [old EXCEPT !.reader = at]
<1>1. /\ old \in LinkRecord /\ Proper(old) /\ old.reader = "frames" /\ old.left = 0
      /\ old.gen \in Req /\ old.worker # "run"
  BY ReadsIs DEF Reject, Proper, OneAtATime
<1>2. at \in {"top", "ending"} /\ (at = "top" => Kind[old.gen] # "broken")
  BY DEF Undrainable, Announced
<1> HIDE DEF at
<1>3. /\ l \in LinkRecord /\ SaysHow(l) /\ l.up = old.up /\ l.reader = at /\ l.dn = old.dn
      /\ l.hung = old.hung /\ l.shut = old.shut /\ l.cur = old.cur
      /\ l.worker = old.worker /\ l.in_flight = old.in_flight /\ l.reply = old.reply
  <2>1. old \in LinkRecord /\ SaysHow(old) /\ at \in {"top", "ending"}
    BY <1>1, <1>2 DEF Proper
  <2> HIDE DEF old
  <2> QED BY <2>1, ReaderAt
<1>4. /\ Answer(c, l, Done(old.gen, "error")) /\ made' = made
      /\ verdict' = [verdict EXCEPT ![old.gen] = "error"]
  BY DEF Reject, at
<1> HIDE DEF l
<1>5. l.reader = "ending" \/ (l.reader = "top" /\ old.left = 0 /\ Kind[old.gen] # "broken")
  BY <1>1, <1>2, <1>3
<1>6. GenIsJudged(c)
  BY <1>1, <1>4, GenJudged
<1> QED BY <1>1, <1>3, <1>4, <1>5, <1>6, AnswerMoves

LEMMA DispatchMoves ==
    ASSUME LinkInv, NEW c \in Conn, Dispatch(c)
    PROVE  Moves(c) /\ JudgedAt(c)
<1> DEFINE old == link[c]
           k == [old EXCEPT !.reader = "top", !.cancel = FALSE, !.cur = old.gen,
                            !.in_flight = TRUE, !.worker = "run"]
<1>1. /\ old \in LinkRecord /\ Proper(old) /\ UpAccounted(old, verdict)
      /\ DnAccounted(old, verdict, made)
      /\ old.reader = "frames" /\ old.left = 0 /\ old.gen \in Req
      /\ Kind[old.gen] = "good" /\ old.worker # "run" /\ ~old.in_flight
  BY AccountedAt DEF Dispatch, Proper, OneAtATime, Rejected
<1>2. link' = [link EXCEPT ![c] = k] /\ UNCHANGED <<verdict, made>>
  BY <1>1 DEF Dispatch, Set
<1>3. old.gen \in 0 .. NReq
  BY <1>1 DEF LinkRecord
<1>4. /\ k \in LinkRecord /\ k.dn = old.dn /\ k.reader = "top" /\ k.up = old.up
      /\ k.cur = old.gen /\ k.in_flight /\ k.worker = "run" /\ ~k.cancel
      /\ k.hung = old.hung /\ k.shut = old.shut
  BY <1>1, <1>3 DEF LinkRecord
<1> HIDE DEF k
<1>5. SaysHow(k)
  BY <1>1, <1>4 DEF Proper, SaysHow
<1>6. Follows(old, k) /\ Keeps(old, k, verdict, verdict)
  BY <1>1, <1>4, <1>5, FramesOver
<1>7. DnAccounted(k, verdict, made)
  BY <1>1, <1>4, DnSame, NothingJudged
<1>8. Moves(c)
  BY <1>2, <1>6, <1>7 DEF Moves
<1> QED BY <1>2, <1>8, NothingJudged

LEMMA ReadEndMoves ==
    ASSUME LinkInv, NEW c \in Conn, ReadEnd(c)
    PROVE  Moves(c)
<1> DEFINE old == link[c]
           k == [old EXCEPT !.reader = "ending"]
<1>1. /\ old \in LinkRecord /\ Proper(old) /\ UpAccounted(old, verdict)
      /\ DnAccounted(old, verdict, made) /\ old.reader = "top" /\ old.hung
  BY AccountedAt DEF ReadEnd
<1>2. /\ k \in LinkRecord /\ SaysHow(k) /\ k.up = old.up /\ k.reader = "ending"
      /\ k.hung = old.hung /\ k.shut = old.shut /\ k.cur = old.cur /\ k.cancel = old.cancel
      /\ k.worker = old.worker /\ k.in_flight = old.in_flight /\ k.dn = old.dn
      /\ k.reply = old.reply
  BY <1>1, ReaderAt DEF Proper
<1>3. link' = [link EXCEPT ![c] = k] /\ UNCHANGED <<verdict, made>>
  BY DEF ReadEnd, Set, history
<1> HIDE DEF k
<1>4. Follows(old, k) /\ Keeps(old, k, verdict, verdict)
  BY <1>1, <1>2, ReaderEnds
<1>5. DnAccounted(k, verdict, made)
  BY <1>1, <1>2 DEF DnAccounted
<1> QED BY <1>3, <1>4, <1>5 DEF Moves

LEMMA DisconnectMoves ==
    ASSUME LinkInv, NEW c \in Conn, Disconnect(c)
    PROVE  Moves(c)
<1> DEFINE old == link[c]
           k == [old EXCEPT !.cancel = TRUE]
<1>1. /\ old \in LinkRecord /\ Proper(old) /\ UpAccounted(old, verdict)
      /\ DnAccounted(old, verdict, made) /\ old.reader = "ending"
  BY AccountedAt DEF Disconnect
<1>2. /\ k \in LinkRecord /\ k.up = old.up /\ k.reader = "ending" /\ k.cancel /\ k.dn = old.dn
      /\ k.hung = old.hung /\ k.shut = old.shut /\ k.cur = old.cur /\ k.reply = old.reply
      /\ k.worker = old.worker /\ k.in_flight = old.in_flight
  BY <1>1 DEF LinkRecord
<1>3. link' = [link EXCEPT ![c] = k] /\ UNCHANGED <<verdict, made>>
  BY DEF Disconnect, Set, history
<1> HIDE DEF k
<1>4. SaysHow(k)
  BY <1>1, <1>2 DEF Proper, SaysHow
<1>5. Follows(old, k) /\ Keeps(old, k, verdict, verdict)
  BY <1>1, <1>2, <1>4, ReaderEnds
<1>6. DnAccounted(k, verdict, made)
  BY <1>1, <1>2 DEF DnAccounted
<1> QED BY <1>3, <1>5, <1>6 DEF Moves

LEMMA CloseMoves ==
    ASSUME LinkInv, NEW c \in Conn, Close(c)
    PROVE  Moves(c)
<1>1. PICK k \in Shut(link[c]) : link' = [link EXCEPT ![c] = k]
  BY DEF Close, Set
<1>2. LinkAssumption /\ Proper(link[c]) /\ DnAccounted(link[c], verdict, made)
  BY DEF LinkInv
<1>3. /\ Follows(link[c], k) /\ Keeps(link[c], k, verdict, verdict)
      /\ DnAccounted(k, verdict, made)
  BY <1>2, ShutIs
<1>4. UNCHANGED <<verdict, made>>
  BY DEF Close, history
<1> QED BY <1>1, <1>3, <1>4 DEF Moves

LEMMA ReaderInv == ASSUME LinkInv, NEW c \in Conn, Reader(c) PROVE LinkInv'
<1>1. UNCHANGED client /\ UNCHANGED <<engine, made>>
  BY DEF Reader, HandleX, HandleGen, DrainFrame, FrameReadFails, Reject, Dispatch, ReadEnd,
         Disconnect, Close, history
<1>2. EngineTypes'
  <2>1. verdict' = verdict \/ \E r : verdict' = [verdict EXCEPT ![r] = "error"]
    BY DEF Reader, HandleX, HandleGen, DrainFrame, FrameReadFails, Reject, Dispatch, ReadEnd,
           Disconnect, Close, history
  <2>2. verdict \in [Req -> {"none"} \cup Judged]
    BY DEF LinkInv, EngineTypes
  <2>3. verdict' \in [Req -> {"none"} \cup Judged]
    BY <2>1, <2>2 DEF Judged
  <2> QED BY <1>1, <2>3 DEF LinkInv, EngineTypes, engine
<1>3. Moves(c) /\ JudgedAt(c)
  <2>1. CASE FrameReadFails(c) \/ Reject(c) \/ Dispatch(c)
    BY <2>1, FrameReadFailsMoves, RejectMoves, DispatchMoves
  <2>2. CASE \/ HandleX(c) \/ HandleGen(c) \/ DrainFrame(c) \/ ReadEnd(c)
             \/ Disconnect(c) \/ Close(c)
    <3>1. UNCHANGED <<verdict, made>>
      BY <2>2 DEF HandleX, HandleGen, DrainFrame, ReadEnd, Disconnect, Close, history
    <3>2. JudgedAt(c)
      BY <3>1, NothingJudged
    <3> QED BY <2>2, <3>2, HandleXMoves, HandleGenMoves, DrainFrameMoves, ReadEndMoves,
               DisconnectMoves, CloseMoves
  <2> QED BY <2>1, <2>2 DEF Reader
<1> QED BY <1>1, <1>2, <1>3, MoveInv

LEMMA CrashInv == ASSUME LinkInv, Crash PROVE LinkInv'
<1>1. /\ link' \in [Conn -> UNION {Shut(link[c]) : c \in Conn}]
      /\ \A c \in Conn : link'[c] \in Shut(link[c])
      /\ UNCHANGED <<client, history, verdict, made>> /\ alive' = FALSE
      /\ crashes' = crashes + 1 /\ crashes < MaxCrashes
  BY DEF Crash, history
<1>2. ASSUME NEW c \in Conn
      PROVE  /\ Follows(link[c], link'[c])
             /\ Judges(link[c], link'[c], verdict, verdict', made, made')
  <2>1. LinkAssumption /\ Proper(link[c]) /\ DnAccounted(link[c], verdict, made)
    BY DEF LinkInv
  <2>2. /\ Follows(link[c], link'[c]) /\ Keeps(link[c], link'[c], verdict, verdict)
        /\ DnAccounted(link'[c], verdict, made)
    BY <1>1, <2>1, ShutIs
  <2> QED BY <1>1, <2>2 DEF Judges
<1>3. ASSUME NEW c \in Conn, NEW k, k = link'[c]
      PROVE  /\ k \in LinkRecord /\ Proper(k) /\ CancelsAreAsked(k)'
             /\ UpAccounted(k, verdict') /\ DnAccounted(k, verdict', made')
             /\ IF c = fd THEN InUse(k)' ELSE GivenUp(k)'
  <2>1. Follows(link[c], k) /\ Judges(link[c], k, verdict, verdict', made, made')
    BY <1>2, <1>3
  <2> QED BY <1>1, <2>1, FollowsKeeps
<1>4. link' \in [Conn -> LinkRecord]
  BY <1>1, <1>3
<1>5. crashes' \in 0 .. MaxCrashes
  <2>1. crashes \in 0 .. MaxCrashes /\ MaxCrashes \in Nat
    BY LinkFacts DEF LinkInv, EngineTypes
  <2> QED BY <1>1, <2>1
<1>6. ClientTypes' /\ EngineTypes' /\ AskedOnce' /\ Fresh' /\ LinkAssumption'
  BY <1>1, <1>5 DEF LinkInv, ClientTypes, EngineTypes, AskedOnce, Fresh, Sent, client
<1>7. Unshared'
  BY <1>2 DEF LinkInv, Unshared, Follows
<1>8. ASSUME NEW c \in Conn
      PROVE  /\ Proper(link[c])' /\ CancelsAreAsked(link[c])'
             /\ UpAccounted(link[c], verdict)' /\ DnAccounted(link[c], verdict, made)'
             /\ IF c = fd' THEN InUse(link[c])' ELSE GivenUp(link[c])'
  <2>1. PICK k : k = link'[c]
    OBVIOUS
  <2>2. /\ Proper(k) /\ CancelsAreAsked(k)'
        /\ UpAccounted(k, verdict') /\ DnAccounted(k, verdict', made')
        /\ IF c = fd THEN InUse(k)' ELSE GivenUp(k)'
    BY <1>3, <2>1
  <2>3. fd' = fd
    BY <1>1 DEF client
  <2> QED BY <2>1, <2>2, <2>3 DEF CancelsAreAsked, InUse, GivenUp
<1> QED BY <1>4, <1>6, <1>7, <1>8 DEF LinkInv

-----------------------------------------------------------------------------
(* What the client does to a connection.                                    *)

LEMMA UpIs ==
    ASSUME NEW l, Proper(l), NEW m \in UpLine
    PROVE  LET k == Up(l, m)
           IN  /\ k \in LinkRecord /\ SaysHow(k) /\ k.dn = l.dn /\ k.reader = l.reader
               /\ k.gen = l.gen /\ k.left = l.left
               /\ k.hung = l.hung /\ k.shut = l.shut /\ k.cur = l.cur /\ k.cancel = l.cancel
               /\ k.worker = l.worker /\ k.in_flight = l.in_flight /\ k.reply = l.reply
               /\ l.shut => k = l
               /\ ~l.shut => /\ Len(k.up) = Len(l.up) + 1 /\ k.up[Len(l.up) + 1] = m
                             /\ \A i \in 1 .. Len(l.up) : k.up[i] = l.up[i]
               /\ Len(l.up) \in Nat
<1> DEFINE k == Up(l, m)
<1>1. l \in LinkRecord /\ SaysHow(l) /\ l.up \in Seq(UpLine) /\ Len(l.up) \in Nat
  <2>1. l \in LinkRecord /\ SaysHow(l) /\ l.up \in Seq(UpLine)
    BY DEF Proper, LinkRecord
  <2> QED BY <2>1
<1>2. CASE l.shut
  <2>1. k = l
    BY <1>2 DEF Up
  <2> QED BY <1>1, <1>2, <2>1
<1>3. CASE ~l.shut
  <2>1. k = [l EXCEPT !.up = Append(l.up, m)]
    BY <1>3 DEF Up
  <2>2. /\ Append(l.up, m) \in Seq(UpLine) /\ Len(Append(l.up, m)) = Len(l.up) + 1
        /\ \A i \in 1 .. Len(l.up) : Append(l.up, m)[i] = l.up[i]
        /\ Append(l.up, m)[Len(l.up) + 1] = m
    BY <1>1, AppendIs
  <2> HIDE DEF k
  <2>3. /\ k \in LinkRecord /\ k.dn = l.dn /\ k.reader = l.reader /\ k.up = Append(l.up, m)
        /\ k.gen = l.gen /\ k.left = l.left
        /\ k.hung = l.hung /\ k.shut = l.shut /\ k.cur = l.cur /\ k.cancel = l.cancel
        /\ k.worker = l.worker /\ k.in_flight = l.in_flight /\ k.reply = l.reply
    BY <1>1, <2>1, <2>2 DEF LinkRecord
  <2>4. SaysHow(k)
    BY <1>1, <2>3 DEF SaysHow
  <2> QED BY <1>1, <1>3, <2>2, <2>3, <2>4 DEF k
<1> QED BY <1>2, <1>3

(* What the lines in front of a new one say, they say still.                *)
Extends(l, k) ==
    /\ k \in LinkRecord /\ SaysHow(k) /\ k.dn = l.dn /\ k.reader = l.reader
    /\ k.gen = l.gen /\ k.left = l.left
    /\ k.hung = l.hung /\ k.shut = l.shut /\ k.cur = l.cur /\ k.cancel = l.cancel
    /\ k.worker = l.worker /\ k.in_flight = l.in_flight /\ k.reply = l.reply
    /\ Len(l.up) \in Nat /\ Len(k.up) = Len(l.up) + 1
    /\ \A i \in 1 .. Len(l.up) : k.up[i] = l.up[i]

LEMMA ExtendsIs ==
    ASSUME NEW l, Proper(l), NEW k, Extends(l, k), NEW v, UpAccounted(l, v)
    PROVE  /\ \A i \in 1 .. Len(k.up) : i \in 1 .. Len(l.up) \/ i = Len(k.up)
           /\ \A i \in 1 .. Len(l.up) : i \in 1 .. Len(k.up)
           /\ \A r \in Req : Waits(l, r) => Waits(k, r)
           /\ \A i \in 1 .. Len(l.up) : Is(k.up, i, "X") =>
                k.hung \/ v[k.up[i].req] # "none" \/ Before(k, i, k.up[i].req)
           /\ k.reader = "top" =>
                \A i \in 1 .. Len(l.up) : Is(k.up, i, "F") =>
                    \E g \in 1 .. i - 1 :
                        /\ Is(k.up, g, "GEN") /\ i - g <= Frames[k.up[g].req]
                        /\ \A n \in g + 1 .. i : Is(k.up, n, "F")
           /\ k.reader = "frames" =>
                \A i \in 1 .. Len(l.up) : Is(k.up, i, "F") =>
                    /\ \A n \in 1 .. i : Is(k.up, n, "F")
                    /\ Kind[k.gen] # "broken" => i <= k.left
<1>1. /\ Len(l.up) \in Nat /\ Len(k.up) = Len(l.up) + 1
      /\ \A i \in 1 .. Len(l.up) : k.up[i] = l.up[i]
  BY DEF Extends
<1>2. /\ \A i \in 1 .. Len(k.up) : i \in 1 .. Len(l.up) \/ i = Len(k.up)
      /\ \A i \in 1 .. Len(l.up) : i \in 1 .. Len(k.up)
  BY <1>1
<1>3. \A r \in Req : Waits(l, r) => Waits(k, r)
  BY <1>1, <1>2 DEF Extends, Waits, Is
<1>4. ASSUME NEW i \in 1 .. Len(l.up), Is(k.up, i, "X")
      PROVE  k.hung \/ v[k.up[i].req] # "none" \/ Before(k, i, k.up[i].req)
  <2>1. Is(l.up, i, "X") /\ k.up[i].req = l.up[i].req
    BY <1>1, <1>4 DEF Is
  <2>2. l.hung \/ v[l.up[i].req] # "none" \/ Before(l, i, l.up[i].req)
    BY <2>1 DEF UpAccounted
  <2>3. \A g \in 1 .. i - 1 : g \in 1 .. Len(l.up)
    BY <1>1
  <2>4. Before(l, i, l.up[i].req) => Before(k, i, l.up[i].req)
    BY <1>1, <2>3 DEF Extends, Before, Is
  <2> QED BY <2>1, <2>2, <2>4 DEF Extends
<1>5. ASSUME k.reader = "top", NEW i \in 1 .. Len(l.up), Is(k.up, i, "F")
      PROVE  \E g \in 1 .. i - 1 :
                /\ Is(k.up, g, "GEN") /\ i - g <= Frames[k.up[g].req]
                /\ \A n \in g + 1 .. i : Is(k.up, n, "F")
  <2>1. l.reader = "top" /\ Is(l.up, i, "F")
    BY <1>1, <1>5 DEF Extends, Is
  <2>2. PICK g \in 1 .. i - 1 : /\ Is(l.up, g, "GEN") /\ i - g <= Frames[l.up[g].req]
                                /\ \A n \in g + 1 .. i : Is(l.up, n, "F")
    BY <2>1 DEF Proper, FramesInLine
  <2>3. g \in 1 .. Len(l.up) /\ \A n \in g + 1 .. i : n \in 1 .. Len(l.up)
    BY <1>1
  <2> QED BY <1>1, <2>2, <2>3 DEF Is
<1>6. ASSUME k.reader = "frames", NEW i \in 1 .. Len(l.up), Is(k.up, i, "F")
      PROVE  /\ \A n \in 1 .. i : Is(k.up, n, "F")
             /\ Kind[k.gen] # "broken" => i <= k.left
  <2>1. l.reader = "frames" /\ Is(l.up, i, "F") /\ k.gen = l.gen /\ k.left = l.left
    BY <1>1, <1>6 DEF Extends, Is
  <2>2. \A n \in 1 .. i : n \in 1 .. Len(l.up)
    BY <1>1
  <2> QED BY <1>1, <2>1, <2>2 DEF Proper, FramesInLine, Is
<1> QED BY <1>2, <1>3, <1>4, <1>5, <1>6

(* A GEN on a connection nobody waits on.                                   *)
LEMMA GenUp ==
    ASSUME NEW l, Proper(l), NEW k, Extends(l, k), NEW v, UpAccounted(l, v), ~l.shut,
           NEW r \in Req, k.up[Len(k.up)] = Line("GEN", r), \A q \in Req : ~Waits(l, q),
           v[r] = "none"
    PROVE  /\ Proper(k) /\ UpAccounted(k, v) /\ NoNewX(l, k)
           /\ \A q \in Req : Waits(k, q) <=> q = r
           /\ \A u \in Nat : u = Frames[r] => FramesToCome(k, r, u)
<1> DEFINE n == Len(k.up)
<1>1. /\ n = Len(l.up) + 1 /\ Len(l.up) \in Nat /\ n \in 1 .. n
      /\ Is(k.up, n, "GEN") /\ k.up[n].req = r
      /\ \A i \in 1 .. Len(l.up) : k.up[i] = l.up[i] /\ l.up[i].req \in Req
  <2>1. Line("GEN", r).kind = "GEN" /\ Line("GEN", r).req = r
    BY LineIs
  <2>2. n = Len(l.up) + 1 /\ Len(l.up) \in Nat /\ \A i \in 1 .. Len(l.up) : k.up[i] = l.up[i]
    BY DEF Extends
  <2> QED BY <2>1, <2>2, LinesKnown DEF Is
<1>2. l.reader # "frames" /\ l.worker # "run"
  BY DEF Proper, OneAtATime, Waits
<1>3. \A i \in 1 .. Len(l.up) : ~Is(k.up, i, "GEN")
  BY <1>1 DEF Waits, Is
<1>4. \A i \in 1 .. n : i \in 1 .. Len(l.up) \/ i = n
  BY <1>1
<1>5. OneAtATime(k)
  <2>1. \A i, j \in 1 .. n : Is(k.up, i, "GEN") /\ Is(k.up, j, "GEN") => i = j
    BY <1>3, <1>4
  <2>2. /\ k.reader = l.reader /\ k.worker = l.worker /\ k.in_flight = l.in_flight
        /\ k.hung = l.hung /\ k.shut = l.shut /\ k.cur = l.cur /\ k.gen = l.gen
    BY DEF Extends
  <2> QED BY <1>2, <2>1, <2>2 DEF Proper, OneAtATime
<1>6. FramesInLine(k)
  <2>1. k.reader # "frames"
    BY <1>2 DEF Extends
  <2>2. ~Is(k.up, n, "F")
    BY <1>1 DEF Is
  <2> QED BY <1>4, <2>1, <2>2, ExtendsIs DEF FramesInLine
<1>7. \A q \in Req : Waits(k, q) <=> q = r
  <2>1. k.reader # "frames" /\ k.worker # "run"
    BY <1>2 DEF Extends
  <2>2. \A q \in Req : Waits(k, q) => q = r
    BY <1>1, <1>3, <1>4, <2>1 DEF Waits
  <2>3. Waits(k, r)
    BY <1>1 DEF Waits
  <2> QED BY <2>2, <2>3
<1>8. UpAccounted(k, v)
  <2>1. ~Is(k.up, n, "X")
    BY <1>1 DEF Is
  <2>2. \A i \in 1 .. n : Is(k.up, i, "X") =>
           k.hung \/ v[k.up[i].req] # "none" \/ Before(k, i, k.up[i].req)
    BY <1>4, <2>1, ExtendsIs
  <2> QED BY <1>7, <2>2 DEF UpAccounted
<1>9. NoNewX(l, k)
  <2> SUFFICES ASSUME NEW i \in 1 .. n, Is(k.up, i, "X")
               PROVE  \E j \in 1 .. Len(l.up) : Is(l.up, j, "X") /\ l.up[j].req = k.up[i].req
    BY DEF NoNewX
  <2>1. i \in 1 .. Len(l.up)
    BY <1>1, <1>4 DEF Is
  <2> QED BY <1>1, <2>1 DEF Is
<1>10. ASSUME NEW u \in Nat, u = Frames[r] PROVE FramesToCome(k, r, u)
  <2>1. k.reader # "frames"
    BY <1>2 DEF Extends
  <2>2. Len(k.up) - n + u = Frames[r] /\ \A i \in n + 1 .. Len(k.up) : FALSE
    BY <1>1, <1>10
  <2> QED BY <1>1, <2>1, <2>2 DEF FramesToCome
<1>11. Proper(k)
  BY <1>5, <1>6 DEF Proper, Extends
<1> QED BY <1>7, <1>8, <1>9, <1>10, <1>11

(* A frame behind its GEN, or for a reader that expects it.                 *)
LEMMA FrameUp ==
    ASSUME NEW l, Proper(l), NEW k, Extends(l, k), NEW v, UpAccounted(l, v), ~l.shut,
           NEW r \in Req, k.up[Len(k.up)] = Line("F", r), Frames \in [Req -> Nat],
           NEW u \in Nat \ {0}, FramesToCome(l, r, u)
    PROVE  /\ Proper(k) /\ UpAccounted(k, v) /\ NoNewX(l, k)
           /\ \A q \in Req : Waits(k, q) <=> Waits(l, q)
           /\ FramesToCome(k, r, u - 1)
<1> DEFINE n == Len(k.up)
<1>1. /\ n = Len(l.up) + 1 /\ Len(l.up) \in Nat /\ n \in 1 .. n
      /\ Is(k.up, n, "F") /\ k.up[n].req = r
      /\ \A i \in 1 .. Len(l.up) : k.up[i] = l.up[i]
  <2>1. Line("F", r).kind = "F" /\ Line("F", r).req = r
    BY LineIs
  <2>2. n = Len(l.up) + 1 /\ Len(l.up) \in Nat /\ \A i \in 1 .. Len(l.up) : k.up[i] = l.up[i]
    BY DEF Extends
  <2> QED BY <2>1, <2>2 DEF Is
<1>2. \A i \in 1 .. n : i \in 1 .. Len(l.up) \/ i = n
  BY <1>1
<1>3. /\ k.reader = l.reader /\ k.worker = l.worker /\ k.in_flight = l.in_flight
      /\ k.hung = l.hung /\ k.shut = l.shut /\ k.cur = l.cur /\ k.gen = l.gen
      /\ k.left = l.left
  BY DEF Extends
<1>4. \A i \in 1 .. n : Is(k.up, i, "GEN") =>
         i \in 1 .. Len(l.up) /\ Is(l.up, i, "GEN") /\ k.up[i] = l.up[i]
  BY <1>1, <1>2 DEF Is
<1>5. OneAtATime(k)
  <2>1. \A i, j \in 1 .. n : Is(k.up, i, "GEN") /\ Is(k.up, j, "GEN") => i = j
    BY <1>4 DEF Proper, OneAtATime
  <2> QED BY <1>3, <1>4, <2>1 DEF Proper, OneAtATime
<1>6. k.reader = "top" =>
         \E g \in 1 .. Len(l.up) :
            /\ Is(k.up, g, "GEN") /\ k.up[g].req = r /\ Len(l.up) - g + u = Frames[r]
            /\ \A i \in g + 1 .. n : Is(k.up, i, "F")
  <2> HAVE k.reader = "top"
  <2>1. PICK g \in 1 .. Len(l.up) :
            /\ Is(l.up, g, "GEN") /\ l.up[g].req = r /\ Len(l.up) - g + u = Frames[r]
            /\ \A i \in g + 1 .. Len(l.up) : Is(l.up, i, "F")
    BY <1>3 DEF FramesToCome
  <2>2. \A i \in g + 1 .. n : Is(k.up, i, "F")
    <3> TAKE i \in g + 1 .. n
    <3>1. i = n \/ i \in g + 1 .. Len(l.up)
      BY <1>1
    <3>2. i \in g + 1 .. Len(l.up) => i \in 1 .. Len(l.up)
      OBVIOUS
    <3> QED BY <1>1, <2>1, <3>1, <3>2 DEF Is
  <2> QED BY <1>1, <2>1, <2>2 DEF Is
<1>7. k.reader = "frames" =>
         /\ k.gen = r /\ (Kind[r] # "broken" => Len(l.up) + u = k.left)
         /\ \A i \in 1 .. n : Is(k.up, i, "F")
  <2> HAVE k.reader = "frames"
  <2>1. /\ l.gen = r /\ (Kind[r] # "broken" => Len(l.up) + u = l.left)
        /\ \A i \in 1 .. Len(l.up) : Is(l.up, i, "F")
    BY <1>3 DEF FramesToCome
  <2> QED BY <1>1, <1>2, <1>3, <2>1 DEF Is
<1>8. FramesInLine(k)
  <2>1. ASSUME k.reader = "top", NEW i \in 1 .. n, Is(k.up, i, "F")
        PROVE  \E g \in 1 .. i - 1 :
                  /\ Is(k.up, g, "GEN") /\ i - g <= Frames[k.up[g].req]
                  /\ \A j \in g + 1 .. i : Is(k.up, j, "F")
    <3>1. CASE i \in 1 .. Len(l.up)
      BY <2>1, <3>1, ExtendsIs
    <3>2. CASE i = n
      <4>1. PICK g \in 1 .. Len(l.up) :
              /\ Is(k.up, g, "GEN") /\ k.up[g].req = r /\ Len(l.up) - g + u = Frames[r]
              /\ \A j \in g + 1 .. n : Is(k.up, j, "F")
        BY <1>6, <2>1
      <4>2. g \in 1 .. i - 1 /\ i - g <= Frames[r]
        BY <1>1, <3>2, <4>1
      <4> QED BY <3>2, <4>1, <4>2
    <3> QED BY <1>2, <3>1, <3>2
  <2>2. ASSUME k.reader = "frames", NEW i \in 1 .. n
        PROVE  /\ \A j \in 1 .. i : Is(k.up, j, "F")
               /\ Kind[k.gen] # "broken" => i <= k.left
    BY <1>1, <1>7, <2>2
  <2> QED BY <2>1, <2>2 DEF FramesInLine
<1>9. \A q \in Req : Waits(k, q) <=> Waits(l, q)
  <2>1. \A q \in Req : Waits(l, q) => Waits(k, q)
    BY ExtendsIs
  <2>2. \A q \in Req : Waits(k, q) => Waits(l, q)
    BY <1>3, <1>4 DEF Waits
  <2> QED BY <2>1, <2>2
<1>10. UpAccounted(k, v)
  <2>1. ~Is(k.up, n, "X")
    BY <1>1 DEF Is
  <2>2. \A i \in 1 .. n : Is(k.up, i, "X") =>
           k.hung \/ v[k.up[i].req] # "none" \/ Before(k, i, k.up[i].req)
    BY <1>2, <2>1, ExtendsIs
  <2> QED BY <1>9, <2>2 DEF UpAccounted
<1>11. NoNewX(l, k)
  <2> SUFFICES ASSUME NEW i \in 1 .. n, Is(k.up, i, "X")
               PROVE  \E j \in 1 .. Len(l.up) : Is(l.up, j, "X") /\ l.up[j].req = k.up[i].req
    BY DEF NoNewX
  <2>1. i \in 1 .. Len(l.up)
    BY <1>1, <1>2 DEF Is
  <2> QED BY <1>1, <2>1 DEF Is
<1>12. FramesToCome(k, r, u - 1)
  <2>1. ASSUME k.reader = "top"
        PROVE  \E g \in 1 .. n :
                  /\ Is(k.up, g, "GEN") /\ k.up[g].req = r /\ n - g + (u - 1) = Frames[r]
                  /\ \A i \in g + 1 .. n : Is(k.up, i, "F")
    <3>1. PICK g \in 1 .. Len(l.up) :
            /\ Is(k.up, g, "GEN") /\ k.up[g].req = r /\ Len(l.up) - g + u = Frames[r]
            /\ \A j \in g + 1 .. n : Is(k.up, j, "F")
      BY <1>6, <2>1
    <3>2. g \in 1 .. n /\ n - g + (u - 1) = Frames[r]
      BY <1>1, <3>1
    <3> QED BY <3>1, <3>2
  <2>2. k.reader = "frames" => (Kind[r] # "broken" => n + (u - 1) = k.left)
    BY <1>1, <1>7
  <2> QED BY <1>7, <2>1, <2>2 DEF FramesToCome
<1>13. Proper(k)
  BY <1>5, <1>8 DEF Proper, Extends
<1> QED BY <1>9, <1>10, <1>11, <1>12, <1>13

(* An X for a request that waits, or is judged.                             *)
LEMMA XUp ==
    ASSUME NEW l, Proper(l), NEW k, Extends(l, k), NEW v, UpAccounted(l, v), ~l.shut,
           NEW r \in Req, k.up[Len(k.up)] = Line("X", r), v[r] # "none" \/ Waits(l, r)
    PROVE  /\ Proper(k) /\ UpAccounted(k, v)
           /\ \A q \in Req : Waits(k, q) <=> Waits(l, q)
           /\ \A i \in 1 .. Len(k.up) : Is(k.up, i, "X") =>
                \/ k.up[i].req = r
                \/ \E j \in 1 .. Len(l.up) : Is(l.up, j, "X") /\ l.up[j].req = k.up[i].req
<1> DEFINE n == Len(k.up)
<1>1. /\ n = Len(l.up) + 1 /\ Len(l.up) \in Nat /\ n \in 1 .. n
      /\ Is(k.up, n, "X") /\ k.up[n].req = r
      /\ \A i \in 1 .. Len(l.up) : k.up[i] = l.up[i]
  <2>1. Line("X", r).kind = "X" /\ Line("X", r).req = r
    BY LineIs
  <2>2. n = Len(l.up) + 1 /\ Len(l.up) \in Nat /\ \A i \in 1 .. Len(l.up) : k.up[i] = l.up[i]
    BY DEF Extends
  <2> QED BY <2>1, <2>2 DEF Is
<1>2. \A i \in 1 .. n : i \in 1 .. Len(l.up) \/ i = n
  BY <1>1
<1>3. /\ k.reader = l.reader /\ k.worker = l.worker /\ k.in_flight = l.in_flight
      /\ k.hung = l.hung /\ k.shut = l.shut /\ k.cur = l.cur /\ k.gen = l.gen
      /\ k.left = l.left
  BY DEF Extends
<1>4. \A i \in 1 .. n : Is(k.up, i, "GEN") =>
         i \in 1 .. Len(l.up) /\ Is(l.up, i, "GEN") /\ k.up[i] = l.up[i]
  BY <1>1, <1>2 DEF Is
<1>5. OneAtATime(k)
  <2>1. \A i, j \in 1 .. n : Is(k.up, i, "GEN") /\ Is(k.up, j, "GEN") => i = j
    BY <1>4 DEF Proper, OneAtATime
  <2> QED BY <1>3, <1>4, <2>1 DEF Proper, OneAtATime
<1>6. FramesInLine(k)
  <2>1. ~Is(k.up, n, "F")
    BY <1>1 DEF Is
  <2> QED BY <1>2, <2>1, ExtendsIs DEF FramesInLine
<1>7. \A q \in Req : Waits(k, q) <=> Waits(l, q)
  <2>1. \A q \in Req : Waits(l, q) => Waits(k, q)
    BY ExtendsIs
  <2>2. \A q \in Req : Waits(k, q) => Waits(l, q)
    BY <1>3, <1>4 DEF Waits
  <2> QED BY <2>1, <2>2
<1>8. v[r] # "none" \/ Before(k, n, r)
  <2>1. ASSUME NEW i \in 1 .. Len(l.up), Is(l.up, i, "GEN"), l.up[i].req = r
        PROVE  Before(k, n, r)
    <3>1. i \in 1 .. n - 1 /\ Is(k.up, i, "GEN") /\ k.up[i].req = r
      BY <1>1, <2>1 DEF Is
    <3> QED BY <3>1 DEF Before
  <2> QED BY <1>3, <2>1 DEF Waits, Before
<1>9. UpAccounted(k, v)
  <2>1. \A i \in 1 .. n : Is(k.up, i, "X") =>
           k.hung \/ v[k.up[i].req] # "none" \/ Before(k, i, k.up[i].req)
    BY <1>1, <1>2, <1>8, ExtendsIs
  <2> QED BY <1>7, <2>1 DEF UpAccounted
<1>10. ASSUME NEW i \in 1 .. n, Is(k.up, i, "X")
       PROVE  \/ k.up[i].req = r
              \/ \E j \in 1 .. Len(l.up) : Is(l.up, j, "X") /\ l.up[j].req = k.up[i].req
  BY <1>1, <1>2, <1>10 DEF Is
<1>11. Proper(k)
  BY <1>5, <1>6 DEF Proper, Extends
<1> QED BY <1>7, <1>9, <1>10, <1>11

LEMMA UpExtends ==
    ASSUME NEW l, Proper(l), NEW m \in UpLine
    PROVE  /\ l.shut => Up(l, m) = l
           /\ ~l.shut => Extends(l, Up(l, m)) /\ Up(l, m).up[Len(Up(l, m).up)] = m
BY UpIs DEF Extends

(* A closed end reads nothing more; what it wrote may be lost.              *)
LEMMA HangUpIs ==
    ASSUME LinkAssumption, NEW l, Proper(l), NEW k \in HangUp(l),
           NEW v, UpAccounted(l, v), NEW p, DnAccounted(l, v, p)
    PROVE  /\ Proper(k) /\ k.hung /\ UpAccounted(k, v) /\ DnAccounted(k, v, p)
           /\ \A r \in Req : Waits(k, r) => Waits(l, r)
           /\ NoNewX(l, k)
<1>1. CASE l.shut
  <2>1. k = Closed
    BY <1>1 DEF HangUp
  <2>2. Proper(k) /\ \A r \in Req : ~Waits(k, r)
    BY <2>1, ClosedIs, NoLines
  <2>3. k.up = <<>> /\ k.dn = <<>> /\ k.worker = "none" /\ k.hung
    BY <2>1, ClosedIs
  <2>4. UpAccounted(k, v) /\ DnAccounted(k, v, p) /\ NoNewX(l, k)
    BY <2>2, <2>3 DEF UpAccounted, DnAccounted, NoNewX
  <2> QED BY <2>2, <2>3, <2>4
<1>2. CASE ~l.shut
  <2>1. l \in LinkRecord /\ SaysHow(l) /\ l.up \in Seq(UpLine)
    BY DEF Proper, LinkRecord
  <2>2. l.up \in Prefixes(l.up)
    <3>1. l.up = SubSeq(l.up, 1, Len(l.up)) /\ Len(l.up) \in 0 .. Len(l.up)
      BY <2>1
    <3> QED BY <3>1 DEF Prefixes
  <2>3. PICK u \in Prefixes(l.up) : k = [l EXCEPT !.hung = TRUE, !.dn = <<>>, !.up = u]
    BY <1>2, <2>2 DEF HangUp
  <2>4. /\ u \in Seq(UpLine) /\ Len(u) \in Nat /\ Len(u) <= Len(l.up) /\ Len(l.up) \in Nat
        /\ \A i \in 1 .. Len(u) : u[i] = l.up[i]
    BY <2>1, PrefixIs
  <2>5. /\ k \in LinkRecord /\ k.up = u /\ k.dn = <<>> /\ k.hung /\ k.shut = l.shut
        /\ k.reader = l.reader /\ k.gen = l.gen /\ k.left = l.left /\ k.cur = l.cur
        /\ k.cancel = l.cancel /\ k.worker = l.worker /\ k.in_flight = l.in_flight
        /\ k.reply = l.reply
    <3>1. <<>> \in Seq(DnLine)
      OBVIOUS
    <3> QED BY <2>1, <2>3, <2>4, <3>1 DEF LinkRecord
  <2>6. \A i \in 1 .. Len(k.up) : i \in 1 .. Len(l.up) /\ k.up[i] = l.up[i]
    BY <2>4, <2>5
  <2>7. OneAtATime(k)
    <3>1. \A i, j \in 1 .. Len(k.up) : Is(k.up, i, "GEN") /\ Is(k.up, j, "GEN") => i = j
      BY <2>6 DEF Proper, OneAtATime, Is
    <3>2. k.reader = "frames" \/ k.worker = "run" =>
             \A i \in 1 .. Len(k.up) : ~Is(k.up, i, "GEN")
      BY <2>5, <2>6 DEF Proper, OneAtATime, Is
    <3> QED BY <1>2, <2>5, <3>1, <3>2 DEF Proper, OneAtATime
  <2>8. FramesInLine(k)
    <3>1. ASSUME k.reader = "top", NEW i \in 1 .. Len(k.up), Is(k.up, i, "F")
          PROVE  \E g \in 1 .. i - 1 :
                    /\ Is(k.up, g, "GEN") /\ i - g <= Frames[k.up[g].req]
                    /\ \A j \in g + 1 .. i : Is(k.up, j, "F")
      <4>1. l.reader = "top" /\ i \in 1 .. Len(l.up) /\ Is(l.up, i, "F")
        BY <2>5, <2>6, <3>1 DEF Is
      <4>2. PICK g \in 1 .. i - 1 : /\ Is(l.up, g, "GEN") /\ i - g <= Frames[l.up[g].req]
                                    /\ \A j \in g + 1 .. i : Is(l.up, j, "F")
        BY <4>1 DEF Proper, FramesInLine
      <4>3. g \in 1 .. Len(k.up) /\ \A j \in g + 1 .. i : j \in 1 .. Len(k.up)
        BY <2>4, <2>5
      <4> QED BY <2>6, <4>2, <4>3 DEF Is
    <3>2. ASSUME k.reader = "frames", NEW i \in 1 .. Len(k.up), Is(k.up, i, "F")
          PROVE  /\ \A j \in 1 .. i : Is(k.up, j, "F")
                 /\ Kind[k.gen] # "broken" => i <= k.left
      <4>1. l.reader = "frames" /\ i \in 1 .. Len(l.up) /\ Is(l.up, i, "F")
        BY <2>5, <2>6, <3>2 DEF Is
      <4>2. \A j \in 1 .. i : j \in 1 .. Len(k.up)
        BY <2>4, <2>5
      <4>3. /\ \A j \in 1 .. i : Is(l.up, j, "F")
            /\ Kind[l.gen] # "broken" => i <= l.left
        BY <4>1 DEF Proper, FramesInLine
      <4> QED BY <2>5, <2>6, <4>2, <4>3 DEF Is
    <3> QED BY <3>1, <3>2 DEF FramesInLine
  <2>9. SaysHow(k)
    <3>1. \A i \in 1 .. Len(k.dn) : FALSE
      BY <2>5
    <3>2. l.worker = "finish" => l.reply # ""
      BY <2>1 DEF SaysHow
    <3>3. k.worker = l.worker /\ k.reply = l.reply
      BY <2>5
    <3> QED BY <3>1, <3>2, <3>3 DEF SaysHow
  <2>10. \A r \in Req : Waits(k, r) => Waits(l, r)
    BY <2>5, <2>6 DEF Waits, Is
  <2>11. NoNewX(l, k)
    BY <2>6 DEF NoNewX, Is
  <2>12. UpAccounted(k, v)
    BY <2>5, <2>10 DEF UpAccounted
  <2>13. DnAccounted(k, v, p)
    BY <2>5 DEF DnAccounted
  <2> QED BY <2>5, <2>7, <2>8, <2>9, <2>10, <2>11, <2>12, <2>13 DEF Proper
<1> QED BY <1>1, <1>2

(* The client reads a line.                                                 *)
LEMMA ReadIs ==
    ASSUME NEW l, Proper(l), l.dn # <<>>,
           NEW v, UpAccounted(l, v), NEW p, DnAccounted(l, v, p)
    PROVE  LET k == [l EXCEPT !.dn = Tail(@)]
           IN  /\ Proper(k) /\ UpAccounted(k, v) /\ DnAccounted(k, v, p)
               /\ k.up = l.up /\ k.hung = l.hung /\ k.shut = l.shut
               /\ k.worker = l.worker /\ k.cancel = l.cancel /\ k.cur = l.cur
               /\ \A r \in Req : Waits(k, r) <=> Waits(l, r)
               /\ Head(l.dn) = l.dn[1] /\ l.dn[1] \in DnLine
               /\ IF Is(l.dn, 1, "D") THEN v[l.dn[1].req] # "none" ELSE p[l.dn[1].req] > 0
<1> DEFINE k == [l EXCEPT !.dn = Tail(@)]
<1>1. l \in LinkRecord /\ SaysHow(l) /\ OneAtATime(l) /\ l.dn \in Seq(DnLine)
  BY DEF Proper, LinkRecord
<1>2. /\ Tail(l.dn) \in Seq(DnLine) /\ Len(Tail(l.dn)) = Len(l.dn) - 1
      /\ Len(l.dn) \in Nat \ {0} /\ Head(l.dn) = l.dn[1] /\ l.dn[1] \in DnLine
      /\ \A i \in 1 .. Len(l.dn) - 1 : Tail(l.dn)[i] = l.dn[i + 1]
  BY <1>1, TailIs
<1>3. /\ k \in LinkRecord /\ k.dn = Tail(l.dn) /\ k.up = l.up /\ k.hung = l.hung
      /\ k.shut = l.shut /\ k.reader = l.reader /\ k.gen = l.gen /\ k.left = l.left
      /\ k.cur = l.cur /\ k.cancel = l.cancel /\ k.worker = l.worker
      /\ k.in_flight = l.in_flight /\ k.reply = l.reply
  BY <1>1, <1>2 DEF LinkRecord
<1> HIDE DEF k
<1>4. \A i \in 1 .. Len(k.dn) : i + 1 \in 1 .. Len(l.dn) /\ k.dn[i] = l.dn[i + 1]
  BY <1>2, <1>3
<1>5. SaysHow(k)
  <2>1. \A i \in 1 .. Len(k.dn) : Is(k.dn, i, "D") => k.dn[i].why # ""
    BY <1>1, <1>4 DEF SaysHow, Is
  <2> QED BY <1>1, <1>3, <2>1 DEF SaysHow
<1>6. Follows(l, k) /\ Keeps(l, k, v, v)
  <2>1. FrontStays(l, k) /\ WorkerJudges(l, k, v, v)
    BY <1>1, <1>3 DEF OneAtATime, FrontStays, WorkerJudges
  <2> QED BY <1>3, <1>5, <2>1, SameFront, FrontKeeps
<1>7. DnAccounted(k, v, p)
  <2>1. \A i \in 1 .. Len(k.dn) :
           IF Is(k.dn, i, "D") THEN v[k.dn[i].req] # "none" ELSE p[k.dn[i].req] > 0
    BY <1>4 DEF DnAccounted, Is
  <2> QED BY <1>3, <2>1 DEF DnAccounted
<1>8. IF Is(l.dn, 1, "D") THEN v[l.dn[1].req] # "none" ELSE p[l.dn[1].req] > 0
  <2>1. 1 \in 1 .. Len(l.dn)
    BY <1>2
  <2> QED BY <2>1 DEF DnAccounted
<1>9. \A r \in Req : Waits(k, r) <=> Waits(l, r)
  BY <1>3 DEF Waits
<1> QED BY <1>2, <1>3, <1>6, <1>7, <1>8, <1>9 DEF Follows, Keeps, k

-----------------------------------------------------------------------------
(* The steps of the client.                                                 *)

(* A step on connection c, the one in use or one opened now.                *)
LEMMA ClientStep ==
    ASSUME LinkInv, NEW c \in Conn, NEW k, link' = [link EXCEPT ![c] = k],
           c = fd \/ fd = 0, fd' = c \/ fd' = 0,
           UNCHANGED <<engine, history>>, ClientTypes', AskedOnce', Fresh',
           \A r \in Req : asked[r] > 0 => asked'[r] > 0, req' >= req,
           Proper(k), CancelsAreAsked(k)', UpAccounted(k, verdict),
           DnAccounted(k, verdict, made),
           \A r \in Req : Waits(k, r) => Waits(link[c], r) \/ (r = req /\ phase = "idle"),
           IF fd' = c THEN InUse(k)' ELSE GivenUp(k)'
    PROVE  LinkInv'
<1>1. LinkAssumption' /\ EngineTypes' /\ UNCHANGED <<verdict, made>>
  BY DEF LinkInv, EngineTypes, engine, history
<1>2. link' \in [Conn -> LinkRecord]
  BY DEF LinkInv, Proper
<1>3. link'[c] = k /\ \A d \in Conn \ {c} : link'[d] = link[d]
  BY DEF LinkInv
<1>4. req \in Nat /\ req' \in Nat
  BY DEF LinkInv, ClientTypes
<1>5. ASSUME NEW d \in Conn \ {c}
      PROVE  GivenUp(link[d])
  <2>1. d # fd
    BY <1>5 DEF LinkInv, LinkAssumption, Conn, Req
  <2> QED BY <2>1 DEF LinkInv
<1>6. ASSUME NEW d \in Conn
      PROVE  /\ Proper(link[d])' /\ CancelsAreAsked(link[d])'
             /\ UpAccounted(link[d], verdict)' /\ DnAccounted(link[d], verdict, made)'
             /\ IF d = fd' THEN InUse(link[d])' ELSE GivenUp(link[d])'
  <2>1. CASE d = c
    <3>1. /\ Proper(link[d])' /\ CancelsAreAsked(link[d])'
          /\ UpAccounted(link[d], verdict)' /\ DnAccounted(link[d], verdict, made)'
      BY <1>1, <1>3, <2>1 DEF CancelsAreAsked
    <3>2. IF d = fd' THEN InUse(link[d])' ELSE GivenUp(link[d])'
      BY <1>3, <2>1 DEF InUse, GivenUp
    <3> QED BY <3>1, <3>2
  <2>2. CASE d # c
    <3> DEFINE o == link[d]
    <3>1. /\ Proper(o) /\ CancelsAreAsked(o) /\ UpAccounted(o, verdict)
          /\ DnAccounted(o, verdict, made) /\ GivenUp(o)
      BY <1>5, <2>2 DEF LinkInv
    <3>2. link'[d] = o /\ d # fd'
      BY <1>3, <2>2 DEF LinkInv, LinkAssumption, Conn, Req
    <3>3. CancelsAreAsked(o)'
      <4>1. \A i \in 1 .. Len(o.up) : o.up[i].req \in Req
        BY <3>1, LinesKnown
      <4>2. o.worker = "run" => o.cur \in Req
        BY <3>1 DEF Proper, OneAtATime
      <4>3. \A i \in 1 .. Len(o.up) : Is(o.up, i, "X") => asked'[o.up[i].req] > 0
        BY <3>1, <4>1 DEF CancelsAreAsked
      <4>4. o.worker = "run" /\ o.cancel => asked'[o.cur] > 0 \/ o.hung
        BY <3>1, <4>2 DEF CancelsAreAsked
      <4> QED BY <3>2, <4>3, <4>4 DEF CancelsAreAsked
    <3>4. o.hung /\ \A r \in Req : Waits(o, r) => r < req'
      BY <1>4, <3>1 DEF GivenUp, Req
    <3>5. GivenUp(link[d])'
      BY <3>2, <3>4 DEF GivenUp
    <3> QED BY <1>1, <3>1, <3>2, <3>3, <3>5 DEF CancelsAreAsked
  <2> QED BY <2>1, <2>2
<1>7. Unshared'
  <2>1. ASSUME NEW d \in Conn \ {c}, NEW r \in Req, Waits(link'[c], r), Waits(link'[d], r)
        PROVE  FALSE
    <3>1. Waits(k, r) /\ Waits(link[d], r) /\ r < req
      BY <1>3, <1>5, <2>1 DEF GivenUp
    <3>2. Waits(link[c], r)
      BY <1>4, <3>1 DEF Req
    <3> QED BY <2>1, <3>1, <3>2 DEF LinkInv, Unshared
  <2>2. ASSUME NEW d \in Conn, NEW e \in Conn, NEW r \in Req,
               Waits(link'[d], r), Waits(link'[e], r), d # e
        PROVE  FALSE
    <3>1. CASE d = c
      BY <2>1, <2>2, <3>1
    <3>2. CASE e = c
      BY <2>1, <2>2, <3>2
    <3>3. CASE d # c /\ e # c
      BY <1>3, <2>2, <3>3 DEF LinkInv, Unshared
    <3> QED BY <3>1, <3>2, <3>3
  <2> QED BY <2>2 DEF Unshared
<1> QED BY <1>1, <1>2, <1>6, <1>7 DEF LinkInv

LEMMA UseFacts ==
    ASSUME LinkInv, fd # 0
    PROVE  /\ fd \in Conn /\ InUse(link[fd]) /\ Proper(link[fd]) /\ link[fd] \in LinkRecord
           /\ CancelsAreAsked(link[fd]) /\ UpAccounted(link[fd], verdict)
           /\ DnAccounted(link[fd], verdict, made)
<1>1. fd \in Conn
  BY DEF LinkInv, ClientTypes, Conn, Req
<1> QED BY <1>1 DEF LinkInv

Asks == /\ asked' \in [Req -> 0 .. 1]
        /\ \A r \in Req : asked[r] > 0 => asked'[r] > 0
        /\ \A r \in Req : asked'[r] > 0 => r <= req

LEMMA ReturnIs ==
    ASSUME LinkInv, NEW why \in {"timeout", "lost", "unreachable"} \cup Judged, Return(why),
           req <= NReq, fd' \in 0 .. NReq, UNCHANGED <<got, history>>, Asks
    PROVE  ClientTypes' /\ AskedOnce' /\ Fresh' /\ req' = req + 1 /\ phase' = "idle"
<1>1. /\ outcome' = [outcome EXCEPT ![req] = why] /\ phase' = "idle" /\ cancelled' = FALSE
      /\ unsent' = 0 /\ req' = req + 1
  BY DEF Return
<1>2. req \in Req /\ NReq \in Nat /\ req \in Nat
  BY LinkFacts DEF LinkInv, ClientTypes, Req
<1>3. ClientTypes'
  <2>1. outcome' \in [Req -> {"none", "timeout", "lost", "unreachable"} \cup Judged]
    BY <1>1, <1>2 DEF LinkInv, ClientTypes
  <2>2. req' \in 1 .. NReq + 1
    BY <1>1, <1>2
  <2>3. got' \in [Req -> Nat]
    BY DEF LinkInv, ClientTypes
  <2>4. /\ phase' \in {"idle", "writing", "reading"} /\ unsent' \in Nat /\ cancelled' \in BOOLEAN
        /\ phase' = "idle"
    BY <1>1
  <2> QED BY <2>1, <2>2, <2>3, <2>4 DEF ClientTypes
<1>4. AskedOnce'
  BY <1>1, <1>2 DEF AskedOnce, Asks, Req
<1>5. Fresh'
  <2>1. \A r \in Req : ~Sent(r)' => ~Sent(r)
    BY <1>1, <1>2 DEF Sent, Req
  <2>2. \A r \in Req : r >= req' => outcome'[r] = "none"
    <3> SUFFICES ASSUME NEW r \in Req, r >= req + 1 PROVE outcome'[r] = "none"
      BY <1>1
    <3>1. r # req /\ r >= req
      BY <1>2 DEF Req
    <3>2. outcome[r] = "none"
      BY <3>1 DEF LinkInv, Fresh
    <3>3. outcome \in [Req -> {"none", "timeout", "lost", "unreachable"} \cup Judged]
      BY DEF LinkInv, ClientTypes
    <3> QED BY <1>1, <3>1, <3>2, <3>3
  <2> QED BY <2>1, <2>2 DEF LinkInv, Fresh, history
<1> QED BY <1>1, <1>3, <1>4, <1>5

LEMMA SameAsked ==
    ASSUME LinkInv, UNCHANGED asked
    PROVE  Asks
<1>1. req \in Nat /\ Req \subseteq Nat
  BY DEF LinkInv, ClientTypes, Req
<1>2. \A r \in Req : asked[r] > 0 => r < req \/ r = req
  BY DEF LinkInv, AskedOnce
<1> QED BY <1>1, <1>2 DEF Asks, LinkInv, AskedOnce

LEMMA GiveUpInv ==
    ASSUME LinkInv, fd # 0, req <= NReq, NEW l, Proper(l), UpAccounted(l, verdict),
           DnAccounted(l, verdict, made), \A r \in Req : Waits(l, r) => Waits(link[fd], r),
           \A i \in 1 .. Len(l.up) : Is(l.up, i, "X") => asked'[l.up[i].req] > 0,
           NEW why \in {"timeout", "lost"}, GiveUp(l, why), UNCHANGED <<got, engine, history>>,
           Asks
    PROVE  LinkInv'
<1>1. PICK k \in HangUp(l) : link' = [link EXCEPT ![fd] = k]
  BY DEF GiveUp
<1>2. fd' = 0 /\ Return(why)
  BY DEF GiveUp
<1>3. fd \in Conn /\ InUse(link[fd]) /\ LinkAssumption /\ req \in Nat
  BY UseFacts DEF LinkInv, ClientTypes
<1>4. /\ Proper(k) /\ k.hung /\ UpAccounted(k, verdict) /\ DnAccounted(k, verdict, made)
      /\ \A r \in Req : Waits(k, r) => Waits(l, r)
      /\ NoNewX(l, k)
  BY <1>3, HangUpIs
<1>5. ClientTypes' /\ AskedOnce' /\ Fresh' /\ req' = req + 1 /\ phase' = "idle"
  <2>1. fd' \in 0 .. NReq
    BY <1>2, LinkFacts
  <2> QED BY <1>2, <2>1, ReturnIs
<1>6. CancelsAreAsked(k)'
  <2>1. \A i \in 1 .. Len(k.up) : Is(k.up, i, "X") => asked'[k.up[i].req] > 0
    BY <1>4 DEF NoNewX
  <2> QED BY <1>4, <2>1 DEF CancelsAreAsked
<1>7. GivenUp(k)'
  <2>1. \A r \in Req : Waits(k, r) => r = req
    BY <1>3, <1>4 DEF InUse
  <2>2. \A r \in Req : Waits(k, r) => r < req'
    BY <1>3, <1>5, <2>1
  <2> QED BY <1>4, <2>2 DEF GivenUp
<1>8. \A r \in Req : Waits(k, r) => Waits(link[fd], r) \/ (r = req /\ phase = "idle")
  BY <1>4
<1>9. fd' # fd /\ req' >= req /\ \A r \in Req : asked[r] > 0 => asked'[r] > 0
  BY <1>2, <1>3, <1>5 DEF Asks
<1> QED BY <1>1, <1>2, <1>3, <1>4, <1>5, <1>6, <1>7, <1>8, <1>9, ClientStep

LEMMA GiveUpHere ==
    ASSUME LinkInv, fd # 0, req <= NReq, NEW why \in {"timeout", "lost"},
           GiveUp(link[fd], why), UNCHANGED <<got, asked, engine, history>>
    PROVE  LinkInv'
<1>1. /\ Proper(link[fd]) /\ UpAccounted(link[fd], verdict)
      /\ DnAccounted(link[fd], verdict, made)
      /\ \A i \in 1 .. Len(link[fd].up) :
            Is(link[fd].up, i, "X") => asked[link[fd].up[i].req] > 0
  BY UseFacts DEF CancelsAreAsked
<1>2. Asks
  BY SameAsked
<1>3. \A i \in 1 .. Len(link[fd].up) :
         Is(link[fd].up, i, "X") => asked'[link[fd].up[i].req] > 0
  BY <1>1
<1> QED BY <1>1, <1>2, <1>3, GiveUpInv

(* A step of a request under way on its connection.                         *)
LEMMA UnderWay ==
    ASSUME LinkInv, phase # "idle", NEW k, link' = [link EXCEPT ![fd] = k],
           UNCHANGED <<req, fd, outcome, engine, history>>, got' \in [Req -> Nat],
           \A r \in Req \ {req} : got'[r] = got[r],
           phase' \in {"writing", "reading"}, unsent' \in Nat, cancelled' \in BOOLEAN,
           phase' = "writing" => unsent' > 0, AskedOnce',
           \A r \in Req : asked[r] > 0 => asked'[r] > 0,
           Proper(k), CancelsAreAsked(k)', UpAccounted(k, verdict),
           DnAccounted(k, verdict, made), k.hung => k.shut,
           \A r \in Req : Waits(k, r) <=> Waits(link[fd], r),
           link[fd].shut => k.shut,
           phase' = "writing" /\ ~k.shut => FramesToCome(k, req, unsent')
    PROVE  LinkInv'
<1>1. fd \in Conn /\ fd # 0 /\ req \in Req /\ req <= NReq /\ req \in Nat
  BY UseFacts DEF LinkInv, ClientTypes, Req
<1>2. InUse(link[fd])
  BY <1>1, UseFacts
<1>3. ClientTypes'
  BY <1>1 DEF LinkInv, ClientTypes
<1>4. Fresh'
  <2>1. \A r \in Req : ~Sent(r)' => ~Sent(r) /\ r # req
    BY <1>1 DEF Sent
  <2> QED BY <2>1 DEF LinkInv, Fresh, history
<1>5. InUse(k)'
  <2>1. \A r \in Req : Waits(k, r) => phase' # "idle" /\ r = req'
    BY <1>2 DEF InUse
  <2>2. k.shut \/ verdict'[req'] # "none" \/ Waits(k, req')
    BY <1>1, <1>2 DEF InUse, history
  <2> QED BY <2>1, <2>2 DEF InUse
<1>6. req' >= req
  BY <1>1
<1>7. \A r \in Req : Waits(k, r) => Waits(link[fd], r) \/ (r = req /\ phase = "idle")
  OBVIOUS
<1>8. fd' = fd
  OBVIOUS
<1> QED BY <1>1, <1>3, <1>4, <1>5, <1>6, <1>7, <1>8, ClientStep

LEMMA ConnectInv == ASSUME LinkInv, Connect PROVE LinkInv'
<1>1. /\ phase = "idle" /\ req <= NReq /\ fd = 0 /\ fd' = req
      /\ link' = [link EXCEPT ![req] = Opened]
      /\ UNCHANGED <<req, phase, unsent, cancelled, outcome, got, asked, engine, history>>
  BY DEF Connect
<1>2. req \in Conn /\ req \in Nat /\ LinkAssumption /\ Opened \in LinkRecord
  BY <1>1, ClosedIs DEF LinkInv, ClientTypes, Conn, Req
<1>3. ClientTypes' /\ AskedOnce' /\ Fresh'
  BY <1>1, <1>2 DEF LinkInv, ClientTypes, AskedOnce, Fresh, Sent, history, Conn, Req
<1>4. Proper(Opened) /\ \A r \in Req : ~Waits(Opened, r)
  BY <1>2, ClosedIs, NoLines
<1>5. /\ Opened.up = <<>> /\ Opened.dn = <<>> /\ ~Opened.hung /\ ~Opened.shut
      /\ Opened.worker = "none"
  BY <1>2, ClosedIs
<1>6. CancelsAreAsked(Opened)' /\ UpAccounted(Opened, verdict) /\ DnAccounted(Opened, verdict, made)
  <2>1. (\A i \in 1 .. Len(Opened.up) : FALSE) /\ (\A i \in 1 .. Len(Opened.dn) : FALSE)
    BY <1>5
  <2> QED BY <1>4, <1>5, <2>1 DEF CancelsAreAsked, UpAccounted, DnAccounted
<1>7. InUse(Opened)'
  BY <1>1, <1>4, <1>5 DEF InUse
<1>8. /\ \A r \in Req : asked[r] > 0 => asked'[r] > 0
      /\ req' >= req
      /\ \A r \in Req : Waits(Opened, r) => Waits(link[req], r) \/ (r = req /\ phase = "idle")
  BY <1>1, <1>2, <1>4
<1>9. IF fd' = req THEN InUse(Opened)' ELSE GivenUp(Opened)'
  BY <1>1, <1>7
<1>10. UNCHANGED <<engine, history>>
  BY <1>1
<1> QED BY <1>1, <1>2, <1>3, <1>4, <1>6, <1>8, <1>9, <1>10, ClientStep

LEMMA UnreachableInv == ASSUME LinkInv, Unreachable PROVE LinkInv'
<1>1. /\ phase = "idle" /\ req <= NReq /\ fd = 0 /\ Return("unreachable")
      /\ UNCHANGED <<fd, got, asked, link, engine, history>>
  BY DEF Unreachable
<1>2. req \in Conn /\ req \in Nat /\ fd' \in 0 .. NReq
  BY <1>1, LinkFacts DEF LinkInv, ClientTypes, Conn, Req
<1>3. ClientTypes' /\ AskedOnce' /\ Fresh' /\ req' = req + 1 /\ phase' = "idle"
  <2>1. Asks
    BY <1>1, SameAsked
  <2> QED BY <1>1, <1>2, <2>1, ReturnIs
<1>4. PICK k : k = link[req]
  OBVIOUS
<1>5. /\ Proper(k) /\ CancelsAreAsked(k) /\ UpAccounted(k, verdict)
      /\ DnAccounted(k, verdict, made) /\ GivenUp(k)
  <2>1. req # fd
    BY <1>1, <1>2 DEF Conn, Req
  <2> QED BY <1>2, <1>4, <2>1 DEF LinkInv
<1>6. CancelsAreAsked(k)' /\ GivenUp(k)'
  <2>1. CancelsAreAsked(k)'
    BY <1>1, <1>5 DEF CancelsAreAsked
  <2>2. GivenUp(k)'
    BY <1>2, <1>3, <1>5 DEF GivenUp, Req
  <2> QED BY <2>1, <2>2
<1>7. link' = [link EXCEPT ![req] = k]
  BY <1>1, <1>2, <1>4 DEF LinkInv
<1>8. /\ \A r \in Req : asked[r] > 0 => asked'[r] > 0
      /\ req' >= req
      /\ \A r \in Req : Waits(k, r) => Waits(link[req], r) \/ (r = req /\ phase = "idle")
  BY <1>1, <1>2, <1>3, <1>4
<1>9. fd = 0 /\ fd' = 0 /\ UNCHANGED <<engine, history>>
  BY <1>1
<1>10. IF fd' = req THEN InUse(k)' ELSE GivenUp(k)'
  BY <1>2, <1>6, <1>9 DEF Conn, Req
<1> QED BY <1>2, <1>3, <1>5, <1>6, <1>7, <1>8, <1>9, <1>10, ClientStep

LEMMA WriteGenInv == ASSUME LinkInv, WriteGen PROVE LinkInv'
<1>1. phase = "idle" /\ req <= NReq /\ fd # 0 /\ UNCHANGED <<got, asked, engine, history>>
  BY DEF WriteGen
<1>2. PICK l : l = link[fd]
  OBVIOUS
<1>3. /\ fd \in Conn /\ InUse(l) /\ Proper(l) /\ CancelsAreAsked(l)
      /\ UpAccounted(l, verdict) /\ DnAccounted(l, verdict, made)
      /\ req \in Req /\ req \in Nat /\ Frames \in [Req -> Nat]
  BY <1>1, <1>2, UseFacts, LinkFacts DEF LinkInv, ClientTypes, Req
<1>4. CASE link[fd].shut /\ GiveUp(link[fd], "lost")
  BY <1>1, <1>4, GiveUpHere
<1>5. CASE /\ link' = [link EXCEPT ![fd] = Up(@, Line("GEN", req))]
           /\ phase' = IF Frames[req] = 0 THEN "reading" ELSE "writing"
           /\ unsent' = Frames[req]
           /\ UNCHANGED <<req, fd, cancelled, outcome>>
  <2>1. PICK k : k = Up(l, Line("GEN", req))
    OBVIOUS
  <2>2. link' = [link EXCEPT ![fd] = k]
    BY <1>2, <1>3, <1>5, <2>1
  <2>3. ClientTypes'
    BY <1>1, <1>3, <1>5 DEF LinkInv, ClientTypes, Req
  <2>4. AskedOnce'
    BY <1>1, <1>5 DEF LinkInv, AskedOnce
  <2>5. Fresh'
    <3>1. \A r \in Req : ~Sent(r)' => ~Sent(r)
      BY <1>1, <1>5 DEF Sent
    <3> QED BY <1>1, <1>5, <3>1 DEF LinkInv, Fresh, history
  <2>6. \A r \in Req : ~Waits(l, r)
    BY <1>1, <1>3 DEF InUse
  <2>7. verdict[req] = "none"
    BY <1>1, <1>3 DEF LinkInv, Fresh, Sent
  <2>8. Line("GEN", req) \in UpLine
    BY <1>3, LineIs
  <2>9. /\ Proper(k) /\ UpAccounted(k, verdict) /\ NoNewX(l, k) /\ DnAccounted(k, verdict, made)
        /\ (k.hung => k.shut) /\ (k.worker = "run" /\ k.cancel => l.worker = "run" /\ l.cancel)
        /\ k.cur = l.cur /\ k.hung = l.hung
        /\ \A r \in Req : Waits(k, r) => r = req
        /\ ~k.shut => Waits(k, req) /\ FramesToCome(k, req, Frames[req])
    <3>1. CASE l.shut
      <4>1. k = l
        BY <2>1, <2>8, <1>3, <3>1, UpExtends
      <4> QED BY <1>3, <2>6, <3>1, <4>1 DEF NoNewX
    <3>2. CASE ~l.shut
      <4>1. Extends(l, k) /\ k.up[Len(k.up)] = Line("GEN", req)
        BY <2>1, <2>8, <1>3, <3>2, UpExtends
      <4>2. /\ Proper(k) /\ UpAccounted(k, verdict) /\ NoNewX(l, k)
            /\ \A q \in Req : Waits(k, q) <=> q = req
            /\ \A u \in Nat : u = Frames[req] => FramesToCome(k, req, u)
        BY <1>3, <2>6, <2>7, <3>2, <4>1, GenUp
      <4>3. Frames[req] \in Nat
        BY <1>3
      <4>4. DnAccounted(k, verdict, made)
        BY <1>3, <4>1 DEF DnAccounted, Extends
      <4>5. l.hung => l.shut
        BY <1>3 DEF InUse
      <4> QED BY <1>3, <3>2, <4>1, <4>2, <4>3, <4>4, <4>5 DEF Extends
    <3> QED BY <3>1, <3>2
  <2>10. CancelsAreAsked(k)'
    <3>1. \A i \in 1 .. Len(k.up) : Is(k.up, i, "X") => asked'[k.up[i].req] > 0
      BY <1>1, <1>3, <2>9 DEF NoNewX, CancelsAreAsked
    <3>2. k.worker = "run" /\ k.cancel => asked'[k.cur] > 0 \/ k.hung
      BY <1>1, <1>3, <2>9 DEF CancelsAreAsked
    <3> QED BY <3>1, <3>2 DEF CancelsAreAsked
  <2>11. InUse(k)'
    <3>1. phase' # "idle" /\ req' = req /\ unsent' = Frames[req]
      BY <1>5
    <3> QED BY <2>9, <3>1 DEF InUse
  <2>12. /\ \A r \in Req : asked[r] > 0 => asked'[r] > 0
         /\ req' >= req /\ fd' = fd
         /\ \A r \in Req : Waits(k, r) => Waits(link[fd], r) \/ (r = req /\ phase = "idle")
    BY <1>1, <1>3, <1>5, <2>9
  <2> QED BY <1>1, <1>3, <2>2, <2>3, <2>4, <2>5, <2>9, <2>10, <2>11, <2>12, ClientStep
<1> QED BY <1>4, <1>5 DEF WriteGen

LEMMA WriteFrameInv == ASSUME LinkInv, WriteFrame PROVE LinkInv'
<1>1. /\ phase = "writing" /\ UNCHANGED <<got, asked, engine, history>>
      /\ fd # 0 /\ req <= NReq /\ unsent \in Nat \ {0}
  BY DEF WriteFrame, LinkInv, ClientTypes
<1>2. PICK l : l = link[fd]
  OBVIOUS
<1>3. /\ fd \in Conn /\ InUse(l) /\ Proper(l) /\ CancelsAreAsked(l)
      /\ UpAccounted(l, verdict) /\ DnAccounted(l, verdict, made)
      /\ req \in Req /\ req \in Nat /\ Frames \in [Req -> Nat]
  BY <1>1, <1>2, UseFacts, LinkFacts DEF LinkInv, ClientTypes, Req
<1>4. CASE link[fd].shut /\ GiveUp(link[fd], "lost")
  BY <1>1, <1>4, GiveUpHere
<1>5. CASE /\ link' = [link EXCEPT ![fd] = Up(@, Line("F", req))]
           /\ unsent' = unsent - 1
           /\ phase' = IF unsent' = 0 THEN "reading" ELSE "writing"
           /\ UNCHANGED <<req, fd, cancelled, outcome>>
  <2>1. PICK k : k = Up(l, Line("F", req))
    OBVIOUS
  <2>2. link' = [link EXCEPT ![fd] = k]
    BY <1>2, <1>3, <1>5, <2>1
  <2>3. AskedOnce'
    BY <1>1, <1>5 DEF LinkInv, AskedOnce
  <2>4. Line("F", req) \in UpLine
    BY <1>3, LineIs
  <2>5. /\ Proper(k) /\ UpAccounted(k, verdict) /\ NoNewX(l, k) /\ DnAccounted(k, verdict, made)
        /\ (k.hung => k.shut) /\ (k.worker = "run" /\ k.cancel => l.worker = "run" /\ l.cancel)
        /\ k.cur = l.cur /\ k.hung = l.hung /\ k.shut = l.shut
        /\ \A r \in Req : Waits(k, r) <=> Waits(l, r)
        /\ ~k.shut => FramesToCome(k, req, unsent - 1)
    <3>1. CASE l.shut
      <4>1. k = l
        BY <2>1, <2>4, <1>3, <3>1, UpExtends
      <4> QED BY <1>3, <3>1, <4>1 DEF NoNewX
    <3>2. CASE ~l.shut
      <4>1. Extends(l, k) /\ k.up[Len(k.up)] = Line("F", req)
        BY <2>1, <2>4, <1>3, <3>2, UpExtends
      <4>2. FramesToCome(l, req, unsent)
        BY <1>1, <1>3, <3>2 DEF InUse
      <4>3. /\ Proper(k) /\ UpAccounted(k, verdict) /\ NoNewX(l, k)
            /\ \A q \in Req : Waits(k, q) <=> Waits(l, q)
            /\ FramesToCome(k, req, unsent - 1)
        BY <1>1, <1>3, <3>2, <4>1, <4>2, FrameUp
      <4>4. DnAccounted(k, verdict, made)
        BY <1>3, <4>1 DEF DnAccounted, Extends
      <4>5. l.hung => l.shut
        BY <1>3 DEF InUse
      <4> QED BY <1>3, <3>2, <4>1, <4>3, <4>4, <4>5 DEF Extends
    <3> QED BY <3>1, <3>2
  <2>6. CancelsAreAsked(k)'
    <3>1. \A i \in 1 .. Len(k.up) : Is(k.up, i, "X") => asked'[k.up[i].req] > 0
      BY <1>1, <1>3, <2>5 DEF NoNewX, CancelsAreAsked
    <3>2. k.worker = "run" /\ k.cancel => asked'[k.cur] > 0 \/ k.hung
      BY <1>1, <1>3, <2>5 DEF CancelsAreAsked
    <3> QED BY <3>1, <3>2 DEF CancelsAreAsked
  <2>7. /\ unsent' \in Nat /\ phase' \in {"writing", "reading"}
        /\ phase' = "writing" => unsent' > 0
    BY <1>1, <1>5
  <2>8. got' \in [Req -> Nat] /\ cancelled' \in BOOLEAN
    BY <1>1, <1>5 DEF LinkInv, ClientTypes
  <2>9. /\ \A r \in Req : Waits(k, r) <=> Waits(link[fd], r)
        /\ link[fd].shut => k.shut
        /\ phase' = "writing" /\ ~k.shut => FramesToCome(k, req, unsent')
    BY <1>2, <1>5, <2>5
  <2>10. /\ UNCHANGED <<req, fd, outcome, engine, history>>
         /\ \A r \in Req \ {req} : got'[r] = got[r]
         /\ \A r \in Req : asked[r] > 0 => asked'[r] > 0
    BY <1>1, <1>5
  <2> QED BY <1>1, <2>2, <2>3, <2>5, <2>6, <2>7, <2>8, <2>9, <2>10, UnderWay
<1> QED BY <1>4, <1>5 DEF WriteFrame

LEMMA AskNow ==
    ASSUME LinkInv, phase = "reading", ~cancelled, asked' = [asked EXCEPT ![req] = @ + 1]
    PROVE  /\ Asks /\ asked'[req] > 0 /\ \A r \in Req : asked[r] > 0 => asked'[r] > 0
           /\ \A r \in Req : asked'[r] > 0 => asked[r] > 0 \/ r = req
<1>1. req \in Req /\ req \in Nat /\ Req \subseteq Nat
  BY DEF LinkInv, ClientTypes, Req
<1>2. /\ asked \in [Req -> 0 .. 1]
      /\ \A r \in Req : asked[r] > 0 => r < req \/ (r = req /\ cancelled)
  BY DEF LinkInv, AskedOnce
<1>3. ~(asked[req] > 0) /\ asked[req] \in 0 .. 1
  BY <1>1, <1>2
<1>4. asked[req] = 0
  BY <1>3
<1>5. asked'[req] = 1 /\ \A r \in Req \ {req} : asked'[r] = asked[r]
  BY <1>1, <1>2, <1>4
<1>6. asked' \in [Req -> 0 .. 1]
  BY <1>1, <1>2, <1>4
<1>7. \A r \in Req : asked[r] > 0 => asked'[r] > 0
  BY <1>4, <1>5
<1>8. \A r \in Req : asked'[r] > 0 => asked[r] > 0 \/ r = req
  BY <1>5
<1>9. \A r \in Req : asked'[r] > 0 => r <= req
  BY <1>1, <1>2, <1>8
<1> QED BY <1>5, <1>6, <1>7, <1>8, <1>9 DEF Asks

(* The connection in use, whatever has been read of it.                     *)
Used(l) ==
    /\ Proper(l) /\ CancelsAreAsked(l) /\ UpAccounted(l, verdict)
    /\ DnAccounted(l, verdict, made) /\ (l.hung => l.shut) /\ (link[fd].shut => l.shut)
    /\ \A r \in Req : Waits(l, r) <=> Waits(link[fd], r)
    /\ l.shut \/ verdict[req] # "none" \/ Waits(l, req)

LEMMA SendXInv ==
    ASSUME LinkInv, phase = "reading", ~cancelled, NEW l, Used(l), SendX(l),
           UNCHANGED <<req, phase, unsent, fd, outcome, engine, history>>,
           got' \in [Req -> Nat], \A r \in Req \ {req} : got'[r] = got[r]
    PROVE  LinkInv'
<1>1. /\ req \in Req /\ req \in Nat /\ fd \in Conn /\ fd # 0 /\ unsent \in Nat
  BY UseFacts DEF LinkInv, ClientTypes, Req
<1>2. /\ Proper(l) /\ CancelsAreAsked(l) /\ UpAccounted(l, verdict)
      /\ DnAccounted(l, verdict, made) /\ (l.hung => l.shut) /\ (link[fd].shut => l.shut)
      /\ \A r \in Req : Waits(l, r) <=> Waits(link[fd], r)
      /\ l.shut \/ verdict[req] # "none" \/ Waits(l, req)
  BY DEF Used
<1>3. cancelled' = TRUE /\ asked' = [asked EXCEPT ![req] = @ + 1]
  BY DEF SendX
<1>4. /\ Asks /\ asked'[req] > 0 /\ \A r \in Req : asked[r] > 0 => asked'[r] > 0
      /\ \A r \in Req : asked'[r] > 0 => asked[r] > 0 \/ r = req
  BY <1>3, AskNow
<1>5. AskedOnce'
  <2>1. \A r \in Req : asked'[r] > 0 => r < req' \/ (r = req' /\ cancelled')
    BY <1>1, <1>3, <1>4 DEF Asks, Req
  <2> QED BY <1>3, <1>4, <2>1 DEF AskedOnce, Asks
<1>6. Line("X", req) \in UpLine
  BY <1>1, LineIs
<1>7. /\ \A i \in 1 .. Len(l.up) : Is(l.up, i, "X") => asked'[l.up[i].req] > 0
      /\ l.worker = "run" /\ l.cancel => asked'[l.cur] > 0 \/ l.hung
  <2>1. (\A i \in 1 .. Len(l.up) : l.up[i].req \in Req) /\ (l.worker = "run" => l.cur \in Req)
    BY <1>2, LinesKnown DEF Proper, OneAtATime
  <2> QED BY <1>2, <1>4, <2>1 DEF CancelsAreAsked
<1>8. CASE link' = [link EXCEPT ![fd] = Up(l, Line("X", req))]
  <2>1. PICK k : k = Up(l, Line("X", req))
    OBVIOUS
  <2>2. link' = [link EXCEPT ![fd] = k]
    BY <1>8, <2>1
  <2>3. /\ Proper(k) /\ UpAccounted(k, verdict) /\ DnAccounted(k, verdict, made)
        /\ (k.hung => k.shut) /\ CancelsAreAsked(k)' /\ k.shut = l.shut
        /\ \A r \in Req : Waits(k, r) <=> Waits(l, r)
    <3>1. CASE l.shut
      <4>1. k = l
        BY <1>2, <1>6, <2>1, <3>1, UpExtends
      <4>2. CancelsAreAsked(k)'
        BY <1>7, <4>1 DEF CancelsAreAsked
      <4> QED BY <1>2, <3>1, <4>1, <4>2
    <3>2. CASE ~l.shut
      <4>1. Extends(l, k) /\ k.up[Len(k.up)] = Line("X", req)
        BY <1>2, <1>6, <2>1, <3>2, UpExtends
      <4>2. verdict[req] # "none" \/ Waits(l, req)
        BY <1>2, <3>2
      <4>3. /\ Proper(k) /\ UpAccounted(k, verdict)
            /\ \A q \in Req : Waits(k, q) <=> Waits(l, q)
            /\ \A i \in 1 .. Len(k.up) : Is(k.up, i, "X") =>
                \/ k.up[i].req = req
                \/ \E j \in 1 .. Len(l.up) : Is(l.up, j, "X") /\ l.up[j].req = k.up[i].req
        BY <1>1, <1>2, <3>2, <4>1, <4>2, XUp
      <4>4. DnAccounted(k, verdict, made)
        BY <1>2, <4>1 DEF DnAccounted, Extends
      <4>5. CancelsAreAsked(k)'
        <5>1. \A i \in 1 .. Len(k.up) : Is(k.up, i, "X") => asked'[k.up[i].req] > 0
          BY <1>4, <1>7, <4>3
        <5>2. k.worker = "run" /\ k.cancel => asked'[k.cur] > 0 \/ k.hung
          BY <1>7, <4>1 DEF Extends
        <5> QED BY <5>1, <5>2 DEF CancelsAreAsked
      <4> QED BY <1>2, <4>1, <4>3, <4>4, <4>5 DEF Extends
    <3> QED BY <3>1, <3>2
  <2>4. /\ phase' \in {"writing", "reading"} /\ unsent' \in Nat /\ cancelled' \in BOOLEAN
        /\ phase' # "writing"
    BY <1>1, <1>3
  <2>5. /\ \A r \in Req : Waits(k, r) <=> Waits(link[fd], r)
        /\ link[fd].shut => k.shut
    BY <1>2, <2>3
  <2> QED BY <1>4, <1>5, <2>2, <2>3, <2>4, <2>5, UnderWay
<1>9. ASSUME l.shut, NEW d \in Prefixes(l.dn),
             link' = [link EXCEPT ![fd] = [l EXCEPT !.hung = TRUE, !.dn = d]]
      PROVE  LinkInv'
  <2>1. PICK k : k = [l EXCEPT !.hung = TRUE, !.dn = d]
    OBVIOUS
  <2>2. l \in LinkRecord /\ SaysHow(l) /\ l.dn \in Seq(DnLine) /\ l.up = <<>> /\ l.worker = "none"
        /\ ~l.in_flight /\ l.reader = "gone"
    BY <1>2, <1>9 DEF Proper, LinkRecord, OneAtATime
  <2>3. /\ d \in Seq(DnLine) /\ Len(d) \in Nat /\ Len(d) <= Len(l.dn) /\ Len(l.dn) \in Nat
        /\ \A i \in 1 .. Len(d) : d[i] = l.dn[i]
    BY <1>9, <2>2, PrefixIs
  <2>4. /\ k \in LinkRecord /\ k.dn = d /\ k.hung /\ k.up = <<>> /\ k.worker = "none"
        /\ ~k.in_flight /\ k.reader = "gone" /\ k.shut
    BY <1>9, <2>1, <2>2, <2>3 DEF LinkRecord
  <2>5. \A i \in 1 .. Len(k.dn) : i \in 1 .. Len(l.dn) /\ k.dn[i] = l.dn[i]
    BY <2>3, <2>4
  <2>6. SaysHow(k)
    BY <2>2, <2>4, <2>5 DEF SaysHow, Is
  <2>7. Proper(k) /\ \A r \in Req : ~Waits(k, r)
    BY <2>4, <2>6, NoLines
  <2>8. \A i \in 1 .. Len(k.up) : FALSE
    BY <2>4
  <2>9. UpAccounted(k, verdict) /\ CancelsAreAsked(k)'
    BY <2>4, <2>7, <2>8 DEF UpAccounted, CancelsAreAsked
  <2>10. DnAccounted(k, verdict, made)
    BY <1>2, <2>4, <2>5 DEF DnAccounted, Is
  <2>11. \A r \in Req : ~Waits(l, r)
    <3>1. \A i \in 1 .. Len(l.up) : FALSE
      BY <2>2
    <3> QED BY <2>2, <3>1 DEF Waits
  <2>12. /\ phase' \in {"writing", "reading"} /\ unsent' \in Nat /\ cancelled' \in BOOLEAN
         /\ phase' # "writing"
    BY <1>1, <1>3
  <2>13. \A r \in Req : Waits(k, r) <=> Waits(link[fd], r)
    BY <1>2, <2>7, <2>11
  <2>14. link' = [link EXCEPT ![fd] = k]
    BY <1>9, <2>1
  <2> QED BY <1>4, <1>5, <2>4, <2>7, <2>9, <2>10, <2>12, <2>13, <2>14, UnderWay
<1> QED BY <1>8, <1>9 DEF SendX

LEMMA UsedHere == ASSUME LinkInv, phase = "reading" PROVE Used(link[fd])
<1>1. fd # 0
  BY DEF LinkInv, ClientTypes
<1> QED BY <1>1, UseFacts DEF Used, InUse

LEMMA UsedRead ==
    ASSUME LinkInv, phase = "reading", link[fd].dn # <<>>
    PROVE  /\ Used(Read) /\ Head(link[fd].dn) = link[fd].dn[1] /\ link[fd].dn[1] \in DnLine
           /\ Read.hung = link[fd].hung /\ Read.shut = link[fd].shut
           /\ IF link[fd].dn[1].kind = "D" THEN verdict[link[fd].dn[1].req] # "none"
              ELSE made[link[fd].dn[1].req] > 0
<1>1. PICK l : l = link[fd]
  OBVIOUS
<1>2. Used(l)
  BY <1>1, UsedHere
<1>3. PICK k : k = [l EXCEPT !.dn = Tail(@)]
  OBVIOUS
<1>4. /\ Proper(k) /\ UpAccounted(k, verdict) /\ DnAccounted(k, verdict, made)
      /\ k.up = l.up /\ k.hung = l.hung /\ k.shut = l.shut
      /\ k.worker = l.worker /\ k.cancel = l.cancel /\ k.cur = l.cur
      /\ \A r \in Req : Waits(k, r) <=> Waits(l, r)
      /\ Head(l.dn) = l.dn[1] /\ l.dn[1] \in DnLine
      /\ IF Is(l.dn, 1, "D") THEN verdict[l.dn[1].req] # "none" ELSE made[l.dn[1].req] > 0
  <2>1. Proper(l) /\ l.dn # <<>> /\ UpAccounted(l, verdict) /\ DnAccounted(l, verdict, made)
    BY <1>1, <1>2 DEF Used
  <2> DEFINE z == [l EXCEPT !.dn = Tail(@)]
  <2>2. /\ Proper(z) /\ UpAccounted(z, verdict) /\ DnAccounted(z, verdict, made)
        /\ z.up = l.up /\ z.hung = l.hung /\ z.shut = l.shut
        /\ z.worker = l.worker /\ z.cancel = l.cancel /\ z.cur = l.cur
        /\ \A r \in Req : Waits(z, r) <=> Waits(l, r)
        /\ Head(l.dn) = l.dn[1] /\ l.dn[1] \in DnLine
        /\ IF Is(l.dn, 1, "D") THEN verdict[l.dn[1].req] # "none" ELSE made[l.dn[1].req] > 0
    BY <2>1, ReadIs
  <2>3. k = z
    BY <1>3
  <2> HIDE DEF z
  <2> QED BY <2>2, <2>3
<1>5. CancelsAreAsked(k)
  BY <1>2, <1>4 DEF Used, CancelsAreAsked
<1>6. req \in Req
  BY DEF LinkInv, ClientTypes, Req
<1>7. Used(k)
  BY <1>1, <1>2, <1>4, <1>5, <1>6 DEF Used
<1>8. Read = k
  BY <1>1, <1>3 DEF Read
<1> QED BY <1>1, <1>4, <1>7, <1>8 DEF Is

LEMMA HeartbeatInv == ASSUME LinkInv, Heartbeat PROVE LinkInv'
<1>1. /\ phase = "reading" /\ ~cancelled /\ SendX(link[fd])
      /\ UNCHANGED <<req, phase, unsent, fd, outcome, got, engine, history>>
  BY DEF Heartbeat
<1>2. Used(link[fd]) /\ got' \in [Req -> Nat]
  BY <1>1, UsedHere DEF LinkInv, ClientTypes
<1> QED BY <1>1, <1>2, SendXInv

(* Reading on does not end the request.                                     *)
LEMMA ReadOn ==
    ASSUME LinkInv, phase = "reading", link[fd].dn # <<>>,
           link' = [link EXCEPT ![fd] = Read],
           UNCHANGED <<req, phase, unsent, fd, outcome, cancelled, asked, engine, history>>,
           got' \in [Req -> Nat], \A r \in Req \ {req} : got'[r] = got[r]
    PROVE  LinkInv'
<1>1. PICK k : k = Read
  OBVIOUS
<1>2. Used(k)
  BY <1>1, UsedRead
<1>3. /\ Proper(k) /\ CancelsAreAsked(k) /\ UpAccounted(k, verdict)
      /\ DnAccounted(k, verdict, made) /\ (k.hung => k.shut) /\ (link[fd].shut => k.shut)
      /\ \A r \in Req : Waits(k, r) <=> Waits(link[fd], r)
  BY <1>2 DEF Used
<1>4. CancelsAreAsked(k)'
  BY <1>3 DEF CancelsAreAsked
<1>5. AskedOnce'
  BY DEF LinkInv, AskedOnce
<1>6. /\ unsent' \in Nat /\ cancelled' \in BOOLEAN /\ phase' \in {"writing", "reading"}
      /\ phase' # "writing" /\ \A r \in Req : asked[r] > 0 => asked'[r] > 0
  BY DEF LinkInv, ClientTypes
<1>7. link' = [link EXCEPT ![fd] = k]
  BY <1>1
<1> QED BY <1>3, <1>4, <1>5, <1>6, <1>7, UnderWay

LEMMA ReadTInv == ASSUME LinkInv, ReadT PROVE LinkInv'
<1>1. /\ phase = "reading" /\ link[fd].dn # <<>>
      /\ got' = [got EXCEPT ![req] = @ + 1]
      /\ UNCHANGED <<req, phase, unsent, fd, outcome, engine, history>>
  BY DEF ReadT, Arrived
<1>2. req \in Req /\ got \in [Req -> Nat]
  BY <1>1 DEF LinkInv, ClientTypes, Req
<1>3. got' \in [Req -> Nat] /\ \A r \in Req \ {req} : got'[r] = got[r]
  BY <1>1, <1>2
<1>4. CASE link' = [link EXCEPT ![fd] = Read] /\ UNCHANGED <<cancelled, asked>>
  BY <1>1, <1>3, <1>4, ReadOn
<1>5. CASE ~cancelled /\ SendX(Read)
  <2>1. PICK k : k = Read
    OBVIOUS
  <2>2. Used(k) /\ SendX(k)
    BY <1>1, <1>5, <2>1, UsedRead
  <2> QED BY <1>1, <1>3, <1>5, <2>2, SendXInv
<1> QED BY <1>4, <1>5 DEF ReadT

LEMMA SkipLineInv == ASSUME LinkInv, SkipLine PROVE LinkInv'
<1>1. /\ phase = "reading" /\ link[fd].dn # <<>> /\ link' = [link EXCEPT ![fd] = Read]
      /\ UNCHANGED <<req, phase, unsent, fd, outcome, cancelled, asked, got, engine, history>>
  BY DEF SkipLine, client
<1>2. got' \in [Req -> Nat] /\ \A r \in Req \ {req} : got'[r] = got[r]
  BY <1>1 DEF LinkInv, ClientTypes
<1> QED BY <1>1, <1>2, ReadOn

(* A D line is about a request that is judged, so nobody waits on it.       *)
LEMMA ReadDInv == ASSUME LinkInv, ReadD PROVE LinkInv'
<1>1. PICK k : k = Read
  OBVIOUS
<1>2. PICK m : m = link[fd].dn[1]
  OBVIOUS
<1>3. /\ phase = "reading" /\ link[fd].dn # <<>> /\ Head(link[fd].dn) = m
      /\ m.kind = "D" /\ m.req = req /\ link' = [link EXCEPT ![fd] = k] /\ Return(m.why)
      /\ fd' = (IF link[fd].hung THEN 0 ELSE fd)
      /\ UNCHANGED <<got, asked, engine, history>>
  <2>1. phase = "reading" /\ link[fd].dn # <<>>
    BY DEF ReadD, Arrived
  <2>2. Head(link[fd].dn) = m
    BY <1>2, <2>1, UsedRead
  <2> QED BY <1>1, <2>1, <2>2 DEF ReadD, Arrived
<1>4. /\ Used(k) /\ m \in DnLine /\ k.hung = link[fd].hung /\ verdict[req] # "none"
  BY <1>1, <1>2, <1>3, UsedRead
<1>5. /\ req \in Req /\ req \in Nat /\ fd \in Conn /\ fd # 0 /\ req <= NReq /\ fd \in 0 .. NReq
      /\ InUse(link[fd])
  BY <1>3, UseFacts DEF LinkInv, ClientTypes, Req
<1>6. m.why \in Judged
  <2>1. m.why \in {""} \cup Judged
    BY <1>4 DEF DnLine
  <2>2. m.why # ""
    <3>1. SaysHow(link[fd]) /\ 1 \in 1 .. Len(link[fd].dn)
      <4>1. Proper(link[fd]) /\ link[fd].dn \in Seq(DnLine)
        BY <1>5, UseFacts DEF Proper, LinkRecord
      <4>2. Len(link[fd].dn) \in Nat \ {0}
        BY <1>3, <4>1
      <4> QED BY <4>1, <4>2 DEF Proper
    <3> QED BY <1>2, <1>3, <3>1 DEF SaysHow, Is
  <2> QED BY <2>1, <2>2
<1>7. ClientTypes' /\ AskedOnce' /\ Fresh' /\ req' = req + 1 /\ phase' = "idle"
  <2>1. fd' \in 0 .. NReq
    BY <1>3, <1>5, LinkFacts
  <2>2. Asks
    BY <1>3, SameAsked
  <2> QED BY <1>3, <1>5, <1>6, <2>1, <2>2, ReturnIs
<1>8. /\ Proper(k) /\ CancelsAreAsked(k) /\ UpAccounted(k, verdict)
      /\ DnAccounted(k, verdict, made) /\ (k.hung => k.shut)
      /\ \A r \in Req : Waits(k, r) <=> Waits(link[fd], r)
  BY <1>4 DEF Used
<1>9. \A r \in Req : ~Waits(k, r)
  <2>1. \A r \in Req : Waits(k, r) => r = req /\ verdict[r] = "none"
    BY <1>5, <1>8 DEF InUse, UpAccounted
  <2> QED BY <1>4, <2>1
<1>10. CancelsAreAsked(k)'
  BY <1>3, <1>8 DEF CancelsAreAsked
<1>11. IF fd' = fd THEN InUse(k)' ELSE GivenUp(k)'
  <2>1. InUse(k)'
    BY <1>7, <1>8, <1>9 DEF InUse
  <2>2. k.hung => GivenUp(k)'
    BY <1>9 DEF GivenUp
  <2> QED BY <1>3, <1>4, <2>1, <2>2
<1>12. /\ fd' = fd \/ fd' = 0
       /\ req' >= req
       /\ \A r \in Req : asked[r] > 0 => asked'[r] > 0
       /\ \A r \in Req : Waits(k, r) => Waits(link[fd], r) \/ (r = req /\ phase = "idle")
  BY <1>3, <1>5, <1>7, <1>9
<1> QED BY <1>3, <1>5, <1>7, <1>8, <1>10, <1>11, <1>12, ClientStep

LEMMA ReadEofInv == ASSUME LinkInv, ReadEof PROVE LinkInv'
<1>1. /\ phase = "reading" /\ GiveUp(link[fd], "lost")
      /\ UNCHANGED <<got, asked, engine, history>>
  BY DEF ReadEof
<1>2. fd # 0 /\ req <= NReq
  BY <1>1 DEF LinkInv, ClientTypes
<1> QED BY <1>1, <1>2, GiveUpHere

LEMMA GraceTimeoutInv == ASSUME LinkInv, GraceTimeout PROVE LinkInv'
<1>1. /\ phase = "reading" /\ GiveUp(link[fd], "timeout")
      /\ UNCHANGED <<got, asked, engine, history>>
  BY DEF GraceTimeout
<1>2. fd # 0 /\ req <= NReq
  BY <1>1 DEF LinkInv, ClientTypes
<1> QED BY <1>1, <1>2, GiveUpHere

LEMMA IdleTimeoutInv == ASSUME LinkInv, IdleTimeout PROVE LinkInv'
<1>1. PICK l : l = link[fd]
  OBVIOUS
<1>2. PICK k : k = Up(l, Line("X", req))
  OBVIOUS
<1>3. /\ phase = "reading" /\ ~l.shut /\ ~cancelled
      /\ asked' = [asked EXCEPT ![req] = @ + 1]
      /\ GiveUp(k, "timeout") /\ UNCHANGED <<got, engine, history>>
  BY <1>1, <1>2 DEF IdleTimeout
<1>4. fd # 0 /\ req <= NReq /\ req \in Req /\ Line("X", req) \in UpLine
  BY <1>3, LineIs DEF LinkInv, ClientTypes, Req
<1>5. /\ Asks /\ asked'[req] > 0 /\ \A r \in Req : asked[r] > 0 => asked'[r] > 0
  BY <1>3, AskNow
<1>6. Used(l)
  BY <1>1, <1>3, UsedHere
<1>7. /\ Proper(l) /\ CancelsAreAsked(l) /\ UpAccounted(l, verdict)
      /\ DnAccounted(l, verdict, made)
      /\ \A r \in Req : Waits(l, r) <=> Waits(link[fd], r)
      /\ l.shut \/ verdict[req] # "none" \/ Waits(l, req)
  BY <1>6 DEF Used
<1>8. Extends(l, k) /\ k.up[Len(k.up)] = Line("X", req)
  BY <1>2, <1>3, <1>4, <1>7, UpExtends
<1>9. verdict[req] # "none" \/ Waits(l, req)
  BY <1>3, <1>7
<1>10. /\ Proper(k) /\ UpAccounted(k, verdict)
       /\ \A q \in Req : Waits(k, q) <=> Waits(l, q)
       /\ \A i \in 1 .. Len(k.up) : Is(k.up, i, "X") =>
            \/ k.up[i].req = req
            \/ \E j \in 1 .. Len(l.up) : Is(l.up, j, "X") /\ l.up[j].req = k.up[i].req
  BY <1>3, <1>4, <1>7, <1>8, <1>9, XUp
<1>11. DnAccounted(k, verdict, made)
  BY <1>7, <1>8 DEF DnAccounted, Extends
<1>12. \A i \in 1 .. Len(k.up) : Is(k.up, i, "X") => asked'[k.up[i].req] > 0
  <2>1. \A j \in 1 .. Len(l.up) : l.up[j].req \in Req
    BY <1>7, LinesKnown
  <2>2. \A j \in 1 .. Len(l.up) : Is(l.up, j, "X") => asked'[l.up[j].req] > 0
    BY <1>5, <1>7, <2>1 DEF CancelsAreAsked
  <2> QED BY <1>5, <1>10, <2>2
<1>13. \A r \in Req : Waits(k, r) => Waits(link[fd], r)
  BY <1>7, <1>10
<1> QED BY <1>3, <1>4, <1>5, <1>10, <1>11, <1>12, <1>13, GiveUpInv

LEMMA RestartInv == ASSUME LinkInv, Restart PROVE LinkInv'
BY DEF LinkInv, Restart, client, history, ClientTypes, EngineTypes, AskedOnce, Fresh, Sent,
       Unshared, CancelsAreAsked, InUse, GivenUp

LEMMA InitInv == ASSUME LinkAssumption, Init PROVE LinkInv
<1>1. /\ NReq \in Nat \ {0} /\ MaxTokens \in Nat /\ MaxCrashes \in Nat
  BY DEF LinkAssumption
<1>2. ClientTypes /\ EngineTypes /\ AskedOnce /\ Fresh
  <2>1. ClientTypes
    <3>1. outcome \in [Req -> {"none", "timeout", "lost", "unreachable"} \cup Judged]
      BY DEF Init
    <3>2. got \in [Req -> Nat]
      BY DEF Init
    <3>3. req \in 1 .. NReq + 1 /\ fd \in 0 .. NReq
      BY <1>1 DEF Init
    <3>4. phase = "idle" /\ unsent = 0 /\ cancelled = FALSE
      BY DEF Init
    <3> QED BY <3>1, <3>2, <3>3, <3>4 DEF ClientTypes
  <2>2. EngineTypes
    BY <1>1 DEF Init, EngineTypes
  <2>3. AskedOnce
    BY <1>1 DEF Init, AskedOnce
  <2>4. Fresh
    BY DEF Init, Fresh
  <2> QED BY <2>1, <2>2, <2>3, <2>4
<1>3. link = [c \in Conn |-> Closed]
  BY DEF Init
<1>4. /\ Closed \in LinkRecord /\ Closed.up = <<>> /\ Closed.dn = <<>> /\ Closed.hung
      /\ Closed.shut /\ Closed.reader = "gone" /\ ~Closed.in_flight /\ Closed.worker = "none"
  BY ClosedIs
<1>5. Proper(Closed) /\ (\A r \in Req : ~Waits(Closed, r)) /\ CancelsAreAsked(Closed)
  BY <1>4, NoLines
<1>6. UpAccounted(Closed, verdict) /\ DnAccounted(Closed, verdict, made) /\ GivenUp(Closed)
  <2>1. (\A i \in 1 .. Len(Closed.up) : FALSE) /\ (\A i \in 1 .. Len(Closed.dn) : FALSE)
    BY <1>4
  <2> QED BY <1>4, <1>5, <2>1 DEF UpAccounted, DnAccounted, GivenUp
<1>7. \A c \in Conn : c # fd /\ link[c] = Closed
  BY <1>1, <1>3 DEF Init, Conn, Req
<1>8. Unshared
  BY <1>5, <1>7 DEF Unshared
<1>9. link \in [Conn -> LinkRecord]
  BY <1>3, <1>4
<1> QED BY <1>2, <1>5, <1>6, <1>7, <1>8, <1>9 DEF LinkInv

LEMMA NextInv == ASSUME LinkInv, [Next]_vars PROVE LinkInv'
<1>1. CASE Client
  BY <1>1, ConnectInv, UnreachableInv, WriteGenInv, WriteFrameInv, ReadTInv, ReadDInv,
     SkipLineInv, ReadEofInv, IdleTimeoutInv, GraceTimeoutInv DEF Client
<1>2. CASE Heartbeat \/ Crash \/ Restart
  BY <1>2, HeartbeatInv, CrashInv, RestartInv
<1>3. CASE \E c \in Conn : Reader(c) \/ Worker(c)
  BY <1>3, ReaderInv, EmitInv, EndInv, WriteDInv, ExitInv DEF Worker
<1>4. CASE AllServed \/ UNCHANGED vars
  <2>1. UNCHANGED <<req, phase, unsent, fd, cancelled, outcome, got, asked, link, alive,
                    crashes, made, verdict>>
    BY <1>4 DEF AllServed, vars, client, engine, history
  <2>2. LinkAssumption' /\ ClientTypes' /\ EngineTypes' /\ AskedOnce' /\ Fresh' /\ Unshared'
    BY <2>1 DEF LinkInv, ClientTypes, EngineTypes, AskedOnce, Fresh, Sent, Unshared
  <2> QED BY <2>1, <2>2 DEF LinkInv, CancelsAreAsked, InUse, GivenUp
<1> QED BY <1>1, <1>2, <1>3, <1>4 DEF Next

-----------------------------------------------------------------------------
(* The inductive invariant of the protocol: who waits on which connection,  *)
(* which lines may still be on their way and what they tell of tokens made  *)
(* and of judgements.                                                       *)
THEOREM LinkInvariant == ASSUME LinkAssumption PROVE Spec => []LinkInv
<1>1. Init => LinkInv
  BY InitInv
<1>2. LinkInv /\ [Next]_vars => LinkInv'
  BY NextInv
<1> QED BY <1>1, <1>2, PTL DEF Spec

(* A GEN that its client sends the moment it has read the D line before it  *)
(* is never taken for a pipelined one: whenever the reader has a GEN in     *)
(* hand no worker runs and in_flight has been dropped.                      *)
THEOREM NeverPipelined == ASSUME LinkAssumption PROVE Spec => []NotTakenForPipelined
<1>1. LinkInv => NotTakenForPipelined
  BY DEF LinkInv, NotTakenForPipelined, Proper, OneAtATime
<1> QED BY <1>1, LinkInvariant, PTL

(* A request whose GEN is refused, overlong or broken, has its frames read  *)
(* or its connection closed: at the top of its loop the reader never finds  *)
(* the bytes of a frame.                                                    *)
THEOREM FramesAreDrained == ASSUME LinkAssumption PROVE Spec => []FramesAreNotLines
<1>1. ASSUME LinkInv PROVE FramesAreNotLines
  <2> SUFFICES ASSUME NEW c \in Conn, link[c].reader = "top", link[c].up # <<>>,
                      Head(link[c].up).kind = "F"
               PROVE  FALSE
    BY DEF FramesAreNotLines
  <2>1. Proper(link[c])
    BY <1>1 DEF LinkInv
  <2>2. Is(link[c].up, 1, "F") /\ 1 \in 1 .. Len(link[c].up)
    BY <2>1, TookIs DEF Is, Proper
  <2>3. \E g \in 1 .. 1 - 1 : Is(link[c].up, g, "GEN")
    BY <2>1, <2>2 DEF Proper, FramesInLine
  <2> QED BY <2>3
<1> QED BY <1>1, LinkInvariant, PTL

(* An X that crossed the D line of its request cancels nobody: a worker is  *)
(* cancelled by an X for what it runs, or because its client hung up.       *)
THEOREM CancelsAreOwn == ASSUME LinkAssumption PROVE Spec => []CancelIsOwn
<1>1. LinkInv => CancelIsOwn
  BY DEF LinkInv, CancelIsOwn, CancelsAreAsked
<1> QED BY <1>1, LinkInvariant, PTL

(* One X at most is sent for a request, by a timeout, a client that left    *)
(* between lines and a token nobody wanted together.                        *)
THEOREM OneCancel == ASSUME LinkAssumption PROVE Spec => []CancelledOnce
<1>1. ASSUME LinkInv PROVE CancelledOnce
  <2>1. \A r \in Req : asked[r] \in 0 .. 1
    BY <1>1 DEF LinkInv, AskedOnce
  <2> QED BY <2>1 DEF CancelledOnce
<1> QED BY <1>1, LinkInvariant, PTL

(* The connection of the request under way is not shared, and what a        *)
(* client gave up still waits, if at all, on a connection that has been     *)
(* closed behind it: no two requests wait on one connection.                *)
Alone ==
    /\ \A c \in Conn, r, q \in Req : Waits(link[c], r) /\ Waits(link[c], q) => r = q
    /\ \A c \in Conn, r \in Req : Waits(link[c], r) => r <= req /\ verdict[r] = "none"
    /\ \A c \in Conn, r \in Req : Waits(link[c], r) /\ r < req => c # fd /\ link[c].hung

THEOREM RequestsStayApart == ASSUME LinkAssumption PROVE Spec => []Alone
<1>1. ASSUME LinkInv PROVE Alone
  <2>1. ASSUME NEW c \in Conn, NEW r \in Req, NEW q \in Req,
               Waits(link[c], r), Waits(link[c], q)
        PROVE  r = q
    <3>1. OneAtATime(link[c])
      BY <1>1 DEF LinkInv, Proper
    <3> QED BY <2>1, <3>1 DEF OneAtATime, Waits
  <2>2. ASSUME NEW c \in Conn, NEW r \in Req, Waits(link[c], r)
        PROVE  /\ r <= req /\ verdict[r] = "none"
               /\ r < req => c # fd /\ link[c].hung
    <3>1. req \in Nat /\ r \in Nat
      BY <1>1 DEF LinkInv, ClientTypes, Req
    <3>2. verdict[r] = "none"
      BY <1>1, <2>2 DEF LinkInv, UpAccounted
    <3>3. IF c = fd THEN r = req ELSE r < req /\ link[c].hung
      BY <1>1, <2>2 DEF LinkInv, InUse, GivenUp
    <3> QED BY <3>1, <3>2, <3>3
  <2> QED BY <2>1, <2>2 DEF Alone
<1> QED BY <1>1, LinkInvariant, PTL

-----------------------------------------------------------------------------
(* What comes down on the connection in use.  Behind lines that earlier     *)
(* requests left there come the tokens of the present one that were made    *)
(* and not yet delivered, k of them, and then a D line of its own.          *)

Parted(s, r, a, k) ==
    /\ a + k <= Len(s)
    /\ \A i \in 1 .. a : s[i].req # r
    /\ \A i \in a + 1 .. a + k : Is(s, i, "T") /\ s[i].req = r
    /\ a + k < Len(s) => Is(s, a + k + 1, "D") /\ s[a + k + 1].req = r

(* Of p tokens made g were delivered.  w is the verdict; the D line says    *)
(* it, or answers an X.                                                     *)
ToldAt(l, r, g, p, w, a, k) ==
    /\ Parted(l.dn, r, a, k) /\ g + k <= p
    /\ ~l.shut => g + k = p
    /\ a + k < Len(l.dn) => g + k = p /\ l.dn[a + k + 1].why \in {"cancel", w}
Told(l, r, g, p, w) == \E a, k \in Nat : ToldAt(l, r, g, p, w, a, k)

Ended(s, r) == \E i \in 1 .. Len(s) : Is(s, i, "D") /\ s[i].req = r

(* What could still put a line of another request behind a token: a worker  *)
(* that is not the present one's, or an X in front of the engine.           *)
Ahead(l, r, p) ==
    ~l.shut =>
        /\ p > 0 => /\ l.cur = r /\ l.reader # "frames"
                    /\ \A i \in 1 .. Len(l.up) : ~Is(l.up, i, "GEN")
        /\ \A i \in 1 .. Len(l.up) : Is(l.up, i, "X") /\ l.up[i].req # r =>
             \E g \in i + 1 .. Len(l.up) : Is(l.up, g, "GEN")
        /\ l.worker = "tail" /\ l.cur = r => Ended(l.dn, r)

Flows(l, p, w) == Told(l, req, got[req], p, w) /\ Ahead(l, req, p)

FlowInv ==
    /\ phase # "idle" => Flows(link[fd], made[req], verdict[req])
    /\ \A r \in Req : got[r] <= made[r]

LEMMA EndedIs ==
    ASSUME NEW s \in Seq(DnLine), NEW r, NEW a \in Nat, NEW k \in Nat, Parted(s, r, a, k)
    PROVE  Ended(s, r) <=> a + k < Len(s)
<1>1. Len(s) \in Nat
  OBVIOUS
<1>2. ASSUME a + k < Len(s) PROVE Ended(s, r)
  <2>1. a + k + 1 \in 1 .. Len(s)
    BY <1>1, <1>2
  <2> QED BY <1>2, <2>1 DEF Ended, Parted
<1>3. ASSUME NEW i \in 1 .. Len(s), Is(s, i, "D"), s[i].req = r, a + k = Len(s) PROVE FALSE
  <2>1. i \in 1 .. a \/ i \in a + 1 .. a + k
    BY <1>1, <1>3
  <2> QED BY <1>3, <2>1 DEF Parted, Is
<1> QED BY <1>1, <1>2, <1>3 DEF Ended, Parted

LEMMA ToldSame ==
    ASSUME NEW l, NEW k, l.dn \in Seq(DnLine), k.dn = l.dn, ~k.shut => ~l.shut,
           NEW r, NEW g, NEW p, NEW w, NEW v, Told(l, r, g, p, w),
           v = w \/ ~Ended(l.dn, r)
    PROVE  Told(k, r, g, p, v)
<1>1. PICK a \in Nat, n \in Nat : ToldAt(l, r, g, p, w, a, n)
  BY DEF Told
<1>2. v = w \/ ~(a + n < Len(l.dn))
  BY <1>1, EndedIs DEF ToldAt
<1>3. ToldAt(k, r, g, p, v, a, n)
  BY <1>1, <1>2 DEF ToldAt
<1> QED BY <1>3 DEF Told

LEMMA ToldCut ==
    ASSUME NEW l, NEW k, l.dn \in Seq(DnLine), k.dn \in Prefixes(l.dn), k.shut,
           NEW r, NEW g \in Nat, NEW p \in Nat, NEW w, Told(l, r, g, p, w)
    PROVE  Told(k, r, g, p, w)
<1>1. PICK a \in Nat, n \in Nat : ToldAt(l, r, g, p, w, a, n)
  BY DEF Told
<1>2. PICK d : d = k.dn
  OBVIOUS
<1>3. /\ Len(d) \in Nat /\ Len(d) <= Len(l.dn) /\ Len(l.dn) \in Nat
      /\ \A i \in 1 .. Len(d) : d[i] = l.dn[i]
  BY <1>2, PrefixIs
<1>4. CASE Len(d) <= a
  <2>1. \A i \in 1 .. Len(d) : i \in 1 .. a
    BY <1>1, <1>3, <1>4
  <2>2. Parted(d, r, Len(d), 0)
    BY <1>1, <1>3, <2>1 DEF Parted, ToldAt
  <2>3. ToldAt(k, r, g, p, w, Len(d), 0)
    BY <1>1, <1>2, <1>3, <2>2 DEF ToldAt
  <2> QED BY <1>3, <2>3 DEF Told
<1>5. CASE a < Len(d) /\ Len(d) <= a + n
  <2>1. PICK m \in Nat : m = Len(d) - a
    <3>1. Len(d) - a \in Nat
      BY <1>3, <1>5
    <3> QED BY <3>1
  <2>2. a + m = Len(d) /\ m <= n
    BY <1>3, <1>5, <2>1
  <2>3. (\A i \in 1 .. a : i \in 1 .. Len(d)) /\ \A i \in a + 1 .. a + m : i \in 1 .. Len(d)
    BY <1>3, <2>2
  <2>4. \A i \in a + 1 .. a + m : i \in a + 1 .. a + n
    BY <2>2
  <2>5. Parted(d, r, a, m)
    <3>1. \A i \in 1 .. a : d[i].req # r
      BY <1>1, <1>3, <2>3 DEF ToldAt, Parted
    <3>2. ASSUME NEW i \in a + 1 .. a + m PROVE Is(d, i, "T") /\ d[i].req = r
      <4>1. d[i] = l.dn[i] /\ i \in a + 1 .. a + n
        BY <1>3, <2>3, <2>4
      <4> QED BY <1>1, <4>1 DEF ToldAt, Parted, Is
    <3> QED BY <2>2, <3>1, <3>2 DEF Parted
  <2>6. ToldAt(k, r, g, p, w, a, m)
    BY <1>1, <1>2, <1>3, <2>2, <2>5 DEF ToldAt
  <2> QED BY <2>6 DEF Told
<1>6. CASE a + n < Len(d)
  <2>1. /\ a + n + 1 \in 1 .. Len(d)
        /\ (\A i \in 1 .. a : i \in 1 .. Len(d)) /\ \A i \in a + 1 .. a + n : i \in 1 .. Len(d)
    BY <1>3, <1>6
  <2>2. Parted(d, r, a, n)
    <3>1. \A i \in 1 .. a : d[i].req # r
      BY <1>1, <1>3, <2>1 DEF ToldAt, Parted
    <3>2. \A i \in a + 1 .. a + n : Is(d, i, "T") /\ d[i].req = r
      BY <1>1, <1>3, <2>1 DEF ToldAt, Parted, Is
    <3>3. Is(d, a + n + 1, "D") /\ d[a + n + 1].req = r
      BY <1>1, <1>3, <1>6, <2>1 DEF ToldAt, Parted, Is
    <3>4. a + n <= Len(d)
      BY <1>6, <1>3
    <3> QED BY <3>1, <3>2, <3>3, <3>4 DEF Parted
  <2>3. ToldAt(k, r, g, p, w, a, n)
    BY <1>1, <1>2, <1>3, <1>6, <2>1, <2>2 DEF ToldAt
  <2> QED BY <2>3 DEF Told
<1> QED BY <1>3, <1>4, <1>5, <1>6

(* A D line comes behind: of the present request, or of another one while   *)
(* no token waits to be read, or behind the D line of the present one.      *)
Closes(l, k, m, r, g, p, w, v) ==
    /\ l.dn \in Seq(DnLine) /\ m \in DnLine /\ m.kind = "D"
    /\ k.dn = Append(l.dn, m) /\ ~l.shut
    /\ g \in Nat /\ p \in Nat /\ Told(l, r, g, p, w)
    /\ v = w \/ ~Ended(l.dn, r)
    /\ m.req = r => Ended(l.dn, r) \/ m.why \in {"cancel", v}
    /\ m.req # r => Ended(l.dn, r) \/ p = 0

LEMMA ToldD ==
    ASSUME NEW l, NEW k, NEW m, NEW r, NEW g, NEW p, NEW w, NEW v,
           Closes(l, k, m, r, g, p, w, v)
    PROVE  Told(k, r, g, p, v)
<1> USE DEF Closes
<1>1. PICK a \in Nat, n \in Nat : ToldAt(l, r, g, p, w, a, n)
  BY DEF Told
<1>2. PICK d : d = k.dn
  OBVIOUS
<1>3. PICK len \in Nat : len = Len(l.dn)
  OBVIOUS
<1>4. Len(d) = len + 1 /\ d[len + 1] = m /\ \A i \in 1 .. len : d[i] = l.dn[i]
  BY <1>2, <1>3, AppendIs
<1>5. Ended(l.dn, r) <=> a + n < len
  BY <1>1, <1>3, EndedIs DEF ToldAt
<1>6. a + n <= len /\ g + n = p
  BY <1>1, <1>3 DEF ToldAt, Parted
<1>7. CASE a + n < len
  <2>1. /\ a + n + 1 \in 1 .. len
        /\ (\A i \in 1 .. a : i \in 1 .. len) /\ \A i \in a + 1 .. a + n : i \in 1 .. len
    BY <1>6, <1>7
  <2>2. Parted(d, r, a, n)
    <3>1. \A i \in 1 .. a : d[i].req # r
      BY <1>1, <1>4, <2>1 DEF ToldAt, Parted
    <3>2. \A i \in a + 1 .. a + n : Is(d, i, "T") /\ d[i].req = r
      BY <1>1, <1>4, <2>1 DEF ToldAt, Parted, Is
    <3>3. Is(d, a + n + 1, "D") /\ d[a + n + 1].req = r
      BY <1>1, <1>3, <1>4, <1>7, <2>1 DEF ToldAt, Parted, Is
    <3>4. a + n <= Len(d)
      BY <1>4, <1>7
    <3> QED BY <3>1, <3>2, <3>3, <3>4 DEF Parted
  <2>3. ToldAt(k, r, g, p, v, a, n)
    BY <1>1, <1>2, <1>3, <1>4, <1>5, <1>6, <1>7, <2>1, <2>2 DEF ToldAt
  <2>4. a + n < Len(d) /\ d \in Seq(DnLine)
    BY <1>2, <1>4, <1>7
  <2>5. Ended(d, r)
    BY <2>2, <2>4, EndedIs
  <2> QED BY <1>2, <2>3, <2>5 DEF Told
<1>8. CASE a + n = len /\ m.req = r
  <2>1. (\A i \in 1 .. a : i \in 1 .. len) /\ \A i \in a + 1 .. a + n : i \in 1 .. len
    BY <1>8
  <2>2. Parted(d, r, a, n)
    <3>1. \A i \in 1 .. a : d[i].req # r
      BY <1>1, <1>4, <2>1 DEF ToldAt, Parted
    <3>2. \A i \in a + 1 .. a + n : Is(d, i, "T") /\ d[i].req = r
      BY <1>1, <1>4, <2>1 DEF ToldAt, Parted, Is
    <3>3. Is(d, a + n + 1, "D") /\ d[a + n + 1].req = r
      BY <1>4, <1>8 DEF Is
    <3>4. a + n <= Len(d)
      BY <1>4, <1>8
    <3> QED BY <3>1, <3>2, <3>3, <3>4 DEF Parted
  <2>3. d[a + n + 1].why \in {"cancel", v}
    BY <1>4, <1>5, <1>8
  <2>4. ToldAt(k, r, g, p, v, a, n)
    BY <1>2, <1>6, <2>2, <2>3 DEF ToldAt
  <2>5. a + n < Len(d) /\ d \in Seq(DnLine)
    BY <1>2, <1>4, <1>8
  <2>6. Ended(d, r)
    BY <2>2, <2>5, EndedIs
  <2> QED BY <1>2, <2>4, <2>6 DEF Told
<1>9. CASE a + n = len /\ m.req # r
  <2>1. n = 0 /\ p = 0 /\ g = 0 /\ a = len
    BY <1>5, <1>6, <1>9
  <2>2. \A i \in 1 .. a + 1 : i \in 1 .. a \/ i = len + 1
    BY <2>1
  <2>3. \A i \in 1 .. a + 1 : d[i].req # r
    BY <1>1, <1>4, <1>9, <2>1, <2>2 DEF ToldAt, Parted
  <2>4. Parted(d, r, a + 1, 0)
    BY <1>4, <2>1, <2>3 DEF Parted
  <2>5. ToldAt(k, r, g, p, v, a + 1, 0)
    BY <1>2, <1>4, <2>1, <2>4 DEF ToldAt
  <2> QED BY <1>5, <1>9, <2>5 DEF Told
<1> QED BY <1>6, <1>7, <1>8, <1>9

LEMMA ToldT ==
    ASSUME NEW l, NEW k, l.dn \in Seq(DnLine), NEW m \in DnLine, m.kind = "T",
           k.dn = Append(l.dn, m), ~l.shut,
           NEW r, NEW g \in Nat, NEW p \in Nat, NEW w, Told(l, r, g, p, w),
           m.req = r, ~Ended(l.dn, r)
    PROVE  Told(k, r, g, p + 1, w)
<1>1. PICK a \in Nat, n \in Nat : ToldAt(l, r, g, p, w, a, n)
  BY DEF Told
<1>2. PICK d : d = k.dn
  OBVIOUS
<1>3. PICK len \in Nat : len = Len(l.dn)
  OBVIOUS
<1>4. Len(d) = len + 1 /\ d[len + 1] = m /\ \A i \in 1 .. len : d[i] = l.dn[i]
  BY <1>2, <1>3, AppendIs
<1>5. a + n = len /\ g + n = p
  <2>1. Ended(l.dn, r) <=> a + n < len
    BY <1>1, <1>3, EndedIs DEF ToldAt
  <2>2. a + n <= len /\ g + n = p
    BY <1>1, <1>3 DEF ToldAt, Parted
  <2> QED BY <2>1, <2>2
<1>6. /\ \A i \in 1 .. a : i \in 1 .. len
      /\ \A i \in a + 1 .. a + (n + 1) : i = len + 1 \/ (i \in 1 .. len /\ i \in a + 1 .. a + n)
  BY <1>5
<1>7. PICK b \in Nat : b = n + 1
  OBVIOUS
<1>8. Parted(d, r, a, b)
  <2>1. \A i \in 1 .. a : d[i].req # r
    BY <1>1, <1>4, <1>6 DEF ToldAt, Parted
  <2>2. ASSUME NEW i \in a + 1 .. a + b PROVE Is(d, i, "T") /\ d[i].req = r
    <3>1. CASE i = len + 1
      BY <1>4, <3>1 DEF Is
    <3>2. CASE i \in 1 .. len /\ i \in a + 1 .. a + n
      BY <1>1, <1>4, <3>2 DEF ToldAt, Parted, Is
    <3> QED BY <1>6, <1>7, <3>1, <3>2
  <2>3. a + b = Len(d)
    BY <1>4, <1>5, <1>7
  <2> QED BY <2>1, <2>2, <2>3 DEF Parted
<1>9. g + b = p + 1 /\ a + b = Len(d)
  BY <1>4, <1>5, <1>7
<1>10. ToldAt(k, r, g, p + 1, w, a, b)
  BY <1>2, <1>8, <1>9 DEF ToldAt
<1> QED BY <1>10 DEF Told

(* The client reads a line: of another request, a token, or its D line.     *)
LEMMA ToldRead ==
    ASSUME NEW l, NEW k, l.dn \in Seq(DnLine), l.dn # <<>>, k.dn = Tail(l.dn), k.shut = l.shut,
           NEW r, NEW g \in Nat, NEW p \in Nat, NEW w, Told(l, r, g, p, w)
    PROVE  /\ l.dn[1].req # r => Told(k, r, g, p, w)
           /\ l.dn[1].req = r /\ Is(l.dn, 1, "T") => g < p /\ Told(k, r, g + 1, p, w)
<1>1. PICK a \in Nat, n \in Nat : ToldAt(l, r, g, p, w, a, n)
  BY DEF Told
<1>2. PICK d : d = k.dn
  OBVIOUS
<1>3. PICK len \in Nat \ {0} : len = Len(l.dn)
  BY TailIs
<1>4. Len(d) = len - 1 /\ \A i \in 1 .. len - 1 : d[i] = l.dn[i + 1]
  BY <1>2, <1>3, TailIs
<1>5. a + n <= len
  BY <1>1, <1>3 DEF ToldAt, Parted
<1>6. ASSUME a > 0 PROVE l.dn[1].req # r /\ Told(k, r, g, p, w)
  <2>1. PICK b \in Nat : b = a - 1
    BY <1>6
  <2>2. 1 \in 1 .. a
    BY <1>6
  <2>3. /\ \A i \in 1 .. b : i \in 1 .. len - 1 /\ i + 1 \in 1 .. a
        /\ \A i \in b + 1 .. b + n : i \in 1 .. len - 1 /\ i + 1 \in a + 1 .. a + n
    BY <1>3, <1>5, <1>6, <2>1
  <2>4. b + n < Len(d) => b + n + 1 \in 1 .. len - 1 /\ b + n + 1 + 1 = a + n + 1 /\ a + n < len
    BY <1>3, <1>4, <2>1
  <2>5. b + n <= Len(d)
    BY <1>3, <1>4, <1>5, <2>1
  <2>6. Parted(d, r, b, n)
    <3>1. \A i \in 1 .. b : d[i].req # r
      BY <1>1, <1>4, <2>3 DEF ToldAt, Parted
    <3>2. ASSUME NEW i \in b + 1 .. b + n PROVE Is(d, i, "T") /\ d[i].req = r
      <4>1. d[i] = l.dn[i + 1] /\ i + 1 \in a + 1 .. a + n
        BY <1>4, <2>3, <3>2
      <4> QED BY <1>1, <4>1 DEF ToldAt, Parted, Is
    <3>3. b + n < Len(d) => Is(d, b + n + 1, "D") /\ d[b + n + 1].req = r
      BY <1>1, <1>3, <1>4, <2>4 DEF ToldAt, Parted, Is
    <3> QED BY <2>5, <3>1, <3>2, <3>3 DEF Parted
  <2>7. ToldAt(k, r, g, p, w, b, n)
    BY <1>1, <1>2, <1>3, <1>4, <2>4, <2>6 DEF ToldAt
  <2> QED BY <1>1, <2>2, <2>7 DEF Told, ToldAt, Parted
<1>7. ASSUME a = 0, n > 0
      PROVE  l.dn[1].req = r /\ Is(l.dn, 1, "T") /\ g < p /\ Told(k, r, g + 1, p, w)
  <2>1. PICK m \in Nat : m = n - 1
    BY <1>7
  <2>2. 1 \in a + 1 .. a + n
    BY <1>7
  <2>3. \A i \in 0 + 1 .. 0 + m : i \in 1 .. len - 1 /\ i + 1 \in a + 1 .. a + n
    BY <1>3, <1>5, <1>7, <2>1
  <2>4. 0 + m < Len(d) => 0 + m + 1 \in 1 .. len - 1 /\ 0 + m + 1 + 1 = a + n + 1 /\ a + n < len
    BY <1>3, <1>4, <1>7, <2>1
  <2>5. 0 + m <= Len(d)
    BY <1>3, <1>4, <1>5, <1>7, <2>1
  <2>6. Parted(d, r, 0, m)
    <3>1. \A i \in 0 + 1 .. 0 + m : Is(d, i, "T") /\ d[i].req = r
      <4> SUFFICES ASSUME NEW i \in 0 + 1 .. 0 + m PROVE Is(d, i, "T") /\ d[i].req = r
        OBVIOUS
      <4>1. d[i] = l.dn[i + 1] /\ i + 1 \in a + 1 .. a + n
        BY <1>4, <2>3
      <4> QED BY <1>1, <4>1 DEF ToldAt, Parted, Is
    <3>2. 0 + m < Len(d) => Is(d, 0 + m + 1, "D") /\ d[0 + m + 1].req = r
      BY <1>1, <1>3, <1>4, <2>4 DEF ToldAt, Parted, Is
    <3> QED BY <2>5, <3>1, <3>2 DEF Parted
  <2>7. g + 1 + m = g + n
    BY <2>1
  <2>8. ToldAt(k, r, g + 1, p, w, 0, m)
    BY <1>1, <1>2, <1>3, <1>4, <2>4, <2>6, <2>7 DEF ToldAt
  <2>9. g < p
    BY <1>1, <1>7 DEF ToldAt
  <2> QED BY <1>1, <2>2, <2>8, <2>9 DEF Told, ToldAt, Parted
<1>8. ASSUME a = 0, n = 0
      PROVE  l.dn[1].req = r /\ Is(l.dn, 1, "D")
  BY <1>1, <1>3, <1>8 DEF ToldAt, Parted
<1> QED BY <1>6, <1>7, <1>8 DEF Is

LEMMA ToldLast ==
    ASSUME NEW l, l.dn \in Seq(DnLine), l.dn # <<>>, NEW r,
           NEW g \in Nat, NEW p \in Nat, NEW w, Told(l, r, g, p, w),
           l.dn[1].req = r, Is(l.dn, 1, "D")
    PROVE  g = p /\ l.dn[1].why \in {"cancel", w}
<1>1. PICK a \in Nat, n \in Nat : ToldAt(l, r, g, p, w, a, n)
  BY DEF Told
<1>2. Len(l.dn) \in Nat \ {0}
  BY TailIs
<1>3. a = 0
  <2>1. a > 0 => 1 \in 1 .. a
    BY <1>1
  <2> QED BY <1>1, <2>1 DEF ToldAt, Parted
<1>4. n = 0
  <2>1. n > 0 => 1 \in a + 1 .. a + n
    BY <1>1, <1>3
  <2> QED BY <1>1, <2>1 DEF ToldAt, Parted, Is
<1>5. a + n + 1 = 1 /\ a + n < Len(l.dn) /\ (g + n = p => g = p)
  BY <1>2, <1>3, <1>4
<1> QED BY <1>1, <1>5 DEF ToldAt

-----------------------------------------------------------------------------
(* The engine's steps on the connection in use.                             *)

FlowsOn(c) ==
    \E k : link' = [link EXCEPT ![c] = k] /\ Flows(k, made'[req], verdict'[req])

LEMMA Here ==
    ASSUME LinkInv, FlowInv, phase # "idle", NEW l, l = link[fd]
    PROVE  /\ fd \in Conn /\ l \in LinkRecord /\ Proper(l) /\ OneAtATime(l)
           /\ l.dn \in Seq(DnLine) /\ l.up \in Seq(UpLine)
           /\ req \in Req /\ req <= NReq /\ got[req] \in Nat /\ made[req] \in Nat
           /\ l.hung => l.shut
           /\ l.shut => l.up = <<>> /\ l.worker = "none" /\ l.reader = "gone"
           /\ \A r \in Req : Waits(l, r) => r = req
           /\ Flows(l, made[req], verdict[req])
           /\ Waits(l, req) => verdict[req] = "none" /\ ~Ended(l.dn, req)
           /\ l.worker = "finish" => verdict[l.cur] = l.reply
<1>1. fd # 0 /\ req <= NReq /\ req \in Req /\ got[req] \in Nat
  BY DEF LinkInv, ClientTypes, Req
<1>2. made[req] \in Nat
  BY <1>1, LinkFacts DEF LinkInv, EngineTypes
<1>3. /\ fd \in Conn /\ InUse(l) /\ Proper(l) /\ l \in LinkRecord
      /\ UpAccounted(l, verdict) /\ DnAccounted(l, verdict, made)
  BY <1>1, UseFacts
<1>4. OneAtATime(l) /\ l.dn \in Seq(DnLine) /\ l.up \in Seq(UpLine)
  BY <1>3 DEF Proper, LinkRecord
<1>5. l.shut => l.up = <<>> /\ l.worker = "none" /\ l.reader = "gone"
  BY <1>4 DEF OneAtATime
<1>6. (l.hung => l.shut) /\ \A r \in Req : Waits(l, r) => r = req
  BY <1>3 DEF InUse
<1>7. Waits(l, req) => verdict[req] = "none"
  BY <1>1, <1>3 DEF UpAccounted
<1>8. Ended(l.dn, req) => verdict[req] # "none"
  BY <1>3 DEF Ended, DnAccounted
<1>9. l.worker = "finish" => verdict[l.cur] = l.reply
  BY <1>3 DEF DnAccounted
<1>10. Flows(l, made[req], verdict[req])
  BY DEF FlowInv
<1> QED BY <1>1, <1>2, <1>3, <1>4, <1>5, <1>6, <1>7, <1>8, <1>9, <1>10

LEMMA AheadSame ==
    ASSUME NEW l, NEW k, NEW r, NEW p, Ahead(l, r, p), k.up = l.up, ~k.shut => ~l.shut,
           k.cur = l.cur, k.reader = "frames" => l.reader = "frames",
           k.worker = "tail" /\ k.cur = r => l.worker = "tail" \/ Ended(k.dn, r),
           Ended(l.dn, r) => Ended(k.dn, r)
    PROVE  Ahead(k, r, p)
BY DEF Ahead

LEMMA AheadTail ==
    ASSUME NEW l, NEW k, NEW r, NEW p, Ahead(l, r, p), l.up \in Seq(UpLine), l.up # <<>>,
           k.up = Tail(l.up), k.shut = l.shut, k.cur = l.cur,
           p > 0 /\ k.reader = "frames" => l.reader = "frames",
           k.worker = "tail" => l.worker = "tail", Ended(l.dn, r) => Ended(k.dn, r)
    PROVE  Ahead(k, r, p)
<1>1. PICK u : u = k.up
  OBVIOUS
<1>2. PICK n \in Nat : Len(l.up) = n + 1
  <2>1. Len(l.up) \in Nat \ {0}
    BY TailIs
  <2>2. Len(l.up) - 1 \in Nat /\ Len(l.up) = (Len(l.up) - 1) + 1
    BY <2>1
  <2> QED BY <2>2
<1>3. Len(u) = n /\ \A i \in 1 .. n : u[i] = l.up[i + 1]
  BY <1>1, <1>2, TailIs
<1>4. \A i \in 1 .. n : i + 1 \in 1 .. n + 1
  BY <1>2
<1>5. ASSUME ~k.shut
      PROVE  \A i \in 1 .. n : Is(u, i, "X") /\ u[i].req # r =>
                \E g \in i + 1 .. n : Is(u, g, "GEN")
  <2>1. SUFFICES ASSUME NEW i \in 1 .. n, Is(u, i, "X"), u[i].req # r
                 PROVE  \E g \in i + 1 .. n : Is(u, g, "GEN")
    OBVIOUS
  <2>2. PICK g \in i + 1 + 1 .. n + 1 : Is(l.up, g, "GEN")
    BY <1>2, <1>3, <1>4, <1>5, <2>1 DEF Ahead, Is
  <2>3. PICK h \in 1 .. n : h + 1 = g /\ h \in i + 1 .. n
    <3>1. g - 1 \in 1 .. n /\ (g - 1) + 1 = g /\ g - 1 \in i + 1 .. n
      BY <2>2
    <3> QED BY <3>1
  <2>4. Is(u, h, "GEN")
    BY <1>3, <2>2, <2>3 DEF Is
  <2> QED BY <2>3, <2>4
<1>6. ASSUME ~k.shut, p > 0
      PROVE  k.cur = r /\ k.reader # "frames" /\ \A i \in 1 .. n : ~Is(u, i, "GEN")
  BY <1>2, <1>3, <1>4, <1>6 DEF Ahead, Is
<1>7. ASSUME ~k.shut, k.worker = "tail", k.cur = r PROVE Ended(k.dn, r)
  BY <1>7 DEF Ahead
<1> QED BY <1>1, <1>3, <1>5, <1>6, <1>7 DEF Ahead

LEMMA EmitFlows ==
    ASSUME LinkInv, FlowInv, phase # "idle", Emit(fd)
    PROVE  FlowsOn(fd)
<1>1. PICK l : l = link[fd]
  OBVIOUS
<1>2. PICK k : k = Down(l, Line("T", l.cur))
  OBVIOUS
<1>3. /\ l.worker = "run" /\ verdict' = verdict /\ made' = [made EXCEPT ![l.cur] = @ + 1]
      /\ link' = [link EXCEPT ![fd] = k] \/ l.hung
  BY <1>1, <1>2 DEF Emit, Set
<1>4. ~l.shut /\ ~l.hung /\ l.cur \in Req /\ Waits(l, l.cur)
  BY <1>1, <1>3, Here DEF OneAtATime, Waits
<1>5. l.cur = req /\ ~Ended(l.dn, req) /\ req \in Req
  BY <1>1, <1>4, Here
<1>6. /\ Line("T", req) \in DnLine /\ Line("T", req).kind = "T" /\ Line("T", req).req = req
  BY <1>5 DEF Line, DnLine
<1>7. /\ k.dn = Append(l.dn, Line("T", req)) /\ k.up = l.up /\ k.reader = l.reader
      /\ k.shut = l.shut /\ k.cur = l.cur /\ k.worker = l.worker
  <2>1. l \in LinkRecord /\ SaysHow(l)
    BY <1>1, Here DEF Proper
  <2> QED BY <1>2, <1>4, <1>5, <1>6, <2>1, DownFields
<1>8. made'[req] = made[req] + 1 /\ made[req] \in Nat /\ got[req] \in Nat
  <2>1. made \in [Req -> 0 .. MaxTokens]
    BY DEF LinkInv, EngineTypes
  <2> QED BY <1>1, <1>3, <1>5, <2>1, Here
<1>9. Told(k, req, got[req], made'[req], verdict'[req])
  <2>1. l.dn \in Seq(DnLine) /\ Told(l, req, got[req], made[req], verdict[req])
    BY <1>1, Here DEF Flows
  <2> QED BY <1>3, <1>4, <1>5, <1>6, <1>7, <1>8, <2>1, ToldT
<1>10. Ahead(k, req, made'[req])
  <2>1. l.reader # "frames" /\ \A i \in 1 .. Len(l.up) : ~Is(l.up, i, "GEN")
    BY <1>1, <1>3, Here DEF OneAtATime
  <2>2. Ahead(l, req, made[req])
    BY <1>1, Here DEF Flows
  <2> QED BY <1>3, <1>5, <1>7, <2>1, <2>2 DEF Ahead
<1> QED BY <1>3, <1>4, <1>9, <1>10 DEF FlowsOn, Flows

LEMMA EndFlows ==
    ASSUME LinkInv, FlowInv, phase # "idle", End(fd)
    PROVE  FlowsOn(fd)
<1>1. PICK l : l = link[fd]
  OBVIOUS
<1>2. PICK why \in Judged :
         /\ link' = [link EXCEPT ![fd] = [l EXCEPT !.worker = "finish", !.in_flight = FALSE,
                                                   !.reply = why]]
         /\ verdict' = [verdict EXCEPT ![l.cur] = why]
  BY <1>1 DEF End, Set, Judged
<1>3. PICK k : k = [l EXCEPT !.worker = "finish", !.in_flight = FALSE, !.reply = why]
  OBVIOUS
<1>4. l \in LinkRecord /\ l.worker = "run" /\ l.cur \in Req /\ Waits(l, l.cur) /\ made' = made
  BY <1>1, Here DEF End, OneAtATime, Waits
<1>5. l.cur = req /\ ~Ended(l.dn, req)
  BY <1>1, <1>4, Here
<1>6. /\ k.dn = l.dn /\ k.up = l.up /\ k.reader = l.reader
      /\ k.shut = l.shut /\ k.cur = l.cur /\ k.worker = "finish"
  BY <1>3, <1>4 DEF LinkRecord
<1>7. /\ l.dn \in Seq(DnLine) /\ Told(l, req, got[req], made[req], verdict[req])
      /\ Ahead(l, req, made[req])
  BY <1>1, Here DEF Flows
<1>8. Told(k, req, got[req], made[req], verdict'[req])
  BY <1>5, <1>6, <1>7, ToldSame
<1>9. Ahead(k, req, made[req])
  BY <1>6, <1>7, AheadSame
<1> QED BY <1>2, <1>3, <1>4, <1>8, <1>9 DEF FlowsOn, Flows

(* A line that ends a request comes down behind what is there.              *)
LEMMA DFlows ==
    ASSUME LinkInv, FlowInv, phase # "idle", NEW l, l = link[fd], ~l.shut,
           NEW m \in DnLine, m.kind = "D", NEW k, k.dn = Append(l.dn, m),
           k.cur = l.cur, k.shut = l.shut, k.reader = "frames" => l.reader = "frames",
           \/ k.up = l.up /\ (k.worker = "tail" => l.worker = "tail" \/ m.req = l.cur)
           \/ l.up # <<>> /\ k.up = Tail(l.up) /\ k.worker = l.worker,
           NEW v, v = verdict[req] \/ ~Ended(l.dn, req),
           IF m.req = req THEN Ended(l.dn, req) \/ m.why \in {"cancel", v}
                          ELSE made[req] = 0
    PROVE  Flows(k, made[req], v)
<1>1. /\ l.dn \in Seq(DnLine) /\ Told(l, req, got[req], made[req], verdict[req])
      /\ Ahead(l, req, made[req]) /\ got[req] \in Nat /\ made[req] \in Nat
      /\ l.up \in Seq(UpLine)
  BY Here DEF Flows
<1>2. /\ Told(k, req, got[req], made[req], v)
      /\ m.req = req \/ Ended(l.dn, req) => Ended(k.dn, req)
  <2>1. IF m.req = req THEN Ended(l.dn, req) \/ m.why \in {"cancel", v}
                       ELSE Ended(l.dn, req) \/ made[req] = 0
    OBVIOUS
  <2>2. PICK g, p, w : g = got[req] /\ p = made[req] /\ w = verdict[req]
    OBVIOUS
  <2>3. g \in Nat /\ p \in Nat /\ Told(l, req, g, p, w) /\ (v = w \/ ~Ended(l.dn, req))
    BY <1>1, <2>2
  <2>4. /\ m.req = req => Ended(l.dn, req) \/ m.why \in {"cancel", v}
        /\ m.req # req => Ended(l.dn, req) \/ p = 0
    BY <2>1, <2>2
  <2>5. l.dn \in Seq(DnLine) /\ k.dn = Append(l.dn, m) /\ ~l.shut /\ m.kind = "D"
    BY <1>1
  <2>6. Closes(l, k, m, req, g, p, w, v)
    BY <2>3, <2>4, <2>5 DEF Closes
  <2>7. Told(k, req, g, p, v)
    BY <2>6, ToldD
  <2>8. m.req = req => Ended(k.dn, req)
    <3>1. Len(k.dn) = Len(l.dn) + 1 /\ k.dn[Len(l.dn) + 1] = m /\ Len(l.dn) \in Nat
      BY <2>5, AppendIs
    <3>2. Len(l.dn) + 1 \in 1 .. Len(k.dn)
      BY <3>1
    <3> QED BY <2>5, <3>1, <3>2 DEF Ended, Is
  <2>9. Ended(l.dn, req) => Ended(k.dn, req)
    <3>1. Len(k.dn) = Len(l.dn) + 1 /\ Len(l.dn) \in Nat
          /\ \A i \in 1 .. Len(l.dn) : k.dn[i] = l.dn[i]
      BY <2>5, AppendIs
    <3>2. \A i \in 1 .. Len(l.dn) : i \in 1 .. Len(k.dn)
      BY <3>1
    <3> QED BY <3>1, <3>2 DEF Ended, Is
  <2> QED BY <2>2, <2>7, <2>8, <2>9
<1>3. Ahead(k, req, made[req])
  <2>1. CASE k.up = l.up /\ (k.worker = "tail" => l.worker = "tail" \/ m.req = l.cur)
    BY <1>1, <1>2, <2>1, AheadSame
  <2>2. CASE l.up # <<>> /\ k.up = Tail(l.up) /\ k.worker = l.worker
    BY <1>1, <1>2, <2>2, AheadTail
  <2> QED BY <2>1, <2>2
<1> QED BY <1>2, <1>3 DEF Flows

(* The D line of another request finds none of the present one's tokens.    *)
LEMMA ElseNone ==
    ASSUME LinkInv, FlowInv, phase # "idle", NEW l, l = link[fd], ~l.shut, l.cur # req
    PROVE  made[req] = 0
<1>1. made[req] \in Nat /\ Ahead(l, req, made[req])
  BY Here DEF Flows
<1> QED BY <1>1 DEF Ahead

LEMMA WriteDFlows ==
    ASSUME LinkInv, FlowInv, phase # "idle", WriteD(fd)
    PROVE  FlowsOn(fd)
<1>1. PICK l : l = link[fd]
  OBVIOUS
<1>2. PICK d : d = Down(l, Done(l.cur, l.reply))
  OBVIOUS
<1>3. PICK k : k = [d EXCEPT !.worker = "tail"]
  OBVIOUS
<1>4. /\ l.worker = "finish" /\ link' = [link EXCEPT ![fd] = k] /\ UNCHANGED <<made, verdict>>
  BY <1>1, <1>2, <1>3 DEF WriteD, Set, history
<1>5. /\ l \in LinkRecord /\ SaysHow(l) /\ l.cur \in Req /\ ~l.shut /\ ~l.hung
      /\ verdict[l.cur] = l.reply /\ l.reply \in Judged
  BY <1>1, <1>4, Here DEF Proper, OneAtATime, SaysHow, LinkRecord
<1>6. PICK m : m = Done(l.cur, l.reply)
  OBVIOUS
<1>7. m \in DnLine /\ m.kind = "D" /\ m.req = l.cur /\ m.why = l.reply /\ m.why # ""
  BY <1>5, <1>6 DEF Done, DnLine, Judged
<1>8. /\ d \in LinkRecord /\ d.dn = Append(l.dn, m) /\ d.up = l.up /\ d.reader = l.reader
      /\ d.shut = l.shut /\ d.cur = l.cur
  BY <1>2, <1>5, <1>6, <1>7, DownFields
<1>9. /\ k.dn = Append(l.dn, m) /\ k.up = l.up /\ k.reader = l.reader
      /\ k.shut = l.shut /\ k.cur = l.cur /\ k.worker = "tail"
  BY <1>3, <1>8 DEF LinkRecord
<1>10. IF m.req = req THEN m.why = verdict[req] ELSE made[req] = 0
  BY <1>1, <1>5, <1>7, ElseNone
<1>11. Flows(k, made[req], verdict[req])
  BY <1>1, <1>5, <1>7, <1>9, <1>10, DFlows
<1> QED BY <1>4, <1>11 DEF FlowsOn

LEMMA ExitFlows ==
    ASSUME LinkInv, FlowInv, phase # "idle", Exit(fd)
    PROVE  FlowsOn(fd)
<1>1. PICK l : l = link[fd]
  OBVIOUS
<1>2. PICK e : e = [l EXCEPT !.worker = "exited", !.reply = "", !.in_flight = FALSE]
  OBVIOUS
<1>3. PICK m : m = Done(e.cur, "error")
  OBVIOUS
<1>4. PICK k : k \in {e, Down(e, m)} /\ link' = [link EXCEPT ![fd] = k]
  BY <1>1, <1>2, <1>3 DEF Exit, Set
<1>5. l.worker = "tail" /\ UNCHANGED <<made, verdict>>
  BY <1>1 DEF Exit, history
<1>6. l \in LinkRecord /\ SaysHow(l) /\ l.cur \in Req /\ ~l.shut /\ ~l.hung
  BY <1>1, <1>5, Here DEF Proper, OneAtATime
<1>7. /\ e \in LinkRecord /\ e.dn = l.dn /\ e.up = l.up /\ e.reader = l.reader
      /\ e.shut = l.shut /\ e.hung = l.hung /\ e.cur = l.cur /\ e.worker = "exited"
  BY <1>2, <1>6 DEF LinkRecord
<1>8. SaysHow(e)
  BY <1>6, <1>7 DEF SaysHow
<1>9. m \in DnLine /\ m.kind = "D" /\ m.req = l.cur /\ m.why = "error"
  BY <1>3, <1>6, <1>7 DEF Done, DnLine, Judged
<1>10. /\ l.dn \in Seq(DnLine) /\ Told(l, req, got[req], made[req], verdict[req])
       /\ Ahead(l, req, made[req])
  BY <1>1, Here DEF Flows
<1>11. CASE k = e
  <2>1. Told(k, req, got[req], made[req], verdict[req])
    BY <1>7, <1>10, <1>11, ToldSame
  <2>2. Ahead(k, req, made[req])
    BY <1>7, <1>10, <1>11, AheadSame
  <2> QED BY <1>4, <1>5, <2>1, <2>2 DEF FlowsOn, Flows
<1>12. CASE k = Down(e, m)
  <2>1. /\ k.dn = Append(l.dn, m) /\ k.up = l.up /\ k.reader = l.reader
        /\ k.shut = l.shut /\ k.cur = l.cur /\ k.worker = "exited"
    <3>1. e \in LinkRecord /\ SaysHow(e) /\ m \in DnLine /\ m.why # ""
      BY <1>7, <1>8, <1>9
    <3>2. /\ k.dn = (IF e.hung THEN e.dn ELSE Append(e.dn, m)) /\ k.up = e.up
          /\ k.reader = e.reader /\ k.shut = e.shut /\ k.cur = e.cur /\ k.worker = e.worker
      BY <1>12, <3>1, DownFields
    <3> QED BY <1>6, <1>7, <3>2
  <2>2. IF m.req = req THEN Ended(l.dn, req) ELSE made[req] = 0
    BY <1>1, <1>5, <1>6, <1>9, <1>10, ElseNone DEF Ahead
  <2>3. Flows(k, made[req], verdict[req])
    BY <1>1, <1>6, <1>9, <2>1, <2>2, DFlows
  <2> QED BY <1>4, <1>5, <2>3 DEF FlowsOn
<1> QED BY <1>4, <1>11, <1>12

LEMMA HandleXFlows ==
    ASSUME LinkInv, FlowInv, phase # "idle", HandleX(fd)
    PROVE  FlowsOn(fd)
<1>1. PICK l : l = link[fd]
  OBVIOUS
<1>2. PICK t : t = [l EXCEPT !.up = Tail(@)]
  OBVIOUS
<1>3. PICK m : m = Done(l.up[1].req, "cancel")
  OBVIOUS
<1>4. l.reader = "top" /\ l.up # <<>> /\ Head(l.up).kind = "X" /\ UNCHANGED <<made, verdict>>
  BY <1>1 DEF HandleX, AtTop, history
<1>5. l \in LinkRecord /\ Proper(l) /\ ~l.shut /\ ~l.hung
  BY <1>1, <1>4, Here
<1>6. Head(l.up) = l.up[1] /\ l.up[1] \in UpLine /\ Is(l.up, 1, "X") /\ Len(l.up) \in Nat \ {0}
  BY <1>4, <1>5, TookIs DEF Is
<1>7. /\ t \in LinkRecord /\ SaysHow(t) /\ t.dn = l.dn /\ t.reader = l.reader
      /\ t.up = Tail(l.up) /\ t.hung = l.hung /\ t.shut = l.shut /\ t.cur = l.cur
      /\ t.worker = l.worker
  BY <1>2, <1>4, <1>5, TookFields
<1>8. \/ link' = [link EXCEPT ![fd] = [t EXCEPT !.cancel = TRUE]]
      \/ link' = [link EXCEPT ![fd] = Down(t, m)]
  <2>1. \/ link' = [link EXCEPT ![fd] = [Took(fd) EXCEPT !.cancel = TRUE]]
        \/ Answer(fd, Took(fd), Done(Head(link[fd].up).req, "cancel"))
    BY DEF HandleX, Set
  <2>2. Took(fd) = t /\ Head(link[fd].up) = l.up[1]
    BY <1>1, <1>2, <1>6 DEF Took
  <2> QED BY <1>3, <1>5, <1>7, <2>1, <2>2 DEF Answer, Set
<1>9. /\ l.dn \in Seq(DnLine) /\ Told(l, req, got[req], made[req], verdict[req])
      /\ Ahead(l, req, made[req]) /\ made[req] \in Nat /\ l.up \in Seq(UpLine)
  BY <1>1, Here DEF Flows
<1>10. CASE link' = [link EXCEPT ![fd] = [t EXCEPT !.cancel = TRUE]]
  <2>1. PICK k : k = [t EXCEPT !.cancel = TRUE]
    OBVIOUS
  <2>2. /\ k.dn = l.dn /\ k.reader = l.reader /\ k.up = Tail(l.up) /\ k.shut = l.shut
        /\ k.cur = l.cur /\ k.worker = l.worker
    BY <1>7, <2>1 DEF LinkRecord
  <2>3. Told(k, req, got[req], made[req], verdict[req])
    BY <1>9, <2>2, ToldSame
  <2>4. Ahead(k, req, made[req])
    BY <1>4, <1>9, <2>2, AheadTail
  <2> QED BY <1>4, <1>10, <2>1, <2>3, <2>4 DEF FlowsOn, Flows
<1>11. CASE link' = [link EXCEPT ![fd] = Down(t, m)]
  <2>1. m \in DnLine /\ m.kind = "D" /\ m.req = l.up[1].req /\ m.why = "cancel"
    BY <1>3, <1>6 DEF Done, DnLine, UpLine, Judged
  <2>2. PICK k : k = Down(t, m)
    OBVIOUS
  <2>3. /\ k.dn = Append(l.dn, m) /\ k.up = Tail(l.up) /\ k.reader = l.reader
        /\ k.shut = l.shut /\ k.cur = l.cur /\ k.worker = l.worker
    <3>1. t \in LinkRecord /\ SaysHow(t) /\ m \in DnLine /\ m.why # ""
      BY <1>7, <2>1
    <3>2. /\ k.dn = (IF t.hung THEN t.dn ELSE Append(t.dn, m)) /\ k.up = t.up
          /\ k.reader = t.reader /\ k.shut = t.shut /\ k.cur = t.cur /\ k.worker = t.worker
      BY <2>2, <3>1, DownFields
    <3> QED BY <1>5, <1>7, <3>2
  <2>4. ASSUME m.req # req PROVE made[req] = 0
    <3>1. 1 \in 1 .. Len(l.up)
      BY <1>6
    <3>2. PICK g \in 1 + 1 .. Len(l.up) : Is(l.up, g, "GEN")
      BY <1>5, <1>6, <1>9, <2>1, <2>4, <3>1 DEF Ahead
    <3>3. g \in 1 .. Len(l.up)
      BY <1>6, <3>2
    <3> QED BY <1>5, <1>9, <3>2, <3>3 DEF Ahead
  <2>5. IF m.req = req THEN m.why \in {"cancel", verdict[req]} ELSE made[req] = 0
    BY <2>1, <2>4
  <2>6. Flows(k, made[req], verdict[req])
    BY <1>1, <1>4, <1>5, <2>1, <2>3, <2>5, DFlows
  <2> QED BY <1>4, <1>11, <2>2, <2>6 DEF FlowsOn
<1> QED BY <1>8, <1>10, <1>11

LEMMA HandleGenFlows ==
    ASSUME LinkInv, FlowInv, phase # "idle", HandleGen(fd)
    PROVE  FlowsOn(fd)
<1>1. PICK l : l = link[fd]
  OBVIOUS
<1>2. PICK t : t = [l EXCEPT !.up = Tail(@)]
  OBVIOUS
<1>3. PICK k : \E r : k = [t EXCEPT !.reader = "frames", !.gen = r, !.left = Announced(r)]
                      /\ link' = [link EXCEPT ![fd] = k]
  BY <1>1, <1>2 DEF HandleGen, Took, Set
<1>4. l.reader = "top" /\ l.up # <<>> /\ Head(l.up).kind = "GEN" /\ UNCHANGED <<made, verdict>>
  BY <1>1 DEF HandleGen, AtTop, history
<1>5. l \in LinkRecord /\ Proper(l) /\ ~l.shut
  BY <1>1, <1>4, Here
<1>6. Head(l.up) = l.up[1] /\ Is(l.up, 1, "GEN") /\ Len(l.up) \in Nat \ {0}
  BY <1>4, <1>5, TookIs DEF Is
<1>7. /\ t \in LinkRecord /\ t.dn = l.dn /\ t.up = Tail(l.up) /\ t.shut = l.shut /\ t.cur = l.cur
      /\ t.worker = l.worker
  BY <1>2, <1>4, <1>5, TookFields
<1>8. /\ k.dn = l.dn /\ k.up = Tail(l.up) /\ k.shut = l.shut /\ k.cur = l.cur
      /\ k.worker = l.worker
  BY <1>3, <1>7 DEF LinkRecord
<1>9. /\ l.dn \in Seq(DnLine) /\ Told(l, req, got[req], made[req], verdict[req])
      /\ Ahead(l, req, made[req]) /\ made[req] \in Nat /\ l.up \in Seq(UpLine)
  BY <1>1, Here DEF Flows
<1>10. ~(made[req] > 0)
  <2>1. 1 \in 1 .. Len(l.up)
    BY <1>6
  <2> QED BY <1>5, <1>6, <1>9, <2>1 DEF Ahead
<1>11. Told(k, req, got[req], made[req], verdict[req])
  BY <1>8, <1>9, ToldSame
<1>12. Ahead(k, req, made[req])
  BY <1>4, <1>8, <1>9, <1>10, AheadTail
<1> QED BY <1>3, <1>4, <1>11, <1>12 DEF FlowsOn, Flows

LEMMA DrainFrameFlows ==
    ASSUME LinkInv, FlowInv, phase # "idle", DrainFrame(fd)
    PROVE  FlowsOn(fd)
<1>1. PICK l : l = link[fd]
  OBVIOUS
<1>2. PICK t : t = [l EXCEPT !.up = Tail(@)]
  OBVIOUS
<1>3. PICK k : k = [t EXCEPT !.left = @ - 1]
  OBVIOUS
<1>4. l.reader = "frames" /\ l.up # <<>> /\ UNCHANGED <<made, verdict>>
  BY <1>1 DEF DrainFrame, history
<1>5. link' = [link EXCEPT ![fd] = k]
  BY <1>1, <1>2, <1>3 DEF DrainFrame, Took, Set
<1>6. l \in LinkRecord /\ Proper(l)
  BY <1>1, Here
<1>7. /\ t \in LinkRecord /\ t.dn = l.dn /\ t.up = Tail(l.up) /\ t.shut = l.shut /\ t.cur = l.cur
      /\ t.worker = l.worker /\ t.reader = l.reader
  BY <1>2, <1>4, <1>6, TookFields
<1>8. /\ k.dn = l.dn /\ k.up = Tail(l.up) /\ k.shut = l.shut /\ k.cur = l.cur
      /\ k.worker = l.worker /\ k.reader = l.reader
  BY <1>3, <1>7 DEF LinkRecord
<1>9. /\ l.dn \in Seq(DnLine) /\ Told(l, req, got[req], made[req], verdict[req])
      /\ Ahead(l, req, made[req]) /\ l.up \in Seq(UpLine)
  BY <1>1, Here DEF Flows
<1>10. Told(k, req, got[req], made[req], verdict[req])
  BY <1>8, <1>9, ToldSame
<1>11. Ahead(k, req, made[req])
  BY <1>4, <1>8, <1>9, AheadTail
<1> QED BY <1>4, <1>5, <1>10, <1>11 DEF FlowsOn, Flows

(* A request whose frames are awaited is the present one, and has no tokens.*)
LEMMA GenHere ==
    ASSUME LinkInv, FlowInv, phase # "idle", NEW l, l = link[fd], l.reader = "frames"
    PROVE  /\ l.gen = req /\ ~Ended(l.dn, req) /\ made[req] = 0 /\ ~l.shut /\ ~l.hung
           /\ l.worker # "run" /\ ~l.in_flight
<1>1. l.gen \in Req /\ Waits(l, l.gen) /\ l.worker # "run" /\ ~l.in_flight
  BY Here DEF OneAtATime, Waits
<1>2. ~l.shut /\ ~l.hung /\ l.gen = req /\ ~Ended(l.dn, req)
  BY <1>1, Here
<1>3. made[req] \in Nat /\ Ahead(l, req, made[req])
  BY Here DEF Flows
<1> QED BY <1>1, <1>2, <1>3 DEF Ahead

(* It is judged as an error.                                                *)
LEMMA JudgedFlows ==
    ASSUME LinkInv, FlowInv, phase # "idle", NEW l, l = link[fd], l.reader = "frames",
           NEW k, k.dn = Append(l.dn, Done(l.gen, "error")), k.up = l.up,
           k.cur = l.cur, k.shut = l.shut, k.worker = l.worker, k.reader # "frames",
           link' = [link EXCEPT ![fd] = k], made' = made,
           verdict' = [verdict EXCEPT ![l.gen] = "error"]
    PROVE  FlowsOn(fd)
<1>1. l.gen = req /\ ~Ended(l.dn, req) /\ ~l.shut
  BY GenHere
<1>2. PICK m : m = Done(req, "error")
  OBVIOUS
<1>3. req \in Req
  BY Here
<1>4. m \in DnLine /\ m.kind = "D" /\ m.req = req /\ m.why = "error"
  BY <1>2, <1>3 DEF Done, DnLine, Judged
<1>5. verdict'[req] = "error"
  BY <1>1, <1>3 DEF LinkInv, EngineTypes
<1>6. Flows(k, made[req], "error")
  BY <1>1, <1>2, <1>4, DFlows
<1> QED BY <1>5, <1>6 DEF FlowsOn

LEMMA FrameReadFailsFlows ==
    ASSUME LinkInv, FlowInv, phase # "idle", FrameReadFails(fd)
    PROVE  FlowsOn(fd)
<1>1. PICK l : l = link[fd]
  OBVIOUS
<1>2. PICK m : m = Done(l.gen, "error")
  OBVIOUS
<1>3. PICK d : d = Down(l, m)
  OBVIOUS
<1>4. PICK k : k = [d EXCEPT !.reader = "ending"]
  OBVIOUS
<1>5. /\ l.reader = "frames" /\ link' = [link EXCEPT ![fd] = k] /\ made' = made
      /\ verdict' = [verdict EXCEPT ![l.gen] = "error"]
  BY <1>1, <1>2, <1>3, <1>4 DEF FrameReadFails, Set
<1>6. l \in LinkRecord /\ SaysHow(l) /\ ~l.hung /\ l.gen \in Req
  BY <1>1, <1>5, GenHere, Here DEF Proper
<1>7. m \in DnLine /\ m.kind = "D" /\ m.why # ""
  BY <1>2, <1>6, DoneIs DEF Judged
<1>8. /\ d \in LinkRecord /\ d.dn = Append(l.dn, m) /\ d.up = l.up
      /\ d.shut = l.shut /\ d.cur = l.cur /\ d.worker = l.worker
  BY <1>3, <1>6, <1>7, DownFields
<1>9. /\ k.dn = Append(l.dn, m) /\ k.up = l.up /\ k.reader = "ending"
      /\ k.shut = l.shut /\ k.cur = l.cur /\ k.worker = l.worker
  BY <1>4, <1>8 DEF LinkRecord
<1> QED BY <1>1, <1>2, <1>5, <1>9, JudgedFlows

LEMMA RejectFlows ==
    ASSUME LinkInv, FlowInv, phase # "idle", Reject(fd)
    PROVE  FlowsOn(fd)
<1>1. PICK l : l = link[fd]
  OBVIOUS
<1>2. PICK at \in {"top", "ending"} : at = IF Undrainable(l.gen) THEN "ending" ELSE "top"
  OBVIOUS
<1>3. PICK e : e = [l EXCEPT !.reader = at]
  OBVIOUS
<1>4. PICK m : m = Done(l.gen, "error")
  OBVIOUS
<1>5. /\ l.reader = "frames" /\ made' = made /\ verdict' = [verdict EXCEPT ![l.gen] = "error"]
      /\ Answer(fd, e, m)
  BY <1>1, <1>2, <1>3, <1>4 DEF Reject
<1>6. l \in LinkRecord /\ SaysHow(l) /\ ~l.hung /\ l.gen \in Req
  BY <1>1, <1>5, GenHere, Here DEF Proper
<1>7. m \in DnLine /\ m.kind = "D" /\ m.why # ""
  BY <1>4, <1>6, DoneIs DEF Judged
<1>8. /\ e \in LinkRecord /\ SaysHow(e) /\ e.reader = at /\ e.dn = l.dn
      /\ e.up = l.up /\ e.hung = l.hung /\ e.shut = l.shut /\ e.cur = l.cur
      /\ e.worker = l.worker
  BY <1>3, <1>6, ReaderAt
<1>9. PICK k : k = Down(e, m)
  OBVIOUS
<1>10. link' = [link EXCEPT ![fd] = k]
  BY <1>5, <1>6, <1>8, <1>9 DEF Answer, Set
<1>11. /\ k.dn = Append(l.dn, m) /\ k.up = l.up /\ k.reader = at
       /\ k.shut = l.shut /\ k.cur = l.cur /\ k.worker = l.worker
  <2>1. /\ k.dn = (IF e.hung THEN e.dn ELSE Append(e.dn, m)) /\ k.up = e.up
        /\ k.reader = e.reader /\ k.shut = e.shut /\ k.cur = e.cur /\ k.worker = e.worker
    BY <1>7, <1>8, <1>9, DownFields
  <2> QED BY <1>6, <1>8, <2>1
<1> QED BY <1>1, <1>4, <1>5, <1>10, <1>11, JudgedFlows

LEMMA DispatchFlows ==
    ASSUME LinkInv, FlowInv, phase # "idle", Dispatch(fd)
    PROVE  FlowsOn(fd)
<1>1. PICK l : l = link[fd]
  OBVIOUS
<1>2. PICK k : k = [l EXCEPT !.reader = "top", !.cancel = FALSE, !.cur = l.gen,
                             !.in_flight = TRUE, !.worker = "run"]
  OBVIOUS
<1>3. l.reader = "frames" /\ made' = made
  BY <1>1 DEF Dispatch
<1>4. l \in LinkRecord /\ ~l.in_flight /\ l.gen = req /\ made[req] = 0
  BY <1>1, <1>3, GenHere, Here
<1>5. link' = [link EXCEPT ![fd] = k] /\ verdict' = verdict
  BY <1>1, <1>2, <1>4 DEF Dispatch, Set
<1>6. /\ k.dn = l.dn /\ k.up = l.up /\ k.shut = l.shut /\ k.worker = "run"
  BY <1>2, <1>4 DEF LinkRecord
<1>7. /\ l.dn \in Seq(DnLine) /\ Told(l, req, got[req], made[req], verdict[req])
      /\ Ahead(l, req, made[req])
  BY <1>1, Here DEF Flows
<1>8. Told(k, req, got[req], made[req], verdict[req])
  BY <1>6, <1>7, ToldSame
<1>9. Ahead(k, req, made[req])
  BY <1>4, <1>6, <1>7 DEF Ahead
<1> QED BY <1>3, <1>5, <1>8, <1>9 DEF FlowsOn, Flows

LEMMA ShutFlows ==
    ASSUME LinkInv, FlowInv, phase # "idle", NEW k \in Shut(link[fd])
    PROVE  Flows(k, made[req], verdict[req])
<1>1. PICK l : l = link[fd]
  OBVIOUS
<1>2. /\ Proper(l) /\ l.dn \in Seq(DnLine) /\ got[req] \in Nat /\ made[req] \in Nat
      /\ Told(l, req, got[req], made[req], verdict[req])
  BY <1>1, Here DEF Flows
<1>3. k.shut /\ k.dn \in Prefixes(l.dn)
  BY <1>1, <1>2, ShutIs DEF LinkInv
<1>4. Told(k, req, got[req], made[req], verdict[req])
  BY <1>2, <1>3, ToldCut
<1>5. Ahead(k, req, made[req])
  BY <1>3 DEF Ahead
<1> QED BY <1>4, <1>5 DEF Flows

(* Only its client ends the connection in use, so its reader sees no end.   *)
LEMMA ReaderFlows ==
    ASSUME LinkInv, FlowInv, phase # "idle", Reader(fd)
    PROVE  FlowsOn(fd)
<1>1. CASE ReadEnd(fd)
  <2>1. link[fd].reader = "top" /\ link[fd].hung
    BY <1>1 DEF ReadEnd
  <2> QED BY <2>1, Here
<1>2. CASE Disconnect(fd)
  <2>1. PICK l : l = link[fd]
    OBVIOUS
  <2>2. PICK k : k = [l EXCEPT !.cancel = TRUE]
    OBVIOUS
  <2>3. link' = [link EXCEPT ![fd] = k] /\ UNCHANGED <<made, verdict>>
    BY <1>2, <2>1, <2>2 DEF Disconnect, Set, history
  <2>4. /\ l \in LinkRecord /\ l.dn \in Seq(DnLine) /\ Ahead(l, req, made[req])
        /\ Told(l, req, got[req], made[req], verdict[req])
    BY <2>1, Here DEF Flows
  <2>5. /\ k.dn = l.dn /\ k.up = l.up /\ k.shut = l.shut /\ k.worker = l.worker
        /\ k.reader = l.reader /\ k.cur = l.cur
    BY <2>2, <2>4 DEF LinkRecord
  <2>6. Told(k, req, got[req], made[req], verdict[req])
    BY <2>4, <2>5, ToldSame
  <2>7. Ahead(k, req, made[req])
    BY <2>4, <2>5, AheadSame
  <2> QED BY <2>3, <2>6, <2>7 DEF FlowsOn, Flows
<1>3. CASE Close(fd)
  <2>1. PICK k \in Shut(link[fd]) : link' = [link EXCEPT ![fd] = k]
    BY <1>3 DEF Close, Set
  <2>2. UNCHANGED <<made, verdict>>
    BY <1>3 DEF Close, history
  <2> QED BY <2>1, <2>2, ShutFlows DEF FlowsOn
<1> QED BY <1>1, <1>2, <1>3, HandleXFlows, HandleGenFlows, DrainFrameFlows, FrameReadFailsFlows,
           RejectFlows, DispatchFlows DEF Reader

(* Wherever a step of the engine is, it judges, and makes tokens of, only   *)
(* requests that wait there.                                                *)
LEMMA EngineJudges ==
    ASSUME LinkInv, NEW c \in Conn, Reader(c) \/ Worker(c)
    PROVE  JudgedAt(c) /\ UNCHANGED client /\ \E k : link' = [link EXCEPT ![c] = k]
<1>1. UNCHANGED client /\ \E k : link' = [link EXCEPT ![c] = k]
  BY DEF Reader, Worker, HandleX, HandleGen, DrainFrame, FrameReadFails, Reject, Dispatch, ReadEnd,
         Disconnect, Close, Emit, End, WriteD, Exit, Set, Answer
<1>2. CASE FrameReadFails(c) \/ Reject(c) \/ Dispatch(c)
  BY <1>1, <1>2, FrameReadFailsMoves, RejectMoves, DispatchMoves
<1>3. CASE \/ HandleX(c) \/ HandleGen(c) \/ DrainFrame(c) \/ ReadEnd(c)
           \/ Disconnect(c) \/ Close(c) \/ WriteD(c) \/ Exit(c)
  <2>1. UNCHANGED <<verdict, made>>
    BY <1>3 DEF HandleX, HandleGen, DrainFrame, ReadEnd, Disconnect, Close, WriteD, Exit, history
  <2> QED BY <1>1, <2>1, NothingJudged
<1>4. CASE Emit(c) \/ End(c)
  <2>1. PICK r : r = link[c].cur
    OBVIOUS
  <2>2. r \in Req /\ Waits(link[c], r)
    BY <1>4, <2>1, ReadsIs DEF Emit, End, Proper, OneAtATime, Waits
  <2>3. verdict[r] = "none"
    BY <2>2, AccountedAt DEF UpAccounted
  <2>4. made \in [Req -> 0 .. MaxTokens] /\ verdict \in [Req -> {"none"} \cup Judged]
    BY DEF LinkInv, EngineTypes
  <2>5. \/ verdict' = verdict /\ made' = [made EXCEPT ![r] = @ + 1]
        \/ made' = made /\ \E why : verdict' = [verdict EXCEPT ![r] = why]
    BY <1>4, <2>1 DEF Emit, End
  <2>6. JudgedAt(c)
    BY <2>2, <2>3, <2>4, <2>5 DEF JudgedAt
  <2> QED BY <1>1, <2>6
<1> QED BY <1>2, <1>3, <1>4 DEF Reader, Worker

LEMMA EngineFlows ==
    ASSUME LinkInv, FlowInv, NEW c \in Conn, Reader(c) \/ Worker(c)
    PROVE  FlowInv'
<1>1. /\ JudgedAt(c) /\ UNCHANGED <<req, phase, fd, got>>
      /\ link \in [Conn -> LinkRecord] /\ \E k : link' = [link EXCEPT ![c] = k]
  BY EngineJudges DEF client, LinkInv
<1>2. \A r \in Req : got'[r] <= made'[r]
  <2>1. \A r \in Req : got[r] \in Nat /\ made[r] \in Nat /\ got[r] <= made[r]
    BY LinkFacts DEF LinkInv, ClientTypes, EngineTypes, FlowInv
  <2> QED BY <1>1, <2>1 DEF JudgedAt
<1>3. ASSUME phase # "idle" PROVE Flows(link'[fd], made'[req], verdict'[req])
  <2>1. CASE c = fd
    <3>1. FlowsOn(fd)
      BY <1>3, <2>1, ReaderFlows, EmitFlows, EndFlows, WriteDFlows, ExitFlows DEF Worker
    <3> QED BY <1>1, <2>1, <3>1 DEF FlowsOn
  <2>2. CASE c # fd
    <3>1. req \in Req /\ Flows(link[fd], made[req], verdict[req])
      BY <1>3, Here
    <3>2. ~Waits(link[c], req)
      <4>1. GivenUp(link[c]) /\ req \in Nat
        BY <2>2, <3>1 DEF LinkInv, Req
      <4> QED BY <3>1, <4>1 DEF GivenUp
    <3>3. made'[req] = made[req] /\ verdict'[req] = verdict[req]
      BY <1>1, <3>1, <3>2 DEF JudgedAt
    <3>4. link'[fd] = link[fd]
      BY <1>1, <2>2
    <3> QED BY <3>1, <3>3, <3>4
  <2> QED BY <2>1, <2>2
<1>4. Flows(link'[fd], made'[req], verdict'[req]) => Flows(link[fd], made[req], verdict[req])'
  BY <1>1 DEF Flows
<1> QED BY <1>1, <1>2, <1>3, <1>4 DEF FlowInv

-----------------------------------------------------------------------------
(* The client's steps, and those of the process.                            *)

LEMMA AheadUp ==
    ASSUME NEW l, Proper(l), NEW r, NEW p, Ahead(l, r, p),
           NEW m \in UpLine, m.kind = "F" \/ (m.kind = "X" /\ m.req = r)
    PROVE  Ahead(Up(l, m), r, p)
<1>1. PICK k : k = Up(l, m)
  OBVIOUS
<1>2. CASE l.shut
  BY <1>1, <1>2, UpIs
<1>3. CASE ~l.shut
  <2>1. PICK n \in Nat : n = Len(l.up)
    BY UpIs
  <2>2. /\ Len(k.up) = n + 1 /\ k.up[n + 1] = m /\ \A i \in 1 .. n : k.up[i] = l.up[i]
        /\ k.dn = l.dn /\ k.cur = l.cur /\ k.reader = l.reader /\ k.worker = l.worker
    BY <1>1, <1>3, <2>1, UpIs
  <2>3. \A i \in 1 .. n + 1 : i \in 1 .. n \/ i = n + 1
    BY <2>1
  <2>4. m.kind # "GEN"
    OBVIOUS
  <2>5. p > 0 => /\ k.cur = r /\ k.reader # "frames"
                 /\ \A i \in 1 .. n + 1 : ~Is(k.up, i, "GEN")
    BY <1>3, <2>1, <2>2, <2>3, <2>4 DEF Ahead, Is
  <2>6. ASSUME NEW i \in 1 .. n + 1, Is(k.up, i, "X"), k.up[i].req # r
        PROVE  \E g \in i + 1 .. n + 1 : Is(k.up, g, "GEN")
    <3>1. i \in 1 .. n
      BY <2>2, <2>3, <2>6 DEF Is
    <3>2. PICK g \in i + 1 .. n : Is(l.up, g, "GEN")
      BY <1>3, <2>1, <2>2, <2>6, <3>1 DEF Ahead, Is
    <3>3. g \in 1 .. n /\ g \in i + 1 .. n + 1
      BY <2>1, <3>1, <3>2
    <3> QED BY <2>2, <3>2, <3>3 DEF Is
  <2>7. k.worker = "tail" /\ k.cur = r => Ended(k.dn, r)
    BY <1>3, <2>2 DEF Ahead
  <2>8. Ahead(k, r, p)
    BY <2>2, <2>5, <2>6, <2>7 DEF Ahead
  <2> QED BY <1>1, <2>8
<1> QED BY <1>2, <1>3

LEMMA SendXFlows ==
    ASSUME LinkInv, FlowInv, phase # "idle", NEW l, Proper(l), SendX(l), NEW g \in Nat,
           Told(l, req, g, made[req], verdict[req]), Ahead(l, req, made[req])
    PROVE  /\ Told(link'[fd], req, g, made[req], verdict[req])
           /\ Ahead(link'[fd], req, made[req])
<1>1. fd \in Conn /\ req \in Req /\ link \in [Conn -> LinkRecord] /\ made[req] \in Nat
  BY Here DEF LinkInv
<1>2. CASE link' = [link EXCEPT ![fd] = Up(l, Line("X", req))]
  <2>1. PICK m : m = Line("X", req)
    OBVIOUS
  <2>2. m \in UpLine /\ m.kind = "X" /\ m.req = req
    BY <1>1, <2>1, LineIs
  <2>3. PICK k : k = Up(l, m)
    OBVIOUS
  <2>4. k.dn = l.dn /\ k.shut = l.shut /\ l.dn \in Seq(DnLine)
    BY <2>2, <2>3, UpIs, LinesKnown
  <2>5. Told(k, req, g, made[req], verdict[req])
    BY <2>4, ToldSame
  <2>6. Ahead(k, req, made[req])
    BY <2>2, <2>3, AheadUp
  <2> QED BY <1>1, <1>2, <2>1, <2>3, <2>5, <2>6
<1>3. CASE /\ l.shut
           /\ \E d \in Prefixes(l.dn) :
                 link' = [link EXCEPT ![fd] = [l EXCEPT !.hung = TRUE, !.dn = d]]
  <2>1. PICK d \in Prefixes(l.dn) : link' = [link EXCEPT ![fd] = [l EXCEPT !.hung = TRUE, !.dn = d]]
    BY <1>3
  <2>2. PICK k : k = [l EXCEPT !.hung = TRUE, !.dn = d]
    OBVIOUS
  <2>3. k.dn = d /\ k.shut /\ l.dn \in Seq(DnLine)
    BY <1>3, <2>2, LinesKnown DEF Proper, LinkRecord
  <2>4. Told(k, req, g, made[req], verdict[req])
    BY <1>1, <2>3, ToldCut
  <2>5. Ahead(k, req, made[req])
    BY <2>3 DEF Ahead
  <2> QED BY <1>1, <2>1, <2>2, <2>4, <2>5
<1> QED BY <1>2, <1>3 DEF SendX

(* A request that is over leaves nothing to say of the next one.            *)
LEMMA IdleFlows ==
    ASSUME FlowInv, phase' = "idle", got' = got, made' = made
    PROVE  FlowInv'
BY DEF FlowInv

LEMMA WriteGenFlows == ASSUME LinkInv, FlowInv, WriteGen PROVE FlowInv'
<1>1. phase = "idle" /\ req <= NReq /\ fd # 0 /\ UNCHANGED <<got, made, verdict>>
  BY DEF WriteGen, history
<1>2. CASE GiveUp(link[fd], "lost")
  BY <1>1, <1>2, IdleFlows DEF GiveUp, Return
<1>3. CASE link' = [link EXCEPT ![fd] = Up(@, Line("GEN", req))] /\ UNCHANGED <<req, fd>>
  <2>1. PICK l : l = link[fd]
    OBVIOUS
  <2>2. PICK m : m = Line("GEN", req)
    OBVIOUS
  <2>3. PICK k : k = Up(l, m)
    OBVIOUS
  <2>4. /\ fd \in Conn /\ Proper(l) /\ DnAccounted(l, verdict, made) /\ req \in Req
        /\ l.dn \in Seq(DnLine)
    BY <1>1, <2>1, UseFacts, LinesKnown DEF LinkInv, ClientTypes, Req
  <2>5. verdict[req] = "none" /\ made[req] = 0 /\ got[req] = 0
    <3>1. req \in Nat /\ ~Sent(req)
      BY <1>1, <2>4 DEF Sent, Req
    <3> QED BY <2>4, <3>1 DEF LinkInv, Fresh
  <2>6. m \in UpLine /\ m.kind = "GEN"
    BY <2>2, <2>4, LineIs
  <2>7. k.dn = l.dn /\ k.shut = l.shut /\ k.cur = l.cur /\ k.worker = l.worker
    BY <2>3, <2>4, <2>6, UpIs
  <2>8. Told(k, req, 0, 0, verdict[req])
    <3>1. \A i \in 1 .. Len(l.dn) : l.dn[i].req # req
      BY <2>4, <2>5 DEF DnAccounted
    <3>2. Len(l.dn) \in Nat
      BY <2>4
    <3>3. Parted(k.dn, req, Len(l.dn), 0)
      BY <2>7, <3>1, <3>2 DEF Parted
    <3>4. ToldAt(k, req, 0, 0, verdict[req], Len(l.dn), 0)
      BY <2>7, <3>2, <3>3 DEF ToldAt
    <3> QED BY <3>2, <3>4 DEF Told
  <2>9. Ahead(k, req, 0)
    <3>1. k.worker = "tail" => k.cur # req
      BY <2>5, <2>7, <2>4 DEF DnAccounted
    <3>2. ASSUME ~k.shut
          PROVE  \A i \in 1 .. Len(k.up) : Is(k.up, i, "X") => \E g \in i + 1 .. Len(k.up) : Is(k.up, g, "GEN")
      <4>1. PICK n \in Nat : n = Len(l.up)
        BY <2>4, <2>6, UpIs
      <4>2. Len(k.up) = n + 1 /\ Is(k.up, n + 1, "GEN")
        BY <2>3, <2>4, <2>6, <2>7, <3>2, <4>1, UpIs DEF Is
      <4>3. \A i \in 1 .. n + 1 : i = n + 1 \/ n + 1 \in i + 1 .. n + 1
        BY <4>1
      <4> QED BY <4>2, <4>3 DEF Is
    <3> QED BY <3>1, <3>2 DEF Ahead
  <2>10. link'[fd] = k
    BY <1>3, <2>1, <2>2, <2>3, <2>4 DEF LinkInv
  <2>11. Flows(link[fd], made[req], verdict[req])'
    BY <1>1, <1>3, <2>5, <2>8, <2>9, <2>10 DEF Flows
  <2> QED BY <1>1, <2>11 DEF FlowInv
<1> QED BY <1>2, <1>3 DEF WriteGen

LEMMA WriteFrameFlows == ASSUME LinkInv, FlowInv, WriteFrame PROVE FlowInv'
<1>1. phase = "writing" /\ UNCHANGED <<got, made, verdict>>
  BY DEF WriteFrame, history
<1>2. CASE GiveUp(link[fd], "lost")
  BY <1>1, <1>2, IdleFlows DEF GiveUp, Return
<1>3. CASE link' = [link EXCEPT ![fd] = Up(@, Line("F", req))] /\ UNCHANGED <<req, fd>>
  <2>1. PICK l : l = link[fd]
    OBVIOUS
  <2>2. PICK m : m = Line("F", req)
    OBVIOUS
  <2>3. PICK k : k = Up(l, m)
    OBVIOUS
  <2>4. /\ fd \in Conn /\ Proper(l) /\ req \in Req /\ l.dn \in Seq(DnLine)
        /\ Told(l, req, got[req], made[req], verdict[req]) /\ Ahead(l, req, made[req])
    BY <1>1, <2>1, Here DEF Flows
  <2>5. m \in UpLine /\ m.kind = "F"
    BY <2>2, <2>4, LineIs
  <2>6. k.dn = l.dn /\ k.shut = l.shut
    BY <2>3, <2>4, <2>5, UpIs
  <2>7. Told(k, req, got[req], made[req], verdict[req]) /\ Ahead(k, req, made[req])
    BY <2>3, <2>4, <2>5, <2>6, ToldSame, AheadUp
  <2>8. link'[fd] = k
    BY <1>3, <2>1, <2>2, <2>3, <2>4 DEF LinkInv
  <2>9. Flows(link[fd], made[req], verdict[req])'
    BY <1>1, <1>3, <2>7, <2>8 DEF Flows
  <2> QED BY <1>1, <2>9 DEF FlowInv
<1> QED BY <1>2, <1>3 DEF WriteFrame

LEMMA HeartbeatFlows == ASSUME LinkInv, FlowInv, Heartbeat PROVE FlowInv'
<1>1. /\ phase = "reading" /\ SendX(link[fd])
      /\ UNCHANGED <<req, phase, fd, got, made, verdict>>
  BY DEF Heartbeat, history
<1>2. /\ Proper(link[fd]) /\ got[req] \in Nat
      /\ Told(link[fd], req, got[req], made[req], verdict[req]) /\ Ahead(link[fd], req, made[req])
  BY <1>1, Here DEF Flows
<1>3. /\ Told(link'[fd], req, got[req], made[req], verdict[req])
      /\ Ahead(link'[fd], req, made[req])
  BY <1>1, <1>2, SendXFlows
<1>4. Flows(link[fd], made[req], verdict[req])'
  BY <1>1, <1>3 DEF Flows
<1> QED BY <1>1, <1>4 DEF FlowInv

(* The rest of the lines when the client has read one.                      *)
LEMMA ReadFlows ==
    ASSUME LinkInv, FlowInv, phase = "reading", NEW l, l = link[fd], l.dn # <<>>
    PROVE  /\ Proper(Read) /\ Head(l.dn) = l.dn[1]
           /\ l.dn[1].req # req => /\ Told(Read, req, got[req], made[req], verdict[req])
                                   /\ Ahead(Read, req, made[req])
           /\ l.dn[1].req = req /\ Is(l.dn, 1, "T") =>
                /\ got[req] < made[req]
                /\ Told(Read, req, got[req] + 1, made[req], verdict[req])
                /\ Ahead(Read, req, made[req])
           /\ l.dn[1].req = req /\ Is(l.dn, 1, "D") =>
                got[req] = made[req] /\ l.dn[1].why \in {"cancel", verdict[req]}
<1>1. PICK k : k = Read
  OBVIOUS
<1>2. /\ fd \in Conn /\ l \in LinkRecord /\ l.dn \in Seq(DnLine)
      /\ got[req] \in Nat /\ made[req] \in Nat /\ req \in Req
      /\ Told(l, req, got[req], made[req], verdict[req]) /\ Ahead(l, req, made[req])
  BY Here DEF Flows
<1>3. Proper(k) /\ Head(l.dn) = l.dn[1]
  BY <1>1, UsedRead DEF Used
<1>4. /\ k.dn = Tail(l.dn) /\ k.up = l.up /\ k.shut = l.shut /\ k.cur = l.cur
      /\ k.reader = l.reader /\ k.worker = l.worker
  <2>1. k = [l EXCEPT !.dn = Tail(@)] /\ Tail(l.dn) \in Seq(DnLine)
    BY <1>1, <1>2, TailIs DEF Read
  <2> QED BY <1>2, <2>1 DEF LinkRecord
<1>5. ~(l.dn[1].req = req /\ Is(l.dn, 1, "D")) /\ Ended(l.dn, req) => Ended(k.dn, req)
  <2>1. SUFFICES ASSUME NEW i \in 1 .. Len(l.dn), Is(l.dn, i, "D"), l.dn[i].req = req,
                        ~(l.dn[1].req = req /\ Is(l.dn, 1, "D"))
                 PROVE  Ended(k.dn, req)
    BY DEF Ended
  <2>2. PICK n \in Nat : Len(l.dn) = n + 1 /\ n = Len(l.dn) - 1
    <3>1. Len(l.dn) \in Nat \ {0}
      BY <1>2, TailIs
    <3>2. Len(l.dn) - 1 \in Nat /\ Len(l.dn) = (Len(l.dn) - 1) + 1
      BY <3>1
    <3> QED BY <3>2
  <2>3. Len(k.dn) = n /\ \A j \in 1 .. n : k.dn[j] = l.dn[j + 1]
    BY <1>2, <1>4, <2>2, TailIs
  <2>4. i # 1
    BY <2>1
  <2>5. PICK j \in 1 .. n : j + 1 = i
    <3>1. i - 1 \in 1 .. n /\ (i - 1) + 1 = i
      BY <2>1, <2>2, <2>4
    <3> QED BY <3>1
  <2> QED BY <2>1, <2>3, <2>5 DEF Ended, Is
<1>6. l.dn[1].req # req \/ Is(l.dn, 1, "T") => Ahead(k, req, made[req])
  <2>1. Is(l.dn, 1, "T") => ~Is(l.dn, 1, "D")
    BY DEF Is
  <2> QED BY <1>2, <1>4, <1>5, <2>1, AheadSame
<1>7. /\ l.dn[1].req # req => Told(k, req, got[req], made[req], verdict[req])
      /\ l.dn[1].req = req /\ Is(l.dn, 1, "T") =>
           got[req] < made[req] /\ Told(k, req, got[req] + 1, made[req], verdict[req])
      /\ l.dn[1].req = req /\ Is(l.dn, 1, "D") =>
           got[req] = made[req] /\ l.dn[1].why \in {"cancel", verdict[req]}
  <2>1. PICK g, p, w : g = got[req] /\ p = made[req] /\ w = verdict[req]
    OBVIOUS
  <2>2. /\ l.dn \in Seq(DnLine) /\ l.dn # <<>> /\ k.dn = Tail(l.dn) /\ k.shut = l.shut
        /\ g \in Nat /\ p \in Nat /\ Told(l, req, g, p, w)
    BY <1>2, <1>4, <2>1
  <2>3. l.dn[1].req # req => Told(k, req, g, p, w)
    BY <2>2, ToldRead
  <2>4. l.dn[1].req = req /\ Is(l.dn, 1, "T") => g < p /\ Told(k, req, g + 1, p, w)
    BY <2>2, ToldRead
  <2>5. ASSUME l.dn[1].req = req, Is(l.dn, 1, "D")
        PROVE  g = p /\ l.dn[1].why \in {"cancel", w}
    BY <2>2, <2>5, ToldLast
  <2> QED BY <2>1, <2>3, <2>4, <2>5
<1> QED BY <1>1, <1>3, <1>6, <1>7

LEMMA ReadTFlows == ASSUME LinkInv, FlowInv, ReadT PROVE FlowInv' /\ got[req] < made[req]
<1>1. PICK l : l = link[fd]
  OBVIOUS
<1>2. /\ phase = "reading" /\ l.dn # <<>> /\ Head(l.dn).kind = "T" /\ Head(l.dn).req = req
      /\ got' = [got EXCEPT ![req] = @ + 1] /\ UNCHANGED <<req, phase, fd, made, verdict>>
      /\ link' = [link EXCEPT ![fd] = Read] \/ SendX(Read)
  BY <1>1 DEF ReadT, Arrived, history
<1>3. Proper(Read) /\ Head(l.dn) = l.dn[1]
  BY <1>1, <1>2, UsedRead DEF Used
<1>4. /\ got[req] < made[req] /\ got[req] \in Nat
      /\ Told(Read, req, got[req] + 1, made[req], verdict[req]) /\ Ahead(Read, req, made[req])
  BY <1>1, <1>2, <1>3, ReadFlows, Here DEF Is
<1>5. /\ Told(link'[fd], req, got[req] + 1, made[req], verdict[req])
      /\ Ahead(link'[fd], req, made[req])
  <2>1. CASE link' = [link EXCEPT ![fd] = Read]
    <3>1. fd \in Conn
      BY <1>2, Here
    <3>2. link'[fd] = Read
      BY <2>1, <3>1 DEF LinkInv
    <3> QED BY <1>4, <3>2
  <2>2. CASE SendX(Read)
    BY <1>2, <1>3, <1>4, <2>2, SendXFlows
  <2> QED BY <1>2, <2>1, <2>2
<1>6. /\ got'[req] = got[req] + 1 /\ req \in Req /\ made[req] \in Nat
      /\ \A r \in Req : r # req => got'[r] = got[r]
  <2>1. got \in [Req -> Nat] /\ req \in Req /\ made[req] \in Nat
    BY <1>2, Here DEF LinkInv, ClientTypes
  <2> QED BY <1>2, <2>1
<1>7. Flows(link[fd], made[req], verdict[req])'
  BY <1>2, <1>5, <1>6 DEF Flows
<1>8. \A r \in Req : got'[r] <= made'[r]
  <2>1. \A r \in Req : got[r] <= made[r]
    BY DEF FlowInv
  <2> QED BY <1>2, <1>4, <1>6, <2>1
<1> QED BY <1>4, <1>7, <1>8 DEF FlowInv

LEMMA SkipLineFlows == ASSUME LinkInv, FlowInv, SkipLine PROVE FlowInv'
<1>1. PICK l : l = link[fd]
  OBVIOUS
<1>2. /\ phase = "reading" /\ l.dn # <<>> /\ Head(l.dn).req # req
      /\ link' = [link EXCEPT ![fd] = Read] /\ UNCHANGED <<req, phase, fd, got, made, verdict>>
  BY <1>1 DEF SkipLine, client, history
<1>3. Head(l.dn) = l.dn[1]
  BY <1>1, <1>2, UsedRead
<1>4. Told(Read, req, got[req], made[req], verdict[req]) /\ Ahead(Read, req, made[req])
  BY <1>1, <1>2, <1>3, ReadFlows
<1>5. fd \in Conn
  BY <1>2, Here
<1>6. link'[fd] = Read
  BY <1>2, <1>5 DEF LinkInv
<1>7. Flows(link[fd], made[req], verdict[req])'
  BY <1>2, <1>4, <1>6 DEF Flows
<1> QED BY <1>2, <1>7 DEF FlowInv

LEMMA ClientFlows == ASSUME LinkInv, FlowInv, Client PROVE FlowInv'
<1>1. CASE \/ Connect \/ Unreachable \/ ReadD \/ ReadEof \/ IdleTimeout \/ GraceTimeout
  <2>1. phase' = "idle" /\ got' = got /\ made' = made
    BY <1>1 DEF Connect, Unreachable, ReadD, ReadEof, IdleTimeout, GraceTimeout, GiveUp, Return,
                history
  <2> QED BY <2>1, IdleFlows
<1> QED BY <1>1, WriteGenFlows, WriteFrameFlows, ReadTFlows, SkipLineFlows DEF Client

LEMMA CrashFlows == ASSUME LinkInv, FlowInv, Crash PROVE FlowInv'
<1>1. UNCHANGED <<req, phase, fd, got, made, verdict>> /\ \A c \in Conn : link'[c] \in Shut(link[c])
  BY DEF Crash, client, history
<1>2. ASSUME phase # "idle" PROVE Flows(link[fd], made[req], verdict[req])'
  <2>1. fd \in Conn
    BY <1>2, Here
  <2>2. Flows(link'[fd], made[req], verdict[req])
    BY <1>1, <1>2, <2>1, ShutFlows
  <2> QED BY <1>1, <2>2 DEF Flows
<1> QED BY <1>1, <1>2 DEF FlowInv

LEMMA NextFlows == ASSUME LinkInv, FlowInv, [Next]_vars PROVE FlowInv'
<1>1. CASE Restart \/ AllServed \/ UNCHANGED vars
  <2>1. UNCHANGED <<req, phase, fd, got, made, verdict, link>>
    BY <1>1 DEF Restart, AllServed, vars, client, history
  <2> QED BY <2>1 DEF FlowInv, Flows
<1>2. CASE \E c \in Conn : Reader(c) \/ Worker(c)
  BY <1>2, EngineFlows
<1> QED BY <1>1, <1>2, ClientFlows, HeartbeatFlows, CrashFlows DEF Next

-----------------------------------------------------------------------------
(* What comes down on the connection in use is, behind leftovers, exactly   *)
(* what the caller has yet to be told.                                      *)
THEOREM LinesTellAll == ASSUME LinkAssumption PROVE Spec => []FlowInv
<1>1. Init => FlowInv
  BY DEF Init, FlowInv
<1>2. LinkInv /\ FlowInv /\ [Next]_vars => FlowInv'
  BY NextFlows
<1> QED BY <1>1, <1>2, LinkInvariant, PTL DEF Spec

(* The type invariant: the caller never gets more tokens than were made.    *)
THEOREM TypesHold == ASSUME LinkAssumption PROVE Spec => []TypeOK
<1>1. LinkInv /\ FlowInv => TypeOK
  <2> SUFFICES ASSUME LinkInv, FlowInv PROVE TypeOK
    OBVIOUS
  <2>1. MaxTokens \in Nat /\ got \in [Req -> Nat] /\ made \in [Req -> 0 .. MaxTokens]
    BY LinkFacts DEF LinkInv, ClientTypes, EngineTypes
  <2>2. got \in [Req -> 0 .. MaxTokens]
    BY <2>1 DEF FlowInv
  <2>3. asked \in [Req -> Nat]
    BY DEF LinkInv, AskedOnce
  <2>4. /\ req \in 1 .. NReq + 1 /\ phase \in {"idle", "writing", "reading"}
        /\ unsent \in Nat /\ fd \in 0 .. NReq /\ cancelled \in BOOLEAN
        /\ phase # "idle" => req <= NReq /\ fd # 0
        /\ outcome \in [Req -> {"none", "done", "error", "cancel", "timeout", "lost",
                                "unreachable"}]
    <3>1. {"none", "timeout", "lost", "unreachable"} \cup Judged
            = {"none", "done", "error", "cancel", "timeout", "lost", "unreachable"}
      BY DEF Judged
    <3> QED BY <3>1 DEF LinkInv, ClientTypes
  <2>5. /\ verdict \in [Req -> {"none", "done", "error", "cancel"}]
        /\ alive \in BOOLEAN /\ crashes \in 0 .. MaxCrashes
    <3>1. {"none"} \cup Judged = {"none", "done", "error", "cancel"}
      BY DEF Judged
    <3> QED BY <3>1 DEF LinkInv, EngineTypes
  <2>6. ASSUME NEW c \in Conn
        PROVE  /\ link[c].hung \in BOOLEAN /\ link[c].shut \in BOOLEAN
               /\ link[c].reader \in {"gone", "top", "frames", "ending"}
               /\ link[c].worker \in {"none", "run", "finish", "tail", "exited"}
               /\ link[c].in_flight \in BOOLEAN /\ link[c].cancel \in BOOLEAN
    <3>1. link[c] \in LinkRecord
      BY DEF LinkInv
    <3> QED BY <3>1 DEF LinkRecord
  <2> QED BY <2>1, <2>2, <2>3, <2>4, <2>5, <2>6 DEF TypeOK
<1> QED BY <1>1, LinkInvariant, LinesTellAll, PTL

-----------------------------------------------------------------------------
(* The refinement.                                                          *)

LEMMA JudgeOrProduce ==
    ASSUME LinkInv, NEW c \in Conn, Reader(c) \/ Worker(c)
    PROVE  Abstract!Next \/ UNCHANGED Abstract!vars
<1>1. UNCHANGED <<got, outcome>> /\ made \in [Req -> 0 .. MaxTokens]
      /\ verdict \in [Req -> {"none"} \cup Judged]
  BY EngineJudges DEF client, LinkInv, EngineTypes
<1>2. ASSUME NEW r \in Req, Waits(link[c], r), NEW why \in Judged, made' = made,
             verdict' = [verdict EXCEPT ![r] = why]
      PROVE  Abstract!Next
  <2>1. verdict[r] = "none"
    BY <1>2, AccountedAt DEF UpAccounted
  <2>2. Abstract!Judge(r)
    BY <1>1, <1>2, <2>1 DEF Abstract!Judge, Judged
  <2> QED BY <2>2 DEF Abstract!Next
<1>3. CASE Emit(c)
  <2>1. PICK r : r = link[c].cur
    OBVIOUS
  <2>2. r \in Req /\ Waits(link[c], r)
    BY <1>3, <2>1, ReadsIs DEF Emit, Proper, OneAtATime, Waits
  <2>3. verdict[r] = "none"
    BY <2>2, AccountedAt DEF UpAccounted
  <2>4. Abstract!Produce(r)
    BY <1>1, <1>3, <2>1, <2>3 DEF Emit, Abstract!Produce
  <2> QED BY <2>2, <2>4 DEF Abstract!Next
<1>4. CASE End(c)
  <2>1. link[c].cur \in Req /\ Waits(link[c], link[c].cur)
    BY <1>4, ReadsIs DEF End, Proper, OneAtATime, Waits
  <2>2. PICK why \in Judged : verdict' = [verdict EXCEPT ![link[c].cur] = why]
    BY <1>4 DEF End, Judged
  <2> QED BY <1>2, <1>4, <2>1, <2>2 DEF End
<1>5. CASE FrameReadFails(c) \/ Reject(c) \/ Dispatch(c)
  <2>1. link[c].gen \in Req /\ Waits(link[c], link[c].gen) /\ made' = made
    BY <1>5, ReadsIs DEF FrameReadFails, Reject, Dispatch, Proper, OneAtATime, Waits
  <2>2. \/ verdict' = [verdict EXCEPT ![link[c].gen] = "error"]
        \/ UNCHANGED verdict
    BY <1>5 DEF FrameReadFails, Reject, Dispatch
  <2> QED BY <1>1, <1>2, <2>1, <2>2 DEF Abstract!vars, Judged
<1>6. CASE \/ HandleX(c) \/ HandleGen(c) \/ DrainFrame(c) \/ ReadEnd(c)
           \/ Disconnect(c) \/ Close(c) \/ WriteD(c) \/ Exit(c)
  <2>1. UNCHANGED <<verdict, made>>
    BY <1>6 DEF HandleX, HandleGen, DrainFrame, ReadEnd, Disconnect, Close, WriteD, Exit, history
  <2> QED BY <1>1, <2>1 DEF Abstract!vars
<1> QED BY <1>3, <1>4, <1>5, <1>6 DEF Reader, Worker

LEMMA Withdrawn ==
    ASSUME LinkInv, req <= NReq, NEW why \in {"timeout", "lost", "unreachable"}, Return(why),
           UNCHANGED <<got, made, verdict>>
    PROVE  Abstract!Next
<1>1. req \in Req /\ outcome[req] = "none"
  BY DEF LinkInv, ClientTypes, Fresh, Req
<1>2. Abstract!Withdraw(req)
  BY <1>1 DEF Abstract!Withdraw, Return
<1> QED BY <1>1, <1>2 DEF Abstract!Next

LEMMA Answered == ASSUME LinkInv, FlowInv, ReadD PROVE Abstract!Next
<1>1. PICK l : l = link[fd]
  OBVIOUS
<1>2. /\ phase = "reading" /\ l.dn # <<>> /\ Head(l.dn).kind = "D" /\ Head(l.dn).req = req
      /\ Return(Head(l.dn).why) /\ UNCHANGED <<got, made, verdict>>
  BY <1>1 DEF ReadD, Arrived, history
<1>3. Head(l.dn) = l.dn[1] /\ verdict[l.dn[1].req] # "none"
  BY <1>1, <1>2, UsedRead
<1>4. /\ got[req] = made[req] /\ l.dn[1].why \in {"cancel", verdict[req]}
  BY <1>1, <1>2, <1>3, ReadFlows DEF Is
<1>5. /\ req \in Req /\ outcome[req] = "none" /\ verdict[req] \in Judged
  <2>1. req \in Req
    BY <1>2, Here
  <2> QED BY <1>2, <1>3, <2>1 DEF LinkInv, EngineTypes, Fresh, Req
<1>6. outcome' = [outcome EXCEPT ![req] = l.dn[1].why]
  BY <1>2, <1>3 DEF Return
<1>7. CASE l.dn[1].why = "cancel"
  <2>1. Abstract!Cancelled(req)
    BY <1>2, <1>5, <1>6, <1>7 DEF Abstract!Cancelled, Judged
  <2> QED BY <1>5, <2>1 DEF Abstract!Next
<1>8. CASE l.dn[1].why = verdict[req] /\ l.dn[1].why # "cancel"
  <2>1. Abstract!Answer(req)
    BY <1>2, <1>4, <1>5, <1>6, <1>8 DEF Abstract!Answer, Judged
  <2> QED BY <1>5, <2>1 DEF Abstract!Next
<1> QED BY <1>4, <1>7, <1>8

LEMMA GenerationStep ==
    ASSUME LinkInv, FlowInv, [Next]_vars
    PROVE  [Abstract!Next]_(Abstract!vars)
<1>1. CASE ReadT
  <2>1. got[req] < made[req]
    BY <1>1, ReadTFlows
  <2>2. req \in Req /\ outcome[req] = "none"
    <3>1. req \in Req
      BY <1>1, Here DEF ReadT, Arrived
    <3> QED BY <3>1 DEF LinkInv, Fresh, Req
  <2>3. Abstract!Deliver(req)
    BY <1>1, <2>1, <2>2 DEF ReadT, Abstract!Deliver, history
  <2> QED BY <2>2, <2>3 DEF Abstract!Next
<1>2. CASE Unreachable \/ ReadEof \/ IdleTimeout \/ GraceTimeout
  <2>1. req <= NReq /\ UNCHANGED <<got, made, verdict>>
        /\ \E why \in {"timeout", "lost", "unreachable"} : Return(why)
    BY <1>2 DEF Unreachable, ReadEof, IdleTimeout, GraceTimeout, GiveUp, history,
                LinkInv, ClientTypes
  <2> QED BY <2>1, Withdrawn
<1>3. CASE WriteGen \/ WriteFrame
  <2>1. req <= NReq /\ UNCHANGED <<got, made, verdict>>
        /\ (Return("lost") \/ UNCHANGED outcome)
    BY <1>3 DEF WriteGen, WriteFrame, GiveUp, history, LinkInv, ClientTypes
  <2> QED BY <2>1, Withdrawn DEF Abstract!vars
<1>4. CASE Connect \/ SkipLine \/ Heartbeat \/ Crash \/ Restart \/ AllServed \/ UNCHANGED vars
  <2>1. UNCHANGED <<made, verdict, got, outcome>>
    BY <1>4 DEF Connect, SkipLine, Heartbeat, Crash, Restart, AllServed, vars, client, history
  <2> QED BY <2>1 DEF Abstract!vars
<1> QED BY <1>1, <1>2, <1>3, <1>4, Answered, JudgeOrProduce DEF Next, Client

(* The two ends of the connection implement what a generation promises its  *)
(* caller: an answer is the engine's verdict, given once, and only when     *)
(* every token made has been delivered; a cancelled one only after the      *)
(* engine was done with the request.                                        *)
THEOREM GenerationsArePromised == ASSUME LinkAssumption PROVE Spec => ImplementsGeneration
<1>1. Init => Abstract!Init
  BY DEF Init, Abstract!Init
<1>2. LinkInv /\ FlowInv /\ [Next]_vars => [Abstract!Next]_(Abstract!vars)
  BY GenerationStep
<1> QED BY <1>1, <1>2, LinkInvariant, LinesTellAll, PTL
        DEF Spec, ImplementsGeneration, Abstract!Spec

-----------------------------------------------------------------------------
(* Nothing that one request does costs the next its connection.             *)

Harmless == MaxCrashes = 0 /\ ~Stalls /\ \A r \in Req : ~Undrainable(r)

StaysOpen ==
    /\ fd # 0 => link[fd].reader \in {"top", "frames"}
    /\ NoneLost

LEMMA OpenIs ==
    ASSUME LinkInv, StaysOpen, fd # 0
    PROVE  ~link[fd].shut /\ ~link[fd].hung /\ fd \in Conn
BY UseFacts DEF StaysOpen, InUse, Proper, OneAtATime

LEMMA EngineStaysOpen ==
    ASSUME LinkInv, Harmless, StaysOpen, NEW c \in Conn, Reader(c) \/ Worker(c)
    PROVE  StaysOpen'
<1>1. PICK l : l = link[c]
  OBVIOUS
<1>2. PICK k : link' = [link EXCEPT ![c] = k]
  BY EngineJudges
<1>3. UNCHANGED <<fd, outcome>> /\ link \in [Conn -> LinkRecord] /\ l \in LinkRecord /\ SaysHow(l)
      /\ Proper(l)
  BY <1>1, EngineJudges, ReadsIs DEF client, LinkInv, Proper
<1>4. CASE fd # c
  BY <1>2, <1>3, <1>4 DEF StaysOpen, NoneLost
<1>5. CASE fd = c
  <2>1. ~l.hung /\ ~l.shut /\ l.reader \in {"top", "frames"} /\ fd # 0
    <3>1. fd # 0
      BY <1>5 DEF Conn, Req
    <3> QED BY <1>1, <1>5, <3>1, OpenIs DEF StaysOpen
  <2>2. k.reader \in {"top", "frames"}
    <3>1. ~ReadEnd(c) /\ ~Disconnect(c) /\ ~Close(c) /\ ~FrameReadFails(c)
      BY <1>1, <2>1 DEF ReadEnd, Disconnect, Close, FrameReadFails, Harmless
    <3>2. link'[c] = k
      BY <1>2, <1>3
    <3>3. CASE HandleX(c)
      <4>1. PICK t : t = [l EXCEPT !.up = Tail(@)]
        OBVIOUS
      <4>2. t.reader = l.reader /\ t.hung = l.hung /\ t \in LinkRecord
        <5>1. l.up # <<>>
          BY <1>1, <3>3 DEF HandleX, AtTop
        <5> QED BY <1>3, <4>1, <5>1, TookFields
      <4>3. \/ k = [t EXCEPT !.cancel = TRUE]
            \/ \E m : k = Down(t, m)
        BY <1>1, <1>3, <2>1, <3>2, <3>3, <4>1, <4>2 DEF HandleX, Took, Set, Answer
      <4>4. k.reader = l.reader
        BY <4>2, <4>3 DEF Down, LinkRecord
      <4> QED BY <2>1, <4>4
    <3>4. CASE HandleGen(c)
      <4>1. PICK t : t = [l EXCEPT !.up = Tail(@)]
        OBVIOUS
      <4>2. t \in LinkRecord
        BY <1>1, <1>3, <3>4, <4>1, TookFields DEF HandleGen, AtTop
      <4>3. \E r : k = [t EXCEPT !.reader = "frames", !.gen = r, !.left = Announced(r)]
        BY <1>1, <1>3, <3>2, <3>4, <4>1 DEF HandleGen, Took, Set
      <4> QED BY <4>2, <4>3 DEF LinkRecord
    <3>5. CASE DrainFrame(c)
      <4>1. PICK t : t = [l EXCEPT !.up = Tail(@)]
        OBVIOUS
      <4>2. t \in LinkRecord /\ t.reader = l.reader
        <5>1. l.up # <<>>
          BY <1>1, <3>5 DEF DrainFrame
        <5> QED BY <1>3, <4>1, <5>1, TookFields
      <4>3. k = [t EXCEPT !.left = @ - 1]
        BY <1>1, <1>3, <3>2, <3>5, <4>1 DEF DrainFrame, Took, Set
      <4> QED BY <2>1, <4>2, <4>3 DEF LinkRecord
    <3>6. CASE Reject(c)
      <4>1. l.reader = "frames" /\ l.gen \in Req
        BY <1>1, <1>3, <3>6 DEF Reject, Proper, OneAtATime
      <4>2. ~Undrainable(l.gen)
        BY <4>1 DEF Harmless
      <4>3. PICK e : e = [l EXCEPT !.reader = "top"]
        OBVIOUS
      <4>4. e \in LinkRecord /\ e.reader = "top" /\ e.hung = l.hung
        BY <1>3, <4>3, ReaderAt
      <4>5. \E m : k = Down(e, m)
        BY <1>1, <1>3, <2>1, <3>2, <3>6, <4>2, <4>3, <4>4 DEF Reject, Answer, Set
      <4> QED BY <4>4, <4>5 DEF Down, LinkRecord
    <3>7. CASE Dispatch(c)
      <4>1. l.reader = "frames" /\ ~l.in_flight
        BY <1>1, <1>3, <3>7 DEF Dispatch, Proper, OneAtATime
      <4>2. k = [l EXCEPT !.reader = "top", !.cancel = FALSE, !.cur = l.gen,
                          !.in_flight = TRUE, !.worker = "run"]
        BY <1>1, <1>3, <3>2, <3>7, <4>1 DEF Dispatch, Set
      <4> QED BY <1>3, <4>2 DEF LinkRecord
    <3>8. CASE Worker(c)
      <4>1. k.reader = l.reader
        <5>1. CASE Emit(c)
          <6>1. \E m : k = Down(l, m)
            BY <1>1, <1>3, <2>1, <3>2, <5>1 DEF Emit, Set
          <6> QED BY <1>3, <6>1 DEF Down, LinkRecord
        <5>2. CASE End(c)
          <6>1. \E why : k = [l EXCEPT !.worker = "finish", !.in_flight = FALSE, !.reply = why]
            BY <1>1, <1>3, <3>2, <5>2 DEF End, Set
          <6> QED BY <1>3, <6>1 DEF LinkRecord
        <5>3. CASE WriteD(c)
          <6>1. \E m : k = [Down(l, m) EXCEPT !.worker = "tail"]
            BY <1>1, <1>3, <3>2, <5>3 DEF WriteD, Set
          <6> QED BY <1>3, <6>1 DEF Down, LinkRecord
        <5>4. CASE Exit(c)
          <6>1. PICK e : e = [l EXCEPT !.worker = "exited", !.reply = "", !.in_flight = FALSE]
            OBVIOUS
          <6>2. k = e \/ \E m : k = Down(e, m)
            BY <1>1, <1>3, <3>2, <5>4, <6>1 DEF Exit, Set
          <6>3. e \in LinkRecord /\ e.reader = l.reader
            BY <1>3, <6>1 DEF LinkRecord
          <6> QED BY <6>2, <6>3 DEF Down, LinkRecord
        <5> QED BY <3>8, <5>1, <5>2, <5>3, <5>4 DEF Worker
      <4> QED BY <2>1, <4>1
    <3> QED BY <3>1, <3>3, <3>4, <3>5, <3>6, <3>7, <3>8 DEF Reader
  <2>3. link'[fd'] = k
    BY <1>2, <1>3, <1>5
  <2> QED BY <1>3, <2>2, <2>3 DEF StaysOpen, NoneLost
<1> QED BY <1>4, <1>5

LEMMA ClientStaysOpen ==
    ASSUME LinkInv, Harmless, StaysOpen, Client \/ Heartbeat
    PROVE  StaysOpen'
<1>1. link \in [Conn -> LinkRecord] /\ outcome \in [Req -> {"none", "timeout", "lost", "unreachable"} \cup Judged]
      /\ NoneLost /\ LinkAssumption
  BY DEF LinkInv, ClientTypes, StaysOpen
<1>2. ASSUME NEW k, fd # 0, link' = [link EXCEPT ![fd] = k], UNCHANGED <<fd, outcome>>,
             k.reader = link[fd].reader
      PROVE  StaysOpen'
  <2>1. link'[fd'] = k
    BY <1>1, <1>2, OpenIs
  <2> QED BY <1>2, <2>1 DEF StaysOpen, NoneLost
<1>3. ASSUME NEW why, why # "lost", Return(why) PROVE NoneLost'
  BY <1>1, <1>3 DEF Return, NoneLost
<1>4. CASE Connect
  <2>1. /\ fd' = req /\ link' = [link EXCEPT ![req] = Opened] /\ outcome' = outcome
        /\ req \in Conn
    BY <1>4 DEF Connect, LinkInv, ClientTypes, Conn, Req
  <2>2. link'[fd'].reader = "top"
    BY <1>1, <2>1, ClosedIs
  <2> QED BY <1>1, <2>1, <2>2 DEF StaysOpen, NoneLost
<1>5. CASE Unreachable
  <2>1. fd' = 0 /\ Return("unreachable")
    BY <1>5 DEF Unreachable
  <2> QED BY <1>3, <2>1 DEF StaysOpen
<1>6. CASE WriteGen \/ WriteFrame
  <2>1. fd # 0 /\ ~link[fd].shut
    <3>1. fd # 0
      BY <1>6 DEF WriteGen, WriteFrame, LinkInv, ClientTypes
    <3> QED BY <3>1, OpenIs
  <2>2. PICK m : link' = [link EXCEPT ![fd] = Up(@, m)] /\ UNCHANGED <<fd, outcome>>
    BY <1>6, <2>1 DEF WriteGen, WriteFrame
  <2>3. link[fd] \in LinkRecord
    BY <1>1, <2>1, OpenIs
  <2>4. Up(link[fd], m).reader = link[fd].reader
    BY <2>3 DEF Up, LinkRecord
  <2>5. link' = [link EXCEPT ![fd] = Up(link[fd], m)]
    BY <1>1, <2>1, <2>2, OpenIs
  <2> QED BY <1>2, <2>1, <2>2, <2>4, <2>5
<1>7. CASE ReadT \/ SkipLine \/ Heartbeat
  <2>1. phase = "reading" /\ UNCHANGED <<fd, outcome>> /\ fd # 0
    BY <1>7 DEF ReadT, SkipLine, Heartbeat, Arrived, client, LinkInv, ClientTypes
  <2>2. link[fd] \in LinkRecord /\ ~link[fd].shut
    BY <1>1, <2>1, OpenIs
  <2>3. PICK t : t = Read
    OBVIOUS
  <2>4. t.reader = link[fd].reader /\ t.shut = link[fd].shut /\ t = [link[fd] EXCEPT !.dn = Tail(@)]
    BY <2>2, <2>3 DEF Read, LinkRecord
  <2>5. PICK l \in {link[fd], t} : \/ link' = [link EXCEPT ![fd] = l]
                                   \/ link' = [link EXCEPT ![fd] = Up(l, Line("X", req))]
    BY <1>7, <2>2, <2>3, <2>4 DEF ReadT, SkipLine, Heartbeat, SendX
  <2>6. l.reader = link[fd].reader /\ Up(l, Line("X", req)).reader = link[fd].reader
    BY <2>2, <2>4, <2>5 DEF Up, LinkRecord
  <2> QED BY <1>2, <2>1, <2>5, <2>6
<1>8. CASE ReadD
  <2>1. /\ phase = "reading" /\ link[fd].dn # <<>> /\ link' = [link EXCEPT ![fd] = Read]
        /\ Return(Head(link[fd].dn).why) /\ fd # 0
        /\ fd' = (IF link[fd].hung THEN 0 ELSE fd)
    BY <1>8 DEF ReadD, Arrived, LinkInv, ClientTypes
  <2>2. Head(link[fd].dn).why # "lost"
    <3>1. Head(link[fd].dn) \in DnLine
      BY <2>1, UsedRead
    <3> QED BY <3>1 DEF DnLine, Judged
  <2>3. fd' = fd /\ link[fd] \in LinkRecord /\ fd \in Conn
    BY <1>1, <2>1, OpenIs
  <2>4. link'[fd'].reader = link[fd].reader
    BY <1>1, <2>1, <2>3 DEF Read, LinkRecord
  <2> QED BY <1>3, <2>1, <2>2, <2>3, <2>4 DEF StaysOpen
<1>9. CASE ReadEof
  <2>1. fd # 0 /\ link[fd].shut
    BY <1>9 DEF ReadEof, LinkInv, ClientTypes
  <2> QED BY <2>1, OpenIs
<1>10. CASE IdleTimeout \/ GraceTimeout
  <2>1. fd' = 0 /\ Return("timeout")
    BY <1>10 DEF IdleTimeout, GraceTimeout, GiveUp
  <2> QED BY <1>3, <2>1 DEF StaysOpen
<1> QED BY <1>4, <1>5, <1>6, <1>7, <1>8, <1>9, <1>10 DEF Client

(* While the engine runs and every request that may be refused has its      *)
(* frames drained, no request loses its connection to what another one did  *)
(* with it: not to a rejection, a cancel, a timeout, or lines left over.    *)
THEOREM NobodyIsLost == ASSUME LinkAssumption, Harmless PROVE Spec => []NoneLost
<1>1. Init => StaysOpen
  BY DEF Init, StaysOpen, NoneLost
<1>2. LinkInv /\ StaysOpen /\ [Next]_vars => StaysOpen'
  <2> SUFFICES ASSUME LinkInv, StaysOpen, [Next]_vars PROVE StaysOpen'
    OBVIOUS
  <2>1. ~Crash
    BY DEF Crash, Harmless, LinkInv, EngineTypes
  <2>2. CASE Restart \/ AllServed \/ UNCHANGED vars
    <3>1. UNCHANGED <<fd, link, outcome>>
      BY <2>2 DEF Restart, AllServed, vars, client
    <3> QED BY <3>1 DEF StaysOpen, NoneLost
  <2>3. CASE \E c \in Conn : Reader(c) \/ Worker(c)
    BY <2>3, EngineStaysOpen
  <2> QED BY <2>1, <2>2, <2>3, ClientStaysOpen DEF Next
<1>3. StaysOpen => NoneLost
  BY DEF StaysOpen
<1> QED BY <1>1, <1>2, <1>3, LinkInvariant, PTL DEF Spec

=============================================================================
