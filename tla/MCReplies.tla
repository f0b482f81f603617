----------------------------- MODULE MCReplies -----------------------------
(* How a reply of the engine becomes what the client gets, and a request    *)
(* what the engine gets, each step on small instances: one behaviour is of  *)
(* one part, chosen at the start, and the variables of the other components *)
(* stay "off".  The variables of SpecDecode itself are those of the chain's *)
(* loop, and stay as they are at the start in another part.                 *)
EXTENDS SpecDecode, SequencesExt, FiniteSets, TLC

Off == "off"  \* value of a variable of a part that is not chosen

VARIABLES
    part,  \* which part this behaviour is of; it never changes
    \* SpecDecode, the other loops
    loopKind, loopM, loopCur, loopN, loopSent, loopDraft, loopPc, loopWhy,
    loopReach,
    \* Utf8Stream
    utf8Text, utf8Pending, out, utf8Done,
    \* StopHold
    stopText, stopPending, stopFull, hitStop, clientGone, stopPhase,
    \* ThinkSplit
    buf, rpos, rend, cpos, split, thinkStarted, reasoning, thinkContent, thinking,
    thinkDone,
    \* ToolStream
    reply, pos, parser, toolDone,
    \* ReplyStream
    answerPhase, reason, inside, broken, pieces, answerContent, made, args,
    created, msg, calls, index, slots, todo, answerWire, answerStarted, gone, waits,
    \* HttpConn
    script, unread, cut, httpPhase, httpPending, asked, handed, httpWire, active,
    deaf,
    \* MessageOrder
    messages, orderI, ordered,
    \* TokenSplice
    ids, splicePrompt, hit, splicePhase,
    \* Tokenizer
    tokenText, table, tokenAt, spans,
    \* ChatTemplate
    opt, msgs, turnsPrompt, cuts

loopVars == <<loopKind, loopM, loopCur, loopN, loopSent, loopDraft, loopPc,
    loopWhy, loopReach>>
utf8Vars == <<utf8Text, utf8Pending, out, utf8Done>>
stopVars == <<stopText, stopPending, stopFull, hitStop, clientGone, stopPhase>>
thinkVars == <<buf, rpos, rend, cpos, split, thinkStarted, reasoning,
    thinkContent, thinking, thinkDone>>
toolVars == <<reply, pos, parser, toolDone>>
answerVars == <<answerPhase, reason, inside, broken, pieces, answerContent,
    made, args, created, msg, calls, index, slots, todo, answerWire, answerStarted,
    gone, waits>>
httpVars == <<script, unread, cut, httpPhase, httpPending, asked, handed,
    httpWire, active, deaf>>
orderVars == <<messages, orderI, ordered>>
spliceVars == <<ids, splicePrompt, hit, splicePhase>>
tokenVars == <<tokenText, table, tokenAt, spans>>
turnsVars == <<opt, msgs, turnsPrompt, cuts>>
repliesVars == <<part, vars, loopVars, utf8Vars, stopVars, thinkVars, toolVars, answerVars,
    httpVars, orderVars, spliceVars, tokenVars, turnsVars>>

NoLoop == /\ loopKind = Off /\ loopM = Off /\ loopCur = Off /\ loopN = Off
    /\ loopSent = Off /\ loopDraft = Off /\ loopPc = Off /\ loopWhy = Off
    /\ loopReach = Off
NoUtf8 == /\ utf8Text = Off /\ utf8Pending = Off /\ out = Off /\ utf8Done = Off
NoStop == /\ stopText = Off /\ stopPending = Off /\ stopFull = Off
    /\ hitStop = Off /\ clientGone = Off /\ stopPhase = Off
NoThink == /\ buf = Off /\ rpos = Off /\ rend = Off /\ cpos = Off /\ split = Off
    /\ thinkStarted = Off /\ reasoning = Off /\ thinkContent = Off /\ thinking = Off
    /\ thinkDone = Off
NoTool == /\ reply = Off /\ pos = Off /\ parser = Off /\ toolDone = Off
NoAnswer == /\ answerPhase = Off /\ reason = Off /\ inside = Off
    /\ broken = Off /\ pieces = Off /\ answerContent = Off /\ made = Off
    /\ args = Off /\ created = Off /\ msg = Off /\ calls = Off /\ index = Off
    /\ slots = Off /\ todo = Off /\ answerWire = Off /\ answerStarted = Off
    /\ gone = Off /\ waits = Off
NoHttp == /\ script = Off /\ unread = Off /\ cut = Off /\ httpPhase = Off
    /\ httpPending = Off /\ asked = Off /\ handed = Off /\ httpWire = Off
    /\ active = Off /\ deaf = Off
NoOrder == /\ messages = Off /\ orderI = Off /\ ordered = Off
NoSplice == /\ ids = Off /\ splicePrompt = Off /\ hit = Off /\ splicePhase = Off
NoToken == /\ tokenText = Off /\ table = Off /\ tokenAt = Off /\ spans = Off
NoTurns == /\ opt = Off /\ msgs = Off /\ turnsPrompt = Off /\ cuts = Off

\* Only the variables of one component, g, may change.
Others(g) ==
    /\ UNCHANGED part
    /\ g # "decode" => UNCHANGED vars
    /\ g # "loop" => UNCHANGED loopVars
    /\ g # "utf8" => UNCHANGED utf8Vars
    /\ g # "stop" => UNCHANGED stopVars
    /\ g # "think" => UNCHANGED thinkVars
    /\ g # "tool" => UNCHANGED toolVars
    /\ g # "answer" => UNCHANGED answerVars
    /\ g # "http" => UNCHANGED httpVars
    /\ g # "order" => UNCHANGED orderVars
    /\ g # "splice" => UNCHANGED spliceVars
    /\ g # "token" => UNCHANGED tokenVars
    /\ g # "turns" => UNCHANGED turnsVars

-----------------------------------------------------------------------------
\* SpecDecode: all texts of k tokens and one more behind the prompt of two;
\* nothing is asked of what is behind an end.
AllKinds == {"plain", "ckpt", "eos"}
Ways(K, k) ==
    {w \in [3 .. k + 3 -> K] : \A t \in 4 .. k + 3 : w[t - 1] = "eos" => w[t] = "eos"}
AllWays == Ways(AllKinds, 6)

\* ToolStream: replies written from calls, and all replies one symbol away
\* from them.
ToolOpen  == <<"<", "t">>
ToolClose == <<"<", "T">>
FuncOpen  == <<"<", "f">>
FuncClose == <<"<", "F">>
ParamOpen == <<"<", "p">>
\* A call as the model writes it; nl is the line break it uses.
Param(key, value, nl) == ParamOpen \o key \o <<">">> \o nl \o value \o nl \o <<"<", "P">> \o nl
XmlCall(name, params) == ToolOpen \o <<"N">> \o FuncOpen \o name \o <<">", "N">> \o params
                         \o FuncClose \o <<"N">> \o ToolClose
Lf   == <<"N">>
Crlf == <<"R", "N">>

Schema == <<"g">> :> {<<"k">>} @@ <<"h">> :> {}

XmlRendered == {
    [text |-> <<"x", "N">> \o XmlCall(<<"g">>, Param(<<"k">>, <<"x", "N">>, Lf)) \o <<"N">>,
     content |-> <<"x", "N">>,
     calls |-> << [name |-> <<"g">>, args |-> <<"{", "k", ":", "q", "x", "N", "q", "}">>] >>],
    [text |-> XmlCall(<<"g">>, Param(<<"i">>, <<"1">>, Lf) \o Param(<<"k">>, <<"<", "P">>, Crlf)),
     content |-> <<>>,
     calls |-> << [name |-> <<"g">>, args |-> <<"{", "i", ":", "1", ",", "k", ":", "q", "<", "P", "q", "}">>] >>],
    [text |-> XmlCall(<<"h">>, <<>>) \o <<"N">> \o XmlCall(<<"h">>, Param(<<"e">>, <<>>, Lf)),
     content |-> <<>>,
     calls |-> << [name |-> <<"h">>, args |-> <<"{", "}">>],
                  [name |-> <<"h">>, args |-> <<"{", "e", ":", "q", "q", "}">>] >>] }

XmlPrefix == ToolOpen \o <<"N">> \o FuncOpen \o <<"g", ">", "N">>

JsonText == ToolOpen \o <<"N", "J", "N">> \o ToolClose
JsonRendered == {
    [text |-> <<"x">> \o JsonText \o <<"N">> \o JsonText, content |-> <<"x">>,
     calls |-> << [name |-> <<"g">>, args |-> <<"J">>], [name |-> <<"g">>, args |-> <<"J">>] >>],
    [text |-> ToolOpen \o <<"x", "J">> \o ToolClose, content |-> <<>>,
     calls |-> << [name |-> <<"g">>, args |-> <<"J">>] >>] }
JsonPrefix == ToolOpen \o <<"N">>

Near(t, A) == {ReplaceAt(t, i, a) : i \in DOMAIN t, a \in A} \union {RemoveAt(t, i) : i \in DOMAIN t}
              \union {InsertAt(t, i, a) : i \in DOMAIN t, a \in A}

XmlReplies  == UNION {Near(r.text, {"P", "R"}) \union {r.text} : r \in XmlRendered}
JsonReplies == UNION {Near(r.text, {"<", "t", "T", "N", "x", "J"}) \union {r.text} : r \in JsonRendered}

\* HttpConn: what a client may send.
Get(head, body) == [head |-> head, body |-> body, good |-> TRUE, expect |-> FALSE,
                    keep |-> TRUE, status |-> 200]
Small == [Get(1, 0) EXCEPT !.status = 404]
Requests == {Get(2, 2), Small, [Get(2, 3) EXCEPT !.expect = TRUE],
             [Get(3, 1) EXCEPT !.status = 500], [Get(1, 2) EXCEPT !.keep = FALSE],
             [Get(2, 0) EXCEPT !.good = FALSE],
             Get(6, 0), Get(1, 10)}  \* too long a header, too large a body
MixedScripts == UNION {[1 .. k -> Requests] : k \in 1 .. 3}
ShortScripts == {<<Small>>}

\* TokenSplice: transcripts of two parts, the second perhaps lone vision
\* tokens, and prompts of three.
IdParts == {<<"a">>, <<"ab">>, <<"E">>, <<"L">>, <<"V", "P", "W">>, <<"V", "P", "P", "W">>,
            <<"v", "p", "w">>}
LoneEnd == <<"V", "P">>
SomeIds == ({FlattenSeq(p) : p \in BoundedSeq(IdParts, 2)}
            \union {FlattenSeq(p) \o LoneEnd : p \in BoundedSeq(IdParts, 1)}) \ {<<>>}
TextParts == {<<"a">>, <<"b">>, <<"E">>, <<"L", "C">>, <<"V", "P", "W">>}
Pictures(t) == Cardinality({k \in DOMAIN t : t[k] = "V"})
SomePrompts == UNION {{[text |-> FlattenSeq(p), pads |-> ps] :
                          ps \in {<<>>} \union [1 .. Pictures(FlattenSeq(p)) -> 1 .. 2]} :
                      p \in BoundedSeq(TextParts, 3)}

\* Tokenizer: marks of two classes, one letter that they compose with; one
\* sign of each kind that the words are told apart by; merge tables as
\* training makes them, each pair out of known tokens; a few added tokens.
Classes == [c \in {"a", "A", "B", "C", "m", "d", "e"} |->
               CASE c = "m" -> 220 [] c \in {"d", "e"} -> 230 [] OTHER -> 0]
Compositions == "A" :> <<"a", "m">> @@ "B" :> <<"A", "d">> @@ "C" :> <<"a", "d">>
Signs == {"'", "s", "r", "e", "l", "7", " ", "t", "N", "!"}
Made(t) == {t[k][1] \o t[k][2] : k \in DOMAIN t}
Grown(t) ==
    LET known == {<<"a">>, <<"b">>} \union Made(t)
    IN  {Append(t, p) : p \in {p \in known \X known : p[1] \o p[2] \notin Made(t)}}
MergeTables ==
    LET one == Grown(<<>>)
        two == UNION {Grown(t) : t \in one}
    IN  one \union two \union UNION {Grown(t) : t \in two}

\* ChatTemplate: what requests set, what clients add, what the model replies.
Option(enabled, effort, preserve, tools, auto) ==
    [enabled |-> enabled, effort |-> effort, preserve |-> preserve, tools |-> tools, auto |-> auto]
SomeOptions == {Option(TRUE, "medium", TRUE, FALSE, FALSE), Option(TRUE, "low", FALSE, TRUE, FALSE),
                Option(FALSE, "medium", TRUE, TRUE, FALSE), Option(TRUE, "none", TRUE, FALSE, FALSE),
                Option(TRUE, "medium", FALSE, TRUE, TRUE)}
User(text, tag, image) == [role |-> "user", text |-> text, tag |-> tag, image |-> image]
Result(text) == [role |-> "tool", text |-> text]
SomeSays == {[role |-> "system", text |-> "rules", tag |-> ""], User("hi", "", FALSE),
             User("look", "", TRUE), User("quick", "low", FALSE), User("answer", "off", FALSE),
             Result("ok"), Result("failed")}
Assistant(thought, text, called, got) ==
    [role |-> "assistant", reasoning |-> thought, text |-> text, calls |-> called, sent |-> got]
SomeReplies == {Assistant("hm", "yes", <<>>, TRUE), Assistant("hm", "", <<"a", "b">>, TRUE),
                Assistant("hm", "", <<>>, FALSE), Assistant("", "no", <<"a">>, TRUE)}

\* Tokenizer: texts with added tokens in them.
TagSigns == {"<", "a", ">", "b"}
TagMerges == <<<<<<"a">>, <<"b">>>>, <<<<">">>, <<"a">>>>>>

-----------------------------------------------------------------------------
Plain == INSTANCE SpecDecode WITH Prompt <- 2, Gamma <- 3, MaxDraft <- 4,
    Chunk <- 2, Ring <- 4, Loop <- "spec", MaxTokens <- 6, MaxCtx <- 8,
    Kinds <- Ways({"plain", "eos"}, 6), kind <- loopKind, m <- loopM,
    cur <- loopCur, n <- loopN, sent <- loopSent, draft <- loopDraft, pc <- loopPc,
    why <- loopWhy, reach <- loopReach
Drafts == INSTANCE SpecDecode WITH Prompt <- 2, Gamma <- 3, MaxDraft <- 4,
    Chunk <- 2, Ring <- 4, Loop <- "spec", MaxTokens <- 5, MaxCtx <- 10,
    Kinds <- Ways(AllKinds, 5), kind <- loopKind, m <- loopM, cur <- loopCur,
    n <- loopN, sent <- loopSent, draft <- loopDraft, pc <- loopPc, why <- loopWhy,
    reach <- loopReach
Ngram == INSTANCE SpecDecode WITH Prompt <- 2, Gamma <- 3, MaxDraft <- 4,
    Chunk <- 2, Ring <- 4, Loop <- "ngram", MaxTokens <- 5, MaxCtx <- 7,
    Kinds <- Ways(AllKinds, 5), kind <- loopKind, m <- loopM, cur <- loopCur,
    n <- loopN, sent <- loopSent, draft <- loopDraft, pc <- loopPc, why <- loopWhy,
    reach <- loopReach
Utf8 == INSTANCE Utf8Stream WITH
    Bytes <- {"41", "80", "90", "A0", "C2", "E0", "E1", "ED", "F0", "F1", "F4", "FF"},
    MaxBytes <- 4, MaxPiece <- 2, text <- utf8Text, pending <- utf8Pending,
    done <- utf8Done
Stop == INSTANCE StopHold WITH Chars <- {<<"a">>, <<"b">>, <<"L", "C">>},
    Stops <- {<<"a", "b", "a">>, <<"b", "b">>, <<"a", "a", "L", "C">>},
    MaxText <- 9, MaxPiece <- 3, text <- stopText, pending <- stopPending,
    full <- stopFull, phase <- stopPhase
Think == INSTANCE ThinkSplit WITH Alphabet <- {"<", "k", ">", "N", "R"},
    MaxText <- 6, MaxPiece <- 3, started <- thinkStarted, content <- thinkContent,
    done <- thinkDone
Xml == INSTANCE ToolStream WITH Replies <- XmlReplies, Rendered <- XmlRendered,
    Prefix <- XmlPrefix, Format <- "xml", MaxPiece <- 8,
    Required <- Schema, done <- toolDone
Json == INSTANCE ToolStream WITH Replies <- JsonReplies,
    Rendered <- JsonRendered, Prefix <- JsonPrefix, Format <- "json",
    MaxPiece <- 8, Required <- Schema, done <- toolDone
Chat == INSTANCE ReplyStream WITH Api <- "chat", Forced <- FALSE,
    MaxPieces <- 2, MaxCalls <- 2, MaxWaits <- 1, phase <- answerPhase,
    content <- answerContent, wire <- answerWire, started <- answerStarted
Responses == INSTANCE ReplyStream WITH MaxPieces <- 2, MaxCalls <- 2,
    MaxWaits <- 1, Api <- "responses", Forced <- FALSE, phase <- answerPhase,
    content <- answerContent, wire <- answerWire, started <- answerStarted
Forced == INSTANCE ReplyStream WITH MaxPieces <- 2, MaxCalls <- 2,
    MaxWaits <- 1, Api <- "responses", Forced <- TRUE, phase <- answerPhase,
    content <- answerContent, wire <- answerWire, started <- answerStarted
Framing == INSTANCE HttpConn WITH MaxHeaderBytes <- 4, MaxRequestBytes <- 9,
    Chunk <- 3, Conns <- {"c1"}, Scripts <- MixedScripts, MaxConnections <- 1,
    Blank <- 2, phase <- httpPhase, pending <- httpPending, wire <- httpWire
Many == INSTANCE HttpConn WITH MaxHeaderBytes <- 4, MaxRequestBytes <- 9,
    Chunk <- 3, Conns <- {"c1", "c2", "c3"}, Scripts <- ShortScripts,
    MaxConnections <- 2, Blank <- 1, phase <- httpPhase, pending <- httpPending,
    wire <- httpWire
Order == INSTANCE MessageOrder WITH Ids <- {"a", "b"},
    CallLists <- {<<>>, <<"b">>, <<"b", "a">>, <<"a", "a">>}, MaxMessages <- 4,
    i <- orderI
Splice == INSTANCE TokenSplice WITH Transcripts <- SomeIds,
    Prompts <- SomePrompts, NoImages <- <<>>, prompt <- splicePrompt,
    phase <- splicePhase
Composed == INSTANCE Tokenizer WITH Pairs <- Compositions, Digits <- {},
    Blanks <- {"N"}, Tables <- {<<>>}, Added <- {},
    Alphabet <- {"a", "m", "d", "e", "B"}, MaxText <- 4, Ccc <- Classes,
    Letters <- {"a", "A", "B", "C"}, text <- tokenText, at <- tokenAt
Words == INSTANCE Tokenizer WITH Pairs <- <<>>, Digits <- {"7"},
    Blanks <- {" ", "t", "N"}, Tables <- {<<>>}, Added <- {}, Alphabet <- Signs,
    MaxText <- 4, Ccc <- [c \in Signs |-> 0], Letters <- {"s", "r", "e", "l"},
    text <- tokenText, at <- tokenAt
Merges == INSTANCE Tokenizer WITH Pairs <- <<>>, Digits <- {}, Blanks <- {"N"},
    Tables <- MergeTables, Added <- {}, Alphabet <- {"a", "b"}, MaxText <- 4,
    Ccc <- [c \in {"a", "b"} |-> 0], Letters <- {"a", "b"}, text <- tokenText,
    at <- tokenAt
Turns == INSTANCE ChatTemplate WITH Options <- SomeOptions, Says <- SomeSays,
    Replies <- SomeReplies, Answers <- {"answer"}, LongReplay <- 2, MaxCuts <- 2,
    MaxMessages <- 4, prompt <- turnsPrompt
Added == INSTANCE Tokenizer WITH Pairs <- <<>>, Digits <- {}, Blanks <- {"N"},
    Tables <- {TagMerges}, Added <- {<<"<", "a", ">">>, <<"b", "b">>, <<">", "<">>},
    Alphabet <- TagSigns, MaxText <- 5, Ccc <- [c \in TagSigns |-> 0],
    Letters <- {"a", "b"}, text <- tokenText, at <- tokenAt

\* What the components assume of their constants.
ASSUME PartsAssumption ==
    Plain!DecodeAssumption /\ Drafts!DecodeAssumption /\ Ngram!DecodeAssumption /\
    Stop!StopsAssumption /\ Xml!FormatAssumption /\ Json!FormatAssumption /\
    Chat!ApiAssumption /\ Responses!ApiAssumption /\ Forced!ApiAssumption /\
    Framing!LimitAssumption /\ Many!LimitAssumption

RepliesInit ==
    /\ part \in {"chain", "plain", "drafts", "ngram", "utf8", "stop", "think",
                "xml", "json", "chat", "responses", "forced", "framing", "many",
                "order", "splice", "nfc", "words", "merges", "turns", "added"}
    /\ Init
    /\ part # "chain" => kind = CHOOSE w \in Kinds : TRUE
    /\ CASE part = "plain" -> Plain!Init
         [] part = "drafts" -> Drafts!Init
         [] part = "ngram" -> Ngram!Init
         [] OTHER -> NoLoop
    /\ IF part = "utf8" THEN Utf8!Init ELSE NoUtf8
    /\ IF part = "stop" THEN Stop!Init ELSE NoStop
    /\ IF part = "think" THEN Think!Init ELSE NoThink
    /\ CASE part = "xml" -> Xml!Init
         [] part = "json" -> Json!Init
         [] OTHER -> NoTool
    /\ CASE part = "chat" -> Chat!Init
         [] part = "responses" -> Responses!Init
         [] part = "forced" -> Forced!Init
         [] OTHER -> NoAnswer
    /\ CASE part = "framing" -> Framing!Init
         [] part = "many" -> Many!Init
         [] OTHER -> NoHttp
    /\ IF part = "order" THEN Order!Init ELSE NoOrder
    /\ IF part = "splice" THEN Splice!Init ELSE NoSplice
    /\ CASE part = "nfc" -> Composed!Init
         [] part = "words" -> Words!Init
         [] part = "merges" -> Merges!Init
         [] part = "added" -> Added!Init
         [] OTHER -> NoToken
    /\ IF part = "turns" THEN Turns!Init ELSE NoTurns

RepliesNext ==
    \/ part = "chain" /\ Next /\ Others("decode")
    \/ part = "plain" /\ Plain!Next /\ Others("loop")
    \/ part = "drafts" /\ Drafts!Next /\ Others("loop")
    \/ part = "ngram" /\ Ngram!Next /\ Others("loop")
    \/ part = "utf8" /\ Utf8!Next /\ Others("utf8")
    \/ part = "stop" /\ Stop!Next /\ Others("stop")
    \/ part = "think" /\ Think!Next /\ Others("think")
    \/ part = "xml" /\ Xml!Next /\ Others("tool")
    \/ part = "json" /\ Json!Next /\ Others("tool")
    \/ part = "chat" /\ Chat!Next /\ Others("answer")
    \/ part = "responses" /\ Responses!Next /\ Others("answer")
    \/ part = "forced" /\ Forced!Next /\ Others("answer")
    \/ part = "framing" /\ Framing!Next /\ Others("http")
    \/ part = "many" /\ Many!Next /\ Others("http")
    \/ part = "order" /\ Order!Next /\ Others("order")
    \/ part = "splice" /\ Splice!Next /\ Others("splice")
    \/ part = "nfc" /\ Composed!Next /\ Others("token")
    \/ part = "words" /\ Words!Next /\ Others("token")
    \/ part = "merges" /\ Merges!Next /\ Others("token")
    \/ part = "turns" /\ Turns!Next /\ Others("turns")
    \/ part = "added" /\ Added!Next /\ Others("token")

RepliesSpec == RepliesInit /\ [][RepliesNext]_repliesVars

-----------------------------------------------------------------------------
\* The type invariants of the components of Text.
TextTypes ==
    /\ part = "utf8" => Utf8!TypeOK
    /\ part = "stop" => Stop!TypeOK
    /\ part = "think" => Think!TypeOK

\* The type invariants of the components of Call.
CallTypes ==
    /\ part = "xml" => Xml!TypeOK
    /\ part = "json" => Json!TypeOK

\* The type invariants of the components of Stream.
StreamTypes ==
    /\ part = "chat" => Chat!TypeOK
    /\ part = "responses" => Responses!TypeOK
    /\ part = "forced" => Forced!TypeOK

\* The type invariants of the components of Request.
RequestTypes ==
    /\ part = "framing" => Framing!TypeOK
    /\ part = "many" => Many!TypeOK

\* The other loops, and without drafts, as DraftsLeaveNoTrace says of the chain.
LoopsLeaveNoTrace ==
    /\ part = "plain" => Plain!DraftsLeaveNoTrace
    /\ part = "drafts" => Drafts!DraftsLeaveNoTrace
    /\ part = "ngram" => Ngram!DraftsLeaveNoTrace

\* What was sent and what is held decode to the text: no cut between tokens
\* changes, drops or doubles a character.
NothingLostSoFar == part = "utf8" => Utf8!NothingLostSoFar

\* At the end the client has what the tokenizer decodes, if the reply does
\* not end in a truncated character.
SameDecodeOfWhole == part = "utf8" => Utf8!SameDecodeOfWhole

\* No stop sequence, and no beginning of the one that ended the reply,
\* reaches the client.
NoStopDelivered == part = "stop" => Stop!NoStopDelivered

\* Every delta on the wire is valid UTF-8 by itself: what is out never ends
\* inside a character.
WholeCharacters == part = "stop" => Stop!WholeCharacters

\* A reply without a stop in it arrives whole.
WholeReply == part = "stop" => Stop!WholeReply

\* The reply ends in front of the first stop in its text.
CutAtFirst == part = "stop" => Stop!CutAtFirst

\* A streamed reply is split into reasoning and answer as the whole one is,
\* but for carriage returns in front of the answer.
SameSplit == part = "think" => Think!SameSplit

\* What is not sent yet could still belong to the marker.
HeldCouldBeMarker == part = "think" => Think!HeldCouldBeMarker

\* The answer starts only when the reasoning is complete.
ReasoningBeforeContent == part = "think" => Think!ReasoningBeforeContent

\* However the tokens cut the reply, the calls are those of the reply in one
\* piece, and so is the text around them.
SameCalls ==
    /\ part = "xml" => Xml!SameCalls
    /\ part = "json" => Json!SameCalls

\* What a client puts together from the deltas are the calls.
ClientSeesCalls ==
    /\ part = "xml" => Xml!ClientSeesCalls
    /\ part = "json" => Json!ClientSeesCalls

\* A reply written from calls gives these calls.
RoundTrip ==
    /\ part = "xml" => Xml!RoundTrip
    /\ part = "json" => Json!RoundTrip

\* No call reaches the caller without the parameters its function requires.
RequiredGiven == part = "xml" => Xml!RequiredGiven

\* A stream ends in exactly one of: an error, a status, DONE, the final
\* event.
EndsOnce ==
    /\ part = "chat" => Chat!EndsOnce
    /\ part = "responses" => Responses!EndsOnce
    /\ part = "forced" => Forced!EndsOnce

\* Chat: the pieces are the reply that is not streamed, and so is the
\* finish_reason.
ChatIsReply == part = "chat" => Chat!ChatIsReply

\* Responses: the last event has the items of the reply, in order.
ResponseIsReply ==
    /\ part = "responses" => Responses!ResponseIsReply
    /\ part = "forced" => Forced!ResponseIsReply

\* The n-th answer on a connection is that of the n-th request.
VerdictIsOwn == part = "framing" => Framing!VerdictIsOwn

\* A handler gets the request that is next, and its body.
BodyIsOwn == part = "framing" => Framing!BodyIsOwn

\* Every place that is counted is that of a connection, whatever fails.
CountIsLive == part = "many" => Many!CountIsLive

\* Reordering the messages loses none and doubles none.
NothingLost == part = "order" => Order!NothingLost

\* Only tool results move, and never past a message that is not one.
OnlyResultsMove == part = "order" => Order!OnlyResultsMove

\* Behind an assistant the results stand in the order of its calls.
InCallOrder == part = "order" => Order!InCallOrder

\* The reused ids are the front of the text, to the byte.
ReusedIsText == part = "splice" => Splice!ReusedIsText

\* The reused ids have the first images of the request with their pads.
ImagesInStep == part = "splice" => Splice!ImagesInStep

\* The next id is not decided by the reused ones.
EndsClean == part = "splice" => Splice!EndsClean

\* Nothing longer could have been reused.
LongestReuse == part = "splice" => Splice!LongestReuse

\* NFC loses nothing, is done once for all, and makes equal what is
\* canonically equivalent.
NormalForm == part = "nfc" => Composed!NormalForm

\* The hand-written splitting into words is that of the regular expression.
WordsOfRegex == part = "words" => Words!WordsOfRegex

\* Merging in passes gives what merging one pair at a time gives.
MergedOneByOne == part = "merges" => Merges!MergedOneByOne

\* Behind an added token encoding begins anew, so that the front of a prompt
\* can be reused.
AddedTokensSplit == part = "added" => Added!AddedTokensSplit

\* The prompt of the next turn begins with what the engine has in the live
\* sequence.
NextTurnContinues == part = "turns" => Turns!NextTurnContinues

\* An edited conversation can be continued from a checkpoint at the message
\* before the edit.
EditsReuse == part = "turns" => Turns!EditsReuse

\* A checkpoint is asked for where the prompt of a shorter conversation ends,
\* and before the first image.
CutsAreSound == part = "turns" => Turns!CutsAreSound

\* Each message of the prompt is closed before the next begins.
TurnsAreClosed == part = "turns" => Turns!TurnsAreClosed

\* The tokens decode to the text.
DecodesBack ==
    /\ part = "nfc" => Composed!DecodesBack
    /\ part = "words" => Words!DecodesBack
    /\ part = "merges" => Merges!DecodesBack
    /\ part = "added" => Added!DecodesBack

\* The spans of the tokens tile the text: checkpoints are placed by them.
SpansTile ==
    /\ part = "nfc" => Composed!SpansTile
    /\ part = "words" => Words!SpansTile
    /\ part = "merges" => Merges!SpansTile
    /\ part = "added" => Added!SpansTile

\* A client of the responses API sees what the protocol promises (module
\* ResponseProtocol), and a client of the other loops the tokens of the plain
\* one (SerialDecode): TLC checks the initial states and every step.
FollowsProtocol ==
    /\ part = "responses" => Responses!Protocol!Init
    /\ part = "forced" => Forced!Protocol!Init
    /\ [][/\ part = "responses" => Responses!Protocol!Next \/ UNCHANGED Responses!Protocol!vars
          /\ part = "forced" => Forced!Protocol!Next \/ UNCHANGED Forced!Protocol!vars]_answerVars
    /\ [][/\ part = "plain" => Plain!Serial!Next \/ UNCHANGED Plain!Serial!vars
          /\ part = "drafts" => Drafts!Serial!Next \/ UNCHANGED Drafts!Serial!vars
          /\ part = "ngram" => Ngram!Serial!Next \/ UNCHANGED Ngram!Serial!vars]_loopVars

\* What the run checks of each component.

\* However the tokens cut the bytes of a reply: the client gets the text the
\* tokenizer decodes, in whole characters, without the stop sequence, and the
\* reasoning apart from the answer as in the reply that is not streamed;
\* behind it, whatever was drafted, the model is in the state of this text.
TextIsWhole ==
    /\ TextTypes /\ LoopsLeaveNoTrace /\ NothingLostSoFar /\ SameDecodeOfWhole
    /\ NoStopDelivered /\ WholeCharacters /\ WholeReply /\ CutAtFirst /\ SameSplit
    /\ HeldCouldBeMarker /\ ReasoningBeforeContent

\* And whatever is text, tag, value or broken in it: the calls and the text
\* around them are those of the reply in one piece, and the client sees
\* these.
CallsAreWhole ==
    /\ CallTypes /\ SameCalls /\ ClientSeesCalls /\ RoundTrip /\ RequiredGiven

\* A stream, of either API, ends once and says what the reply that is not
\* streamed would say, and of a call that was broken off that it was, though
\* the generation fails or the client goes at any point.
StreamIsReply ==
    /\ StreamTypes /\ EndsOnce /\ ChatIsReply /\ ResponseIsReply

\* What the engine gets is what this client sent in this request: the framing
\* of HTTP gives each request its own body and answer, the messages are
\* reordered without loss, the prompt of the next turn begins with the last
\* one and its reply, and the tokens reused are those of the text.
RequestIsOwn ==
    /\ RequestTypes /\ VerdictIsOwn /\ BodyIsOwn /\ CountIsLive /\ NothingLost
    /\ OnlyResultsMove /\ InCallOrder /\ ReusedIsText /\ ImagesInStep /\ EndsClean
    /\ LongestReuse /\ NormalForm /\ WordsOfRegex /\ MergedOneByOne
    /\ AddedTokensSplit /\ DecodesBack /\ SpansTile /\ NextTurnContinues
    /\ EditsReuse /\ CutsAreSound /\ TurnsAreClosed
=============================================================================
