----------------------------- MODULE ToolStream -----------------------------
(* The incremental parser of tool calls (class StreamParser in              *)
(* api/toolparse.cpp).  Text goes to the client as it arrives; a call is    *)
(* announced when its name is complete, string parameters are streamed and  *)
(* other ones sent when they are closed.  A reply that is not streamed goes *)
(* through the same parser in one piece.                                    *)
(*                                                                          *)
(* Symbols: a tag is "<" and a letter, so that it can be cut in two and all *)
(* of them begin alike; "N" and "R" are \n and \r, the other white space is *)
(* like them.  A complete JSON object that names a function of the request  *)
(* is the one symbol "J"; the parser looks at it only when it is closed.    *)
EXTENDS Texts

CONSTANTS Replies,   \* the replies of the model
          Rendered,  \* those written from calls: [text, content, calls]
          Prefix,    \* what a forced tool choice puts in front of a reply
          Format,    \* "xml" or "json"
          Required,  \* per function of the request, its required parameters
          MaxPiece   \* bound on the text of one token

FormatAssumption == Format \in {"xml", "json"} /\ MaxPiece \in Nat

Space == {"N", "R"}

ToolOpen   == <<"<", "t">>            \* <tool_call>
ToolClose  == <<"<", "T">>            \* </tool_call>
FuncOpen   == <<"<", "f">>            \* <function=
FuncClose  == <<"<", "F">>            \* </function>
ParamOpen  == <<"<", "p">>            \* <parameter=
ParamClose == <<"N", "<", "P", "N">>  \* </parameter> between newlines
ParamCrlf  == <<"R", "N", "<", "P", "R", "N">>

\* The schema: parameter "k" is a string, "i" is an integer; one that is not
\* in the schema, "e", has no type and is a string when it is closed.
Streamed(key) == key = <<"k">>
Coerced(key, value) == key = <<"i">> /\ value = <<"1">>

VARIABLES reply, pos, parser, done
vars == <<reply, pos, parser, done>>

NoCall == [name |-> <<>>, args |-> <<>>]
Fresh == [state |-> "Text", buf |-> <<>>, content |-> <<>>, calls |-> <<>>,
          sent |-> <<>>, current |-> NoCall, keys |-> {}, key |-> <<>>,
          started |-> FALSE, partial |-> FALSE, go |-> TRUE]

-----------------------------------------------------------------------------
\* The events: sent is what a streaming client has put together.
EmitContent(p, t) == [p EXCEPT !.content = @ \o t]
EmitArguments(p, t) == [p EXCEPT !.current.args = @ \o t,
                                 !.sent[Len(p.sent)].args = @ \o t]
StartCall(p, name) ==
    [p EXCEPT !.current = [name |-> name, args |-> <<>>], !.keys = {},
              !.sent = Append(@, [name |-> name, args |-> <<>>, ended |-> FALSE])]
EndCall(p) ==
    [p EXCEPT !.calls = Append(@, p.current), !.current = NoCall, !.keys = {},
              !.sent[Len(p.sent)].ended = TRUE]

Wait(p) == [p EXCEPT !.go = FALSE]
Broken(p) == [p EXCEPT !.state = "Broken"]
Goto(p, state, buf) == [p EXCEPT !.state = state, !.buf = buf]

Separator(p) == IF p.current.args = <<>> THEN <<"{">> ELSE <<",">>

StartParameter(p, key) ==
    LET q == [p EXCEPT !.key = key, !.keys = @ \union {key}, !.started = FALSE]
    IN  IF Streamed(key) THEN EmitArguments(q, Separator(p) \o key \o <<":", "q">>) ELSE q

Trim(t) == SubSeq(t, SkippedTo(t, 0, Space) + 1, TrimmedTo(t, Len(t), Space))

FinishParameter(p, raw) ==
    IF Streamed(p.key) THEN EmitArguments(p, raw \o <<"q">>)
    ELSE EmitArguments(p, Separator(p) \o p.key \o <<":">> \o
             (IF Coerced(p.key, Trim(raw)) THEN Trim(raw) ELSE <<"q">> \o raw \o <<"q">>))

Closing(p) == IF p.current.args = <<>> THEN <<"{", "}">> ELSE <<"}">>

FinishCall(p) ==
    IF Required[p.current.name] \subseteq p.keys
    THEN EndCall(EmitArguments(p, Closing(p)))
    ELSE Broken(p)

-----------------------------------------------------------------------------
(* One round of pump in each state of the parser.                           *)

\* How much text is sure to be text: not the beginning of a call or, in the
\* XML format, the white space that may stand before one.
Keep(b) == LET n == Len(b) - PartialTail(ToolOpen, b)
           IN  IF Format = "json" THEN n ELSE TrimmedTo(b, n, Space)

NoMarker(p, final) ==
    LET n == IF final THEN Len(p.buf) ELSE Keep(p.buf)
    IN  Wait([EmitContent(p, Upto(p.buf, n)) EXCEPT !.buf = From(p.buf, n + 1)])

\* A name up to '>' at the front of b: 0 waits for it, -1 is not one.
NameEnd(b, final) ==
    LET close == FirstOf({<<">">>}, b)
        line  == FirstOf({<<"N">>, <<"R">>}, b)
    IN  IF close = 0 THEN IF ~final /\ line = 0 THEN 0 ELSE -1
        ELSE IF close = 1 \/ (line # 0 /\ line < close) THEN -1 ELSE close

\* <function=NAME> is known or it is not; close is where its '>' stands.
FunctionTag(q, name, close) ==
    CASE close = 0 -> Wait(q)
      [] close # 0 /\ (close = -1 \/ Upto(name, close - 1) \notin DOMAIN Required) -> Broken(q)
      [] OTHER -> Goto(StartCall(q, Upto(name, close - 1)), "Between", From(name, close + 1))

Text(p, final) ==
    LET marker == FirstOf({ToolOpen}, p.buf)
        end    == TrimmedTo(p.buf, marker - 1, Space)
        q      == [EmitContent(p, Upto(p.buf, end)) EXCEPT !.buf = From(p.buf, end + 1)]
        inside == From(p.buf, marker + Len(ToolOpen))
        rest   == From(inside, SkippedTo(inside, 0, Space) + 1)
        name   == From(rest, Len(FuncOpen) + 1)
    IN  CASE marker = 0 -> NoMarker(p, final)
          [] marker # 0 /\ Format = "json" -> Goto(q, "JsonCall", inside)
          [] marker # 0 /\ Format = "xml" /\ IsPrefix(FuncOpen, rest) ->
                FunctionTag(q, name, NameEnd(name, final))
          [] OTHER -> IF ~final /\ IsPrefix(rest, FuncOpen) THEN Wait(q) ELSE Broken(q)

\* The last object of the segment counts: the model may write it anew.
HasCall(segment) == Trim(segment) # <<>> /\ Last(Trim(segment)) = "J"

JsonCall(p, final) ==
    LET close == FirstOf({ToolClose}, p.buf)
        q     == Goto(p, "Text", From(p.buf, close + Len(ToolClose)))
    IN  IF close = 0 THEN IF final THEN Broken(p) ELSE Wait(p)
        ELSE IF ~HasCall(Upto(p.buf, close - 1)) THEN Broken(q)
        ELSE EndCall(EmitArguments(StartCall(q, <<"g">>), <<"J">>))

ParameterTag(q, key, close) ==
    CASE close = 0  -> Wait(q)
      [] close = -1 -> Broken(q)
      [] close > 0  -> Goto(StartParameter(q, Upto(key, close - 1)), "Parameter",
                            From(key, close + 1))

Between(p, final) ==
    LET b   == From(p.buf, SkippedTo(p.buf, 0, Space) + 1)
        q   == [p EXCEPT !.buf = b]
        key == From(b, Len(ParamOpen) + 1)
    IN  CASE b = <<>> -> Wait(IF final THEN Broken(q) ELSE q)
          [] IsPrefix(FuncClose, b) -> Goto(q, "ToolTail", From(b, Len(FuncClose) + 1))
          [] IsPrefix(ParamOpen, b) -> ParameterTag(q, key, NameEnd(key, final))
          [] OTHER -> IF ~final /\ \E t \in {FuncClose, ParamOpen} : IsPrefix(b, t)
                      THEN Wait(q) ELSE Broken(q)

\* The line break behind the parameter's tag.
ValueStart(p) ==
    LET b == p.buf
    IN  CASE b = <<>> \/ b = <<"R">> -> Wait(p)
          [] IsPrefix(<<"R", "N">>, b) -> [p EXCEPT !.buf = From(b, 3), !.started = TRUE]
          [] IsPrefix(<<"N">>, b) -> [p EXCEPT !.buf = From(b, 2), !.started = TRUE]
          [] OTHER -> Broken(p)

\* Fault: only the tail that \n</parameter>\n could begin with is held.
ValueSafeLf(b) == Len(b) - PartialTail(ParamClose, b)

\* How much of a value cannot be the beginning of its closing tag.
ValueSafe(b) == Len(b) - Max({PartialTail(ParamClose, b), PartialTail(ParamCrlf, b)})

Value(p, final) ==
    LET b     == p.buf
        close == FirstOf({ParamClose, ParamCrlf}, b)
        tag   == IF StandsAt(ParamClose, close, b) THEN ParamClose ELSE ParamCrlf
        n     == IF final THEN Len(b) ELSE ValueSafe(b)
    IN  CASE close # 0 -> Goto(FinishParameter(p, Upto(b, close - 1)), "Between",
                               From(b, close + Len(tag)))
          [] close = 0 /\ ~Streamed(p.key) -> IF final THEN Wait(Broken(p)) ELSE Wait(p)
          [] close = 0 /\ Streamed(p.key) ->
                Wait([EmitArguments(p, Upto(b, n)) EXCEPT !.buf = From(b, n + 1)])

Parameter(p, final) == IF p.started THEN Value(p, final) ELSE ValueStart(p)

ToolTail(p, final) ==
    LET b == From(p.buf, SkippedTo(p.buf, 0, Space) + 1)
        q == [p EXCEPT !.buf = b]
    IN  IF IsPrefix(ToolClose, b)
        THEN FinishCall(Goto(q, "Text", From(b, Len(ToolClose) + 1)))
        ELSE IF ~final /\ IsPrefix(b, ToolClose) THEN Wait(q) ELSE Broken(q)

\* A broken call ends the parsing: what follows is dropped.
Stuck(p, final) == Wait([p EXCEPT !.buf = IF final THEN <<>> ELSE @])

Round(p, final) ==
    CASE p.state = "Text"      -> Text(p, final)
      [] p.state = "JsonCall"  -> JsonCall(p, final)
      [] p.state = "Between"   -> Between(p, final)
      [] p.state = "Parameter" -> Parameter(p, final)
      [] p.state = "ToolTail"  -> ToolTail(p, final)
      [] p.state = "Broken"    -> Stuck(p, final)

\* Something was begun and is not a call.
PartialCall(p, final) == p.state = "Broken" \/ (final /\ p.state # "Text")

Pump(p, final) ==
    LET RECURSIVE loop(_)
        loop(q) == LET r == Round(q, final) IN IF r.go THEN loop(r) ELSE r
        r == loop([p EXCEPT !.go = TRUE])
    IN  [r EXCEPT !.partial = @ \/ PartialCall(r, final)]

FeedTo(p, piece) == Pump([p EXCEPT !.buf = @ \o piece], FALSE)

-----------------------------------------------------------------------------
\* A forced choice feeds its prefix first, as a piece of its own.
Init ==
    /\ reply \in Replies
    /\ pos \in {0} \union (IF IsPrefix(Prefix, reply) THEN {Len(Prefix)} ELSE {})
    /\ parser = FeedTo(Fresh, Upto(reply, pos))
    /\ done = FALSE

\* A token more, or all the rest.
Feed == /\ ~done
        /\ \E to \in pos + 1 .. Len(reply) :
              /\ to <= pos + MaxPiece \/ to = Len(reply)
              /\ parser' = FeedTo(parser, SubSeq(reply, pos + 1, to))
              /\ pos' = to
        /\ UNCHANGED <<reply, done>>

\* The reply ends, perhaps cut off by the token limit.
Finish == /\ ~done
          /\ done' = TRUE
          /\ parser' = Pump(parser, TRUE)
          /\ UNCHANGED <<reply, pos>>

Next == Feed \/ Finish

Spec == Init /\ [][Next]_vars

-----------------------------------------------------------------------------
Fed == Upto(reply, pos)
OneShot == Pump(FeedTo(Fresh, Fed), TRUE)

\* The parser is in a state of its format; while the reply runs it holds back
\* less than the reply and only a broken call keeps a whole tag in its buffer.
TypeOK ==
    /\ parser.state \in {"Text", "Broken"} \union
           (IF Format = "json" THEN {"JsonCall"} ELSE {"Between", "Parameter", "ToolTail"})
    /\ parser.state = "Broken" => parser.partial
    /\ parser.state # "Text" /\ done => parser.partial
    /\ IsSuffix(parser.buf, Fed)

\* However the tokens cut the reply, the calls are those of the reply that
\* is parsed in one piece, and so are the verdict that one was cut off and,
\* of the XML calls, the text around them.
Result(p) == <<p.calls, p.partial, IF Format = "xml" THEN p.content ELSE <<>>>>
SameCalls == done => Result(parser) = Result(OneShot)

\* Streamed arguments equal the final ones: what a client put together from
\* the deltas of the calls that ended are the calls (toolparse_test), only
\* the last call may be open, and then the parser knows of it.
ClientSeesCalls ==
    LET ended == SelectSeq(parser.sent, LAMBDA c : c.ended)
    IN  /\ [i \in DOMAIN ended |-> [name |-> ended[i].name, args |-> ended[i].args]]
              = parser.calls
        /\ \A i \in DOMAIN parser.sent : i < Len(parser.sent) => parser.sent[i].ended
        /\ done /\ parser.sent # <<>> /\ ~Last(parser.sent).ended => parser.partial

\* A reply written from calls gives these calls and the text around them.
RoundTrip ==
    done => \A r \in Rendered :
        r.text = Fed => /\ parser.calls = r.calls /\ ~parser.partial
                        /\ Format = "xml" => parser.content = r.content

\* No call reaches the caller without the parameters its function requires.
RequiredGiven ==
    \A c \in ToSet(parser.calls) : Format = "xml" =>
        \A key \in Required[c.name] : Occurs({key \o <<":">>}, c.args)
=============================================================================
