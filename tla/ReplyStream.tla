---------------------------- MODULE ReplyStream ----------------------------
(* How a reply is streamed to the client: the chat completions and the       *)
(* responses API (handle_chat and handle_responses in api/main.cpp), from    *)
(* the events of the tool-call parser to the frames on the wire, with        *)
(* keep-alives, clients that go away and generations that fail; and how the  *)
(* HTTP layer ends the stream (serve_connection in api/http.cpp).            *)
(*                                                                           *)
(* A piece of text or of arguments is a number.  The frames a handler makes  *)
(* out of one event wait in todo and are sent one by one.                    *)
EXTENDS Integers, Sequences, SequencesExt

CONSTANTS Api,       \* "chat" or "responses"
          Forced,    \* a forced tool choice: the prefix opens the first tag or call
          MaxPieces, MaxCalls, MaxWaits  \* bounds

ApiAssumption == Api \in {"chat", "responses"} /\ Forced \in BOOLEAN

VARIABLES
    phase,    \* of the handler: prefix, waiting, running, flushing, closing, over
    reason,   \* o.reason
    \* the parser, as far as its events go; inside is "text", a "tag" whose call
    \* has not been read, or a "call"
    inside, broken, pieces, content, made, args,
    \* the handler of responses: created_sent, message, call_states, next_output_index, output_slots
    created, msg, calls, index, slots,
    \* the connection:
    todo, wire, started, gone, waits

parser  == <<inside, broken, pieces, content, made, args>>
handler == <<created, msg, calls, index, slots>>
socket  == <<wire, started, gone>>
vars == <<phase, reason, parser, handler, todo, socket, waits>>

NoMessage == [open |-> FALSE, index |-> 0, parts |-> <<>>]
Frame(type, i, x) == [type |-> type, index |-> i, val |-> x]
Output(kind, parts, status) == [kind |-> kind, parts |-> parts, status |-> status]
Nothing == Output("null", <<>>, "null")

-----------------------------------------------------------------------------
(* The handler of the responses API: a state and the frames it adds.         *)
State == [created |-> created, msg |-> msg, calls |-> calls, index |-> index,
          slots |-> slots, out |-> <<>>]
Emit(s, frames) == [s EXCEPT !.out = @ \o frames]

\* put_output: the slots before it that have no item yet are null.
PutOutput(s, i, item) ==
    LET n == IF Len(s.slots) > i THEN Len(s.slots) ELSE i + 1
    IN  [s EXCEPT !.slots = [k \in 1 .. n |-> IF k = i + 1 THEN item
                                              ELSE IF k <= Len(s.slots) THEN s.slots[k]
                                              ELSE Nothing]]

EnsureCreated(s) ==
    IF s.created THEN s ELSE [Emit(s, <<Frame("created", 0, 0)>>) EXCEPT !.created = TRUE]

StartMessage(s) ==
    IF s.msg.open THEN s
    ELSE LET t == EnsureCreated(s)
         IN  [Emit(t, <<Frame("message", t.index, 0)>>)
                EXCEPT !.msg = [open |-> TRUE, index |-> t.index, parts |-> <<>>],
                       !.index = @ + 1]

FinishMessage(s) ==
    IF ~s.msg.open THEN s
    ELSE LET item == Output("message", s.msg.parts, "completed")
         IN  [PutOutput(Emit(s, <<Frame("done", s.msg.index, item)>>), s.msg.index, item)
                EXCEPT !.msg.open = FALSE]

OnText(s, x) ==
    LET t == StartMessage(s)
    IN  [Emit(t, <<Frame("delta", t.msg.index, x)>>) EXCEPT !.msg.parts = Append(@, x)]

\* Fault: a message is left open when a call begins.
OnStartOver(s) ==
    LET t == EnsureCreated(s)
    IN  [Emit(t, <<Frame("call", t.index, 0)>>)
           EXCEPT !.calls = Append(@, [open |-> TRUE, index |-> t.index, parts |-> <<>>]),
                  !.index = @ + 1]
OnStart(s) ==
    LET t == EnsureCreated(FinishMessage(s))
    IN  [Emit(t, <<Frame("call", t.index, 0)>>)
           EXCEPT !.calls = Append(@, [open |-> TRUE, index |-> t.index, parts |-> <<>>]),
                  !.index = @ + 1]

OnArguments(s, x) ==
    LET k == Len(s.calls)
    IN  [Emit(s, <<Frame("delta", s.calls[k].index, x)>>) EXCEPT !.calls[k].parts = Append(@, x)]

CloseCall(s, k, status) ==
    LET i    == s.calls[k].index
        item == Output("call", s.calls[k].parts, status)
    IN  [PutOutput(Emit(s, <<Frame("done", i, item)>>), i, item) EXCEPT !.calls[k].open = FALSE]

\* has_partial_call(): the parser stopped before the call, or inside it.
Partial == broken \/ inside # "text"
\* The frames of the end: a call that is still open is closed as incomplete,
\* an empty reply has one empty message.
Incomplete(s) == reason = "length" \/ Partial \/ \E k \in DOMAIN s.calls : s.calls[k].open

\* Fault: an open call is not closed.
OnEndOpen(s) ==
    LET t == EnsureCreated(FinishMessage(s))
        u == IF t.slots = <<>> /\ ~Incomplete(s) THEN FinishMessage(StartMessage(t)) ELSE t
    IN  Emit(u, <<[type |-> "final", index |-> 0, val |-> u.slots,
                   status |-> IF Incomplete(s) THEN "incomplete" ELSE "completed"]>>)
OnEnd(s) ==
    LET t == EnsureCreated(FinishMessage(s))
        c == FoldLeft(LAMBDA a, k : IF t.calls[k].open THEN CloseCall(a, k, "incomplete") ELSE a,
                      t, [k \in DOMAIN t.calls |-> k])
        u == IF c.slots = <<>> /\ ~Incomplete(s) THEN FinishMessage(StartMessage(c)) ELSE c
    IN  Emit(u, <<[type |-> "final", index |-> 0, val |-> u.slots,
                   status |-> IF Incomplete(s) THEN "incomplete" ELSE "completed"]>>)

\* A step of the handler, of either API.
Does(s, frames) ==
    IF Api = "chat" THEN todo' = frames /\ UNCHANGED handler
    ELSE /\ created' = s.created /\ msg' = s.msg /\ calls' = s.calls /\ index' = s.index
         /\ slots' = s.slots /\ todo' = s.out

-----------------------------------------------------------------------------
Init ==
    /\ phase = IF Forced THEN "prefix" ELSE "waiting"
    /\ reason = "" /\ inside = "text" /\ broken = FALSE /\ pieces = 0
    /\ content = <<>> /\ made = 0 /\ args = <<>>
    /\ created = FALSE /\ msg = NoMessage /\ calls = <<>> /\ index = 0 /\ slots = <<>>
    /\ todo = <<>> /\ wire = <<>> /\ started = FALSE /\ gone = FALSE /\ waits = 0

\* The handler is about to do something: the frames of the last event are sent.
Ready == todo = <<>> /\ phase # "over"

\* SseStream: a frame is written, the head before the first; when the client
\* is gone this may fail, and the handler returns.
Send ==
    /\ todo # <<>>
    /\ \/ /\ wire' = IF gone THEN wire ELSE Append(wire, Head(todo))
          /\ todo' = Tail(todo) /\ started' = TRUE
          /\ phase' = IF phase = "closing" /\ Len(todo) = 1 THEN "over" ELSE phase
       \/ /\ gone /\ todo' = <<>> /\ phase' = "over"
          /\ UNCHANGED <<wire, started>>
    /\ UNCHANGED <<reason, parser, handler, gone, waits>>

ClientGone ==
    /\ ~gone /\ gone' = TRUE
    /\ UNCHANGED <<phase, reason, parser, handler, todo, wire, started, waits>>

\* st->disconnected(), looked at in every wait and for every piece: the
\* request is abandoned.
Notice ==
    /\ Ready /\ gone /\ phase \in {"waiting", "running"} /\ phase' = "over"
    /\ UNCHANGED <<reason, parser, handler, todo, socket, waits>>

\* on_wait: an empty piece of content, or a comment of SSE.
Wait ==
    /\ Ready /\ phase = "waiting" /\ ~gone /\ waits < MaxWaits /\ waits' = waits + 1
    /\ IF Api = "chat" THEN todo' = <<Frame("content", 0, 0)>> /\ UNCHANGED started
       ELSE started' = TRUE /\ UNCHANGED todo
    /\ UNCHANGED <<phase, reason, parser, handler, wire, gone>>

Begin ==
    /\ Ready /\ phase = "waiting" /\ phase' = "running"
    /\ UNCHANGED <<reason, parser, handler, todo, socket, waits>>

\* The events of the parser: text between calls, a call, its arguments, its
\* end; what it cannot read breaks it, and it says no more.
Speaking == Ready /\ phase \in {"running", "flushing"} /\ ~broken

TextEvent ==
    /\ Speaking /\ inside = "text" /\ pieces < MaxPieces /\ pieces' = pieces + 1
    /\ content' = Append(content, pieces')
    /\ Does(OnText(State, pieces'), <<Frame("content", 0, pieces')>>)
    /\ UNCHANGED <<phase, reason, inside, broken, made, args, socket, waits>>

\* The prefix of a forced choice is fed before the generation: it names the
\* function, or is a tag only ("required", or the JSON format).
Entered == phase' = IF phase = "prefix" THEN "waiting" ELSE phase

TagEvent ==
    /\ Ready /\ (phase = "prefix" \/ Speaking)
    /\ inside = "text" /\ inside' = "tag" /\ Entered
    /\ UNCHANGED <<reason, broken, pieces, content, made, args, handler, todo, socket, waits>>

CallEvent ==
    /\ Ready /\ (phase = "prefix" \/ (Speaking /\ inside = "tag"))
    /\ Len(args) < MaxCalls
    /\ inside' = "call" /\ args' = Append(args, <<>>) /\ Entered
    /\ Does(OnStart(State), <<Frame("call", Len(args), 0)>>)
    /\ UNCHANGED <<reason, broken, pieces, content, made, socket, waits>>

ArgumentsEvent ==
    /\ Speaking /\ inside = "call" /\ pieces < MaxPieces /\ pieces' = pieces + 1
    /\ args' = [args EXCEPT ![Len(args)] = Append(@, pieces')]
    /\ Does(OnArguments(State, pieces'), <<Frame("args", Len(args) - 1, pieces')>>)
    /\ UNCHANGED <<phase, reason, inside, broken, content, made, socket, waits>>

EndEvent ==
    /\ Speaking /\ inside = "call" /\ inside' = "text" /\ made' = made + 1
    /\ Does(CloseCall(State, Len(args), "completed"), <<>>)
    /\ UNCHANGED <<phase, reason, broken, pieces, content, args, socket, waits>>

Break ==
    /\ Speaking /\ inside # "text" /\ broken' = TRUE
    /\ UNCHANGED <<phase, reason, inside, pieces, content, made, args, handler, todo, socket, waits>>

\* The generation ends and the splitter and the parser give what they held.
GenerationEnds ==
    /\ Ready /\ phase = "running" /\ phase' = "flushing"
    /\ reason' \in {"stop", "length"}
    /\ UNCHANGED <<parser, handler, todo, socket, waits>>

\* finish_reason of the chat API.
Finish == IF reason = "length" \/ Partial THEN "length"
          ELSE IF made = 0 THEN reason ELSE "tool_calls"

Finishes ==
    /\ Ready /\ phase = "flushing" /\ phase' = "closing"
    /\ \E usage \in BOOLEAN :
         Does(OnEnd(State), <<Frame("finish", 0, Finish)>>
                            \o (IF usage THEN <<Frame("usage", 0, 0)>> ELSE <<>>)
                            \o <<Frame("DONE", 0, 0)>>)
    /\ UNCHANGED <<reason, parser, socket, waits>>

\* run_generation throws (no engine, lost connection, timeout, rejected, the
\* shared context is full): an event when the status line is spent, or else a
\* response with a status.
GenerationFails ==
    /\ Ready /\ phase \in {"waiting", "running"} /\ phase' = "closing"
    /\ todo' = <<Frame(IF started THEN "error" ELSE "status", 0, 0)>>
    /\ UNCHANGED <<reason, parser, handler, socket, waits>>

Next == \/ Send \/ ClientGone \/ Notice \/ Wait \/ Begin \/ TextEvent \/ TagEvent
        \/ CallEvent \/ ArgumentsEvent \/ EndEvent \/ Break \/ GenerationEnds \/ Finishes
        \/ GenerationFails

Spec == Init /\ [][Next]_vars
Fairness == /\ WF_vars(Send) /\ WF_vars(Begin) /\ WF_vars(Notice)
            /\ WF_vars((TagEvent \/ CallEvent) /\ phase = "prefix")
            /\ WF_vars(GenerationEnds \/ GenerationFails) /\ WF_vars(Finishes)
FairSpec == Spec /\ Fairness

-----------------------------------------------------------------------------
Over == phase = "over" /\ ~gone
Types == [i \in DOMAIN wire |-> wire[i].type]
At(type) == {i \in DOMAIN wire : wire[i].type = type}
Parts(type, k) ==
    LET s == SelectSeq(wire, LAMBDA f : f.type = type /\ f.index = k /\ f.val # 0)
    IN  [i \in DOMAIN s |-> s[i].val]

TypeOK ==
    /\ phase \in {"prefix", "waiting", "running", "flushing", "closing", "over"}
    /\ wire # <<>> => started
    /\ phase \in {"closing", "over"} \/ \A i \in DOMAIN wire : wire[i].type \notin {"error", "status", "DONE", "final"}

\* A status is sent alone, an error last, and a reply that is not broken off
\* ends in exactly one of: an error, a status, DONE, the final event.
EndsOnce ==
    LET ends == At("error") \union At("status") \union At("DONE") \union At("final")
    IN  /\ ends \subseteq {Len(wire)}
        /\ Over => ends # {}
        /\ At("status") # {} => Len(wire) = 1

\* The calls of the reply that is not streamed: those that were finished.
Whole == SubSeq(args, 1, made)

\* Chat: the text the client puts together is that of the reply that is not
\* streamed, and so is the finish_reason, sent once after it; the calls are
\* those too, but for one that was broken off, and then the reason is "length".
Calls == [k \in DOMAIN args |-> Parts("args", k - 1)]
ChatIsReply ==
    Api = "chat" /\ Over /\ At("DONE") # {} =>
       /\ Parts("content", 0) = content
       /\ SelectSeq(Types, LAMBDA t : t = "call") = [k \in DOMAIN Calls |-> "call"]
       /\ SubSeq(Calls, 1, made) = Whole
       /\ \E i \in At("finish") :
             /\ At("finish") = {i}
             /\ wire[i].val # "length" => Calls = Whole
             /\ wire[i].val = (IF reason = "length" \/ Partial THEN "length"
                               ELSE IF Whole = <<>> THEN "stop" ELSE "tool_calls")
             /\ \A j \in DOMAIN wire : wire[j].type \in {"content", "call", "args"} => j < i

\* Responses: no slot of the last event is null, its text and its completed
\* calls are those of the reply that is not streamed, behind them is at most
\* one call, incomplete; and the response is completed when the generation
\* stopped by itself outside of every tag and call.
ResponseIsReply ==
    Api = "responses" /\ Over /\ At("final") # {} =>
       LET f == wire[Len(wire)]
           of(kind) == SelectSeq(f.val, LAMBDA o : o.kind = kind)
           some(status) == SelectSeq(of("call"), LAMBDA o : o.status = status)
           parts(items) == [i \in DOMAIN items |-> items[i].parts]
       IN  /\ \A i \in DOMAIN f.val : f.val[i] # Nothing
           /\ FlattenSeq(parts(of("message"))) = content
           /\ parts(some("completed")) = Whole
           /\ of("call") = some("completed") \o some("incomplete")
           /\ parts(some("incomplete")) = SubSeq(args, made + 1, Len(args)) /\ Len(args) <= made + 1
           /\ f.status = "completed" <=> (reason = "stop" /\ inside = "text")

\* What the client has seen so far, event by event.
Seen(kind) ==
    LET see(s, f) ==
          CASE f.type = "created" -> [s EXCEPT !.created = TRUE]
            [] f.type \in {"message", "call"} ->
                 [s EXCEPT !.items = Append(@, Output(f.type, <<>>, "in_progress"))]
            [] f.type = "delta" -> [s EXCEPT !.items[f.index + 1].parts = Append(@, f.val)]
            [] f.type = "done" -> [s EXCEPT !.items[f.index + 1] = f.val]
            [] f.type = "final" -> [s EXCEPT !.final = [status |-> f.status, output |-> f.val]]
            [] OTHER -> s
    IN  FoldLeft(see, [created |-> FALSE, items |-> <<>>,
                       final |-> [status |-> "none", output |-> <<>>]], wire)[kind]

\* A client of the responses API sees what the protocol promises.
Protocol == INSTANCE ResponseProtocol
                WITH Pieces <- 1 .. MaxPieces,
                     created <- Seen("created"), items <- Seen("items"), final <- Seen("final")
FollowsProtocol == Protocol!Spec

\* Every request ends: the handler does not go on for a client that is gone.
Ends == <>(phase = "over")
=============================================================================
