---------------------------- MODULE ChatTemplate ----------------------------
(* A conversation as the prompt the engine gets (api/chat_template.cpp) and *)
(* the places in it at which checkpoints are asked for (compute_snap_cuts   *)
(* in api/main.cpp).  What of a turn the caches can use is decided here: a  *)
(* live sequence, a checkpoint or a snapshot only serves a prompt that      *)
(* begins with exactly its tokens.                                          *)
(*                                                                          *)
(* A text is a sequence of marks and words; the client of a conversation    *)
(* sends it all again with each turn.                                       *)
EXTENDS Texts

CONSTANTS
    Options,      \* what requests set
    Says,         \* the messages a client may add, its tool results included
    Replies,      \* the assistant messages the model may write
    Answers,      \* user texts in the form of a tool response
    LongReplay,   \* 51: a longer history without a question
    MaxCuts,      \* 8
    MaxMessages   \* bound on the conversation

VARIABLES
    opt,          \* the options of the requests
    msgs,         \* the conversation
    prompt, cuts  \* what the engine gets with the last request
vars == <<opt, msgs, prompt, cuts>>

(* An option is [enabled, effort, preserve, tools, auto]: chat_template_kwargs *)
(* and reasoning_effort, whether the request has tools, and auto_disable.      *)
(* A message is                                                                *)
(*   [role |-> "system", text, tag] or [role |-> "user", text, tag, image],    *)
(*   tag the control tag in it, if any;                                        *)
(*   [role |-> "assistant", reasoning, text, calls, sent], sent FALSE if the   *)
(*   client does not send the reasoning back;                                  *)
(*   [role |-> "tool", text].                                                  *)
Failed == "failed"  \* a tool result that reads like an error

Start(role) == <<"start", role>>
End == <<"im_end", "newline">>
Shown(word) == IF word = "" THEN <<>> ELSE <<word>>
Joined(parts) == FoldLeft(LAMBDA out, p : IF out = <<>> \/ p = <<>> THEN out \o p
                                          ELSE out \o <<"gap">> \o p, <<>>, parts)

-----------------------------------------------------------------------------
(* Thinking: the request's options, then the tags in its messages, the last *)
(* of which wins.                                                           *)
Marked(tag) == [on     |-> tag # "off",
                effort |-> IF tag = "off" \/ tag = "on" THEN "medium" ELSE tag]
Thinking(o, ms) ==
    FoldLeft(LAMBDA d, m : IF m.role \in {"system", "user"} /\ m.tag # ""
                           THEN Marked(m.tag) ELSE d,
             [on     |-> o.enabled /\ o.effort # "none" /\ ~(o.auto /\ o.tools),
              effort |-> IF o.effort = "none" THEN "medium" ELSE o.effort], ms)

HeadCount(ms) == Max({n \in 0 .. Len(ms) : \A k \in 1 .. n : ms[k].role = "system"})

Header(o, ms) ==
    LET d     == Thinking(o, ms)
        how   == IF d.on /\ d.effort # "medium" THEN <<d.effort>> ELSE <<>>
        tools == IF o.tools THEN <<IF d.on THEN "tools, thinking" ELSE "tools">> ELSE <<>>
        body  == Joined(<<how, tools>> \o [k \in 1 .. HeadCount(ms) |-> Shown(ms[k].text)])
    IN  IF body = <<>> THEN <<>> ELSE Start("system") \o body \o End

\* The last question: what is not a tool's answer, sent as a user's message.
Questions(ms) == {k \in DOMAIN ms : ms[k].role = "user" /\ ms[k].text \notin Answers}
LastQuery(ms) ==
    IF Questions(ms) # {} THEN Max(Questions(ms))
    ELSE IF Len(ms) > LongReplay THEN Len(ms) ELSE 1

Preserved(o, ms, k) == o.preserve \/ k > LastQuery(ms)
Reasoning(m) == IF m.sent THEN m.reasoning ELSE ""

Calls(m) == FlattenSeq([n \in DOMAIN m.calls |->
                (IF n > 1 THEN <<"newline">> ELSE IF m.text # "" THEN <<"gap">> ELSE <<>>)
                \o <<m.calls[n]>>])

AssistantTurn(o, ms, k) ==
    LET m       == ms[k]
        thought == Preserved(o, ms, k) /\ Reasoning(m) # ""
    IN  IF m.text = "" /\ m.calls = <<>> /\ ~thought THEN <<>>
        ELSE Start("assistant")
             \o (IF thought THEN <<"think", Reasoning(m), "/think">> ELSE <<>>)
             \o Shown(m.text) \o Calls(m) \o End

\* Tool errors in a row, no question between them.
Failures(ms, k) ==
    FoldLeft(LAMBDA n, m : IF m.role = "user" THEN 0
                           ELSE IF m.role # "tool" THEN n
                           ELSE IF m.text = Failed THEN n + 1 ELSE 0, 0, Upto(ms, k))

IsTool(ms, k) == k \in DOMAIN ms /\ ms[k].role = "tool"
ToolTurn(ms, k) ==
    (IF IsTool(ms, k - 1) THEN <<>> ELSE Start("user"))
    \o <<"response", ms[k].text>>
    \o (IF Failures(ms, k) = 0 THEN <<>> ELSE <<"warning", ToString(Failures(ms, k))>>)
    \o <<"/response">>
    \o (IF IsTool(ms, k + 1) THEN <<>> ELSE End)

Turn(o, ms, k) ==
    CASE ms[k].role = "system" ->
            IF k <= HeadCount(ms) THEN <<>> ELSE Start("system") \o Shown(ms[k].text) \o End
      [] ms[k].role = "user" ->
            Start("user") \o <<"newline">>
            \o (IF ms[k].image THEN <<"vision", "pad", "/vision">> ELSE <<>>)
            \o Shown(ms[k].text) \o End
      [] ms[k].role = "assistant" -> AssistantTurn(o, ms, k)
      [] ms[k].role = "tool" -> ToolTurn(ms, k)

Render(o, ms) == Header(o, ms) \o FlattenSeq([k \in DOMAIN ms |-> Turn(o, ms, k)])

\* With the generation prompt at its end.
RenderedText(o, ms) ==
    Render(o, ms) \o Start("assistant") \o <<"think">>
    \o (IF Thinking(o, ms).on THEN <<>> ELSE <<"/think">>)

-----------------------------------------------------------------------------
(* compute_snap_cuts: the ends of the earlier messages and of the content   *)
(* of the last one, as numbers of tokens.  Every mark is a token of its own *)
(* (added tokens split the text, see Tokenizer), so every cut is one's start. *)
Boundary(o, ms, k) == Len(Render(o, Upto(ms, k)))
MessageEnds(o, ms, text) ==
    {Boundary(o, ms, k) : k \in {k \in 1 .. Len(ms) - 1 :
                                    IsStrictPrefix(Render(o, Upto(ms, k)), text)}}
ContentEnd(text) ==
    {i - 1 : i \in {i \in DOMAIN text : /\ text[i] = "im_end"
                                       /\ \A j \in DOMAIN text : j > i => text[j] # "im_end"}}
BeforeImages(text) == Min({i - 1 : i \in {i \in DOMAIN text : text[i] = "pad"}} \union {Len(text)})

Cuts(o, ms, text) ==
    {c \in MessageEnds(o, ms, text) \union ContentEnd(text) : c > 0 /\ c < BeforeImages(text)}
\* The last of them.
LastCuts(all) == {c \in all : Cardinality({d \in all : d > c}) < MaxCuts}

-----------------------------------------------------------------------------
Answered(ms) == ms # <<>> /\ Last(ms).role = "assistant"

Init == /\ opt \in Options
        /\ msgs = <<>> /\ prompt = <<>> /\ cuts = {}

\* A request: the conversation with one more message of the client's.
Say == /\ Len(msgs) < MaxMessages
       /\ \E m \in Says :
            /\ m.role = "tool" => \/ IsTool(msgs, Len(msgs))
                                  \/ Answered(msgs) /\ Last(msgs).calls # <<>>
            /\ msgs' = Append(msgs, m)
       /\ prompt' = RenderedText(opt, msgs')
       /\ cuts' = LastCuts(Cuts(opt, msgs', prompt'))
       /\ UNCHANGED opt

\* The model's reply, which the client adds to the conversation.
Reply == /\ msgs # <<>> /\ ~Answered(msgs) /\ Len(msgs) < MaxMessages
         /\ \E a \in Replies :
              /\ ~Thinking(opt, msgs).on => a.reasoning = ""
              /\ msgs' = Append(msgs, a)
         /\ UNCHANGED <<opt, prompt, cuts>>

Next == Say \/ Reply

Spec == Init /\ [][Next]_vars

-----------------------------------------------------------------------------
\* What the engine holds when it has written the reply that ends the
\* conversation: all but the reply's last token.
Written(m) == Shown(m.reasoning) \o <<"/think">>
Live == prompt \o (IF Thinking(opt, Front(msgs)).on THEN Written(Last(msgs)) ELSE <<>>)
        \o Shown(Last(msgs).text) \o Calls(Last(msgs))

SameHeader(a, b) == Thinking(opt, a) = Thinking(opt, b) /\ HeadCount(a) = HeadCount(b)

\* The next turn continues the live sequence, at no cost but its own tokens:
\* if the model was thinking, the client gives its reasoning back and does not
\* change the thinking, and the reasoning is preserved or the turn only adds
\* results of the calls.
NextTurnContinues ==
    \A m \in Says :
        LET after == Append(msgs, m)
        IN  /\ Len(msgs) > 1 /\ Answered(msgs)
            /\ Thinking(opt, msgs).on /\ SameHeader(msgs, after)
            /\ Last(msgs).reasoning # "" /\ Last(msgs).sent
            /\ \/ opt.preserve
               \/ m.role = "tool" /\ Questions(msgs) # {}
            => IsPrefix(Live, RenderedText(opt, after))

\* Edit and resend: a prompt that differs from message k + 1 on begins with
\* the old one up to a cut there, unless thinking is switched or dropped or a
\* run of tool results is cut in the middle; and that cut was asked for,
\* unless an image stands before it or there are too many behind it.
EditsReuse ==
    ~Answered(msgs) =>
    \A k \in 1 .. Len(msgs) - 1 : \A m \in Says :
        LET kept   == Upto(msgs, k)
            edited == Append(kept, m)
            cut    == Boundary(opt, msgs, k)
        IN  /\ opt.preserve /\ cut > 0
            /\ SameHeader(kept, msgs) /\ SameHeader(kept, edited)
            /\ msgs[k].role = "tool" => msgs[k + 1].role # "tool" /\ m.role # "tool"
            => /\ IsPrefix(Upto(prompt, cut), RenderedText(opt, edited))
               /\ \/ cut \in cuts
                  \/ cut >= BeforeImages(prompt)
                  \/ Cardinality(cuts) = MaxCuts /\ \A c \in cuts : c > cut

\* A cut is worth a checkpoint: what stands before it holds no image, and is
\* where the prompt of a shorter conversation ends or the last content does;
\* there are no more than the engine takes.
CutsAreSound ==
    /\ Cardinality(cuts) <= MaxCuts
    /\ \A c \in cuts : /\ prompt[c + 1] \in {"start", "im_end"}
                       /\ \A i \in 1 .. c : prompt[i] # "pad"

\* However results, skipped replies and system messages follow each other,
\* each message of the prompt is closed before the next begins.
TurnsAreClosed ==
    LET marks == SelectSeq(prompt, LAMBDA x : x \in {"start", "im_end"})
    IN  /\ \A i \in DOMAIN marks : marks[i] = IF i % 2 = 1 THEN "start" ELSE "im_end"
        /\ prompt # <<>> => Len(marks) % 2 = 1
        /\ ~Occurs({<<"start", "assistant", "im_end">>}, prompt)
=============================================================================
