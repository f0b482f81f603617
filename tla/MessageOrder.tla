---------------------------- MODULE MessageOrder ----------------------------
(* The order of tool results in a conversation (normalize_messages in       *)
(* api/toolparse.cpp).  The template numbers results by position, so the    *)
(* results behind an assistant message are put into the order of its calls; *)
(* a client may send them in any order, twice, or not at all.               *)
EXTENDS Texts

CONSTANTS Ids,          \* the call ids that occur
          CallLists,    \* the call lists of assistant messages
          MaxMessages   \* bound on the conversation

VARIABLES messages,  \* the conversation as the client sent it
          i,         \* how much of it is done
          ordered    \* positions in messages, in their new order

vars == <<messages, i, ordered>>

\* An assistant message lists the ids of its calls; a tool message names one
\* call or, with "", none; every other message is "user".
User      == [role |-> "user"]
Assistant == {[role |-> "assistant", calls |-> c] : c \in CallLists}
Tool      == {[role |-> "tool", id |-> id] : id \in Ids \union {""}}
Messages  == {User} \union Assistant \union Tool

\* The messages behind n up to the first that is not a tool's.
GroupEnd(n) == Max({j \in n .. Len(messages) :
                      \A k \in n + 1 .. j : messages[k].role = "tool"})

\* The first result not used yet that belongs to the call, 0 if there is none.
Pick(free, id, group) ==
    LET m == {j \in free : messages[j].id = id} IN IF m = {} THEN 0 ELSE Min(m)

\* The results of the group in the order of the calls.
Matched(calls, group) ==
    FoldLeft(LAMBDA found, id :
                LET j == Pick(group \ ToSet(found), id, group)
                IN  IF j = 0 THEN found ELSE Append(found, j),
             <<>>, calls)

\* What belongs to no call stays behind them, as it came.
Rest(group, matched) == SetToSortSeq(group \ ToSet(matched), <)

Init == /\ messages \in BoundedSeq(Messages, MaxMessages)
        /\ i = 0 /\ ordered = <<>>

\* A message without calls keeps its place.
Keep == /\ i < Len(messages) /\ messages[i + 1].role # "assistant"
        /\ ordered' = Append(ordered, i + 1)
        /\ i' = i + 1
        /\ UNCHANGED messages

\* An assistant's calls and the results behind them.
Group ==
    LET group   == i + 2 .. GroupEnd(i + 1)
        matched == Matched(messages[i + 1].calls, group)
    IN  /\ i < Len(messages) /\ messages[i + 1].role = "assistant"
        /\ ordered' = ordered \o <<i + 1>> \o matched \o Rest(group, matched)
        /\ i' = GroupEnd(i + 1)
        /\ UNCHANGED messages

Next == Keep \/ Group

Spec == Init /\ [][Next]_vars

-----------------------------------------------------------------------------
\* No message is lost or doubled: those done are all there, each once.
NothingLost == /\ i \in 0 .. Len(messages)
               /\ ToSet(ordered) = 1 .. i
               /\ Len(ordered) = i

\* Only results move, and never past a message that is not one.
OnlyResultsMove ==
    \A n \in 1 .. i : messages[n].role # "tool" => n <= Len(ordered) /\ ordered[n] = n

\* Behind an assistant the results stand in the order of its calls: two that
\* answer different calls are never the wrong way round, and results of the
\* same call keep their order.
InCallOrder ==
    \A n \in 1 .. i : messages[n].role = "assistant" =>
        LET calls == messages[n].calls
            group == n + 1 .. GroupEnd(n)
            answers(k) == messages[ordered[k]].id
            rank(k) == FirstOf({<<answers(k)>>}, calls)
        IN  IsInjective(calls) =>
            \A k, l \in group : k < l =>
                /\ answers(k) = answers(l) => ordered[k] < ordered[l]
                /\ /\ rank(l) # 0
                   /\ \A m \in group : m < l => answers(m) # answers(l)
                   => rank(k) # 0 /\ rank(k) < rank(l)
=============================================================================
