----------------------------- MODULE SpecDecode -----------------------------
(***************************************************************************)
(* Decoding with drafts: spec_loop ("spec"), spec_loop_ngram ("ngram") and *)
(* spec_loop_chain ("chain"), the emit callback they are given, and        *)
(* ckpt_pause, after which gen_one enters them again.                      *)
(*                                                                         *)
(* A token is the number of its position, counted from 1: the token the    *)
(* model gives behind a right text of n tokens is n + 1.  A rejected draft *)
(* is Wrong, and so is whatever the model gives over a state that is not   *)
(* that of the text.  The sampling loops differ in how a draft is          *)
(* accepted, not in what a round does with it.  A round yields only at its *)
(* top, so a round (of ngram: a verify pass) is a step.                    *)
(***************************************************************************)
EXTENDS Integers, Sequences, FiniteSetsExt

CONSTANTS
    Loop,       \* "spec", "ngram" or "chain"
    Prompt,     \* tokens of the prompt
    MaxTokens,  \* of the request
    MaxCtx,     \* rows of a sequence
    Gamma,      \* most tokens MTP drafts
    MaxDraft,   \* most tokens the ngram table drafts
    Chunk,      \* ... and that are verified in one pass
    Ring,       \* slots of the ring d_ring (9)
    Kinds       \* the texts: functions from the tokens behind the prompt

ASSUME DecodeAssumption ==
    /\ Loop \in {"spec", "ngram", "chain"}
    /\ {Prompt, MaxTokens, Gamma, MaxDraft, Chunk} \subseteq Nat \ {0}
    /\ MaxCtx \in Nat /\ Ring \in Nat
    /\ Gamma < Ring                     \* at most 8 drafts, 9 slots
    /\ Prompt + MaxTokens <= MaxCtx     \* the check of the GEN line
    /\ \A k \in Kinds : DOMAIN k = Prompt + 1 .. Prompt + MaxTokens + 1

VARIABLES
    kind,   \* token -> "plain", "ckpt" or "eos"
    m,      \* the model: what its states were made of
    cur,    \* the token that is next to be ingested; pause_tok in a pause
    n,      \* out.size() of this entry of the loop
    sent,   \* the tokens the client got; ngen is their number
    draft,  \* chunks of an ngram draft still to be verified
    pc,     \* "first", "round", "chunk", "pause" or "over"
    why,    \* "" until the D line
    reach   \* rows of the sequence that were asked for

vars == <<kind, m, cur, n, sent, draft, pc, why, reach>>

Wrong == 0
Mtp == Loop # "ngram"   \* mtp_live: otherwise nothing reads the MTP rows
Gen == MaxTokens - 1    \* the budget every entry of the loop is given

-----------------------------------------------------------------------------
(* The model.  S stands for the recurrent state (GDN state, convolution),   *)
(* ring for the states kept by position modulo their length, kv for the     *)
(* rows of the sequence, mtp for the MTP rows: row i pairs h_i, the stream  *)
(* behind token i, with token i + 1, and is right if the stream is the      *)
(* trunk's; R says whose stream d_R holds.                                  *)

Put(s, from, rows) ==
    [i \in 1 .. Max({Len(s), from + Len(rows)}) |->
        IF i \in from + 1 .. from + Len(rows) THEN rows[i - from] ELSE s[i]]

Slots(r, from, rows) ==
    [k \in 0 .. Ring - 1 |->
        LET I == {i \in 1 .. Len(rows) : (from + i) % Ring = k}
        IN IF I = {} THEN r[k] ELSE rows[Max(I)]]

Ingested(x, rows) ==
    [x EXCEPT !.chist = @ \o rows, !.S = @ \o rows, !.pos = @ + Len(rows),
              !.kv = Put(@, x.pos, rows), !.ring = Slots(@, x.pos, rows),
              !.R = x.pos + Len(rows)]

Blank == [chist |-> <<>>, S |-> <<>>, kv |-> <<>>, mtp |-> <<>>, mtpPos |-> 0, pos |-> 0,
          ring |-> [k \in 0 .. Ring - 1 |-> Wrong], R |-> 0]
Tokens(a, b) == [i \in 1 .. b - a + 1 |-> a + i - 1]

Right(s, k) == Len(s) >= k /\ \A i \in 1 .. k : s[i] = i
Intact(x) ==
    /\ Len(x.S) = x.pos /\ Right(x.S, x.pos) /\ Right(x.kv, x.pos)
    /\ \A t \in Max({1, x.pos - Ring + 1}) .. x.pos : x.ring[t % Ring] = t

(* Variant: the slot of the last rejected row is forgotten.                 *)
RolledBackShort(old, new, d, g) ==
    LET k == old.pos + d + 1
    IN [new EXCEPT !.chist = SubSeq(@, 1, Len(old.chist) + d + 1), !.pos = k,
                   !.S = SubSeq(@, 1, k), !.R = k,
                   !.ring = [j \in DOMAIN @ |->
                       IF \E t \in k + 1 .. old.pos + g : t % Ring = j
                       THEN old.ring[j] ELSE @[j]]]

(* Back to the first k tokens after a pass over more rows: the recurrent    *)
(* state from the pass's snapshot of row d, the ring slots of the rejected  *)
(* rows from before the pass; kv rows are written before they are read.     *)
RolledBack(old, new, d, g) ==
    LET k == old.pos + d + 1
    IN [new EXCEPT !.chist = SubSeq(@, 1, Len(old.chist) + d + 1), !.pos = k,
                   !.S = SubSeq(@, 1, k), !.R = k,
                   !.ring = [j \in DOMAIN @ |->
                       IF \E t \in k + 1 .. old.pos + g + 1 : t % Ring = j
                       THEN old.ring[j] ELSE @[j]]]

(* Or all of it from before the pass, and the rows to keep once more.       *)
Replayed(old, new, rows) == Ingested([old EXCEPT !.kv = new.kv], rows)

(* MTP rows from..: h of these positions with the committed tokens.         *)
MtpPatched(x, from, rows) ==
    [x EXCEPT !.mtp = Put(@, from - 1, rows), !.mtpPos = from - 1 + Len(rows)]
MtpRows(from, k, r) == [i \in 1 .. k |-> IF i > 1 \/ r = from THEN from + i - 1 ELSE Wrong]

-----------------------------------------------------------------------------
(* The emit callbacks: the budget, an end and a ckpt token refuse a token,  *)
(* a client that is gone loses it, a cancel is seen once it is sent.  kept  *)
(* counts the calls that returned true.                                     *)
KindOf(t) == IF t \in DOMAIN kind THEN kind[t] ELSE "plain"
(* Variant: the budget is tested after the token was counted.               *)
RefusedLate(t, k) == Len(sent) + k > MaxTokens \/ KindOf(t) \in {"eos", "ckpt"}
Refused(t, k) == Len(sent) + k >= MaxTokens \/ KindOf(t) \in {"eos", "ckpt"}
Refusal(t, k) ==
    IF Len(sent) + k >= MaxTokens THEN "length"
    ELSE IF KindOf(t) = "eos" THEN "done" ELSE "pause"

Outcome(kept, toks, w) == [kept |-> kept, toks |-> toks, why |-> w]
Emitted(c) ==
    LET R == {j \in 1 .. Len(c) : Refused(c[j], j - 1)}
        all == IF R = {} THEN Len(c) ELSE Min(R) - 1
        end == IF R = {} THEN Outcome(all, c, "")
               ELSE Outcome(all, SubSeq(c, 1, all), Refusal(c[all + 1], all))
    IN {end} \union {Outcome(k - 1, SubSeq(c, 1, k), "cancel") : k \in 1 .. all}
             \union {Outcome(k - 1, SubSeq(c, 1, k - 1), "dead") : k \in 1 .. all}

(* What becomes of the request when the loop was left, or not (""): after a *)
(* refused ckpt token it pauses, unless it was cancelled meanwhile.         *)
Leaves(w, next) ==
    CASE w = ""      -> pc' = next /\ UNCHANGED why
      [] w = "pause" -> \/ pc' = "pause" /\ UNCHANGED why
                        \/ pc' = "over" /\ why' = "cancel"
      [] OTHER       -> pc' = "over" /\ why' = w

Reaches(row) == reach' = Max({reach, row})

-----------------------------------------------------------------------------
(* gen_one behind the prefill: the prompt is ingested, MTP one row behind,  *)
(* the first token is known.                                                *)
Prefilled == [Ingested(Blank, Tokens(1, Prompt)) EXCEPT !.mtp = Tokens(1, Prompt - 1),
                                                        !.mtpPos = Prompt - 1]
Init ==
    /\ kind \in Kinds
    /\ m = Prefilled /\ cur = Prompt + 1 /\ n = 0 /\ draft = <<>> /\ reach = Prompt
    /\ sent = <<>> /\ pc = "first" /\ why = ""

(* The first token goes out, or ends the reply, before a loop is entered.   *)
FirstToken ==
    /\ pc = "first"
    /\ IF kind[cur] = "eos" THEN pc' = "over" /\ why' = "done" /\ UNCHANGED sent
       ELSE \/ pc' = "round" /\ sent' = <<cur>> /\ UNCHANGED why
            \/ pc' = "over" /\ why' = "dead" /\ UNCHANGED sent
    /\ UNCHANGED <<kind, m, cur, n, draft, reach>>

(* A pass over rows: what the model gives behind cur and the first a drafts.*)
Heads(a) ==
    IF Intact(m) /\ cur = m.pos + 1 THEN Tokens(m.pos + 2, m.pos + a + 2)
    ELSE [i \in 1 .. a + 1 |-> Wrong]
Rows(a, g) == <<cur>> \o [j \in 1 .. g |-> IF j <= a THEN m.pos + j + 1 ELSE Wrong]
Accepts(a, g) == a <= g /\ (a = 0 \/ (Intact(m) /\ cur = m.pos + 1))

Running == pc = "round" /\ n < Gen /\ (Loop # "spec" => m.pos < MaxCtx)

(* The while condition: the budget of this entry is used up.                *)
LoopEnds ==
    /\ pc = "round" /\ ~(n < Gen /\ (Loop # "spec" => m.pos < MaxCtx))
    /\ pc' = "over" /\ why' = "length"
    /\ UNCHANGED <<kind, m, cur, n, sent, draft, reach>>

(* How many tokens MTP may draft; the chain minds the end of the context.   *)
MtpRoom == Min({Gamma, Gen - n} \union (IF Loop = "chain" THEN {MaxCtx - m.pos - 1} ELSE {}))

(* What a round leaves of g drafts of which d are kept: drafting makes MTP  *)
(* rows behind m.mtpPos, the pass ingests cur and the drafts, of which a    *)
(* are right, and MTP gets the rows of what is kept.                        *)
AfterRound(g, a, d, whole) ==
    LET r    == MtpRows(m.mtpPos + 1, 1, m.R)
        drew == MtpPatched(m, m.mtpPos + 1, r \o [j \in 1 .. g - 1 |-> Wrong])
        new  == Ingested(drew, Rows(a, g))
        mm   == IF whole THEN new ELSE RolledBack(drew, new, d, g)
    IN IF d > 0 THEN MtpPatched(mm, m.pos + 1, Tokens(m.pos + 1, m.pos + d))
                ELSE [mm EXCEPT !.mtpPos = m.pos]

(* spec_loop's round, and the chain's where the table has nothing.          *)
MtpRound ==
    /\ Running /\ Mtp /\ MtpRoom >= 1
    /\ \E g \in 1 .. MtpRoom, a \in 0 .. MtpRoom :
         /\ Accepts(a, g) /\ Reaches(m.pos + g + 1)
         /\ \E o \in Emitted(Heads(a)) :
              LET d    == Min({o.kept, a})
                  stop == o.kept < a + 1
              IN /\ m' = AfterRound(g, a, d, ~stop /\ d = g)
                 /\ cur' = Heads(a)[d + 1]
                 /\ n' = n + o.kept
                 /\ sent' = sent \o o.toks
                 /\ Leaves(o.why, "round")
    /\ UNCHANGED <<kind, draft>>

(* The chain at the end of the context: no room for a draft.                *)
ContextEdge ==
    /\ Running /\ Loop = "chain" /\ MtpRoom < 1
    /\ pc' = "over" /\ why' = "length"
    /\ UNCHANGED <<kind, m, cur, n, sent, draft, reach>>

(* The ngram loop where the table has nothing: one token, serially.         *)
SerialStep ==
    /\ Running /\ Loop = "ngram"
    /\ \E o \in Emitted(Heads(0)) :
         /\ cur' = Heads(0)[1]
         /\ n' = n + o.kept
         /\ sent' = sent \o o.toks
         /\ Leaves(o.why, "round")
    /\ m' = Ingested(m, <<cur>>)
    /\ Reaches(m.pos + 1)
    /\ UNCHANGED <<kind, draft>>

(* The table drafts, leaving a row for the token behind the draft.          *)
Want == Min({MaxDraft, Gen - n - 1, MaxCtx - m.pos - 1})
NgramDrafts ==
    /\ Running /\ Loop # "spec"
    /\ \E len \in 1 .. Want, right \in 0 .. Want :
           right <= len /\ draft' = [len |-> len, right |-> right]
    /\ pc' = "chunk"
    /\ UNCHANGED <<kind, m, cur, n, sent, why, reach>>

(* What a pass over c drafts, of which a are right, leaves if it keeps the  *)
(* first keep.                                                              *)
AfterPass(c, a, keep) ==
    LET rows == Rows(a, c)
        new  == Ingested(m, rows)
        mm   == IF keep = c THEN new ELSE Replayed(m, new, SubSeq(rows, 1, keep + 1))
    IN IF Mtp THEN MtpPatched(mm, m.pos, MtpRows(m.pos, keep + 1, m.R)) ELSE mm

(* One verify pass of an ngram round: of a chunk in the chain, of the whole *)
(* draft in spec_loop_ngram.  The next chunk follows when all of this one   *)
(* was right and the token behind it is the next of the draft.              *)
NgramPass ==
    /\ pc = "chunk"
    /\ LET c    == IF Loop = "chain" THEN Min({Chunk, draft.len}) ELSE draft.len
           a    == Min({draft.right, c})
           rest == draft.len - c - 1
       IN /\ \E o \in Emitted(Heads(a)) :
               LET keep == Min({o.kept, a})
                   stop == o.kept < a + 1
                   on   == /\ ~stop /\ keep = c /\ rest > 0 /\ draft.right > c
               IN /\ m' = AfterPass(c, a, keep)
                  /\ cur' = Heads(a)[keep + 1]
                  /\ n' = n + o.kept
                  /\ sent' = sent \o o.toks
                  /\ draft' = IF on THEN [len |-> rest, right |-> draft.right - c - 1] ELSE <<>>
                  /\ Leaves(o.why, IF on THEN "chunk" ELSE "round")
          /\ Reaches(m.pos + c + 1)
    /\ UNCHANGED kind

(* ckpt_pause: checkpoint, the refused token sent, its MTP row made while   *)
(* d_R is still the stream in front of it, the token ingested, the next one *)
(* sent; then the loop again, with a new budget.                            *)
CkptPause ==
    /\ pc = "pause"
    /\ LET tok  == cur
           fed  == IF Mtp THEN MtpPatched(m, m.pos, MtpRows(m.pos, 1, m.R)) ELSE m
           new  == Ingested(fed, <<tok>>)
           next == IF Intact(new) THEN new.pos + 1 ELSE Wrong
           end  == IF KindOf(next) = "eos" THEN "done"
                   ELSE IF Len(sent) + 1 >= MaxTokens THEN "length" ELSE ""
       IN \/ /\ pc' = "over" /\ why' = "dead"
             /\ UNCHANGED <<m, cur, n, sent, reach>>
          \/ /\ end # "" /\ pc' = "over" /\ why' = end
             /\ sent' = Append(sent, tok)
             /\ m' = new /\ cur' = next /\ Reaches(new.pos) /\ UNCHANGED n
          \/ /\ end = "" /\ m' = new /\ cur' = next /\ Reaches(new.pos) /\ n' = 0
             /\ \/ pc' = "round" /\ sent' = sent \o <<tok, next>> /\ UNCHANGED why
                \/ pc' = "over" /\ sent' = Append(sent, tok) /\ why' = "dead"
    /\ UNCHANGED <<kind, draft>>

Next ==
    \/ FirstToken
    \/ LoopEnds
    \/ MtpRound
    \/ ContextEdge
    \/ SerialStep
    \/ NgramDrafts
    \/ NgramPass
    \/ CkptPause

Spec == Init /\ [][Next]_vars

-----------------------------------------------------------------------------
TypeOK ==
    /\ pc \in {"first", "round", "chunk", "pause", "over"}
    /\ why \in {"", "done", "length", "cancel", "dead"} /\ (why = "" <=> pc # "over")
    /\ n \in 0 .. Gen + 1 /\ reach \in Nat
    /\ DOMAIN m = DOMAIN Blank

(* Whatever was drafted, rejected, refused or given up: the history is the  *)
(* text, and the recurrent state, the rings, the rows and d_R are those of  *)
(* exactly that text (the round-start comments of the loops).               *)
StateIsText ==
    /\ Len(m.chist) = m.pos /\ Right(m.chist, m.pos)
    /\ Intact(m) /\ m.R = m.pos

(* MTP stays one row behind the trunk and its rows are made from the        *)
(* trunk's streams, not from those of the drafts (round-start invariant of  *)
(* spec_loop and spec_loop_chain), so that the next draft and the           *)
(* checkpoint, which keeps these rows, are sound.                           *)
MtpInStep ==
    Mtp => /\ m.mtpPos = m.pos - 1
           /\ Right(m.mtp, m.pos - 1)

(* The history the next turn builds on holds no token its client did not    *)
(* get, and lacks one at most.                                              *)
HistIsSent ==
    /\ m.pos - Prompt <= Len(sent)
    /\ pc \in {"round", "chunk"} => Len(sent) = m.pos - Prompt + 1
    /\ Len(sent) <= m.pos - Prompt + 1

(* No pass runs past the context, where prefill_chunk and kv_reserve end    *)
(* the process.                                                             *)
WithinContext == reach <= MaxCtx

(* "Never verify past the generation budget": without pauses the rows a     *)
(* request asks for are those of its prompt and its tokens, which is what   *)
(* admission promised.                                                      *)
WithinBudget ==
    (\A t \in DOMAIN kind : kind[t] # "ckpt") => reach <= Prompt + MaxTokens

(* Drafts, rejections, pauses at checkpoint tokens, cancels and the edge of *)
(* the context leave the model in the state of exactly the text the client  *)
(* has.                                                                     *)
DraftsLeaveNoTrace ==
    TypeOK /\ StateIsText /\ MtpInStep /\ HistIsSent /\ WithinContext /\ WithinBudget

(* A client cannot tell the loops from the plain one.                       *)
Serial == INSTANCE SerialDecode
ImplementsSerial == Serial!Spec
=============================================================================
