---------------------------- MODULE Generation ----------------------------
(***************************************************************************)
(* What a generation promises the caller of EngineClient::generate: the    *)
(* engine produces tokens and then judges the request, once; the tokens    *)
(* are delivered; the caller is told the engine's verdict only when it has *)
(* them all, or is told that the request was withdrawn.                    *)
(***************************************************************************)
EXTENDS Naturals

CONSTANTS Req, MaxTokens

VARIABLES produced,   \* request -> tokens the engine made
          verdict,    \* request -> how the engine ended it
          delivered,  \* request -> tokens the caller has
          answer      \* request -> what the caller was told

vars == <<produced, verdict, delivered, answer>>

Init ==
    /\ produced = [r \in Req |-> 0] /\ delivered = [r \in Req |-> 0]
    /\ verdict = [r \in Req |-> "none"] /\ answer = [r \in Req |-> "none"]

Produce(r) ==
    /\ verdict[r] = "none" /\ produced[r] < MaxTokens
    /\ produced' = [produced EXCEPT ![r] = @ + 1]
    /\ UNCHANGED <<verdict, delivered, answer>>

Judge(r) ==
    /\ verdict[r] = "none"
    /\ \E why \in {"done", "error", "cancel"} : verdict' = [verdict EXCEPT ![r] = why]
    /\ UNCHANGED <<produced, delivered, answer>>

Deliver(r) ==
    /\ answer[r] = "none" /\ delivered[r] < produced[r]
    /\ delivered' = [delivered EXCEPT ![r] = @ + 1]
    /\ UNCHANGED <<produced, verdict, answer>>

Answer(r) ==
    /\ answer[r] = "none"
    /\ verdict[r] \in {"done", "error"} /\ delivered[r] = produced[r]
    /\ answer' = [answer EXCEPT ![r] = verdict[r]]
    /\ UNCHANGED <<produced, verdict, delivered>>

Cancelled(r) ==
    /\ answer[r] = "none" /\ verdict[r] # "none"
    /\ answer' = [answer EXCEPT ![r] = "cancel"]
    /\ UNCHANGED <<produced, verdict, delivered>>

Withdraw(r) ==
    /\ answer[r] = "none"
    /\ \E why \in {"timeout", "lost", "unreachable"} : answer' = [answer EXCEPT ![r] = why]
    /\ UNCHANGED <<produced, verdict, delivered>>

Next == \E r \in Req : \/ Produce(r) \/ Judge(r) \/ Deliver(r)
                       \/ Answer(r) \/ Cancelled(r) \/ Withdraw(r)

Spec == Init /\ [][Next]_vars
=============================================================================
