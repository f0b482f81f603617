---------------------------- MODULE KvAdmission ----------------------------
(***************************************************************************)
(* The page arithmetic of admission (src/kv_admission.h): how many KV      *)
(* pages a request reserves, how many it needs on the slot it was given,   *)
(* and how many the pool can promise it beside the requests already        *)
(* running.  Pure operators, shared by the scheduler.                      *)
(***************************************************************************)
EXTENDS Integers, FiniteSets

Smaller(a, b) == IF a < b THEN a ELSE b
Larger(a, b)  == IF a < b THEN b ELSE a

(* Pages that hold `rows` rows, as every page count in the code rounds up. *)
PagesFor(rows, page) == (rows + page - 1) \div page

(* kv_admission_target: prompt plus the part of the decode budget that is   *)
(* reserved, both cut at maxctx, in pages.                                  *)
AdmissionTarget(prompt, maxTokens, decodeCap, maxctx, page) ==
    LET decode == Larger(0, Smaller(maxTokens, decodeCap))
    IN  PagesFor(Smaller(maxctx, Smaller(prompt, maxctx) + decode), page)

(* kv_admission_need: a live continuation keeps the pages it has mapped.    *)
AdmissionNeed(target, mapped, continuation) ==
    IF continuation THEN Larger(target, mapped) ELSE target

(* kv_admission_available: the pool minus what every other running request  *)
(* holds or reserved, whichever is more, one by one: Promised holds a pair  *)
(* per slot and page.  It may be negative.  `states` is the vector of       *)
(* KvAdmissionState, one per slot.                                          *)
Promised(states, chosen) ==
    UNION {{s} \X (1 .. Larger(states[s].reserved, states[s].mapped)) :
               s \in {u \in DOMAIN states \ {chosen} : states[u].busy}}
AdmissionAvailable(pool, states, chosen) == pool - Cardinality(Promised(states, chosen))
=============================================================================
