----------------------------- MODULE ChunkSizes -----------------------------
(***************************************************************************)
(* How a prompt is cut into chunks (namespace ple_prefetch of              *)
(* ple_prefetch.h, used by prefill_batch).                                 *)
(***************************************************************************)
EXTENDS Integers

(* A small tail joins the chunk instead of running as a tiny one.           *)
ChunkSize(remaining, batch, capacity) ==
    IF remaining > batch /\ remaining <= capacity THEN remaining
    ELSE IF remaining < batch THEN remaining ELSE batch
=============================================================================
