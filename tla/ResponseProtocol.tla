-------------------------- MODULE ResponseProtocol --------------------------
(* What a client of a streamed /v1/responses is promised: the response is    *)
(* created, its items come one after the other, each is opened, grows by     *)
(* deltas and is closed with all of them, nothing follows an item that was   *)
(* closed as incomplete, and the last event has the items that were closed   *)
(* and says that the response is completed only if all of them are.          *)
EXTENDS Integers, Sequences

CONSTANT Pieces   \* of text or of arguments

VARIABLES created, items, final
vars == <<created, items, final>>

Item(kind) == [kind |-> kind, parts |-> <<>>, status |-> "in_progress"]
NotYet == [status |-> "none", output |-> <<>>]
All(statuses) == \A i \in DOMAIN items : items[i].status \in statuses
IsOpen == items # <<>> /\ items[Len(items)].status = "in_progress"

Init == created = FALSE /\ items = <<>> /\ final = NotYet

Create == ~created /\ created' = TRUE /\ UNCHANGED <<items, final>>

Open == /\ created /\ final = NotYet /\ All({"completed"})
        /\ \E kind \in {"message", "call"} : items' = Append(items, Item(kind))
        /\ UNCHANGED <<created, final>>

Grow == /\ IsOpen
        /\ \E x \in Pieces : items' = [items EXCEPT ![Len(items)].parts = Append(@, x)]
        /\ UNCHANGED <<created, final>>

Close == /\ IsOpen
         /\ \E status \in {"completed", "incomplete"} :
               items' = [items EXCEPT ![Len(items)].status = status]
         /\ UNCHANGED <<created, final>>

Complete == /\ created /\ All({"completed", "incomplete"}) /\ final = NotYet
            /\ \E status \in {"completed", "incomplete"} :
                  /\ final' = [status |-> status, output |-> items]
                  /\ status = "completed" => items # <<>> /\ All({"completed"})
            /\ UNCHANGED <<created, items>>

Next == Create \/ Open \/ Grow \/ Close \/ Complete
Spec == Init /\ [][Next]_vars
=============================================================================
