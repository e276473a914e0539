---------------------------- MODULE ItemLifecycle ----------------------------
(***************************************************************************)
(* What a work queue promises to those who use it, without its queue, its  *)
(* sets or its condition variable: each key that is requested is handed to *)
(* one worker at a time; requests for a key nobody has begun on are one    *)
(* request; a request made while a worker is on the key stands, and the    *)
(* key is handed out again after that worker; nothing but a Reset takes a  *)
(* request back.                                                           *)
(*                                                                         *)
(* A Reset forgets what the workers hold: from then on such a key is loose, *)
(* may be with several workers and be handed out once too often.           *)
(***************************************************************************)
CONSTANTS Items, NoItem, Workers

VARIABLES
    wanted,  \* keys requested and not begun since
    working, \* working[w]: the key w is on, or NoItem
    loose,   \* keys that some worker was on at a Reset
    down     \* the queue is shutting down

vars == <<wanted, working, loose, down>>

Init ==
    /\ wanted = {}
    /\ working = [w \in Workers |-> NoItem]
    /\ loose = {}
    /\ down = FALSE

InHand == {working[w] : w \in Workers} \ {NoItem}

Request(i) ==
    /\ ~down
    /\ wanted' = wanted \cup {i}
    /\ UNCHANGED <<working, loose, down>>

Begin(w, i) ==
    /\ ~down /\ i \in wanted
    /\ working[w] = NoItem
    /\ i \in InHand => i \in loose
    /\ working' = [working EXCEPT ![w] = i]
    /\ wanted' = wanted \ {i} \/ (i \in loose /\ wanted' = wanted)
    /\ UNCHANGED <<loose, down>>

End(w) ==
    /\ working' = [working EXCEPT ![w] = NoItem]
    /\ UNCHANGED <<wanted, loose, down>>

Reset ==
    /\ wanted' = {}
    /\ loose' = loose \cup InHand
    /\ UNCHANGED <<working, down>>

ShutDown ==
    /\ down' = TRUE
    /\ UNCHANGED <<wanted, working, loose>>

Next ==
    \/ \E i \in Items : Request(i)
    \/ \E w \in Workers : End(w) \/ \E i \in Items : Begin(w, i)
    \/ Reset \/ ShutDown

Spec == Init /\ [][Next]_vars
=============================================================================
