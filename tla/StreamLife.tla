------------------------------ MODULE StreamLife ------------------------------
(***************************************************************************)
(* What a WebSocket stream task promises the engine: its connection never  *)
(* changes without a report saying so, and it makes no second report       *)
(* before the first was delivered or given up.  The engine's gate rests on *)
(* this and on nothing else that a stream does: DispatchGate is written    *)
(* with these steps.  That a stream task keeps to them, with everything it *)
(* does between two reports, is shown of StreamSession.                    *)
(***************************************************************************)
VARIABLES
    conn,   \* "down", "up" (every subscription acknowledged) or "dead"
    said    \* the report being delivered, or "none"

lifeVars == <<conn, said>>

LifeInit == conn = "down" /\ said = "none"

(* The report is delivered, or dropped. *)
Heard == said # "none" /\ said' = "none" /\ UNCHANGED conn

(* Something is said that does not change the connection. *)
Says ==
    /\ conn = "down" /\ said = "none"
    /\ said' \in {"trying", "failed"}
    /\ UNCHANGED conn

Rises == conn = "down" /\ said = "none" /\ conn' = "up" /\ said' = "ack"

Falls == conn = "up" /\ said = "none" /\ conn' = "down" /\ said' = "lost"

(* The task may end at any time, even while it is reporting. *)
Ends == conn # "dead" /\ conn' = "dead" /\ said' = "dead"

LifeNext == Heard \/ Says \/ Rises \/ Falls \/ Ends

Spec == LifeInit /\ [][LifeNext]_lifeVars
===============================================================================
