-------------------------- MODULE EndpointDetector --------------------------
(***************************************************************************)
(* What the call session may rely on when it asks a detector whether the   *)
(* caller has finished (backend/application/ports/endpoint_detector.py):   *)
(* a turn is committed only on a frame without speech, after the caller    *)
(* has spoken since the last turn and paused for the detector's shortest   *)
(* wait, and at the latest on the first frame past its longest.            *)
(***************************************************************************)
EXTENDS Naturals

CONSTANT Horizon   \* bound: pauses are not told apart from here on

VARIABLES
    shortest, longest, \* the detector's waits
    spoke,             \* the caller has spoken since the last commit
    pause,             \* time since the caller's last speech
    listening          \* no turn is running

portVars == <<shortest, longest, spoke, pause, listening>>

Longer(d) == IF pause + d > Horizon THEN Horizon ELSE pause + d

PortInit ==
    /\ shortest \in 1..Horizon /\ longest \in shortest..Horizon
    /\ spoke = FALSE /\ pause = 0 /\ listening \in BOOLEAN

Speech ==
    /\ spoke' = TRUE /\ pause' = 0
    /\ UNCHANGED <<shortest, longest, listening>>

(* A quiet frame, d after the one before it, that starts no turn. *)
Quiet(d) ==
    /\ pause' = IF spoke THEN Longer(d) ELSE pause
    /\ listening /\ spoke => pause' < longest
    /\ UNCHANGED <<shortest, longest, spoke, listening>>

Commit(d) ==
    /\ listening /\ spoke
    /\ Longer(d) >= shortest
    /\ spoke' = FALSE /\ pause' = 0 /\ listening' = FALSE
    /\ UNCHANGED <<shortest, longest>>

TurnOver ==
    /\ ~listening /\ listening' = TRUE
    /\ UNCHANGED <<shortest, longest, spoke, pause>>

PortNext == Speech \/ TurnOver \/ \E d \in 1..Horizon : Quiet(d) \/ Commit(d)

PortSpec == PortInit /\ [][PortNext]_portVars
=============================================================================
