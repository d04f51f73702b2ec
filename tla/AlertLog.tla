------------------------------ MODULE AlertLog ------------------------------
(***************************************************************************)
(* What alert delivery promises, whatever crashes and reconnections lie in *)
(* between: an alert that was raised ends up in the database, once, and    *)
(* nothing else does.  Alerts are told apart by their dedupKey.            *)
(***************************************************************************)
CONSTANT Keys

VARIABLES
    raised,   \* keys of the alerts the stream service has raised
    stored    \* keys that have a row in the database

logVars == <<raised, stored>>

LogTypeOK == raised \subseteq Keys /\ stored \subseteq Keys

LogInit == raised = {} /\ stored = {}

Raise(k) ==
    /\ raised' = raised \cup {k}
    /\ UNCHANGED stored

Store(k) ==
    /\ k \in raised
    /\ stored' = stored \cup {k}
    /\ UNCHANGED raised

LogNext == \E k \in Keys : Raise(k) \/ Store(k)

LogSafety == LogInit /\ [][LogNext]_logVars

LogSpec == LogSafety /\ \A k \in Keys : WF_logVars(Store(k))

=============================================================================
