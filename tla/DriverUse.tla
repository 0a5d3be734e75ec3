------------------------------ MODULE DriverUse ------------------------------
(* The drivers' loads and removals with all the users that are modelled: those *)
(* of the sensors, of the polled key and of the input key.                     *)
EXTENDS SensorUse, PolledKey, InputKey

\* The drivers' and the users' variables keep their types, an open file of the polled
\* key has the GPIO, and an edge waits only for an interrupt that is requested.
UsersTypeOK == TypeOK /\ UseTypeOK /\ KeyTypeOK /\ InputTypeOK

InitAll == InitUse /\ InitKey /\ InitInput

NextAll ==
    \/ LifeUse /\ KeyFollows /\ InputFollows
    \/ UseStep /\ UNCHANGED <<keyvars, inputvars>>
    \/ KeyStep /\ UNCHANGED <<now, request, inputvars>>
    \/ MoveKey /\ UNCHANGED <<now, request, keyvars>>

SpecAll == InitAll /\ [][NextAll]_<<usevars, keyvars, inputvars>>
=============================================================================
