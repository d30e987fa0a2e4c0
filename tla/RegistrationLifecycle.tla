------------------------ MODULE RegistrationLifecycle ------------------------
(***************************************************************************)
(* What a Registry promises about one registration (spec section 4.2):    *)
(* Unregistered -> Registering -> Active <-> Degraded -> Stopping ->      *)
(* Unregistered, with the record published exactly in Active and, as a    *)
(* leftover of a teardown whose store calls failed or of a process that   *)
(* ended, until its lease runs out or its check is reaped.  A record is   *)
(* published only by a registration that completes (Registering ->       *)
(* Active) or recovers (Degraded -> Active); nothing publishes it once    *)
(* the registration is stopping.                                          *)
(***************************************************************************)

VARIABLES phase, published

Phases == {"Unregistered", "Registering", "Active", "Degraded", "Stopping"}

TypeOK == phase \in Phases /\ published \in BOOLEAN

Init == phase = "Unregistered" /\ published = FALSE

\* Register passed validation and is talking to the store.
BeginRegister ==
    /\ phase = "Unregistered" /\ ~published
    /\ phase' = "Registering" /\ UNCHANGED published

\* Register returned an error; nothing was published.
RegisterFails ==
    /\ phase = "Registering"
    /\ phase' = "Unregistered" /\ UNCHANGED published

\* Register returned nil with the record written.
RegisterDone ==
    /\ phase = "Registering"
    /\ phase' = "Active" /\ published' = TRUE

\* The lease was lost: the record is gone while the registration lives.
Lose ==
    /\ phase = "Active"
    /\ phase' = "Degraded" /\ published' = FALSE

\* The keep-alive task registered again.
Recover ==
    /\ phase = "Degraded"
    /\ phase' = "Active" /\ published' = TRUE

\* Unregister's stop request was taken.
Stop ==
    /\ phase \in {"Active", "Degraded"}
    /\ phase' = "Stopping" /\ UNCHANGED published

\* Teardown ended: the record is deleted, or left behind by failed calls.
Teardown ==
    /\ phase = "Stopping"
    /\ phase' = "Unregistered"
    /\ published' \in {FALSE, published}

\* The process ends by Fatal or panic (section 7: setup failures are fatal
\* at the process level): the registration is over, and a record it
\* published stays until it is withdrawn.
Abort ==
    /\ phase \in {"Registering", "Active", "Degraded"}
    /\ phase' = "Unregistered" /\ UNCHANGED published

\* A stopping or left-over record disappears (deleted, revoked, expired).
Withdraw ==
    /\ phase \in {"Stopping", "Unregistered"} /\ published
    /\ published' = FALSE /\ UNCHANGED phase

Next ==
    \/ BeginRegister \/ RegisterFails \/ RegisterDone
    \/ Lose \/ Recover \/ Stop \/ Teardown \/ Abort \/ Withdraw

Spec == Init /\ [][Next]_<<phase, published>>

=============================================================================
