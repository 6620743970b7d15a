---------------------------- MODULE AtomicUpdate ----------------------------
(***************************************************************************)
(* What an update promises of the installed application, without packages, *)
(* files or scripts: there is one version of it that works, an update puts *)
(* the new one in its place at once or leaves it as it was, and only that  *)
(* version ever runs.  One thing alone can lose the version: an update     *)
(* that takes what it put there for working when it is not.  Power can     *)
(* fail at any time.                                                       *)
(***************************************************************************)

VARIABLES
    version,    \* the version a user has: the one that is run, or can be got back
    startable,  \* it is where it is started from
    running,    \* the version that runs, or "none"
    phase       \* of an update: "idle", "trying", "done", "botched"

vars == <<version, startable, running, phase>>

Init ==
    /\ version = "old"
    /\ startable = TRUE
    /\ running = "old"
    /\ phase = "idle"

\* A user or an update starts the application, a user or an update ends it.
Start ==
    /\ phase = "idle"
    /\ startable
    /\ running = "none"
    /\ running' = version
    /\ UNCHANGED <<version, startable, phase>>

Quit ==
    /\ running # "none"
    /\ running' = "none"
    /\ UNCHANGED <<version, startable, phase>>

\* The application has an update begun.
Begin ==
    /\ phase = "idle"
    /\ startable
    /\ running # "none"
    /\ phase' = "trying"
    /\ UNCHANGED <<version, startable, running>>

\* The update takes place, and the new version runs, or can be started.
Commit ==
    /\ phase = "trying"
    /\ running = "none"
    /\ phase' = "done"
    /\ version' = "new"
    /\ running' \in {"none", "new"}
    /\ UNCHANGED startable

\* Or it does not: the version there was goes on, is started again, or can be.
Abort ==
    /\ phase = "trying"
    /\ phase' = "idle"
    /\ running' \in {running, version}
    /\ UNCHANGED <<version, startable>>

Settle ==
    /\ phase = "done"
    /\ phase' = "idle"
    /\ UNCHANGED <<version, startable, running>>

\* Or it is believed to have taken place and has not: the version there was goes, and
\* nothing can be started in its place.
Botch ==
    /\ phase = "trying"
    /\ running = "none"
    /\ phase' = "botched"
    /\ UNCHANGED <<version, startable, running>>

Lose ==
    /\ phase = "botched"
    /\ version' = "none"
    /\ UNCHANGED <<startable, running, phase>>

SettleBotched ==
    /\ phase = "botched"
    /\ phase' = "idle"
    /\ startable' = FALSE
    /\ UNCHANGED <<version, running>>

\* An update that was tried is over, one way or the other; the version may be left where
\* only a hand can put it back in place.
Interrupted ==
    IF phase \in {"trying", "botched"}
    THEN /\ version' \in (IF phase = "trying" THEN {version, "new"} ELSE {version})
         /\ startable' \in BOOLEAN
    ELSE UNCHANGED <<version, startable>>

\* Undoing the update fails, or the power does.
Strand ==
    /\ phase = "trying"
    /\ running = "none"
    /\ phase' = "idle"
    /\ Interrupted
    /\ UNCHANGED running

PowerLoss ==
    /\ running' = "none"
    /\ phase' = "idle"
    /\ Interrupted

Next ==
    \/ Start \/ Quit \/ Begin \/ Commit \/ Abort \/ Settle \/ Botch \/ Lose
    \/ SettleBotched \/ Strand \/ PowerLoss

Spec == Init /\ [][Next]_vars
=============================================================================
