----------------------------- MODULE OrderlyStop -----------------------------
(***************************************************************************)
(* What the application promises about its background tasks: a task that   *)
(* has ended stays ended, only a fragile one ends before the stop is asked *)
(* for, and the application is over only when no worker is left that could *)
(* use the database engine.  The engine is disposed of then, unless a task *)
(* had crashed.                                                            *)
(***************************************************************************)
CONSTANTS
    Workers,    \* tasks that use the engine
    Fragile,    \* workers that an exception ends
    Listeners   \* tasks that do not use the engine

VARIABLES
    running,    \* tasks that have not ended
    crashed,    \* tasks an exception has ended
    asked,      \* has the stop been asked for?
    over,       \* has the application stopped?
    disposed    \* has the engine been disposed of?

vars == <<running, crashed, asked, over, disposed>>

Init ==
    /\ running = Workers \cup Listeners /\ crashed = {}
    /\ asked = FALSE /\ over = FALSE /\ disposed = FALSE

Crash(t) ==
    /\ ~over /\ t \in running \cap Fragile
    /\ running' = running \ {t} /\ crashed' = crashed \cup {t}
    /\ UNCHANGED <<asked, over, disposed>>

\* A worker may obey at once.
Ask ==
    /\ ~asked
    /\ asked' = TRUE
    /\ \E t \in Workers : running' \in {running, running \ {t}}
    /\ UNCHANGED <<crashed, over, disposed>>

Leave(t) ==
    /\ asked /\ ~over /\ t \in running
    /\ running' = running \ {t}
    /\ UNCHANGED <<crashed, asked, over, disposed>>

Finish ==
    /\ asked /\ ~over /\ running \cap Workers = {}
    /\ over' = TRUE
    /\ disposed' = (crashed = {})
    /\ UNCHANGED <<running, crashed, asked>>

Next == Ask \/ Finish \/ \E t \in Workers \cup Listeners : Crash(t) \/ Leave(t)

Spec == Init /\ [][Next]_vars
=============================================================================
