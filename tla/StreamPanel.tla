----------------------------- MODULE StreamPanel -----------------------------
(***************************************************************************)
(* What a market connection promises its client, without tasks that are    *)
(* set up, cancelled and cleaned up: each category sends one stream at     *)
(* most, a new one in the place of the old.  A category whose end was      *)
(* announced is silent until it is asked for again, a change of symbol     *)
(* moves every stream of a symbol at once, and no stream begins before the *)
(* connection was opened or after it was shut.                             *)
(***************************************************************************)
CONSTANTS
    Categories,
    Moving,     \* those whose stream has a symbol
    Streams,
    Symbols

VARIABLES
    door,       \* "waiting", "open" or "shut"
    shown,      \* per category: the stream that sends, with its symbol, or none
    ended       \* categories whose end was announced

vars == <<door, shown, ended>>

Init == door = "waiting" /\ shown = [k \in Categories |-> {}] /\ ended = {}

\* No category sends stream t.
Fresh(t) == \A k \in Categories, s \in Symbols : <<t, s>> \notin shown[k]

Open ==
    /\ door = "waiting" /\ door' = "open"
    /\ UNCHANGED <<shown, ended>>

Shut ==
    /\ door # "shut" /\ door' = "shut"
    /\ UNCHANGED <<shown, ended>>

Show(k, t, s) ==
    /\ door = "open"
    /\ ended' = ended \ {k}
    /\ shown' = [shown EXCEPT ![k] = {<<t, s>>}]
    /\ Fresh(t)
    /\ UNCHANGED door

End(k) ==
    /\ door = "open"
    /\ ended' = ended \cup {k}
    /\ shown' = [shown EXCEPT ![k] = {}]
    /\ UNCHANGED door

\* Whatever sends a symbol sends s from now on, in new streams.  A stream that
\* broke comes back, one whose end was announced does not.
Switch(new, s) ==
    LET ks == DOMAIN new
    IN  /\ door = "open"
        /\ \A k \in Moving \ ks : shown[k] = {}
        /\ ks \subseteq Moving \ ended
        /\ shown' = [k \in Categories |-> IF k \in ks THEN {<<new[k], s>>} ELSE shown[k]]
        /\ \A j, k \in ks : Fresh(new[k]) /\ (new[j] = new[k] => j = k)
        /\ UNCHANGED <<door, ended>>

\* A stream breaks, whatever the client asked for.
Break(k) ==
    /\ shown' = [shown EXCEPT ![k] = {}]
    /\ UNCHANGED <<door, ended>>

Next ==
    \/ Open \/ Shut
    \/ \E k \in Categories :
           End(k) \/ Break(k) \/ \E t \in Streams, s \in Symbols : Show(k, t, s)
    \/ \E ks \in SUBSET Moving, s \in Symbols : \E new \in [ks -> Streams] : Switch(new, s)

Spec == Init /\ [][Next]_vars
=============================================================================
