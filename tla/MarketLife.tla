------------------------------ MODULE MarketLife ------------------------------
(*****************************************************************************)
(* What the services promise about one market: its row is shown to move      *)
(* through PENDING, OPEN, LOCKED and RESOLVED one stage at a time, each only *)
(* after it has become real on chain; nothing closes before the deadline;    *)
(* and a verdict is given once, with the last stage, and then stays.         *)
(*****************************************************************************)
EXTENDS Naturals

CONSTANT Verdicts

None == "NONE"

VARIABLES
    real,       \* stages the contract has reached: none, open, locked, settled
    shown,      \* stages the row shows
    overdue,    \* has the deadline passed on chain?
    verdict     \* the outcome the row shows

Init == real = 0 /\ shown = 0 /\ overdue = FALSE /\ verdict = None

Passes ==
    /\ overdue' = TRUE
    /\ UNCHANGED <<real, shown, verdict>>

Happens ==
    /\ real < 3
    /\ real >= 1 => overdue
    /\ real' = real + 1
    /\ UNCHANGED <<shown, overdue, verdict>>

Shows ==
    /\ shown < real
    /\ shown' = shown + 1
    /\ verdict' \in IF shown' = 3 THEN Verdicts ELSE {None}
    /\ UNCHANGED <<real, overdue>>

Spec == Init /\ [][Passes \/ Happens \/ Shows]_<<real, shown, overdue, verdict>>

=============================================================================
