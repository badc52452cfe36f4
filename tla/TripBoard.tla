----------------------------- MODULE TripBoard -----------------------------
(***************************************************************************)
(* What the status of the stations promises a passenger: it may know less  *)
(* than is true of the bus, and it may still say of a station what was     *)
(* said before, but whatever it says anew is true at that moment.          *)
(***************************************************************************)
EXTENDS Naturals

CONSTANT Destination   \* the last station

VARIABLES
    leg, pos,   \* the bus: "ended", "at" a station, "leaving" or "toward" it
    shown       \* what is said of every station

Stops == 0 .. Destination

Words == {"none", "inbound", "in", "outbound", "passed"}

(* What is true of station s while the bus is on leg l about station p.    *)
True(l, p, s) ==
    CASE l = "ended" \/ s < p                 -> "passed"
      [] l = "at" /\ s = p                    -> "in"
      [] l = "toward" /\ s = p                -> "inbound"
      [] l = "leaving" /\ s = p               -> "outbound"
      [] l = "leaving" /\ s = p + 1           -> "inbound"
      [] OTHER                                -> "none"

BoardInit ==
    /\ leg = "ended" /\ pos = 0
    /\ shown = [s \in Stops |-> "none"]

(* A report is heard: the bus's own station is shown as it is, and nothing *)
(* untrue is said of another one.                                          *)
Heard ==
    /\ shown' \in [Stops -> Words]
    /\ shown'[pos'] = True(leg', pos', pos')
    /\ \A s \in Stops : shown'[s] \in {shown[s], True(leg', pos', s)}

(* The bus moves unheard.                                                  *)
Missed == shown' = shown

(* A trip begins or ends: what was said may be taken back.                 *)
TakenBack ==
    /\ shown' \in [Stops -> Words]
    /\ leg' = "ended" \/ (leg' = "at" /\ pos' = 0)
    /\ \A s \in Stops : shown'[s] \in {shown[s], "none"}

(* The display starts again from nothing.                                  *)
Dark == shown' = [s \in Stops |-> "none"]

Board == BoardInit /\ [][Heard \/ Missed \/ TakenBack \/ Dark]_<<leg, pos, shown>>
=============================================================================
