------------------------------- MODULE MCSweeps -------------------------------
(* The treasury sweeps, the playtime of one stakeholder and the upserts of  *)
(* players share no table one of them decides by: a behaviour is about one  *)
(* of them and leaves the others at their start.                            *)
EXTENDS TreasurySweep, PlaytimeWindow, PlayerUpserts

VARIABLE focus

vars == <<treasuryVars, playtimeVars, upsertVars, focus>>

Init == /\ TreasuryInit /\ PlaytimeInit /\ UpsertInit
        /\ focus \in {"treasury", "playtime", "upserts"}

Next ==
  \/ focus = "treasury" /\ TreasuryNext /\ UNCHANGED <<playtimeVars, upsertVars, focus>>
  \/ focus = "playtime" /\ PlaytimeNext /\ UNCHANGED <<treasuryVars, upsertVars, focus>>
  \/ focus = "upserts"  /\ UpsertNext   /\ UNCHANGED <<treasuryVars, playtimeVars, focus>>

Spec == Init /\ [][Next]_vars /\ (focus = "treasury" => TreasuryFairness)

-----------------------------------------------------------------------------
(* The types of all of them.                                                *)
TypeOK == TreasuryTypeOK /\ PlaytimeTypeOK /\ UpsertTypeOK

(* Under the fairness of the lanes, the sweeps price everyone in the end:   *)
(* from some moment on every dormant player and every stakeholder has a     *)
(* balance, is known to have no account, or lost the balance that was to    *)
(* follow the account (handlers/treasury.ts).                               *)
BacklogDrains == focus = "treasury" => PricingDrains
=============================================================================
