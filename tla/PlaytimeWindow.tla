----------------------------- MODULE PlaytimeWindow -----------------------------
(***************************************************************************)
(* The 30-day playtime of one stakeholder (sync/handlers/analytics.ts): a  *)
(* roster pass stores lifetime playtime and last seen, and queues a detail *)
(* fetch only for whom two deductions cannot answer; the fetch stores the  *)
(* window's figure beside the lifetime the roster last stored.             *)
(*                                                                         *)
(* Players do not interact, so one is enough.  Time counts days, and a day *)
(* on which the player was on is one unit of playtime.  The analytics lane *)
(* runs one job at a time.                                                 *)
(***************************************************************************)
EXTENDS Integers, FiniteSets

CONSTANTS Window,       (* days: 30 in the code                             *)
          LastDay,
          PlaytimeCuts, (* how many fetches fail for good                   *)
          NoFigure

Days == 0..LastDay

ASSUME PlaytimeAssumption ==
  /\ Window \in Nat \ {0} /\ {LastDay, PlaytimeCuts} \subseteq Nat /\ NoFigure \notin Int

VARIABLES today,
          played,      (* the days the player was on, upstream              *)
          lifetime, lastSeen,   (* player_analytics, or NoFigure            *)
          figure, lifetimeAtFetch,  (* player_activity_window, or NoFigure  *)
          detailJob,   (* "none", "pending" or "running"                    *)
          fetched,     (* the figure a running fetch came back with         *)
          playtimeCuts

rosterRow == <<lifetime, lastSeen>>
windowRow == <<figure, lifetimeAtFetch>>
playtimeVars == <<today, played, rosterRow, windowRow, detailJob, fetched, playtimeCuts>>

InWindow(day) == day > today - Window
TrueFigure == Cardinality({d \in played : InWindow(d)})
LastPlayed == CHOOSE d \in played : \A e \in played : e <= d

PlaytimeInit ==
  /\ today = 0 /\ played = {0}
  /\ lifetime = NoFigure /\ lastSeen = NoFigure /\ figure = NoFigure /\ lifetimeAtFetch = NoFigure
  /\ detailJob = "none" /\ fetched = 0 /\ playtimeCuts = PlaytimeCuts

Play ==
  /\ today \notin played /\ played' = played \cup {today}
  /\ UNCHANGED <<today, rosterRow, windowRow, detailJob, fetched, playtimeCuts>>

NextDay ==
  /\ today < LastDay /\ today' = today + 1
  /\ UNCHANGED <<played, rosterRow, windowRow, detailJob, fetched, playtimeCuts>>

(* enqueueStaleDetailJobs.                                                  *)
NeedsFetch(seen, total) ==
  /\ seen >= today - Window                              \* deduction 1
  /\ figure = NoFigure \/ lifetimeAtFetch # total        \* deduction 2

(* handleAnalyticsPlayersTable.                                             *)
RosterPass ==
  /\ detailJob # "running"
  /\ lifetime' = Cardinality(played) /\ lastSeen' = LastPlayed
  /\ detailJob' = IF NeedsFetch(LastPlayed, Cardinality(played)) THEN "pending" ELSE detailJob
  /\ UNCHANGED <<today, played, windowRow, fetched, playtimeCuts>>

(* handleAnalyticsPlayerDetail: the request, ...                            *)
FetchFigure ==
  /\ detailJob = "pending"
  /\ detailJob' = "running" /\ fetched' = TrueFigure
  /\ UNCHANGED <<today, played, rosterRow, windowRow, playtimeCuts>>

(* Mutant: the lifetime is asked of upstream when the figure is stored.     *)
StoreFigureLive ==
  /\ detailJob = "running"
  /\ figure' = fetched /\ lifetimeAtFetch' = Cardinality(played)
  /\ detailJob' = "none" /\ fetched' = 0
  /\ UNCHANGED <<today, played, rosterRow, playtimeCuts>>

(* ... and its figure, beside the lifetime the roster has stored.           *)
StoreFigure ==
  /\ detailJob = "running"
  /\ figure' = fetched /\ lifetimeAtFetch' = lifetime
  /\ detailJob' = "none" /\ fetched' = 0
  /\ UNCHANGED <<today, played, rosterRow, playtimeCuts>>

(* A fetch that fails is tried again, or buried.                            *)
FailFetch ==
  /\ detailJob = "running" /\ playtimeCuts > 0
  /\ playtimeCuts' = playtimeCuts - 1
  /\ detailJob' \in {"pending", "none"} /\ fetched' = 0
  /\ UNCHANGED <<today, played, rosterRow, windowRow>>

PlaytimeNext == Play \/ NextDay \/ RosterPass \/ FetchFigure \/ StoreFigure \/ FailFetch

PlaytimeSpec == PlaytimeInit /\ [][PlaytimeNext]_playtimeVars

-----------------------------------------------------------------------------
(* Figures are stored in pairs, and days are days.                          *)
PlaytimeTypeOK ==
  /\ today \in Days /\ played \subseteq Days
  /\ lifetime \in Nat \cup {NoFigure} /\ lastSeen \in Nat \cup {NoFigure}
  /\ figure \in Nat \cup {NoFigure} /\ lifetimeAtFetch \in Nat \cup {NoFigure}
  /\ figure = NoFigure <=> lifetimeAtFetch = NoFigure
  /\ detailJob \in {"none", "pending", "running"} /\ fetched \in Nat /\ playtimeCuts \in Nat

(* playtime_30d_ms and its source, in v_player_flags.                       *)
InferredZero == lastSeen # NoFigure /\ lastSeen < today - Window
Reported == IF InferredZero THEN 0 ELSE figure

(* A player is never reported to have played less than they did - which is  *)
(* what flags their plots - unless the roster has yet to show the play; and *)
(* then the roster pass will have it fetched.                               *)
NeverUnderstated ==
  Reported # NoFigure /\ Reported < TrueFigure =>
    \/ lifetime # Cardinality(played)
    \/ detailJob # "none" \/ NeedsFetch(lastSeen, lifetime)
=============================================================================
