------------------------------- MODULE PlotMerge -------------------------------
(***************************************************************************)
(* Which plots are merged (plots/merge.ts) and the job that rebuilds the   *)
(* groups (sync/handlers/merges.ts).  The job reads every report that      *)
(* names several plots, deletes all groups and inserts one group and then  *)
(* its members per report, with no transaction, while the crawls and the   *)
(* operators change the links, the owners and the boundaries it has read.  *)
(*                                                                         *)
(* Plots and reports are numbered in the order of their ids.  A boundary   *)
(* is its bounding box.                                                    *)
(***************************************************************************)
EXTENDS Integers, FiniteSets, FiniteSetsExt

CONSTANTS SubPlots, Filings,     (* plots and reports: sets of numbers      *)
          PlotOwners, NoOwner,
          Footprints, NoBounds,  (* the boxes a plot may have               *)
          FirstFootprint, FirstFilings,
          MergeEvents            (* changes to the data, and jobs cut       *)

ADJACENCY_BLOCKS == 2

Box == [x0 : Int, x1 : Int, z0 : Int, z1 : Int]

ASSUME MergeAssumption ==
  /\ SubPlots \subseteq Nat /\ Filings \subseteq Nat
  /\ IsFiniteSet(SubPlots) /\ IsFiniteSet(Filings)
  /\ NoOwner \notin PlotOwners /\ NoBounds \notin Footprints
  /\ Footprints \subseteq Box
  /\ FirstFootprint \in [SubPlots -> Footprints \cup {NoBounds}]
  /\ FirstFilings \in [Filings -> SUBSET SubPlots] /\ MergeEvents \in Nat

VARIABLES naming,       (* eviction_report_regions: [Filings -> SUBSET]     *)
          holder,       (* titleholder, else tenant: [SubPlots -> owner]    *)
          footprint,    (* regions.dimensions: [SubPlots -> box]            *)
          groups,       (* plot_merge_groups: the rows by report            *)
          members,      (* plot_merge_members: <<report, plot>>             *)
          rebuild,      (* the running job                                  *)
          mergeEvents,
          untouched,    (* history: the data is as the last job read it,    *)
                        (* and that job finished                            *)
          formed        (* history: the candidates each group came from     *)

mergeData == <<naming, holder, footprint>>
mergeTables == <<groups, members>>
mergeVars == <<mergeData, mergeTables, rebuild, mergeEvents, untouched, formed>>

-----------------------------------------------------------------------------
(* MergeCandidate and MergeResult.                                          *)
Candidate(plot) == [plot |-> plot, owner |-> holder[plot], bounds |-> footprint[plot]]

Rejection == {"single-plot", "different-owners", "unknown-owner", "missing-dimensions",
              "not-contiguous"}

Result(status, reason, owner) == [status |-> status, reason |-> reason, owner |-> owner]
Rejected(reason, owner) == Result("rejected", reason, owner)

(* The blocks between two boxes on the axis that parts them most.           *)
Gap(a, b) ==
  Max({0, Max({a.x0, b.x0}) - Min({a.x1, b.x1}), Max({a.z0, b.z0}) - Min({a.z1, b.z1})})

AreAdjacent(c, d) ==
  c.bounds # NoBounds /\ d.bounds # NoBounds /\ Gap(c.bounds, d.bounds) <= ADJACENCY_BLOCKS

First(cs) == CHOOSE c \in cs : \A d \in cs : c.plot <= d.plot

(* What a walk over adjacent plots reaches from the first of them.          *)
Reached(cs) ==
  LET within[n \in Nat] == IF n = 0 THEN {First(cs)}
                           ELSE {d \in cs : \E c \in within[n - 1] : c = d \/ AreAdjacent(c, d)}
  IN within[Cardinality(cs)]

IsContiguous(cs) == Cardinality(cs) >= 2 /\ Reached(cs) = cs

(* The first rejection that applies; the owner is kept once it is one.      *)
EvaluateMerge(cs) ==
  LET owners == {c.owner : c \in cs}
      owner  == First(cs).owner
  IN IF Cardinality(cs) < 2                    THEN Rejected("single-plot", NoOwner)
     ELSE IF NoOwner \in owners                THEN Rejected("unknown-owner", NoOwner)
     ELSE IF Cardinality(owners) > 1           THEN Rejected("different-owners", NoOwner)
     ELSE IF \E c \in cs : c.bounds = NoBounds THEN Rejected("missing-dimensions", owner)
     ELSE IF ~IsContiguous(cs)                 THEN Rejected("not-contiguous", owner)
     ELSE Result("merged", "none", owner)

-----------------------------------------------------------------------------
IdleRebuild == [phase |-> "idle", read |-> [f \in Filings |-> {}], left |-> {}]

MergeInit ==
  /\ naming = FirstFilings /\ footprint = FirstFootprint
  /\ holder \in [SubPlots -> PlotOwners] /\ \A p, q \in SubPlots : holder[p] = holder[q]
  /\ groups = <<>> /\ members = {}
  /\ rebuild = IdleRebuild /\ mergeEvents = MergeEvents
  /\ untouched = FALSE /\ formed = [f \in Filings |-> {}]

ChangeData == /\ mergeEvents > 0 /\ mergeEvents' = mergeEvents - 1
              /\ untouched' = FALSE
              /\ UNCHANGED <<mergeTables, rebuild, formed>>

(* persistRegionDetail, as far as merging reads it.                         *)
ChangeHolder(p) ==
  /\ ChangeData
  /\ \E u \in (PlotOwners \cup {NoOwner}) \ {holder[p]} : holder' = [holder EXCEPT ![p] = u]
  /\ UNCHANGED <<naming, footprint>>

Remeasure(p) ==
  /\ ChangeData
  /\ \E b \in (Footprints \cup {NoBounds}) \ {footprint[p]} :
       footprint' = [footprint EXCEPT ![p] = b]
  /\ UNCHANGED <<naming, holder>>

(* The merge group a page shows beside a plot.                              *)
Siblings(p) == {q \in SubPlots \ {p} : \E f \in DOMAIN groups :
                  groups[f].status = "merged" /\ {<<f, p>>, <<f, q>>} \subseteq members}

(* linkEvictionReport: with the plot, whatever it is merged with.           *)
LinkMerged(f, p) ==
  /\ ChangeData
  /\ naming' = [naming EXCEPT ![f] = @ \cup {p} \cup Siblings(p)]
  /\ naming' # naming
  /\ UNCHANGED <<holder, footprint>>

(* A crawl or an operator takes a link away.                                *)
Unname(f, p) ==
  /\ ChangeData
  /\ p \in naming[f] /\ naming' = [naming EXCEPT ![f] = @ \ {p}]
  /\ UNCHANGED <<holder, footprint>>

-----------------------------------------------------------------------------
(* handleRebuildMerges: the query, ...                                      *)
ReadCandidates ==
  /\ rebuild.phase = "idle"
  /\ LET multi == {f \in Filings : Cardinality(naming[f]) > 1}
     IN rebuild' = [phase |-> "read", left |-> multi,
                    read |-> [f \in Filings |->
                                IF f \in multi THEN {Candidate(p) : p \in naming[f]} ELSE {}]]
  /\ untouched' = TRUE
  /\ UNCHANGED <<mergeData, mergeTables, mergeEvents, formed>>

(* Mutant: only the groups about to be written again are deleted.           *)
DeleteReadGroups ==
  /\ rebuild.phase = "read"
  /\ groups' = [f \in DOMAIN groups \ rebuild.left |-> groups[f]]
  /\ members' = {m \in members : m[1] \notin rebuild.left}
  /\ formed' = [f \in Filings |-> IF f \in DOMAIN groups' THEN formed[f] ELSE {}]
  /\ rebuild' = [rebuild EXCEPT !.phase = "group"]
  /\ UNCHANGED <<mergeData, mergeEvents, untouched>>

(* ... the DELETE, which cascades to the members, ...                       *)
DeleteGroups ==
  /\ rebuild.phase = "read"
  /\ groups' = <<>> /\ members' = {}
  /\ formed' = [f \in Filings |-> IF f \in DOMAIN groups' THEN formed[f] ELSE {}]
  /\ rebuild' = [rebuild EXCEPT !.phase = "group"]
  /\ UNCHANGED <<mergeData, mergeEvents, untouched>>

Turn == CHOOSE f \in rebuild.left : \A g \in rebuild.left : f <= g

(* ... and per report, in order, its group and then its members.            *)
InsertGroup ==
  /\ rebuild.phase = "group" /\ rebuild.left # {}
  /\ groups' = [f \in DOMAIN groups \cup {Turn} |->
                  IF f = Turn THEN EvaluateMerge(rebuild.read[f]) ELSE groups[f]]
  /\ formed' = [formed EXCEPT ![Turn] = rebuild.read[Turn]]
  /\ rebuild' = [rebuild EXCEPT !.phase = "members"]
  /\ UNCHANGED <<mergeData, members, mergeEvents, untouched>>

InsertMembers ==
  /\ rebuild.phase = "members"
  /\ members' = members \cup {<<Turn, c.plot>> : c \in rebuild.read[Turn]}
  /\ rebuild' = [rebuild EXCEPT !.phase = "group", !.left = @ \ {Turn}]
  /\ UNCHANGED <<mergeData, groups, mergeEvents, untouched, formed>>

FinishRebuild ==
  /\ rebuild.phase = "group" /\ rebuild.left = {}
  /\ rebuild' = IdleRebuild
  /\ UNCHANGED <<mergeData, mergeTables, mergeEvents, untouched, formed>>

(* A crash or an error leaves the tables as they are; the job comes again.  *)
CutRebuild ==
  /\ rebuild.phase # "idle" /\ mergeEvents > 0 /\ mergeEvents' = mergeEvents - 1
  /\ rebuild' = IdleRebuild /\ untouched' = FALSE
  /\ UNCHANGED <<mergeData, mergeTables, formed>>

MergeNext ==
  \/ \E p \in SubPlots : ChangeHolder(p) \/ Remeasure(p)
  \/ \E f \in Filings, p \in SubPlots : LinkMerged(f, p) \/ Unname(f, p)
  \/ ReadCandidates \/ DeleteGroups \/ InsertGroup \/ InsertMembers \/ FinishRebuild
  \/ CutRebuild

MergeSpec == MergeInit /\ [][MergeNext]_mergeVars

-----------------------------------------------------------------------------
(* A member row has its group, and the job inserts into no group twice.     *)
MergeTypeOK ==
  /\ naming \in [Filings -> SUBSET SubPlots]
  /\ holder \in [SubPlots -> PlotOwners \cup {NoOwner}]
  /\ footprint \in [SubPlots -> Footprints \cup {NoBounds}]
  /\ DOMAIN groups \subseteq Filings /\ members \subseteq (DOMAIN groups) \X SubPlots
  /\ \A f \in DOMAIN groups : groups[f].reason \in Rejection \cup {"none"}
  /\ rebuild.left \subseteq Filings
  /\ rebuild.phase = "group" => rebuild.left \cap DOMAIN groups = {}

(* Plots that are one property: of one known owner, and no way to part them *)
(* in two has all of one part more than two blocks from all of the other.   *)
Genuine(cs) ==
  /\ Cardinality(cs) >= 2
  /\ \E u \in PlotOwners : \A c \in cs : c.owner = u /\ c.bounds # NoBounds
  /\ \A part \in (SUBSET cs) \ {{}, cs} : \E c \in part, d \in cs \ part : AreAdjacent(c, d)

MembersOf(f) == {m[2] : m \in {n \in members : n[1] = f}}

(* Whatever the job, its crashes and the edits in between: plots shown as   *)
(* merged are all those one report named at one moment, and were then one   *)
(* property; and when a job has finished and nothing changed since it read, *)
(* the pages show each plot exactly with those it is one property with.     *)
MergesAreGenuine ==
  /\ \A f \in DOMAIN groups :
       groups[f].status = "merged" /\ MembersOf(f) # {} =>
         Genuine(formed[f]) /\ MembersOf(f) = {c.plot : c \in formed[f]}
  /\ rebuild.phase = "idle" /\ untouched =>
       \A p \in SubPlots :
         Siblings(p) = {q \in SubPlots \ {p} :
                          \E f \in Filings : /\ {p, q} \subseteq naming[f]
                                             /\ Genuine({Candidate(r) : r \in naming[f]})}
=============================================================================
