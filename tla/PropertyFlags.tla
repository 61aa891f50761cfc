----------------------------- MODULE PropertyFlags -----------------------------
(***************************************************************************)
(* What makes a property at risk, and everything that says so: the views   *)
(* (db/views.sql), the limit queries (plots/limits-sql.ts,                 *)
(* insights/limits.ts), the at-risk table, its counts and its filters      *)
(* (insights/at-risk.ts, filters.ts), the exclusions page (exclusions.ts), *)
(* a plot's own page with the report it proposes (player.ts,               *)
(* report-kit.ts) and the Discord channel (notify/channels.ts).            *)
(*                                                                         *)
(* The crawls and the operators edit the tables, one statement at a time,  *)
(* and time passes; each reader is a function of the tables.  Time counts  *)
(* months, playtime hours.  Of the roles, WorldGuard's owners and members  *)
(* are left out: like the authority they flag nothing.  A reviewer names   *)
(* an authority whole: a part of a name that several share is left out.    *)
(***************************************************************************)
EXTENDS PlotRules, FiniteSetsExt

CONSTANTS Properties, Citizens, Nobody,
          Worlds, WorldOf,
          DEFAULT_WORLD_UUID, DEFAULT_AUTHORITY,     (* of the environment  *)
          Prefix,        (* [Properties -> the prefix of the id]            *)
          TagSets,       (* what upstream may tag a plot with               *)
          FirstTags, FirstStake, Elsewhere,
          Never, Unclassified,
          LastMonth, PropertyEdits

FlagReason == {"inactive", "banned", "deported", "over-limit"}
Role == {"titleholder", "authority", "landlord", "tenant"}
OWNERSHIP_ROLES == {"titleholder", "landlord"}
Tenure == {"freehold", "leasehold", "none"}
ThresholdHours == 6
Hours == {0, 10}
LongDeportation == 4
Months == 0..LastMonth
Terms == {2, LongDeportation}      (* of a sentence, in months              *)

ASSUME PropertyAssumption ==
  /\ IsFiniteSet(Properties) /\ IsFiniteSet(Citizens) /\ Nobody \notin Citizens
  /\ WorldOf \in [Properties -> Worlds]
  /\ DEFAULT_WORLD_UUID \in Worlds /\ DEFAULT_AUTHORITY \in Citizens
  /\ "all" \notin Worlds \cup Citizens
  /\ FirstTags \in [Properties -> TagSets]
  /\ FirstStake \in [Properties -> [Role -> Citizens \cup {Nobody}]]
  /\ Elsewhere \in [Citizens -> [Category -> Nat]]
  /\ Never \notin Nat /\ Unclassified \notin [category : Category, area : Area \cup {NoArea},
                                              source : {"tag", "prefix", "none"}]
  /\ {LastMonth, PropertyEdits} \subseteq Nat

VARIABLES zoning,        (* regions.category, area and category_source      *)
          tenure,        (* regions.contract_type                           *)
          stake,         (* region_freehold and region_leasehold, by role   *)
          sentences,     (* punishments: bans and deportations              *)
          seen,          (* player_analytics.last_seen_at, or Never         *)
          playtime,      (* player_activity_window, hours or Never          *)
          excluded, realtors,   (* player_exclusions, player_realtors       *)
          reported,      (* plots an active eviction report names           *)
          month, propertyEdits

regionTables == <<zoning, tenure, stake>>
playerTables == <<sentences, seen, playtime>>
curation == <<excluded, realtors, reported>>
flagVars == <<regionTables, playerTables, curation, month, propertyEdits>>

FlagsInit ==
  /\ zoning = [x \in Properties |-> ClassifyPlot(Prefix[x], FirstTags[x])]
  /\ tenure = [x \in Properties |-> IF FirstStake[x]["titleholder"] # Nobody
                                    THEN "freehold" ELSE "leasehold"]
  /\ stake = FirstStake
  /\ sentences = {} /\ seen = [u \in Citizens |-> 0] /\ playtime = [u \in Citizens |-> Never]
  /\ excluded = {} /\ realtors = {} /\ reported = {}
  /\ month = 0 /\ propertyEdits = PropertyEdits

-----------------------------------------------------------------------------
(* The crawls and the operators.                                            *)
EditTables == propertyEdits > 0 /\ propertyEdits' = propertyEdits - 1

(* A property is discovered before its detail says what it is, ...          *)
Undetailed(x) ==
  /\ EditTables /\ zoning[x] # Unclassified
  /\ zoning' = [zoning EXCEPT ![x] = Unclassified]
  /\ tenure' = [tenure EXCEPT ![x] = "none"]
  /\ stake' = [stake EXCEPT ![x] = [r \in Role |-> Nobody]]
  /\ UNCHANGED <<playerTables, curation, month>>

(* ... and the statements of a detail follow one another, any of which may  *)
(* be the last one to run: the region, ...                                  *)
StoreRegionRow(x, tags, kind) ==
  /\ EditTables
  /\ zoning' = [zoning EXCEPT ![x] = ClassifyPlot(Prefix[x], tags)]
  /\ tenure' = [tenure EXCEPT ![x] = kind]
  /\ UNCHANGED <<stake, playerTables, curation, month>>

(* ... the freehold, ...                                                    *)
StoreFreehold(x, title, authority) ==
  /\ EditTables
  /\ stake' = [stake EXCEPT ![x]["titleholder"] = title, ![x]["authority"] = authority]
  /\ UNCHANGED <<zoning, tenure, playerTables, curation, month>>

(* ... and the leasehold.                                                   *)
StoreLeasehold(x, landlord, tenant) ==
  /\ EditTables
  /\ stake' = [stake EXCEPT ![x]["landlord"] = landlord, ![x]["tenant"] = tenant]
  /\ UNCHANGED <<zoning, tenure, playerTables, curation, month>>

(* A ban, or a deportation: a warning that never ends, whose reason says    *)
(* until when it runs.                                                      *)
Sentence(u, kind, until) ==
  [victim |-> u, type |-> IF kind = "deportation" THEN "WARN" ELSE "BAN",
   deportation |-> kind = "deportation", start |-> month,
   end |-> IF kind = "deportation" THEN Never ELSE until,
   expires |-> IF kind = "deportation" THEN until ELSE Never,
   completed |-> FALSE, withdrawn |-> FALSE]

Convict(u, kind, until) ==
  /\ EditTables
  /\ sentences' = sentences \cup {Sentence(u, kind, until)}
  /\ UNCHANGED <<regionTables, seen, playtime, curation, month>>

(* The list stops showing it, or its reason says it was completed.          *)
Release(s) ==
  /\ EditTables
  /\ \/ sentences' = (sentences \ {s}) \cup {[s EXCEPT !.withdrawn = TRUE]}
     \/ s.deportation /\ sentences' = (sentences \ {s}) \cup {[s EXCEPT !.completed = TRUE]}
  /\ UNCHANGED <<regionTables, seen, playtime, curation, month>>

LogIn(u) == /\ EditTables /\ seen' = [seen EXCEPT ![u] = month]
            /\ UNCHANGED <<regionTables, sentences, playtime, curation, month>>

Measure(u, hours) == /\ EditTables /\ playtime' = [playtime EXCEPT ![u] = hours]
                     /\ UNCHANGED <<regionTables, sentences, seen, curation, month>>

(* excludePlayer and includePlayer, ...                                     *)
Toggle(S, e) == IF e \in S THEN S \ {e} ELSE S \cup {e}

ToggleExcluded(u) == /\ EditTables /\ excluded' = Toggle(excluded, u)
                     /\ UNCHANGED <<regionTables, playerTables, realtors, reported, month>>

(* ... markRealtor and unmarkRealtor, ...                                   *)
ToggleRealtor(u) == /\ EditTables /\ realtors' = Toggle(realtors, u)
                    /\ UNCHANGED <<regionTables, playerTables, excluded, reported, month>>

(* ... and a report that is linked, or resolved.                            *)
ToggleReport(x) == /\ EditTables /\ reported' = Toggle(reported, x)
                   /\ UNCHANGED <<regionTables, playerTables, excluded, realtors, month>>

PassMonth == /\ month < LastMonth /\ month' = month + 1
             /\ UNCHANGED <<regionTables, playerTables, curation, propertyEdits>>

Someone == Citizens \cup {Nobody}

FlagsNext ==
  \/ \E x \in Properties, tags \in TagSets, kind \in Tenure : StoreRegionRow(x, tags, kind)
  \/ \E x \in Properties, t, a \in Someone : StoreFreehold(x, t, a)
  \/ \E x \in Properties, l, t \in Someone : StoreLeasehold(x, l, t)
  \/ \E x \in Properties : Undetailed(x) \/ ToggleReport(x)
  \/ \E u \in Citizens, kind \in {"ban", "deportation"}, d \in Terms \cup {Never} :
       Convict(u, kind, IF d = Never THEN Never ELSE month + d)
  \/ \E s \in sentences : Release(s)
  \/ \E u \in Citizens : LogIn(u) \/ ToggleExcluded(u) \/ ToggleRealtor(u)
  \/ \E u \in Citizens, h \in Hours : Measure(u, h)
  \/ PassMonth

FlagsSpec == FlagsInit /\ [][FlagsNext]_flagVars

-----------------------------------------------------------------------------
(* v_active_punishments: the deportation's own lifecycle, and a ban only    *)
(* while the player was not seen since.                                     *)
Over(date) == date # Never /\ date <= month

IsActive(s) ==
  /\ ~s.withdrawn /\ ~Over(s.end)
  /\ ~(s.type = "BAN" /\ seen[s.victim] # Never /\ seen[s.victim] > s.start)
  /\ ~(s.deportation /\ (s.completed \/ Over(s.expires)))

Ends(s) == IF s.expires # Never THEN s.expires ELSE s.end
DeportationKind(s) == IF Ends(s) = Never THEN "indefinite"
                      ELSE IF Ends(s) >= s.start + LongDeportation THEN "long" ELSE "limited"

(* v_player_flags.                                                          *)
ActiveOf(u) == {s \in sentences : s.victim = u /\ IsActive(s)}
IsBanned(u) == \E s \in ActiveOf(u) : s.type = "BAN"
IsDeported(u) == \E s \in ActiveOf(u) : s.deportation
IsLongDeported(u) == \E s \in ActiveOf(u) : s.deportation /\ DeportationKind(s) # "limited"
IsLimitedDeported(u) == IsDeported(u) /\ ~IsLongDeported(u)

KindOf(u) ==
  LET kinds == {DeportationKind(s) : s \in {d \in ActiveOf(u) : d.deportation}}
  IN CASE "indefinite" \in kinds -> "indefinite"
       [] "long" \in kinds /\ "indefinite" \notin kinds -> "long"
       [] kinds = {"limited"} -> "limited"
       [] OTHER -> "none"

DeportationEndsAt(u) ==
  LET ends == {Ends(s) : s \in {d \in ActiveOf(u) : d.deportation}}
  IN IF ends = {} \/ Never \in ends THEN Never ELSE Max(ends)

InferredInactive(u) == seen[u] # Never /\ seen[u] < month - 1
Playtime30d(u) == IF InferredInactive(u) THEN 0 ELSE playtime[u]
PlaytimeSource(u) == CASE InferredInactive(u) -> "inferred_zero"
                       [] ~InferredInactive(u) /\ playtime[u] # Never -> "analytics_detail"
                       [] OTHER -> "unknown"

(* getPlayerProfile, for the page of a player.                              *)
PlayerProfile(u) ==
  [isBanned |-> IsBanned(u), isDeported |-> IsDeported(u), isLongDeported |-> IsLongDeported(u),
   deportationKind |-> KindOf(u), deportationEndsAt |-> DeportationEndsAt(u),
   playtime |-> Playtime30d(u), playtimeSource |-> PlaytimeSource(u)]

-----------------------------------------------------------------------------
(* plotLimitCte.  plot_limit_owned: the titleholder, else the tenant; ...   *)
OwnerOf(x) == IF stake[x]["titleholder"] # Nobody THEN stake[x]["titleholder"]
              ELSE stake[x]["tenant"]
CategoryOf(x) == IF zoning[x] = Unclassified THEN "other" ELSE zoning[x].category
AreaOf(x) == IF zoning[x] = Unclassified THEN NoArea ELSE zoning[x].area

Counts(x) == CountsTowardLimit(CategoryOf(x), AreaOf(x))

(* ... plot_limit_holdings, with the plots that are not modelled; ...       *)
Holdings(u, c) == {x \in Properties : OwnerOf(x) = u /\ CategoryOf(x) = c}
CountedPlots(u, c) == Cardinality({x \in Holdings(u, c) : Counts(x)}) + Elsewhere[u][c]

(* ... plot_limit_breaches.                                                 *)
OverLimit(u, c) == /\ PlotLimit(c) # NoLimit
                   /\ CountedPlots(u, c) > EffectiveLimit(c, u \in realtors)
IsViolation(u, c) == PlotLimit(c) # NoLimit /\ CountedPlots(u, c) > EffectiveLimit(c, TRUE)
NeedsRealtorCheck(u, c) ==
  /\ PlotLimit(c) # NoLimit /\ u \notin realtors
  /\ CountedPlots(u, c) > PlotLimit(c) /\ CountedPlots(u, c) <= EffectiveLimit(c, TRUE)

(* insights/limits.ts: loadBreaches has a row per category held.            *)
CategoriesOf(u) == {c \in Category : Elsewhere[u][c] > 0}
                   \cup {CategoryOf(x) : x \in {y \in Properties : OwnerOf(y) = u}}
BuildHolder(u) == [player |-> u,
                   violations |-> {c \in CategoriesOf(u) : IsViolation(u, c)},
                   checks |-> {c \in CategoriesOf(u) : NeedsRealtorCheck(u, c)}]
HolderLimits(u) == BuildHolder(u)
FindLimitBreaches == {h \in {BuildHolder(u) : u \in Citizens \ excluded} :
                        h.violations # {} \/ h.checks # {}}
LimitsSummary ==
  LET holders == FindLimitBreaches
  IN [over |-> {h \in holders : h.violations # {}},
      needRealtorCheck |-> {h \in holders : h.violations = {} /\ h.checks # {}}]

-----------------------------------------------------------------------------
(* at_risk_rows: a row per property and stakeholder.                        *)
Holder(row) == stake[row[1]][row[2]]
Rows == {row \in Properties \X Role : Holder(row) # Nobody}
RowCategory(row) == CategoryOf(row[1])

RowOverLimit(row) == OverLimit(Holder(row), RowCategory(row)) /\ Counts(row[1])

(* Mutant: whoever has not played is inactive, deported or not.             *)
InactiveServing(u, hours, unknown) ==
  IF Playtime30d(u) = Never THEN unknown ELSE Playtime30d(u) < hours

Inactive(u, hours, unknown) ==
  /\ IF Playtime30d(u) = Never THEN unknown ELSE Playtime30d(u) < hours
  /\ ~IsLimitedDeported(u)

(* atRiskFlaggedSql.                                                        *)
Flagged(row) ==
  LET u == Holder(row)
  IN IsBanned(u) \/ IsLongDeported(u) \/ RowOverLimit(row) \/ Inactive(u, ThresholdHours, FALSE)

(* parseAtRiskFilters: what a query leaves out takes its default, which of  *)
(* the world and the authority is one of them.                              *)
EmptyQuery == [reasons |-> {}, roles |-> {}, hours |-> Never, contract |-> "any",
               world |-> "", authority |-> "",
               unknown |-> FALSE, excluded |-> FALSE, reported |-> FALSE]
WidestQuery == [EmptyQuery EXCEPT !.world = "all", !.authority = "all"]

ParseAtRiskFilters(q) ==
  [q EXCEPT !.reasons = IF @ = {} THEN FlagReason ELSE @,
            !.roles = IF @ = {} THEN OWNERSHIP_ROLES ELSE @,
            !.hours = IF @ = Never THEN ThresholdHours ELSE @,
            !.world = IF @ = "" THEN DEFAULT_WORLD_UUID ELSE @,
            !.authority = IF @ = "" THEN DEFAULT_AUTHORITY ELSE @]

(* buildWhere, findAtRiskProperties and countAtRiskProperties.              *)
BuildWhere(f, row) ==
  LET u == Holder(row)
  IN /\ row[2] \in f.roles
     /\ \/ "inactive" \in f.reasons /\ Inactive(u, f.hours, f.unknown)
        \/ "banned" \in f.reasons /\ IsBanned(u)
        \/ "deported" \in f.reasons /\ IsLongDeported(u)
        \/ "over-limit" \in f.reasons /\ RowOverLimit(row)
     /\ f.world \in {"all", WorldOf[row[1]]}
     /\ f.contract \in {"any", tenure[row[1]]}
     /\ f.excluded \/ u \notin excluded
     /\ f.reported \/ row[1] \notin reported
     /\ f.authority \in {"all", stake[row[1]]["authority"]}

FindAtRiskProperties(f) == {row \in Rows : BuildWhere(f, row)}

FlagReasons(row) ==
  LET u == Holder(row)
  IN {r \in FlagReason :
        \/ r = "banned" /\ IsBanned(u)
        \/ r = "deported" /\ IsLongDeported(u)
        \/ /\ r = "inactive" /\ Playtime30d(u) # Never /\ Playtime30d(u) < ThresholdHours
           /\ ~(IsDeported(u) /\ ~IsLongDeported(u))
        \/ r = "over-limit" /\ RowOverLimit(row)}

(* getOverviewStats.                                                        *)
OverviewStats ==
  LET flagged == {w \in Rows : w[2] \in OWNERSHIP_ROLES /\ Flagged(w)}
      shown   == {w \in flagged : Holder(w) \notin excluded /\ w[1] \notin reported}
  IN [flagged   |-> flagged,
      atRisk    |-> shown,
      overLimit |-> {w \in shown : RowOverLimit(w)},
      excluded  |-> {w \in flagged : Holder(w) \in excluded},
      reported  |-> {w \in flagged : w[1] \in reported}]

(* listExclusions, whose predicate is written out once more.                *)
HiddenProperties(u) ==
  {w \in Rows :
     /\ Holder(w) = u /\ w[2] \in {"titleholder", "landlord"}
     /\ \/ IsBanned(u) \/ IsLongDeported(u)
        \/ Playtime30d(u) # Never /\ Playtime30d(u) < ThresholdHours /\ ~IsLimitedDeported(u)
        \/ OverLimit(u, RowCategory(w)) /\ Counts(w[1])}

(* atRiskWhere, and atRiskReasons.                                          *)
Alerted == {w \in Rows : /\ w[2] \in {"titleholder", "landlord"} /\ Flagged(w)
                         /\ Holder(w) \notin excluded /\ w[1] \notin reported}
AlertReasons(w) ==
  LET u == Holder(w)
  IN {r \in FlagReason :
        \/ r = "banned" /\ IsBanned(u)
        \/ r = "deported" /\ IsLongDeported(u)
        \/ /\ r = "inactive" /\ Playtime30d(u) # Never /\ Playtime30d(u) < ThresholdHours
           /\ ~IsBanned(u)
        \/ r = "over-limit" /\ RowOverLimit(w)}

(* groupByPlayer: one alert per holder.                                     *)
GroupByPlayer(items) ==
  {[player |-> u, properties |-> {w \in items : Holder(w) = u}] : u \in {Holder(w) : w \in items}}

(* punishmentsChannel: what is announced, and what it says of the property. *)
Announced == {s \in sentences : IsActive(s) /\ (s.type = "BAN" \/ s.deportation)}
GroundsToEvict(s) == s.deportation /\ DeportationKind(s) # "limited"

-----------------------------------------------------------------------------
(* getRegion, for the page of a plot: the standing of its owner and what    *)
(* the limits say of it.                                                    *)
GetRegion(x) ==
  LET u == OwnerOf(x)
  IN [owner |-> u, contractType |-> tenure[x],
      standing |-> PlayerProfile(u),
      limit |-> [overLimit         |-> OverLimit(u, CategoryOf(x)),
                 needsRealtorCheck |-> NeedsRealtorCheck(u, CategoryOf(x)),
                 countsTowardLimit |-> Counts(x)],
      openReport |-> x \in reported]

(* detectReportReason: which report to file on a plot.                      *)
DetectReportReasons(x) ==
  LET region == GetRegion(x)
      o == region.standing
      measured == IF o.isDeported /\ ~o.isLongDeported THEN Never ELSE o.playtime
      inactive == \/ o.isBanned \/ o.isLongDeported
                  \/ measured # Never /\ measured < ThresholdHours
      over == region.limit.overLimit /\ region.limit.countsTowardLimit
  IN {r \in {"inactivity", "rental-limitations", "plot-fairness"} :
        \/ r = "inactivity" /\ inactive
        \/ r = "rental-limitations" /\ over /\ region.contractType = "leasehold"
        \/ r = "plot-fairness" /\ over /\ region.contractType # "leasehold"}

(* The reason the kit is built for: inactivity wins.                        *)
ReportReason(x) ==
  IF OwnerOf(x) = Nobody \/ DetectReportReasons(x) = {} THEN "none"
  ELSE IF "inactivity" \in DetectReportReasons(x) THEN "inactivity"
  ELSE CHOOSE r \in DetectReportReasons(x) : TRUE

(* REASONS: the days a holder has.                                          *)
ResolveDays(reason) == CASE reason = "rental-limitations" -> 0
                         [] reason = "plot-fairness"      -> 3
                         [] reason = "inactivity"         -> 7

-----------------------------------------------------------------------------
(* The tables hold properties and citizens, and a plot is classified whole. *)
FlagsTypeOK ==
  /\ tenure \in [Properties -> Tenure] /\ stake \in [Properties -> [Role -> Someone]]
  /\ \A x \in Properties : zoning[x] = Unclassified
                           \/ (CategoryOf(x) \in Category /\ AreaOf(x) \in Area \cup {NoArea})
  /\ \A s \in sentences : s.victim \in Citizens /\ s.start \in Months
  /\ seen \in [Citizens -> Nat \cup {Never}] /\ playtime \in [Citizens -> Nat \cup {Never}]
  /\ excluded \subseteq Citizens /\ realtors \subseteq Citizens /\ reported \subseteq Properties

DefaultRows == FindAtRiskProperties(ParseAtRiskFilters(EmptyQuery))
WidestRows == FindAtRiskProperties(ParseAtRiskFilters(WidestQuery))

(* The table of every world and authority, the headline and the channel     *)
(* list the same rows, each with a reason to show, and what is hidden is    *)
(* counted.  The table as it opens has fewer: those of the default world    *)
(* and authority.                                                           *)
TablesAgree ==
  LET rows == WidestRows
      stats == OverviewStats
  IN /\ rows = stats.atRisk /\ rows = Alerted
     /\ DefaultRows = {w \in rows : /\ WorldOf[w[1]] = DEFAULT_WORLD_UUID
                                    /\ stake[w[1]]["authority"] = DEFAULT_AUTHORITY}
     /\ \A w \in rows : FlagReasons(w) # {} /\ AlertReasons(w) # {}
     /\ stats.overLimit = {w \in rows : "over-limit" \in FlagReasons(w)}
     /\ stats.flagged = rows \cup stats.excluded \cup stats.reported
     /\ \A u \in excluded : HiddenProperties(u) = {w \in stats.excluded : Holder(w) = u}

(* A holder is in the summary for a category exactly if a plot of theirs in *)
(* it is flagged, where they hold one that counts.                          *)
SummaryAgrees ==
  LET listed == LimitsSummary.over \cup LimitsSummary.needRealtorCheck
  IN \A x \in Properties :
       Counts(x) /\ OwnerOf(x) \notin excluded \cup {Nobody} =>
         (\E h \in listed : h.player = OwnerOf(x) /\ CategoryOf(x) \in h.violations \cup h.checks)
         <=> \E w \in Rows : /\ Holder(w) = OwnerOf(x) /\ w[2] \in {"titleholder", "tenant"}
                             /\ RowCategory(w) = CategoryOf(x) /\ RowOverLimit(w)

(* A plot's page proposes a report exactly if the row of its owner is       *)
(* flagged, and one that evicts at once only for a leasehold.               *)
ProposalsAgree ==
  \A x \in Properties :
    /\ ReportReason(x) # "none" <=>
         \E w \in Rows : w[1] = x /\ Holder(w) = OwnerOf(x) /\ Flagged(w)
                         /\ w[2] \in {"titleholder", "tenant"}
    /\ ReportReason(x) # "none" /\ ResolveDays(ReportReason(x)) = 0 => tenure[x] = "leasehold"

(* A player's page calls them banned, or their property at risk for a       *)
(* deportation, exactly if an announced punishment says so, and gives no    *)
(* date exactly if it says indefinite; the channel has one alert for every  *)
(* holder in the widest table, with all of their rows; and their page marks *)
(* the categories the page of a plot blames.                                *)
PlayerPagesAgree ==
  /\ \A u \in Citizens :
       LET profile == PlayerProfile(u)
           said == {s \in Announced : s.victim = u}
       IN /\ profile.isBanned <=> \E s \in said : s.type = "BAN"
          /\ profile.isLongDeported <=> \E s \in said : GroundsToEvict(s)
          /\ profile.isLongDeported <=> profile.deportationKind \in {"long", "indefinite"}
          /\ profile.isDeported =>
               (profile.deportationEndsAt = Never <=> profile.deportationKind = "indefinite")
          /\ profile.playtime = Never <=> profile.playtimeSource = "unknown"
  /\ LET groups == GroupByPlayer(Alerted)
     IN \A w \in WidestRows : \E g \in groups :
          w \in g.properties /\ \A h \in groups \ {g} : h.player # g.player
  /\ \A x \in Properties : OwnerOf(x) # Nobody =>
       LET marked == HolderLimits(OwnerOf(x))
       IN GetRegion(x).limit.overLimit <=> CategoryOf(x) \in marked.violations \cup marked.checks

(* Whatever is stored and whenever one looks, everything that says which    *)
(* properties are at risk says the same of those it shows.                  *)
VerdictsAgree == TablesAgree /\ SummaryAgrees /\ ProposalsAgree /\ PlayerPagesAgree
=============================================================================
