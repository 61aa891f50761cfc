------------------------------- MODULE PlotRules -------------------------------
(***************************************************************************)
(* Zoning, areas and ownership limits (plots/categories.ts,                *)
(* plots/limits-sql.ts), as functions of a plot's tags and id.  Tags are   *)
(* trimmed and in lower case, and an id is the prefix before its first     *)
(* dash or digit.                                                          *)
(***************************************************************************)
EXTENDS Integers, Sequences, FiniteSets

Category == {"commercial", "residential", "industrial", "skyscraper", "cbd", "nbd", "wbd",
             "farmland", "ranch", "black-market", "other"}
TOWNS == {"oakridge", "aventura"}
Area == TOWNS \cup {"willow"}

NoLimit == -1     (* null: the app cannot say *)
NoArea == "no area"

(* DEFINITIONS.                                                             *)
Definition(limit, bonus) == [limit |-> limit, realtorBonus |-> bonus]
DEFINITIONS ==
  [c \in Category |->
     CASE c = "commercial"                      -> Definition(20, TRUE)
       [] c \in {"residential", "industrial"}   -> Definition(2, TRUE)
       [] c = "skyscraper"                      -> Definition(6, TRUE)
       [] c \in {"cbd", "nbd", "wbd"}           -> Definition(2, FALSE)
       [] c \in {"farmland", "ranch", "black-market"} -> Definition(1, FALSE)
       [] OTHER                                 -> Definition(NoLimit, FALSE)]

REALTOR_BONUS == 5

PlotLimit(c) == DEFINITIONS[c].limit

EffectiveLimit(c, isRealtor) ==
  IF PlotLimit(c) = NoLimit THEN NoLimit
  ELSE PlotLimit(c) + (IF isRealtor /\ DEFINITIONS[c].realtorBonus THEN REALTOR_BONUS ELSE 0)

LimitApplies(area, c) == area \notin TOWNS /\ ~(area = "willow" /\ c = "commercial")

(* plot_limit_exempt.                                                       *)
ExemptPairs == {pair \in Category \X Area : ~LimitApplies(pair[2], pair[1])}

(* plotCountsTowardLimitSql: an area the table does not list counts.        *)
CountsTowardLimit(c, area) == <<c, area>> \notin ExemptPairs

-----------------------------------------------------------------------------
(* The tables classifyPlot looks up; the first entry that matches wins.     *)
COMBINATION_TAGS == << <<{"farmland", "residential"}, "ranch">> >>

ZONING_TAGS ==
  << <<"cbd", "cbd">>, <<"nbd", "nbd">>, <<"wbd", "wbd">>, <<"blackmarket", "black-market">>,
     <<"black-market", "black-market">>, <<"skyscraper", "skyscraper">>,
     <<"farmland", "farmland">>, <<"ranch", "ranch">>, <<"industrial", "industrial">>,
     <<"residential", "residential">>, <<"commercial", "commercial">> >>

AREA_TAGS == << <<"oakridge", "oakridge">>, <<"aventura", "aventura">>, <<"willow", "willow">> >>

AREA_PREFIXES == << <<"wl", "willow">>, <<"or", "oakridge">>, <<"av", "aventura">> >>

FALLBACK_PREFIXES == << <<"cbd", "cbd">>, <<"nbd", "nbd">>, <<"wbd", "wbd">>,
                        <<"bm", "black-market">>, <<"fr", "ranch">> >>

Hits(table, keys) == {i \in DOMAIN table : table[i][1] \in keys}
FirstHit(table, keys) ==
  table[CHOOSE i \in Hits(table, keys) : \A j \in Hits(table, keys) : i <= j][2]

Classification(c, area, source) == [category |-> c, area |-> area, source |-> source]

(* Combined tags before single ones, tags before the id, for the zoning;    *)
(* the area is looked up apart from it.                                     *)
ClassifyPlot(prefix, tags) ==
  LET area == IF Hits(AREA_TAGS, tags) # {} THEN FirstHit(AREA_TAGS, tags)
              ELSE IF Hits(AREA_PREFIXES, {prefix}) # {} THEN FirstHit(AREA_PREFIXES, {prefix})
              ELSE NoArea
      combined == {i \in DOMAIN COMBINATION_TAGS : COMBINATION_TAGS[i][1] \subseteq tags}
  IN CASE combined # {} ->
            Classification(COMBINATION_TAGS[CHOOSE i \in combined :
                                              \A j \in combined : i <= j][2], area, "tag")
       [] combined = {} /\ Hits(ZONING_TAGS, tags) # {} ->
            Classification(FirstHit(ZONING_TAGS, tags), area, "tag")
       [] OTHER ->
            IF Hits(FALLBACK_PREFIXES, {prefix}) # {}
            THEN Classification(FirstHit(FALLBACK_PREFIXES, {prefix}), area, "prefix")
            ELSE Classification("other", area, "none")
=============================================================================
