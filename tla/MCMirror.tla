------------------------------- MODULE MCMirror -------------------------------
(* The crawls that mirror the forum and the regions, the merge groups and   *)
(* the verdicts derived from the mirror.  What one of them reads of another *)
(* it takes as changing at any time, so that no interleaving says more than *)
(* each alone: a behaviour is about one and leaves the others at their      *)
(* start.                                                                   *)
EXTENDS ForumListing, RealtySync, PlotMerge, PropertyFlags

CONSTANTS t1, t2, t3, t4, p, q, ann, bob, house, farm, main, far

VARIABLE focus

vars == <<forumVars, realtyVars, mergeVars, flagVars, focus>>

(* Forum.  Two plots whose ids differ by case only: alone a title names p,  *)
(* with q in the table it names neither.  They are one merged property.     *)
Ids         == [plot \in Plots |-> "a1"]
MergeGroups == [plot \in Plots |-> Plots \ {plot}]
TitlesSeen  == {{"a1"}, {}}
TitlesFirst == [t \in Threads |-> IF t = t3 THEN {} ELSE {"a1"}]
NewForum    == [reports |-> <<t4, t3, t2>>, archive |-> <<t1>>]
KnownForum  == [reports |-> <<t2>>, archive |-> <<t1>>]

(* Merging.  Three plots in a row, two blocks apart: a chain, whose ends    *)
(* are not adjacent.                                                        *)
At(x)      == [x0 |-> x, x1 |-> x + 5, z0 |-> 0, z1 |-> 5]
InARow     == {At(0), At(7), At(14)}
Row3       == [n \in SubPlots |-> At(7 * (n - 1))]
FirstNames == [f \in Filings |-> IF f = 1 THEN SubPlots ELSE {2}]

(* Limits.  Ann is at what a realtor may hold of residential plots, beyond  *)
(* it of commercial ones, and at the limit of ranches.                      *)
Tags      == {{"residential"}, {"commercial", "willow"}, {"farmland", "residential"}}
WorldsOf  == [x \in Properties |-> IF x = house THEN main ELSE far]
IdPrefix  == [x \in Properties |-> IF x = farm THEN "fr" ELSE "c"]
TagsFirst == [x \in Properties |-> IF x = house THEN {"residential"} ELSE {"commercial", "willow"}]
Held      == [x \in Properties |->
                IF x = house
                THEN [titleholder |-> ann, authority |-> bob, landlord |-> Nobody, tenant |-> Nobody]
                ELSE [titleholder |-> Nobody, authority |-> Nobody, landlord |-> bob, tenant |-> ann]]
FurtherPlots ==
  [u \in Citizens |-> [c \in Category |->
     CASE u = ann /\ c = "residential" -> 6
       [] u = ann /\ c = "commercial"  -> 21
       [] u = ann /\ c = "ranch"       -> 1
       [] OTHER                        -> 0]]

Init == /\ ForumInit /\ RealtyInit /\ MergeInit /\ FlagsInit
        /\ focus \in {"forum", "realty", "merges", "flags"}
        /\ focus # "forum" => backfilled = {}
        /\ focus # "merges" => holder = [n \in SubPlots |-> ann]

Next == \/ focus = "forum"  /\ ForumNext  /\ UNCHANGED <<realtyVars, mergeVars, flagVars, focus>>
        \/ focus = "realty" /\ RealtyNext /\ UNCHANGED <<forumVars, mergeVars, flagVars, focus>>
        \/ focus = "merges" /\ MergeNext  /\ UNCHANGED <<forumVars, realtyVars, flagVars, focus>>
        \/ focus = "flags"  /\ FlagsNext  /\ UNCHANGED <<forumVars, realtyVars, mergeVars, focus>>

Spec == Init /\ [][Next]_vars

-----------------------------------------------------------------------------
(* The types of all of them.                                                *)
TypeOK == CASE focus = "forum"  -> ForumTypeOK
            [] focus = "realty" -> RealtyTypeOK
            [] focus = "merges" -> MergeTypeOK
            [] focus = "flags"  -> FlagsTypeOK

(* MergesAreGenuine and VerdictsAgree, which are costly to evaluate, where  *)
(* a step may have changed what they say.                                   *)
PagesShowGenuineMerges == focus = "merges" => MergesAreGenuine
EveryVerdictAgrees == focus = "flags" => VerdictsAgree
=============================================================================
