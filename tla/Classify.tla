------------------------------- MODULE Classify -------------------------------
(***************************************************************************)
(* The classifier of app/services/categories.py.  Its hint tables are      *)
(* lists of words; what they make of a text is kept as the set of the      *)
(* categories that have a hint in it.                                      *)
(***************************************************************************)
EXTENDS Naturals

CATEGORIES == <<"rebalancing", "grid_trading", "yield_optimisation",
                "health_factor_monitoring", "dev_automation", "creative_design",
                "marketing_content", "data_analytics", "security_compliance",
                "admin_ops", "other">>

Category == {CATEGORIES[i] : i \in DOMAIN CATEGORIES}

\* Place in CATEGORIES, the order in which the tag and description hints are
\* tried.
Place(c) == CHOOSE i \in DOMAIN CATEGORIES : CATEGORIES[i] = c
FirstOf(S) == CHOOSE c \in S : \A d \in S : Place(c) <= Place(d)

\* The categories each table can give.
TermixTargets == {"dev_automation", "data_analytics", "marketing_content", "creative_design",
                  "security_compliance", "grid_trading", "admin_ops"}
TagHinted == Category \ {"other"}
DescriptionHinted == Category \ {"other"}
SkillHinted == {"grid_trading", "yield_optimisation", "health_factor_monitoring"}
ProtocolHinted == {"yield_optimisation", "grid_trading"}

\* termix: the category mapped from the source's own one, "none" when it is
\* missing or unknown.
Signals == [termix : TermixTargets \cup {"none"},
            tags : SUBSET TagHinted, description : SUBSET DescriptionHinted,
            skills : SUBSET SkillHinted, protocols : SUBSET ProtocolHinted,
            oasf : BOOLEAN]

\* compute_category: the candidates of each stage.  The protocol table lists
\* yield before grid, against CATEGORIES.
Stages(s) ==
    <<IF s.termix = "none" THEN {} ELSE {s.termix},
      s.tags,
      s.description,
      s.skills,
      IF "yield_optimisation" \in s.protocols THEN {"yield_optimisation"} ELSE s.protocols,
      IF s.oasf THEN {"rebalancing"} ELSE {},
      {"other"}>>

\* The first stage with a candidate decides.
Class(s) ==
    LET deciding == CHOOSE i \in 1 .. 7 :
                        /\ Stages(s)[i] # {}
                        /\ \A j \in 1 .. i - 1 : Stages(s)[j] = {}
    IN  FirstOf(Stages(s)[deciding])
==============================================================================
