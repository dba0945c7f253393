----------------------------- MODULE MCRuleBook ------------------------------
(* The shipped shapes (gas against one system, gas against anything, a      *)
(* rule on one axis only) and candidates that raise, lower, repeat an       *)
(* id and lack a citation.                                                  *)
EXTENDS RuleBook, TLC

Rule(n, id, a, b, gap, axis, precedence, loads) ==
  [place |-> n, rule_id |-> id, system_a |-> a, system_b |-> b, gap |-> gap,
   axis |-> axis, precedence |-> precedence, loads |-> loads]

MCShipped == {
  Rule(1, "GAS-LV", "gas", "lv", 3, "any", "project_spec", TRUE),
  Rule(2, "GAS-ANY", "gas", "*", 2, "any", "project_spec", TRUE),
  Rule(3, "VENT-LV", "vent", "lv", 2, "any", "code", TRUE),
  Rule(4, "VENT-GAS", "vent", "gas", 3, "horizontal", "code", TRUE)}

MCExtracted == <<
  Rule(5, "SPEC-A", "lv", "vent", 4, "any", "project_spec", TRUE),
  Rule(6, "SPEC-B", "lv", "vent", 1, "any", "project_spec", TRUE),
  Rule(7, "SPEC-A", "gas", "vent", 4, "any", "code", TRUE),
  Rule(8, "SPEC-C", "*", "vent", 1, "any", "project_spec", FALSE)>>
==============================================================================
