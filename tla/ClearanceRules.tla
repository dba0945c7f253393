--------------------------- MODULE ClearanceRules ----------------------------
(***************************************************************************)
(* Which clearance rule governs a pair of systems, and how wide the        *)
(* whole-model pass has to look (vendor/mep_coordination/clearance_rules,  *)
(* app/kit/systems, app/kit/engine).  A table is a set of rules; `place`   *)
(* is a rule's position in the list, which decides ties.  An element       *)
(* without a system is of the category "*", as matches_pair makes it.      *)
(***************************************************************************)
EXTENDS Naturals

WILDCARD == "*"
VALID_AXES == {"any", "vertical", "horizontal"}
VALID_PRECEDENCE == {"code", "project_spec"}

(* The rules over systems S with ids I and gaps up to G. `loads` is what    *)
(* _parse_rule finds: a citation, a document and fields within the enums.   *)
Rules(S, I, G, P) ==
  [place : 1..P, rule_id : I, system_a : S \cup {WILDCARD}, system_b : S \cup {WILDCARD},
   gap : 1..G, axis : VALID_AXES, precedence : VALID_PRECEDENCE, loads : BOOLEAN]

side_matches(side, category) == side \in {WILDCARD, category}

(* Mutant: a finding is matched in the order the rule was written.          *)
matches_pair_ordered(r, a, b) == side_matches(r.system_a, a) /\ side_matches(r.system_b, b)

matches_pair(r, a, b) ==
  \/ side_matches(r.system_a, a) /\ side_matches(r.system_b, b)
  \/ side_matches(r.system_a, b) /\ side_matches(r.system_b, a)

matches_axis(r, axis) == r.axis \in {"any", axis}

wildcards(side) == IF side = WILDCARD THEN 1 ELSE 0
specificity(r) == wildcards(r.system_a) + wildcards(r.system_b)

outranks(r, s) == r.gap > s.gap \/ (r.gap = s.gap /\ r.place <= s.place)

(* max(..., key=min_gap_mm): the first of the widest.                       *)
strictest(S) == CHOOSE r \in S : \A s \in S : outranks(r, s)

of_precedence(S, p) == {r \in S : r.precedence = p}

(* Mutant: the project's own rule wins whenever there is one.               *)
resolve_precedence_project(S) ==
  IF of_precedence(S, "project_spec") = {} THEN strictest(S)
  ELSE strictest(of_precedence(S, "project_spec"))

resolve_precedence(S) ==
  LET code == of_precedence(S, "code")
      project == of_precedence(S, "project_spec") IN
  IF code = {} THEN strictest(project)
  ELSE IF project # {} /\ strictest(project).gap > strictest(code).gap THEN strictest(project)
  ELSE strictest(code)

matching(rules, a, b, axis) == {r \in rules : matches_pair(r, a, b) /\ matches_axis(r, axis)}

(* The most specific rules that match.                                      *)
tier(rules, a, b, axis) ==
  {r \in matching(rules, a, b, axis) :
     \A s \in matching(rules, a, b, axis) : specificity(r) <= specificity(s)}

governed(rules, a, b, axis) == matching(rules, a, b, axis) # {}
find_applicable_rule(rules, a, b, axis) == resolve_precedence(tier(rules, a, b, axis))

------------------------------------------------------------------------------
(* A rule one of whose named systems the model does not have.               *)
absent(r, present) == {r.system_a, r.system_b} \ (present \cup {WILDCARD}) # {}

unreachable_rules(rules, present) == {r.rule_id : r \in {s \in rules : absent(s, present)}}

(* Mutant: a rule with a wildcard is taken for unreachable.                 *)
applicable_rules_named(rules, present) ==
  {r \in rules : {r.system_a, r.system_b} \subseteq present}

applicable_rules(rules, present) ==
  {r \in rules : r.rule_id \notin unreachable_rules(rules, present)}

max_rule_gap(rules) == IF rules = {} THEN 0 ELSE strictest(rules).gap
==============================================================================
