\* Four shipped rules, four candidates of which two share an id and one lacks its citation.
\* Three decisions: a mind changed twice. Past them, and with a file that does not load, nothing can happen.
SPECIFICATION Spec
CONSTANTS
  Systems = {"gas", "lv", "vent"}
  Ids = {"GAS-LV", "GAS-ANY", "VENT-LV", "VENT-GAS", "SPEC-A", "SPEC-B", "SPEC-C"}
  MaxGap = 4
  Places = 8
  Shipped <- MCShipped
  Extracted <- MCExtracted
  Reviewers = {"engineer", ""}
  BLANK = ""
  MaxDecisions = 3
CHECK_DEADLOCK FALSE
INVARIANTS
  TypeOK
  SignedRulesOnly
  LedgerIsLastWord
  CodeStandsInItsTier
  PadLosesNoFinding
PROPERTIES
  NeverRelaxed
