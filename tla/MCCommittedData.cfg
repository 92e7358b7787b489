SPECIFICATION Spec
CONSTANTS
  w = w
  x = x
  None = None
  Rules = {w, x}
  Windows = {w}
  Committed <- MCCommitted
  RuleFiles <- MCRuleFiles
INVARIANTS VerdictsAreTheirOwn CleanMeansSound FixSettles GeneratedPasses
