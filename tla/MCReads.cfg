\* Rules, reads by cursor and writes between the pages.
SPECIFICATION Spec
CONSTANTS
  Keys = {1, 2, 3}
  NoRow = NoRow
  RowValues <- MCRowValues
  Rules <- MCRules
  References <- MCReferences
  Queries <- MCQueries
  OrderField = "a"
  PageSize = 1
  DefaultLimit = 3
  MaxWrites = 1
CHECK_DEADLOCK FALSE
INVARIANTS
  RuleIsObeyed
  SqlAgreesWithMatch
  DependenciesSuffice
  PagesSkipNothing
