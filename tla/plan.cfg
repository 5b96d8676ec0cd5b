SPECIFICATION Spec
CONSTANTS
  PG18 = TRUE
  Expressions <- MCExpressions
  Nodes <- MCNodes
  pull_var_and_aggregates <- MCVarsAndAggregates
  strip_relabel <- MCStripRelabel
  Walk <- MCWalk
  Render <- MCRender
  Flat <- MCFlat
  Marked <- MCMarked
  getUsedColumns <- MCUsedColumns
  EvalPg <- MCEvalPg
  EvalDb2 <- MCEvalDb2
  NPgCols = 3
  Columns <- MCColumns
  Queries <- MCQueries
INVARIANTS
  AnswersSurvive
  CollationComesFromColumn
  OperatorsHaveTexts
  EveryClauseOnce
  LimitIsExact
  OrderedAsClaimed
  ScanListCoversNeeds
  PlainResultsMatch
  ParamsFollowMarkers
  DirectModifyComplete
CHECK_DEADLOCK FALSE
