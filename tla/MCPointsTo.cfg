SPECIFICATION Spec
CONSTANTS
  Vars <- MCVars
  Values <- MCValues
  Null = "NULL"
  Types <- MCTypes
  TypeOf <- MCTypeOf
  NoLit = NoLit
  TrueValues = {"1"}
  Ops = {}
  Fold <- MCFold
  ResultTypes <- MCResultTypes
  Unknown = "UNKNOWN"
  Programs <- MCPrograms
  MaxStatements = 5
INVARIANTS
  PointsToTypeOK
  ValuesCovered
  ReferencesCovered
CHECK_DEADLOCK FALSE
