SPECIFICATION Spec
CONSTANTS
  NoLit = NoLit
  Null = "NULL"
  Vars = {"x", "y"}
  Values <- MCValues
  Types <- MCTypes
  TypeOf <- MCTypeOf
  TrueValues <- MCTrueValues
  Ops <- MCOps
  Fold <- MCFold
  ResultTypes <- MCResultTypes
  Preds = {p1, p2, p3}
  Given <- MCGiven
  Statements <- Common
INVARIANTS
  PullTypeOK
  PulledMeet
  Foreseen
CHECK_DEADLOCK FALSE
