SPECIFICATION Spec
CONSTANTS
  var1 = var1
  var2 = var2
  fun1 = fun1
  fun2 = fun2
  mainfun = mainfun
  Vars = {var1, var2}
  Funcs = {fun1, fun2, mainfun}
  Roots = {mainfun}
  None = None
  CellsOf <- MCCellsOf
  LitSize = 2
  DataAlign = 2
  Programs <- MCPrograms
INVARIANTS
  HeaderSplits
  JumpsLand
  CallsLand
  NothingIdle
  DataLands
