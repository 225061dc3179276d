SPECIFICATION Spec
CONSTANTS
  CommandLines <- MCCommandLines
  ConfigFiles <- MCConfigFiles
  TextValues = {"x", "y"}
  NoFile = NoFile
  Undefined = Undefined
CHECK_DEADLOCK FALSE
INVARIANTS
  NamesAgree
  CommandLineDefines
  OrderIrrelevant
