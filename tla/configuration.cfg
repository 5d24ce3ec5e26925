CONSTANTS
  Names <- MCNames
  Values <- MCValues
  EnvMeans <- MCEnvMeans
  Flagged = {"PERMIT_PORT"}
  FlagMeans <- MCFlagMeans
  Default <- MCDefault
  Port = "PERMIT_PORT"
  Bindable <- MCBindable
  Unset = "not given"
  MaxLines = 3
SPECIFICATION Spec
INVARIANTS
  TypeOK
  ConfiguredAsWritten
  StartsUnlessUnreadable
  LoadInv
