\* Every command on every file, and on what the first has made of it.
SPECIFICATION Spec
CONSTANTS
  Files <- MCFiles
  Included <- MCIncluded
  Environments <- MCEnvironments
  Fuel = 60
  MaxCommands = 2
PROPERTIES ReadsAsWritten FormatSucceeds OptimizeKeepsMeaning CompileKeepsMeaning CompiledFits BoundariesKept
CHECK_DEADLOCK FALSE
