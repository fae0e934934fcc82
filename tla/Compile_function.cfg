\* The value of a function of a local variable.
SPECIFICATION Spec
CONSTANTS
  Files <- FunctionFiles
  Included <- MCIncluded
  Environments <- MCEnvironments
  Fuel = 60
  MaxCommands = 2
PROPERTY CompileKeepsMeaning
CHECK_DEADLOCK FALSE
