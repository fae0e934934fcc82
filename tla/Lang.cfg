\* Two documents, two edits and one other message.
SPECIFICATION FairSpec
CONSTANTS
  yolol = yolol
  nolol = nolol
  Documents = {yolol, nolol}
  KindOf <- MCKindOf
  Classes = {"good", "bad", "long", "shrinks", "untyped"}
  Modes = {"Strict", "Optimize", "Off"}
  Edits = 2
  Asks = 1
INVARIANT EditsFitText
PROPERTY TextIsDiagnosed
CHECK_DEADLOCK FALSE
