SPECIFICATION Spec
CONSTANTS
  MaxTyped = 0
  Printed <- MCPrinted
  Typed <- MCTypedNone
INVARIANT
  DocCdcTranslated
CHECK_DEADLOCK FALSE
