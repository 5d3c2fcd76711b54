SPECIFICATION Spec
CONSTANTS
 Operands = {0, 1, 4, 6, 9}
 MinGap = 1
INVARIANTS TypeOK ReturnsGcd
PROPERTIES ImplementsSoftware CallReturns
