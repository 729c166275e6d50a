CONSTANTS
  Syms <- MCSyms
  MaxEvents = 3
  MaxInits = 3
SPECIFICATION Spec
INVARIANTS ReadyOnce MostRecentKey ReportedInOrder
PROPERTIES ImplementsRegister FlushReturns
