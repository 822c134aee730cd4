SPECIFICATION Spec
CONSTANTS
  s1 = s1
  s2 = s2
  recover = recover
  inbox = inbox
  x = x
  y = y
  Setups <- MCSetups
  Hooks <- MCHooks
  Entries <- MCEntries
SYMMETRY Symmetry
INVARIANTS
  TypeOK
  WiredOnce
  Recoverable
