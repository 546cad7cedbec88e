SPECIFICATION Spec
CONSTANTS
  NULL = NULL
  o1 = o1
  o2 = o2
  s1 = s1
  s2 = s2
  w1 = w1
  w2 = w2
  Objects = {o1, o2}
  SpSlots = {s1, s2}
  WpSlots = {w1, w2}
  INITIAL_STRONG_VALUE = 100
  Lifetimes = {"STRONG", "WEAK"}
  EarlyPromote = TRUE
  RawRace = FALSE
  CopyAssign = FALSE
SYMMETRY Symm
INVARIANTS
  TypeOK
  MemorySafe
  WeakCountExact
  StrongCountExact
  NoLeak
PROPERTIES
  NoResurrection
  KeepsPromise
  BiasRemovedOnce
