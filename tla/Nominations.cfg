SPECIFICATION Spec
CONSTANTS
  c1 = c1
  c2 = c2
  s1 = s1
  s2 = s2
  n1 = n1
  n2 = n2
  n3 = n3
  n4 = n4
  None = None
  Controllers = {c1, c2}
  Stashes = {s1, s2}
  Nominators = {n1, n2, n3, n4}
  MaxTop = 2
  MaxBottom = 1
  MinNomination = 1
  MinBond = 1
  MaxNominations = 2
  Delay = 1
  Balance <- Uneven
  MaxRound = 2
SYMMETRY UnevenSymmetry
VIEW WithoutAwarded
CONSTRAINT OnePending SecondStays
CHECK_DEADLOCK FALSE
INVARIANTS OneRanking MetadataCurrent ViewsAgree RequestsBacked StakeReserved
PROPERTIES OutbidOnly
