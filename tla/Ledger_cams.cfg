SPECIFICATION LedgersSpec
CONSTANTS
  None = None
  Sides = {"own"}
  sep = sep
  dec = dec
  o1 = o1
  o2 = o2
  gl1 = gl1
  gl2 = gl2
  holdings = holdings
  apr = apr
  jul = jul
  other = other
  cams = cams
  t1 = t1
  t2 = t2
  t3 = t3
  t4 = t4
  t5 = t5
  Files <- MCCamsFiles
  Typed <- MCNone
  MaxFills = 0
  MaxCrashes = 0
PROPERTIES
  NothingAbsorbed
