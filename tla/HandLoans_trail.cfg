SPECIFICATION Spec
CONSTANTS
  Ann = Ann
  Bob = Bob
  None = None
  Entered <- MCEntered
  Edits <- MCEdits
  Payments <- OneSpelling
  MaxSame = 2
  MaxTime = 5
  MaxCrashes = 1
  SharedInstants = FALSE
INVARIANTS
  TypeOK
  TrailTells
PROPERTIES
  LoansAudited
