SPECIFICATION Spec
CONSTANTS
  None = None
  Chosen = Chosen
  Other = Other
  Filters <- MCFilters
  MaxCalls = 3
INVARIANTS
  StoredOnce
  ListingTrue
PROPERTIES
  
  FormsComeBack
CHECK_DEADLOCK FALSE
