CONSTANTS
  n1 = n1
  n2 = n2
  Names <- MCNames
  Matching <- MCMatching
  MaxRecords = 3
  Clients = {"list", "extract", "extractall", "files"}
SPECIFICATION Spec
INVARIANTS TypeOK ListingMatchesDirectory
