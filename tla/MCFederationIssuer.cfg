SPECIFICATION Spec
CONSTANTS
  None = None
  Plans <- SlashPlan
  Subjects <- User
  Parties <- AllParties
  Foreign = "other"
  ForeignTokens <- OtherTokens
  ForeignJwks <- JwkSets
  Leeway = 1
  MaxTime = 2
  MaxRestarts = 1
  MaxText = 12
  MaxDate = 5
  Word = 16
  CodeTtl = 1
CONSTRAINTS
  ForeignAlone
INVARIANTS
  IssuersAgree
