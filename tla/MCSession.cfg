SPECIFICATION FairSpec
CONSTANTS
  Tokens = {"old", "new"}
  Unreadable <- NotAscii
  NoToken = NoToken
  Slots = {s1, s2, s3}
  MaxRotations = 1
  MaxMistakes = 2
INVARIANTS TypeOK PromptsBounded
PROPERTY Recovers
