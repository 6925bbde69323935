CONSTANTS
  f1 = f1
  f2 = f2
  betterpark = betterpark
  parkdepot = parkdepot
  Flows = {f1, f2}
  Identifiers = {"BAB1", "MXY2"}
  Empty = ""
  Spellings = {"B AB-1", "BAB1", "m xy 2", " - "}
  Normalized <- NormalizedSpellings
  Providers = {betterpark, parkdepot}
  Halves <- HalfMinutes
  MaxAdditions = 3
SYMMETRY FlowSymmetry
SPECIFICATION Spec
INVARIANTS
  TypeOK IdentifiersUnique
PROPERTIES
  OthersKept IdentityStable KeepsRegistry
