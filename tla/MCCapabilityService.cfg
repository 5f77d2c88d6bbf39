CONSTANTS
  weather = weather
  time = time
  g1 = g1
  g2 = g2
  a1 = a1
  a2 = a2
  s1 = s1
  s2 = s2
  r1 = r1
  r2 = r2
  Invalid = Invalid
  NoKey = NoKey
  Blank = Blank
  Absent = Absent
  MaxStarts = 2
  Capabilities <- MCCapabilities
  Keyed <- MCKeyed
  Configurations <- MCConfigurations
  ApiKeys <- MCApiKeys
  Secrets <- MCSecrets
  Seeds <- MCSeeds
  Requests <- MCRequests
  Commands <- MCCommands
SPECIFICATION Spec
INVARIANTS
  TypeOK
  ServedIsCommitted
  EnabledCardHasKey
PROPERTIES
  OnlySavesReplaceCards
  ReadableKeyIsKept
  SavesAreAnswered
