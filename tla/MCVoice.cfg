SPECIFICATION VoicedSpec
CONSTANTS
  Request = {r1, r2, r3}
  Key = {k1, k2}
  NoKey = NoKey
  Nothing = Nothing
  Patient = FALSE
  MaxFaults = 1
  Upload = {u1, u2}
  Foreign = {u2}
  NoAudio = NoAudio
  AgentUrl = AgentUrl
  Fallback = TRUE
INVARIANTS
  SettledKeysCreateNothing
  NamesAreStored
  NothingForTheDeleted
  PlayableAndOwn
  VoiceIsHeard
SYMMETRY Symmetry
CHECK_DEADLOCK FALSE
