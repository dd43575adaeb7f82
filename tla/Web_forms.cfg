SPECIFICATION Spec
CONSTANTS
  Tenants = {1, 2}
  Scenes <- MCScenes
  MaxSignIns = 3
  MaxOpenings = 2
  MaxSubmits = 3
  NoSession = NoSession
  NoAnswer = NoAnswer
INVARIANTS SessionHangsTogether RefusedHadNoEffect  OneEffect
PROPERTIES EverySubmissionEnds
CHECK_DEADLOCK FALSE
