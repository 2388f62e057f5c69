SPECIFICATION Spec
CONSTANTS
  Keys = {k1}
  SessionGap = 3
  ForgetAfter = 8
  MaxGap = 3
  Cap = 13
  MaxOpenings = 3
  MaxHidden = 2
INVARIANT TypeOK
INVARIANT SessionsAreOpenings
INVARIANT EndpointsAreForgotten
PROPERTY DurationIsUse
PROPERTY RepeatsAreRecognised
