CONSTANTS
  Handlers = {h1, h2}
  Texts <- MCTexts
  Norm <- MCNorm
  Kind <- MCKind
  Deferred <- MCDeferred
  Huge <- MCHuge
  Inputs <- MCInputs
  Configs <- MCConfigs
  MaxRequests = 3
SPECIFICATION Spec
INVARIANT RightAnswer
PROPERTY CachesSpec
