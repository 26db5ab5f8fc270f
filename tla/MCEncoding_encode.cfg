CONSTANTS
  RegNos <- MCRegNos
  Immediates <- MCImmediates
  Targets <- MCTargets
  Codes <- MCCodes
  CCs <- MCCCs
  DataWords <- MCDataWords
SPECIFICATION Spec
INVARIANTS TypeOK CopyRunsAlike
