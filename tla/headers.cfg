SPECIFICATION Spec
CONSTANTS
  nMedianTimeSpan = 3
  MaxHeight = 7
  Radix = 4
  MantissaDigits = 3
  UintLimit = 1048576
  powLimit = 4095
  nPowTargetTimespan = 16
  nPowTargetSpacing = 8
  fPowNoRetargeting = FALSE
  fPowAllowMinDifficultyBlocks = FALSE
  nHeightEffective = 0
  OldTimespanFactor = 2
  NewProtocolHeight = 5
  NEW_RULES_ACTIVATION_HEIGHT = 3
  TRANSITION_WINDOW = 2
  SecondTier = 2
  ThirdTier = 4
  MaxFutureBlockTime = 40
  nMinerConfirmationWindow = 2
  nRuleChangeActivationThreshold = 2
  Deployment <- MCDeployment
  vDeployments <- MCvDeployments
  nAuxpowStartHeight = 3
  UpgradeWindow = 8
  Bit = {3, 21}
  TimeMax = 1000000
  GenesisBlock <- MCGenesis
  Clock = {100, 200}
  Mined <- MCMined
  MaxForks = 1
  MaxHeaders = 8
INVARIANTS AncestorExact StatesExact Reacceptable RetargetsSound
