SPECIFICATION FairSpec
CONSTANTS
  W = 3
  Lists <- ThreeLists
  ClkDividers = {0, 1, 2, 4}
  RstDividers = {0, 3}
PROPERTIES ImplementsList MosiSteady
