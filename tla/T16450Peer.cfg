SPECIFICATION SpecPeer
CONSTANTS
  Divisor = 1
  Formats <- Short
  WordsOf <- TwoWords
  StartLengths <- Skewed
  GlitchMax = 6
INVARIANTS TypeOKRx FramesHeard WordReady
PROPERTIES ErrorsOfTheLine WordsReturned
