SPECIFICATION FairSpecUART
CONSTANTS
  Divisor = 2
  Formats <- EveryFormat
  WordsOf <- TwoWords
  NoWord = NoWord
INVARIANTS TypeOKTx BitTiming InFlightBound
PROPERTIES ImplementsSender EchoIntact EchoArrives
