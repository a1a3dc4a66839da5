CONSTANTS
  nil = nil
  Sources <- MCSources
  Letters <- MCLetters
  Digits <- MCDigits
  lower <- MClower
  Keywords <- MCKeywords
  Symbols <- MCSymbols
SPECIFICATION Spec
INVARIANTS NothingLost Relexes LongestMatchRight LocationExact
PROPERTIES LexEnds
CHECK_DEADLOCK FALSE
