SPECIFICATION Spec
CONSTANTS
  Doubles <- MCDoubles
  Counts <- MCCounts
  Ranges <- MCRanges
  Overflowing <- MCOverflowing
  CommandLines <- MCCommandLines
  Abbreviations <- MCAbbreviations
  Texts <- MCTexts
  Largest = 1000000
  Circuits <- MCCircuits
  Translations <- MCTranslations
INVARIANTS
  ParsedInOrder
  PermutedStably
  IsoDifferenceSet
  FoundRangesCover
CHECK_DEADLOCK FALSE
