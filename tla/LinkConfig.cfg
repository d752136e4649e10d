SPECIFICATION FairSpec
CONSTANTS
  MaxRepeat = 2
  Width = 4
PROPERTIES
  ConfigAsksAgain
