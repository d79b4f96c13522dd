SPECIFICATION Spec
CONSTANTS
    Copies <- MCCopies
    Speeds <- MCFast
    Games <- MCGames
    MaxOther = 1
    MaxCalibrations = 1
INVARIANTS WordsAgree LastChoiceStands PresetsOrdered ChainsMatch GameAtItsLevel
PROPERTY OffMeansOff
