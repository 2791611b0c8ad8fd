CONSTANTS
    Zodiac <- MCZodiac
    MaxNumber = 49
    RegularCount = 6
    TopAnimals = 6
    Issues = {1, 2, 3, 4}
    OpenTime <- MCOpenTime
    Draws <- MCDraws
    NoDraw = NoDraw
    RecentDraws = 2
    CandidateCount = 5
    CombinationCount = 4
SPECIFICATION CombinationSpec
INVARIANT ZodiacWheel
INVARIANT CountsAddUp
INVARIANT ListedIffAnalysable
INVARIANT GroupsFollowCandidates
PROPERTY HistoryIsStable
PROPERTY ListedForGood
PROPERTY ComparedWithEarlierDraws
