SPECIFICATION Spec
CONSTANTS
    None = None
    Millisecond = 2
    Hour = 4
    Day = 8
    Requests = {r1, r2}
    Scenarios <- Everything
    TTL = 2
    Slack = 1
INVARIANTS
    TypeOK
    NoForeignFigures
    AnswersLag
    EmptyIsFresh
    PeriodsTile
    BreakdownIsExact
    DirectionIsTrue
    PeakIsPeak
    CardsAgree
SYMMETRY Alike
