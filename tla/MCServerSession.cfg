SPECIFICATION MCSpec
CONSTANTS
    Version = 2
    Good = {"synth", "recog"}
    NoEngine = {"recorder"}
    Unknown = {"fax"}
    Offer <- AllOffers
    Limited = FALSE
    MaxOffers = 3
    MaxControls = 1
    NULL = NULL
INVARIANTS CountedExactly AnswersWhenMet
PROPERTIES ServedWhenMet
CHECK_DEADLOCK FALSE
