\* The console form over the decision engine, from every scenario.
CONSTANTS
    Scenarios <- MCScenarios
    Levels <- MCLevels
    Rates <- MCRates
    Rains <- MCRains
    Confidences <- MCConfidences
    Boxes <- MCBoxes
SPECIFICATION Spec
INVARIANTS
    LaddersAgree
    DepartureClearsTheRoute
PROPERTY EscalationNeverRelaxes
