SPECIFICATION LimiterSpec
CONSTANTS
    PerHour = 3
    Hour = 4
    Callers = 2
    MaxRestarts = 1
INVARIANTS LimiterTypeOK CreatesAreBounded
