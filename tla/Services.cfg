CONSTANTS
    h1 = h1
    h2 = h2
    a1 = a1
    c1 = c1
    c2 = c2
    c3 = c3
    Checks = {c1, c2}
    MaxRotations = 1
    MaxFaults = 1
    Steps = 2
    RetryLimit = 2
    MaxSaid = 2
    MaxDeaths = 1
    MaxRetires = 1
    Polls = {1, 2}
    Creds = {"k1", "k2", "k3"}
    Projects = {"A", "B"}
    ProjectOf <- MCProjectOf
    Nothing = "nothing"
    MaxSpend = 1
    MaxChanges = 2
    Deliveries = {1, 2, 3}
    RefusalOf <- MCRefusalOf
    MaxTakes = 2
    Buttons = {"return", "resolve", "handoff"}
    MaxWrites = 4
    MaxClicks = 1
    MaxUpsets = 1
SPECIFICATION UnionSpec
INVARIANTS CountIsTold ClearedStaysClear StepOnce ServedIsCurrent FigureIsTheMonth HealthIsPresent ToldBeforeHandedOff OneOpenWindow AgreesWhenQuiet TakenOverStaysQuiet
PROPERTIES DeliveredStays ClaimsUnderNoClick
CHECK_DEADLOCK FALSE
