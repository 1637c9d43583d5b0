CONSTANTS
    NetCount = 7
    StopEvery = 2
    MaxBatch = 2
    ClockNet = 7
    Netlists <- MCNetlists
    IsaBits = 16
    IsaValues <- MCIsaValues
    IsaImms <- MCIsaImms
    Shamts <- MCShamts
    Parcels <- MCParcels
SPECIFICATION MCSpec
INVARIANTS SettlesExactly NoAdvanceAfterError BusesCurrentAtReturn ClockSourcesInPhase InstructionsAreExact
