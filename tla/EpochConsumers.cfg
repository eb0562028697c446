CONSTANTS
    Stacks = {"a", "b"}
    Desyncs = {"x"}
    MaxEpoch = 2
    MaxMessages = 2
    MaxFaults = 2
SPECIFICATION Spec
INVARIANTS EmissionPerDelivery MeterAccounts
PROPERTIES  AllSettle ResiduesAnnounced
CHECK_DEADLOCK FALSE
