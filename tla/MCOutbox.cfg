CONSTANTS
    Aggregates = {1, 2, 3}
    MaxEvents <- MCMaxEvents
    Relays = {r1, r2}
    BatchSize = 2
    Refused <- MCRefused
    MaxFaults = 1
SPECIFICATION OutboxSpec
PROPERTIES
    ImplementsDelivery
CHECK_DEADLOCK FALSE
