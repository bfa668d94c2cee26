\* Every service with the backlogs of MCBacklogs, two faults, one request in flight.
CONSTANTS
    Services <- MCServices
    Backlogs <- MCBacklogs
    FlawedSettings = {"KAFKA_BROKERS", "REDIS_ADDR"}
    MaxRPCs = 1
    MaxFaults = 2
SPECIFICATION FairSpec
INVARIANTS
    CommittedIsHandled
    HandledOnce
    ServedWithResources
PROPERTIES
    FailureStopsProcess
    BacklogConsumed
