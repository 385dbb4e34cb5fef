CONSTANTS
    Component = {"agentInputRecovery", "coordinator", "runtimeEvents",
                 "primaryToolGateway", "healthServer", "recoverySupervisor",
                 "ringDeliveryEngine", "paneRetention", "instanceRuntime",
                 "herdrSocketEventDrain", "herdrSocketIngress"}
    Nothing = Nothing
    MaxFailures = 1
SPECIFICATION FairSpec
CHECK_DEADLOCK FALSE

    
PROPERTIES
    ShutdownEnds
