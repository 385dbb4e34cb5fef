CONSTANTS
    Component = {"coordinator", "healthServer", "ringDeliveryEngine", "paneRetention"}
    Nothing = Nothing
    MaxFailures = 1
SPECIFICATION Spec
CHECK_DEADLOCK FALSE
INVARIANTS
    OwnershipOutlivesWriters
