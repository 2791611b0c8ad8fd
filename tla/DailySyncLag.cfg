CONSTANTS
    DaySlots = 5
    DrawSlot = 1
    SyncSlot = 2
    Retries = 2
    RetrySlots = 1
    Window = 3
    LastDay = 7
    MaxFaults = 4
SPECIFICATION Spec
PROPERTY StopsEarlyWithTodaysDraw
