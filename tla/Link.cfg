SPECIFICATION FairSpec
CONSTANTS
    MaxAttempts = 2
    Tasks = {"auto"}
    OrdersOnLink = FALSE
INVARIANTS IInv Connectable
PROPERTIES NoWipe KeepsTrying NotStranded
