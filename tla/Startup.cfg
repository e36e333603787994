\* Files of up to four lines, from no descriptor to spare to plenty.
CONSTANTS
    MaxLines = 4
    Lines <- SomeLines
    Limits = {3, 5, 8, 10, 16, 40}
SPECIFICATION Spec
INVARIANTS
    TypeOK
    ConfigFaithful
    
    
    WorkersComplete
    DescriptorBudget
    NoneServesUnprepared
PROPERTIES
    BootsWithRoom
CHECK_DEADLOCK FALSE
