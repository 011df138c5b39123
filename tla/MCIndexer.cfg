SPECIFICATION FairSpec
CONSTANTS
    Consumers = {i1, i2}
    Urls = {"p"}
    Domains = {"seeded", "new"}
    SeededDomains = {"seeded"}
    Forms = {"good", "garbled", "foreign"}
    BatchSize = 2
    DocsMaxLen = 1
    MaxRetries = 3
    MaxDocs = 2
    MaxUpsets = 1
    DomainOf <- MCDomainOf
INVARIANT AckedAfterWrites
INVARIANT LoggedOnce
PROPERTY RefinesStreamGroup
PROPERTY EveryBackendSettles
CHECK_DEADLOCK FALSE
