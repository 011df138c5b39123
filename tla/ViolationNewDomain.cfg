SPECIFICATION Spec
CONSTANTS
    Consumers = {i1}
    Urls = {"p", "n"}
    Domains = {"seeded", "new"}
    SeededDomains = {"seeded"}
    Forms = {"good"}
    BatchSize = 2
    DocsMaxLen = 2
    MaxRetries = 3
    MaxDocs = 2
    MaxUpsets = 0
    DomainOf <- MCDomainOf
INVARIANT NewDomainsAreIndexed
CHECK_DEADLOCK FALSE
