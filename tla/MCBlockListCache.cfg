\* Two calls, three changes of the table, one row also edited from outside.
SPECIFICATION FairSpec
CONSTANTS
    a1 = a1
    a2 = a2
    d1 = d1
    c1 = c1
    c2 = c2
    Nothing = Nothing
    Addresses <- TwoAddresses
    Domains <- OneDomain
    DomainOf <- InD1
    Clients = {c1, c2}
    Ttl = 2
    Remote <- BlockedRows
    MaxWrites = 3
INVARIANTS TypeOK SuccessIsVisible
PROPERTIES Converges
CHECK_DEADLOCK FALSE
