SPECIFICATION MCSpec
CONSTANTS
    t1 = t1
    t2 = t2
    d1 = d1
    d2 = d2
    d3 = d3
    r1 = r1
    r2 = r2
    r3 = r3
    Tenants <- MCTenants
    Docs <- MCDocs
    TenantOf <- MCTenantOf
    Requests <- MCRequests
    Relays = {p1, p2}
    Batch = 2
    None = None
CHECK_DEADLOCK FALSE
INVARIANTS TypeOK EventHasObject OneEventPerDocument PublishedOnce
PROPERTY EventsArePublished
