SPECIFICATION OrgSpec
CONSTANTS
    t1 = t1
    t2 = t2
    t3 = t3
    TenantIds = {t1, t2, t3}
    SeedOrgs <- CompanyAndDepartment
    MaxOrgId = 4
    MaxRestarts = 1
    MayFail = TRUE
INVARIANTS
    OrgTypeOK
    TenantsUnique
    ScopeCoversTree
    ScopeWithinTree
\* The bound on ids can leave nothing to do once every organisation is deleted.
CHECK_DEADLOCK FALSE
