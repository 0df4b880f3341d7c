SPECIFICATION Spec
CONSTANTS
    req = req
    u1 = u1
    d1 = d1
    d2 = d2
    d3 = d3
    Users = {req, u1}
    Requester = req
    UserRoles <- MCUserRoles
    Grants <- MCGrants
    OrgUnits <- MCOrgUnits
    NoProvider = "none"
    Scope = "p"
    Steps = {1, 2, 3}
    Inactive = {{1}, {2}, {3}}
    Rules <- MCRules
    Modes <- MCModes
    Quorum <- MCQuorum
    EscalateTo <- MCEscalateTo
    Deputies <- MCDeputies
    Calls = {d1, d2, d3}
    MaxFaults = 1
SYMMETRY Alike
INVARIANTS
    ApprovedByQuorums
    DecidersAnswer
    ExecutedAgainOnlyOnOverlap
    OpenRequestIsListed
PROPERTIES
    DecidedStands
CHECK_DEADLOCK FALSE
