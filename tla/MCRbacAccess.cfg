SPECIFICATION Spec
CONSTANTS
    Machines = {m1, m2}
    Users = {u1}
    Roles = {admin, viewer}
    Default = viewer
    Perms = {p1}
    Calls = {c1, c2}
    Readers = {q1}
    MaxGrants = 2
    NoGrant = NoGrant
    NoRole = NoRole
    NoLoad = NoLoad
    NoEntry = NoEntry
    m1 = m1
    m2 = m2
    u1 = u1
    admin = admin
    viewer = viewer
    p1 = p1
    c1 = c1
    c2 = c2
    q1 = q1
INVARIANTS
    TypeOK
    StaleHasReason
    GrantsSound
PROPERTIES
    AgreesAtLast
