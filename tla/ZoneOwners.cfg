SPECIFICATION Spec
CONSTANTS
    z1 = z1
    z2 = z2
    z3 = z3
    d1 = d1
    d2 = d2
    n1 = n1
    n2 = n2
    n3 = n3
    adm = adm
    own = own
    r1 = r1
    r2 = r2
    Zones = {z1, z2, z3}
    Names = {n1, n2, n3}
    NameOf <- OwnNames
    Records = {}
    Accepted <- Everywhere
    Inside <- Everywhere
    SerialWidth = 1
    Users = {adm, own}
    Admins = {adm}
    Editable = {}
    Requests = {r1}
    Refresher = refresher
    MaxTotal = 2
    MaxActive = 1
    MaxRejected = 1
    MaxCommits = 2
    None = none
SYMMETRY ZoneSymmetry
INVARIANTS OwnerLimits
