SPECIFICATION Spec
CONSTANTS
    z1 = z1
    z2 = z2
    z3 = z3
    d1 = d1
    d2 = d2
    n1 = n1
    n2 = n2
    n3 = n3
    adm = adm
    own = own
    r1 = r1
    r2 = r2
    Zones = {z1}
    Names = {n1}
    NameOf <- SameName
    Records = {d1}
    Accepted <- Everywhere
    Inside <- Everywhere
    SerialWidth = 1
    Users = {adm}
    Admins = {adm}
    Editable = {}
    Requests = {r1, r2}
    Refresher = refresher
    MaxTotal = 0
    MaxActive = 0
    MaxRejected = 0
    MaxCommits = 3
    None = none
SYMMETRY RequestSymmetry
PROPERTIES StaleWritesRejected
