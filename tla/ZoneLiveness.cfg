SPECIFICATION FairSpec
CONSTANTS
    z1 = z1
    z2 = z2
    z3 = z3
    d1 = d1
    d2 = d2
    n1 = n1
    n2 = n2
    n3 = n3
    adm = adm
    own = own
    r1 = r1
    r2 = r2
    Zones = {z1}
    Names = {n1}
    NameOf <- SameName
    Records = {}
    Accepted <- Everywhere
    Inside <- Everywhere
    SerialWidth = 1
    Users = {adm, own}
    Admins = {adm, own}
    Editable = {adm}
    Requests = {r1}
    Refresher = refresher
    MaxTotal = 0
    MaxActive = 0
    MaxRejected = 0
    MaxCommits = 2
    None = none
PROPERTIES EventuallyServed RequestsFinish DecidedByAdmin
