SPECIFICATION FairSpec
CONSTANTS
    Users = {u1}
    Requests = {q1, q2}
    Addresses = {a1, a2}
    Tokens = {k1}
    MaxChanges = 1
    NoUser = NoUser
    NoAccount = NoAccount
    NoRow = NoRow
    NoToken = NoToken
INVARIANTS
    TypeOK
    TablesAgree
    AloneSetsRole
PROPERTY
    RolesConverge
