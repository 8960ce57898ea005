SPECIFICATION Spec
CONSTANTS
    adm = adm
    usr = usr
    kiosk = kiosk
    t1 = t1
    t2 = t2
    t3 = t3
    t4 = t4
    t5 = t5
    r1 = r1
    r2 = r2
    Users = {adm, usr}
    Admins = {adm}
    Kiosks = {kiosk}
    Tokens = {t1, t2, t3, t4, t5}
    Requests = {r1, r2}
    Stored <- MCStored
    NoUser = NoUser
    NoRow = NoRow
    NoToken = NoToken
INVARIANTS TypeOK TokenOwner LockoutHolds PurgeBound
SYMMETRY MCSymmetry
