SPECIFICATION Spec
CONSTANTS
    k1 = k1  p1 = p1  c1 = c1  adm1 = adm1  adm2 = adm2  adm3 = adm3
    NoRow = NoRow
    Account = {k1}
    Proxy = {}
    Client = {c1}
    Admin = {adm1, adm2, adm3}
    MaxHash = 3
SYMMETRY Symmetry
CONSTRAINT HashInPlace
INVARIANTS TypeOK PasswordOpensSecrets StoredKeyOpensSecrets ServiceReadsSecrets
