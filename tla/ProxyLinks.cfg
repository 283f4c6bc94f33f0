SPECIFICATION Spec
CONSTANTS
    Proxy = {p1, p2}
    Account = {a1, a2}
    NoProxy = NoProxy
    NoAccount = NoAccount
    ProxyName = {"n"}
    Url = {"u1", "u2"}
    AccountName = {"x"}
    Suffixed = "x 4f2a"
    Payload <- MCPayload
    Handler = {h1, h2, h3}
    Direct = Direct
SYMMETRY MCSymmetry
INVARIANTS TypeOK CallsGoTheirWay
PROPERTIES DanglesOnlyByRace KeepsUnlessRaced ImportedAsFiled PanicsOnlyByRace
CHECK_DEADLOCK FALSE
