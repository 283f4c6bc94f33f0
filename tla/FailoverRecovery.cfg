SPECIFICATION FairSpec
CONSTANTS
    a1 = a1  a2 = a2  a3 = a3  m1 = m1  c1 = c1
    NoModel = NoModel  NoRoute = NoRoute
    Account = {a1, a2}
    Model = {m1}
    Conversation = {c1}
    Request = {r1}
    Task = {monitor, q1}
    Monitor = monitor
    Editor = {e1}
    Weight <- MCWeight
    Call <- OneCall
    InitialPool <- GrowingPool
    Budget <- RecoveryBudget
PROPERTIES MarkClearedOnlyOnEvidence CallsEnd CookieAccountsReturn
