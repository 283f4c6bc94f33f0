SPECIFICATION Spec
CONSTANTS
    a1 = a1  a2 = a2  a3 = a3  m1 = m1  c1 = c1
    NoModel = NoModel  NoRoute = NoRoute
    Account = {a1, a2, a3}
    Model = {m1}
    Conversation = {c1}
    Request = {r1, r2}
    Task = {monitor}
    Monitor = monitor
    Editor = {e1}
    Weight <- MCWeight
    Call <- MCCalls
    InitialPool <- FullPool
    Budget <- CallBudget
INVARIANTS TypeOK RefusalsLoggedInOrder AnswerMatchesLog ConversationKeepsAccount
PROPERTIES ContractSpec
