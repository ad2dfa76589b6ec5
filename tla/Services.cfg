SPECIFICATION MCSpec
CONSTANTS
    Issued <- MCIssued
    Candidate <- MCCandidate
    Said <- MCText
    Report = {h1, h2}
    Receipt = {r1, r2, r3}
    TokenOf <- MCReceipts
    res = res
    Resident = {res}
    Staff = {s}
    p1 = p1
    p2 = p2
    p3 = p3
    Params = {p1, p2, p3}
    OtherHouse = {p3}
    Key = {k1}
    x1 = x1
    x2 = x2
    x3 = x3
    x4 = x4
    Token = {x1, x2, x3, x4}
    a1 = a1
    Approval = {a1}
    NoApproval = none
    MaxTickets = 2
    MaxVersion = 8
    Thread = {t1, t2}
    call = call
    mail = mail
    Content = {call, mail}
    key = key
    Preference = {key}
    NoPreference = nokey
    Source = {s1, s2}
    Api = api
    MaxRows = 3
    MaxByApi = 1
    ApiExpiry = {FALSE}
    Updater = {u1, u2}
    NoVector = novector
    Streamed = {v1, v2}
    Capacity = 1
    Limit = 4
    MaxProgress = 3
    FailureLimit = 2
    Window = 2
    LockTime = 1
    MaxTime = 5
    Message = {m1, m2}
    ReadKey = {q1, q2}
    MaxReads = 3
    Confirm = {c1, c2, c3}
    MaxApprovals = 3
    Tab = {tab}
    Conversation = {t1, t2}
    House = {s1, s2}
    Action = {w1, w2}
    NoAction = NoAction
    Topic = {"repair", "filed", "announcement"}
    NoHead = NoHead
    NoHouse = NoHouse
    MaxRequests = 3
    h1 = h1
    h2 = h2
    r1 = r1
    r2 = r2
    r3 = r3
    ReportKey = {k1}
    Duty = {d1}
    MaxReports = 2
SYMMETRY Symmetry
INVARIANTS
    ConsumedWithItsTicket
    AppealsAreHeard
    StatementsHaveOneRecord
    StaleOnlyWhenOvertaken
    StreamsAreToldAndDrained
    FailuresAreBounded
    KeyHasOneAnswer
    OneWritePerApproval
    ConfirmedAsShown
    SlotsStayInTheirHouse
    HandedOverOnce
CHECK_DEADLOCK FALSE
