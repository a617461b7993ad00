SPECIFICATION MCSpec
CONSTANTS
    ann = ann
    bob = bob
    cid = cid
    annMail = annMail
    bobMail = bobMail
    cidMail = cidMail
    n1 = n1
    n2 = n2
    c1 = c1
    c2 = c2
    chrome = chrome
    phone = phone
    x1 = x1
    x2 = x2
    d1 = d1
    d2 = d2
    d3 = d3
    NoRow = NoRow
    Users = {ann, bob, cid}
    Emails = {annMail, bobMail, cidMail}
    Nicks = {n1, n2}
    Registered <- Members0
    Clients = {c1, c2}
    MaxRequests = 3
    Addresses = {annMail, bobMail}
    Codes = {k1, k2}
    NoCode = NoCode
    Asks = {q1, q2}
    MaxAsks = 4
    Authors = {ann}
    ArticleIds = {a1}
    LikeIds = {l1, l2}
    CommentIds = {m1, m2}
    None = None
    MaxExpiries = 1
    MaxActs = 4
    Browsers = {chrome, phone}
    Pushes = {p1}
    Nobody = Nobody
    MaxTokens = 2
    MaxSent = 4
    Limit = 2
    MaxRows = 4
    PageSize = 2
    MaxChanges = 2
    MaxPlaces = 4
    Absent = Absent
    Connections = {x1, x2}
    Requests = {d1, d2, d3}
    NoOne = NoOne
CONSTRAINTS Halves Fewer
SYMMETRY Symmetry
INVARIANTS
    TypeOK
    SessionsByAccepted
    DecisionsStand
    VerifiedWasMailed
    LastCodeOpens
    ViewsNotInflated
    LikeStands
    CommentsAreTold
    OneUserPerBrowser
    HistoryComplete
    PagesMissAtMost
    SomeoneReturns
CHECK_DEADLOCK FALSE
