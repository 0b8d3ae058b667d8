SPECIFICATION Spec
CONSTANTS
    None = None
    Tabs <- TwoTabs
    Calls = {1, 2, 3}
    Users <- TwoUsers
    Tokens <- FourTokens
    MaxRequests = 3
INVARIANTS CookieGood
PROPERTIES RestoredUnlessContested StaysAsLeft TabSettles
CHECK_DEADLOCK FALSE
