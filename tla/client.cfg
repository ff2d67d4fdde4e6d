CONSTANTS
    Views <- MCViews
    MaxWrites = 2
    KnownStale <- Untold
    KnownOverwrite = {"edit-expense", "edit-profile"}
    People = {"ann", "bob", "sue"}
    Role <- MCRole
    Suspended = {}
    MaxTokens = 2
    Nobody = "nobody"
SPECIFICATION Spec
INVARIANTS TypeOK OwnWritesShown OneIdentity TokenKept DataOfItsUser
PROPERTIES EditsBuildOnOwnWrites
CHECK_DEADLOCK FALSE
