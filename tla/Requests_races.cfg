SPECIFICATION Spec
CONSTANTS
    ann = ann
    bob = bob
    cel = cel
    dan = dan
    Feeds = {ann, bob, cel, dan}
    Names = {"x", "X!"}
    ValidNames = {"x"}
    Secrets = {"old", "new"}
    Languages = {"en", "de"}
    Pins = {"description"}
    Requests = {1, 2, 3}
    Agenda <- MCAgenda
INVARIANTS
    Integrity
    ActsAsItself
    TokensUsedOnce
    AdmissionJustified
PROPERTIES
    DatabaseSteps
    RoleChangeKeepsAdmin
    AliasRevokedByOwner
    PasswordSetByOwner
    OldTokensGo
CHECK_DEADLOCK FALSE
