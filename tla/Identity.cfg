SPECIFICATION MCSpec
CONSTANTS
    w1 = w1  w2 = w2  agent = agent  sa = sa  read = read  kit = kit  login = login  jti = jti
    ann = ann  bob = bob
    Kinds = {"codes", "assertions", "clients", "actors", "permissions", "invites", "logins"}
    Workers = {w1, w2}
    Agents = {agent}
    ServiceAccounts = {sa}
    Scopes = {read}
    DefaultScopes = {read}
    Toolkits = {kit}
    Codes = {login}
    Assertions = {jti}
    IssuerOf <- Issuer
    MaxTtl = 2
    MaxFamilies = 2
    MaxRefresh = 3
    MaxRestarts = 1
    People = {ann, bob}
    Grantable <- Grants
    Threshold = 2
    MaxInvites = 2
    MaxFailures = 4
SYMMETRY Symmetry
INVARIANTS TypeOK OneRotatable FamilyRevokedWholeSerial CodeBuysOneFamily GuessesBounded InvitationsSingle
PROPERTIES ArchivedForGood AssertionsSound AdministratorsAccounted
CHECK_DEADLOCK FALSE
