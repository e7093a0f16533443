SPECIFICATION Spec
CONSTANTS
    alice = alice
    bob = bob
    reader = reader
    writer = writer
    Clients = {alice, bob}
    Roles = {reader, writer}
    Structured <- MCStructured
    Raw <- MCRaw
    Custom = {5}
    NoBytes = NoBytes
    NotJson = NotJson
    NotObject = NotObject
    Null = Null
    MaxVersions = 3
SYMMETRY Symmetry
INVARIANTS
    TypeOK
    NoLostUpdate
    SettingBackKeepsAll
    ResultsAreVersions
    ThrowsOnlyOnNoObject
CHECK_DEADLOCK FALSE
