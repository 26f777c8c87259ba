CONSTANTS
    god = god
    player1 = player1
    player2 = player2
    godName = godName
    playerName = playerName
    Sessions = {s1, s2, s3}
    Players = {god, player1, player2}
    God = god
    Names = {godName, playerName}
    NoPlayer = noPlayer
    FirstName <- MCFirstName
    HashConcurrency = 2
    MaxPlayers = 1
    RetryLimit = 2
    MaxJobs = 3

SPECIFICATION Spec
INVARIANTS
    PlayersAlive
    JobsAccounted
    UniqueNames
    CapacityHolds
PROPERTIES
    NoStaleLogin
    ResetsAuthorized
SYMMETRY Symmetry
