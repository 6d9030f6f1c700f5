SPECIFICATION RedisSpec
CONSTANTS
    Commands = {c1, c2}
    Auth = Auth
    Quit = Quit
    MaxRetries = 2
    MaxDrops = 2
    MaxConnects = 2
INVARIANT RepliesMatchCommands
CHECK_DEADLOCK FALSE
