SPECIFICATION FairSpec
CONSTANTS
    g1 = g1
    g2 = g2
    g3 = g3
    Grabs <- MCGrabs
    Main = Main
    Live = Live
    NoThread = NoThread
    MaxRetries = 2
PROPERTY GrabReturns
