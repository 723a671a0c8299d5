SPECIFICATION FairSpec
CONSTANTS
    Tokens = {1, 2, 3, 4}
    NoToken = 0
    Procs = {p1, p2}
    NoProc = NoProc
    Conns = 2
ACTION_CONSTRAINT IssuedInOrder
PROPERTIES OlderLinksBurned LinksAreOneShot EveryRequestAnswered
