SPECIFICATION FairSpec
CONSTANTS
    Configs <- Servers
    MaxFd = 2
INVARIANTS SocketsAccountedFor RoutesAreTrue RepliesReachTheirClient  BacklogIsNoticed
PROPERTIES PeersAreConnected
