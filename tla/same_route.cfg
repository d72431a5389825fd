SPECIFICATION Spec
CONSTANTS
    Peers <- TwoPeers
    Asn <- AllInternal
    RouterId <- MCAddr
    Reflector = TRUE
    Clients <- TwoClients
    NextHopSelf <- NoClients
    NextHop <- NoNextHop
    DeniedIn <- NoPairs
    DeniedOut <- NoPairs
    MyAsn = 1
    MyId = 1
    MyCluster = 1
    Hops <- SameHops
    Local = Local
    None = None
    Offers <- SameOffers
    Addr <- MCAddr
    Costs = {0}
    Operations = {}
    MedType = "always-compare"
    MaxUint8 = 255
INVARIANT
    ClientsReached
CHECK_DEADLOCK FALSE
