SPECIFICATION Spec
CONSTANTS
    Peers <- MCPeers
    Asn <- Mixed
    RouterId <- MCAddr
    Reflector = TRUE
    Clients <- OneClient
    NextHopSelf <- NoClients
    NextHop <- NoNextHop
    DeniedIn <- NoPairs
    DeniedOut <- NoPairs
    MyAsn = 1
    MyId = 1
    MyCluster = 1
    Hops <- MCHops
    Local = Local
    None = None
    Offers <- MixedOffers
    Addr <- MCAddr
    Costs = {1, 2}
    Operations = {"add_network", "igp"}
    MedType = "always-compare"
    MaxUint8 = 255
INVARIANTS
    LocRibBacked
    LocRibIsBest
    PeersToldBest
