SPECIFICATION Spec
CONSTANTS
    Peers <- TwoPeers
    Asn <- External
    RouterId <- MCAddr
    Reflector = FALSE
    Clients <- NoClients
    NextHopSelf <- NoClients
    NextHop <- NoNextHop
    DeniedIn <- NoPairs
    DeniedOut <- NoPairs
    MyAsn = 1
    MyId = 1
    MyCluster = 1
    Hops <- MCHops
    Local = Local
    None = None
    Offers <- ExternalOffers
    Addr <- MCAddr
    Costs = {0}
    Operations = {"reopen", "answer", "add_network", "del_network", "clear_rib", "igp"}
    MedType = "always-compare"
    MaxUint8 = 255
INVARIANTS
    RtFollowsLocRib
