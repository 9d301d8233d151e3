SPECIFICATION FairSpec
CONSTANTS
    Nodes = {me, n1}
    Self = me
    Addrs = {x, y, f}
    Lan = {x, y}
    Home = x
    Fwd = {f}
    Polls = {tick, more}
    Ticker = tick
    Nobody = Nobody
    Stranger = Stranger
    CandidateTTL = 0
    LanTTL = 1
    VerifiedTTL = 2
    RemoteTTL = 3
    RetrySoon = 1
    Events = {"move", "link", "lost", "tick", "crash"}
    MaxEvents = 2
INVARIANTS OneOwner RemovedStaysGone
PROPERTIES StayingPeerIsFound
