CONSTANTS
    Peers = {p, d}
    Nobody = Nobody
    Prompt = {p}
    H = 3
    Window = 2
    MaxInTransit = 2
    MaxConnects = 2
SPECIFICATION Spec
INVARIANTS InFlightExact StallingJustified 
PROPERTY AllDownloaded
