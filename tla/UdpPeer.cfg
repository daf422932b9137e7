CONSTANTS
    Nodes = {laptop, phone}
    Bindings = {"own", "any"}
SPECIFICATION PeerSpec
INVARIANTS HearsOthersOnly
