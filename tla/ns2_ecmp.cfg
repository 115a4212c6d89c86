SPECIFICATION EcmpSpec
CONSTANTS
    NumSlots = 5
    NodeId = 9
    Srcs = {1}  Dsts = {2, 3}  Fids = {1, 7, 200, 70000}
    Prios = {0, 1, 3}
    Modes = {"flow", "path", "turn"}
INVARIANT EvenTurns
PROPERTY ChangeIsLocal
