SPECIFICATION Spec
CONSTANTS
    Files = 2
    Passage = {a}
    Clock = {1}
    Editor = {e1}
    Creator = {c1}
    Restorer = {r1}
    Attempts = 2
    InFlight = 2
PROPERTIES NothingUnseenLost EveryStepCounts
