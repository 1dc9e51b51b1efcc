SPECIFICATION Spec
CONSTANTS
    LastName = 2
    MaxLength = 1
    Slack = 1
    Sizes = {1, 3}
    Sources <- MCSources
    Registries <- MCRegistries
    Places <- MCPlaces
    Absent = Absent
    Other = Other
    MaxChanges = 2
INVARIANTS ReadWasInForce ExpansionWhole StringsFit HeapBalanced
