SPECIFICATION MCSpec
CONSTANTS
    Names = {"file", "l1", "l2", "l3"}
    File = "file"
    Nobody = "nobody"
    Stackers <- MCStackers
    Tables <- MCTables
    Types <- MCTypes
    Bodies <- MCBodies
    MaxAppends = 4
    MaxRows = 5
    MaxLevel = 2
INVARIANTS StackIsSound ResolutionIsSound GridKeepsRows
PROPERTY AnswersStay
