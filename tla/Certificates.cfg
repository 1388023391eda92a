SPECIFICATION Spec
CONSTANTS
    home = home
    cabin = cabin
    c1 = c1
    c2 = c2
    c3 = c3
    Nothing = Nothing
    Entries <- MCEntries
    Clients <- MCClients
SYMMETRY MCSymmetry
INVARIANTS
    KeyIsAccountedFor
PROPERTIES
    LoadsItsOwn
