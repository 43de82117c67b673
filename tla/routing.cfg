SPECIFICATION Spec
CONSTANTS
    Holders = {h1, h2}
    Routes = {r1, r2, r3}
    None = None
SYMMETRY Symmetry
INVARIANTS
    CloneIsCurrent
    VisitedOnce
    NewestFirst
    MarkKept
PROPERTY ImplementsItinerary
