SPECIFICATION Spec
CONSTANTS
    Tabs = {t1, t2}
    PageIds = {p1, p2, p3}
    ComponentIds = {c1, c2, c3}
    None = None
SYMMETRY Symmetry
INVARIANTS TypeOK PageListed SelectionOnPage
PROPERTIES WorkKept
