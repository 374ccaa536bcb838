SPECIFICATION Spec
CONSTANTS
    Tabs = {t1, t2}
    Calls = {c1, c2}
    Products = {x1}
    None = None
    Prices = {1, 2}
    MaxItems = 2
    MaxQuantity = 1
    MaxRequestIds = 2
    MaxEdits = 3
    MaxReloads = 1
SYMMETRY Symmetry
INVARIANTS TypeOK OneChargePerCart PaysWhatItAsked
