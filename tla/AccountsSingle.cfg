\* One apl-server process, as docs/nginx.conf deploys it.
CONSTANTS
    Servers = {apl}
    Ids = {a}
    Pwds = {p1, p2}
    Devices = {d1, d2}
    None = None
    MaxDocs = 2
SPECIFICATION Spec
INVARIANTS OneDocumentEach LoginIsEffective SellersAreComplete
SYMMETRY Symmetry
