\* One apl-server process; a statement of a comment in user/session.cpp.
CONSTANTS
    Servers = {apl}
    Ids = {a}
    Pwds = {p1, p2}
    Devices = {d1, d2}
    None = None
    MaxDocs = 2
SPECIFICATION Spec
INVARIANT LogoutIsServed
SYMMETRY Symmetry
