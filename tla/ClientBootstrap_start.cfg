SPECIFICATION FairSpec
CONSTANTS
    c1 = c1
    c2 = c2
    admin = admin
    editor = editor
    Clients = {c1, c2}
    Trusted = {c1}
    Users = {admin, editor}
    Admin = admin
    MaxEdits = 2
    MaxFaults = 1
PROPERTIES
    ClientStarts
CHECK_DEADLOCK FALSE
