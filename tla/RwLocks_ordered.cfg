SPECIFICATION FairSpec
CONSTANTS
    t1 = t1
    t2 = t2
    t3 = t3
    catalog = catalog
    categories = categories
    auth = auth
    styles = styles
    Tasks = {t1, t2, t3}
    Locks <- AllLocks
    Handlers = {"layer_switch", "delete_category", "update_category"}
    Script <- Scripts
INVARIANT
    NoDeadlock
PROPERTY
    RequestsEnd
