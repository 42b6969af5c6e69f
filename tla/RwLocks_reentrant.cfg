SPECIFICATION Spec
CONSTANTS
    t1 = t1
    t2 = t2
    t3 = t3
    catalog = catalog
    categories = categories
    auth = auth
    styles = styles
    Tasks = {t1, t2}
    Locks <- AllLocks
    Handlers = {"restricted_tile", "new_layer_page", "auth_edit"}
    Script <- Scripts
INVARIANT
    NoDeadlock
