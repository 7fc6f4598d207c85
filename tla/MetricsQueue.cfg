CONSTANT MaxItems = 5
SPECIFICATION Spec
INVARIANTS NewestKept
PROPERTIES FreshDelivery ImplementsFeed
CHECK_DEADLOCK FALSE
