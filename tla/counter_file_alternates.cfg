SPECIFICATION FairSpec
CONSTANT Limit = 6
PROPERTIES ParentFollowsChild
CHECK_DEADLOCK FALSE
