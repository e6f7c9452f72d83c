SPECIFICATION FairSpec
CONSTANT MaxOpens = 1
PROPERTY OpenSettles
CHECK_DEADLOCK FALSE
