SPECIFICATION FairSpec

CONSTANT Driver = "dll"

PROPERTY StopHonoured
