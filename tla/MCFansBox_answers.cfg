SPECIFICATION FairSpec
CONSTANTS
 None = None
 Uplinks = {"clr", "rep", "accept", "reject", "stby", "disregard", "mgmt"}
 MaxUplinks = 2
 MaxKeys = 1
 MaxChanges = 1
PROPERTY UplinksAreSettled
