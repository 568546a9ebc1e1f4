SPECIFICATION Spec
CONSTANTS
 None = None
 Uplinks = {"clr", "rep", "reject", "disregard"}
 MaxUplinks = 2
 MaxKeys = 2
 MaxChanges = 1
INVARIANTS TypeOK Filed NothingIsMissed OneVerdict ReportsFollowAcceptance SelectedIsDue
PROPERTY OutcomeIsFinal
