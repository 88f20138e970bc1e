SPECIFICATION Spec
CONSTANTS
  Properties = {"flat"}
  Deals = {"rent"}
  Prices = {"any"}
  RoomCounts = {"any"}
  Sizes = {"any", "typed"}
  Groups <- MCGroups
  Parent <- MCParent
  Children <- MCChildren
  Messages <- MCMessages
  Handlers = {h1, h2}
  MaxSetups = 2
  MaxAlerts = 2
  MaxHurries = 1
  MaxFaults = 1
SYMMETRY MCAlike
INVARIANTS AreasAreOneGroup ReviewedIsSaved OneAlertPerSetup
