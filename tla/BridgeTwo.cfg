CONSTANTS
  r1 = r1
  r2 = r2
  shop = shop
  help = help
  old = old
  new = new
  None = None
  Requests <- RequestsTwo
  Instances <- InstancesTwo
  Confs <- ConfsTwo
  Accounts <- AccountsEmpty
  Servers <- ServersNew
  Fallback = {9}
  MaxInboxes = 2
  MaxHooks = 1
  Faults = {"call", "lost", "db", "crash", "delete", "late", "twin"}
SPECIFICATION CrewSpec
SYMMETRY Symmetry
INVARIANT TypeOK
INVARIANT AttachedIsReady
INVARIANT DetachedIsQuiet
INVARIANT FixedIsWired
INVARIANT RowsNameOwnInbox
PROPERTY AITurnsOnWired
