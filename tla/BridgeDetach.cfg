CONSTANTS
  r1 = r1
  r2 = r2
  shop = shop
  help = help
  old = old
  new = new
  None = None
  Requests <- RequestsOne
  Instances <- InstancesOne
  Confs <- ConfsOne
  Accounts <- AccountsShop
  Servers <- ServersNew
  Fallback = {1}
  MaxInboxes = 2
  MaxHooks = 1
  Faults = {}
SPECIFICATION Spec
INVARIANT DetachedIsQuiet
