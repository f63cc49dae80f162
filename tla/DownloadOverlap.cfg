CONSTANTS
  d1 = d1
  d2 = d2
  site = site
  noscheme = noscheme
  Blank = noscheme
  w = w
  b = b
  h1 = h1
  h2 = h2
  None = None
  Domains = {site}
  DomainOf <- MCDomainOf
  Dispatchers = {w, b}
  Perpetual = w
  Slots = 1
  Downloads = {d1}
  Handlers = {h1, h2}
  Killable = {d1}
  Editable = {}
SPECIFICATION FairSpec
INVARIANTS
  NoLeakedDomain
  PendingIsOwned
PROPERTIES
  DomainEventuallyReleased
