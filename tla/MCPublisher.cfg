SPECIFICATION Publishing
CONSTANTS
  Drafts = {d1, d2}
  Sources = {s1}
  Destinations = {web}
  Copies = {x, y, secret}
  Unsafe = {secret}
  Callers = {owner, other, cli}
  Publishers = {cli}
  Editors = {owner, other}
  SiteCallers = {owner, cli}
  Site = web
  SlugOf <- OwnSlugs
  MaxVersion = 3
  MaxRevision = 2
  MaxCommits = 3
  MaxCrashes = 1
INVARIANTS TypesOK SiteIsExported RecordsTrue
PROPERTIES ExportsCurrent
SYMMETRY Symmetry
CHECK_DEADLOCK FALSE
