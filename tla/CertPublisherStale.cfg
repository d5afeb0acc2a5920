SPECIFICATION Spec
CONSTANTS
    h1 = h1
    h2 = h2
    web = web
    db = db
    d1 = d1
    d2 = d2
    group = group
    task = task
    s1 = s1
    Host = {h1}
    Service = {web, db}
    Domain = {d1, d2}
    DomainOf <- Domains
    Place = {group, task}
    Jobs <- Shrinks
    Secret = {s1}
    None = None
    Unissued = {}
    Lifetime = 2
    MinValidity = 1
    MaxTime = 1
    MaxUpsets = 1
PROPERTY AttributedRight
