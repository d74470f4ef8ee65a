SPECIFICATION Spec
CONSTANTS
  small = small
  large = large
  service = service
  k1 = k1
  k2 = k2
  k3 = k3
  cpu = cpu
  io = io
  Resources = {cpu, io}
  Owners = {small, large}
  Services = {service}
  LeaseIds = {l1, l2, l3}
  Launchers = {k1, k2, k3}
  ParentOf <- TwoReviewsParent
  Containers = {c1}
  Builds = {b1, b2}
  Demand <- TwoReviewsDemand
  Limit <- TwoReviewsLimit
  MaxBuilds <- TwoReviewsBuilds
  RemovalOwners = {large}
  None = None
INVARIANT WithinBudget WorkCharged LeaseIntact NestedInside BuildsBounded
SYMMETRY Symmetry
