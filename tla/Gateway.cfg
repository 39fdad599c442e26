\* One request at a time, among others that change the mappings.
CONSTANTS
  Requests = {r1}
  a1 = a1
  a2 = a2
  p0 = p0
  p1 = p1
  p2 = p2
  Accounts <- MCAccounts
  Platform = Platform
  Visitor = Visitor
  Nobody = Nobody
  Pages <- MCPages
  NoPage = NoPage
  Owner <- MCOwner
  Published <- MCPublished
  Deployments <- MCDeployments
SPECIFICATION Spec
INVARIANTS
  AuditTrail
  OwnTenantOnly
  HonestAnswer
