SPECIFICATION MCSpec
CONSTANTS
  None = None
  NoPayload = NoPayload
  c1 = c1
  c2 = c2
  EdgeCases <- MCCases
  ClaimsOf <- MCClaims
  Permits <- MCPermits
  MaxTouches = 1
  Docs <- MCDocs
  Known <- MCKnown
  Features = {"metrics", "health"}
  MaxRequests = 2
  Names <- MCNames
  Secrets <- MCSecrets
  SessionIds <- MCSessionIds
  MaxNow = 2
  MaxSkew = 1
  MaxMints = 1
  MaxEdits = 1
  Wide = 4
  Policies = {"ring", "flat", "broken"}
  PermissionsOf <- MCPermissions
  RolesOf <- MCRoles
  RulesOf <- MCRules
  Subjects <- MCSubjects
  Wanted <- MCWanted
  Installers = {c1, c2}
  MaxInstalls = 3
INVARIANTS
  EdgeDecides
  AssemblyHolds
  VerdictsAreCurrent
  RequestsAsWritten
PROPERTIES
  EffectsMatchAnswers
\* Requests are answered, policies installed, and the application done.
CHECK_DEADLOCK FALSE
