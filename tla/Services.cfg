CONSTANTS
  Services = {"organizations", "folders", "links", "webhooks", "presence",
    "comments"}
  Users = {u1, u2}
  Requests = {r1, r2}
  Invitations = {i1}
  OrgOps = {"create", "invite", "accept", "remove", "assign", "settings"}
  AssignedRoles = {"Administrator", "Member", "unknown"}
  Stores = {"postgres", "repository"}
  MaxJoins <- Joins
  Folders = {f1, f2, f3, f4}
  Root = Root
  Edits = {e1, e2}
  MaxNesting = 3
  Contended = 2
  Visits = {v1, v2}
  MAX_PASSCODE_ATTEMPTS = 5
  Subscriptions = {s1, s2}
  Deliveries = {d1}
  MAX_RETRIES = 5
  People = {m1}
  Sockets = {c1, c2}
  Workspaces = {w1, w2}
  Videos = {video}
  MaxComments = 2
  Edited = {1}
  MaxRetries = 2
SPECIFICATION ServicesSpec
INVARIANTS
  OrgTypeOK
  MembersHaveRoles
  AcceptedMeansJoined
  RemovedStaysOut
  MemberUntilRemoved
  TreeTypeOK
  ReturnedStaysPresent
  SerialForest
  SerialDepths
  ShareTypeOK
  SerialFailuresLock
  RevokedStaysDenied
  HookTypeOK
  DeletionStops
  OutcomesAccount
  PresenceTypeOK
  AnnouncedIsPresent
  NoGhostPresence
  QueueTypeOK
  UnpostedIsKept
  DueIsScheduled
PROPERTIES
  LoneRemovalKeepsAdministrator
CHECK_DEADLOCK FALSE
SYMMETRY Interchange
