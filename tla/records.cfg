\* Two overlapping requests each: two avatars and a request that dies; three
\* steps and consents; two authorizations and two faults; three callers of two
\* accounts; three updates; two audited calls; graphs of two objects.
SPECIFICATION Spec
CONSTANTS
  Avatar = {a, b}
  NoAvatar = NoAvatar
  Purpose = {tos, privacy, marketing}
  RequiredPurposes = {tos, privacy}
  Step = {basics, agree, prefs}
  RequiredSteps = {basics, agree}
  Nobody = Nobody
  Token = {t1, t2}
  NoToken = NoToken
  Request = {r, s}
  MaxCrashes = 1
  MaxFaults = 2
  User = {u, v}
  Password = {old, new}
  Address = {x}
  NoUser = NoUser
  NoPassword = NoPassword
  NoAddress = NoAddress
  Caller = {1, 2, 3}
  First = old
  MaxConsents = 3
  Field = {sharing}
  Setting = {on, off}
  Default = off
  Unset = Unset
  Update = {u1, u2, u3}
  AuditedCall = {a1, a2}
  Actor = {"USER", "ADMIN"}
  Retention = 1
  MaxTime = 2
  Node = {1, 2}
  Root = 1
  Depths = {1, 2}
  MaxArrayLength = 1
  MaxKeys = 2
  MaxEntries = 2
INVARIANTS
  AvatarServed NothingMissing
  DeliveredOnce SecretNotLost SignedOut ClosedGatesHold LogIsHistory
  ChangesOnRecord NothingDenied
CHECK_DEADLOCK FALSE
