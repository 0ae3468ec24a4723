SPECIFICATION CardSpec
CONSTANTS
  Challenges = {c1, c2}
  Approvals = {a1, a2}
  Creates = {1}
  Polls = {1}
  None = None
INVARIANTS
  TypeOK
  CardTypeOK
  OneAdmission
  OneDelivery
  CancelledAdmitsNobody
  LiveCodesShown
  GoodCodeIsPolled
  LoadingHasOwner
PROPERTIES
  ApprovalSettles
CHECK_DEADLOCK FALSE
