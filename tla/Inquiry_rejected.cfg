SPECIFICATION Spec
CONSTANTS
  i1 = i1
  i2 = i2
  a1 = a1
  a2 = a2
  text = text
  Nobody = Nobody
  Change = Change
  Inquiries <- OneInquiry
  Admins <- TwoAdmins
  Answers <- OneAnswer
  Max = 1
INVARIANT RejectedStands
CHECK_DEADLOCK FALSE
