SPECIFICATION GroupSpec
CONSTANTS
  r1 = r1
  Member <- OneMember
  MaxMessageKeys = 1
  MaxFuture = 2
  MaxStates = 2
  MaxSenderKeys = 2
  MaxGroupMsgs = 3
  MaxProcessed = 3
  MaxGroupFaults = 1
INVARIANTS
  GroupTypeOK
  GroupNoKeyReuse
  GroupAtMostOnce
  NothingBeforeJoining
  GroupKeyErasure
  GroupDeliverable
CHECK_DEADLOCK FALSE
