SPECIFICATION Spec
CONSTANTS
  InputNodes <- Inputs
  FramebufferNodes <- Framebuffers2
  Absent = Absent
  Profiles <- Known
  Devices <- Boots
  Results = {r1, r2}
  Plans <- Written
  PlanOutput = r1
  MaxTaps = 2
  MaxSteps = 2
INVARIANTS
  EvidenceIsKept
  OperationOnReviewedDevice
  CleanAfterCard
PROPERTIES
  PassedLeavesStock
  OperationEnds
CHECK_DEADLOCK FALSE
