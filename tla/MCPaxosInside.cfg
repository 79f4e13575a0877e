SPECIFICATION FairSpec
CONSTANTS
  nb_learners = 2
  nb_msg = 2
  nb_iter = 4
  MaxValues = 5
  Torn = Torn
INVARIANTS
  PaxosTypeOK
  NoOverwriteWhileRead
  LearnersAgree
  CountsEachValueOnce
  PipelineInv
PROPERTIES
  RingsAreMulticast
  ClientFinishes
CHECK_DEADLOCK FALSE
