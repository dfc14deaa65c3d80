SPECIFICATION Spec
CONSTANTS
  editor = editor
  approver = approver
  Pages = {editor, approver}
  Approvers = {editor, approver}
  SuperAdmins = {editor}
  MaxChanges = 2
  MaxVersion = 3
  MaxRows = 2
  MaxLost = 1
CONSTRAINT WithinBudget
INVARIANTS
  TypeOK
  NoBlindSave
  OneInForce
  GateMeansSeen
  RecoveryNet
  EditionInv
PROPERTIES
  ApprovalStands
