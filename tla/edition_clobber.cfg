SPECIFICATION Spec
CONSTANTS
  editor = editor
  approver = approver
  Pages = {editor, approver}
  Approvers = {approver}
  SuperAdmins = {}
  MaxChanges = 1
  MaxVersion = 2
  MaxRows = 0
  MaxLost = 0
INVARIANTS
  AdoptsOnlyResearch
