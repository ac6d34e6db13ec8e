SPECIFICATION Spec
CONSTANTS
  h1 = h1
  h2 = h2
  component = component
  severity = severity
  NoField = NoField
  NilData = NilData
  Handlers = {h1, h2}
  IssueTypes <- MCIssueTypes
  Order <- MCOrder
  TemplateField = TemplateField
  Required = {component}
  Selects = {component}
  MaxTemplates = 1
  MaxDrafts = 2
  MaxIssues = 2
  MaxDisorder = 1
INVARIANTS TypeOK RequiredAnswered DuplicateNeedsOverlap PanicNeedsDisorder
SYMMETRY Same
CHECK_DEADLOCK FALSE
