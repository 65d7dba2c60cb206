SPECIFICATION Spec
CONSTANT Sendable <- Commands
INVARIANTS
  TextsTellCommands
  FrameDivides
