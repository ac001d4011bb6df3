SPECIFICATION Spec
CONSTANTS
  Parts = {"take", "two", "wire", "settings", "lists", "ask", "hooks", "activity",
           "forgets"}
  None = None
  Missing = Missing
INVARIANTS
  ConversationInv
  SettingsInv
  AgentsInv

  
CHECK_DEADLOCK FALSE
