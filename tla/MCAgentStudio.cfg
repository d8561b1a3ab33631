SPECIFICATION StudioSpec
CONSTANTS
  None = None
  Gone = Gone
  Words <- MCWords
  BobiKeywords <- MCBobiKeywords
  IntentKeys = {"book", "rest"}
  KeywordsOf <- MCKeywordsOf
  ToolIds = {a1, a2}
  ToolNames = {"check"}
  FaqIds = {f1, f2}
  OthersRows <- MCOthersRows
  MaxChanges = 2
  MaxTurns = 3
  Packs = {"clinic"}
  Fields = {}
  Fillable = {}
  Rules = {}
  Intents = {}
  Questions = {}
  PackRules <- RulesOf
  PackIntents <- IntentsOf
  PackQuestions <- QuestionsOf
  MaxItems = 0
  Applies = {}
INVARIANTS
  DialogueKeepsItsRules
PROPERTIES
  PromptNamesOffered
  UpdatesKeepToTheForm
CHECK_DEADLOCK FALSE
