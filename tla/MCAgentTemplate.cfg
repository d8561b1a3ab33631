\* Two applications in flight, of one pack or of two, and edits at any time.
SPECIFICATION TemplateSpec
CONSTANTS
  None = None
  Gone = Gone
  Words <- MCWords
  BobiKeywords <- MCBobiKeywords
  IntentKeys = {"book", "rest"}
  KeywordsOf <- MCKeywordsOf
  ToolIds = {t1}
  ToolNames = {"check"}
  FaqIds = {f1}
  OthersRows <- MCOthersRows
  MaxChanges = 0
  MaxTurns = 0
  Packs = {"clinic", "salon"}
  Fields = {persona}
  Fillable = {persona}
  Rules = {polite}
  Intents = {book}
  Questions = {hours}
  PackRules <- RulesOf
  PackIntents <- IntentsOf
  PackQuestions <- QuestionsOf
  MaxItems = 1
  Applies = {a1, a2}
SYMMETRY Alike
PROPERTIES
  UndisturbedOverwritesNothing
  UndisturbedAsksNothingTwice
  OkIsWhole
