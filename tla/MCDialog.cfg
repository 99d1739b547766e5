CONSTANTS
  MaxFailures = 3
  Backends <- MCBackends
  MaxMessages = 2
  MaxInput = 2
  MaxSpurious = 0
SPECIFICATION ConversationFairSpec
INVARIANTS
  KeysArrive
  OneConversation
  PromptEnds
  UnlockIsProved
  OkIsHeard
PROPERTIES
  ImplementsSpeech
  ImplementsChild
  DialogEnds
  ConversationEnds
