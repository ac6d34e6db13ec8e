CONSTANTS
  chat = chat
  jql = jql
  NoSub = NoSub
  NoChat = NoChat
  Subs = {s1, s2}
  Chats = {chat}
  ChatOf <- MCChatOf
  Jqls = {jql}
  JqlOf <- MCJqlOf
  Procs = {p1, p2}
  MaxHooks = 2
  MaxOps = 5
  MaxFailures = 1
SPECIFICATION Spec
SYMMETRY Symmetry
CHECK_DEADLOCK FALSE
INVARIANTS
  TypeOK
  HookIsTracked
  SubscribedIsRegistered
  DisconnectConverges
