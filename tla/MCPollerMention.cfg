CONSTANTS
  chat = chat
  Subs = {updates, mentions}
  MentionSubs = {mentions}
  Chats = {chat}
  ChatOf <- MCChatOf
  Issues = {i1}
  Interval = 1
  BatchWindow = 2
  Minute = 2
  PageSize = 1
  MaxClock = 7
  MaxTrouble = 7
  MaxStretch = 2
  MaxEvents = 2
  MaxFailures = 1
SPECIFICATION Spec
INVARIANT MentionIsDealtWith
CHECK_DEADLOCK FALSE
