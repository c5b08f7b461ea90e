\* The browser version: histories in two tabs, the campaign of one page, the card.
SPECIFICATION AllSpec
CONSTANTS
  Tabs = {t1, t2}
  Codes = {1}
  Statuses = {"to_contact", "called"}
  ToContact = "to_contact"
  Texts = {"his", "mine"}
  Received <- MCReceived
  Absent = Absent
  Unreadable = Unreadable
  Idle = Idle
  MaxMinute = 2
  MaxNotes = 2
  MaxBackups = 2
  MaxGestures = 4
  Own = "here"
  Other = "there"
  OwnFields = {"o1", "o2"}
  OwnTexts = {"t1", "t2"}
  LinkFields = "l1"
  LinkText = "lt"
  Typed = "mine"
  TypedText = "mytext"
  Me = "me"
  Blank = "blank"
  Unset = Unset
  Nothing = Nothing
  Stores <- MCStores
  Origins <- MCOrigins
  Backup <- MCBackup
  MaxEdits = 1
  MaxFaults = 1
  MaxVisits = 3
  Mayors = {"first", "second"}
  AtFirst <- MCAtFirst
  None = None
  Empty = Empty
  CardTexts = {"spoken"}
  MaxMoves = 5
  MaxActs = 2
  MaxOthers = 1
  MaxRenders = 1
INVARIANTS
  StatusIsTheHead
  ALoadLeavesItFollowing
  WordsAreKept
  ChoicesStand
PROPERTIES
  RevisionsAreOfWhatIsShown
  ImplementsJournal
  WhatALoadFindsChosenStands
  CorrectionsStay
CHECK_DEADLOCK FALSE
