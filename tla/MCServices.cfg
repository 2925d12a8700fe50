SPECIFICATION Spec
CONSTANTS
  s1 = s1
  s2 = s2
  s3 = s3
  email = email
  nick = nick
  plain = plain
  quoted = quoted
  Sockets = {s1, s2, s3}
  Count = 2
  ListenerOf <- McListenerOf
  Workers = {w1, w2}
  Messages = {m1, m2}
  Topics = {t}
  NoTopic = NoTopic
  NoFilter = NoFilter
  AnyTopic = AnyTopic
  Filters = {AnyTopic}
  MaxMarks = 2
  Recipients = 2
  MaxReplies = 4
  MailTexts <- McTexts
  Threads = {w1, w2}
  MaxRecords = 3
  Handles = {h1, h2}
  Queries = {q1, q2}
  MaxThreads = 3
  MaxOpened = 4
  Holders = {w1, w2}
  Fields = {email, nick}
  Uniques = {email}
  Values <- McValues
  MaxId = 2
  MaxBirths = 2
  Joins <- McJoins
  IdLast = FALSE
  Resettable = {nick}
  Default = 1
  NoRow = NoRow
  Versions = {v1, v2}
  Absent = Absent
  Part = Part
  MaxRuns = 3
  MaxUploads = 2
  Makers = {maker}
  Pages = {page}
  NoPage = NoPage
  Phrases = {plain, quoted}
  PhrasesOf <- McPhrasesOf
  Reread <- McReread
  Comments = {note}
  NoComment = NoComment
  MaxEvents = 3
SYMMETRY Perms
CHECK_DEADLOCK FALSE
INVARIANTS SameOrder UndisturbedReachesAll AcceptedIsTrue ContentOnlyAsData FilesAgree OwnConnection KeyNamesOwnRow OneToolchain NothingForgotten
