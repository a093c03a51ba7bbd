SPECIFICATION Spec
CONSTANTS
  None = None
  Ready = Ready
  Nobody = Nobody
  Stranger = Stranger
  NoPid = NoPid
  Foreign = Foreign
  Unset = Unset
  Free = Free
  Messages = {1, 2, 3, 4}
  Callers = {"loop", "w1", "w2"}
  Loop = "loop"
  Requests = {"w1", "w2"}
  ConversationOf <- TwoConversations
  Media = {2}
  Switching = {1}
  Denied = {3}
  RecentLimit = 2
  ReplyLimit = 1
  QueueLimit = 1
  UploadLimit = 1
  Load <- Loads
  Asked = {"a1", "a2", "a3", "h1", "f1", "u1", "b1"}
  Id <- RequestIds
  Sort <- Sorts
  TurnOf <- RequestTurns
  Turns = {"t1", "t2", "tb"}
  Unbound = {"tb"}
  Longer <- LongerIds
  RecentHost = 1
  Connections = 2
  Nothing = Nothing
  Deliveries = {"r1", "r2", "r3", "r4"}
  KeyOf <- DeliveryKey
  Uploads <- DeliveryUploads
  FileTurns = {"t1", "t2"}
  Image <- Pictures
  AckLimit = 1
  SpoolLimit = 3
  NoOne = NoOne
  Fetches = {"i1", "i2", "i3", "i4", "d1", "s1", "s2"}
  Kind <- MediaKinds
  Batch <- Batches
  BatchLimit = 2
  Quota = 2
  Corrupt = {"x"}
  Unavailable = {"y"}
  Unheld = Unheld
  Bridges = {1, 2, 3}
  RestartCommands = {k1, k2}
  Pids = {1, 2}
  Scripts = {"s1", "s2"}
  StopCommands = {"c1"}
  Edits = {"c1", "c2", "g1", "g2", "g3", "g4", "b"}
  Updates <- SettingEdits
  By <- Origins
  Managed = {"personality"}
  Efforts <- Catalog
  FastModels = {"m1"}
  Personable = {"m1"}
  DefaultModel = "m2"
  Tabs = {"p1", "p2", "p3"}
  ProcessOf <- Servers
  Wishes <- EnvEdits
  Overridden = {"other"}
INVARIANTS TypeOK MessagesAreHandledOnce DeliveryKeepsItsWord FilesAreAccountedFor AnswersGoHome BridgesTakeTurns SettingsStayUsable
PROPERTIES RequestsAreAnsweredOnce OthersAreRespected EverythingEnds
CHECK_DEADLOCK FALSE
