SPECIFICATION Spec
CONSTANTS
 Breakable = {"backup","region-available", "read-stress", "block-writer", "ondup", "titan",
  "crud", "follower", "admin-check", "sqllogictest", "randtxn", "hongbao", "pipelined", "deadlock", "provision", "pocket"}
 BackupAccounts = {1,2,3}
 BackupWorkers = {w1,w2}
 MaxTransfers = 2
 MaxBackups = 1
 MaxRestores = 2
 StressWorkers = {w1,w2}
 StressTables = 2
 StressKeys = 8
 DeleteBatch = 4
 DeleteEvery = 2
 Minute = 2
 WarmUp = 1
 QosHistories <- FewCompletions
 UserCount = 1
 UpdateUsers = 2
 PostCount = 1
 UpdatePosts = 3
 CrudFlash = TRUE
 SeqLoop = 2
 CheckedTables <- TwoDatabases
 DamagedTable <- TableT
 SqlFiles <- TwoFiles
 TaskCount = 2
 FlashReplicas = TRUE
 TableSize = 3
 OperationCount = 2
 TxnSessions = {w1,w2}
 MaxTxns = 2
 HongbaoNum = 2
 GroupMembers = 2
 UserNum = 3
 FriendNum = 1
 HongbaoAmount = 3
 Contenders = {w1,w2}
 MaxCommits = 2
 TableNum = 2
 MaxTicks = 2
 Executors = {w1, w2}
 MaxSqls = 2
 MaxTries = 1
 MySQLStorageSize = 10
 Deployments = {"default", "cdc", "cdc-kafka", "binlog", "dm", "abtest", "local"}
 Smiths = {e1, e2}
 SmithTables = {"a"}
 SmithNew = {"n"}
 SelectDepth = 3
 Images <- TwoImages
 Versions = {"", "v5"}
 ConfigKeys <- FourKeys
 MaxReplicas = 2
 MaxUpdates = 4
 MaxEdits = 2
INVARIANTS  DamageIsNoticed 
CHECK_DEADLOCK FALSE
