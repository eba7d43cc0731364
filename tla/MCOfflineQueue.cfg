SPECIFICATION QueueSpec
CONSTANTS
  k1 = k1  k2 = k2  t1 = t1  t2 = t2
  Tab = {t1, t2}
  Key = {k1, k2}
  KeysOf <- OneEach
  NoKey = NoKey
  NoTab = NoTab
  MaxAttempts = 2
INVARIANTS TypeOK DiscardedStaysAway SavedIsStored KeptWhileOpen SurvivesClosing SyncingIsSent
PROPERTY QueueDrains
CONSTRAINT LoopsApart OneAges
