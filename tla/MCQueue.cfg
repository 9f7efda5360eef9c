SPECIFICATION FairSpec
CONSTANTS
  Threads = {t1, t2, t3}
  Messages = {m1, m2}
  Capacity = 1
  Errors = {EOF}
  NoError = NoError
  EAGAIN = EAGAIN
  NoMessage = NoMessage
INVARIANTS TypeOK NoLostSendWakeup NoLostRecvWakeup Accounting
PROPERTY ImplementsChannel
