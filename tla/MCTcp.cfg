SPECIFICATION Spec
CONSTANTS
  cli = cli
  srv = srv
  Client = cli
  Server = srv
  SeqSpace = 16
  Iss <- Start
  TCP_MAX_RETRIES = 1
  TCP_SEND_WINDOW_SEGMENTS = 4
  TCP_MAX_RETRANSMIT_SEGMENTS = 6
  TCP_MAX_OUT_OF_ORDER_SEGMENTS = 2
  Scenarios <- Mix
INVARIANTS TypeOK PrefixDelivered NothingForgotten EofAfterAllData
PROPERTIES CloseDelivers
CHECK_DEADLOCK FALSE
