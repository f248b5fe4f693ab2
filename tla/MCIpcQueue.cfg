CONSTANTS
  IPC_MAX_MSGS = 3
  IPC_MSG_SIZE = 2
  MaxPid = 1
  Byte = {0, 1}
  Payloads <- MCPayloads
  Senders = {0, 1}
  Receivers <- MCReceivers
  Filters = {0, 1}
  BufLens = {0, 1, 3}
SPECIFICATION Spec
INVARIANT UsedIsWindow
PROPERTY ImplementsFifo
