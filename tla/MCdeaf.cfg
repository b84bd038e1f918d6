SPECIFICATION Spec
CONSTANTS
  n1 = n1
  n0 = n0
  rtpay = rtpay
  c1 = c1
  nocard = nocard
  U16 = 3
  U32 = 4
  EVT_QUEUE_LEN = 4
  DEFAULT_PRICE = 0
  DEFAULT_PULSES_PER_CREDIT = 1
  Names = {}
  DefaultName = rtpay
  NoName = n0
  Prices = {}
  Pulses = {}
  Enables <- MC1
  Counts = {}
  Balances = {}
  Uids <- MCUids
  NoUid = nocard
INVARIANT DisabledCanBeEnabled
