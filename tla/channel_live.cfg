CONSTANTS
  Master = m
  Slaves = {s1}
  MaxPress = 2
  MaxLoss = 1
  MaxExpire = 9
SPECIFICATION TimedSpec
INVARIANTS BusyHasOwner KeyedHasReason GrantIsRecording
PROPERTIES UserGoneStops RequestSettles ChannelIsFreed RelayDrops
CHECK_DEADLOCK FALSE
