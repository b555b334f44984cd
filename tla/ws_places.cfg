SPECIFICATION WsSpec
CONSTANTS
  RoomIds = {room}
  Conns = {c1, c2}
  ChannelSize = 1
  MaxChannels = 2
  MaxBroadcasts = 2
PROPERTIES
  PlacesGivenBack
CHECK_DEADLOCK FALSE
