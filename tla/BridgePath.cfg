SPECIFICATION Spec
CONSTANTS
  Stations = {a, b}
  Host = host
  StaMac = sta
  ApMac = ap
  Bcast = bcast
  NoMac = NoMac
  Pool = {p1, p2}
  StaIp = sta_addr
  HostIp = host_addr
  BcastIp = bcast_addr
  NoIp = NoIp
  NoMsg = NoMsg
  StationKinds <- SomeStationKinds
  HostKinds <- SomeHostKinds
SYMMETRY Symmetry
INVARIANTS UplinkSeesOneStation NoEcho ReplyReachesRequester AddressesDistinct DeliveredToHolder OnePlace
