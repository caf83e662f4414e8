SPECIFICATION MonitorSpec
CONSTANTS
  kbd = kbd
  mouse = mouse
  odd = odd
  vhid = vhid
  Device <- Devices
  Key <- OwnKeys
  Nodes <- NodesOf
  Virtual = {vhid}
  EventCap = 2
  Absent = Absent
INVARIANTS
  RegistryIsLive
  NoLostHotplug
PROPERTIES
  NoFeedbackLoop
