SPECIFICATION FairSpec
CONSTANTS
  n1 = n1 n2 = n2
  None = None Random = Random NotANumber = NotANumber
  Nodes = {n1, n2}
  HostPorts = {1, 2, 3, 4}
  Ports <- Published1
  MaxCreates = 2
INVARIANT NoListenerLeft PortsKept
PROPERTY CallsReturn
