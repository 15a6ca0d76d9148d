SPECIFICATION Spec
CONSTANTS
  ip = ip  arp = arp  noMeta = noMeta  noHdr = noHdr
  p0 = p0  p1 = p1  rc = rc  s1 = s1  g1 = g1  g0 = g0
  CPUs = {1}
  EtherTypes = {ip}
  IPTypes = {ip}
  IPv4 = ip
  NoMeta = noMeta
  NoHdr = noHdr
  Ports = {p1, rc}
  NoPort = p0
  RecircPort = rc
  Instances = {0, 1}
  Classes = {0, 1}
  Sessions = {s1}
  Session0 = s1
  Groups = {g1}
  NoGroup = g0
  Members <- MCMembers
  MaxResubmitDepth = 2
  MaxMembers = 1
  XmitLimit = 3
  BacklogLimit = 1
  IngressControl <- MCIngressControl
  EgressControl <- MCEgressControl
INVARIANTS OutMdInitialised
CHECK_DEADLOCK FALSE
