SPECIFICATION FairSpec
CONSTANTS
  Clients = {c1, c2}
  Commands = {"onvif_list"}
  MaxSeq = 2
  MaxRequests = 2
  MaxProcesses = 1
  MaxForeign = 1
  Server = Server
  Stranger = Stranger
  None = None
  Failed = Failed
PROPERTIES RecvReturns
