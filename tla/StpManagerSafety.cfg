SPECIFICATION Spec
CONSTANTS
  Clients = {c1, c2}
  Commands = {"onvif_list", "reboot"}
  MaxSeq = 2
  MaxRequests = 2
  MaxProcesses = 1
  MaxForeign = 1
  Server = Server
  Stranger = Stranger
  None = None
  Failed = Failed
SYMMETRY MCSymmetry
INVARIANTS TypeOK AnswerMatches
PROPERTIES ImplementsRequestReply
