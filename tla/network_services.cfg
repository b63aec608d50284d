SPECIFICATION MCSpec
CONSTANTS
  DnsIds = {"id1", "id2"}
  DnsNames = {"www.shop", "myshop", "other"}
  DnsTypes = {"A", "HTTPS", "MX"}
  UnderDomain <- MCUnder
  InName <- MCIn
  DnsEngines <- MCEngines
  LiveIps = {"a", "b"}
  AllTarget = "ip3"
  OfflineIp = "ip4"
  DnsRetries = 1
  DnsConfigs <- MCDnsConfigs
  MaxDnsRequests = 2
  Listeners = {"p1"}
  Clients = {"c1", "c2"}
  ListenerOf <- MCListenerOf
  HostOf <- MCHostOf
  CertModes = {"default", "domain", "custom"}
  LastAddress = 4
  OwnAddress = 2
  Gateway = 1
  NumbersOfIps = {0, 2}
  LeaseFiles <- MCLeases
  Infrastructure = {1}
  WaitSeconds = 2
  MaxCalls = 2
  MaxJoins = 1
  MaxDevices = 3
  MainConfigs <- MCMain
  EngineConfigs <- MCEngineConfigs
  MaxEngines = 2
  CfgNames = {"shop", "myshop", "other", "1.2.3.4", "x"}
  Normal <- MCNormal
  Within <- MCWithin
  MaxFrames = 2
INVARIANTS
  NetTypeOK
  DnsAnswersAreRight
  ServedAsAsked
  AddressesAreOurs
  EnginesAsConfigured
  FramesAsSent
PROPERTIES
  DnsTakesNextRequest
CHECK_DEADLOCK FALSE
