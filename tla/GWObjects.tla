----------------------------- MODULE GWObjects ------------------------------
(***************************************************************************)
(* The objects of the gateway.                                             *)
(***************************************************************************)
EXTENDS RESTAPI_utils
Security == INSTANCE SecurityObjects

ConnectionState == Values({"messageCount", "ipAddress", "UUID", "PendingUUID",
     "txBytes", "rxBytes", "associations_2G", "associations_5G", "associations_6G",
     "connected", "lastContact", "firmware", "verifiedCertificate", "Compatible",
     "kafkaClients", "webSocketClients", "kafkaPackets", "websocketPackets",
     "locale", "started", "sessionId", "connectionCompletionTime",
     "certificateExpiryDate", "hasRADIUSSessions", "hasGPS", "sanity", "memoryUsed",
     "load", "temperature", "connectReason"})
ConnectionStateJson ==
  WritesOnly("ConnectionState", ConnectionState, {"PendingUUID", "Compatible"})
DeviceRestrictionsKeyInfo == Values({"vendor", "algo"})
DeviceRestrictionsKeyInfoJson ==
  Both("DeviceRestrictionsKeyInfo", DeviceRestrictionsKeyInfo)
DeviceRestrictions == Values({"dfs", "ssh", "rtty", "tty", "developer", "upgrade",
     "commands", "country"}) @@ [key_info |-> DeviceRestrictionsKeyInfoJson]
DeviceRestrictionsJson == Both("DeviceRestrictions", DeviceRestrictions)
Device == Values({"serialNumber", "deviceType", "macAddress", "manufacturer",
     "configuration", "owner", "location", "firmware", "compatible",
     "fwUpdatePolicy", "UUID", "createdTimestamp", "lastConfigurationChange",
     "lastConfigurationDownload", "lastFWUpdate", "venue", "devicePassword",
     "subscriber", "entity", "modified", "locale", "restrictedDevice",
     "pendingConfiguration", "pendingConfigurationCmd", "pendingUUID", "simulated",
     "lastRecordedContact"})
     @@ [notes |-> Security!NoteInfoJson, restrictionDetails |-> DeviceRestrictionsJson]
DeviceJson == Except("Device", Device, {"deviceType"}, {})
DeviceConnectionStatistics == Values({"connectedDevices", "averageConnectionTime",
     "connectingDevices"})
DeviceConnectionStatisticsJson ==
  Both("DeviceConnectionStatistics", DeviceConnectionStatistics)
Statistics == Values({"SerialNumber", "UUID", "data", "recorded"})
StatisticsJson == WritesOnly("Statistics", Statistics, {"SerialNumber"})
HealthCheck == Values({"SerialNumber", "UUID", "values", "recorded", "sanity"})
HealthCheckJson == WritesOnly("HealthCheck", HealthCheck, {"SerialNumber"})
Capabilities == Values({"capabilities", "firstUpdate", "lastUpdate"})
CapabilitiesJson == WritesOnly("Capabilities", Capabilities, {})
DeviceLog == Values({"SerialNumber", "log", "data", "severity", "recorded",
     "logType", "UUID"})
DeviceLogJson == WritesOnly("DeviceLog", DeviceLog, {"SerialNumber"})
DefaultConfiguration == Values({"name", "configuration", "modelIds", "description",
     "created", "lastModified"})
DefaultConfigurationJson ==
  Except("DefaultConfiguration", DefaultConfiguration, {}, {"created", "lastModified"})
DefaultFirmware == Values({"deviceType", "description", "uri", "revision",
     "imageCreationDate", "created", "lastModified"})
DefaultFirmwareJson == Both("DefaultFirmware", DefaultFirmware)
CommandDetails == Values({"UUID", "serialNumber", "command", "status",
     "submittedBy", "results", "details", "errorText", "submitted", "executed",
     "completed", "when", "errorCode", "custom", "waitingForFile", "attachFile",
     "AttachSize", "AttachType", "executionTime", "lastTry", "deferred"})
CommandDetailsJson ==
  WritesOnly("CommandDetails", CommandDetails, {"AttachSize", "AttachType"})
BlackListedDevice == Values({"serialNumber", "reason", "author", "created"})
BlackListedDeviceJson == Both("BlackListedDevice", BlackListedDevice)
RttySessionDetails == Values({"serialNumber", "server", "port", "token", "timeout",
     "connectionId", "started", "commandUUID", "viewport", "password"})
RttySessionDetailsJson == WritesOnly("RttySessionDetails", RttySessionDetails, {})
Dashboard == Values({"snapshot", "numberOfDevices", "commands", "upTimes",
     "memoryUsed", "load1", "load5", "load15", "vendors", "status", "deviceType",
     "healths", "certificates", "lastContact", "associations"})
DashboardJson == WritesOnly("GW.Dashboard", Dashboard, {})
CapabilitiesModel == Values({"deviceType", "capabilities"})
CapabilitiesModelJson == WritesOnly("CapabilitiesModel", CapabilitiesModel, {})
ScriptEntry == Values({"id", "name", "description", "uri", "content", "version",
     "type", "created", "modified", "author", "restricted", "deferred", "timeout",
     "defaultUploadURI"})
ScriptEntryJson == Both("ScriptEntry", ScriptEntry)
ScriptEntryList == [scripts |-> ScriptEntryJson]
ScriptEntryListJson == Both("ScriptEntryList", ScriptEntryList)
ScriptRequest == Values({"serialNumber", "timeout", "type", "script", "scriptId",
     "when", "signature", "deferred", "uri"})
ScriptRequestJson == Both("ScriptRequest", ScriptRequest)
RadiusProxyServerEntry == Values({"name", "ip", "port", "weight", "secret",
     "certificate", "radsec", "allowSelfSigned", "radsecPort", "radsecSecret",
     "radsecKey", "radsecCert", "radsecCacerts", "radsecRealms", "ignore"})
RadiusProxyServerEntryJson == Both("RadiusProxyServerEntry", RadiusProxyServerEntry)
RadiusProxyServerConfig == Values({"strategy", "monitor", "monitorMethod",
     "methodParameters"}) @@ [servers |-> RadiusProxyServerEntryJson]
RadiusProxyServerConfigJson == Both("RadiusProxyServerConfig", RadiusProxyServerConfig)
RadiusProxyPool == Values({"name", "description", "useByDefault", "radsecPoolType",
     "poolProxyIp", "radsecKeepAlive", "enabled"})
     @@ [authConfig |-> RadiusProxyServerConfigJson,
        acctConfig |-> RadiusProxyServerConfigJson,
        coaConfig |-> RadiusProxyServerConfigJson]
RadiusProxyPoolJson == Both("RadiusProxyPool", RadiusProxyPool)
RadiusProxyPoolList == [pools |-> RadiusProxyPoolJson]
RadiusProxyPoolListJson == Both("RadiusProxyPoolList", RadiusProxyPoolList)
RangeOptions == Values({"NO_IR", "AUTO_BW", "DFS", "NO_OUTDOOR", "wmmrule_ETSI",
     "NO_OFDM"})
RangeOptionsJson == WritesOnly("RangeOptions", RangeOptions, {})
FrequencyRange == Values({"from", "to", "channelWidth", "powerDb"})
     @@ [options |-> RangeOptionsJson]
FrequencyRangeJson == WritesOnly("FrequencyRange", FrequencyRange, {})
RegulatoryCountryInfo == Values({"country", "domain"})
     @@ [ranges |-> FrequencyRangeJson]
RegulatoryCountryInfoJson ==
  WritesOnly("RegulatoryCountryInfo", RegulatoryCountryInfo, {})
RADIUSSession == Values({"started", "lastTransaction", "serialNumber",
     "destination", "userName", "accountingSessionId", "accountingMultiSessionId",
     "callingStationId", "chargeableUserIdentity", "secret", "interface", "nasId",
     "inputPackets", "outputPackets", "inputOctets", "outputOctets",
     "inputGigaWords", "outputGigaWords", "sessionTime", "calledStationId",
     "accountingPacket"})
RADIUSSessionJson == WritesOnly("RADIUSSession", RADIUSSession, {"accountingPacket"})
RADIUSSessionList == [sessions |-> RADIUSSessionJson]
RADIUSSessionListJson == WritesOnly("RADIUSSessionList", RADIUSSessionList, {})
RadiusCoADMParameters == Values({"accountingSessionId", "accountingMultiSessionId",
     "callingStationId", "chargeableUserIdentity", "userName"})
RadiusCoADMParametersJson == Both("RadiusCoADMParameters", RadiusCoADMParameters)
DeviceTransferRequest == Values({"serialNumber", "server", "port"})
DeviceTransferRequestJson == ReadsOnly("DeviceTransferRequest", DeviceTransferRequest)
DeviceCertificateUpdateRequest == Values({"serialNumber", "encodedCertificate"})
DeviceCertificateUpdateRequestJson ==
  ReadsOnly("DeviceCertificateUpdateRequest", DeviceCertificateUpdateRequest)

(* The objects that are part of no other one here. *)
Objects == {ConnectionStateJson, DeviceJson, DeviceConnectionStatisticsJson,
   StatisticsJson, HealthCheckJson, CapabilitiesJson, DeviceLogJson,
   DefaultConfigurationJson, DefaultFirmwareJson, CommandDetailsJson,
   BlackListedDeviceJson, RttySessionDetailsJson, DashboardJson,
   CapabilitiesModelJson, ScriptEntryListJson, ScriptRequestJson,
   RadiusProxyPoolListJson, RegulatoryCountryInfoJson, RADIUSSessionListJson,
   RadiusCoADMParametersJson, DeviceTransferRequestJson,
   DeviceCertificateUpdateRequestJson}
=============================================================================
