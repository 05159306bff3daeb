----------------------------- MODULE FMSObjects -----------------------------
(***************************************************************************)
(* The objects of the firmware service.                                    *)
(***************************************************************************)
EXTENDS RESTAPI_utils
Security == INSTANCE SecurityObjects

Firmware == Values({"id", "release", "deviceType", "description", "revision", "uri",
     "image", "imageDate", "size", "downloadCount", "firmwareHash", "owner",
     "location", "uploader", "digest", "latest", "created"})
     @@ [notes |-> Security!NoteInfoJson]
FirmwareJson == Both("Firmware", Firmware)
FirmwareList == [firmwares |-> FirmwareJson]
FirmwareListJson == Both("FirmwareList", FirmwareList)
DeviceType == Values({"id", "deviceType", "manufacturer", "model", "policy",
     "lastUpdate", "created"}) @@ [notes |-> Security!NoteInfoJson]
DeviceTypeJson == Both("DeviceType", DeviceType)
DeviceTypeList == [deviceTypes |-> DeviceTypeJson]
DeviceTypeListJson == Both("DeviceTypeList", DeviceTypeList)
RevisionHistoryEntry == Values({"id", "serialNumber", "fromRelease", "toRelease",
     "commandUUID", "revisionId", "upgraded"})
RevisionHistoryEntryJson == Both("RevisionHistoryEntry", RevisionHistoryEntry)
RevisionHistoryEntryList == [deviceTypes |-> RevisionHistoryEntryJson]
RevisionHistoryEntryListJson == Both("RevisionHistoryEntryList", RevisionHistoryEntryList)
FirmwareAgeDetails == Values({"latestId", "image", "imageDate", "revision", "uri",
     "age", "latest"})
FirmwareAgeDetailsJson == Both("FirmwareAgeDetails", FirmwareAgeDetails)
DeviceConnectionInformation == Values({"serialNumber", "revision", "deviceType",
     "endPoint", "lastUpdate", "status"})
DeviceConnectionInformationJson ==
  Both("DeviceConnectionInformation", DeviceConnectionInformation)
DeviceReport == Values({"snapshot", "numberOfDevices", "ouis", "revisions",
     "deviceTypes", "status", "endPoints", "usingLatest", "unknownFirmwares",
     "totalSecondsOld"})
DeviceReportJson == WritesOnly("DeviceReport", DeviceReport, {})
DeviceInformation == Values({"serialNumber", "currentFirmware",
     "currentFirmwareDate", "latestFirmware", "latestFirmwareDate",
     "latestFirmwareAvailable", "latestFirmwareURI"})
     @@ [history |-> RevisionHistoryEntryListJson]
DeviceInformationJson == Both("DeviceInformation", DeviceInformation)
DeviceCurrentInfo == Values({"serialNumber", "revision", "upgraded"})
DeviceCurrentInfoJson == Both("DeviceCurrentInfo", DeviceCurrentInfo)
DeviceCurrentInfoList == [devices |-> DeviceCurrentInfoJson]
DeviceCurrentInfoListJson == Both("DeviceCurrentInfoList", DeviceCurrentInfoList)

(* The objects that are part of no other one here. *)
Objects == {FirmwareListJson, DeviceTypeListJson, FirmwareAgeDetailsJson,
   DeviceConnectionInformationJson, DeviceReportJson, DeviceInformationJson,
   DeviceCurrentInfoListJson}
=============================================================================
