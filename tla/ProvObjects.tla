---------------------------- MODULE ProvObjects -----------------------------
(***************************************************************************)
(* The objects of the provisioning service.                                *)
(***************************************************************************)
EXTENDS RESTAPI_utils
Security == INSTANCE SecurityObjects

ObjectInfo == Values({"id", "name", "description", "created", "modified", "tags"})
     @@ [notes |-> Security!NoteInfoJson]
ObjectInfoJson == Both("ObjectInfo", ObjectInfo)
SerialNumberList == Values({"serialNumbers"})
SerialNumberListJson == Both("SerialNumberList", SerialNumberList)
ManagementPolicyEntry == Values({"users", "resources", "access", "policy"})
ManagementPolicyEntryJson == Both("ManagementPolicyEntry", ManagementPolicyEntry)
ManagementPolicy == Values({"inUse", "entity", "venue"})
     @@ [info |-> ObjectInfoJson, entries |-> ManagementPolicyEntryJson]
ManagementPolicyJson == InlinesExcept("ManagementPolicy", ManagementPolicy, {"venue"})
RRMAlgorithmDetails == Values({"name", "parameters"})
RRMAlgorithmDetailsJson == Both("RRMAlgorithmDetails", RRMAlgorithmDetails)
RRMDetails == Values({"vendor", "schedule"})
     @@ [algorithms |-> RRMAlgorithmDetailsJson]
RRMDetailsJson == Both("RRMDetails", RRMDetails)
DeviceRules == Values({"rcOnly", "rrm", "firmwareUpgrade"})
DeviceRulesJson == Both("DeviceRules", DeviceRules)
Entity == Values({"parent", "children", "venues", "contacts", "locations",
     "managementPolicy", "deviceConfiguration", "devices", "sourceIP", "variables",
     "managementPolicies", "managementRoles", "maps", "configurations"})
     @@ [info |-> ObjectInfoJson, deviceRules |-> DeviceRulesJson]
EntityJson == Inlines("Entity", Entity)
DiGraphEntry == Values({"parent", "child"})
DiGraphEntryJson == Both("DiGraphEntry", DiGraphEntry)
Venue == Values({"entity", "parent", "children", "managementPolicy", "devices",
     "design", "deviceConfiguration", "contacts", "location", "sourceIP",
     "variables", "configurations", "maps", "managementPolicies", "managementRoles",
     "boards"})
     @@ [info |-> ObjectInfoJson, topology |-> DiGraphEntryJson,
        deviceRules |-> DeviceRulesJson]
VenueJson == Inlines("Venue", Venue)
(* loginId and userType, by the keys that both conversions give them. *)
UserInfoDigest == Values({"id", "entity", "children"})
UserInfoDigestJson == Both("UserInfoDigest", UserInfoDigest)
ManagementRole == Values({"managementPolicy", "users", "inUse", "entity", "venue"})
     @@ [info |-> ObjectInfoJson]
ManagementRoleJson == InlinesExcept("ManagementRole", ManagementRole, {"inUse"})
Location == Values({"type", "buildingName", "addressLines", "city", "state",
     "postal", "country", "phones", "mobiles", "geoCode", "inUse", "entity",
     "managementPolicy"}) @@ [info |-> ObjectInfoJson]
LocationJson == Inlines("Prov.Location", Location)
OperatorLocation == Values({"type", "buildingName", "addressLines", "city", "state",
     "postal", "country", "phones", "mobiles", "geoCode", "operatorId",
     "subscriberDeviceId", "managementPolicy"}) @@ [info |-> ObjectInfoJson]
OperatorLocationJson == Inlines("OperatorLocation", OperatorLocation)
SubLocation == Values({"type", "buildingName", "addressLines", "city", "state",
     "postal", "country", "phones", "mobiles", "geoCode"})
SubLocationJson == Both("SubLocation", SubLocation)
OperatorLocationList == [locations |-> OperatorLocationJson]
OperatorLocationListJson == Both("OperatorLocationList", OperatorLocationList)
Contact == Values({"type", "title", "salutation", "firstname", "lastname",
     "initials", "visual", "mobiles", "phones", "primaryEmail", "secondaryEmail",
     "accessPIN", "inUse", "entity", "managementPolicy"})
     @@ [info |-> ObjectInfoJson]
ContactJson == Inlines("Contact", Contact)
OperatorContact == Values({"type", "title", "salutation", "firstname", "lastname",
     "initials", "visual", "mobiles", "phones", "primaryEmail", "secondaryEmail",
     "accessPIN", "operatorId", "subscriberDeviceId", "managementPolicy"})
     @@ [info |-> ObjectInfoJson]
OperatorContactJson == Inlines("OperatorContact", OperatorContact)
SubContact == Values({"type", "title", "salutation", "firstname", "lastname",
     "initials", "visual", "mobiles", "phones", "primaryEmail", "secondaryEmail",
     "accessPIN"})
SubContactJson == Both("SubContact", SubContact)
OperatorContactList == [contacts |-> OperatorContactJson]
OperatorContactListJson == Both("OperatorContactList", OperatorContactList)
DeviceConfigurationElement == Values({"name", "description", "weight",
     "configuration"})
DeviceConfigurationElementJson ==
  Both("DeviceConfigurationElement", DeviceConfigurationElement)
DeviceConfiguration == Values({"managementPolicy", "deviceTypes", "inUse",
     "variables", "subscriberOnly", "venue", "entity", "subscriber"})
     @@ [info |-> ObjectInfoJson, configuration |-> DeviceConfigurationElementJson,
        deviceRules |-> DeviceRulesJson]
DeviceConfigurationJson == Inlines("DeviceConfiguration", DeviceConfiguration)
InventoryTag == Values({"serialNumber", "venue", "entity", "subscriber",
     "deviceType", "qrCode", "geoCode", "location", "contact",
     "deviceConfiguration", "managementPolicy", "state", "devClass", "locale",
     "realMacAddress", "doNotAllowOverrides"})
     @@ [info |-> ObjectInfoJson, deviceRules |-> DeviceRulesJson]
InventoryTagJson == Inlines("InventoryTag", InventoryTag)
InventoryTagList == [taglist |-> InventoryTagJson]
InventoryTagListJson == Both("InventoryTagList", InventoryTagList)
InventoryConfigApplyResult == Values({"appliedConfiguration", "errors", "warnings",
     "errorCode"})
InventoryConfigApplyResultJson ==
  Both("InventoryConfigApplyResult", InventoryConfigApplyResult)
Report == Values({"snapshot", "devices"})
ReportJson == WritesOnly("Prov.Report", Report, {})
ExpandedUseEntry == Values({"uuid", "name", "description"})
ExpandedUseEntryJson == Both("ExpandedUseEntry", ExpandedUseEntry)
ExpandedUseEntryList == Values({"type"}) @@ [entries |-> ExpandedUseEntryJson]
ExpandedUseEntryListJson == Both("ExpandedUseEntryList", ExpandedUseEntryList)
ExpandedUseEntryMapList == [entries |-> ExpandedUseEntryListJson]
ExpandedUseEntryMapListJson == Both("ExpandedUseEntryMapList", ExpandedUseEntryMapList)
UuidList == Values({"list"})
UuidListJson == Both("UuidList", UuidList)
ObjectACL == Values({"access"}) @@ [users |-> UuidListJson, roles |-> UuidListJson]
ObjectACLJson == Both("ObjectACL", ObjectACL)
ObjectACLList == [list |-> ObjectACLJson]
ObjectACLListJson == Both("ObjectACLList", ObjectACLList)
Map == Values({"data", "entity", "creator", "visibility", "managementPolicy",
     "venue"}) @@ [info |-> ObjectInfoJson, access |-> ObjectACLListJson]
MapJson == Inlines("Map", Map)
MapList == [list |-> MapJson]
MapListJson == Both("MapList", MapList)
SignupEntry == Values({"email", "userId", "macAddress", "serialNumber", "submitted",
     "completed", "status", "error", "statusCode", "deviceID", "registrationId",
     "operatorId"}) @@ [info |-> ObjectInfoJson]
SignupEntryJson == Inlines("SignupEntry", SignupEntry)
Variable == Values({"type", "weight", "prefix", "value"})
VariableJson == Both("Variable", Variable)
VariableList == [variables |-> VariableJson]
VariableListJson == Both("VariableList", VariableList)
VariableBlock == Values({"entity", "venue", "subscriber", "inventory",
     "configurations", "managementPolicy"})
     @@ [info |-> ObjectInfoJson, variables |-> VariableJson]
VariableBlockJson == Inlines("VariableBlock", VariableBlock)
VariableBlockList == [variableBlocks |-> VariableBlockJson]
VariableBlockListJson == Both("VariableBlockList", VariableBlockList)
Operator == Values({"managementPolicy", "managementRoles", "defaultOperator",
     "sourceIP", "registrationId"})
     @@ [info |-> ObjectInfoJson, deviceRules |-> DeviceRulesJson,
        variables |-> VariableJson]
OperatorJson == Inlines("Operator", Operator)
OperatorList == [operators |-> OperatorJson]
OperatorListJson == Both("OperatorList", OperatorList)
VenueDeviceList == Values({"id", "name", "description", "devices"})
VenueDeviceListJson == Both("VenueDeviceList", VenueDeviceList)
ServiceClass == Values({"operatorId", "managementPolicy", "cost", "currency",
     "period", "billingCode", "defaultService"})
     @@ [info |-> ObjectInfoJson, variables |-> VariableJson]
ServiceClassJson == Inlines("ServiceClass", ServiceClass)
ServiceClassList == [serviceClasses |-> ServiceClassJson]
ServiceClassListJson == Both("ServiceClassList", ServiceClassList)
ConfigurationDetails == Values({"rrm", "firmwareUpgrade", "firmwareRCOnly"})
     @@ [configuration |-> DeviceConfigurationElementJson]
ConfigurationDetailsJson == Both("ConfigurationDetails", ConfigurationDetails)
SubscriberDevice == Values({"serialNumber", "deviceType", "operatorId",
     "subscriberId", "managementPolicy", "serviceClass", "qrCode", "geoCode",
     "state", "locale", "billingCode", "suspended", "realMacAddress"})
     @@ [info |-> ObjectInfoJson, location |-> SubLocationJson,
        contact |-> SubContactJson, deviceRules |-> DeviceRulesJson,
        configuration |-> DeviceConfigurationElementJson]
SubscriberDeviceJson == Inlines("Prov.SubscriberDevice", SubscriberDevice)
SubscriberDeviceList == [subscriberDevices |-> SubscriberDeviceJson]
SubscriberDeviceListJson == Both("Prov.SubscriberDeviceList", SubscriberDeviceList)
ConfigurationOverride == Values({"source", "reason", "parameterName",
     "parameterType", "parameterValue", "modified"})
ConfigurationOverrideJson == Both("ConfigurationOverride", ConfigurationOverride)
ConfigurationOverrideList == Values({"serialNumber", "managementPolicy"})
     @@ [overrides |-> ConfigurationOverrideJson]
ConfigurationOverrideListJson ==
  Both("ConfigurationOverrideList", ConfigurationOverrideList)
GLBLRAccountInfo == Values({"privateKey", "country", "province", "city",
     "organization", "commonName", "CSR", "CSRPrivateKey", "CSRPublicKey",
     "GlobalReachAcctId"}) @@ [info |-> ObjectInfoJson]
GLBLRAccountInfoJson == Inlines("GLBLRAccountInfo", GLBLRAccountInfo)
GLBLRCertificateInfo == Values({"id", "name", "accountId", "csr", "certificate",
     "certificateChain", "certificateId", "expiresAt", "created"})
GLBLRCertificateInfoJson == Both("GLBLRCertificateInfo", GLBLRCertificateInfo)
GooglOrionAccountInfo == Values({"privateKey", "certificate", "cacerts"})
     @@ [info |-> ObjectInfoJson]
GooglOrionAccountInfoJson == Inlines("GooglOrionAccountInfo", GooglOrionAccountInfo)
RADIUSServer == Values({"Hostname", "IP", "Port", "Secret"})
RADIUSServerJson == Both("RADIUSServer", RADIUSServer)
RADIUSEndPointRadiusType == Values({"AccountingInterval"})
     @@ [Authentication |-> RADIUSServerJson, Accounting |-> RADIUSServerJson,
        CoA |-> RADIUSServerJson]
RADIUSEndPointRadiusTypeJson == Both("RADIUSEndPointRadiusType", RADIUSEndPointRadiusType)
RADIUSEndPointRadsecType == Values({"Hostname", "IP", "Port", "Secret",
     "OpenRoamingType", "UseOpenRoamingAccount", "Weight", "Certificate",
     "PrivateKey", "CaCerts", "AllowSelfSigned"})
RADIUSEndPointRadsecTypeJson == Both("RADIUSEndPointRadsecType", RADIUSEndPointRadsecType)
RADIUSEndPoint == Values({"Type", "PoolStrategy", "UseGWProxy", "Index", "UsedBy",
     "NasIdentifier", "AccountingInterval"})
     @@ [info |-> ObjectInfoJson, RadiusServers |-> RADIUSEndPointRadiusTypeJson,
        RadsecServers |-> RADIUSEndPointRadsecTypeJson]
RADIUSEndPointJson == Inlines("RADIUSEndPoint", RADIUSEndPoint)
RADIUSEndpointUpdateStatus == Values({"lastUpdate", "lastConfigurationChange"})
RADIUSEndpointUpdateStatusJson ==
  Both("RADIUSEndpointUpdateStatus", RADIUSEndpointUpdateStatus)

(* The enumerators by their names in JSON, and back: a contact's type is not  *)
(* asked for every name that it is written as.                               *)
LocationTypes ==
  {"SERVICE", "EQUIPMENT", "AUTO", "MANUAL", "SPECIAL", "UNKNOWN", "CORPORATE"}
location_to_string == [t \in LocationTypes |-> t]
location_from_string(s) == IF s \in LocationTypes THEN s ELSE "UNKNOWN"

ContactTypes ==
  {"SUBSCRIBER", "USER", "INSTALLER", "CSR", "MANAGER", "BUSINESSOWNER", "TECHNICIAN",
   "CORPORATE", "UNKNOWN"}
contact_to_string == [t \in ContactTypes |-> t]
contact_from_string(s) == IF s \in ContactTypes \ {"MANAGER"} THEN s ELSE "UNKNOWN"

(* The objects that are part of no other one here. *)
Objects == {SerialNumberListJson, ManagementPolicyJson, RRMDetailsJson, EntityJson,
   VenueJson, UserInfoDigestJson, ManagementRoleJson, LocationJson,
   OperatorLocationListJson, ContactJson, OperatorContactListJson,
   DeviceConfigurationJson, InventoryTagListJson, InventoryConfigApplyResultJson,
   ReportJson, ExpandedUseEntryMapListJson, MapListJson, SignupEntryJson,
   VariableListJson, VariableBlockListJson, OperatorListJson, VenueDeviceListJson,
   ServiceClassListJson, ConfigurationDetailsJson, SubscriberDeviceListJson,
   ConfigurationOverrideListJson, GLBLRAccountInfoJson, GLBLRCertificateInfoJson,
   GooglOrionAccountInfoJson, RADIUSEndPointJson, RADIUSEndpointUpdateStatusJson}
=============================================================================
