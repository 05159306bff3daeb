----------------------------- MODULE SubObjects -----------------------------
(***************************************************************************)
(* The objects of the subscriber service.                                  *)
(***************************************************************************)
EXTENDS RESTAPI_utils

HomeDeviceMode == Values({"enableLEDS", "type", "subnet", "subnetMask", "startIP",
     "endIP", "created", "modified", "subnetV6", "subnetMaskV6", "startIPV6",
     "endIPV6", "leaseTime"})
HomeDeviceModeJson ==
  Except("HomeDeviceMode", HomeDeviceMode, {"leaseTime"}, {"leaseTime"})
IPReservation == Values({"nickname", "ipAddress", "macAddress"})
IPReservationJson == Both("IPReservation", IPReservation)
IPReservationList == Values({"id", "created", "modified"})
     @@ [reservations |-> IPReservationJson]
IPReservationListJson == Both("IPReservationList", IPReservationList)
DnsConfiguration == Values({"ISP", "custom", "primary", "secondary", "primaryV6",
     "secondaryV6"})
DnsConfigurationJson == Both("DnsConfiguration", DnsConfiguration)
InternetConnection == Values({"type", "username", "password", "ipAddress",
     "subnetMask", "defaultGateway", "sendHostname", "primaryDns", "secondaryDns",
     "created", "modified", "ipV6Support", "ipAddressV6", "subnetMaskV6",
     "defaultGatewayV6", "primaryDnsV6", "secondaryDnsV6"})
InternetConnectionJson == Both("InternetConnection", InternetConnection)
WifiNetwork == Values({"type", "name", "password", "encryption", "bands"})
WifiNetworkJson == Both("WifiNetwork", WifiNetwork)
WifiNetworkList == Values({"created", "modified"})
     @@ [wifiNetworks |-> WifiNetworkJson]
WifiNetworkListJson == Both("WifiNetworkList", WifiNetworkList)
AccessTime == Values({"day", "rangeList"})
AccessTimeJson == Both("AccessTime", AccessTime)
AccessTimes == Values({"created", "modified"}) @@ [schedule |-> AccessTimeJson]
AccessTimesJson == Both("AccessTimes", AccessTimes)
SubscriberDevice == Values({"name", "description", "macAddress", "manufacturer",
     "firstContact", "lastContact", "group", "icon", "suspended", "ip"})
     @@ [schedule |-> AccessTimesJson]
SubscriberDeviceJson == Both("Sub.SubscriberDevice", SubscriberDevice)
SubscriberDeviceList == Values({"created", "modified"})
     @@ [devices |-> SubscriberDeviceJson]
SubscriberDeviceListJson == Both("Sub.SubscriberDeviceList", SubscriberDeviceList)
Association == Values({"name", "ssid", "macAddress", "rssi", "power", "ipv4",
     "ipv6", "tx", "rx", "manufacturer"})
AssociationJson == Both("Association", Association)
AssociationList == Values({"created", "modified"})
     @@ [associations |-> AssociationJson]
AssociationListJson == Both("AssociationList", AssociationList)
Client == Values({"macAddress", "speed", "mode", "ipv4", "ipv6", "tx", "rx",
     "manufacturer"})
ClientJson == Both("Client", Client)
ClientList == Values({"created", "modified"}) @@ [clients |-> ClientJson]
ClientListJson == Both("ClientList", ClientList)
Location == Values({"buildingName", "addressLines", "city", "state", "postal",
     "country", "phones", "mobiles"})
LocationJson == Both("Sub.Location", Location)
RadioHE == Values({"multipleBSSID", "ema", "bssColor"})
RadioHEJson == Both("RadioHE", RadioHE)
RadioRates == Values({"beacon", "multicast"})
RadioRatesJson == Both("RadioRates", RadioRates)
RadioInformation == Values({"band", "bandwidth", "channel", "country",
     "channelMode", "channelWidth", "requireMode", "txpower", "legacyRates",
     "beaconInterval", "dtimPeriod", "maximumClients", "allowDFS", "mimo",
     "rawInfo"}) @@ [rates |-> RadioRatesJson, he |-> RadioHEJson]
RadioInformationJson == Both("RadioInformation", RadioInformation)
AccessPoint == Values({"id", "macAddress", "serialNumber", "name", "deviceType",
     "automaticUpgrade", "configurationUUID", "currentFirmware",
     "currentFirmwareDate", "latestFirmware", "latestFirmwareDate",
     "newFirmwareAvailable", "latestFirmwareURI"})
     @@ [subscriberDevices |-> SubscriberDeviceListJson,
        ipReservations |-> IPReservationListJson, address |-> LocationJson,
        wifiNetworks |-> WifiNetworkListJson,
        internetConnection |-> InternetConnectionJson,
        deviceMode |-> HomeDeviceModeJson, dnsConfiguration |-> DnsConfigurationJson,
        radios |-> RadioInformationJson]
AccessPointJson == Both("AccessPoint", AccessPoint)
AccessPointList == [list |-> AccessPointJson]
AccessPointListJson == Both("AccessPointList", AccessPointList)
SubscriberInfo == Values({"id", "userId", "firstName", "initials", "lastName",
     "phoneNumber", "secondaryEmail", "created", "modified"})
     @@ [accessPoints |-> AccessPointListJson, serviceAddress |-> LocationJson,
        billingAddress |-> LocationJson]
SubscriberInfoJson == Both("SubscriberInfo", SubscriberInfo)
StatsEntry == Values({"timestamp", "tx", "rx"})
StatsEntryJson == Both("StatsEntry", StatsEntry)
StatsBlock == Values({"modified"})
     @@ [external |-> StatsEntryJson, internal |-> StatsEntryJson]
StatsBlockJson == Both("StatsBlock", StatsBlock)

(* The objects that are part of no other one here. *)
Objects == {AssociationListJson, ClientListJson, SubscriberInfoJson, StatsBlockJson}
=============================================================================
