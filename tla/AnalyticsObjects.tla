-------------------------- MODULE AnalyticsObjects --------------------------
(***************************************************************************)
(* The objects of the analytics service.                                   *)
(***************************************************************************)
EXTENDS RESTAPI_utils
Prov == INSTANCE ProvObjects

Report == Values({"snapShot"})
ReportJson == WritesOnly("Analytics.Report", Report, {"snapShot"})
VenueInfo == Values({"id", "name", "description", "retention", "interval",
     "monitorSubVenues"})
VenueInfoJson == Both("VenueInfo", VenueInfo)
BoardInfo == [info |-> Prov!ObjectInfoJson, venueList |-> VenueInfoJson]
BoardInfoJson == Inlines("BoardInfo", BoardInfo)
DeviceInfo == Values({"boardId", "type", "serialNumber", "deviceType",
     "lastContact", "lastPing", "lastState", "lastFirmware", "lastFirmwareUpdate",
     "lastConnection", "lastDisconnection", "pings", "states", "connected",
     "connectionIp", "associations_2g", "associations_5g", "associations_6g",
     "health", "lastHealth", "locale", "uptime", "memory"})
DeviceInfoJson == Both("DeviceInfo", DeviceInfo)
DeviceInfoList == [devices |-> DeviceInfoJson]
DeviceInfoListJson == Both("DeviceInfoList", DeviceInfoList)
TIDstat_entry == Values({"rx_msdu", "tx_msdu", "tx_msdu_failed", "tx_msdu_retries"})
TIDstat_entryJson == Both("TIDstat_entry", TIDstat_entry)
UE_rate == Values({"bitrate", "mcs", "nss", "ht", "sgi", "chwidth"})
UE_rateJson == Both("UE_rate", UE_rate)
AveragePoint == Values({"min", "max", "avg"})
AveragePointJson == Both("AveragePoint", AveragePoint)
UETimePoint == Values({"station", "rssi", "tx_bytes", "rx_bytes", "tx_duration",
     "rx_packets", "tx_packets", "tx_retries", "tx_failed", "connected", "inactive",
     "tx_bytes_bw", "rx_bytes_bw", "tx_packets_bw", "rx_packets_bw",
     "tx_failed_pct", "tx_retries_pct", "tx_duration_pct", "tx_bytes_delta",
     "rx_bytes_delta", "tx_duration_delta", "rx_packets_delta", "tx_packets_delta",
     "tx_retries_delta", "tx_failed_delta"})
     @@ [tx_rate |-> UE_rateJson, rx_rate |-> UE_rateJson, tidstats |-> TIDstat_entryJson]
UETimePointJson == Both("UETimePoint", UETimePoint)
SSIDTimePoint == Values({"bssid", "mode", "ssid", "band", "channel"})
     @@ [associations |-> UETimePointJson, tx_bytes_bw |-> AveragePointJson,
        rx_bytes_bw |-> AveragePointJson, tx_packets_bw |-> AveragePointJson,
        rx_packets_bw |-> AveragePointJson, tx_failed_pct |-> AveragePointJson,
        tx_retries_pct |-> AveragePointJson, tx_duration_pct |-> AveragePointJson]
SSIDTimePointJson == Both("SSIDTimePoint", SSIDTimePoint)
APTimePoint == Values({"collisions", "multicast", "rx_bytes", "rx_dropped",
     "rx_errors", "rx_packets", "tx_bytes", "tx_dropped", "tx_errors", "tx_packets",
     "tx_bytes_bw", "rx_bytes_bw", "rx_dropped_pct", "tx_dropped_pct",
     "rx_packets_bw", "tx_packets_bw", "rx_errors_pct", "tx_errors_pct",
     "tx_bytes_delta", "rx_bytes_delta", "rx_dropped_delta", "tx_dropped_delta",
     "rx_packets_delta", "tx_packets_delta", "rx_errors_delta", "tx_errors_delta"})
APTimePointJson == Both("APTimePoint", APTimePoint)
RadioTimePoint == Values({"band", "channel_width", "active_ms", "busy_ms",
     "receive_ms", "transmit_ms", "tx_power", "channel", "temperature", "noise",
     "active_pct", "busy_pct", "receive_pct", "transmit_pct"})
RadioTimePointJson == Both("RadioTimePoint", RadioTimePoint)
DeviceTimePoint == Values({"id", "boardId", "timestamp", "serialNumber"})
     @@ [ap_data |-> APTimePointJson, ssid_data |-> SSIDTimePointJson,
        radio_data |-> RadioTimePointJson, device_info |-> DeviceInfoJson]
DeviceTimePointJson == Both("DeviceTimePoint", DeviceTimePoint)
DeviceTimePointAnalysis == Values({"timestamp"})
     @@ [noise |-> AveragePointJson, temperature |-> AveragePointJson,
        active_pct |-> AveragePointJson, busy_pct |-> AveragePointJson,
        receive_pct |-> AveragePointJson, transmit_pct |-> AveragePointJson,
        tx_power |-> AveragePointJson, tx_bytes_bw |-> AveragePointJson,
        rx_bytes_bw |-> AveragePointJson, rx_dropped_pct |-> AveragePointJson,
        tx_dropped_pct |-> AveragePointJson, rx_packets_bw |-> AveragePointJson,
        tx_packets_bw |-> AveragePointJson, rx_errors_pct |-> AveragePointJson,
        tx_errors_pct |-> AveragePointJson]
DeviceTimePointAnalysisJson ==
  Except("DeviceTimePointAnalysis", DeviceTimePointAnalysis, {"timestamp"}, {"timestamp"})
DeviceTimePointList == [points |-> DeviceTimePointJson, stats |-> DeviceTimePointAnalysisJson]
DeviceTimePointListJson == Both("DeviceTimePointList", DeviceTimePointList)
DeviceTimePointStats == Values({"firstPoint", "lastPoint", "count"})
DeviceTimePointStatsJson == Both("DeviceTimePointStats", DeviceTimePointStats)
WifiClientRate == Values({"bitrate", "chwidth", "mcs", "nss", "vht"})
WifiClientRateJson == Both("WifiClientRate", WifiClientRate)
WifiClientHistory == Values({"timestamp", "station_id", "bssid", "ssid", "rssi",
     "rx_bitrate", "rx_chwidth", "rx_mcs", "rx_nss", "rx_vht", "tx_bitrate",
     "tx_chwidth", "tx_mcs", "tx_nss", "tx_vht", "rx_bytes", "tx_bytes",
     "rx_duration", "tx_duration", "rx_packets", "tx_packets", "ipv4", "ipv6",
     "channel_width", "noise", "tx_power", "channel", "active_ms", "busy_ms",
     "receive_ms", "mode", "ack_signal", "ack_signal_avg", "connected", "inactive",
     "tx_retries", "venue_id"})
WifiClientHistoryJson == Both("WifiClientHistory", WifiClientHistory)

(* The objects that are part of no other one here. *)
Objects == {ReportJson, BoardInfoJson, DeviceInfoListJson, DeviceTimePointListJson,
   DeviceTimePointStatsJson, WifiClientRateJson, WifiClientHistoryJson}
=============================================================================
