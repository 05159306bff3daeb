---------------------------- MODULE RESTObjects -----------------------------
(***************************************************************************)
(* What a member of an object keeps on its way through JSON, and through the *)
(* tables of the database that hold simulations and results.                *)
(*                                                                         *)
(* A behaviour picks an object and follows one member of it, a member of     *)
(* that, and so on: path is where it is, kept whether what was there before   *)
(* to_json is there after from_json.                                        *)
(***************************************************************************)
EXTENDS RESTAPI_utils, Sequences, Integers

OWLS == INSTANCE OWLSObjects
Security == INSTANCE SecurityObjects
Prov == INSTANCE ProvObjects
GW == INSTANCE GWObjects
FMS == INSTANCE FMSObjects
Sub == INSTANCE SubObjects
Cert == INSTANCE CertObjects
Analytics == INSTANCE AnalyticsObjects

Objects ==
  UNION {OWLS!Objects, Security!Objects, Prov!Objects, GW!Objects, FMS!Objects,
         Sub!Objects, Cert!Objects, Analytics!Objects}

VARIABLES
  object,       \* the conversion of the object that is reached
  path,         \* the members on the way, each with the struct it is in
  stored,       \* whether the outermost object was a row of its table meanwhile
  over,         \* the keys that are set again after those of an inlined object
  kept          \* whether what was in the member is still there

vars == <<object, path, stored, over, kept>>
-----------------------------------------------------------------------------
(* The columns of a table by their names, the members that Convert puts in     *)
(* them, and the members that it takes out of them.                          *)
SimulationDB_Fields ==
  <<"id", "name", "gateway", "certificate", "key", "macPrefix", "devices",
    "healthCheckInterval", "stateInterval", "minAssociations", "maxAssociations",
    "minClients", "maxClients", "simulationLength", "threads", "clientInterval",
    "keepAlive", "reconnectInterval", "deviceType", "concurrentDevices">>
SimulationDB_Out ==
  <<"id", "name", "gateway", "certificate", "key", "macPrefix", "devices",
    "healthCheckInterval", "stateInterval", "minAssociations", "maxAssociations",
    "minClients", "maxClients", "simulationLength", "threads", "clientInterval",
    "keepAlive", "reconnectInterval", "deviceType", "concurrentDevices">>
SimulationDB_In ==
  <<"id", "name", "gateway", "certificate", "key", "macPrefix", "devices",
    "healthCheckInterval", "stateInterval", "minAssociations", "maxAssociations",
    "minClients", "maxClients", "simulationLength", "threads", "clientInterval",
    "keepAlive", "reconnectInterval", "deviceType", "concurrentDevices">>

SimulationResultsDB_Fields ==
  <<"id", "simulationId", "state", "tx", "rx", "msgsTx", "msgsRx", "liveDevices",
    "timeToFullDevices", "startTime", "endTime", "errorDevices", "owner">>
(* A mutated form of the next definition: two columns are swapped. *)
SwapsTimes ==
  <<"id", "simulationId", "state", "tx", "rx", "msgsTx", "msgsRx", "liveDevices",
    "timeToFullDevices", "endTime", "startTime", "errorDevices", "owner">>
SimulationResultsDB_Out ==
  <<"id", "simulationId", "state", "tx", "rx", "msgsTx", "msgsRx", "liveDevices",
    "timeToFullDevices", "startTime", "endTime", "errorDevices", "owner">>
SimulationResultsDB_In ==
  <<"id", "simulationId", "state", "tx", "rx", "msgsTx", "msgsRx", "liveDevices",
    "timeToFullDevices", "startTime", "endTime", "errorDevices", "owner">>

Tables ==
  [SimulationDetails |->
     [fields |-> SimulationDB_Fields, out |-> SimulationDB_Out, in |-> SimulationDB_In],
   SimulationStatus |->
     [fields |-> SimulationResultsDB_Fields, out |-> SimulationResultsDB_Out,
      in |-> SimulationResultsDB_In]]

(* Member m is in the column of its name, and comes back from there. *)
KeepsRow(t, m) ==
  LET columns == {i \in DOMAIN t.fields : m \in {t.fields[i], t.out[i], t.in[i]}}
  IN  columns # {} /\ \A i \in columns : t.fields[i] = m /\ t.out[i] = m /\ t.in[i] = m

(* The members that are enumerators: the names written, and what they become. *)
Enumerations ==
  (<<"UserInfo", "userRole">> :> "role") @@ (<<"ProfileAction", "access">> :> "access")
  @@ (<<"Prov.Location", "type">> :> "location") @@ (<<"Contact", "type">> :> "contact")
Enumerators(e) ==
  CASE e = "role" -> DOMAIN Security!UserTypeToString
    [] e = "access" -> DOMAIN Security!ResourceAccessTypeToString
    [] e = "location" -> DOMAIN Prov!location_to_string
    [] e = "contact" -> DOMAIN Prov!contact_to_string
KeepsEnumerator(e, v) ==
  v = CASE e = "role" -> Security!UserTypeFromString(Security!UserTypeToString[v])
        [] e = "access" ->
             Security!ResourceAccessTypeFromString(Security!ResourceAccessTypeToString[v])
        [] e = "location" -> Prov!location_from_string(Prov!location_to_string[v])
        [] e = "contact" -> Prov!contact_from_string(Prov!contact_to_string[v])
-----------------------------------------------------------------------------
Init ==
  /\ object \in Objects
  /\ stored \in {FALSE} \cup {s \in {TRUE} : object.name \in DOMAIN Tables}
  /\ path = <<>> /\ over = {} /\ kept = TRUE

(* The conversions of an object call those of its member, under a key of its   *)
(* own or, first of all, on the same object.                                 *)
Converts(m) ==
  /\ m \in DOMAIN object.held
  /\ path' = Append(path, <<object.name, m>>)
  /\ kept' = (/\ kept /\ m \in object.writes \cap object.reads /\ m \notin over
              /\ stored /\ path = <<>> => KeepsRow(Tables[object.name], m))
  /\ over' = IF m \in object.inlined THEN object.writes \ object.inlined ELSE {}
  /\ object' = object.held[m]
  /\ UNCHANGED stored

Enumerates ==
  /\ path # <<>> /\ path[Len(path)] \in DOMAIN Enumerations
  /\ LET e == Enumerations[path[Len(path)]]
     IN  \E v \in Enumerators(e) :
           /\ path' = Append(path, <<e, v>>)
           /\ kept' = (kept /\ KeepsEnumerator(e, v))
  /\ UNCHANGED <<object, stored, over>>

Next == (\E m \in DOMAIN object.held : Converts(m)) \/ Enumerates

Spec == Init /\ [][Next]_vars
-----------------------------------------------------------------------------
(* The structs that are only answered, or only asked for. *)
OneWay ==
  {"Analytics.Report", "Prov.Report", "Cert.Dashboard", "GW.Dashboard",
   "DashBoardYearlyStats", "DeviceReport", "ConnectionState",
   "Statistics", "HealthCheck", "Capabilities", "DeviceLog", "CommandDetails",
   "RttySessionDetails", "CapabilitiesModel", "RangeOptions", "FrequencyRange",
   "RegulatoryCountryInfo", "RADIUSSession", "RADIUSSessionList",
   "DeviceTransferRequest", "DeviceCertificateUpdateRequest", "LoginRecordInfo"}

(* The members that one of the conversions of their struct leaves out. *)
LeftOut ==
  {<<"DeviceTimePointAnalysis", "timestamp">>, <<"Device", "deviceType">>,
   <<"DefaultConfiguration", "created">>, <<"DefaultConfiguration", "lastModified">>,
   <<"ManagementPolicy", "venue">>, <<"ManagementRole", "inUse">>,
   <<"WebToken", "id_token_">>, <<"WebToken", "errorCode">>,
   <<"ApiKeyEntry", "created">>, <<"HomeDeviceMode", "leaseTime">>}

OnTheWay(lost) == \E i \in DOMAIN path : path[i] \in lost

(* What an object held before it was written as JSON, in whatever object it is *)
(* a part of, it holds when it is read again, but for the members that are      *)
(* left out, and for the contact of type MANAGER: no key is set by two          *)
(* members, no key is written under a name that is not asked for.             *)
JsonKeeps ==
  ~stored =>
    (~kept <=> \/ \E i \in DOMAIN path : path[i][1] \in OneWay
               \/ OnTheWay(LeftOut) \/ OnTheWay({<<"contact", "MANAGER">>}))

(* Nor does the table lose any member of a simulation, or mix two up; that of  *)
(* the results has no column for the expected number of devices.             *)
RowsKeep == stored => (~kept <=> OnTheWay({<<"SimulationStatus", "expectedDevices">>}))
=============================================================================
