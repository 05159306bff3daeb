---------------------------- MODULE OWLSObjects -----------------------------
(***************************************************************************)
(* The simulations, their results and the lists of them.                   *)
(***************************************************************************)
EXTENDS RESTAPI_utils

SimulationDetails == Values({"id", "name", "gateway", "certificate", "key",
     "macPrefix", "deviceType", "devices", "healthCheckInterval", "stateInterval",
     "minAssociations", "maxAssociations", "minClients", "maxClients",
     "simulationLength", "threads", "clientInterval", "keepAlive",
     "reconnectInterval", "concurrentDevices"})
(* A mutated form of the next definition: from_json forgets the last member. *)
ForgetsConcurrency == Except("SimulationDetails", SimulationDetails, {}, {"concurrentDevices"})

SimulationDetailsJson == Both("SimulationDetails", SimulationDetails)
SimulationDetailsList == [list |-> SimulationDetailsJson]
SimulationDetailsListJson == Both("SimulationDetailsList", SimulationDetailsList)
SimulationStatus == Values({"id", "simulationId", "state", "owner", "tx", "rx",
     "msgsTx", "msgsRx", "liveDevices", "timeToFullDevices", "startTime", "endTime",
     "errorDevices", "expectedDevices"})
SimulationStatusJson == Both("SimulationStatus", SimulationStatus)
Dashboard == Values({})
DashboardJson == Both("OWLS.Dashboard", Dashboard)

(* The objects that are part of no other one here. *)
Objects == {SimulationDetailsJson, SimulationDetailsListJson, SimulationStatusJson,
   DashboardJson}
=============================================================================
