---------------------------- MODULE CertObjects -----------------------------
(***************************************************************************)
(* The objects of the certificate service.                                 *)
(***************************************************************************)
EXTENDS RESTAPI_utils
Security == INSTANCE SecurityObjects

CertificateEntry == Values({"id", "entity", "creator", "type", "status",
     "certificate", "key", "devid", "cas", "manufacturer", "model", "redirector",
     "commonName", "certificateId", "batch", "created", "modified", "revoked",
     "revokeCount", "synched", "expiryDate"})
CertificateEntryJson == Both("CertificateEntry", CertificateEntry)
EntityEntry == Values({"id", "creator", "name", "description", "defaultRedirector",
     "apiKey", "serverEnrollmentProfile", "clientEnrollmentProfile", "organization",
     "suspended", "deleted", "created", "modified"})
     @@ [notes |-> Security!NoteInfoJson]
EntityEntryJson == Both("EntityEntry", EntityEntry)
BatchEntry == Values({"id", "entity", "creator", "name", "description",
     "manufacturer", "model", "redirector", "commonNames", "jobHistory",
     "submitted", "started", "completed", "modified"})
     @@ [notes |-> Security!NoteInfoJson]
BatchEntryJson == Both("BatchEntry", BatchEntry)
JobEntry == Values({"id", "entity", "creator", "batch", "command", "commonNames",
     "completedNames", "errorNames", "parameters", "status", "submitted", "started",
     "completed", "requesterUsername"})
JobEntryJson == Both("JobEntry", JobEntry)
DashBoardYearlyStats == Values({"year", "activeCerts", "revokedCerts"})
DashBoardYearlyStatsJson == WritesOnly("DashBoardYearlyStats", DashBoardYearlyStats, {})
Dashboard == Values({"snapshot", "numberOfIssuedCerts", "numberOfRevokedCerts",
     "activeCertsPerOrganization", "revokedCertsPerOrganization",
     "numberOfRedirectors", "deviceTypes", "monthlyNumberOfCerts"})
     @@ [monthlyNumberOfCertsPerOrgPerYear |-> DashBoardYearlyStatsJson]
DashboardJson == WritesOnly("Cert.Dashboard", Dashboard, {})

(* The objects that are part of no other one here. *)
Objects == {CertificateEntryJson, EntityEntryJson, BatchEntryJson, JobEntryJson,
   DashboardJson}
=============================================================================
