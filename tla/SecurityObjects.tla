-------------------------- MODULE SecurityObjects ---------------------------
(***************************************************************************)
(* Users, their tokens and rights, and the system endpoints: what the      *)
(* security service answers when a request is authorized.                  *)
(***************************************************************************)
EXTENDS RESTAPI_utils

AclTemplate == Values({"Read", "ReadWrite", "ReadWriteCreate", "Delete",
     "PortalLogin"})
AclTemplateJson == Both("AclTemplate", AclTemplate)
WebToken == Values({"access_token", "refresh_token", "id_token_", "token_type",
     "username", "userMustChangePassword", "errorCode", "expires_in",
     "idle_timeout", "created", "lastRefresh"}) @@ [aclTemplate |-> AclTemplateJson]
WebTokenJson == Except("WebToken", WebToken, {"id_token_"}, {"id_token_", "errorCode"})
NoteInfo == Values({"created", "createdBy", "note"})
NoteInfoJson == Both("NoteInfo", NoteInfo)
MobilePhoneNumber == Values({"number", "verified", "primary"})
MobilePhoneNumberJson == Both("MobilePhoneNumber", MobilePhoneNumber)
MfaAuthInfo == Values({"enabled", "method"})
MfaAuthInfoJson == Both("MfaAuthInfo", MfaAuthInfo)
UserLoginLoginExtensions == Values({"authenticatorSecret"})
     @@ [mobiles |-> MobilePhoneNumberJson, mfa |-> MfaAuthInfoJson]
UserLoginLoginExtensionsJson == Both("UserLoginLoginExtensions", UserLoginLoginExtensions)
MFAChallengeRequest == Values({"uuid", "question", "method", "created"})
MFAChallengeRequestJson == Both("MFAChallengeRequest", MFAChallengeRequest)
MFAChallengeResponse == Values({"uuid", "answer"})
MFAChallengeResponseJson == Both("MFAChallengeResponse", MFAChallengeResponse)
UserInfo == Values({"id", "name", "description", "avatar", "email", "validated",
     "validationEmail", "validationDate", "creationDate", "validationURI",
     "changePassword", "lastLogin", "currentLoginURI", "lastPasswordChange",
     "lastEmailCheck", "waitingForEmailCheck", "locale", "location", "owner",
     "suspended", "blackListed", "userRole", "securityPolicy",
     "securityPolicyChange", "currentPassword", "lastPasswords", "oauthType",
     "oauthUserInfo", "modified", "signingUp"})
     @@ [notes |-> NoteInfoJson, userTypeProprietaryInfo |-> UserLoginLoginExtensionsJson]
UserInfoJson == Both("UserInfo", UserInfo)
UserInfoList == [users |-> UserInfoJson]
UserInfoListJson == Both("UserInfoList", UserInfoList)
InternalServiceInfo == Values({"privateURI", "publicURI", "token"})
InternalServiceInfoJson == Both("InternalServiceInfo", InternalServiceInfo)
InternalSystemServices == Values({"key", "version"})
     @@ [services |-> InternalServiceInfoJson]
InternalSystemServicesJson == Both("InternalSystemServices", InternalSystemServices)
SystemEndpoint == Values({"type", "id", "vendor", "uri", "authenticationType"})
SystemEndpointJson == Both("SystemEndpoint", SystemEndpoint)
SystemEndpointList == [endpoints |-> SystemEndpointJson]
SystemEndpointListJson == Both("SystemEndpointList", SystemEndpointList)
UserInfoAndPolicy == [tokenInfo |-> WebTokenJson, userInfo |-> UserInfoJson]
UserInfoAndPolicyJson == Both("UserInfoAndPolicy", UserInfoAndPolicy)
ProfileAction == Values({"resource", "access"})
ProfileActionJson == Both("ProfileAction", ProfileAction)
SecurityProfile == Values({"id", "name", "description", "role"})
     @@ [policy |-> ProfileActionJson, notes |-> NoteInfoJson]
SecurityProfileJson == Both("SecurityProfile", SecurityProfile)
SecurityProfileList == [profiles |-> SecurityProfileJson]
SecurityProfileListJson == Both("SecurityProfileList", SecurityProfileList)
ActionLink == Values({"id", "action", "userId", "actionTemplate", "variables",
     "locale", "message", "sent", "created", "expires", "completed", "canceled",
     "userAction"})
ActionLinkJson == Both("ActionLink", ActionLink)
Preferences == Values({"id", "modified", "data"})
PreferencesJson == Both("Preferences", Preferences)
SubMfaConfig == Values({"id", "type", "sms", "email"})
SubMfaConfigJson == Both("SubMfaConfig", SubMfaConfig)
Token == Values({"token", "refreshToken", "tokenType", "userName", "created",
     "expires", "idleTimeout", "revocationDate", "lastRefresh"})
TokenJson == Both("Token", Token)
LoginRecordInfo == Values({"sessionId", "userId", "email", "login", "logout"})
LoginRecordInfoJson == WritesOnly("LoginRecordInfo", LoginRecordInfo, {})
ApiKeyAccessRight == Values({"service", "access"})
ApiKeyAccessRightJson == Both("ApiKeyAccessRight", ApiKeyAccessRight)
ApiKeyAccessRightList == [acls |-> ApiKeyAccessRightJson]
ApiKeyAccessRightListJson == Both("ApiKeyAccessRightList", ApiKeyAccessRightList)
ApiKeyEntry == Values({"id", "userUuid", "name", "description", "apiKey", "salt",
     "created", "expiresOn", "lastUse"}) @@ [rights |-> ApiKeyAccessRightListJson]
ApiKeyEntryJson == Except("ApiKeyEntry", ApiKeyEntry, {"created"}, {"created"})
ApiKeyEntryList == [apiKeys |-> ApiKeyEntryJson]
ApiKeyEntryListJson == Both("ApiKeyEntryList", ApiKeyEntryList)
ExtraSystemConfiguration == Values({"parameterName", "parameterValue"})
ExtraSystemConfigurationJson == Both("ExtraSystemConfiguration", ExtraSystemConfiguration)

(* The enumerators by their names in JSON, and back. *)
UserTypeToString ==
  [ROOT |-> "root", ADMIN |-> "admin", SUBSCRIBER |-> "subscriber", PARTNER |-> "partner",
   CSR |-> "csr", SYSTEM |-> "system", INSTALLER |-> "installer", NOC |-> "noc",
   ACCOUNTING |-> "accounting", UNKNOWN |-> "unknown"]
UserTypeFromString(s) ==
  CASE s = "root" -> "ROOT" [] s = "admin" -> "ADMIN" [] s = "subscriber" -> "SUBSCRIBER"
    [] s = "partner" -> "PARTNER" [] s = "csr" -> "CSR" [] s = "system" -> "SYSTEM"
    [] s = "installer" -> "INSTALLER" [] s = "noc" -> "NOC" [] s = "accounting" -> "ACCOUNTING"
    [] OTHER -> "UNKNOWN"

ResourceAccessTypes == {"READ", "MODIFY", "DELETE", "CREATE", "TEST", "MOVE"}
ResourceAccessTypeToString ==
  [a \in ResourceAccessTypes \cup {"NONE"} |-> a]
ResourceAccessTypeFromString(s) == IF s \in ResourceAccessTypes THEN s ELSE "NONE"

(* The objects that are part of no other one here. *)
Objects == {MFAChallengeRequestJson, MFAChallengeResponseJson, UserInfoListJson,
   InternalSystemServicesJson, SystemEndpointListJson, UserInfoAndPolicyJson,
   SecurityProfileListJson, ActionLinkJson, PreferencesJson, SubMfaConfigJson,
   TokenJson, LoginRecordInfoJson, ApiKeyEntryListJson, ExtraSystemConfigurationJson}
=============================================================================
