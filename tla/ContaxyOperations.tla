------------------------- MODULE ContaxyOperations -------------------------
(***************************************************************************)
(* What the web app may ask of the platform: the ninety-six operations of  *)
(* the client in webapp/src/services/contaxy-client/api.                   *)
(*                                                                         *)
(* Every method xWithHttpInfo there checks that its required arguments are *)
(* set, sorts its arguments into path, query, form and body, and passes    *)
(* them to ApiClient.callApi; the method x hands on the data of the        *)
(* answer.  An operation is the record of these choices.  A query or form  *)
(* argument is named after the argument of the method, one field each.     *)
(***************************************************************************)
EXTENDS Sequences

(***************************************************************************)
(* The template of a path is a sequence of segments, a segment a sequence  *)
(* of tokens: a word or the name of a path argument, and after it perhaps  *)
(* ":" and a verb.                                                         *)
(***************************************************************************)
PathArguments == {"projectId", "fileKey", "actionId", "jobId", "serviceId",
                  "userId", "collectionId", "extensionId", "key"}

Path(words) == [i \in DOMAIN words |-> <<words[i]>>]
Below(path, words) == path \o Path(words)
Verb(path, verb) == [path EXCEPT ![Len(path)] = @ \o <<":", verb>>]

\* How the arguments outside path and query are sent.
None == [format |-> "none", of |-> {}]
Json(argument) == [format |-> "json", of |-> {argument}]
Form(arguments) == [format |-> "form", of |-> arguments]
Multipart(arguments) == [format |-> "multipart", of |-> arguments]

\* What the data of the answer is converted to (the returnType of callApi).
Nothing == [kind |-> "nothing", class |-> ""]
Text == [kind |-> "text", class |-> ""]
Anything == [kind |-> "anything", class |-> ""]
Record(class) == [kind |-> "record", class |-> class]
ListOf(class) == [kind |-> "list", class |-> class]

\* A class that converts nothing: FilesApi imports no model File, and its File is
\* that of the browser.  The items of listFiles are not converted either.
Unconverted(class) == [kind |-> "unconverted", class |-> class]

\* An operation.  The arguments in its path are always required.
Op(method, path, required, query, body, returns) ==
  LET inPath == PathArguments \cap {path[i][1] : i \in DOMAIN path}
  IN  [method |-> method, path |-> path, inPath |-> inPath,
       required |-> required \cup inPath, query |-> query, body |-> body,
       returns |-> returns]

\* The paths several operations share.
AuthPath == Path(<<"auth">>)
ProjectsPath == Path(<<"projects">>)
SystemPath == Path(<<"system">>)
UsersPath == Path(<<"users">>)
OAuthPath == Below(AuthPath, <<"oauth">>)
PermissionsPath == Below(AuthPath, <<"permissions">>)
TokensPath == Below(AuthPath, <<"tokens">>)
ProjectPath == Below(ProjectsPath, <<"projectId">>)
ImagesPath == Below(SystemPath, <<"allowed-images">>)
UserPath == Below(UsersPath, <<"userId">>)
ExtensionsPath == Below(ProjectPath, <<"extensions">>)
FilesPath == Below(ProjectPath, <<"files">>)
JobsPath == Below(ProjectPath, <<"jobs">>)
JsonPath == Below(ProjectPath, <<"json">>)
ServicesPath == Below(ProjectPath, <<"services">>)
ExtensionPath == Below(ExtensionsPath, <<"extensionId">>)
FilePath == Below(FilesPath, <<"fileKey">>)
JobPath == Below(JobsPath, <<"jobId">>)
CollectionPath == Below(JsonPath, <<"collectionId">>)
ServicePath == Below(ServicesPath, <<"serviceId">>)
MemberPath == Below(ProjectPath, <<"users", "userId">>)
DocumentPath == Below(CollectionPath, <<"key">>)

-----------------------------------------------------------------------------
\* AuthApi: Tokens, permissions and log in.
createToken ==
  Op("POST", TokensPath, {},
     {"scope", "tokenType", "description", "tokenPurpose"}, None, Text)
deleteResourcePermissions ==
  Op("DELETE", PermissionsPath, {"resourceName", "permission"},
     {"resourceName", "permission", "removeSubPermissions"}, None, Nothing)
getResourcesWithPermission ==
  Op("GET", Below(AuthPath, <<"resources">>), {"permission"},
     {"permission", "resourceNamePrefix"}, None, ListOf("String"))
introspectToken ==
  Op("POST", Below(OAuthPath, <<"introspect">>), {"token"}, {},
     Form({"token", "tokenTypeHint"}), Record("OAuthTokenIntrospection"))
listApiTokens ==
  Op("GET", TokensPath, {}, {"tokenSubject"}, None, ListOf("ApiToken"))
listResourcePermissions ==
  Op("GET", PermissionsPath, {"resourceName"},
     {"resourceName", "resolveRoles", "useCache"}, None, ListOf("String"))
loginCallback ==
  Op("GET", Below(OAuthPath, <<"callback">>), {"code"}, {"code", "state"},
     None, Anything)
loginUserSession ==
  Op("GET", Below(AuthPath, <<"login">>), {"username", "password"}, {},
     Form({"username", "password"}), Nothing)
logoutUserSession ==
  Op("GET", Below(AuthPath, <<"logout">>), {}, {}, None, Nothing)
oauthEnabled == Op("GET", Below(OAuthPath, <<"enabled">>), {}, {}, None, Text)
openLoginPage ==
  Op("GET", Below(AuthPath, <<"login-page">>), {}, {}, None, Nothing)
requestToken ==
  Op("POST", Below(OAuthPath, <<"token">>), {"grantType"}, {},
     Form({"grantType", "username", "password", "scope", "clientId",
           "clientSecret", "code", "redirectUri", "refreshToken", "state",
           "setAsCookie"}), Record("OAuthToken"))
revokeToken ==
  Op("POST", Below(OAuthPath, <<"revoke">>), {"token"}, {},
     Form({"token", "tokenTypeHint"}), Anything)
setResourcePermissions ==
  Op("POST", PermissionsPath, {"resourceName", "permission"},
     {"resourceName", "permission"}, None, Nothing)
verifyAccess ==
  Op("POST", Below(TokensPath, <<"verify">>), {}, {"permission", "useCache"},
     Json("body"), Record("AuthorizedAccess"))

-----------------------------------------------------------------------------
\* ExtensionsApi: Extensions of a project.
deleteExtension == Op("DELETE", ExtensionPath, {}, {}, None, Nothing)
getExtensionMetadata ==
  Op("GET", ExtensionPath, {}, {}, None, Record("Extension"))
installExtension ==
  Op("POST", ExtensionsPath, {"extensionInput"}, {}, Json("extensionInput"),
     Record("Extension"))
listExtensions == Op("GET", ExtensionsPath, {}, {}, None, ListOf("Extension"))
suggestExtensionConfig ==
  Op("GET", Verb(ExtensionsPath, "suggest-config"), {"containerImage"},
     {"containerImage"}, None, Record("ExtensionInput"))

-----------------------------------------------------------------------------
\* FilesApi: Files of a project.
deleteFile ==
  Op("DELETE", FilePath, {}, {"version", "keepLatestVersion"}, None, Nothing)
deleteFiles ==
  Op("DELETE", FilesPath, {}, {"extensionId", "startDate", "endDate"}, None,
     Nothing)
downloadFile ==
  Op("GET", Verb(FilePath, "download"), {}, {"version"}, None, Anything)
executeFileAction ==
  Op("GET", Below(FilePath, <<"actions", "actionId">>), {}, {"version"}, None,
     Anything)
getFileMetadata ==
  Op("GET", Verb(FilePath, "metadata"), {}, {"version"}, None,
     Unconverted("File"))
listFileActions ==
  Op("GET", Below(FilePath, <<"actions">>), {}, {"version", "extensionId"},
     None, ListOf("ResourceAction"))
listFiles ==
  Op("GET", FilesPath, {},
     {"recursive", "includeVersions", "prefix", "extensionId"}, None,
     ListOf("File"))
updateFileMetadata ==
  Op("PATCH", FilePath, {"fileInput"}, {"version"}, Json("fileInput"),
     Unconverted("File"))
uploadFile ==
  Op("POST", FilePath, {"file"}, {}, Multipart({"file"}), Unconverted("File"))

-----------------------------------------------------------------------------
\* JobsApi: Jobs of a project.
deleteJob == Op("DELETE", JobPath, {}, {}, None, Nothing)
deleteJobs ==
  Op("DELETE", JobsPath, {}, {"extensionId", "startDate", "endDate"}, None,
     Nothing)
deployJob ==
  Op("POST", JobsPath, {"jobInput"}, {"actionId", "wait"}, Json("jobInput"),
     Record("Job"))
executeJobAction ==
  Op("POST", Below(JobPath, <<"actions", "actionId">>), {}, {},
     Json("resourceActionExecution"), Anything)
getJobLogs ==
  Op("GET", Below(JobPath, <<"logs">>), {}, {"lines", "since"}, None, Text)
getJobMetadata == Op("GET", JobPath, {}, {}, None, Record("Job"))
listDeployJobActions ==
  Op("POST", Verb(JobsPath, "deploy-actions"), {"jobInput"}, {"extensionId"},
     Json("jobInput"), ListOf("ResourceAction"))
listJobActions ==
  Op("GET", Below(JobPath, <<"actions">>), {}, {"extensionId"}, None,
     ListOf("ResourceAction"))
listJobs == Op("GET", JobsPath, {}, {"extensionId"}, None, ListOf("Job"))
suggestJobConfig ==
  Op("GET", Verb(JobsPath, "suggest-config"), {"containerImage"},
     {"containerImage", "extensionId"}, None, Record("JobInput"))

-----------------------------------------------------------------------------
\* JsonApi: JSON documents of a project.
createJsonDocument ==
  Op("PUT", DocumentPath, {"body"}, {"upsert"}, Json("body"),
     Record("JsonDocument"))
deleteJsonCollection == Op("DELETE", CollectionPath, {}, {}, None, Nothing)
deleteJsonCollections == Op("DELETE", JsonPath, {}, {}, None, Nothing)
deleteJsonDocument == Op("DELETE", DocumentPath, {}, {}, None, Nothing)
getJsonDocument ==
  Op("GET", DocumentPath, {}, {}, None, Record("JsonDocument"))
listJsonDocuments ==
  Op("GET", CollectionPath, {}, {"filter"}, None, ListOf("JsonDocument"))
updateJsonDocument ==
  Op("PATCH", DocumentPath, {"body"}, {}, Json("body"), Record("JsonDocument"))

-----------------------------------------------------------------------------
\* ProjectsApi: Projects and their members.
addProjectMember ==
  Op("PUT", MemberPath, {}, {"accessLevel"}, None, ListOf("User"))
createProject ==
  Op("POST", ProjectsPath, {"projectCreation"}, {}, Json("projectCreation"),
     Record("Project"))
deleteProject == Op("DELETE", ProjectPath, {}, {}, None, Nothing)
getProject == Op("GET", ProjectPath, {}, {}, None, Record("Project"))
getProjectToken ==
  Op("GET", Below(ProjectPath, <<"token">>), {}, {"accessLevel"}, None, Text)
getProjectToken_0 == getProjectToken
listProjectMembers ==
  Op("GET", Below(ProjectPath, <<"users">>), {}, {}, None,
     ListOf("UserPermission"))
listProjects == Op("GET", ProjectsPath, {}, {}, None, ListOf("Project"))
removeProjectMember == Op("DELETE", MemberPath, {}, {}, None, ListOf("User"))
suggestProjectId ==
  Op("GET", Verb(ProjectsPath, "suggest-id"), {"displayName"}, {"displayName"},
     None, Text)
updateProject ==
  Op("PATCH", ProjectPath, {"projectInput"}, {}, Json("projectInput"),
     Record("Project"))

-----------------------------------------------------------------------------
\* SeedApi: Example data.
createSeedDefaultSeedDefaultGet ==
  Op("GET", Path(<<"seed", "default">>), {}, {}, None, Anything)

-----------------------------------------------------------------------------
\* ServicesApi: Services of a project.
deleteService ==
  Op("DELETE", ServicePath, {}, {"deleteVolumes"}, None, Nothing)
deleteServices ==
  Op("DELETE", ServicesPath, {}, {"extensionId"}, None, Nothing)
deployService ==
  Op("POST", ServicesPath, {"serviceInput"}, {"actionId", "wait"},
     Json("serviceInput"), Record("Service"))
executeServiceAction ==
  Op("POST", Below(ServicePath, <<"actions", "actionId">>), {}, {},
     Json("resourceActionExecution"), Anything)
getServiceAccessToken ==
  Op("GET", Below(ServicePath, <<"token">>), {}, {"endpoint", "description"},
     None, Text)
getServiceAccessToken_0 == getServiceAccessToken
getServiceLogs ==
  Op("GET", Below(ServicePath, <<"logs">>), {}, {"lines", "since"}, None, Text)
getServiceMetadata == Op("GET", ServicePath, {}, {}, None, Record("Service"))
listDeployServiceActions ==
  Op("POST", Verb(ServicesPath, "deploy-actions"), {"serviceInput"},
     {"extensionId"}, Json("serviceInput"), ListOf("ResourceAction"))
listServiceActions ==
  Op("GET", Below(ServicePath, <<"actions">>), {}, {"extensionId"}, None,
     ListOf("ResourceAction"))
listServices ==
  Op("GET", ServicesPath, {}, {"extensionId"}, None, ListOf("Service"))
suggestServiceConfig ==
  Op("GET", Verb(ServicesPath, "suggest-config"), {"containerImage"},
     {"containerImage", "extensionId"}, None, Record("ServiceInput"))
updateService ==
  Op("PATCH", ServicePath, {"serviceUpdate"}, {}, Json("serviceUpdate"),
     Record("Service"))
updateServiceAccess ==
  Op("POST", Verb(ServicePath, "update-service-access"), {}, {}, None, Nothing)

-----------------------------------------------------------------------------
\* SystemApi: The platform itself.
addAllowedImage ==
  Op("POST", ImagesPath, {"allowedImageInfo"}, {}, Json("allowedImageInfo"),
     Record("AllowedImageInfo"))
checkHealthSystemHealthGet ==
  Op("GET", Below(SystemPath, <<"health">>), {}, {}, None, Nothing)
deleteAllowedImage ==
  Op("DELETE", ImagesPath, {"imageName"}, {"imageName"}, None, Nothing)
getSystemInfo ==
  Op("GET", Below(SystemPath, <<"info">>), {}, {}, None, Record("SystemInfo"))
getSystemStatistics ==
  Op("GET", Below(SystemPath, <<"statistics">>), {}, {}, None,
     Record("SystemStatistics"))
initializeSystem ==
  Op("POST", Below(SystemPath, <<"initialize">>), {}, {}, None, Nothing)
listAllowedImages ==
  Op("GET", ImagesPath, {}, {}, None, ListOf("AllowedImageInfo"))
registerAdminUserSystemAdminPost ==
  Op("POST", Below(SystemPath, <<"admin">>), {"password", "passwordConfirm"},
     {}, Form({"password", "passwordConfirm"}), Anything)

-----------------------------------------------------------------------------
\* UsersApi: Users.
changePassword ==
  Op("PUT", Verb(UserPath, "change-password"), {"body"}, {}, Json("body"),
     Nothing)
changePassword_0 == changePassword
createUser ==
  Op("POST", UsersPath, {"userRegistration"}, {}, Json("userRegistration"),
     Record("User"))
createUser_0 == createUser
deleteUser == Op("DELETE", UserPath, {}, {}, None, Nothing)
deleteUser_0 == deleteUser
getMyUser ==
  Op("GET", Below(UsersPath, <<"me">>), {}, {}, None, Record("User"))
getMyUser_0 == getMyUser
getUser == Op("GET", UserPath, {}, {}, None, Record("User"))
getUserToken ==
  Op("GET", Below(UserPath, <<"token">>), {}, {"accessLevel"}, None, Text)
getUserToken_0 == getUserToken
getUser_0 == getUser
listUsers ==
  Op("GET", UsersPath, {}, {}, None, ListOf("ResponseListUsersInner"))
listUsers_0 == listUsers
updateUser ==
  Op("PATCH", UserPath, {"userInput"}, {}, Json("userInput"), Record("User"))
updateUser_0 == updateUser

-----------------------------------------------------------------------------
\* The methods of each class.
AuthApi ==
  [createToken |-> createToken,
   deleteResourcePermissions |-> deleteResourcePermissions,
   getResourcesWithPermission |-> getResourcesWithPermission,
   introspectToken |-> introspectToken, listApiTokens |-> listApiTokens,
   listResourcePermissions |-> listResourcePermissions,
   loginCallback |-> loginCallback, loginUserSession |-> loginUserSession,
   logoutUserSession |-> logoutUserSession, oauthEnabled |-> oauthEnabled,
   openLoginPage |-> openLoginPage, requestToken |-> requestToken,
   revokeToken |-> revokeToken,
   setResourcePermissions |-> setResourcePermissions,
   verifyAccess |-> verifyAccess]
ExtensionsApi ==
  [deleteExtension |-> deleteExtension,
   getExtensionMetadata |-> getExtensionMetadata,
   installExtension |-> installExtension, listExtensions |-> listExtensions,
   suggestExtensionConfig |-> suggestExtensionConfig]
FilesApi ==
  [deleteFile |-> deleteFile, deleteFiles |-> deleteFiles,
   downloadFile |-> downloadFile, executeFileAction |-> executeFileAction,
   getFileMetadata |-> getFileMetadata, listFileActions |-> listFileActions,
   listFiles |-> listFiles, updateFileMetadata |-> updateFileMetadata,
   uploadFile |-> uploadFile]
JobsApi ==
  [deleteJob |-> deleteJob, deleteJobs |-> deleteJobs,
   deployJob |-> deployJob, executeJobAction |-> executeJobAction,
   getJobLogs |-> getJobLogs, getJobMetadata |-> getJobMetadata,
   listDeployJobActions |-> listDeployJobActions,
   listJobActions |-> listJobActions, listJobs |-> listJobs,
   suggestJobConfig |-> suggestJobConfig]
JsonApi ==
  [createJsonDocument |-> createJsonDocument,
   deleteJsonCollection |-> deleteJsonCollection,
   deleteJsonCollections |-> deleteJsonCollections,
   deleteJsonDocument |-> deleteJsonDocument,
   getJsonDocument |-> getJsonDocument,
   listJsonDocuments |-> listJsonDocuments,
   updateJsonDocument |-> updateJsonDocument]
ProjectsApi ==
  [addProjectMember |-> addProjectMember, createProject |-> createProject,
   deleteProject |-> deleteProject, getProject |-> getProject,
   getProjectToken |-> getProjectToken,
   getProjectToken_0 |-> getProjectToken_0,
   listProjectMembers |-> listProjectMembers, listProjects |-> listProjects,
   removeProjectMember |-> removeProjectMember,
   suggestProjectId |-> suggestProjectId, updateProject |-> updateProject]
SeedApi ==
  [createSeedDefaultSeedDefaultGet |-> createSeedDefaultSeedDefaultGet]
ServicesApi ==
  [deleteService |-> deleteService, deleteServices |-> deleteServices,
   deployService |-> deployService,
   executeServiceAction |-> executeServiceAction,
   getServiceAccessToken |-> getServiceAccessToken,
   getServiceAccessToken_0 |-> getServiceAccessToken_0,
   getServiceLogs |-> getServiceLogs,
   getServiceMetadata |-> getServiceMetadata,
   listDeployServiceActions |-> listDeployServiceActions,
   listServiceActions |-> listServiceActions, listServices |-> listServices,
   suggestServiceConfig |-> suggestServiceConfig,
   updateService |-> updateService,
   updateServiceAccess |-> updateServiceAccess]
SystemApi ==
  [addAllowedImage |-> addAllowedImage,
   checkHealthSystemHealthGet |-> checkHealthSystemHealthGet,
   deleteAllowedImage |-> deleteAllowedImage, getSystemInfo |-> getSystemInfo,
   getSystemStatistics |-> getSystemStatistics,
   initializeSystem |-> initializeSystem,
   listAllowedImages |-> listAllowedImages,
   registerAdminUserSystemAdminPost |-> registerAdminUserSystemAdminPost]
UsersApi ==
  [changePassword |-> changePassword, changePassword_0 |-> changePassword_0,
   createUser |-> createUser, createUser_0 |-> createUser_0,
   deleteUser |-> deleteUser, deleteUser_0 |-> deleteUser_0,
   getMyUser |-> getMyUser, getMyUser_0 |-> getMyUser_0, getUser |-> getUser,
   getUserToken |-> getUserToken, getUserToken_0 |-> getUserToken_0,
   getUser_0 |-> getUser_0, listUsers |-> listUsers,
   listUsers_0 |-> listUsers_0, updateUser |-> updateUser,
   updateUser_0 |-> updateUser_0]

\* Every operation by its name, which is that of a method of one class only.
Apis == {AuthApi, ExtensionsApi, FilesApi, JobsApi, JsonApi, ProjectsApi,
         SeedApi, ServicesApi, SystemApi, UsersApi}
Operations ==
  [name \in UNION {DOMAIN api : api \in Apis} |->
     (CHOOSE api \in Apis : name \in DOMAIN api)[name]]
=============================================================================
