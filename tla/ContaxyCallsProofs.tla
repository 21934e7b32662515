------------------------- MODULE ContaxyCallsProofs -------------------------
(***************************************************************************)
(* Proofs about ContaxyCalls: what a page may conclude from a settled      *)
(* call, whatever it has called; that the encoding of an argument loses    *)
(* nothing; of what kind the data of a resolved promise is; and that a     *)
(* server reads what was called from the request.                          *)
(***************************************************************************)
EXTENDS ContaxyCalls, SequenceTheorems, FiniteSetTheorems,
        WellFoundedInduction, TLAPS

(***************************************************************************)
(* The inductive invariant.  As long as the request is under way nothing   *)
(* is done; an answer that is not of an error says it is; and once a       *)
(* promise has an answer nothing is under way.                             *)
(***************************************************************************)
AnswerIsTrue ==
  flying = "answer" => /\ answer = "refused" => ~done
                       /\ answer \notin {"refused", "failed"} => done

Settled ==
  /\ phase \in {"idle", "thrown"} => ~done /\ flying = "nothing"
  /\ phase = "sent" => flying \in {"request", "answer"}
  /\ flying = "request" => ~done
  /\ phase = "resolved" => done
  /\ phase = "rejected" /\ result = "refused" => ~done /\ flying = "nothing"

Inductive == AnswerIsTrue /\ Settled

\* Nothing is called yet.
LEMMA InitInductive == Init => Inductive
BY DEF Init, Inductive, AnswerIsTrue, Settled

\* Every step keeps it: a call that throws sends nothing, a refusal is the
\* answer of a server that did nothing, and a time-out says nothing.
LEMMA NextInductive == Inductive /\ [Next]_vars => Inductive'
<1> SUFFICES ASSUME Inductive, [Next]_vars PROVE Inductive'
  OBVIOUS
<1> USE DEF Inductive, AnswerIsTrue, Settled
<1>1. ASSUME NEW name, NEW args, Call(name, args) PROVE Inductive'
  BY <1>1 DEF Call
<1>2. CASE Serve
  BY <1>2 DEF Serve
<1>3. CASE Return
  <2> DEFINE data == Deserialize(answer, Operations[call.name].returns)
  <2>1. /\ phase = "sent" /\ flying = "answer" /\ flying' = "nothing"
        /\ UNCHANGED <<answer, done>>
    BY <1>3 DEF Return
  <2>2. CASE answer \in {"refused", "failed"} /\ phase' = "rejected"
               /\ result' = answer
    BY <2>1, <2>2
  <2>3. CASE phase' = "rejected" /\ result' \in {"noResponse", "typeError"}
    BY <2>1, <2>3
  <2>4. CASE answer \in Bodies \cup {"noContent"} /\ phase' = "resolved"
    <3>1. done
      BY <2>1, <2>4 DEF Bodies
    <3> QED BY <2>1, <2>4, <3>1
  <2> QED BY <1>3, <2>2, <2>3, <2>4 DEF Return
<1>4. CASE TimeOut
  BY <1>4 DEF TimeOut
<1>5. CASE Forget
  BY <1>5 DEF Forget
<1>6. CASE UNCHANGED vars
  BY <1>6 DEF vars
<1> QED BY <1>1, <1>2, <1>3, <1>4, <1>5, <1>6 DEF Next

(***************************************************************************)
(* OutcomeIsKnown for all values: ApiClient.callApi resolves a promise     *)
(* only when the server has done what was asked, and reports a refusal     *)
(* only when it has not.                                                   *)
(***************************************************************************)
THEOREM CallsOutcomeIsKnown == Spec => []OutcomeIsKnown
<1>1. Inductive => OutcomeIsKnown
  BY DEF Inductive, Settled, OutcomeIsKnown
<1> QED BY InitInductive, NextInductive, <1>1, PTL DEF Spec

-----------------------------------------------------------------------------
(***************************************************************************)
(* What ApiClient.buildUrl puts in place of an argument: the server gets   *)
(* back the value, whatever characters it has, and finds nothing in it at  *)
(* which a path is cut.                                                    *)
(***************************************************************************)
THEOREM EncodedValueIsWhole ==
  ASSUME NEW value, Characters(value)
  PROVE  /\ DecodeURIComponent(EncodeURIComponent(value)) = value
         /\ \A i \in DOMAIN EncodeURIComponent(value) :
              EncodeURIComponent(value)[i] \notin {"/", ":"}
<1>1. /\ DOMAIN Escapes = {"/", ":", "%"}
      /\ Escapes["/"] = "%2F" /\ Escapes[":"] = "%3A" /\ Escapes["%"] = "%25"
  BY DEF Escapes
<1>2. value \in Seq(STRING) /\ value = [i \in DOMAIN value |-> value[i]]
  BY DEF Characters
<1> DEFINE code == EncodeURIComponent(value)
<1>3. /\ DOMAIN code = DOMAIN value
      /\ \A i \in DOMAIN value :
           code[i] = IF value[i] \in DOMAIN Escapes THEN Escapes[value[i]]
                                                    ELSE value[i]
  BY DEF EncodeURIComponent
<1>4. \A i \in DOMAIN code : code[i] \notin {"/", ":"}
  BY <1>1, <1>3
<1>5. ASSUME NEW i \in DOMAIN value
      PROVE  DecodeURIComponent(code)[i] = value[i]
  <2>1. DecodeURIComponent(code)[i] =
          IF \E c \in DOMAIN Escapes : Escapes[c] = code[i]
          THEN CHOOSE c \in DOMAIN Escapes : Escapes[c] = code[i] ELSE code[i]
    BY <1>3 DEF DecodeURIComponent
  <2>2. CASE value[i] \in DOMAIN Escapes
    <3>1. code[i] = Escapes[value[i]]
      BY <1>3, <2>2
    <3>2. \A c \in DOMAIN Escapes : Escapes[c] = code[i] => c = value[i]
      BY <1>1, <2>2, <3>1
    <3> QED BY <2>1, <2>2, <3>1, <3>2
  <2>3. CASE value[i] \notin DOMAIN Escapes
    <3>1. code[i] = value[i]
      BY <1>3, <2>3
    <3>2. ~ \E c \in DOMAIN Escapes : Escapes[c] = code[i]
      BY <3>1 DEF Characters
    <3> QED BY <2>1, <3>1, <3>2
  <2> QED BY <2>2, <2>3
<1>6. DecodeURIComponent(code) =
        [i \in DOMAIN value |-> DecodeURIComponent(code)[i]]
  BY <1>3 DEF DecodeURIComponent
<1> QED BY <1>2, <1>4, <1>5, <1>6

-----------------------------------------------------------------------------
(***************************************************************************)
(* The type of a result.  What ApiClient.deserialize makes of an answer    *)
(* depends on the return type of the operation, so this is a fact about    *)
(* each of the ninety-six.                                                 *)
(***************************************************************************)
\* What an operation may say of the data of its answer.
Kinds == {"nothing", "text", "anything", "record", "list", "unconverted"}
IsOfAKind(op) == op.returns.kind \in Kinds

\* The return types have one.
LEMMA KindsOfTypes ==
  /\ Nothing.kind \in Kinds /\ Text.kind \in Kinds /\ Anything.kind \in Kinds
  /\ \A class : /\ Record(class).kind \in Kinds /\ ListOf(class).kind \in Kinds
                /\ Unconverted(class).kind \in Kinds
BY DEF Kinds, Nothing, Text, Anything, Record, ListOf, Unconverted

\* An operation returns what it is written with.
LEMMA OpIsOfAKind ==
  ASSUME NEW method, NEW path, NEW required, NEW query, NEW body,
         NEW returns, returns.kind \in Kinds
  PROVE  IsOfAKind(Op(method, path, required, query, body, returns))
BY DEF IsOfAKind, Op

\* The operations of AuthApi.
LEMMA AuthApiOfAKind ==
  \A name \in DOMAIN AuthApi : IsOfAKind(AuthApi[name])
BY OpIsOfAKind, KindsOfTypes DEF AuthApi, createToken,
   deleteResourcePermissions, getResourcesWithPermission, introspectToken,
   listApiTokens, listResourcePermissions, loginCallback, loginUserSession,
   logoutUserSession, oauthEnabled, openLoginPage, requestToken, revokeToken,
   setResourcePermissions, verifyAccess

\* The operations of ExtensionsApi.
LEMMA ExtensionsApiOfAKind ==
  \A name \in DOMAIN ExtensionsApi : IsOfAKind(ExtensionsApi[name])
BY OpIsOfAKind, KindsOfTypes DEF ExtensionsApi, deleteExtension,
   getExtensionMetadata, installExtension, listExtensions,
   suggestExtensionConfig

\* The operations of FilesApi.
LEMMA FilesApiOfAKind ==
  \A name \in DOMAIN FilesApi : IsOfAKind(FilesApi[name])
BY OpIsOfAKind, KindsOfTypes DEF FilesApi, deleteFile, deleteFiles,
   downloadFile, executeFileAction, getFileMetadata, listFileActions,
   listFiles, updateFileMetadata, uploadFile

\* The operations of JobsApi.
LEMMA JobsApiOfAKind ==
  \A name \in DOMAIN JobsApi : IsOfAKind(JobsApi[name])
BY OpIsOfAKind, KindsOfTypes DEF JobsApi, deleteJob, deleteJobs, deployJob,
   executeJobAction, getJobLogs, getJobMetadata, listDeployJobActions,
   listJobActions, listJobs, suggestJobConfig

\* The operations of JsonApi.
LEMMA JsonApiOfAKind ==
  \A name \in DOMAIN JsonApi : IsOfAKind(JsonApi[name])
BY OpIsOfAKind, KindsOfTypes DEF JsonApi, createJsonDocument,
   deleteJsonCollection, deleteJsonCollections, deleteJsonDocument,
   getJsonDocument, listJsonDocuments, updateJsonDocument

\* The operations of ProjectsApi.
LEMMA ProjectsApiOfAKind ==
  \A name \in DOMAIN ProjectsApi : IsOfAKind(ProjectsApi[name])
BY OpIsOfAKind, KindsOfTypes DEF ProjectsApi, addProjectMember, createProject,
   deleteProject, getProject, getProjectToken, getProjectToken_0,
   listProjectMembers, listProjects, removeProjectMember, suggestProjectId,
   updateProject

\* The operations of SeedApi.
LEMMA SeedApiOfAKind ==
  \A name \in DOMAIN SeedApi : IsOfAKind(SeedApi[name])
BY OpIsOfAKind, KindsOfTypes DEF SeedApi, createSeedDefaultSeedDefaultGet

\* The operations of ServicesApi.
LEMMA ServicesApiOfAKind ==
  \A name \in DOMAIN ServicesApi : IsOfAKind(ServicesApi[name])
BY OpIsOfAKind, KindsOfTypes DEF ServicesApi, deleteService, deleteServices,
   deployService, executeServiceAction, getServiceAccessToken,
   getServiceAccessToken_0, getServiceLogs, getServiceMetadata,
   listDeployServiceActions, listServiceActions, listServices,
   suggestServiceConfig, updateService, updateServiceAccess

\* The operations of SystemApi.
LEMMA SystemApiOfAKind ==
  \A name \in DOMAIN SystemApi : IsOfAKind(SystemApi[name])
BY OpIsOfAKind, KindsOfTypes DEF SystemApi, addAllowedImage,
   checkHealthSystemHealthGet, deleteAllowedImage, getSystemInfo,
   getSystemStatistics, initializeSystem, listAllowedImages,
   registerAdminUserSystemAdminPost

\* The operations of UsersApi.
LEMMA UsersApiOfAKind ==
  \A name \in DOMAIN UsersApi : IsOfAKind(UsersApi[name])
BY OpIsOfAKind, KindsOfTypes DEF UsersApi, changePassword, changePassword_0,
   createUser, createUser_0, deleteUser, deleteUser_0, getMyUser, getMyUser_0,
   getUser, getUserToken, getUserToken_0, getUser_0, listUsers, listUsers_0,
   updateUser, updateUser_0

\* Every operation says what its data is.
LEMMA OperationsOfAKind ==
  \A name \in DOMAIN Operations : Operations[name].returns.kind \in Kinds
<1> SUFFICES ASSUME NEW name \in DOMAIN Operations
             PROVE  IsOfAKind(Operations[name])
  BY DEF IsOfAKind
<1> DEFINE api == CHOOSE a \in Apis : name \in DOMAIN a
<1>1. Operations[name] = api[name] /\ \E a \in Apis : name \in DOMAIN a
  BY DEF Operations
<1>2. api \in Apis /\ name \in DOMAIN api
  BY <1>1
<1>3. \A a \in Apis : \A n \in DOMAIN a : IsOfAKind(a[n])
  BY AuthApiOfAKind, ExtensionsApiOfAKind, FilesApiOfAKind, JobsApiOfAKind,
     JsonApiOfAKind, ProjectsApiOfAKind, SeedApiOfAKind, ServicesApiOfAKind,
     SystemApiOfAKind, UsersApiOfAKind DEF Apis
<1> QED BY <1>1, <1>2, <1>3

\* What is made of the answers that are not errors.
LEMMA DeserializedIsOfItsType ==
  ASSUME NEW a \in Bodies \cup {"noContent"},
         NEW returns, returns.kind \in Kinds
  PROVE  LET kind == returns.kind
             data == Deserialize(a, returns)
         IN  /\ data \in Results
             /\ \/ data = "typeError"
                \/ kind = "nothing" /\ data = "null"
                \/ kind # "nothing" /\ data = "null" /\ a = "noContent"
                \/ kind = "record" /\ data = "undefined" /\ a = "empty"
                \/ kind \in {"list", "record", "text"} /\ data = kind
                \/ kind \in {"anything", "unconverted"} /\ data = Data(a)
BY ZenonT(60) DEF Deserialize, ConvertToType, Data, Bodies, Results, Kinds

Types == Inductive /\ TypeOK /\ DataIsOfItsType

\* Nothing is called yet.
LEMMA InitTypes == Init => Types
BY InitInductive DEF Init, Types, TypeOK, DataIsOfItsType, Results

\* Every step keeps it.  Only Return makes something of an answer, and a
\* promise that is resolved has the last answer: nothing is under way.
LEMMA NextTypes == Types /\ [Next]_vars => Types'
<1> SUFFICES ASSUME Types, [Next]_vars PROVE TypeOK' /\ DataIsOfItsType'
  BY NextInductive DEF Types
<1> USE DEF Types, TypeOK, DataIsOfItsType
<1>1. ASSUME NEW name \in DOMAIN Operations, NEW args, Call(name, args)
      PROVE  TypeOK' /\ DataIsOfItsType'
  BY <1>1 DEF Call
<1>2. CASE Serve
  <2>1. phase # "resolved" /\ UNCHANGED phase
    BY <1>2 DEF Serve, Inductive, Settled
  <2> QED BY <1>2, <2>1 DEF Serve
<1>3. CASE Return
  <2> DEFINE returns == Operations[call.name].returns
             data == Deserialize(answer, returns)
  <2>1. /\ phase = "sent" /\ flying' = "nothing"
        /\ UNCHANGED <<call, answer, done>>
    BY <1>3 DEF Return
  <2>2. returns.kind \in Kinds
    BY <2>1, OperationsOfAKind
  <2>3. CASE phase' = "rejected"
               /\ result' \in {"refused", "failed", "noResponse", "typeError"}
    BY <2>1, <2>3 DEF Results
  <2>4. CASE /\ answer \in Bodies \cup {"noContent"} /\ data # "typeError"
             /\ phase' = "resolved" /\ result' = data
    <3> HIDE DEF data
    <3>1. /\ data \in Results
          /\ \/ data = "typeError"
             \/ returns.kind = "nothing" /\ data = "null"
             \/ returns.kind # "nothing" /\ data = "null"
                  /\ answer = "noContent"
             \/ returns.kind = "record" /\ data = "undefined"
                  /\ answer = "empty"
             \/ returns.kind \in {"list", "record", "text"}
                  /\ data = returns.kind
             \/ returns.kind \in {"anything", "unconverted"}
                  /\ data = Data(answer)
      BY <2>2, <2>4, DeserializedIsOfItsType DEF data
    <3>2. Data(answer)' = Data(answer)
      BY <2>1 DEF Data
    <3> QED BY <2>1, <2>4, <3>1, <3>2
  <2> QED BY <1>3, <2>3, <2>4 DEF Return
<1>4. CASE TimeOut
  BY <1>4 DEF TimeOut, Results
<1>5. CASE Forget
  BY <1>5 DEF Forget, Results
<1>6. CASE UNCHANGED vars
  BY <1>6 DEF vars
<1> QED BY <1>1, <1>2, <1>3, <1>4, <1>5, <1>6 DEF Next

(***************************************************************************)
(* TypeOK for all values: the result of a call is one of those a page can  *)
(* tell apart, for each of the operations.                                 *)
(***************************************************************************)
THEOREM CallsTypes == Spec => []TypeOK
<1>1. Types => TypeOK
  BY DEF Types
<1> QED BY InitTypes, NextTypes, <1>1, PTL DEF Spec

(***************************************************************************)
(* DataIsOfItsType for all values: no promise of ApiClient.callApi is      *)
(* resolved with data of another kind than the operation returns, except   *)
(* where the answer has none.                                              *)
(***************************************************************************)
THEOREM CallsDataIsOfItsType == Spec => []DataIsOfItsType
<1>1. Types => DataIsOfItsType
  BY DEF Types
<1> QED BY InitTypes, NextTypes, <1>1, PTL DEF Spec

-----------------------------------------------------------------------------
(***************************************************************************)
(* Cutting a path.  ApiClient.buildUrl puts the path of a request together *)
(* from its segments, one after the other; a server cuts it where the      *)
(* segments begin.  If none of them has a slash in it the server gets the  *)
(* segments back, however many there are and however long they are.        *)
(***************************************************************************)

\* Induction, for a set of numbers.
LEMMA Induced ==
  ASSUME NEW T, 0 \in T, \A n \in Nat : n \in T => n + 1 \in T
  PROVE  \A n \in Nat : n \in T
<1> DEFINE Rest == {n \in Nat : n \notin T}
<1> SUFFICES ASSUME Rest # {} PROVE FALSE
  OBVIOUS
<1>1. PICK n \in Rest : \A m \in Rest : <<m, n>> \notin OpToRel(<, Nat)
  BY WFMin, NatLessThanWellFounded, Rest \subseteq Nat
<1>2. \A m \in Rest : ~(m < n)
  BY <1>1 DEF OpToRel
<1>3. n \in Nat /\ n # 0 /\ n \notin T
  OBVIOUS
<1>4. n - 1 \in Nat /\ n - 1 < n /\ (n - 1) + 1 = n
  BY <1>3
<1>5. n - 1 \in T
  BY <1>2, <1>4
<1> QED BY <1>3, <1>4, <1>5

\* The beginnings of a concatenation.
Beginnings(f, s, n) ==
  f = [i \in 1 .. n |-> IF i = 1 THEN s[i] ELSE f[i - 1] \o s[i]]

\* There are as many as one likes.
LEMMA StepsExist ==
  ASSUME NEW s PROVE \A n \in Nat : \E f : Beginnings(f, s, n)
<1> DEFINE T == {n \in Nat : \E f : Beginnings(f, s, n)}
<1>1. 0 \in T
  <2> DEFINE f == [i \in 1 .. 0 |-> s[i]]
  <2>1. Beginnings(f, s, 0)
    BY DEF Beginnings
  <2> QED BY <2>1
<1>2. ASSUME NEW n \in Nat, n \in T PROVE n + 1 \in T
  <2>1. PICK f : Beginnings(f, s, n)
    BY <1>2
  <2> DEFINE last == f[n] \o s[n + 1]
             g == [i \in 1 .. n + 1 |->
                     IF i = 1 THEN s[1] ELSE IF i = n + 1 THEN last ELSE f[i]]
  <2> HIDE DEF last
  <2>2. ASSUME NEW i \in 1 .. n + 1
        PROVE  g[i] = IF i = 1 THEN s[i] ELSE g[i - 1] \o s[i]
    <3>1. CASE i = 1
      BY <3>1
    <3>2. CASE i # 1 /\ i = n + 1
      <4>1. n \in 1 .. n /\ n \in 1 .. n + 1 /\ n # n + 1
        BY <3>2
      <4>2. g[n] = f[n]
        BY <4>1, <2>1 DEF Beginnings
      <4>3. g[i] = last /\ i - 1 = n
        BY <3>2
      <4> HIDE DEF g
      <4> QED BY <3>2, <4>2, <4>3 DEF last
    <3>3. CASE i # 1 /\ i # n + 1
      <4>1. i \in 1 .. n /\ i - 1 \in 1 .. n /\ i - 1 # n + 1
        BY <3>3
      <4>2. f[i] = f[i - 1] \o s[i]
        BY <4>1, <3>3, <2>1 DEF Beginnings
      <4>3. g[i - 1] = f[i - 1]
        <5>1. CASE i - 1 = 1
          BY <4>1, <5>1, <2>1 DEF Beginnings
        <5> QED BY <4>1, <5>1
      <4> QED BY <3>3, <4>2, <4>3
    <3> QED BY <3>1, <3>2, <3>3
  <2>3. Beginnings(g, s, n + 1)
    <3> HIDE DEF g
    <3>1. g = [i \in 1 .. n + 1 |-> g[i]]
      BY DEF g
    <3> QED BY <2>2, <3>1 DEF Beginnings
  <2> QED BY <2>3
<1> HIDE DEF T
<1>3. \A n \in Nat : n \in T
  BY <1>1, <1>2, Induced
<1> QED BY <1>3 DEF T

\* FlattenSeq puts one sequence after the other.
LEMMA Flattened ==
  ASSUME NEW S, NEW s \in Seq(Seq(S)), Len(s) # 0
  PROVE  \E f \in [1 .. Len(s) -> Seq(S)] :
           /\ FlattenSeq(s) = f[Len(s)] /\ f[1] = s[1]
           /\ \A i \in 2 .. Len(s) : f[i] = f[i - 1] \o s[i]
<1> DEFINE n == Len(s)
<1> DEFINE f == CHOOSE f : Beginnings(f, s, n)
<1>1. n \in Nat /\ n >= 1 /\ \A i \in 1 .. n : s[i] \in Seq(S)
  OBVIOUS
<1>2. Beginnings(f, s, n)
  BY <1>1, StepsExist
<1>3. FlattenSeq(s) = f[n]
  BY DEF FlattenSeq, Beginnings
<1> HIDE DEF f
<1>4. /\ DOMAIN f = 1 .. n /\ f[1] = s[1]
      /\ \A i \in 2 .. n : f[i] = f[i - 1] \o s[i]
  <2> HIDE DEF n
  <2>1. DOMAIN f = 1 .. n
    BY <1>2 DEF Beginnings
  <2>2. ASSUME NEW i \in 1 .. n
        PROVE  f[i] = IF i = 1 THEN s[i] ELSE f[i - 1] \o s[i]
    BY <1>2 DEF Beginnings
  <2>3. 1 \in 1 .. n
    BY <1>1
  <2>4. ASSUME NEW i \in 2 .. n PROVE i \in 1 .. n /\ i # 1
    BY <1>1
  <2> QED BY <2>1, <2>2, <2>3, <2>4
<1> DEFINE T == {i \in Nat : i + 1 \in 1 .. n => f[i + 1] \in Seq(S)}
<1>5. 0 \in T
  BY <1>1, <1>4
<1>6. ASSUME NEW i \in Nat, i \in T PROVE i + 1 \in T
  <2> SUFFICES ASSUME i + 2 \in 1 .. n PROVE f[i + 2] \in Seq(S)
    OBVIOUS
  <2>1. i + 1 \in 1 .. n /\ i + 2 \in 2 .. n /\ (i + 2) - 1 = i + 1
    OBVIOUS
  <2>2. f[i + 2] = f[i + 1] \o s[i + 2] /\ f[i + 1] \in Seq(S)
    BY <1>4, <1>6, <2>1
  <2> QED BY <1>1, <2>2
<1> HIDE DEF T
<1>7. \A i \in Nat : i \in T
  BY <1>5, <1>6, Induced
<1>8. ASSUME NEW i \in 1 .. n PROVE f[i] \in Seq(S)
  <2>1. i - 1 \in T /\ (i - 1) + 1 = i
    BY <1>7, <1>1
  <2> QED BY <2>1 DEF T
<1>9. f = [i \in 1 .. n |-> f[i]]
  BY <1>2 DEF Beginnings
<1> QED BY <1>3, <1>4, <1>8, <1>9

\* A piece more: its first element, and the others.
LEMMA OneMore ==
  ASSUME NEW S, NEW a \in Seq(S), NEW c \in S, NEW x \in Seq(S),
         NEW b, b = a \o (<<c>> \o x)
  PROVE  /\ b \in Seq(S) /\ Len(b) = Len(a) + 1 + Len(x)
         /\ \A k \in 1 .. Len(a) : b[k] = a[k]
         /\ b[Len(a) + 1] = c
         /\ \A j \in 1 .. Len(x) : b[Len(a) + 1 + j] = x[j]
<1>1. PICK one : one = <<c>>
  OBVIOUS
<1>2. one \in Seq(S) /\ Len(one) = 1 /\ one[1] = c
  BY <1>1
<1>3. PICK y : y = one \o x
  OBVIOUS
<1>4. /\ one \o x \in Seq(S) /\ Len(one \o x) = Len(one) + Len(x)
      /\ \A i \in 1 .. Len(one) + Len(x) :
           (one \o x)[i] = IF i <= Len(one) THEN one[i] ELSE x[i - Len(one)]
  BY <1>2, ConcatProperties
<1>5. b = a \o y
  BY <1>1, <1>3
<1>6. y \in Seq(S) /\ Len(y) = 1 + Len(x) /\ Len(a) \in Nat /\ Len(x) \in Nat
  BY <1>2, <1>3, <1>4
<1>12. a \in Seq(S) /\ y \in Seq(S)
  BY <1>6
<1>7. /\ a \o y \in Seq(S) /\ Len(a \o y) = Len(a) + Len(y)
      /\ \A i \in 1 .. Len(a) + Len(y) :
           (a \o y)[i] = IF i <= Len(a) THEN a[i] ELSE y[i - Len(a)]
  <2> QED BY <1>12, ConcatProperties
<1>8. b \in Seq(S) /\ Len(b) = Len(a) + 1 + Len(x)
  BY <1>5, <1>6, <1>7
<1>9. ASSUME NEW k \in 1 .. Len(a) PROVE b[k] = a[k]
  BY <1>5, <1>6, <1>7
<1>10. b[Len(a) + 1] = c
  <2>1. b[Len(a) + 1] = y[1]
    BY <1>5, <1>6, <1>7
  <2>2. y[1] = one[1]
    BY <1>2, <1>3, <1>4, <1>6
  <2> QED BY <1>2, <2>1, <2>2
<1>11. ASSUME NEW j \in 1 .. Len(x) PROVE b[Len(a) + 1 + j] = x[j]
  <2>1. b[Len(a) + 1 + j] = y[1 + j]
    BY <1>5, <1>6, <1>7
  <2>2. y[1 + j] = x[j]
    BY <1>2, <1>3, <1>4, <1>6
  <2> QED BY <2>1, <2>2
<1> QED BY <1>8, <1>9, <1>10, <1>11

\* A function on the first numbers is a sequence.
LEMMA IsSeq ==
  ASSUME NEW S, NEW n \in Nat, NEW s \in [1 .. n -> S]
  PROVE  s \in Seq(S) /\ Len(s) = n
OBVIOUS

\* A path as ApiClient.buildUrl puts it together.
Joined(x) == FlattenSeq([i \in DOMAIN x |-> <<"/">> \o x[i]])

\* p[i] is where the i-th segment of x begins in url.
Layout(url, x, p) ==
  /\ p[1] = 1 /\ p[Len(x) + 1] = Len(url) + 1
  /\ \A i \in 1 .. Len(x) : p[i + 1] = p[i] + 1 + Len(x[i])
  /\ \A i \in 1 .. Len(x) + 1 : \A m \in 1 .. i - 1 : p[m] < p[i]
  /\ \A i \in 1 .. Len(x) : url[p[i]] = "/"
  /\ \A i \in 1 .. Len(x) : \A j \in 1 .. Len(x[i]) : url[p[i] + j] = x[i][j]
  /\ \A k \in 1 .. Len(url) :
       url[k] = "/" => \E i \in 1 .. Len(x) : k = p[i]

\* The segments of a path begin at its slashes, and nowhere else.
LEMMA JoinedHasLayout ==
  ASSUME NEW S, "/" \in S, NEW x \in Seq(Seq(S)), Len(x) # 0,
         \A i \in 1 .. Len(x) : \A j \in 1 .. Len(x[i]) : x[i][j] # "/"
  PROVE  /\ Joined(x) \in Seq(S)
         /\ \E p \in [1 .. Len(x) + 1 -> Nat] : Layout(Joined(x), x, p)
<1> DEFINE n == Len(x)
           s == [i \in DOMAIN x |-> <<"/">> \o x[i]]
<1>1. n \in Nat /\ n >= 1 /\ DOMAIN x = 1 .. n
      /\ \A i \in 1 .. n : x[i] \in Seq(S) /\ Len(x[i]) \in Nat
  OBVIOUS
<1>2. /\ s \in Seq(Seq(S)) /\ Len(s) = n
      /\ \A i \in 1 .. n : s[i] = <<"/">> \o x[i]
  <2>1. ASSUME NEW i \in 1 .. n PROVE <<"/">> \o x[i] \in Seq(S)
    <3>1. x[i] \in Seq(S) /\ <<"/">> \in Seq(S)
      BY <1>1
    <3> HIDE DEF s, n
    <3> QED BY <3>1
  <2>2. DOMAIN s = 1 .. n /\ \A i \in 1 .. n : s[i] = <<"/">> \o x[i]
    BY <1>1
  <2>3. s = [i \in 1 .. n |-> s[i]]
    BY <1>1
  <2> HIDE DEF s, n
  <2>4. s \in [1 .. n -> Seq(S)]
    BY <2>1, <2>2, <2>3
  <2> QED BY <1>1, <2>2, <2>4, IsSeq
<1> HIDE DEF s
<1>3. PICK f \in [1 .. n -> Seq(S)] :
        /\ FlattenSeq(s) = f[n] /\ f[1] = s[1]
        /\ \A i \in 2 .. n : f[i] = f[i - 1] \o s[i]
  <2>1. Len(s) # 0
    BY <1>1, <1>2
  <2>2. \E f \in [1 .. Len(s) -> Seq(S)] :
           /\ FlattenSeq(s) = f[Len(s)] /\ f[1] = s[1]
           /\ \A i \in 2 .. Len(s) : f[i] = f[i - 1] \o s[i]
    <3>1. s \in Seq(Seq(S))
      BY <1>2
    <3> HIDE DEF n
    <3> QED BY <2>1, <3>1, Flattened
  <2> QED BY <1>2, <2>2
<1> HIDE DEF n
<1> DEFINE before(i) == IF i = 1 THEN << >> ELSE f[i - 1]
           p == [i \in 1 .. n + 1 |-> Len(before(i)) + 1]
<1>4. ASSUME NEW i \in 1 .. n
      PROVE  /\ before(i) \in Seq(S) /\ f[i] \in Seq(S)
             /\ f[i] = before(i) \o (<<"/">> \o x[i])
  <2>1. CASE i = 1
    <3>1. PICK y : y = <<"/">> \o x[i]
      OBVIOUS
    <3>2. f[i] = y
      BY <1>2, <1>3, <2>1, <3>1
    <3>3. y \in Seq(S)
      BY <1>3, <3>2
    <3>4. << >> \o y = y
      BY <3>3, ConcatEmptySeq
    <3>5. before(i) = << >>
      BY <2>1
    <3>6. before(i) \in Seq(S) /\ f[i] \in Seq(S)
      BY <3>2, <3>3, <3>5, EmptySeq
    <3>7. before(i) \o (<<"/">> \o x[i]) = << >> \o y
      BY <3>1, <3>5
    <3> QED BY <3>2, <3>4, <3>6, <3>7
  <2>2. CASE i # 1
    <3>1. i \in 2 .. n /\ i - 1 \in 1 .. n
      BY <1>1, <2>2
    <3>2. f[i] = f[i - 1] \o s[i] /\ f[i - 1] \in Seq(S)
          /\ f[i] \in Seq(S)
      BY <1>3, <3>1
    <3> QED BY <1>2, <2>2, <3>1, <3>2
  <2> QED BY <2>1, <2>2
<1>5. \A i \in 1 .. n + 1 : p[i] = Len(before(i)) + 1
  OBVIOUS
<1>6. p[1] = 1 /\ \A i \in 1 .. n : p[i + 1] = Len(f[i]) + 1
  <2>1. 1 \in 1 .. n + 1
    BY <1>1
  <2>2. before(1) = << >>
    OBVIOUS
  <2>3. p[1] = 1
    BY <2>1, <2>2, <1>5
  <2>4. ASSUME NEW i \in 1 .. n PROVE p[i + 1] = Len(f[i]) + 1
    <3>1. i + 1 \in 1 .. n + 1 /\ i + 1 # 1 /\ (i + 1) - 1 = i
      BY <1>1
    <3>2. before(i + 1) = f[i]
      BY <3>1
    <3> QED BY <3>1, <3>2, <1>5
  <2> QED BY <2>3, <2>4
<1>7. ASSUME NEW i \in 1 .. n
      PROVE  /\ p[i] \in Nat /\ p[i] >= 1
             /\ Len(f[i]) = p[i] + Len(x[i])
             /\ \A k \in 1 .. p[i] - 1 : f[i][k] = before(i)[k]
             /\ f[i][p[i]] = "/"
             /\ \A j \in 1 .. Len(x[i]) : f[i][p[i] + j] = x[i][j]
  <2>1. PICK a : a = before(i)
    OBVIOUS
  <2>2. a \in Seq(S) /\ x[i] \in Seq(S) /\ f[i] = a \o (<<"/">> \o x[i])
    BY <1>1, <1>4, <2>1
  <2>3. /\ Len(f[i]) = Len(a) + 1 + Len(x[i])
        /\ \A k \in 1 .. Len(a) : f[i][k] = a[k]
        /\ f[i][Len(a) + 1] = "/"
        /\ \A j \in 1 .. Len(x[i]) : f[i][Len(a) + 1 + j] = x[i][j]
    <3>1. PICK y : y = x[i]
      OBVIOUS
    <3>2. PICK b : b = f[i]
      OBVIOUS
    <3>3. y \in Seq(S) /\ a \in Seq(S) /\ b = a \o (<<"/">> \o y)
      BY <2>2, <3>1, <3>2
    <3>4. /\ Len(b) = Len(a) + 1 + Len(y)
          /\ \A k \in 1 .. Len(a) : b[k] = a[k]
          /\ b[Len(a) + 1] = "/"
          /\ \A j \in 1 .. Len(y) : b[Len(a) + 1 + j] = y[j]
      BY <3>3, "/" \in S, OneMore
    <3> QED BY <3>1, <3>2, <3>4
  <2>4. p[i] = Len(a) + 1 /\ Len(a) \in Nat
    <3>1. i \in 1 .. n + 1
      BY <1>1
    <3> QED BY <1>5, <2>1, <2>2, <3>1
  <2> HIDE DEF p, before
  <2>6. p[i] - 1 = Len(a) /\ p[i] \in Nat /\ p[i] >= 1
    BY <2>4
  <2> QED BY <1>1, <2>1, <2>3, <2>4, <2>6
<1>8. before(1) = << >> /\ \A i \in 2 .. n : before(i) = f[i - 1]
  BY <1>1
<1>9. p \in [1 .. n + 1 -> Nat]
  <2>1. ASSUME NEW i \in 1 .. n + 1 PROVE p[i] \in Nat
    <3>1. CASE i = 1
      BY <1>6, <3>1
    <3>2. CASE i # 1
      <4>1. i - 1 \in 1 .. n /\ (i - 1) + 1 = i
        BY <1>1, <3>2
      <4>2. p[i] = Len(f[i - 1]) + 1 /\ f[i - 1] \in Seq(S)
        BY <1>4, <1>6, <4>1
      <4> QED BY <4>2
    <3> QED BY <3>1, <3>2
  <2> QED BY <2>1
<1> HIDE DEF p, before
<1> DEFINE Ok(i) ==
             /\ \A m \in 1 .. i : p[m] \in 1 .. Len(f[i]) /\ f[i][p[m]] = "/"
             /\ \A m \in 1 .. i : \A j \in 1 .. Len(x[m]) :
                  p[m] + j \in 1 .. Len(f[i]) /\ f[i][p[m] + j] = x[m][j]
             /\ \A k \in 1 .. Len(f[i]) :
                  f[i][k] = "/" => \E m \in 1 .. i : k = p[m]
           T == {i \in Nat : i + 1 \in 1 .. n => Ok(i + 1)}
<1>10. ASSUME NEW i \in 1 .. n, i = 1 \/ (i - 1 \in 1 .. n /\ Ok(i - 1))
       PROVE  Ok(i)
  <2> HIDE DEF Ok
  <2>1. ASSUME NEW k \in 1 .. p[i] - 1
        PROVE  /\ i # 1 /\ k \in 1 .. Len(f[i - 1]) /\ f[i][k] = f[i - 1][k]
    <3>1. i # 1
      BY <1>6
    <3>2. i \in 2 .. n /\ i - 1 \in 1 .. n /\ (i - 1) + 1 = i
      BY <1>1, <3>1
    <3>3. p[i] = Len(f[i - 1]) + 1 /\ Len(f[i - 1]) \in Nat
      <4>1. f[i - 1] \in Seq(S)
        BY <1>4, <3>2
      <4> QED BY <1>6, <3>2, <4>1
    <3>4. f[i][k] = before(i)[k] /\ before(i) = f[i - 1]
      BY <1>7, <1>8, <3>2
    <3> QED BY <3>1, <3>3, <3>4
  <2>2. /\ \A q, l \in Nat : \A k \in 1 .. q - 1 : k \in 1 .. q + l
        /\ \A q, l \in Nat : \A j \in 1 .. l : q + j \in 1 .. q + l
    OBVIOUS
  <2>3. ASSUME NEW m \in 1 .. i
        PROVE  p[m] \in 1 .. Len(f[i]) /\ f[i][p[m]] = "/"
    <3>1. CASE m = i
      BY <1>1, <1>7, <3>1
    <3>2. CASE m # i
      <4>1. i # 1 /\ m \in 1 .. i - 1 /\ i - 1 \in 1 .. n
            /\ (i - 1) + 1 = i
        BY <1>1, <3>2
      <4>2. p[m] \in 1 .. Len(f[i - 1]) /\ f[i - 1][p[m]] = "/"
        BY <1>10, <4>1 DEF Ok
      <4>3. p[i] = Len(f[i - 1]) + 1
        BY <1>6, <4>1
      <4>4. f[i - 1] \in Seq(S)
        BY <1>4, <4>1
      <4>5. p[m] \in 1 .. p[i] - 1
        BY <4>2, <4>3, <4>4
      <4>6. f[i][p[m]] = f[i - 1][p[m]]
        BY <2>1, <4>5
      <4>7. Len(f[i]) = p[i] + Len(x[i]) /\ p[i] \in Nat /\ Len(x[i]) \in Nat
        BY <1>1, <1>7
      <4>8. p[m] \in 1 .. p[i] + Len(x[i])
        BY <2>2, <4>5, <4>7, Zenon
      <4>9. p[m] \in 1 .. Len(f[i])
        BY <4>7, <4>8, Zenon
      <4> QED BY <4>2, <4>6, <4>9
    <3> QED BY <3>1, <3>2
  <2>4. ASSUME NEW m \in 1 .. i, NEW j \in 1 .. Len(x[m])
        PROVE  p[m] + j \in 1 .. Len(f[i]) /\ f[i][p[m] + j] = x[m][j]
    <3>1. CASE m = i
      <4>1. j \in 1 .. Len(x[i])
        BY <3>1
      <4>2. f[i][p[i] + j] = x[i][j]
        BY <1>7, <4>1
      <4>3. Len(f[i]) = p[i] + Len(x[i]) /\ p[i] \in Nat /\ Len(x[i]) \in Nat
        BY <1>1, <1>7
      <4>4. p[i] + j \in 1 .. p[i] + Len(x[i])
        BY <2>2, <4>1, <4>3, Zenon
      <4>5. p[i] + j \in 1 .. Len(f[i])
        BY <4>3, <4>4, Zenon
      <4> QED BY <3>1, <4>2, <4>5
    <3>2. CASE m # i
      <4>1. i # 1 /\ m \in 1 .. i - 1 /\ i - 1 \in 1 .. n
            /\ (i - 1) + 1 = i
        BY <1>1, <3>2
      <4>2. p[m] + j \in 1 .. Len(f[i - 1]) /\ f[i - 1][p[m] + j] = x[m][j]
        BY <1>10, <4>1 DEF Ok
      <4>3. p[i] = Len(f[i - 1]) + 1
        BY <1>6, <4>1
      <4>4. f[i - 1] \in Seq(S)
        BY <1>4, <4>1
      <4>5. p[m] + j \in 1 .. p[i] - 1
        BY <4>2, <4>3, <4>4
      <4>6. f[i][p[m] + j] = f[i - 1][p[m] + j]
        BY <2>1, <4>5
      <4>7. Len(f[i]) = p[i] + Len(x[i]) /\ p[i] \in Nat /\ Len(x[i]) \in Nat
        BY <1>1, <1>7
      <4>8. p[m] + j \in 1 .. p[i] + Len(x[i])
        BY <2>2, <4>5, <4>7, Zenon
      <4>9. p[m] + j \in 1 .. Len(f[i])
        BY <4>7, <4>8, Zenon
      <4> QED BY <4>2, <4>6, <4>9
    <3> QED BY <3>1, <3>2
  <2>5. ASSUME NEW k \in 1 .. Len(f[i]), f[i][k] = "/"
        PROVE  \E m \in 1 .. i : k = p[m]
    <3>1. CASE k = p[i]
      BY <3>1
    <3>2. CASE k < p[i]
      <4>1. k \in 1 .. p[i] - 1
        BY <3>2, <1>7
      <4>2. i # 1 /\ k \in 1 .. Len(f[i - 1]) /\ f[i - 1][k] = "/"
        BY <2>1, <2>5, <4>1
      <4>3. PICK m \in 1 .. i - 1 : k = p[m]
        BY <1>10, <4>2 DEF Ok
      <4> QED BY <4>3
    <3>3. CASE k > p[i]
      <4> DEFINE j == k - p[i]
      <4>0. Len(f[i]) = p[i] + Len(x[i]) /\ p[i] \in Nat /\ Len(x[i]) \in Nat
        BY <1>1, <1>7
      <4>1. j \in 1 .. Len(x[i]) /\ k = p[i] + j
        BY <3>3, <4>0
      <4>2. f[i][k] = x[i][j]
        BY <1>7, <4>1, SMTT(30)
      <4>3. x[i][j] # "/"
        BY <4>1 DEF n
      <4> QED BY <2>5, <4>2, <4>3
    <3> QED BY <1>7, <3>1, <3>2, <3>3
  <2> QED BY <2>3, <2>4, <2>5 DEF Ok
<1> HIDE DEF Ok
<1>11. 0 \in T
  BY <1>10, <1>1
<1>12. ASSUME NEW i \in Nat, i \in T PROVE i + 1 \in T
  <2> SUFFICES ASSUME (i + 1) + 1 \in 1 .. n PROVE Ok((i + 1) + 1)
    OBVIOUS
  <2>1. i + 1 \in 1 .. n /\ ((i + 1) + 1) - 1 = i + 1
    BY <1>1
  <2>2. Ok(i + 1)
    BY <1>12, <2>1
  <2> QED BY <1>10, <2>1, <2>2
<1> HIDE DEF T
<1>13. \A i \in Nat : i \in T
  BY <1>11, <1>12, Induced
<1>14. ASSUME NEW i \in 1 .. n PROVE Ok(i)
  <2>1. i - 1 \in T /\ (i - 1) + 1 = i /\ i - 1 \in Nat
    BY <1>13, <1>1
  <2> QED BY <2>1 DEF T
<1>15. Joined(x) = f[n] /\ f[n] \in Seq(S) /\ n \in 1 .. n
  BY <1>1, <1>3 DEF Joined, s
<1>16. Layout(f[n], x, p)
  <2>1. p[n + 1] = Len(f[n]) + 1
    BY <1>6, <1>15
  <2>2. \A i \in 1 .. n : p[i + 1] = p[i] + 1 + Len(x[i])
    <3>1. ASSUME NEW i \in 1 .. n PROVE p[i + 1] = p[i] + 1 + Len(x[i])
      <4>1. p[i + 1] = Len(f[i]) + 1
        BY <1>6
      <4>2. Len(f[i]) = p[i] + Len(x[i]) /\ p[i] \in Nat /\ Len(x[i]) \in Nat
        BY <1>1, <1>7
      <4> QED BY <4>1, <4>2
    <3> QED BY <3>1
  <2>3. ASSUME NEW i \in 1 .. n + 1, NEW m \in 1 .. i - 1 PROVE p[m] < p[i]
    <3>1. i - 1 \in 1 .. n /\ (i - 1) + 1 = i
      BY <1>1
    <3>2. Ok(i - 1) /\ p[i] = Len(f[i - 1]) + 1 /\ f[i - 1] \in Seq(S)
      BY <1>4, <1>6, <1>14, <3>1
    <3>3. p[m] \in 1 .. Len(f[i - 1])
      BY <3>2 DEF Ok
    <3> QED BY <3>2, <3>3
  <2>4. /\ \A m \in 1 .. n : f[n][p[m]] = "/"
        /\ \A m \in 1 .. n : \A j \in 1 .. Len(x[m]) :
             f[n][p[m] + j] = x[m][j]
        /\ \A k \in 1 .. Len(f[n]) :
             f[n][k] = "/" => \E m \in 1 .. n : k = p[m]
    BY <1>14, <1>15 DEF Ok
  <2> QED BY <1>6, <2>1, <2>2, <2>3, <2>4 DEF Layout, n
<1> QED BY <1>9, <1>15, <1>16 DEF n

\* Cutting at the slashes is cutting where the segments begin.
LEMMA CutAtLayout ==
  ASSUME NEW S, NEW x \in Seq(Seq(S)), NEW url \in Seq(S),
         NEW p \in [1 .. Len(x) + 1 -> Nat], Layout(url, x, p)
  PROVE  Segments(url) = x
<1> DEFINE n == Len(x)
           cuts == {i \in DOMAIN url : url[i] = "/"} \cup {Len(url) + 1}
           cut(m) == CHOOSE i \in cuts : Cardinality({j \in cuts : j <= i}) = m
<1>1. Segments(url) = [m \in 1 .. Cardinality(cuts) - 1 |->
                         SubSeq(url, cut(m) + 1, cut(m + 1) - 1)]
  BY DEF Segments
<1>2. /\ n \in Nat /\ DOMAIN url = 1 .. Len(url) /\ Len(url) \in Nat
      /\ \A i \in 1 .. n : x[i] \in Seq(S) /\ Len(x[i]) \in Nat
      /\ \A i \in 1 .. n + 1 : p[i] \in Nat
  OBVIOUS
<1>3. /\ p[1] = 1 /\ p[n + 1] = Len(url) + 1
      /\ \A i \in 1 .. n : p[i + 1] = p[i] + 1 + Len(x[i])
      /\ \A i \in 1 .. n + 1 : \A m \in 1 .. i - 1 : p[m] < p[i]
      /\ \A i \in 1 .. n : url[p[i]] = "/"
      /\ \A i \in 1 .. n : \A j \in 1 .. Len(x[i]) : url[p[i] + j] = x[i][j]
      /\ \A k \in 1 .. Len(url) : url[k] = "/" => \E i \in 1 .. n : k = p[i]
  BY DEF Layout
<1> HIDE DEF n
<1>4. ASSUME NEW i \in 1 .. n + 1, NEW m \in 1 .. n + 1
      PROVE  (p[i] <= p[m] <=> i <= m) /\ (p[i] = p[m] <=> i = m)
  <2>1. CASE i < m
    <3>1. i \in 1 .. m - 1
      BY <2>1
    <3>2. p[i] < p[m]
      BY <1>3, <3>1
    <3> QED BY <1>2, <2>1, <3>2
  <2>2. CASE m < i
    <3>1. m \in 1 .. i - 1
      BY <2>2
    <3>2. p[m] < p[i]
      BY <1>3, <3>1
    <3> QED BY <1>2, <2>2, <3>2
  <2>3. CASE i = m
    BY <1>2, <2>3
  <2> QED BY <1>2, <2>1, <2>2, <2>3
<1>5. cuts = {p[i] : i \in 1 .. n + 1}
  <2>1. ASSUME NEW k \in cuts PROVE \E i \in 1 .. n + 1 : k = p[i]
    <3>1. CASE k = Len(url) + 1
      BY <1>2, <1>3, <3>1
    <3>2. CASE k \in 1 .. Len(url) /\ url[k] = "/"
      <4>1. PICK i \in 1 .. n : k = p[i]
        BY <1>3, <3>2
      <4>2. i \in 1 .. n + 1
        BY <1>2, <4>1
      <4> QED BY <4>1, <4>2
    <3> QED BY <1>2, <3>1, <3>2
  <2>2. ASSUME NEW i \in 1 .. n + 1 PROVE p[i] \in cuts
    <3>1. CASE i = n + 1
      BY <1>3, <3>1
    <3>2. CASE i # n + 1
      <4>1. i \in 1 .. n /\ 1 \in 1 .. n + 1 /\ n + 1 \in 1 .. n + 1
        BY <1>2, <3>2
      <4>2. p[1] <= p[i] /\ p[i] <= p[n + 1] /\ p[i] # p[n + 1]
        BY <1>2, <1>4, <4>1
      <4>3. p[i] \in 1 .. Len(url)
        <5>1. PICK q : q = p[i]
          OBVIOUS
        <5>2. PICK l : l = Len(url)
          OBVIOUS
        <5>3. q \in Nat /\ l \in Nat /\ 1 <= q /\ q <= l + 1 /\ q # l + 1
          BY <1>2, <1>3, <4>1, <4>2, <5>1, <5>2
        <5>4. q \in 1 .. l
          BY <5>3
        <5> QED BY <5>1, <5>2, <5>4
      <4>4. url[p[i]] = "/"
        BY <1>3, <4>1
      <4> QED BY <1>2, <4>3, <4>4
    <3> QED BY <3>1, <3>2
  <2> HIDE DEF cuts
  <2> QED BY <2>1, <2>2
<1>6. ASSUME NEW m \in 1 .. n + 1
      PROVE  Cardinality({p[i] : i \in 1 .. m}) = m
  <2> DEFINE R == {p[i] : i \in 1 .. m}
             g == [i \in 1 .. m |-> p[i]]
  <2>1. m \in Nat /\ \A i \in 1 .. m : i \in 1 .. n + 1
    BY <1>2
  <2>2. g \in [1 .. m -> R] /\ \A i \in 1 .. m : g[i] = p[i]
    OBVIOUS
  <2>3. \A i \in 1 .. m : \A j \in 1 .. m : g[i] = g[j] => i = j
    BY <1>4, <2>1, <2>2
  <2>4. \A t \in R : \E i \in 1 .. m : g[i] = t
    BY <2>2
  <2> HIDE DEF R, g
  <2>5. g \in Bijection(1 .. m, R)
    BY <2>2, <2>3, <2>4 DEF Bijection, Injection, IsInjective,
       Surjection
  <2>6. ExistsBijection(1 .. m, R)
    BY <2>5 DEF ExistsBijection
  <2> QED BY <2>1, <2>6, FS_CountingElements DEF R
<1>7. ASSUME NEW m \in 1 .. n + 1
      PROVE  {j \in cuts : j <= p[m]} = {p[i] : i \in 1 .. m}
  <2>1. \A i \in 1 .. n + 1 : p[i] <= p[m] <=> i \in 1 .. m
    BY <1>2, <1>4
  <2>2. \A i \in 1 .. m : i \in 1 .. n + 1
    BY <1>2
  <2> HIDE DEF cuts
  <2> QED BY <1>5, <2>1, <2>2
<1>8. ASSUME NEW m \in 1 .. n + 1 PROVE cut(m) = p[m]
  <2>1. p[m] \in cuts /\ Cardinality({j \in cuts : j <= p[m]}) = m
    <3> HIDE DEF cuts
    <3> QED BY <1>5, <1>6, <1>7
  <2>2. ASSUME NEW k \in cuts, Cardinality({j \in cuts : j <= k}) = m
        PROVE  k = p[m]
    <3> HIDE DEF cuts
    <3>1. PICK i \in 1 .. n + 1 : k = p[i]
      BY <1>5
    <3>2. Cardinality({j \in cuts : j <= p[i]}) = i
      BY <1>6, <1>7
    <3> QED BY <2>2, <3>1, <3>2
  <2> HIDE DEF cuts
  <2> QED BY <2>1, <2>2
<1>9. Cardinality(cuts) = n + 1
  <2>1. n + 1 \in 1 .. n + 1
    BY <1>2
  <2> HIDE DEF cuts
  <2> QED BY <1>5, <1>6, <2>1
<1>10. ASSUME NEW m \in 1 .. n
       PROVE  SubSeq(url, cut(m) + 1, cut(m + 1) - 1) = x[m]
  <2>1. m \in 1 .. n + 1 /\ m + 1 \in 1 .. n + 1
    BY <1>2
  <2>2. cut(m) = p[m] /\ cut(m + 1) = p[m + 1]
    BY <1>8, <2>1
  <2> HIDE DEF cut
  <2>3. PICK a : a = p[m] + 1
    OBVIOUS
  <2>4. PICK b : b = p[m + 1] - 1
    OBVIOUS
  <2>5. PICK y : y = SubSeq(url, a, b)
    OBVIOUS
  <2>6. /\ p[m] \in Nat /\ Len(x[m]) \in Nat /\ x[m] \in Seq(S)
        /\ p[m + 1] = p[m] + 1 + Len(x[m])
    BY <1>2, <1>3, <2>1
  <2>7. /\ a \in Int /\ b \in Int /\ b - a + 1 = Len(x[m])
        /\ p[m] = a - 1 /\ b = p[m] + Len(x[m])
    <3>1. PICK q : q = p[m]
      OBVIOUS
    <3>2. PICK l : l = Len(x[m])
      OBVIOUS
    <3>3. q \in Nat /\ l \in Nat /\ a = q + 1 /\ b = (q + 1 + l) - 1
      BY <2>3, <2>4, <2>6, <3>1, <3>2
    <3>4. a \in Int /\ b \in Int /\ b - a + 1 = l /\ q = a - 1 /\ b = q + l
      BY <3>3
    <3> QED BY <3>1, <3>2, <3>4
  <2>8. ASSUME NEW i \in a .. b
        PROVE  i - p[m] \in 1 .. Len(x[m]) /\ url[i] = x[m][i - p[m]]
    <3> DEFINE j == i - p[m]
    <3>1. j \in 1 .. Len(x[m]) /\ p[m] + j = i
      <4>1. PICK l : l = Len(x[m])
        OBVIOUS
      <4>2. PICK q : q = p[m]
        OBVIOUS
      <4>3. q \in Nat /\ l \in Nat /\ a = q + 1 /\ b = q + l /\ j = i - q
        BY <2>3, <2>6, <2>7, <4>1, <4>2
      <4>4. j \in 1 .. l /\ q + j = i
        <5> HIDE DEF j
        <5> QED BY <4>3
      <4> QED BY <4>1, <4>2, <4>4
    <3>2. url[p[m] + j] = x[m][j]
      BY <1>3, <3>1
    <3> QED BY <3>1, <3>2
  <2>9. \A i \in a .. b : url[i] \in S
    <3>1. ASSUME NEW i \in a .. b PROVE url[i] \in S
      <4>1. PICK j \in 1 .. Len(x[m]) : url[i] = x[m][j]
        BY <2>8
      <4>2. x[m][j] \in S
        BY <2>6, ElementOfSeq
      <4> QED BY <4>1, <4>2
    <3> QED BY <3>1
  <2>10. /\ SubSeq(url, a, b) \in Seq(S)
         /\ Len(SubSeq(url, a, b)) = IF a <= b THEN b - a + 1 ELSE 0
         /\ \A i \in 1 .. b - a + 1 : SubSeq(url, a, b)[i] = url[a + i - 1]
    <3>1. a \in Int /\ b \in Int
      BY <2>7
    <3> QED BY <2>9, <3>1, SubSeqProperties
  <2>11. y \in Seq(S) /\ Len(y) = Len(x[m])
    BY <2>5, <2>6, <2>7, <2>10
  <2>12. ASSUME NEW i \in 1 .. Len(y) PROVE y[i] = x[m][i]
    <3>1. i \in 1 .. b - a + 1 /\ a + i - 1 \in a .. b
          /\ (a + i - 1) - p[m] = i
      <4>1. PICK q : q = p[m]
        OBVIOUS
      <4>2. /\ a \in Int /\ b \in Int /\ Len(y) = b - a + 1 /\ Len(y) \in Nat
            /\ q = a - 1
        BY <2>6, <2>7, <2>11, <4>1
      <4>3. i \in 1 .. b - a + 1 /\ a + i - 1 \in a .. b
            /\ (a + i - 1) - q = i
        BY <4>2
      <4> QED BY <4>1, <4>3
    <3>2. y[i] = url[a + i - 1]
      BY <2>5, <2>10, <3>1
    <3>3. url[a + i - 1] = x[m][(a + i - 1) - p[m]]
      BY <2>8, <3>1
    <3> QED BY <3>1, <3>2, <3>3
  <2>13. y = x[m]
    <3>1. PICK z : z = x[m]
      OBVIOUS
    <3>2. z \in Seq(S) /\ Len(y) = Len(z) /\ \A i \in 1 .. Len(y) : y[i] = z[i]
      BY <2>6, <2>11, <2>12, <3>1
    <3>3. y = z
      BY <2>11, <3>2, SeqEqual
    <3> QED BY <3>1, <3>3
  <2> QED BY <2>2, <2>3, <2>4, <2>5, <2>13
<1> HIDE DEF cut, cuts
<1>11. (n + 1) - 1 = n
  BY <1>2
<1>12. Segments(url) = [m \in 1 .. n |-> x[m]]
  BY <1>1, <1>9, <1>10, <1>11
<1>13. x = [m \in 1 .. n |-> x[m]]
  BY DEF n
<1> QED BY <1>12, <1>13

(***************************************************************************)
(* What ApiClient.buildUrl puts together is cut where it was put together: *)
(* a server gets back all segments of a path, in their order, as long as   *)
(* none of them has a slash in it.                                         *)
(***************************************************************************)
THEOREM CutIsJoined ==
  ASSUME NEW S, "/" \in S, NEW x \in Seq(Seq(S)), Len(x) # 0,
         \A i \in 1 .. Len(x) : \A j \in 1 .. Len(x[i]) : x[i][j] # "/"
  PROVE  Segments(Joined(x)) = x
<1>1. /\ Joined(x) \in Seq(S)
      /\ \E p \in [1 .. Len(x) + 1 -> Nat] : Layout(Joined(x), x, p)
  BY JoinedHasLayout
<1>2. PICK url : url = Joined(x)
  OBVIOUS
<1>3. url \in Seq(S)
  BY <1>1, <1>2
<1>4. PICK p \in [1 .. Len(x) + 1 -> Nat] : Layout(url, x, p)
  BY <1>1, <1>2
<1>5. Segments(url) = x
  BY <1>3, <1>4, CutAtLayout
<1> QED BY <1>2, <1>5

\* What has the elements of two sequences is their concatenation.
LEMMA IsConcat ==
  ASSUME NEW S, NEW s \in Seq(S), NEW t \in Seq(S), NEW u \in Seq(S),
         Len(u) = Len(s) + Len(t), \A i \in 1 .. Len(s) : u[i] = s[i],
         \A i \in 1 .. Len(t) : u[Len(s) + i] = t[i]
  PROVE  s \o t = u
<1>1. /\ s \o t \in Seq(S)
      /\ Len(s \o t) = Len(s) + Len(t)
      /\ \A i \in 1 .. Len(s) + Len(t) : (s \o t)[i] =
                     IF i <= Len(s) THEN s[i] ELSE t[i - Len(s)]
  BY ConcatProperties
<1>2. PICK v : v = s \o t
  OBVIOUS
<1>3. ASSUME NEW i \in 1 .. Len(v) PROVE v[i] = u[i]
  <2>1. CASE i <= Len(s)
    BY <1>1, <1>2, <2>1
  <2>2. CASE i > Len(s)
    <3>1. i - Len(s) \in 1 .. Len(t) /\ Len(s) + (i - Len(s)) = i
      BY <1>1, <1>2, <2>2
    <3>2. v[i] = t[i - Len(s)]
      <4>1. i \in 1 .. Len(s) + Len(t) /\ ~(i <= Len(s))
        BY <1>1, <1>2, <2>2
      <4> QED BY <1>1, <1>2, <4>1
    <3>3. u[Len(s) + (i - Len(s))] = t[i - Len(s)]
      BY <3>1
    <3> QED BY <3>1, <3>2, <3>3
  <2> QED BY <2>1, <2>2
<1>4. v \in Seq(S) /\ Len(v) = Len(u)
  BY <1>1, <1>2
<1>5. v = u
  BY <1>3, <1>4, SeqEqual
<1> QED BY <1>2, <1>5

-----------------------------------------------------------------------------
(***************************************************************************)
(* The templates.  What the ninety-six operations ask for is written with  *)
(* paths below other paths; these lemmas spell out every template, and     *)
(* with it what can be told from a request: the method, the words of the   *)
(* path and the verb.                                                      *)
(***************************************************************************)

\* A path of so many words and arguments, each a segment of its own; and one
\* whose last segment ends in a verb.
Template1(a) == <<<<a>>>>
Template2(a, b) == <<<<a>>, <<b>>>>
Template3(a, b, c) == <<<<a>>, <<b>>, <<c>>>>
Template4(a, b, c, d) == <<<<a>>, <<b>>, <<c>>, <<d>>>>
Template5(a, b, c, d, e) == <<<<a>>, <<b>>, <<c>>, <<d>>, <<e>>>>
Template6(a, b, c, d, e, f) == <<<<a>>, <<b>>, <<c>>, <<d>>, <<e>>, <<f>>>>
Verbed1(a, v) == <<<<a, ":", v>>>>
Verbed2(a, b, v) == <<<<a>>, <<b, ":", v>>>>
Verbed3(a, b, c, v) == <<<<a>>, <<b>>, <<c, ":", v>>>>
Verbed4(a, b, c, d, v) == <<<<a>>, <<b>>, <<c>>, <<d, ":", v>>>>

\* One word below a path of one word.
LEMMA Below11 ==
  ASSUME NEW a, NEW b
  PROVE  Below(Template1(a), <<b>>) = Template2(a, b)
<1> DEFINE S == {<<a>>, <<b>>}
<1>1. PICK s : s = <<<<a>>>>
  OBVIOUS
<1>2. PICK t : t = <<<<b>>>>
  OBVIOUS
<1>3. PICK u : u = <<<<a>>, <<b>>>>
  OBVIOUS
<1>4. s \in Seq(S) /\ t \in Seq(S) /\ u \in Seq(S)
  BY <1>1, <1>2, <1>3
<1>5. Len(s) = 1 /\ Len(t) = 1 /\ Len(u) = 2
  BY <1>1, <1>2, <1>3
<1>6. \A i \in 1 .. Len(s) : u[i] = s[i]
  BY <1>1, <1>3, <1>5
<1>7. \A i \in 1 .. Len(t) : u[Len(s) + i] = t[i]
  BY <1>2, <1>3, <1>5
<1>8. Len(u) = Len(s) + Len(t)
  BY <1>5
<1> HIDE DEF S
<1>9. s \o t = u
  BY <1>4, <1>6, <1>7, <1>8, IsConcat
<1>10. Path(<<b>>) = t
  BY <1>2 DEF Path
<1> QED BY <1>1, <1>3, <1>9, <1>10 DEF Below, Template1, Template2

\* One word below a path of two words.
LEMMA Below21 ==
  ASSUME NEW a, NEW b, NEW c
  PROVE  Below(Template2(a, b), <<c>>) = Template3(a, b, c)
<1> DEFINE S == {<<a>>, <<b>>, <<c>>}
<1>1. PICK s : s = <<<<a>>, <<b>>>>
  OBVIOUS
<1>2. PICK t : t = <<<<c>>>>
  OBVIOUS
<1>3. PICK u : u = <<<<a>>, <<b>>, <<c>>>>
  OBVIOUS
<1>4. s \in Seq(S) /\ t \in Seq(S) /\ u \in Seq(S)
  BY <1>1, <1>2, <1>3
<1>5. Len(s) = 2 /\ Len(t) = 1 /\ Len(u) = 3
  BY <1>1, <1>2, <1>3
<1>6. \A i \in 1 .. Len(s) : u[i] = s[i]
  BY <1>1, <1>3, <1>5
<1>7. \A i \in 1 .. Len(t) : u[Len(s) + i] = t[i]
  BY <1>2, <1>3, <1>5
<1>8. Len(u) = Len(s) + Len(t)
  BY <1>5
<1> HIDE DEF S
<1>9. s \o t = u
  BY <1>4, <1>6, <1>7, <1>8, IsConcat
<1>10. Path(<<c>>) = t
  BY <1>2 DEF Path
<1> QED BY <1>1, <1>3, <1>9, <1>10 DEF Below, Template2, Template3

\* One word below a path of three words.
LEMMA Below31 ==
  ASSUME NEW a, NEW b, NEW c, NEW d
  PROVE  Below(Template3(a, b, c), <<d>>) = Template4(a, b, c, d)
<1> DEFINE S == {<<a>>, <<b>>, <<c>>, <<d>>}
<1>1. PICK s : s = <<<<a>>, <<b>>, <<c>>>>
  OBVIOUS
<1>2. PICK t : t = <<<<d>>>>
  OBVIOUS
<1>3. PICK u : u = <<<<a>>, <<b>>, <<c>>, <<d>>>>
  OBVIOUS
<1>4. s \in Seq(S) /\ t \in Seq(S) /\ u \in Seq(S)
  BY <1>1, <1>2, <1>3
<1>5. Len(s) = 3 /\ Len(t) = 1 /\ Len(u) = 4
  BY <1>1, <1>2, <1>3
<1>6. \A i \in 1 .. Len(s) : u[i] = s[i]
  BY <1>1, <1>3, <1>5
<1>7. \A i \in 1 .. Len(t) : u[Len(s) + i] = t[i]
  BY <1>2, <1>3, <1>5
<1>8. Len(u) = Len(s) + Len(t)
  BY <1>5
<1> HIDE DEF S
<1>9. s \o t = u
  BY <1>4, <1>6, <1>7, <1>8, IsConcat
<1>10. Path(<<d>>) = t
  BY <1>2 DEF Path
<1> QED BY <1>1, <1>3, <1>9, <1>10 DEF Below, Template3, Template4

\* One word below a path of four words.
LEMMA Below41 ==
  ASSUME NEW a, NEW b, NEW c, NEW d, NEW e
  PROVE  Below(Template4(a, b, c, d), <<e>>) = Template5(a, b, c, d, e)
<1> DEFINE S == {<<a>>, <<b>>, <<c>>, <<d>>, <<e>>}
<1>1. PICK s : s = <<<<a>>, <<b>>, <<c>>, <<d>>>>
  OBVIOUS
<1>2. PICK t : t = <<<<e>>>>
  OBVIOUS
<1>3. PICK u : u = <<<<a>>, <<b>>, <<c>>, <<d>>, <<e>>>>
  OBVIOUS
<1>4. s \in Seq(S) /\ t \in Seq(S) /\ u \in Seq(S)
  BY <1>1, <1>2, <1>3
<1>5. Len(s) = 4 /\ Len(t) = 1 /\ Len(u) = 5
  BY <1>1, <1>2, <1>3
<1>6. \A i \in 1 .. Len(s) : u[i] = s[i]
  BY <1>1, <1>3, <1>5
<1>7. \A i \in 1 .. Len(t) : u[Len(s) + i] = t[i]
  BY <1>2, <1>3, <1>5
<1>8. Len(u) = Len(s) + Len(t)
  BY <1>5
<1> HIDE DEF S
<1>9. s \o t = u
  BY <1>4, <1>6, <1>7, <1>8, IsConcat
<1>10. Path(<<e>>) = t
  BY <1>2 DEF Path
<1> QED BY <1>1, <1>3, <1>9, <1>10 DEF Below, Template4, Template5

\* Two words below a path of two words.
LEMMA Below22 ==
  ASSUME NEW a, NEW b, NEW c, NEW d
  PROVE  Below(Template2(a, b), <<c, d>>) = Template4(a, b, c, d)
<1> DEFINE S == {<<a>>, <<b>>, <<c>>, <<d>>}
<1>1. PICK s : s = <<<<a>>, <<b>>>>
  OBVIOUS
<1>2. PICK t : t = <<<<c>>, <<d>>>>
  OBVIOUS
<1>3. PICK u : u = <<<<a>>, <<b>>, <<c>>, <<d>>>>
  OBVIOUS
<1>4. s \in Seq(S) /\ t \in Seq(S) /\ u \in Seq(S)
  BY <1>1, <1>2, <1>3
<1>5. Len(s) = 2 /\ Len(t) = 2 /\ Len(u) = 4
  BY <1>1, <1>2, <1>3
<1>6. \A i \in 1 .. Len(s) : u[i] = s[i]
  BY <1>1, <1>3, <1>5
<1>7. \A i \in 1 .. Len(t) : u[Len(s) + i] = t[i]
  BY <1>2, <1>3, <1>5
<1>8. Len(u) = Len(s) + Len(t)
  BY <1>5
<1> HIDE DEF S
<1>9. s \o t = u
  BY <1>4, <1>6, <1>7, <1>8, IsConcat
<1>10. Path(<<c, d>>) = t
  BY <1>2 DEF Path
<1> QED BY <1>1, <1>3, <1>9, <1>10 DEF Below, Template2, Template4

\* Two words below a path of four words.
LEMMA Below42 ==
  ASSUME NEW a, NEW b, NEW c, NEW d, NEW e, NEW f
  PROVE  Below(Template4(a, b, c, d), <<e, f>>) = Template6(a, b, c, d, e, f)
<1> DEFINE S == {<<a>>, <<b>>, <<c>>, <<d>>, <<e>>, <<f>>}
<1>1. PICK s : s = <<<<a>>, <<b>>, <<c>>, <<d>>>>
  OBVIOUS
<1>2. PICK t : t = <<<<e>>, <<f>>>>
  OBVIOUS
<1>3. PICK u : u = <<<<a>>, <<b>>, <<c>>, <<d>>, <<e>>, <<f>>>>
  OBVIOUS
<1>4. s \in Seq(S) /\ t \in Seq(S) /\ u \in Seq(S)
  BY <1>1, <1>2, <1>3
<1>5. Len(s) = 4 /\ Len(t) = 2 /\ Len(u) = 6
  BY <1>1, <1>2, <1>3
<1>6. \A i \in 1 .. Len(s) : u[i] = s[i]
  BY <1>1, <1>3, <1>5
<1>7. \A i \in 1 .. Len(t) : u[Len(s) + i] = t[i]
  BY <1>2, <1>3, <1>5
<1>8. Len(u) = Len(s) + Len(t)
  BY <1>5
<1> HIDE DEF S
<1>9. s \o t = u
  BY <1>4, <1>6, <1>7, <1>8, IsConcat
<1>10. Path(<<e, f>>) = t
  BY <1>2 DEF Path
<1> QED BY <1>1, <1>3, <1>9, <1>10 DEF Below, Template4, Template6

\* A verb after a path of one word.
LEMMA Verb1 ==
  ASSUME NEW a, NEW v
  PROVE  Verb(Template1(a), v) = Verbed1(a, v)
BY DEF Verb, Template1, Verbed1

\* A verb after a path of two words.
LEMMA Verb2 ==
  ASSUME NEW a, NEW b, NEW v
  PROVE  Verb(Template2(a, b), v) = Verbed2(a, b, v)
BY DEF Verb, Template2, Verbed2

\* A verb after a path of three words.
LEMMA Verb3 ==
  ASSUME NEW a, NEW b, NEW c, NEW v
  PROVE  Verb(Template3(a, b, c), v) = Verbed3(a, b, c, v)
BY DEF Verb, Template3, Verbed3

\* A verb after a path of four words.
LEMMA Verb4 ==
  ASSUME NEW a, NEW b, NEW c, NEW d, NEW v
  PROVE  Verb(Template4(a, b, c, d), v) = Verbed4(a, b, c, d, v)
BY DEF Verb, Template4, Verbed4

\* What is no word of a template.
Marks == {"/", ":", "none"}

SegmentOk(s) ==
  /\ s[1] \notin Marks
  /\ \/ s = <<s[1]>>
     \/ s = <<s[1], ":", s[3]>> /\ s[3] \notin Marks \cup PathArguments

PathOk(path) ==
  /\ Len(path) \in Nat /\ DOMAIN path = 1 .. Len(path) /\ Len(path) # 0
  /\ \A i \in 1 .. Len(path) : SegmentOk(path[i])

\* An operation whose request can be read: its path is a template, the
\* arguments in it are required, and what is required is sent.
Sound(op) ==
  /\ PathOk(op.path)
  /\ op.inPath = PathArguments \cap {op.path[i][1] : i \in DOMAIN op.path}
  /\ op.inPath \subseteq op.required
  /\ op.required \subseteq op.inPath \cup op.query \cup op.body.of
  /\ op.method = "GET" => op.body.of = {} \/ op = loginUserSession

\* The method, the words and the verb of an operation.
MethodOf(op) == op.method
Word(op, i) == IF i <= Len(op.path) THEN op.path[i][1] ELSE "none"
First(op) == Word(op, 1)
Second(op) == Word(op, 2)
Third(op) == Word(op, 3)
Fourth(op) == Word(op, 4)
Fifth(op) == Word(op, 5)
Sixth(op) == Word(op, 6)
VerbOf(op) == LET last == op.path[Len(op.path)]
              IN  IF Len(last) = 3 THEN last[3] ELSE "none"

Traits(op, method, first, second, third, fourth, fifth, sixth, verb) ==
  /\ Sound(op)
  /\ MethodOf(op) = method /\ First(op) = first /\ Second(op) = second
  /\ Third(op) = third /\ Fourth(op) = fourth /\ Fifth(op) = fifth
  /\ Sixth(op) = sixth /\ VerbOf(op) = verb

\* The traits of an operation whose path is a Template, or is Verbed.
Of1(op, m, a) == Traits(op, m, a, "none", "none", "none", "none", "none",
  "none")
Of2(op, m, a, b) == Traits(op, m, a, b, "none", "none", "none", "none",
  "none")
Of3(op, m, a, b, c) == Traits(op, m, a, b, c, "none", "none", "none", "none")
Of4(op, m, a, b, c, d) == Traits(op, m, a, b, c, d, "none", "none", "none")
Of5(op, m, a, b, c, d, e) == Traits(op, m, a, b, c, d, e, "none", "none")
Of6(op, m, a, b, c, d, e, f) == Traits(op, m, a, b, c, d, e, f, "none")
With1(op, m, a, v) == Traits(op, m, a, "none", "none", "none", "none", "none",
  v)
With2(op, m, a, b, v) == Traits(op, m, a, b, "none", "none", "none", "none",
  v)
With3(op, m, a, b, c, v) == Traits(op, m, a, b, c, "none", "none", "none", v)
With4(op, m, a, b, c, d, v) == Traits(op, m, a, b, c, d, "none", "none", v)

\* The words of a segment that is one word.
LEMMA Words1 == \A x : Len(<<x>>) = 1 /\ <<x>>[1] = x
OBVIOUS

\* The words of a segment with a verb: the word, the colon, the verb.
LEMMA Words3 ==
  \A x, y, z : /\ Len(<<x, y, z>>) = 3 /\ <<x, y, z>>[1] = x
               /\ <<x, y, z>>[2] = y /\ <<x, y, z>>[3] = z
OBVIOUS

\* Op adds the arguments in the path to the required ones.
LEMMA OpIsSound ==
  ASSUME NEW method, NEW path, PathOk(path), NEW required, NEW query,
         NEW body, NEW returns, required \subseteq query \cup body.of,
         method = "GET" =>
           \/ body.of = {}
           \/ Op(method, path, required, query, body, returns)
                 = loginUserSession
  PROVE  Sound(Op(method, path, required, query, body, returns))
BY DEF Sound, Op

\* An operation with a path of one word.
LEMMA OfTemplate1 ==
  ASSUME NEW method, NEW a,
         a \notin Marks,
         NEW required, NEW query, NEW body, NEW returns, NEW op,
         op = Op(method, Template1(a), required, query, body,
                 returns),
         required \subseteq query \cup body.of,
         method = "GET" => body.of = {} \/ op = loginUserSession
  PROVE  Of1(op, method, a)
<1>1. PICK p : p = Template1(a)
  OBVIOUS
<1>2. /\ Len(p) = 1 /\ DOMAIN p = 1 .. 1
      /\ p[1] = <<a>>
  BY <1>1 DEF Template1
<1>3. PathOk(p)
  BY <1>2, Words1 DEF PathOk, SegmentOk
<1>4. Sound(op)
  BY <1>1, <1>3, OpIsSound
<1>5. op.method = method /\ op.path = p
  BY <1>1 DEF Op
<1>6. /\ Len(op.path) = 1
      /\ op.path[1][1] = a
  BY <1>2, <1>5, Words1
<1>7. VerbOf(op) = "none"
  <2>1. op.path[Len(op.path)] = <<a>>
    BY <1>2, <1>5, <1>6
  <2> QED BY <2>1, Words1 DEF VerbOf
<1> QED BY <1>4, <1>5, <1>6, <1>7 DEF Of1, Traits, MethodOf,
        First, Second, Third, Fourth, Fifth, Sixth, Word

\* An operation with a path of two words.
LEMMA OfTemplate2 ==
  ASSUME NEW method, NEW a, NEW b,
         a \notin Marks, b \notin Marks,
         NEW required, NEW query, NEW body, NEW returns, NEW op,
         op = Op(method, Template2(a, b), required, query, body,
                 returns),
         required \subseteq query \cup body.of,
         method = "GET" => body.of = {} \/ op = loginUserSession
  PROVE  Of2(op, method, a, b)
<1>1. PICK p : p = Template2(a, b)
  OBVIOUS
<1>2. /\ Len(p) = 2 /\ DOMAIN p = 1 .. 2
      /\ p[1] = <<a>> /\ p[2] = <<b>>
  BY <1>1 DEF Template2
<1>3. PathOk(p)
  BY <1>2, Words1 DEF PathOk, SegmentOk
<1>4. Sound(op)
  BY <1>1, <1>3, OpIsSound
<1>5. op.method = method /\ op.path = p
  BY <1>1 DEF Op
<1>6. /\ Len(op.path) = 2
      /\ op.path[1][1] = a /\ op.path[2][1] = b
  BY <1>2, <1>5, Words1
<1>7. VerbOf(op) = "none"
  <2>1. op.path[Len(op.path)] = <<b>>
    BY <1>2, <1>5, <1>6
  <2> QED BY <2>1, Words1 DEF VerbOf
<1> QED BY <1>4, <1>5, <1>6, <1>7 DEF Of2, Traits, MethodOf,
        First, Second, Third, Fourth, Fifth, Sixth, Word

\* An operation with a path of three words.
LEMMA OfTemplate3 ==
  ASSUME NEW method, NEW a, NEW b, NEW c,
         a \notin Marks, b \notin Marks, c \notin Marks,
         NEW required, NEW query, NEW body, NEW returns, NEW op,
         op = Op(method, Template3(a, b, c), required, query, body,
                 returns),
         required \subseteq query \cup body.of,
         method = "GET" => body.of = {} \/ op = loginUserSession
  PROVE  Of3(op, method, a, b, c)
<1>1. PICK p : p = Template3(a, b, c)
  OBVIOUS
<1>2. /\ Len(p) = 3 /\ DOMAIN p = 1 .. 3
      /\ p[1] = <<a>> /\ p[2] = <<b>> /\ p[3] = <<c>>
  BY <1>1 DEF Template3
<1>3. PathOk(p)
  BY <1>2, Words1 DEF PathOk, SegmentOk
<1>4. Sound(op)
  BY <1>1, <1>3, OpIsSound
<1>5. op.method = method /\ op.path = p
  BY <1>1 DEF Op
<1>6. /\ Len(op.path) = 3
      /\ op.path[1][1] = a /\ op.path[2][1] = b /\ op.path[3][1] = c
  BY <1>2, <1>5, Words1
<1>7. VerbOf(op) = "none"
  <2>1. op.path[Len(op.path)] = <<c>>
    BY <1>2, <1>5, <1>6
  <2> QED BY <2>1, Words1 DEF VerbOf
<1> QED BY <1>4, <1>5, <1>6, <1>7 DEF Of3, Traits, MethodOf,
        First, Second, Third, Fourth, Fifth, Sixth, Word

\* An operation with a path of four words.
LEMMA OfTemplate4 ==
  ASSUME NEW method, NEW a, NEW b, NEW c, NEW d,
         a \notin Marks, b \notin Marks, c \notin Marks, d \notin Marks,
         NEW required, NEW query, NEW body, NEW returns, NEW op,
         op = Op(method, Template4(a, b, c, d), required, query, body,
                 returns),
         required \subseteq query \cup body.of,
         method = "GET" => body.of = {} \/ op = loginUserSession
  PROVE  Of4(op, method, a, b, c, d)
<1>1. PICK p : p = Template4(a, b, c, d)
  OBVIOUS
<1>2. /\ Len(p) = 4 /\ DOMAIN p = 1 .. 4
      /\ p[1] = <<a>> /\ p[2] = <<b>> /\ p[3] = <<c>>
      /\ p[4] = <<d>>
  BY <1>1 DEF Template4
<1>3. PathOk(p)
  BY <1>2, Words1 DEF PathOk, SegmentOk
<1>4. Sound(op)
  BY <1>1, <1>3, OpIsSound
<1>5. op.method = method /\ op.path = p
  BY <1>1 DEF Op
<1>6. /\ Len(op.path) = 4
      /\ op.path[1][1] = a /\ op.path[2][1] = b /\ op.path[3][1] = c
      /\ op.path[4][1] = d
  BY <1>2, <1>5, Words1
<1>7. VerbOf(op) = "none"
  <2>1. op.path[Len(op.path)] = <<d>>
    BY <1>2, <1>5, <1>6
  <2> QED BY <2>1, Words1 DEF VerbOf
<1> QED BY <1>4, <1>5, <1>6, <1>7 DEF Of4, Traits, MethodOf,
        First, Second, Third, Fourth, Fifth, Sixth, Word

\* An operation with a path of five words.
LEMMA OfTemplate5 ==
  ASSUME NEW method, NEW a, NEW b, NEW c, NEW d, NEW e,
         a \notin Marks, b \notin Marks, c \notin Marks, d \notin Marks,
         e \notin Marks,
         NEW required, NEW query, NEW body, NEW returns, NEW op,
         op = Op(method, Template5(a, b, c, d, e), required, query, body,
                 returns),
         required \subseteq query \cup body.of,
         method = "GET" => body.of = {} \/ op = loginUserSession
  PROVE  Of5(op, method, a, b, c, d, e)
<1>1. PICK p : p = Template5(a, b, c, d, e)
  OBVIOUS
<1>2. /\ Len(p) = 5 /\ DOMAIN p = 1 .. 5
      /\ p[1] = <<a>> /\ p[2] = <<b>> /\ p[3] = <<c>>
      /\ p[4] = <<d>> /\ p[5] = <<e>>
  BY <1>1 DEF Template5
<1>3. PathOk(p)
  BY <1>2, Words1 DEF PathOk, SegmentOk
<1>4. Sound(op)
  BY <1>1, <1>3, OpIsSound
<1>5. op.method = method /\ op.path = p
  BY <1>1 DEF Op
<1>6. /\ Len(op.path) = 5
      /\ op.path[1][1] = a /\ op.path[2][1] = b /\ op.path[3][1] = c
      /\ op.path[4][1] = d /\ op.path[5][1] = e
  BY <1>2, <1>5, Words1
<1>7. VerbOf(op) = "none"
  <2>1. op.path[Len(op.path)] = <<e>>
    BY <1>2, <1>5, <1>6
  <2> QED BY <2>1, Words1 DEF VerbOf
<1> QED BY <1>4, <1>5, <1>6, <1>7 DEF Of5, Traits, MethodOf,
        First, Second, Third, Fourth, Fifth, Sixth, Word

\* An operation with a path of six words.
LEMMA OfTemplate6 ==
  ASSUME NEW method, NEW a, NEW b, NEW c, NEW d, NEW e, NEW f,
         a \notin Marks, b \notin Marks, c \notin Marks, d \notin Marks,
         e \notin Marks, f \notin Marks,
         NEW required, NEW query, NEW body, NEW returns, NEW op,
         op = Op(method, Template6(a, b, c, d, e, f), required, query, body,
                 returns),
         required \subseteq query \cup body.of,
         method = "GET" => body.of = {} \/ op = loginUserSession
  PROVE  Of6(op, method, a, b, c, d, e, f)
<1>1. PICK p : p = Template6(a, b, c, d, e, f)
  OBVIOUS
<1>2. /\ Len(p) = 6 /\ DOMAIN p = 1 .. 6
      /\ p[1] = <<a>> /\ p[2] = <<b>> /\ p[3] = <<c>>
      /\ p[4] = <<d>> /\ p[5] = <<e>> /\ p[6] = <<f>>
  BY <1>1 DEF Template6
<1>3. PathOk(p)
  BY <1>2, Words1 DEF PathOk, SegmentOk
<1>4. Sound(op)
  BY <1>1, <1>3, OpIsSound
<1>5. op.method = method /\ op.path = p
  BY <1>1 DEF Op
<1>6. /\ Len(op.path) = 6
      /\ op.path[1][1] = a /\ op.path[2][1] = b /\ op.path[3][1] = c
      /\ op.path[4][1] = d /\ op.path[5][1] = e /\ op.path[6][1] = f
  BY <1>2, <1>5, Words1
<1>7. VerbOf(op) = "none"
  <2>1. op.path[Len(op.path)] = <<f>>
    BY <1>2, <1>5, <1>6
  <2> QED BY <2>1, Words1 DEF VerbOf
<1> QED BY <1>4, <1>5, <1>6, <1>7 DEF Of6, Traits, MethodOf,
        First, Second, Third, Fourth, Fifth, Sixth, Word

\* An operation with a path of one word and a verb.
LEMMA OfVerbed1 ==
  ASSUME NEW method, NEW a, NEW v,
         a \notin Marks, v \notin Marks \cup PathArguments,
         NEW required, NEW query, NEW body, NEW returns, NEW op,
         op = Op(method, Verbed1(a, v), required, query, body,
                 returns),
         required \subseteq query \cup body.of,
         method = "GET" => body.of = {} \/ op = loginUserSession
  PROVE  With1(op, method, a, v)
<1>1. PICK p : p = Verbed1(a, v)
  OBVIOUS
<1>2. /\ Len(p) = 1 /\ DOMAIN p = 1 .. 1
      /\ p[1] = <<a, ":", v>>
  BY <1>1 DEF Verbed1
<1>3. PathOk(p)
  BY <1>2, Words3, Words1 DEF PathOk, SegmentOk
<1>4. Sound(op)
  BY <1>1, <1>3, OpIsSound
<1>5. op.method = method /\ op.path = p
  BY <1>1 DEF Op
<1>6. /\ Len(op.path) = 1
      /\ op.path[1][1] = a
  BY <1>2, <1>5, Words1, Words3
<1>7. VerbOf(op) = v
  <2>1. op.path[Len(op.path)] = <<a, ":", v>>
    BY <1>2, <1>5, <1>6
  <2> QED BY <2>1, Words3 DEF VerbOf
<1> QED BY <1>4, <1>5, <1>6, <1>7 DEF With1, Traits, MethodOf,
        First, Second, Third, Fourth, Fifth, Sixth, Word

\* An operation with a path of two words and a verb.
LEMMA OfVerbed2 ==
  ASSUME NEW method, NEW a, NEW b, NEW v,
         a \notin Marks, b \notin Marks, v \notin Marks \cup PathArguments,
         NEW required, NEW query, NEW body, NEW returns, NEW op,
         op = Op(method, Verbed2(a, b, v), required, query, body,
                 returns),
         required \subseteq query \cup body.of,
         method = "GET" => body.of = {} \/ op = loginUserSession
  PROVE  With2(op, method, a, b, v)
<1>1. PICK p : p = Verbed2(a, b, v)
  OBVIOUS
<1>2. /\ Len(p) = 2 /\ DOMAIN p = 1 .. 2
      /\ p[1] = <<a>> /\ p[2] = <<b, ":", v>>
  BY <1>1 DEF Verbed2
<1>3. PathOk(p)
  BY <1>2, Words3, Words1 DEF PathOk, SegmentOk
<1>4. Sound(op)
  BY <1>1, <1>3, OpIsSound
<1>5. op.method = method /\ op.path = p
  BY <1>1 DEF Op
<1>6. /\ Len(op.path) = 2
      /\ op.path[1][1] = a /\ op.path[2][1] = b
  BY <1>2, <1>5, Words1, Words3
<1>7. VerbOf(op) = v
  <2>1. op.path[Len(op.path)] = <<b, ":", v>>
    BY <1>2, <1>5, <1>6
  <2> QED BY <2>1, Words3 DEF VerbOf
<1> QED BY <1>4, <1>5, <1>6, <1>7 DEF With2, Traits, MethodOf,
        First, Second, Third, Fourth, Fifth, Sixth, Word

\* An operation with a path of three words and a verb.
LEMMA OfVerbed3 ==
  ASSUME NEW method, NEW a, NEW b, NEW c, NEW v,
         a \notin Marks, b \notin Marks, c \notin Marks,
         v \notin Marks \cup PathArguments,
         NEW required, NEW query, NEW body, NEW returns, NEW op,
         op = Op(method, Verbed3(a, b, c, v), required, query, body,
                 returns),
         required \subseteq query \cup body.of,
         method = "GET" => body.of = {} \/ op = loginUserSession
  PROVE  With3(op, method, a, b, c, v)
<1>1. PICK p : p = Verbed3(a, b, c, v)
  OBVIOUS
<1>2. /\ Len(p) = 3 /\ DOMAIN p = 1 .. 3
      /\ p[1] = <<a>> /\ p[2] = <<b>> /\ p[3] = <<c, ":", v>>
  BY <1>1 DEF Verbed3
<1>3. PathOk(p)
  BY <1>2, Words3, Words1 DEF PathOk, SegmentOk
<1>4. Sound(op)
  BY <1>1, <1>3, OpIsSound
<1>5. op.method = method /\ op.path = p
  BY <1>1 DEF Op
<1>6. /\ Len(op.path) = 3
      /\ op.path[1][1] = a /\ op.path[2][1] = b /\ op.path[3][1] = c
  BY <1>2, <1>5, Words1, Words3
<1>7. VerbOf(op) = v
  <2>1. op.path[Len(op.path)] = <<c, ":", v>>
    BY <1>2, <1>5, <1>6
  <2> QED BY <2>1, Words3 DEF VerbOf
<1> QED BY <1>4, <1>5, <1>6, <1>7 DEF With3, Traits, MethodOf,
        First, Second, Third, Fourth, Fifth, Sixth, Word

\* An operation with a path of four words and a verb.
LEMMA OfVerbed4 ==
  ASSUME NEW method, NEW a, NEW b, NEW c, NEW d, NEW v,
         a \notin Marks, b \notin Marks, c \notin Marks, d \notin Marks,
         v \notin Marks \cup PathArguments,
         NEW required, NEW query, NEW body, NEW returns, NEW op,
         op = Op(method, Verbed4(a, b, c, d, v), required, query, body,
                 returns),
         required \subseteq query \cup body.of,
         method = "GET" => body.of = {} \/ op = loginUserSession
  PROVE  With4(op, method, a, b, c, d, v)
<1>1. PICK p : p = Verbed4(a, b, c, d, v)
  OBVIOUS
<1>2. /\ Len(p) = 4 /\ DOMAIN p = 1 .. 4
      /\ p[1] = <<a>> /\ p[2] = <<b>> /\ p[3] = <<c>>
      /\ p[4] = <<d, ":", v>>
  BY <1>1 DEF Verbed4
<1>3. PathOk(p)
  BY <1>2, Words3, Words1 DEF PathOk, SegmentOk
<1>4. Sound(op)
  BY <1>1, <1>3, OpIsSound
<1>5. op.method = method /\ op.path = p
  BY <1>1 DEF Op
<1>6. /\ Len(op.path) = 4
      /\ op.path[1][1] = a /\ op.path[2][1] = b /\ op.path[3][1] = c
      /\ op.path[4][1] = d
  BY <1>2, <1>5, Words1, Words3
<1>7. VerbOf(op) = v
  <2>1. op.path[Len(op.path)] = <<d, ":", v>>
    BY <1>2, <1>5, <1>6
  <2> QED BY <2>1, Words3 DEF VerbOf
<1> QED BY <1>4, <1>5, <1>6, <1>7 DEF With4, Traits, MethodOf,
        First, Second, Third, Fourth, Fifth, Sixth, Word

\* The paths that are not below another.
LEMMA ShortPaths ==
  /\ AuthPath = Template1("auth")
  /\ ProjectsPath = Template1("projects")
  /\ SystemPath = Template1("system")
  /\ UsersPath = Template1("users")
  /\ Path(<<"seed", "default">>) = Template2("seed", "default")
BY DEF AuthPath, ProjectsPath, SystemPath, UsersPath, Path, Template1,
   Template2

\* The paths of two words.
LEMMA Paths2 ==
  /\ OAuthPath = Template2("auth", "oauth")
  /\ PermissionsPath = Template2("auth", "permissions")
  /\ TokensPath = Template2("auth", "tokens")
  /\ ProjectPath = Template2("projects", "projectId")
  /\ ImagesPath = Template2("system", "allowed-images")
  /\ UserPath = Template2("users", "userId")
BY ShortPaths, Below11 DEF OAuthPath, PermissionsPath, TokensPath,
   ProjectPath, ImagesPath, UserPath

\* Of three.
LEMMA Paths3 ==
  /\ ExtensionsPath = Template3("projects", "projectId", "extensions")
  /\ FilesPath = Template3("projects", "projectId", "files")
  /\ JobsPath = Template3("projects", "projectId", "jobs")
  /\ JsonPath = Template3("projects", "projectId", "json")
  /\ ServicesPath = Template3("projects", "projectId", "services")
BY ShortPaths, Paths2, Below21 DEF ExtensionsPath, FilesPath, JobsPath,
   JsonPath, ServicesPath

\* Of four.
LEMMA Paths4 ==
  /\ ExtensionPath =
       Template4("projects", "projectId", "extensions", "extensionId")
  /\ FilePath = Template4("projects", "projectId", "files", "fileKey")
  /\ JobPath = Template4("projects", "projectId", "jobs", "jobId")
  /\ CollectionPath =
       Template4("projects", "projectId", "json", "collectionId")
  /\ ServicePath = Template4("projects", "projectId", "services", "serviceId")
  /\ MemberPath = Template4("projects", "projectId", "users", "userId")
BY ShortPaths, Paths2, Paths3, Below22, Below31 DEF ExtensionPath, FilePath,
   JobPath, CollectionPath, ServicePath, MemberPath

\* Of five.
LEMMA Paths5 ==
  /\ DocumentPath =
       Template5("projects", "projectId", "json", "collectionId", "key")
BY ShortPaths, Paths2, Paths3, Paths4, Below41 DEF DocumentPath

\* The requests of AuthApi.
LEMMA AuthApiRequests ==
  /\ Of2(createToken, "POST", "auth", "tokens")
  /\ Of2(deleteResourcePermissions, "DELETE", "auth", "permissions")
  /\ Of2(getResourcesWithPermission, "GET", "auth", "resources")
  /\ Of3(introspectToken, "POST", "auth", "oauth", "introspect")
  /\ Of2(listApiTokens, "GET", "auth", "tokens")
  /\ Of2(listResourcePermissions, "GET", "auth", "permissions")
  /\ Of3(loginCallback, "GET", "auth", "oauth", "callback")
  /\ Of2(loginUserSession, "GET", "auth", "login")
  /\ Of2(logoutUserSession, "GET", "auth", "logout")
  /\ Of3(oauthEnabled, "GET", "auth", "oauth", "enabled")
  /\ Of2(openLoginPage, "GET", "auth", "login-page")
  /\ Of3(requestToken, "POST", "auth", "oauth", "token")
  /\ Of3(revokeToken, "POST", "auth", "oauth", "revoke")
  /\ Of2(setResourcePermissions, "POST", "auth", "permissions")
  /\ Of3(verifyAccess, "POST", "auth", "tokens", "verify")
BY Below11, Below21, OfTemplate2, OfTemplate3, Paths2, ShortPaths DEF
   createToken, deleteResourcePermissions, getResourcesWithPermission,
   introspectToken, listApiTokens, listResourcePermissions, loginCallback,
   loginUserSession, logoutUserSession, oauthEnabled, openLoginPage,
   requestToken, revokeToken, setResourcePermissions, verifyAccess, Marks,
   PathArguments, None, Json, Form, Multipart

\* The requests of ExtensionsApi.
LEMMA ExtensionsApiRequests ==
  /\ Of4(deleteExtension, "DELETE", "projects", "projectId", "extensions",
       "extensionId")
  /\ Of4(getExtensionMetadata, "GET", "projects", "projectId", "extensions",
       "extensionId")
  /\ Of3(installExtension, "POST", "projects", "projectId", "extensions")
  /\ Of3(listExtensions, "GET", "projects", "projectId", "extensions")
  /\ With3(suggestExtensionConfig, "GET", "projects", "projectId",
       "extensions", "suggest-config")
BY OfTemplate3, OfTemplate4, OfVerbed3, Paths3, Paths4, Verb3 DEF
   deleteExtension, getExtensionMetadata, installExtension, listExtensions,
   suggestExtensionConfig, Marks, PathArguments, None, Json, Form, Multipart

\* The requests of FilesApi.
LEMMA FilesApiRequests ==
  /\ Of4(deleteFile, "DELETE", "projects", "projectId", "files", "fileKey")
  /\ Of3(deleteFiles, "DELETE", "projects", "projectId", "files")
  /\ With4(downloadFile, "GET", "projects", "projectId", "files", "fileKey",
       "download")
  /\ Of6(executeFileAction, "GET", "projects", "projectId", "files",
       "fileKey", "actions", "actionId")
  /\ With4(getFileMetadata, "GET", "projects", "projectId", "files",
       "fileKey", "metadata")
  /\ Of5(listFileActions, "GET", "projects", "projectId", "files", "fileKey",
       "actions")
  /\ Of3(listFiles, "GET", "projects", "projectId", "files")
  /\ Of4(updateFileMetadata, "PATCH", "projects", "projectId", "files",
       "fileKey")
  /\ Of4(uploadFile, "POST", "projects", "projectId", "files", "fileKey")
BY Below41, Below42, OfTemplate3, OfTemplate4, OfTemplate5, OfTemplate6,
   OfVerbed4, Paths3, Paths4, Verb4 DEF deleteFile, deleteFiles, downloadFile,
   executeFileAction, getFileMetadata, listFileActions, listFiles,
   updateFileMetadata, uploadFile, Marks, PathArguments, None, Json, Form,
   Multipart

\* The requests of JobsApi.
LEMMA JobsApiRequests ==
  /\ Of4(deleteJob, "DELETE", "projects", "projectId", "jobs", "jobId")
  /\ Of3(deleteJobs, "DELETE", "projects", "projectId", "jobs")
  /\ Of3(deployJob, "POST", "projects", "projectId", "jobs")
  /\ Of6(executeJobAction, "POST", "projects", "projectId", "jobs", "jobId",
       "actions", "actionId")
  /\ Of5(getJobLogs, "GET", "projects", "projectId", "jobs", "jobId", "logs")
  /\ Of4(getJobMetadata, "GET", "projects", "projectId", "jobs", "jobId")
  /\ With3(listDeployJobActions, "POST", "projects", "projectId", "jobs",
       "deploy-actions")
  /\ Of5(listJobActions, "GET", "projects", "projectId", "jobs", "jobId",
       "actions")
  /\ Of3(listJobs, "GET", "projects", "projectId", "jobs")
  /\ With3(suggestJobConfig, "GET", "projects", "projectId", "jobs",
       "suggest-config")
BY Below41, Below42, OfTemplate3, OfTemplate4, OfTemplate5, OfTemplate6,
   OfVerbed3, Paths3, Paths4, Verb3 DEF deleteJob, deleteJobs, deployJob,
   executeJobAction, getJobLogs, getJobMetadata, listDeployJobActions,
   listJobActions, listJobs, suggestJobConfig, Marks, PathArguments, None,
   Json, Form, Multipart

\* The requests of JsonApi.
LEMMA JsonApiRequests ==
  /\ Of5(createJsonDocument, "PUT", "projects", "projectId", "json",
       "collectionId", "key")
  /\ Of4(deleteJsonCollection, "DELETE", "projects", "projectId", "json",
       "collectionId")
  /\ Of3(deleteJsonCollections, "DELETE", "projects", "projectId", "json")
  /\ Of5(deleteJsonDocument, "DELETE", "projects", "projectId", "json",
       "collectionId", "key")
  /\ Of5(getJsonDocument, "GET", "projects", "projectId", "json",
       "collectionId", "key")
  /\ Of4(listJsonDocuments, "GET", "projects", "projectId", "json",
       "collectionId")
  /\ Of5(updateJsonDocument, "PATCH", "projects", "projectId", "json",
       "collectionId", "key")
BY OfTemplate3, OfTemplate4, OfTemplate5, Paths3, Paths4, Paths5 DEF
   createJsonDocument, deleteJsonCollection, deleteJsonCollections,
   deleteJsonDocument, getJsonDocument, listJsonDocuments, updateJsonDocument,
   Marks, PathArguments, None, Json, Form, Multipart

\* The requests of ProjectsApi.
LEMMA ProjectsApiRequests ==
  /\ Of4(addProjectMember, "PUT", "projects", "projectId", "users", "userId")
  /\ Of1(createProject, "POST", "projects")
  /\ Of2(deleteProject, "DELETE", "projects", "projectId")
  /\ Of2(getProject, "GET", "projects", "projectId")
  /\ Of3(getProjectToken, "GET", "projects", "projectId", "token")
  /\ Of3(listProjectMembers, "GET", "projects", "projectId", "users")
  /\ Of1(listProjects, "GET", "projects")
  /\ Of4(removeProjectMember, "DELETE", "projects", "projectId", "users",
       "userId")
  /\ With1(suggestProjectId, "GET", "projects", "suggest-id")
  /\ Of2(updateProject, "PATCH", "projects", "projectId")
BY Below21, OfTemplate1, OfTemplate2, OfTemplate3, OfTemplate4, OfVerbed1,
   Paths2, Paths4, ShortPaths, Verb1 DEF addProjectMember, createProject,
   deleteProject, getProject, getProjectToken, listProjectMembers,
   listProjects, removeProjectMember, suggestProjectId, updateProject, Marks,
   PathArguments, None, Json, Form, Multipart

\* The requests of SeedApi.
LEMMA SeedApiRequests ==
  /\ Of2(createSeedDefaultSeedDefaultGet, "GET", "seed", "default")
BY OfTemplate2, ShortPaths DEF createSeedDefaultSeedDefaultGet, Marks,
   PathArguments, None, Json, Form, Multipart

\* The requests of ServicesApi.
LEMMA ServicesApiRequests ==
  /\ Of4(deleteService, "DELETE", "projects", "projectId", "services",
       "serviceId")
  /\ Of3(deleteServices, "DELETE", "projects", "projectId", "services")
  /\ Of3(deployService, "POST", "projects", "projectId", "services")
  /\ Of6(executeServiceAction, "POST", "projects", "projectId", "services",
       "serviceId", "actions", "actionId")
  /\ Of5(getServiceAccessToken, "GET", "projects", "projectId", "services",
       "serviceId", "token")
  /\ Of5(getServiceLogs, "GET", "projects", "projectId", "services",
       "serviceId", "logs")
  /\ Of4(getServiceMetadata, "GET", "projects", "projectId", "services",
       "serviceId")
  /\ With3(listDeployServiceActions, "POST", "projects", "projectId",
       "services", "deploy-actions")
  /\ Of5(listServiceActions, "GET", "projects", "projectId", "services",
       "serviceId", "actions")
  /\ Of3(listServices, "GET", "projects", "projectId", "services")
  /\ With3(suggestServiceConfig, "GET", "projects", "projectId", "services",
       "suggest-config")
  /\ Of4(updateService, "PATCH", "projects", "projectId", "services",
       "serviceId")
  /\ With4(updateServiceAccess, "POST", "projects", "projectId", "services",
       "serviceId", "update-service-access")
BY Below41, Below42, OfTemplate3, OfTemplate4, OfTemplate5, OfTemplate6,
   OfVerbed3, OfVerbed4, Paths3, Paths4, Verb3, Verb4 DEF deleteService,
   deleteServices, deployService, executeServiceAction, getServiceAccessToken,
   getServiceLogs, getServiceMetadata, listDeployServiceActions,
   listServiceActions, listServices, suggestServiceConfig, updateService,
   updateServiceAccess, Marks, PathArguments, None, Json, Form, Multipart

\* The requests of SystemApi.
LEMMA SystemApiRequests ==
  /\ Of2(addAllowedImage, "POST", "system", "allowed-images")
  /\ Of2(checkHealthSystemHealthGet, "GET", "system", "health")
  /\ Of2(deleteAllowedImage, "DELETE", "system", "allowed-images")
  /\ Of2(getSystemInfo, "GET", "system", "info")
  /\ Of2(getSystemStatistics, "GET", "system", "statistics")
  /\ Of2(initializeSystem, "POST", "system", "initialize")
  /\ Of2(listAllowedImages, "GET", "system", "allowed-images")
  /\ Of2(registerAdminUserSystemAdminPost, "POST", "system", "admin")
BY Below11, OfTemplate2, Paths2, ShortPaths DEF addAllowedImage,
   checkHealthSystemHealthGet, deleteAllowedImage, getSystemInfo,
   getSystemStatistics, initializeSystem, listAllowedImages,
   registerAdminUserSystemAdminPost, Marks, PathArguments, None, Json, Form,
   Multipart

\* The requests of UsersApi.
LEMMA UsersApiRequests ==
  /\ With2(changePassword, "PUT", "users", "userId", "change-password")
  /\ Of1(createUser, "POST", "users")
  /\ Of2(deleteUser, "DELETE", "users", "userId")
  /\ Of2(getMyUser, "GET", "users", "me")
  /\ Of2(getUser, "GET", "users", "userId")
  /\ Of3(getUserToken, "GET", "users", "userId", "token")
  /\ Of1(listUsers, "GET", "users")
  /\ Of2(updateUser, "PATCH", "users", "userId")
BY Below11, Below21, OfTemplate1, OfTemplate2, OfTemplate3, OfVerbed2, Paths2,
   ShortPaths, Verb2 DEF changePassword, createUser, deleteUser, getMyUser,
   getUser, getUserToken, listUsers, updateUser, Marks, PathArguments, None,
   Json, Form, Multipart

-----------------------------------------------------------------------------
(***************************************************************************)
(* Fitting.  The segments of a request are the words and the encoded       *)
(* arguments of the template it was written from, each with its verb; a    *)
(* template that fits them has the same verb, and the same word wherever   *)
(* neither has a placeholder.                                              *)
(***************************************************************************)

\* What ApiClient.buildUrl writes for a word of a template, a segment, a path.
Coded(args, t) ==
  IF t \in PathArguments THEN EncodeURIComponent(args[t]) ELSE <<t>>
Spelled(args, s) == FlattenSeq([j \in DOMAIN s |-> Coded(args, s[j])])
Sent(path, args) == [i \in DOMAIN path |-> Spelled(args, path[i])]

\* The path of a request is its segments, put together.
LEMMA UrlIsJoined ==
  ASSUME NEW path, NEW args
  PROVE  BuildUrl(path, args) = Joined(Sent(path, args))
<1>1. DOMAIN Sent(path, args) = DOMAIN path
  BY DEF Sent
<1>2. \A i \in DOMAIN path : Sent(path, args)[i] = Spelled(args, path[i])
  BY DEF Sent
<1>3. BuildUrl(path, args) =
        FlattenSeq([i \in DOMAIN path |-> <<"/">> \o Spelled(args, path[i])])
  BY DEF BuildUrl, Spelled, Coded
<1>4. [i \in DOMAIN path |-> <<"/">> \o Spelled(args, path[i])]
        = [i \in DOMAIN Sent(path, args) |-> <<"/">> \o Sent(path, args)[i]]
  BY <1>1, <1>2, Zenon
<1> QED BY <1>3, <1>4 DEF Joined

\* What the path of a request may be made of.
Signs(path) ==
  STRING \cup {"/", ":", "%2F", "%3A", "%25"}
    \cup {path[i][1] : i \in DOMAIN path} \cup {path[i][3] : i \in DOMAIN path}

\* The values of the arguments in path are characters.
ValuesAreCharacters(path, args) ==
  \A i \in DOMAIN path :
    path[i][1] \in PathArguments => Characters(args[path[i][1]])

\* No word of a template and no encoded value has a slash or a colon.
LEMMA CodedIs ==
  ASSUME NEW path, PathOk(path), NEW args, ValuesAreCharacters(path, args),
         NEW i \in DOMAIN path
  PROVE  LET y == Coded(args, path[i][1])
         IN  /\ y \in Seq(Signs(path))
             /\ \A k \in 1 .. Len(y) : y[k] \notin {"/", ":"}
<1> DEFINE t == path[i][1]
<1>1. t \notin Marks
  BY DEF PathOk, SegmentOk
<1>2. CASE t \in PathArguments
  <2>1. PICK v : v = args[t]
    OBVIOUS
  <2>2. Characters(v)
    BY <1>2, <2>1 DEF ValuesAreCharacters
  <2>3. PICK code : code = EncodeURIComponent(v)
    OBVIOUS
  <2>4. /\ DOMAIN code = DOMAIN v
        /\ \A k \in DOMAIN v :
           code[k] = IF v[k] \in DOMAIN Escapes THEN Escapes[v[k]]
                                                    ELSE v[k]
        /\ code = [k \in DOMAIN v |-> code[k]]
    BY <2>3 DEF EncodeURIComponent
  <2>5. v \in Seq(STRING) /\ DOMAIN v = 1 .. Len(v) /\ Len(v) \in Nat
    BY <2>2 DEF Characters
  <2>6. ASSUME NEW k \in 1 .. Len(v) PROVE code[k] \in Signs(path)
    <3>1. v[k] \in STRING
      BY <2>5
    <3>2. CASE v[k] \in DOMAIN Escapes
      <4>1. code[k] = Escapes[v[k]]
        BY <2>4, <2>5, <3>2
      <4>2. code[k] \in {"%2F", "%3A", "%25"}
        BY <3>2, <4>1 DEF Escapes
      <4> QED BY <4>2 DEF Signs
    <3>3. CASE v[k] \notin DOMAIN Escapes
      BY <2>4, <2>5, <3>1, <3>3 DEF Signs
    <3> QED BY <3>2, <3>3
  <2>7. code \in [1 .. Len(v) -> Signs(path)]
    <3>1. code = [k \in 1 .. Len(v) |-> code[k]]
      BY <2>4, <2>5
    <3> QED BY <2>6, <3>1
  <2>8. code \in Seq(Signs(path)) /\ Len(code) = Len(v)
    BY <2>5, <2>7, IsSeq
  <2>9. \A k \in 1 .. Len(code) : code[k] \notin {"/", ":"}
    BY <2>2, <2>3, <2>4, <2>5, <2>8, EncodedValueIsWhole
  <2>10. Coded(args, t) = code
    BY <1>2, <2>1, <2>3 DEF Coded
  <2> QED BY <2>8, <2>9, <2>10
<1>3. CASE t \notin PathArguments
  <2>1. Coded(args, t) = <<t>>
    BY <1>3 DEF Coded
  <2>2. t \in Signs(path)
    BY DEF Signs
  <2>3. PICK y : y = <<t>>
    OBVIOUS
  <2> HIDE DEF t
  <2>4. y \in Seq(Signs(path)) /\ Len(y) = 1 /\ y[1] = t
    BY <2>2, <2>3
  <2>5. \A k \in 1 .. Len(y) : y[k] \notin {"/", ":"}
    BY <1>1, <2>4 DEF Marks
  <2>6. y = Coded(args, t)
    BY <2>1, <2>3
  <2> QED BY <2>4, <2>5, <2>6 DEF t
<1> QED BY <1>2, <1>3

\* Two words, one after the other.
LEMMA TwoWords ==
  ASSUME NEW a, NEW b PROVE <<a>> \o <<b>> = <<a, b>>
<1>1. PICK s : s = <<a>>
  OBVIOUS
<1>2. PICK t : t = <<b>>
  OBVIOUS
<1>3. PICK u : u = <<a, b>>
  OBVIOUS
<1> DEFINE S == {a, b}
<1>4. s \in Seq(S) /\ t \in Seq(S) /\ u \in Seq(S)
  BY <1>1, <1>2, <1>3
<1>5. Len(s) = 1 /\ Len(t) = 1 /\ Len(u) = 2 /\ Len(u) = Len(s) + Len(t)
  BY <1>1, <1>2, <1>3
<1>6. \A i \in 1 .. Len(s) : u[i] = s[i]
  BY <1>1, <1>3, <1>5
<1>7. \A i \in 1 .. Len(t) : u[Len(s) + i] = t[i]
  BY <1>2, <1>3, <1>5
<1> HIDE DEF S
<1>8. s \o t = u
  BY <1>4, <1>5, <1>6, <1>7, IsConcat
<1> QED BY <1>1, <1>2, <1>3, <1>8

\* After the first word of a segment there is nothing, or a verb.
LEMMA TailOf ==
  ASSUME NEW s, SegmentOk(s)
  PROVE  \/ Len(s) = 1 /\ DOMAIN s = 1 .. 1 /\ Tail(s) = << >>
         \/ /\ Len(s) = 3 /\ DOMAIN s = 1 .. 3 /\ s[2] = ":"
            /\ s[3] \notin Marks \cup PathArguments
            /\ Tail(s) = <<":", s[3]>>
<1>1. CASE s = <<s[1]>>
  <2>1. \A w : Len(<<w>>) = 1 /\ DOMAIN <<w>> = 1 .. 1 /\ Tail(<<w>>) = << >>
    OBVIOUS
  <2> QED BY <1>1, <2>1
<1>2. CASE s = <<s[1], ":", s[3]>> /\ s[3] \notin Marks \cup PathArguments
  <2>1. \A w, c, v : /\ Len(<<w, c, v>>) = 3 /\ DOMAIN <<w, c, v>> = 1 .. 3
                     /\ <<w, c, v>>[2] = c
                     /\ Tail(<<w, c, v>>) = <<c, v>>
    OBVIOUS
  <2>2. PICK v : v = s[3]
    OBVIOUS
  <2>3. PICK w : w = s[1]
    OBVIOUS
  <2>4. s = <<w, ":", v>>
    BY <1>2, <2>2, <2>3
  <2>5. /\ Len(s) = 3 /\ DOMAIN s = 1 .. 3 /\ s[2] = ":"
        /\ Tail(s) = <<":", v>>
    BY <2>1, <2>4, Zenon
  <2> QED BY <1>2, <2>2, <2>5, Zenon
<1> QED BY <1>1, <1>2 DEF SegmentOk

\* A segment is written as its word or argument, and the verb.
LEMMA SpelledIs ==
  ASSUME NEW S, NEW s, SegmentOk(s), NEW args,
         Coded(args, s[1]) \in Seq(S), ":" \in S, s[3] \in S
  PROVE  /\ Spelled(args, s) = Coded(args, s[1]) \o Tail(s)
         /\ Spelled(args, s) \in Seq(S) /\ Tail(s) \in Seq(S)
<1>1. PICK y : y = Coded(args, s[1])
  OBVIOUS
<1>2. y \in Seq(S)
  BY <1>1
<1>3. PICK z : z = [j \in DOMAIN s |-> Coded(args, s[j])]
  OBVIOUS
<1>4. CASE Len(s) = 1 /\ DOMAIN s = 1 .. 1 /\ Tail(s) = << >>
  <2>1. z[1] = y /\ z = [j \in 1 .. 1 |-> y]
    BY <1>1, <1>3, <1>4
  <2>2. z \in [1 .. 1 -> Seq(S)]
    BY <1>2, <2>1
  <2>3. z \in Seq(Seq(S)) /\ Len(z) = 1
    BY <2>2, IsSeq
  <2>4. Len(z) # 0
    BY <2>3
  <2>5. \E f \in [1 .. Len(z) -> Seq(S)] :
           /\ FlattenSeq(z) = f[Len(z)] /\ f[1] = z[1]
           /\ \A i \in 2 .. Len(z) : f[i] = f[i - 1] \o z[i]
    BY <2>3, <2>4, Flattened
  <2>6. FlattenSeq(z) = y
    BY <2>1, <2>3, <2>5
  <2>7. y \o << >> = y
    BY <1>2, ConcatEmptySeq
  <2>8. << >> \in Seq(S)
    BY EmptySeq
  <2> QED BY <1>1, <1>2, <1>3, <1>4, <2>6, <2>7, <2>8 DEF Spelled
<1>5. CASE /\ Len(s) = 3 /\ DOMAIN s = 1 .. 3 /\ s[2] = ":"
           /\ s[3] \notin Marks \cup PathArguments
           /\ Tail(s) = <<":", s[3]>>
  <2>1. PICK c : c = <<":">>
    OBVIOUS
  <2>2. PICK v : v = <<s[3]>>
    OBVIOUS
  <2>3. c \in Seq(S) /\ v \in Seq(S)
    BY <2>1, <2>2
  <2>4. ":" \notin PathArguments
    BY DEF PathArguments
  <2>5. Coded(args, s[2]) = c /\ Coded(args, s[3]) = v
    BY <1>5, <2>1, <2>2, <2>4 DEF Coded
  <2>6. DOMAIN z = 1 .. 3 /\ z[1] = y /\ z[2] = c /\ z[3] = v
    BY <1>1, <1>3, <1>5, <2>5
  <2>7. z \in [1 .. 3 -> Seq(S)]
    <3>1. ASSUME NEW j \in 1 .. 3 PROVE z[j] \in Seq(S)
      <4>1. j \in {1, 2, 3}
        OBVIOUS
      <4> QED BY <1>2, <2>3, <2>6, <4>1
    <3>2. z = [j \in 1 .. 3 |-> z[j]]
      BY <1>3, <1>5
    <3> QED BY <3>1, <3>2
  <2>8. z \in Seq(Seq(S)) /\ Len(z) = 3
    BY <2>7, IsSeq
  <2>9. Len(z) # 0
    BY <2>8
  <2>10. \E f \in [1 .. Len(z) -> Seq(S)] :
           /\ FlattenSeq(z) = f[Len(z)] /\ f[1] = z[1]
           /\ \A i \in 2 .. Len(z) : f[i] = f[i - 1] \o z[i]
    BY <2>8, <2>9, Flattened
  <2>11. PICK f : /\ FlattenSeq(z) = f[3] /\ f[1] = z[1]
                  /\ \A i \in 2 .. 3 : f[i] = f[i - 1] \o z[i]
    BY <2>8, <2>10
  <2>12. f[2] = f[1] \o z[2] /\ f[3] = f[2] \o z[3]
    <3>1. f[2] = f[2 - 1] \o z[2] /\ f[3] = f[3 - 1] \o z[3]
      <4>1. 2 \in 2 .. 3 /\ 3 \in 2 .. 3
        OBVIOUS
      <4> QED BY <2>11, <4>1, Zenon
    <3>2. 2 - 1 = 1 /\ 3 - 1 = 2
      OBVIOUS
    <3> QED BY <3>1, <3>2
  <2>13. FlattenSeq(z) = (y \o c) \o v
    BY <2>6, <2>11, <2>12
  <2>14. (y \o c) \o v = y \o (c \o v)
    <3>1. y \in Seq(S) /\ c \in Seq(S) /\ v \in Seq(S)
      BY <1>2, <2>3
    <3> QED BY <3>1, ConcatAssociative, SMTT(30)
  <2>15. c \o v = <<":", s[3]>>
    BY <2>1, <2>2, TwoWords
  <2>16. PICK u : u = c \o v
    OBVIOUS
  <2>17. u \in Seq(S)
    BY <2>3, <2>16, ConcatProperties
  <2>18. y \o u \in Seq(S)
    BY <1>2, <2>17, ConcatProperties
  <2> QED BY <1>1, <1>3, <1>5, <2>13, <2>14, <2>15, <2>16, <2>17, <2>18
          DEF Spelled
<1> QED BY <1>4, <1>5, TailOf

\* The words and verbs of a path are signs of it.
LEMMA WordsAreSigns ==
  ASSUME NEW path, NEW i \in DOMAIN path
  PROVE  path[i][1] \in Signs(path) /\ path[i][3] \in Signs(path)
BY DEF Signs

\* A server gets the segments back that were written.
LEMMA SentIs ==
  ASSUME NEW path, PathOk(path), NEW args, ValuesAreCharacters(path, args)
  PROVE  LET x == Sent(path, args)
         IN  /\ Segments(BuildUrl(path, args)) = x
             /\ Len(x) = Len(path) /\ DOMAIN x = DOMAIN path
             /\ \A i \in DOMAIN path :
                  x[i] = Coded(args, path[i][1]) \o Tail(path[i])
<1> DEFINE S == Signs(path)
<1>1. PICK x : x = Sent(path, args)
  OBVIOUS
<1>2. PICK n : n = Len(path)
  OBVIOUS
<1>3. /\ n \in Nat /\ n # 0 /\ DOMAIN path = 1 .. n
      /\ \A i \in 1 .. n : SegmentOk(path[i])
  BY <1>2 DEF PathOk
<1>4. x = [i \in 1 .. n |-> Spelled(args, path[i])]
  BY <1>1, <1>3 DEF Sent
<1>5. "/" \in S /\ ":" \in S
  BY DEF Signs
<1> HIDE DEF S
<1>6. ASSUME NEW i \in 1 .. n
      PROVE  /\ x[i] \in Seq(S)
             /\ x[i] = Coded(args, path[i][1]) \o Tail(path[i])
             /\ \A j \in 1 .. Len(x[i]) : x[i][j] # "/"
  <2>1. PICK s : s = path[i]
    OBVIOUS
  <2>2. PICK y : y = Coded(args, s[1])
    OBVIOUS
  <2>3. SegmentOk(s) /\ i \in DOMAIN path
    BY <1>3, <2>1
  <2>4. y \in Seq(S) /\ \A k \in 1 .. Len(y) : y[k] \notin {"/", ":"}
    BY <2>1, <2>2, <2>3, CodedIs DEF S
  <2>5. s[3] \in S
    BY <2>1, <2>3, WordsAreSigns DEF S
  <2>6. Coded(args, s[1]) \in Seq(S)
    BY <2>2, <2>4
  <2>7. /\ Spelled(args, s) = Coded(args, s[1]) \o Tail(s)
        /\ Spelled(args, s) \in Seq(S) /\ Tail(s) \in Seq(S)
    BY <1>5, <2>3, <2>5, <2>6, SpelledIs
  <2>8. PICK t : t = Tail(s)
    OBVIOUS
  <2>9. t \in Seq(S)
    BY <2>7, <2>8
  <2>10. /\ Len(y \o t) = Len(y) + Len(t)
         /\ \A k \in 1 .. Len(y) + Len(t) : (y \o t)[k] =
              IF k <= Len(y) THEN y[k] ELSE t[k - Len(y)]
    BY <2>4, <2>9, ConcatProperties
  <2>11. \A k \in 1 .. Len(t) : t[k] # "/"
    <3>1. CASE Tail(s) = << >>
      <4>1. Len(<< >>) = 0
        OBVIOUS
      <4>2. Len(t) = 0
        BY <2>8, <3>1, <4>1
      <4>3. 1 .. Len(t) = {}
        BY <4>2
      <4> QED BY <4>3
    <3>2. CASE s[3] \notin Marks \cup PathArguments /\ Tail(s) = <<":", s[3]>>
      <4>1. PICK v : v = s[3]
        OBVIOUS
      <4>2. t = <<":", v>> /\ v # "/"
        BY <2>8, <3>2, <4>1 DEF Marks
      <4>3. Len(t) = 2 /\ t[1] = ":" /\ t[2] = v
        BY <4>2
      <4> QED BY <4>2, <4>3
    <3> QED BY <2>3, <3>1, <3>2, TailOf
  <2>12. ASSUME NEW k \in 1 .. Len(y \o t) PROVE (y \o t)[k] # "/"
    <3>1. Len(y) \in Nat /\ Len(t) \in Nat /\ k \in 1 .. Len(y) + Len(t)
      BY <2>4, <2>9, <2>10
    <3>2. CASE k <= Len(y)
      BY <2>4, <2>10, <3>1, <3>2
    <3>3. CASE k > Len(y)
      <4>1. k - Len(y) \in 1 .. Len(t)
        BY <3>1, <3>3
      <4> QED BY <2>10, <2>11, <3>1, <3>3, <4>1
    <3> QED BY <3>1, <3>2, <3>3
  <2>13. x[i] = Spelled(args, s)
    BY <1>4, <2>1
  <2>14. x[i] = y \o t
    BY <2>2, <2>7, <2>8, <2>13
  <2> QED BY <2>1, <2>2, <2>7, <2>8, <2>12, <2>13, <2>14
<1>7. x \in [1 .. n -> Seq(S)]
  BY <1>4, <1>6
<1>8. x \in Seq(Seq(S)) /\ Len(x) = n
  BY <1>3, <1>7, IsSeq
<1>9. Len(x) # 0
  BY <1>3, <1>8
<1>10. \A i \in 1 .. Len(x) : \A j \in 1 .. Len(x[i]) : x[i][j] # "/"
  BY <1>6, <1>8
<1>11. Segments(Joined(x)) = x
  BY <1>5, <1>8, <1>9, <1>10, CutIsJoined
<1>12. BuildUrl(path, args) = Joined(x)
  BY <1>1, UrlIsJoined
<1>13. DOMAIN x = 1 .. n
  BY <1>4
<1> QED BY <1>1, <1>2, <1>3, <1>6, <1>8, <1>11, <1>12, <1>13

\* What a segment is made of, seen from its template.
LEMMA OwnValue ==
  ASSUME NEW S, NEW y \in Seq(S), NEW s, SegmentOk(s), Tail(s) \in Seq(S)
  PROVE  BeforeVerb(s, y \o Tail(s)) = y
<1>1. PICK t : t = Tail(s)
  OBVIOUS
<1>2. PICK w : w = y \o t
  OBVIOUS
<1>3. t \in Seq(S) /\ Len(t) = Len(s) - 1 /\ Len(s) \in Nat
  <2>1. CASE Len(s) = 1 /\ Tail(s) = << >>
    BY <1>1, <2>1
  <2>2. CASE Len(s) = 3 /\ Tail(s) = <<":", s[3]>>
    <3>1. \A v : Len(<<":", v>>) = 2
      OBVIOUS
    <3> QED BY <1>1, <2>2, <3>1
  <2> QED BY <1>1, <2>1, <2>2, TailOf
<1>4. /\ y \o t \in Seq(S) /\ Len(y \o t) = Len(y) + Len(t)
      /\ \A k \in 1 .. Len(y) + Len(t) : (y \o t)[k] =
           IF k <= Len(y) THEN y[k] ELSE t[k - Len(y)]
  BY <1>3, ConcatProperties
<1>5. PICK l : l = Len(y)
  OBVIOUS
<1>6. l \in Nat /\ Len(w) - Len(s) + 1 = l
  BY <1>2, <1>3, <1>4, <1>5
<1>7. \A k \in 1 .. l : w[k] = y[k] /\ y[k] \in S
  BY <1>2, <1>3, <1>4, <1>5
<1>8. PICK b : b = SubSeq(w, 1, l)
  OBVIOUS
<1>9. /\ SubSeq(w, 1, l) \in Seq(S)
      /\ Len(SubSeq(w, 1, l)) = IF 1 <= l THEN l - 1 + 1 ELSE 0
      /\ \A k \in 1 .. l - 1 + 1 : SubSeq(w, 1, l)[k] = w[1 + k - 1]
  <2>1. 1 \in Int /\ l \in Int /\ \A k \in 1 .. l : w[k] \in S
    BY <1>6, <1>7
  <2> QED BY <2>1, SubSeqProperties
<1>10. b \in Seq(S) /\ Len(b) = Len(y)
  BY <1>5, <1>6, <1>8, <1>9
<1>11. \A k \in 1 .. Len(b) : b[k] = y[k]
  BY <1>5, <1>6, <1>7, <1>8, <1>9, <1>10
<1>12. b = y
  BY <1>10, <1>11, SeqEqual
<1> QED BY <1>1, <1>2, <1>6, <1>8, <1>12 DEF BeforeVerb

\* A verb with the colon before it.
LEMMA ColonAndVerb ==
  ASSUME NEW p, NEW v, p = <<":", v>>
  PROVE  Len(p) = 2 /\ p[1] = ":" /\ p[2] = v
OBVIOUS

\* The part before the verb of a template, and what is cut off.
LEMMA PartBefore ==
  ASSUME NEW S, NEW w \in Seq(S), NEW t, NEW k \in Nat, Len(t) = k + 1,
         k <= Len(w)
  PROVE  BeforeVerb(t, w) \in Seq(S) /\ Len(BeforeVerb(t, w)) = Len(w) - k
<1>1. PICK m : m = Len(w)
  OBVIOUS
<1>2. PICK l : l = m - k
  OBVIOUS
<1>3. m \in Nat /\ l \in Nat /\ m - (k + 1) + 1 = l /\ l <= m
  BY <1>1, <1>2
<1>4. BeforeVerb(t, w) = SubSeq(w, 1, l)
  BY <1>1, <1>3 DEF BeforeVerb
<1>5. \A j \in 1 .. l : w[j] \in S
  <2>1. \A j \in 1 .. l : j \in 1 .. Len(w)
    BY <1>1, <1>3
  <2> QED BY <2>1, ElementOfSeq
<1>6. 1 \in Int /\ l \in Int
  BY <1>3
<1>7. /\ SubSeq(w, 1, l) \in Seq(S)
      /\ Len(SubSeq(w, 1, l)) = IF 1 <= l THEN l - 1 + 1 ELSE 0
  BY <1>5, <1>6, SubSeqProperties
<1>8. (IF 1 <= l THEN l - 1 + 1 ELSE 0) = l
  BY <1>3
<1> QED BY <1>1, <1>2, <1>4, <1>7, <1>8

\* A template that fits a segment has the verb of the segment's template.
LEMMA FittingIsSame ==
  ASSUME NEW S, NEW y \in Seq(S), \A k \in 1 .. Len(y) : y[k] # ":",
         NEW s, SegmentOk(s), Tail(s) \in Seq(S), ":" \in S,
         NEW t, SegmentOk(t), SegmentFits(t, y \o Tail(s))
  PROVE  /\ Len(t) = Len(s) /\ (Len(s) = 3 => t[3] = s[3])
         /\ t[1] \in PathArguments \/ y = <<t[1]>>
<1>1. PICK w : w = y \o Tail(s)
  OBVIOUS
<1>2. PICK u : u = Tail(s)
  OBVIOUS
<1>3. PICK b : b = BeforeVerb(t, w)
  OBVIOUS
<1>4. PICK v : v = Tail(t)
  OBVIOUS
<1>5. PICK c : c = t[3]
  OBVIOUS
<1>6. PICK d : d = s[3]
  OBVIOUS
<1>7. PICK ls : ls = Len(s)
  OBVIOUS
<1>8. PICK lt : lt = Len(t)
  OBVIOUS
<1>9. PICK l : l = Len(y)
  OBVIOUS
<1>10. PICK m : m = Len(w)
  OBVIOUS
<1>11. /\ w = b \o v /\ m >= lt - 1
       /\ IF t[1] \in PathArguments THEN ":" \notin ToSet(b) ELSE b = <<t[1]>>
  BY <1>1, <1>3, <1>4, <1>8, <1>10 DEF SegmentFits
<1>12. u \in Seq(S) /\ w = y \o u
  BY <1>1, <1>2
<1>13. /\ y \o u \in Seq(S) /\ Len(y \o u) = Len(y) + Len(u)
       /\ \A k \in 1 .. Len(y) + Len(u) : (y \o u)[k] =
            IF k <= Len(y) THEN y[k] ELSE u[k - Len(y)]
  BY <1>12, ConcatProperties
<1>14. PICK lu : lu = Len(u)
  OBVIOUS
<1>15. /\ l \in Nat /\ m \in Nat /\ lu \in Nat /\ m = l + lu /\ w \in Seq(S)
       /\ \A k \in 1 .. m : w[k] = IF k <= l THEN y[k] ELSE u[k - l]
  BY <1>9, <1>10, <1>12, <1>13, <1>14
<1>16. \A k \in 1 .. l : w[k] # ":"
  BY <1>9, <1>15
<1>17. DOMAIN w = 1 .. m
  <2>1. w \in Seq(S)
    BY <1>15
  <2>2. DOMAIN w = 1 .. Len(w)
    BY <2>1
  <2> QED BY <1>10, <2>2
<1>18. \/ ls = 1 /\ u = << >> /\ lu = 0
       \/ ls = 3 /\ lu = 2 /\ u[1] = ":" /\ u[2] = d
  <2>1. Len(<< >>) = 0
    OBVIOUS
  <2>2. CASE ls = 1 /\ u = << >>
    BY <1>14, <2>1, <2>2
  <2>3. CASE ls = 3 /\ u = <<":", d>>
    BY <1>14, <2>3, ColonAndVerb
  <2>4. (ls = 1 /\ u = << >>) \/ (ls = 3 /\ u = <<":", d>>)
    BY <1>2, <1>6, <1>7, TailOf
  <2> QED BY <2>2, <2>3, <2>4
<1>19. \/ lt = 1 /\ v = << >>
       \/ lt = 3 /\ v = <<":", c>>
  <2>1. \/ Len(t) = 1 /\ Tail(t) = << >>
        \/ Len(t) = 3 /\ Tail(t) = <<":", t[3]>>
    BY TailOf
  <2> QED BY <1>4, <1>5, <1>8, <2>1
<1>20. CASE lt = 1
  <2>1. BeforeVerb(t, w) = SubSeq(w, 1, m - 1 + 1) /\ m - 1 + 1 = m
    BY <1>8, <1>10, <1>15, <1>20 DEF BeforeVerb
  <2>2. SubSeq(w, 1, Len(w)) = w
    BY <1>15, SubSeqFull
  <2>3. b = w
    BY <1>3, <1>10, <2>1, <2>2
  <2>4. CASE ls = 1
    <3>1. u = << >>
      BY <1>18, <2>4
    <3>2. y \o << >> = y
      BY ConcatEmptySeq
    <3>3. b = y
      BY <1>12, <2>3, <3>1, <3>2
    <3> QED BY <1>7, <1>8, <1>11, <1>20, <2>4, <3>3
  <2>5. CASE ls = 3
    <3>1. lu = 2 /\ u[1] = ":"
      BY <1>18, <2>5
    <3>2. l + 1 \in 1 .. m /\ ~(l + 1 <= l) /\ (l + 1) - l = 1
      BY <1>15, <3>1
    <3>3. w[l + 1] = ":"
      BY <1>15, <3>1, <3>2
    <3>4. ":" \in ToSet(b)
      BY <1>17, <2>3, <3>2, <3>3 DEF ToSet
    <3>5. b # <<t[1]>>
      <4>1. \A z : Len(<<z>>) = 1
        OBVIOUS
      <4>2. m # 1
        BY <1>15, <3>1
      <4> QED BY <1>10, <2>3, <4>1, <4>2
    <3> QED BY <1>11, <3>4, <3>5
  <2> QED BY <1>18, <2>4, <2>5
<1>21. CASE lt = 3
  <2>1. Len(v) = 2 /\ v[1] = ":" /\ v[2] = c
    BY <1>19, <1>21, ColonAndVerb
  <2>2. m >= 2
    BY <1>11, <1>21
  <2>3. b \in Seq(S) /\ Len(b) = m - 2
    <3>1. 2 \in Nat /\ Len(t) = 2 + 1 /\ 2 <= Len(w)
      BY <1>8, <1>10, <1>21, <2>2
    <3> QED BY <1>3, <1>10, <1>15, <3>1, PartBefore, ZenonT(30)
  <2>4. PICK S2 : S2 = S \cup {c}
    OBVIOUS
  <2>5. b \in Seq(S2) /\ v \in Seq(S2)
    <3>1. S \subseteq S2 /\ ":" \in S2 /\ c \in S2
      BY <2>4
    <3>2. b \in Seq(S2)
      BY <2>3, <3>1, SeqMonotonic
    <3>3. <<":", c>> \in Seq(S2)
      BY <3>1
    <3>4. v = <<":", c>>
      BY <1>19, <1>21
    <3> QED BY <3>2, <3>3, <3>4, Zenon
  <2>6. /\ Len(b \o v) = Len(b) + Len(v)
        /\ \A k \in 1 .. Len(b) + Len(v) : (b \o v)[k] =
             IF k <= Len(b) THEN b[k] ELSE v[k - Len(b)]
    BY <2>5, ConcatProperties
  <2>7. \A k \in 1 .. m : w[k] = IF k <= m - 2 THEN b[k] ELSE v[k - (m - 2)]
    BY <1>11, <1>15, <2>1, <2>2, <2>3, <2>6
  <2>8. w[m - 1] = ":" /\ w[m] = c
    <3>1. /\ m - 1 \in 1 .. m /\ ~(m - 1 <= m - 2) /\ (m - 1) - (m - 2) = 1
          /\ m \in 1 .. m /\ ~(m <= m - 2) /\ m - (m - 2) = 2
      BY <1>15, <2>2
    <3> QED BY <2>1, <2>7, <3>1
  <2>9. CASE ls = 1
    <3>1. m - 1 \in 1 .. l
      BY <1>15, <1>18, <2>2, <2>9
    <3> QED BY <1>16, <2>8, <3>1
  <2>10. CASE ls = 3
    <3>1. lu = 2 /\ u[2] = d /\ l + 2 = m /\ m - 2 = l
      BY <1>15, <1>18, <2>10
    <3>2. w[m] = d
      <4>1. m \in 1 .. m /\ ~(m <= l) /\ m - l = 2
        BY <1>15, <3>1
      <4> QED BY <1>15, <3>1, <4>1
    <3>3. b = y
      <4>1. Len(b) = Len(y) /\ Len(b) = l
        BY <1>9, <2>3, <3>1
      <4>2. ASSUME NEW k \in 1 .. l PROVE b[k] = y[k]
        <5>1. k \in 1 .. m /\ k <= l /\ k <= m - 2
          BY <1>15, <3>1
        <5>2. w[k] = y[k]
          BY <1>15, <5>1
        <5>3. w[k] = b[k]
          BY <2>7, <5>1
        <5> QED BY <5>2, <5>3
      <4> QED BY <2>3, <4>1, <4>2, SeqEqual
    <3> QED BY <1>5, <1>6, <1>7, <1>8, <1>11, <1>21, <2>8, <2>10, <3>2, <3>3
  <2> QED BY <1>18, <2>9, <2>10
<1> QED BY <1>19, <1>20, <1>21

\* Two words of templates between which a segment may not decide.
Alike(v, w) ==
  \/ v = w
  \/ (v \in PathArguments \/ w \in PathArguments) /\ v # "none" /\ w # "none"

\* Operations of the same method and verb, with words that are alike.
Close(c, d) ==
  /\ MethodOf(c) = MethodOf(d) /\ VerbOf(c) = VerbOf(d)
  /\ Alike(First(c), First(d)) /\ Alike(Second(c), Second(d))
  /\ Alike(Third(c), Third(d)) /\ Alike(Fourth(c), Fourth(d))
  /\ Alike(Fifth(c), Fifth(d)) /\ Alike(Sixth(c), Sixth(d))

\* An operation that fits the request of another is close to it.
LEMMA FittingIsClose ==
  ASSUME NEW c, Sound(c), NEW d, Sound(d),
         NEW args, ValuesAreCharacters(c.path, args),
         Fits(d, c.method, Segments(BuildUrl(c.path, args)))
  PROVE  Close(c, d)
<1>1. PICK x : x = Segments(BuildUrl(c.path, args))
  OBVIOUS
<1>2. PICK p : p = c.path
  OBVIOUS
<1>3. PICK q : q = d.path
  OBVIOUS
<1>4. PICK n : n = Len(p)
  OBVIOUS
<1>5. PathOk(p) /\ PathOk(q)
  BY <1>2, <1>3 DEF Sound
<1>6. /\ Len(x) = Len(p) /\ DOMAIN x = DOMAIN p
      /\ \A i \in DOMAIN p : x[i] = Coded(args, p[i][1]) \o Tail(p[i])
  <2>1. LET z == Sent(p, args)
        IN  /\ Segments(BuildUrl(p, args)) = z
            /\ Len(z) = Len(p) /\ DOMAIN z = DOMAIN p
            /\ \A i \in DOMAIN p : z[i] = Coded(args, p[i][1]) \o Tail(p[i])
    BY <1>2, <1>5, SentIs
  <2> QED BY <1>1, <1>2, <2>1
<1>7. /\ d.method = c.method /\ Len(q) = n
      /\ \A i \in DOMAIN p : SegmentFits(q[i], x[i])
  BY <1>1, <1>3, <1>4, <1>6 DEF Fits
<1>8. /\ n \in Nat /\ n # 0 /\ DOMAIN p = 1 .. n /\ DOMAIN q = 1 .. n
      /\ \A i \in 1 .. n : SegmentOk(p[i]) /\ SegmentOk(q[i])
  BY <1>4, <1>5, <1>7 DEF PathOk
<1>9. ASSUME NEW i \in 1 .. n
      PROVE  /\ Alike(p[i][1], q[i][1])
             /\ Len(p[i]) = Len(q[i]) /\ (Len(p[i]) = 3 => q[i][3] = p[i][3])
  <2> DEFINE S == Signs(p)
  <2>1. PICK s : s = p[i]
    OBVIOUS
  <2>2. PICK t : t = q[i]
    OBVIOUS
  <2>3. PICK y : y = Coded(args, s[1])
    OBVIOUS
  <2>4. SegmentOk(s) /\ SegmentOk(t) /\ i \in DOMAIN p
    BY <1>8, <2>1, <2>2
  <2>5. y \in Seq(S) /\ \A k \in 1 .. Len(y) : y[k] \notin {"/", ":"}
    BY <1>2, <1>5, <2>1, <2>3, <2>4, CodedIs DEF S
  <2>6. ":" \in S /\ s[3] \in S
    BY <2>1, <2>4, WordsAreSigns DEF S, Signs
  <2> HIDE DEF S
  <2>7. Coded(args, s[1]) \in Seq(S)
    BY <2>3, <2>5
  <2>8. Tail(s) \in Seq(S)
    BY <2>4, <2>6, <2>7, SpelledIs
  <2>9. SegmentFits(t, y \o Tail(s))
    BY <1>6, <1>7, <2>1, <2>2, <2>3, <2>4
  <2>10. \A k \in 1 .. Len(y) : y[k] # ":"
    BY <2>5
  <2>11. /\ Len(t) = Len(s) /\ (Len(s) = 3 => t[3] = s[3])
         /\ t[1] \in PathArguments \/ y = <<t[1]>>
    BY <2>4, <2>5, <2>6, <2>8, <2>9, <2>10, FittingIsSame
  <2>12. Alike(s[1], t[1])
    <3>1. s[1] # "none" /\ t[1] # "none"
      BY <2>4 DEF SegmentOk, Marks
    <3>2. CASE s[1] \notin PathArguments /\ y = <<t[1]>>
      <4>1. <<s[1]>> = <<t[1]>>
        BY <2>3, <3>2 DEF Coded
      <4>2. \A v, w : <<v>> = <<w>> => v = w
        OBVIOUS
      <4>3. s[1] = t[1]
        BY <4>1, <4>2
      <4> QED BY <4>3 DEF Alike
    <3> QED BY <2>11, <3>1, <3>2 DEF Alike
  <2> QED BY <2>1, <2>2, <2>11, <2>12
<1>10. ASSUME NEW k \in Nat, k # 0
       PROVE  Alike(IF k <= n THEN p[k][1] ELSE "none",
                    IF k <= n THEN q[k][1] ELSE "none")
  <2>1. CASE k <= n
    <3>1. k \in 1 .. n
      BY <1>8, <1>10, <2>1
    <3> QED BY <1>9, <2>1, <3>1
  <2>2. CASE ~(k <= n)
    BY <2>2 DEF Alike
  <2> QED BY <2>1, <2>2
<1>11. /\ Alike(First(c), First(d)) /\ Alike(Second(c), Second(d))
       /\ Alike(Third(c), Third(d))
  BY <1>2, <1>3, <1>4, <1>7, <1>10 DEF First, Second, Third, Word
<1>12. /\ Alike(Fourth(c), Fourth(d)) /\ Alike(Fifth(c), Fifth(d))
       /\ Alike(Sixth(c), Sixth(d))
  BY <1>2, <1>3, <1>4, <1>7, <1>10 DEF Fourth, Fifth, Sixth, Word
<1>13. VerbOf(c) = VerbOf(d)
  <2>1. PICK s : s = p[n]
    OBVIOUS
  <2>2. PICK t : t = q[n]
    OBVIOUS
  <2>3. n \in 1 .. n
    BY <1>8
  <2>4. Len(s) = Len(t) /\ (Len(s) = 3 => t[3] = s[3])
    BY <1>9, <2>1, <2>2, <2>3
  <2>5. /\ VerbOf(c) = IF Len(s) = 3 THEN s[3] ELSE "none"
        /\ VerbOf(d) = IF Len(t) = 3 THEN t[3] ELSE "none"
    BY <1>2, <1>3, <1>4, <1>7, <2>1, <2>2 DEF VerbOf
  <2> QED BY <2>4, <2>5
<1>14. MethodOf(c) = MethodOf(d)
  BY <1>7 DEF MethodOf
<1> QED BY <1>11, <1>12, <1>13, <1>14 DEF Close

-----------------------------------------------------------------------------
(***************************************************************************)
(* No two operations are close, except the record of a user and that of    *)
(* the user who asks.                                                      *)
(***************************************************************************)

\* Where the operations of an API are, which no placeholder hides.
Area(op) ==
  IF First(op) = "projects"
       /\ Third(op) \in {"extensions", "files", "jobs", "json", "services"}
  THEN Third(op) ELSE First(op)

Placed(op, area) ==
  /\ Sound(op) /\ Area(op) = area
  /\ First(op) \notin PathArguments /\ Third(op) \notin PathArguments

\* The operations of AuthApi are apart.
LEMMA AuthApiApart ==
  /\ \A n \in DOMAIN AuthApi : Placed(AuthApi[n], "auth")
  /\ \A n, m \in DOMAIN AuthApi :
       Close(AuthApi[n], AuthApi[m]) =>
         AuthApi[n] = AuthApi[m]
<1> DEFINE A ==
           {createToken, deleteResourcePermissions,
            getResourcesWithPermission, introspectToken, listApiTokens,
            listResourcePermissions, loginCallback, loginUserSession,
            logoutUserSession, oauthEnabled, openLoginPage, requestToken,
            revokeToken, setResourcePermissions, verifyAccess}
<1>1. ASSUME NEW x \in A PROVE Placed(x, "auth")
  BY AuthApiRequests DEF A, Of2, Of3, Traits, Placed, Area, PathArguments
<1>2. ASSUME NEW x \in A, NEW y \in A, Close(x, y) PROVE x = y
  BY <1>2, AuthApiRequests DEF A, Of2, Of3, Traits, Close, Alike,
     PathArguments
<1>3. \A n \in DOMAIN AuthApi : AuthApi[n] \in A
  BY DEF AuthApi, A
<1> HIDE DEF A
<1> QED BY <1>1, <1>2, <1>3

\* The operations of ExtensionsApi are apart.
LEMMA ExtensionsApiApart ==
  /\ \A n \in DOMAIN ExtensionsApi : Placed(ExtensionsApi[n], "extensions")
  /\ \A n, m \in DOMAIN ExtensionsApi :
       Close(ExtensionsApi[n], ExtensionsApi[m]) =>
         ExtensionsApi[n] = ExtensionsApi[m]
<1> DEFINE A ==
           {deleteExtension, getExtensionMetadata, installExtension,
            listExtensions, suggestExtensionConfig}
<1>1. ASSUME NEW x \in A PROVE Placed(x, "extensions")
  BY ExtensionsApiRequests DEF A, Of3, Of4, With3, Traits, Placed, Area,
     PathArguments
<1>2. ASSUME NEW x \in A, NEW y \in A, Close(x, y) PROVE x = y
  BY <1>2, ExtensionsApiRequests DEF A, Of3, Of4, With3, Traits, Close, Alike,
     PathArguments
<1>3. \A n \in DOMAIN ExtensionsApi : ExtensionsApi[n] \in A
  BY DEF ExtensionsApi, A
<1> HIDE DEF A
<1> QED BY <1>1, <1>2, <1>3

\* The operations of FilesApi are apart.
LEMMA FilesApiApart ==
  /\ \A n \in DOMAIN FilesApi : Placed(FilesApi[n], "files")
  /\ \A n, m \in DOMAIN FilesApi :
       Close(FilesApi[n], FilesApi[m]) =>
         FilesApi[n] = FilesApi[m]
<1> DEFINE A ==
           {deleteFile, deleteFiles, downloadFile, executeFileAction,
            getFileMetadata, listFileActions, listFiles, updateFileMetadata,
            uploadFile}
<1>1. ASSUME NEW x \in A PROVE Placed(x, "files")
  BY FilesApiRequests DEF A, Of3, Of4, Of5, Of6, With4, Traits, Placed, Area,
     PathArguments
<1>2. ASSUME NEW x \in A, NEW y \in A, Close(x, y) PROVE x = y
  BY <1>2, FilesApiRequests DEF A, Of3, Of4, Of5, Of6, With4, Traits, Close,
     Alike, PathArguments
<1>3. \A n \in DOMAIN FilesApi : FilesApi[n] \in A
  BY DEF FilesApi, A
<1> HIDE DEF A
<1> QED BY <1>1, <1>2, <1>3

\* The operations of JobsApi are apart.
LEMMA JobsApiApart ==
  /\ \A n \in DOMAIN JobsApi : Placed(JobsApi[n], "jobs")
  /\ \A n, m \in DOMAIN JobsApi :
       Close(JobsApi[n], JobsApi[m]) =>
         JobsApi[n] = JobsApi[m]
<1> DEFINE A ==
           {deleteJob, deleteJobs, deployJob, executeJobAction, getJobLogs,
            getJobMetadata, listDeployJobActions, listJobActions, listJobs,
            suggestJobConfig}
<1>1. ASSUME NEW x \in A PROVE Placed(x, "jobs")
  BY JobsApiRequests DEF A, Of3, Of4, Of5, Of6, With3, Traits, Placed, Area,
     PathArguments
<1>2. ASSUME NEW x \in A, NEW y \in A, Close(x, y) PROVE x = y
  BY <1>2, JobsApiRequests DEF A, Of3, Of4, Of5, Of6, With3, Traits, Close,
     Alike, PathArguments
<1>3. \A n \in DOMAIN JobsApi : JobsApi[n] \in A
  BY DEF JobsApi, A
<1> HIDE DEF A
<1> QED BY <1>1, <1>2, <1>3

\* The operations of JsonApi are apart.
LEMMA JsonApiApart ==
  /\ \A n \in DOMAIN JsonApi : Placed(JsonApi[n], "json")
  /\ \A n, m \in DOMAIN JsonApi :
       Close(JsonApi[n], JsonApi[m]) =>
         JsonApi[n] = JsonApi[m]
<1> DEFINE A ==
           {createJsonDocument, deleteJsonCollection, deleteJsonCollections,
            deleteJsonDocument, getJsonDocument, listJsonDocuments,
            updateJsonDocument}
<1>1. ASSUME NEW x \in A PROVE Placed(x, "json")
  BY JsonApiRequests DEF A, Of3, Of4, Of5, Traits, Placed, Area, PathArguments
<1>2. ASSUME NEW x \in A, NEW y \in A, Close(x, y) PROVE x = y
  BY <1>2, JsonApiRequests DEF A, Of3, Of4, Of5, Traits, Close, Alike,
     PathArguments
<1>3. \A n \in DOMAIN JsonApi : JsonApi[n] \in A
  BY DEF JsonApi, A
<1> HIDE DEF A
<1> QED BY <1>1, <1>2, <1>3

\* The operations of ProjectsApi are apart.
LEMMA ProjectsApiApart ==
  /\ \A n \in DOMAIN ProjectsApi : Placed(ProjectsApi[n], "projects")
  /\ \A n, m \in DOMAIN ProjectsApi :
       Close(ProjectsApi[n], ProjectsApi[m]) =>
         ProjectsApi[n] = ProjectsApi[m]
<1> DEFINE A ==
           {addProjectMember, createProject, deleteProject, getProject,
            getProjectToken, listProjectMembers, listProjects,
            removeProjectMember, suggestProjectId, updateProject}
<1>1. ASSUME NEW x \in A PROVE Placed(x, "projects")
  BY ProjectsApiRequests DEF A, Of1, Of2, Of3, Of4, With1, Traits, Placed,
     Area, PathArguments
<1>2. ASSUME NEW x \in A, NEW y \in A, Close(x, y) PROVE x = y
  BY <1>2, ProjectsApiRequests DEF A, Of1, Of2, Of3, Of4, With1, Traits,
     Close, Alike, PathArguments
<1>3. \A n \in DOMAIN ProjectsApi : ProjectsApi[n] \in A
  BY DEF ProjectsApi, A, getProjectToken_0
<1> HIDE DEF A
<1> QED BY <1>1, <1>2, <1>3

\* The operations of SeedApi are apart.
LEMMA SeedApiApart ==
  /\ \A n \in DOMAIN SeedApi : Placed(SeedApi[n], "seed")
  /\ \A n, m \in DOMAIN SeedApi :
       Close(SeedApi[n], SeedApi[m]) =>
         SeedApi[n] = SeedApi[m]
<1> DEFINE A ==
           {createSeedDefaultSeedDefaultGet}
<1>1. ASSUME NEW x \in A PROVE Placed(x, "seed")
  BY SeedApiRequests DEF A, Of2, Traits, Placed, Area, PathArguments
<1>2. ASSUME NEW x \in A, NEW y \in A, Close(x, y) PROVE x = y
  BY <1>2, SeedApiRequests DEF A, Of2, Traits, Close, Alike, PathArguments
<1>3. \A n \in DOMAIN SeedApi : SeedApi[n] \in A
  BY DEF SeedApi, A
<1> HIDE DEF A
<1> QED BY <1>1, <1>2, <1>3

\* The operations of ServicesApi are apart.
LEMMA ServicesApiApart ==
  /\ \A n \in DOMAIN ServicesApi : Placed(ServicesApi[n], "services")
  /\ \A n, m \in DOMAIN ServicesApi :
       Close(ServicesApi[n], ServicesApi[m]) =>
         ServicesApi[n] = ServicesApi[m]
<1> DEFINE A ==
           {deleteService, deleteServices, deployService,
            executeServiceAction, getServiceAccessToken, getServiceLogs,
            getServiceMetadata, listDeployServiceActions, listServiceActions,
            listServices, suggestServiceConfig, updateService,
            updateServiceAccess}
<1>1. ASSUME NEW x \in A PROVE Placed(x, "services")
  BY ServicesApiRequests DEF A, Of3, Of4, Of5, Of6, With3, With4, Traits,
     Placed, Area, PathArguments
<1>2. ASSUME NEW x \in A, NEW y \in A, Close(x, y) PROVE x = y
  BY <1>2, ServicesApiRequests DEF A, Of3, Of4, Of5, Of6, With3, With4,
     Traits, Close, Alike, PathArguments
<1>3. \A n \in DOMAIN ServicesApi : ServicesApi[n] \in A
  BY DEF ServicesApi, A, getServiceAccessToken_0
<1> HIDE DEF A
<1> QED BY <1>1, <1>2, <1>3

\* The operations of SystemApi are apart.
LEMMA SystemApiApart ==
  /\ \A n \in DOMAIN SystemApi : Placed(SystemApi[n], "system")
  /\ \A n, m \in DOMAIN SystemApi :
       Close(SystemApi[n], SystemApi[m]) =>
         SystemApi[n] = SystemApi[m]
<1> DEFINE A ==
           {addAllowedImage, checkHealthSystemHealthGet, deleteAllowedImage,
            getSystemInfo, getSystemStatistics, initializeSystem,
            listAllowedImages, registerAdminUserSystemAdminPost}
<1>1. ASSUME NEW x \in A PROVE Placed(x, "system")
  BY SystemApiRequests DEF A, Of2, Traits, Placed, Area, PathArguments
<1>2. ASSUME NEW x \in A, NEW y \in A, Close(x, y) PROVE x = y
  BY <1>2, SystemApiRequests DEF A, Of2, Traits, Close, Alike, PathArguments
<1>3. \A n \in DOMAIN SystemApi : SystemApi[n] \in A
  BY DEF SystemApi, A
<1> HIDE DEF A
<1> QED BY <1>1, <1>2, <1>3

\* The operations of UsersApi are apart.
LEMMA UsersApiApart ==
  /\ \A n \in DOMAIN UsersApi : Placed(UsersApi[n], "users")
  /\ \A n, m \in DOMAIN UsersApi :
       Close(UsersApi[n], UsersApi[m]) =>
         \/ UsersApi[n] = UsersApi[m] \/ {n, m} \subseteq MyUser
<1> DEFINE A ==
           {changePassword, createUser, deleteUser, getMyUser, getUser,
            getUserToken, listUsers, updateUser}
<1>1. ASSUME NEW x \in A PROVE Placed(x, "users")
  BY UsersApiRequests DEF A, Of1, Of2, Of3, With2, Traits, Placed, Area,
     PathArguments
<1>2. ASSUME NEW x \in A, NEW y \in A, Close(x, y)
      PROVE  x = y \/ {x, y} \subseteq {getUser, getMyUser}
  BY <1>2, UsersApiRequests DEF A, Of1, Of2, Of3, With2, Traits, Close, Alike,
     PathArguments
<1>3. \A n \in DOMAIN UsersApi :
        /\ UsersApi[n] \in A
        /\ UsersApi[n] \in {getUser, getMyUser} => n \in MyUser
  <2> DEFINE Others ==
              {changePassword, createUser, deleteUser, getUserToken,
               listUsers, updateUser}
  <2>1. /\ \A x \in Others : ~(/\ MethodOf(x) = "GET" /\ Third(x) = "none"
                                /\ Second(x) # "none")
        /\ \A x \in {getUser, getMyUser} : /\ MethodOf(x) = "GET"
                                            /\ Third(x) = "none"
                                            /\ Second(x) # "none"
    BY UsersApiRequests DEF Others, Of1, Of2, Of3, With2, Traits
  <2>2. \A n \in DOMAIN UsersApi :
          /\ UsersApi[n] \in Others \/ n \in MyUser
          /\ UsersApi[n] \in A
    BY DEF UsersApi, A, Others, MyUser, changePassword_0, createUser_0,
       deleteUser_0, getMyUser_0, getUserToken_0, getUser_0, listUsers_0,
       updateUser_0
  <2> HIDE DEF A, Others
  <2> QED BY <2>1, <2>2
<1> HIDE DEF A
<1> QED BY <1>1, <1>2, <1>3

\* No other operation is loginUserSession.
LEMMA LoginIsAlone ==
  \A n \in DOMAIN AuthApi :
    AuthApi[n] = loginUserSession => n = "loginUserSession"
<1> DEFINE Others ==
            {createToken, deleteResourcePermissions,
             getResourcesWithPermission, introspectToken, listApiTokens,
             listResourcePermissions, loginCallback, logoutUserSession,
             oauthEnabled, openLoginPage, requestToken, revokeToken,
             setResourcePermissions, verifyAccess}
<1>1. /\ \A x \in Others : Second(x) # "login"
      /\ Second(loginUserSession) = "login"
  BY AuthApiRequests DEF Others, Of2, Of3, Traits
<1>2. \A n \in DOMAIN AuthApi :
        AuthApi[n] \in Others \/ n = "loginUserSession"
  BY DEF AuthApi, Others
<1> HIDE DEF Others
<1> QED BY <1>1, <1>2

InArea(api, area) == \A n \in DOMAIN api : Placed(api[n], area)

\* Operations that are close are in the same area.
LEMMA CloseInArea ==
  ASSUME NEW c, NEW d, NEW area, NEW other, Placed(c, area),
         Placed(d, other), Close(c, d)
  PROVE  area = other
BY DEF Placed, Close, Alike, Area

\* No two of the ninety-six operations are close, but the records of users.
LEMMA OperationsApart ==
  \A n, m \in DOMAIN Operations :
    /\ Sound(Operations[n])
    /\ Operations[n] = loginUserSession => n = "loginUserSession"
    /\ Close(Operations[n], Operations[m]) =>
         Operations[n] = Operations[m] \/ {n, m} \subseteq MyUser
<1> SUFFICES ASSUME NEW n \in DOMAIN Operations, NEW m \in DOMAIN Operations
             PROVE  /\ Sound(Operations[n])
                    /\ Operations[n] = loginUserSession =>
                         n = "loginUserSession"
                    /\ Close(Operations[n], Operations[m]) =>
                         \/ Operations[n] = Operations[m]
                         \/ {n, m} \subseteq MyUser
  OBVIOUS
<1> DEFINE Home(x) == CHOOSE a \in Apis : x \in DOMAIN a
<1>1. ASSUME NEW x \in DOMAIN Operations
      PROVE  /\ Home(x) \in Apis /\ x \in DOMAIN Home(x)
             /\ Operations[x] = Home(x)[x]
  <2>1. Operations[x] = Home(x)[x] /\ \E a \in Apis : x \in DOMAIN a
    BY DEF Operations
  <2> QED BY <2>1
<1> HIDE DEF Home
<1>2. PICK a : a = Home(n)
  OBVIOUS
<1>3. PICK b : b = Home(m)
  OBVIOUS
<1>4. /\ a \in Apis /\ n \in DOMAIN a /\ Operations[n] = a[n]
      /\ b \in Apis /\ m \in DOMAIN b /\ Operations[m] = b[m]
  BY <1>1, <1>2, <1>3
<1>5. /\ InArea(AuthApi, "auth")
      /\ InArea(ExtensionsApi, "extensions")
      /\ InArea(FilesApi, "files")
      /\ InArea(JobsApi, "jobs")
      /\ InArea(JsonApi, "json")
      /\ InArea(ProjectsApi, "projects")
      /\ InArea(SeedApi, "seed")
      /\ InArea(ServicesApi, "services")
      /\ InArea(SystemApi, "system")
      /\ InArea(UsersApi, "users")
  BY AuthApiApart, ExtensionsApiApart, FilesApiApart, JobsApiApart,
     JsonApiApart, ProjectsApiApart, SeedApiApart, ServicesApiApart,
     SystemApiApart, UsersApiApart DEF InArea
<1>6. \E area : InArea(a, area)
  BY <1>4, <1>5 DEF Apis
<1>7. Sound(Operations[n])
  BY <1>4, <1>6 DEF InArea, Placed
<1>8. ASSUME Operations[n] = loginUserSession PROVE n = "loginUserSession"
  <2>1. Area(loginUserSession) = "auth"
    BY AuthApiRequests DEF Of2, Traits, Area
  <2>2. Area(a[n]) = "auth"
    BY <1>4, <1>8, <2>1
  <2>3. a = AuthApi
    BY <1>4, <1>5, <2>2 DEF Apis, InArea, Placed
  <2> QED BY <1>4, <1>8, <2>3, LoginIsAlone
<1>9. ASSUME Close(Operations[n], Operations[m])
      PROVE  Operations[n] = Operations[m] \/ {n, m} \subseteq MyUser
  <2>1. PICK c : c = a[n]
    OBVIOUS
  <2>2. PICK d : d = b[m]
    OBVIOUS
  <2>3. Close(c, d)
    BY <1>4, <1>9, <2>1, <2>2
  <2>4. \A area, other : Placed(c, area) /\ Placed(d, other) => area = other
    BY <2>3, CloseInArea
  <2>5. \A area, other : InArea(a, area) /\ InArea(b, other) => area = other
    BY <1>4, <2>1, <2>2, <2>4 DEF InArea
  <2>6. a = b
    BY <1>4, <1>5, <2>5 DEF Apis
  <2>7. Close(a[n], a[m])
    BY <2>1, <2>2, <2>3, <2>6
  <2>8. a[n] = a[m] \/ {n, m} \subseteq MyUser
    BY <1>4, <2>6, <2>7,
       AuthApiApart, ExtensionsApiApart, FilesApiApart, JobsApiApart,
       JsonApiApart, ProjectsApiApart, SeedApiApart, ServicesApiApart,
       SystemApiApart, UsersApiApart DEF Apis
  <2> QED BY <1>4, <2>6, <2>8
<1> QED BY <1>7, <1>8, <1>9

-----------------------------------------------------------------------------
(***************************************************************************)
(* What the server reads.                                                  *)
(***************************************************************************)

\* A value of an argument in the path comes out of its segment.
LEMMA ArgumentIsRead ==
  ASSUME NEW path, PathOk(path), NEW args, ValuesAreCharacters(path, args),
         NEW i \in DOMAIN path, path[i][1] \in PathArguments
  PROVE  DecodeURIComponent(
           BeforeVerb(path[i], Segments(BuildUrl(path, args))[i]))
             = args[path[i][1]]
<1> DEFINE S == Signs(path)
<1>1. PICK s : s = path[i]
  OBVIOUS
<1>2. PICK y : y = Coded(args, s[1])
  OBVIOUS
<1>3. Segments(BuildUrl(path, args))[i] = y \o Tail(s)
  <2>1. LET z == Sent(path, args)
        IN  /\ Segments(BuildUrl(path, args)) = z
            /\ Len(z) = Len(path) /\ DOMAIN z = DOMAIN path
            /\ \A j \in DOMAIN path :
                 z[j] = Coded(args, path[j][1]) \o Tail(path[j])
    BY SentIs
  <2> QED BY <1>1, <1>2, <2>1
<1>4. SegmentOk(s)
  BY <1>1 DEF PathOk
<1>5. y \in Seq(S)
  BY <1>1, <1>2, CodedIs DEF S
<1>6. ":" \in S /\ s[3] \in S
  BY <1>1, WordsAreSigns DEF S, Signs
<1> HIDE DEF S
<1>7. Tail(s) \in Seq(S)
  <2>1. Coded(args, s[1]) \in Seq(S)
    BY <1>2, <1>5
  <2> QED BY <1>4, <1>6, <2>1, SpelledIs
<1>8. BeforeVerb(s, y \o Tail(s)) = y
  BY <1>4, <1>5, <1>7, OwnValue
<1>9. Characters(args[s[1]])
  BY <1>1 DEF ValuesAreCharacters
<1>10. y = EncodeURIComponent(args[s[1]])
  BY <1>1, <1>2 DEF Coded
<1>11. DecodeURIComponent(y) = args[s[1]]
  BY <1>9, <1>10, EncodedValueIsWhole
<1> QED BY <1>1, <1>3, <1>8, <1>11

\* What a call is given.
LEMMA GivenArguments ==
  ASSUME NEW op, NEW args \in Given(op)
  PROVE  /\ DOMAIN args \subseteq Arguments(op)
         /\ args = [x \in DOMAIN args |-> args[x]]
         /\ \A x \in op.inPath \cap DOMAIN args : Characters(args[x])
<1>1. PICK set \in SUBSET Arguments(op) :
        args \in {[x \in set |->
                     IF x \in op.inPath THEN values[x] ELSE <<x>>] :
                    values \in [set \cap op.inPath -> Values]}
  BY DEF Given
<1>2. PICK values \in [set \cap op.inPath -> Values] :
        args = [x \in set |-> IF x \in op.inPath THEN values[x] ELSE <<x>>]
  BY <1>1
<1>3. DOMAIN args = set /\ args = [x \in DOMAIN args |-> args[x]]
  BY <1>2
<1>4. ASSUME NEW x \in op.inPath \cap DOMAIN args PROVE Characters(args[x])
  <2>1. args[x] = values[x] /\ values[x] \in Values
    BY <1>2, <1>3
  <2> QED BY <2>1, CallsAssumption
<1> QED BY <1>1, <1>3, <1>4

\* The server finds all arguments of a call in its request.
LEMMA ArgumentsAreRead ==
  ASSUME NEW op, Sound(op), op.method = "GET" => op.body.of = {},
         NEW args \in Given(op), op.required \subseteq DOMAIN args
  PROVE  ArgumentsRead(op, Request(op, args),
                       Segments(BuildUrl(op.path, args))) = args
<1>1. PICK segments : segments = Segments(BuildUrl(op.path, args))
  OBVIOUS
<1>2. /\ DOMAIN args \subseteq Arguments(op)
      /\ args = [x \in DOMAIN args |-> args[x]]
      /\ \A x \in op.inPath \cap DOMAIN args : Characters(args[x])
  BY GivenArguments
<1>3. /\ PathOk(op.path)
      /\ op.inPath = PathArguments \cap {op.path[i][1] : i \in DOMAIN op.path}
      /\ op.inPath \subseteq op.required
      /\ op.required \subseteq op.inPath \cup op.query \cup op.body.of
  BY DEF Sound
<1>4. DOMAIN args \subseteq op.inPath \cup op.query \cup op.body.of
  BY <1>2, <1>3 DEF Arguments
<1>5. ValuesAreCharacters(op.path, args)
  <2>1. ASSUME NEW i \in DOMAIN op.path, op.path[i][1] \in PathArguments
        PROVE  Characters(args[op.path[i][1]])
    <3>1. op.path[i][1] \in op.inPath
      BY <1>3, <2>1
    <3> QED BY <1>2, <1>3, <3>1
  <2> QED BY <2>1 DEF ValuesAreCharacters
<1> DEFINE at(x) == CHOOSE i \in DOMAIN op.path : op.path[i][1] = x
           inPath == [x \in op.inPath |->
                        DecodeURIComponent(
                          BeforeVerb(op.path[at(x)], segments[at(x)]))]
<1>6. ASSUME NEW x \in op.inPath PROVE inPath[x] = args[x]
  <2>1. PICK i : i = at(x)
    OBVIOUS
  <2>2. i \in DOMAIN op.path /\ op.path[i][1] = x /\ x \in PathArguments
    BY <1>3, <2>1
  <2>3. DecodeURIComponent(BeforeVerb(op.path[i], segments[i]))
          = args[op.path[i][1]]
    BY <1>1, <1>3, <1>5, <2>2, ArgumentIsRead
  <2>4. inPath[x] = DecodeURIComponent(BeforeVerb(op.path[i], segments[i]))
    BY <2>1
  <2> QED BY <2>2, <2>3, <2>4
<1>7. DOMAIN inPath = op.inPath
  OBVIOUS
<1>8. PICK f : f = inPath
  OBVIOUS
<1>9. PICK g : g = Request(op, args).query
  OBVIOUS
<1>10. PICK h : h = Request(op, args).body
  OBVIOUS
<1>11. ArgumentsRead(op, Request(op, args), segments) = Merged(Merged(f, g), h)
  BY <1>8, <1>9, <1>10 DEF ArgumentsRead
<1>12. DOMAIN f = op.inPath /\ \A x \in op.inPath : f[x] = args[x]
  BY <1>6, <1>7, <1>8
<1> HIDE DEF inPath, at
<1>13. /\ DOMAIN g = op.query \cap DOMAIN args
       /\ \A x \in DOMAIN g : g[x] = args[x]
  BY <1>9 DEF Request, NormalizeParams
<1>14. /\ DOMAIN h = op.body.of \cap DOMAIN args
       /\ \A x \in DOMAIN h : h[x] = args[x]
  <2>1. h = Body(op, args)
    BY <1>10 DEF Request
  <2>2. CASE op.method = "GET"
    <3>1. h = << >> /\ op.body.of = {}
      BY <2>1, <2>2 DEF Body
    <3>2. DOMAIN << >> = {}
      OBVIOUS
    <3> QED BY <3>1, <3>2
  <2>3. CASE op.method # "GET"
    BY <2>1, <2>3 DEF Body, NormalizeParams
  <2> QED BY <2>2, <2>3
<1>15. PICK k : k = Merged(f, g)
  OBVIOUS
<1>16. /\ DOMAIN k = op.inPath \cup (op.query \cap DOMAIN args)
       /\ \A x \in DOMAIN k : k[x] = args[x]
  BY <1>12, <1>13, <1>15 DEF Merged
<1>17. DOMAIN k \cup DOMAIN h = DOMAIN args
  BY <1>3, <1>4, <1>14, <1>16
<1>18. Merged(k, h) = [x \in DOMAIN args |-> args[x]]
  BY <1>14, <1>16, <1>17 DEF Merged
<1> QED BY <1>1, <1>2, <1>11, <1>15, <1>18

(***************************************************************************)
(* The second inductive invariant: a request under way is the one          *)
(* ApiClient.callApi makes of the call, and all that is required is set.   *)
(***************************************************************************)
Sending ==
  flying = "request" =>
    LET op == Operations[call.name]
    IN  /\ call.name \in DOMAIN Operations /\ call.args \in Given(op)
        /\ op.required \subseteq DOMAIN call.args
        /\ request = Request(op, call.args)

\* Nothing is under way yet.
LEMMA InitSending == Init => Sending
BY DEF Init, Sending

\* Every step keeps it: only a call sends a request.
LEMMA NextSending ==
  Inductive /\ Sending /\ [Next]_vars => Sending'
<1> SUFFICES ASSUME Inductive, Sending, [Next]_vars PROVE Sending'
  OBVIOUS
<1>1. ASSUME NEW name \in DOMAIN Operations,
             NEW args \in Given(Operations[name]), Call(name, args)
      PROVE  Sending'
  <2>1. /\ call'.name = name /\ call'.args = args
    BY <1>1 DEF Call
  <2>2. CASE UNCHANGED flying
    BY <1>1, <2>2 DEF Call, Inductive, Settled, Sending
  <2>3. CASE /\ Operations[name].required \subseteq DOMAIN args
             /\ request' = Request(Operations[name], args)
    BY <1>1, <2>1, <2>3 DEF Sending
  <2> QED BY <1>1, <2>2, <2>3 DEF Call
<1>2. CASE Serve \/ Return \/ Forget
  BY <1>2 DEF Serve, Return, Forget, Sending
<1>3. CASE TimeOut \/ UNCHANGED vars
  BY <1>3 DEF TimeOut, vars, Sending
<1> QED BY <1>1, <1>2, <1>3 DEF Next

\* A request that is that of its call is read as it.
LEMMA SendingIsRead == Sending => ServerReadsTheCall
<1> SUFFICES ASSUME Sending, flying = "request"
             PROVE  LET op == Operations[call.name]
                        segments == Segments(request.url)
                    IN  /\ \A name \in DOMAIN Operations :
                           Fits(Operations[name], request.method, segments) =>
                             \/ Operations[name] = op
                             \/ {name, call.name} \subseteq MyUser
                        /\ \/ ArgumentsRead(op, request, segments) = call.args
                           \/ call.name = "loginUserSession"
  BY DEF ServerReadsTheCall
<1>1. PICK n : n = call.name
  OBVIOUS
<1>2. PICK args : args = call.args
  OBVIOUS
<1>3. PICK op : op = Operations[n]
  OBVIOUS
<1>4. /\ n \in DOMAIN Operations /\ args \in Given(op)
      /\ op.required \subseteq DOMAIN args /\ request = Request(op, args)
  BY <1>1, <1>2, <1>3 DEF Sending
<1>5. request.url = BuildUrl(op.path, args) /\ request.method = op.method
  BY <1>4 DEF Request
<1>6. /\ Sound(op)
      /\ op = loginUserSession => n = "loginUserSession"
      /\ \A name \in DOMAIN Operations : Sound(Operations[name])
  BY <1>3, <1>4, OperationsApart
<1>7. ValuesAreCharacters(op.path, args)
  <2>1. \A x \in op.inPath \cap DOMAIN args : Characters(args[x])
    BY <1>4, GivenArguments
  <2> QED BY <1>4, <1>6, <2>1 DEF Sound, ValuesAreCharacters
<1>8. ASSUME NEW name \in DOMAIN Operations,
             Fits(Operations[name], request.method, Segments(request.url))
      PROVE  Operations[name] = op \/ {name, n} \subseteq MyUser
  <2>1. PICK d : d = Operations[name]
    OBVIOUS
  <2>2. Fits(d, op.method, Segments(BuildUrl(op.path, args)))
    BY <1>5, <1>8, <2>1
  <2>3. Sound(d)
    BY <1>6, <2>1
  <2>4. Close(op, d)
    BY <1>6, <1>7, <2>2, <2>3, FittingIsClose
  <2> QED BY <1>3, <1>4, <2>1, <2>4, OperationsApart
<1>9. \/ ArgumentsRead(op, request, Segments(request.url)) = args
      \/ n = "loginUserSession"
  <2>1. (op.method = "GET" => op.body.of = {}) \/ op = loginUserSession
    BY <1>6 DEF Sound
  <2>2. CASE op.method = "GET" => op.body.of = {}
    <3>1. ArgumentsRead(op, Request(op, args),
                        Segments(BuildUrl(op.path, args))) = args
      BY <1>4, <1>6, <2>2, ArgumentsAreRead
    <3> QED BY <1>4, <1>5, <3>1
  <2> QED BY <1>6, <2>1, <2>2
<1> QED BY <1>1, <1>2, <1>3, <1>8, <1>9

(***************************************************************************)
(* ServerReadsTheCall for all values: whatever characters the arguments    *)
(* are made of, ApiClient.buildUrl writes a path that is cut where it was  *)
(* put together, that fits the template of no other operation, and in      *)
(* which, with the query and the body, every argument is found again.      *)
(***************************************************************************)
THEOREM CallsServerReadsTheCall == Spec => []ServerReadsTheCall
<1>1. Init => Inductive /\ Sending
  BY InitInductive, InitSending
<1>2. Inductive /\ Sending /\ [Next]_vars => (Inductive /\ Sending)'
  BY NextInductive, NextSending
<1>3. Inductive /\ Sending => ServerReadsTheCall
  BY SendingIsRead
<1> QED BY <1>1, <1>2, <1>3, PTL DEF Spec
=============================================================================
