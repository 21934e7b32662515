---------------------------- MODULE ContaxyCalls ----------------------------
(***************************************************************************)
(* One call of the platform's client, from the method a page calls to the  *)
(* promise it gets back: ApiClient.js, for every operation of              *)
(* ContaxyOperations, over a network and a server that answer as they      *)
(* like, late or not at all.                                               *)
(*                                                                         *)
(* A value that goes into a path is a sequence of characters; one that is  *)
(* sent as a query or form field, or as a body, stands for itself.         *)
(***************************************************************************)
EXTENDS ContaxyOperations, Integers, FiniteSets, SequencesExt

CONSTANT Values   \* the values a page gives for the arguments of a path

VARIABLES
  phase,    \* of the call: idle, thrown, sent, resolved or rejected
  call,     \* the operation's name, and the arguments that are set
  request,  \* what leaves the browser
  flying,   \* what is under way: the request, the server's answer, or nothing
  answer,   \* the server's answer
  done,     \* the server has done what it was asked
  result    \* what the promise was resolved or rejected with

vars == <<phase, call, request, flying, answer, done, result>>

-----------------------------------------------------------------------------
\* The request.

Escapes ==
  [c \in {"/", ":", "%"} |->
     CASE c = "/" -> "%2F" [] c = ":" -> "%3A" [] c = "%" -> "%25"]

\* A value is made of characters: none is an escape, which is three long.
Characters(value) ==
  value \in Seq(STRING) /\ \A i \in DOMAIN value :
                             \A c \in DOMAIN Escapes : value[i] # Escapes[c]

ASSUME CallsAssumption == \A value \in Values : Characters(value)

\* External: encodeURIComponent, and the decoding a server does.
EncodeURIComponent(value) ==
  [i \in DOMAIN value |->
     IF value[i] \in DOMAIN Escapes THEN Escapes[value[i]] ELSE value[i]]
DecodeURIComponent(text) ==
  [i \in DOMAIN text |->
     IF \E c \in DOMAIN Escapes : Escapes[c] = text[i]
     THEN CHOOSE c \in DOMAIN Escapes : Escapes[c] = text[i] ELSE text[i]]

\* For comparison: the values go into the path as they are.
BuildUrlPlain(path, args) ==
  LET Token(t) == IF t \in PathArguments THEN args[t] ELSE <<t>>
      Segment(s) == <<"/">> \o FlattenSeq([j \in DOMAIN s |-> Token(s[j])])
  IN  FlattenSeq([i \in DOMAIN path |-> Segment(path[i])])

\* ApiClient.buildUrl: every placeholder of the template is replaced.
BuildUrl(path, args) ==
  LET Token(t) == IF t \in PathArguments THEN EncodeURIComponent(args[t])
                                         ELSE <<t>>
      Segment(s) == <<"/">> \o FlattenSeq([j \in DOMAIN s |-> Token(s[j])])
  IN  FlattenSeq([i \in DOMAIN path |-> Segment(path[i])])

\* ApiClient.normalizeParams: what is not set is left out.
NormalizeParams(names, args) == [x \in names \cap DOMAIN args |-> args[x]]

\* External: a browser sends no body with a GET.
Body(op, args) ==
  IF op.method = "GET" THEN << >> ELSE NormalizeParams(op.body.of, args)

\* The first half of ApiClient.callApi.
Request(op, args) ==
  [method |-> op.method, url |-> BuildUrl(op.path, args),
   query |-> NormalizeParams(op.query, args), format |-> op.body.format,
   body |-> Body(op, args)]

-----------------------------------------------------------------------------
\* External: how a server reads a request.  It cuts the path into segments
\* and compares them with the templates it serves.

Segments(url) ==
  LET cuts == {i \in DOMAIN url : url[i] = "/"} \cup {Len(url) + 1}
      cut(n) == CHOOSE i \in cuts : Cardinality({j \in cuts : j <= i}) = n
  IN  [n \in 1 .. Cardinality(cuts) - 1 |->
         SubSeq(url, cut(n) + 1, cut(n + 1) - 1)]

\* The part of a segment before the verb of the template.
BeforeVerb(template, segment) ==
  SubSeq(segment, 1, Len(segment) - Len(template) + 1)

SegmentFits(template, segment) ==
  /\ Len(segment) >= Len(template) - 1
  /\ segment = BeforeVerb(template, segment) \o Tail(template)
  /\ IF template[1] \in PathArguments
     THEN ":" \notin ToSet(BeforeVerb(template, segment))
     ELSE BeforeVerb(template, segment) = <<template[1]>>

Fits(op, method, segments) ==
  /\ op.method = method /\ Len(op.path) = Len(segments)
  /\ \A i \in DOMAIN segments : SegmentFits(op.path[i], segments[i])

\* The fields of both, those of f first.
Merged(f, g) ==
  [x \in DOMAIN f \cup DOMAIN g |-> IF x \in DOMAIN f THEN f[x] ELSE g[x]]

\* The arguments a server finds in a request for op.
ArgumentsRead(op, r, segments) ==
  LET at(x) == CHOOSE i \in DOMAIN op.path : op.path[i][1] = x
      inPath == [x \in op.inPath |->
                   DecodeURIComponent(
                     BeforeVerb(op.path[at(x)], segments[at(x)]))]
  IN  Merged(Merged(inPath, r.query), r.body)

-----------------------------------------------------------------------------
\* The answer.

\* Answers of status 2xx, by what their body holds.
Bodies == {"list", "object", "emptyObject", "text", "null", "empty"}
Answers == Bodies \cup {"noContent", "malformed", "refused", "failed"}

\* The first half of ApiClient.deserialize: the body, or the text of the
\* answer when the body is null or an object without fields.
Data(a) ==
  CASE a \in {"emptyObject", "null"} -> "text"
    [] a = "empty" -> "emptyText"
    [] OTHER -> a

\* For comparison: what is not a list is handed on as it is.
ConvertLeniently(data, returns) ==
  CASE returns.kind \in {"anything", "unconverted", "list"} -> data
    [] returns.kind = "text" -> "text"
    [] returns.kind = "record" ->
         IF data = "emptyText" THEN "undefined" ELSE "record"

\* ApiClient.convertToType: a list is mapped, which no other data can be, and
\* constructFromObject makes no record of an empty text.  Data of a class without
\* constructFromObject stays as it is.
ConvertToType(data, returns) ==
  CASE returns.kind \in {"anything", "unconverted"} -> data
    [] returns.kind = "text" -> "text"
    [] returns.kind = "list" -> IF data = "list" THEN "list" ELSE "typeError"
    [] returns.kind = "record" ->
         IF data = "emptyText" THEN "undefined" ELSE "record"

\* For comparison: an answer 204 is taken for one with a body.
DeserializeAnyStatus(a, returns) ==
  IF returns.kind = "nothing" THEN "null"
  ELSE ConvertToType(Data(a), returns)

\* ApiClient.deserialize: no data of an operation without a return type, nor
\* of an answer 204.
Deserialize(a, returns) ==
  IF a = "noContent" \/ returns.kind = "nothing" THEN "null"
  ELSE ConvertToType(Data(a), returns)

-----------------------------------------------------------------------------
NoRequest == [method |-> "", url |-> << >>, query |-> << >>,
              format |-> "none", body |-> << >>]

Init ==
  /\ phase = "idle" /\ flying = "nothing" /\ done = FALSE
  /\ call = [name |-> "", args |-> << >>] /\ request = NoRequest
  /\ answer = "" /\ result = ""

\* A page calls the method: it throws, or sends the request.
Call(name, args) ==
  LET op == Operations[name]
  IN  /\ phase = "idle"
      /\ call' = [name |-> name, args |-> args]
      /\ \/ /\ ~(op.required \subseteq DOMAIN args)
            /\ phase' = "thrown" /\ UNCHANGED <<request, flying>>
         \/ /\ op.required \subseteq DOMAIN args
            /\ phase' = "sent" /\ flying' = "request"
            /\ request' = Request(op, args)
      /\ UNCHANGED <<answer, done, result>>

\* External: the server does what it is asked, fails at it, or refuses it.
Serve ==
  /\ flying = "request"
  /\ flying' = "answer" /\ request' = NoRequest
  /\ answer' \in Answers
  /\ \/ answer' # "refused" /\ done' = TRUE
     \/ answer' \in {"refused", "failed"} /\ done' = FALSE
  /\ UNCHANGED <<phase, call, result>>

\* For comparison: the status of the answer is not looked at.
ReturnAnyStatus ==
  /\ phase = "sent" /\ flying = "answer"
  /\ flying' = "nothing" /\ phase' = "resolved"
  /\ result' = Deserialize("object", Operations[call.name].returns)
  /\ UNCHANGED <<call, request, answer, done>>

\* The answer arrives: the callback of request.end.  An answer superagent
\* cannot parse is an error without a response, like no answer at all.
Return ==
  /\ phase = "sent" /\ flying = "answer"
  /\ flying' = "nothing"
  /\ LET data == Deserialize(answer, Operations[call.name].returns)
     IN  \/ /\ answer \in {"refused", "failed"}
            /\ phase' = "rejected" /\ result' = answer
         \/ /\ answer = "malformed"
            /\ phase' = "rejected" /\ result' = "noResponse"
         \/ /\ answer \in Bodies \cup {"noContent"} /\ data = "typeError"
            /\ phase' = "rejected" /\ result' = data
         \/ /\ answer \in Bodies \cup {"noContent"} /\ data # "typeError"
            /\ phase' = "resolved" /\ result' = data
  /\ UNCHANGED <<call, request, answer, done>>

\* No answer within ApiClient.timeout, or the connection broke.  The request
\* may still be on its way to the server.
TimeOut ==
  /\ phase = "sent"
  /\ phase' = "rejected" /\ result' = "noResponse"
  /\ UNCHANGED <<call, request, flying, answer, done>>

\* The next call.  Whatever is left of this one is of no consequence to it.
Forget ==
  /\ phase \in {"thrown", "resolved", "rejected"}
  /\ phase' = "idle" /\ flying' = "nothing" /\ done' = FALSE
  /\ call' = [name |-> "", args |-> << >>] /\ request' = NoRequest
  /\ answer' = "" /\ result' = ""

Arguments(op) == op.required \cup op.query \cup op.body.of

\* The arguments op may be called with.
Given(op) ==
  UNION {{[x \in set |-> IF x \in op.inPath THEN values[x] ELSE <<x>>] :
            values \in [set \cap op.inPath -> Values]} :
         set \in SUBSET Arguments(op)}

Next ==
  \/ \E name \in DOMAIN Operations :
       \E args \in Given(Operations[name]) : Call(name, args)
  \/ Serve \/ Return \/ TimeOut \/ Forget

Spec == Init /\ [][Next]_vars

-----------------------------------------------------------------------------
Results == {"", "null", "undefined", "list", "object", "text", "emptyText",
            "record", "refused", "failed", "noResponse", "typeError"}

TypeOK ==
  /\ phase \in {"idle", "thrown", "sent", "resolved", "rejected"}
  /\ flying \in {"nothing", "request", "answer"}
  /\ answer \in Answers \cup {""}
  /\ done \in BOOLEAN
  /\ result \in Results
  /\ phase # "idle" => call.name \in DOMAIN Operations

(***************************************************************************)
(* A server that reads the request finds the operation that was called and *)
(* every argument that was set, whatever characters the arguments are made *)
(* of.  GET /users/me is also the record of a user called me, and the form *)
(* of GET /auth/login is dropped by browsers: the page logs in with        *)
(* requestToken (Login.jsx:42).                                            *)
(***************************************************************************)
MyUser == {"getUser", "getUser_0", "getMyUser", "getMyUser_0"}

ServerReadsTheCall ==
  flying = "request" =>
    LET op == Operations[call.name]
        segments == Segments(request.url)
    IN  /\ \A name \in DOMAIN Operations :
             Fits(Operations[name], request.method, segments) =>
               \/ Operations[name] = op
               \/ {name, call.name} \subseteq MyUser
        /\ \/ ArgumentsRead(op, request, segments) = call.args
           \/ call.name = "loginUserSession"

(***************************************************************************)
(* A promise that is resolved has data of the kind the operation returns:  *)
(* who asks for a list gets a list, even from a server that answers with   *)
(* something else.  The exceptions are an answer 204, and a record of an   *)
(* answer without a body.  Where nothing is converted the page gets what   *)
(* the server has sent: a file's metadata may be anything.                 *)
(***************************************************************************)
DataIsOfItsType ==
  phase = "resolved" =>
    LET kind == Operations[call.name].returns.kind
    IN  \/ kind = "nothing" /\ result = "null"
        \/ kind # "nothing" /\ result = "null" /\ answer = "noContent"
        \/ kind = "record" /\ result = "undefined" /\ answer = "empty"
        \/ kind \in {"list", "record", "text"} /\ result = kind
        \/ kind \in {"anything", "unconverted"} /\ result = Data(answer)

(***************************************************************************)
(* What a page may conclude: a promise that is resolved says the server    *)
(* has done what it was asked; a call that threw, and a promise rejected   *)
(* with a refusal, that it has not and will not.  Only a promise rejected  *)
(* without an answer leaves it open.                                       *)
(***************************************************************************)
OutcomeIsKnown ==
  /\ phase = "resolved" => done
  /\ phase = "thrown" => ~done /\ flying = "nothing"
  /\ phase = "rejected" /\ result = "refused" => ~done /\ flying = "nothing"

=============================================================================
