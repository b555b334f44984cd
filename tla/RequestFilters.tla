---------------------------- MODULE RequestFilters ----------------------------
(***************************************************************************)
(* What is done to one request or response by the layers around a handler: *)
(* the guard of yma-sql-guard and the filter of yma-xss over the body of a *)
(* request, the checks of yma-upload, the codes of yma-api-response, the   *)
(* headers of yma-security-headers, and the versions of the interface of   *)
(* yma-api-version that a request may ask for.                             *)
(*                                                                         *)
(* A body is a tree: [kind |-> "string", text |-> t], [kind |-> "array" or *)
(* "object", items |-> its values in order], or [kind |-> "other"].  A text*)
(* is described by what the layers ask of it: its length, the numbers of   *)
(* the rules that match, whether it has an angle bracket, a word that is   *)
(* dangerous, a tag of rich text, and what has been done to it.            *)
(***************************************************************************)
EXTENDS Naturals, Sequences, FiniteSets, SequencesExt, FiniteSetsExt

CONSTANTS
  FullStop,               (* the dot of a file name                        *)
  LowerOf(_),             (* what to_lowercase makes of a character        *)
  Bin,                    (* the extension of a file without one           *)
  NotFound,               (* no answer                                     *)
  MaxNesting,             (* how deep a body may be nested: serde_json      *)
                          (* reads no deeper than 128                      *)
  HeaderNames,            (* the ten headers                               *)
  HeaderValues,           (* values a header may have                      *)
  Unsendable              (* a value no header may have                    *)

ASSUME NestingIsBounded == MaxNesting \in Nat \ {0}

\* What is known of a text: its length, the rules whose patterns it matches, what
\* the filter would find in it, and what the filter did to it.
Texts ==
  [length : Nat, rules : SUBSET Nat, bracket : BOOLEAN, dangerous : BOOLEAN,
   rich : BOOLEAN, done : {"kept", "plain", "rich", "escaped"}]

\* The bodies that are nested no deeper than a number.
Bodies[depth \in 0..MaxNesting] ==
  [kind : {"string"}, text : Texts] \cup [kind : {"other"}] \cup
  IF depth = 0 THEN {}
  ELSE [kind : {"array", "object"}, items : Seq(Bodies[depth - 1])]

ASSUME NoAnswerIsNoBody == NotFound \notin Bodies[MaxNesting]

Items(value) == IF value.kind \in {"array", "object"} THEN ToSet(value.items) ELSE {}

\* A value with all the values in it.
Within(value) ==
  LET within[depth \in 0..MaxNesting] ==
        IF depth = 0 THEN {value}
        ELSE within[depth - 1] \cup UNION {Items(v) : v \in within[depth - 1]}
  IN  within[MaxNesting]

\* extract_strings_from_json: the texts of the values; names are not looked at.
ExtractStrings(value) ==
  LET texts[v \in Within(value)] ==
        IF v.kind = "string" THEN <<v.text>>
        ELSE IF v.kind = "other" THEN <<>>
        ELSE FlattenSeq([i \in DOMAIN v.items |-> texts[v.items[i]]])
  IN  texts[value]

\* check_sql_injection: the first rule that matches, for a text that is not
\* too short and not too long to be looked at.
CheckSqlInjection(text) ==
  IF text.length < 4 \/ text.length > 10000 \/ text.rules = {} THEN NotFound
  ELSE Min(text.rules)

CheckJson(value) ==
  LET strings == ExtractStrings(value)
      bad     == SelectInSeq(strings, LAMBDA t : CheckSqlInjection(t) # NotFound)
  IN  IF bad = 0 THEN NotFound ELSE CheckSqlInjection(strings[bad])

DetectAndSanitize(text) ==
  IF ~text.bracket THEN text
  ELSE IF text.dangerous THEN [text EXCEPT !.done = "plain", !.bracket = FALSE,
                                           !.dangerous = FALSE, !.rich = FALSE]
  ELSE IF text.rich THEN [text EXCEPT !.done = "rich"]
  ELSE [text EXCEPT !.done = "escaped", !.bracket = FALSE]

SanitizeValue(value) ==
  LET cleaned[v \in Within(value)] ==
        IF v.kind = "string" THEN [v EXCEPT !.text = DetectAndSanitize(@)]
        ELSE IF v.kind = "other" THEN v
        ELSE [v EXCEPT !.items = [i \in DOMAIN v.items |-> cleaned[v.items[i]]]]
  IN  cleaned[value]

\* What both layers do before they look at the body: it is looked at for three
\* methods and one content type; one that cannot be read is a bad request.
LookedAt(request) == request.method \in {"POST", "PUT", "PATCH"} /\ request.json
Readable(request) == request.size <= 1048576 /\ request.utf8

\* What the two layers look at in a request.
RequestForms ==
  [method : STRING, json : BOOLEAN, size : Nat, utf8 : BOOLEAN, parses : BOOLEAN,
   body : Bodies[MaxNesting]]

\* sql_injection_middleware; a body that is not JSON passes.
SqlGuard(request) ==
  CASE ~LookedAt(request) -> "next"
    [] LookedAt(request) /\ ~Readable(request) -> "bad request"
    [] LookedAt(request) /\ Readable(request) /\ request.parses
         /\ CheckJson(request.body) # NotFound -> "refused"
    [] OTHER -> "next"

\* xss_filter_middleware: the body the handler gets.
XssFilter(request) ==
  CASE ~LookedAt(request) -> request.body
    [] LookedAt(request) /\ ~Readable(request) -> NotFound
    [] LookedAt(request) /\ Readable(request) /\ request.parses ->
         SanitizeValue(request.body)
    [] OTHER -> request.body

\* Both layers look at the same texts, however deep they lie: the filter does to
\* the texts of a body, each in its place, what it does to a text alone, and when
\* no bracket is left to do it again changes nothing; the guard refuses the body
\* exactly if it refuses one of the texts, the one that comes first giving the
\* rule; a body that one layer cannot read the other cannot read either.
BodiesHold(request) ==
  LET texts   == ExtractStrings(request.body)
      cleaned == SanitizeValue(request.body)
      bare    == [request EXCEPT !.body = [kind |-> "array", items |->
                    [i \in DOMAIN texts |-> [kind |-> "string", text |-> texts[i]]]]]
  IN  /\ ExtractStrings(cleaned) =
           [i \in DOMAIN texts |-> DetectAndSanitize(texts[i])]
      /\ (\A i \in DOMAIN texts : ~ExtractStrings(cleaned)[i].bracket) =>
           SanitizeValue(cleaned) = cleaned
      /\ \A i \in DOMAIN texts : ExtractStrings(cleaned)[i].bracket =>
           ExtractStrings(cleaned)[i].done = "rich"
      /\ SqlGuard(request) = SqlGuard(bare)
      /\ CheckJson(request.body) = CheckJson(bare.body)
      /\ SqlGuard(request) = "bad request" <=> XssFilter(request) = NotFound
      /\ SqlGuard(request) = "refused" => LookedAt(request) /\ request.parses

-----------------------------------------------------------------------------
(* yma-upload: a name is a sequence of characters without separators. *)

\* Path::extension: what follows the last dot, but for a dot that comes first.
Extension(name) ==
  LET dot == SelectLastInSeq(name, LAMBDA c : c = FullStop)
  IN  IF dot <= 1 \/ name = <<FullStop, FullStop>> THEN NotFound
      ELSE SubSeq(name, dot + 1, Len(name))

Lowered(s) == [i \in DOMAIN s |-> LowerOf(s[i])]

\* validate_extension: the extension in small letters.
ValidateExtension(name, allowed) ==
  LET ext == Extension(name)
  IN  IF ext = NotFound THEN NotFound
      ELSE IF ext = <<>> THEN NotFound
      ELSE IF allowed = {} \/ Lowered(ext) \in allowed THEN Lowered(ext)
      ELSE NotFound

ValidateFileSize(size, max) == size # 0 /\ size <= max

\* generate_stored_name: a fresh name, with the extension as it was given.
StoredName(name, fresh) ==
  fresh \o <<FullStop>> \o (IF Extension(name) = NotFound THEN <<Bin>> ELSE Extension(name))

SaveUploadedFile(upload, fresh) ==
  IF ~ValidateFileSize(upload.size, upload.max) THEN NotFound
  ELSE IF ValidateExtension(upload.name, upload.allowed) = NotFound THEN NotFound
  ELSE IF upload.mimes # {} /\ upload.mime \notin upload.mimes THEN NotFound
  ELSE [stored_name |-> StoredName(upload.name, fresh),
        extension   |-> ValidateExtension(upload.name, upload.allowed)]

\* A file that is stored is one that may be: the stored name has the extension
\* that was checked, up to the case of its letters, and would pass again.
UploadsHold(upload, fresh) ==
  LET saved == SaveUploadedFile(upload, fresh)
  IN  saved # NotFound =>
        /\ Lowered(Extension(saved.stored_name)) = saved.extension
        /\ upload.allowed # {} => saved.extension \in upload.allowed
        /\ SaveUploadedFile([upload EXCEPT !.name = saved.stored_name], fresh) = saved
        /\ IsPrefix(fresh, saved.stored_name)

-----------------------------------------------------------------------------
(* yma-api-response *)

ErrorCodes ==
  [Success |-> 200, BadRequest |-> 400, Unauthorized |-> 401, Forbidden |-> 403,
   NotFound |-> 404, Conflict |-> 409, ValidationError |-> 422,
   TooManyRequests |-> 429, InternalError |-> 500, ServiceUnavailable |-> 503]

\* The status the response is sent with.
StatusCode(code) ==
  IF code \in {200, 400, 401, 403, 404, 409, 422, 429, 503} THEN code ELSE 500

ErrorResponse(code) == IF code = 200 THEN 500 ELSE code

\* Every code of the enumeration is sent with the status it names, and no error
\* is sent as a success, whatever code a handler gives it.
StatusesAgree ==
  /\ \A name \in DOMAIN ErrorCodes : StatusCode(ErrorCodes[name]) = ErrorCodes[name]
  /\ \A code \in 0..600 :
       /\ StatusCode(ErrorResponse(code)) # 200
       /\ StatusCode(ErrorResponse(code)) = StatusCode(code) \/ code = 200
  /\ IsInjective([name \in DOMAIN ErrorCodes |-> ErrorCodes[name]])

-----------------------------------------------------------------------------
(* yma-security-headers *)

\* apply_security_headers: a header that is configured replaces the handler's; one
\* that is switched off, or whose value no header may have, is left as it is.
ApplySecurityHeaders(headers, configured) ==
  [h \in HeaderNames |->
     IF configured[h] \in {NotFound, Unsendable} THEN headers[h] ELSE configured[h]]

SwitchedOff(configured, h) == [configured EXCEPT ![h] = NotFound]

\* What is configured is what is sent, whatever the handler has set, and nothing
\* else is touched; the layer may be there twice; of two layers the outer one
\* has its way, but for what is switched off in it.
HeadersHold(headers, inner, outer) ==
  LET once  == ApplySecurityHeaders(headers, inner)
      twice == ApplySecurityHeaders(once, outer)
  IN  /\ ApplySecurityHeaders(once, inner) = once
      /\ \A h \in HeaderNames :
           /\ inner[h] \in HeaderValues => once[h] = inner[h]
           /\ twice[h] \in {outer[h], inner[h], headers[h]}
           /\ outer[h] \in HeaderValues => twice[h] = outer[h]
           /\ ApplySecurityHeaders(once, SwitchedOff(outer, h))[h] = once[h]
           /\ once[h] # Unsendable

-----------------------------------------------------------------------------
(***************************************************************************)
(* The version manager of yma-api-version: the registered versions with    *)
(* their status, and the current one.  One thread builds it.  Versions are *)
(* numbers here; the code compares their names as strings.                 *)
(***************************************************************************)
CONSTANTS ApiVersionNames, NoVersion

VersionStatus == {"Active", "Deprecated", "Sunset"}

ASSUME VersionNamesBounds ==
  /\ ApiVersionNames \subseteq Nat /\ IsFiniteSet(ApiVersionNames)
  /\ NoVersion \notin ApiVersionNames /\ NoVersion \notin VersionStatus

VARIABLES
  versions,               (* versions[v]: its status, or NoVersion         *)
  current_version,        (* the current one, or NoVersion at first        *)
  chosen                  (* history: the version last made current        *)

versionVars == <<versions, current_version, chosen>>

Registered == {v \in ApiVersionNames : versions[v] # NoVersion}

VersionsInit ==
  /\ versions = [v \in ApiVersionNames |-> NoVersion]
  /\ current_version = NoVersion
  /\ chosen = NoVersion

\* add_version, also of one that is there already; the first is made current.
AddVersion(v, status) ==
  /\ current_version' = IF Registered = {} THEN v ELSE current_version
  /\ chosen' = IF Registered = {} THEN v ELSE chosen
  /\ versions' = [versions EXCEPT ![v] = status]

SetCurrentVersion(v) ==
  /\ v \in Registered
  /\ current_version' = v
  /\ chosen' = v
  /\ UNCHANGED versions

VersionsNext ==
  \E v \in ApiVersionNames : \/ SetCurrentVersion(v)
                             \/ \E status \in VersionStatus : AddVersion(v, status)

VersionsSpec == VersionsInit /\ [][VersionsNext]_versionVars

\* get_all_versions sorts them, the newest first: each has its place behind
\* those that are newer.
NewerThan(v) == {w \in Registered : w > v}
AllVersions ==
  [i \in 1..Cardinality(Registered) |->
     CHOOSE v \in Registered : Cardinality(NewerThan(v)) = i - 1]

IsVersionValid(v) == v \in Registered

IsVersionDeprecated(v) ==
  v \in Registered => versions[v] \in {"Deprecated", "Sunset"}

CheckVersion(v) ==
  CASE ~IsVersionValid(v) ->
         [valid |-> FALSE, status |-> NoVersion, suggestion |-> current_version]
    [] IsVersionValid(v) /\ IsVersionDeprecated(v) ->
         [valid |-> TRUE, status |-> versions[v], suggestion |-> current_version]
    [] OTHER -> [valid |-> TRUE, status |-> versions[v], suggestion |-> NoVersion]

-----------------------------------------------------------------------------
VersionsTypeOK ==
  /\ versions \in [ApiVersionNames -> VersionStatus \cup {NoVersion}]
  /\ current_version \in ApiVersionNames \cup {NoVersion}
  /\ chosen \in ApiVersionNames \cup {NoVersion}

\* What the proof in SystemProofs rests on: a current version is one of those
\* that are there, and there is one when there is any.
CurrentIsThere ==
  /\ Registered # {} => current_version \in Registered
  /\ current_version = chosen

VersionsInv == VersionsTypeOK /\ CurrentIsThere

\* There is a current version as soon as there is any: the first, or the one
\* chosen since; whatever is not active is answered with it as a suggestion;
\* every version is listed once, later names first.
VersionsHold ==
  /\ CurrentIsThere
  /\ \A v \in ApiVersionNames :
       /\ CheckVersion(v).suggestion = NoVersion /\ Registered # {} =>
            versions[v] = "Active"
       /\ CheckVersion(v).valid <=> \E i \in DOMAIN AllVersions : AllVersions[i] = v
  /\ \A i, j \in DOMAIN AllVersions : i < j => AllVersions[i] > AllVersions[j]
=============================================================================
