------------------------------- MODULE Services -------------------------------
(***************************************************************************)
(* The services that keep state of their own in memory and are called and  *)
(* woken concurrently.  They share nothing with each other (no crate of    *)
(* these depends on another), so a behaviour of all of them side by side   *)
(* is one behaviour of each: service picks the one whose behaviours are    *)
(* looked at and the others stay where they start.  The functions of the   *)
(* libraries that keep no state are one more service: an input is chosen   *)
(* and nothing happens to it; the property relates what the functions make *)
(* of it to what they are for.                                             *)
(***************************************************************************)
EXTENDS SocialGraph, Scheduler, EventBus, WsRooms, P2PNode, Migrations, Sandbox,
        HealthMetrics, RedisPool, Accounts, RateLimiter, LoginFactors,
        ApiKeys, KeyPools, FileStorage, AuditLog, ConfigReload, LogFiles,
        SshCommand, SearchClient, TextFilters, AccessRules, RequestFilters

CONSTANTS
  ServiceNames,           (* the services looked at                        *)
  CardDigits,             (* the seventeen digits of identity cards        *)
  OctetDigits,            (* sequences of digits                           *)
  PasswordCounts,         (* how many characters of each class             *)
  RawInputs,              (* inputs of spaces and other characters         *)
  FileNamesGiven,
  RoleGraphs,             (* definitions of roles                          *)
  RoleLists,              (* the roles assigned to a user, in order        *)
  TokensIssued,           (* what tokens are issued for and used           *)
  RequestsMade,
  UploadsMade,
  MailsSent,              (* batches of mails                              *)
  FreshName               (* the name an uploaded file is stored under     *)

ASSUME InputsAssumption ==
  /\ CardDigits \subseteq [1..17 -> Digit]
  /\ OctetDigits \subseteq Seq(Digit)
  /\ PasswordCounts \subseteq [Classes -> Nat]
  /\ \A text \in RawInputs \cup FileNamesGiven \cup {FreshName} : IsText(text)
  /\ \A graph \in RoleGraphs : RoleGraph(graph)
  /\ RoleLists \subseteq Seq(RbacRoles)
  /\ \A token \in TokensIssued :
       {token.now, token.wait, token.ttl.access, token.ttl.refresh} \subseteq Nat
  /\ RequestsMade \subseteq RequestForms
  /\ \A upload \in UploadsMade :
       /\ DOMAIN upload = {"size", "max", "name", "allowed", "mime", "mimes"}
       /\ IsText(upload.name)
  /\ FreshName # <<>>
  /\ MailsSent \subseteq Seq(Mails)
  /\ {NotFound, Unsendable} \cap HeaderValues = {}

VARIABLES
  service,
  input                   (* of the functions                               *)

servicesVars ==
  <<service, socialVars, schedulerVars, busVars, wsVars, nodeVars, migrationVars,
    sandboxVars, healthVars, redisVars, roleVars, accountVars,
    limiterVars, mfaVars, ssoVars, apiKeyVars, poolVars, storageVars, versionVars,
    auditVars, configVars, logVars, sshVars, searchVars, input>>

NoInput == [to |-> "none"]

InputsInit ==
  \/ \E words \in WordLists : input = [to |-> "words", words |-> words]
  \/ \E n \in 0..MaxText : \E places \in SUBSET (1..n) :
       /\ n <= 7 \/ places = {}
       /\ input = [to |-> "mask", n |-> n, places |-> places]
  \/ \E digits \in CardDigits : input = [to |-> "card", digits |-> digits]
  \/ \E digits \in OctetDigits : input = [to |-> "octet", digits |-> digits]
  \/ \E count \in PasswordCounts : input = [to |-> "password", count |-> count]
  \/ \E raw \in RawInputs : input = [to |-> "clean", raw |-> raw]
  \/ \E name \in FileNamesGiven : input = [to |-> "filename", name |-> name]
  \/ \E graph \in RoleGraphs, assigned \in RoleLists :
       input = [to |-> "rbac", graph |-> graph, assigned |-> assigned]
  \/ \E token \in TokensIssued : input = [to |-> "token", token |-> token]
  \/ \E call \in RequestsMade : input = [to |-> "request", request |-> call]
  \/ \E upload \in UploadsMade : input = [to |-> "upload", upload |-> upload]
  \/ \E mails \in MailsSent : input = [to |-> "mail", mails |-> mails]
  \/ \E headers, inner, outer \in [HeaderNames -> HeaderValues \cup {NotFound, Unsendable}] :
       /\ \A h \in HeaderNames : headers[h] # Unsendable
       /\ input = [to |-> "headers", headers |-> headers, inner |-> inner, outer |-> outer]
  \/ input = [to |-> "tables"]

\* The log files and the command in a behaviour that is not about them start
\* with one size and one status: which does not matter.
LogStart == LogInit /\ (service # "logging" => maxSize = CHOOSE size \in LogSizes : TRUE)
SshStart == SshInit /\ (service # "ssh" => server.status = 0)

ServicesInit ==
  /\ service \in ServiceNames
  /\ SocialInit
  /\ SchedulerInit
  /\ BusInit
  /\ WsInit
  /\ NodeInit
  /\ MigrationInit
  /\ SandboxInit
  /\ HealthInit
  /\ RedisInit
  /\ RolesInit
  /\ AccountsInit
  /\ LimiterInit
  /\ MfaInit
  /\ SsoInit
  /\ ApiKeysInit
  /\ PoolsInit
  /\ StorageInit
  /\ VersionsInit
  /\ AuditInit
  /\ ConfigInit
  /\ LogStart
  /\ SshStart
  /\ SearchInit
  /\ IF service = "functions" THEN InputsInit ELSE input = NoInput

Others(name) ==
  /\ service = name
  /\ service' = service
  /\ name # "social" => UNCHANGED socialVars
  /\ name # "scheduler" => UNCHANGED schedulerVars
  /\ name # "events" => UNCHANGED busVars
  /\ name # "websocket" => UNCHANGED wsVars
  /\ name # "p2p" => UNCHANGED nodeVars
  /\ name # "migration" => UNCHANGED migrationVars
  /\ name # "sandbox" => UNCHANGED sandboxVars
  /\ name # "health" => UNCHANGED healthVars
  /\ name # "redis" => UNCHANGED redisVars
  /\ name \notin {"accounts", "roles"} => UNCHANGED roleVars
  /\ name # "accounts" => UNCHANGED accountVars
  /\ name # "limiter" => UNCHANGED limiterVars
  /\ name # "mfa" => UNCHANGED mfaVars
  /\ name # "sso" => UNCHANGED ssoVars
  /\ name # "apikeys" => UNCHANGED apiKeyVars
  /\ name # "keypool" => UNCHANGED poolVars
  /\ name # "storage" => UNCHANGED storageVars
  /\ name # "versions" => UNCHANGED versionVars
  /\ name # "audit" => UNCHANGED auditVars
  /\ name # "config" => UNCHANGED configVars
  /\ name # "logging" => UNCHANGED logVars
  /\ name # "ssh" => UNCHANGED sshVars
  /\ name # "search" => UNCHANGED searchVars
  /\ UNCHANGED input

ServicesNext ==
  \/ Others("social") /\ SocialNext
  \/ Others("scheduler") /\ SchedulerNext
  \/ Others("events") /\ BusNext
  \/ Others("websocket") /\ WsNext
  \/ Others("p2p") /\ NodeNext
  \/ Others("migration") /\ MigrationNext
  \/ Others("sandbox") /\ SandboxNext
  \/ Others("health") /\ HealthNext
  \/ Others("redis") /\ RedisNext
  \/ Others("roles") /\ RolesNext
  \/ Others("accounts") /\ AccountsNext
  \/ Others("limiter") /\ LimiterNext
  \/ Others("mfa") /\ MfaNext
  \/ Others("sso") /\ SsoNext
  \/ Others("apikeys") /\ ApiKeysNext
  \/ Others("keypool") /\ PoolsNext
  \/ Others("storage") /\ StorageNext
  \/ Others("versions") /\ VersionsNext
  \/ Others("audit") /\ AuditNext
  \/ Others("config") /\ ConfigNext
  \/ Others("logging") /\ LogNext
  \/ Others("ssh") /\ SshNext
  \/ Others("search") /\ SearchNext

ServicesSpec == ServicesInit /\ [][ServicesNext]_servicesVars

ServicesTypeOK ==
  /\ service \in ServiceNames
  /\ service = "social" => SocialTypeOK
  /\ service = "scheduler" => SchedulerTypeOK
  /\ service = "events" => BusTypeOK
  /\ service = "websocket" => WsTypeOK
  /\ service = "p2p" => NodeTypeOK
  /\ service = "migration" => MigrationTypeOK
  /\ service = "sandbox" => SandboxTypeOK
  /\ service = "health" => HealthTypeOK
  /\ service = "redis" => RedisTypeOK
  /\ service \in {"roles", "accounts"} => RolesTypeOK /\ AccountsTypeOK
  /\ service = "limiter" => LimiterTypeOK
  /\ service = "mfa" => MfaTypeOK
  /\ service = "sso" => SsoTypeOK
  /\ service = "apikeys" => ApiKeysTypeOK
  /\ service = "keypool" => PoolsTypeOK
  /\ service = "storage" => StorageTypeOK
  /\ service = "versions" => VersionsTypeOK
  /\ service = "audit" => AuditTypeOK
  /\ service = "config" => ConfigTypeOK
  /\ service = "logging" => LogTypeOK
  /\ service = "ssh" => SshTypeOK
  /\ service = "search" => SearchTypeOK

\* The services that answer what was asked of them answer what happened: the peak of
\* the sandbox's monitor is the largest size sampled, the verdict and the gauge of a
\* health check are those of its checks and requests, the pages of the audit log and
\* of the tables together are the whole, the versions of the interface suggest the
\* current one, who follows the configuration ends up with it (but for updates that
\* overlap), log files stay in their bounds, a change a search index answered for is
\* there (unless its task failed, which the answer does not tell), the views of the
\* social graph fit.
AnswersAreTrue ==
  /\ service = "sandbox" => PeakIsLargest
  /\ service = "health" => ReportsAreTrue
  /\ service = "audit" => PagesMatchTotal
  /\ service = "functions" /\ input.to = "tables" => PagesCutUp /\ SearchedPagesAgree
  /\ service = "versions" => VersionsHold
  /\ service = "config" => ConfigFollowed
  /\ service = "logging" => LogFilesBounded
  /\ service = "search" => ChangesAreSeen
  /\ service = "social" => SocialViewsAgree

\* What was decided about a user's account and about the roles stands.
AccountsHold ==
  /\ service = "accounts" => LoginsAreFaithful
  /\ service = "roles" => RolesStand
  /\ service = "roles" => WalkAgrees

\* A backup code passes once and a time-based one near its interval, a state of a
\* sign-on is answered once, a pool hands out no key that was taken out of use.
CredentialsHold ==
  /\ service = "mfa" => SecondFactorHolds
  /\ service = "sso" => StatesAnsweredOnce
  /\ service = "keypool" => PoolsHold

\* The functions on texts: the word filter finds what occurs, masks show no more
\* than the ends, the check digit catches slips, octets, passwords, cleaned input and
\* file names are what their patterns and limits say.
TextsHold ==
  CASE input.to = "words"    -> WordsFound(input.words)
    [] input.to = "mask"     -> MasksHold(input.n, input.places)
    [] input.to = "card"     -> CheckDigitCatches(input.digits)
    [] input.to = "octet"    -> OctetsHold(input.digits)
    [] input.to = "password" -> PasswordsHold(input.count)
    [] input.to = "clean"    -> InputsCleaned(input.raw)
    [] input.to = "filename" -> FilenamesHold(input.name)
    [] OTHER                 -> TRUE

\* The rules requests are held to: roles collect what they inherit, a refresh gives
\* no more than the token it is called with, the layers around a handler agree on
\* its body and headers, an upload is stored under a name that passes again, a batch
\* of mails is as good as its messages, the tables of roles and statuses agree.
RulesHold ==
  CASE input.to = "rbac"     -> RolesCollected(input.graph, input.assigned)
    [] input.to = "token"    -> TokensHold(input.token)
    [] input.to = "request"  -> BodiesHold(input.request)
    [] input.to = "upload"   -> UploadsHold(input.upload, FreshName)
    [] input.to = "mail"     -> BatchHolds(input.mails)
    [] input.to = "headers"  -> HeadersHold(input.headers, input.inner, input.outer)
    [] input.to = "tables"   -> LevelsAgree /\ StatusesAgree
    [] OTHER                 -> TRUE
=============================================================================
