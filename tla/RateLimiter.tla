------------------------------ MODULE RateLimiter ------------------------------
(***************************************************************************)
(* The rate limiter of yma-rate-limit.  A request is judged under the rule *)
(* of its endpoint, but the count it is judged by is kept per client: a    *)
(* check reads the clock, then takes the entry of the client and counts.   *)
(***************************************************************************)
EXTENDS Naturals, FiniteSets

CONSTANTS
  LimiterEnabled,         (* config.enabled                                *)
  Clients,                (* the client addresses of the requests           *)
  LocalAddress,           (* 127.0.0.1, among them                          *)
  Whitelist,              (* those on whitelist_ips                         *)
  Endpoints,              (* the paths requests are made to                 *)
  EndpointRules,          (* the rules asked for, by path prefix            *)
  PrefixesOf(_),          (* the registered prefixes a path begins with     *)
  IpRule,                 (* per_ip_rule, or NoRule                         *)
  DefaultRule,
  NoRule,
  LimiterTasks,           (* the tasks that check concurrently              *)
  NoAddress,              (* a header that is missing or unreadable         *)
  MaxLimiterTime,         (* bound on the clock                             *)
  MaxChecks               (* bound on the requests counted in one window    *)

\* A rule as it is asked for: two unsigned numbers.
AskedRule == [max_requests : Nat, window_secs : Nat]

ASSUME LimiterConstants ==
  /\ LocalAddress \in Clients
  /\ LimiterEnabled \in BOOLEAN
  /\ \A e \in Endpoints : \A p \in PrefixesOf(e) : EndpointRules[p] \in AskedRule
  /\ IpRule # NoRule => IpRule \in AskedRule
  /\ DefaultRule \in AskedRule
  /\ MaxLimiterTime \in Nat
  /\ MaxChecks \in Nat \ {0}

VARIABLES
  windows,                (* windows[k]: the count and start of the window  *)
  limiterNow,
  checking,               (* checking[t]: the check t is in the middle of   *)
  judged                  (* history: the requests of the stored window of  *)
                          (* a client, by the rule and the answer          *)

limiterVars == <<windows, limiterNow, checking, judged>>

NoRecord == [count |-> 0, window_start |-> 0, kept |-> FALSE]
NotChecking == [at |-> "none"]

\* RateLimitRule::new: neither number is below 1. The rules modelled come through
\* it; the fields being public, a rule built or deserialised with a zero is not one.
AtLeastOne(n) == IF n = 0 THEN 1 ELSE n
NewRule(asked) == [max_requests |-> AtLeastOne(asked.max_requests),
                   window_secs  |-> AtLeastOne(asked.window_secs)]

(***************************************************************************)
(* The rules an endpoint may be judged under: that of any prefix it begins *)
(* with, since the table of prefixes is searched in no fixed order.        *)
(***************************************************************************)
RulesFor(endpoint) ==
  IF PrefixesOf(endpoint) # {}
    THEN {NewRule(EndpointRules[p]) : p \in PrefixesOf(endpoint)}
  ELSE IF IpRule # NoRule THEN {NewRule(IpRule)}
  ELSE {NewRule(DefaultRule)}

Rules == UNION {RulesFor(e) : e \in Endpoints}

\* The client a request is counted for: the first address of x-forwarded-for,
\* else x-real-ip, else the local address (the peer's is never known).
ClientOf(forwarded, real) ==
  IF forwarded # NoAddress THEN forwarded
  ELSE IF real # NoAddress THEN real
  ELSE LocalAddress

NothingJudged ==
  [made |-> 0, admitted |-> [r \in Rules |-> 0], refused |-> [r \in Rules |-> FALSE]]

LimiterInit ==
  /\ windows = [k \in Clients |-> NoRecord]
  /\ limiterNow = 0
  /\ checking = [t \in LimiterTasks |-> NotChecking]
  /\ judged = [k \in Clients |-> NothingJudged]

(***************************************************************************)
(* check: switched off or white-listed, the request passes; else the rule  *)
(* is looked up and the clock is read.                                     *)
(***************************************************************************)
LetThrough(k) == ~LimiterEnabled \/ k \in Whitelist

CheckBegin(t, forwarded, real, endpoint) ==
  LET k == ClientOf(forwarded, real)
  IN  /\ checking[t] = NotChecking
      /\ ~LetThrough(k)
      /\ \E rule \in RulesFor(endpoint) :
           checking' = [checking EXCEPT ![t] =
             [at |-> "counting", key |-> k, rule |-> rule, now |-> limiterNow]]
      /\ UNCHANGED <<windows, limiterNow, judged>>

\* The clock never runs backwards, but the entry may have been reset by a task
\* that read it later: the difference is then zero.
Elapsed(now, start) == IF now > start THEN now - start ELSE 0

\* History: one more request of the window was judged.
JudgedNow(past, rule, admitted) ==
  [made     |-> past.made + 1,
   admitted |-> IF admitted THEN [past.admitted EXCEPT ![rule] = @ + 1] ELSE past.admitted,
   refused  |-> [past.refused EXCEPT ![rule] = @ \/ ~admitted]]

\* Mutant of CheckCounts: the limit is one too high.
CheckCountsOneMore(t) ==
  LET c     == checking[t]
      entry == IF windows[c.key].kept THEN windows[c.key]
               ELSE [count |-> 0, window_start |-> c.now, kept |-> TRUE]
  IN  /\ c.at = "counting"
      /\ IF Elapsed(c.now, entry.window_start) >= c.rule.window_secs
           THEN /\ windows' = [windows EXCEPT ![c.key] =
                     [count |-> 1, window_start |-> c.now, kept |-> TRUE]]
                /\ judged' = [judged EXCEPT ![c.key] =
                     JudgedNow(NothingJudged, c.rule, TRUE)]
           ELSE /\ entry.count < MaxChecks
                /\ windows' = [windows EXCEPT ![c.key] =
                     [entry EXCEPT !.count = @ + 1]]
                /\ judged' = [judged EXCEPT ![c.key] =
                     JudgedNow(@, c.rule, ~(entry.count > c.rule.max_requests))]
      /\ checking' = [checking EXCEPT ![t] = NotChecking]
      /\ UNCHANGED limiterNow

(***************************************************************************)
(* check_memory under the entry's lock: a window that is over is replaced, *)
(* else the request is counted, and refused beyond the limit.              *)
(***************************************************************************)
CheckCounts(t) ==
  LET c     == checking[t]
      entry == IF windows[c.key].kept THEN windows[c.key]
               ELSE [count |-> 0, window_start |-> c.now, kept |-> TRUE]
  IN  /\ c.at = "counting"
      /\ IF Elapsed(c.now, entry.window_start) >= c.rule.window_secs
           THEN /\ windows' = [windows EXCEPT ![c.key] =
                     [count |-> 1, window_start |-> c.now, kept |-> TRUE]]
                /\ judged' = [judged EXCEPT ![c.key] =
                     JudgedNow(NothingJudged, c.rule, TRUE)]
           ELSE /\ entry.count < MaxChecks
                /\ windows' = [windows EXCEPT ![c.key] =
                     [entry EXCEPT !.count = @ + 1]]
                /\ judged' = [judged EXCEPT ![c.key] =
                     JudgedNow(@, c.rule, ~(entry.count + 1 > c.rule.max_requests))]
      /\ checking' = [checking EXCEPT ![t] = NotChecking]
      /\ UNCHANGED limiterNow

LimiterTick ==
  /\ limiterNow < MaxLimiterTime
  /\ limiterNow' = limiterNow + 1
  /\ UNCHANGED <<windows, checking, judged>>

LimiterNext ==
  \/ \E t \in LimiterTasks :
       \/ CheckCounts(t)
       \/ \E forwarded, real \in Clients \cup {NoAddress}, endpoint \in Endpoints :
            CheckBegin(t, forwarded, real, endpoint)
  \/ LimiterTick

LimiterSpec == LimiterInit /\ [][LimiterNext]_limiterVars

-----------------------------------------------------------------------------
LimiterTypeOK ==
  /\ windows \in [Clients -> [count : 0..MaxChecks, kept : BOOLEAN,
                              window_start : 0..MaxLimiterTime]]
  /\ limiterNow \in 0..MaxLimiterTime
  /\ checking \in [LimiterTasks -> {NotChecking} \cup
       [at : {"counting"}, key : Clients, rule : Rules, now : 0..MaxLimiterTime]]
  /\ judged \in [Clients -> [made : 0..MaxChecks, refused : [Rules -> BOOLEAN],
                             admitted : [Rules -> 0..MaxChecks]]]

\* In the window kept for a client no rule admits more requests than it allows,
\* however the checks of several tasks and rules mix, and a rule refuses only
\* when more requests than it allows have been made in that window; no request
\* goes uncounted.
WindowsHold ==
  \A k \in Clients :
    /\ windows[k].count = judged[k].made
    /\ ~LimiterEnabled \/ k \in Whitelist => ~windows[k].kept
    /\ \A r \in DOMAIN judged[k].admitted :
         /\ judged[k].admitted[r] <= r.max_requests
         /\ judged[k].refused[r] => judged[k].made > r.max_requests

(***************************************************************************)
(* What the proof in ServiceProofs needs besides: nothing was judged where *)
(* no window is kept, no rule admits more than was made, and only requests *)
(* that are not let through are counted.                                   *)
(***************************************************************************)
NothingUnkept ==
  \A k \in Clients : ~windows[k].kept => windows[k].count = 0

AdmittedWereMade ==
  \A k \in Clients, r \in Rules : judged[k].admitted[r] <= judged[k].made

OthersCounted ==
  \A t \in LimiterTasks :
    checking[t] # NotChecking => ~LetThrough(checking[t].key)

LimiterInv ==
  /\ LimiterTypeOK
  /\ WindowsHold
  /\ NothingUnkept
  /\ AdmittedWereMade
  /\ OthersCounted
=============================================================================
