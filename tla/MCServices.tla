------------------------------ MODULE MCServices ------------------------------
(* Services for TLC. *)
EXTENDS Services

MCEvents ==
  {[type |-> "order", source |-> "shop", priority |-> "Low"],
   [type |-> "order", source |-> "admin", priority |-> "High"],
   [type |-> "login", source |-> "shop", priority |-> "Normal"]}

MCFilters ==
  {[event_types |-> {"order"}, sources |-> NoFilter, min_priority |-> NoFilter],
   [event_types |-> NoFilter, sources |-> {"shop"}, min_priority |-> "Normal"]}

MCFileOf(key) == IF key = "a/b" THEN "a_b" ELSE key

MCLengthOf(part) == IF part \in {"k1", "k2"} THEN 8 ELSE IF part = "long" THEN 24 ELSE 3

MCPrefixesOf(endpoint) == IF endpoint = "/api/login" THEN {"/api", "/api/login"} ELSE {}

MCEndpointRules ==
  [p \in {"/api", "/api/login"} |->
     IF p = "/api" THEN [max_requests |-> 2, window_secs |-> 1]
     ELSE [max_requests |-> 0, window_secs |-> 2]]

MCDefaultRule == [max_requests |-> 3, window_secs |-> 2]

MCFreshName == <<"uuid">>

MCSystemCodes == <<"user">>

MCChecks == <<"db", "redis", "redis">>

MCCards ==
  {[i \in 1..17 |-> (i * i) % 10], [i \in 1..17 |-> (7 * i + 3) % 10],
   [i \in 1..17 |-> 9], <<1, 1, 0, 1, 0, 1, 1, 9, 9, 0, 0, 1, 0, 1, 1, 2, 3>>}

MCOctets == UNION {[1..n -> 0..9] : n \in 1..3} \cup {<<0, 0, 0, 1>>, <<2, 5, 5, 0>>}

MCCounts == [Classes -> {0, 1, 2, 5, 120}]

MCRawInputs == UNION {[1..n -> {" ", "x"}] : n \in 0..6}

MCFileNames ==
  UNION {[1..n -> {"/", "back", "nul", ".", "x"}] : n \in 0..4}

MCKeyOf(grant) == grant[1] \o ":" \o grant[2]

MCRoleDefs ==
  [permissions : {<<>>, <<<<"doc", "read">>>>, <<<<"log", "read">>>>,
                  <<<<"doc", "*">>, <<"log", "read">>, <<"doc", "*">>>>,
                  <<<<"doc:x", "read">>, <<"doc", "x:read">>>>},
   parent : {"editor", "viewer", "doc:read", Nobody}]

MCGraphs ==
  {graph \in UNION {[rs -> MCRoleDefs] : rs \in SUBSET {"editor", "viewer", "doc:read"}} :
     "doc:read" \in DOMAIN graph => graph["doc:read"].parent = Nobody}

MCRoleLists == {<<"viewer">>, <<"editor", "viewer", "editor">>, <<"doc:read", "editor">>}

MCTokens ==
  [sub : {"me", "no uuid"}, role : {"user", "admin"}, granted : {{}, {"doc:read"}, {"*"}},
   now : {0}, wait : {0, 1, 2, 4}, ttl : [access : {1, 3}, refresh : {2, 4}],
   refreshes : {"access", "refresh"}, presents : {"token", "forged", "none"},
   public : {{<<"h">>, <<"a", "b">>}}, path : {<<"h", "x">>, <<"a">>, <<"a", "b", "c">>}]

MCTexts ==
  {[length |-> 3, rules |-> {1}, bracket |-> FALSE, dangerous |-> FALSE, rich |-> FALSE, done |-> "kept"],
   [length |-> 9, rules |-> {2, 4}, bracket |-> TRUE, dangerous |-> TRUE, rich |-> TRUE, done |-> "kept"],
   [length |-> 10001, rules |-> {1}, bracket |-> TRUE, dangerous |-> FALSE, rich |-> FALSE, done |-> "kept"],
   [length |-> 5, rules |-> {1}, bracket |-> TRUE, dangerous |-> FALSE, rich |-> TRUE, done |-> "kept"]}

MCLeaves == {[kind |-> "string", text |-> t] : t \in MCTexts} \cup {[kind |-> "other"]}
MCFlat == {[kind |-> k, items |-> s] :
             k \in {"array", "object"}, s \in {<<>>} \cup [1..2 -> MCLeaves]}
MCBodies == MCLeaves \cup MCFlat \cup
  {[kind |-> "object", items |-> <<a, b>>] :
     a \in MCLeaves, b \in {f \in MCFlat : f.kind = "array"}}

MCRequests ==
  [method : {"POST"}, json : {TRUE}, size : {100}, utf8 : {TRUE},
   parses : {TRUE}, body : MCBodies]
  \cup [method : {"GET", "PUT"}, json : BOOLEAN, size : {1048576, 1048577},
        utf8 : BOOLEAN, parses : BOOLEAN,
        body : {[kind |-> "string", text |-> t] : t \in MCTexts}]

MCLowerOf(c) == IF c = "P" THEN "p" ELSE c

MCUploads ==
  [size : {0, 1, 5}, max : {1, 4},
   name : UNION {[1..n -> {".", "p", "P", "q"}] : n \in 0..3},
   allowed : {{}, {<<"p">>}, {<<"p", "p">>, <<"q">>}},
   mime : {"text"}, mimes : {{}, {"text"}, {"image"}}]

MCMailForms ==
  [to : {<<>>, <<TRUE>>, <<FALSE, TRUE>>}, cc : {<<>>, <<TRUE>>}, bcc : {<<>>, <<FALSE>>},
   text : BOOLEAN, html : {FALSE}, from : BOOLEAN, taken : BOOLEAN]

MCMails == UNION {[1..n -> MCMailForms] : n \in 0..2}
=============================================================================
