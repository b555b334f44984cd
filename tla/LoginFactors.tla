----------------------------- MODULE LoginFactors -----------------------------
(* What yma-auth asks of a user beside the password.                       *)
EXTENDS Naturals, FiniteSets, Sequences, SequencesExt, Lists

(***************************************************************************)
(* Second factors of yma-auth (mfa.rs, totp.rs): per user a secret, whose  *)
(* code changes every interval, and backup codes that are spent one by     *)
(* one.  Every operation works under the one lock of the table; a code is  *)
(* taken to be the secret and the interval it was made for.                *)
(***************************************************************************)
CONSTANTS
  MfaUsers,
  BackupCodes,            (* the codes the generator can draw              *)
  CodesPerUser,           (* eight in the code                             *)
  TotpInterval,           (* TOTP_INTERVAL, in seconds                     *)
  MaxSecrets,             (* bound on the secrets ever drawn               *)
  MaxMfaTime              (* bound on the clock, in seconds                *)

ASSUME MfaBounds ==
  /\ {CodesPerUser, MaxSecrets, MaxMfaTime} \subseteq Nat
  /\ TotpInterval \in Nat \ {0}

VARIABLES
  mfaConfigs,             (* mfaConfigs[u]: the user's configuration       *)
  mfaNow,
  secretsDrawn,           (* the secrets drawn so far, each a new number   *)
  spentCodes              (* history: spentCodes[u]: the backup codes      *)
                          (* accepted since the factor was enabled         *)

mfaVars == <<mfaConfigs, mfaNow, secretsDrawn, spentCodes>>

NoMfa == [enabled |-> FALSE]

MfaInit ==
  /\ mfaConfigs = [u \in MfaUsers |-> NoMfa]
  /\ mfaNow = 0
  /\ secretsDrawn = 0
  /\ spentCodes = [u \in MfaUsers |-> {}]

\* enable_totp, again or for the first time: everything is drawn anew.  That two
\* of the eight codes come out equal (32 bits each) is left out.
EnableTotp(u) ==
  /\ secretsDrawn < MaxSecrets
  /\ secretsDrawn' = secretsDrawn + 1
  /\ \E codes \in SUBSET BackupCodes :
       /\ Cardinality(codes) = CodesPerUser
       /\ mfaConfigs' = [mfaConfigs EXCEPT ![u] =
            [enabled |-> TRUE, totp_secret |-> secretsDrawn + 1,
             backup_codes |-> codes]]
  /\ spentCodes' = [spentCodes EXCEPT ![u] = {}]
  /\ UNCHANGED mfaNow

Disable(u) ==
  /\ mfaConfigs[u].enabled
  /\ mfaConfigs' = [mfaConfigs EXCEPT ![u] = NoMfa]
  /\ spentCodes' = [spentCodes EXCEPT ![u] = {}]
  /\ UNCHANGED <<mfaNow, secretsDrawn>>

\* Mutant of VerifyBackupCode: the code stays on the list.
VerifyBackupCodeAgain(u, code) ==
  /\ mfaConfigs[u].enabled
  /\ code \in mfaConfigs[u].backup_codes
  /\ spentCodes' = [spentCodes EXCEPT ![u] = @ \cup {code}]
  /\ UNCHANGED <<mfaConfigs, mfaNow, secretsDrawn>>

VerifyBackupCode(u, code) ==
  /\ mfaConfigs[u].enabled
  /\ code \in mfaConfigs[u].backup_codes
  /\ mfaConfigs' = [mfaConfigs EXCEPT ![u].backup_codes = @ \ {code}]
  /\ spentCodes' = [spentCodes EXCEPT ![u] = @ \cup {code}]
  /\ UNCHANGED <<mfaNow, secretsDrawn>>

MfaTick ==
  /\ mfaNow < MaxMfaTime
  /\ mfaNow' = mfaNow + 1
  /\ UNCHANGED <<mfaConfigs, secretsDrawn, spentCodes>>

MfaNext ==
  \/ \E u \in MfaUsers : \/ EnableTotp(u)
                         \/ Disable(u)
                         \/ \E code \in BackupCodes : VerifyBackupCode(u, code)
  \/ MfaTick

MfaSpec == MfaInit /\ [][MfaNext]_mfaVars

-----------------------------------------------------------------------------
\* generate: the code of the interval the time lies in.
TotpCode(secret, time) == [secret |-> secret, counter |-> time \div TotpInterval]

\* verify: the window is counted in seconds, not in intervals.
TotpVerify(secret, code, window) ==
  \E offset \in 0..window :
    \/ code = TotpCode(secret, mfaNow + offset)
    \/ code = TotpCode(secret, IF mfaNow > offset THEN mfaNow - offset ELSE 0)

\* verify_totp of the service
VerifyTotp(u, code) ==
  /\ mfaConfigs[u].enabled
  /\ TotpVerify(mfaConfigs[u].totp_secret, code, 1)

-----------------------------------------------------------------------------
MfaConfig ==
  [enabled : {TRUE}, totp_secret : 1..MaxSecrets, backup_codes : SUBSET BackupCodes]

MfaTypeOK ==
  /\ mfaConfigs \in [MfaUsers -> {NoMfa} \cup MfaConfig]
  /\ mfaNow \in 0..MaxMfaTime
  /\ secretsDrawn \in 0..MaxSecrets
  /\ spentCodes \in [MfaUsers -> SUBSET BackupCodes]

\* A backup code that was accepted is not accepted again while the factor
\* stays as it was enabled, and no code gets lost; the code of the present
\* interval passes for its own user only, and one of an interval that is more
\* than a second away does not.
SecondFactorHolds ==
  \A u \in MfaUsers : mfaConfigs[u].enabled =>
    /\ spentCodes[u] \cap mfaConfigs[u].backup_codes = {}
    /\ Cardinality(spentCodes[u] \cup mfaConfigs[u].backup_codes) = CodesPerUser
    /\ VerifyTotp(u, TotpCode(mfaConfigs[u].totp_secret, mfaNow))
    /\ \A v \in MfaUsers : mfaConfigs[v].enabled /\ u # v =>
         ~VerifyTotp(u, TotpCode(mfaConfigs[v].totp_secret, mfaNow))
    /\ \A time \in 0..MaxMfaTime :
         VerifyTotp(u, TotpCode(mfaConfigs[u].totp_secret, time)) <=>
           \E near \in 0..(MaxMfaTime + 1) :
             /\ near <= mfaNow + 1 /\ mfaNow <= near + 1
             /\ near \div TotpInterval = time \div TotpInterval

(***************************************************************************)
(* What the proof in ServiceProofs needs: secrets are drawn once, and the  *)
(* codes drawn for a user are the ones that are left and the ones spent.   *)
(***************************************************************************)
SecretsDiffer ==
  \A u \in MfaUsers : mfaConfigs[u].enabled =>
    /\ mfaConfigs[u].totp_secret <= secretsDrawn
    /\ \A v \in MfaUsers : mfaConfigs[v].enabled /\ u # v =>
         mfaConfigs[u].totp_secret # mfaConfigs[v].totp_secret

CodesKept ==
  \A u \in MfaUsers : mfaConfigs[u].enabled =>
    /\ spentCodes[u] \cap mfaConfigs[u].backup_codes = {}
    /\ Cardinality(spentCodes[u] \cup mfaConfigs[u].backup_codes) = CodesPerUser

MfaInv == MfaTypeOK /\ SecretsDiffer /\ CodesKept

-----------------------------------------------------------------------------
(***************************************************************************)
(* Single sign-on of yma-auth (sso.rs): the providers, and the states of   *)
(* the authorisations that were begun, each of which is good for one       *)
(* answer within ten minutes.  The manager is used by one thread at a time.*)
(***************************************************************************)
CONSTANTS
  SsoProviderIds,
  MaxProviders,           (* bound on the providers registered              *)
  SsoLifetime,            (* ten minutes                                    *)
  MaxSsoStates,           (* bound on the authorisations begun              *)
  MaxSsoTime              (* bound on the clock                             *)

ASSUME SsoBounds == {MaxProviders, SsoLifetime, MaxSsoStates, MaxSsoTime} \subseteq Nat

VARIABLES
  ssoProviders,           (* the providers, in the order of registration    *)
  states,                 (* the states that wait for their answer          *)
  ssoNow,
  stateTokens,            (* the state tokens drawn, each a new number      *)
  stateAnswers            (* history: stateAnswers[t]: how often state t was *)
                          (* given out by validate_state                   *)

ssoVars == <<ssoProviders, states, ssoNow, stateTokens, stateAnswers>>

SsoInit ==
  /\ ssoProviders = <<>>
  /\ states = <<>>
  /\ ssoNow = 0
  /\ stateTokens = 0
  /\ stateAnswers = [t \in 1..MaxSsoStates |-> 0]

\* register_provider: an id may be registered again; the first is found.
RegisterSso(id, enabled) ==
  /\ Len(ssoProviders) < MaxProviders
  /\ ssoProviders' = Append(ssoProviders, [id |-> id, enabled |-> enabled])
  /\ UNCHANGED <<states, ssoNow, stateTokens, stateAnswers>>

ProviderAt(id) == SelectInSeq(ssoProviders, LAMBDA p : p.id = id)

RemoveSso(id) ==
  /\ ProviderAt(id) # 0
  /\ ssoProviders' = RemoveAt(ssoProviders, ProviderAt(id))
  /\ UNCHANGED <<states, ssoNow, stateTokens, stateAnswers>>

GenerateAuthUrl(id) ==
  /\ ProviderAt(id) # 0
  /\ ssoProviders[ProviderAt(id)].enabled
  /\ stateTokens < MaxSsoStates
  /\ stateTokens' = stateTokens + 1
  /\ states' = Append(states, [state_token |-> stateTokens + 1, provider_id |-> id,
                               expires_at |-> ssoNow + SsoLifetime])
  /\ UNCHANGED <<ssoProviders, ssoNow, stateAnswers>>

StateAt(token) == SelectInSeq(states, LAMBDA s : s.state_token = token)

\* validate_state: the state is taken off the list, whether it is in time or not.
ValidateState(token) ==
  LET pos == StateAt(token)
  IN  /\ pos # 0
      /\ states' = RemoveAt(states, pos)
      /\ stateAnswers' = IF ssoNow <= states[pos].expires_at
                    THEN [stateAnswers EXCEPT ![token] = @ + 1]
                    ELSE stateAnswers
      /\ UNCHANGED <<ssoProviders, ssoNow, stateTokens>>

CleanupExpiredStates ==
  /\ states' = Retain(states, {i \in DOMAIN states : ssoNow <= states[i].expires_at})
  /\ UNCHANGED <<ssoProviders, ssoNow, stateTokens, stateAnswers>>

SsoTick ==
  /\ ssoNow < MaxSsoTime
  /\ ssoNow' = ssoNow + 1
  /\ UNCHANGED <<ssoProviders, states, stateTokens, stateAnswers>>

SsoNext ==
  \/ \E id \in SsoProviderIds :
       \/ \E enabled \in BOOLEAN : RegisterSso(id, enabled)
       \/ RemoveSso(id)
       \/ GenerateAuthUrl(id)
  \/ \E token \in 1..MaxSsoStates : ValidateState(token)
  \/ CleanupExpiredStates
  \/ SsoTick

SsoSpec == SsoInit /\ [][SsoNext]_ssoVars

-----------------------------------------------------------------------------
SsoState ==
  [state_token : 1..MaxSsoStates, provider_id : SsoProviderIds,
   expires_at : 0..(MaxSsoTime + SsoLifetime)]

SsoTypeOK ==
  /\ ssoProviders \in Seq([id : SsoProviderIds, enabled : BOOLEAN])
  /\ states \in Seq(SsoState)
  /\ ssoNow \in 0..MaxSsoTime
  /\ stateTokens \in 0..MaxSsoStates
  /\ stateAnswers \in [1..MaxSsoStates -> 0..MaxSsoStates]

\* The state of an authorisation is given out at most once: while it waits it
\* has not been given out, and it waits in one place.
StatesAnsweredOnce ==
  /\ \A t \in 1..MaxSsoStates :
       /\ stateAnswers[t] <= 1
       /\ stateAnswers[t] = 1 => StateAt(t) = 0 /\ t <= stateTokens
  /\ \A i, j \in DOMAIN states :
       states[i].state_token = states[j].state_token => i = j

(***************************************************************************)
(* What the proof in SystemProofs needs: a state that was given out is     *)
(* nowhere on the list, and only what was drawn waits, in one place.       *)
(***************************************************************************)
AnsweredAreGone ==
  \A t \in 1..MaxSsoStates :
    /\ stateAnswers[t] <= 1
    /\ stateAnswers[t] = 1 =>
         t <= stateTokens /\ \A i \in DOMAIN states : states[i].state_token # t

StatesDiffer ==
  \A i, j \in DOMAIN states : states[i].state_token = states[j].state_token => i = j

StatesWereDrawn == \A i \in DOMAIN states : states[i].state_token <= stateTokens

SsoInv == SsoTypeOK /\ AnsweredAreGone /\ StatesDiffer /\ StatesWereDrawn
=============================================================================
