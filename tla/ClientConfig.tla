---------------------------- MODULE ClientConfig ----------------------------
(***************************************************************************)
(* From what an application gives set_credentials to what a client of a    *)
(* plugin uses: the Credentials, the ObjectClientConfig_t made of them,    *)
(* the members a client's constructor fills from it and the environment,   *)
(* and verify_credentials, which decides whether a client may be reused.   *)
(* Strings stand for themselves; Null is a null pointer or an empty        *)
(* optional, "" the empty string.                                          *)
(***************************************************************************)
EXTENDS Naturals, Sequences, FiniteSetsExt

CONSTANTS
  Env,       \* the environment variables that are read
  Endpoints  \* [endpoint -> its host and its scheme, which may be Null]

Null == "null"

(* Credentials(keys, values, num_params): a pair with a null is skipped,   *)
(* and of two pairs with the same key the last one counts.                 *)
CredentialsOf(pairs) ==
  LET kept == {i \in DOMAIN pairs : pairs[i][1] # Null /\ pairs[i][2] # Null}
  IN  [k \in {pairs[i][1] : i \in kept} |->
         pairs[Max({i \in kept : pairs[i][1] = k})][2]]

NoCredentials == CredentialsOf(<<>>)

Get(params, key) == IF key \in DOMAIN params THEN params[key] ELSE Null

(* Params: the endpoint of the credentials, else that of the environment,  *)
(* unless the environment says that it is left to the SDK.                 *)
Endpoint(creds) ==
  IF "endpoint" \in DOMAIN creds THEN creds["endpoint"]
  ELSE IF Env.awsEndpoint # Null /\ Env.overrideEndpoint THEN Env.awsEndpoint
  ELSE ""

(* to_config; the endpoint is not one of the parameters. *)
Config(creds) ==
  [endpoint |-> IF Endpoint(creds) = "" THEN Null ELSE Endpoint(creds),
   params |-> [k \in DOMAIN creds \ {"endpoint"} |-> creds[k]]]

-----------------------------------------------------------------------------
(* S3 *)

(* The members of S3ClientBase. *)
S3Members(cfg) ==
  [key |-> Get(cfg.params, "access_key_id"),
   secret |-> Get(cfg.params, "secret_access_key"),
   token |-> Get(cfg.params, "session_token"),
   region |-> Get(cfg.params, "region"),
   endpoint |-> cfg.endpoint]

(* Mutant of S3Verified: what the client does not have is not compared. *)
S3VerifiedIfSet(made, cfg) ==
  \A k \in DOMAIN S3Members(made) :
    S3Members(made)[k] \in {Null, S3Members(cfg)[k]}

(* verify_credentials_member of each: both unset, or both set and equal.   *)
S3Verified(made, cfg) == S3Members(made) = S3Members(cfg)

(* The constructor of S3Client refuses an endpoint without a host and a    *)
(* certificate file that does not exist.                                   *)
S3Throws(cfg) ==
  \/ cfg.endpoint # Null /\ Endpoints[cfg.endpoint].host = ""
  \/ Env.caFile = "missing"

(* What the requests of the client go to and are signed with. *)
S3Uses(cfg) ==
  LET m == S3Members(cfg)
  IN  [auth |-> IF m.key # Null /\ m.secret # Null
                THEN <<"given", m.key, m.secret,
                       IF m.token = Null THEN "" ELSE m.token>>
                ELSE <<"default chain">>,
       region |-> m.region,
       to |-> IF m.endpoint = Null THEN "the SDK's endpoint"
              ELSE Endpoints[m.endpoint]]

-----------------------------------------------------------------------------
(* Azure *)

AzureKeys == {"account_name", "account_key", "sas_token", "endpoint_suffix"}

(* ClientConfiguration: an empty variable is as good as none. *)
AzureEnv ==
  [k \in AzureKeys |->
     IF Env.azure[k] \notin {Null, ""} THEN Env.azure[k]
     ELSE IF k = "endpoint_suffix" THEN "blob.core.windows.net" ELSE Null]

(* The members of AzureClient: the environment's, overridden by the        *)
(* parameters that are not empty.                                          *)
AzureMembers(cfg) ==
  [k \in AzureKeys |-> IF Get(cfg.params, k) \notin {Null, ""}
                       THEN cfg.params[k] ELSE AzureEnv[k]]

(* verify_credentials compares them with the environment's overridden by   *)
(* all parameters, the empty ones too.                                     *)
AzureVerified(made, cfg) ==
  \A k \in AzureKeys :
    AzureMembers(made)[k] =
      IF k \in DOMAIN cfg.params THEN cfg.params[k] ELSE AzureEnv[k]

AzureThrows(cfg) == AzureMembers(cfg)["account_name"] = Null

(* A SAS token comes before an account key, which comes before the default *)
(* credential of the process.                                              *)
AzureUses(cfg) ==
  LET m == AzureMembers(cfg)
  IN  [auth |-> IF m["sas_token"] # Null THEN <<"sas", m["sas_token"]>>
                ELSE IF m["account_key"] # Null
                THEN <<"key", m["account_name"], m["account_key"]>>
                ELSE <<"default credential">>,
       to |-> <<m["account_name"], m["endpoint_suffix"]>>]

-----------------------------------------------------------------------------
(* GCS: the parameters are ignored, the environment names a key file.      *)

GcsVerified(made, cfg) == TRUE
GcsThrows(cfg) == Env.gcsKeyFile = "unreadable"
GcsUses(cfg) == [auth |-> Env.gcsKeyFile]

-----------------------------------------------------------------------------
(* By plugin *)

VerifyCredentials(plugin, made, cfg) ==
  CASE plugin = "S3" -> S3Verified(made, cfg)
    [] plugin = "Azure" -> AzureVerified(made, cfg)
    [] plugin = "GCS" -> GcsVerified(made, cfg)

Throws(plugin, cfg) ==
  CASE plugin = "S3" -> S3Throws(cfg)
    [] plugin = "Azure" -> AzureThrows(cfg)
    [] plugin = "GCS" -> GcsThrows(cfg)

Uses(plugin, cfg) ==
  CASE plugin = "S3" -> S3Uses(cfg)
    [] plugin = "Azure" -> AzureUses(cfg)
    [] plugin = "GCS" -> GcsUses(cfg)
=============================================================================
