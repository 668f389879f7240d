-------------------------- MODULE MCBackendClients --------------------------
(* Streamer a has a worker and a lister, streamer b a worker: at most       *)
(* three clients exist at a time.  With S3, b's worker has URIs of GCS,     *)
(* whose library is missing.  A streamer has credentials or has none; with  *)
(* Azure no account is configured in the environment.                      *)
EXTENDS BackendClients, TLC

CONSTANTS a, b, wa, wb, la

MCStreamerOf == (wa :> a) @@ (la :> a) @@ (wb :> b)

MCEndpoints == [e \in {"https://h"} |-> [host |-> "h", scheme |-> "https"]]
MCEnv ==
  [awsEndpoint |-> "https://h", overrideEndpoint |-> TRUE, caFile |-> "none",
   azure |-> [k \in AzureKeys |-> IF k = "account_key" THEN "" ELSE Null],
   gcsKeyFile |-> Null]

S3Setup ==
  [plugin |-> [u \in Users |-> IF u = wb THEN "GCS" ELSE "S3"],
   given |-> {<<<<"access_key_id", "k">>, <<"session_token", Null>>,
                <<"secret_access_key", "s">>>>}]
AzureSetup ==
  [plugin |-> [u \in Users |-> "Azure"],
   given |-> {<<<<"account_name", "n">>, <<"account_key", "">>>>}]
MCSetups == {S3Setup, AzureSetup}
Symmetry == Permutations(Clients)
=============================================================================
