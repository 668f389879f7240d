---------------------------- MODULE BackendClients ----------------------------
(***************************************************************************)
(* The object storage clients of one process: the static backend handle of *)
(* S3ClientWrapper, the ClientMgr of the loaded plugin, and the streamers  *)
(* that share them: their credentials, S3Stop and S3Cleanup, the workers   *)
(* of their object storage pool and their calls of list_files.  What a     *)
(* client is made of and when it is reused is ClientConfig's.              *)
(*                                                                         *)
(* Every plugin of the repository has the shutdown policy                  *)
(* ON_PROCESS_EXIT, so the handle, once made, stays.                       *)
(***************************************************************************)
EXTENDS ClientConfig, FiniteSets

CONSTANTS
  Streamers,     \* slots of streamers; a slot is reused by a later streamer
  Workers,       \* worker threads of object storage pools
  Listers,       \* threads that call list_files
  StreamerOf,    \* the streamer of a worker or lister
  DefaultPlugin, \* the plugin of Params(): the one for S3
  Missing,       \* plugins whose library cannot be loaded
  Setups,        \* the plugin of each worker and lister, by the scheme of its
                 \* URIs, and the pairs set_credentials may be given
  Clients,       \* addresses of clients
  MaxLive,       \* bound: streamers that exist at the same time
  NoPlugin, NoClient

Users == Workers \cup Listers
Plugins == {"S3", "GCS", "Azure"}

ASSUME BackendClientsAssumption ==
  /\ StreamerOf \in [Users -> Streamers]
  /\ Workers \cap Listers = {}
  /\ \A s \in Setups :
       /\ s.plugin \in [Users -> Plugins]
       /\ s.given \subseteq Seq(STRING \X STRING)
  /\ DefaultPlugin \in Plugins /\ NoPlugin \notin Plugins
  /\ NoClient \notin Clients
  /\ MaxLive \in Nat

VARIABLES
  setup,     \* which of Setups this process is
  handle,    \* plugin of the static __backend_handle, or NoPlugin
  clients,   \* _clients
  unused,    \* _unused_clients
  stopped,   \* clients whose _stop is set
  madeWith,  \* the configuration a client was made with
  phase,     \* of a streamer: "gone", "running", or a step of ~Streamer
  creds,     \* _credentials of a streamer
  s3Stop,    \* streamers with _s3_stop
  s3Cleanup, \* streamers with _s3
  pc,        \* of a user: "idle", "open", "pop", "create", "holding", "exited"
  want,      \* the credentials a user read for its client
  held       \* the client of the user's S3ClientWrapper

mgrVars == <<clients, unused, stopped, madeWith>>
streamerVars == <<phase, creds, s3Stop, s3Cleanup>>
userVars == <<pc, want, held>>
vars == <<setup, handle, mgrVars, streamerVars, userVars>>

PluginOf(u) == setup.plugin[u]
Credentials == {CredentialsOf(pairs) : pairs \in setup.given}
UsersOf(s) == {u \in Users : StreamerOf[u] = s}

Init ==
  /\ setup \in Setups
  /\ handle = NoPlugin
  /\ clients = {}
  /\ unused = {}
  /\ stopped = {}
  /\ madeWith = [c \in Clients |-> Config(NoCredentials)]
  /\ phase = [s \in Streamers |-> "gone"]
  /\ creds = [s \in Streamers |-> NoCredentials]
  /\ s3Stop = {}
  /\ s3Cleanup = {}
  /\ pc = [u \in Users |-> "exited"]
  /\ want = [u \in Users |-> NoCredentials]
  /\ held = [u \in Users |-> NoClient]

-----------------------------------------------------------------------------
(* The streamer *)

NewStreamer(s) ==
  /\ phase[s] = "gone"
  /\ Cardinality({t \in Streamers : phase[t] # "gone"}) < MaxLive
  /\ phase' = [phase EXCEPT ![s] = "running"]
  /\ pc' = [u \in Users |-> IF StreamerOf[u] = s THEN "idle" ELSE pc[u]]
  /\ UNCHANGED <<setup, handle, mgrVars, creds, s3Stop, s3Cleanup, want, held>>

(* set_credentials: the first call stores; the others change nothing. *)
SetCredentials(s, c) ==
  /\ phase[s] = "running"
  /\ creds[s] = NoCredentials
  /\ creds' = [creds EXCEPT ![s] = c]
  /\ UNCHANGED <<setup, handle, mgrVars, phase, s3Stop, s3Cleanup, userVars>>

(* The first object storage submission: handle_s3 makes _s3_stop and _s3,  *)
(* before the first workload is dispatched.                                *)
Submit(s) ==
  /\ phase[s] = "running"
  /\ s \notin s3Stop
  /\ s3Stop' = s3Stop \cup {s}
  /\ s3Cleanup' = s3Cleanup \cup {s}
  /\ UNCHANGED <<setup, handle, mgrVars, phase, creds, userVars>>

-----------------------------------------------------------------------------
(* A user gets its S3ClientWrapper *)

(* A worker has its first workload; capacity reads the credentials.  The   *)
(* pool drops its workloads only after S3Stop has run.                     *)
BuildClient(u) ==
  /\ u \in Workers
  /\ pc[u] = "idle"
  /\ StreamerOf[u] \in s3Stop
  /\ phase[StreamerOf[u]] \in {"running", "stopping", "cancelled"}
  /\ want' = [want EXCEPT ![u] = creds[StreamerOf[u]]]
  /\ pc' = [pc EXCEPT ![u] = "open"]
  /\ UNCHANGED <<setup, handle, mgrVars, streamerVars, held>>

(* A call of list_files. *)
List(u) ==
  /\ u \in Listers
  /\ pc[u] = "idle"
  /\ phase[StreamerOf[u]] = "running"
  /\ s3Cleanup' = s3Cleanup \cup {StreamerOf[u]}
  /\ want' = [want EXCEPT ![u] = creds[StreamerOf[u]]]
  /\ pc' = [pc EXCEPT ![u] = "open"]
  /\ UNCHANGED <<setup, handle, mgrVars, phase, creds, s3Stop, held>>

(* manage_backend_handle(CREATE) with a plugin: the handle is made once.   *)
Handle(plugin) == IF handle = NoPlugin THEN plugin ELSE handle
Loads(plugin) == handle # NoPlugin \/ plugin \notin Missing

OpenBackend(u) ==
  /\ pc[u] = "open"
  /\ Loads(PluginOf(u))
  /\ handle' = Handle(PluginOf(u))
  /\ pc' = [pc EXCEPT ![u] = "pop"]
  /\ UNCHANGED <<setup, mgrVars, streamerVars, want, held>>

(* The library is missing: the constructor throws, and a worker tries      *)
(* again with its next workload.                                           *)
OpenFails(u) ==
  /\ pc[u] = "open"
  /\ ~Loads(PluginOf(u))
  /\ pc' = [pc EXCEPT ![u] = "idle"]
  /\ want' = [want EXCEPT ![u] = NoCredentials]
  /\ UNCHANGED <<setup, handle, mgrVars, streamerVars, held>>

-----------------------------------------------------------------------------
(* ClientMgr *)

(* verify_credentials of a client of the plugin that is loaded *)
Verified(c, u) == VerifyCredentials(handle, madeWith[c], Config(want[u]))

(* Clients are deleted. *)
Delete(dead) ==
  /\ clients' = clients \ dead
  /\ stopped' = stopped \ dead
  /\ madeWith' = [c \in Clients |-> IF c \in dead THEN Config(NoCredentials)
                                     ELSE madeWith[c]]

(* Mutant of PopReuse: the client stays among the unused ones. *)
PopReuseKeeps(u) ==
  \E c \in unused :
    /\ pc[u] = "pop"
    /\ Verified(c, u)
    /\ held' = [held EXCEPT ![u] = c]
    /\ pc' = [pc EXCEPT ![u] = "holding"]
    /\ UNCHANGED <<setup, handle, mgrVars, streamerVars, want>>

(* pop finds a client.  The unused ones are tried in the order of their    *)
(* addresses, so any of the others that do not match may be gone before.   *)
PopReuse(u) ==
  \E c \in unused : \E stale \in SUBSET {d \in unused : ~Verified(d, u)} :
    /\ pc[u] = "pop"
    /\ Verified(c, u)
    /\ unused' = unused \ (stale \cup {c})
    /\ Delete(stale)
    /\ held' = [held EXCEPT ![u] = c]
    /\ pc' = [pc EXCEPT ![u] = "holding"]
    /\ UNCHANGED <<setup, handle, streamerVars, want>>

(* pop finds none: every unused client is stale.  It leaves the lock. *)
PopMiss(u) ==
  /\ pc[u] = "pop"
  /\ \A c \in unused : ~Verified(c, u)
  /\ unused' = {}
  /\ Delete(unused)
  /\ pc' = [pc EXCEPT ![u] = "create"]
  /\ UNCHANGED <<setup, handle, streamerVars, want, held>>

(* The new client, made without the lock, is registered with it. *)
Create(u) ==
  \E c \in Clients \ clients :
    /\ pc[u] = "create"
    /\ ~Throws(handle, Config(want[u]))
    /\ clients' = clients \cup {c}
    /\ madeWith' = [madeWith EXCEPT ![c] = Config(want[u])]
    /\ held' = [held EXCEPT ![u] = c]
    /\ pc' = [pc EXCEPT ![u] = "holding"]
    /\ UNCHANGED <<setup, handle, unused, stopped, streamerVars, want>>

(* The constructor throws, for what it was given or because of the SDK.    *)
CreateThrows(u) ==
  /\ pc[u] = "create"
  /\ pc' = [pc EXCEPT ![u] = "idle"]
  /\ want' = [want EXCEPT ![u] = NoCredentials]
  /\ UNCHANGED <<setup, handle, mgrVars, streamerVars, held>>

(* ~S3ClientWrapper: push.  A lister is then ready for another call, a     *)
(* worker has left its thread, for which its pool must be stopping.        *)
Release(u) ==
  /\ pc[u] = "holding"
  /\ u \in Workers => phase[StreamerOf[u]] = "cancelled"
  /\ unused' = unused \cup {held[u]}
  /\ held' = [held EXCEPT ![u] = NoClient]
  /\ pc' = [pc EXCEPT ![u] = IF u \in Workers THEN "exited" ELSE "idle"]
  /\ want' = [want EXCEPT ![u] = NoCredentials]
  /\ UNCHANGED <<setup, handle, clients, stopped, madeWith, streamerVars>>

(* A worker without a client leaves its thread. *)
Exit(u) ==
  /\ u \in Workers
  /\ pc[u] = "idle"
  /\ phase[StreamerOf[u]] = "cancelled"
  /\ pc' = [pc EXCEPT ![u] = "exited"]
  /\ UNCHANGED <<setup, handle, mgrVars, streamerVars, want, held>>

-----------------------------------------------------------------------------
(* ~Streamer *)

(* The body of the destructor; the application's calls have returned. *)
StopResponder(s) ==
  /\ phase[s] = "running"
  /\ \A u \in UsersOf(s) \cap Listers : pc[u] = "idle"
  /\ phase' = [phase EXCEPT ![s] = "stopping"]
  /\ UNCHANGED <<setup, handle, mgrVars, creds, s3Stop, s3Cleanup, userVars>>

(* ~S3Stop: cancel_all_reads stops every client of the process.  Without a *)
(* handle, one of the default plugin is made for it.                       *)
CancelReads(s) ==
  /\ phase[s] = "stopping"
  /\ phase' = [phase EXCEPT ![s] = "cancelled"]
  /\ IF s \in s3Stop /\ Loads(DefaultPlugin)
     THEN handle' = Handle(DefaultPlugin) /\ stopped' = stopped \cup clients
     ELSE UNCHANGED <<handle, stopped>>
  /\ s3Stop' = s3Stop \ {s}
  /\ UNCHANGED <<setup, clients, unused, madeWith, creds, s3Cleanup, userVars>>

(* ~BackendPools: the threads are joined. *)
JoinPools(s) ==
  /\ phase[s] = "cancelled"
  /\ \A u \in UsersOf(s) \cap Workers : pc[u] = "exited"
  /\ phase' = [phase EXCEPT ![s] = "joined"]
  /\ UNCHANGED <<setup, handle, mgrVars, creds, s3Stop, s3Cleanup, userVars>>

(* clear gives up when a client is in use. *)
Clearable == Cardinality(unused) = Cardinality(clients)

(* ~S3Cleanup: shutdown calls remove_all_clients. *)
CleanUp(s) ==
  /\ phase[s] = "joined"
  /\ phase' = [phase EXCEPT ![s] = "gone"]
  /\ IF s \in s3Cleanup /\ Loads(DefaultPlugin)
     THEN /\ handle' = Handle(DefaultPlugin)
          /\ IF Clearable
             THEN Delete(clients) /\ unused' = {}
             ELSE UNCHANGED mgrVars
     ELSE UNCHANGED <<handle, mgrVars>>
  /\ s3Cleanup' = s3Cleanup \ {s}
  /\ creds' = [creds EXCEPT ![s] = NoCredentials]
  /\ UNCHANGED <<setup, s3Stop, userVars>>

-----------------------------------------------------------------------------
StreamerNext(s) ==
  \/ NewStreamer(s)
  \/ \E c \in Credentials : SetCredentials(s, c)
  \/ Submit(s)
  \/ StopResponder(s)
  \/ CancelReads(s)
  \/ JoinPools(s)
  \/ CleanUp(s)

UserNext(u) ==
  \/ BuildClient(u)
  \/ List(u)
  \/ OpenBackend(u)
  \/ OpenFails(u)
  \/ PopReuse(u)
  \/ PopMiss(u)
  \/ Create(u)
  \/ CreateThrows(u)
  \/ Release(u)
  \/ Exit(u)

Next == (\E s \in Streamers : StreamerNext(s)) \/ (\E u \in Users : UserNext(u))

Spec == Init /\ [][Next]_vars

-----------------------------------------------------------------------------
(* Properties *)

Holders == {u \in Users : held[u] # NoClient}

(* A client that exists is either unused or in one wrapper, so the count   *)
(* that clear compares is the number of clients in use: no pop and no      *)
(* S3Cleanup of another streamer destroys a client someone has a pointer   *)
(* to, and no two users get the same one.  When the last streamer is gone  *)
(* none is left, although clear may have given up for some of them.        *)
ClientsAreAccounted ==
  /\ (\A s \in Streamers : phase[s] = "gone") => clients = {}
  /\ clients = unused \cup {held[u] : u \in Holders}
  /\ \A u \in Holders :
       /\ held[u] \notin unused
       /\ \A v \in Holders : held[v] = held[u] => v = u

(* A client, made or reused, has what a client made for the user now would *)
(* have: its requests go to the same place and are signed with the same    *)
(* credentials, those of the user's own streamer, or none if they were set *)
(* after it was built.  It never is one that another streamer left behind  *)
(* with other credentials.                                                 *)
CredentialsAreTheStreamers ==
  \A u \in Holders :
    /\ want[u] \in {creds[StreamerOf[u]], NoCredentials}
    /\ Uses(handle, madeWith[held[u]]) = Uses(handle, Config(want[u]))

=============================================================================
