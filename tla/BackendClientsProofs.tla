------------------------- MODULE BackendClientsProofs -------------------------
(***************************************************************************)
(* Theorems about BackendClients, for any streamers, workers, listers,     *)
(* client addresses and plugins, and any number of streamers at a time.    *)
(***************************************************************************)
EXTENDS BackendClients, FiniteSetTheorems, TLAPS

Phases == {"gone", "running", "stopping", "cancelled", "joined"}
Active == {"open", "pop", "create", "holding"}

TypeOK ==
  /\ setup \in Setups
  /\ handle \in Plugins \cup {NoPlugin}
  /\ clients \subseteq Clients /\ IsFiniteSet(clients)
  /\ phase \in [Streamers -> Phases]
  /\ s3Stop \subseteq Streamers
  /\ s3Cleanup \subseteq Streamers
  /\ pc \in [Users -> Active \cup {"idle", "exited"}]
  /\ held \in [Users -> Clients \cup {NoClient}]

(* A wrapper has a client from pop to push. *)
HeldWhileHolding == \A u \in Users : pc[u] = "holding" <=> held[u] # NoClient

(* Each client is unused or in one wrapper. *)
InOnePlace ==
  /\ unused \subseteq clients
  /\ \A u \in Holders :
       /\ held[u] \in clients \ unused
       /\ \A v \in Holders : held[v] = held[u] => v = u
  /\ \A c \in clients : c \in unused \/ \E u \in Holders : held[u] = c

(* A user is at work only while its streamer lives: a lister while it runs *)
(* and a worker until it is joined.                                        *)
WorksForLiving ==
  \A u \in Users : pc[u] \in Active =>
    /\ StreamerOf[u] \in s3Cleanup
    /\ phase[StreamerOf[u]] \in {"running", "stopping", "cancelled"}
    /\ u \in Listers => phase[StreamerOf[u]] = "running"

(* The destructor's members are there as long as they are needed. *)
MembersOrder ==
  /\ s3Stop \subseteq s3Cleanup
  /\ \A s \in s3Stop : phase[s] \in {"running", "stopping"}
  /\ \A s \in s3Cleanup : phase[s] # "gone"

(* Clients come from a backend, and some streamer will clean them up. *)
ClientsHaveOwner ==
  /\ \A u \in Users :
       pc[u] \in {"pop", "create", "holding"} => handle # NoPlugin
  /\ clients # {} => handle # NoPlugin /\ s3Cleanup # {}

IInv ==
  /\ TypeOK
  /\ HeldWhileHolding
  /\ InOnePlace
  /\ WorksForLiving
  /\ MembersOrder
  /\ ClientsHaveOwner

-----------------------------------------------------------------------------
(* Initially there is no client and nobody at work. *)
LEMMA InitIInv == Init => IInv
  BY BackendClientsAssumption, FS_EmptySet
  DEF Init, IInv, TypeOK, HeldWhileHolding, InOnePlace, WorksForLiving,
      MembersOrder, ClientsHaveOwner, Holders, Active, Phases

(* manage_backend_handle leaves a handle behind, the one there was if any. *)
LEMMA HandleMade ==
  ASSUME IInv, NEW p \in Plugins
  PROVE  /\ Handle(p) \in Plugins
         /\ Handle(p) # NoPlugin
         /\ handle # NoPlugin => Handle(p) = handle
  BY BackendClientsAssumption DEF Handle, IInv, TypeOK

(* Steps of a streamer or a user that concern no client. *)
LEMMA QuietIInv ==
  ASSUME IInv,
         \/ \E s \in Streamers :
              \/ \E c \in Credentials : SetCredentials(s, c)
              \/ Submit(s) \/ StopResponder(s) \/ JoinPools(s)
         \/ \E u \in Users :
              \/ BuildClient(u) \/ List(u) \/ OpenFails(u)
              \/ CreateThrows(u) \/ Exit(u)
  PROVE  IInv'
<1> USE BackendClientsAssumption
    DEF IInv, TypeOK, HeldWhileHolding, InOnePlace, WorksForLiving,
      MembersOrder, ClientsHaveOwner, Holders, Active, Phases, Users, UsersOf,
      mgrVars, streamerVars, userVars
<1>1. ASSUME NEW s \in Streamers, NEW c \in Credentials, SetCredentials(s, c)
      PROVE  IInv'
  BY <1>1 DEF SetCredentials
<1>2. ASSUME NEW s \in Streamers, Submit(s)
      PROVE  IInv'
  BY <1>2 DEF Submit
<1>3. ASSUME NEW s \in Streamers, StopResponder(s)
      PROVE  IInv'
  BY <1>3 DEF StopResponder
<1>4. ASSUME NEW s \in Streamers, JoinPools(s)
      PROVE  IInv'
  BY <1>4 DEF JoinPools
<1>5. ASSUME NEW u \in Users, BuildClient(u)
      PROVE  IInv'
  BY <1>5 DEF BuildClient
<1>6. ASSUME NEW u \in Users, List(u)
      PROVE  IInv'
  BY <1>6 DEF List
<1>7. ASSUME NEW u \in Users, OpenFails(u)
      PROVE  IInv'
  BY <1>7 DEF OpenFails
<1>8. ASSUME NEW u \in Users, CreateThrows(u)
      PROVE  IInv'
  BY <1>8 DEF CreateThrows
<1>9. ASSUME NEW u \in Users, Exit(u)
      PROVE  IInv'
  BY <1>9 DEF Exit
<1> HIDE DEF IInv
<1> QED  BY <1>1, <1>2, <1>3, <1>4, <1>5, <1>6, <1>7, <1>8, <1>9

(* A new streamer in a slot whose last one is gone: nobody works for it. *)
LEMMA NewStreamerIInv ==
  ASSUME IInv, NEW s \in Streamers, NewStreamer(s)
  PROVE  IInv'
<1>1. \A u \in UsersOf(s) : pc[u] \notin Active
  BY DEF NewStreamer, IInv, WorksForLiving, UsersOf
<1>2. \A u \in Users : pc[u] \in Active \/ pc'[u] \in Active
                         => pc'[u] = pc[u] /\ StreamerOf[u] # s
  BY <1>1 DEF NewStreamer, UsersOf, Active, IInv, TypeOK
<1> QED
  BY <1>2, BackendClientsAssumption
  DEF NewStreamer, IInv, TypeOK, HeldWhileHolding, InOnePlace, WorksForLiving,
      MembersOrder, ClientsHaveOwner, Holders, Active, Phases, Users, UsersOf,
      mgrVars, streamerVars, userVars

(* ~S3Stop stops clients, which moves none of them. *)
LEMMA CancelReadsIInv ==
  ASSUME IInv, NEW s \in Streamers, CancelReads(s)
  PROVE  IInv'
<1>1. /\ handle' \in Plugins \cup {NoPlugin}
      /\ handle # NoPlugin => handle' = handle
  BY HandleMade, BackendClientsAssumption DEF CancelReads, IInv, TypeOK
<1> QED
  BY <1>1, BackendClientsAssumption
  DEF CancelReads, IInv, TypeOK, HeldWhileHolding, InOnePlace, WorksForLiving,
      MembersOrder, ClientsHaveOwner, Holders, Active, Phases, Users, UsersOf,
      mgrVars, streamerVars, userVars

(* The first to open a backend sets the plugin: there are no clients yet. *)
LEMMA OpenBackendIInv ==
  ASSUME IInv, NEW u \in Users, OpenBackend(u)
  PROVE  IInv'
<1>1. PluginOf(u) \in Plugins
  BY BackendClientsAssumption DEF PluginOf, IInv, TypeOK
<1>2. handle' \in Plugins /\ handle' # NoPlugin
  BY <1>1, HandleMade DEF OpenBackend
<1> QED
  BY <1>2, BackendClientsAssumption
  DEF OpenBackend, IInv, TypeOK, HeldWhileHolding, InOnePlace, WorksForLiving,
      MembersOrder, ClientsHaveOwner, Holders, Active, Phases, Users, UsersOf,
      mgrVars, streamerVars, userVars

(* Unused clients are deleted and one of them, perhaps, is given out. *)
LEMMA PopReuseIInv ==
  ASSUME IInv, NEW u \in Users, PopReuse(u)
  PROVE  IInv'
<1>1. PICK c \in unused, stale \in SUBSET unused :
        /\ c \notin stale
        /\ pc[u] = "pop"
        /\ unused' = unused \ (stale \cup {c})
        /\ clients' = clients \ stale
        /\ held' = [held EXCEPT ![u] = c]
        /\ pc' = [pc EXCEPT ![u] = "holding"]
        /\ UNCHANGED <<setup, handle, streamerVars>>
  BY DEF PopReuse, Delete
<1>2. IsFiniteSet(clients') /\ c \in Clients /\ c # NoClient
  BY <1>1, FS_Difference, BackendClientsAssumption
  DEF IInv, TypeOK, InOnePlace
<1>3. TypeOK'
  BY <1>1, <1>2 DEF IInv, TypeOK, Active, streamerVars
<1>4. HeldWhileHolding'
  BY <1>1, <1>2 DEF IInv, TypeOK, HeldWhileHolding
<1>5. InOnePlace'
  <2>1. held[u] = NoClient
    BY <1>1 DEF IInv, HeldWhileHolding
  <2>2. Holders' = Holders \cup {u} /\ u \notin Holders
    BY <2>1, <1>1, <1>2 DEF Holders, IInv, TypeOK
  <2>3. /\ held'[u] = c
        /\ \A v \in Holders :
             held'[v] = held[v] /\ held[v] \in clients \ unused
    BY <2>2, <1>1 DEF IInv, TypeOK, InOnePlace
  <2> QED  BY <2>2, <2>3, <1>1 DEF IInv, InOnePlace
<1>6. WorksForLiving'
  BY <1>1 DEF IInv, TypeOK, WorksForLiving, Active, streamerVars
<1>7. MembersOrder'
  BY <1>1 DEF IInv, MembersOrder, streamerVars
<1>8. ClientsHaveOwner'
  BY <1>1 DEF IInv, TypeOK, ClientsHaveOwner, streamerVars
<1> QED  BY <1>3, <1>4, <1>5, <1>6, <1>7, <1>8 DEF IInv

(* No client serves: the unused ones are stale and deleted. *)
LEMMA PopMissIInv ==
  ASSUME IInv, NEW u \in Users, PopMiss(u)
  PROVE  IInv'
<1>1. clients' = clients \ unused /\ IsFiniteSet(clients')
  BY FS_Difference DEF PopMiss, Delete, IInv, TypeOK
<1> QED
  BY <1>1, BackendClientsAssumption
  DEF PopMiss, IInv, TypeOK, HeldWhileHolding, InOnePlace, WorksForLiving,
      MembersOrder, ClientsHaveOwner, Holders, Active, Phases, Users, UsersOf,
      mgrVars, streamerVars, userVars

(* The address of a new client is that of no other. *)
LEMMA CreateIInv ==
  ASSUME IInv, NEW u \in Users, Create(u)
  PROVE  IInv'
<1>1. PICK c \in Clients \ clients :
        /\ pc[u] = "create"
        /\ clients' = clients \cup {c}
        /\ held' = [held EXCEPT ![u] = c]
        /\ pc' = [pc EXCEPT ![u] = "holding"]
        /\ UNCHANGED <<setup, handle, unused, streamerVars>>
  BY DEF Create
<1>2. IsFiniteSet(clients') /\ c # NoClient
  BY <1>1, FS_AddElement, BackendClientsAssumption DEF IInv, TypeOK
<1>3. TypeOK'
  BY <1>1, <1>2 DEF IInv, TypeOK, Active, streamerVars
<1>4. HeldWhileHolding'
  BY <1>1, <1>2 DEF IInv, TypeOK, HeldWhileHolding
<1>5. InOnePlace'
  <2>1. held[u] = NoClient
    BY <1>1 DEF IInv, HeldWhileHolding
  <2>2. Holders' = Holders \cup {u} /\ u \notin Holders
    BY <2>1, <1>1, <1>2 DEF Holders, IInv, TypeOK
  <2>3. /\ held'[u] = c
        /\ \A v \in Holders :
             held'[v] = held[v] /\ held[v] \in clients \ unused
    BY <2>2, <1>1 DEF IInv, TypeOK, InOnePlace
  <2> QED  BY <2>2, <2>3, <1>1 DEF IInv, InOnePlace
<1>6. WorksForLiving'
  BY <1>1 DEF IInv, TypeOK, WorksForLiving, Active, streamerVars
<1>7. MembersOrder'
  BY <1>1 DEF IInv, MembersOrder, streamerVars
<1>8. ClientsHaveOwner'
  <2>1. s3Cleanup' # {}
    BY <1>1 DEF IInv, WorksForLiving, Active, streamerVars
  <2> QED  BY <2>1, <1>1 DEF IInv, TypeOK, ClientsHaveOwner, streamerVars
<1> QED  BY <1>3, <1>4, <1>5, <1>6, <1>7, <1>8 DEF IInv

(* A wrapper gives its client back. *)
LEMMA ReleaseIInv ==
  ASSUME IInv, NEW u \in Users, Release(u)
  PROVE  IInv'
  BY BackendClientsAssumption
  DEF Release, IInv, TypeOK, HeldWhileHolding, InOnePlace, WorksForLiving,
      MembersOrder, ClientsHaveOwner, Holders, Active, Phases, Users, UsersOf,
      mgrVars, streamerVars, userVars

(* ~S3Cleanup deletes all clients, or gives up because a user of another   *)
(* streamer holds one: that streamer will clean up.                        *)
LEMMA CleanUpIInv ==
  ASSUME IInv, NEW s \in Streamers, CleanUp(s)
  PROVE  IInv'
<1>1. \A u \in Users : pc[u] \in Active => StreamerOf[u] # s
  BY DEF CleanUp, IInv, WorksForLiving
<1>2. s \notin s3Stop
  BY DEF CleanUp, IInv, MembersOrder
<1>3. /\ handle' \in Plugins \cup {NoPlugin}
      /\ handle # NoPlugin => handle' = handle
  BY HandleMade, BackendClientsAssumption DEF CleanUp, IInv, TypeOK
<1>4. CASE s \in s3Cleanup /\ Loads(DefaultPlugin) /\ Clearable
  <2>1. clients' = {} /\ unused' = {} /\ IsFiniteSet(clients')
    BY <1>4, FS_EmptySet DEF CleanUp, Delete
  <2>2. Holders = {}
    <3>1. unused = clients
      BY <1>4, FS_Subset, FS_CardinalityType
      DEF Clearable, IInv, TypeOK, InOnePlace
    <3> QED  BY <3>1 DEF IInv, InOnePlace
  <2> QED
    BY <1>1, <1>2, <1>3, <2>1, <2>2, BackendClientsAssumption
    DEF CleanUp, IInv, TypeOK, HeldWhileHolding, InOnePlace, WorksForLiving,
      MembersOrder, ClientsHaveOwner, Holders, Active, Phases, Users, UsersOf,
      mgrVars, streamerVars, userVars
<1>5. CASE ~(s \in s3Cleanup /\ Loads(DefaultPlugin) /\ Clearable)
  <2>1. UNCHANGED mgrVars
    BY <1>5 DEF CleanUp
  <2>2. ASSUME clients # {}
        PROVE  s3Cleanup' # {}
    <3>1. CASE s \notin s3Cleanup
      BY <3>1, <2>2 DEF CleanUp, IInv, ClientsHaveOwner
    <3>2. CASE s \in s3Cleanup
      <4>1. Loads(DefaultPlugin)
        BY <2>2 DEF Loads, IInv, ClientsHaveOwner
      <4>2. unused # clients
        BY <3>2, <4>1, <1>5 DEF Clearable
      <4>3. PICK u \in Users : held[u] # NoClient
        BY <4>2 DEF IInv, InOnePlace, Holders
      <4>4. pc[u] \in Active
        BY <4>3 DEF IInv, HeldWhileHolding, Active
      <4>5. StreamerOf[u] \in s3Cleanup \ {s}
        BY <4>4, <1>1 DEF IInv, WorksForLiving
      <4> QED  BY <4>5 DEF CleanUp
    <3> QED  BY <3>1, <3>2
  <2> QED
    BY <1>1, <1>2, <1>3, <2>1, <2>2, BackendClientsAssumption
    DEF CleanUp, IInv, TypeOK, HeldWhileHolding, InOnePlace, WorksForLiving,
      MembersOrder, ClientsHaveOwner, Holders, Active, Phases, Users, UsersOf,
      mgrVars, streamerVars, userVars
<1> QED  BY <1>4, <1>5

(* Every step keeps the invariant. *)
LEMMA StepIInv == IInv /\ [Next]_vars => IInv'
<1> SUFFICES ASSUME IInv, [Next]_vars
             PROVE  IInv'
  OBVIOUS
<1>1. CASE UNCHANGED vars
  BY <1>1 DEF vars, IInv, TypeOK, HeldWhileHolding, InOnePlace, WorksForLiving,
      MembersOrder, ClientsHaveOwner, Holders, Active, Phases, Users, UsersOf,
      mgrVars, streamerVars, userVars
<1>2. ASSUME NEW s \in Streamers, StreamerNext(s)
      PROVE  IInv'
  BY <1>2, QuietIInv, NewStreamerIInv, CancelReadsIInv, CleanUpIInv
  DEF StreamerNext
<1>3. ASSUME NEW u \in Users, UserNext(u)
      PROVE  IInv'
  BY <1>3, QuietIInv, OpenBackendIInv, PopReuseIInv, PopMissIInv, CreateIInv,
     ReleaseIInv
  DEF UserNext
<1> QED  BY <1>1, <1>2, <1>3 DEF Next

-----------------------------------------------------------------------------
(* Types of the manager, the wrappers and the streamers' members. *)
THEOREM TypeCorrect == Spec => []TypeOK
<1>1. IInv => TypeOK
  BY DEF IInv
<1> QED  BY InitIInv, StepIInv, <1>1, PTL DEF Spec

(* ClientMgr: a client is unused or in one wrapper, and the last streamer  *)
(* leaves none behind, whoever gave up clearing before (clear).            *)
THEOREM ClientsCorrect == Spec => []ClientsAreAccounted
<1>1. IInv => ClientsAreAccounted
  <2> SUFFICES ASSUME IInv
               PROVE  ClientsAreAccounted
    OBVIOUS
  <2>1. (\A s \in Streamers : phase[s] = "gone") => clients = {}
    BY DEF IInv, TypeOK, MembersOrder, ClientsHaveOwner
  <2>2. clients = unused \cup {held[u] : u \in Holders}
    BY DEF IInv, InOnePlace
  <2>3. \A u \in Holders :
          /\ held[u] \notin unused
          /\ \A v \in Holders : held[v] = held[u] => v = u
    BY DEF IInv, InOnePlace
  <2> QED  BY <2>1, <2>2, <2>3 DEF ClientsAreAccounted
<1> QED  BY InitIInv, StepIInv, <1>1, PTL DEF Spec

-----------------------------------------------------------------------------
(* Credentials *)

(* The last of some positions of a sequence is one of them. *)
LEMMA MaxIn ==
  ASSUME NEW n \in Nat, NEW S, S \subseteq 1 .. n, S # {}
  PROVE  Max(S) \in S
<1> DEFINE above == {m .. n : m \in S}
<1>1. above \subseteq FiniteSubsetsOf(1 .. n)
  <2> SUFFICES ASSUME NEW m \in S
               PROVE  m .. n \in SUBSET (1 .. n) /\ IsFiniteSet(m .. n)
    BY DEF FiniteSubsetsOf
  <2>1. IsFiniteSet(m .. n)
    BY FS_Interval
  <2> QED  BY <2>1
<1>2. above # {}
  OBVIOUS
<1>3. PICK T \in above : \A U \in above :
        <<U, T>> \notin StrictSubsetOrdering(1 .. n)
  BY <1>1, <1>2, FS_StrictSubsetOrderingWellFounded, WFMin, Zenon
<1>4. PICK m \in S : T = m .. n
  OBVIOUS
<1>5. ASSUME NEW x \in S, m < x
      PROVE  FALSE
  <2>1. x .. n \in above
    OBVIOUS
  <2>2. <<x .. n, T>> \in StrictSubsetOrdering(1 .. n)
    <3>1. x .. n \subseteq T /\ T \subseteq 1 .. n /\ m \in T /\ m \notin x .. n
      BY <1>4, <1>5
    <3> QED  BY <3>1 DEF StrictSubsetOrdering
  <2> QED  BY <1>3, <2>1, <2>2
<1>6. \A x \in S : m >= x
  BY <1>5
<1> QED  BY <1>6 DEF Max

(* Credentials hold no null: a pair with one was skipped. *)
LEMMA NoNulls ==
  ASSUME NEW pairs \in Seq(STRING \X STRING),
         NEW k \in DOMAIN CredentialsOf(pairs)
  PROVE  CredentialsOf(pairs)[k] # Null
<1> DEFINE kept == {i \in DOMAIN pairs :
                      pairs[i][1] # Null /\ pairs[i][2] # Null}
           S == {i \in kept : pairs[i][1] = k}
<1>1. k \in {pairs[i][1] : i \in kept}
  BY DEF CredentialsOf
<1>2. S # {} /\ S \subseteq 1 .. Len(pairs) /\ Len(pairs) \in Nat
  BY <1>1
<1>3. Max(S) \in S
  <2> HIDE DEF S
  <2> QED  BY <1>2, MaxIn
<1>4. CredentialsOf(pairs)[k] = pairs[Max(S)][2]
  BY <1>1 DEF CredentialsOf
<1> QED  BY <1>3, <1>4

(* verify_credentials of S3 compares all that the requests of a client     *)
(* depend on.                                                              *)
LEMMA S3VerifiedUses ==
  ASSUME NEW made, NEW cfg, S3Verified(made, cfg)
  PROVE  S3Uses(made) = S3Uses(cfg)
  BY DEF S3Verified, S3Uses

(* That of Azure compares with what a client made now would have, except   *)
(* for empty parameters, with which no client is verified.                 *)
LEMMA AzureVerifiedUses ==
  ASSUME NEW made, NEW cfg, AzureVerified(made, cfg),
         \A k \in DOMAIN cfg.params : cfg.params[k] # Null
  PROVE  AzureUses(made) = AzureUses(cfg)
<1>1. ASSUME NEW k \in AzureKeys
      PROVE  AzureMembers(made)[k] = AzureMembers(cfg)[k]
  <2>1. AzureEnv[k] # ""
    BY DEF AzureEnv, Null
  <2>2. AzureMembers(made)[k] # ""
    BY <1>1, <2>1 DEF AzureMembers, Get
  <2>3. CASE k \in DOMAIN cfg.params
    BY <1>1, <2>2, <2>3 DEF AzureVerified, AzureMembers, Get
  <2>4. CASE k \notin DOMAIN cfg.params
    BY <1>1, <2>4 DEF AzureVerified, AzureMembers, Get
  <2> QED  BY <2>3, <2>4
<1>2. {"sas_token", "account_key", "account_name", "endpoint_suffix"}
        \subseteq AzureKeys
  BY DEF AzureKeys
<1> QED  BY <1>1, <1>2 DEF AzureUses

(* Whatever the plugin, a client that is verified for a user serves it as  *)
(* one made for it would.                                                  *)
LEMMA VerifiedUses ==
  ASSUME NEW plugin \in Plugins, NEW made, NEW cfg,
         VerifyCredentials(plugin, made, cfg),
         \A k \in DOMAIN cfg.params : cfg.params[k] # Null
  PROVE  Uses(plugin, made) = Uses(plugin, cfg)
<1>1. CASE plugin = "S3"
  BY <1>1, S3VerifiedUses DEF VerifyCredentials, Uses
<1>2. CASE plugin = "Azure"
  BY <1>2, AzureVerifiedUses DEF VerifyCredentials, Uses
<1>3. CASE plugin = "GCS"
  BY <1>3 DEF VerifyCredentials, Uses, GcsUses
<1> QED  BY <1>1, <1>2, <1>3 DEF Plugins

-----------------------------------------------------------------------------
(* What credentials may be, those of a streamer or none. *)
Given == Credentials \cup {NoCredentials}
ConfigTypeOK ==
  /\ creds \in [Streamers -> Given]
  /\ want \in [Users -> Given]
  /\ madeWith \in [Clients -> {Config(c) : c \in Given}]

(* A user at work read the credentials of its streamer, or found none yet: *)
(* they are set once, and reset only when nobody works for the streamer.   *)
WantsOwn ==
  \A u \in Users : pc[u] \in Active =>
    want[u] \in {creds[StreamerOf[u]], NoCredentials}

(* The client of a wrapper uses what its user wants. *)
HasWanted ==
  \A u \in Holders :
    Uses(handle, madeWith[held[u]]) = Uses(handle, Config(want[u]))

CredsInv == ConfigTypeOK /\ WantsOwn /\ HasWanted

(* Initially nobody wants or has anything. *)
LEMMA InitCredsInv == Init => CredsInv
  BY DEF Init, CredsInv, ConfigTypeOK, WantsOwn, HasWanted, Given, Active,
     Holders

(* The configuration of a user has no null parameters. *)
LEMMA GivenHasNoNulls ==
  ASSUME TypeOK, NEW c \in Given
  PROVE  \A k \in DOMAIN Config(c).params : Config(c).params[k] # Null
<1>1. PICK pairs \in Seq(STRING \X STRING) : c = CredentialsOf(pairs)
  <2>1. <<>> \in Seq(STRING \X STRING)
    OBVIOUS
  <2>2. setup.given \subseteq Seq(STRING \X STRING)
    BY BackendClientsAssumption DEF BackendClientsAssumption, TypeOK
  <2> QED  BY <2>1, <2>2 DEF Given, Credentials, NoCredentials
<1> QED  BY <1>1, NoNulls DEF Config

(* Steps that leave clients, and what was wanted of them, alone. *)
LEMMA StillHasWanted ==
  ASSUME IInv, CredsInv, UNCHANGED held,
         \A u \in Holders :
           want'[u] = want[u] /\ madeWith'[held[u]] = madeWith[held[u]],
         handle # NoPlugin => handle' = handle
  PROVE  HasWanted'
<1>1. \A u \in Holders : handle' = handle
  BY DEF IInv, TypeOK, HeldWhileHolding, ClientsHaveOwner, Holders
<1> QED  BY <1>1 DEF CredsInv, HasWanted, Holders

(* Steps of streamers. *)
LEMMA StreamerCredsInv ==
  ASSUME IInv, CredsInv, NEW s \in Streamers, StreamerNext(s)
  PROVE  CredsInv'
<1> USE DEF IInv, TypeOK
<1>1. CASE NewStreamer(s)
  <2>1. \A u \in Users : pc'[u] \in Active => pc[u] \in Active
    BY <1>1 DEF NewStreamer, Active
  <2>2. ConfigTypeOK' /\ WantsOwn'
    BY <1>1, <2>1 DEF NewStreamer, mgrVars, CredsInv, ConfigTypeOK, WantsOwn,
       Given, Credentials
  <2> QED  BY <1>1, <2>2, StillHasWanted DEF NewStreamer, mgrVars, CredsInv
<1>2. ASSUME NEW c \in Credentials, SetCredentials(s, c)
      PROVE  CredsInv'
  <2>1. ConfigTypeOK'
    BY <1>2 DEF SetCredentials, mgrVars, userVars, CredsInv, ConfigTypeOK,
       Given, Credentials
  <2>2. WantsOwn'
    BY <1>2 DEF SetCredentials, userVars, CredsInv, ConfigTypeOK, WantsOwn
  <2> QED  BY <1>2, <2>1, <2>2, StillHasWanted
           DEF SetCredentials, mgrVars, userVars, CredsInv
<1>3. CASE Submit(s) \/ StopResponder(s) \/ JoinPools(s)
  <2>1. UNCHANGED <<setup, handle, mgrVars, creds, userVars>>
    BY <1>3 DEF Submit, StopResponder, JoinPools
  <2>2. ConfigTypeOK' /\ WantsOwn'
    BY <2>1 DEF mgrVars, userVars, CredsInv, ConfigTypeOK, WantsOwn, Given,
       Credentials
  <2> QED  BY <2>1, <2>2, StillHasWanted DEF mgrVars, userVars, CredsInv
<1>4. CASE CancelReads(s)
  <2>1. UNCHANGED <<setup, madeWith, creds, userVars>>
    BY <1>4 DEF CancelReads
  <2>2. handle # NoPlugin => handle' = handle
    BY <1>4, HandleMade, BackendClientsAssumption DEF CancelReads
  <2>3. ConfigTypeOK' /\ WantsOwn'
    BY <2>1 DEF userVars, CredsInv, ConfigTypeOK, WantsOwn, Given, Credentials
  <2> QED  BY <2>1, <2>2, <2>3, StillHasWanted DEF userVars, CredsInv
<1>5. CASE CleanUp(s)
  <2>1. \A u \in Users : pc[u] \in Active => StreamerOf[u] # s
    BY <1>5 DEF CleanUp, WorksForLiving
  <2>2. UNCHANGED <<setup, userVars>>
    BY <1>5 DEF CleanUp
  <2>3. handle # NoPlugin => handle' = handle
    BY <1>5, HandleMade, BackendClientsAssumption DEF CleanUp
  <2>4. creds' = [creds EXCEPT ![s] = NoCredentials]
    BY <1>5 DEF CleanUp
  <2>5. /\ madeWith' \in [Clients -> {Config(c) : c \in Given}]
        /\ \A u \in Holders : madeWith'[held[u]] = madeWith[held[u]]
    <3>1. CASE s \in s3Cleanup /\ Loads(DefaultPlugin) /\ Clearable
      <4>1. unused = clients
        BY <3>1, FS_Subset, FS_CardinalityType DEF Clearable, InOnePlace
      <4>2. Holders = {}
        BY <4>1 DEF InOnePlace
      <4> QED  BY <1>5, <3>1, <4>2
               DEF CleanUp, Delete, CredsInv, ConfigTypeOK, Given
    <3>2. CASE ~(s \in s3Cleanup /\ Loads(DefaultPlugin) /\ Clearable)
      BY <1>5, <3>2 DEF CleanUp, mgrVars, CredsInv, ConfigTypeOK
    <3> QED  BY <3>1, <3>2
  <2>6. ConfigTypeOK'
    BY <2>2, <2>4, <2>5 DEF userVars, CredsInv, ConfigTypeOK, Given, Credentials
  <2>7. WantsOwn'
    BY <2>1, <2>2, <2>4, BackendClientsAssumption
    DEF userVars, CredsInv, ConfigTypeOK, WantsOwn
  <2> QED  BY <2>2, <2>3, <2>5, <2>6, <2>7, StillHasWanted
           DEF userVars, CredsInv
<1> QED  BY <1>1, <1>2, <1>3, <1>4, <1>5 DEF StreamerNext

(* Steps of users that leave the manager alone. *)
LEMMA QuietUserCredsInv ==
  ASSUME IInv, CredsInv, NEW u \in Users,
         \/ BuildClient(u) \/ List(u) \/ OpenBackend(u) \/ OpenFails(u)
         \/ CreateThrows(u) \/ Exit(u)
  PROVE  CredsInv'
<1> USE DEF IInv, TypeOK
<1>1. UNCHANGED <<setup, madeWith, creds, held>>
  BY DEF BuildClient, List, OpenBackend, OpenFails, CreateThrows, Exit,
     mgrVars, streamerVars, userVars
<1>2. handle # NoPlugin => handle' = handle
  <2>1. PluginOf(u) \in Plugins
    BY BackendClientsAssumption DEF PluginOf
  <2> QED  BY <2>1, HandleMade DEF BuildClient, List, OpenBackend, OpenFails,
     CreateThrows, Exit
<1>3. /\ \A v \in Users \ {u} : want'[v] = want[v] /\ pc'[v] = pc[v]
      /\ pc[u] # "holding"
      /\ want' \in [Users -> Given]
      /\ want'[u] \in {want[u], creds[StreamerOf[u]], NoCredentials}
      /\ pc'[u] \in Active =>
           \/ want'[u] = creds[StreamerOf[u]]
           \/ want'[u] = want[u] /\ pc[u] \in Active
  BY BackendClientsAssumption
  DEF BuildClient, List, OpenBackend, OpenFails, CreateThrows, Exit,
      CredsInv, ConfigTypeOK, Active, Given
<1>4. ConfigTypeOK'
  BY <1>1, <1>3 DEF CredsInv, ConfigTypeOK, Given, Credentials
<1>5. WantsOwn'
  BY <1>1, <1>3 DEF CredsInv, WantsOwn
<1>6. \A v \in Holders : want'[v] = want[v]
  BY <1>3 DEF HeldWhileHolding, Holders
<1> QED  BY <1>1, <1>2, <1>4, <1>5, <1>6, StillHasWanted DEF CredsInv

(* pop deletes clients nobody holds, and gives out one that was verified.  *)
LEMMA PopCredsInv ==
  ASSUME IInv, CredsInv, NEW u \in Users, PopReuse(u) \/ PopMiss(u)
  PROVE  CredsInv'
<1> USE DEF IInv, TypeOK
<1>1. PICK dead \in SUBSET unused :
        /\ Delete(dead)
        /\ PopReuse(u) => /\ held'[u] \in unused \ dead
                          /\ Verified(held'[u], u)
        /\ PopMiss(u) => held' = held
        /\ \A v \in Users \ {u} : held'[v] = held[v] /\ pc'[v] = pc[v]
        /\ pc[u] = "pop" /\ UNCHANGED <<setup, handle, creds, want>>
  <2>1. CASE PopReuse(u)
    <3>1. PICK c \in unused, stale \in SUBSET {d \in unused : ~Verified(d, u)} :
            /\ pc[u] = "pop" /\ Verified(c, u) /\ Delete(stale)
            /\ held' = [held EXCEPT ![u] = c]
            /\ pc' = [pc EXCEPT ![u] = "holding"]
            /\ UNCHANGED <<setup, handle, streamerVars, want>>
      BY <2>1 DEF PopReuse
    <3>2. c \notin stale /\ stale \in SUBSET unused /\ ~PopMiss(u)
      BY <3>1 DEF PopMiss
    <3> QED  BY <3>1, <3>2 DEF streamerVars
  <2>2. CASE PopMiss(u)
    <3>1. ~PopReuse(u)
      BY <2>2 DEF PopMiss, PopReuse
    <3> QED  BY <2>2, <3>1 DEF PopMiss, streamerVars
  <2> QED  BY <2>1, <2>2
<1>2. /\ madeWith' \in [Clients -> {Config(c) : c \in Given}]
      /\ \A c \in Clients \ dead : madeWith'[c] = madeWith[c]
  BY <1>1 DEF Delete, CredsInv, ConfigTypeOK, Given
<1>3. ConfigTypeOK'
  BY <1>1, <1>2 DEF CredsInv, ConfigTypeOK, Given, Credentials
<1>4. WantsOwn'
  BY <1>1 DEF CredsInv, WantsOwn, Active
<1>5. HasWanted'
  <2> SUFFICES ASSUME NEW v \in Users, held'[v] # NoClient
               PROVE  Uses(handle, madeWith'[held'[v]])
                        = Uses(handle, Config(want[v]))
    BY <1>1 DEF HasWanted, Holders
  <2>1. held[u] = NoClient
    BY <1>1 DEF HeldWhileHolding
  <2>2. CASE v # u
    <3>1. held'[v] = held[v] /\ v \in Holders
      BY <1>1, <2>2 DEF Holders
    <3>2. held[v] \in Clients \ dead
      BY <1>1, <3>1 DEF InOnePlace
    <3> QED  BY <3>1, <3>2, <1>2 DEF CredsInv, HasWanted
  <2>3. CASE v = u
    <3>1. PopReuse(u)
      BY <2>1, <2>3, <1>1
    <3>2. held'[u] \in Clients \ dead
      BY <3>1, <1>1 DEF InOnePlace
    <3>3. handle \in Plugins
      BY <1>1 DEF ClientsHaveOwner
    <3>4. VerifyCredentials(handle, madeWith[held'[u]], Config(want[u]))
      BY <3>1, <1>1 DEF Verified
    <3>5. \A k \in DOMAIN Config(want[u]).params :
            Config(want[u]).params[k] # Null
      BY GivenHasNoNulls DEF CredsInv, ConfigTypeOK
    <3> QED  BY <2>3, <3>2, <3>3, <3>4, <3>5, <1>2, VerifiedUses
  <2> QED  BY <2>2, <2>3
<1> QED  BY <1>3, <1>4, <1>5 DEF CredsInv

(* A new client is made with what its user wants. *)
LEMMA CreateCredsInv ==
  ASSUME IInv, CredsInv, NEW u \in Users, Create(u)
  PROVE  CredsInv'
<1> USE DEF IInv, TypeOK
<1>1. PICK c \in Clients \ clients :
        /\ pc[u] = "create"
        /\ madeWith' = [madeWith EXCEPT ![c] = Config(want[u])]
        /\ held' = [held EXCEPT ![u] = c]
        /\ pc' = [pc EXCEPT ![u] = "holding"]
        /\ UNCHANGED <<setup, handle, streamerVars, want>>
  BY DEF Create
<1>2. ConfigTypeOK'
  BY <1>1 DEF streamerVars, CredsInv, ConfigTypeOK, Given, Credentials
<1>3. WantsOwn'
  BY <1>1 DEF streamerVars, CredsInv, WantsOwn, Active
<1>4. HasWanted'
  <2> SUFFICES ASSUME NEW v \in Users, held'[v] # NoClient
               PROVE  Uses(handle, madeWith'[held'[v]])
                        = Uses(handle, Config(want[v]))
    BY <1>1 DEF HasWanted, Holders
  <2>1. CASE v # u
    <3>1. held'[v] = held[v] /\ v \in Holders
      BY <1>1, <2>1 DEF Holders
    <3>2. held[v] \in Clients \ {c}
      BY <3>1 DEF InOnePlace
    <3>3. madeWith'[held[v]] = madeWith[held[v]]
      BY <1>1, <3>2 DEF CredsInv, ConfigTypeOK
    <3> QED  BY <3>1, <3>3 DEF CredsInv, HasWanted
  <2>2. CASE v = u
    <3>1. held'[u] = c /\ madeWith'[c] = Config(want[u])
      BY <1>1 DEF CredsInv, ConfigTypeOK
    <3> QED  BY <2>2, <3>1
  <2> QED  BY <2>1, <2>2
<1> QED  BY <1>2, <1>3, <1>4 DEF CredsInv

(* A client that is given back keeps what it was made with. *)
LEMMA ReleaseCredsInv ==
  ASSUME IInv, CredsInv, NEW u \in Users, Release(u)
  PROVE  CredsInv'
<1> USE DEF IInv, TypeOK
<1>1. /\ UNCHANGED <<setup, handle, madeWith, creds>>
      /\ held' = [held EXCEPT ![u] = NoClient]
      /\ pc'[u] \notin Active
      /\ \A v \in Users \ {u} : pc'[v] = pc[v]
      /\ want' = [want EXCEPT ![u] = NoCredentials]
  BY DEF Release, streamerVars, Active
<1>2. ConfigTypeOK'
  BY <1>1 DEF CredsInv, ConfigTypeOK, Given, Credentials
<1>3. WantsOwn'
  BY <1>1 DEF CredsInv, ConfigTypeOK, WantsOwn
<1>4. HasWanted'
  BY <1>1 DEF CredsInv, ConfigTypeOK, HasWanted, Holders
<1> QED  BY <1>2, <1>3, <1>4 DEF CredsInv

(* Every step keeps the credentials right, given where the clients are. *)
LEMMA StepCredsInv == IInv /\ CredsInv /\ [Next]_vars => CredsInv'
<1> SUFFICES ASSUME IInv, CredsInv, [Next]_vars
             PROVE  CredsInv'
  OBVIOUS
<1>1. CASE UNCHANGED vars
  BY <1>1 DEF vars, mgrVars, streamerVars, userVars, CredsInv, ConfigTypeOK,
     WantsOwn, HasWanted, Holders, Given, Credentials
<1>2. ASSUME NEW u \in Users, UserNext(u)
      PROVE  CredsInv'
  BY <1>2, QuietUserCredsInv, PopCredsInv, CreateCredsInv, ReleaseCredsInv
  DEF UserNext
<1> QED  BY <1>1, <1>2, StreamerCredsInv DEF Next

(* verify_credentials and pop: no user of a client has one that was made   *)
(* with, and signs with, the credentials of another streamer.              *)
THEOREM CredentialsCorrect == Spec => []CredentialsAreTheStreamers
<1>1. IInv /\ CredsInv => CredentialsAreTheStreamers
  BY DEF IInv, TypeOK, HeldWhileHolding, CredsInv, WantsOwn, HasWanted,
     CredentialsAreTheStreamers, Holders, Active
<1> QED  BY InitIInv, StepIInv, InitCredsInv, StepCredsInv, <1>1, PTL DEF Spec

=============================================================================
