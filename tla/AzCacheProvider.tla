--------------------------- MODULE AzCacheProvider ---------------------------
(***************************************************************************)
(* The cache library of the Azure clients of a process                     *)
(* (azcache_provider_loader.cc): a loader per client, made from the        *)
(* environment; the CacheLibHandle the loaders share through a weak        *)
(* pointer; and the shutdown() of the library when a handle is destroyed.  *)
(* A step that holds s_handle_mutex is one action.                         *)
(***************************************************************************)
EXTENDS Naturals, Sequences, FiniteSets

CONSTANTS Clients, NextEnv

VARIABLES
  env,       \* mode, explicit path and what auto-discovery would find
  libs,      \* [path -> "ok", "noShutdown" or "broken"]
  handles,   \* every CacheLibHandle made: its path, if it loaded, its owners
  shared,    \* s_shared_handle: an index of handles, or 0
  loader,    \* the handle of a client's loader, or 0
  clientRef, \* the client has its reference to the loader
  down,      \* handles whose library was shut down after they were made
  unwinding, \* clients whose constructor threw and still holds a handle
  dying      \* handles without owner whose destructor has not run yet

cacheVars == <<env, libs, handles, shared, loader, clientRef, down, unwinding,
               dying>>

Init(initialEnv, initialLibs) ==
  /\ env = initialEnv
  /\ libs = initialLibs
  /\ handles = <<>>
  /\ shared = 0
  /\ loader = [c \in Clients |-> 0]
  /\ clientRef = [c \in Clients |-> FALSE]
  /\ down = {}
  /\ unwinding = {}
  /\ dying = {}

(* The application changes the variables between two clients, at most once.*)
ChangeEnv ==
  /\ env # NextEnv
  /\ env' = NextEnv
  /\ UNCHANGED <<libs, handles, shared, loader, clientRef, down, unwinding,
                 dying>>

(* from_env: the explicit path, else the one that is discovered. *)
LibPath == IF env.explicit # "" THEN env.explicit ELSE env.discovered

(* s_shared_handle.lock() *)
Locked ==
  IF shared = 0 THEN 0 ELSE IF handles[shared].owners = {} THEN 0 ELSE shared

(* Mutant of Reusable: every loader opens the library for itself. *)
ReusableNever == FALSE

Reusable ==
  /\ Locked # 0
  /\ handles[Locked].open
  /\ handles[Locked].path = LibPath

Loaded(path) == libs[path] # "broken"

(* A loader without a library: the cache is disabled or there is no path.  *)
NoLibrary ==
  env.mode = "Disabled" \/ (env.mode = "Auto" /\ LibPath = "")

(* The constructor of the loader.  A library that cannot be loaded, of     *)
(* another version or without blob_read leaves a handle that is not open.  *)
MakeLoader(c) ==
  /\ clientRef' = [clientRef EXCEPT ![c] = TRUE]
  /\ \/ /\ NoLibrary
        /\ UNCHANGED <<handles, shared, loader>>
     \/ /\ ~NoLibrary
        /\ LibPath # ""
        /\ Reusable
        /\ handles' = [handles EXCEPT ![Locked].owners = @ \cup {c}]
        /\ loader' = [loader EXCEPT ![c] = Locked]
        /\ UNCHANGED shared
     \/ /\ ~NoLibrary
        /\ LibPath # ""
        /\ ~Reusable
        /\ Loaded(LibPath) \/ env.mode = "Auto"
        /\ handles' = Append(handles, [path |-> LibPath,
                                       open |-> Loaded(LibPath),
                                       owners |-> {c}])
        /\ shared' = Len(handles')
        /\ loader' = [loader EXCEPT ![c] = Len(handles')]
  /\ UNCHANGED <<env, libs, down, unwinding, dying>>

(* The constructor throws when the cache is required and there is none.    *)
(* The handle of another path that it locked is released by the unwinding, *)
(* after the mutex.                                                        *)
MakeLoaderThrows(c) ==
  /\ env.mode = "Required"
  /\ \/ /\ LibPath = ""
        /\ UNCHANGED <<handles, loader, unwinding>>
     \/ /\ LibPath # ""
        /\ ~Reusable
        /\ ~Loaded(LibPath)
        /\ IF Locked # 0
           THEN /\ handles' = [handles EXCEPT ![Locked].owners = @ \cup {c}]
                /\ loader' = [loader EXCEPT ![c] = Locked]
                /\ unwinding' = unwinding \cup {c}
           ELSE UNCHANGED <<handles, loader, unwinding>>
  /\ UNCHANGED <<env, libs, shared, clientRef, down, dying>>

Enabled(c) == loader[c] # 0 /\ handles[loader[c]].open

(* ~CacheLibHandle: shutdown(), if the library exports it.  Whoever has    *)
(* another handle of the library is left with one that was shut down.      *)
ShutDown(h) ==
  IF handles[h].open /\ libs[handles[h].path] = "ok"
  THEN down' = down \cup {g \in DOMAIN handles :
                             handles[g].path = handles[h].path}
  ELSE UNCHANGED down

(* ~AzCacheProviderLoader, when the last reference to the loader of c      *)
(* goes; perhaps it has the last reference to its handle.                  *)
DestroyLoader(c) ==
  LET h == loader[c]
  IN  /\ h # 0
      /\ ~clientRef[c] /\ c \notin unwinding
      /\ c \in handles[h].owners
      /\ handles' = [handles EXCEPT ![h].owners = @ \ {c}]
      /\ IF handles[h].owners = {c} THEN ShutDown(h) ELSE UNCHANGED down
      /\ UNCHANGED <<env, libs, shared, loader, clientRef, unwinding, dying>>

(* The handle of a constructor that threw is released without the mutex;   *)
(* if that was its last reference, its destructor follows.                 *)
Unwind ==
  \E c \in unwinding :
    LET h == loader[c]
    IN  /\ unwinding' = unwinding \ {c}
        /\ handles' = [handles EXCEPT ![h].owners = @ \ {c}]
        /\ dying' = IF handles[h].owners = {c} THEN dying \cup {h} ELSE dying
        /\ UNCHANGED <<env, libs, shared, loader, clientRef, down>>

Shutdown ==
  \E h \in dying :
    /\ dying' = dying \ {h}
    /\ ShutDown(h)
    /\ UNCHANGED <<env, libs, handles, shared, loader, clientRef, unwinding>>

(* A loader of c exists, and its library has not been shut down. *)
Usable(c) ==
  /\ Enabled(c)
  /\ c \in handles[loader[c]].owners
  /\ loader[c] \notin down
=============================================================================
