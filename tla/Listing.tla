------------------------------- MODULE Listing -------------------------------
(***************************************************************************)
(* A call of list_files, from the C API through the plugin's client to the *)
(* storage and back, while others put and delete objects.  A storage       *)
(* answers in pages, in the order of the keys (external); the file system  *)
(* is walked entry by entry.  A key is a number, in that order, and Keys   *)
(* has what a listing can tell about it.                                   *)
(***************************************************************************)
EXTENDS Naturals, Sequences, FiniteSets

CONSTANTS
  Keys,      \* <<[inPrefix, nested, marker, allowed, ignored]>>: the key has
             \* the prefix, a "/" after it, is a directory marker (of a file
             \* system: no regular file), matches an allow, an ignore pattern
  PageSize   \* keys in a page, at most

ASSUME ListingAssumption ==
  /\ Keys \in Seq([inPrefix : BOOLEAN, nested : BOOLEAN, marker : BOOLEAN,
                   allowed : BOOLEAN, ignored : BOOLEAN])
  /\ PageSize \in Nat \ {0}

VARIABLES
  scheme,    \* of the prefix: "s3", "gs", "az", or "fs" for a path
  recursive, \* is_recursive
  objects,   \* the keys there are
  touched,   \* history: put or deleted since the listing began
  stage,     \* of the call: "idle", "listing", "listed", "ok" or an error
  after,     \* the continuation token, or the entries visited
  results    \* how often the call has found each key

listingVars == <<scheme, recursive, objects, touched, stage, after, results>>

KeySet == 1 .. Len(Keys)
Errors == {"FileAccessError", "UnknownError"}

ListInit(schemes, stores) ==
  /\ scheme \in schemes
  /\ recursive \in BOOLEAN
  /\ objects \in stores
  /\ touched = {}
  /\ stage = "idle"
  /\ after = {}
  /\ results = [k \in KeySet |-> 0]

(* Somebody else puts or deletes an object that the listing may see.  Each *)
(* key changes once, and nothing is put where nothing was.                 *)
Touch(k) ==
  /\ stage = "listing"
  /\ objects # {}
  /\ k \notin touched
  /\ objects' = IF k \in objects THEN objects \ {k} ELSE objects \cup {k}
  /\ touched' = touched \cup {k}
  /\ UNCHANGED <<scheme, recursive, stage, after, results>>

(* runai_list_files: the call begins.  A path that does not exist is an    *)
(* error of the file system only.                                          *)
ListFiles ==
  /\ stage = "idle"
  /\ stage' = IF scheme = "fs" /\ objects = {} THEN "FileAccessError"
              ELSE "listing"
  /\ UNCHANGED <<scheme, recursive, objects, touched, after, results>>

(* What the storage is asked for: with a delimiter, the keys below a       *)
(* common prefix are not among the objects of the answer.                  *)
Wanted(k) == Keys[k].inPrefix /\ (recursive \/ ~Keys[k].nested)
Remaining == {k \in objects : Wanted(k) /\ \A a \in after : a < k}
FirstOf(n, S) == {k \in S : Cardinality({j \in S : j <= k}) <= n}

(* What a page adds to the results: no directory markers. *)
Found(S) == {k \in S : ~Keys[k].marker}
Add(S) ==
  results' = [k \in KeySet |-> IF k \in Found(S) THEN results[k] + 1
                              ELSE results[k]]

(* The listing is complete, or fails and is dropped. *)
EndList(outcome) ==
  /\ stage' = outcome
  /\ UNCHANGED <<scheme, recursive, objects, touched, after, results>>

(* Mutant of ListPage: a page without a file in it is taken for the end. *)
ListPageStopsEarly(page) ==
  /\ Add(page)
  /\ after' = after \cup page
  /\ stage' = IF Remaining \subseteq page \/ Found(page) = {}
              THEN "listed" ELSE "listing"
  /\ UNCHANGED <<scheme, recursive, objects, touched>>

(* A page is added; another follows if the answer was truncated. *)
ListPage(page) ==
  /\ Add(page)
  /\ after' = after \cup page
  /\ stage' = IF Remaining \subseteq page THEN "listed" ELSE "listing"
  /\ UNCHANGED <<scheme, recursive, objects, touched>>

S3ListFiles ==
  /\ stage = "listing"
  /\ scheme = "s3"
  /\ \/ ListPage(FirstOf(PageSize, Remaining))
     \/ EndList("FileAccessError")

(* The SDK iterates over the objects, and over the pages itself. *)
GcsListFiles ==
  /\ stage = "listing"
  /\ scheme = "gs"
  /\ \/ ListPage(FirstOf(1, Remaining))
     \/ EndList("FileAccessError")

(* The SDK throws, and impl_obj_list_files catches. *)
AzureListFiles ==
  /\ stage = "listing"
  /\ scheme = "az"
  /\ \/ ListPage(FirstOf(PageSize, Remaining))
     \/ EndList("UnknownError")

(* The directory iterator, in any order; an entry that goes between its    *)
(* type and its size throws.                                               *)
FsListFiles ==
  /\ stage = "listing"
  /\ scheme = "fs"
  /\ LET entries == {k \in objects \ after : Wanted(k)}
     IN  \/ \E k \in entries :
              /\ Add({k})
              /\ after' = after \cup {k}
              /\ UNCHANGED <<scheme, recursive, objects, touched, stage>>
         \/ entries = {} /\ EndList("listed")
         \/ EndList("UnknownError")

(* keep: at least one allow pattern, if there are any, and no ignore       *)
(* pattern matches.                                                        *)
Keep(k) == Keys[k].allowed /\ ~Keys[k].ignored

(* The entries cross the plugin's API and are filtered; the callback gets  *)
(* the rest.                                                               *)
FilterEntries ==
  /\ stage = "listed"
  /\ stage' = "ok"
  /\ results' = [k \in KeySet |-> IF Keep(k) THEN results[k] ELSE 0]
  /\ UNCHANGED <<scheme, recursive, objects, touched, after>>

ListNext ==
  \/ \E k \in KeySet : Touch(k)
  \/ S3ListFiles
  \/ GcsListFiles
  \/ AzureListFiles
  \/ FsListFiles
  \/ FilterEntries

-----------------------------------------------------------------------------
(* Properties *)

(* A listing that succeeds has every file that was there all the time and  *)
(* matches, in every page, once; and none that does not match, whatever    *)
(* others put and delete meanwhile.                                        *)
ListingIsExact ==
  stage = "ok" =>
    \A k \in KeySet :
      LET matching == Wanted(k) /\ ~Keys[k].marker /\ Keep(k)
      IN  /\ results[k] <= 1
          /\ results[k] = 1 => matching /\ k \in objects \cup touched
          /\ matching /\ k \in objects \ touched => results[k] = 1

=============================================================================
