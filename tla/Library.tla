------------------------------ MODULE Library ------------------------------
(* Training videos: what is in object storage and the rows that point at it  *)
(* (training-modules.service.ts, shared-modules.service.ts,                  *)
(* storage.service.ts, and the removal of a client in tenants.service.ts).   *)
(*                                                                           *)
(* An upload puts the object, reads it back, then creates the row.  The      *)
(* platform's own modules are shared: a client's clone is a row of its own   *)
(* that points at the same object.  Removing a module removes the row only.  *)
(* Removing a client collects the objects its rows point at, deletes all its *)
(* rows in one transaction, then the objects one by one.                     *)
EXTENDS Integers, FiniteSets

CONSTANTS
  Tenants,   \* clients
  Objects,   \* uploads that can be made
  Rows,      \* a client's modules that can be made
  Shareds,   \* the platform's modules that can be made
  Calls,     \* calls that may be in progress at once
  MaxFaults, \* bound: answers of the storage that are wrong
  None       \* nothing, nobody

Platform == "platform"

LibraryAssumption ==
  /\ None \notin Tenants \cup Objects \cup Rows \cup Shareds \cup {Platform, "removed"}
  /\ Platform \notin Tenants /\ "removed" \notin Objects
  /\ MaxFaults \in Nat

VARIABLES
  client, \* active, stopped (suspended or offboarded) or gone
  stored, \* objects that storage holds
  owner,  \* who each object was uploaded for, None before
  module, \* each client's row: whose it is and its video
  shared, \* the video of each shared module; None, and "removed" at the end
  rule,   \* the module that a client's scenario routes to
  pc, place, video, row, \* calls: next step, client, object, row
  list,   \* of each call that removes a client, the objects it still has to delete
  faults,
  purged,   \* history: objects that the removal of a client has deleted
  reported, \* history: objects it could not delete
  loose,    \* history: objects that no row was made for, or whose module was removed
  late      \* history: objects whose row went with its client, but was made after the
            \* client's removal had collected what to delete

rowVars == <<client, module, shared, rule>>
callVars == <<pc, place, video, row, list>>
history == <<purged, reported, loose, late>>
vars == <<stored, owner, rowVars, callVars, faults, history>>

Steps == {"verify", "create", "clone", "delete", "erase", "objects"}

TypeOK ==
  /\ client \in [Tenants -> {"active", "stopped", "gone"}]
  /\ stored \subseteq Objects
  /\ owner \in [Objects -> Tenants \cup {Platform, None}]
  /\ module \in [Rows -> [of : Tenants \cup {None}, video : Objects \cup {None}]]
  /\ shared \in [Shareds -> Objects \cup {None, "removed"}]
  /\ rule \in [Tenants -> Rows \cup {None}]
  /\ pc \in [Calls -> Steps \cup {"idle"}]
  /\ place \in [Calls -> Tenants \cup {Platform, None}]
  /\ video \in [Calls -> Objects \cup {None}]
  /\ row \in [Calls -> Rows \cup {None}]
  /\ list \in [Calls -> SUBSET Objects]
  /\ faults \in 0 .. MaxFaults
  /\ purged \subseteq Objects /\ reported \subseteq Objects
  /\ loose \subseteq Objects /\ late \subseteq Objects

NoRow == [of |-> None, video |-> None]

Init ==
  /\ client = [t \in Tenants |-> "active"]
  /\ stored = {} /\ owner = [o \in Objects |-> None]
  /\ module = [r \in Rows |-> NoRow]
  /\ shared = [s \in Shareds |-> None]
  /\ rule = [t \in Tenants |-> None]
  /\ pc = [c \in Calls |-> "idle"]
  /\ place = [c \in Calls |-> None] /\ video = place /\ row = place
  /\ list = [c \in Calls |-> {}]
  /\ faults = 0
  /\ purged = {} /\ reported = {} /\ loose = {} /\ late = {}

There(t) == client[t] # "gone"
Unused(r) == module[r] = NoRow
VideosOf(t) == {module[r].video : r \in {r \in Rows : module[r].of = t}}

-----------------------------------------------------------------------------
(* A definition named like the next one with a suffix is that definition with
   one mistake in it, to show which property notices. *)

Fails == faults < MaxFaults /\ faults' = faults + 1

Goes(c, step, p, v, r) ==
  /\ pc' = [pc EXCEPT ![c] = step]
  /\ place' = [place EXCEPT ![c] = p]
  /\ video' = [video EXCEPT ![c] = v]
  /\ row' = [row EXCEPT ![c] = r]
  /\ UNCHANGED list
Returns(c) == Goes(c, "idle", None, None, None)

\* put(): storage may accept an object without keeping it.  The guards have asked
\* before, so the client may have been stopped since.
Put(c) ==
  /\ pc[c] = "idle"
  /\ \E o \in Objects, p \in {t \in Tenants : There(t)} \cup {Platform} :
       /\ owner[o] = None
       /\ owner' = [owner EXCEPT ![o] = p]
       /\ \/ stored' = stored \cup {o} /\ UNCHANGED faults
          \/ Fails /\ UNCHANGED stored
       /\ Goes(c, "verify", p, o, None)
  /\ UNCHANGED <<rowVars, history>>

\* exists(): an error is an answer of no.
Verify(c) ==
  /\ pc[c] = "verify"
  /\ \/ /\ video[c] \in stored /\ Goes(c, "create", place[c], video[c], None)
        /\ UNCHANGED <<faults, loose>>
     \/ /\ \/ video[c] \notin stored /\ UNCHANGED faults
           \/ video[c] \in stored /\ Fails
        /\ Returns(c)
        /\ loose' = loose \cup {video[c]}
  /\ UNCHANGED <<stored, owner, rowVars, purged, reported, late>>

CreateShared(c) ==
  /\ pc[c] = "create" /\ place[c] = Platform
  /\ \E s \in Shareds :
       /\ shared[s] = None
       /\ shared' = [shared EXCEPT ![s] = video[c]]
  /\ Returns(c)
  /\ UNCHANGED <<stored, owner, client, module, rule, faults, history>>

\* The row of a client that is gone cannot be created.
CreateModule(c) ==
  /\ pc[c] \in {"create", "clone"} /\ place[c] # Platform
  /\ IF There(place[c])
       THEN /\ \E r \in Rows :
                 /\ Unused(r)
                 /\ module' = [module EXCEPT ![r] = [of |-> place[c], video |-> video[c]]]
            /\ UNCHANGED loose
       ELSE /\ UNCHANGED module
            /\ loose' = loose \cup {video[c]}
  /\ Returns(c)
  /\ UNCHANGED <<stored, owner, client, shared, rule, faults, purged, reported, late>>

\* cloneFromShared reads the shared row, and copies its video's reference.
CloneFromShared(c) ==
  /\ pc[c] = "idle"
  /\ \E s \in Shareds, t \in Tenants :
       /\ shared[s] \in Objects /\ There(t)
       /\ Goes(c, "clone", t, shared[s], None)
  /\ UNCHANGED <<stored, owner, rowVars, faults, history>>

RemoveShared ==
  /\ \E s \in Shareds :
       /\ shared[s] \in Objects
       /\ shared' = [shared EXCEPT ![s] = "removed"]
  /\ UNCHANGED <<stored, owner, client, module, rule, callVars, faults, history>>

\* remove() counts the rules of the module, then deletes it; the foreign key
\* of a rule made in between refuses.
CountRules(c) ==
  /\ pc[c] = "idle"
  /\ \E r \in Rows :
       /\ ~Unused(r) /\ \A t \in Tenants : rule[t] # r
       /\ Goes(c, "delete", module[r].of, module[r].video, r)
  /\ UNCHANGED <<stored, owner, rowVars, faults, history>>

DeleteModule(c) ==
  /\ pc[c] = "delete"
  /\ IF module[row[c]] = [of |-> place[c], video |-> video[c]] /\ \A t \in Tenants : rule[t] # row[c]
       THEN /\ module' = [module EXCEPT ![row[c]] = NoRow]
            /\ loose' = loose \cup {video[c]}
       ELSE UNCHANGED <<module, loose>>
  /\ Returns(c)
  /\ UNCHANGED <<stored, owner, client, shared, rule, faults, purged, reported, late>>

\* setRule and removeRule.
SetRule ==
  /\ \E t \in Tenants, r \in Rows \cup {None} :
       /\ r # None => module[r].of = t
       /\ rule' = [rule EXCEPT ![t] = r]
  /\ UNCHANGED <<stored, owner, client, module, shared, callVars, faults, history>>

SetStatus ==
  /\ \E t \in Tenants : /\ There(t)
                        /\ client' = [client EXCEPT ![t] =
                             IF @ = "active" THEN "stopped" ELSE "active"]
  /\ UNCHANGED <<stored, owner, module, shared, rule, callVars, faults, history>>

\* remove(), of a client: read and collect.
Collect(c) ==
  /\ pc[c] = "idle"
  /\ \E t \in Tenants :
       /\ client[t] = "stopped"
       /\ pc' = [pc EXCEPT ![c] = "erase"]
       /\ place' = [place EXCEPT ![c] = t]
       /\ list' = [list EXCEPT ![c] = VideosOf(t)]
  /\ UNCHANGED <<stored, owner, rowVars, video, row, faults, history>>

\* The transaction; it fails when the client is gone already.
DeleteRows(c) ==
  /\ pc[c] = "erase"
  /\ LET t == place[c] IN
       IF There(t)
         THEN /\ client' = [client EXCEPT ![t] = "gone"]
              /\ module' = [r \in Rows |-> IF module[r].of = t THEN NoRow ELSE module[r]]
              /\ rule' = [rule EXCEPT ![t] = None]
              /\ late' = late \cup (VideosOf(t) \ list[c])
              /\ pc' = [pc EXCEPT ![c] = "objects"]
              /\ UNCHANGED <<place, video, row, list>>
         ELSE /\ Returns(c) /\ UNCHANGED <<client, module, rule, late>>
  /\ UNCHANGED <<stored, owner, shared, faults, purged, reported, loose>>

\* An object that cannot be deleted is reported, and the next one deleted.
DeleteObjectsThat(c, goesOn) ==
  /\ pc[c] = "objects"
  /\ \/ /\ list[c] = {} /\ Returns(c)
        /\ UNCHANGED <<stored, faults, purged, reported>>
     \/ \E o \in list[c] :
          /\ stored' = stored \ {o} /\ purged' = purged \cup {o}
          /\ list' = [list EXCEPT ![c] = @ \ {o}]
          /\ UNCHANGED <<pc, place, video, row, faults, reported>>
     \/ \E o \in list[c] :
          /\ Fails /\ reported' = reported \cup {o}
          /\ list' = [list EXCEPT ![c] = IF goesOn THEN @ \ {o} ELSE {}]
          /\ UNCHANGED <<pc, place, video, row, stored, purged>>
  /\ UNCHANGED <<owner, rowVars, loose, late>>
DeleteObjectsUntilError(c) == DeleteObjectsThat(c, FALSE)
DeleteObjects(c) == DeleteObjectsThat(c, TRUE)

Next ==
  \/ \E c \in Calls :
       \/ Put(c) \/ Verify(c) \/ CreateShared(c) \/ CreateModule(c) \/ CloneFromShared(c)
       \/ CountRules(c) \/ DeleteModule(c)
       \/ Collect(c) \/ DeleteRows(c) \/ DeleteObjects(c)
  \/ RemoveShared \/ SetRule \/ SetStatus

Spec == Init /\ [][Next]_vars

-----------------------------------------------------------------------------
(* Properties *)

\* "A put() that reports success without the bytes landing would leave a module
\* pointing at nothing": every module plays, the platform's and the clients',
\* unless the removal of some client took its video away.
ModulesPlay ==
  /\ \A r \in Rows : ~Unused(r) => module[r].video \in stored \cup purged
  /\ \A s \in Shareds : shared[s] \in Objects => shared[s] \in stored \cup purged

\* What the removal of a client takes away is never a video that another client
\* has uploaded, and one that its own modules played is there for as long as
\* they are.
OthersKeepTheirs ==
  \A r \in Rows : ~Unused(r) /\ owner[module[r].video] = module[r].of =>
    module[r].video \in stored

\* What storage still holds of clients whose removal is over was reported, had no row
\* when the removal began (a module is removed without its video), or is excused.
ErasedBut(excused) ==
  \A t \in Tenants :
    client[t] = "gone" /\ (\A c \in Calls : place[c] = t => pc[c] \in {"verify", "create"}) =>
      \A o \in stored : owner[o] = t =>
        o \in reported \cup loose \cup excused \cup {video[c] : c \in Calls}

\* When a client is removed, the videos that its rows pointed at go or are reported,
\* but for those whose row was made after the removal had collected them: these stay,
\* as ErasedVideosGo below shows, and no others do.
ErasedLeavesNothing == ErasedBut(late)

\* A rule routes to a module of the same client.
RulesResolve == \A t \in Tenants : rule[t] # None => module[rule[t]].of = t

LibraryInv == TypeOK /\ ModulesPlay /\ OthersKeepTheirs /\ ErasedLeavesNothing /\ RulesResolve

-----------------------------------------------------------------------------
(* Statements of the comments that the code does not meet *)

\* "Permanently removes a client and everything belonging to them"; what
\* belongs to the platform stays: a shared module still has its video.
SharedVideosSurvive == \A s \in Shareds : shared[s] \in Objects => shared[s] \in stored

\* "The database rows go, and the videos, logos and signed agreements they pointed at
\* have to go with them or the client's data outlives the account that held it": no
\* video that a row of a removed client pointed at stays unreported.
ErasedVideosGo == ErasedBut({})
=============================================================================
