----------------------------- MODULE ObjectStore -----------------------------
(***************************************************************************)
(* The objects of one key: services/saas/storage.py behind the API threads *)
(* of routes/saas.py and the storage.lifecycle_sweep job, with a backend   *)
(* that keeps files.                                                       *)
(*                                                                         *)
(* A put writes the file of the new version, then commits its rows; a      *)
(* removal deletes the files, then commits.  The name of a file is its     *)
(* version, whichever object row it belongs to, and nothing keeps a key    *)
(* from having two object rows.                                            *)
(***************************************************************************)
EXTENDS Naturals, Sequences

CONSTANTS
  StoreCalls,   \* concurrent requests and sweeps
  MaxObjects,   \* bound: rows of storage_objects
  MaxPuts       \* bound: version numbers

ASSUME StoreBoundAssumption == MaxObjects \in Nat /\ MaxPuts \in Nat \ {0}

VARIABLES
  objects,  \* storage_objects by id: is it there, its current_version
  versions, \* storage_object_versions: <<object id, version>>
  blobs,    \* the versions that have a file
  storing,  \* each call
  (* History: *)
  taken     \* files a removal has deleted since they were written

storeVars == <<objects, versions, blobs, storing, taken>>

ObjectIds  == 1 .. MaxObjects
PutNumbers == 1 .. MaxPuts

StoreCall == [pc : {"idle", "write", "commit", "delete"},
              ids : SUBSET ObjectIds, new : BOOLEAN,
              version : PutNumbers \cup {0},
              unlisted : SUBSET ObjectIds,
              listed : SUBSET (ObjectIds \X PutNumbers),
              files : SUBSET PutNumbers]

NoStoreCall == [pc |-> "idle", ids |-> {}, new |-> FALSE, version |-> 0,
                unlisted |-> {}, listed |-> {}, files |-> {}]

StoreTypeOK ==
  /\ objects \in Seq([live : BOOLEAN, current : PutNumbers])
  /\ Len(objects) <= MaxObjects
  /\ versions \subseteq ObjectIds \X PutNumbers
  /\ blobs \subseteq PutNumbers
  /\ storing \in [StoreCalls -> StoreCall]
  /\ taken \subseteq PutNumbers

StoreInit ==
  /\ objects = <<>>
  /\ versions = {}
  /\ blobs = {}
  /\ storing = [s \in StoreCalls |-> NoStoreCall]
  /\ taken = {}

-----------------------------------------------------------------------------
LiveObjects == {o \in DOMAIN objects : objects[o].live}

Calls(s, pc) == storing[s].pc = pc

(* put_object looks for the key; complete_multipart ends in it.  Which of  *)
(* two rows it finds is the database's choice.                             *)
PutLoad(s) ==
  /\ Calls(s, "idle")
  /\ \/ /\ LiveObjects = {}
        /\ storing' = [storing EXCEPT ![s] =
             [NoStoreCall EXCEPT !.pc = "write", !.new = TRUE, !.version = 1]]
     \/ \E o \in LiveObjects :
          /\ objects[o].current < MaxPuts
          /\ storing' = [storing EXCEPT ![s] =
               [NoStoreCall EXCEPT !.pc = "write", !.ids = {o},
                                   !.version = objects[o].current + 1]]
  /\ UNCHANGED <<objects, versions, blobs, taken>>

PutWrite(s) ==
  /\ Calls(s, "write")
  /\ blobs' = blobs \cup {storing[s].version}
  /\ taken' = taken \ {storing[s].version}
  /\ storing' = [storing EXCEPT ![s].pc = "commit"]
  /\ UNCHANGED <<objects, versions>>

PutCreate(s) ==
  /\ Calls(s, "commit") /\ storing[s].new
  /\ Len(objects) < MaxObjects
  /\ objects' = Append(objects, [live |-> TRUE, current |-> 1])
  /\ versions' = versions \cup {<<Len(objects) + 1, 1>>}
  /\ storing' = [storing EXCEPT ![s] = NoStoreCall]
  /\ UNCHANGED <<blobs, taken>>

(* Mutant: the database raises the version, the row keeps the one loaded. *)
PutUpdateCounted(s) ==
  /\ Calls(s, "commit") /\ ~storing[s].new
  /\ \E o \in storing[s].ids :
       /\ objects[o].live /\ objects[o].current < MaxPuts
       /\ objects' = [objects EXCEPT ![o].current = @ + 1]
       /\ versions' = versions \cup {<<o, storing[s].version>>}
  /\ storing' = [storing EXCEPT ![s] = NoStoreCall]
  /\ UNCHANGED <<blobs, taken>>

(* The UPDATE of an object that is gone meanwhile raises. *)
PutUpdate(s) ==
  /\ Calls(s, "commit") /\ ~storing[s].new
  /\ \E o \in storing[s].ids :
       /\ objects[o].live
       /\ objects' = [objects EXCEPT ![o].current = storing[s].version]
       /\ versions' = versions \cup {<<o, storing[s].version>>}
  /\ storing' = [storing EXCEPT ![s] = NoStoreCall]
  /\ UNCHANGED <<blobs, taken>>

-----------------------------------------------------------------------------
(* delete_object finds one row, a sweep the rows that have expired. *)
RemoveLoad(s) ==
  /\ Calls(s, "idle")
  /\ \E ids \in SUBSET LiveObjects \ {{}} :
       storing' = [storing EXCEPT ![s] =
         [NoStoreCall EXCEPT !.pc = "delete", !.ids = ids, !.unlisted = ids]]
  /\ UNCHANGED <<objects, versions, blobs, taken>>

(* list_versions of the next row, when the files before it are deleted *)
RemoveList(s) ==
  /\ Calls(s, "delete") /\ storing[s].files = {}
  /\ \E o \in storing[s].unlisted :
       LET listed == {v \in versions : v[1] = o} IN
       storing' = [storing EXCEPT ![s].unlisted = @ \ {o},
                                  ![s].listed = @ \cup listed,
                                  ![s].files = {v[2] : v \in listed}]
  /\ UNCHANGED <<objects, versions, blobs, taken>>

RemoveFile(s, file) ==
  /\ Calls(s, "delete")
  /\ file \in storing[s].files
  /\ blobs' = blobs \ {file}
  /\ taken' = taken \cup {file}
  /\ storing' = [storing EXCEPT ![s].files = @ \ {file}]
  /\ UNCHANGED <<objects, versions>>

(* The commit: the foreign key refuses to leave a version without its      *)
(* object; rows that are gone already only raise a warning.                *)
RemoveCommit(s) ==
  /\ Calls(s, "delete") /\ storing[s].files = {} /\ storing[s].unlisted = {}
  /\ \A v \in versions \ storing[s].listed : v[1] \notin storing[s].ids
  /\ versions' = versions \ storing[s].listed
  /\ objects' = [o \in DOMAIN objects |->
       IF o \in storing[s].ids THEN [objects[o] EXCEPT !.live = FALSE] ELSE objects[o]]
  /\ storing' = [storing EXCEPT ![s] = NoStoreCall]
  /\ UNCHANGED <<blobs, taken>>

(* The process dies, or a commit is refused: the files stay as they are. *)
AbandonStore(s) ==
  /\ ~Calls(s, "idle")
  /\ storing' = [storing EXCEPT ![s] = NoStoreCall]
  /\ UNCHANGED <<objects, versions, blobs, taken>>

StoreStep(s) ==
  \/ PutLoad(s) \/ PutWrite(s) \/ PutCreate(s) \/ PutUpdate(s)
  \/ RemoveLoad(s) \/ RemoveList(s)
  \/ \E file \in PutNumbers : RemoveFile(s, file)
  \/ RemoveCommit(s)
  \/ AbandonStore(s)

StoreNext == \E s \in StoreCalls : StoreStep(s)

StoreSpec == StoreInit /\ [][StoreNext]_storeVars

-----------------------------------------------------------------------------
(* Properties *)

(* The version an object names as its current one has a row, and a file    *)
(* unless a removal took the file, although puts, deletions, sweeps and    *)
(* crashes overlap, versions repeat and go back, and a removal may have    *)
(* the rows it deletes changed or taken away under it.                     *)
CurrentIsStored ==
  \A o \in LiveObjects :
    /\ <<o, objects[o].current>> \in versions
    /\ objects[o].current \in blobs \cup taken
=============================================================================
