------------------------------ MODULE FileStorage ------------------------------
(***************************************************************************)
(* The file backend of yma-storage.  A key is a file whose name is the key *)
(* with the separators replaced; nothing is locked.  A write opens the     *)
(* file, which empties it, and then fills it from its start with one call  *)
(* to the system; a read and a removal first ask whether the file is       *)
(* there.  Each of these is a step, another call may come in between, each *)
(* may fail, and the process may die between two of them.                  *)
(***************************************************************************)
EXTENDS Naturals, FiniteSets

CONSTANTS
  StorageKeys,
  FileOf(_),              (* the file name a key is stored under            *)
  StorageValues,
  StorageTasks,
  Empty,                  (* the content of a file that was just emptied    *)
  Torn                    (* a part of a value, or parts of several         *)

Missing == "missing"

ASSUME ContentsAssumption ==
  /\ StorageValues \cap {Empty, Torn, Missing} = {}
  /\ Empty # Torn /\ Missing \notin {Empty, Torn}

VARIABLES
  files,                  (* files[f]: its content, or Missing              *)
  storageCall,            (* storageCall[t]: the call t is in the middle of *)
  meant,                  (* history: meant[k]: what the calls that have    *)
                          (* finished mean the key to hold                  *)
  readsTrue               (* history: whether the last get that met no      *)
                          (* write answered so                              *)

storageVars == <<files, storageCall, meant, readsTrue>>

FileNames == {FileOf(k) : k \in StorageKeys}
Contents == StorageValues \cup {Empty, Torn, Missing}
NoStorageCall == [at |-> "none"]

StorageInit ==
  /\ files = [f \in FileNames |-> Missing]
  /\ storageCall = [t \in StorageTasks |-> NoStorageCall]
  /\ meant = [k \in StorageKeys |-> {Missing}]
  /\ readsTrue = TRUE

\* A call on file f, and a write that has f open, not a file that was removed.
On(t, f) == storageCall[t] # NoStorageCall /\ FileOf(storageCall[t].key) = f

Filling(t, f) == On(t, f) /\ storageCall[t].at = "filling" /\ ~storageCall[t].unlinked

\* History: t writes to file f, and the other calls on it have met a write.
Disturb(t, f) ==
  [u \in StorageTasks |->
     IF u # t /\ On(u, f) THEN [storageCall[u] EXCEPT !.alone = FALSE]
     ELSE storageCall[u]]

Alone(f) == \A u \in StorageTasks : ~Filling(u, f)

\* History: what the keys that share file f are meant to hold.
Mean(f, contents) ==
  [k \in StorageKeys |-> IF FileOf(k) = f THEN contents ELSE meant[k]]

Begins(t, at, k) ==
  [at |-> at, key |-> k, alone |-> Alone(FileOf(k))]

-----------------------------------------------------------------------------
\* Mutant of SetBegin: the file is opened without being emptied.
SetBeginKept(t, k, value) ==
  /\ storageCall[t] = NoStorageCall
  /\ files' = [files EXCEPT ![FileOf(k)] = IF @ = Missing THEN Empty ELSE @]
  /\ storageCall' = [Disturb(t, FileOf(k)) EXCEPT ![t] =
       [at |-> "filling", key |-> k, value |-> value, alone |-> Alone(FileOf(k)),
        unlinked |-> FALSE]]
  /\ UNCHANGED <<meant, readsTrue>>

SetBegin(t, k, value) ==
  /\ storageCall[t] = NoStorageCall
  /\ files' = [files EXCEPT ![FileOf(k)] = Empty]
  /\ storageCall' = [Disturb(t, FileOf(k)) EXCEPT ![t] =
       [at |-> "filling", key |-> k, value |-> value, alone |-> Alone(FileOf(k)),
        unlinked |-> FALSE]]
  /\ UNCHANGED <<meant, readsTrue>>

(***************************************************************************)
(* A write fills the file from its start: over what another one has put    *)
(* there since the file was emptied, whose end stays if it was the longer  *)
(* one.  A file that was removed meanwhile is filled where nobody sees it. *)
(***************************************************************************)
SetFinish(t) ==
  LET call == storageCall[t]
      f    == FileOf(call.key)
  IN  /\ call.at = "filling"
      /\ IF call.unlinked
         THEN /\ UNCHANGED <<files, meant>>
              /\ storageCall' = [storageCall EXCEPT ![t] = NoStorageCall]
         ELSE /\ \E content \in {call.value, Torn} :
                   /\ files[f] = Empty => content = call.value
                   /\ files' = [files EXCEPT ![f] = content]
              /\ meant' = Mean(f, {call.value} \cup (IF call.alone THEN {} ELSE {Torn}))
              /\ storageCall' = [Disturb(t, f) EXCEPT ![t] = NoStorageCall]
      /\ readsTrue' = readsTrue

\* The system fails, perhaps after a part was written; the caller is told.
CallFails(t) ==
  LET call == storageCall[t]
      f    == FileOf(call.key)
  IN  /\ call # NoStorageCall
      /\ IF Filling(t, f)
         THEN /\ \E content \in {files[f], Torn} : files' = [files EXCEPT ![f] = content]
              /\ meant' = Mean(f, meant[call.key] \cup {Empty, Torn})
              /\ storageCall' = [Disturb(t, f) EXCEPT ![t] = NoStorageCall]
         ELSE /\ storageCall' = [storageCall EXCEPT ![t] = NoStorageCall]
              /\ UNCHANGED <<files, meant>>
      /\ readsTrue' = readsTrue

(***************************************************************************)
(* get: a missing file is an answer; a file that goes away between the     *)
(* question and the reading is an error.                                   *)
(***************************************************************************)
GetMissing(t, k) ==
  /\ storageCall[t] = NoStorageCall
  /\ files[FileOf(k)] = Missing
  /\ readsTrue' = (Missing \in meant[k])
  /\ UNCHANGED <<files, storageCall, meant>>

GetBegin(t, k) ==
  /\ storageCall[t] = NoStorageCall
  /\ files[FileOf(k)] # Missing
  /\ storageCall' = [storageCall EXCEPT ![t] = Begins(t, "reading", k)]
  /\ UNCHANGED <<files, meant, readsTrue>>

GetFinish(t) ==
  LET call == storageCall[t]
  IN  /\ call.at = "reading"
      /\ readsTrue' = IF call.alone /\ files[FileOf(call.key)] # Missing
                      THEN files[FileOf(call.key)] \in meant[call.key]
                      ELSE readsTrue
      /\ storageCall' = [storageCall EXCEPT ![t] = NoStorageCall]
      /\ UNCHANGED <<files, meant>>

\* delete, of a file that is there; removing one that has gone is an error.  The
\* writes under way into the file that is removed are into nothing now.
DeleteBegin(t, k) ==
  /\ storageCall[t] = NoStorageCall
  /\ files[FileOf(k)] # Missing
  /\ storageCall' = [storageCall EXCEPT ![t] = Begins(t, "removing", k)]
  /\ UNCHANGED <<files, meant, readsTrue>>

DeleteFinish(t) ==
  LET f == FileOf(storageCall[t].key)
  IN  /\ storageCall[t].at = "removing"
      /\ files' = [files EXCEPT ![f] = Missing]
      /\ meant' = Mean(f, {Missing})
      /\ storageCall' =
           [u \in StorageTasks |->
              IF u = t THEN NoStorageCall
              ELSE IF Filling(u, f) THEN [storageCall[u] EXCEPT !.unlinked = TRUE]
              ELSE storageCall[u]]
      /\ readsTrue' = readsTrue

\* The process dies and is started again: the files stay as they are, those that
\* were written as far as they were written.
StorageCrash ==
  LET open == {f \in FileNames : ~Alone(f)}
  IN  /\ \E torn \in SUBSET open :
           files' = [f \in FileNames |-> IF f \in torn THEN Torn ELSE files[f]]
      /\ meant' = [k \in StorageKeys |->
                     IF FileOf(k) \in open THEN meant[k] \cup {Empty, Torn}
                     ELSE meant[k]]
      /\ storageCall' = [t \in StorageTasks |-> NoStorageCall]
      /\ readsTrue' = readsTrue

StorageNext ==
  \/ \E t \in StorageTasks :
       \/ \E k \in StorageKeys : \/ \E value \in StorageValues : SetBegin(t, k, value)
                                 \/ GetMissing(t, k)
                                 \/ GetBegin(t, k)
                                 \/ DeleteBegin(t, k)
       \/ SetFinish(t)
       \/ CallFails(t)
       \/ GetFinish(t)
       \/ DeleteFinish(t)
  \/ StorageCrash

StorageSpec == StorageInit /\ [][StorageNext]_storageVars

-----------------------------------------------------------------------------
StorageWrite ==
  [at : {"filling"}, key : StorageKeys, value : StorageValues, alone : BOOLEAN,
   unlinked : BOOLEAN]
StorageAccess == [at : {"reading", "removing"}, key : StorageKeys, alone : BOOLEAN]
StorageCall == StorageWrite \cup StorageAccess

StorageTypeOK ==
  /\ files \in [FileNames -> Contents]
  /\ storageCall \in [StorageTasks -> {NoStorageCall} \cup StorageCall]
  /\ meant \in [StorageKeys -> SUBSET Contents]
  /\ readsTrue \in BOOLEAN

FilesAreAsMeant ==
  \A k \in StorageKeys :
    \/ files[FileOf(k)] \in meant[k]
    \/ files[FileOf(k)] = Empty /\ ~Alone(FileOf(k))

\* A get that meets no write to its file answers with the value of the last set
\* that finished, or that there is none when a delete did, those of the keys with
\* the same file name included.  A set that met no other write leaves its value
\* and nothing else; one that did may leave a mixture with the others', and only
\* a set that failed or a crash during one leaves a part, until the next set that
\* meets no other or the next delete.  A file is empty only while it is written,
\* or after such a failure.
ReadsAreTrue == readsTrue /\ FilesAreAsMeant

(***************************************************************************)
(* What the proof in ServiceProofs needs: a read or a write that is alone  *)
(* has no write beside it, and a write has an empty file before it then.   *)
(***************************************************************************)
Reading(t, f) == On(t, f) /\ storageCall[t].at = "reading"

AloneMeetsNoWrite ==
  \A t, u \in StorageTasks, f \in FileNames :
    /\ Filling(t, f) \/ Reading(t, f)
    /\ storageCall[t].alone
    /\ Filling(u, f)
    => t = u

AloneFillsEmpty ==
  \A t \in StorageTasks, f \in FileNames :
    Filling(t, f) /\ storageCall[t].alone => files[f] = Empty

StorageInv ==
  StorageTypeOK /\ ReadsAreTrue /\ AloneMeetsNoWrite /\ AloneFillsEmpty
=============================================================================
