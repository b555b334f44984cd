------------------------------ MODULE ConfigReload ------------------------------
(***************************************************************************)
(* The configuration manager of yma-config: the configuration behind a     *)
(* lock, a watch channel that tells subscribers of it, and a task that     *)
(* looks at the file from time to time.  An update stores the              *)
(* configuration and then, with the lock given back, sends it; the watcher *)
(* looks at the time of the file before it reads the file.                 *)
(***************************************************************************)
EXTENDS Naturals, FiniteSets

CONSTANTS
  ConfigValues,
  FirstConfig,            (* the configuration new was given                *)
  Unreadable,             (* what a file holds that cannot be read or parsed *)
  Updaters,               (* the threads that call update                   *)
  FileWatcher,            (* the task of start_file_watcher                 *)
  ConfigSubscribers,
  NeverSeen,              (* the watcher has not looked yet                 *)
  MaxFileTime             (* bound on the clock of the file system          *)

ASSUME ConfigConstants ==
  /\ FirstConfig \in ConfigValues
  /\ Unreadable \notin ConfigValues
  /\ FileWatcher \notin Updaters
  /\ NeverSeen \notin Nat
  /\ MaxFileTime \in Nat

VARIABLES
  config,                 (* inner                                          *)
  channel,                (* the value in the watch channel                 *)
  configSubscribed,       (* the receivers there are                        *)
  updating,               (* updating[t]: the update t is in the middle of  *)
  file,                   (* its content and the time it was modified       *)
  lastModified,           (* last_modified of the watcher                   *)
  fileNow,
  told                    (* history: what is known of the last update sent *)
                          (* and of the last configuration from the file    *)

configVars ==
  <<config, channel, configSubscribed, updating, file, lastModified, fileNow, told>>

NoUpdate == [at |-> "none"]
Tasks == Updaters \cup {FileWatcher}
Sending(t) == updating[t].at = "sending"

ConfigInit ==
  /\ config = FirstConfig
  /\ channel = FirstConfig
  /\ configSubscribed = {}
  /\ updating = [t \in Tasks |-> NoUpdate]
  /\ file = [content |-> FirstConfig, modified |-> 0]
  /\ lastModified = NeverSeen
  /\ fileNow = 0
  /\ told = [heard |-> FALSE, overridden |-> FALSE, missed |-> FALSE]

-----------------------------------------------------------------------------
\* The first half of update.  History: updates that are in the middle of theirs
\* are no longer alone.
Stores(t, value) ==
  /\ config' = value
  /\ updating' = [u \in Tasks |->
       IF u = t THEN [at |-> "sending", value |-> value,
                      alone |-> ~\E v \in Tasks \ {t} : Sending(v)]
       ELSE IF Sending(u) THEN [updating[u] EXCEPT !.alone = FALSE]
       ELSE updating[u]]
  /\ told' = [told EXCEPT !.overridden = t # FileWatcher]
  /\ UNCHANGED <<channel, configSubscribed, file, lastModified, fileNow>>

\* update, and reload_from_str with a text that can be parsed.
Update(u, value) == updating[u] = NoUpdate /\ Stores(u, value)

\* The second half: without a receiver send fails, and the channel keeps what it
\* held, for the receivers to come as well.
SendsUpdate(t) ==
  /\ Sending(t)
  /\ channel' = IF configSubscribed = {} THEN channel ELSE updating[t].value
  /\ told' = [told EXCEPT !.heard = configSubscribed # {} /\ updating[t].alone]
  /\ updating' = [updating EXCEPT ![t] = NoUpdate]
  /\ UNCHANGED <<config, configSubscribed, file, lastModified, fileNow>>

ConfigSubscribes(s) ==
  /\ s \notin configSubscribed
  /\ configSubscribed' = configSubscribed \cup {s}
  /\ UNCHANGED <<config, channel, updating, file, lastModified, fileNow, told>>

ReceiverDropped(s) ==
  /\ s \in configSubscribed
  /\ configSubscribed' = configSubscribed \ {s}
  /\ UNCHANGED <<config, channel, updating, file, lastModified, fileNow, told>>

-----------------------------------------------------------------------------
\* The watcher: the time of the file is taken down before anything is read, and
\* stays so when the reading fails.
WatcherLooks ==
  /\ updating[FileWatcher] = NoUpdate
  /\ lastModified # NeverSeen => file.modified > lastModified
  /\ lastModified' = file.modified
  /\ updating' = [updating EXCEPT ![FileWatcher] = [at |-> "reading"]]
  /\ UNCHANGED <<config, channel, configSubscribed, file, fileNow, told>>

WatcherReads ==
  /\ updating[FileWatcher].at = "reading"
  /\ updating' = [updating EXCEPT ![FileWatcher] =
       IF file.content = Unreadable THEN NoUpdate
       ELSE [at |-> "storing", value |-> file.content]]
  /\ UNCHANGED <<config, channel, configSubscribed, file, lastModified, fileNow, told>>

WatcherStores ==
  /\ updating[FileWatcher].at = "storing"
  /\ Stores(FileWatcher, updating[FileWatcher].value)

\* Whoever writes the file.  History: a change in the tick of the clock the
\* watcher has taken down already, after it has read, is one it cannot see.
FileWritten(content) ==
  /\ file' = [content |-> content, modified |-> fileNow]
  /\ told' = [told EXCEPT !.missed =
       lastModified = fileNow /\ updating[FileWatcher].at # "reading"]
  /\ UNCHANGED <<config, channel, configSubscribed, updating, lastModified, fileNow>>

FileTick ==
  /\ fileNow < MaxFileTime
  /\ fileNow' = fileNow + 1
  /\ UNCHANGED <<config, channel, configSubscribed, updating, file, lastModified, told>>

ConfigNext ==
  \/ \E u \in Updaters, value \in ConfigValues : Update(u, value)
  \/ \E t \in Tasks : SendsUpdate(t)
  \/ \E s \in ConfigSubscribers : ConfigSubscribes(s) \/ ReceiverDropped(s)
  \/ WatcherLooks
  \/ WatcherReads
  \/ WatcherStores
  \/ \E content \in ConfigValues \cup {Unreadable} : FileWritten(content)
  \/ FileTick

ConfigSpec == ConfigInit /\ [][ConfigNext]_configVars

-----------------------------------------------------------------------------
ConfigTypeOK ==
  /\ {config, channel} \subseteq ConfigValues
  /\ configSubscribed \subseteq ConfigSubscribers
  /\ updating \in [Tasks -> {NoUpdate, [at |-> "reading"]}
       \cup [at : {"storing"}, value : ConfigValues]
       \cup [at : {"sending"}, value : ConfigValues, alone : BOOLEAN]]
  /\ file \in [content : ConfigValues \cup {Unreadable}, modified : 0..MaxFileTime]
  /\ lastModified \in 0..MaxFileTime \cup {NeverSeen}
  /\ fileNow \in 0..MaxFileTime
  /\ told \in [heard : BOOLEAN, overridden : BOOLEAN, missed : BOOLEAN]

\* Between updates, subscribers are told the configuration get answers with, if
\* the last update had somebody to tell and no other update ran with it; and a
\* file the watcher is done with is the configuration, unless it was written
\* again in the same tick, cannot be read, or was overridden by an update.
ConfigFollowed ==
  /\ (\A t \in Tasks : ~Sending(t)) /\ told.heard => channel = config
  /\ /\ updating[FileWatcher].at \in {"none", "sending"}
     /\ lastModified = file.modified
     /\ file.content # Unreadable
     /\ ~told.missed
     /\ ~told.overridden
     => config = file.content

(***************************************************************************)
(* What the proof in ServiceProofs needs: an update that ran alone is the  *)
(* last to have stored, and what the watcher is about to store is in the   *)
(* file unless that was written again too early to be noticed.             *)
(***************************************************************************)
AloneIsLast ==
  \A t \in Tasks : Sending(t) /\ updating[t].alone => updating[t].value = config

StoringIsTheFile ==
  /\ updating[FileWatcher].at = "storing"
  /\ lastModified = file.modified
  /\ ~told.missed
  => updating[FileWatcher].value = file.content

ConfigInv == ConfigTypeOK /\ ConfigFollowed /\ AloneIsLast /\ StoringIsTheFile
=============================================================================
