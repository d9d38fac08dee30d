------------------------------ MODULE Machine ------------------------------
(***************************************************************************)
(* What the commands of one machine share: the identity key (key.bin), the *)
(* settings (config.toml) and a blob store per role, each used by threads  *)
(* of several processes that may crash at any step.                        *)
(*                                                                         *)
(* A file is an inode: a thread that opened one goes on writing to it after *)
(* another renamed or removed its name.  Temporary files are named by the  *)
(* process id, which every thread of a process has in common and a later   *)
(* process may have again.                                                 *)
(*                                                                         *)
(* The store of iroh-blobs is external.  Who opens one that is open hangs   *)
(* for ever (commands.rs:63-67, "D3").  What keeps it out is the lock of    *)
(* the database file, so it is kept out no longer once the file's name has  *)
(* been removed, which clear_cache does under its own engine.               *)
(***************************************************************************)
EXTENDS Integers, FiniteSets

CONSTANTS
  Threads,     \* threads that run commands
  Pids,        \* process ids
  Pid,         \* the process of each thread
  Settings,    \* the keys of config.toml
  Values,      \* what a setting may be set to
  MaxRuns,     \* bound on the commands of a thread
  Nothing      \* no file, no thread, no value

ASSUME MachineAssumption ==
  /\ Pid \in [Threads -> Pids]
  /\ MaxRuns \in Nat
  /\ Nothing \notin Threads
  /\ Nothing \notin Values
  /\ Nothing \notin Threads \X (1 .. MaxRuns)

VARIABLES
  at,          \* where each thread is in its command
  command,     \* the command each thread runs
  runs,        \* the commands each thread has begun
  role,        \* the role whose store it uses
  key,         \* the inode of key.bin
  config,      \* the inode of config.toml
  tmp,         \* per process, the inodes of its temporary files
  data,        \* what each inode holds
  mine,        \* the key each sender goes by, named by the inode it was written to
  asked,       \* config set: the setting and the value asked for
  file,        \* config set: the settings read, with the new value
  writing,     \* the inode that each thread has open for writing
  lock,        \* who has open the database under the name of each role's store
  entries,     \* what is in the directory of each role's store
  met,         \* history: where others of its role were when it came to its store
  disturbed,   \* history: load_or_create of this thread met another's
  wanted,      \* history: what config.toml should say
  serial       \* history: no two threads set a value at the same time

files == <<key, config, tmp, data, writing>>
stores == <<lock, entries, met>>
history == <<disturbed, wanted, serial>>
vars == <<at, command, runs, role, key, config, tmp, data, mine, asked, file, writing,
          lock, entries, met, disturbed, wanted, serial>>

Roles == {"send", "receive"}
Commands == {"send", "receive", "cleanup", "set"}

\* A run of a command makes at most one new inode.
Inodes == Threads \X (1 .. MaxRuns)
FreshInode(t) == <<t, runs[t]>>

\* What config.toml may say; a missing file is the default.
AllSettings == [Settings -> Values \cup {Nothing}]
Default == [s \in Settings |-> Nothing]

\* A key file of any other length than 32 bytes is corrupt; half a config.toml
\* does not parse.
Content == [whole : BOOLEAN, says : AllSettings]
Torn == [whole |-> FALSE, says |-> Default]
Written(settings) == [whole |-> TRUE, says |-> settings]
Whole(i) == data[i].whole
Parses == config = Nothing \/ Whole(config)
ConfigSays == IF config = Nothing THEN Default ELSE data[config].says

Creating == {"create", "remove", "recreate", "write", "rename"}
Setting == {"truncate", "fill", "replace"}
Opened == {"using", "clearing", "closing"}
Places == {"idle", "load", "open", "hung"} \cup Opened \cup Creating \cup Setting

NotAsked == [setting |-> Nothing, value |-> Nothing]

OneStoreMutant(r) == "send"

\* role_data_dir: one store per role
StoreOf(r) == r

\* The redb database, and the blobs' files (engine/mod.rs:351-352).
StoreParts == {"database", "blobs"}

Init ==
  /\ at = [t \in Threads |-> "idle"]
  /\ command = [t \in Threads |-> "send"]
  /\ runs = [t \in Threads |-> 0]
  /\ role = [t \in Threads |-> "send"]
  /\ key = Nothing
  /\ config = Nothing
  /\ tmp = [p \in Pids |-> [key |-> Nothing, config |-> Nothing]]
  /\ data = [i \in Inodes |-> Torn]
  /\ mine = [t \in Threads |-> Nothing]
  /\ asked = [t \in Threads |-> NotAsked]
  /\ file = [t \in Threads |-> Default]
  /\ writing = [t \in Threads |-> Nothing]
  /\ lock = [r \in Roles |-> Nothing]
  /\ entries = [r \in Roles |-> {}]
  /\ met = [t \in Threads |-> {}]
  /\ disturbed = [t \in Threads |-> FALSE]
  /\ wanted = Default
  /\ serial = TRUE

Goes(t, where) == at' = [at EXCEPT ![t] = where]

\* A command that is over leaves nothing behind in memory.
Over(t) ==
  /\ Goes(t, "idle")
  /\ command' = [command EXCEPT ![t] = "send"]
  /\ role' = [role EXCEPT ![t] = "send"]
  /\ asked' = [asked EXCEPT ![t] = NotAsked]
  /\ file' = [file EXCEPT ![t] = Default]

-----------------------------------------------------------------------------
(* Commands.                                                               *)

\* run: every command reads the settings first and fails when they do not parse.
Starts(t, c) ==
  /\ at[t] = "idle" /\ runs[t] < MaxRuns
  /\ c # "set"
  /\ runs' = [runs EXCEPT ![t] = @ + 1]
  /\ IF ~Parses THEN UNCHANGED <<at, command, role>>
     ELSE /\ command' = [command EXCEPT ![t] = c]
          /\ role' = [role EXCEPT ![t] = IF c = "receive" THEN "receive" ELSE "send"]
          /\ Goes(t, IF c = "send" THEN "load" ELSE "open")
  /\ mine' = [mine EXCEPT ![t] = Nothing]
  /\ UNCHANGED <<files, asked, file, stores, history>>

StartsSetFromDefaultMutant(t, s, v) ==
  /\ at[t] = "idle" /\ runs[t] < MaxRuns
  /\ runs' = [runs EXCEPT ![t] = @ + 1]
  /\ command' = [command EXCEPT ![t] = "set"]
  /\ asked' = [asked EXCEPT ![t] = [setting |-> s, value |-> v]]
  /\ file' = [file EXCEPT ![t] = [Default EXCEPT ![s] = v]]
  /\ Goes(t, "truncate")
  /\ serial' = (serial /\ \A u \in Threads : at[u] \notin Setting)
  /\ mine' = [mine EXCEPT ![t] = Nothing]
  /\ UNCHANGED <<role, files, stores, disturbed, wanted>>

\* config set: load the file, set one field of the copy.
StartsSet(t, s, v) ==
  /\ at[t] = "idle" /\ runs[t] < MaxRuns
  /\ runs' = [runs EXCEPT ![t] = @ + 1]
  /\ IF ~Parses THEN UNCHANGED <<at, command, asked, file, serial>>
     ELSE /\ command' = [command EXCEPT ![t] = "set"]
          /\ asked' = [asked EXCEPT ![t] = [setting |-> s, value |-> v]]
          /\ file' = [file EXCEPT ![t] = [ConfigSays EXCEPT ![s] = v]]
          /\ Goes(t, "truncate")
          /\ serial' = (serial /\ \A u \in Threads : at[u] \notin Setting)
  /\ mine' = [mine EXCEPT ![t] = Nothing]
  /\ UNCHANGED <<role, files, stores, disturbed, wanted>>

-----------------------------------------------------------------------------
(* The identity: load_or_create_key and write_key_atomic.                  *)

Meets(t) == {u \in Threads \ {t} : at[u] \in Creating}

LoadsKeyAlwaysNewMutant(t) ==
  /\ at[t] = "load"
  /\ Goes(t, "create")
  /\ disturbed' = [u \in Threads |->
                    IF u = t THEN Meets(t) # {} ELSE disturbed[u] \/ u \in Meets(t)]
  /\ UNCHANGED <<command, runs, role, files, mine, asked, file, stores, wanted, serial>>

LoadsKey(t) ==
  /\ at[t] = "load"
  /\ IF key # Nothing /\ Whole(key)
     THEN mine' = [mine EXCEPT ![t] = key] /\ Goes(t, "open")
     ELSE UNCHANGED mine /\ Goes(t, "create")
  /\ disturbed' = [u \in Threads |->
                    IF u = t THEN Meets(t) # {} ELSE disturbed[u] \/ u \in Meets(t)]
  /\ UNCHANGED <<command, runs, role, files, asked, file, stores, wanted, serial>>

\* create_new: a stale temporary file is removed and the creation retried, once.
CreatesTmp(t) ==
  /\ at[t] \in {"create", "recreate"}
  /\ IF tmp[Pid[t]].key = Nothing
     THEN /\ tmp' = [tmp EXCEPT ![Pid[t]].key = FreshInode(t)]
          /\ writing' = [writing EXCEPT ![t] = FreshInode(t)]
          /\ Goes(t, "write")
     ELSE /\ Goes(t, IF at[t] = "create" THEN "remove" ELSE "idle")
          /\ UNCHANGED <<tmp, writing>>
  /\ UNCHANGED <<command, runs, role, key, config, data, mine, asked, file, stores, history>>

RemovesTmp(t) ==
  /\ at[t] = "remove"
  /\ tmp' = [tmp EXCEPT ![Pid[t]].key = Nothing]
  /\ Goes(t, "recreate")
  /\ UNCHANGED <<command, runs, role, key, config, data, mine, asked, file, writing, stores, history>>

WritesKey(t) ==
  /\ at[t] = "write"
  /\ data' = [data EXCEPT ![writing[t]] = Written(Default)]
  /\ Goes(t, "rename")
  /\ UNCHANGED <<command, runs, role, key, config, tmp, mine, asked, file, writing, stores, history>>

\* rename moves whatever the name stands for by now; without it the command fails.
RenamesKey(t) ==
  /\ at[t] = "rename"
  /\ IF tmp[Pid[t]].key = Nothing
     THEN Goes(t, "idle") /\ UNCHANGED <<key, tmp, mine>>
     ELSE /\ key' = tmp[Pid[t]].key
          /\ tmp' = [tmp EXCEPT ![Pid[t]].key = Nothing]
          /\ mine' = [mine EXCEPT ![t] = writing[t]]
          /\ Goes(t, "open")
  /\ writing' = [writing EXCEPT ![t] = Nothing]
  /\ UNCHANGED <<command, runs, role, config, data, asked, file, stores, history>>

-----------------------------------------------------------------------------
(* The settings: save_to.                                                  *)

TruncatesInPlaceMutant(t) ==
  /\ at[t] = "truncate"
  /\ LET i == IF config = Nothing THEN FreshInode(t) ELSE config IN
       /\ tmp' = [tmp EXCEPT ![Pid[t]].config = i]
       /\ data' = [data EXCEPT ![i] = Torn]
       /\ writing' = [writing EXCEPT ![t] = i]
  /\ Goes(t, "fill")
  /\ UNCHANGED <<command, runs, role, key, config, mine, asked, file, stores, history>>

\* fs::write creates the temporary file or truncates the one that is there...
TruncatesConfig(t) ==
  /\ at[t] = "truncate"
  /\ LET i == IF tmp[Pid[t]].config = Nothing THEN FreshInode(t) ELSE tmp[Pid[t]].config IN
       /\ tmp' = [tmp EXCEPT ![Pid[t]].config = i]
       /\ data' = [data EXCEPT ![i] = Torn]
       /\ writing' = [writing EXCEPT ![t] = i]
  /\ Goes(t, "fill")
  /\ UNCHANGED <<command, runs, role, key, config, mine, asked, file, stores, history>>

\* ... and fills it.
FillsConfig(t) ==
  /\ at[t] = "fill"
  /\ data' = [data EXCEPT ![writing[t]] = Written(file[t])]
  /\ Goes(t, "replace")
  /\ UNCHANGED <<command, runs, role, key, config, tmp, mine, asked, file, writing, stores, history>>

RenamesConfig(t) ==
  /\ at[t] = "replace"
  /\ IF tmp[Pid[t]].config = Nothing THEN UNCHANGED <<config, tmp, wanted>>
     ELSE /\ config' = tmp[Pid[t]].config
          /\ tmp' = [tmp EXCEPT ![Pid[t]].config = Nothing]
          /\ wanted' = [wanted EXCEPT ![asked[t].setting] = asked[t].value]
  /\ writing' = [writing EXCEPT ![t] = Nothing]
  /\ Over(t)
  /\ UNCHANGED <<runs, key, data, mine, stores, disturbed, serial>>

-----------------------------------------------------------------------------
(* The stores: TransferEngine::build, clear_cache and shutdown.            *)

\* Where the other commands of t's role are that have their store open.
Others(t) == {at[u] : u \in {u \in Threads \ {t} : at[u] \in Opened /\ role[u] = role[t]}}

\* Who gets in creates what is missing; a sender imports its files and a receiver
\* downloads into the store.
GetsIn(t) ==
  LET s == StoreOf(role[t]) IN
  /\ lock' = [lock EXCEPT ![s] = t]
  /\ entries' = [entries EXCEPT ![s] = IF command[t] = "cleanup" THEN @ \cup {"database"}
                                       ELSE StoreParts]
  /\ Goes(t, IF command[t] = "cleanup" THEN "clearing" ELSE "using")

OpensStoreSharedMutant(t) ==
  /\ at[t] = "open"
  /\ met' = [met EXCEPT ![t] = Others(t)]
  /\ IF lock[StoreOf(role[t])] = Nothing \/ command[t] = "cleanup"
     THEN GetsIn(t)
     ELSE Goes(t, "hung") /\ UNCHANGED <<lock, entries>>
  /\ UNCHANGED <<command, runs, role, files, mine, asked, file, history>>

OpensStore(t) ==
  /\ at[t] = "open"
  /\ met' = [met EXCEPT ![t] = Others(t)]
  /\ IF lock[StoreOf(role[t])] = Nothing
     THEN GetsIn(t)
     ELSE Goes(t, "hung") /\ UNCHANGED <<lock, entries>>
  /\ UNCHANGED <<command, runs, role, files, mine, asked, file, history>>

\* Only the receive flow opens its store under FLOW_TIMEOUT (commands.rs:196-210).
GivesUp(t) ==
  /\ at[t] = "hung" /\ command[t] = "receive"
  /\ Over(t)
  /\ UNCHANGED <<runs, files, mine, stores, history>>

\* remove_dir_all takes the entries one by one, also those made since it began; an
\* open database goes on without a name, which lets others in.
ClearsCache(t) ==
  LET s == StoreOf(role[t]) IN
  /\ at[t] = "clearing"
  /\ IF entries[s] = {} THEN Goes(t, "closing") /\ UNCHANGED <<lock, entries>>
     ELSE \E e \in entries[s] :
            /\ entries' = [entries EXCEPT ![s] = @ \ {e}]
            /\ lock' = IF e = "database" THEN [lock EXCEPT ![s] = Nothing] ELSE lock
            /\ UNCHANGED at
  /\ UNCHANGED <<command, runs, role, files, mine, asked, file, met, history>>

\* Closing a store unlocks the database one had open, whatever its name is now.
Closes(t) ==
  lock' = [r \in Roles |-> IF lock[r] = t THEN Nothing ELSE lock[r]]

\* An engine goes when its flow ends, at the latest after FLOW_TIMEOUT.
ShutsDown(t) ==
  /\ at[t] \in {"using", "closing"}
  /\ Closes(t)
  /\ IF command[t] = "cleanup" /\ role[t] = "send"
     THEN role' = [role EXCEPT ![t] = "receive"] /\ Goes(t, "open")
          /\ UNCHANGED <<command, asked, file>>
     ELSE Over(t)
  /\ UNCHANGED <<runs, files, mine, entries, met, history>>

\* Any error on the way ends the command and drops the engine: a directory removed
\* while it is opened, one filled while it is removed, a flow that fails.
Fails(t) ==
  /\ at[t] \in {"open"} \cup Opened
  /\ Closes(t)
  /\ Over(t)
  /\ UNCHANGED <<runs, files, mine, entries, met, history>>

-----------------------------------------------------------------------------

\* A process dies with all its threads; its temporary files stay behind.
Crashes(p) ==
  /\ \E t \in Threads : Pid[t] = p /\ at[t] # "idle"
  /\ LET Dead(t) == Pid[t] = p IN
       /\ at' = [t \in Threads |-> IF Dead(t) THEN "idle" ELSE at[t]]
       /\ command' = [t \in Threads |-> IF Dead(t) THEN "send" ELSE command[t]]
       /\ role' = [t \in Threads |-> IF Dead(t) THEN "send" ELSE role[t]]
       /\ asked' = [t \in Threads |-> IF Dead(t) THEN NotAsked ELSE asked[t]]
       /\ file' = [t \in Threads |-> IF Dead(t) THEN Default ELSE file[t]]
       /\ writing' = [t \in Threads |-> IF Dead(t) THEN Nothing ELSE writing[t]]
       /\ lock' = [r \in Roles |->
                    IF lock[r] # Nothing /\ Dead(lock[r]) THEN Nothing ELSE lock[r]]
  /\ UNCHANGED <<runs, key, config, tmp, data, mine, entries, met, history>>

Steps(t) ==
  \/ LoadsKey(t) \/ CreatesTmp(t) \/ RemovesTmp(t) \/ WritesKey(t) \/ RenamesKey(t)
  \/ TruncatesConfig(t) \/ FillsConfig(t) \/ RenamesConfig(t)
  \/ OpensStore(t) \/ GivesUp(t) \/ ClearsCache(t) \/ ShutsDown(t) \/ Fails(t)

Next ==
  \/ \E t \in Threads : Steps(t)
  \/ \E t \in Threads, c \in Commands : Starts(t, c)
  \/ \E t \in Threads, s \in Settings, v \in Values : StartsSet(t, s, v)
  \/ \E p \in Pids : Crashes(p)

Spec == Init /\ [][Next]_vars

\* A thread that runs a command goes on with it; a new command is up to the user.
FairSpec == Spec /\ \A t \in Threads : WF_vars(Steps(t))

-----------------------------------------------------------------------------
(* Properties.                                                             *)

\* Types, who has a store open, and who a file for writing.
CommandTypes ==
  /\ at \in [Threads -> Places]
  /\ command \in [Threads -> Commands]
  /\ runs \in [Threads -> 0 .. MaxRuns]
  /\ role \in [Threads -> Roles]
  /\ asked \in [Threads -> [setting : Settings \cup {Nothing}, value : Values \cup {Nothing}]]
  /\ file \in [Threads -> AllSettings]

FileTypes ==
  /\ key \in Inodes \cup {Nothing}
  /\ config \in Inodes \cup {Nothing}
  /\ tmp \in [Pids -> [key : Inodes \cup {Nothing}, config : Inodes \cup {Nothing}]]
  /\ data \in [Inodes -> Content]
  /\ mine \in [Threads -> Inodes \cup {Nothing}]
  /\ writing \in [Threads -> Inodes \cup {Nothing}]
  /\ \A t \in Threads :
       writing[t] # Nothing <=> at[t] \in {"write", "rename", "fill", "replace"}

StoreTypes ==
  /\ lock \in [Roles -> Threads \cup {Nothing}]
  /\ \A r \in Roles : lock[r] # Nothing =>
       at[lock[r]] \in Opened /\ StoreOf(role[lock[r]]) = r
  /\ entries \in [Roles -> SUBSET StoreParts]
  /\ met \in [Threads -> SUBSET Opened]

HistoryTypes ==
  /\ disturbed \in [Threads -> BOOLEAN]
  /\ wanted \in AllSettings
  /\ serial \in BOOLEAN

TypeOK == CommandTypes /\ FileTypes /\ StoreTypes /\ HistoryTypes

\* Whoever reads key.bin or config.toml, at whatever moment, finds a whole file
\* or none: no writer is ever seen half way, and no crash leaves half a file.
KeyWhole == key # Nothing => Whole(key)
NoTornFile == KeyWhole /\ (config # Nothing => Whole(config))

\* The key that a sender goes by stays the key on disk, and so its node id stays
\* what later runs have, unless another thread was making a key meanwhile.
IdentityKept ==
  \A t \in Threads : mine[t] # Nothing /\ ~disturbed[t] => key = mine[t]

\* As long as no two threads set a value at the same time, the settings are
\* what the commands that got through said, whatever crashed on the way.
SettingsSerial == serial => Parses /\ ConfigSays = wanted

\* A flow that came to its store when nobody was clearing it keeps it, whoever
\* comes later: the database under the store's name is the one it has open, and
\* nothing was removed.  Only then: a store opened while it is being cleared may
\* lose its files, which clear_cache leaves to its caller (engine/mod.rs:357-360).
InUse(t) == at[t] = "using" /\ "clearing" \notin met[t]

CacheKeptInUse ==
  \A t \in Threads : InUse(t) =>
    lock[StoreOf(role[t])] = t /\ entries[StoreOf(role[t])] = StoreParts

\* Every command comes to its end, except a send or a cleanup that came to its
\* store while another command of the same role had it open: it may hang for ever
\* (commands.rs:63-67).  A command of the other role never stops it.
CommandsEnd ==
  \A t \in Threads : at[t] # "idle" ~>
    \/ at[t] = "idle"
    \/ at[t] = "hung" /\ command[t] # "receive" /\ met[t] # {}

-----------------------------------------------------------------------------
(* The invariants behind them.                                             *)

\* Every thread is a process of its own, as every run of the command line is.
SeparateProcesses == \A t, u \in Threads : Pid[t] = Pid[u] => t = u

\* A command that runs has been counted, so it has an inode to make.
Begun == \A t \in Threads : at[t] # "idle" => runs[t] > 0

\* Nobody clears the store of a flow that keeps it.
NobodyClears ==
  \A t, u \in Threads : InUse(t) /\ u # t /\ at[u] = "clearing" =>
    StoreOf(role[u]) # StoreOf(role[t])

\* No name stands for inode i.
Unnamed(i) ==
  /\ key # i /\ config # i
  /\ \A p \in Pids : tmp[p].key # i /\ tmp[p].config # i

\* The inodes that are still to be made have no name.
InodesFresh ==
  \A t \in Threads :
    /\ \A n \in 1 .. MaxRuns : n > runs[t] => Unnamed(<<t, n>>)
    /\ at[t] \in {"load", "create", "remove", "recreate", "truncate"} => Unnamed(FreshInode(t))

\* A temporary file is no other file.
TmpsApart ==
  \A p, q \in Pids :
    /\ tmp[p].key # Nothing =>
         /\ tmp[p].key # key /\ tmp[p].key # config /\ tmp[p].key # tmp[q].config
         /\ p # q => tmp[p].key # tmp[q].key
    /\ tmp[p].config # Nothing =>
         /\ tmp[p].config # key /\ tmp[p].config # config
         /\ p # q => tmp[p].config # tmp[q].config

\* A writer writes the temporary file of its process, and moves it when it is whole.
WritersOwn ==
  \A t \in Threads :
    /\ at[t] \in {"write", "rename"} => tmp[Pid[t]].key = writing[t]
    /\ at[t] \in {"fill", "replace"} => tmp[Pid[t]].config = writing[t]
    /\ at[t] = "rename" => Whole(writing[t])
    /\ at[t] = "replace" => Whole(writing[t]) /\ data[writing[t]].says = file[t]

\* A thread has no key before it has loaded or made one.
LoadingAnew == \A t \in Threads : at[t] \in {"load"} \cup Creating => mine[t] = Nothing

\* A sender that nobody disturbed is the only one to make a key.
AloneCreating ==
  \A t \in Threads : ~disturbed[t] /\ (at[t] \in Creating \/ mine[t] # Nothing) =>
    \A u \in Threads : u # t => at[u] \notin Creating

\* While nobody else sets a value, what was read is what the file still says.
AloneSetting ==
  serial => \A t \in Threads : at[t] \in Setting =>
    /\ \A u \in Threads : u # t => at[u] \notin Setting
    /\ asked[t].setting \in Settings
    /\ file[t] = [ConfigSays EXCEPT ![asked[t].setting] = asked[t].value]

TypeInv == TypeOK /\ Begun
StoreInv == NobodyClears /\ CacheKeptInUse
FileInv == InodesFresh /\ TmpsApart /\ WritersOwn /\ NoTornFile
KeyInv == LoadingAnew /\ AloneCreating /\ IdentityKept
ConfigInv == AloneSetting /\ SettingsSerial
=============================================================================
