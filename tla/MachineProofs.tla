--------------------------- MODULE MachineProofs ---------------------------
(***************************************************************************)
(* What the commands of one machine share, for every number of threads,    *)
(* processes, settings and commands: the types and the stores whatever     *)
(* shares a process, the files when every thread is a process of its own,  *)
(* as the runs of the command line are.                                    *)
(***************************************************************************)
EXTENDS Machine, TLAPS

LEMMA FreshInodeType ==
  ASSUME CommandTypes, Begun, NEW t \in Threads, at[t] # "idle"
  PROVE  FreshInode(t) \in Inodes
BY MachineAssumption DEF Inodes, FreshInode, CommandTypes, Begun

LEMMA NothingIsNoInode == Nothing \notin Inodes
BY MachineAssumption DEF Inodes

LEMMA PidType == \A t \in Threads : Pid[t] \in Pids
BY MachineAssumption

\* Another inode under the name of a process's temporary key, and nothing else.
LEMMA TmpKeySet ==
  ASSUME FileTypes, NEW p \in Pids, NEW i \in Inodes \cup {Nothing},
         tmp' = [tmp EXCEPT ![p].key = i]
  PROVE  /\ tmp' \in [Pids -> [key : Inodes \cup {Nothing}, config : Inodes \cup {Nothing}]]
         /\ tmp'[p].key = i /\ tmp'[p].config = tmp[p].config
         /\ \A q \in Pids : q # p => tmp'[q] = tmp[q]
BY DEF FileTypes

\* Likewise for its temporary settings.
LEMMA TmpConfigSet ==
  ASSUME FileTypes, NEW p \in Pids, NEW i \in Inodes \cup {Nothing},
         tmp' = [tmp EXCEPT ![p].config = i]
  PROVE  /\ tmp' \in [Pids -> [key : Inodes \cup {Nothing}, config : Inodes \cup {Nothing}]]
         /\ tmp'[p].config = i /\ tmp'[p].key = tmp[p].key
         /\ \A q \in Pids : q # p => tmp'[q] = tmp[q]
BY DEF FileTypes

LEMMA DataWritten ==
  ASSUME FileTypes, NEW i \in Inodes, NEW content \in Content,
         data' = [data EXCEPT ![i] = content]
  PROVE  /\ data' \in [Inodes -> Content]
         /\ data'[i] = content
         /\ \A j \in Inodes : j # i => data'[j] = data[j]
BY DEF FileTypes

LEMMA Contents ==
  /\ Default \in AllSettings
  /\ Torn \in Content /\ ~Torn.whole
  /\ \A s \in AllSettings : Written(s) \in Content /\ Written(s).whole /\ Written(s).says = s
BY DEF Default, AllSettings, Torn, Content, Written

LEMMA ConfigSaysType == FileTypes => ConfigSays \in AllSettings
BY Contents DEF FileTypes, ConfigSays, Content

LEMMA TypeInit == Init => TypeInv
<1> SUFFICES ASSUME Init PROVE TypeInv
  OBVIOUS
<1>1. CommandTypes
  <2>1. 0 \in 0 .. MaxRuns
    BY MachineAssumption
  <2> QED BY <2>1, Contents DEF Init, CommandTypes, Places, Commands, Roles, NotAsked
<1>2. FileTypes
  BY Contents DEF Init, FileTypes
<1>3. StoreTypes
  BY DEF Init, StoreTypes
<1>4. HistoryTypes
  <2>1. serial \in BOOLEAN
    BY Zenon DEF Init
  <2> QED BY <2>1, Contents DEF Init, HistoryTypes
<1> QED BY <1>1, <1>2, <1>3, <1>4 DEF Init, TypeInv, TypeOK, Begun

-----------------------------------------------------------------------------
(* Types.                                                                  *)

LEMMA OverTypes ==
  ASSUME CommandTypes, Begun, NEW t \in Threads, Over(t), UNCHANGED runs
  PROVE  CommandTypes' /\ Begun'
BY Contents DEF Over, Goes, CommandTypes, Begun, Places, Commands, Roles, NotAsked

\* Every step moves one thread, or kills those of a process.
LEMMA CommandTypesNext ==
  ASSUME TypeInv, Next
  PROVE  CommandTypes' /\ Begun'
<1> USE DEF TypeInv, TypeOK, CommandTypes, Begun
<1>1. ASSUME NEW t \in Threads, Steps(t) PROVE CommandTypes' /\ Begun'
  <2> USE Contents DEF Places, Creating, Setting, Roles, Commands, Goes, Over, NotAsked, history, stores, files
  <2>1. CASE LoadsKey(t)
    BY <2>1 DEF LoadsKey
  <2>2. CASE CreatesTmp(t)
    BY <2>2 DEF CreatesTmp
  <2>3. CASE RemovesTmp(t)
    BY <2>3 DEF RemovesTmp
  <2>4. CASE WritesKey(t)
    BY <2>4 DEF WritesKey
  <2>5. CASE RenamesKey(t)
    BY <2>5 DEF RenamesKey
  <2>6. CASE TruncatesConfig(t)
    BY <2>6 DEF TruncatesConfig
  <2>7. CASE FillsConfig(t)
    BY <2>7 DEF FillsConfig
  <2>8. CASE RenamesConfig(t)
    BY <2>8, OverTypes DEF RenamesConfig
  <2>9. CASE OpensStore(t)
    <3>1. at' \in {[at EXCEPT ![t] = "using"], [at EXCEPT ![t] = "clearing"], [at EXCEPT ![t] = "hung"]}
          /\ UNCHANGED <<command, runs, role, asked, file>>
      BY <2>9 DEF OpensStore, GetsIn
    <3> QED BY <2>9, <3>1 DEF OpensStore, Opened
  <2>10. CASE ClearsCache(t)
    <3>1. at' \in {at, [at EXCEPT ![t] = "closing"]} /\ UNCHANGED <<command, runs, role, asked, file>>
      BY <2>10 DEF ClearsCache
    <3> QED BY <2>10, <3>1 DEF ClearsCache, Opened
  <2>11. CASE ShutsDown(t)
    <3>1. CASE command[t] = "cleanup" /\ role[t] = "send"
      BY <2>11, <3>1 DEF ShutsDown
    <3>2. CASE ~(command[t] = "cleanup" /\ role[t] = "send")
      BY <2>11, <3>2, OverTypes DEF ShutsDown
    <3> QED BY <3>1, <3>2
  <2>12. CASE Fails(t)
    BY <2>12, OverTypes DEF Fails
  <2>13. CASE GivesUp(t)
    BY <2>13, OverTypes DEF GivesUp
  <2> QED
    BY <1>1, <2>1, <2>2, <2>3, <2>4, <2>5, <2>6, <2>7, <2>8, <2>9, <2>10, <2>11, <2>12, <2>13
       DEF Steps
<1>2. ASSUME NEW t \in Threads, NEW c \in Commands, Starts(t, c) PROVE CommandTypes' /\ Begun'
  <2>1. runs' \in [Threads -> 0 .. MaxRuns] /\ runs'[t] > 0
        /\ \A u \in Threads : u # t => runs'[u] = runs[u]
    BY <1>2, MachineAssumption DEF Starts
  <2> QED BY <1>2, <2>1 DEF Starts, Goes, Places, Roles, Commands
<1>3. ASSUME NEW t \in Threads, NEW s \in Settings, NEW v \in Values, StartsSet(t, s, v)
      PROVE  CommandTypes' /\ Begun'
  <2>1. runs' \in [Threads -> 0 .. MaxRuns] /\ runs'[t] > 0
        /\ \A u \in Threads : u # t => runs'[u] = runs[u]
    BY <1>3, MachineAssumption DEF StartsSet
  <2>2. [ConfigSays EXCEPT ![s] = v] \in AllSettings
    BY ConfigSaysType DEF AllSettings
  <2>3. CASE ~Parses
    <3>1. UNCHANGED <<at, command, role, asked, file>>
      BY <1>3, <2>3 DEF StartsSet
    <3> QED BY <2>1, <3>1
  <2>4. CASE Parses
    <3>1. /\ at' = [at EXCEPT ![t] = "truncate"]
          /\ command' = [command EXCEPT ![t] = "set"]
          /\ asked' = [asked EXCEPT ![t] = [setting |-> s, value |-> v]]
          /\ file' = [file EXCEPT ![t] = [ConfigSays EXCEPT ![s] = v]]
          /\ UNCHANGED role
      BY <1>3, <2>4 DEF StartsSet, Goes
    <3> QED BY <2>1, <2>2, <3>1 DEF Places, Setting, Commands
  <2> QED BY <2>3, <2>4
<1>4. ASSUME NEW p \in Pids, Crashes(p) PROVE CommandTypes' /\ Begun'
  BY <1>4, Contents DEF Crashes, Places, Roles, Commands, NotAsked
<1> QED BY <1>1, <1>2, <1>3, <1>4 DEF Next

\* Who changes key.bin, the temporary files and the inodes; a writer's inode is
\* known from its opening to its renaming.
LEMMA FileTypesNext ==
  ASSUME TypeInv, Next
  PROVE  FileTypes'
<1> USE NothingIsNoInode, PidType DEF TypeInv, TypeOK
<1>1. ASSUME NEW t \in Threads, LoadsKey(t) \/ OpensStore(t) \/ GivesUp(t) \/ ClearsCache(t) \/ ShutsDown(t) \/ Fails(t)
      PROVE  FileTypes'
  <2>1. /\ UNCHANGED <<key, config, tmp, data, writing>>
        /\ mine' \in [Threads -> Inodes \cup {Nothing}]
    BY <1>1 DEF LoadsKey, OpensStore, GetsIn, GivesUp, ClearsCache, ShutsDown, Fails, files, FileTypes
  <2>2. /\ at[t] \notin {"write", "rename", "fill", "replace"}
        /\ at'[t] \notin {"write", "rename", "fill", "replace"}
        /\ \A u \in Threads : u # t => at'[u] = at[u]
    <3>1. CASE OpensStore(t)
      BY <3>1 DEF OpensStore, GetsIn, Goes, CommandTypes
    <3>2. CASE ClearsCache(t)
      BY <3>2 DEF ClearsCache, Goes, CommandTypes
    <3>3. CASE LoadsKey(t) \/ GivesUp(t) \/ ShutsDown(t) \/ Fails(t)
      BY <3>3 DEF LoadsKey, GivesUp, ShutsDown, Fails, Over, Goes, Opened, CommandTypes
    <3> QED BY <1>1, <3>1, <3>2, <3>3
  <2> QED BY <2>1, <2>2 DEF FileTypes
<1>2. ASSUME NEW t \in Threads, CreatesTmp(t) PROVE FileTypes'
  <2>0. FreshInode(t) \in Inodes
    BY <1>2, FreshInodeType DEF CreatesTmp
  <2>1. tmp' \in [Pids -> [key : Inodes \cup {Nothing}, config : Inodes \cup {Nothing}]]
    <3>1. CASE tmp[Pid[t]].key = Nothing
      BY <1>2, <2>0, <3>1, TmpKeySet DEF CreatesTmp
    <3>2. CASE tmp[Pid[t]].key # Nothing
      BY <1>2, <3>2 DEF CreatesTmp, FileTypes
    <3> QED BY <3>1, <3>2
  <2>2. UNCHANGED <<key, config, data, mine>>
    BY <1>2 DEF CreatesTmp
  <2>3. /\ writing' \in [Threads -> Inodes \cup {Nothing}]
        /\ \A u \in Threads :
             writing'[u] # Nothing <=> at'[u] \in {"write", "rename", "fill", "replace"}
    BY <1>2, <2>0 DEF CreatesTmp, Goes, FileTypes, CommandTypes
  <2> QED BY <2>1, <2>2, <2>3 DEF FileTypes
<1>3. ASSUME NEW t \in Threads, RemovesTmp(t) PROVE FileTypes'
  <2>1. tmp' \in [Pids -> [key : Inodes \cup {Nothing}, config : Inodes \cup {Nothing}]]
    BY <1>3, TmpKeySet DEF RemovesTmp
  <2>2. UNCHANGED <<key, config, data, mine, writing>>
    BY <1>3 DEF RemovesTmp
  <2> QED BY <1>3, <2>1, <2>2 DEF RemovesTmp, Goes, FileTypes, CommandTypes
<1>4. ASSUME NEW t \in Threads, WritesKey(t) PROVE FileTypes'
  <2>1. writing[t] \in Inodes
    BY <1>4 DEF WritesKey, FileTypes
  <2>2. data' \in [Inodes -> Content]
    BY <1>4, <2>1, Contents, DataWritten DEF WritesKey
  <2>3. UNCHANGED <<key, config, tmp, mine, writing>>
    BY <1>4 DEF WritesKey
  <2> QED BY <1>4, <2>2, <2>3 DEF WritesKey, Goes, FileTypes, CommandTypes
<1>5. ASSUME NEW t \in Threads, RenamesKey(t) PROVE FileTypes'
  <2>1. /\ key' \in Inodes \cup {Nothing}
        /\ tmp' \in [Pids -> [key : Inodes \cup {Nothing}, config : Inodes \cup {Nothing}]]
    <3>1. CASE tmp[Pid[t]].key = Nothing
      BY <1>5, <3>1 DEF RenamesKey, FileTypes
    <3>2. CASE tmp[Pid[t]].key # Nothing
      BY <1>5, <3>2, TmpKeySet DEF RenamesKey, FileTypes
    <3> QED BY <3>1, <3>2
  <2>2. UNCHANGED <<config, data>>
    BY <1>5 DEF RenamesKey
  <2>3. mine' \in [Threads -> Inodes \cup {Nothing}]
    BY <1>5 DEF RenamesKey, FileTypes
  <2>4. /\ writing' \in [Threads -> Inodes \cup {Nothing}]
        /\ \A u \in Threads :
             writing'[u] # Nothing <=> at'[u] \in {"write", "rename", "fill", "replace"}
    BY <1>5 DEF RenamesKey, Goes, FileTypes, CommandTypes
  <2> QED BY <2>1, <2>2, <2>3, <2>4 DEF FileTypes
<1>6. ASSUME NEW t \in Threads, TruncatesConfig(t) PROVE FileTypes'
  <2> DEFINE i == IF tmp[Pid[t]].config = Nothing THEN FreshInode(t) ELSE tmp[Pid[t]].config
  <2>1. i \in Inodes
    BY <1>6, FreshInodeType DEF TruncatesConfig, FileTypes
  <2>2. /\ tmp' = [tmp EXCEPT ![Pid[t]].config = i]
        /\ data' = [data EXCEPT ![i] = Torn]
        /\ writing' = [writing EXCEPT ![t] = i]
        /\ at' = [at EXCEPT ![t] = "fill"]
        /\ UNCHANGED <<key, config, mine>>
    BY <1>6 DEF TruncatesConfig, Goes
  <2> HIDE DEF i
  <2>3. tmp' \in [Pids -> [key : Inodes \cup {Nothing}, config : Inodes \cup {Nothing}]]
    BY <2>1, <2>2, TmpConfigSet
  <2>4. data' \in [Inodes -> Content]
    BY <2>1, <2>2, Contents, DataWritten
  <2> QED BY <2>1, <2>2, <2>3, <2>4 DEF FileTypes, CommandTypes
<1>7. ASSUME NEW t \in Threads, FillsConfig(t) PROVE FileTypes'
  <2>1. writing[t] \in Inodes /\ Written(file[t]) \in Content
    BY <1>7, Contents DEF FillsConfig, FileTypes, CommandTypes
  <2>2. data' \in [Inodes -> Content]
    BY <1>7, <2>1, DataWritten DEF FillsConfig
  <2>3. UNCHANGED <<key, config, tmp, mine, writing>>
    BY <1>7 DEF FillsConfig
  <2> QED BY <1>7, <2>2, <2>3 DEF FillsConfig, Goes, FileTypes, CommandTypes
<1>8. ASSUME NEW t \in Threads, RenamesConfig(t) PROVE FileTypes'
  <2>1. /\ config' \in Inodes \cup {Nothing}
        /\ tmp' \in [Pids -> [key : Inodes \cup {Nothing}, config : Inodes \cup {Nothing}]]
    <3>1. CASE tmp[Pid[t]].config = Nothing
      BY <1>8, <3>1 DEF RenamesConfig, FileTypes
    <3>2. CASE tmp[Pid[t]].config # Nothing
      BY <1>8, <3>2, TmpConfigSet DEF RenamesConfig, FileTypes
    <3> QED BY <3>1, <3>2
  <2>2. UNCHANGED <<key, data, mine>>
    BY <1>8 DEF RenamesConfig
  <2>3. /\ writing' \in [Threads -> Inodes \cup {Nothing}]
        /\ \A u \in Threads :
             writing'[u] # Nothing <=> at'[u] \in {"write", "rename", "fill", "replace"}
    BY <1>8 DEF RenamesConfig, Over, Goes, FileTypes, CommandTypes
  <2> QED BY <2>1, <2>2, <2>3 DEF FileTypes
<1>9. ASSUME NEW t \in Threads, NEW c \in Commands, Starts(t, c) PROVE FileTypes'
  BY <1>9 DEF Starts, Goes, files, FileTypes, CommandTypes
<1>10. ASSUME NEW t \in Threads, NEW s \in Settings, NEW v \in Values, StartsSet(t, s, v)
       PROVE  FileTypes'
  <2>1. /\ UNCHANGED <<key, config, tmp, data, writing>>
        /\ mine' = [mine EXCEPT ![t] = Nothing]
    BY <1>10 DEF StartsSet, files
  <2>2. at[t] = "idle" /\ (at' = at \/ at' = [at EXCEPT ![t] = "truncate"])
    BY <1>10 DEF StartsSet, Goes
  <2> QED BY <2>1, <2>2 DEF FileTypes, CommandTypes
<1>11. ASSUME NEW p \in Pids, Crashes(p) PROVE FileTypes'
  BY <1>11 DEF Crashes, FileTypes, CommandTypes
<1> QED
  BY <1>1, <1>2, <1>3, <1>4, <1>5, <1>6, <1>7, <1>8, <1>9, <1>10, <1>11 DEF Next, Steps

\* Closing unlocks what the thread had open and nothing else.
LEMMA ClosesOwn ==
  ASSUME StoreTypes, NEW t \in Threads, Closes(t)
  PROVE  /\ lock' \in [Roles -> Threads \cup {Nothing}]
         /\ \A r \in Roles : lock'[r] # t
         /\ \A r \in Roles : lock'[r] = lock[r] \/ lock'[r] = Nothing
         /\ \A r \in Roles : lock[r] # t => lock'[r] = lock[r]
BY MachineAssumption DEF StoreTypes, Closes

\* A store that is open is so for a thread that is past opening it.
LEMMA StoreTypesNext ==
  ASSUME TypeInv, Next
  PROVE  StoreTypes'
<1> USE DEF TypeInv, TypeOK, StoreOf
<1>1. ASSUME NEW t \in Threads, UNCHANGED <<lock, entries, met>>, at[t] \notin Opened,
             \A u \in Threads : u # t => at'[u] = at[u] /\ role'[u] = role[u]
      PROVE  StoreTypes'
  BY <1>1 DEF StoreTypes
<1>2. ASSUME NEW t \in Threads,
             \/ LoadsKey(t) \/ CreatesTmp(t) \/ RemovesTmp(t) \/ WritesKey(t) \/ RenamesKey(t)
             \/ TruncatesConfig(t) \/ FillsConfig(t) \/ RenamesConfig(t) \/ GivesUp(t)
      PROVE  StoreTypes'
  <2>1. UNCHANGED <<lock, entries, met>> /\ at[t] \notin Opened
    BY <1>2 DEF LoadsKey, CreatesTmp, RemovesTmp, WritesKey, RenamesKey, TruncatesConfig,
       FillsConfig, RenamesConfig, GivesUp, stores, Opened
  <2>2. \A u \in Threads : u # t => at'[u] = at[u] /\ role'[u] = role[u]
    BY <1>2 DEF LoadsKey, CreatesTmp, RemovesTmp, WritesKey, RenamesKey, TruncatesConfig,
       FillsConfig, RenamesConfig, GivesUp, Goes, Over, CommandTypes
  <2> QED BY <1>1, <2>1, <2>2
<1>3. ASSUME NEW t \in Threads, OpensStore(t) PROVE StoreTypes'
  <2>1. met' \in [Threads -> SUBSET Opened]
    BY <1>3 DEF OpensStore, Others, StoreTypes
  <2>2. /\ at[t] \notin Opened /\ role[t] \in Roles /\ role' = role
        /\ \A u \in Threads : u # t => at'[u] = at[u]
    BY <1>3 DEF OpensStore, GetsIn, Goes, Opened, CommandTypes
  <2>3. CASE lock[role[t]] = Nothing
    <3>1. /\ lock' = [lock EXCEPT ![role[t]] = t]
          /\ at'[t] \in Opened
      BY <1>3, <2>3 DEF OpensStore, GetsIn, Goes, Opened, CommandTypes
    <3>2. entries' \in [Roles -> SUBSET StoreParts]
      BY <1>3, <2>3 DEF OpensStore, GetsIn, StoreTypes, StoreParts
    <3>3. /\ lock' \in [Roles -> Threads \cup {Nothing}]
          /\ \A r \in Roles : r # role[t] => lock'[r] = lock[r]
          /\ lock'[role[t]] = t
      BY <2>2, <3>1 DEF StoreTypes
    <3> QED BY <2>1, <2>2, <3>1, <3>2, <3>3 DEF StoreTypes
  <2>4. CASE lock[role[t]] # Nothing
    <3>1. UNCHANGED <<lock, entries>>
      BY <1>3, <2>4 DEF OpensStore
    <3> QED BY <2>1, <2>2, <3>1 DEF StoreTypes
  <2> QED BY <2>3, <2>4
<1>4. ASSUME NEW t \in Threads, ClearsCache(t) PROVE StoreTypes'
  <2>1. /\ UNCHANGED <<role, met>> /\ at[t] \in Opened /\ at'[t] \in Opened
        /\ \A u \in Threads : u # t => at'[u] = at[u]
    BY <1>4 DEF ClearsCache, Goes, Opened, CommandTypes
  <2>2. \/ UNCHANGED <<lock, entries>>
        \/ \E e \in StoreParts :
             /\ entries' = [entries EXCEPT ![role[t]] = @ \ {e}]
             /\ lock' = [lock EXCEPT ![role[t]] = Nothing] \/ lock' = lock
    BY <1>4 DEF ClearsCache, StoreTypes, CommandTypes
  <2>3. /\ lock' \in [Roles -> Threads \cup {Nothing}]
        /\ \A r \in Roles : lock'[r] = lock[r] \/ lock'[r] = Nothing
        /\ entries' \in [Roles -> SUBSET StoreParts]
    BY <2>2 DEF StoreTypes
  <2> QED BY <2>1, <2>3 DEF StoreTypes
<1>5. ASSUME NEW t \in Threads, ShutsDown(t) \/ Fails(t) PROVE StoreTypes'
  <2>1. Closes(t) /\ UNCHANGED <<entries, met>>
    BY <1>5 DEF ShutsDown, Fails
  <2>2. \A u \in Threads : u # t => at'[u] = at[u] /\ role'[u] = role[u]
    BY <1>5 DEF ShutsDown, Fails, Goes, Over, CommandTypes
  <2> QED BY <2>1, <2>2, ClosesOwn DEF StoreTypes
<1>6. ASSUME NEW t \in Threads, NEW c \in Commands, Starts(t, c) PROVE StoreTypes'
  BY <1>1, <1>6 DEF Starts, Goes, stores, Opened, CommandTypes
<1>7. ASSUME NEW t \in Threads, NEW s \in Settings, NEW v \in Values, StartsSet(t, s, v)
      PROVE  StoreTypes'
  <2>1. /\ UNCHANGED <<lock, entries, met, role>> /\ at[t] = "idle"
        /\ at' = at \/ at' = [at EXCEPT ![t] = "truncate"]
    BY <1>7 DEF StartsSet, Goes, stores
  <2> QED BY <1>1, <2>1 DEF CommandTypes, Opened
<1>8. ASSUME NEW p \in Pids, Crashes(p) PROVE StoreTypes'
  BY <1>8 DEF Crashes, StoreTypes, CommandTypes
<1> QED
  BY <1>2, <1>3, <1>4, <1>5, <1>6, <1>7, <1>8 DEF Next, Steps

LEMMA HistoryTypesNext ==
  ASSUME TypeInv, Next
  PROVE  HistoryTypes'
<1> USE DEF TypeInv, TypeOK
<1>1. disturbed' \in [Threads -> BOOLEAN]
  <2>1. disturbed \in [Threads -> BOOLEAN]
    BY DEF HistoryTypes
  <2>2. ASSUME NEW t \in Threads, LoadsKey(t) PROVE disturbed' \in [Threads -> BOOLEAN]
    BY <2>1, <2>2 DEF LoadsKey
  <2>3. (\A t \in Threads : ~LoadsKey(t)) => UNCHANGED disturbed
    BY DEF Next, Steps, CreatesTmp, RemovesTmp, WritesKey, RenamesKey, TruncatesConfig,
       FillsConfig, RenamesConfig, OpensStore, GetsIn, GivesUp, ClearsCache, ShutsDown, Fails, Starts, StartsSet,
       Crashes, history
  <2> QED BY <2>1, <2>2, <2>3
<1>2. wanted' \in AllSettings
  <2>1. ASSUME NEW t \in Threads, RenamesConfig(t) PROVE wanted' \in AllSettings
    BY <2>1 DEF RenamesConfig, HistoryTypes, CommandTypes, AllSettings
  <2>2. (\A t \in Threads : ~RenamesConfig(t)) => UNCHANGED wanted
    BY DEF Next, Steps, LoadsKey, CreatesTmp, RemovesTmp, WritesKey, RenamesKey, TruncatesConfig,
       FillsConfig, OpensStore, GetsIn, GivesUp, ClearsCache, ShutsDown, Fails, Starts, StartsSet,
       Crashes, history
  <2> QED BY <2>1, <2>2 DEF HistoryTypes
<1>3. serial' \in BOOLEAN
  <2>0. serial \in BOOLEAN
    BY Zenon DEF HistoryTypes
  <2>1. ASSUME NEW t \in Threads, NEW s \in Settings, NEW v \in Values, StartsSet(t, s, v)
        PROVE  serial' \in BOOLEAN
    <3>1. UNCHANGED serial \/ serial' = (serial /\ \A u \in Threads : at[u] \notin Setting)
      BY Zenon, <2>1 DEF StartsSet
    <3> QED BY Zenon, <2>0, <3>1
  <2>2. (\A t \in Threads, s \in Settings, v \in Values : ~StartsSet(t, s, v)) => UNCHANGED serial
    BY DEF Next, Steps, LoadsKey, CreatesTmp, RemovesTmp, WritesKey, RenamesKey, TruncatesConfig,
       FillsConfig, RenamesConfig, OpensStore, GetsIn, GivesUp, ClearsCache, ShutsDown, Fails, Starts,
       Crashes, history
  <2> QED BY Zenon, <2>0, <2>1, <2>2
<1> QED BY <1>1, <1>2, <1>3 DEF HistoryTypes

LEMMA TypeNext == TypeInv /\ [Next]_vars => TypeInv'
<1> SUFFICES ASSUME TypeInv, [Next]_vars PROVE TypeInv'
  OBVIOUS
<1>1. CASE Next
  BY <1>1, CommandTypesNext, FileTypesNext, StoreTypesNext, HistoryTypesNext DEF TypeInv, TypeOK
<1>2. CASE UNCHANGED vars
  BY <1>2 DEF vars, TypeInv, TypeOK, Begun, CommandTypes, FileTypes, StoreTypes, HistoryTypes
<1> QED BY <1>1, <1>2

\* Types, with the count of the commands that are under way.
THEOREM Typed == Spec => []TypeInv
BY TypeInit, TypeNext, PTL DEF Spec

\* However many threads and processes run and die, a file's name stands for a
\* file or none, and an open store belongs to a command that is past opening it.
THEOREM TypeCorrect == Spec => []TypeOK
<1>1. TypeInv => TypeOK
  BY DEF TypeInv
<1> QED BY <1>1, Typed, PTL

-----------------------------------------------------------------------------
(* The stores.                                                             *)

\* The steps of a thread that neither comes to a store nor clears one leave every
\* flow its own: what a flow has open is under its name still.
LEMMA StoreLeft ==
  ASSUME TypeInv, StoreInv, NEW t \in Threads, UNCHANGED <<entries, met>>,
         at'[t] \notin {"using", "clearing"},
         \A u \in Threads : u # t => at'[u] = at[u] /\ role'[u] = role[u],
         \A r \in Roles : lock[r] # t => lock'[r] = lock[r]
  PROVE  StoreInv'
<1> USE DEF TypeInv, TypeOK, StoreInv, InUse, StoreOf
<1>1. NobodyClears'
  BY DEF NobodyClears
<1>2. CacheKeptInUse'
  BY DEF CacheKeptInUse, CommandTypes
<1> QED BY <1>1, <1>2

LEMMA StoreNext == TypeInv /\ StoreInv /\ [Next]_vars => StoreInv'
<1> SUFFICES ASSUME TypeInv, StoreInv, [Next]_vars PROVE StoreInv'
  OBVIOUS
<1> USE DEF TypeInv, TypeOK
<1>2. ASSUME NEW t \in Threads,
             \/ LoadsKey(t) \/ CreatesTmp(t) \/ RemovesTmp(t) \/ WritesKey(t) \/ RenamesKey(t)
             \/ TruncatesConfig(t) \/ FillsConfig(t) \/ RenamesConfig(t) \/ GivesUp(t)
      PROVE  StoreInv'
  <2>1. UNCHANGED <<lock, entries, met>> /\ at'[t] \notin {"using", "clearing"}
    BY <1>2 DEF LoadsKey, CreatesTmp, RemovesTmp, WritesKey, RenamesKey, TruncatesConfig,
       FillsConfig, RenamesConfig, GivesUp, stores, Goes, Over, CommandTypes
  <2>2. \A u \in Threads : u # t => at'[u] = at[u] /\ role'[u] = role[u]
    BY <1>2 DEF LoadsKey, CreatesTmp, RemovesTmp, WritesKey, RenamesKey, TruncatesConfig,
       FillsConfig, RenamesConfig, GivesUp, Goes, Over, CommandTypes
  <2> QED BY <2>1, <2>2, StoreLeft
<1>3. ASSUME NEW t \in Threads, OpensStore(t) PROVE StoreInv'
  <2>1. /\ role' = role /\ role[t] \in Roles
        /\ \A u \in Threads : u # t => at'[u] = at[u] /\ met'[u] = met[u]
        /\ met'[t] = Others(t)
    BY <1>3 DEF OpensStore, GetsIn, Goes, CommandTypes, StoreTypes
  <2>2. CASE lock[role[t]] # Nothing
    <3>1. UNCHANGED <<lock, entries>> /\ at'[t] = "hung"
      BY <1>3, <2>2 DEF OpensStore, Goes, CommandTypes, StoreOf
    <3> QED BY <2>1, <3>1 DEF StoreInv, NobodyClears, CacheKeptInUse, InUse
  <2>3. CASE lock[role[t]] = Nothing
    <3>1. \A u \in Threads : InUse(u) => role[u] # role[t]
      BY <2>3, MachineAssumption DEF StoreInv, CacheKeptInUse, StoreOf
    <3>2. /\ lock' = [lock EXCEPT ![role[t]] = t]
          /\ at'[t] \in {"using", "clearing"}
          /\ at'[t] = "using" => entries' = [entries EXCEPT ![role[t]] = StoreParts]
          /\ \A r \in Roles : r # role[t] => entries'[r] = entries[r]
      BY <1>3, <2>3 DEF OpensStore, GetsIn, Goes, CommandTypes, StoreTypes, StoreOf
    <3>3. ASSUME NEW u \in Threads, u # t PROVE InUse(u)' <=> InUse(u)
      BY <2>1, <3>3 DEF InUse
    <3>4. ASSUME InUse(t)', NEW u \in Threads, u # t, at[u] = "clearing" PROVE role[u] # role[t]
      <4>1. "clearing" \notin Others(t)
        BY <2>1, <3>4 DEF InUse
      <4> QED BY <3>4, <4>1 DEF Others, Opened
    <3>5. NobodyClears'
      <4> SUFFICES ASSUME NEW v \in Threads, NEW u \in Threads,
                          InUse(v)', u # v, at'[u] = "clearing"
                   PROVE  role'[u] # role'[v]
        BY DEF NobodyClears, StoreOf
      <4>1. CASE v = t
        BY <2>1, <3>4, <4>1
      <4>2. CASE v # t /\ u = t
        BY <2>1, <3>1, <3>3, <4>2
      <4>3. CASE v # t /\ u # t
        <5>1. InUse(v) /\ at[u] = "clearing"
          BY <2>1, <3>3, <4>3
        <5> QED BY <2>1, <5>1 DEF StoreInv, NobodyClears, StoreOf
      <4> QED BY <4>1, <4>2, <4>3
    <3>6. CacheKeptInUse'
      <4> SUFFICES ASSUME NEW v \in Threads, InUse(v)'
                   PROVE  lock'[role[v]] = v /\ entries'[role[v]] = StoreParts
        BY <2>1 DEF CacheKeptInUse, StoreOf
      <4>1. CASE v = t
        BY <2>1, <3>2, <4>1 DEF InUse, StoreTypes
      <4>2. CASE v # t
        <5>1. InUse(v) /\ role[v] # role[t] /\ role[v] \in Roles
          BY <3>1, <3>3, <4>2 DEF CommandTypes
        <5> QED BY <3>2, <5>1 DEF StoreInv, CacheKeptInUse, StoreOf, StoreTypes
      <4> QED BY <4>1, <4>2
    <3> QED BY <3>5, <3>6 DEF StoreInv
  <2> QED BY <2>2, <2>3
<1>4. ASSUME NEW t \in Threads, ClearsCache(t) PROVE StoreInv'
  <2>1. /\ UNCHANGED <<role, met>> /\ at[t] = "clearing" /\ at'[t] \in {"clearing", "closing"}
        /\ \A u \in Threads : u # t => at'[u] = at[u]
    BY <1>4 DEF ClearsCache, Goes, CommandTypes
  <2>2. \A r \in Roles : r # role[t] => lock'[r] = lock[r] /\ entries'[r] = entries[r]
    BY <1>4 DEF ClearsCache, StoreTypes, StoreOf
  <2>3. \A u \in Threads : InUse(u)' => InUse(u) /\ u # t
    BY <2>1 DEF InUse
  <2>4. \A u \in Threads : InUse(u) => role[u] # role[t] /\ role[u] \in Roles
    BY <2>1 DEF StoreInv, NobodyClears, StoreOf, InUse, CommandTypes
  <2>5. NobodyClears'
    BY <2>1, <2>3 DEF StoreInv, NobodyClears, StoreOf
  <2>6. CacheKeptInUse'
    BY <2>1, <2>2, <2>3, <2>4 DEF StoreInv, CacheKeptInUse, StoreOf
  <2> QED BY <2>5, <2>6 DEF StoreInv
<1>5. ASSUME NEW t \in Threads, ShutsDown(t) \/ Fails(t) PROVE StoreInv'
  <2>1. Closes(t) /\ UNCHANGED <<entries, met>>
    BY <1>5 DEF ShutsDown, Fails
  <2>2. /\ \A u \in Threads : u # t => at'[u] = at[u] /\ role'[u] = role[u]
        /\ at'[t] \notin {"using", "clearing"}
    BY <1>5 DEF ShutsDown, Fails, Goes, Over, CommandTypes
  <2> QED BY <2>1, <2>2, ClosesOwn, StoreLeft
<1>6. ASSUME NEW t \in Threads, NEW c \in Commands, Starts(t, c) PROVE StoreInv'
  <2>1. /\ UNCHANGED <<lock, entries, met>> /\ at'[t] \notin {"using", "clearing"}
        /\ \A u \in Threads : u # t => at'[u] = at[u] /\ role'[u] = role[u]
    BY <1>6 DEF Starts, Goes, stores, CommandTypes
  <2> QED BY <2>1, StoreLeft
<1>7. ASSUME NEW t \in Threads, NEW s \in Settings, NEW v \in Values, StartsSet(t, s, v)
      PROVE  StoreInv'
  <2>1. /\ UNCHANGED <<lock, entries, met, role>> /\ at[t] = "idle"
        /\ at' = at \/ at' = [at EXCEPT ![t] = "truncate"]
    BY <1>7 DEF StartsSet, Goes, stores
  <2>2. /\ at'[t] \notin {"using", "clearing"}
        /\ \A u \in Threads : u # t => at'[u] = at[u] /\ role'[u] = role[u]
    BY <2>1 DEF CommandTypes
  <2> QED BY <2>1, <2>2, StoreLeft
<1>8. ASSUME NEW p \in Pids, Crashes(p) PROVE StoreInv'
  <2>1. /\ UNCHANGED <<entries, met>>
        /\ \A u \in Threads : at'[u] # "idle" => at'[u] = at[u] /\ role'[u] = role[u] /\ Pid[u] # p
        /\ lock' = [r \in Roles |-> IF lock[r] # Nothing /\ Pid[lock[r]] = p THEN Nothing ELSE lock[r]]
    BY <1>8 DEF Crashes, CommandTypes
  <2>2. \A u \in Threads : InUse(u)' => InUse(u) /\ role'[u] = role[u] /\ Pid[u] # p
    BY <2>1 DEF InUse
  <2>3. NobodyClears'
    BY <2>1, <2>2 DEF StoreInv, NobodyClears, StoreOf
  <2>4. CacheKeptInUse'
    BY <2>1, <2>2 DEF StoreInv, CacheKeptInUse, StoreOf, CommandTypes
  <2> QED BY <2>3, <2>4 DEF StoreInv
<1>9. CASE UNCHANGED vars
  BY <1>9 DEF vars, StoreInv, NobodyClears, CacheKeptInUse, InUse
<1> QED
  BY <1>2, <1>3, <1>4, <1>5, <1>6, <1>7, <1>8, <1>9 DEF Next, Steps

\* A flow that came to its store when nobody was clearing it keeps its database and
\* blobs, whoever opens or clears stores after it, in whatever processes
\* (commands.rs:272-326, engine/mod.rs:365-372).
THEOREM CacheKept == Spec => []CacheKeptInUse
<1>1. Init => StoreInv
  BY DEF Init, StoreInv, NobodyClears, CacheKeptInUse, InUse
<1>2. StoreInv => CacheKeptInUse
  BY DEF StoreInv
<1> QED BY <1>1, <1>2, Typed, StoreNext, PTL DEF Spec

-----------------------------------------------------------------------------
(* The files, when every thread is a process of its own.                   *)

\* What FileInv asks of a step that touches no file: a thread that comes to make
\* an inode has not made it yet.
LEMMA FilesUntouched ==
  ASSUME TypeInv, FileInv, NEW t \in Threads, UNCHANGED <<key, config, tmp, data>>,
         \A u \in Threads : u # t => /\ at'[u] = at[u] /\ runs'[u] = runs[u]
                                     /\ writing'[u] = writing[u] /\ file'[u] = file[u],
         at'[t] \notin {"write", "rename", "fill", "replace"},
         \/ runs'[t] = runs[t] /\ (at'[t] \in {"load", "create", "remove", "recreate", "truncate"}
              => at[t] \in {"load", "create", "remove", "recreate", "truncate"})
         \/ runs'[t] = runs[t] + 1 /\ runs'[t] \in 0 .. MaxRuns
  PROVE  FileInv'
<1> USE DEF FileInv
<1>1. InodesFresh'
  <2> USE DEF Unnamed, FreshInode
  <2>1. \A u \in Threads : runs[u] \in 0 .. MaxRuns
    BY DEF TypeInv, TypeOK, CommandTypes
  <2> SUFFICES ASSUME NEW u \in Threads
               PROVE  /\ \A n \in 1 .. MaxRuns : n > runs'[u] => Unnamed(<<u, n>>)'
                      /\ at'[u] \in {"load", "create", "remove", "recreate", "truncate"}
                           => Unnamed(FreshInode(u))'
    BY DEF InodesFresh
  <2>2. CASE runs'[u] = runs[u] /\ (at'[u] \in {"load", "create", "remove", "recreate", "truncate"}
              => at[u] \in {"load", "create", "remove", "recreate", "truncate"})
    BY <2>2 DEF InodesFresh
  <2>3. CASE runs'[u] = runs[u] + 1 /\ runs'[u] \in 0 .. MaxRuns
    <3>1. /\ runs'[u] \in 1 .. MaxRuns /\ runs'[u] > runs[u]
          /\ \A n \in 1 .. MaxRuns : n > runs'[u] => n > runs[u]
      BY <2>1, <2>3, MachineAssumption
    <3> QED BY <3>1 DEF InodesFresh
  <2> QED BY <2>2, <2>3
<1>2. TmpsApart'
  BY DEF TmpsApart
<1>3. WritersOwn'
  BY DEF WritersOwn, Whole
<1>4. NoTornFile'
  BY DEF NoTornFile, KeyWhole, Whole
<1> QED BY <1>1, <1>2, <1>3, <1>4

\* Making the inode of thread t: no other inode is it.
LEMMA FreshIsNew ==
  ASSUME TypeInv, FileInv, NEW t \in Threads,
         at[t] \in {"create", "recreate", "truncate"}
  PROVE  /\ FreshInode(t) \in Inodes
         /\ Unnamed(FreshInode(t))
         /\ \A u \in Threads, n \in 1 .. MaxRuns : u # t \/ n # runs[t] => <<u, n>> # FreshInode(t)
BY FreshInodeType DEF TypeInv, TypeOK, FileInv, InodesFresh, FreshInode

\* The steps that leave the files alone.
LEMMA OtherStepFiles ==
  ASSUME TypeInv, FileInv, NEW t \in Threads,
         \/ LoadsKey(t) \/ OpensStore(t) \/ GivesUp(t) \/ ClearsCache(t) \/ ShutsDown(t) \/ Fails(t)
         \/ \E c \in Commands : Starts(t, c)
         \/ \E s \in Settings, v \in Values : StartsSet(t, s, v)
  PROVE  FileInv'
<1> USE DEF TypeInv, TypeOK
<1>1. ASSUME LoadsKey(t) \/ OpensStore(t) \/ GivesUp(t) \/ ClearsCache(t) \/ ShutsDown(t) \/ Fails(t)
      PROVE  FileInv'
  <2>1. UNCHANGED <<key, config, tmp, data, runs, writing>>
    BY <1>1 DEF LoadsKey, OpensStore, GetsIn, GivesUp, ClearsCache, ShutsDown, Fails, files
  <2>2. \A u \in Threads : u # t => at'[u] = at[u] /\ file'[u] = file[u]
    BY <1>1 DEF LoadsKey, OpensStore, GetsIn, GivesUp, ClearsCache, ShutsDown, Fails, Over, Goes, CommandTypes
  <2>3. /\ at'[t] \notin {"write", "rename", "fill", "replace"}
        /\ at'[t] \in {"load", "create", "remove", "recreate", "truncate"} => at[t] = "load"
    BY <1>1 DEF LoadsKey, OpensStore, GetsIn, GivesUp, ClearsCache, ShutsDown, Fails, Over, Goes, CommandTypes
  <2> QED BY <2>1, <2>2, <2>3, FilesUntouched
<1>2. ASSUME NEW c \in Commands, Starts(t, c) PROVE FileInv'
  <2>1. /\ UNCHANGED <<key, config, tmp, data, writing, file>>
        /\ runs' = [runs EXCEPT ![t] = @ + 1] /\ runs[t] < MaxRuns
        /\ at' \in {at, [at EXCEPT ![t] = "load"], [at EXCEPT ![t] = "open"]} /\ at[t] = "idle"
    BY <1>2 DEF Starts, Goes, files
  <2>2. runs'[t] = runs[t] + 1 /\ runs'[t] \in 0 .. MaxRuns
    BY <2>1, MachineAssumption DEF CommandTypes
  <2>3. \A u \in Threads : u # t => at'[u] = at[u] /\ runs'[u] = runs[u]
    BY <2>1 DEF CommandTypes
  <2>4. at'[t] \notin {"write", "rename", "fill", "replace"}
    BY <2>1 DEF CommandTypes
  <2> QED BY <2>1, <2>2, <2>3, <2>4, FilesUntouched
<1>3. ASSUME NEW s \in Settings, NEW v \in Values, StartsSet(t, s, v) PROVE FileInv'
  <2>1. /\ UNCHANGED <<key, config, tmp, data, writing>>
        /\ runs' = [runs EXCEPT ![t] = @ + 1] /\ runs[t] < MaxRuns
        /\ at' = at \/ at' = [at EXCEPT ![t] = "truncate"]
        /\ file' = file \/ file' = [file EXCEPT ![t] = [ConfigSays EXCEPT ![s] = v]]
        /\ at[t] = "idle"
    BY <1>3 DEF StartsSet, Goes, files
  <2>2. runs'[t] = runs[t] + 1 /\ runs'[t] \in 0 .. MaxRuns
    BY <2>1, MachineAssumption DEF CommandTypes
  <2>3. \A u \in Threads : u # t => at'[u] = at[u] /\ runs'[u] = runs[u] /\ file'[u] = file[u]
    BY <2>1 DEF CommandTypes
  <2>4. at'[t] \notin {"write", "rename", "fill", "replace"}
    BY <2>1 DEF CommandTypes
  <2> QED BY <2>1, <2>2, <2>3, <2>4, FilesUntouched
<1> QED BY <1>1, <1>2, <1>3

\* Names that are passed on, removed, or given to the inode of thread t leave the
\* inodes that are still to be made without one.
LEMMA StaysFresh ==
  ASSUME TypeInv, InodesFresh, NEW t \in Threads, NEW i,
         i = Nothing \/ (i = <<t, runs[t]>> /\ at[t] # "idle"),
         at'[t] \notin {"load", "create", "remove", "truncate"},
         at'[t] = "recreate" => at[t] = "remove" /\ i = Nothing,
         \A u \in Threads : u # t => at'[u] = at[u],
         UNCHANGED runs,
         key' = key \/ \E q \in Pids : key' = tmp[q].key,
         config' = config \/ \E q \in Pids : config' = tmp[q].config,
         \A p \in Pids : tmp'[p].key \in {tmp[p].key, i} /\ tmp'[p].config \in {tmp[p].config, i}
  PROVE  InodesFresh'
<1>1. \A u \in Threads : runs[u] \in 0 .. MaxRuns /\ (at[u] # "idle" => runs[u] > 0)
  BY DEF TypeInv, TypeOK, CommandTypes, Begun
<1>2. ASSUME NEW j, Unnamed(j), j # i PROVE Unnamed(j)'
  BY <1>2 DEF Unnamed
<1>3. \A u \in Threads, n \in 1 .. MaxRuns : <<u, n>> # Nothing
  BY NothingIsNoInode DEF Inodes
<1> SUFFICES ASSUME NEW u \in Threads
             PROVE  /\ \A n \in 1 .. MaxRuns : n > runs[u] => Unnamed(<<u, n>>)'
                    /\ at'[u] \in {"load", "create", "remove", "recreate", "truncate"}
                         => Unnamed(FreshInode(u))'
  BY DEF InodesFresh
<1>4. ASSUME NEW n \in 1 .. MaxRuns, n > runs[u] PROVE Unnamed(<<u, n>>)'
  <2>1. Unnamed(<<u, n>>)
    BY <1>4 DEF InodesFresh
  <2>2. <<u, n>> # i
    BY <1>1, <1>3, <1>4
  <2> HIDE DEF Unnamed
  <2> QED BY <1>2, <2>1, <2>2
<1>5. ASSUME at'[u] \in {"load", "create", "remove", "recreate", "truncate"}
      PROVE  Unnamed(FreshInode(u))'
  <2>1. at[u] \in {"load", "create", "remove", "recreate", "truncate"} /\ (u = t => i = Nothing)
    BY <1>5
  <2>2. runs[u] \in 1 .. MaxRuns
    BY <1>1, <2>1, MachineAssumption
  <2>3. Unnamed(<<u, runs[u]>>)
    BY <2>1 DEF InodesFresh, FreshInode
  <2>4. <<u, runs[u]>> # i
    BY <1>3, <2>1, <2>2
  <2>5. FreshInode(u)' = <<u, runs[u]>>
    BY DEF FreshInode
  <2> QED BY <2>3, <2>4, <2>5 DEF Unnamed, FreshInode
<1> QED BY <1>4, <1>5

\* A temporary key file is created under a free name, with a new inode.
LEMMA CreatesTmpFiles ==
  ASSUME SeparateProcesses, TypeInv, FileInv, NEW t \in Threads, CreatesTmp(t)
  PROVE  FileInv'
<1> USE PidType DEF TypeInv, TypeOK, FileInv
<1>1. CASE tmp[Pid[t]].key # Nothing
  <2>1. /\ UNCHANGED <<key, config, tmp, data, runs, writing, file>>
        /\ at' \in {[at EXCEPT ![t] = "remove"], [at EXCEPT ![t] = "idle"]}
        /\ at[t] \in {"create", "recreate"}
    BY <1>1 DEF CreatesTmp, Goes
  <2>2. /\ \A u \in Threads : u # t => at'[u] = at[u]
        /\ at'[t] \in {"remove", "idle"}
    BY <2>1 DEF CommandTypes
  <2> QED BY <2>1, <2>2, FilesUntouched
<1>2. CASE tmp[Pid[t]].key = Nothing
  <2> DEFINE i == FreshInode(t)
  <2>1. i \in Inodes /\ Unnamed(i)
        /\ \A u \in Threads, n \in 1 .. MaxRuns : u # t \/ n # runs[t] => <<u, n>> # i
    BY FreshIsNew DEF CreatesTmp
  <2>2. /\ tmp' = [tmp EXCEPT ![Pid[t]].key = i]
        /\ writing' = [writing EXCEPT ![t] = i]
        /\ at' = [at EXCEPT ![t] = "write"] /\ at[t] \in {"create", "recreate"}
        /\ UNCHANGED <<key, config, data, runs, file>>
    BY <1>2 DEF CreatesTmp, Goes
  <2> HIDE DEF i
  <2>3. /\ tmp'[Pid[t]].key = i /\ tmp'[Pid[t]].config = tmp[Pid[t]].config
        /\ \A q \in Pids : q # Pid[t] => tmp'[q] = tmp[q]
    BY <2>1, <2>2, TmpKeySet
  <2>4. /\ at'[t] = "write" /\ writing'[t] = i
        /\ \A u \in Threads : u # t => at'[u] = at[u] /\ writing'[u] = writing[u]
    BY <2>2 DEF CommandTypes, FileTypes
  <2>5. InodesFresh'
    <3>1. \A p \in Pids : tmp'[p].key \in {tmp[p].key, i} /\ tmp'[p].config = tmp[p].config
      BY <2>3
    <3>2. i = <<t, runs[t]>>
      BY DEF i, FreshInode
    <3> QED BY <2>2, <2>4, <3>1, <3>2, StaysFresh
  <2>6. TmpsApart'
    BY <2>1, <2>2, <2>3 DEF TmpsApart, Unnamed
  <2>7. WritersOwn'
    BY <2>2, <2>3, <2>4 DEF WritersOwn, SeparateProcesses, Whole
  <2> QED BY <2>2, <2>5, <2>6, <2>7 DEF NoTornFile, KeyWhole, Whole
<1> QED BY <1>1, <1>2

\* The stale one is removed: its name goes.
LEMMA RemovesTmpFiles ==
  ASSUME SeparateProcesses, TypeInv, FileInv, NEW t \in Threads, RemovesTmp(t)
  PROVE  FileInv'
<1> USE PidType, NothingIsNoInode DEF TypeInv, TypeOK, FileInv
<1>1. /\ tmp'[Pid[t]].key = Nothing /\ tmp'[Pid[t]].config = tmp[Pid[t]].config
      /\ \A q \in Pids : q # Pid[t] => tmp'[q] = tmp[q]
  BY TmpKeySet DEF RemovesTmp
<1>2. /\ at'[t] = "recreate" /\ at[t] = "remove"
      /\ \A u \in Threads : u # t => at'[u] = at[u]
      /\ UNCHANGED <<runs, key, config, data, file, writing>>
  BY DEF RemovesTmp, Goes, CommandTypes
<1>3. \A p \in Pids : /\ tmp'[p].key \in {tmp[p].key, Nothing}
                      /\ tmp'[p].config = tmp[p].config
  BY <1>1
<1>4. InodesFresh'
  BY <1>2, <1>3, StaysFresh
<1>5. TmpsApart'
  BY <1>2, <1>3 DEF TmpsApart
<1>6. WritersOwn'
  BY <1>1, <1>2 DEF WritersOwn, SeparateProcesses, Whole
<1> QED BY <1>2, <1>4, <1>5, <1>6 DEF NoTornFile, KeyWhole, Whole

\* Writing the inode of a temporary file that is nobody else's.
LEMMA WritingApart ==
  ASSUME SeparateProcesses, TypeInv, FileInv, NEW t \in Threads, NEW i \in Inodes,
         NEW content \in Content, data' = [data EXCEPT ![i] = content],
         i = tmp[Pid[t]].key \/ i = tmp[Pid[t]].config \/ Unnamed(i)
  PROVE  /\ key # Nothing => data'[key] = data[key]
         /\ config # Nothing => data'[config] = data[config]
         /\ \A u \in Threads : u # t /\ at[u] \in {"write", "rename", "fill", "replace"} =>
              writing[u] # i /\ data'[writing[u]] = data[writing[u]]
<1> USE PidType, NothingIsNoInode DEF TypeInv, TypeOK, FileInv
<1>1. i # key /\ i # config
  BY DEF TmpsApart, Unnamed
<1>2. \A u \in Threads : u # t /\ at[u] \in {"write", "rename", "fill", "replace"} =>
        writing[u] # i /\ writing[u] \in Inodes
  <2> SUFFICES ASSUME NEW u \in Threads, u # t, at[u] \in {"write", "rename", "fill", "replace"}
               PROVE  writing[u] # i /\ writing[u] \in Inodes
    OBVIOUS
  <2>1. writing[u] \in Inodes
    BY DEF FileTypes
  <2>2. writing[u] = tmp[Pid[u]].key \/ writing[u] = tmp[Pid[u]].config
    BY DEF WritersOwn
  <2>3. Pid[u] # Pid[t]
    BY DEF SeparateProcesses
  <2> QED BY <2>1, <2>2, <2>3 DEF TmpsApart, Unnamed
<1> QED BY <1>1, <1>2, DataWritten DEF FileTypes

LEMMA WritesKeyFiles ==
  ASSUME SeparateProcesses, TypeInv, FileInv, NEW t \in Threads, WritesKey(t)
  PROVE  FileInv'
<1> USE PidType, NothingIsNoInode DEF TypeInv, TypeOK, FileInv
<1>1. /\ at[t] = "write" /\ at'[t] = "rename"
      /\ \A u \in Threads : u # t => at'[u] = at[u]
      /\ UNCHANGED <<runs, key, config, tmp, file, writing>>
      /\ data' = [data EXCEPT ![writing[t]] = Written(Default)]
  BY DEF WritesKey, Goes, CommandTypes
<1>2. writing[t] \in Inodes /\ writing[t] = tmp[Pid[t]].key
  BY <1>1 DEF FileTypes, WritersOwn
<1>3. Written(Default) \in Content /\ Written(Default).whole
  BY Contents
<1>4. /\ key # Nothing => data'[key] = data[key]
      /\ config # Nothing => data'[config] = data[config]
      /\ \A u \in Threads : u # t /\ at[u] \in {"write", "rename", "fill", "replace"} =>
           data'[writing[u]] = data[writing[u]]
  BY <1>1, <1>2, <1>3, WritingApart
<1>5. data'[writing[t]] = Written(Default)
  BY <1>1, <1>2, <1>3, DataWritten
<1>6. InodesFresh'
  BY <1>1, StaysFresh
<1>7. TmpsApart'
  BY <1>1 DEF TmpsApart
<1>8. WritersOwn'
  BY <1>1, <1>2, <1>3, <1>4, <1>5 DEF WritersOwn, Whole
<1> QED BY <1>1, <1>4, <1>6, <1>7, <1>8 DEF NoTornFile, KeyWhole, Whole

\* The name of the temporary key passes to key.bin, with a whole file.
LEMMA RenamesKeyFiles ==
  ASSUME SeparateProcesses, TypeInv, FileInv, NEW t \in Threads, RenamesKey(t)
  PROVE  FileInv'
<1> USE PidType, NothingIsNoInode DEF TypeInv, TypeOK, FileInv
<1>1. /\ at[t] = "rename"
      /\ UNCHANGED <<runs, config, data, file>>
      /\ writing' = [writing EXCEPT ![t] = Nothing]
  BY DEF RenamesKey
<1>2. writing[t] \in Inodes /\ tmp[Pid[t]].key = writing[t] /\ Whole(writing[t])
  BY <1>1 DEF FileTypes, WritersOwn
<1>3. /\ key' = writing[t]
      /\ tmp' = [tmp EXCEPT ![Pid[t]].key = Nothing]
      /\ at' = [at EXCEPT ![t] = "open"]
  BY <1>2 DEF RenamesKey, Goes
<1>4. /\ tmp'[Pid[t]].key = Nothing /\ tmp'[Pid[t]].config = tmp[Pid[t]].config
      /\ \A q \in Pids : q # Pid[t] => tmp'[q] = tmp[q]
  BY <1>3, TmpKeySet
<1>5. /\ at'[t] = "open" /\ writing'[t] = Nothing
      /\ \A u \in Threads : u # t => at'[u] = at[u] /\ writing'[u] = writing[u]
  BY <1>1, <1>3 DEF CommandTypes, FileTypes
<1>6. \A p \in Pids : tmp'[p].key \in {tmp[p].key, Nothing} /\ tmp'[p].config = tmp[p].config
  BY <1>4
<1>7. InodesFresh'
  BY <1>1, <1>2, <1>3, <1>5, <1>6, StaysFresh
<1>8. TmpsApart'
  <2>1. \A p \in Pids : tmp'[p].key # Nothing => p # Pid[t] /\ tmp'[p].key = tmp[p].key
    BY <1>4
  <2> QED BY <1>1, <1>2, <1>3, <1>6, <2>1 DEF TmpsApart
<1>9. WritersOwn'
  BY <1>1, <1>4, <1>5 DEF WritersOwn, SeparateProcesses, Whole
<1> QED BY <1>1, <1>2, <1>3, <1>7, <1>8, <1>9 DEF NoTornFile, KeyWhole, Whole

\* fs::write opens the temporary settings: a new inode, or the one a crash left.
LEMMA TruncatesConfigFiles ==
  ASSUME SeparateProcesses, TypeInv, FileInv, NEW t \in Threads, TruncatesConfig(t)
  PROVE  FileInv'
<1> USE PidType, NothingIsNoInode DEF TypeInv, TypeOK, FileInv
<1> DEFINE i == IF tmp[Pid[t]].config = Nothing THEN FreshInode(t) ELSE tmp[Pid[t]].config
<1>1. /\ i \in Inodes
      /\ i = tmp[Pid[t]].config \/ Unnamed(i)
      /\ i = tmp[Pid[t]].config \/ (tmp[Pid[t]].config = Nothing /\ i = <<t, runs[t]>>)
  BY FreshIsNew DEF TruncatesConfig, FileTypes, FreshInode
<1>2. /\ tmp' = [tmp EXCEPT ![Pid[t]].config = i]
      /\ data' = [data EXCEPT ![i] = Torn]
      /\ writing' = [writing EXCEPT ![t] = i]
      /\ at' = [at EXCEPT ![t] = "fill"] /\ at[t] = "truncate"
      /\ UNCHANGED <<key, config, runs, file>>
  BY DEF TruncatesConfig, Goes
<1> HIDE DEF i
<1>3. /\ tmp'[Pid[t]].config = i /\ tmp'[Pid[t]].key = tmp[Pid[t]].key
      /\ \A q \in Pids : q # Pid[t] => tmp'[q] = tmp[q]
  BY <1>1, <1>2, TmpConfigSet
<1>4. /\ at'[t] = "fill" /\ writing'[t] = i
      /\ \A u \in Threads : u # t => at'[u] = at[u] /\ writing'[u] = writing[u]
  BY <1>2 DEF CommandTypes, FileTypes
<1>5. /\ key # Nothing => data'[key] = data[key]
      /\ config # Nothing => data'[config] = data[config]
      /\ \A u \in Threads : u # t /\ at[u] \in {"write", "rename", "fill", "replace"} =>
           data'[writing[u]] = data[writing[u]]
  BY <1>1, <1>2, Contents, WritingApart
<1>6. InodesFresh'
  <2>1. CASE i = tmp[Pid[t]].config
    <3>1. \A p \in Pids : tmp'[p].key = tmp[p].key /\ tmp'[p].config = tmp[p].config
      BY <1>3, <2>1
    <3> QED BY <1>2, <1>4, <3>1, StaysFresh
  <2>2. CASE i = <<t, runs[t]>>
    <3>1. \A p \in Pids : tmp'[p].key = tmp[p].key /\ tmp'[p].config \in {tmp[p].config, i}
      BY <1>3
    <3> QED BY <1>2, <1>4, <2>2, <3>1, StaysFresh
  <2> QED BY <1>1, <2>1, <2>2
<1>7. TmpsApart'
  <2>1. CASE i = tmp[Pid[t]].config
    <3>1. \A p \in Pids : tmp'[p].key = tmp[p].key /\ tmp'[p].config = tmp[p].config
      BY <1>3, <2>1
    <3> QED BY <1>2, <3>1 DEF TmpsApart
  <2>2. CASE Unnamed(i)
    BY <1>1, <1>2, <1>3, <2>2 DEF TmpsApart, Unnamed
  <2> QED BY <1>1, <2>1, <2>2
<1>8. WritersOwn'
  BY <1>2, <1>3, <1>4, <1>5 DEF WritersOwn, SeparateProcesses, Whole
<1> QED BY <1>2, <1>5, <1>6, <1>7, <1>8 DEF NoTornFile, KeyWhole, Whole

LEMMA FillsConfigFiles ==
  ASSUME SeparateProcesses, TypeInv, FileInv, NEW t \in Threads, FillsConfig(t)
  PROVE  FileInv'
<1> USE PidType, NothingIsNoInode DEF TypeInv, TypeOK, FileInv
<1>1. /\ at[t] = "fill" /\ at'[t] = "replace"
      /\ \A u \in Threads : u # t => at'[u] = at[u]
      /\ UNCHANGED <<runs, key, config, tmp, file, writing>>
      /\ data' = [data EXCEPT ![writing[t]] = Written(file[t])]
  BY DEF FillsConfig, Goes, CommandTypes
<1>2. writing[t] \in Inodes /\ writing[t] = tmp[Pid[t]].config
  BY <1>1 DEF FileTypes, WritersOwn
<1>3. Written(file[t]) \in Content /\ Written(file[t]).whole /\ Written(file[t]).says = file[t]
  BY Contents DEF CommandTypes
<1>4. /\ key # Nothing => data'[key] = data[key]
      /\ config # Nothing => data'[config] = data[config]
      /\ \A u \in Threads : u # t /\ at[u] \in {"write", "rename", "fill", "replace"} =>
           data'[writing[u]] = data[writing[u]]
  BY <1>1, <1>2, <1>3, WritingApart
<1>5. data'[writing[t]] = Written(file[t])
  BY <1>1, <1>2, <1>3, DataWritten
<1>6. InodesFresh'
  BY <1>1, StaysFresh
<1>7. TmpsApart'
  BY <1>1 DEF TmpsApart
<1>8. WritersOwn'
  BY <1>1, <1>2, <1>3, <1>4, <1>5 DEF WritersOwn, Whole
<1> QED BY <1>1, <1>4, <1>6, <1>7, <1>8 DEF NoTornFile, KeyWhole, Whole

\* The name of the temporary settings passes to config.toml, with a whole file.
LEMMA RenamesConfigFiles ==
  ASSUME SeparateProcesses, TypeInv, FileInv, NEW t \in Threads, RenamesConfig(t)
  PROVE  FileInv'
<1> USE PidType, NothingIsNoInode DEF TypeInv, TypeOK, FileInv
<1>1. /\ at[t] = "replace"
      /\ UNCHANGED <<runs, key, data>>
      /\ writing' = [writing EXCEPT ![t] = Nothing]
      /\ at' = [at EXCEPT ![t] = "idle"]
      /\ file' = [file EXCEPT ![t] = Default]
  BY DEF RenamesConfig, Over, Goes
<1>2. writing[t] \in Inodes /\ tmp[Pid[t]].config = writing[t] /\ Whole(writing[t])
  BY <1>1 DEF FileTypes, WritersOwn
<1>3. /\ config' = writing[t]
      /\ tmp' = [tmp EXCEPT ![Pid[t]].config = Nothing]
  BY <1>2 DEF RenamesConfig
<1>4. /\ tmp'[Pid[t]].config = Nothing /\ tmp'[Pid[t]].key = tmp[Pid[t]].key
      /\ \A q \in Pids : q # Pid[t] => tmp'[q] = tmp[q]
  BY <1>3, TmpConfigSet
<1>5. /\ at'[t] = "idle" /\ writing'[t] = Nothing
      /\ \A u \in Threads : u # t => /\ at'[u] = at[u] /\ writing'[u] = writing[u]
                                     /\ file'[u] = file[u]
  BY <1>1, <1>3 DEF CommandTypes, FileTypes
<1>6. \A p \in Pids : tmp'[p].config \in {tmp[p].config, Nothing} /\ tmp'[p].key = tmp[p].key
  BY <1>4
<1>7. InodesFresh'
  BY <1>1, <1>2, <1>3, <1>5, <1>6, StaysFresh
<1>8. TmpsApart'
  <2>1. \A p \in Pids : tmp'[p].config # Nothing => p # Pid[t] /\ tmp'[p].config = tmp[p].config
    BY <1>4
  <2> QED BY <1>1, <1>2, <1>3, <1>6, <2>1 DEF TmpsApart
<1>9. WritersOwn'
  BY <1>1, <1>4, <1>5 DEF WritersOwn, SeparateProcesses, Whole
<1> QED BY <1>1, <1>2, <1>3, <1>7, <1>8, <1>9 DEF NoTornFile, KeyWhole, Whole

\* A crash leaves the files as they are, temporary ones included.
LEMMA CrashesFiles ==
  ASSUME TypeInv, FileInv, NEW p \in Pids, Crashes(p)
  PROVE  FileInv'
<1> USE DEF TypeInv, TypeOK, FileInv
<1>1. /\ UNCHANGED <<runs, key, config, tmp, data>>
      /\ \A t \in Threads :
           \/ at'[t] = "idle"
           \/ at'[t] = at[t] /\ writing'[t] = writing[t] /\ file'[t] = file[t]
  BY DEF Crashes
<1>2. InodesFresh'
  BY <1>1 DEF InodesFresh, Unnamed, FreshInode
<1>3. TmpsApart'
  BY <1>1 DEF TmpsApart
<1>4. WritersOwn'
  BY <1>1 DEF WritersOwn, Whole
<1> QED BY <1>1, <1>2, <1>3, <1>4 DEF NoTornFile, KeyWhole, Whole

LEMMA FileNext == SeparateProcesses /\ TypeInv /\ FileInv /\ [Next]_vars => FileInv'
<1> SUFFICES ASSUME SeparateProcesses, TypeInv, FileInv, [Next]_vars PROVE FileInv'
  OBVIOUS
<1>1. ASSUME NEW t \in Threads,
             \/ Steps(t) \/ \E c \in Commands : Starts(t, c)
             \/ \E s \in Settings, v \in Values : StartsSet(t, s, v)
      PROVE  FileInv'
  BY <1>1, OtherStepFiles, CreatesTmpFiles, RemovesTmpFiles, WritesKeyFiles, RenamesKeyFiles,
     TruncatesConfigFiles, FillsConfigFiles, RenamesConfigFiles DEF Steps
<1>2. ASSUME NEW p \in Pids, Crashes(p) PROVE FileInv'
  BY <1>2, CrashesFiles
<1>3. CASE UNCHANGED vars
  BY <1>3 DEF vars, FileInv, InodesFresh, Unnamed, FreshInode, TmpsApart, WritersOwn, Whole,
     NoTornFile, KeyWhole
<1> QED BY <1>1, <1>2, <1>3 DEF Next

LEMMA FileInit == Init => FileInv
<1> SUFFICES ASSUME Init PROVE FileInv
  OBVIOUS
<1>1. \A t \in Threads, n \in 1 .. MaxRuns : <<t, n>> # Nothing
  BY NothingIsNoInode DEF Inodes
<1>2. InodesFresh
  BY <1>1 DEF Init, InodesFresh, Unnamed
<1> QED BY <1>2 DEF Init, FileInv, TmpsApart, WritersOwn, NoTornFile, KeyWhole

\* When every thread is a process of its own, whoever reads the key or the
\* settings finds a whole file or none, after any number of crashes in the midst
\* of writing (identity.rs:223-268, config.rs:159-187).
THEOREM FilesWhole == SeparateProcesses => (Spec => []NoTornFile)
<1> SUFFICES ASSUME SeparateProcesses PROVE Spec => []NoTornFile
  OBVIOUS
<1>1. TypeInv /\ FileInv /\ [Next]_vars => FileInv'
  BY FileNext
<1>2. FileInv => NoTornFile
  BY DEF FileInv
<1> QED BY <1>1, <1>2, Typed, FileInit, PTL DEF Spec

-----------------------------------------------------------------------------
(* The identity.                                                           *)

\* Most steps make no key, and no thread goes over to making one.
LEMMA KeyQuiet ==
  ASSUME KeyInv, UNCHANGED <<key, disturbed>>,
         \A u \in Threads : at'[u] \in Creating => at[u] \in Creating,
         \A u \in Threads : \/ mine'[u] = Nothing
                            \/ mine'[u] = mine[u] /\ (at'[u] = "load" => at[u] = "load")
  PROVE  KeyInv'
BY DEF KeyInv, LoadingAnew, AloneCreating, IdentityKept

LEMMA KeyNext ==
  SeparateProcesses /\ TypeInv /\ FileInv /\ KeyInv /\ [Next]_vars => KeyInv'
<1> SUFFICES ASSUME SeparateProcesses, TypeInv, FileInv, KeyInv, [Next]_vars PROVE KeyInv'
  OBVIOUS
<1> USE PidType, NothingIsNoInode DEF TypeInv, TypeOK
<1>1. ASSUME NEW t \in Threads, LoadsKey(t) PROVE KeyInv'
  <2>1. /\ UNCHANGED <<key, data>>
        /\ at[t] = "load"
        /\ \A u \in Threads : u # t => at'[u] = at[u] /\ mine'[u] = mine[u]
        /\ IF key # Nothing /\ Whole(key) THEN mine'[t] = key /\ at'[t] = "open"
           ELSE mine'[t] = mine[t] /\ at'[t] = "create"
    BY <1>1 DEF LoadsKey, files, Goes, CommandTypes, FileTypes
  <2>2. \A u \in Threads :
          disturbed'[u] <=> IF u = t THEN Meets(t) # {} ELSE disturbed[u] \/ u \in Meets(t)
    BY Zenon, <1>1 DEF LoadsKey
  <2>3. \A u \in Threads : u # t /\ ~disturbed'[u] => ~disturbed[u] /\ at[u] \notin Creating
    BY <2>2 DEF Meets
  <2>4. ~disturbed'[t] => \A u \in Threads : u # t => at[u] \notin Creating
    BY <2>2 DEF Meets
  <2>5. key # Nothing => Whole(key)
    BY DEF FileInv, NoTornFile, KeyWhole
  <2>6. AloneCreating'
    <3> SUFFICES ASSUME NEW v \in Threads, ~disturbed'[v], at'[v] \in Creating \/ mine'[v] # Nothing,
                        NEW u \in Threads, u # v
                 PROVE  at'[u] \notin Creating
      BY DEF AloneCreating
    <3>1. CASE v = t
      BY <2>1, <2>4, <3>1
    <3>2. CASE v # t /\ u # t
      BY <2>1, <2>3, <3>2 DEF KeyInv, AloneCreating
    <3>3. CASE v # t /\ u = t
      <4>1. ~disturbed[v] /\ mine[v] # Nothing
        BY <2>1, <2>3, <3>3
      <4>2. key # Nothing /\ Whole(key)
        BY <2>5, <4>1 DEF KeyInv, IdentityKept
      <4> QED BY <2>1, <3>3, <4>2 DEF Creating
    <3> QED BY <3>1, <3>2, <3>3
  <2>7. IdentityKept'
    <3> SUFFICES ASSUME NEW v \in Threads, mine'[v] # Nothing, ~disturbed'[v]
                 PROVE  key = mine'[v]
      BY <2>1 DEF IdentityKept
    <3>1. CASE v # t
      BY <2>1, <2>3, <3>1 DEF KeyInv, IdentityKept
    <3>2. CASE v = t
      <4>1. mine[t] = Nothing
        BY <2>1 DEF KeyInv, LoadingAnew
      <4> QED BY <2>1, <3>2, <4>1
    <3> QED BY <3>1, <3>2
  <2>8. LoadingAnew'
    BY <2>1 DEF KeyInv, LoadingAnew, Creating
  <2> QED BY <2>6, <2>7, <2>8 DEF KeyInv
<1>2. ASSUME NEW t \in Threads, CreatesTmp(t) \/ RemovesTmp(t) \/ WritesKey(t) PROVE KeyInv'
  <2>1. /\ UNCHANGED <<key, disturbed, mine>>
        /\ at[t] \in Creating /\ at'[t] # "load"
        /\ \A u \in Threads : u # t => at'[u] = at[u]
    BY <1>2 DEF CreatesTmp, RemovesTmp, WritesKey, Goes, Creating, history, CommandTypes
  <2> QED BY <2>1, KeyQuiet
<1>3. ASSUME NEW t \in Threads, RenamesKey(t) PROVE KeyInv'
  <2>1. /\ at[t] = "rename" /\ UNCHANGED disturbed
        /\ \A u \in Threads : u # t => at'[u] = at[u] /\ mine'[u] = mine[u]
        /\ at'[t] \in {"open", "idle"}
    BY <1>3 DEF RenamesKey, Goes, history, CommandTypes, FileTypes
  <2>2. writing[t] # Nothing /\ tmp[Pid[t]].key = writing[t]
    BY <2>1 DEF FileTypes, FileInv, WritersOwn
  <2>3. key' = writing[t] /\ mine'[t] = writing[t]
    BY <1>3, <2>2 DEF RenamesKey, FileTypes
  <2>4. \A u \in Threads : u # t /\ mine[u] # Nothing => disturbed[u]
    BY <2>1 DEF KeyInv, AloneCreating, Creating
  <2>5. IdentityKept'
    BY <2>1, <2>3, <2>4 DEF IdentityKept
  <2>6. AloneCreating' /\ LoadingAnew'
    BY <2>1 DEF KeyInv, AloneCreating, LoadingAnew, Creating
  <2> QED BY <2>5, <2>6 DEF KeyInv
<1>4. ASSUME NEW t \in Threads,
             \/ TruncatesConfig(t) \/ FillsConfig(t) \/ RenamesConfig(t)
             \/ OpensStore(t) \/ GivesUp(t) \/ ClearsCache(t) \/ ShutsDown(t) \/ Fails(t)
      PROVE  KeyInv'
  <2>1. UNCHANGED <<key, disturbed, mine>>
    BY <1>4 DEF TruncatesConfig, FillsConfig, RenamesConfig, OpensStore, GetsIn, GivesUp, ClearsCache, ShutsDown,
       Fails, history, files
  <2>2. /\ at'[t] \notin Creating /\ at'[t] # "load"
        /\ \A u \in Threads : u # t => at'[u] = at[u]
    BY <1>4 DEF TruncatesConfig, FillsConfig, RenamesConfig, OpensStore, GetsIn, GivesUp, ClearsCache, ShutsDown,
       Fails, Over, Goes, Creating, CommandTypes
  <2> QED BY <2>1, <2>2, KeyQuiet
<1>5. ASSUME NEW t \in Threads, NEW c \in Commands, Starts(t, c) PROVE KeyInv'
  <2>1. /\ UNCHANGED <<key, disturbed>>
        /\ mine' = [mine EXCEPT ![t] = Nothing]
        /\ at' \in {at, [at EXCEPT ![t] = "load"], [at EXCEPT ![t] = "open"]}
    BY <1>5 DEF Starts, Goes, history, files
  <2>2. /\ mine'[t] = Nothing /\ (at'[t] = at[t] \/ at'[t] \notin Creating)
        /\ \A u \in Threads : u # t => mine'[u] = mine[u] /\ at'[u] = at[u]
    BY <2>1 DEF CommandTypes, FileTypes, Creating
  <2>3. \A u \in Threads : at'[u] \in Creating => at[u] \in Creating
    BY <2>2
  <2>4. \A u \in Threads : \/ mine'[u] = Nothing
                           \/ mine'[u] = mine[u] /\ (at'[u] = "load" => at[u] = "load")
    BY <2>2
  <2> QED BY <2>1, <2>3, <2>4, KeyQuiet
<1>6. ASSUME NEW t \in Threads, NEW s \in Settings, NEW v \in Values, StartsSet(t, s, v)
      PROVE  KeyInv'
  <2>1. /\ UNCHANGED <<key, disturbed>>
        /\ mine' = [mine EXCEPT ![t] = Nothing]
        /\ at' \in {at, [at EXCEPT ![t] = "truncate"]}
    BY <1>6 DEF StartsSet, Goes, files
  <2>2. /\ mine'[t] = Nothing /\ (at'[t] = at[t] \/ at'[t] \notin Creating)
        /\ \A u \in Threads : u # t => mine'[u] = mine[u] /\ at'[u] = at[u]
    BY <2>1 DEF CommandTypes, FileTypes, Creating
  <2>3. \A u \in Threads : at'[u] \in Creating => at[u] \in Creating
    BY <2>2
  <2>4. \A u \in Threads : \/ mine'[u] = Nothing
                           \/ mine'[u] = mine[u] /\ (at'[u] = "load" => at[u] = "load")
    BY <2>2
  <2> QED BY <2>1, <2>3, <2>4, KeyQuiet
<1>7. ASSUME NEW p \in Pids, Crashes(p) PROVE KeyInv'
  <2>1. /\ UNCHANGED <<key, disturbed, mine>>
        /\ \A u \in Threads : at'[u] \in {at[u], "idle"}
    BY <1>7 DEF Crashes, history
  <2> QED BY <2>1, KeyQuiet DEF Creating
<1>8. CASE UNCHANGED vars
  BY <1>8, KeyQuiet DEF vars
<1> QED
  BY <1>1, <1>2, <1>3, <1>4, <1>5, <1>6, <1>7, <1>8 DEF Next, Steps

\* When every thread is a process of its own, a sender whose key nobody else was
\* making finds that key on disk ever after, so that its node id outlives it
\* (identity.rs:197-221).
THEOREM IdentityStays == SeparateProcesses => (Spec => []IdentityKept)
<1> SUFFICES ASSUME SeparateProcesses PROVE Spec => []IdentityKept
  OBVIOUS
<1>1. Init => KeyInv
  BY DEF Init, KeyInv, LoadingAnew, AloneCreating, IdentityKept, Creating
<1>2. TypeInv /\ FileInv /\ [Next]_vars => FileInv'
  BY FileNext
<1>3. TypeInv /\ FileInv /\ KeyInv /\ [Next]_vars => KeyInv'
  BY KeyNext
<1>4. KeyInv => IdentityKept
  BY DEF KeyInv
<1> QED BY <1>1, <1>2, <1>3, <1>4, Typed, FileInit, PTL DEF Spec

-----------------------------------------------------------------------------
(* The settings.                                                           *)

\* Most steps leave the settings alone, and no thread goes over to setting one.
LEMMA SettingsQuiet ==
  ASSUME ConfigInv, UNCHANGED <<config, wanted, serial>>,
         config # Nothing => data'[config] = data[config],
         \A u \in Threads : at'[u] \in Setting =>
           at[u] \in Setting /\ asked'[u] = asked[u] /\ file'[u] = file[u]
  PROVE  ConfigInv'
<1>1. ConfigSays' = ConfigSays /\ Parses' = Parses
  BY DEF ConfigSays, Parses, Whole
<1> QED BY <1>1 DEF ConfigInv, AloneSetting, SettingsSerial

LEMMA SettingsNext ==
  SeparateProcesses /\ TypeInv /\ FileInv /\ ConfigInv /\ [Next]_vars => ConfigInv'
<1> SUFFICES ASSUME SeparateProcesses, TypeInv, FileInv, ConfigInv, [Next]_vars
             PROVE  ConfigInv'
  OBVIOUS
<1> USE PidType, NothingIsNoInode DEF TypeInv, TypeOK
<1>1. ASSUME NEW t \in Threads,
             \/ LoadsKey(t) \/ CreatesTmp(t) \/ RemovesTmp(t) \/ RenamesKey(t)
             \/ OpensStore(t) \/ GivesUp(t) \/ ClearsCache(t) \/ ShutsDown(t) \/ Fails(t)
      PROVE  ConfigInv'
  <2>1. UNCHANGED <<config, wanted, serial, data>>
    BY <1>1 DEF LoadsKey, CreatesTmp, RemovesTmp, RenamesKey, OpensStore, GetsIn, GivesUp, ClearsCache,
       ShutsDown, Fails, history, files
  <2>2. /\ at'[t] \notin Setting
        /\ \A u \in Threads : u # t => at'[u] = at[u] /\ asked'[u] = asked[u] /\ file'[u] = file[u]
    BY <1>1 DEF LoadsKey, CreatesTmp, RemovesTmp, RenamesKey, OpensStore, GetsIn, GivesUp, ClearsCache,
       ShutsDown, Fails, Over, Goes, Setting, CommandTypes
  <2> QED BY <2>1, <2>2, SettingsQuiet
<1>2. ASSUME NEW t \in Threads, WritesKey(t) \/ TruncatesConfig(t) \/ FillsConfig(t)
      PROVE  ConfigInv'
  <2>1. UNCHANGED <<config, wanted, serial, asked, file>>
    BY <1>2 DEF WritesKey, TruncatesConfig, FillsConfig, history
  <2>2. \A u \in Threads : at'[u] \in Setting => at[u] \in Setting
    BY <1>2 DEF WritesKey, TruncatesConfig, FillsConfig, Goes, Setting, CommandTypes
  <2>3. config # Nothing => data'[config] = data[config]
    <3>1. CASE WritesKey(t)
      <4>1. /\ writing[t] \in Inodes /\ writing[t] = tmp[Pid[t]].key
            /\ data' = [data EXCEPT ![writing[t]] = Written(Default)]
        BY <3>1 DEF WritesKey, FileTypes, FileInv, WritersOwn
      <4> QED BY <4>1, Contents, WritingApart
    <3>2. CASE TruncatesConfig(t)
      <4> DEFINE i == IF tmp[Pid[t]].config = Nothing THEN FreshInode(t) ELSE tmp[Pid[t]].config
      <4>1. /\ i \in Inodes /\ (i = tmp[Pid[t]].config \/ Unnamed(i))
            /\ data' = [data EXCEPT ![i] = Torn]
        BY <3>2, FreshIsNew DEF TruncatesConfig, FileTypes
      <4> HIDE DEF i
      <4> QED BY <4>1, Contents, WritingApart
    <3>3. CASE FillsConfig(t)
      <4>1. /\ writing[t] \in Inodes /\ writing[t] = tmp[Pid[t]].config
            /\ data' = [data EXCEPT ![writing[t]] = Written(file[t])]
            /\ file[t] \in AllSettings
        BY <3>3 DEF FillsConfig, FileTypes, CommandTypes, FileInv, WritersOwn
      <4> QED BY <4>1, Contents, WritingApart
    <3> QED BY <1>2, <3>1, <3>2, <3>3
  <2> QED BY <2>1, <2>2, <2>3, SettingsQuiet
<1>3. ASSUME NEW t \in Threads, RenamesConfig(t) PROVE ConfigInv'
  <2>1. /\ at[t] = "replace" /\ at'[t] = "idle"
        /\ \A u \in Threads : u # t => at'[u] = at[u] /\ asked'[u] = asked[u] /\ file'[u] = file[u]
        /\ UNCHANGED <<data, serial>>
    BY <1>3 DEF RenamesConfig, Over, Goes, CommandTypes
  <2>2. /\ writing[t] \in Inodes /\ tmp[Pid[t]].config = writing[t]
        /\ Whole(writing[t]) /\ data[writing[t]].says = file[t]
    BY <2>1 DEF FileTypes, FileInv, WritersOwn
  <2>3. /\ config' = writing[t]
        /\ wanted' = [wanted EXCEPT ![asked[t].setting] = asked[t].value]
    BY <1>3, <2>2 DEF RenamesConfig
  <2>4. Parses' /\ ConfigSays' = file[t]
    BY <2>1, <2>2, <2>3 DEF Parses, ConfigSays, Whole
  <2>5. ASSUME serial
        PROVE  /\ \A u \in Threads : u # t => at[u] \notin Setting
               /\ file[t] = [ConfigSays EXCEPT ![asked[t].setting] = asked[t].value]
               /\ ConfigSays = wanted
    BY <2>1, <2>5 DEF ConfigInv, AloneSetting, SettingsSerial, Setting
  <2>6. AloneSetting'
    BY <2>1, <2>5 DEF AloneSetting, Setting
  <2>7. SettingsSerial'
    BY <2>1, <2>3, <2>4, <2>5 DEF SettingsSerial
  <2> QED BY <2>6, <2>7 DEF ConfigInv
<1>4. ASSUME NEW t \in Threads, NEW c \in Commands, Starts(t, c) PROVE ConfigInv'
  <2>1. UNCHANGED <<config, data, wanted, serial, asked, file>>
    BY <1>4 DEF Starts, files, history
  <2>2. \A u \in Threads : at'[u] \in Setting => at[u] \in Setting
    BY <1>4 DEF Starts, Goes, Setting, CommandTypes
  <2> QED BY <2>1, <2>2, SettingsQuiet
<1>5. ASSUME NEW t \in Threads, NEW s \in Settings, NEW v \in Values, StartsSet(t, s, v)
      PROVE  ConfigInv'
  <2>1. UNCHANGED <<config, data, wanted>> /\ at[t] = "idle"
    BY <1>5 DEF StartsSet, files
  <2>2. CASE ~Parses
    <3>1. UNCHANGED <<at, asked, file, serial>>
      BY <1>5, <2>2 DEF StartsSet
    <3> QED BY <2>1, <3>1, SettingsQuiet
  <2>3. CASE Parses
    <3>1. /\ at'[t] = "truncate"
          /\ asked'[t] = [setting |-> s, value |-> v]
          /\ file'[t] = [ConfigSays EXCEPT ![s] = v]
          /\ \A u \in Threads : u # t => at'[u] = at[u]
      BY <1>5, <2>3 DEF StartsSet, Goes, CommandTypes
    <3>2. serial' = (serial /\ \A u \in Threads : at[u] \notin Setting)
      BY Zenon, <1>5, <2>3 DEF StartsSet
    <3>3. serial' => serial /\ \A u \in Threads : at[u] \notin Setting
      BY Zenon, <3>2
    <3>4. ConfigSays' = ConfigSays /\ Parses' = Parses
      BY <2>1 DEF ConfigSays, Parses, Whole
    <3>5. AloneSetting'
      <4> SUFFICES ASSUME serial', NEW u \in Threads, at'[u] \in Setting
                   PROVE  /\ \A w \in Threads : w # u => at'[w] \notin Setting
                          /\ asked'[u].setting \in Settings
                          /\ file'[u] = [ConfigSays' EXCEPT ![asked'[u].setting] = asked'[u].value]
        BY DEF AloneSetting
      <4>1. u = t
        BY <3>1, <3>3
      <4>2. \A w \in Threads : w # u => at'[w] \notin Setting
        BY <3>1, <3>3, <4>1
      <4>3. asked'[u].setting = s /\ asked'[u].value = v
        BY <3>1, <4>1
      <4> QED BY <3>1, <3>4, <4>1, <4>2, <4>3
    <3>6. SettingsSerial'
      BY <2>1, <3>3, <3>4 DEF ConfigInv, SettingsSerial
    <3> QED BY <3>5, <3>6 DEF ConfigInv
  <2> QED BY <2>2, <2>3
<1>6. ASSUME NEW p \in Pids, Crashes(p) PROVE ConfigInv'
  <2>1. /\ UNCHANGED <<config, data, wanted, serial>>
        /\ \A u \in Threads : \/ at'[u] = "idle"
                              \/ at'[u] = at[u] /\ asked'[u] = asked[u] /\ file'[u] = file[u]
    BY <1>6 DEF Crashes, history
  <2> QED BY <2>1, SettingsQuiet DEF Setting
<1>7. CASE UNCHANGED vars
  BY <1>7, SettingsQuiet DEF vars
<1> QED
  BY <1>1, <1>2, <1>3, <1>4, <1>5, <1>6, <1>7 DEF Next, Steps

\* When every thread is a process of its own and no two set a value at the same
\* time, the settings are what the commands that got through said, whatever
\* crashed on the way (commands.rs:346-351, config.rs:161-187).
THEOREM SettingsKept == SeparateProcesses => (Spec => []SettingsSerial)
<1> SUFFICES ASSUME SeparateProcesses PROVE Spec => []SettingsSerial
  OBVIOUS
<1>1. Init => ConfigInv
  BY DEF Init, ConfigInv, AloneSetting, SettingsSerial, Parses, ConfigSays, Setting
<1>2. TypeInv /\ FileInv /\ [Next]_vars => FileInv'
  BY FileNext
<1>3. TypeInv /\ FileInv /\ ConfigInv /\ [Next]_vars => ConfigInv'
  BY SettingsNext
<1>4. ConfigInv => SettingsSerial
  BY DEF ConfigInv
<1> QED BY <1>1, <1>2, <1>3, <1>4, Typed, FileInit, PTL DEF Spec
=============================================================================
