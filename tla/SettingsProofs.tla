---------------------------- MODULE SettingsProofs ----------------------------
(***************************************************************************)
(* Proofs about Settings for every set of node IDs and every bound.  The   *)
(* default event IDs follow the node ID as long as one change of the node  *)
(* ID is completed before the next one or a factory reset is asked for     *)
(* (SettingsInv); settings survive a reboot without that (RebootInv).      *)
(***************************************************************************)
EXTENDS Settings, SequenceTheorems, TLAPS

Waits(q) == \E i \in DOMAIN q : q[i] = "set_id"

Single(q) == \A i, j \in DOMAIN q : q[i] = "set_id" /\ q[j] = "set_id" => i = j

\* At most one call to set the node ID waits, and only on a node that is settled.
OneSetId ==
  /\ Single(queue)
  /\ Waits(queue) => nodeId = LoadedId(storedId) /\ pendingId \in Ids

\* The node ID the events belong to: the stored one, once they are migrated to it
Home == IF renaming = None THEN LoadedId(storedId) ELSE nodeId

Belongs(c, id) == c.events \in {id, Own}

\* The events in RAM and in the configuration region are those of the home ID.
EventsAtHome ==
  /\ renaming # None => storedId = renaming
  /\ ~failed /\ ~lapsed =>
       /\ Belongs(config, Home)
       /\ storedConfig # None => Belongs(storedConfig, Home)
       /\ storedConfig = None => Home = nodeId

SettingsInv == TypeOK /\ OneSetId /\ EventsAtHome

-----------------------------------------------------------------------------
(* The queue *)

\* Taking a call leaves no second call to set the node ID behind the first.
LEMMA QueueTail ==
  ASSUME NEW q \in Seq(Calls), q # <<>>
  PROVE  /\ Tail(q) \in Seq(Calls)
         /\ Head(q) \in Calls
         /\ Waits(Tail(q)) => Waits(q)
         /\ Single(q) => Single(Tail(q))
         /\ Single(q) /\ Head(q) = "set_id" => ~Waits(Tail(q))
<1>1. Len(q) \in Nat /\ Len(q) > 0 /\ DOMAIN q = 1..Len(q)
  OBVIOUS
<1>2. Tail(q) \in Seq(Calls) /\ Len(Tail(q)) = Len(q) - 1 /\ DOMAIN Tail(q) = 1..(Len(q) - 1)
  BY <1>1
<1>3. \A i \in DOMAIN Tail(q) : i + 1 \in DOMAIN q /\ Tail(q)[i] = q[i + 1]
  BY <1>1, <1>2
<1>4. Head(q) = q[1] /\ 1 \in DOMAIN q
  BY <1>1
<1>5. Head(q) \in Calls
  BY <1>1, <1>4
<1>6. Waits(Tail(q)) => Waits(q)
  BY <1>3 DEF Waits
<1>7. Single(q) => Single(Tail(q))
  BY <1>2, <1>3, <1>1 DEF Single
<1>8. Single(q) /\ Head(q) = "set_id" => ~Waits(Tail(q))
  BY <1>1, <1>2, <1>3, <1>4 DEF Single, Waits
<1> QED
  BY <1>2, <1>5, <1>6, <1>7, <1>8

\* Posting another call changes nothing about the calls to set the node ID.
LEMMA QueueAppend ==
  ASSUME NEW q \in Seq(Calls), NEW c \in Calls
  PROVE  /\ Append(q, c) \in Seq(Calls)
         /\ c # "set_id" => (Waits(Append(q, c)) => Waits(q))
         /\ c # "set_id" /\ Single(q) => Single(Append(q, c))
         /\ ~Waits(q) => Single(Append(q, c))
<1>1. Len(q) \in Nat /\ DOMAIN q = 1..Len(q)
  OBVIOUS
<1>2. Append(q, c) \in Seq(Calls) /\ DOMAIN Append(q, c) = 1..(Len(q) + 1)
  BY <1>1
<1>3. \A i \in DOMAIN Append(q, c) :
        (i \in DOMAIN q /\ Append(q, c)[i] = q[i]) \/ (i = Len(q) + 1 /\ Append(q, c)[i] = c)
  BY <1>1, <1>2
<1>4. c # "set_id" => (Waits(Append(q, c)) => Waits(q))
  BY <1>3 DEF Waits
<1>5. c # "set_id" /\ Single(q) => Single(Append(q, c))
  BY <1>3 DEF Single
<1>6. ~Waits(q) => Single(Append(q, c))
  BY <1>3 DEF Waits, Single
<1> QED
  BY <1>2, <1>4, <1>5, <1>6

\* The empty queue
LEMMA QueueEmpty == <<>> \in Seq(Calls) /\ ~Waits(<<>>) /\ Single(<<>>)
BY DEF Waits, Single

\* A node that is settled has no call to set the node ID in its queue.
LEMMA SettledWaitsNot == Settled <=> nodeId = LoadedId(storedId) /\ ~Waits(queue)
BY DEF Settled, Waits

-----------------------------------------------------------------------------
(* Types *)

\* What every start establishes, given what is stored
LEMMA BootTyped ==
  ASSUME Boot, storedId' \in Ids \cup {None}, storedConfig' \in ConfigType \cup {None}
  PROVE  /\ nodeId' \in Ids /\ nodeId' = LoadedId(storedId')
         /\ config' \in ConfigType
         /\ config' = IF storedConfig' = None THEN Defaults(nodeId') ELSE storedConfig'
         /\ blinking' \in BOOLEAN /\ timeout' \in BOOLEAN /\ alert' = FALSE
         /\ queue' = <<>> /\ renaming' = None /\ pendingId' = None /\ rebooting' = FALSE
         /\ savePending' = FALSE /\ saveTimer' = FALSE
<1>1. nodeId' \in Ids /\ nodeId' = LoadedId(storedId')
  BY SettingsAssumption DEF Boot, LoadedId
<1>2. config' \in ConfigType /\ config' = IF storedConfig' = None THEN Defaults(nodeId') ELSE storedConfig'
  BY <1>1 DEF Boot, Loaded, Defaults, Config, ConfigType
<1> QED
  BY <1>1, <1>2 DEF Boot, ConfigType

\* A configuration made of typed parts is typed.
LEMMA ConfigTyped ==
  \A e \in Ids \cup {Own}, x, y \in BOOLEAN :
    /\ Config(e, x, y) \in ConfigType
    /\ Config(e, x, y).events = e
BY DEF Config, ConfigType

\* A save leaves the region typed, and old or new.
LEMMA SaveTyped ==
  ASSUME TypeOK, NEW c \in ConfigType, ConfigSave(c)
  PROVE  /\ storedConfig' \in ConfigType \cup {None}
         /\ failed' \in BOOLEAN
         /\ failed' \/ (storedConfig' = c /\ failed' = failed)
BY DEF TypeOK, ConfigSave

\* Saving what is pending
LEMMA FlushTyped ==
  ASSUME TypeOK, SavePending
  PROVE  /\ storedConfig' \in ConfigType \cup {None}
         /\ failed' \in BOOLEAN
         /\ failed' \/ (storedConfig' \in {storedConfig, config} /\ failed' = failed)
BY SaveTyped DEF SavePending, TypeOK

\* Taking and posting calls keeps the queue typed.
LEMMA QueueTyped ==
  ASSUME queue \in Seq(Calls)
  PROVE  /\ \A c \in Calls : Takes(c) => queue' \in Seq(Calls)
         /\ \A c \in Calls : Post(c) => queue' \in Seq(Calls)
BY QueueTail, QueueAppend DEF Takes, Post

\* The start
LEMMA InitTyped == Init => TypeOK
<1> SUFFICES ASSUME Init PROVE TypeOK
  OBVIOUS
<1>1. config \in ConfigType
  BY SettingsAssumption, ConfigTyped DEF Init, Defaults
<1> QED
  BY <1>1, SettingsAssumption, QueueEmpty DEF Init, TypeOK

\* Every step keeps the variables typed.
LEMMA StepTyped == TypeOK /\ [Next]_vars => TypeOK'
<1> SUFFICES ASSUME TypeOK, [Next]_vars PROVE TypeOK'
  OBVIOUS
<1> USE DEF stored, saving, light, history, counts
<1>q. /\ \A c \in Calls : (Takes(c) \/ Post(c)) => queue' \in Seq(Calls)
      /\ {"save", "expired", "set_id", "reboot"} \subseteq Calls
  BY QueueTyped DEF TypeOK, Calls
<1>1. CASE SaveTimer
  <2>1. queue' \in Seq(Calls)
    BY <1>1, <1>q DEF SaveTimer, TypeOK
  <2>2. saveTimer' \in BOOLEAN /\ savePending' = savePending /\ (saveTimer' => saveTimer)
    BY <1>1 DEF SaveTimer, SaveLater
  <2>3. UNCHANGED <<stored, nodeId, config, pendingId, renaming, rebooting, light, history>>
    BY <1>1 DEF SaveTimer
  <2> QED
    BY ONLY TypeOK, <2>1, <2>2, <2>3 DEF stored, light, history, TypeOK
<1>2. CASE SaveInTask
  <2>1. queue' \in Seq(Calls)
    BY <1>2, <1>q DEF SaveInTask
  <2>2. storedConfig' \in ConfigType \cup {None} /\ failed' \in BOOLEAN
    BY <1>2, FlushTyped DEF SaveInTask, AppConfigFlush
  <2> QED
    BY <1>2, <2>1, <2>2 DEF SaveInTask, AppConfigFlush, TypeOK
<1>3. CASE UpdateComplete
  <2>1. storedConfig' \in ConfigType \cup {None} /\ failed' \in BOOLEAN
    BY <1>3, FlushTyped DEF UpdateComplete, AppConfigFlush
  <2> QED
    BY <1>3, <2>1 DEF UpdateComplete, AppConfigFlush, TypeOK
<1>4. CASE TimeoutTimer
  <2>1. queue' \in Seq(Calls)
    BY <1>4, <1>q DEF TimeoutTimer, TypeOK
  <2>2. timeout' = FALSE /\ dropped' \in BOOLEAN
    BY <1>4 DEF TimeoutTimer, TypeOK
  <2>3. UNCHANGED <<stored, nodeId, config, saving, pendingId, renaming, rebooting,
                   blinking, alert, failed, lapsed>>
    BY <1>4 DEF TimeoutTimer
  <2> QED
    BY ONLY TypeOK, <2>1, <2>2, <2>3 DEF stored, saving, TypeOK
<1>5. CASE Expired
  <2>1. config' \in ConfigType
    BY <1>5, ConfigTyped DEF Expired, TypeOK, ConfigType
  <2>2. queue' \in Seq(Calls)
    BY <1>5, <1>q DEF Expired
  <2>3. storedConfig' \in ConfigType \cup {None} /\ failed' \in BOOLEAN
    BY <1>5, <2>1, SaveTyped DEF Expired
  <2> QED
    BY <1>5, <2>1, <2>2, <2>3 DEF Expired, Stop, TypeOK
<1>6. CASE IdentifyRequested
  BY <1>6 DEF IdentifyRequested, RestartTimeout, TypeOK, ConfigType
<1>7. CASE IdentifyAlert
  BY <1>7 DEF IdentifyAlert, TypeOK
<1>8. ASSUME NEW e \in BOOLEAN, NEW l \in BOOLEAN, WriteLight(e, l) PROVE TypeOK'
  <2>1. config' \in ConfigType
    BY <1>8, ConfigTyped DEF WriteLight, AppConfigWritten, TypeOK, ConfigType
  <2>2. config'.enabled \in BOOLEAN /\ config'.limited \in BOOLEAN
    BY <2>1 DEF ConfigType
  <2> QED
    BY <1>8, <2>1, <2>2 DEF WriteLight, AppConfigWritten, IdentifyApply, RestartTimeout, Stop, TypeOK
<1>9. CASE WriteEvent
  <2>1. config' \in ConfigType
    BY <1>9, ConfigTyped DEF WriteEvent, AppConfigWritten, TypeOK, ConfigType
  <2> QED
    BY <1>9, <2>1 DEF WriteEvent, AppConfigWritten, TypeOK
<1>10. CASE AppFactoryReset
  <2>1. config' \in ConfigType
    BY <1>10, ConfigTyped DEF AppFactoryReset, Defaults, TypeOK
  <2> QED
    BY <1>10, <2>1, SaveTyped DEF AppFactoryReset, Save, TypeOK
<1>11. ASSUME NEW id \in Ids, HandleLine(id) PROVE TypeOK'
  BY <1>11, <1>q DEF HandleLine, TypeOK
<1>12. CASE NodeIdStore
  BY <1>12, <1>q DEF NodeIdStore, TypeOK
<1>13. CASE MigrateEvents
  <2> DEFINE new == Migrate(config, renaming)
  <2>1. renaming \in Ids /\ new \in ConfigType
    BY <1>13, ConfigTyped DEF MigrateEvents, Migrate, TypeOK, ConfigType
  <2>2. CASE Save(new) /\ config' = new /\ Post("reboot") /\ renaming' = None
             /\ UNCHANGED <<nodeId, pendingId, rebooting, light>>
    <3> HIDE DEF new
    <3> QED
      BY <1>13, <2>1, <2>2, <1>q, SaveTyped DEF MigrateEvents, Save, TypeOK
  <2>3. CASE storedConfig' = new /\ UNCHANGED failed /\ Boot
    <3> HIDE DEF new
    <3> QED
      BY <1>13, <2>1, <2>3, BootTyped, QueueEmpty DEF MigrateEvents, TypeOK
  <2> QED
    BY <1>13, <2>2, <2>3 DEF MigrateEvents
<1>14. CASE RebootInTask
  BY <1>14, <1>q DEF RebootInTask, ScheduleReboot, TypeOK
<1>15. CASE RebootCommand
  BY <1>15 DEF RebootCommand, ScheduleReboot, TypeOK
<1>16. CASE Reboot
  BY <1>16, FlushTyped, BootTyped, QueueEmpty DEF Reboot, TypeOK
<1>17. CASE PowerLoss
  BY <1>17, BootTyped, QueueEmpty DEF PowerLoss, TypeOK
<1>18. CASE UNCHANGED vars
  BY <1>18 DEF vars, TypeOK
<1> QED
  BY <1>1, <1>2, <1>3, <1>4, <1>5, <1>6, <1>7, <1>8, <1>9, <1>10, <1>11, <1>12, <1>13,
     <1>14, <1>15, <1>16, <1>17, <1>18 DEF Next

\* The variables of the settings have their types, and the save timer runs only for
\* what is pending, whatever is written, dropped or cut off.
THEOREM SettingsTyped == Spec => []TypeOK
BY InitTyped, StepTyped, PTL DEF Spec

-----------------------------------------------------------------------------
(* The invariant *)

\* A step that leaves the node ID alone, takes or posts no call to set it, or none at
\* all, keeps at most one of them waiting.
LEMMA QueueKept ==
  ASSUME SettingsInv,
         UNCHANGED <<nodeId, storedId, pendingId>>,
         \/ UNCHANGED queue
         \/ \E c \in Calls : Takes(c)
         \/ \E c \in Calls \ {"set_id"} : Post(c)
  PROVE  OneSetId'
<1>1. queue' = queue \/ (queue # <<>> /\ queue' = Tail(queue))
        \/ \E c \in Calls \ {"set_id"} : queue' = Append(queue, c)
  BY DEF Takes, Post
<1>2. queue \in Seq(Calls) /\ Single(queue)
  BY DEF SettingsInv, TypeOK, OneSetId
<1>3. CASE queue' = queue
  BY <1>2, <1>3 DEF SettingsInv, OneSetId, LoadedId
<1>4. CASE queue # <<>> /\ queue' = Tail(queue)
  <2>1. Single(queue') /\ (Waits(queue') => Waits(queue))
    BY <1>2, <1>4, QueueTail
  <2> QED
    BY <2>1 DEF SettingsInv, OneSetId, LoadedId
<1>5. ASSUME NEW c \in Calls \ {"set_id"}, queue' = Append(queue, c) PROVE OneSetId'
  <2>1. Single(queue') /\ (Waits(queue') => Waits(queue))
    BY <1>2, <1>5, QueueAppend
  <2> QED
    BY <2>1 DEF SettingsInv, OneSetId, LoadedId
<1> QED
  BY <1>1, <1>3, <1>4, <1>5

\* A step that leaves the node ID alone keeps the events at home if it writes none
\* that are not, and saves nothing but the configuration.
LEMMA EventsKept ==
  ASSUME SettingsInv,
         UNCHANGED <<nodeId, storedId, renaming, lapsed>>,
         config'.events \in {config.events, Own},
         \/ failed'
         \/ failed' = failed /\ storedConfig' \in {storedConfig, config, config'},
         config' \in ConfigType
  PROVE  EventsAtHome'
<1>1. config # None /\ config' # None
  BY SettingsAssumption DEF SettingsInv, TypeOK
<1> QED
  BY <1>1 DEF SettingsInv, EventsAtHome, Belongs, Home, LoadedId

\* A node that starts has the events of the ID it starts with.
LEMMA BootHome ==
  ASSUME Boot,
         storedId' \in Ids \cup {None}, storedConfig' \in ConfigType \cup {None},
         ~failed' /\ ~lapsed' /\ storedConfig' # None => Belongs(storedConfig', LoadedId(storedId'))
  PROVE  OneSetId' /\ EventsAtHome'
<1>1. OneSetId'
  BY BootTyped, QueueEmpty DEF OneSetId
<1>2. Home' = nodeId' /\ renaming' = None
  BY BootTyped DEF Home
<1>3. storedConfig' = None => Belongs(config', nodeId')
  <2>1. storedConfig' = None => config' = Defaults(nodeId') /\ nodeId' \in Ids
    BY BootTyped
  <2>2. nodeId' \in Ids => Defaults(nodeId').events = nodeId'
    BY ConfigTyped DEF Defaults
  <2> QED
    BY <2>1, <2>2 DEF Belongs
<1>4. storedConfig' # None => config' = storedConfig'
  BY BootTyped
<1> QED
  BY <1>1, <1>2, <1>3, <1>4, BootTyped DEF EventsAtHome

\* The start
LEMMA SettingsInvInit == Init => SettingsInv
<1> SUFFICES ASSUME Init PROVE SettingsInv
  OBVIOUS
<1>1. config \in ConfigType /\ config.events = StandIn
  BY SettingsAssumption, ConfigTyped DEF Init, Defaults
<1>2. TypeOK
  BY InitTyped
<1>3. OneSetId
  BY QueueEmpty DEF Init, OneSetId
<1>4. EventsAtHome
  BY <1>1 DEF Init, EventsAtHome, Belongs, Home, LoadedId
<1> QED
  BY <1>2, <1>3, <1>4 DEF SettingsInv

\* The rest of a change of the node ID: what was at the default of the running ID is
\* at that of the stored one, in RAM and in the region.
LEMMA MigrateStep ==
  ASSUME SettingsInv, MigrateEvents
  PROVE  OneSetId' /\ EventsAtHome'
<1> DEFINE new == Migrate(config, renaming)
<1> USE DEF light
<1>1. /\ renaming \in Ids /\ storedId = renaming /\ LoadedId(storedId) = renaming
      /\ new \in ConfigType /\ new # None
  BY ConfigTyped, SettingsAssumption
     DEF SettingsInv, EventsAtHome, MigrateEvents, Migrate, TypeOK, ConfigType, LoadedId
<1>2. ~failed /\ ~lapsed => Belongs(new, renaming)
  BY <1>1 DEF SettingsInv, EventsAtHome, MigrateEvents, Home, Belongs, Migrate, Config
<1>3. UNCHANGED <<storedId, lapsed>>
  BY DEF MigrateEvents
<1> HIDE DEF new
<1>4. CASE /\ Save(new) /\ config' = new /\ Post("reboot") /\ renaming' = None
           /\ UNCHANGED <<nodeId, pendingId, rebooting, light>>
  <2>1. failed' \/ (storedConfig' = new /\ failed' = failed)
    BY <1>1, <1>4, SaveTyped DEF Save, SettingsInv
  <2>2. OneSetId'
    BY <1>3, <1>4, QueueKept DEF Calls
  <2>3. Home' = renaming
    BY <1>1, <1>3, <1>4 DEF Home, LoadedId
  <2> QED
    BY <1>1, <1>2, <1>3, <1>4, <2>1, <2>2, <2>3 DEF EventsAtHome
<1>5. CASE storedConfig' = new /\ UNCHANGED failed /\ Boot
  <2>1. LoadedId(storedId') = renaming
    BY <1>1, <1>3 DEF LoadedId
  <2> QED
    BY <1>1, <1>2, <1>3, <1>5, <2>1, BootHome
<1> QED
  BY <1>4, <1>5 DEF MigrateEvents, new

\* Every step
LEMMA SettingsInvNext == Patient /\ SettingsInv /\ [Next]_vars => SettingsInv'
<1> SUFFICES ASSUME Patient, SettingsInv, [Next]_vars PROVE OneSetId' /\ EventsAtHome'
  BY StepTyped DEF SettingsInv
<1> USE DEF stored, saving, light, history, counts
<1>t. TypeOK /\ TypeOK' /\ config' \in ConfigType
  BY StepTyped DEF SettingsInv, TypeOK
<1>c. {"save", "expired", "reboot"} \subseteq Calls \ {"set_id"} /\ "set_id" \in Calls
  BY DEF Calls
<1>1. CASE SaveTimer
  BY <1>1, <1>t, <1>c, QueueKept, EventsKept DEF SaveTimer
<1>2. CASE SaveInTask
  BY <1>2, <1>t, <1>c, QueueKept, EventsKept, FlushTyped DEF SaveInTask, AppConfigFlush
<1>3. CASE UpdateComplete
  BY <1>3, <1>t, QueueKept, EventsKept, FlushTyped DEF UpdateComplete, AppConfigFlush
<1>4. CASE TimeoutTimer
  BY <1>4, <1>t, <1>c, QueueKept, EventsKept DEF TimeoutTimer
<1>5. CASE Expired
  <2>1. config'.events = config.events
    BY <1>5 DEF Expired, Config
  <2>2. failed' \/ (storedConfig' = config' /\ failed' = failed)
    BY <1>5, <1>t, SaveTyped DEF Expired
  <2> QED
    BY <1>5, <1>t, <1>c, <2>1, <2>2, QueueKept, EventsKept DEF Expired
<1>6. CASE IdentifyRequested
  BY <1>6, <1>t, QueueKept, EventsKept DEF IdentifyRequested
<1>7. CASE IdentifyAlert
  BY <1>7, <1>t, QueueKept, EventsKept DEF IdentifyAlert
<1>8. ASSUME NEW e \in BOOLEAN, NEW l \in BOOLEAN, WriteLight(e, l)
      PROVE  OneSetId' /\ EventsAtHome'
  <2>1. config'.events = config.events
    BY <1>8 DEF WriteLight, AppConfigWritten, Config
  <2> QED
    BY <1>8, <1>t, <2>1, QueueKept, EventsKept DEF WriteLight, AppConfigWritten
<1>9. CASE WriteEvent
  <2>1. config'.events = Own
    BY <1>9 DEF WriteEvent, AppConfigWritten, Config
  <2> QED
    BY <1>9, <1>t, <2>1, QueueKept, EventsKept DEF WriteEvent, AppConfigWritten
<1>10. CASE AppFactoryReset
  <2>1. /\ nodeId = LoadedId(storedId) /\ renaming = None
        /\ UNCHANGED <<storedId, nodeId, pendingId, renaming, queue, lapsed>>
    BY <1>10 DEF AppFactoryReset, Settled, Listening, Idle
  <2>2. config'.events = nodeId
    BY <1>10 DEF AppFactoryReset, Defaults, Config
  <2>3. failed' \/ (storedConfig' = config' /\ failed' = failed)
    BY <1>10, <1>t, SaveTyped DEF AppFactoryReset, Save
  <2>4. config' # None
    BY <1>t, SettingsAssumption
  <2> QED
    BY <2>1, <2>2, <2>3, <2>4, QueueKept DEF EventsAtHome, Home, Belongs, LoadedId
<1>11. ASSUME NEW id \in Ids, HandleLine(id) PROVE OneSetId' /\ EventsAtHome'
  <2>1. nodeId = LoadedId(storedId) /\ ~Waits(queue)
    BY <1>11, SettledWaitsNot DEF HandleLine
  <2>2. Single(queue')
    <3>1. queue \in Seq(Calls) /\ Single(queue)
      BY DEF SettingsInv, TypeOK, OneSetId
    <3>2. queue' = queue \/ queue' = Append(queue, "set_id")
      BY <1>11 DEF HandleLine, Post
    <3>3. "set_id" \in Calls /\ ~Waits(queue)
      BY <1>c, <2>1
    <3>4. Single(Append(queue, "set_id"))
      BY <3>1, <3>3, QueueAppend
    <3>5. CASE queue' = queue
      BY <3>1, <3>5 DEF Single
    <3>6. CASE queue' = Append(queue, "set_id")
      BY <3>4, <3>6 DEF Single
    <3> QED
      BY ONLY <3>2, <3>5, <3>6
  <2>3. OneSetId'
    BY <1>11, <2>1, <2>2 DEF HandleLine, OneSetId, LoadedId
  <2> QED
    BY <1>11, <1>t, <2>3, EventsKept DEF HandleLine
<1>12. CASE NodeIdStore
  <2>1. /\ queue # <<>> /\ Head(queue) = "set_id" /\ queue' = Tail(queue)
        /\ renaming = None
        /\ UNCHANGED <<storedConfig, nodeId, config, pendingId, failed, lapsed>>
    BY <1>12 DEF NodeIdStore, Takes, Idle
  <2>2. ~Waits(queue') /\ Single(queue')
    BY <2>1, <1>t, QueueTail DEF SettingsInv, OneSetId, TypeOK
  <2>3. Waits(queue)
    BY <2>1, <1>t DEF Waits, TypeOK
  <2>4. nodeId = LoadedId(storedId) /\ Home = nodeId /\ pendingId \in Ids
    BY <2>1, <2>3 DEF SettingsInv, OneSetId, Home
  <2>5. CASE storedId' = pendingId /\ renaming' = pendingId
    <3>1. Home' = nodeId
      BY <2>1, <2>4, <2>5, SettingsAssumption DEF Home
    <3> QED
      BY <2>1, <2>2, <2>4, <2>5, <3>1 DEF SettingsInv, OneSetId, EventsAtHome, Belongs
  <2>6. CASE UNCHANGED <<storedId, renaming>>
    BY <2>1, <2>2, <2>6, <1>t, EventsKept DEF OneSetId
  <2> QED
    BY <1>12, <2>5, <2>6 DEF NodeIdStore
<1>13. CASE MigrateEvents
  BY <1>13, MigrateStep
<1>14. CASE RebootInTask
  BY <1>14, <1>t, <1>c, QueueKept, EventsKept DEF RebootInTask, ScheduleReboot
<1>15. CASE RebootCommand
  BY <1>15, <1>t, QueueKept, EventsKept DEF RebootCommand, ScheduleReboot
<1>16. CASE Reboot
  <2>1. failed' \/ (storedConfig' \in {storedConfig, config} /\ failed' = failed)
    BY <1>16, <1>t, FlushTyped DEF Reboot
  <2>2. Home = LoadedId(storedId) /\ UNCHANGED <<storedId, lapsed>>
    BY <1>16 DEF Reboot, Idle, Home
  <2>3. ~failed' /\ ~lapsed' /\ storedConfig' # None => Belongs(storedConfig', LoadedId(storedId'))
    BY <2>1, <2>2 DEF SettingsInv, EventsAtHome, LoadedId
  <2> QED
    BY <1>16, <1>t, <2>3, BootHome DEF Reboot, TypeOK
<1>17. CASE PowerLoss
  <2>1. lapsed' = (lapsed \/ renaming # None) /\ UNCHANGED <<storedId, storedConfig, failed>>
    BY <1>17 DEF PowerLoss
  <2>2. ~failed' /\ ~lapsed' /\ storedConfig' # None => Belongs(storedConfig', LoadedId(storedId'))
    BY <2>1, <1>t DEF SettingsInv, EventsAtHome, Home, LoadedId, TypeOK
  <2> QED
    BY <1>17, <1>t, <2>2, BootHome DEF PowerLoss, TypeOK
<1>18. CASE UNCHANGED vars
  BY <1>18, <1>t, QueueKept, EventsKept DEF vars
<1> QED
  BY <1>1, <1>2, <1>3, <1>4, <1>5, <1>6, <1>7, <1>8, <1>9, <1>10, <1>11, <1>12, <1>13,
     <1>14, <1>15, <1>16, <1>17, <1>18 DEF Next

\* When each change of the node ID is completed before the next, a board never runs
\* with the default event IDs of another ID than its own.
THEOREM EventsFollowNodeId == ASSUME Patient PROVE Spec => []EventsFollow
<1>1. SettingsInv => EventsFollow
  BY DEF SettingsInv, EventsAtHome, EventsFollow, Belongs, Home
<1>2. SettingsInv /\ [Next]_vars => SettingsInv'
  BY SettingsInvNext
<1> QED
  BY <1>1, <1>2, SettingsInvInit, PTL DEF Spec

-----------------------------------------------------------------------------
(* Settings survive a reboot, however often the node ID is changed *)

\* With nothing pending, the node runs with what it would start with.
InStep == ~failed /\ ~savePending => config = Loaded(storedConfig, nodeId)

\* As long as nothing was saved, and no change of the node ID is half done, the node
\* runs under the stored ID.
NothingSaved == ~failed /\ renaming = None /\ storedConfig = None => nodeId = LoadedId(storedId)

\* A call to set the node ID comes with the ID to set.
IdKnown == Waits(queue) => pendingId \in Ids

\* The inductive invariant: it needs no patience.
RebootInv == TypeOK /\ InStep /\ NothingSaved /\ IdKnown

\* A save leaves the region with what was saved, or a failure.
LEMMA SaveInStep ==
  ASSUME NEW c \in ConfigType, ConfigSave(c)
  PROVE  ~failed' => storedConfig' = c /\ c = Loaded(storedConfig', nodeId') /\ storedConfig' # None
BY SettingsAssumption DEF ConfigSave, Loaded

\* Saving what is pending leaves nothing to lose.
LEMMA FlushInStep ==
  ASSUME RebootInv, SavePending, UNCHANGED nodeId
  PROVE  /\ ~failed' => config = Loaded(storedConfig', nodeId')
         /\ ~failed' => ~failed /\ (storedConfig' = None => storedConfig = None)
<1>1. CASE savePending
  <2>1. config \in ConfigType /\ ConfigSave(config)
    BY <1>1 DEF RebootInv, TypeOK, SavePending
  <2>2. ~failed' => config = Loaded(storedConfig', nodeId') /\ storedConfig' # None
    BY <2>1, SaveInStep
  <2>3. ~failed' => ~failed
    BY <2>1 DEF ConfigSave
  <2> QED
    BY <2>2, <2>3
<1>2. CASE ~savePending
  BY <1>2 DEF RebootInv, SavePending, InStep
<1> QED
  BY <1>1, <1>2

\* A step of the queue that posts no call to set the node ID
LEMMA IdStillKnown ==
  ASSUME RebootInv, UNCHANGED pendingId,
         \/ UNCHANGED queue
         \/ \E c \in Calls : Takes(c)
         \/ \E c \in Calls \ {"set_id"} : Post(c)
  PROVE  IdKnown'
<1>1. queue' = queue \/ (queue # <<>> /\ queue' = Tail(queue))
        \/ \E c \in Calls \ {"set_id"} : queue' = Append(queue, c)
  BY DEF Takes, Post
<1>2. queue \in Seq(Calls)
  BY DEF RebootInv, TypeOK
<1>3. Waits(queue') => Waits(queue)
  BY <1>1, <1>2, QueueTail, QueueAppend
<1> QED
  BY <1>3 DEF RebootInv, IdKnown

\* The start, and every start
LEMMA RebootInvInit == Init => RebootInv
<1> SUFFICES ASSUME Init PROVE RebootInv
  OBVIOUS
<1> QED
  BY InitTyped, QueueEmpty DEF Init, RebootInv, InStep, NothingSaved, IdKnown, Loaded, LoadedId

LEMMA BootInStep ==
  ASSUME Boot, storedId' \in Ids \cup {None}, storedConfig' \in ConfigType \cup {None}
  PROVE  InStep' /\ NothingSaved' /\ IdKnown'
<1>1. InStep' /\ NothingSaved'
  BY BootTyped DEF Boot, InStep, NothingSaved
<1>2. IdKnown'
  BY BootTyped, QueueEmpty DEF IdKnown
<1> QED
  BY <1>1, <1>2

\* Every step keeps the invariant.
LEMMA RebootInvNext == RebootInv /\ [Next]_vars => RebootInv'
<1> SUFFICES ASSUME RebootInv, [Next]_vars PROVE InStep' /\ NothingSaved' /\ IdKnown'
  BY StepTyped DEF RebootInv
<1> USE DEF stored, saving, light, history, counts
<1>t. TypeOK /\ TypeOK' /\ config \in ConfigType /\ config' \in ConfigType
  BY StepTyped DEF RebootInv, TypeOK
<1>c. {"save", "expired", "reboot"} \subseteq Calls \ {"set_id"} /\ "set_id" \in Calls
  BY DEF Calls
<1>k. ASSUME UNCHANGED <<stored, nodeId, config, savePending, renaming, failed>>
      PROVE  InStep' /\ NothingSaved'
  BY <1>k DEF RebootInv, InStep, NothingSaved
<1>1. CASE SaveTimer
  BY <1>1, <1>k, <1>c, IdStillKnown DEF SaveTimer
<1>2. CASE SaveInTask
  <2>1. IdKnown'
    BY <1>2, <1>c, IdStillKnown DEF SaveInTask
  <2> QED
    BY <1>2, <2>1, FlushInStep DEF SaveInTask, AppConfigFlush, RebootInv, InStep, NothingSaved
<1>3. CASE UpdateComplete
  <2>1. IdKnown'
    BY <1>3, IdStillKnown DEF UpdateComplete
  <2> QED
    BY <1>3, <2>1, FlushInStep DEF UpdateComplete, AppConfigFlush, RebootInv, InStep, NothingSaved
<1>4. CASE TimeoutTimer
  BY <1>4, <1>k, <1>c, IdStillKnown DEF TimeoutTimer
<1>5. CASE Expired
  <2>1. IdKnown'
    BY <1>5, <1>c, IdStillKnown DEF Expired
  <2>2. ~failed' => config' = Loaded(storedConfig', nodeId') /\ storedConfig' # None
    BY <1>5, <1>t, SaveInStep DEF Expired
  <2> QED
    BY <2>1, <2>2 DEF InStep, NothingSaved
<1>6. CASE IdentifyRequested
  BY <1>6, <1>k, IdStillKnown DEF IdentifyRequested
<1>7. CASE IdentifyAlert
  BY <1>7, <1>k, IdStillKnown DEF IdentifyAlert
<1>8. ASSUME NEW c, AppConfigWritten(c)
      PROVE  InStep' /\ NothingSaved' /\ IdKnown'
  <2>1. IdKnown'
    BY <1>8, IdStillKnown DEF AppConfigWritten
  <2> QED
    BY <1>8, <2>1 DEF AppConfigWritten, RebootInv, InStep, NothingSaved
<1>9. CASE AppFactoryReset
  <2>1. IdKnown'
    BY <1>9, IdStillKnown DEF AppFactoryReset
  <2>2. ~failed' => config' = Loaded(storedConfig', nodeId') /\ storedConfig' # None
    BY <1>9, <1>t, SaveInStep DEF AppFactoryReset, Save
  <2> QED
    BY <2>1, <2>2 DEF InStep, NothingSaved
<1>10. ASSUME NEW id \in Ids, HandleLine(id)
       PROVE  InStep' /\ NothingSaved' /\ IdKnown'
  BY <1>10, <1>k DEF HandleLine, IdKnown
<1>11. CASE NodeIdStore
  <2>1. IdKnown'
    BY <1>11, <1>c, IdStillKnown DEF NodeIdStore
  <2>2. Waits(queue)
    BY <1>11, <1>t DEF NodeIdStore, Takes, TypeOK, Waits
  <2>3. pendingId # None
    BY <2>2, SettingsAssumption DEF RebootInv, IdKnown
  <2> QED
    BY <1>11, <2>1, <2>3 DEF NodeIdStore, RebootInv, InStep, NothingSaved
<1>12. CASE MigrateEvents
  <2> DEFINE new == Migrate(config, renaming)
  <2>1. renaming \in Ids /\ new \in ConfigType
    BY <1>12, <1>t, ConfigTyped DEF MigrateEvents, Migrate, TypeOK, ConfigType
  <2>2. CASE Save(new) /\ config' = new /\ Post("reboot") /\ UNCHANGED pendingId
    <3> HIDE DEF new
    <3>1. IdKnown'
      BY <2>2, <1>c, IdStillKnown
    <3>2. ~failed' => config' = Loaded(storedConfig', nodeId') /\ storedConfig' # None
      BY <2>1, <2>2, SaveInStep DEF Save
    <3> QED
      BY <3>1, <3>2 DEF InStep, NothingSaved
  <2>3. CASE Boot
    BY <2>3, <1>t, BootInStep DEF TypeOK
  <2> QED
    BY <1>12, <2>2, <2>3 DEF MigrateEvents
<1>13. CASE RebootInTask
  BY <1>13, <1>k, <1>c, IdStillKnown DEF RebootInTask, ScheduleReboot
<1>14. CASE RebootCommand
  BY <1>14, <1>k, IdStillKnown DEF RebootCommand, ScheduleReboot
<1>15. CASE Reboot \/ PowerLoss
  BY <1>15, <1>t, BootInStep DEF Reboot, PowerLoss, TypeOK
<1>16. CASE UNCHANGED vars
  BY <1>16, <1>k, IdStillKnown DEF vars
<1> QED
  BY <1>1, <1>2, <1>3, <1>4, <1>5, <1>6, <1>7, <1>8, <1>9, <1>10, <1>11, <1>12, <1>13,
     <1>14, <1>15, <1>16 DEF Next, WriteLight, WriteEvent

\* A reboot that is ordered, by the user, by a tool or by a change of the node ID,
\* loses no setting that was written up to then, unless a save failed: whatever is
\* still pending is saved first, and what was never saved starts the same.
THEOREM RebootKeepsSettings == Spec => SettingsSurvive
<1>1. RebootInv /\ [Next]_vars => [Reboot => config' = config \/ failed']_vars
  <2> SUFFICES ASSUME RebootInv, Reboot PROVE config' = config \/ failed'
    OBVIOUS
  <2> USE DEF stored, saving, light, history, counts
  <2>1. CASE savePending
    <3>1. config \in ConfigType /\ ConfigSave(config)
      BY <2>1 DEF RebootInv, TypeOK, Reboot, SavePending
    <3>2. ~failed' => storedConfig' = config /\ config # None
      BY <3>1, SettingsAssumption DEF ConfigSave
    <3> QED
      BY <3>2 DEF Reboot, Boot, Loaded
  <2>2. CASE ~savePending
    <3>1. UNCHANGED <<storedConfig, failed, storedId>> /\ renaming = None
      BY <2>2 DEF Reboot, SavePending, Idle
    <3>2. ~failed => config = Loaded(storedConfig, nodeId)
      BY <2>2 DEF RebootInv, InStep
    <3>3. ~failed /\ storedConfig = None => nodeId = LoadedId(storedId)
      BY <3>1 DEF RebootInv, NothingSaved
    <3>4. nodeId' = LoadedId(storedId) /\ config' = Loaded(storedConfig, nodeId')
      BY <3>1 DEF Reboot, Boot
    <3> QED
      BY <3>1, <3>2, <3>3, <3>4 DEF Loaded
  <2> QED
    BY <2>1, <2>2
<1> QED
  BY <1>1, RebootInvInit, RebootInvNext, PTL DEF Spec, SettingsSurvive

=============================================================================
