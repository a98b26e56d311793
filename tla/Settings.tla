------------------------------- MODULE Settings -------------------------------
(***************************************************************************)
(* The configuration and the node ID: src/app/app.c, src/app/config.c,     *)
(* src/node_id.c and the nodeid command of src/usb_gridconnect.c, with the *)
(* identify light of src/app/identify.c, which clears its own setting.     *)
(*                                                                         *)
(* The configuration and the node ID are two regions of nv_storage.c, each *)
(* replaced atomically (NvStorage): a save succeeds, fails and leaves the  *)
(* region as it was, or is cut off by a loss of power before or after.     *)
(* Timers and the console reach the LCC task by calls in its queue, which  *)
(* may be full; messages from the bus are handled in between.              *)
(*                                                                         *)
(* Of the configuration the model keeps an event ID, with the node ID its  *)
(* default is made of, and the settings of the light.                      *)
(***************************************************************************)
EXTENDS Naturals, Sequences

CONSTANTS
  Ids,          \* node IDs
  StandIn,      \* the one made from the chip's ID
  Own,          \* an event ID the user chose
  None,         \* nothing
  Patient,      \* TRUE: after a new node ID, the next one and a factory reset wait for the reboot
  MaxWrites,    \* bound: configuration writes, factory resets, Reboot commands
  MaxRenames,   \* bound: nodeid commands
  MaxFaults     \* bound: full queues, failed saves, losses of power

\* What the model keeps of config_layout_t
ConfigType == [events : Ids \cup {Own}, enabled : BOOLEAN, limited : BOOLEAN]

\* The calls of the LCC task's queue
Calls == {"save", "expired", "set_id", "reboot"}

ASSUME SettingsAssumption ==
  /\ StandIn \in Ids
  /\ Own \notin Ids /\ None \notin Ids \cup ConfigType /\ Own # None
  /\ Patient \in BOOLEAN
  /\ MaxWrites \in Nat /\ MaxRenames \in Nat /\ MaxFaults \in Nat

VARIABLES
  storedId,     \* the identity region
  storedConfig, \* the configuration region
  nodeId,       \* lcc_node_id(): the ID since the last start
  config,
  savePending, saveTimer,
  queue,        \* calls in the queue of the LCC task
  pendingId,    \* pending_node_id of the console
  renaming,     \* the ID the LCC task has stored, before it migrates the events to it
  rebooting,    \* the alias is released; a reboot follows
  blinking,     \* the light's timers
  timeout,
  alert,
  failed,       \* history: a save of the configuration failed
  lapsed,       \* history: the power was lost in the middle of a change of the node ID
  dropped,      \* history: the end of the light's timeout was dropped
  writes, renames, faults   \* what has happened so far

stored == <<storedId, storedConfig>>
saving == <<savePending, saveTimer>>
light == <<blinking, timeout, alert>>
history == <<failed, lapsed, dropped>>
counts == <<writes, renames, faults>>
vars == <<stored, nodeId, config, saving, queue, pendingId, renaming, rebooting, light,
          history, counts>>

\* config_layout_t
Config(events, enabled, limited) == [events |-> events, enabled |-> enabled, limited |-> limited]

\* defaults
Defaults(id) == Config(id, FALSE, TRUE)

\* config_load, and node_id_load
Loaded(saved, id) == IF saved = None THEN Defaults(id) ELSE saved
LoadedId(saved) == IF saved = None THEN StandIn ELSE saved

Fault == faults < MaxFaults /\ faults' = faults + 1
NoFault == UNCHANGED faults

\* lcc_task_call, which the queue may be too full for
Post(call) == queue' = Append(queue, call)

\* The LCC task takes a call from its queue
Idle == renaming = None
Takes(call) == Idle /\ queue # <<>> /\ Head(queue) = call /\ queue' = Tail(queue)

\* A node that has released its alias handles no messages
Listening == Idle /\ ~rebooting

-----------------------------------------------------------------------------
(* Saving *)

\* config_save; nobody looks at its result
ConfigSave(c) ==
  \/ storedConfig' = c /\ UNCHANGED failed /\ NoFault
  \/ UNCHANGED storedConfig /\ failed' = TRUE /\ Fault

\* save
Save(c) == savePending' = FALSE /\ saveTimer' = FALSE /\ ConfigSave(c)

\* A bug to catch: when the timer has run out there is nothing left to save
SaveTimed == IF saveTimer THEN ConfigSave(config) ELSE UNCHANGED <<storedConfig, failed, faults>>

\* What is pending is saved
SavePending ==
  IF savePending THEN ConfigSave(config) ELSE UNCHANGED <<storedConfig, failed, faults>>

\* app_config_flush
AppConfigFlush ==
  /\ SavePending
  /\ savePending' = FALSE
  /\ saveTimer' = (saveTimer /\ ~savePending)

\* A bug to catch: a call that does not fit the queue is given up
SaveDropped == saveTimer' = FALSE

\* The timer starts again when its call does not fit the queue
SaveLater == saveTimer' = TRUE

\* save_timer_cb
SaveTimer ==
  /\ saveTimer
  /\ \/ saveTimer' = FALSE /\ Post("save") /\ NoFault
     \/ SaveLater /\ UNCHANGED queue /\ Fault
  /\ UNCHANGED <<stored, nodeId, config, savePending, pendingId, renaming, rebooting, light,
                 history, writes, renames>>

\* save_in_task
SaveInTask ==
  /\ Takes("save")
  /\ AppConfigFlush
  /\ UNCHANGED <<storedId, nodeId, config, pendingId, renaming, rebooting, light,
                 lapsed, dropped, writes, renames>>

\* The hook for Update Complete
UpdateComplete ==
  /\ Listening
  /\ AppConfigFlush
  /\ UNCHANGED <<storedId, nodeId, config, queue, pendingId, renaming, rebooting, light,
                 lapsed, dropped, writes, renames>>

-----------------------------------------------------------------------------
(* The identify light *)

\* stop
Stop == timeout' = FALSE /\ blinking' = alert /\ UNCHANGED alert

\* A bug to catch: the timeout of a light that is blinking already is left alone
ApplyAtStart(c) == timeout' = IF blinking THEN timeout ELSE c.limited

\* restart_timeout
RestartTimeout(c) == timeout' = c.limited

\* identify_apply
IdentifyApply(c) ==
  IF c.enabled THEN blinking' = TRUE /\ RestartTimeout(c) /\ UNCHANGED alert ELSE Stop

\* timeout_cb.  The timer runs for minutes: the LCC task has taken its last call by then.
TimeoutTimer ==
  /\ timeout
  /\ \A i \in DOMAIN queue : queue[i] # "expired"
  /\ timeout' = FALSE
  /\ \/ Post("expired") /\ UNCHANGED dropped /\ NoFault
     \/ UNCHANGED queue /\ dropped' = TRUE /\ Fault
  /\ UNCHANGED <<stored, nodeId, config, saving, pendingId, renaming, rebooting, blinking, alert,
                 failed, lapsed, writes, renames>>

\* expired
Expired ==
  /\ Takes("expired")
  /\ config' = Config(config.events, FALSE, config.limited)
  /\ ConfigSave(config')
  /\ Stop
  /\ UNCHANGED <<storedId, nodeId, saving, pendingId, renaming, rebooting,
                 lapsed, dropped, writes, renames>>

\* identify_requested
IdentifyRequested ==
  /\ Listening
  /\ config.enabled
  /\ RestartTimeout(config)
  /\ UNCHANGED <<stored, nodeId, config, saving, queue, pendingId, renaming, rebooting,
                 blinking, alert, history, counts>>

\* identify_alert, for a duplicate node ID
IdentifyAlert ==
  /\ Listening
  /\ alert' = TRUE /\ blinking' = TRUE
  /\ UNCHANGED <<stored, nodeId, config, saving, queue, pendingId, renaming, rebooting,
                 timeout, history, counts>>

-----------------------------------------------------------------------------
(* Writes, and the node ID *)

\* app_config_written
AppConfigWritten(c) ==
  /\ Listening
  /\ writes < MaxWrites
  /\ writes' = writes + 1
  /\ config' = c
  /\ savePending' = TRUE /\ saveTimer' = TRUE
  /\ UNCHANGED <<stored, nodeId, queue, pendingId, renaming, rebooting, history, renames, faults>>

\* A write to the light's settings, which applies at once, and one to an event ID
WriteLight(enabled, limited) ==
  /\ AppConfigWritten(Config(config.events, enabled, limited))
  /\ IdentifyApply(config')

WriteEvent ==
  /\ AppConfigWritten(Config(Own, config.enabled, config.limited))
  /\ UNCHANGED light

\* No new node ID waits for the reboot
Settled == nodeId = LoadedId(storedId) /\ \A i \in DOMAIN queue : queue[i] # "set_id"

\* app_factory_reset, and the reboot that memconfig.c orders after it
AppFactoryReset ==
  /\ Listening
  /\ Patient => Settled
  /\ writes < MaxWrites
  /\ writes' = writes + 1
  /\ config' = Defaults(nodeId)
  /\ Save(config')
  /\ rebooting' = TRUE
  /\ UNCHANGED <<storedId, nodeId, queue, pendingId, renaming, light, lapsed, dropped, renames>>

\* handle_line, for nodeid; also while the LCC task is busy
HandleLine(id) ==
  /\ Patient => Settled
  /\ renames < MaxRenames
  /\ renames' = renames + 1
  /\ pendingId' = id
  /\ \/ Post("set_id") /\ NoFault
     \/ UNCHANGED queue /\ Fault
  /\ UNCHANGED <<stored, nodeId, config, saving, renaming, rebooting, light, history, writes>>

\* app_set_node_id up to the end of node_id_store
NodeIdStore ==
  /\ Takes("set_id")
  /\ \/ storedId' = pendingId /\ renaming' = pendingId /\ NoFault
     \/ UNCHANGED <<storedId, renaming>> /\ Fault
  /\ UNCHANGED <<storedConfig, nodeId, config, saving, pendingId, rebooting, light,
                 history, writes, renames>>

\* The node starts anew, with what is stored
Boot ==
  /\ nodeId' = LoadedId(storedId')
  /\ config' = Loaded(storedConfig', nodeId')
  /\ savePending' = FALSE /\ saveTimer' = FALSE
  /\ queue' = <<>> /\ pendingId' = None /\ renaming' = None /\ rebooting' = FALSE
  /\ alert' = FALSE /\ blinking' = config'.enabled
  /\ timeout' = (config'.enabled /\ config'.limited)

\* A bug to catch: the default events of the running node ID stay as they are
MigrateNothing(c, id) == c

\* *_migrate_events: a default event ID of the running node ID moves to the new one
Migrate(c, id) == IF c.events = nodeId THEN Config(id, c.enabled, c.limited) ELSE c

\* The rest of app_set_node_id.  A call to reboot that does not fit the queue reboots
\* at once (not combined with a failing save).
MigrateEvents ==
  LET new == Migrate(config, renaming) IN
  /\ renaming # None
  /\ UNCHANGED <<storedId, lapsed, dropped, writes, renames>>
  /\ \/ /\ Save(new)
        /\ config' = new
        /\ Post("reboot")
        /\ renaming' = None
        /\ UNCHANGED <<nodeId, pendingId, rebooting, light>>
     \/ /\ Fault
        /\ storedConfig' = new /\ UNCHANGED failed
        /\ Boot

-----------------------------------------------------------------------------
(* Reboots *)

\* schedule_reboot
ScheduleReboot ==
  /\ rebooting' = TRUE
  /\ UNCHANGED <<stored, nodeId, config, saving, pendingId, renaming, light, history,
                 renames, faults>>

\* reboot_in_task
RebootInTask == Takes("reboot") /\ ScheduleReboot /\ UNCHANGED writes

\* The Reboot command
RebootCommand ==
  /\ Listening
  /\ writes < MaxWrites
  /\ writes' = writes + 1
  /\ ScheduleReboot
  /\ UNCHANGED queue

\* The reboot hook of lcc_task.c
Reboot ==
  /\ Idle
  /\ rebooting
  /\ UNCHANGED <<storedId, lapsed, dropped, writes, renames>>
  /\ SavePending
  /\ Boot

\* The board loses power
PowerLoss ==
  /\ Fault
  /\ lapsed' = (lapsed \/ renaming # None)
  /\ UNCHANGED <<stored, failed, dropped, writes, renames>>
  /\ Boot

-----------------------------------------------------------------------------
(* The specification *)

Init ==
  /\ storedId = None /\ storedConfig = None
  /\ nodeId = StandIn /\ config = Defaults(StandIn)
  /\ savePending = FALSE /\ saveTimer = FALSE
  /\ queue = <<>> /\ pendingId = None /\ renaming = None /\ rebooting = FALSE
  /\ blinking = FALSE /\ timeout = FALSE /\ alert = FALSE
  /\ failed = FALSE /\ lapsed = FALSE /\ dropped = FALSE
  /\ writes = 0 /\ renames = 0 /\ faults = 0

Next ==
  \/ SaveTimer
  \/ SaveInTask
  \/ UpdateComplete
  \/ TimeoutTimer
  \/ Expired
  \/ IdentifyRequested
  \/ IdentifyAlert
  \/ \E enabled, limited \in BOOLEAN : WriteLight(enabled, limited)
  \/ WriteEvent
  \/ AppFactoryReset
  \/ \E id \in Ids : HandleLine(id)
  \/ NodeIdStore
  \/ MigrateEvents
  \/ RebootInTask
  \/ RebootCommand
  \/ Reboot
  \/ PowerLoss

\* The timer service runs the timers, and the LCC task what is in its queue and its
\* reboot.
Fairness ==
  /\ WF_vars(SaveTimer) /\ WF_vars(TimeoutTimer)
  /\ WF_vars(SaveInTask) /\ WF_vars(Expired)
  /\ WF_vars(NodeIdStore) /\ WF_vars(MigrateEvents) /\ WF_vars(RebootInTask)
  /\ WF_vars(Reboot)

Spec == Init /\ [][Next]_vars

FairSpec == Spec /\ Fairness

-----------------------------------------------------------------------------
(* Properties *)

\* The variables have their types, and the save timer runs only for what is pending.
TypeOK ==
  /\ storedId \in Ids \cup {None} /\ storedConfig \in ConfigType \cup {None}
  /\ nodeId \in Ids /\ config \in ConfigType
  /\ savePending \in BOOLEAN /\ saveTimer \in BOOLEAN
  /\ queue \in Seq(Calls)
  /\ pendingId \in Ids \cup {None} /\ renaming \in Ids \cup {None}
  /\ rebooting \in BOOLEAN
  /\ blinking \in BOOLEAN /\ timeout \in BOOLEAN /\ alert \in BOOLEAN
  /\ failed \in BOOLEAN /\ lapsed \in BOOLEAN /\ dropped \in BOOLEAN
  /\ saveTimer => savePending

\* A node that runs under its stored ID has the default event IDs of that ID, or
\* those the user chose, whatever was written, reset, renamed, saved late or cut off,
\* unless a save failed or the power was lost between the two regions.
EventsFollow ==
  nodeId = LoadedId(storedId) /\ renaming = None /\ ~failed /\ ~lapsed =>
    config.events \in {nodeId, Own}

\* A reboot that is ordered keeps all settings, those of the last second too, and
\* those the node has changed itself: a light that went out stays out.
SettingsSurvive == [][Reboot => config' = config \/ failed']_vars

\* What is written is saved in the end, without anybody asking for it, also when the
\* queue was full as the timer ran out.
WritesSaved == savePending ~> (config = Loaded(storedConfig, nodeId) \/ failed)

\* The light goes out after its timeout, also when the timeout is set while it
\* blinks, unless the call that turns it off does not fit the queue.
LightEnds ==
  blinking /\ config.limited ~> (~blinking \/ ~config.limited \/ alert \/ dropped)

=============================================================================
