------------------------------ MODULE NodeDrain ------------------------------
(***************************************************************************)
(* The node-drain helper /usr/local/sbin/librenms-galera-node-drain, which *)
(* takes one node out of database and web traffic before MariaDB is        *)
(* disturbed and puts it back afterwards, step by step, in the most        *)
(* general environment: any caller may ask for `enter` or `exit` at any    *)
(* time, the helper may be killed between any two of its steps, other      *)
(* software may start and stop the same systemd units, MariaDB may change  *)
(* state, HAProxy notices markers late, and the daily update service runs  *)
(* beside it and shares one marker file with it.                           *)
(*                                                                         *)
(* Every file the helper uses is under /run: a reboot removes them all.    *)
(***************************************************************************)
EXTENDS FiniteSets, Naturals

CONSTANTS
  Callers,          \* the programs that run the helper on this node
  NoCaller,         \* "nobody holds the flock"
  Units,            \* the daily timer, the other quiesced units, PHP-FPM
  FpmServices,      \* the PHP-FPM services among them
  DailyTimer,       \* librenms-daily.timer
  LocalWeb,         \* LOCAL_WEB_MEMBER
  ForceDisconnect,  \* BACKEND_FORCE_DISCONNECT_CLIENTS
  AllowStale,       \* ALLOW_STALE_CLIENTS_BEFORE_RESTART
  MaxClients        \* bound on the SQL sessions counted at once

ASSUME ConstantsOK ==
  /\ NoCaller \notin Callers
  /\ DailyTimer \in Units /\ FpmServices \subseteq Units \ {DailyTimer}
  /\ LocalWeb \in BOOLEAN
  /\ ForceDisconnect \in BOOLEAN
  /\ AllowStale \in BOOLEAN
  /\ MaxClients \in Nat

VARIABLES
  backend,      \* BACKEND_DRAIN_PATH exists
  web,          \* WEB_DRAIN_PATH exists
  compat,       \* WEB_DRAIN_COMPAT_PATH, the daily update's own marker, exists
  compatOwned,  \* COMPAT_OWNERSHIP_PATH exists
  stateFile,    \* STATE_PATH exists
  recorded,     \* the units listed in STATE_PATH ({} when there is no file)
  active,       \* the units systemd reports as active
  queued,       \* the units whose start systemd has accepted and not yet done
  owed,         \* history: stopped by the helper, and neither running since nor
                \* asked to start again
  db,           \* the local MariaDB member
  clients,      \* SQL sessions the helper counts
  routed,       \* HAProxy assigns new SQL sessions to this member
  daily,        \* librenms-daily.service
  lock,         \* the holder of the flock
  pc,           \* the next step of the helper that holds it
  op,           \* the request it serves
  already,      \* already_entered
  created,      \* state_created
  todo,         \* units still to be stopped or started in the current loop
  call          \* what each caller asked for, or the exit code it got

files   == <<backend, web, compat, compatOwned, stateFile, recorded>>
markers == <<backend, web, compat, compatOwned>>
record  == <<stateFile, recorded>>
units   == <<active, queued, owed>>
node    == <<db, clients, routed, daily>>
locals  == <<op, already, created, todo>>
vars    == <<backend, web, compat, compatOwned, stateFile, recorded, active,
             queued, owed, db, clients, routed, daily, lock, pc, op, already,
             created, todo, call>>

DbStates  == {"ready", "unready", "joining", "down"}
Requests  == {"enter", "enter-restart", "exit"}
Results   == {"none", "ok", "fail"}
EnterPcs  == {"e_check", "e_record", "e_timer", "e_assert", "e_undo",
              "e_forget", "e_backend", "e_web", "e_compat", "e_own", "e_wait",
              "e_stop", "e_drain", "e_force", "r_check"}
ExitPcs   == {"x_check"}
RestorePcs == {"s_start", "s_open", "s_web", "s_compat", "s_own", "s_state"}
Pcs       == {"free"} \cup EnterPcs \cup ExitPcs \cup RestorePcs

\* One invariant for the types of all variables.
TypeOK ==
  /\ backend \in BOOLEAN /\ web \in BOOLEAN
  /\ compat \in BOOLEAN /\ compatOwned \in BOOLEAN
  /\ stateFile \in BOOLEAN /\ recorded \in SUBSET Units
  /\ active \in SUBSET Units /\ queued \in SUBSET (Units \ {DailyTimer})
  /\ owed \in SUBSET Units
  /\ db \in DbStates
  /\ clients \in 0..MaxClients
  /\ routed \in BOOLEAN
  /\ daily \in {"idle", "starting", "updating"}
  /\ lock \in Callers \cup {NoCaller}
  /\ pc \in Pcs
  /\ op \in Requests
  /\ already \in BOOLEAN /\ created \in BOOLEAN
  /\ todo \in SUBSET Units
  /\ call \in [Callers -> Requests \cup Results]

Init ==
  /\ backend = FALSE /\ web = FALSE /\ compat = FALSE /\ compatOwned = FALSE
  /\ stateFile = FALSE /\ recorded = {}
  /\ active \in SUBSET Units /\ queued = {} /\ owed = {}
  /\ db = "ready" /\ clients = 0 /\ routed = TRUE
  /\ daily = "idle"
  /\ lock = NoCaller /\ pc = "free"
  /\ op = "exit" /\ already = FALSE /\ created = FALSE /\ todo = {}
  /\ call = [c \in Callers |-> "none"]

-----------------------------------------------------------------------------
(* Building blocks.                                                        *)

\* galera_ready: Primary, wsrep_ready=ON and Synced.
Ready == db = "ready"

\* mysqld accepts the PROCESSLIST query of active_client_connections.
Answers == db \in {"ready", "unready"}

Goto(next) == pc' = next /\ UNCHANGED <<lock, call>>

\* The helper process ends with an exit code: the flock is released with its
\* file descriptor and its shell variables are gone.
Finish(result) ==
  /\ lock' = NoCaller /\ pc' = "free"
  /\ call' = [call EXCEPT ![lock] = result]
  /\ op' = "exit" /\ already' = FALSE /\ created' = FALSE /\ todo' = {}

\* A stop waits until the unit is down; it cancels a start that is queued.
StopUnit(u) ==
  /\ active' = active \ {u} /\ queued' = queued \ {u}
  /\ owed' = owed \cup ({u} \cap (active \cup queued))

\* systemctl start --no-block: systemd accepts the starts. A timer, which has no
\* process, is active at once; a service is when its job is done.
StartUnits(S) ==
  /\ active' = active \cup (S \cap {DailyTimer})
  /\ queued' = queued \cup (S \ (active \cup {DailyTimer}))
  /\ owed' = owed \ S

-----------------------------------------------------------------------------
(* Wrong variants of some of the steps below. No specification uses them:  *)
(* each shows that a property of this module fails when the code is wrong. *)

\* record_active_units without the test that keeps an existing state file
RecordUnitsAgain ==
  /\ pc = "e_record" /\ Goto("e_timer")
  /\ created' = TRUE
  /\ stateFile' = TRUE /\ recorded' = IF LocalWeb THEN active ELSE {}
  /\ UNCHANGED <<markers, units, node, op, already, todo>>

\* the undo of a refused enter without the test of state_created
UndoTimerAlways ==
  /\ pc = "e_undo" /\ Goto("e_forget")
  /\ StartUnits({DailyTimer} \cap recorded)
  /\ UNCHANGED <<files, node, locals>>

\* the restore loop stops at the first unit
StartRecordedOne ==
  /\ pc = "s_start" /\ Goto("s_open")
  /\ \E u \in todo : StartUnits({u})
  /\ UNCHANGED <<files, node, locals>>

\* the second look at the daily update is left out
AssertNothing ==
  /\ pc = "e_assert" /\ Goto("e_backend")
  /\ UNCHANGED <<files, units, node, locals>>

\* the backend marker is left in place
OpenBackendNot ==
  /\ pc = "s_open" /\ Goto("s_web")
  /\ UNCHANGED <<files, units, node, locals>>

-----------------------------------------------------------------------------
(* Getting the lock.                                                       *)

Request(c, req) ==
  /\ call[c] \in Results
  /\ call' = [call EXCEPT ![c] = req]
  /\ UNCHANGED <<files, units, node, lock, pc, locals>>

\* The caller reads the helper's exit code.
Collect(c) ==
  /\ call[c] \in {"ok", "fail"}
  /\ call' = [call EXCEPT ![c] = "none"]
  /\ UNCHANGED <<files, units, node, lock, pc, locals>>

Acquire(c) ==
  /\ lock = NoCaller /\ call[c] \in Requests
  /\ lock' = c /\ op' = call[c]
  /\ pc' = IF call[c] = "exit" THEN "x_check" ELSE "e_check"
  /\ already' = (backend /\ call[c] # "exit")
  /\ UNCHANGED <<files, units, node, created, todo, call>>

\* flock -w LOCK_TIMEOUT gives up while somebody else holds the lock.
LockTimeout(c) ==
  /\ lock # NoCaller /\ lock # c /\ call[c] \in Requests
  /\ call' = [call EXCEPT ![c] = "fail"]
  /\ UNCHANGED <<files, units, node, lock, pc, locals>>

-----------------------------------------------------------------------------
(* enter_drain, up to the markers.                                         *)

CheckConflicts ==
  /\ pc = "e_check"
  /\ \/ daily = "idle" /\ Goto("e_record") /\ UNCHANGED locals
     \/ daily # "idle" /\ Finish("fail")
  /\ UNCHANGED <<files, units, node>>

\* Units that are starting are listed too, unless their jobs still wait or they
\* are PHP-FPM services.
Listings(S) == {S \cup T : T \in SUBSET (queued \ FpmServices)}

\* record_active_units writes a temporary file and moves it into place; a
\* state file left by an earlier run is kept as it is.
RecordUnits ==
  /\ pc = "e_record" /\ Goto("e_timer")
  /\ created' = ~stateFile
  /\ stateFile' = TRUE
  /\ recorded' \in IF stateFile THEN {recorded}
                   ELSE IF LocalWeb THEN Listings(active) ELSE {{}}
  /\ UNCHANGED <<markers, units, node, op, already, todo>>

\* A PHP-FPM service whose state systemd cannot confirm is left out.
RecordMissesFpm ==
  /\ pc = "e_record" /\ ~stateFile /\ LocalWeb /\ Goto("e_timer")
  /\ created' = TRUE /\ stateFile' = TRUE
  /\ \E F \in SUBSET FpmServices : recorded' \in Listings(active \ F)
  /\ UNCHANGED <<markers, units, node, op, already, todo>>

QuiesceTimer ==
  /\ pc = "e_timer"
  /\ IF LocalWeb THEN Goto("e_assert") ELSE Goto("e_backend")
  /\ IF LocalWeb /\ DailyTimer \in recorded
       THEN StopUnit(DailyTimer)
       ELSE UNCHANGED units
  /\ UNCHANGED <<files, node, locals>>

\* quiesce_daily_timer runs as the condition of an `if`, where set -e is off:
\* a failed stop of the timer is not noticed.
QuiesceTimerFails ==
  /\ pc = "e_timer" /\ LocalWeb /\ DailyTimer \in recorded
  /\ Goto("e_assert")
  /\ UNCHANGED <<files, units, node, locals>>

AssertDailyInactive ==
  /\ pc = "e_assert"
  /\ IF daily = "idle" THEN Goto("e_backend") ELSE Goto("e_undo")
  /\ UNCHANGED <<files, units, node, locals>>

UndoTimer ==
  /\ pc = "e_undo"
  /\ \/ ~created /\ Finish("fail") /\ UNCHANGED units
     \/ /\ created /\ Goto("e_forget")
        /\ StartUnits({DailyTimer} \cap recorded)
        /\ UNCHANGED locals
  /\ UNCHANGED <<files, node>>

UndoRecord ==
  /\ pc = "e_forget" /\ Finish("fail")
  /\ stateFile' = FALSE /\ recorded' = {}
  /\ UNCHANGED <<markers, units, node>>

MarkBackend ==
  /\ pc = "e_backend" /\ Goto("e_web")
  /\ backend' = TRUE
  /\ UNCHANGED <<web, compat, compatOwned, record, units, node, locals>>

MarkWeb ==
  /\ pc = "e_web"
  /\ web' = (web \/ LocalWeb)
  /\ IF LocalWeb /\ ~compat THEN Goto("e_compat") ELSE Goto("e_wait")
  /\ UNCHANGED <<backend, compat, compatOwned, record, units, node, locals>>

MarkCompat ==
  /\ pc = "e_compat" /\ Goto("e_own")
  /\ compat' = TRUE
  /\ UNCHANGED <<backend, web, compatOwned, record, units, node, locals>>

OwnCompat ==
  /\ pc = "e_own" /\ Goto("e_wait")
  /\ compatOwned' = TRUE
  /\ UNCHANGED <<backend, web, compat, record, units, node, locals>>

-----------------------------------------------------------------------------
(* enter_drain, from the markers to a quiet node.                          *)

\* DRAIN_DELAY is longer than HAProxy needs to see the marker; a helper that
\* found the marker in place does not wait.
WaitForHAProxy ==
  /\ pc = "e_wait" /\ (already \/ ~routed)
  /\ Goto("e_stop") /\ todo' = recorded
  /\ UNCHANGED <<files, units, node, op, already, created>>

StopRecorded ==
  /\ pc = "e_stop"
  /\ \/ \E u \in todo : StopUnit(u) /\ todo' = todo \ {u} /\ Goto("e_stop")
     \/ todo = {} /\ Goto("e_drain") /\ UNCHANGED <<units, todo>>
  /\ UNCHANGED <<files, node, op, already, created>>

StopRecordedFails ==
  /\ pc = "e_stop" /\ todo # {} /\ Goto("r_check")
  /\ UNCHANGED <<files, units, node, locals>>

ClientsDrained ==
  /\ pc = "e_drain"
  /\ db = "down" \/ (Answers /\ clients = 0)
  /\ Finish("ok")
  /\ UNCHANGED <<files, units, node>>

\* Give up on the clients: go on only when MariaDB is restarted next anyway.
KeepStaleClients ==
  \/ AllowStale /\ op = "enter-restart" /\ Finish("ok")
  \/ ~(AllowStale /\ op = "enter-restart") /\ Goto("r_check") /\ UNCHANGED locals

DrainTimesOut ==
  /\ pc = "e_drain"
  /\ db # "down" /\ (~Answers \/ clients > 0)
  /\ \/ ForceDisconnect /\ Goto("e_force") /\ UNCHANGED locals
     \/ ~ForceDisconnect /\ KeepStaleClients
  /\ UNCHANGED <<files, units, node>>

Reap ==
  /\ pc = "e_force" /\ Answers /\ clients > 0
  /\ clients' = 0
  /\ UNCHANGED <<files, units, db, routed, daily, lock, pc, locals, call>>

ReapSucceeds ==
  /\ pc = "e_force" /\ Answers /\ clients = 0
  /\ Finish("ok")
  /\ UNCHANGED <<files, units, node>>

\* A failed query ends the reaping at once.
ReapFails ==
  /\ pc = "e_force" /\ ~Answers
  /\ KeepStaleClients
  /\ UNCHANGED <<files, units, node>>

\* Sessions come back until the deadline, or one query is too slow.
ReapTimesOut ==
  /\ pc = "e_force" /\ Answers
  /\ KeepStaleClients
  /\ UNCHANGED <<files, units, node>>

RollbackCheck ==
  /\ pc = "r_check"
  /\ \/ Ready /\ Goto("s_start") /\ todo' = recorded /\ UNCHANGED <<op, already, created>>
     \/ ~Ready /\ Finish("fail")
  /\ UNCHANGED <<files, units, node>>

-----------------------------------------------------------------------------
(* exit_drain, and the restore sequence it shares with rollback_drain.     *)

ExitCheck ==
  /\ pc = "x_check"
  /\ LET entered == backend \/ web \/ stateFile IN
       \/ ~entered /\ Finish("ok")
       \/ entered /\ ~Ready /\ Finish("fail")
       \/ /\ entered /\ Ready /\ Goto("s_start")
          /\ todo' = recorded /\ UNCHANGED <<op, already, created>>
  /\ UNCHANGED <<files, units, node>>

StartRecorded ==
  /\ pc = "s_start"
  /\ \/ \E u \in todo : StartUnits({u}) /\ todo' = todo \ {u} /\ Goto("s_start")
     \/ todo = {} /\ Goto("s_open") /\ UNCHANGED <<units, todo>>
  /\ UNCHANGED <<files, node, op, already, created>>

\* Some starts are refused: the loop tries the others and the helper stops
\* before it removes a marker.
StartRecordedFails ==
  /\ pc = "s_start"
  /\ \E S \in SUBSET todo : S # todo /\ StartUnits(S)
  /\ Finish("fail")
  /\ UNCHANGED <<files, node>>

OpenBackend ==
  /\ pc = "s_open" /\ Goto("s_web")
  /\ backend' = FALSE
  /\ UNCHANGED <<web, compat, compatOwned, record, units, node, locals>>

\* After BACKEND_REJOIN_DELAY, long enough for HAProxy to see a ready member.
OpenWeb ==
  /\ pc = "s_web" /\ (Ready => routed)
  /\ web' = (web /\ ~LocalWeb)
  /\ IF LocalWeb /\ compatOwned THEN Goto("s_compat") ELSE Goto("s_state")
  /\ UNCHANGED <<backend, compat, compatOwned, record, units, node, locals>>

OpenCompat ==
  /\ pc = "s_compat" /\ Goto("s_own")
  /\ compat' = FALSE
  /\ UNCHANGED <<backend, web, compatOwned, record, units, node, locals>>

DisownCompat ==
  /\ pc = "s_own" /\ Goto("s_state")
  /\ compatOwned' = FALSE
  /\ UNCHANGED <<backend, web, compat, record, units, node, locals>>

ForgetRecord ==
  /\ pc = "s_state"
  /\ Finish(IF op = "exit" THEN "ok" ELSE "fail")
  /\ stateFile' = FALSE /\ recorded' = {}
  /\ UNCHANGED <<markers, units, node>>

\* systemd cannot confirm a unit's state or accept a reload: the helper exits
\* (e_check, e_record, x_check, s_open), undoes (e_assert), or exits before it
\* restarted the timer (e_undo).
SystemdUnknown ==
  /\ \/ pc \in {"e_check", "s_open"} /\ Finish("fail")
     \/ pc = "e_undo" /\ created /\ DailyTimer \in recorded /\ Finish("fail")
     \/ pc = "e_record" /\ ~stateFile /\ Finish("fail")
     \/ pc = "x_check" /\ (backend \/ web \/ stateFile) /\ Finish("fail")
     \/ pc = "e_assert" /\ Goto("e_undo") /\ UNCHANGED locals
  /\ UNCHANGED <<files, units, node>>

\* `timeout`, a dropped SSH session or an operator kills the helper.
Kill ==
  /\ lock # NoCaller /\ Finish("fail")
  /\ UNCHANGED <<files, units, node>>

-----------------------------------------------------------------------------
(* The rest of the node.                                                   *)

\* Other software (startup repair, Ansible, an operator) starts and stops
\* units on its own.
OthersSetUnits(S) ==
  /\ active' = S /\ S # active
  /\ queued' = queued \ S /\ owed' = owed \ S
  /\ UNCHANGED <<files, node, lock, pc, locals, call>>

\* The start job of a unit ends, with the unit running or failed: nobody who
\* queued it with --no-block is told.
JobEnds(u, runs) ==
  /\ u \in queued /\ queued' = queued \ {u}
  /\ active' = active \cup (IF runs THEN {u} ELSE {})
  /\ UNCHANGED <<owed, files, node, lock, pc, locals, call>>

\* librenms-daily.timer elapses (Persistent=true: also when it is started
\* after a missed run) and starts librenms-daily.service.
DailyStart ==
  /\ daily = "idle" /\ DailyTimer \in active
  /\ daily' = "starting"
  /\ UNCHANGED <<files, units, db, clients, routed, lock, pc, locals, call>>

\* activate_ha_drain of the daily wrapper writes the shared marker.
DailyDrain ==
  /\ daily = "starting"
  /\ daily' = "updating" /\ compat' = TRUE
  /\ UNCHANGED <<backend, web, compatOwned, record, units, db, clients, routed,
                 lock, pc, locals, call>>

\* The wrapper ends, updated or skipped: ExecStopPost removes the marker.
DailyEnd ==
  /\ daily # "idle"
  /\ daily' = "idle" /\ compat' = FALSE
  /\ UNCHANGED <<backend, web, compatOwned, record, units, db, clients, routed,
                 lock, pc, locals, call>>

DbChange(s) ==
  /\ db' = s
  /\ clients' = IF s \in {"down", "joining"} THEN 0 ELSE clients
  /\ UNCHANGED <<files, units, routed, daily, lock, pc, locals, call>>

HaproxyPoll ==
  /\ routed' = (Ready /\ ~backend)
  /\ routed' # routed
  /\ UNCHANGED <<files, units, db, clients, daily, lock, pc, locals, call>>

Connect ==
  /\ routed /\ Answers /\ clients < MaxClients
  /\ clients' = clients + 1
  /\ UNCHANGED <<files, units, db, routed, daily, lock, pc, locals, call>>

Disconnect ==
  /\ clients > 0 /\ clients' = clients - 1
  /\ UNCHANGED <<files, units, db, routed, daily, lock, pc, locals, call>>

\* /run is empty after a reboot and systemd starts the enabled units.
Reboot ==
  /\ backend' = FALSE /\ web' = FALSE /\ compat' = FALSE /\ compatOwned' = FALSE
  /\ stateFile' = FALSE /\ recorded' = {}
  /\ active' = Units /\ queued' = {} /\ owed' = {}
  /\ db' = "joining" /\ clients' = 0 /\ routed' = FALSE /\ daily' = "idle"
  /\ lock' = NoCaller /\ pc' = "free"
  /\ op' = "exit" /\ already' = FALSE /\ created' = FALSE /\ todo' = {}
  /\ call' = [c \in Callers |-> "none"]

-----------------------------------------------------------------------------

\* What the helper does when systemd answers and nobody kills it.
HelperStep ==
  \/ CheckConflicts \/ RecordUnits \/ QuiesceTimer \/ AssertDailyInactive
  \/ UndoTimer \/ UndoRecord \/ MarkBackend \/ MarkWeb \/ MarkCompat
  \/ OwnCompat \/ WaitForHAProxy \/ StopRecorded \/ ClientsDrained
  \/ DrainTimesOut \/ Reap \/ ReapSucceeds \/ ReapFails \/ RollbackCheck
  \/ ExitCheck \/ StartRecorded \/ OpenBackend \/ OpenWeb \/ OpenCompat
  \/ DisownCompat \/ ForgetRecord

HelperFault ==
  \/ RecordMissesFpm \/ QuiesceTimerFails \/ StopRecordedFails \/ ReapTimesOut
  \/ StartRecordedFails \/ SystemdUnknown \/ Kill

Next ==
  \/ \E c \in Callers : \/ \E req \in Requests : Request(c, req)
                        \/ Collect(c) \/ Acquire(c) \/ LockTimeout(c)
  \/ HelperStep \/ HelperFault
  \/ \E S \in SUBSET Units : OthersSetUnits(S)
  \/ \E u \in Units, runs \in BOOLEAN : JobEnds(u, runs)
  \/ DailyStart \/ DailyDrain \/ DailyEnd
  \/ \E s \in DbStates : DbChange(s)
  \/ HaproxyPoll \/ Connect \/ Disconnect
  \/ Reboot

Spec == Init /\ [][Next]_vars

-----------------------------------------------------------------------------
(* Safety, for every caller and every environment above.                   *)

\* Whatever the helper has stopped and nobody has asked systemd to start again
\* is listed in the state file, at whichever step the helper was killed: no
\* unit is forgotten by enter, rollback, undo or exit.
OwedUnitsRecorded == owed # {} => stateFile /\ owed \subseteq recorded

\* Before a member loses its backend marker, and HAProxy may use it, systemd has
\* accepted the start of every worker and PHP-FPM service that the helper has
\* stopped; only the daily timer may be down, while enter has not yet placed
\* the marker. Whether the starts succeed is not asked (UnitsComeBack is about
\* that).
StartsBeforeTraffic == ~backend => owed \subseteq {DailyTimer}

\* A marker never outlives the state file, so `exit` (which looks for one of
\* the three) always knows which units to start, and a new `enter` never
\* records the quiesced node as the state to restore.
MarkersHaveRecord == backend \/ web \/ compatOwned => stateFile

Reopen ==
  /\ web /\ ~web' => ~backend'
  /\ stateFile /\ ~stateFile' => ~backend' /\ ~web' /\ owed' = {}

\* Web traffic is readmitted only after the database backend, and the record
\* is dropped only when no marker is left and systemd has accepted the start of
\* all that was stopped, in any step of any actor.
ReopenInOrder == [][Reopen]_vars

-----------------------------------------------------------------------------
(* The inductive strengthening of the safety properties.                   *)

\* The flock is held exactly while a helper runs.
LockInv == lock = NoCaller <=> pc = "free"

\* Only a web member has web markers.
WebInv == web \/ compatOwned \/ pc \in {"e_compat", "e_own"} => LocalWeb

\* From the record on there is a state file; before the markers, a state file
\* of this run's own making means that there were no markers.
EnterInv ==
  /\ pc \in Pcs \ {"free", "e_check", "e_record", "x_check"} => stateFile
  /\ pc \in {"e_timer", "e_assert", "e_undo", "e_forget"} /\ created =>
       ~backend /\ ~web /\ ~compatOwned
  /\ pc = "e_forget" => created /\ owed = {}
  /\ pc \in {"e_web", "e_compat", "e_own", "e_wait", "e_stop", "e_drain",
             "e_force", "r_check"} => backend
  /\ pc = "e_stop" => todo \subseteq recorded

\* What is still owed is still to be started, and nothing is once the
\* markers go.
RestoreInv ==
  /\ pc = "s_start" => owed \subseteq todo
  /\ pc \in RestorePcs \ {"s_start"} => owed = {}
  /\ pc \in {"s_web", "s_compat", "s_own", "s_state"} => ~backend
  /\ pc \in {"s_compat", "s_own", "s_state"} => ~web
  /\ pc = "s_state" => ~compatOwned

Safe ==
  /\ LockInv /\ WebInv /\ EnterInv /\ RestoreInv
  /\ OwedUnitsRecorded /\ StartsBeforeTraffic /\ MarkersHaveRecord

IInv == TypeOK /\ Safe

=============================================================================
