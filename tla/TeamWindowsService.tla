------------------------- MODULE TeamWindowsService -------------------------
(***************************************************************************)
(* The Team host as a Windows service: the administrator's commands        *)
(* (team_windows_service.py), the service process they bind to exact bytes *)
(* of a configuration (team_windows_service_entry.py, team_host.py), and   *)
(* Service Control Manager, which is external: it keeps the service's      *)
(* entry, delivers stop requests, restarts a process that failed, once,    *)
(* and starts an automatic service at boot.                                *)
(*                                                                         *)
(* One command runs at a time, and any step of it may fail, without        *)
(* effect, be interrupted, or be its last.  Bytes are their own digest and *)
(* the path of the configuration never changes.  A process is "running"    *)
(* for SCM from its start on.                                              *)
(***************************************************************************)
EXTENDS Integers, FiniteSets

CONSTANTS
    HostConfigs,     \* what the host's configuration file may hold
    UsableConfigs,   \* those that parse, with the pinned server installed
    MaxCommands, MaxServiceFaults, MaxConfigEdits

ASSUME WindowsAssumption ==
    /\ {MaxCommands, MaxServiceFaults, MaxConfigEdits} \subseteq Nat
    /\ UsableConfigs \subseteq HostConfigs /\ UsableConfigs # {}

VARIABLES
    service,     \* SCM's entry of the service, if there is one
    configFile,  \* the host's configuration file
    process,     \* the service process
    recovery,    \* SCM's restart of a failed process: fresh, queued or spent
    command,     \* the administrator's command
    spent        \* how many commands, faults and edits there were

windowsVars == <<service, configFile, process, recovery, command, spent>>

Down == [phase |-> "down", config |-> {}, stop |-> "none", closed |-> FALSE, failed |-> FALSE]
NoCommand == [phase |-> "idle", kind |-> "none", start |-> "none", subject |-> {}, found |-> {},
              previous |-> {}, result |-> "none"]

WindowsInit ==
    /\ service = {} /\ process = Down /\ recovery = "fresh" /\ command = NoCommand
    /\ configFile = CHOOSE c \in UsableConfigs : TRUE
    /\ spent = [commands |-> 0, faults |-> 0, edits |-> 0]

Spend(what, limit) == spent[what] < limit /\ spent' = [spent EXCEPT ![what] = @ + 1]
Stopped == process.phase = "down"
Between == command.phase \in {"idle", "reported"}

---------------------------------------------------------------------------
(* Service Control Manager (external)                                      *)

Startable == \E s \in service : ~s.marked /\ s.start # "disabled"

\* A process that died, or with the flag one that ended with an error, is restarted once.
AfterFailure == \/ /\ \E s \in service : s.actions = "bounded"
                   /\ recovery = "fresh" /\ recovery' = "queued"
                \/ UNCHANGED recovery

StartProcess == Stopped /\ process' = [Down EXCEPT !.phase = "starting"]

RestartFailed ==
    /\ recovery = "queued" /\ Stopped
    /\ recovery' = "spent"
    /\ IF Startable THEN StartProcess ELSE UNCHANGED process
    /\ UNCHANGED <<service, configFile, command, spent>>

ForgetFailures ==
    /\ recovery = "spent" /\ recovery' = "fresh"
    /\ UNCHANGED <<service, configFile, process, command, spent>>

ProcessDies ==
    /\ ~Stopped /\ Spend("faults", MaxServiceFaults)
    /\ process' = Down /\ AfterFailure
    /\ UNCHANGED <<service, configFile, command>>

\* A restart of the machine: a service marked for deletion is gone.
Boot ==
    /\ Spend("faults", MaxServiceFaults)
    /\ service' = {s \in service : ~s.marked}
    /\ process' = IF \E s \in service' : s.start = "auto" THEN [Down EXCEPT !.phase = "starting"]
                  ELSE Down
    /\ recovery' = "fresh" /\ command' = NoCommand
    /\ UNCHANGED configFile

\* SCM's thread, in the service process: SvcStop sets the flag first.
RequestStop == ~Stopped /\ process.stop = "none" /\ process' = [process EXCEPT !.stop = "requested"]

StopRequested ==
    /\ RequestStop
    /\ UNCHANGED <<service, configFile, recovery, command, spent>>

\* A service marked for deletion goes when its process and every handle are closed.
MarkedServiceGoes ==
    /\ Stopped /\ Between
    /\ \E s \in service : s.marked
    /\ service' = {}
    /\ UNCHANGED <<configFile, process, recovery, command, spent>>

ChangedByHand ==
    /\ Between /\ Spend("edits", MaxConfigEdits)
    /\ \E s \in service : service' = {[s EXCEPT !.actions = "foreign", !.flag = FALSE]}
    /\ command' = NoCommand
    /\ UNCHANGED <<configFile, process, recovery>>

EditConfiguration ==
    /\ Spend("edits", MaxConfigEdits)
    /\ \E c \in HostConfigs : configFile' = c
    /\ UNCHANGED <<service, process, recovery, command>>

---------------------------------------------------------------------------
(* The service process                                                     *)

Unchanged == UNCHANGED <<service, configFile, recovery, command, spent>>

Fails == process' = [process EXCEPT !.phase = "ending", !.failed = TRUE]

\* Registry, then file: a registration without its exact bytes is refused.
ReadRegistration ==
    /\ process.phase = "starting" /\ Unchanged
    /\ \/ \E s \in service : /\ s.subject # {}
                             /\ process' = [process EXCEPT !.phase = "bound", !.config = s.subject]
       \/ (\A s \in service : s.subject = {}) /\ Fails

LoadConfiguration ==
    /\ process.phase = "bound" /\ Unchanged
    /\ IF process.config = {configFile} /\ configFile \in UsableConfigs
       THEN process' = [process EXCEPT !.phase = "loaded"]
       ELSE Fails

CreateHost ==
    /\ process.phase = "loaded" /\ Unchanged
    /\ Fails \/ process' = [process EXCEPT !.phase = "created"]

\* Under the controller's lock: a stop that came earlier found no controller to close.
PublishController ==
    IF process.stop # "none"
    THEN \E failed \in BOOLEAN :
            process' = [process EXCEPT !.phase = "ending", !.closed = TRUE, !.failed = failed]
    ELSE process' = [process EXCEPT !.phase = "published"]

AnnounceHost == process.phase = "created" /\ Unchanged /\ PublishController

\* Under the lifecycle lock.
RunHost ==
    /\ process.phase = "published" /\ Unchanged
    /\ IF process.closed THEN Fails ELSE process' = [process EXCEPT !.phase = "serving"]

\* The loop ends when its listener is closed, or by an error; it then closes what is open.
ServerReturns ==
    /\ process.phase = "serving" /\ Unchanged
    /\ \/ process.closed /\ process' = [process EXCEPT !.phase = "ending"]
       \/ process' = [process EXCEPT !.phase = "ending", !.failed = TRUE, !.closed = TRUE]

\* SvcStop, under the controller's lock; closing may fail and closes all the same.
CloseFromControl ==
    /\ process.stop = "requested" /\ Unchanged
    /\ IF process.phase \in {"published", "serving"} /\ ~process.closed
       THEN \E failed \in BOOLEAN :
               process' = [process EXCEPT !.stop = "done", !.closed = TRUE,
                                          !.failed = @ \/ failed]
       ELSE process' = [process EXCEPT !.stop = "done"]

EndProcess ==
    /\ process.phase = "ending"
    /\ process' = Down
    /\ IF process.failed THEN AfterFailure ELSE UNCHANGED recovery
    /\ UNCHANGED <<service, configFile, command, spent>>

---------------------------------------------------------------------------
(* The administrator's commands, step by step                              *)

CommandKinds == {"install", "configure", "recovery", "start", "stop", "remove"}

Goto(changes) == command' = [f \in DOMAIN command |->
                                IF f \in DOMAIN changes THEN changes[f] ELSE command[f]]
Report(result) == Goto([phase |-> "reported", result |-> result])
OnlyCommand == UNCHANGED <<service, configFile, process, recovery, spent>>
At(kind, phase) == command.kind \in kind /\ command.phase = phase

BeginCommand(kind, start) ==
    /\ Between /\ Spend("commands", MaxCommands)
    /\ command' = [NoCommand EXCEPT !.kind = kind, !.start = start, !.found = service,
                                    !.phase = IF kind = "install" THEN "prepare" ELSE "status"]
    /\ UNCHANGED <<service, configFile, process, recovery>>

CheckStatus ==
    /\ At(CommandKinds, "status") /\ OnlyCommand
    /\ CASE service = {} -> Report("failed")
         [] command.kind = "start" /\ ~Stopped ->
               Report(IF process.stop = "none" THEN "ok" ELSE "failed")
         [] command.kind = "stop" /\ Stopped -> Report("ok")
         [] command.kind = "stop" /\ process.stop # "none" -> Report("failed")
         [] command.kind \notin {"start", "stop"} /\ ~Stopped -> Report("failed")
         [] OTHER -> Goto([phase |-> CASE command.kind = "configure" -> "prepare"
                                       [] command.kind = "recovery" -> "query"
                                       [] command.kind = "remove" -> "disable"
                                       [] OTHER -> command.kind])

PrepareRegistration ==
    /\ At({"install", "configure"}, "prepare") /\ OnlyCommand
    /\ IF configFile \in UsableConfigs
       THEN Goto([subject |-> {configFile},
                  phase |-> IF command.kind = "install" THEN "create" ELSE "register"])
       ELSE Report("failed")

\* A service that exists, also one marked for deletion, cannot be made.
CreateService ==
    /\ At({"install"}, "create")
    /\ IF service = {}
       THEN /\ service' = {[marked |-> FALSE, start |-> command.start, sid |-> FALSE,
                            actions |-> "none", flag |-> FALSE, subject |-> {}]}
            /\ recovery' = "fresh"
            /\ Goto([phase |-> "sid"])
       ELSE Report("failed") /\ UNCHANGED <<service, recovery>>
    /\ UNCHANGED <<configFile, process, spent>>

Configured(changes) ==
    {[f \in DOMAIN s |-> IF f \in DOMAIN changes THEN changes[f] ELSE s[f]] : s \in service}

Writable == \E s \in service : ~s.marked

Change(changes, phase) ==
    /\ Writable
    /\ service'  = Configured(changes)
    /\ Goto([phase |-> phase])
    /\ UNCHANGED <<configFile, process, recovery, spent>>

EnableServiceSid == At({"install"}, "sid") /\ Change([sid |-> TRUE], "query")

QueryRecovery ==
    /\ At({"install", "recovery"}, "query") /\ OnlyCommand
    /\ Goto([phase |-> "actions",
             previous |-> {[actions |-> s.actions, flag |-> s.flag] : s \in service}])

SetActions == At({"install", "recovery"}, "actions") /\ Change([actions |-> "bounded"], "flag")
SetFlag == At({"install", "recovery"}, "flag") /\ Change([flag |-> TRUE], "verify")

VerifyRecovery ==
    /\ At({"install", "recovery"}, "verify") /\ OnlyCommand
    /\ IF command.kind = "install" THEN Goto([phase |-> "register"]) ELSE Report("ok")

WriteRegistration ==
    /\ At({"install", "configure"}, "register")
    /\ service' = Configured([subject |-> command.subject])
    /\ Report("ok")
    /\ UNCHANGED <<configFile, process, recovery, spent>>

\* Where a step that fails, or is interrupted, leaves a command.
Undone == IF command.kind = "install" THEN "undo_install" ELSE "reported"

\* Variant: only a flag that was set as well is undone.
FailureUndoesBoth(phase) ==
    CASE phase = "verify" -> "undo_actions"
      [] phase \in {"sid", "query", "actions", "flag", "register"} -> Undone
      [] phase = "delete" -> "undo_disable"
      [] OTHER -> "reported"

FailureGoesTo(phase) ==
    CASE phase \in {"flag", "verify"} -> "undo_actions"
      [] phase \in {"sid", "query", "actions", "register"} -> Undone
      [] phase = "delete" -> "undo_disable"
      [] OTHER -> "reported"

Undoing == command.phase \in {"undo_actions", "undo_flag", "undo_install", "undo_disable"}

\* A call that fails; it always does on a service marked for deletion.
CallFails == Spend("faults", MaxServiceFaults) \/ (~Writable /\ service # {} /\ UNCHANGED spent)

StepFails ==
    /\ ~Between /\ ~Undoing /\ CallFails
    /\ Goto([phase |-> FailureGoesTo(command.phase), result |-> "failed"])
    /\ UNCHANGED <<service, configFile, process, recovery>>

\* What is only made to catch an Exception is not undone when it is interrupted.
Interrupted ==
    /\ command.phase \in {"status", "prepare", "create", "start", "stop", "disable", "delete",
                          "undo_disable"}
    /\ Spend("faults", MaxServiceFaults)
    /\ Report("interrupted")
    /\ UNCHANGED <<service, configFile, process, recovery>>

UndoActions ==
    /\ At(CommandKinds, "undo_actions")
    /\ Change([actions |-> (CHOOSE p \in command.previous : TRUE).actions], "undo_flag")
UndoFlag ==
    /\ At(CommandKinds, "undo_flag")
    /\ Change([flag |-> (CHOOSE p \in command.previous : TRUE).flag], Undone)

DeleteService == IF Stopped THEN service' = {} ELSE service' = Configured([marked |-> TRUE])

UndoInstall ==
    /\ At(CommandKinds, "undo_install") /\ Writable
    /\ DeleteService
    /\ Goto([phase |-> "reported"])
    /\ UNCHANGED <<configFile, process, recovery, spent>>

UndoFails ==
    /\ Undoing /\ CallFails
    /\ Goto([result |-> "rollback_failed",
             phase |-> IF command.phase \in {"undo_actions", "undo_flag"} THEN Undone
                       ELSE "reported"])
    /\ UNCHANGED <<service, configFile, process, recovery>>

StartService ==
    /\ At({"start"}, "start")
    /\ IF Startable /\ Stopped THEN StartProcess /\ (Report("ok") \/ Report("failed"))
       ELSE UNCHANGED process /\ Report("failed")
    /\ UNCHANGED <<service, configFile, recovery, spent>>

StopService ==
    /\ At({"stop"}, "stop")
    /\ IF Stopped \/ process.stop # "none" THEN Report("failed") /\ UNCHANGED process
       ELSE RequestStop /\ Goto([phase |-> "stopping"])
    /\ UNCHANGED <<service, configFile, recovery, spent>>

\* WaitForServiceStatus, until the process ended or for as long as it waits.
AwaitStop ==
    /\ At({"stop"}, "stopping") /\ OnlyCommand
    /\ Report("failed") \/ (Stopped /\ Report("ok"))

\* Disabled first, so that no restart that is queued starts what is being removed.
DisableService ==
    /\ At({"remove"}, "disable") /\ Writable
    /\ service' = Configured([start |-> "disabled"])
    /\ Goto([phase |-> "delete", previous |-> {s.start : s \in service}])
    /\ UNCHANGED <<configFile, process, recovery, spent>>

RemoveService ==
    /\ At({"remove"}, "delete") /\ Writable
    /\ DeleteService /\ Report("ok")
    /\ UNCHANGED <<configFile, process, recovery, spent>>

UndoDisable ==
    /\ At({"remove"}, "undo_disable")
    /\ Change([start |-> CHOOSE start \in command.previous : TRUE], "reported")

CommandDies ==
    /\ ~Between /\ Spend("faults", MaxServiceFaults)
    /\ command' = NoCommand
    /\ UNCHANGED <<service, configFile, process, recovery>>

CommandNext ==
    \/ \E kind \in CommandKinds, start \in {"auto", "manual"} :
          (kind # "install" => start = "auto") /\ BeginCommand(kind, start)
    \/ CheckStatus \/ PrepareRegistration \/ CreateService \/ EnableServiceSid
    \/ QueryRecovery \/ SetActions \/ SetFlag \/ VerifyRecovery \/ WriteRegistration
    \/ StartService \/ StopService \/ AwaitStop \/ DisableService \/ RemoveService
    \/ StepFails \/ Interrupted \/ CommandDies
    \/ UndoActions \/ UndoFlag \/ UndoInstall \/ UndoDisable \/ UndoFails

ProcessNext ==
    \/ ReadRegistration \/ LoadConfiguration \/ CreateHost \/ AnnounceHost \/ RunHost
    \/ ServerReturns \/ CloseFromControl \/ EndProcess \/ ProcessDies

WindowsNext ==
    \/ CommandNext \/ ProcessNext
    \/ RestartFailed \/ ForgetFailures \/ Boot \/ StopRequested
    \/ MarkedServiceGoes \/ ChangedByHand \/ EditConfiguration

WindowsSpec == WindowsInit /\ [][WindowsNext]_windowsVars

---------------------------------------------------------------------------
(* Property                                                                *)

Lasting(entries) == {s \in entries : ~s.marked}

InstalledAs(start, subject) ==
    {[marked |-> FALSE, start |-> start, sid |-> TRUE, actions |-> "bounded", flag |-> TRUE,
      subject |-> subject]}

\* What a command that ended says of the service's entry.
ReportIsTrue ==
    /\ command.result = "failed" => Lasting(service) = Lasting(command.found)
    /\ command.result = "ok" =>
          CASE command.kind = "install" -> service = InstalledAs(command.start, command.subject)
            [] command.kind = "configure" ->
                  Lasting(service) = {[s EXCEPT !.subject = command.subject] :
                                      s \in Lasting(command.found)}
            [] command.kind = "recovery" ->
                  service = {[s EXCEPT !.actions = "bounded", !.flag = TRUE] : s \in command.found}
            [] command.kind = "remove" -> Lasting(service) = {}
            [] OTHER -> Lasting(service) = Lasting(command.found)

\* What a command reports of the service is so, whichever of its steps failed
\* or was interrupted and whatever SCM started, stopped or lost meanwhile: one
\* that says it failed undid every change, unless it says it could not.  And a
\* stop that the control handler has finished is never lost on a process that
\* was still starting: it does not go on to serve.
ServiceReportsHold ==
    /\ command.phase = "reported" => ReportIsTrue
    /\ process.stop = "done" /\ process.phase \in {"published", "serving"} => process.closed
=============================================================================
