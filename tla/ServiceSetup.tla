----------------------------- MODULE ServiceSetup -----------------------------
(***************************************************************************)
(* The program's commands on Windows: --install and --uninstall change the *)
(* database of the service control manager and the App Paths key of the    *)
(* registry, one call after the other, without undoing what an earlier     *)
(* call did.  Any call may fail and the process may be killed between two  *)
(* calls; the next command finds what is left.                             *)
(***************************************************************************)
EXTENDS Naturals

CONSTANTS
  Paths,           \* where the executable has been put
  Options,         \* arguments of --install
  None

ASSUME SetupAssumption == None \notin Paths \cup Options

VARIABLES
  step,            \* the call to be made next, "idle" between two commands
  path, options,   \* the command under way, or the last one
  service,         \* the entry of the service, or None
  running, marked, \* the service runs; it is to go when it no longer does
  appKey,          \* the App Paths key of the file name, or None
  said,            \* the outcome that main() reported
  faulty,          \* history: a call of the command failed for no fault of its own
  clean            \* history: 1 after a faultless uninstall, 2 after one and an install

command   == <<path, options>>
registry  == <<service, running, marked, appKey>>
setupVars == <<step, command, registry, said, faulty, clean>>

SetupInit ==
  /\ step = "idle" /\ path \in Paths /\ options \in Options
  /\ service = None /\ running = FALSE /\ marked = FALSE /\ appKey = None
  /\ said = "nothing" /\ faulty = FALSE /\ clean = 0

-----------------------------------------------------------------------------
(* main()                                                                    *)

Says(outcome) ==
  /\ step = "idle"
  /\ said' = outcome /\ clean' = 0
  /\ UNCHANGED <<step, command, registry, faulty>>

\* Bad options, --version and --help.
OptionsOnly == Says("failed") \/ Says("informed")

\* The program itself, in the foreground or as a service.
Launch == Says("failed") \/ Says("bye")

Command(first, p, o) ==
  /\ step = "idle" /\ step' = first
  /\ path' = p /\ options' = o
  /\ said' = "nothing" /\ faulty' = FALSE
  /\ UNCHANGED <<registry, clean>>

Install(p, o)   == Command("create", p, o)
Uninstall(p, o) == Command("delete", p, o)

\* The command ends: with an error code, without one, or with an exception.
EndInstall(outcome, fault) ==
  /\ step' = "idle" /\ said' = outcome /\ faulty' = fault
  /\ clean' = IF clean = 1 /\ ~fault THEN 2 ELSE 0
  /\ UNCHANGED command

EndUninstall(outcome, fault) ==
  /\ step' = "idle" /\ said' = outcome /\ faulty' = fault
  /\ clean' = IF fault THEN 0 ELSE 1
  /\ UNCHANGED command

Then(next, fault) == step' = next /\ faulty' = fault /\ UNCHANGED <<command, said, clean>>

-----------------------------------------------------------------------------
(* install_service()                                                         *)

\* The executable is not found ("failed"), or windows_scm throws ("aborted").
InstallRefused(outcome) ==
  /\ step = "create"
  /\ EndInstall(outcome, TRUE)
  /\ UNCHANGED registry

Created == service' = [path |-> path, options |-> options] /\ UNCHANGED <<running, marked, appKey>>

\* Mutant of CreateService: the handle is not looked at.
CreateServiceUnchecked ==
  /\ step = "create"
  /\ IF service = None THEN Created ELSE UNCHANGED registry
  /\ Then("key", faulty)

\* The service must not exist; its description is not worth an error.
CreateService ==
  /\ step = "create" /\ service = None
  /\ Created
  /\ Then("key", faulty)

\* A service that is to go cannot be made anew either: somebody has to stop it.
CreateServiceFails ==
  /\ step = "create"
  /\ \E fault \in {TRUE, marked} :
       /\ service = None => fault
       /\ EndInstall("failed", fault)
  /\ UNCHANGED registry

-----------------------------------------------------------------------------
(* register_application()                                                    *)

CreateKey ==
  /\ step = "key"
  /\ appKey' = IF appKey = None THEN [default |-> None, dir |-> None] ELSE appKey
  /\ Then("default", faulty)
  /\ UNCHANGED <<service, running, marked>>

SetDefault ==
  /\ step = "default"
  /\ appKey' = [appKey EXCEPT !.default = path]
  /\ Then("dir", faulty)
  /\ UNCHANGED <<service, running, marked>>

SetDir ==
  /\ step = "dir"
  /\ appKey' = [appKey EXCEPT !.dir = path]
  /\ EndInstall("installed", faulty)
  /\ UNCHANGED <<service, running, marked>>

\* The registry returns its error code; the last error, which the code takes in its
\* place, may be no error at all.
RegisterFails ==
  /\ step \in {"key", "default", "dir"}
  /\ \E outcome \in {"failed", "installed"} : EndInstall(outcome, TRUE)
  /\ UNCHANGED registry

-----------------------------------------------------------------------------
(* uninstall_service()                                                       *)

UninstallRefused(outcome) ==
  /\ step = "delete"
  /\ EndUninstall(outcome, TRUE)
  /\ UNCHANGED registry

\* OpenService fails: there is no service, or for another reason.
OpenServiceFails ==
  /\ step = "delete"
  /\ \E fault \in {TRUE, service # None} : EndUninstall("failed", fault)
  /\ UNCHANGED registry

\* Mutant of DeleteService: the registry first, and its error ends the command.
DeleteServiceLast ==
  /\ step = "delete" /\ service # None
  /\ EndUninstall("failed", faulty)
  /\ UNCHANGED registry

\* A service that runs is only marked.  The result is not looked at.
DeleteService ==
  /\ step = "delete" /\ service # None
  /\ \/ UNCHANGED registry /\ Then("unregister", TRUE)
     \/ /\ service' = IF running THEN service ELSE None
        /\ marked' = running
        /\ UNCHANGED <<running, appKey>>
        /\ Then("unregister", faulty)

\* The key to be deleted is named after the whole path, the one that was made after
\* the file name: none is found, and the last error may be no error.
Unregister ==
  /\ step = "unregister"
  /\ \E outcome \in {"failed", "uninstalled"} : EndUninstall(outcome, faulty)
  /\ UNCHANGED registry

-----------------------------------------------------------------------------
(* Windows                                                                   *)

StartService ==
  /\ service # None /\ ~running /\ ~marked
  /\ running' = TRUE
  /\ UNCHANGED <<step, command, service, marked, appKey, said, faulty, clean>>

StopService ==
  /\ running /\ running' = FALSE
  /\ service' = IF marked THEN None ELSE service
  /\ marked' = FALSE
  /\ UNCHANGED <<step, command, appKey, said, faulty, clean>>

\* The process is killed, or the machine goes down, in the middle of a command.
Kill ==
  /\ step # "idle" /\ step' = "idle"
  /\ clean' = 0
  /\ UNCHANGED <<command, registry, said, faulty>>

-----------------------------------------------------------------------------
SetupNext ==
  \/ OptionsOnly \/ Launch
  \/ \E p \in Paths, o \in Options : Install(p, o) \/ Uninstall(p, o)
  \/ \E outcome \in {"failed", "aborted"} : InstallRefused(outcome) \/ UninstallRefused(outcome)
  \/ CreateService \/ CreateServiceFails
  \/ CreateKey \/ SetDefault \/ SetDir \/ RegisterFails
  \/ OpenServiceFails \/ DeleteService \/ Unregister
  \/ StartService \/ StopService \/ Kill

SetupSpec == SetupInit /\ [][SetupNext]_setupVars

-----------------------------------------------------------------------------
Entry == [path |-> path, options |-> options]

(* "Service is installed" (main.cpp:112) is said only of a service that is   *)
(* registered with the executable and the options of that command, and that  *)
(* is not about to go, whatever earlier commands have left behind.           *)
InstalledIsRegistered == said = "installed" => service = Entry /\ ~marked

(* Nothing that a failed or killed command leaves behind is in the way of a  *)
(* new start: after an uninstall and an install in which no call failed, all *)
(* is registered for the new path and the success is reported.               *)
Reinstalled ==
  clean = 2 /\ step = "idle" =>
     /\ said = "installed" /\ service = Entry /\ ~marked
     /\ appKey = [default |-> path, dir |-> path]
==============================================================================
