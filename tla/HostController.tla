---------------------------- MODULE HostController ----------------------------
(***************************************************************************)
(* x96dbg-mcp-control: every run of it is a process of its own that looks  *)
(* for the debugger host by its image path, asks the backend's port for    *)
(* the debuggee's state, starts or closes the host, or rewrites            *)
(* scylla_hide.ini.  Nothing orders two runs of it, the user, the hosts    *)
(* and the plugin's own profile tool: each step below is one call to the   *)
(* system, and everybody may act between two of them.                      *)
(***************************************************************************)
EXTENDS ScyllaHideConfig

CONSTANTS
  Controller,    \* runs of the controller
  Commands,      \* [Controller -> sets of commands]: what each run may be asked
  Pid,           \* process ids, reused when the system may
  Plugin,        \* the plugin as a writer of the ini
  FirstText,     \* the ini as installed
  Requested,     \* profiles that are asked for
  MaxBirths      \* bound on processes ever created

VARIABLES
  proc,     \* the process table
  births,   \* processes created so far
  ctl,      \* the runs of the controller
  ini,      \* scylla_hide.ini
  temp,     \* the temporary file of each writer
  set       \* the plugin's scyllahide.profile call

vars == <<proc, births, ctl, ini, temp, set>>

Writer == Controller \cup {Plugin}
NoFile == <<>>
Torn == OtherLine("torn")   \* a text that was not written whole is <<Torn>>

ASSUME ControllerAssumption ==
  /\ Plugin \notin Controller
  /\ Requested \subseteq Name
  /\ MaxBirths \in Nat

\* The ini as installed is a text that the parser takes.
ASSUME InstalledAssumption ==
  /\ FirstText \in Seq([kind : {"section", "current", "other"}, name : Name])
  /\ ParseScyllaHideConfig(FirstText) # ""

NoProcess == [kind |-> "free", born |-> 0, debuggee |-> "absent", listening |-> FALSE]

\* The processes that run at the expected path; OpenProcess refuses the hidden ones.
Hosts == {p \in Pid : proc[p].kind = "host"}
Anyone == {p \in Pid : proc[p].kind \in {"host", "hidden"}}
Running(born) == \E p \in Pid : proc[p].born = born /\ proc[p].kind \notin {"free", "exited"}

Idle == [command |-> "none", force |-> FALSE, at |-> "idle", host |-> 0, found |-> 0,
         hit |-> {}, late |-> FALSE, calm |-> FALSE, alone |-> FALSE, server |-> 0,
         answer |-> "none", profile |-> "", text |-> Refused]

\* Mutant: FindHosts keeps the ids and closes the handles.
HeldPidsOfNone == {}

\* HostProcess keeps its handle while the command runs: the id is not reused.
HeldPids == {ctl[c].host : c \in {d \in Controller : ctl[d].at \notin {"idle", "done"}}}

Init ==
  /\ proc = [p \in Pid |-> NoProcess]
  /\ births = 0
  /\ ctl = [c \in Controller |-> Idle]
  /\ ini = FirstText
  /\ temp = [w \in Writer |-> NoFile]
  /\ set = [at |-> "idle", profile |-> "", text |-> Refused, answer |-> "none"]

-----------------------------------------------------------------------------
(* The system: processes come and go.                                      *)

Born(p, kind) ==
  /\ births < MaxBirths
  /\ \/ proc[p].kind = "free"
     \/ proc[p].kind = "exited" /\ p \notin HeldPids
  /\ births' = births + 1
  /\ proc' = [proc EXCEPT ![p] = [NoProcess EXCEPT !.kind = kind, !.born = births + 1]]

\* The user starts a host, or something else takes the id.
Spawn(p, kind) ==
  /\ Born(p, kind)
  /\ ctl' = IF kind = "other" THEN ctl
            ELSE [c \in Controller |-> [ctl[c] EXCEPT !.alone = FALSE]]
  /\ UNCHANGED <<ini, temp, set>>

Gone(p) == [NoProcess EXCEPT !.kind = "exited", !.born = proc[p].born]

Exit(p) ==
  /\ proc[p].kind \notin {"free", "exited"}
  /\ proc' = [proc EXCEPT ![p] = Gone(p)]
  /\ UNCHANGED <<births, ctl, ini, temp, set>>

\* The sidecar of one host at a time can hold the port.
Listen(p) ==
  /\ p \in Anyone /\ \A q \in Pid : ~proc[q].listening
  /\ proc' = [proc EXCEPT ![p].listening = TRUE]
  /\ UNCHANGED <<births, ctl, ini, temp, set>>

Deafen(p) ==
  /\ proc[p].listening
  /\ proc' = [proc EXCEPT ![p].listening = FALSE]
  /\ UNCHANGED <<births, ctl, ini, temp, set>>

DebuggeeChanges(p) ==
  /\ p \in Anyone
  /\ proc' = [proc EXCEPT ![p].debuggee = IF @ = "absent" THEN "active" ELSE "absent"]
  /\ ctl' = [c \in Controller |->
               [ctl[c] EXCEPT !.calm = @ \/ (ctl[c].host = p /\ proc'[p].debuggee = "absent")]]
  /\ UNCHANGED <<births, ini, temp, set>>

DeadlinePasses(c) ==
  /\ ctl[c].at \notin {"idle", "done"} /\ ~ctl[c].late
  /\ ctl' = [ctl EXCEPT ![c].late = TRUE]
  /\ UNCHANGED <<proc, births, ini, temp, set>>

-----------------------------------------------------------------------------
(* wmain: one command, one answer.                                         *)

World == UNCHANGED <<proc, births, ini, temp, set>>

Move(c, at) == ctl' = [ctl EXCEPT ![c].at = at] /\ World
Answered(c, code) == [ctl EXCEPT ![c].at = "done", ![c].answer = code, ![c].late = FALSE,
                                 ![c].text = Refused, ![c].profile = "", ![c].calm = FALSE,
                                 ![c].force = FALSE, ![c].alone = @ /\ code = "ok"]
Answer(c, code) == ctl' = Answered(c, code) /\ World

\* ParseOptions and ResolvePaths have accepted; --force goes with stop and restart.
Begin(c, command, force, profile) ==
  /\ ctl[c].at = "idle" /\ command \in Commands[c]
  /\ force => command \in {"stop", "restart"}
  /\ (command = "profile") = (profile # "")
  /\ ctl' = [ctl EXCEPT ![c].command = command, ![c].force = force,
                        ![c].profile = profile, ![c].at = "find"]
  /\ World

\* FindHosts, and what every command makes of its result.
Found(c, p) ==
  [ctl EXCEPT ![c].host = p, ![c].found = proc[p].born,
              ![c].calm = proc[p].debuggee = "absent", ![c].alone = Anyone = {p},
              ![c].at = CASE ctl[c].command = "status" -> "report"
                          [] ctl[c].command = "start" -> "present"
                          [] OTHER -> IF ctl[c].force THEN "window" ELSE "health"]

FindHosts(c) ==
  /\ ctl[c].at = "find"
  /\ \/ Answer(c, "OS_ERROR")
     \/ ctl[c].command = "profile" /\ Hosts # {} /\ Answer(c, "HOST_RUNNING")
     \/ ctl[c].command = "profile" /\ Hosts = {} /\ Move(c, "read")
     \/ ctl[c].command # "profile" /\ Cardinality(Hosts) > 1 /\ Answer(c, "MULTIPLE_HOSTS")
     \/ /\ ctl[c].command # "profile"
        /\ \E p \in Hosts : Hosts = {p} /\ ctl' = Found(c, p)
        /\ World
     \/ Hosts = {} /\ CASE ctl[c].command = "start" -> Move(c, "launch")
                       [] ctl[c].command = "restart" -> Move(c, "again")
                       [] ctl[c].command \in {"status", "stop"} -> Answer(c, "ok")
                       [] OTHER -> FALSE

\* restart: StopHost returned, its handle is closed, and StartHost looks again.
FindAgain(c) ==
  /\ ctl[c].at = "again"
  /\ \/ Answer(c, "OS_ERROR")
     \/ Cardinality(Hosts) > 1 /\ Answer(c, "MULTIPLE_HOSTS")
     \/ /\ \E p \in Hosts : /\ Hosts = {p}
                            /\ ctl' = [ctl EXCEPT ![c].host = p, ![c].at = "present",
                                                  ![c].alone = Anyone = {p}]
        /\ World
     \/ Hosts = {} /\ Move(c, "launch")

\* QueryHealth: whoever holds the port answers, or nobody does in time.
NoAnswer == [server |-> 0, debuggee |-> "unknown"]
QueryHealth ==
  {NoAnswer} \cup {[server |-> p, debuggee |-> proc[p].debuggee] :
                     p \in {q \in Pid : proc[q].listening}}

Status(c) == ctl[c].at = "report" /\ \E health \in QueryHealth : Answer(c, "ok")

-----------------------------------------------------------------------------
(* StartHost                                                               *)

StartFoundHost(c) ==
  /\ ctl[c].at = "present"
  /\ \E health \in QueryHealth :
       IF health = NoAnswer THEN Answer(c, "HOST_RUNNING_NOT_READY")
       ELSE /\ ctl' = [Answered(c, "ok") EXCEPT ![c].server = health.server]
            /\ World

CreateProcess(c) ==
  /\ ctl[c].at = "launch"
  /\ \/ Answer(c, "START_FAILED")
     \/ \E p \in Pid :
          /\ Born(p, "host")
          /\ ctl' = [d \in Controller |->
                       IF d = c THEN [ctl[c] EXCEPT !.host = p, !.at = "poll",
                                                    !.alone = Anyone = {}]
                       ELSE [ctl[d] EXCEPT !.alone = FALSE]]
          /\ UNCHANGED <<ini, temp, set>>

PollReadiness(c) ==
  /\ ctl[c].at = "poll"
  /\ \/ ctl[c].late /\ Answer(c, "START_TIMEOUT")
     \/ proc[ctl[c].host].kind = "exited" /\ Answer(c, "HOST_EXITED")
     \/ /\ proc[ctl[c].host].kind # "exited"
        /\ \E health \in QueryHealth \ {NoAnswer} :
             ctl' = [Answered(c, "ok") EXCEPT ![c].server = health.server]
        /\ World

-----------------------------------------------------------------------------
(* StopHost                                                                *)

CheckDebuggee(c) ==
  /\ ctl[c].at = "health"
  /\ \E health \in QueryHealth :
       CASE health = NoAnswer -> Answer(c, "BACKEND_UNAVAILABLE")
         [] health.debuggee = "active" -> Answer(c, "DEBUGGEE_ACTIVE")
         [] OTHER -> Move(c, "window")

\* The process that the id names now gets the message or the kill.
Hit(c) == ctl[c].hit \cup {proc[ctl[c].host].born}

\* The polite way failed with this code: --force goes on to TerminateProcess.
GiveUp(c, code) ==
  /\ ctl' = IF ctl[c].force THEN [ctl EXCEPT ![c].answer = code, ![c].at = "kill"]
            ELSE Answered(c, code)
  /\ World

\* A window of the id is found and WM_CLOSE posted to it, or none is in time.
CloseWindow(c) ==
  /\ ctl[c].at = "window"
  /\ \/ /\ proc[ctl[c].host].kind \notin {"free", "exited"}
        /\ ctl' = [ctl EXCEPT ![c].hit = Hit(c), ![c].at = "wait"]
        /\ World
     \/ GiveUp(c, "NO_MAIN_WINDOW")

\* StopHost returns without an error: stop answers, restart goes on.
StopDone(c) ==
  IF ctl[c].command = "restart" THEN [ctl EXCEPT ![c].host = 0, ![c].at = "again"]
  ELSE Answered(c, "ok")

\* Mutant: a wait that timed out is taken for an exit.
AwaitExitOrDeadline(c) ==
  /\ ctl[c].at = "wait"
  /\ ctl[c].late \/ proc[ctl[c].host].kind = "exited"
  /\ ctl' = StopDone(c) /\ World

AwaitExit(c) ==
  /\ ctl[c].at = "wait"
  /\ \/ proc[ctl[c].host].kind = "exited" /\ ctl' = StopDone(c) /\ World
     \/ ctl[c].late /\ GiveUp(c, "STOP_TIMEOUT")
     \/ Answer(c, "WAIT_FAILED")

\* TerminateProcess(host.id), and the wait for it on the handle.
Terminate(c) ==
  /\ ctl[c].at = "kill"
  /\ \/ /\ proc[ctl[c].host].kind \notin {"free", "exited"}
        /\ proc' = [proc EXCEPT ![ctl[c].host] = Gone(ctl[c].host)]
        /\ ctl' = [ctl EXCEPT ![c].hit = Hit(c), ![c].at = "killed"]
        /\ UNCHANGED <<births, ini, temp, set>>
     \/ Answer(c, ctl[c].answer)

AwaitKill(c) ==
  /\ ctl[c].at = "killed"
  /\ \/ proc[ctl[c].host].kind = "exited" /\ ctl' = StopDone(c) /\ World
     \/ Answer(c, ctl[c].answer)

-----------------------------------------------------------------------------
(* AtomicReplace and AtomicReplaceScyllaHideConfig: a new file, its text,  *)
(* and a rename over the ini.  A writer that dies leaves its file behind.  *)

Files == UNCHANGED <<proc, births>>

CreateTemporary(w, text) ==
  /\ temp[w] = NoFile
  /\ \E written \in {text, <<Torn>>} : temp' = [temp EXCEPT ![w] = written]
  /\ UNCHANGED ini

\* Mutant: what WriteFile and FlushFileBuffers said is not looked at.
ReplaceUnchecked(w, text) == ini' = temp[w] /\ temp' = [temp EXCEPT ![w] = NoFile]

\* MoveFileExW, only of a file that was written whole.
Replace(w, text) ==
  /\ temp[w] = text
  /\ ini' = temp[w] /\ temp' = [temp EXCEPT ![w] = NoFile]

\* DeleteFileW, whose result nobody looks at.
DeleteTemporary(w) ==
  /\ \E left \in {NoFile, temp[w]} : temp' = [temp EXCEPT ![w] = left]
  /\ UNCHANGED ini

\* UpdateProfile
ReadIni(c) ==
  /\ ctl[c].at = "read"
  /\ LET text == SetScyllaHideProfile(ini, ctl[c].profile)
     IN \/ Answer(c, "SCYLLAHIDE_NOT_INSTALLED")
        \/ text = Refused /\ Answer(c, "INVALID_PROFILE")
        \/ text # Refused /\ ctl' = [ctl EXCEPT ![c].text = text, ![c].at = "create"] /\ World

UpdateProfile(c) ==
  /\ Files /\ UNCHANGED set
  /\ \/ /\ ctl[c].at = "create"
        /\ \/ CreateTemporary(c, ctl[c].text) /\ ctl' = [ctl EXCEPT ![c].at = "replace"]
           \/ ctl' = Answered(c, "PROFILE_WRITE_FAILED") /\ UNCHANGED <<ini, temp>>
     \/ /\ ctl[c].at = "replace"
        /\ \/ Replace(c, ctl[c].text) /\ ctl' = Answered(c, "ok")
           \/ DeleteTemporary(c) /\ ctl' = Answered(c, "PROFILE_WRITE_FAILED")

\* The run is killed: its file stays, and its handle is closed.
Killed(c) ==
  /\ ctl[c].at \notin {"idle", "done"}
  /\ Answer(c, "killed")

-----------------------------------------------------------------------------
(* ScyllaHideProfileResponse, action set: read, compare, replace, verify.  *)

SetAnswer(code) == set' = [set EXCEPT !.at = "done", !.answer = code]

\* The client sends the generation of the text that it read.
SetBegin(profile) ==
  /\ set.at = "idle" /\ Anyone # {}
  /\ set' = [set EXCEPT !.at = "read", !.profile = profile, !.text = ini]
  /\ UNCHANGED <<ini, temp>>

SetRead ==
  /\ set.at = "read"
  /\ LET text == SetScyllaHideProfile(ini, set.profile)
     IN \/ SetAnswer("SCYLLAHIDE_NOT_INSTALLED")
        \/ IF ParseScyllaHideConfig(ini) = "" THEN SetAnswer("SCYLLAHIDE_CONFIG_INVALID")
           ELSE IF ini # set.text THEN SetAnswer("CONFIG_GENERATION_MISMATCH")
           ELSE IF text = Refused THEN SetAnswer("PROFILE_NOT_FOUND")
           ELSE IF text = ini THEN set' = [set EXCEPT !.at = "verify"]
           ELSE set' = [set EXCEPT !.at = "create", !.text = text]
  /\ UNCHANGED <<ini, temp>>

SetWrite ==
  \/ /\ set.at = "create"
     /\ \/ CreateTemporary(Plugin, set.text) /\ set' = [set EXCEPT !.at = "replace"]
        \/ SetAnswer("PROFILE_WRITE_FAILED") /\ UNCHANGED <<ini, temp>>
  \/ /\ set.at = "replace"
     /\ \/ Replace(Plugin, set.text) /\ set' = [set EXCEPT !.at = "verify"]
        \/ DeleteTemporary(Plugin) /\ SetAnswer("PROFILE_WRITE_FAILED")

SetVerify ==
  /\ set.at = "verify"
  /\ \/ /\ ParseScyllaHideConfig(ini) = CanonicalProfile(set.text, set.profile)
        /\ SetAnswer("ok")
     \/ SetAnswer("PROFILE_WRITE_FAILED")
  /\ UNCHANGED <<ini, temp>>

ProfileTool ==
  /\ Files /\ UNCHANGED ctl
  /\ (\E profile \in Requested : SetBegin(profile)) \/ SetRead \/ SetWrite \/ SetVerify

-----------------------------------------------------------------------------
Step(c) ==
  \/ FindHosts(c) \/ FindAgain(c) \/ Status(c)
  \/ StartFoundHost(c) \/ CreateProcess(c) \/ PollReadiness(c)
  \/ CheckDebuggee(c) \/ CloseWindow(c) \/ AwaitExit(c) \/ Terminate(c) \/ AwaitKill(c)
  \/ ReadIni(c) \/ UpdateProfile(c)

\* What the processes do after the last answer is not followed.
Busy == \E c \in Controller : ctl[c].at # "done"

Next ==
  \/ \E c \in Controller : Step(c) \/ DeadlinePasses(c) \/ Killed(c)
  \/ \E c \in Controller, force \in BOOLEAN :
       \/ \E command \in {"status", "start", "stop", "restart"} : Begin(c, command, force, "")
       \/ \E profile \in Requested : Begin(c, "profile", force, profile)
  \/ \E p \in Pid : /\ Busy
                    /\ \/ Exit(p) \/ Listen(p) \/ Deafen(p) \/ DebuggeeChanges(p)
                       \/ \E kind \in {"host", "hidden", "other"} : Spawn(p, kind)
  \/ ProfileTool

Spec == Init /\ [][Next]_vars

-----------------------------------------------------------------------------
(* Properties                                                              *)

\* What a command closes or terminates by id is the very host that it found,
\* although processes end and ids are reused meanwhile (StopHost).
HitsOnlyItsHost == \A c \in Controller : ctl[c].hit \subseteq {ctl[c].found}

\* Without --force a host is closed only if its debuggee was absent at some
\* instant of the command.  The port is asked, not the process: another host
\* at the same path may have answered, so the claim is for a host that was
\* alone throughout (StopHost, QueryHealth).
UnforcedCloseSawAbsent ==
  \A c \in Controller :
    (ctl[c].at = "wait" /\ ~ctl[c].force /\ ctl[c].alone) => ctl[c].calm

\* A command that closes a host closes the right one for the right reason.
ClosesTheRightHost == HitsOnlyItsHost /\ UnforcedCloseSawAbsent

\* A stop that answers ok leaves no trace of the host it found, and a restart
\* starts nothing while its old host runs (StopHost, wmain).
StopOkMeansGone ==
  \A c \in Controller :
    \/ ctl[c].command = "stop" /\ ctl[c].answer = "ok"
    \/ ctl[c].at \in {"again", "launch", "poll"} /\ ctl[c].command = "restart"
    => ~Running(ctl[c].found)

\* A start that answers ok names the process whose backend answered, unless
\* another host ran meanwhile (StartHost).
StartNamesTheServer ==
  \A c \in Controller :
    (ctl[c].command = "start" /\ ctl[c].answer = "ok" /\ ctl[c].alone)
      => ctl[c].server = ctl[c].host

\* What a run answers of the hosts is true of them.
AnswersAreTrue == StopOkMeansGone /\ StartNamesTheServer

\* A text that SetScyllaHideProfile writes and ParseScyllaHideConfig refuses, or
\* takes for another profile's: the request named SETTINGS or a section with
\* blanks inside its brackets, or the name made the text exceed its bound.
Awkward(text) ==
  LET assigned == text[Max(ProfileLines(text))].name
  IN ~Fits(text) \/ EqualInsensitive(assigned, "SETTINGS") \/ Trim[assigned] # assigned

\* Whoever dies or fails and whoever else writes, scylla_hide.ini is always a
\* whole text, of the sections and lines that were installed, with one assigned
\* profile; and it selects that profile, unless one of the awkward requests that
\* SetScyllaHideProfile accepts was carried out (AtomicReplace,
\* ScyllaHideProfileResponse).
IniStaysUsable ==
  /\ DOMAIN ini = DOMAIN FirstText
  /\ ProfileLines(ini) = ProfileLines(FirstText)
  /\ \A i \in DOMAIN ini \ ProfileLines(ini) : ini[i] = FirstText[i]
  /\ ParseScyllaHideConfig(ini) # "" \/ Awkward(ini)

=============================================================================
