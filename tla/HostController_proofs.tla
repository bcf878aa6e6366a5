------------------------ MODULE HostController_proofs ------------------------
(***************************************************************************)
(* Proofs about HostController, for any number of runs of the controller   *)
(* at once, any process ids and any text of the ini.  The inductive        *)
(* invariant HostInv says of every run what it may rely on: that its       *)
(* handle keeps the id it found from being reused, that nobody joined it   *)
(* since it was alone, and what it has learned.  IniInv says of every      *)
(* writer that the text in its hands selects a profile.                    *)
(***************************************************************************)
EXTENDS HostController, FiniteSetTheorems, WellFoundedInduction, NaturalsInduction, TLAPS

ProcFields == {"kind", "born", "debuggee", "listening"}
RunFields == {"command", "force", "at", "host", "found", "hit", "late", "calm", "alone",
              "server", "answer", "profile", "text"}

\* The process table P after B births: every process that was ever created has
\* a birth of its own, and only a host that runs holds the port.
Alive(P) == {p \in Pid : P[p].kind \in {"host", "hidden"}}
Runs(P, born) == \E p \in Pid : P[p].born = born /\ P[p].kind \notin {"free", "exited"}

ProcOK(P, B) ==
  /\ B \in Nat
  /\ DOMAIN P = Pid
  /\ \A p \in Pid :
       /\ DOMAIN P[p] = ProcFields
       /\ P[p].born \in 0..B
       /\ P[p].born = 0 <=> P[p].kind = "free"
       /\ P[p].listening => P[p].kind \in {"host", "hidden"}
       /\ P[p].debuggee \in {"absent", "active"}
  /\ \A p, q \in Pid : P[p].born = P[q].born /\ p # q => P[p].born = 0

\* The stages of StopHost, and those at which a run has a host in hand.
StopStages == {"health", "window", "wait", "kill", "killed"}
HostStages == StopStages \cup {"report", "present", "poll"}

\* Which stages belong to which command.
StageFits(r) ==
  /\ r.at # "idle" => r.command \in {"status", "start", "stop", "restart", "profile"}
  /\ r.at = "report" => r.command = "status"
  /\ r.at \in {"present", "launch", "poll"} => r.command \in {"start", "restart"}
  /\ r.at \in StopStages => r.command \in {"stop", "restart"}
  /\ r.at = "again" => r.command = "restart"
  /\ r.at \in {"read", "create", "replace"} => r.command = "profile"
  /\ r.answer = "ok" => r.at = "done"

\* A run that stops its host holds the handle of the process it found: the id
\* still names that process, alive or not.
HandleHolds(r, P, B) ==
  /\ r.found \in 0..B
  /\ r.at \in {"idle", "find"} => r.found = 0 /\ r.hit = {}
  /\ r.hit \subseteq {r.found}
  /\ r.at \in StopStages => r.host \in Pid /\ r.found # 0 /\ P[r.host].born = r.found

\* A run that believes to be alone is, and has noticed when its host's debuggee
\* was absent.
AloneHolds(r, P) ==
  /\ r.at \in HostStages /\ r.alone => Alive(P) \subseteq {r.host}
  /\ r.at \in StopStages /\ r.host \in Alive(P) /\ P[r.host].debuggee = "absent" => r.calm
  /\ r.at \in {"window", "wait"} /\ ~r.force /\ r.alone => r.calm

\* What a run has answered, or goes on from.
ClaimsHold(r, P) ==
  /\ \/ r.command = "stop" /\ r.answer = "ok"
     \/ r.at \in {"again", "launch", "poll"} /\ r.command = "restart"
     => ~Runs(P, r.found)
  /\ r.command = "start" /\ r.answer = "ok" /\ r.alone => r.server = r.host

RunOK(r, P, B) ==
  /\ DOMAIN r = RunFields
  /\ StageFits(r) /\ HandleHolds(r, P, B) /\ AloneHolds(r, P) /\ ClaimsHold(r, P)

HostInv ==
  /\ ProcOK(proc, births)
  /\ DOMAIN ctl = Controller
  /\ \A c \in Controller : RunOK(ctl[c], proc, births)

-----------------------------------------------------------------------------
(* The process table.                                                      *)

\* The changes of the table.
WithBirth(P, p, kind, born) == [P EXCEPT ![p] = [NoProcess EXCEPT !.kind = kind, !.born = born]]
WithExit(P, p) == [P EXCEPT ![p] = [NoProcess EXCEPT !.kind = "exited", !.born = P[p].born]]
WithField(P, p, f, v) == [P EXCEPT ![p] = [P[p] EXCEPT ![f] = v]]

\* A birth takes an id that nobody holds, and is a process of its own.
LEMMA BirthIsNew ==
  ASSUME NEW P, NEW B, ProcOK(P, B), NEW p \in Pid, P[p].kind \in {"free", "exited"},
         NEW kind \in {"host", "hidden", "other"}, NEW Q,
         Q = WithBirth(P, p, kind, B + 1)
  PROVE  /\ ProcOK(Q, B + 1)
         /\ Q[p].kind = kind /\ Q[p].born = B + 1
         /\ \A q \in Pid : q # p => Q[q] = P[q]
         /\ Alive(Q) \subseteq Alive(P) \cup {p}
         /\ kind = "other" => Alive(Q) = Alive(P)
<1> DEFINE new == [NoProcess EXCEPT !.kind = kind, !.born = B + 1]
<1>1. /\ DOMAIN new = ProcFields /\ new.kind = kind /\ new.born = B + 1
      /\ new.listening = FALSE /\ new.debuggee = "absent"
  BY DEF NoProcess, ProcFields
<1>2. DOMAIN Q = Pid /\ Q[p] = new /\ \A q \in Pid : q # p => Q[q] = P[q]
  BY DEF ProcOK, WithBirth
<1> HIDE DEF new
<1>3. B \in Nat /\ B + 1 \in Nat
  BY DEF ProcOK
<1>4. ASSUME NEW q \in Pid
      PROVE  /\ DOMAIN Q[q] = ProcFields
             /\ Q[q].born \in 0..(B + 1)
             /\ Q[q].born = 0 <=> Q[q].kind = "free"
             /\ Q[q].listening => Q[q].kind \in {"host", "hidden"}
             /\ Q[q].debuggee \in {"absent", "active"}
  <2>1. CASE q = p
    <3>1. new.born \in 0..(B + 1) /\ new.born # 0 /\ new.kind # "free" /\ ~new.listening
      BY <1>1, <1>3
    <3> QED
      BY <1>1, <1>2, <2>1, <3>1
  <2>2. CASE q # p
    <3>1. /\ DOMAIN P[q] = ProcFields /\ P[q].born \in 0..B
          /\ P[q].born = 0 <=> P[q].kind = "free"
          /\ P[q].listening => P[q].kind \in {"host", "hidden"}
          /\ P[q].debuggee \in {"absent", "active"}
      BY DEF ProcOK
    <3>2. P[q].born \in 0..(B + 1)
      BY <1>3, <3>1
    <3> QED
      BY <1>2, <2>2, <3>1, <3>2
  <2> QED
    BY <2>1, <2>2
<1>5. ASSUME NEW q \in Pid, NEW s \in Pid, Q[q].born = Q[s].born, q # s
      PROVE  Q[q].born = 0
  <2>1. \A t \in Pid : P[t].born # B + 1
    BY <1>3 DEF ProcOK
  <2>2. q # p /\ s # p
    BY <1>1, <1>2, <1>5, <2>1
  <2> QED
    BY <1>2, <1>5, <2>2 DEF ProcOK
<1>6. Alive(Q) \subseteq Alive(P) \cup {p} /\ (kind = "other" => Alive(Q) = Alive(P))
  BY <1>1, <1>2 DEF Alive
<1> QED
  BY <1>1, <1>2, <1>3, <1>4, <1>5, <1>6 DEF ProcOK

\* An exit leaves the birth in the table while a handle is open.
LEMMA ExitIsKnown ==
  ASSUME NEW P, NEW B, ProcOK(P, B), NEW p \in Pid, P[p].kind \notin {"free", "exited"}, NEW Q,
         Q = WithExit(P, p)
  PROVE  /\ ProcOK(Q, B) /\ Q[p].kind = "exited"
         /\ \A q \in Pid : Q[q].born = P[q].born /\ (q # p => Q[q] = P[q])
<1> DEFINE new == [NoProcess EXCEPT !.kind = "exited", !.born = P[p].born]
<1>1. /\ DOMAIN new = ProcFields /\ new.kind = "exited" /\ new.born = P[p].born
      /\ new.listening = FALSE /\ new.debuggee = "absent"
  BY DEF NoProcess, ProcFields
<1>2. DOMAIN Q = Pid /\ Q[p] = new /\ \A q \in Pid : q # p => Q[q] = P[q]
  BY DEF ProcOK, WithExit
<1> HIDE DEF new
<1>3. \A q \in Pid : Q[q].born = P[q].born
  BY <1>1, <1>2
<1>4. ASSUME NEW q \in Pid
      PROVE  /\ DOMAIN Q[q] = ProcFields
             /\ Q[q].born \in 0..B
             /\ Q[q].born = 0 <=> Q[q].kind = "free"
             /\ Q[q].listening => Q[q].kind \in {"host", "hidden"}
             /\ Q[q].debuggee \in {"absent", "active"}
  <2>1. CASE q = p
    BY <1>1, <1>2, <2>1 DEF ProcOK
  <2>2. CASE q # p
    BY <1>2, <2>2 DEF ProcOK
  <2> QED
    BY <2>1, <2>2
<1> QED
  BY <1>1, <1>2, <1>3, <1>4 DEF ProcOK

\* The port and the debuggee change within one process.
LEMMA FieldChange ==
  ASSUME NEW P, NEW B, ProcOK(P, B), NEW p \in Pid, NEW Q, NEW f \in {"listening", "debuggee"},
         NEW v, Q = WithField(P, p, f, v),
         f = "listening" => (v => p \in Alive(P)), f = "debuggee" => v \in {"absent", "active"}
  PROVE  /\ ProcOK(Q, B)
         /\ \A q \in Pid : Q[q].born = P[q].born /\ Q[q].kind = P[q].kind
         /\ \A q \in Pid : q # p \/ f # "debuggee" => Q[q].debuggee = P[q].debuggee
         /\ f = "debuggee" => Q[p].debuggee = v
<1> DEFINE new == [P[p] EXCEPT ![f] = v]
<1>1. /\ DOMAIN new = ProcFields /\ new.kind = P[p].kind /\ new.born = P[p].born
      /\ new.listening = IF f = "listening" THEN v ELSE P[p].listening
      /\ new.debuggee = IF f = "debuggee" THEN v ELSE P[p].debuggee
  BY DEF ProcOK, ProcFields
<1>2. DOMAIN Q = Pid /\ Q[p] = new /\ \A q \in Pid : q # p => Q[q] = P[q]
  BY DEF ProcOK, WithField
<1> HIDE DEF new
<1>3. \A q \in Pid : Q[q].born = P[q].born /\ Q[q].kind = P[q].kind
  BY <1>1, <1>2
<1>4. ASSUME NEW q \in Pid
      PROVE  /\ DOMAIN Q[q] = ProcFields
             /\ Q[q].listening => Q[q].kind \in {"host", "hidden"}
             /\ Q[q].debuggee \in {"absent", "active"}
  <2>1. CASE q = p
    BY <1>1, <1>2, <2>1 DEF ProcOK, Alive
  <2>2. CASE q # p
    BY <1>2, <2>2 DEF ProcOK
  <2> QED
    BY <2>1, <2>2
<1>5. ProcOK(Q, B)
  BY <1>2, <1>3, <1>4 DEF ProcOK
<1> QED
  BY <1>1, <1>2, <1>3, <1>5

-----------------------------------------------------------------------------
(* A run, while others act.                                                *)

\* r with a field that others may write: nobody is alone when a host joins.
Joined(r) == [r EXCEPT !.alone = FALSE]

\* A birth: the id is not the one whose handle the run holds.
LEMMA RunSurvivesBirth ==
  ASSUME NEW P, NEW B, ProcOK(P, B), NEW p \in Pid, P[p].kind \in {"free", "exited"},
         NEW kind \in {"host", "hidden", "other"}, NEW Q,
         Q = WithBirth(P, p, kind, B + 1),
         NEW r, RunOK(r, P, B),
         P[p].kind = "free" \/ r.at \in {"idle", "done"} \/ r.host # p,
         NEW n, n = IF kind = "other" THEN r ELSE Joined(r)
  PROVE  RunOK(n, Q, B + 1)
<1>0. \A q \in Pid : q # p => Q[q] = P[q]
  BY BirthIsNew
<1>1. /\ Q[p].kind = kind /\ Q[p].born = B + 1 /\ \A q \in Pid : q # p => Q[q] = P[q]
      /\ Alive(Q) \subseteq Alive(P) \cup {p}
      /\ kind = "other" => Alive(Q) = Alive(P)
  BY <1>0, BirthIsNew
<1>2. /\ DOMAIN n = RunFields /\ \A f \in RunFields \ {"alone"} : n[f] = r[f]
      /\ n.alone => r.alone /\ kind = "other"
  BY DEF RunOK, Joined, RunFields
<1>3. /\ StageFits(r) /\ HandleHolds(r, P, B) /\ AloneHolds(r, P) /\ ClaimsHold(r, P)
      /\ B \in Nat
  BY DEF RunOK, ProcOK
<1>4. r.at \in StopStages => r.host # p
  <2>1. \A q \in Pid : P[q].kind = "free" => P[q].born = 0
    BY DEF ProcOK
  <2> QED
    BY <1>3, <2>1 DEF HandleHolds, StopStages
<1>5. StageFits(n)
  BY <1>2, <1>3 DEF StageFits, RunFields
<1>6. HandleHolds(n, Q, B + 1)
  BY <1>1, <1>2, <1>3, <1>4 DEF HandleHolds, RunFields
<1>7. AloneHolds(n, Q)
  <2>1. n.at \in HostStages /\ n.alone => Alive(Q) \subseteq {n.host}
    BY <1>1, <1>2, <1>3 DEF AloneHolds, RunFields
  <2>2. n.at \in StopStages /\ n.host \in Alive(Q) /\ Q[n.host].debuggee = "absent" => n.calm
    BY <1>1, <1>2, <1>3, <1>4 DEF AloneHolds, RunFields, Alive
  <2>3. n.at \in {"window", "wait"} /\ ~n.force /\ n.alone => n.calm
    BY <1>2, <1>3 DEF AloneHolds, RunFields
  <2> QED
    BY <2>1, <2>2, <2>3 DEF AloneHolds
<1>8. ClaimsHold(n, Q)
  <2>1. Runs(Q, r.found) => Runs(P, r.found)
    <3>1. r.found # B + 1
      BY <1>3 DEF HandleHolds
    <3> QED
      BY <1>1, <3>1 DEF Runs
  <2> QED
    BY <1>2, <1>3, <2>1 DEF ClaimsHold, RunFields
<1> QED
  BY <1>2, <1>5, <1>6, <1>7, <1>8 DEF RunOK

\* An exit: the id keeps its birth, and fewer processes run.
LEMMA RunSurvivesExit ==
  ASSUME NEW P, NEW B, ProcOK(P, B), NEW p \in Pid, P[p].kind \notin {"free", "exited"}, NEW Q,
         Q = WithExit(P, p),
         NEW r, RunOK(r, P, B)
  PROVE  RunOK(r, Q, B)
<1>1. /\ Q[p].kind = "exited"
      /\ \A q \in Pid : Q[q].born = P[q].born /\ (q # p => Q[q] = P[q])
  BY ExitIsKnown
<1>2. StageFits(r) /\ HandleHolds(r, P, B) /\ AloneHolds(r, P) /\ ClaimsHold(r, P)
  BY DEF RunOK
<1>3. Alive(Q) \subseteq Alive(P) /\ p \notin Alive(Q)
  BY <1>1 DEF Alive
<1>4. HandleHolds(r, Q, B)
  BY <1>1, <1>2 DEF HandleHolds
<1>5. AloneHolds(r, Q)
  <2>1. r.host \in Alive(Q) => Q[r.host] = P[r.host]
    BY <1>1, <1>3 DEF Alive
  <2> QED
    BY <1>2, <1>3, <2>1 DEF AloneHolds
<1>6. ClaimsHold(r, Q)
  <2>1. Runs(Q, r.found) => Runs(P, r.found)
    BY <1>1 DEF Runs
  <2> QED
    BY <1>2, <2>1 DEF ClaimsHold
<1> QED
  BY <1>2, <1>4, <1>5, <1>6 DEF RunOK

\* The port or a debuggee changes: a run whose host has no debuggee now notes it.
LEMMA RunSurvivesChange ==
  ASSUME NEW P, NEW B, ProcOK(P, B), NEW p \in Pid, NEW Q, NEW f \in {"listening", "debuggee"},
         NEW v, Q = WithField(P, p, f, v),
         f = "listening" => (v => p \in Alive(P)), f = "debuggee" => v \in {"absent", "active"},
         NEW r, RunOK(r, P, B),
         NEW n, n = r \/ n = [r EXCEPT !.calm = @ \/ (r.host = p /\ Q[p].debuggee = "absent")],
         f = "debuggee" => n = [r EXCEPT !.calm = @ \/ (r.host = p /\ Q[p].debuggee = "absent")]
  PROVE  RunOK(n, Q, B)
<1>1. /\ \A q \in Pid : Q[q].born = P[q].born /\ Q[q].kind = P[q].kind
      /\ \A q \in Pid : q # p \/ f # "debuggee" => Q[q].debuggee = P[q].debuggee
  BY FieldChange
<1>2. Alive(Q) = Alive(P) /\ \A b : Runs(Q, b) <=> Runs(P, b)
  BY <1>1 DEF Alive, Runs
<1>3. /\ DOMAIN n = RunFields /\ \A g \in RunFields \ {"calm"} : n[g] = r[g]
      /\ r.calm => n.calm
      /\ f = "debuggee" /\ r.host = p /\ Q[p].debuggee = "absent" => n.calm
  BY DEF RunOK, RunFields
<1>4. StageFits(r) /\ HandleHolds(r, P, B) /\ AloneHolds(r, P) /\ ClaimsHold(r, P)
  BY DEF RunOK
<1>5. StageFits(n)
  BY <1>3, <1>4 DEF StageFits, RunFields
<1>6. HandleHolds(n, Q, B)
  BY <1>1, <1>3, <1>4 DEF HandleHolds, RunFields
<1>7. AloneHolds(n, Q)
  <2>1. n.at \in HostStages /\ n.alone => Alive(Q) \subseteq {n.host}
    BY <1>2, <1>3, <1>4 DEF AloneHolds, RunFields
  <2>2. n.at \in StopStages /\ n.host \in Alive(Q) /\ Q[n.host].debuggee = "absent" => n.calm
    BY <1>1, <1>2, <1>3, <1>4 DEF AloneHolds, RunFields, Alive
  <2>3. n.at \in {"window", "wait"} /\ ~n.force /\ n.alone => n.calm
    BY <1>3, <1>4 DEF AloneHolds, RunFields
  <2> QED
    BY <2>1, <2>2, <2>3 DEF AloneHolds
<1>8. ClaimsHold(n, Q)
  BY <1>2, <1>3, <1>4 DEF ClaimsHold, RunFields
<1> QED
  BY <1>3, <1>5, <1>6, <1>7, <1>8 DEF RunOK

-----------------------------------------------------------------------------
(* A run's own steps that leave the processes alone.                       *)

\* Only run c has moved.
OnlyRun(c) == DOMAIN ctl' = Controller /\ \A d \in Controller \ {c} : ctl'[d] = ctl[d]
Same(r, n, fields) == \A f \in fields : n[f] = r[f]

\* It is enough to look at the run that moved.
LEMMA OneRun ==
  ASSUME HostInv, UNCHANGED <<proc, births>>, NEW c \in Controller, OnlyRun(c),
         RunOK(ctl'[c], proc, births)
  PROVE  HostInv'
BY DEF HostInv, OnlyRun

\* A run that has answered holds nothing; it claims what it knew.
LEMMA AnsweredRun ==
  ASSUME NEW P, NEW B, NEW r, RunOK(r, P, B), NEW n, DOMAIN n = RunFields,
         Same(r, n, {"command", "host", "found", "hit"}), n.at = "done",
         r.at # "idle", n.alone => r.alone,
         n.answer = "ok" => /\ r.command = "stop" => ~Runs(P, r.found)
                            /\ r.command = "start" /\ r.alone => n.server = r.host
  PROVE  RunOK(n, P, B)
<1>1. StageFits(r) /\ HandleHolds(r, P, B) /\ ClaimsHold(r, P)
  BY DEF RunOK
<1>2. n.command = r.command /\ n.host = r.host /\ n.found = r.found /\ n.hit = r.hit
  BY DEF Same
<1>3. StageFits(n)
  BY <1>1, <1>2 DEF StageFits, StopStages
<1>4. HandleHolds(n, P, B)
  BY <1>1, <1>2 DEF HandleHolds, StopStages
<1>5. AloneHolds(n, P)
  BY DEF AloneHolds, StopStages, HostStages
<1>6. ClaimsHold(n, P)
  BY <1>1, <1>2 DEF ClaimsHold
<1> QED
  BY <1>3, <1>4, <1>5, <1>6 DEF RunOK

\* Every answer, with a code, and with the server that answered.
LEMMA AnswerKeeps ==
  ASSUME HostInv, UNCHANGED <<proc, births>>, NEW c \in Controller, ctl[c].at # "idle", NEW code,
         ctl' = Answered(c, code) \/ \E s : ctl' = [Answered(c, code) EXCEPT ![c].server = s],
         code = "ok" => /\ ctl[c].command = "stop" => ~Runs(proc, ctl[c].found)
                        /\ ctl[c].command = "start" /\ ctl[c].alone =>
                             ctl'[c].server = ctl[c].host
  PROVE  HostInv'
<1>1. DOMAIN ctl = Controller /\ DOMAIN ctl[c] = RunFields /\ RunOK(ctl[c], proc, births)
  BY DEF HostInv, RunOK
<1> DEFINE a == Answered(c, code)
<1>2. /\ DOMAIN a = Controller /\ \A d \in Controller \ {c} : a[d] = ctl[d]
      /\ DOMAIN a[c] = RunFields /\ a[c].at = "done" /\ a[c].answer = code
      /\ a[c].alone = (ctl[c].alone /\ code = "ok")
      /\ Same(ctl[c], a[c], {"command", "host", "found", "hit"})
  BY <1>1 DEF Answered, RunFields, Same
<1> HIDE DEF a
<1>3. /\ OnlyRun(c) /\ DOMAIN ctl'[c] = RunFields /\ ctl'[c].at = "done" /\ ctl'[c].answer = code
      /\ ctl'[c].alone => ctl[c].alone
      /\ Same(ctl[c], ctl'[c], {"command", "host", "found", "hit"})
  <2>1. CASE ctl' = a
    BY <1>2, <2>1 DEF OnlyRun
  <2>2. CASE \E s : ctl' = [a EXCEPT ![c].server = s]
    <3>1. PICK s : ctl' = [a EXCEPT ![c].server = s]
      BY <2>2
    <3>2. OnlyRun(c) /\ ctl'[c] = [a[c] EXCEPT !.server = s]
      BY <1>2, <3>1 DEF OnlyRun
    <3>3. DOMAIN ctl'[c] = RunFields /\ \A f \in RunFields \ {"server"} : ctl'[c][f] = a[c][f]
      BY <1>2, <3>2
    <3> QED
      BY <1>2, <3>2, <3>3 DEF RunFields, Same
  <2> QED
    BY <2>1, <2>2 DEF a
<1>4. RunOK(ctl'[c], proc, births)
  BY <1>1, <1>3, AnsweredRun
<1> QED
  BY <1>3, <1>4, OneRun

\* An answer that is no success needs nothing more.
LEMMA ErrorKeeps ==
  ASSUME HostInv, NEW c \in Controller, ctl[c].at # "idle", NEW code, code # "ok", Answer(c, code)
  PROVE  HostInv'
BY AnswerKeeps DEF Answer, World

\* The first process id means nobody: no process has birth 0.
LEMMA NobodyRuns ==
  ASSUME NEW P, NEW B, ProcOK(P, B)
  PROVE  ~Runs(P, 0)
BY DEF ProcOK, Runs

\* A command begins.
LEMMA BeginKeeps ==
  ASSUME HostInv, NEW c \in Controller, NEW command, NEW force, NEW profile,
         command \in {"status", "start", "stop", "restart", "profile"},
         Begin(c, command, force, profile)
  PROVE  HostInv'
<1>1. /\ DOMAIN ctl = Controller /\ DOMAIN ctl[c] = RunFields
      /\ StageFits(ctl[c]) /\ HandleHolds(ctl[c], proc, births)
  BY DEF HostInv, RunOK
<1>2. /\ OnlyRun(c) /\ DOMAIN ctl'[c] = RunFields /\ ctl'[c].at = "find"
      /\ ctl'[c].command = command /\ ctl[c].at = "idle"
      /\ Same(ctl[c], ctl'[c], {"found", "hit", "answer"}) /\ UNCHANGED <<proc, births>>
  BY <1>1 DEF Begin, OnlyRun, RunFields, Same, World
<1> DEFINE n == ctl'[c]
<1>3. n.at = "find" /\ n.found = 0 /\ n.hit = {} /\ n.answer # "ok" /\ n.found \in 0..births
  BY <1>1, <1>2 DEF StageFits, HandleHolds, Same
<1> HIDE DEF n
<1>4. StageFits(n)
  BY <1>2, <1>3 DEF StageFits, StopStages, n
<1>5. HandleHolds(n, proc, births)
  BY <1>3 DEF HandleHolds, StopStages
<1>6. AloneHolds(n, proc) /\ ClaimsHold(n, proc)
  BY <1>3 DEF AloneHolds, ClaimsHold, StopStages, HostStages
<1> QED
  BY <1>2, <1>4, <1>5, <1>6, OneRun DEF RunOK, n

\* A run takes another stage: what the new stage needs beyond the old one.
LEMMA MovedRun ==
  ASSUME NEW P, NEW B, NEW r, RunOK(r, P, B), NEW n, DOMAIN n = RunFields,
         Same(r, n, {"command", "force", "found", "alone", "calm"}),
         n.answer # "ok", n.hit \subseteq {n.found}, n.at \notin {"idle", "find", "done"},
         StageFits(n),
         n.at \in HostStages => r.at \in HostStages /\ n.host = r.host,
         n.at \in StopStages => r.at \in StopStages,
         n.at \in {"window", "wait"} =>
           r.at \in {"window", "wait"} \/ (~r.force /\ r.alone => r.calm),
         n.at \in {"again", "launch", "poll"} /\ n.command = "restart" => ~Runs(P, r.found)
  PROVE  RunOK(n, P, B)
<1>1. HandleHolds(r, P, B) /\ AloneHolds(r, P) /\ ClaimsHold(r, P)
  BY DEF RunOK
<1>2. /\ n.command = r.command /\ n.force = r.force /\ n.found = r.found /\ n.alone = r.alone
      /\ n.calm = r.calm
  BY DEF Same
<1>3. StopStages \subseteq HostStages
  BY DEF HostStages
<1>4. HandleHolds(n, P, B)
  BY <1>1, <1>2, <1>3 DEF HandleHolds
<1>5. AloneHolds(n, P)
  <2>1. n.at \in HostStages /\ n.alone => Alive(P) \subseteq {n.host}
    BY <1>1, <1>2 DEF AloneHolds
  <2>2. n.at \in StopStages /\ n.host \in Alive(P) /\ P[n.host].debuggee = "absent" => n.calm
    BY <1>1, <1>2, <1>3 DEF AloneHolds
  <2>3. n.at \in {"window", "wait"} /\ ~n.force /\ n.alone => n.calm
    BY <1>1, <1>2 DEF AloneHolds
  <2> QED
    BY <2>1, <2>2, <2>3 DEF AloneHolds
<1>6. ClaimsHold(n, P)
  BY <1>1, <1>2 DEF ClaimsHold
<1> QED
  BY <1>4, <1>5, <1>6 DEF RunOK

\* A run that is not idle knows its command, and has not succeeded before it is done.
LEMMA RunKnows ==
  ASSUME HostInv, NEW c \in Controller
  PROVE  /\ DOMAIN ctl = Controller /\ DOMAIN ctl[c] = RunFields
         /\ RunOK(ctl[c], proc, births) /\ ProcOK(proc, births)
         /\ StageFits(ctl[c]) /\ HandleHolds(ctl[c], proc, births)
         /\ AloneHolds(ctl[c], proc) /\ ClaimsHold(ctl[c], proc)
BY DEF HostInv, RunOK

\* The steps that only take the run on to another stage.
LEMMA MoveKeeps ==
  ASSUME HostInv, NEW c \in Controller, NEW at, Move(c, at), ctl[c].at \notin {"idle", "done"},
         \/ at = "read" /\ ctl[c].command = "profile"
         \/ at \in {"launch", "again"} /\ ctl[c].command \in {"start", "restart"}
            /\ (at = "again" => ctl[c].command = "restart")
            /\ (ctl[c].command = "restart" => ~Runs(proc, ctl[c].found))
         \/ at = "window" /\ ctl[c].at = "health"
            /\ (~ctl[c].force /\ ctl[c].alone => ctl[c].calm)
  PROVE  HostInv'
<1>1. /\ DOMAIN ctl = Controller /\ DOMAIN ctl[c] = RunFields
      /\ RunOK(ctl[c], proc, births) /\ StageFits(ctl[c]) /\ HandleHolds(ctl[c], proc, births)
  BY RunKnows
<1>2. /\ OnlyRun(c) /\ DOMAIN ctl'[c] = RunFields /\ ctl'[c].at = at
      /\ Same(ctl[c], ctl'[c], RunFields \ {"at"}) /\ UNCHANGED <<proc, births>>
  BY <1>1 DEF Move, World, OnlyRun, Same, RunFields
<1> DEFINE r == ctl[c]
           n == ctl'[c]
<1>3. /\ Same(r, n, {"command", "force", "found", "alone", "calm"}) /\ n.host = r.host
      /\ n.hit = r.hit /\ n.answer = r.answer /\ n.command = r.command
  BY <1>2 DEF Same, RunFields
<1>4. n.answer # "ok" /\ n.hit \subseteq {n.found}
  BY <1>1, <1>3 DEF StageFits, HandleHolds, Same
<1>5. StageFits(n)
  BY <1>1, <1>2, <1>3, <1>4 DEF StageFits, StopStages
<1>6. RunOK(n, proc, births)
  <2> HIDE DEF n
  <2>1. n.at = at /\ DOMAIN n = RunFields
    BY <1>2 DEF n
  <2>2. /\ n.at \notin {"idle", "find", "done"}
        /\ n.at \in HostStages => r.at \in HostStages
        /\ n.at \in StopStages => r.at \in StopStages
        /\ n.at \in {"window", "wait"} =>
             r.at \in {"window", "wait"} \/ (~r.force /\ r.alone => r.calm)
        /\ n.at \in {"again", "launch", "poll"} /\ n.command = "restart" => ~Runs(proc, r.found)
    BY <1>3, <2>1 DEF HostStages, StopStages
  <2> HIDE DEF r
  <2>3. RunOK(r, proc, births)
    BY <1>1 DEF r
  <2> QED
    BY <1>3, <1>4, <1>5, <2>1, <2>2, <2>3, MovedRun
<1> QED
  BY <1>2, <1>6, OneRun

\* What every command makes of a host that it found.
LEMMA FoundKeeps ==
  ASSUME HostInv, NEW c \in Controller, ctl[c].at = "find", ctl[c].command # "profile",
         NEW p \in Pid, proc[p].kind = "host", ctl' = Found(c, p), World
  PROVE  HostInv'
<1>1. /\ DOMAIN ctl = Controller /\ DOMAIN ctl[c] = RunFields /\ ProcOK(proc, births)
      /\ StageFits(ctl[c]) /\ HandleHolds(ctl[c], proc, births)
  BY RunKnows
<1> DEFINE at == CASE ctl[c].command = "status" -> "report"
                   [] ctl[c].command = "start" -> "present"
                   [] OTHER -> IF ctl[c].force THEN "window" ELSE "health"
           n == ctl'[c]
<1> HIDE DEF at
<1>2. OnlyRun(c) /\ UNCHANGED <<proc, births>>
      /\ n = [ctl[c] EXCEPT !.host = p, !.found = proc[p].born,
                            !.calm = proc[p].debuggee = "absent", !.alone = Anyone = {p},
                            !.at = at]
  BY <1>1 DEF Found, World, OnlyRun, at
<1>3. /\ DOMAIN n = RunFields /\ n.host = p /\ n.found = proc[p].born
      /\ n.calm = (proc[p].debuggee = "absent") /\ n.alone = (Anyone = {p}) /\ n.at = at
      /\ n.hit = ctl[c].hit /\ n.answer = ctl[c].answer /\ n.command = ctl[c].command
      /\ n.force = ctl[c].force
  BY <1>1, <1>2 DEF RunFields
<1> HIDE DEF n
<1>4. /\ n.hit = {} /\ n.answer # "ok" /\ n.found \in 0..births /\ n.found # 0
      /\ n.command \in {"status", "start", "stop", "restart"}
  BY <1>1, <1>3 DEF StageFits, HandleHolds, ProcOK
<1>5. /\ n.command = "status" => n.at = "report"
      /\ n.command = "start" => n.at = "present"
      /\ n.command \in {"stop", "restart"} => n.at = IF n.force THEN "window" ELSE "health"
  BY <1>3 DEF at
<1>6. StageFits(n)
  BY <1>4, <1>5 DEF StageFits, StopStages
<1>7. HandleHolds(n, proc, births)
  BY <1>3, <1>4, <1>5 DEF HandleHolds
<1>8. AloneHolds(n, proc)
  <2>1. n.at \in {"window", "wait"} => n.force
    BY <1>4, <1>5
  <2> QED
    BY <1>3, <2>1 DEF AloneHolds, Anyone, Alive
<1>9. ClaimsHold(n, proc)
  BY <1>4, <1>5 DEF ClaimsHold
<1> QED
  BY <1>2, <1>3, <1>6, <1>7, <1>8, <1>9, OneRun DEF RunOK, n

\* FindHosts and what each command makes of its result: a code, a host, or none.
LEMMA FindHostsKeeps ==
  ASSUME HostInv, NEW c \in Controller, FindHosts(c)
  PROVE  HostInv'
<1>1. /\ StageFits(ctl[c]) /\ HandleHolds(ctl[c], proc, births) /\ ctl[c].at = "find"
      /\ ProcOK(proc, births)
  BY RunKnows DEF FindHosts
<1>2. ctl[c].found = 0 /\ ~Runs(proc, ctl[c].found) /\ ctl[c].at \notin {"idle", "done"}
  BY <1>1, NobodyRuns DEF HandleHolds
<1>3. CASE Answer(c, "OS_ERROR") \/ Answer(c, "HOST_RUNNING") \/ Answer(c, "MULTIPLE_HOSTS")
  BY <1>2, <1>3, ErrorKeeps
<1>4. CASE ctl[c].command = "profile" /\ Move(c, "read")
  BY <1>2, <1>4, MoveKeeps
<1>5. CASE /\ ctl[c].command # "profile" /\ World
           /\ \E p \in Hosts : Hosts = {p} /\ ctl' = Found(c, p)
  BY <1>1, <1>5, FoundKeeps DEF Hosts
<1>6. CASE ctl[c].command \in {"start", "restart"} /\ Move(c, "launch")
  BY <1>2, <1>6, MoveKeeps
<1>7. CASE ctl[c].command = "restart" /\ Move(c, "again")
  BY <1>2, <1>7, MoveKeeps
<1>8. CASE ctl[c].command \in {"status", "stop"} /\ Answer(c, "ok")
  BY <1>2, <1>8, AnswerKeeps DEF Answer, World
<1> QED
  BY <1>3, <1>4, <1>5, <1>6, <1>7, <1>8 DEF FindHosts

\* StartHost of a restart finds another host, or launches one: its old host is gone.
LEMMA FindAgainKeeps ==
  ASSUME HostInv, NEW c \in Controller, FindAgain(c)
  PROVE  HostInv'
<1>1. /\ DOMAIN ctl = Controller /\ DOMAIN ctl[c] = RunFields /\ ProcOK(proc, births)
      /\ StageFits(ctl[c]) /\ HandleHolds(ctl[c], proc, births) /\ ClaimsHold(ctl[c], proc)
      /\ ctl[c].at = "again"
  BY RunKnows DEF FindAgain
<1>2. ctl[c].command = "restart" /\ ~Runs(proc, ctl[c].found) /\ ctl[c].answer # "ok"
  BY <1>1 DEF StageFits, ClaimsHold
<1>3. CASE Answer(c, "OS_ERROR") \/ Answer(c, "MULTIPLE_HOSTS")
  BY <1>1, <1>3, ErrorKeeps
<1>4. CASE Move(c, "launch")
  BY <1>1, <1>2, <1>4, MoveKeeps
<1>5. CASE /\ World
           /\ \E p \in Hosts : /\ Hosts = {p}
                               /\ ctl' = [ctl EXCEPT ![c].host = p, ![c].at = "present",
                                                     ![c].alone = Anyone = {p}]
  <2>1. PICK p \in Hosts : ctl' = [ctl EXCEPT ![c].host = p, ![c].at = "present",
                                             ![c].alone = Anyone = {p}]
    BY <1>5
  <2> DEFINE n == ctl'[c]
  <2>2. /\ OnlyRun(c) /\ UNCHANGED <<proc, births>>
        /\ n = [ctl[c] EXCEPT !.host = p, !.at = "present", !.alone = Anyone = {p}]
    BY <1>1, <1>5, <2>1 DEF World, OnlyRun
  <2>3. /\ DOMAIN n = RunFields /\ n.host = p /\ n.at = "present" /\ n.alone = (Anyone = {p})
        /\ n.command = "restart" /\ n.answer # "ok"
        /\ n.found = ctl[c].found /\ n.hit = ctl[c].hit
    BY <1>1, <1>2, <2>2 DEF RunFields
  <2> HIDE DEF n
  <2>4. StageFits(n)
    BY <2>3 DEF StageFits, StopStages
  <2>5. HandleHolds(n, proc, births)
    BY <1>1, <2>3 DEF HandleHolds, StopStages
  <2>6. AloneHolds(n, proc) /\ ClaimsHold(n, proc)
    BY <2>3 DEF AloneHolds, ClaimsHold, Anyone, Alive, StopStages
  <2> QED
    BY <2>2, <2>3, <2>4, <2>5, <2>6, OneRun DEF RunOK, n
<1> QED
  BY <1>3, <1>4, <1>5 DEF FindAgain

-----------------------------------------------------------------------------
(* The port.                                                               *)

\* Who answers on the port is a host, and tells of its own debuggee.
LEMMA AnswerIsAHosts ==
  ASSUME HostInv, NEW health \in QueryHealth, health # NoAnswer
  PROVE  /\ health.server \in Alive(proc) /\ health.debuggee = proc[health.server].debuggee
         /\ health.debuggee \in {"absent", "active"}
<1>1. PICK p \in Pid : proc[p].listening /\ health = [server |-> p, debuggee |-> proc[p].debuggee]
  BY DEF QueryHealth
<1>2. /\ p \in Alive(proc) /\ proc[p].debuggee \in {"absent", "active"}
  BY <1>1 DEF HostInv, ProcOK, Alive
<1> QED
  BY <1>1, <1>2

\* status claims nothing of the host it reports.
LEMMA StatusKeeps ==
  ASSUME HostInv, NEW c \in Controller, Status(c)
  PROVE  HostInv'
<1>1. ctl[c].at = "report" /\ ctl[c].command = "status"
  BY RunKnows DEF Status, StageFits
<1> QED
  BY <1>1, AnswerKeeps DEF Status, Answer, World

\* A success of start that names the server.
LEMMA StartedKeeps ==
  ASSUME HostInv, NEW c \in Controller, ctl[c].at \in {"present", "poll"},
         NEW health \in QueryHealth, health # NoAnswer,
         ctl' = [Answered(c, "ok") EXCEPT ![c].server = health.server], World
  PROVE  HostInv'
<1>1. health.server \in Alive(proc)
  BY AnswerIsAHosts
<1>2. /\ DOMAIN ctl = Controller /\ DOMAIN ctl[c] = RunFields
      /\ StageFits(ctl[c]) /\ AloneHolds(ctl[c], proc)
  BY RunKnows
<1>3. ctl[c].command # "stop" /\ (ctl[c].alone => health.server = ctl[c].host)
  BY <1>1, <1>2 DEF StageFits, AloneHolds, HostStages
<1>4. ctl'[c].server = health.server
  BY <1>2 DEF Answered, RunFields
<1>5. UNCHANGED <<proc, births>> /\ ctl[c].at # "idle"
  BY DEF World
<1> QED
  BY <1>3, <1>4, <1>5, AnswerKeeps

\* start and restart that found a host name the server only if the port answered.
LEMMA StartFoundHostKeeps ==
  ASSUME HostInv, NEW c \in Controller, StartFoundHost(c)
  PROVE  HostInv'
<1>1. ctl[c].at = "present"
  BY DEF StartFoundHost
<1>2. CASE Answer(c, "HOST_RUNNING_NOT_READY")
  BY <1>1, <1>2, ErrorKeeps
<1>3. CASE /\ World
           /\ \E health \in QueryHealth :
                /\ health # NoAnswer
                /\ ctl' = [Answered(c, "ok") EXCEPT ![c].server = health.server]
  BY <1>1, <1>3, StartedKeeps
<1> QED
  BY <1>2, <1>3 DEF StartFoundHost

\* So does the poll for the host that was created.
LEMMA PollReadinessKeeps ==
  ASSUME HostInv, NEW c \in Controller, PollReadiness(c)
  PROVE  HostInv'
<1>1. ctl[c].at = "poll"
  BY DEF PollReadiness
<1>2. CASE Answer(c, "START_TIMEOUT") \/ Answer(c, "HOST_EXITED")
  BY <1>1, <1>2, ErrorKeeps
<1>3. CASE /\ World
           /\ \E health \in QueryHealth \ {NoAnswer} :
                ctl' = [Answered(c, "ok") EXCEPT ![c].server = health.server]
  BY <1>1, <1>3, StartedKeeps
<1> QED
  BY <1>2, <1>3 DEF PollReadiness

\* The debuggee that the port told of is the host's own when the host is alone.
LEMMA CheckDebuggeeKeeps ==
  ASSUME HostInv, NEW c \in Controller, CheckDebuggee(c)
  PROVE  HostInv'
<1>1. PICK health \in QueryHealth :
        \/ Answer(c, "BACKEND_UNAVAILABLE")
        \/ Answer(c, "DEBUGGEE_ACTIVE")
        \/ health # NoAnswer /\ health.debuggee # "active" /\ Move(c, "window")
  BY DEF CheckDebuggee
<1>2. ctl[c].at = "health"
  BY DEF CheckDebuggee
<1>3. CASE Answer(c, "BACKEND_UNAVAILABLE") \/ Answer(c, "DEBUGGEE_ACTIVE")
  BY <1>2, <1>3, ErrorKeeps
<1>4. CASE health # NoAnswer /\ health.debuggee # "active" /\ Move(c, "window")
  <2>1. health.server \in Alive(proc) /\ proc[health.server].debuggee = "absent"
    BY <1>4, AnswerIsAHosts
  <2>2. AloneHolds(ctl[c], proc)
    BY RunKnows
  <2>3. ctl[c].alone => ctl[c].calm
    BY <1>2, <2>1, <2>2 DEF AloneHolds, HostStages, StopStages
  <2> QED
    BY <1>2, <1>4, <2>3, MoveKeeps
<1> QED
  BY <1>1, <1>3, <1>4

-----------------------------------------------------------------------------
(* StopHost.                                                               *)

\* A stage of StopHost that leads to the next, having hit the host or not.
LEMMA StopGoesOn ==
  ASSUME NEW P, NEW B, NEW r, RunOK(r, P, B), NEW n, DOMAIN n = RunFields,
         Same(r, n, {"command", "force", "found", "alone", "calm", "host"}),
         n.answer # "ok", n.hit \in {r.hit, r.hit \cup {P[r.host].born}},
         \/ r.at = "window" /\ n.at = "wait"
         \/ r.at \in {"window", "wait"} /\ n.at = "kill"
         \/ r.at = "kill" /\ n.at = "killed"
  PROVE  RunOK(n, P, B)
<1>1. StageFits(r) /\ HandleHolds(r, P, B)
  BY DEF RunOK
<1>2. n.command = r.command /\ n.found = r.found /\ n.host = r.host
      /\ Same(r, n, {"command", "force", "found", "alone", "calm"})
  BY DEF Same
<1>3. r.at \in StopStages /\ n.at \in StopStages /\ r.at \in HostStages
  BY DEF StopStages, HostStages
<1>4. n.hit \subseteq {n.found}
  BY <1>1, <1>2, <1>3 DEF HandleHolds
<1>5. StageFits(n)
  BY <1>1, <1>2, <1>3 DEF StageFits, StopStages
<1> QED
  BY <1>2, <1>3, <1>4, <1>5, MovedRun

\* The polite way failed: --force goes on, and otherwise the code is the answer.
LEMMA GiveUpKeeps ==
  ASSUME HostInv, NEW c \in Controller, ctl[c].at \in {"window", "wait"},
         NEW code, code # "ok", GiveUp(c, code)
  PROVE  HostInv'
<1>1. CASE ctl' = Answered(c, code)
  BY <1>1, ErrorKeeps DEF GiveUp, Answer
<1>2. CASE ctl' = [ctl EXCEPT ![c].answer = code, ![c].at = "kill"]
  <2>1. DOMAIN ctl = Controller /\ DOMAIN ctl[c] = RunFields /\ RunOK(ctl[c], proc, births)
    BY RunKnows
  <2>2. /\ OnlyRun(c) /\ UNCHANGED <<proc, births>> /\ DOMAIN ctl'[c] = RunFields
        /\ Same(ctl[c], ctl'[c], {"command", "force", "found", "alone", "calm", "host"})
        /\ ctl'[c].answer # "ok" /\ ctl'[c].hit = ctl[c].hit /\ ctl'[c].at = "kill"
    BY <1>2, <2>1 DEF GiveUp, World, OnlyRun, Same, RunFields
  <2>3. RunOK(ctl'[c], proc, births)
    BY <2>1, <2>2, StopGoesOn
  <2> QED
    BY <2>2, <2>3, OneRun
<1> QED
  BY <1>1, <1>2 DEF GiveUp

\* WM_CLOSE goes to the process that the handle keeps.
LEMMA CloseWindowKeeps ==
  ASSUME HostInv, NEW c \in Controller, CloseWindow(c)
  PROVE  HostInv'
<1>1. /\ DOMAIN ctl = Controller /\ DOMAIN ctl[c] = RunFields /\ RunOK(ctl[c], proc, births)
      /\ StageFits(ctl[c]) /\ ctl[c].at = "window"
  BY RunKnows DEF CloseWindow
<1>2. CASE ctl' = [ctl EXCEPT ![c].hit = Hit(c), ![c].at = "wait"] /\ World
  <2>1. /\ OnlyRun(c) /\ UNCHANGED <<proc, births>> /\ DOMAIN ctl'[c] = RunFields
        /\ Same(ctl[c], ctl'[c], {"command", "force", "found", "alone", "calm", "host"})
        /\ ctl'[c].answer = ctl[c].answer /\ ctl'[c].hit = Hit(c) /\ ctl'[c].at = "wait"
    BY <1>1, <1>2 DEF World, OnlyRun, Same, RunFields
  <2>2. ctl'[c].answer # "ok"
    BY <1>1, <2>1 DEF StageFits
  <2>3. RunOK(ctl'[c], proc, births)
    BY <1>1, <2>1, <2>2, StopGoesOn DEF Hit
  <2> QED
    BY <2>1, <2>3, OneRun
<1>3. CASE GiveUp(c, "NO_MAIN_WINDOW")
  BY <1>1, <1>3, GiveUpKeeps
<1> QED
  BY <1>2, <1>3 DEF CloseWindow

\* The handle said that the host has exited: nobody of its birth runs.
LEMMA ExitedIsGone ==
  ASSUME NEW P, NEW B, ProcOK(P, B), NEW p \in Pid, P[p].kind = "exited"
  PROVE  ~Runs(P, P[p].born)
<1>1. P[p].born # 0
  BY DEF ProcOK
<1>2. \A q \in Pid : P[q].born = P[p].born => q = p
  BY <1>1 DEF ProcOK
<1> QED
  BY <1>2 DEF Runs

\* StopHost returns without an error only when its host has exited.
LEMMA StopDoneKeeps ==
  ASSUME HostInv, NEW c \in Controller, ctl[c].at \in {"wait", "killed"},
         proc[ctl[c].host].kind = "exited", ctl' = StopDone(c), World
  PROVE  HostInv'
<1>1. /\ DOMAIN ctl = Controller /\ DOMAIN ctl[c] = RunFields /\ RunOK(ctl[c], proc, births)
      /\ ProcOK(proc, births) /\ StageFits(ctl[c]) /\ HandleHolds(ctl[c], proc, births)
  BY RunKnows
<1>2. /\ ctl[c].command \in {"stop", "restart"} /\ ctl[c].host \in Pid
      /\ proc[ctl[c].host].born = ctl[c].found /\ ctl[c].answer # "ok"
      /\ ctl[c].hit \subseteq {ctl[c].found} /\ UNCHANGED <<proc, births>>
  BY <1>1 DEF StageFits, HandleHolds, StopStages, World
<1>3. ~Runs(proc, ctl[c].found)
  BY <1>1, <1>2, ExitedIsGone
<1>4. CASE ctl' = Answered(c, "ok") /\ ctl[c].command # "restart"
  BY <1>2, <1>3, <1>4, AnswerKeeps
<1>5. CASE ctl' = [ctl EXCEPT ![c].host = 0, ![c].at = "again"] /\ ctl[c].command = "restart"
  <2> DEFINE n == ctl'[c]
  <2>1. /\ OnlyRun(c) /\ DOMAIN n = RunFields
        /\ Same(ctl[c], n, {"command", "force", "found", "alone", "calm", "hit", "answer"})
        /\ n.at = "again"
    BY <1>1, <1>5 DEF OnlyRun, Same, RunFields
  <2> HIDE DEF n
  <2>2. /\ Same(ctl[c], n, {"command", "force", "found", "alone", "calm"})
        /\ n.hit \subseteq {n.found} /\ n.answer # "ok" /\ n.command = "restart"
    BY <1>2, <1>5, <2>1 DEF Same
  <2>3. StageFits(n) /\ n.at \notin HostStages /\ n.at \notin StopStages
    BY <2>1, <2>2 DEF StageFits, HostStages, StopStages
  <2>4. RunOK(n, proc, births)
    BY <1>1, <1>3, <2>1, <2>2, <2>3, MovedRun
  <2> QED
    BY <1>2, <2>1, <2>4, OneRun DEF n
<1> QED
  BY <1>4, <1>5 DEF StopDone

\* The wait for the exit ends with it, with the deadline, or in an error.
LEMMA AwaitExitKeeps ==
  ASSUME HostInv, NEW c \in Controller, AwaitExit(c)
  PROVE  HostInv'
<1>1. ctl[c].at = "wait"
  BY DEF AwaitExit
<1>2. CASE proc[ctl[c].host].kind = "exited" /\ ctl' = StopDone(c) /\ World
  BY <1>1, <1>2, StopDoneKeeps
<1>3. CASE GiveUp(c, "STOP_TIMEOUT")
  BY <1>1, <1>3, GiveUpKeeps
<1>4. CASE Answer(c, "WAIT_FAILED")
  BY <1>1, <1>4, ErrorKeeps
<1> QED
  BY <1>2, <1>3, <1>4 DEF AwaitExit

\* The host that the handle keeps is terminated; the others only see it exit.
LEMMA TerminateKeeps ==
  ASSUME HostInv, NEW c \in Controller, Terminate(c)
  PROVE  HostInv'
<1>1. /\ DOMAIN ctl = Controller /\ DOMAIN ctl[c] = RunFields /\ RunOK(ctl[c], proc, births)
      /\ ProcOK(proc, births) /\ StageFits(ctl[c]) /\ HandleHolds(ctl[c], proc, births)
      /\ ctl[c].at = "kill"
  BY RunKnows DEF Terminate
<1>2. ctl[c].answer # "ok" /\ ctl[c].host \in Pid
  BY <1>1 DEF StageFits, HandleHolds, StopStages
<1>3. CASE Answer(c, ctl[c].answer)
  BY <1>1, <1>2, <1>3, ErrorKeeps
<1>4. CASE /\ proc[ctl[c].host].kind \notin {"free", "exited"}
           /\ proc' = [proc EXCEPT ![ctl[c].host] = Gone(ctl[c].host)]
           /\ ctl' = [ctl EXCEPT ![c].hit = Hit(c), ![c].at = "killed"]
           /\ UNCHANGED <<births, ini, temp, set>>
  <2> DEFINE h == ctl[c].host
             n == ctl'[c]
  <2>1. proc' = WithExit(proc, h) /\ births' = births
    BY <1>4 DEF Gone, WithExit
  <2>2. /\ OnlyRun(c) /\ DOMAIN n = RunFields
        /\ Same(ctl[c], n, {"command", "force", "found", "alone", "calm", "host"})
        /\ n.answer = ctl[c].answer /\ n.hit = ctl[c].hit \cup {proc[h].born} /\ n.at = "killed"
    BY <1>1, <1>4 DEF OnlyRun, Same, RunFields, Hit
  <2> HIDE DEF n
  <2>3. h \in Pid /\ proc[h].kind \notin {"free", "exited"} /\ ProcOK(proc, births)
    BY <1>1, <1>2, <1>4
  <2> HIDE DEF h
  <2>4. ProcOK(proc', births) /\ proc'[h].born = proc[h].born
    BY <2>1, <2>3, ExitIsKnown
  <2>5. \A d \in Controller : RunOK(ctl[d], proc', births)
    <3>1. \A d \in Controller : RunOK(ctl[d], proc, births)
      BY DEF HostInv
    <3> QED
      BY <2>1, <2>3, <3>1, RunSurvivesExit
  <2>6. RunOK(n, proc', births)
    <3>1. RunOK(ctl[c], proc', births)
      BY <2>5
    <3>2. n.hit = ctl[c].hit \cup {proc'[ctl[c].host].born} /\ n.answer # "ok"
      BY <1>2, <2>2, <2>4 DEF h
    <3> QED
      BY <1>1, <2>2, <3>1, <3>2, StopGoesOn
  <2> QED
    BY <2>1, <2>2, <2>4, <2>5, <2>6 DEF HostInv, OnlyRun, n
<1> QED
  BY <1>3, <1>4 DEF Terminate

\* The wait after TerminateProcess ends with the exit, or with the earlier code.
LEMMA AwaitKillKeeps ==
  ASSUME HostInv, NEW c \in Controller, AwaitKill(c)
  PROVE  HostInv'
<1>1. ctl[c].at = "killed" /\ StageFits(ctl[c])
  BY RunKnows DEF AwaitKill
<1>2. ctl[c].answer # "ok"
  BY <1>1 DEF StageFits
<1>3. CASE proc[ctl[c].host].kind = "exited" /\ ctl' = StopDone(c) /\ World
  BY <1>1, <1>3, StopDoneKeeps
<1>4. CASE Answer(c, ctl[c].answer)
  BY <1>1, <1>2, <1>4, ErrorKeeps
<1> QED
  BY <1>3, <1>4 DEF AwaitKill

-----------------------------------------------------------------------------
(* Processes come and go, and the profile is written.                      *)

\* A birth takes no id whose handle a run holds.
LEMMA BornIsFree ==
  ASSUME NEW p \in Pid, NEW kind, Born(p, kind)
  PROVE  /\ proc[p].kind \in {"free", "exited"}
         /\ proc' = WithBirth(proc, p, kind, births + 1) /\ births' = births + 1
         /\ \A d \in Controller : \/ proc[p].kind = "free"
                                  \/ ctl[d].at \in {"idle", "done"}
                                  \/ ctl[d].host # p
<1>1. p \notin HeldPids =>
        \A d \in Controller : ctl[d].at \in {"idle", "done"} \/ ctl[d].host # p
  BY DEF HeldPids
<1> QED
  BY <1>1 DEF Born, WithBirth

\* A process is born: hosts end everybody's being alone.
LEMMA SpawnKeeps ==
  ASSUME HostInv, NEW p \in Pid, NEW kind \in {"host", "hidden", "other"}, Spawn(p, kind)
  PROVE  HostInv'
<1>1. /\ proc[p].kind \in {"free", "exited"}
      /\ proc' = WithBirth(proc, p, kind, births + 1) /\ births' = births + 1
      /\ \A d \in Controller : \/ proc[p].kind = "free"
                               \/ ctl[d].at \in {"idle", "done"}
                               \/ ctl[d].host # p
  BY BornIsFree DEF Spawn
<1>2. /\ ProcOK(proc, births) /\ DOMAIN ctl = Controller
      /\ \A d \in Controller : RunOK(ctl[d], proc, births)
  BY DEF HostInv
<1>3. /\ DOMAIN ctl' = Controller
      /\ \A d \in Controller : ctl'[d] = IF kind = "other" THEN ctl[d] ELSE Joined(ctl[d])
  BY <1>2 DEF Spawn, Joined
<1>4. ProcOK(proc', births + 1)
  BY <1>1, <1>2, BirthIsNew
<1>5. ASSUME NEW d \in Controller
      PROVE  RunOK(ctl'[d], proc', births + 1)
  BY <1>1, <1>2, <1>3, RunSurvivesBirth
<1> QED
  BY <1>1, <1>3, <1>4, <1>5 DEF HostInv

\* start and restart create their host: nobody else is alone any more, and the
\* run itself is if nobody was there.
LEMMA CreateProcessKeeps ==
  ASSUME HostInv, NEW c \in Controller, CreateProcess(c)
  PROVE  HostInv'
<1>1. /\ DOMAIN ctl[c] = RunFields /\ StageFits(ctl[c]) /\ HandleHolds(ctl[c], proc, births)
      /\ ctl[c].at = "launch"
  BY RunKnows DEF CreateProcess
<1>2. CASE Answer(c, "START_FAILED")
  BY <1>1, <1>2, ErrorKeeps
<1>3. CASE \E p \in Pid :
             /\ Born(p, "host")
             /\ ctl' = [d \in Controller |->
                          IF d = c THEN [ctl[c] EXCEPT !.host = p, !.at = "poll",
                                                       !.alone = Anyone = {}]
                          ELSE [ctl[d] EXCEPT !.alone = FALSE]]
             /\ UNCHANGED <<ini, temp, set>>
  <2>1. PICK p \in Pid :
          /\ Born(p, "host")
          /\ ctl' = [d \in Controller |->
                       IF d = c THEN [ctl[c] EXCEPT !.host = p, !.at = "poll",
                                                    !.alone = Anyone = {}]
                       ELSE [ctl[d] EXCEPT !.alone = FALSE]]
    BY <1>3
  <2>2. /\ proc[p].kind \in {"free", "exited"}
        /\ proc' = WithBirth(proc, p, "host", births + 1) /\ births' = births + 1
        /\ \A d \in Controller : \/ proc[p].kind = "free"
                                 \/ ctl[d].at \in {"idle", "done"}
                                 \/ ctl[d].host # p
    BY <2>1, BornIsFree
  <2>3. ProcOK(proc, births) /\ \A d \in Controller : RunOK(ctl[d], proc, births)
    BY DEF HostInv
  <2>4. /\ ProcOK(proc', births + 1) /\ Alive(proc') \subseteq Alive(proc) \cup {p}
    BY <2>2, <2>3, BirthIsNew
  <2>5. \A d \in Controller : RunOK(Joined(ctl[d]), proc', births + 1)
    <3>1. ASSUME NEW d \in Controller
          PROVE  RunOK(Joined(ctl[d]), proc', births + 1)
      BY <2>2, <2>3, RunSurvivesBirth
    <3> QED
      BY <3>1
  <2>6. /\ DOMAIN ctl' = Controller
        /\ \A d \in Controller \ {c} : ctl'[d] = Joined(ctl[d])
        /\ ctl'[c] = [ctl[c] EXCEPT !.host = p, !.at = "poll", !.alone = Anyone = {}]
    BY <2>1 DEF Joined
  <2> DEFINE n == ctl'[c]
             j == Joined(ctl[c])
  <2>7. /\ DOMAIN n = RunFields /\ n.at = "poll" /\ n.host = p /\ n.alone = (Anyone = {})
        /\ n.command = ctl[c].command /\ n.answer = ctl[c].answer
        /\ n.found = ctl[c].found /\ n.hit = ctl[c].hit
    BY <1>1, <2>6 DEF RunFields
  <2>8. j.at = "launch" /\ j.command = n.command /\ j.answer = n.answer
        /\ j.found = n.found /\ j.hit = n.hit
    BY <1>1, <2>7 DEF Joined, RunFields
  <2>9. StageFits(j) /\ HandleHolds(j, proc', births + 1) /\ ClaimsHold(j, proc')
    BY <2>5 DEF RunOK
  <2> HIDE DEF n, j
  <2>10. StageFits(n)
    BY <2>7, <2>8, <2>9 DEF StageFits, StopStages
  <2>11. HandleHolds(n, proc', births + 1)
    BY <2>7, <2>8, <2>9 DEF HandleHolds, StopStages
  <2>12. AloneHolds(n, proc')
    BY <2>4, <2>7 DEF AloneHolds, StopStages, Anyone, Alive
  <2>13. ClaimsHold(n, proc')
    BY <2>7, <2>8, <2>9, <2>10 DEF ClaimsHold, StageFits
  <2>14. RunOK(ctl'[c], proc', births + 1)
    BY <2>7, <2>10, <2>11, <2>12, <2>13 DEF RunOK, n
  <2>15. \A d \in Controller : RunOK(ctl'[d], proc', births + 1)
    BY <2>5, <2>6, <2>14
  <2> QED
    BY <2>2, <2>4, <2>6, <2>15 DEF HostInv
<1> QED
  BY <1>2, <1>3 DEF CreateProcess

\* A process exits.
LEMMA ExitKeeps ==
  ASSUME HostInv, NEW p \in Pid, Exit(p)
  PROVE  HostInv'
<1>1. /\ ProcOK(proc, births) /\ DOMAIN ctl = Controller
      /\ \A d \in Controller : RunOK(ctl[d], proc, births)
  BY DEF HostInv
<1>2. /\ proc[p].kind \notin {"free", "exited"} /\ proc' = WithExit(proc, p)
      /\ UNCHANGED <<births, ctl>>
  BY DEF Exit, Gone, WithExit
<1>3. ProcOK(proc', births)
  BY <1>1, <1>2, ExitIsKnown
<1>4. \A d \in Controller : RunOK(ctl[d], proc', births)
  BY <1>1, <1>2, RunSurvivesExit
<1> QED
  BY <1>1, <1>2, <1>3, <1>4 DEF HostInv

\* The port changes hands.
LEMMA PortKeeps ==
  ASSUME HostInv, NEW p \in Pid, Listen(p) \/ Deafen(p)
  PROVE  HostInv'
<1>1. /\ ProcOK(proc, births) /\ DOMAIN ctl = Controller
      /\ \A d \in Controller : RunOK(ctl[d], proc, births)
  BY DEF HostInv
<1>2. PICK v \in BOOLEAN : /\ proc' = WithField(proc, p, "listening", v)
                           /\ v => p \in Alive(proc)
                           /\ UNCHANGED <<births, ctl>>
  BY DEF Listen, Deafen, WithField, Anyone, Alive
<1>3. ProcOK(proc', births)
  BY <1>1, <1>2, FieldChange
<1>4. ASSUME NEW d \in Controller
      PROVE  RunOK(ctl[d], proc', births)
  BY <1>1, <1>2, RunSurvivesChange
<1> QED
  BY <1>1, <1>2, <1>3, <1>4 DEF HostInv

\* A debuggee comes or goes, and the run whose host it is notes an absence.
LEMMA DebuggeeKeeps ==
  ASSUME HostInv, NEW p \in Pid, DebuggeeChanges(p)
  PROVE  HostInv'
<1>1. /\ ProcOK(proc, births) /\ DOMAIN ctl = Controller
      /\ \A d \in Controller : RunOK(ctl[d], proc, births)
  BY DEF HostInv
<1>2. PICK v \in {"absent", "active"} : proc' = WithField(proc, p, "debuggee", v)
  BY DEF DebuggeeChanges, WithField
<1>3. /\ births' = births /\ DOMAIN ctl' = Controller
      /\ \A d \in Controller :
           ctl'[d] = [ctl[d] EXCEPT !.calm = @ \/ (ctl[d].host = p /\ proc'[p].debuggee = "absent")]
  BY DEF DebuggeeChanges
<1>4. ProcOK(proc', births)
  BY <1>1, <1>2, FieldChange
<1>5. ASSUME NEW d \in Controller
      PROVE  RunOK(ctl'[d], proc', births)
  BY <1>1, <1>2, <1>3, RunSurvivesChange
<1> QED
  BY <1>3, <1>4, <1>5 DEF HostInv

\* The deadline says nothing of hosts.
LEMMA DeadlineKeeps ==
  ASSUME HostInv, NEW c \in Controller, DeadlinePasses(c)
  PROVE  HostInv'
<1>1. DOMAIN ctl = Controller /\ DOMAIN ctl[c] = RunFields /\ RunOK(ctl[c], proc, births)
  BY RunKnows
<1>2. /\ OnlyRun(c) /\ DOMAIN ctl'[c] = RunFields /\ UNCHANGED <<proc, births>>
      /\ Same(ctl[c], ctl'[c], RunFields \ {"late"})
  BY <1>1 DEF DeadlinePasses, OnlyRun, Same, RunFields
<1>3. RunOK(ctl'[c], proc, births)
  <2> DEFINE n == ctl'[c]
  <2>1. /\ n.command = ctl[c].command /\ n.at = ctl[c].at /\ n.force = ctl[c].force
        /\ n.host = ctl[c].host /\ n.found = ctl[c].found /\ n.hit = ctl[c].hit
        /\ n.calm = ctl[c].calm /\ n.alone = ctl[c].alone /\ n.server = ctl[c].server
        /\ n.answer = ctl[c].answer
    BY <1>2 DEF Same, RunFields
  <2> HIDE DEF n
  <2> QED
    BY <1>1, <1>2, <2>1 DEF RunOK, StageFits, HandleHolds, AloneHolds, ClaimsHold, n
<1> QED
  BY <1>2, <1>3, OneRun

\* UpdateProfile has no host: it reads, creates and replaces.
LEMMA ProfileKeeps ==
  ASSUME HostInv, NEW c \in Controller, ReadIni(c) \/ UpdateProfile(c)
  PROVE  HostInv'
<1>1. /\ DOMAIN ctl = Controller /\ DOMAIN ctl[c] = RunFields /\ RunOK(ctl[c], proc, births)
      /\ StageFits(ctl[c]) /\ HandleHolds(ctl[c], proc, births)
      /\ UNCHANGED <<proc, births>> /\ ctl[c].at \in {"read", "create", "replace"}
  BY RunKnows DEF ReadIni, UpdateProfile, Files, Answer, World
<1>2. ctl[c].command = "profile" /\ ctl[c].answer # "ok" /\ ctl[c].hit \subseteq {ctl[c].found}
  BY <1>1 DEF StageFits, HandleHolds
<1>3. CASE \E code : ctl' = Answered(c, code)
  <2>1. PICK code : ctl' = Answered(c, code)
    BY <1>3
  <2> QED
    BY <1>1, <1>2, <2>1, AnswerKeeps
<1>4. CASE \E text, at : /\ at \in {"create", "replace"}
                        /\ \/ ctl' = [ctl EXCEPT ![c].text = text, ![c].at = at]
                           \/ ctl' = [ctl EXCEPT ![c].at = at]
  <2> DEFINE n == ctl'[c]
  <2>1. /\ OnlyRun(c) /\ DOMAIN n = RunFields /\ n.at \in {"create", "replace"}
        /\ Same(ctl[c], n, {"command", "force", "found", "alone", "calm", "hit", "answer"})
    <3>1. PICK text, at : /\ at \in {"create", "replace"}
                          /\ \/ ctl' = [ctl EXCEPT ![c].text = text, ![c].at = at]
                             \/ ctl' = [ctl EXCEPT ![c].at = at]
      BY <1>4
    <3>2. CASE ctl' = [ctl EXCEPT ![c].text = text, ![c].at = at]
      BY <1>1, <3>1, <3>2 DEF OnlyRun, Same, RunFields
    <3>3. CASE ctl' = [ctl EXCEPT ![c].at = at]
      BY <1>1, <3>1, <3>3 DEF OnlyRun, Same, RunFields
    <3> QED
      BY <3>1, <3>2, <3>3
  <2> HIDE DEF n
  <2>2. /\ Same(ctl[c], n, {"command", "force", "found", "alone", "calm"})
        /\ n.hit \subseteq {n.found} /\ n.answer # "ok" /\ n.command = "profile"
    BY <1>2, <2>1 DEF Same
  <2>3. StageFits(n) /\ n.at \notin HostStages /\ n.at \notin StopStages
    BY <2>1, <2>2 DEF StageFits, HostStages, StopStages
  <2>4. RunOK(n, proc, births)
    BY <1>1, <2>1, <2>2, <2>3, MovedRun
  <2> QED
    BY <1>1, <2>1, <2>4, OneRun DEF n
<1>5. CASE ReadIni(c)
  BY <1>3, <1>4, <1>5 DEF ReadIni, Answer
<1>6. CASE UpdateProfile(c)
  BY <1>3, <1>4, <1>6 DEF UpdateProfile
<1> QED
  BY <1>5, <1>6

-----------------------------------------------------------------------------
(* The hosts.                                                              *)

\* Nothing but the runs, the processes and the births matters to HostInv.
LEMMA NobodyActs ==
  ASSUME HostInv, UNCHANGED <<proc, births, ctl>>
  PROVE  HostInv'
BY DEF HostInv

\* Before the first command nothing is relied on.
LEMMA HostInvInit ==
  ASSUME Init
  PROVE  HostInv
<1>1. ProcOK(proc, births)
  <2>1. births = 0 /\ DOMAIN proc = Pid /\ \A p \in Pid : proc[p] = NoProcess
    BY DEF Init
  <2>2. /\ DOMAIN NoProcess = ProcFields /\ NoProcess.born = 0 /\ NoProcess.kind = "free"
        /\ NoProcess.listening = FALSE /\ NoProcess.debuggee = "absent"
    BY DEF NoProcess, ProcFields
  <2> QED
    BY <2>1, <2>2 DEF ProcOK
<1>2. ASSUME NEW c \in Controller
      PROVE  RunOK(ctl[c], proc, births)
  <2>1. /\ ctl[c] = Idle /\ DOMAIN ctl[c] = RunFields /\ ctl[c].at = "idle"
        /\ ctl[c].answer = "none" /\ ctl[c].found = 0 /\ ctl[c].hit = {} /\ births = 0
    BY DEF Init, Idle, RunFields
  <2> DEFINE r == ctl[c]
  <2> HIDE DEF r
  <2>2. /\ DOMAIN r = RunFields /\ r.at = "idle" /\ r.answer = "none" /\ r.found = 0 /\ r.hit = {}
        /\ births = 0
    BY <2>1 DEF r
  <2>3. StageFits(r) /\ HandleHolds(r, proc, births)
    BY <2>2 DEF StageFits, HandleHolds, StopStages
  <2>4. AloneHolds(r, proc) /\ ClaimsHold(r, proc)
    BY <2>2 DEF AloneHolds, ClaimsHold, StopStages, HostStages
  <2> QED
    BY <2>2, <2>3, <2>4 DEF RunOK, r
<1>3. DOMAIN ctl = Controller
  BY DEF Init
<1> QED
  BY <1>1, <1>2, <1>3 DEF HostInv

\* Whatever a run, the system or the profile tool does, every run may go on
\* relying on what it relied on.
LEMMA HostInvNext ==
  ASSUME HostInv, [Next]_vars
  PROVE  HostInv'
<1>1. ASSUME NEW c \in Controller, Step(c)
      PROVE  HostInv'
  BY <1>1, FindHostsKeeps, FindAgainKeeps, StatusKeeps, StartFoundHostKeeps, CreateProcessKeeps,
     PollReadinessKeeps, CheckDebuggeeKeeps, CloseWindowKeeps, AwaitExitKeeps, TerminateKeeps,
     AwaitKillKeeps, ProfileKeeps DEF Step
<1>2. ASSUME NEW c \in Controller, DeadlinePasses(c) \/ Killed(c)
      PROVE  HostInv'
  BY <1>2, DeadlineKeeps, ErrorKeeps DEF Killed
<1>3. ASSUME NEW c \in Controller, NEW force, NEW profile,
             NEW command \in {"status", "start", "stop", "restart", "profile"},
             Begin(c, command, force, profile)
      PROVE  HostInv'
  BY <1>3, BeginKeeps
<1>4. ASSUME NEW p \in Pid, Exit(p) \/ Listen(p) \/ Deafen(p) \/ DebuggeeChanges(p)
      PROVE  HostInv'
  BY <1>4, ExitKeeps, PortKeeps, DebuggeeKeeps
<1>5. ASSUME NEW p \in Pid, NEW kind \in {"host", "hidden", "other"}, Spawn(p, kind)
      PROVE  HostInv'
  BY <1>5, SpawnKeeps
<1>6. CASE ProfileTool \/ UNCHANGED vars
  BY <1>6, NobodyActs DEF ProfileTool, Files, vars
<1> QED
  BY <1>1, <1>2, <1>3, <1>4, <1>5, <1>6 DEF Next

\* HostInv holds always.
THEOREM HostInvHolds == Spec => []HostInv
<1>1. Init => HostInv
  BY HostInvInit
<1>2. HostInv /\ [Next]_vars => HostInv'
  BY HostInvNext
<1> QED
  BY <1>1, <1>2, PTL DEF Spec

\* What a command closes or terminates is the very host that it found, and without
\* --force one whose debuggee was absent at some instant of the command, if the host
\* was alone: StopHost's handle keeps the id, and the answer of the port was that host's.
THEOREM ClosesTheRightHostHolds == Spec => []ClosesTheRightHost
<1>1. HostInv => ClosesTheRightHost
  <2>1. HostInv => HitsOnlyItsHost
    BY DEF HostInv, RunOK, HandleHolds, HitsOnlyItsHost
  <2>2. HostInv => UnforcedCloseSawAbsent
    BY DEF HostInv, RunOK, AloneHolds, UnforcedCloseSawAbsent
  <2> QED
    BY <2>1, <2>2 DEF ClosesTheRightHost
<1> QED
  BY <1>1, HostInvHolds, PTL

\* A stop that answers ok left no trace of the host it found, a restart starts nothing
\* while its old host runs, and a start that answers ok names the process whose backend
\* answered, unless another host ran meanwhile (StopHost, StartHost).
THEOREM AnswersAreTrueHolds == Spec => []AnswersAreTrue
<1>1. HostInv => AnswersAreTrue
  <2>1. \A b : Running(b) <=> Runs(proc, b)
    BY DEF Running, Runs
  <2>2. HostInv => StopOkMeansGone
    BY <2>1 DEF HostInv, RunOK, ClaimsHold, StopOkMeansGone
  <2>3. HostInv => StartNamesTheServer
    BY DEF HostInv, RunOK, ClaimsHold, StartNamesTheServer
  <2> QED
    BY <2>2, <2>3 DEF AnswersAreTrue
<1> QED
  BY <1>1, HostInvHolds, PTL

-----------------------------------------------------------------------------
(* scylla_hide.ini.                                                        *)

\* Every set of numbers has a least one.
LEMMA Least ==
  ASSUME NEW S \in SUBSET Nat, S # {}
  PROVE  \E x \in S : \A y \in S : x =< y
<1>1. PICK x \in S : \A y \in S : <<y, x>> \notin OpToRel(<, Nat)
  BY NatLessThanWellFounded, WFMin
<1>2. ASSUME NEW y \in S
      PROVE  x =< y
  <2>1. x \in Nat /\ y \in Nat
    OBVIOUS
  <2>2. SUFFICES ASSUME y < x PROVE FALSE
    BY <2>1
  <2>3. <<y, x>> \in Nat \X Nat /\ <<y, x>>[1] < <<y, x>>[2]
    BY <2>1, <2>2
  <2> QED
    BY <1>1, <2>3, Zenon DEF OpToRel
<1> QED
  BY <1>2

\* Some line among given ones is the first, and some the last.
LEMMA FirstLine ==
  ASSUME NEW n \in Nat, NEW S \in SUBSET (1..n), S # {}
  PROVE  Min(S) \in S
<1>1. S \in SUBSET Nat
  OBVIOUS
<1>2. \E x \in S : \A y \in S : x =< y
  BY <1>1, Least
<1> QED
  BY <1>2 DEF Min

\* So with the last.
LEMMA LastLine ==
  ASSUME NEW n \in Nat, NEW S \in SUBSET (1..n), S # {}
  PROVE  Max(S) \in S
<1> DEFINE Below(x) == n - x
           T == {Below(x) : x \in S}
<1>1. \A x \in S : x \in Int /\ Below(x) \in Nat
  OBVIOUS
<1>2. T \in SUBSET Nat /\ T # {}
  <2> HIDE DEF Below
  <2> QED
    BY <1>1
<1>3. PICK t \in T : \A u \in T : t =< u
  BY <1>2, Least
<1>4. PICK x \in S : t = Below(x)
  OBVIOUS
<1>5. \A y \in S : Below(x) =< Below(y)
  BY <1>3, <1>4
<1>6. \A y \in S : x >= y
  BY <1>1, <1>5
<1> QED
  BY <1>6 DEF Max

\* The text as installed but for the assigned profile, which is selected unless
\* the request was an awkward one.
Usable(t) ==
  /\ DOMAIN t = DOMAIN FirstText
  /\ ProfileLines(t) = ProfileLines(FirstText)
  /\ \A i \in DOMAIN t \ ProfileLines(t) : t[i] = FirstText[i]
  /\ ParseScyllaHideConfig(t) # "" \/ Awkward(t)

\* SetScyllaHideProfile makes a usable text of a usable one.
LEMMA SetKeepsUsable ==
  ASSUME NEW text, Usable(text), NEW requested,
         SetScyllaHideProfile(text, requested) # Refused
  PROVE  Usable(SetScyllaHideProfile(text, requested))
<1> DEFINE new == SetScyllaHideProfile(text, requested)
<1>1. PICK n \in Nat : DOMAIN text = 1..n
  <2>1. DOMAIN FirstText = 1..Len(FirstText) /\ Len(FirstText) \in Nat
    <3> DEFINE Line == [kind : {"section", "current", "other"}, name : Name]
    <3>1. FirstText \in Seq(Line)
      BY InstalledAssumption
    <3> HIDE DEF Line
    <3> QED
      BY <3>1
  <2> QED
    BY <2>1 DEF Usable
<1>2. /\ \A i \in Catalogue(text) : text[i].name \in Listable
      /\ ~(Cardinality(Catalogue(text)) > MaxProfiles)
  <2>1. /\ \A i \in Catalogue(FirstText) : FirstText[i].name \in Listable
        /\ ~(Cardinality(Catalogue(FirstText)) > MaxProfiles)
    BY InstalledAssumption DEF ParseScyllaHideConfig
  <2>2. \A i \in DOMAIN text : i \in ProfileLines(text) =>
          text[i].kind = "current" /\ FirstText[i].kind = "current"
    BY DEF Usable, ProfileLines
  <2>3. /\ SectionLines(text) = SectionLines(FirstText)
        /\ \A i \in SectionLines(text) : text[i] = FirstText[i]
    BY <2>2 DEF Usable, SectionLines
  <2>4. Catalogue(text) = Catalogue(FirstText)
    BY <2>3 DEF Catalogue
  <2> QED
    BY <2>1, <2>3, <2>4 DEF Catalogue
<1>3. /\ Named(text, requested) # {} /\ Cardinality(ProfileLines(text)) = 1
      /\ Fits(text) /\ requested \in Askable
  BY DEF SetScyllaHideProfile
<1>4. PICK k : ProfileLines(text) = {k}
  <2>1. IsFiniteSet(ProfileLines(text))
    <3>1. IsFiniteSet(1..n)
      BY FS_Interval
    <3> QED
      BY <1>1, <3>1, FS_Subset DEF ProfileLines
  <2> QED
    BY <1>3, <2>1, FS_Singleton
<1>5. k \in 1..n /\ Max({k}) = k /\ text[k].kind = "current"
  <2>1. k \in ProfileLines(text)
    BY <1>4
  <2>2. k \in 1..n /\ text[k].kind = "current"
    BY <1>1, <2>1 DEF ProfileLines
  <2> QED
    BY <2>2 DEF Max
<1> DEFINE m == Max(Named(text, requested))
<1>6. m \in Named(text, requested)
  <2>1. Named(text, requested) \in SUBSET (1..n)
    BY <1>1 DEF Named, SectionLines
  <2> QED
    BY <1>3, <2>1, LastLine
<1> HIDE DEF m
<1>7. m \in 1..n /\ text[m].kind = "section" /\ Fold[text[m].name] = Fold[requested]
  BY <1>1, <1>6 DEF Named, SectionLines, EqualInsensitive
<1>8. new = [text EXCEPT ![k] = CurrentProfile(text[m].name)]
  BY <1>3, <1>4, <1>5 DEF SetScyllaHideProfile, CanonicalProfile, m
<1> HIDE DEF new
<1>9. /\ DOMAIN new = 1..n /\ \A i \in 1..n : i # k => new[i] = text[i]
      /\ new[k].kind = "current" /\ new[k].name = text[m].name
  BY <1>1, <1>5, <1>8 DEF CurrentProfile
<1>10. SectionLines(new) = SectionLines(text) /\ \A i \in SectionLines(text) : new[i] = text[i]
  BY <1>1, <1>5, <1>9 DEF SectionLines
<1>11. \A i \in 1..n : SectionAt(new, i) = SectionAt(text, i)
  <2>1. ASSUME NEW i \in 1..n
        PROVE  SectionAt(new, i) = SectionAt(text, i)
    <3> DEFINE above == {j \in SectionLines(text) : j < i}
    <3>1. above \in SUBSET (1..n) /\ above \subseteq SectionLines(text)
      BY <1>1 DEF SectionLines
    <3>2. above # {} => new[Max(above)] = text[Max(above)]
      BY <1>10, <3>1, LastLine
    <3> QED
      BY <1>10, <3>2 DEF SectionAt
  <2> QED
    BY <2>1
<1>12. ProfileLines(new) = {k}
  <2>1. ProfileLines(new) = ProfileLines(text)
    <3>1. \A i \in 1..n : new[i].kind = text[i].kind
      BY <1>5, <1>9
    <3> QED
      BY <1>1, <1>9, <1>11, <3>1 DEF ProfileLines
  <2> QED
    BY <1>4, <2>1
<1>13. Cardinality(ProfileLines(new)) = 1 /\ Max(ProfileLines(new)) = k
  BY <1>5, <1>12, FS_Singleton
<1>14. Catalogue(new) = Catalogue(text) /\ \A i \in Catalogue(new) : new[i].name \in Listable
  BY <1>2, <1>10 DEF Catalogue
<1>15. ASSUME ~Awkward(new)
       PROVE  ParseScyllaHideConfig(new) # ""
  <2>1. /\ Fits(new) /\ ~EqualInsensitive(text[m].name, "SETTINGS")
        /\ Trim[text[m].name] = text[m].name
    BY <1>9, <1>13, <1>15 DEF Awkward
  <2>2. m \in Catalogue(new) /\ new[m].name = text[m].name
    BY <1>1, <1>7, <1>10, <2>1 DEF SectionLines, Catalogue
  <2>3. Assigned(new) = text[m].name /\ text[m].name # ""
    BY <1>9, <1>13, <1>14, <2>1, <2>2, ConfigAssumption DEF Assigned
  <2>4. m \in Selected(new)
    BY <2>2, <2>3 DEF Selected, EqualInsensitive
  <2>5. Min(Selected(new)) \in Selected(new)
    <3>1. Selected(new) \in SUBSET (1..n)
      BY <1>9 DEF SectionLines, Catalogue, Selected
    <3> QED
      BY <2>4, <3>1, FirstLine
  <2>6. new[Min(Selected(new))].name # ""
    BY <1>14, <2>5, ConfigAssumption DEF Selected
  <2>7. ParseScyllaHideConfig(new) = new[Min(Selected(new))].name
    BY <1>2, <1>13, <1>14, <2>1, <2>3, <2>4 DEF ParseScyllaHideConfig
  <2> QED
    BY <2>6, <2>7
<1>16. Usable(new)
  <2>1. DOMAIN new = DOMAIN FirstText /\ ProfileLines(new) = ProfileLines(FirstText)
    BY <1>1, <1>4, <1>9, <1>12 DEF Usable
  <2>2. \A i \in DOMAIN new \ ProfileLines(new) : new[i] = FirstText[i]
    BY <1>1, <1>4, <1>9, <1>12 DEF Usable
  <2> QED
    BY <1>15, <2>1, <2>2 DEF Usable
<1> QED
  BY <1>16 DEF new

\* The text in a writer's hands is usable, and so is the ini.
RunWrites(r) == r.at \in {"create", "replace"} => Usable(r.text)

IniInv ==
  /\ Usable(ini)
  /\ \A c \in Controller : RunWrites(ctl[c])
  /\ DOMAIN set = {"at", "profile", "text", "answer"}
  /\ set.at \in {"create", "replace"} => Usable(set.text)

\* A run that writes nothing in this step: it is no writer after it, or as it was.
Quiet(r, n) ==
  n.at \in {"find", "read", "create", "replace"} =>
    /\ Same(r, n, {"text", "profile", "command"})
    /\ n.at = r.at \/ (n.at = "read" /\ r.at = "find" /\ r.command = "profile")

\* Such a run still writes only usable texts.
LEMMA QuietRun ==
  ASSUME NEW r, RunWrites(r), NEW n, Quiet(r, n)
  PROVE  RunWrites(n)
<1>1. CASE n.at \in {"find", "read", "create", "replace"}
  <2>1. n.text = r.text /\ n.profile = r.profile /\ n.command = r.command
    BY <1>1 DEF Quiet, Same
  <2> QED
    BY <1>1, <2>1 DEF Quiet, RunWrites
<1>2. CASE n.at \notin {"find", "read", "create", "replace"}
  BY <1>2 DEF RunWrites
<1> QED
  BY <1>1, <1>2

\* Nobody writes in this step.
QuietStep == \A d \in Controller : Quiet(ctl[d], ctl'[d])

\* The steps after which a run is at a given other stage.
LEMMA OneQuietRun ==
  ASSUME HostInv, NEW c \in Controller,
         \/ \E code : ctl' = Answered(c, code)
         \/ \E code, s : ctl' = [Answered(c, code) EXCEPT ![c].server = s]
         \/ \E at : Move(c, at) /\ at \notin {"find", "read", "create", "replace"}
         \/ Move(c, "read") /\ ctl[c].at = "find" /\ ctl[c].command = "profile"
  PROVE  QuietStep
<1>1. DOMAIN ctl = Controller /\ DOMAIN ctl[c] = RunFields
  BY RunKnows
<1>2. ASSUME NEW code, ctl' = Answered(c, code)
      PROVE  ctl'[c].at = "done" /\ \A d \in Controller \ {c} : ctl'[d] = ctl[d]
  BY <1>1, <1>2 DEF Answered, RunFields
<1>3. ASSUME NEW code, NEW s, ctl' = [Answered(c, code) EXCEPT ![c].server = s]
      PROVE  ctl'[c].at = "done" /\ \A d \in Controller \ {c} : ctl'[d] = ctl[d]
  <2> DEFINE a == Answered(c, code)
  <2>1. /\ DOMAIN a = Controller /\ \A d \in Controller \ {c} : a[d] = ctl[d]
        /\ DOMAIN a[c] = RunFields /\ a[c].at = "done"
    BY <1>1 DEF Answered, RunFields
  <2> HIDE DEF a
  <2>2. ctl' = [a EXCEPT ![c].server = s]
    BY <1>3 DEF a
  <2>3. ctl'[c] = [a[c] EXCEPT !.server = s] /\ \A d \in Controller \ {c} : ctl'[d] = ctl[d]
    BY <2>1, <2>2
  <2> QED
    BY <2>1, <2>3 DEF RunFields
<1>4. ASSUME NEW at, Move(c, at)
      PROVE  /\ ctl'[c].at = at /\ \A d \in Controller \ {c} : ctl'[d] = ctl[d]
             /\ Same(ctl[c], ctl'[c], {"text", "profile", "command"})
  BY <1>1, <1>4 DEF Move, RunFields, Same
<1>5. \A r : Quiet(r, r)
  BY DEF Quiet, Same
<1> QED
  BY <1>2, <1>3, <1>4, <1>5 DEF Quiet, QuietStep

\* No step but Begin, ReadIni and UpdateProfile concerns the ini.
LEMMA OthersAreQuiet ==
  ASSUME HostInv, NEW c \in Controller,
         \/ FindHosts(c) \/ FindAgain(c) \/ Status(c) \/ StartFoundHost(c) \/ CreateProcess(c)
         \/ PollReadiness(c) \/ CheckDebuggee(c) \/ CloseWindow(c) \/ AwaitExit(c)
         \/ Terminate(c) \/ AwaitKill(c) \/ DeadlinePasses(c) \/ Killed(c)
  PROVE  UNCHANGED <<ini, set>> /\ QuietStep
<1>1. DOMAIN ctl = Controller /\ \A d \in Controller : DOMAIN ctl[d] = RunFields
  BY RunKnows
<1>2. \A r : Quiet(r, r)
  BY DEF Quiet, Same
<1>3. ASSUME NEW code, Answer(c, code)
      PROVE  QuietStep
  BY <1>3, OneQuietRun DEF Answer
<1>4. ASSUME NEW at, Move(c, at), at \notin {"find", "read", "create", "replace"}
      PROVE  QuietStep
  BY <1>4, OneQuietRun
<1>5. ASSUME NEW s, ctl' = [Answered(c, "ok") EXCEPT ![c].server = s]
      PROVE  QuietStep
  BY <1>5, OneQuietRun
<1>6. ASSUME NEW code, ctl' = Answered(c, code)
      PROVE  QuietStep
  BY <1>6, OneQuietRun
<1>7. UNCHANGED <<ini, set>>
  BY DEF FindHosts, FindAgain, Status, StartFoundHost, CreateProcess, PollReadiness, CheckDebuggee,
     CloseWindow, AwaitExit, Terminate, AwaitKill, DeadlinePasses, Killed, GiveUp, Answer, Move,
     World
<1> SUFFICES QuietStep
  BY <1>7
<1>8. CASE FindHosts(c)
  <2>1. ASSUME NEW p, ctl' = Found(c, p)
        PROVE  QuietStep
    <3> DEFINE at == CASE ctl[c].command = "status" -> "report"
                       [] ctl[c].command = "start" -> "present"
                       [] OTHER -> IF ctl[c].force THEN "window" ELSE "health"
    <3>1. at \in {"report", "present", "window", "health"}
      OBVIOUS
    <3> HIDE DEF at
    <3>2. ctl'[c].at = at /\ \A d \in Controller \ {c} : ctl'[d] = ctl[d]
      BY <1>1, <2>1 DEF Found, RunFields, at
    <3> QED
      BY <1>2, <3>1, <3>2 DEF Quiet, QuietStep
  <2>2. \/ \E code : Answer(c, code)
        \/ \E at : Move(c, at) /\ at \notin {"find", "read", "create", "replace"}
        \/ Move(c, "read") /\ ctl[c].at = "find" /\ ctl[c].command = "profile"
        \/ \E p : ctl' = Found(c, p)
    BY <1>8 DEF FindHosts
  <2> QED
    BY <1>3, <1>4, <2>1, <2>2, OneQuietRun
<1>9. CASE FindAgain(c)
  <2>1. ASSUME NEW p, ctl' = [ctl EXCEPT ![c].host = p, ![c].at = "present",
                                         ![c].alone = Anyone = {p}]
        PROVE  QuietStep
    <3>1. ctl'[c].at = "present" /\ \A d \in Controller \ {c} : ctl'[d] = ctl[d]
      BY <1>1, <2>1 DEF RunFields
    <3> QED
      BY <1>2, <3>1 DEF Quiet, QuietStep
  <2> QED
    BY <1>3, <1>4, <1>9, <2>1 DEF FindAgain
<1>10. CASE Status(c) \/ StartFoundHost(c) \/ PollReadiness(c) \/ Killed(c)
  BY <1>3, <1>5, <1>10 DEF Status, StartFoundHost, PollReadiness, Killed
<1>11. CASE CheckDebuggee(c)
  <2>1. (\E code : Answer(c, code)) \/ Move(c, "window")
    BY <1>11 DEF CheckDebuggee
  <2> QED
    BY <1>3, <1>4, <2>1
<1>12. CASE CreateProcess(c)
  <2>1. ASSUME NEW p,
               ctl' = [d \in Controller |->
                         IF d = c THEN [ctl[c] EXCEPT !.host = p, !.at = "poll",
                                                      !.alone = Anyone = {}]
                         ELSE [ctl[d] EXCEPT !.alone = FALSE]]
        PROVE  QuietStep
    <3>1. ctl'[c].at = "poll"
      BY <1>1, <2>1 DEF RunFields
    <3>2. ASSUME NEW d \in Controller \ {c}
          PROVE  Same(ctl[d], ctl'[d], {"text", "profile", "command", "at"})
      BY <1>1, <2>1, <3>2 DEF RunFields, Same
    <3> QED
      BY <3>1, <3>2 DEF Quiet, QuietStep, Same
  <2> QED
    BY <1>3, <1>12, <2>1 DEF CreateProcess
<1>13. ASSUME NEW code, GiveUp(c, code)
       PROVE  QuietStep
  <2>1. CASE ctl' = [ctl EXCEPT ![c].answer = code, ![c].at = "kill"]
    <3>1. ctl'[c].at = "kill" /\ \A d \in Controller \ {c} : ctl'[d] = ctl[d]
      BY <1>1, <2>1 DEF RunFields
    <3> QED
      BY <1>2, <3>1 DEF Quiet, QuietStep
  <2> QED
    BY <1>6, <1>13, <2>1 DEF GiveUp
<1>14. ASSUME NEW hit, NEW at \in {"wait", "killed"},
              ctl' = [ctl EXCEPT ![c].hit = hit, ![c].at = at]
       PROVE  QuietStep
  <2>1. ctl'[c].at = at /\ \A d \in Controller \ {c} : ctl'[d] = ctl[d]
    BY <1>1, <1>14 DEF RunFields
  <2> QED
    BY <1>2, <2>1 DEF Quiet, QuietStep
<1>15. ASSUME ctl' = StopDone(c)
       PROVE  QuietStep
  <2>1. CASE ctl' = [ctl EXCEPT ![c].host = 0, ![c].at = "again"]
    <3>1. ctl'[c].at = "again" /\ \A d \in Controller \ {c} : ctl'[d] = ctl[d]
      BY <1>1, <2>1 DEF RunFields
    <3> QED
      BY <1>2, <3>1 DEF Quiet, QuietStep
  <2> QED
    BY <1>6, <1>15, <2>1 DEF StopDone
<1>16. CASE CloseWindow(c) \/ AwaitExit(c) \/ Terminate(c) \/ AwaitKill(c)
  BY <1>3, <1>13, <1>14, <1>15, <1>16 DEF CloseWindow, AwaitExit, Terminate, AwaitKill
<1>17. CASE DeadlinePasses(c)
  <2>1. /\ Same(ctl[c], ctl'[c], {"text", "profile", "command", "at"})
        /\ \A d \in Controller \ {c} : ctl'[d] = ctl[d]
    BY <1>1, <1>17 DEF DeadlinePasses, RunFields, Same
  <2> QED
    BY <1>2, <2>1 DEF Quiet, QuietStep, Same
<1> QED
  BY <1>8, <1>9, <1>10, <1>11, <1>12, <1>16, <1>17

\* AtomicReplace puts the writer's own text in place, or leaves the ini alone.
LEMMA RunWritesUsable ==
  ASSUME HostInv, IniInv, NEW c \in Controller, ReadIni(c) \/ UpdateProfile(c)
  PROVE  Usable(ini') /\ UNCHANGED set /\ \A d \in Controller : RunWrites(ctl'[d])
<1>1. /\ DOMAIN ctl = Controller /\ DOMAIN ctl[c] = RunFields /\ StageFits(ctl[c])
      /\ \A d \in Controller : RunWrites(ctl[d])
      /\ Usable(ini)
  BY RunKnows DEF IniInv
<1>2. ASSUME NEW code, ctl' = Answered(c, code)
      PROVE  \A d \in Controller : RunWrites(ctl'[d])
  <2>1. ctl'[c].at = "done" /\ \A d \in Controller \ {c} : ctl'[d] = ctl[d]
    BY <1>1, <1>2 DEF Answered, RunFields
  <2> QED
    BY <1>1, <2>1 DEF RunWrites
<1>3. CASE ReadIni(c)
  <2> DEFINE text == SetScyllaHideProfile(ini, ctl[c].profile)
  <2>2. text # Refused => Usable(text)
    BY <1>1, SetKeepsUsable
  <2> HIDE DEF text
  <2>3. CASE text # Refused /\ ctl' = [ctl EXCEPT ![c].text = text, ![c].at = "create"]
    <3>1. /\ ctl'[c].at = "create" /\ ctl'[c].text = text
          /\ \A d \in Controller \ {c} : ctl'[d] = ctl[d]
      BY <1>1, <2>3 DEF RunFields
    <3> QED
      BY <1>1, <1>3, <2>2, <2>3, <3>1 DEF RunWrites, ReadIni, Answer, World
  <2>4. UNCHANGED <<ini, set>>
    BY <1>3 DEF ReadIni, Answer, World
  <2> QED
    BY <1>1, <1>2, <1>3, <2>3, <2>4 DEF ReadIni, Answer, text
<1>4. CASE UpdateProfile(c)
  <2>1. Usable(ini')
    BY <1>1, <1>4 DEF UpdateProfile, CreateTemporary, Replace, DeleteTemporary, RunWrites
  <2>2. UNCHANGED set
    BY <1>4 DEF UpdateProfile
  <2>3. CASE ctl[c].at = "create" /\ ctl' = [ctl EXCEPT ![c].at = "replace"]
    <3>1. /\ ctl'[c].at = "replace" /\ ctl'[c].text = ctl[c].text
          /\ \A d \in Controller \ {c} : ctl'[d] = ctl[d]
      BY <1>1, <2>3 DEF RunFields
    <3>2. \A d \in Controller : RunWrites(ctl'[d])
      BY <1>1, <2>3, <3>1 DEF RunWrites
    <3> QED
      BY <2>1, <2>2, <3>2
  <2> QED
    BY <1>2, <1>4, <2>1, <2>2, <2>3 DEF UpdateProfile
<1> QED
  BY <1>3, <1>4

\* The plugin's writer does the same with its compare and verification.
LEMMA ToolWritesUsable ==
  ASSUME IniInv, ProfileTool
  PROVE  IniInv'
<1>1. UNCHANGED ctl /\ Usable(ini) /\ DOMAIN set = {"at", "profile", "text", "answer"}
  BY DEF ProfileTool, IniInv
<1>2. SUFFICES /\ Usable(ini') /\ DOMAIN set' = {"at", "profile", "text", "answer"}
               /\ set'.at \in {"create", "replace"} => Usable(set'.text)
  BY <1>1 DEF IniInv
<1>3. ASSUME NEW code, SetAnswer(code)
      PROVE  set'.at = "done" /\ DOMAIN set' = {"at", "profile", "text", "answer"}
  BY <1>1, <1>3 DEF SetAnswer
<1>4. CASE \E profile \in Requested : SetBegin(profile)
  <2>1. PICK profile \in Requested : SetBegin(profile)
    BY <1>4
  <2>2. set'.at = "read" /\ set'.profile = profile /\ DOMAIN set' = DOMAIN set /\ ini' = ini
    BY <1>1, <2>1 DEF SetBegin
  <2> QED
    BY <1>1, <2>1, <2>2
<1>5. CASE SetRead
  <2> DEFINE text == SetScyllaHideProfile(ini, set.profile)
  <2>1. ini' = ini
    BY <1>5 DEF SetRead
  <2>2. text # Refused => Usable(text)
    BY <1>1, SetKeepsUsable
  <2>3. \/ \E code : SetAnswer(code)
        \/ set' = [set EXCEPT !.at = "verify"]
        \/ text # Refused /\ set' = [set EXCEPT !.at = "create", !.text = text]
    BY <1>5 DEF SetRead
  <2> HIDE DEF text
  <2>4. CASE \E code : SetAnswer(code)
    BY <1>1, <1>3, <2>1, <2>4
  <2>5. CASE set' = [set EXCEPT !.at = "verify"]
    BY <1>1, <2>1, <2>5
  <2>6. CASE text # Refused /\ set' = [set EXCEPT !.at = "create", !.text = text]
    BY <1>1, <2>1, <2>2, <2>6
  <2> QED
    BY <2>3, <2>4, <2>5, <2>6
<1>6. CASE SetWrite
  <2>1. Usable(ini')
    BY <1>1, <1>6 DEF SetWrite, CreateTemporary, Replace, DeleteTemporary, IniInv
  <2>2. CASE \E code : SetAnswer(code)
    BY <1>3, <2>1, <2>2
  <2>3. CASE set.at = "create" /\ set' = [set EXCEPT !.at = "replace"]
    BY <1>1, <2>1, <2>3 DEF IniInv
  <2>4. CASE set' = [set EXCEPT !.at = "verify"]
    BY <1>1, <2>1, <2>4
  <2> QED
    BY <1>6, <2>2, <2>3, <2>4 DEF SetWrite
<1>7. CASE SetVerify
  <2>1. (\E code : SetAnswer(code)) /\ ini' = ini
    BY <1>7 DEF SetVerify
  <2> QED
    BY <1>1, <1>3, <2>1
<1> QED
  BY <1>4, <1>5, <1>6, <1>7 DEF ProfileTool

\* Everything else leaves the ini, the tool and the writers as they are.
LEMMA QuietKeepsIni ==
  ASSUME IniInv, UNCHANGED <<ini, set>>, QuietStep
  PROVE  IniInv'
BY QuietRun DEF IniInv, QuietStep

\* No step makes a text unusable that somebody will put in place.
LEMMA IniInvNext ==
  ASSUME HostInv, IniInv, [Next]_vars
  PROVE  IniInv'
<1>1. DOMAIN ctl = Controller /\ \A d \in Controller : DOMAIN ctl[d] = RunFields
  BY RunKnows DEF HostInv
<1>2. ASSUME NEW c \in Controller, Step(c) \/ DeadlinePasses(c) \/ Killed(c)
      PROVE  IniInv'
  <2>1. CASE ReadIni(c) \/ UpdateProfile(c)
    <3>1. Usable(ini') /\ UNCHANGED set /\ \A d \in Controller : RunWrites(ctl'[d])
      BY <2>1, RunWritesUsable
    <3> QED
      BY <3>1 DEF IniInv
  <2>2. CASE ~(ReadIni(c) \/ UpdateProfile(c))
    <3>1. UNCHANGED <<ini, set>> /\ QuietStep
      BY <1>2, <2>2, OthersAreQuiet DEF Step
    <3> QED
      BY <3>1, QuietKeepsIni
  <2> QED
    BY <2>1, <2>2
<1>3. ASSUME NEW c \in Controller, NEW command, NEW force, NEW profile,
             Begin(c, command, force, profile)
      PROVE  IniInv'
  <2>1. /\ ctl'[c].at = "find" /\ ctl'[c].command = command /\ ctl'[c].profile = profile
        /\ \A d \in Controller \ {c} : ctl'[d] = ctl[d]
        /\ UNCHANGED <<ini, set>>
    BY <1>1, <1>3 DEF Begin, World, RunFields
  <2>2. RunWrites(ctl'[c])
    BY <1>3, <2>1 DEF RunWrites
  <2> QED
    BY <2>1, <2>2 DEF IniInv
<1>4. ASSUME NEW p \in Pid, Exit(p) \/ Listen(p) \/ Deafen(p)
      PROVE  IniInv'
  BY <1>4 DEF IniInv, Exit, Listen, Deafen
<1>5. ASSUME NEW p \in Pid,
             DebuggeeChanges(p) \/ \E kind \in {"host", "hidden", "other"} : Spawn(p, kind)
      PROVE  IniInv'
  <2>1. UNCHANGED <<ini, set>>
    BY <1>5 DEF DebuggeeChanges, Spawn
  <2>2. ASSUME NEW d \in Controller
        PROVE  Same(ctl[d], ctl'[d], {"text", "profile", "command", "at"})
    <3>1. CASE DebuggeeChanges(p)
      BY <1>1, <3>1 DEF DebuggeeChanges, RunFields, Same
    <3>2. CASE \E kind \in {"host", "hidden", "other"} : Spawn(p, kind)
      BY <1>1, <3>2 DEF Spawn, RunFields, Same
    <3> QED
      BY <1>5, <3>1, <3>2
  <2>3. QuietStep
    BY <2>2 DEF QuietStep, Quiet, Same
  <2> QED
    BY <2>1, <2>3, QuietKeepsIni
<1>6. CASE UNCHANGED vars
  BY <1>6 DEF IniInv, vars
<1>7. CASE ProfileTool
  BY <1>7, ToolWritesUsable
<1> QED
  BY <1>2, <1>3, <1>4, <1>5, <1>6, <1>7 DEF Next

\* Whoever dies or fails and whoever else writes, scylla_hide.ini is the installed text
\* but for the assigned profile, and selects one unless an awkward request was carried
\* out (AtomicReplace, AtomicReplaceScyllaHideConfig, SetScyllaHideProfile).
THEOREM IniStaysUsableHolds == Spec => []IniStaysUsable
<1>1. Init => IniInv
  <2>1. ASSUME Init, NEW c \in Controller
        PROVE  RunWrites(ctl[c])
    BY <2>1 DEF Init, Idle, RunWrites
  <2>2. ASSUME Init
        PROVE  /\ ini = FirstText /\ set.at = "idle"
               /\ DOMAIN set = {"at", "profile", "text", "answer"}
    BY <2>2 DEF Init
  <2>3. Usable(FirstText)
    BY InstalledAssumption DEF Usable
  <2> QED
    BY <2>1, <2>2, <2>3 DEF IniInv
<1>2. HostInv /\ IniInv /\ [Next]_vars => IniInv'
  BY IniInvNext
<1>3. IniInv => IniStaysUsable
  BY DEF IniInv, Usable, IniStaysUsable
<1> QED
  BY <1>1, <1>2, <1>3, HostInvHolds, PTL DEF Spec

==============================================================================
