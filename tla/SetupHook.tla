------------------------------ MODULE SetupHook ------------------------------
(***************************************************************************)
(* The repository's setup hook: run_setup_hook of include.py, the ladder   *)
(* that ends its process group, and the signal handler of interrupts.py,   *)
(* all on one thread, against a hook that starts processes of its own.     *)
(*                                                                         *)
(* The group is known by the leader's pid.  The kernel keeps the number    *)
(* for the group while the leader is not reaped or a member is left; after *)
(* that it may give it to strangers.  The handler always raises, so what   *)
(* it interrupted never goes on; it only unwinds.                          *)
(***************************************************************************)
EXTENDS Naturals

CONSTANTS
    Child,          \* processes the hook may start
    MaxHookSignals  \* bound: signals delivered to the fork command

ASSUME SignalsAssumption == MaxHookSignals \in Nat

Policies == {"tracked", "any", "off"}

\* What lies at the hook's path, what the anchor commit has there, and whether
\* the bytes can be read and agree.
Hooks == [disk : {"none", "file", "other"}, anchor : {"none", "blob", "other", "unreadable"},
          bytes : {"same", "differ", "unreadable"}]

\* setup_hook_eligibility: would the committed bytes be run?
Eligibility(h) ==
    CASE h.disk = "none" -> "absent"
      [] h.disk = "other" -> "not_a_regular_blob"
      [] h.disk = "file" /\ h.anchor = "unreadable" -> "unchecked"
      [] h.disk = "file" /\ h.anchor = "none" -> "untracked"
      [] h.disk = "file" /\ h.anchor = "other" -> "not_a_regular_blob"
      [] h.disk = "file" /\ h.anchor = "blob" ->
            CASE h.bytes = "unreadable" -> "unchecked"
              [] h.bytes = "differ" -> "modified"
              [] h.bytes = "same" -> "eligible"

(***************************************************************************)
(* check    policy, presence and eligibility                               *)
(* spawn    about to start the hook, signals blocked                       *)
(* collect  reading the hook's output under the leader's deadline          *)
(* reap     the deadline passed: the ladder runs                           *)
(* drain    reading what output is left                                    *)
(* unwind   except BaseException: the ladder runs once more                *)
(* report   the step is over but for its report                            *)
(* returned the fork goes on; its handlers are still installed             *)
(* raised   the interruption is on its way to the rollback                 *)
(* done     the fork has returned                                          *)
(***************************************************************************)
Inside == {"collect", "reap", "drain", "unwind"}
Places == {"check", "spawn", "report", "returned", "raised", "done"} \cup Inside

Rungs == {"none", "probe_term", "term", "grace_term", "probe_kill", "kill", "grace_kill"}

VARIABLES
    policy, eligibility,
    leader,     \* none, alive, zombie (exited, not reaped), gone
    child,      \* each child: none, in (the group), out (left it), gone
    pipes,      \* the children that hold the hook's output open
    killed,     \* the members a SIGKILL has reached, and "leader"
    stranger,   \* the leader's pid names a stranger's group
    struck,     \* ghost: a stranger's group was signalled
    at,         \* where the command is
    ladder,     \* the rung _reap stands on
    handler,    \* the signal handler runs on top of at
    jammed,     \* the handler interrupted a waitpid: poll() learns nothing
    registered, \* _ACTIVE.group is this hook's
    emptied,    \* the latch
    drained,    \* the drain deadline is set: the leader was seen to be gone
    status, timed, leftover, cleared,   \* the result
    received

kernel == <<leader, child, pipes, killed, stranger, struck>>
asked == <<policy, eligibility>>
frame == <<handler, jammed, received>>
result == <<status, timed, leftover, cleared>>
hookVars == <<policy, eligibility, leader, child, pipes, killed, stranger, struck, at,
              ladder, handler, jammed, registered, emptied, drained, status, timed,
              leftover, cleared, received>>

HookInit ==
    /\ policy \in Policies
    /\ \E h \in Hooks : eligibility = Eligibility(h)
    /\ leader = "none"
    /\ child = [c \in Child |-> "none"]
    /\ pipes = {} /\ killed = {}
    /\ stranger = FALSE /\ struck = FALSE
    /\ at = "check"
    /\ ladder = "none"
    /\ handler = FALSE /\ jammed = FALSE /\ received = 0
    /\ registered = FALSE /\ emptied = FALSE /\ drained = FALSE
    /\ status = "disabled" /\ timed = FALSE /\ leftover = FALSE /\ cleared = TRUE

Members == {c \in Child : child[c] = "in"}
HoldsNumber == leader \in {"alive", "zombie"} \/ Members # {}

\* Both pipes are at end of file, as far as the hook's own side goes.
Eof == leader # "alive" /\ \A c \in pipes : child[c] \notin {"in", "out"}

Reaped == IF leader = "zombie" THEN "gone" ELSE leader

-----------------------------------------------------------------------------
(***************************************************************************)
(* The hook and the kernel                                                 *)
(***************************************************************************)
Hooked == UNCHANGED <<asked, at, ladder, frame, registered, emptied, drained, result>>

\* A member that no SIGKILL has reached starts a child.
Starts(c) ==
    /\ child[c] = "none"
    /\ \/ leader = "alive" /\ "leader" \notin killed
       \/ Members \ killed # {}
    /\ child' = [child EXCEPT ![c] = "in"]
    /\ pipes' \in {pipes, pipes \cup {c}}
    /\ UNCHANGED <<leader, killed, stranger, struck>> /\ Hooked

\* A child calls setsid.
Leaves(c) ==
    /\ c \in Members \ killed
    /\ child' = [child EXCEPT ![c] = "out"]
    /\ UNCHANGED <<leader, pipes, killed, stranger, struck>> /\ Hooked

Exits(c) ==
    /\ child[c] \in {"in", "out"}
    /\ child' = [child EXCEPT ![c] = "gone"]
    /\ UNCHANGED <<leader, pipes, killed, stranger, struck>> /\ Hooked

LeaderExits ==
    /\ leader = "alive"
    /\ leader' = "zombie"
    /\ UNCHANGED <<child, pipes, killed, stranger, struck>> /\ Hooked

\* The number is free, and a new group gets it.
Recycle ==
    /\ leader = "gone" /\ Members = {} /\ ~stranger
    /\ stranger' = TRUE
    /\ UNCHANGED <<leader, child, pipes, killed, struck>> /\ Hooked

-----------------------------------------------------------------------------
(***************************************************************************)
(* run_setup_hook                                                          *)
(***************************************************************************)
HookGoes(s) == at' = s

\* Why the hook is not run, if it is not.
Refusal ==
    CASE policy = "off" -> "disabled"
      [] policy # "off" /\ eligibility = "absent" -> "absent"
      [] policy = "tracked" /\ eligibility \notin {"absent", "eligible"} -> "skipped"
      [] OTHER -> "none"

Check ==
    /\ at = "check" /\ ~handler
    /\ IF Refusal = "none"
       THEN HookGoes("spawn") /\ UNCHANGED status
       ELSE HookGoes("returned") /\ status' = Refusal
    /\ UNCHANGED <<asked, kernel, ladder, frame, registered, emptied, drained,
                   timed, leftover, cleared>>

\* Popen and the registration, with signals blocked around both.
Spawn ==
    /\ at = "spawn" /\ ~handler
    /\ leader' = "alive"
    /\ registered' = TRUE
    /\ status' = "ran"
    /\ HookGoes("collect")
    /\ UNCHANGED <<asked, child, pipes, killed, stranger, struck, ladder, frame,
                   emptied, drained, timed, leftover, cleared>>

\* Popen raises.
SpawnFails ==
    /\ at = "spawn" /\ ~handler
    /\ status' = "failed_to_start"
    /\ HookGoes("returned")
    /\ UNCHANGED <<asked, kernel, ladder, frame, registered, emptied, drained,
                   timed, leftover, cleared>>

\* The finally clause forgets the group.
Closes == HookGoes("report") /\ registered' = FALSE

\* communicate() reaches end of file and has waited for the leader.
Completes ==
    /\ at \in {"collect", "drain"} /\ ~handler
    /\ Eof
    /\ leader' = "gone"
    /\ Closes
    /\ UNCHANGED <<asked, child, pipes, killed, stranger, struck, ladder, frame,
                   emptied, drained, result>>

\* poll() sees the leader gone: from here the drain deadline counts.
SeesExit ==
    /\ at \in {"collect", "drain"} /\ ~handler /\ ~drained
    /\ leader \in {"zombie", "gone"}
    /\ leader' = "gone"
    /\ drained' = TRUE
    /\ UNCHANGED <<asked, child, pipes, killed, stranger, struck, at, ladder, frame,
                   registered, emptied, result>>

\* The leader is still there at its deadline.
TimesOut ==
    /\ at = "collect" /\ ~handler /\ ~drained
    /\ leader = "alive"
    /\ timed' = TRUE
    /\ HookGoes("reap") /\ ladder' = "probe_term"
    /\ UNCHANGED <<asked, kernel, frame, registered, emptied, drained, status,
                   leftover, cleared>>

\* Not even SIGKILL ended the leader in time.
GivesUpOnLeader ==
    /\ at = "drain" /\ ~handler /\ ~drained
    /\ leader = "alive"
    /\ Closes
    /\ UNCHANGED <<asked, kernel, ladder, frame, emptied, drained, result>>

\* Mutant of Detaches: the drain deadline is set and never looked at.
DetachesNever == FALSE /\ UNCHANGED hookVars

\* The pipes are still open at the drain deadline: the outcome is detached.
Detaches ==
    /\ at \in {"collect", "drain"} /\ ~handler /\ drained
    /\ ~Eof
    /\ Closes
    /\ cleared' = FALSE
    /\ UNCHANGED <<asked, kernel, ladder, frame, emptied, drained, status, timed,
                   leftover>>

-----------------------------------------------------------------------------
(***************************************************************************)
(* The ladder                                                              *)
(***************************************************************************)
Latch(empty) == emptied' = (emptied \/ empty)

\* Mutants of Probe: the leader's exit is taken for the group's; the latch is
\* set and not read.
ProbeLeader(empty) ==
    /\ leader' = IF emptied \/ jammed THEN leader ELSE Reaped
    /\ empty <=> emptied \/ leader' = "gone"
    /\ Latch(empty)

ProbeUnlatched(empty) ==
    /\ leader' = IF jammed THEN leader ELSE Reaped
    /\ empty <=> leader' = "gone" /\ Members = {} /\ ~stranger
    /\ Latch(empty)

\* _group_is_empty: the latch, then poll(), then killpg(pid, 0), which cannot
\* tell the group from strangers under its number.
Probe(empty) ==
    /\ leader' = IF emptied \/ jammed THEN leader ELSE Reaped
    /\ empty <=> emptied \/ (leader' = "gone" /\ Members = {} /\ ~stranger)
    /\ Latch(empty)

Climbs(from, to) == ladder = from /\ ladder' = to

\* Where an exception that leaves the handler, or _reap, takes the command.
Unwinds ==
    IF at \in {"collect", "reap", "drain"}
    THEN HookGoes("unwind") /\ ladder' = "probe_term" /\ UNCHANGED registered
    ELSE HookGoes("raised") /\ ladder' = "none" /\ registered' = FALSE

\* _reap returns; left when it has to report survivors.
Steps(left) ==
    IF handler THEN
        /\ handler' = FALSE /\ jammed' = FALSE
        /\ Unwinds
        /\ UNCHANGED leftover
    ELSE
        /\ UNCHANGED <<handler, jammed>>
        /\ IF at = "reap"
           THEN HookGoes("drain") /\ ladder' = "none" /\ leftover' = left /\ UNCHANGED registered
           ELSE Unwinds /\ UNCHANGED leftover

Reaping == UNCHANGED <<asked, child, pipes, stranger, drained, status, timed, cleared,
                       received>>

\* _signal_hook_group probes first; an empty group ends the ladder at once.
BeforeSignal(from, to) ==
    /\ ladder = from
    /\ \/ /\ Probe(FALSE) /\ ladder' = to
          /\ UNCHANGED <<at, handler, jammed, registered, leftover>>
       \/ Probe(TRUE) /\ Steps(FALSE)
    /\ UNCHANGED <<killed, struck>> /\ Reaping

\* killpg: the group, strangers under its number, or nobody (ESRCH).
Killpg(from, to, lethal) ==
    /\ Climbs(from, to)
    /\ killed' = IF lethal /\ HoldsNumber THEN killed \cup Members \cup {"leader"} ELSE killed
    /\ struck' = (struck \/ stranger)
    /\ Latch(~HoldsNumber /\ ~stranger)
    /\ UNCHANGED <<leader, at, handler, jammed, registered, leftover>> /\ Reaping

\* _await_empty_group: seen empty ...
GroupEnds ==
    /\ ladder \in {"grace_term", "grace_kill"}
    /\ Probe(TRUE) /\ Steps(FALSE)
    /\ UNCHANGED <<killed, struck>> /\ Reaping

\* ... or seen occupied by its last probe.
GraceEnds ==
    /\ ladder \in {"grace_term", "grace_kill"}
    /\ Probe(FALSE)
    /\ IF ladder = "grace_term"
       THEN ladder' = "probe_kill" /\ UNCHANGED <<at, handler, jammed, registered, leftover>>
       ELSE Steps(TRUE)
    /\ UNCHANGED <<killed, struck>> /\ Reaping

Reap ==
    \/ BeforeSignal("probe_term", "term") \/ Killpg("term", "grace_term", FALSE)
    \/ BeforeSignal("probe_kill", "kill") \/ Killpg("kill", "grace_kill", TRUE)
    \/ GroupEnds \/ GraceEnds

-----------------------------------------------------------------------------
\* Mutant of Report: what the pipes said is all that is said.
ReportUnprobed ==
    /\ at = "report" /\ ~handler
    /\ HookGoes("returned")
    /\ UNCHANGED <<asked, kernel, ladder, frame, registered, emptied, drained, result>>

\* Output that ended says nothing of processes that write none; a last probe
\* tells whether the group still holds any.
Report ==
    /\ at = "report" /\ ~handler
    /\ \E empty \in BOOLEAN :
          IF cleared THEN Probe(empty) /\ cleared' = empty
          ELSE UNCHANGED <<leader, emptied, cleared>>
    /\ HookGoes("returned")
    /\ UNCHANGED <<asked, child, pipes, killed, stranger, struck, ladder, frame,
                   registered, drained, status, timed, leftover>>

\* The rest of the fork succeeds.
Finish ==
    /\ at = "returned" /\ ~handler
    /\ HookGoes("done")
    /\ UNCHANGED <<asked, kernel, ladder, frame, registered, emptied, drained, result>>

\* SIGINT or SIGTERM: terminate_active_setup_hook, then OperationInterrupted.
\* Another handler may be what it interrupts.
InterruptHook ==
    /\ received < MaxHookSignals /\ at \notin {"raised", "done"}
    /\ received' = received + 1
    /\ jammed' \in {jammed, jammed \/ at \in Inside}
    /\ IF registered
       THEN handler' = TRUE /\ ladder' = "probe_term" /\ UNCHANGED <<at, registered>>
       ELSE UNCHANGED handler /\ Unwinds
    /\ UNCHANGED <<asked, kernel, emptied, drained, result>>

-----------------------------------------------------------------------------
Command ==
    \/ Check \/ Spawn \/ SpawnFails \/ Completes \/ SeesExit \/ TimesOut
    \/ GivesUpOnLeader \/ Detaches \/ Reap \/ Report \/ Finish

HookNext ==
    \/ Command \/ InterruptHook \/ LeaderExits \/ Recycle
    \/ \E c \in Child : Starts(c) \/ Leaves(c) \/ Exits(c)

HookSpec == HookInit /\ [][HookNext]_hookVars

\* The command runs and its clocks go on; the hook may do anything or nothing.
FairHookSpec == HookSpec /\ WF_hookVars(Command)
-----------------------------------------------------------------------------
\* Once the group was seen empty its number is retired: no ladder, however
\* many signals stack them, signals a group that got the number since.
RetiredNumberIsNeverSignalled == [][emptied => struck' = struck]_hookVars

\* When the hook step is interrupted, the rollback begins only after every
\* process left in the hook's group has been sent SIGKILL, even when the
\* leader is long gone and even when one signal interrupts the handling of
\* another (REQ-22; README: terminated before rollback removes the worktree).
InterruptedHookIsKilled ==
    [][at = "unwind" /\ at' = "raised" =>
          Members \subseteq killed /\ (leader = "alive" => "leader" \in killed)]_hookVars

\* descendants_cleared is only claimed when nothing of the hook is left in
\* its group.
ClearedMeansCleared ==
    at \in {"returned", "done"} /\ status = "ran" /\ cleared => Members = {}

\* The step ends even when the hook ignores SIGTERM, leaves processes behind
\* or lets one out of the group with its output open for ever.
HookStepEnds == at = "collect" ~> at \in {"done", "raised"}

=============================================================================
