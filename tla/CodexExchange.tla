--------------------------- MODULE CodexExchange ---------------------------
(***************************************************************************)
(* One exchange with the Codex app-server (codex_app_server.py): a child   *)
(* process is asked over its pipes for the threads of a name, page by      *)
(* page, or for one thread, within one deadline, and is ended whatever     *)
(* comes of it; preflight_agent of agents.py makes a session of what it    *)
(* said.                                                                   *)
(*                                                                         *)
(* The server is outside this repository: it lists threads from the one    *)
(* updated last, a cursor says where a page ended.  It may die at any      *)
(* time, be slow, and misbehave MaxFaults times.  Streams keep their       *)
(* order; how much of stdout one read returns is anybody's guess.  The     *)
(* limits on bytes and on pending messages are one, MaxPending.            *)
(***************************************************************************)
EXTENDS Naturals, Sequences, FiniteSets

CONSTANTS
    Thread, Name, Canonical,
    Flushed,        \* the threads whose rollout is on disk
    None, Pending, Refused, NotFound, Ambiguous,
    MaxPages, MaxRecords, MaxPending,
    MaxTouches, MaxFaults, MaxNotices   \* bounds of what happens meanwhile

\* Which of the two is asked for, a name or a thread, is known.
ASSUME ExchangeAssumption ==
    /\ IsFiniteSet(Thread) /\ Name \cap Thread = {} /\ None \notin Nat
    /\ {MaxPages, MaxRecords, MaxPending} \subseteq Nat \ {0}
    /\ {MaxTouches, MaxFaults, MaxNotices} \subseteq Nat
    /\ Canonical \cup Flushed \subseteq Thread
    /\ {None, Pending, Refused, NotFound, Ambiguous} \cap (Thread \cup Name) = {}

VARIABLES
    name, updated,  \* Codex's threads: their names, when they were updated
    bore, moved,    \* what happened to them since (NameLookup)
    asked,
    server,         \* none, running, exited, reaped
    requests,       \* what the server has not read yet
    stdout,         \* what the client has not read yet
    inbox,          \* messages read and not taken
    pc, request,    \* the client: its step, the id it uses
    cursor, seen, candidates, records,
    found,          \* what the exchange yields: candidates, or Refused
    unsent,         \* a payload that could not be written is still buffered
    answer,
    touches, faults, notices

world == <<name, updated, bore, moved, touches>>
wires == <<requests, stdout>>
paging == <<cursor, seen, candidates, records>>
vars == <<world, asked, server, wires, inbox, pc, request, paging, found, unsent,
          answer, faults, notices>>

(***************************************************************************)
(* spawn    nothing started yet                                            *)
(* send     about to write a request                                       *)
(* await    in response()                                                  *)
(* close    the finally clause; terminate, kill: waiting for the server    *)
(* shut     about to close the pipes                                       *)
(* decide   preflight_agent has the candidates                             *)
(* done; escaped: TimeoutExpired left the finally clause; killed: SIGPIPE  *)
(***************************************************************************)
Ended == {"done", "escaped", "killed"}

\* A message: an answer (result or error) to the request with that id, or a
\* notice or a malformed line, which have none.
Message(kind, id, data, next) == [kind |-> kind, id |-> id, data |-> data, next |-> next]
Notice == Message("notice", None, {}, None)

Listed(t) == [id |-> t, name |-> name[t]]

Init ==
    /\ name \in [Thread -> Name]
    /\ updated \in {u \in [Thread -> 1..Cardinality(Thread)] :
                      \A s, t \in Thread : u[s] = u[t] => s = t}
    /\ bore = [t \in Thread |-> {name[t]}] /\ moved = {}
    /\ asked \in Name \cup Thread
    /\ server = "none" /\ requests = <<>> /\ stdout = <<>> /\ inbox = <<>>
    /\ pc = "spawn" /\ request = 1
    /\ cursor = None /\ seen = {} /\ candidates = {} /\ records = 0
    /\ found = None /\ unsent = FALSE /\ answer = Pending
    /\ touches = 0 /\ faults = 0 /\ notices = 0

-----------------------------------------------------------------------------
(* The client.                                                              *)

\* The exchange has its result; nobody reads the pipes any more.
Over(result) ==
    /\ pc' = "close" /\ found' = result
    /\ requests' = <<>> /\ stdout' = <<>> /\ inbox' = <<>>
    /\ cursor' = None /\ seen' = {} /\ candidates' = {} /\ records' = 0
    /\ UNCHANGED request

Fails == Over(Refused)

\* A server that cannot be started fails before there is anything to end.
Spawn ==
    /\ pc = "spawn"
    /\ \/ /\ server' = "running" /\ pc' = "send" /\ UNCHANGED found
       \/ /\ faults < MaxFaults
          /\ pc' = "decide" /\ found' = Refused /\ UNCHANGED server
    /\ UNCHANGED <<world, asked, wires, inbox, request, paging, unsent, answer,
                   faults, notices>>

\* A broken pipe is an error to handle, not a signal to die of, wherever the
\* command writes to the server.  Mutant of Ignored: not when it closes the pipe.
Unguarded(step) == step # "shut"
Ignored(step) == TRUE

\* The notification after initialize is sent with the request that follows.
Send ==
    /\ pc = "send"
    /\ \/ /\ server = "running"
          /\ requests' = Append(requests, [id |-> request, cursor |-> cursor])
          /\ pc' = "await"
          /\ UNCHANGED <<stdout, inbox, request, paging, found, unsent>>
       \/ /\ server = "exited" /\ Ignored(pc)
          /\ unsent' = TRUE /\ Fails
       \/ /\ server = "exited" /\ ~Ignored(pc)
          /\ pc' = "killed"
          /\ UNCHANGED <<wires, inbox, request, paging, found, unsent>>
    /\ UNCHANGED <<world, asked, server, answer, faults, notices>>

Prefix(k) == SubSeq(stdout, 1, k)
Mine(q) == {i \in DOMAIN q : q[i].id = request}
FirstOf(S) == CHOOSE i \in S : \A j \in S : i <= j
Without(q, i) == SubSeq(q, 1, i - 1) \o SubSeq(q, i + 1, Len(q))

\* Exact names only.  Mutant of Matching: whatever the server's search returned.
AnyListed(data) == data
Matching(data) == {l \in data : l.name = asked}

\* A cursor may not come twice, and no name takes more than MaxPages pages.
GoesOn(m) == m.next \notin seen /\ request - 1 < MaxPages

\* The answer yields the result of the exchange: the thread that was asked for,
\* the candidates of the last page, or a failure.
Yields(m) ==
    LET total == records + Cardinality(m.data)
    IN  CASE m.kind = "error" -> {Refused}
          [] m.kind = "result" /\ request = 1 -> {}
          [] m.kind = "result" /\ request > 1 /\ asked \in Thread ->
                {IF {l.id : l \in m.data} = {asked} THEN m.data ELSE Refused}
          [] m.kind = "result" /\ request > 1 /\ asked \in Name ->
                IF total > MaxRecords THEN {Refused}
                ELSE IF m.next = None THEN {candidates \cup Matching(m.data)}
                ELSE IF GoesOn(m) THEN {} ELSE {Refused}

\* Or it is followed by another request: the first, or the next page.
AskOn(m) ==
    /\ pc' = "send" /\ request' = request + 1
    /\ records' = records + Cardinality(m.data)
    /\ candidates' = candidates \cup Matching(m.data)
    /\ cursor' = m.next /\ seen' = seen \cup ({m.next} \ {None})
    /\ UNCHANGED <<requests, found>>

\* One turn of response(): whatever a read returned is parsed to its end before
\* the inbox is searched, from its front, for an answer.
Receive ==
    /\ pc = "await"
    /\ \E k \in 0..Len(stdout) :
          LET all == inbox \o Prefix(k)
              unusable == \/ \E i \in 1..k : stdout[i].kind = "malformed"
                          \/ Len(all) > MaxPending
              reply == all[FirstOf(Mine(all))]
              rest == stdout' = SubSeq(stdout, k + 1, Len(stdout))
          IN  \/ k > 0 /\ unusable /\ Fails
              \/ /\ k > 0 /\ ~unusable /\ Mine(all) = {}
                 /\ inbox' = all /\ rest
                 /\ UNCHANGED <<requests, pc, request, paging, found>>
              \/ /\ ~unusable /\ Mine(all) # {}
                 /\ \/ \E result \in Yields(reply) : Over(result)
                    \/ /\ Yields(reply) = {}
                       /\ AskOn(reply)
                       /\ inbox' = Without(all, FirstOf(Mine(all))) /\ rest
    /\ UNCHANGED <<world, asked, server, unsent, answer, faults, notices>>

\* The server has exited and both its streams are read.
Hopeless ==
    /\ pc = "await" /\ server = "exited" /\ stdout = <<>> /\ Mine(inbox) = {}
    /\ Fails
    /\ UNCHANGED <<world, asked, server, unsent, answer, faults, notices>>

\* One deadline for the whole exchange.  Mutant of Whenever: it is looked at only
\* once the server has nothing more to say.
BetweenAnswers == server = "exited"
Whenever == TRUE

Expire ==
    /\ pc = "await" /\ Whenever
    /\ Fails
    /\ UNCHANGED <<world, asked, server, unsent, answer, faults, notices>>

\* finally: a server that still runs is asked to end, then killed, and waited
\* for half a second each time.
Reaps == server' = "reaped" /\ pc' = "shut"

Close ==
    /\ pc = "close"
    /\ \/ server = "exited" /\ Reaps
       \/ server = "running" /\ pc' = "terminate" /\ UNCHANGED server
    /\ UNCHANGED <<world, asked, wires, inbox, request, paging, found, unsent,
                   answer, faults, notices>>

Wait ==
    /\ pc \in {"terminate", "kill"}
    /\ \/ server = "exited" /\ Reaps
       \/ /\ server = "running" /\ UNCHANGED server
          /\ pc' = IF pc = "terminate" THEN "kill" ELSE "escaped"
    /\ UNCHANGED <<world, asked, wires, inbox, request, paging, found, unsent,
                   answer, faults, notices>>

\* Closing stdin flushes what a failed write left in its buffer.
Shut ==
    /\ pc = "shut"
    /\ pc' = IF unsent /\ ~Ignored(pc) THEN "killed" ELSE "decide"
    /\ UNCHANGED <<world, asked, server, wires, inbox, request, paging, found,
                   unsent, answer, faults, notices>>

\* The sessions of that name: candidates whose id is no UUID do not count, and
\* neither does a second mention of one.
Sessions == {l.id : l \in found} \cap Canonical

Decide ==
    /\ pc = "decide"
    /\ \/ found = Refused /\ answer' = Refused
       \/ /\ found # Refused /\ asked \in Thread
          /\ answer' \in {l.name : l \in found}
       \/ /\ found # Refused /\ asked \in Name
          /\ \/ Sessions = {} /\ answer' = NotFound
             \/ Cardinality(Sessions) > 1 /\ answer' = Ambiguous
             \/ \E t \in Sessions :
                   /\ Sessions = {t}
                   /\ answer' = IF t \in Flushed THEN t ELSE Refused
    /\ pc' = "done"
    /\ UNCHANGED <<world, asked, server, wires, inbox, request, paging, found,
                   unsent, faults, notices>>

-----------------------------------------------------------------------------
(* The server, and Codex beside it.                                         *)

\* A page of the threads a cursor leaves, those updated last first.
Left(c) == {t \in Thread : c = None \/ updated[t] < c}
Pages(c) == {S \in SUBSET Left(c) :
                /\ S = {} => Left(c) = {}
                /\ \A t \in S, u \in Left(c) \ S : updated[t] > updated[u]}
EndOf(S, c) == IF S = Left(c) THEN None
               ELSE CHOOSE n \in {updated[t] : t \in S} : \A t \in S : n <= updated[t]

Answers(r) ==
    IF r.id = 1 THEN {Message("result", 1, {}, None)}
    ELSE IF asked \in Thread THEN {Message("result", r.id, {Listed(asked)}, None)}
    ELSE {Message("result", r.id, {Listed(t) : t \in S}, EndOf(S, r.cursor)) :
            S \in Pages(r.cursor)}

\* An error, junk, another thread, a page that starts again and gives the old
\* cursor, or an answer given twice.
Misbehaviour(r) ==
    {<<Message("error", r.id, {}, None)>>, <<Message("malformed", None, {}, None)>>}
    \cup {<<Message("result", r.id, {Listed(t)}, None)>> :
            t \in IF asked \in Thread THEN Thread \ {asked} ELSE {}}
    \cup {<<Message("result", r.id, {Listed(t) : t \in S}, r.cursor)>> :
            S \in IF asked \in Name /\ r.cursor # None THEN Pages(None) ELSE {}}
    \cup {<<m, m>> : m \in Answers(r)}

\* What comes after the last answer is taken shows nowhere.
Listening == pc \in {"spawn", "send", "await"}

Serve ==
    /\ server = "running" /\ requests # <<>> /\ Listening
    /\ \/ /\ \E m \in Answers(Head(requests)) : stdout' = Append(stdout, m)
          /\ UNCHANGED faults
       \/ /\ faults < MaxFaults /\ faults' = faults + 1
          /\ \E q \in Misbehaviour(Head(requests)) : stdout' = stdout \o q
    /\ requests' = Tail(requests)
    /\ UNCHANGED <<world, asked, server, inbox, pc, request, paging, found, unsent,
                   answer, notices>>

Notify ==
    /\ server = "running" /\ Listening
    /\ notices < MaxNotices /\ notices' = notices + 1
    /\ stdout' = Append(stdout, Notice)
    /\ UNCHANGED <<world, asked, server, requests, inbox, pc, request, paging, found,
                   unsent, answer, faults>>

\* It crashes, or ends when it is told to.
Exit ==
    /\ server = "running" /\ pc \notin Ended
    /\ \/ pc \in {"terminate", "kill"} /\ UNCHANGED faults
       \/ faults < MaxFaults /\ faults' = faults + 1
    /\ server' = "exited"
    /\ UNCHANGED <<world, asked, wires, inbox, pc, request, paging, found, unsent,
                   answer, notices>>

\* Codex writes to a thread, and may rename it.
Touch(t) ==
    /\ touches < MaxTouches /\ touches' = touches + 1
    /\ Listening
    /\ updated' = [updated EXCEPT ![t] = Cardinality(Thread) + touches']
    /\ \E n \in Name : /\ name' = [name EXCEPT ![t] = n]
                       /\ bore' = [bore EXCEPT ![t] = @ \cup {n}]
    /\ moved' = moved \cup {t}
    /\ UNCHANGED <<asked, server, wires, inbox, pc, request, paging, found, unsent,
                   answer, faults, notices>>

Client == \/ Spawn \/ Send \/ Receive \/ Hopeless \/ Expire
          \/ Close \/ Wait \/ Shut \/ Decide

Next == Client \/ Serve \/ Notify \/ Exit \/ \E t \in Thread : Touch(t)

Spec == Init /\ [][Next]_vars

\* Only the command's own clock is sure to go on: nothing is asked of the
\* server.
FairSpec == Spec /\ WF_vars(Client)

-----------------------------------------------------------------------------
(* Properties.                                                              *)

\* The exchange keeps the promise of NameLookup: a name resolves to a session
\* that bore it, and to one of several only when the others were touched while
\* the pages were read; a thread's name is its own.  An answer given twice adds
\* nothing to this, and whatever else happens, a page that starts again
\* included, is a refusal.
Lookup == INSTANCE NameLookup WITH
    answer <- IF pc = "done" THEN answer ELSE Pending

LookupSpecified == Lookup!LookupSpec

\* An exchange that is over has left no server behind, however it ended, and
\* none ends by the broken pipe of a server that is gone.  Only a server that
\* outlives SIGKILL for half a second stays, and that is an error of its own.
NoServerIsLeft ==
    /\ pc = "done" => server \in {"none", "reaped"}
    /\ pc # "killed"

\* Whatever the server does or fails to do, the command gets to an end.
LookupEnds == <>(pc \in Ended)
=============================================================================
