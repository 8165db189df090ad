------------------------------- MODULE TgRun -------------------------------
(***************************************************************************)
(* A traffic generator test: the bash script that trafficgen/tgcs.ts       *)
(* writes, and the Docker engines that it drives.                          *)
(*                                                                         *)
(* Without an argument the script deletes what an earlier run has left,    *)
(* starts servers, then clients, host by host, waits for the clients,      *)
(* saves the output of every container, and deletes the containers; with   *)
(* an argument it does one of these.  Commands that start or delete        *)
(* containers are repeated until they succeed (with_retry); the failure of *)
(* others ends the script (set -e), except that nobody looks at the exit   *)
(* status of `docker wait`.                                                *)
(*                                                                         *)
(* Left out: the upload subcommand (see Deploy), the ownership of /output  *)
(* files and their transfer to the primary host, $TGCS_T0.                 *)
(***************************************************************************)
EXTENDS Naturals, Sequences, FiniteSets, SequencesExt, Lists

CONSTANTS
  HostOrder,   \* hosts of the test in the order of classifyByHost()
  CtOrder,     \* containers of the test in the order of the Compose file
  Servers,     \* those whose name ends with _s; the others are clients
  HostOf,      \* annotation host of a container
  MaxRuns,     \* bound on invocations of the script
  MaxFaults    \* bound on commands that fail and on interventions from outside

Hosts == Range(HostOrder)
Cts == Range(CtOrder)
Clients == Cts \ Servers

Acts == {"all", "servers", "clients", "wait", "collect", "stop", "stats"}

ASSUME TestAssumption ==
  /\ HostOrder \in Seq(Hosts) /\ IsInjective(HostOrder)
  /\ CtOrder \in Seq(Cts) /\ IsInjective(CtOrder)
  /\ Servers \subseteq Cts
  /\ HostOf \in [Cts -> Hosts]
  /\ Range(HostOf) = Hosts

ASSUME BoundsAssumption == MaxRuns \in Nat /\ MaxFaults \in Nat
-----------------------------------------------------------------------------
(* The script: a sequence of steps, each a command on a host or a container. *)

Step(op, at) == [op |-> op, at |-> at]
PerHost(op, cts) ==
  LET hosts == Kept(HostOrder, {HostOf[c] : c \in cts})
  IN [i \in DOMAIN hosts |-> Step(op, hosts[i])]
PerCt(op, cts) ==
  LET chosen == Kept(CtOrder, cts)
  IN [i \in DOMAIN chosen |-> Step(op, chosen[i])]

\* The mutants keep the containers of the earlier run, and have a wrong command at the end.
DeleteOld_ClearOnly == <<Step("clear", "stats")>>
Stop_Down == PerHost("down", Cts)

DeleteOld == Append(PerHost("delete", Cts), Step("clear", "stats"))
StartServers == PerHost("servers", Servers)
StartClients == PerHost("clients", Clients)
WaitClients == PerCt("wait", Clients)
Collect == PerCt("logs", Cts)
Stop == PerHost("stop", Cts)
Stats == <<Step("stats", "stats")>>

Script(act) ==
  CASE act = "all" -> DeleteOld \o StartServers \o StartClients \o WaitClients \o Collect \o Stop \o Stats
    [] act = "servers" -> StartServers
    [] act = "clients" -> StartClients
    [] act = "wait" -> WaitClients
    [] act = "collect" -> Collect
    [] act = "stop" -> Stop
    [] act = "stats" -> Stats
-----------------------------------------------------------------------------
VARIABLES
  run,      \* number of the invocation
  act,      \* its argument, "all" if it has none
  todo,     \* steps of the script that are still to be done
  result,   \* "none", "running", "ok" or "failed"
  ctr,      \* a container on its host: absent, running or exited
  born,     \* the invocation that created it
  file,     \* the output file of a container: the invocation it is of, and whether the container had exited
  told,     \* "Timeout exceeded, results may be incomplete"
  unheard,  \* docker wait has failed in this invocation
  faults    \* commands that have failed, interventions from outside

script == <<run, act, todo, result>>
engine == <<ctr, born>>
vars == <<script, engine, file, told, unheard, faults>>

NoFile == [of |-> 0, complete |-> FALSE]

TypeOK ==
  /\ run \in 0 .. MaxRuns
  /\ act \in Acts
  /\ todo \in Seq([op : {"delete", "clear", "servers", "clients", "wait", "logs", "stop", "stats"},
                   at : Hosts \cup Cts \cup {"stats"}])
  /\ result \in {"none", "running", "ok", "failed"}
  /\ ctr \in [Cts -> {"absent", "running", "exited"}]
  /\ born \in [Cts -> 0 .. MaxRuns]
  /\ file \in [Cts -> [of : 0 .. MaxRuns, complete : BOOLEAN]]
  /\ told \in BOOLEAN
  /\ unheard \in BOOLEAN
  /\ faults \in 0 .. MaxFaults

Init ==
  /\ run = 0
  /\ act = "all"
  /\ todo = <<>>
  /\ result = "none"
  /\ ctr = [c \in Cts |-> "absent"]
  /\ born = [c \in Cts |-> 0]
  /\ file = [c \in Cts |-> NoFile]
  /\ told = FALSE
  /\ unheard = FALSE
  /\ faults = 0
-----------------------------------------------------------------------------
Invoke(a) ==
  /\ result # "running"
  /\ run < MaxRuns
  /\ run' = run + 1
  /\ act' = a
  /\ todo' = Script(a)
  /\ result' = "running"
  /\ told' = FALSE
  /\ unheard' = FALSE
  /\ UNCHANGED <<engine, file, faults>>

Doing(op) == result = "running" /\ todo # <<>> /\ Head(todo).op = op

Advance == todo' = Tail(todo) /\ UNCHANGED <<run, act, result>>

Fault == faults < MaxFaults /\ faults' = faults + 1

\* set -e
Abort == result' = "failed" /\ UNCHANGED <<run, act, todo>>

Finish ==
  /\ result = "running"
  /\ todo = <<>>
  /\ result' = "ok"
  /\ UNCHANGED <<run, act, todo, engine, file, told, unheard, faults>>

Removed(cts) == /\ ctr' = [c \in Cts |-> IF c \in cts THEN "absent" ELSE ctr[c]]
                /\ UNCHANGED born

\* delete_by_regex, before the test and, after a `compose stop`, at its end.
Targets(h) == {c \in Cts : HostOf[c] = h}

Delete ==
  /\ Doing("delete") \/ Doing("stop")
  /\ Removed(Targets(Head(todo).at))
  /\ Advance
  /\ UNCHANGED <<file, told, unheard, faults>>

\* with_retry has another try.
DeleteFails ==
  /\ Doing("delete") \/ Doing("stop")
  /\ \E some \in SUBSET Targets(Head(todo).at) : Removed(some)
  /\ Fault
  /\ UNCHANGED <<script, file, told, unheard>>

\* rm -rf $STATS_DIR
Clear ==
  /\ Doing("clear")
  /\ file' = [c \in Cts |-> NoFile]
  /\ Advance
  /\ UNCHANGED <<engine, told, unheard, faults>>

\* docker compose up -d NAMES: creates a container that is absent, starts one that has exited.
Started(cts) ==
  /\ ctr' = [c \in Cts |-> IF c \in cts THEN "running" ELSE ctr[c]]
  /\ born' = [c \in Cts |-> IF c \in cts /\ ctr[c] = "absent" THEN run ELSE born[c]]

\* The mutant starts servers and clients alike.
Named_Both(h, op) == Targets(h)

Named(h, op) == {c \in Targets(h) : c \in Servers <=> op = "servers"}

Up ==
  /\ Doing("servers") \/ Doing("clients")
  /\ Started(Named(Head(todo).at, Head(todo).op))
  /\ Advance
  /\ UNCHANGED <<file, told, unheard, faults>>

UpFails ==
  /\ Doing("servers") \/ Doing("clients")
  /\ \E some \in SUBSET Named(Head(todo).at, Head(todo).op) : Started(some)
  /\ Fault
  /\ UNCHANGED <<script, file, told, unheard>>

\* docker wait: returns when the container has exited, at once if there is none.
Wait ==
  /\ Doing("wait")
  /\ ctr[Head(todo).at] # "running"
  /\ Advance
  /\ UNCHANGED <<engine, file, told, unheard, faults>>

\* Its exit status is that of a command substitution under echo, which is lost.
WaitFails ==
  /\ Doing("wait")
  /\ unheard' = TRUE
  /\ Advance
  /\ Fault
  /\ UNCHANGED <<engine, file, told>>

\* The mutant waits for the clients however long they take.
Timeout_Never == FALSE /\ UNCHANGED vars

\* --wait-timeout, for the clients together.
Timeout ==
  /\ Doing("wait")
  /\ todo' = Kept(todo, {s \in Range(todo) : s.op # "wait"})
  /\ told' = TRUE
  /\ UNCHANGED <<run, act, result, engine, file, unheard, faults>>

\* docker logs
Log ==
  /\ Doing("logs")
  /\ LET c == Head(todo).at
     IN /\ ctr[c] # "absent"
        /\ file' = [file EXCEPT ![c] = [of |-> born[c], complete |-> ctr[c] = "exited"]]
  /\ Advance
  /\ UNCHANGED <<engine, told, unheard, faults>>

LogOfNone ==
  /\ Doing("logs")
  /\ ctr[Head(todo).at] = "absent"
  /\ file' = [file EXCEPT ![Head(todo).at] = NoFile]
  /\ Abort
  /\ UNCHANGED <<engine, told, unheard, faults>>

LogFails ==
  /\ Doing("logs")
  /\ file' = [file EXCEPT ![Head(todo).at] = NoFile]
  /\ Abort
  /\ Fault
  /\ UNCHANGED <<engine, told, unheard>>

Tally ==
  /\ Doing("stats")
  /\ Advance \/ Abort
  /\ UNCHANGED <<engine, file, told, unheard, faults>>

Proceed == Delete \/ Clear \/ Up \/ Wait \/ Timeout \/ Log \/ LogOfNone \/ Tally \/ Finish

Trouble == DeleteFails \/ UpFails \/ WaitFails \/ LogFails
-----------------------------------------------------------------------------
\* A client has done its work, or a server has crashed.
Exit(c) ==
  /\ ctr[c] = "running"
  /\ ctr' = [ctr EXCEPT ![c] = "exited"]
  /\ UNCHANGED <<script, born, file, told, unheard, faults>>

\* `compose up --remove-orphans` of compose.sh removes the containers of the test, which are in its project.
RemoveOrphans(h) ==
  /\ Removed(Targets(h))
  /\ Fault
  /\ UNCHANGED <<script, file, told, unheard>>

Next ==
  \/ \E a \in Acts : Invoke(a)
  \/ Proceed
  \/ Trouble
  \/ \E c \in Cts : Exit(c)
  \/ \E h \in Hosts : RemoveOrphans(h)

Spec == Init /\ [][Next]_vars

\* The shell goes on; --wait-timeout is not 0.
FairSpec == Spec /\ WF_vars(Proceed)
-----------------------------------------------------------------------------
(* Properties                                                                *)

Succeeded == result = "ok" /\ act = "all"

\* docs/tgcs-advanced.md:129-135: a client of a full run starts only after the servers on all hosts have
\* been started by this run, however many attempts that takes on each of them.
ServersFirst ==
  [][\A c \in Clients :
       act = "all" /\ result = "running" /\ ctr[c] # "running" /\ ctr'[c] = "running"
         => \A s \in Servers : born[s] = run]_vars

\* A full run that succeeds leaves the output of its own containers, never that of an earlier run or of one
\* that was removed and missed in between; and it leaves no container behind.
OwnResults ==
  Succeeded => \A c \in Cts : file[c].of = run /\ ctr[c] = "absent"

\* The containers of a full run are deleted by it only when the output of every one of them is saved.
SavedFirst ==
  [][\A c \in Cts :
       Doing("stop") /\ act = "all" /\ ctr[c] # "absent" /\ ctr'[c] = "absent"
         => file[c].of = run]_vars

\* Unless the script says that results may be incomplete, or docker wait fails, a full run that succeeds has
\* the output of every client up to its end.
CompleteResults ==
  Succeeded /\ ~told /\ ~unheard => \A c \in Clients : file[c].complete

\* A full run can be relied upon: its files are its own and complete, servers are there before clients, and
\* nothing is deleted that has not been saved.
SoundResults == OwnResults /\ CompleteResults
StepsInOrder == ServersFirst /\ SavedFirst

\* With commands that fail only so often, every invocation ends, whatever the containers do.
Ends == result = "running" ~> result # "running"
=============================================================================
