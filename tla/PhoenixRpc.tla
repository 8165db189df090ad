----------------------------- MODULE PhoenixRpc -----------------------------
(***************************************************************************)
(* Remote control of an Open5GCore UE: phoenix-rpc/.                       *)
(*                                                                         *)
(* Each invocation of ue-register or ue-deregister is a process of its     *)
(* own: it wants the UE to reach a number of goals one after the other,    *)
(* and for each of them reads the status, asks for a change once if the    *)
(* goal is not met, and polls a limited number of times (waitUntil).  The  *)
(* UE moves on its own: it accepts or refuses a request, completes a       *)
(* procedure or gives up, and may be released by the network at any time.  *)
(* A status is a copy: it is judged after the UE may have moved on.        *)
(*                                                                         *)
(* Left out: printing, ue-status, and commands sent over UDP, which keep   *)
(* nothing.  A request that the UE never answers is a request that fails.  *)
(***************************************************************************)
EXTENDS Naturals, Sequences

CONSTANTS
  Invocations,  \* command lines that are run, at the same time or not
  Names,        \* data network names that --dnn may give or select
  Configured,   \* dn_list of the UE
  MaxDnn,       \* bound on the number of --dnn
  Timeout, Interval,  \* options of waitUntil: 30000 and 500 ms
  MaxReleases   \* bound on what the network takes away

ASSUME RpcAssumption ==
  /\ Configured \subseteq Names
  /\ MaxDnn \in Nat /\ MaxReleases \in Nat
  /\ Timeout \in Nat /\ Interval \in Nat \ {0}

MMStates == {"NULL", "DEREGISTERED", "REGISTERED_INITIATED", "REGISTERED",
             "DEREGISTERED_INITIATED", "SERVICE_REQUEST_INITIATED"}
SMStates == {"INACTIVE", "ACTIVE_PENDING", "ACTIVE", "INACTIVE_PENDING"}
Status == [mm : MMStates, sm : [Configured -> SMStates]]

Limit == (Timeout + Interval - 1) \div Interval

VARIABLES
  ue,         \* the UE: registration, and a PDU session for each data network
  releases,   \* how often the network has taken something away
  pc,         \* idle, check, change, poll, ok or failed
  goals,      \* what the invocation wants of the UE, in this order
  at,         \* the goal it is at
  status,     \* answer of the UE that it has not looked at yet: a sequence of at most one
  limit,      \* polls that are left
  disturbed   \* a goal of the invocation was met and is lost again (observed by nobody)

ueVars == <<ue, releases>>
callVars == <<pc, goals, at, status, limit>>
vars == <<ueVars, callVars, disturbed>>

Goals == [kind : {"registered", "deregistered"}] \cup [kind : {"session"}, dn : Names]
Registered == [kind |-> "registered"]
Deregistered == [kind |-> "deregistered"]
Session(dn) == [kind |-> "session", dn |-> dn]

\* The predicates of ue.ts; a data network that the UE does not know has no session.
Met(s, goal) ==
  CASE goal.kind = "registered" -> s.mm = "REGISTERED"
    [] goal.kind = "deregistered" -> s.mm = "DEREGISTERED"
    [] goal.kind = "session" -> goal.dn \in Configured /\ s.sm[goal.dn] = "ACTIVE"

AllInactive == [dn \in Configured |-> "INACTIVE"]

TypeOK ==
  /\ ue \in Status
  /\ releases \in 0 .. MaxReleases
  /\ pc \in [Invocations -> {"idle", "check", "change", "poll", "ok", "failed"}]
  /\ goals \in [Invocations -> Seq(Goals)]
  /\ at \in [Invocations -> Nat \ {0}]
  /\ status \in [Invocations -> {<<>>} \cup {<<s>> : s \in Status}]
  /\ limit \in [Invocations -> 0 .. Limit]
  /\ disturbed \in [Invocations -> BOOLEAN]
  /\ \A i \in Invocations : pc[i] \in {"check", "change", "poll"} => at[i] \in DOMAIN goals[i]
  /\ \A i \in Invocations : pc[i] = "idle" => status[i] = <<>>

Init ==
  /\ ue = [mm |-> "DEREGISTERED", sm |-> AllInactive]
  /\ releases = 0
  /\ pc = [i \in Invocations |-> "idle"]
  /\ goals = [i \in Invocations |-> <<>>]
  /\ at = [i \in Invocations |-> 1]
  /\ status = [i \in Invocations |-> <<>>]
  /\ limit = [i \in Invocations |-> 0]
  /\ disturbed = [i \in Invocations |-> FALSE]
-----------------------------------------------------------------------------
(* The UE. *)

\* The UE becomes s; whoever has seen a goal reached that s takes away is disturbed.
Becomes(s) ==
  /\ ue' = s
  /\ disturbed' = [i \in Invocations |->
       disturbed[i] \/ \E k \in DOMAIN goals[i] : Met(ue, goals[i][k]) /\ ~Met(s, goals[i][k])]

\* A procedure ends: registration and deregistration, which ends the sessions too.
Complete ==
  /\ \/ ue.mm = "REGISTERED_INITIATED" /\ \E mm \in {"REGISTERED", "DEREGISTERED"} : Becomes([ue EXCEPT !.mm = mm])
     \/ ue.mm = "DEREGISTERED_INITIATED" /\ Becomes([mm |-> "DEREGISTERED", sm |-> AllInactive])
     \/ \E dn \in Configured : /\ ue.sm[dn] = "ACTIVE_PENDING"
                               /\ \E sm \in {"ACTIVE", "INACTIVE"} : Becomes([ue EXCEPT !.sm[dn] = sm])
  /\ UNCHANGED <<releases, callVars>>

\* The network releases a session or the UE.
Release ==
  /\ releases < MaxReleases
  /\ releases' = releases + 1
  /\ \/ ue.mm = "REGISTERED" /\ Becomes([mm |-> "DEREGISTERED", sm |-> AllInactive])
     \/ \E dn \in Configured : ue.sm[dn] = "ACTIVE" /\ Becomes([ue EXCEPT !.sm[dn] = "INACTIVE"])
  /\ UNCHANGED callVars

\* Whether the UE takes a request up, and the state that this puts it in.
Accepts(goal) ==
  CASE goal.kind = "registered" -> ue.mm = "DEREGISTERED"
    [] goal.kind = "deregistered" -> ue.mm = "REGISTERED"
    [] goal.kind = "session" -> goal.dn \in Configured /\ ue.mm = "REGISTERED" /\ ue.sm[goal.dn] = "INACTIVE"
Requested(goal) ==
  CASE goal.kind = "registered" -> [ue EXCEPT !.mm = "REGISTERED_INITIATED"]
    [] goal.kind = "deregistered" -> [ue EXCEPT !.mm = "DEREGISTERED_INITIATED"]
    [] goal.kind = "session" -> [ue EXCEPT !.sm[goal.dn] = "ACTIVE_PENDING"]
-----------------------------------------------------------------------------
(* The commands. *)

Running(i) == pc[i] \in {"check", "change", "poll"}
Goal(i) == goals[i][at[i]]

DnnLists == UNION {[1 .. n -> Names] : n \in 0 .. MaxDnn}

Invoke(i, wants) ==
  /\ pc[i] = "idle"
  /\ pc' = [pc EXCEPT ![i] = "check"]
  /\ goals' = [goals EXCEPT ![i] = wants]
  /\ at' = [at EXCEPT ![i] = 1]
  /\ UNCHANGED <<ueVars, status, limit, disturbed>>

\* ue-register: --dnn as given, or as its patterns select among those that are configured.
UeRegister(i) ==
  \E dnn \in DnnLists : Invoke(i, <<Registered>> \o [k \in DOMAIN dnn |-> Session(dnn[k])])
UeDeregister(i) == Invoke(i, <<Deregistered>>)

\* The command ends with an error: its list of goals means nothing any more.
Fail(i) ==
  /\ pc' = [pc EXCEPT ![i] = "failed"]
  /\ goals' = [goals EXCEPT ![i] = <<>>]
  /\ at' = [at EXCEPT ![i] = 1]
  /\ limit' = [limit EXCEPT ![i] = 0]

\* A pattern without a container to look it up in, no answer, or an error in the answer.
Throws(i) ==
  /\ pc[i] = "idle" \/ Running(i)
  /\ Fail(i)
  /\ status' = [status EXCEPT ![i] = <<>>]
  /\ UNCHANGED <<ueVars, disturbed>>

\* retrieveStatus() before the change, and once every Interval after it.
Retrieve(i) ==
  /\ pc[i] \in {"check", "poll"}
  /\ status[i] = <<>>
  /\ status' = [status EXCEPT ![i] = <<ue>>]
  /\ UNCHANGED <<ueVars, pc, goals, at, limit, disturbed>>

\* A mutant that forgets where the list of goals ends.
Resolve_Endless(i) ==
  /\ pc' = [pc EXCEPT ![i] = "check"] /\ at' = [at EXCEPT ![i] = @ + 1]
  /\ limit' = [limit EXCEPT ![i] = 0]
  /\ UNCHANGED goals

\* waitUntil resolves: the next goal, if there is one.
Resolve(i) ==
  /\ IF at[i] = Len(goals[i])
     THEN pc' = [pc EXCEPT ![i] = "ok"] /\ UNCHANGED at
     ELSE pc' = [pc EXCEPT ![i] = "check"] /\ at' = [at EXCEPT ![i] = @ + 1]
  /\ limit' = [limit EXCEPT ![i] = 0]
  /\ UNCHANGED goals

\* These mutants do not wait for what they have asked for, and do not count polls.
Asked_Resolves(i) == Resolve(i)
PollAgain_Uncounted(i) == UNCHANGED <<pc, goals, at, limit>>

\* A change has been asked for: from now on the status is polled.
Asked(i) ==
  /\ pc' = [pc EXCEPT ![i] = "poll"]
  /\ limit' = [limit EXCEPT ![i] = Limit]
  /\ UNCHANGED <<goals, at>>

\* Another poll, or "condition not fulfilled within timeout".
PollAgain(i) ==
  \/ limit[i] > 0 /\ limit' = [limit EXCEPT ![i] = @ - 1] /\ UNCHANGED <<pc, goals, at>>
  \/ limit[i] = 0 /\ Fail(i)

\* The goal is met already, or a change is to be asked for.
Check(i) ==
  /\ pc[i] = "check" /\ status[i] # <<>>
  /\ \/ Met(status[i][1], Goal(i)) /\ Resolve(i)
     \/ ~Met(status[i][1], Goal(i)) /\ pc' = [pc EXCEPT ![i] = "change"]
        /\ UNCHANGED <<goals, at, limit>>
  /\ status' = [status EXCEPT ![i] = <<>>]
  /\ UNCHANGED <<ueVars, disturbed>>

\* change(), once: the UE takes the request up, or has no use for it and says so without an error.
Change(i) ==
  /\ pc[i] = "change"
  /\ IF Accepts(Goal(i)) THEN Becomes(Requested(Goal(i))) ELSE UNCHANGED <<ue, disturbed>>
  /\ Asked(i)
  /\ UNCHANGED <<releases, status>>

Poll(i) ==
  /\ pc[i] = "poll" /\ status[i] # <<>>
  /\ \/ Met(status[i][1], Goal(i)) /\ Resolve(i)
     \/ ~Met(status[i][1], Goal(i)) /\ PollAgain(i)
  /\ status' = [status EXCEPT ![i] = <<>>]
  /\ UNCHANGED <<ueVars, disturbed>>

Step(i) == Retrieve(i) \/ Check(i) \/ Change(i) \/ Poll(i)

Next ==
  \/ Complete
  \/ Release
  \/ \E i \in Invocations : UeRegister(i) \/ UeDeregister(i) \/ Throws(i) \/ Step(i)

Spec == Init /\ [][Next]_vars

\* A process that runs goes on running: timers fire, and requests are answered or fail.
FairSpec == Spec /\ \A i \in Invocations : WF_vars(Step(i))
-----------------------------------------------------------------------------
(* A command that ends well has what was asked for, whoever else talks to  *)
(* the same UE from another terminal: unless something that had been       *)
(* reached was lost again, the UE is registered and every selected data    *)
(* network has an active session (or the UE is deregistered), although     *)
(* each was judged by a copy of the status and at a time of its own.       *)
Established ==
  \A i \in Invocations :
    pc[i] = "ok" /\ ~disturbed[i] => \A k \in DOMAIN goals[i] : Met(ue, goals[i][k])

(* Every command ends, also when the UE accepts a request and then never   *)
(* gets anywhere, and when another terminal undoes what it waits for.      *)
Ends == \A i \in Invocations : Running(i) ~> pc[i] \in {"ok", "failed"}
=============================================================================
