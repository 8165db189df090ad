-------------------------- MODULE PhoenixRpcProofs --------------------------
(***************************************************************************)
(* Proofs about PhoenixRpc, for any number of terminals, any data networks *)
(* and any timeout.                                                        *)
(***************************************************************************)
EXTENDS PhoenixRpc, TLAPS

\* What of Established is already true of a command that is under way: the goals behind it are met, and
\* the goal it is at is met if the copy of the status that it is about to judge says so.
Behind(i) == \A k \in 1 .. at[i] - 1 : Met(ue, goals[i][k])
Copied(i) == status[i] # <<>> /\ Met(status[i][1], Goal(i)) => Met(ue, Goal(i))
Reached(i) == \A k \in DOMAIN goals[i] : Met(ue, goals[i][k])

Held ==
  \A i \in Invocations : ~disturbed[i] =>
    /\ pc[i] = "ok" => Reached(i)
    /\ Running(i) => Behind(i) /\ Copied(i)

IInv == TypeOK /\ Held
-----------------------------------------------------------------------------
LEMMA LimitNat == Limit \in Nat
BY RpcAssumption, Z3 DEF Limit

LEMMA InitType == Init => TypeOK
BY RpcAssumption, LimitNat DEF Init, TypeOK, Status, MMStates, SMStates, AllInactive

\* Whatever the UE becomes is typed like a UE, and disturbed stays a function of the invocations.
LEMMA BecomesType ==
  ASSUME TypeOK, NEW s \in Status, Becomes(s)
  PROVE  ue' \in Status /\ disturbed' \in [Invocations -> BOOLEAN]
BY DEF TypeOK, Becomes

LEMMA CompleteType == TypeOK /\ Complete => ue' \in Status /\ disturbed' \in [Invocations -> BOOLEAN]
<1> SUFFICES ASSUME TypeOK, Complete
             PROVE  ue' \in Status /\ disturbed' \in [Invocations -> BOOLEAN]
  OBVIOUS
<1> \A mm \in {"REGISTERED", "DEREGISTERED"} : [ue EXCEPT !.mm = mm] \in Status
  BY DEF TypeOK, Status, MMStates
<1> [mm |-> "DEREGISTERED", sm |-> AllInactive] \in Status
  BY DEF Status, MMStates, SMStates, AllInactive
<1> \A dn \in Configured, sm \in {"ACTIVE", "INACTIVE"} : [ue EXCEPT !.sm[dn] = sm] \in Status
  BY DEF TypeOK, Status, SMStates
<1> QED BY BecomesType DEF Complete

LEMMA ReleaseType == TypeOK /\ Release => ue' \in Status /\ disturbed' \in [Invocations -> BOOLEAN]
<1> SUFFICES ASSUME TypeOK, Release
             PROVE  ue' \in Status /\ disturbed' \in [Invocations -> BOOLEAN]
  OBVIOUS
<1> [mm |-> "DEREGISTERED", sm |-> AllInactive] \in Status
  BY DEF Status, MMStates, SMStates, AllInactive
<1> \A dn \in Configured : [ue EXCEPT !.sm[dn] = "INACTIVE"] \in Status
  BY DEF TypeOK, Status, SMStates
<1> QED BY BecomesType DEF Release

LEMMA ChangeType ==
  ASSUME TypeOK, NEW i \in Invocations, Change(i)
  PROVE  ue' \in Status /\ disturbed' \in [Invocations -> BOOLEAN]
<1>1. Goal(i) \in Goals
  BY DEF TypeOK, Change, Goal
<1>2. ASSUME Accepts(Goal(i)) PROVE Requested(Goal(i)) \in Status
  <2>1. CASE Goal(i).kind = "registered"
    BY <2>1 DEF TypeOK, Requested, Status, MMStates
  <2>2. CASE Goal(i).kind = "deregistered"
    BY <2>2 DEF TypeOK, Requested, Status, MMStates
  <2>3. CASE Goal(i).kind = "session"
    BY <1>2, <2>3 DEF TypeOK, Accepts, Requested, Status, SMStates
  <2> QED BY <1>1, <2>1, <2>2, <2>3 DEF Goals
<1>3. CASE Accepts(Goal(i))
  BY <1>2, <1>3, BecomesType DEF Change
<1>4. CASE ~Accepts(Goal(i))
  BY <1>4 DEF Change, TypeOK
<1> QED BY <1>3, <1>4

\* The parts of the type that are about commands.
LEMMA FailType ==
  ASSUME TypeOK, NEW i \in Invocations, Fail(i)
  PROVE  /\ pc' \in [Invocations -> {"idle", "check", "change", "poll", "ok", "failed"}]
         /\ goals' \in [Invocations -> Seq(Goals)]
         /\ at' \in [Invocations -> Nat \ {0}]
         /\ limit' \in [Invocations -> 0 .. Limit]
         /\ \A j \in Invocations : pc'[j] \in {"check", "change", "poll"} => at'[j] \in DOMAIN goals'[j]
         /\ \A j \in Invocations : pc'[j] = "idle" => pc[j] = "idle"
BY LimitNat DEF TypeOK, Fail

LEMMA ResolveType ==
  ASSUME TypeOK, NEW i \in Invocations, Running(i), Resolve(i)
  PROVE  /\ pc' \in [Invocations -> {"idle", "check", "change", "poll", "ok", "failed"}]
         /\ goals' \in [Invocations -> Seq(Goals)]
         /\ at' \in [Invocations -> Nat \ {0}]
         /\ limit' \in [Invocations -> 0 .. Limit]
         /\ \A j \in Invocations : pc'[j] \in {"check", "change", "poll"} => at'[j] \in DOMAIN goals'[j]
         /\ \A j \in Invocations : pc'[j] = "idle" => pc[j] = "idle"
<1>1. /\ goals' = goals
      /\ limit' \in [Invocations -> 0 .. Limit]
  BY LimitNat DEF TypeOK, Resolve
<1>2. at[i] \in 1 .. Len(goals[i]) /\ goals[i] \in Seq(Goals)
  BY DEF TypeOK, Running
<1>3. CASE at[i] = Len(goals[i])
  <2>1. pc' = [pc EXCEPT ![i] = "ok"] /\ at' = at
    BY <1>3 DEF Resolve
  <2> QED BY <1>1, <2>1 DEF TypeOK
<1>4. CASE at[i] # Len(goals[i])
  <2>1. pc' = [pc EXCEPT ![i] = "check"] /\ at' = [at EXCEPT ![i] = @ + 1]
    BY <1>4 DEF Resolve
  <2>2. at[i] + 1 \in Nat \ {0} /\ at[i] + 1 \in DOMAIN goals[i]
    BY <1>2, <1>4
  <2> QED BY <1>1, <2>1, <2>2 DEF TypeOK
<1> QED BY <1>3, <1>4

LEMMA InvokeType ==
  ASSUME TypeOK, NEW i \in Invocations, NEW wants \in Seq(Goals), 1 \in DOMAIN wants, Invoke(i, wants)
  PROVE  TypeOK'
BY LimitNat DEF TypeOK, Invoke, ueVars

LEMMA ThrowsType ==
  ASSUME TypeOK, NEW i \in Invocations, Throws(i)
  PROVE  TypeOK'
BY FailType DEF TypeOK, Throws, ueVars

LEMMA StepType ==
  ASSUME TypeOK, NEW i \in Invocations, Step(i)
  PROVE  TypeOK'
<1>1. CASE Retrieve(i)
  BY <1>1 DEF TypeOK, Retrieve, ueVars
<1>2. CASE Check(i)
  <2>1. CASE Resolve(i)
    BY <1>2, <2>1, ResolveType DEF TypeOK, Check, Running, ueVars
  <2>2. CASE pc' = [pc EXCEPT ![i] = "change"] /\ UNCHANGED <<goals, at, limit>>
    BY <1>2, <2>2 DEF TypeOK, Check, ueVars
  <2> QED BY <1>2, <2>1, <2>2 DEF Check
<1>3. CASE Change(i)
  <2>1. ue' \in Status /\ disturbed' \in [Invocations -> BOOLEAN]
    BY <1>3, ChangeType
  <2>2. /\ pc' = [pc EXCEPT ![i] = "poll"] /\ pc[i] = "change"
        /\ limit' \in [Invocations -> 0 .. Limit]
        /\ UNCHANGED <<releases, goals, at, status>>
    BY <1>3, LimitNat DEF TypeOK, Change, Asked
  <2> QED BY <2>1, <2>2 DEF TypeOK
<1>4. CASE Poll(i)
  <2>1. CASE Resolve(i)
    BY <1>4, <2>1, ResolveType DEF TypeOK, Poll, Running, ueVars
  <2>2. CASE Fail(i)
    BY <1>4, <2>2, FailType DEF TypeOK, Poll, ueVars
  <2>3. CASE limit[i] > 0 /\ limit' = [limit EXCEPT ![i] = @ - 1] /\ UNCHANGED <<pc, goals, at>>
    BY <1>4, <2>3, LimitNat DEF TypeOK, Poll, ueVars
  <2> QED BY <1>4, <2>1, <2>2, <2>3 DEF Poll, PollAgain
<1> QED BY <1>1, <1>2, <1>3, <1>4 DEF Step

LEMMA NextType == TypeOK /\ [Next]_vars => TypeOK'
<1> SUFFICES ASSUME TypeOK, [Next]_vars PROVE TypeOK'
  OBVIOUS
<1>1. CASE Complete
  BY <1>1, CompleteType DEF TypeOK, Complete, callVars
<1>2. CASE Release
  <2>1. ue' \in Status /\ disturbed' \in [Invocations -> BOOLEAN] /\ UNCHANGED callVars
    BY <1>2, ReleaseType DEF Release
  <2>2. releases' \in 0 .. MaxReleases
    BY <1>2, RpcAssumption DEF TypeOK, Release
  <2> QED BY <2>1, <2>2 DEF TypeOK, callVars
<1>3. ASSUME NEW i \in Invocations, UeRegister(i) PROVE TypeOK'
  <2>1. PICK dnn \in DnnLists : Invoke(i, <<Registered>> \o [k \in DOMAIN dnn |-> Session(dnn[k])])
    BY <1>3 DEF UeRegister
  <2>2. PICK n \in 0 .. MaxDnn : dnn \in [1 .. n -> Names]
    BY DEF DnnLists
  <2> DEFINE sessions == [k \in DOMAIN dnn |-> Session(dnn[k])]
  <2>3. sessions \in Seq(Goals)
    BY <2>2, RpcAssumption DEF Goals, Session
  <2>4. <<Registered>> \in Seq(Goals) /\ Len(<<Registered>>) = 1
    BY DEF Goals, Registered
  <2> HIDE DEF sessions
  <2>5. <<Registered>> \o sessions \in Seq(Goals) /\ Len(<<Registered>> \o sessions) = 1 + Len(sessions)
    BY <2>3, <2>4
  <2>6. 1 \in DOMAIN (<<Registered>> \o sessions)
    BY <2>3, <2>5
  <2>7. Invoke(i, <<Registered>> \o sessions)
    BY <2>1 DEF sessions
  <2> QED BY <2>5, <2>6, <2>7, InvokeType
<1>4. ASSUME NEW i \in Invocations, UeDeregister(i) PROVE TypeOK'
  <2>1. <<Deregistered>> \in Seq(Goals) /\ 1 \in DOMAIN <<Deregistered>>
    BY DEF Goals, Deregistered
  <2> QED BY <1>4, <2>1, InvokeType DEF UeDeregister
<1>5. CASE UNCHANGED vars
  BY <1>5 DEF TypeOK, vars, ueVars, callVars
<1> QED BY <1>1, <1>2, <1>3, <1>4, <1>5, ThrowsType, StepType DEF Next

(* Every variable of the UE and of the commands keeps its type, and a      *)
(* command under way is at one of its goals.                               *)
THEOREM TypeCorrect == Spec => []TypeOK
<1>1. Init => TypeOK
  BY InitType
<1>2. TypeOK /\ [Next]_vars => TypeOK'
  BY NextType
<1> QED BY <1>1, <1>2, PTL DEF Spec
-----------------------------------------------------------------------------
\* What is met stays met, for a command that is not disturbed.
LEMMA BecomesHeld ==
  ASSUME TypeOK, Held, NEW i \in Invocations, ~disturbed'[i], UNCHANGED <<goals, at, status>>,
         UNCHANGED <<ue, disturbed>> \/ \E s : Becomes(s)
  PROVE  (pc[i] = "ok" => Reached(i)') /\ (Running(i) => (Behind(i) /\ Copied(i))')
<1>1. ~disturbed[i] /\ \A k \in DOMAIN goals[i] : Met(ue, goals[i][k]) => Met(ue', goals[i][k])
  <2>1. CASE UNCHANGED <<ue, disturbed>>
    BY <2>1
  <2>2. ASSUME NEW s, Becomes(s)
        PROVE  ~disturbed[i] /\ \A k \in DOMAIN goals[i] : Met(ue, goals[i][k]) => Met(ue', goals[i][k])
    <3>1. ue' = s
      BY <2>2 DEF Becomes
    <3>2. disturbed'[i] = (disturbed[i] \/ \E k \in DOMAIN goals[i] : Met(ue, goals[i][k]) /\ ~Met(s, goals[i][k]))
      BY <2>2 DEF Becomes
    <3> QED BY <3>1, <3>2
  <2> QED BY <2>1, <2>2
<1>2. pc[i] = "ok" => Reached(i)'
  BY <1>1 DEF Held, Reached
<1>3. ASSUME Running(i) PROVE Behind(i)' /\ Copied(i)'
  <2>1. at[i] \in DOMAIN goals[i] /\ 1 .. at[i] - 1 \subseteq DOMAIN goals[i]
    BY <1>3 DEF TypeOK, Running
  <2> QED BY <1>1, <1>3, <2>1 DEF Held, Behind, Copied, Goal
<1> QED BY <1>2, <1>3

\* A command that has judged its goal to be met goes on to the next, or has reached all of them.
LEMMA ResolveHeld ==
  ASSUME TypeOK, Held, NEW i \in Invocations, Running(i), Resolve(i), status[i] # <<>>,
         Met(status[i][1], Goal(i)), status' = [status EXCEPT ![i] = <<>>], UNCHANGED <<ue, disturbed>>
  PROVE  Held'
<1> SUFFICES ASSUME NEW j \in Invocations, ~disturbed[j]
             PROVE  (pc'[j] = "ok" => Reached(j)') /\ (Running(j)' => (Behind(j) /\ Copied(j))')
  BY DEF Held
<1>1. CASE j # i
  BY <1>1 DEF Held, Resolve, TypeOK, Running, Reached, Behind, Copied, Goal
<1>2. CASE j = i
  <2>1. \A k \in 1 .. at[i] : Met(ue, goals[i][k])
    BY <1>2 DEF Held, Behind, Copied, Goal, TypeOK
  <2>2. status'[i] = <<>> /\ goals'[i] = goals[i] /\ ue' = ue
    BY DEF TypeOK, Resolve
  <2>3. CASE at[i] = Len(goals[i])
    <3>1. pc'[i] = "ok" /\ DOMAIN goals[i] = 1 .. at[i]
      BY <2>3 DEF TypeOK, Resolve
    <3> QED BY <1>2, <2>1, <2>2, <3>1 DEF Reached, Running
  <2>4. CASE at[i] # Len(goals[i])
    <3>1. pc'[i] = "check" /\ at'[i] = at[i] + 1
      BY <2>4 DEF TypeOK, Resolve
    <3>2. 1 .. at'[i] - 1 = 1 .. at[i]
      BY <3>1 DEF TypeOK
    <3> QED BY <1>2, <2>1, <2>2, <3>1, <3>2 DEF Behind, Copied
  <2> QED BY <2>3, <2>4
<1> QED BY <1>1, <1>2

\* A command that has failed promises nothing.
LEMMA FailHeld ==
  ASSUME TypeOK, Held, NEW i \in Invocations, Fail(i), status' = [status EXCEPT ![i] = <<>>],
         UNCHANGED <<ue, disturbed>>
  PROVE  Held'
BY DEF Held, Fail, TypeOK, Running, Reached, Behind, Copied, Goal

LEMMA InvokeHeld ==
  ASSUME TypeOK, Held, NEW i \in Invocations, NEW wants, Invoke(i, wants)
  PROVE  Held'
BY DEF Held, Invoke, TypeOK, Running, Reached, Behind, Copied, Goal, ueVars

LEMMA StepHeld ==
  ASSUME TypeOK, Held, NEW i \in Invocations, Step(i)
  PROVE  Held'
<1>1. CASE Retrieve(i)
  BY <1>1 DEF Held, Retrieve, TypeOK, Running, Reached, Behind, Copied, Goal, ueVars
<1>2. CASE Check(i)
  <2>1. CASE Resolve(i) /\ Met(status[i][1], Goal(i))
    BY <1>2, <2>1, ResolveHeld DEF Check, Running, ueVars
  <2>2. CASE pc' = [pc EXCEPT ![i] = "change"] /\ UNCHANGED <<goals, at, limit>>
    BY <1>2, <2>2 DEF Held, Check, TypeOK, Running, Reached, Behind, Copied, Goal, ueVars
  <2> QED BY <1>2, <2>1, <2>2 DEF Check
<1>3. CASE Change(i)
  <2>1. /\ pc' = [pc EXCEPT ![i] = "poll"] /\ pc[i] = "change"
        /\ UNCHANGED <<goals, at, status>>
        /\ UNCHANGED <<ue, disturbed>> \/ \E s : Becomes(s)
    BY <1>3 DEF Change, Asked
  <2>2. \A j \in Invocations : (pc'[j] = "ok" => pc[j] = "ok") /\ (Running(j)' => Running(j))
    BY <2>1 DEF TypeOK, Running
  <2> QED BY <2>1, <2>2, BecomesHeld DEF Held
<1>4. CASE Poll(i)
  <2>1. CASE Resolve(i) /\ Met(status[i][1], Goal(i))
    BY <1>4, <2>1, ResolveHeld DEF Poll, Running, ueVars
  <2>2. CASE Fail(i)
    BY <1>4, <2>2, FailHeld DEF Poll, ueVars
  <2>3. CASE limit' = [limit EXCEPT ![i] = @ - 1] /\ UNCHANGED <<pc, goals, at>>
    BY <1>4, <2>3 DEF Held, Poll, TypeOK, Running, Reached, Behind, Copied, Goal, ueVars
  <2> QED BY <1>4, <2>1, <2>2, <2>3 DEF Poll, PollAgain
<1> QED BY <1>1, <1>2, <1>3, <1>4 DEF Step

LEMMA NextHeld == TypeOK /\ Held /\ [Next]_vars => Held'
<1> SUFFICES ASSUME TypeOK, Held, [Next]_vars PROVE Held'
  OBVIOUS
<1>1. CASE Complete \/ Release
  <2>1. UNCHANGED callVars /\ \E s : Becomes(s)
    BY <1>1 DEF Complete, Release
  <2>2. \A j \in Invocations : pc'[j] = pc[j] /\ Running(j)' = Running(j)
    BY <2>1 DEF callVars, Running
  <2> QED BY <2>1, <2>2, BecomesHeld DEF Held, callVars
<1>2. ASSUME NEW i \in Invocations, UeRegister(i) \/ UeDeregister(i) PROVE Held'
  BY <1>2, InvokeHeld DEF UeRegister, UeDeregister
<1>3. ASSUME NEW i \in Invocations, Throws(i) PROVE Held'
  BY <1>3, FailHeld DEF Throws, ueVars
<1>4. CASE UNCHANGED vars
  BY <1>4 DEF Held, vars, ueVars, callVars, Running, Reached, Behind, Copied, Goal
<1> QED BY <1>1, <1>2, <1>3, <1>4, StepHeld DEF Next

(* A command that ends well has what was asked for, unless something that  *)
(* had been reached was lost again.                                        *)
THEOREM EstablishedHolds == Spec => []Established
<1>1. Init => IInv
  BY InitType DEF Init, IInv, Held, Running
<1>2. IInv /\ [Next]_vars => IInv'
  BY NextType, NextHeld DEF IInv
<1>3. IInv => Established
  BY DEF IInv, Held, Established, Reached
<1> QED BY <1>1, <1>2, <1>3, PTL DEF Spec
=============================================================================
