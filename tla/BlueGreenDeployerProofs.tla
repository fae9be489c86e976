---------------------- MODULE BlueGreenDeployerProofs ----------------------
(***************************************************************************)
(* Proofs about BlueGreenDeployer for any calls, versions and numbers of   *)
(* probes, with every interface call free to reject and the deployer free  *)
(* to restart.                                                             *)
(*                                                                         *)
(* Each promise holds until the history records what excludes it, so each  *)
(* conjunct of DeployInv is guarded by that part of the history.  The      *)
(* first says how many calls are in progress; the others say what the one  *)
(* deploy in progress may rely on between two awaits.                      *)
(***************************************************************************)
EXTENDS BlueGreenDeployer, TLAPS

TypeInv == TypeOK /\ tries \in [Calls -> Nat]

(* A call is alone until the history says otherwise, and only a deploy     *)
(* goes on after the status.                                               *)
CallsInv ==
  /\ "overlap" \notin upsets => \A c, d \in InProgress : c = d
  /\ "two deploys" \notin upsets =>
       \A c, d \in InProgress : IsDeploy(c) /\ IsDeploy(d) => c = d
  /\ \A c \in InProgress : IsDeploy(c) \/ pc[c] = "discover"

(* The record of a slot is its server, or is missing for the first server. *)
Recorded(s) ==
  versions[s] = server[s] \/ (versions[s] = NoVersion /\ server[s] = FirstVersion)
RecordInv ==
  upsets \cap {"overlap", "restart"} = {} =>
    /\ \A s \in Slots : Recorded(s)
    /\ \A c \in Calls : pc[c] = "discover" => versions[Other(slot[c])] = NoVersion

(* A deploy's own build runs in its slot, has passed a probe before the    *)
(* switch, and is the one the configuration names when nginx is reloaded.  *)
BuildInv ==
  "two deploys" \notin upsets =>
    \A c \in Calls :
      /\ pc[c] \in {"probe", "switch", "reload"} => server[slot[c]] = Version[c]
      /\ pc[c] \in {"switch", "reload"} => Version[c] \notin BadVersions
      /\ pc[c] = "reload" => config = slot[c]

(* A deploy in sight of the traffic works in the other slot.               *)
TrafficInv ==
  InSight =>
    /\ server[live] \notin BadVersions \cup {NoVersion}
    /\ \A c \in InProgress : IsDeploy(c) => slot[c] = Other(live)

(* Without a failed reload the configuration is ahead of the traffic only  *)
(* between the two awaits of a switch, and no deploy is misled.            *)
RouterInv ==
  upsets \cap {"two deploys", "no reload"} = {} =>
    /\ "misled" \notin upsets
    /\ config # live => \E c \in Calls : pc[c] = "reload"

(* A call past the status: it is in progress and deploys.                  *)
Working == {"start", "probe", "switch", "reload", "rollback"}

DeployInv == TypeInv /\ CallsInv /\ RecordInv /\ BuildInv /\ TrafficInv /\ RouterInv
-----------------------------------------------------------------------------
LEMMA OtherSlot ==
  /\ \A s \in Slots : Other(s) \in Slots /\ Other(s) # s /\ Other(Other(s)) = s
  /\ \A s, r \in Slots : s # r => s = Other(r)
  BY DEF Slots, Other

LEMMA VersionType == \A c \in Calls : Version[c] \in Versions
  BY DEF Versions

(* Who is in progress, by program counter.                                 *)
LEMMA InProgressIs ==
  ASSUME TypeInv, NEW c \in Calls
  PROVE  /\ c \in InProgress <=> pc[c] \in Working \cup {"discover"}
         /\ CallsInv /\ pc[c] \in Working => c \in InProgress /\ IsDeploy(c)
<1>1. pc[c] \in {"done", "failed"} \cup {"idle", "discover", "start", "probe", "rollback", "switch", "reload"}
  BY DEF TypeInv, TypeOK, Settled
<1>2. c \in InProgress <=> pc[c] \in Working \cup {"discover"}
  BY <1>1 DEF InProgress, Settled, Working
<1>3. pc[c] \in Working => pc[c] # "discover"
  BY DEF Working
<1> QED
  BY <1>2, <1>3 DEF CallsInv

(* Two calls past the status make two deploys.                             *)
LEMMA SoleDeploy ==
  ASSUME TypeInv, CallsInv, "two deploys" \notin upsets,
         NEW c \in Calls, pc[c] \in Working, NEW d \in InProgress, IsDeploy(d)
  PROVE  d = c
  BY InProgressIs DEF CallsInv

LEMMA GotoEffect ==
  ASSUME TypeInv, NEW c \in Calls, NEW from, NEW to, Goto(c, from, to)
  PROVE  /\ pc[c] = from /\ pc'[c] = to
         /\ \A d \in Calls \ {c} : pc'[d] = pc[d]
  BY DEF Goto, TypeInv, TypeOK

LEMMA BeginsRecords ==
  ASSUME NEW c \in Calls
  PROVE  /\ "overlap" \in Begins(c) <=> InProgress # {}
         /\ "two deploys" \in Begins(c) <=> IsDeploy(c) /\ \E d \in InProgress : IsDeploy(d)
         /\ "misled" \in Begins(c) <=> IsDeploy(c) /\ config # live
         /\ Begins(c) \subseteq {"overlap", "two deploys", "misled"}
  BY DEF Begins

(* What a call that begins does.                                           *)
LEMMA ReadActiveEffect ==
  ASSUME TypeInv, NEW c \in Calls, ReadActive(c)
  PROVE  /\ pc[c] = "idle" /\ c \notin InProgress
         /\ pc'[c] \in {"discover", AfterStatus(c)}
         /\ pc'[c] = "discover" => versions[config] = NoVersion
         /\ \A d \in Calls \ {c} : pc'[d] = pc[d] /\ slot'[d] = slot[d]
         /\ slot'[c] = Other(config)
         /\ upsets' = upsets \cup Begins(c)
         /\ UNCHANGED <<config, live, server, versions, tries>>
<1>1. pc[c] = "idle"
  BY DEF ReadActive, Goto
<1>2. c \notin InProgress
  BY <1>1 DEF InProgress
<1>3. AfterStatus(c) # "discover"
  BY DEF AfterStatus
<1> QED
  BY <1>1, <1>2, <1>3 DEF ReadActive, Goto, TypeInv, TypeOK

(* Every other step of a call: it was past "idle", and only a reload that  *)
(* does not happen adds to the history.                                    *)
LEMMA CallEffect ==
  ASSUME TypeInv, NEW c \in Calls, Resolves(c) \/ Rejects(c), ~ReadActive(c)
  PROVE  /\ pc[c] \in Working \cup {"discover"}
         /\ \A d \in Calls \ {c} : pc'[d] = pc[d]
         /\ slot' = slot
         /\ upsets' = upsets \/ (upsets' = upsets \cup {"no reload"} /\ pc[c] = "reload")
  BY DEF Resolves, Rejects, Discover, StartServer, Probe, Rollback, WriteConfig, ReloadSucceeds,
         ReloadReturnsFalse, Goto, Working, TypeInv, TypeOK

LEMMA RestartEffect ==
  ASSUME TypeInv, Restart
  PROVE  /\ \A c \in Calls : pc'[c] = IF c \in InProgress THEN "failed" ELSE pc[c]
         /\ InProgress' = {}
         /\ \A c \in Calls : pc'[c] \notin Working \cup {"discover"}
         /\ upsets \cup {"restart"} \subseteq upsets'
         /\ upsets' \subseteq upsets \cup {"restart", "no reload"}
         /\ (\E c \in Calls : pc[c] = "reload") => "no reload" \in upsets'
         /\ UNCHANGED <<config, live, server, slot, tries>>
<1>1. \A c \in Calls : pc'[c] = IF c \in InProgress THEN "failed" ELSE pc[c]
  BY DEF Restart
<1>2. \A c \in Calls : pc'[c] \notin Working \cup {"discover"}
  BY <1>1, InProgressIs DEF Working
<1>3. InProgress' = {}
  BY <1>1 DEF InProgress, Settled
<1> QED
  BY <1>1, <1>2, <1>3 DEF Restart
-----------------------------------------------------------------------------
LEMMA TypeStep == TypeInv /\ [Next]_vars => TypeInv'
<1> SUFFICES ASSUME TypeInv, [Next]_vars PROVE TypeInv'
  OBVIOUS
<1> USE OtherSlot, VersionType
<1>1. ASSUME NEW c \in Calls, ReadActive(c) PROVE TypeInv'
  <2>1. Begins(c) \subseteq {"overlap", "two deploys", "misled"}
    BY BeginsRecords
  <2> QED
    BY <1>1, <2>1 DEF ReadActive, Goto, AfterStatus, Settled, TypeInv, TypeOK
<1>2. ASSUME NEW c \in Calls, Discover(c) PROVE TypeInv'
  <2>1. FirstVersion \in Versions
    BY DEF Versions
  <2> QED
    BY <1>2, <2>1 DEF Discover, DiscoveredVersion, Goto, AfterStatus, Settled, TypeInv, TypeOK
<1>3. ASSUME NEW c \in Calls, StartServer(c) PROVE TypeInv'
  BY <1>3 DEF StartServer, Goto, Settled, TypeInv, TypeOK
<1>4. ASSUME NEW c \in Calls, Probe(c) PROVE TypeInv'
  <2>1. /\ pc' \in [Calls -> Settled \cup {"idle", "discover", "start", "probe",
                                             "rollback", "switch", "reload"}]
        /\ UNCHANGED <<config, live, server, versions, slot, upsets>>
        /\ tries' = [tries EXCEPT ![c] = IF ProbesLeft(c) THEN NextTry(c) ELSE tries[c]]
    BY <1>4 DEF Probe, Goto, Settled, TypeInv, TypeOK
  <2> DEFINE n == IF ProbesLeft(c) THEN NextTry(c) ELSE tries[c]
  <2>2. n \in Nat /\ (n = 0 \/ n \in 1..(Retries - 1))
    <3>1. tries[c] \in Nat /\ Retries \in Nat /\ (tries[c] = 0 \/ tries[c] \in 1..(Retries - 1))
      BY DeployerAssumption DEF TypeInv, TypeOK
    <3>2. CASE ProbesLeft(c)
      <4>1. n = tries[c] + 1 /\ tries[c] + 1 < Retries
        BY <3>2 DEF ProbesLeft, NextTry
      <4> QED
        BY <3>1, <4>1
    <3>3. CASE ~ProbesLeft(c)
      BY <3>1, <3>3
    <3> QED
      BY <3>2, <3>3
  <2> HIDE DEF n
  <2>3. /\ tries' \in [Calls -> Nat]
        /\ \A d \in Calls : tries'[d] = 0 \/ tries'[d] \in 1..(Retries - 1)
    BY <2>1, <2>2 DEF TypeInv, TypeOK, n
  <2> QED
    BY <2>1, <2>3 DEF TypeInv, TypeOK
<1>5. ASSUME NEW c \in Calls, Rollback(c) PROVE TypeInv'
  BY <1>5 DEF Rollback, Goto, Settled, TypeInv, TypeOK
<1>6. ASSUME NEW c \in Calls, WriteConfig(c) \/ ReloadSucceeds(c) \/ ReloadReturnsFalse(c) \/ Rejects(c)
      PROVE  TypeInv'
  <2>1. CASE WriteConfig(c)
    BY <2>1 DEF WriteConfig, Goto, Settled, TypeInv, TypeOK
  <2>2. CASE ReloadSucceeds(c) \/ ReloadReturnsFalse(c)
    BY <2>2 DEF ReloadSucceeds, ReloadReturnsFalse, Goto, Settled, TypeInv, TypeOK
  <2>3. CASE Rejects(c)
    BY <2>3 DEF Rejects, Settled, TypeInv, TypeOK
  <2> QED
    BY <1>6, <2>1, <2>2, <2>3
<1>7. CASE Restart
  BY <1>7 DEF Restart, Settled, TypeInv, TypeOK
<1>8. CASE UNCHANGED vars
  BY <1>8 DEF vars, callVars, TypeInv, TypeOK
<1> QED
  BY <1>1, <1>2, <1>3, <1>4, <1>5, <1>6, <1>7, <1>8 DEF Next, Resolves

(* How many calls are in progress.                                         *)
LEMMA CallsStep == TypeInv /\ CallsInv /\ [Next]_vars /\ TypeInv' => CallsInv'
<1> SUFFICES ASSUME TypeInv, CallsInv, [Next]_vars, TypeInv' PROVE CallsInv'
  OBVIOUS
<1>1. ASSUME NEW c \in Calls, ReadActive(c) PROVE CallsInv'
  <2>1. /\ pc'[c] \in {"discover", AfterStatus(c)}
        /\ \A d \in Calls \ {c} : pc'[d] = pc[d]
        /\ upsets' = upsets \cup Begins(c)
    BY <1>1, ReadActiveEffect
  <2>2. InProgress' \subseteq InProgress \cup {c}
    BY <2>1 DEF InProgress
  <2>3. ASSUME "overlap" \notin upsets' PROVE \A d, e \in InProgress' : d = e
    BY <2>1, <2>2, <2>3, BeginsRecords
  <2>4. ASSUME "two deploys" \notin upsets'
        PROVE  \A d, e \in InProgress' : IsDeploy(d) /\ IsDeploy(e) => d = e
    BY <2>1, <2>2, <2>4, BeginsRecords DEF CallsInv
  <2>5. ASSUME NEW d \in InProgress' PROVE IsDeploy(d) \/ pc'[d] = "discover"
    BY <2>1, <2>2, <2>5 DEF CallsInv, AfterStatus, InProgress, Settled
  <2> QED
    BY <2>3, <2>4, <2>5 DEF CallsInv, IsDeploy
<1>2. ASSUME NEW c \in Calls, Resolves(c) \/ Rejects(c), ~ReadActive(c) PROVE CallsInv'
  <2>1. /\ pc[c] \in Working \cup {"discover"}
        /\ \A d \in Calls \ {c} : pc'[d] = pc[d]
        /\ upsets \subseteq upsets'
    BY <1>2, CallEffect
  <2>2. c \in InProgress
    BY <2>1, InProgressIs
  <2>3. InProgress' \subseteq InProgress
    BY <2>1, <2>2 DEF InProgress
  <2>4. IsDeploy(c) \/ c \notin InProgress'
    <3>1. CASE pc[c] \in Working
      BY <3>1, InProgressIs
    <3>2. CASE pc[c] = "discover"
      <4>1. pc'[c] \in {AfterStatus(c), "failed"}
        BY <1>2, <3>2 DEF Resolves, Rejects, Discover, StartServer, Probe, Rollback, WriteConfig,
             ReloadSucceeds, ReloadReturnsFalse, Goto, TypeInv, TypeOK
      <4> QED
        BY <4>1 DEF AfterStatus, InProgress, Settled
    <3> QED
      BY <2>1, <3>1, <3>2
  <2>5. ASSUME NEW d \in InProgress' PROVE IsDeploy(d) \/ pc'[d] = "discover"
    BY <2>1, <2>3, <2>4, <2>5 DEF CallsInv, InProgress
  <2> QED
    BY <2>1, <2>3, <2>5 DEF CallsInv, IsDeploy
<1>3. CASE Restart
  BY <1>3, RestartEffect DEF CallsInv
<1>4. CASE UNCHANGED vars
  BY <1>4 DEF vars, callVars, CallsInv, InProgress, IsDeploy
<1> QED
  BY <1>1, <1>2, <1>3, <1>4 DEF Next, Resolves
-----------------------------------------------------------------------------
(* The record.  While calls do not overlap and the deployer lives, only a  *)
(* slot whose server was there from the first can be unknown, and for that *)
(* one the constant that discovery assigns is right.                       *)
LEMMA RecordSame ==
  ASSUME RecordInv, UNCHANGED <<server, versions>>, upsets \subseteq upsets',
         \A d \in Calls : pc'[d] = "discover" => pc[d] = "discover" /\ slot'[d] = slot[d]
  PROVE  RecordInv'
  BY DEF RecordInv, Recorded, Other

LEMMA RecordStep == TypeInv /\ CallsInv /\ RecordInv /\ [Next]_vars => RecordInv'
<1> SUFFICES ASSUME TypeInv, CallsInv, RecordInv, [Next]_vars PROVE RecordInv'
  OBVIOUS
<1> DEFINE Known == upsets' \cap {"overlap", "restart"} = {}
<1>1. ASSUME NEW c \in Calls, ReadActive(c) PROVE RecordInv'
  <2>1. /\ pc'[c] = "discover" => versions[config] = NoVersion
        /\ \A d \in Calls \ {c} : pc'[d] = pc[d] /\ slot'[d] = slot[d]
        /\ slot'[c] = Other(config)
        /\ upsets \subseteq upsets'
        /\ UNCHANGED <<server, versions>>
    BY <1>1, ReadActiveEffect
  <2>2. Other(slot'[c]) = config
    BY <2>1, OtherSlot DEF TypeInv, TypeOK
  <2>3. ASSUME Known, NEW d \in Calls, pc'[d] = "discover" PROVE versions[Other(slot'[d])] = NoVersion
    BY <2>1, <2>2, <2>3 DEF RecordInv
  <2>4. ASSUME Known, NEW s \in Slots PROVE Recorded(s)'
    BY <2>1, <2>4 DEF RecordInv, Recorded
  <2> QED
    BY <2>1, <2>3, <2>4 DEF RecordInv, Other
<1>2. ASSUME NEW c \in Calls, Discover(c) \/ StartServer(c) \/ Rollback(c) PROVE RecordInv'
  <2>1. /\ pc[c] \in Working \cup {"discover"}
        /\ \A d \in Calls \ {c} : pc'[d] = pc[d]
        /\ pc'[c] # "discover" /\ slot' = slot /\ upsets' = upsets
    BY <1>2 DEF Discover, StartServer, Rollback, Goto, Working, AfterStatus, TypeInv, TypeOK
  <2>2. c \in InProgress
    BY <2>1, InProgressIs
  (* There is no other call that could be waiting for its discovery.       *)
  <2>3. ASSUME Known, NEW d \in Calls PROVE pc'[d] # "discover"
    <3>1. CASE d = c
      BY <2>1, <3>1
    <3>2. CASE d # c
      <4>1. d \notin InProgress
        BY <2>1, <2>2, <2>3, <3>2 DEF CallsInv
      <4> QED
        BY <2>1, <3>2, <4>1, InProgressIs
    <3> QED
      BY <3>1, <3>2
  <2>4. ASSUME Known, NEW s \in Slots PROVE Recorded(s)'
    <3>1. Recorded(s) /\ (pc[c] = "discover" => versions[Other(slot[c])] = NoVersion)
      BY <2>1, <2>4 DEF RecordInv
    <3>2. /\ server \in [Slots -> Versions \cup {NoVersion}]
          /\ versions \in [Slots -> Versions \cup {NoVersion}]
          /\ slot[c] \in Slots /\ Other(slot[c]) \in Slots
      BY OtherSlot DEF TypeInv, TypeOK
    <3>3. CASE Discover(c)
      <4>1. PICK alive \in MayAnswer(Other(slot[c])) :
              versions' = IF alive THEN [versions EXCEPT ![Other(slot[c])] = FirstVersion] ELSE versions
        BY <3>3 DEF Discover, DiscoveredVersion
      <4>2. pc[c] = "discover" /\ server' = server
        BY <3>3 DEF Discover, Goto
      <4>3. CASE alive /\ s = Other(slot[c])
        <5>1. server[s] # NoVersion
          BY <4>3 DEF MayAnswer
        <5>2. server[s] = FirstVersion
          BY <3>1, <4>2, <4>3, <5>1 DEF Recorded
        <5>3. versions'[s] = FirstVersion
          BY <3>2, <4>1, <4>3
        <5> QED
          BY <4>2, <5>2, <5>3 DEF Recorded
      <4>4. CASE ~(alive /\ s = Other(slot[c]))
        <5>1. versions'[s] = versions[s]
          BY <3>2, <4>1, <4>4 DEF MayAnswer
        <5> QED
          BY <3>1, <4>2, <5>1 DEF Recorded
      <4> QED
        BY <4>3, <4>4
    <3>4. CASE StartServer(c) \/ Rollback(c)
      BY <3>1, <3>2, <3>4 DEF StartServer, Rollback, Recorded
    <3> QED
      BY <1>2, <3>3, <3>4
  <2> QED
    BY <2>3, <2>4 DEF RecordInv
<1>3. ASSUME NEW c \in Calls,
             Probe(c) \/ WriteConfig(c) \/ ReloadSucceeds(c) \/ ReloadReturnsFalse(c) \/ Rejects(c)
      PROVE  RecordInv'
  <2>1. /\ \A d \in Calls \ {c} : pc'[d] = pc[d]
        /\ pc'[c] # "discover" /\ slot' = slot /\ upsets \subseteq upsets'
        /\ UNCHANGED <<server, versions>>
    BY <1>3 DEF Probe, WriteConfig, ReloadSucceeds, ReloadReturnsFalse, Rejects, Goto, TypeInv, TypeOK
  <2> QED
    BY <2>1, RecordSame
<1>4. CASE Restart
  BY <1>4, RestartEffect DEF RecordInv
<1>5. CASE UNCHANGED vars
  BY <1>5, RecordSame DEF vars, callVars
<1> QED
  BY <1>1, <1>2, <1>3, <1>4, <1>5 DEF Next, Resolves
-----------------------------------------------------------------------------
(* The build.  Until another deploy overlaps, only its own deploy touches  *)
(* the slot and the configuration.                                         *)
LEMMA BuildSame ==
  ASSUME BuildInv, UNCHANGED <<config, server>>, upsets \subseteq upsets',
         \A d \in Calls : pc'[d] \in {"probe", "switch", "reload"} => pc'[d] = pc[d] /\ slot'[d] = slot[d]
  PROVE  BuildInv'
  BY DEF BuildInv

LEMMA BuildStep == TypeInv /\ CallsInv /\ BuildInv /\ [Next]_vars => BuildInv'
<1> SUFFICES ASSUME TypeInv, CallsInv, BuildInv, [Next]_vars PROVE BuildInv'
  OBVIOUS
<1>1. ASSUME NEW c \in Calls, ReadActive(c) PROVE BuildInv'
  <2>1. /\ pc'[c] \in {"discover", AfterStatus(c)}
        /\ \A d \in Calls \ {c} : pc'[d] = pc[d] /\ slot'[d] = slot[d]
        /\ upsets \subseteq upsets' /\ UNCHANGED <<config, server>>
    BY <1>1, ReadActiveEffect
  <2> QED
    BY <2>1, BuildSame DEF AfterStatus
<1>2. ASSUME NEW c \in Calls, Discover(c) \/ ReloadReturnsFalse(c) \/ Rejects(c) PROVE BuildInv'
  <2>1. /\ \A d \in Calls \ {c} : pc'[d] = pc[d]
        /\ pc'[c] \in {AfterStatus(c), "rollback", "failed"}
        /\ slot' = slot /\ upsets \subseteq upsets' /\ UNCHANGED <<config, server>>
    BY <1>2 DEF Discover, ReloadReturnsFalse, Rejects, Goto, TypeInv, TypeOK
  <2> QED
    BY <2>1, BuildSame DEF AfterStatus
<1>3. ASSUME NEW c \in Calls,
             StartServer(c) \/ Probe(c) \/ Rollback(c) \/ WriteConfig(c) \/ ReloadSucceeds(c)
      PROVE  BuildInv'
  <2> SUFFICES ASSUME "two deploys" \notin upsets', NEW d \in Calls,
                      pc'[d] \in {"probe", "switch", "reload"}
               PROVE  /\ server'[slot'[d]] = Version[d]
                      /\ pc'[d] \in {"switch", "reload"} => Version[d] \notin BadVersions
                      /\ pc'[d] = "reload" => config' = slot'[d]
    BY DEF BuildInv
  <2>1. /\ pc[c] \in Working /\ \A e \in Calls \ {c} : pc'[e] = pc[e]
        /\ slot' = slot /\ upsets' = upsets
    BY <1>3 DEF StartServer, Probe, Rollback, WriteConfig, ReloadSucceeds, Goto, Working, TypeInv, TypeOK
  <2>2. d = c
    <3>1. ASSUME d # c PROVE FALSE
      <4>1. pc[d] \in Working
        BY <2>1, <3>1 DEF Working
      <4>2. d \in InProgress /\ IsDeploy(d)
        BY <4>1, InProgressIs
      <4> QED
        BY <2>1, <3>1, <4>2, SoleDeploy
    <3> QED
      BY <3>1
  <2>3. server \in [Slots -> Versions \cup {NoVersion}] /\ slot[c] \in Slots
    BY DEF TypeInv, TypeOK
  <2>4. CASE StartServer(c)
    <3>1. pc'[c] \in {"rollback", "probe"} /\ server'[slot[c]] = Version[c]
      BY <2>3, <2>4 DEF StartServer, Goto, TypeInv, TypeOK
    <3> QED
      BY <2>1, <2>2, <3>1
  <2>5. CASE Probe(c)
    <3>1. PICK alive \in MayAnswer(slot[c]) :
            Goto(c, "probe",
                 IF ProbePassed(alive) THEN "switch" ELSE IF ProbesLeft(c) THEN "probe" ELSE "rollback")
      BY <2>5 DEF Probe
    <3>2. /\ pc[c] = "probe" /\ server' = server /\ pc'[c] # "reload"
          /\ pc'[c] = "switch" => alive
      BY <2>5, <3>1 DEF Probe, Goto, ProbePassed, TypeInv, TypeOK, MayAnswer
    <3>3. server[slot[c]] = Version[c]
      BY <2>1, <3>2 DEF BuildInv
    <3>4. alive => server[slot[c]] \notin BadVersions
      BY DEF MayAnswer
    <3> QED
      BY <2>1, <2>2, <3>2, <3>3, <3>4
  <2>6. CASE WriteConfig(c)
    <3>1. pc[c] = "switch" /\ config' = slot[c] /\ server' = server
      BY <2>6 DEF WriteConfig, Goto
    <3> QED
      BY <2>1, <2>2, <3>1 DEF BuildInv
  <2>7. CASE Rollback(c) \/ ReloadSucceeds(c)
    <3>1. pc'[c] \in {"failed", "done"}
      BY <2>7 DEF Rollback, ReloadSucceeds, Goto, TypeInv, TypeOK
    <3> QED
      BY <2>2, <3>1
  <2> QED
    BY <1>3, <2>4, <2>5, <2>6, <2>7
<1>4. CASE Restart
  <2>1. \A d \in Calls : pc'[d] \notin {"probe", "switch", "reload"}
    BY <1>4, RestartEffect DEF Working
  <2> QED
    BY <2>1 DEF BuildInv
<1>5. CASE UNCHANGED vars
  BY <1>5, BuildSame DEF vars, callVars
<1> QED
  BY <1>1, <1>2, <1>3, <1>4, <1>5 DEF Next, Resolves
-----------------------------------------------------------------------------
(* The traffic.  The one deploy works in the slot without traffic, and the *)
(* traffic only moves to a build that has passed a probe.                  *)
LEMMA TrafficSame ==
  ASSUME TrafficInv, UNCHANGED <<live, server, slot>>, upsets \subseteq upsets',
         InProgress' \subseteq InProgress
  PROVE  TrafficInv'
  BY DEF TrafficInv, InSight, IsDeploy, Other

LEMMA TrafficStep == TypeInv /\ CallsInv /\ BuildInv /\ TrafficInv /\ [Next]_vars => TrafficInv'
<1> SUFFICES ASSUME TypeInv, CallsInv, BuildInv, TrafficInv, [Next]_vars PROVE TrafficInv'
  OBVIOUS
<1>0. live \in Slots /\ config \in Slots /\ slot \in [Calls -> Slots]
      /\ server \in [Slots -> Versions \cup {NoVersion}]
  BY DEF TypeInv, TypeOK
<1>1. ASSUME NEW c \in Calls, ReadActive(c) PROVE TrafficInv'
  <2>1. /\ \A d \in Calls \ {c} : pc'[d] = pc[d] /\ slot'[d] = slot[d]
        /\ slot'[c] = Other(config)
        /\ upsets' = upsets \cup Begins(c)
        /\ UNCHANGED <<live, server>>
    BY <1>1, ReadActiveEffect
  <2>2. InProgress' \subseteq InProgress \cup {c}
    BY <2>1 DEF InProgress
  <2> SUFFICES ASSUME InSight'
               PROVE  /\ server[live] \notin BadVersions \cup {NoVersion}
                      /\ \A d \in InProgress' : IsDeploy(d) => slot'[d] = Other(live)
    BY <2>1 DEF TrafficInv, IsDeploy, Other
  <2>3. InSight /\ (IsDeploy(c) => config = live)
    BY <2>1, BeginsRecords DEF InSight
  <2>4. ASSUME NEW d \in InProgress', IsDeploy(d) PROVE slot'[d] = Other(live)
    <3>1. CASE d = c
      BY <2>1, <2>3, <2>4, <3>1
    <3>2. CASE d # c
      <4>1. d \in InProgress /\ d \in Calls
        BY <2>2, <3>2, <2>1 DEF InProgress
      <4> QED
        BY <4>1, <3>2, <2>1, <2>3, <2>4 DEF TrafficInv
    <3> QED
      BY <3>1, <3>2
  <2>5. server[live] \notin BadVersions \cup {NoVersion}
    BY <2>3 DEF TrafficInv
  <2> QED
    BY <2>4, <2>5
<1>2. ASSUME NEW c \in Calls, Resolves(c) \/ Rejects(c), ~ReadActive(c) PROVE TrafficInv'
  <2>1. /\ pc[c] \in Working \cup {"discover"}
        /\ \A d \in Calls \ {c} : pc'[d] = pc[d]
        /\ slot' = slot /\ upsets \subseteq upsets'
    BY <1>2, CallEffect
  <2>2. c \in InProgress /\ InProgress' \subseteq InProgress
    BY <2>1, InProgressIs DEF InProgress
  <2>3. CASE Discover(c) \/ Probe(c) \/ WriteConfig(c) \/ ReloadReturnsFalse(c) \/ Rejects(c)
    <3>1. UNCHANGED <<live, server>>
      BY <2>3 DEF Discover, Probe, WriteConfig, ReloadReturnsFalse, Rejects
    <3> QED
      BY <2>1, <2>2, <3>1, TrafficSame
  <2>4. CASE StartServer(c) \/ Rollback(c)
    <3>1. /\ live' = live /\ pc[c] \in Working
          /\ \A s \in Slots \ {slot[c]} : server'[s] = server[s]
      BY <1>0, <2>4 DEF StartServer, Rollback, Goto, Working
    <3>2. ASSUME InSight' PROVE slot[c] = Other(live) /\ InSight
      BY <2>1, <3>1, <3>2, InProgressIs DEF TrafficInv, InSight
    <3>3. ASSUME InSight' PROVE server'[live] = server[live]
      BY <1>0, <3>1, <3>2, <3>3, OtherSlot
    <3> QED
      BY <2>1, <2>2, <3>1, <3>2, <3>3 DEF TrafficInv, IsDeploy, Other
  <2>5. CASE ReloadSucceeds(c)
    <3>1. /\ pc[c] = "reload" /\ pc'[c] = "done" /\ live' = config
          /\ server' = server /\ upsets' = upsets
      BY <2>5 DEF ReloadSucceeds, Goto, TypeInv, TypeOK
    <3> SUFFICES ASSUME InSight
                 PROVE  /\ server[config] \notin BadVersions \cup {NoVersion}
                        /\ \A d \in InProgress' : ~IsDeploy(d)
      BY <3>1 DEF TrafficInv, InSight, IsDeploy
    <3>2. pc[c] \in Working /\ IsDeploy(c) /\ "two deploys" \notin upsets
      BY <3>1, InProgressIs DEF Working, InSight
    <3>3. /\ config = slot[c] /\ server[slot[c]] = Version[c] /\ Version[c] \notin BadVersions
      BY <3>1, <3>2 DEF BuildInv
    <3>4. Version[c] # NoVersion
      BY <3>2 DEF IsDeploy
    <3>5. ASSUME NEW d \in InProgress', IsDeploy(d) PROVE FALSE
      <4>1. d = c
        BY <2>2, <3>2, <3>5, SoleDeploy
      <4> QED
        BY <3>1, <3>5, <4>1 DEF InProgress, Settled
    <3> QED
      BY <3>3, <3>4, <3>5
  <2> QED
    BY <1>2, <2>3, <2>4, <2>5 DEF Resolves
<1>3. CASE Restart
  BY <1>3, RestartEffect, TrafficSame
<1>4. CASE UNCHANGED vars
  <2>1. InProgress' = InProgress
    BY <1>4 DEF vars, callVars, InProgress
  <2> QED
    BY <1>4, <2>1, TrafficSame DEF vars, callVars
<1> QED
  BY <1>1, <1>2, <1>3, <1>4 DEF Next, Resolves
-----------------------------------------------------------------------------
(* The router's configuration.                                             *)
LEMMA RouterSame ==
  ASSUME RouterInv, UNCHANGED <<config, live>>, upsets \subseteq upsets',
         "misled" \in upsets' => "misled" \in upsets,
         \A d \in Calls : pc[d] = "reload" => pc'[d] = "reload" \/ "no reload" \in upsets'
  PROVE  RouterInv'
<1> SUFFICES ASSUME upsets' \cap {"two deploys", "no reload"} = {}
             PROVE  /\ "misled" \notin upsets'
                    /\ config # live => \E d \in Calls : pc'[d] = "reload"
  BY DEF RouterInv
<1>1. /\ "misled" \notin upsets
      /\ config # live => \E d \in Calls : pc[d] = "reload"
  BY DEF RouterInv
<1> QED
  BY <1>1

LEMMA RouterStep == TypeInv /\ CallsInv /\ BuildInv /\ RouterInv /\ [Next]_vars => RouterInv'
<1> SUFFICES ASSUME TypeInv, CallsInv, BuildInv, RouterInv, [Next]_vars PROVE RouterInv'
  OBVIOUS
<1>1. ASSUME NEW c \in Calls, ReadActive(c) PROVE RouterInv'
  <2>1. /\ pc[c] = "idle" /\ \A d \in Calls \ {c} : pc'[d] = pc[d]
        /\ upsets' = upsets \cup Begins(c)
        /\ UNCHANGED <<config, live>>
    BY <1>1, ReadActiveEffect
  <2> SUFFICES ASSUME upsets' \cap {"two deploys", "no reload"} = {}
               PROVE  /\ "misled" \notin upsets'
                      /\ config # live => \E d \in Calls : pc'[d] = "reload"
    BY <2>1 DEF RouterInv
  <2>2. /\ "misled" \notin upsets
        /\ config # live => \E d \in Calls : pc[d] = "reload"
    BY <2>1 DEF RouterInv
  (* A configuration ahead of the traffic is another deploy's.             *)
  <2>3. ASSUME "misled" \in Begins(c) PROVE FALSE
    <3>1. IsDeploy(c) /\ config # live
      BY <2>3, BeginsRecords
    <3>2. PICK d \in Calls : pc[d] = "reload"
      BY <2>2, <3>1
    <3>3. d \in InProgress /\ IsDeploy(d)
      BY <3>2, InProgressIs DEF Working
    <3> QED
      BY <2>1, <3>1, <3>3, BeginsRecords
  <2> QED
    BY <2>1, <2>2, <2>3
<1>2. ASSUME NEW c \in Calls,
             \/ Discover(c) \/ StartServer(c) \/ Probe(c) \/ Rollback(c)
             \/ ReloadReturnsFalse(c) \/ Rejects(c)
      PROVE  RouterInv'
  <2>1. /\ \A d \in Calls \ {c} : pc'[d] = pc[d]
        /\ UNCHANGED <<config, live>>
        /\ upsets \subseteq upsets' /\ upsets' \subseteq upsets \cup {"no reload"}
        /\ pc[c] = "reload" => "no reload" \in upsets'
    BY <1>2 DEF Discover, StartServer, Probe, Rollback, ReloadReturnsFalse, Rejects, Goto, TypeInv, TypeOK
  <2> QED
    BY <2>1, RouterSame
<1>3. ASSUME NEW c \in Calls, WriteConfig(c) PROVE RouterInv'
  <2>1. pc'[c] = "reload" /\ upsets' = upsets
    BY <1>3 DEF WriteConfig, Goto, TypeInv, TypeOK
  <2> QED
    BY <2>1 DEF RouterInv
<1>4. ASSUME NEW c \in Calls, ReloadSucceeds(c) PROVE RouterInv'
  BY <1>4 DEF ReloadSucceeds, RouterInv
<1>5. CASE Restart
  BY <1>5, RestartEffect, RouterSame
<1>6. CASE UNCHANGED vars
  BY <1>6, RouterSame DEF vars, callVars
<1> QED
  BY <1>1, <1>2, <1>3, <1>4, <1>5, <1>6 DEF Next, Resolves
-----------------------------------------------------------------------------
(* DeployInv holds in every reachable state.                               *)
THEOREM DeployInvariant == Spec => []DeployInv
<1>1. Init => DeployInv
  <2> SUFFICES ASSUME Init PROVE DeployInv
    OBVIOUS
  <2>1. InProgress = {} /\ \A c \in Calls : pc[c] = "idle"
    BY DEF Init, InProgress
  <2>2. TypeInv
    BY DEF Init, TypeInv, TypeOK, Slots, Versions
  <2>3. CallsInv /\ RecordInv /\ BuildInv
    BY <2>1 DEF Init, CallsInv, RecordInv, Recorded, BuildInv, Slots
  <2>4. TrafficInv /\ RouterInv
    BY <2>1, DeployerAssumption DEF Init, TrafficInv, RouterInv, Slots
  <2> QED
    BY <2>2, <2>3, <2>4 DEF DeployInv
<1>2. DeployInv /\ [Next]_vars => DeployInv'
  BY TypeStep, CallsStep, RecordStep, BuildStep, TrafficStep, RouterStep DEF DeployInv
<1> QED
  BY <1>1, <1>2, PTL DEF Spec

(* The deployer's fields have their types, and its record of a slot never  *)
(* names another version than the one that runs there, unless calls        *)
(* overlapped or a restart made discovery guess.                           *)
THEOREM AlwaysConsistent == Spec => []Consistent
<1>1. DeployInv => Consistent
  BY DEF DeployInv, TypeInv, RecordInv, Recorded, Consistent, VersionsAgree
<1> QED
  BY <1>1, DeployInvariant, PTL

(* Traffic reaches a running server of a good build at every await, until  *)
(* two deploys overlap or one reads a configuration that a failed reload   *)
(* left apart from the traffic.                                            *)
THEOREM AlwaysServed == Spec => []TrafficServed
<1>1. DeployInv => TrafficServed
  BY DEF DeployInv, TrafficInv, TrafficServed, NoDowntime
<1> QED
  BY <1>1, DeployInvariant, PTL

(* With no call in progress and every reload done, the configuration names *)
(* the slot that has the traffic, and a server runs there.                 *)
THEOREM AlwaysRolledBack == Spec => []RolledBack
<1>1. DeployInv => RolledBack
  <2> SUFFICES ASSUME DeployInv, InProgress = {}, upsets \cap {"two deploys", "no reload"} = {}
               PROVE  config = live /\ server[config] # NoVersion
    BY DEF RolledBack
  <2>1. \A c \in Calls : pc[c] # "reload"
    BY InProgressIs DEF DeployInv, Working
  <2>2. config = live /\ "misled" \notin upsets
    BY <2>1 DEF DeployInv, RouterInv
  <2> QED
    BY <2>2 DEF DeployInv, TrafficInv, InSight
<1> QED
  BY <1>1, DeployInvariant, PTL

(* A deploy that reports success has its own version under traffic, as     *)
(* long as no other deploy overlapped.                                     *)
THEOREM SuccessMeansLive == Spec => SuccessIsLive
<1>1. ASSUME DeployInv, [Next]_vars, NEW c \in Calls,
             pc[c] = "reload", pc'[c] = "done", "two deploys" \notin upsets
      PROVE  live' = slot[c] /\ server'[live'] = Version[c]
  <2>1. ReloadSucceeds(c)
    <3>1. ASSUME NEW d \in Calls, Resolves(d) \/ Rejects(d) PROVE d = c
      BY <1>1, <3>1 DEF DeployInv, TypeInv, TypeOK, Resolves, Rejects, ReadActive, Discover, StartServer,
         Probe, Rollback, WriteConfig, ReloadSucceeds, ReloadReturnsFalse, Goto
    <3>2. ASSUME Resolves(c) \/ Rejects(c) PROVE ReloadSucceeds(c)
      BY <1>1, <3>2 DEF DeployInv, TypeInv, TypeOK, Resolves, Rejects, ReadActive, Discover, StartServer,
         Probe, Rollback, WriteConfig, ReloadReturnsFalse, Goto
    <3>3. ~Restart /\ ~(UNCHANGED vars)
      BY <1>1, RestartEffect DEF vars, callVars, DeployInv, Working
    <3> QED
      BY <1>1, <3>1, <3>2, <3>3 DEF Next
  <2>2. live' = config /\ server' = server
    BY <2>1 DEF ReloadSucceeds
  <2> QED
    BY <1>1, <2>2 DEF DeployInv, BuildInv
<1>2. DeployInv /\ [Next]_vars =>
        \A c \in Calls : pc[c] = "reload" /\ pc'[c] = "done" /\ "two deploys" \notin upsets
                          => live' = slot[c] /\ server'[live'] = Version[c]
  BY <1>1
<1> QED
  BY <1>2, DeployInvariant, PTL DEF Spec, SuccessIsLive
=============================================================================
