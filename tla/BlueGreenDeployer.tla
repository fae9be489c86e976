------------------------- MODULE BlueGreenDeployer -------------------------
(***************************************************************************)
(* devops/d04-blue-green: class BlueGreenDeployer, which starts a new      *)
(* version in the inactive slot, probes it and switches nginx over.        *)
(*                                                                         *)
(* The router and the launcher are interfaces whose methods are awaited.   *)
(* A step is one such call's effect together with the code that runs until *)
(* the next await; other calls of the same deployer run in between.  The   *)
(* router has a configuration, which setActiveSlot writes and getActiveSlot*)
(* reads, and live workers, which take it over when a reload succeeds.     *)
(***************************************************************************)
EXTENDS Integers, FiniteSets

CONSTANTS
  Calls,            \* calls of deploy and getSlotsStatus
  Version,          \* the version each call deploys, NoVersion: status only
  NoVersion,
  FirstVersion,     \* the version that runs before the first call
  BadVersions,      \* versions that never pass a probe
  Retries,          \* options.smokeTestRetries
  MaxRunning        \* bound: calls in progress at a time

Slots == {"blue", "green"}
Versions == {Version[c] : c \in Calls} \cup {FirstVersion}
ASSUME DeployerAssumption ==
  /\ IsFiniteSet(Calls)
  /\ FirstVersion # NoVersion
  /\ FirstVersion \notin BadVersions
  /\ Retries \in Nat
  /\ MaxRunning \in Nat \ {0}

VARIABLES
  config,           \* active slot in the router's configuration
  live,             \* slot the router's workers send traffic to
  server,           \* version running in each slot, NoVersion when stopped
  versions,         \* the deployer's record of them, NoVersion for null
  pc, slot, tries,  \* of each call: where it is, its inactive slot, probes made
  upsets            \* history: what has happened that a promise may exclude

callVars == <<pc, slot, tries>>
vars == <<config, live, server, versions, callVars, upsets>>
-----------------------------------------------------------------------------
SameSlot(s) == s   \* mutant
Other(s) == IF s = "blue" THEN "green" ELSE "blue"

IsDeploy(c) == Version[c] # NoVersion

Settled == {"done", "failed"}
InProgress == {c \in Calls : pc[c] \notin Settled \cup {"idle"}}

(* isAlive: only a running server of a good version answers, and not       *)
(* before it has booted.                                                   *)
MayAnswer(s) == {FALSE} \cup {server[s] \notin BadVersions \cup {NoVersion}}

(* The constant 'v1.0.0' that discovery assigns.                           *)
DiscoveredVersion == FirstVersion

Goto(c, from, to) == pc[c] = from /\ pc' = [pc EXCEPT ![c] = to]

Init ==
  /\ config = "blue"
  /\ live = "blue"
  /\ server = [s \in Slots |-> IF s = "blue" THEN FirstVersion ELSE NoVersion]
  /\ versions = [s \in Slots |-> NoVersion]
  /\ pc = [c \in Calls |-> "idle"]
  /\ slot = [c \in Calls |-> "green"]
  /\ tries = [c \in Calls |-> 0]
  /\ upsets = {}
-----------------------------------------------------------------------------
(* getSlotsStatus: await getActiveSlot.                                    *)
AfterStatus(c) == IF IsDeploy(c) THEN "start" ELSE "done"

(* What the history records of a call that begins: it overlaps another     *)
(* call, or another deploy; it reads a configuration that traffic does not *)
(* follow.                                                                 *)
Begins(c) ==
  {u \in {"overlap", "two deploys", "misled"} :
     \/ u = "overlap" /\ InProgress # {}
     \/ u = "two deploys" /\ IsDeploy(c) /\ \E d \in InProgress : IsDeploy(d)
     \/ u = "misled" /\ IsDeploy(c) /\ config # live}

ReadActive(c) ==
  /\ Cardinality(InProgress) < MaxRunning
  /\ slot' = [slot EXCEPT ![c] = Other(config)]
  /\ Goto(c, "idle", IF versions[config] = NoVersion THEN "discover" ELSE AfterStatus(c))
  /\ upsets' = upsets \cup Begins(c)
  /\ UNCHANGED <<config, live, server, versions, tries>>

(* getSlotsStatus: await isAlive(activePort) when the version is unknown.  *)
Discover(c) ==
  /\ \E alive \in MayAnswer(Other(slot[c])) :
       versions' = IF alive THEN [versions EXCEPT ![Other(slot[c])] = DiscoveredVersion]
                            ELSE versions
  /\ Goto(c, "discover", AfterStatus(c))
  /\ UNCHANGED <<config, live, server, slot, tries, upsets>>

(* await launcher.start: replaces whatever runs in the slot.               *)
StartServer(c) ==
  /\ server' = [server EXCEPT ![slot[c]] = Version[c]]
  /\ versions' = [versions EXCEPT ![slot[c]] = Version[c]]
  /\ Goto(c, "start", IF Retries = 0 THEN "rollback" ELSE "probe")
  /\ UNCHANGED <<config, live, slot, tries, upsets>>

ProbesLeft(c) == tries[c] + 1 < Retries

SameTry(c) == tries[c]   \* mutant
NextTry(c) == tries[c] + 1

ProbePassed(alive) == alive

(* One round of the smoke test: await isAlive(inactivePort).               *)
Probe(c) ==
  /\ \E alive \in MayAnswer(slot[c]) :
       Goto(c, "probe",
            IF ProbePassed(alive) THEN "switch"
            ELSE IF ProbesLeft(c) THEN "probe" ELSE "rollback")
  /\ tries' = [tries EXCEPT ![c] = IF ProbesLeft(c) THEN NextTry(c) ELSE @]
  /\ UNCHANGED <<config, live, server, versions, slot, upsets>>

(* await launcher.stop, after a failed smoke test and a failed reload.     *)
RollbackForgetsVersion(c) ==   \* mutant
  /\ server' = [server EXCEPT ![slot[c]] = NoVersion]
  /\ Goto(c, "rollback", "failed")
  /\ UNCHANGED <<config, live, versions, slot, tries, upsets>>
RollbackStopsOther(c) ==   \* mutant
  /\ server' = [server EXCEPT ![Other(slot[c])] = NoVersion]
  /\ versions' = [versions EXCEPT ![Other(slot[c])] = NoVersion]
  /\ Goto(c, "rollback", "failed")
  /\ UNCHANGED <<config, live, slot, tries, upsets>>
Rollback(c) ==
  /\ server' = [server EXCEPT ![slot[c]] = NoVersion]
  /\ versions' = [versions EXCEPT ![slot[c]] = NoVersion]
  /\ Goto(c, "rollback", "failed")
  /\ UNCHANGED <<config, live, slot, tries, upsets>>

(* await router.setActiveSlot, then await router.reload.                   *)
WriteOldConfig(c) ==   \* mutant
  /\ config' = Other(slot[c])
  /\ Goto(c, "switch", "reload")
  /\ UNCHANGED <<live, server, versions, slot, tries, upsets>>
WriteConfig(c) ==
  /\ config' = slot[c]
  /\ Goto(c, "switch", "reload")
  /\ UNCHANGED <<live, server, versions, slot, tries, upsets>>

ReloadSucceeds(c) ==
  /\ live' = config
  /\ Goto(c, "reload", "done")
  /\ UNCHANGED <<config, server, versions, slot, tries, upsets>>

ReloadReturnsFalse(c) ==
  /\ Goto(c, "reload", "rollback")
  /\ upsets' = upsets \cup {"no reload"}
  /\ UNCHANGED <<config, live, server, versions, slot, tries>>

(* An awaited interface call rejects, without effect: the exception leaves *)
(* deploy and nothing is undone.                                           *)
Rejects(c) ==
  /\ pc[c] \in {"discover", "start", "probe", "switch", "rollback", "reload"}
  /\ pc' = [pc EXCEPT ![c] = "failed"]
  /\ upsets' = IF pc[c] = "reload" THEN upsets \cup {"no reload"} ELSE upsets
  /\ UNCHANGED <<config, live, server, versions, slot, tries>>

(* The deployer's process restarts: its calls end, its record is lost.     *)
Restart ==
  /\ versions' = [s \in Slots |-> NoVersion]
  /\ pc' = [c \in Calls |-> IF c \in InProgress THEN "failed" ELSE pc[c]]
  /\ upsets' = upsets \cup {"restart"}
                      \cup (IF \E c \in Calls : pc[c] = "reload" THEN {"no reload"} ELSE {})
  /\ UNCHANGED <<config, live, server, slot, tries>>

Resolves(c) ==
  \/ ReadActive(c) \/ Discover(c) \/ StartServer(c) \/ Probe(c) \/ Rollback(c)
  \/ WriteConfig(c) \/ ReloadSucceeds(c) \/ ReloadReturnsFalse(c)

Next == Restart \/ \E c \in Calls : Resolves(c) \/ Rejects(c)

Spec == Init /\ [][Next]_vars

(* Interface calls settle: a call that has begun is carried on, and not    *)
(* only by a rejection.                                                    *)
FairSpec == Spec /\ \A c \in Calls : WF_vars(pc[c] # "idle" /\ Resolves(c))
-----------------------------------------------------------------------------
TypeOK ==
  /\ config \in Slots /\ live \in Slots
  /\ server \in [Slots -> Versions \cup {NoVersion}]
  /\ versions \in [Slots -> Versions \cup {NoVersion}]
  /\ pc \in [Calls -> Settled \cup {"idle", "discover", "start", "probe",
                                    "rollback", "switch", "reload"}]
  /\ slot \in [Calls -> Slots]
  /\ \A c \in Calls : tries[c] = 0 \/ tries[c] \in 1..(Retries - 1)
  /\ upsets \subseteq {"overlap", "two deploys", "misled", "no reload", "restart"}

(* Comment 77: zero downtime.  Traffic always goes to a running server, at *)
(* every await of every deploy, whatever was rejected or restarted.        *)
NoDowntime == server[live] # NoVersion

(* The code keeps that promise until two deploys overlap, or a deploy reads*)
(* a configuration that a failed reload left apart from the traffic.       *)
(* README 294: nor does a bad build reach a client, within the same limits.*)
InSight == upsets \cap {"two deploys", "misled"} = {}
TrafficServed == InSight => NoDowntime /\ server[live] \notin BadVersions

(* README 59 and test 138: with no call in progress, whatever else failed, *)
(* the router's configuration names the slot that has the traffic, and a   *)
(* server runs there; the next deploy will leave it alone.                 *)
RolledBack ==
  InProgress = {} /\ upsets \cap {"two deploys", "no reload"} = {}
    => config = live /\ server[config] # NoVersion

(* Comment 54: the recorded versions are those that run, unless calls      *)
(* overlapped or discovery had to guess after a restart.                   *)
VersionsAgree ==
  upsets \cap {"overlap", "restart"} = {}
    => \A s \in Slots : versions[s] \in {NoVersion, server[s]}

(* Types and recorded versions, in every state.                            *)
Consistent == TypeOK /\ VersionsAgree

(* A deploy that reports success has its own version under traffic, unless *)
(* another deploy overlapped.                                              *)
SuccessIsLive ==
  [][\A c \in Calls :
       pc[c] = "reload" /\ pc'[c] = "done" /\ "two deploys" \notin upsets
         => live' = slot[c] /\ server'[live'] = Version[c]]_vars

(* Every call that has begun settles: the smoke test gives up.             *)
CallsSettle == \A c \in Calls : pc[c] # "idle" ~> pc[c] \in Settled
=============================================================================
