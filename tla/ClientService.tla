--------------------------- MODULE ClientService ---------------------------
(***************************************************************************)
(* pkg/ovirt: the clientService that watches the credentials Secret and    *)
(* hands each new version to the cached oVirt clients, and the             *)
(* cachedOVirtClient from which the controllers and the health check get   *)
(* a connection.                                                           *)
(*                                                                         *)
(* Goroutines: main (Run, then Shutdown), the informer with its event      *)
(* handler, processCredentialUpdate, and the callers of Get.  The handler  *)
(* and processCredentialUpdate meet at an unbuffered channel; the mutex of *)
(* a cached client orders SetCredentials and Get.                          *)
(*                                                                         *)
(* Credentials are reduced to the version of the Secret they came from; 0  *)
(* is no Secret, nil credentials or no client.                             *)
(***************************************************************************)
EXTENDS Naturals, Sequences

CONSTANTS
  Clients,       \* the cached clients
  Listeners,     \* the cached clients, in the order of credUpdateListener
  Callers,       \* goroutines that call Get: workers, health requests
  ClientOf,      \* the cached client a caller uses
  MaxVersion,    \* bound: versions of the Secret
  Malformed,     \* versions that FromK8sSecret rejects
  MaxFaults      \* bound: failures of writeCA

Service == "service"   \* the goroutine of processCredentialUpdate
Free    == "free"

ASSUME ServiceAssumption ==
  /\ Listeners \in Seq(Clients)
  /\ ClientOf \in [Callers -> Clients]
  /\ MaxVersion \in Nat /\ MaxFaults \in Nat
  /\ Malformed \subseteq 1 .. MaxVersion
  /\ Service \notin Callers /\ Free \notin Callers

VARIABLES
  secret,     \* version of the stored Secret
  written,    \* last version ever written
  indexed,    \* version in the informer's indexer
  synced,     \* the informer has processed its first list
  pending,    \* notifications the handler has not been given
  sending,    \* version the handler is sending on the channel
  main,       \* where main is
  informer,   \* the informer goroutine is alive
  proc,       \* where processCredentialUpdate is
  creds,      \* the credentials it is handing out
  at,         \* position in Listeners
  faults,     \* failures of writeCA so far
  credentials, client, lock,   \* the fields of each cached client
  caller,     \* where each caller is
  using       \* the credentials a build in progress was given

secretVars == <<secret, written>>
informerVars == <<indexed, synced, pending, sending, informer>>
procVars == <<proc, creds, at, faults>>
cachedVars == <<credentials, client, lock>>
vars == <<secretVars, informerVars, main, procVars, cachedVars, caller, using>>

Versions == 0 .. MaxVersion
Actors == Callers \cup {Service}

TypeOK ==
  /\ secret \in Versions /\ written \in Versions
  /\ indexed \in Versions /\ sending \in Versions /\ creds \in Versions
  /\ pending \in Seq(Versions)
  /\ synced \in BOOLEAN /\ informer \in BOOLEAN
  /\ main \in {"run", "manager", "shutdown", "exited"}
  /\ proc \in {"off", "select", "set", "build", "ended"}
  /\ at \in Nat \ {0}
  /\ proc \in {"set", "build"} => at \in 1 .. Len(Listeners)
  /\ faults \in Nat
  /\ credentials \in [Clients -> Versions]
  /\ client \in [Clients -> Versions]
  /\ lock \in [Clients -> Actors \cup {Free}]
  /\ caller \in [Callers -> {"idle", "test", "build"}]
  /\ using \in [Actors -> Versions]

Init ==
  /\ secret \in Versions /\ written = secret
  /\ indexed = 0 /\ synced = FALSE /\ pending = <<>> /\ sending = 0
  /\ informer = TRUE
  /\ main = "run"
  /\ proc = "off" /\ creds = 0 /\ at = 1 /\ faults = 0
  /\ credentials = [c \in Clients |-> 0]
  /\ client = [c \in Clients |-> 0]
  /\ lock = [c \in Clients |-> Free]
  /\ caller = [g \in Callers |-> "idle"]
  /\ using = [a \in Actors |-> 0]

-----------------------------------------------------------------------------
(* The Secret (external).                                                   *)

SecretWritten ==
  /\ written < MaxVersion
  /\ written' = written + 1 /\ secret' = written + 1
  /\ UNCHANGED <<informerVars, main, procVars, cachedVars, caller, using>>

SecretRemoved ==
  /\ secret # 0
  /\ secret' = 0
  /\ UNCHANGED <<written, informerVars, main, procVars, cachedVars, caller, using>>

-----------------------------------------------------------------------------
(* The shared informer.  It may miss versions; there is no handler for a    *)
(* removal.                                                                 *)

Notify(v) == pending' = IF v = 0 THEN pending ELSE Append(pending, v)

\* The first list, then every change the watch or a new list shows.
InformerObserves ==
  /\ main # "exited" /\ informer
  /\ ~synced \/ indexed # secret
  /\ indexed' = secret /\ synced' = TRUE
  /\ Notify(secret)
  /\ UNCHANGED <<secretVars, sending, informer, main, procVars, cachedVars,
                 caller, using>>

\* Every ten minutes the handler is given what the indexer holds; ten minutes
\* are taken to be enough for it to have come to the end of what was pending.
InformerResyncs ==
  /\ main # "exited" /\ informer
  /\ synced /\ indexed # 0
  /\ pending = <<>> /\ sending = 0
  /\ Notify(indexed)
  /\ UNCHANGED <<secretVars, indexed, synced, sending, informer, main, procVars,
                 cachedVars, caller, using>>

\* AddFunc and UpdateFunc: the handler takes a notification and blocks until its
\* version is received.
Handler(take) ==
  /\ main # "exited" /\ informer
  /\ sending = 0 /\ pending # <<>>
  /\ take
  /\ UNCHANGED <<secretVars, indexed, synced, informer, main, procVars, cachedVars,
                 caller, using>>

\* Mutant: the handler leaves the send to a goroutine of its own, so sends may
\* overtake each other.
HandlerSpawns ==
  Handler(\E i \in 1 .. Len(pending) :
            /\ sending' = pending[i]
            /\ pending' = SubSeq(pending, 1, i - 1)
                            \o SubSeq(pending, i + 1, Len(pending)))

HandlerSends == Handler(sending' = Head(pending) /\ pending' = Tail(pending))

\* ctx is cancelled when main is in Shutdown.  The informer's Run waits for its
\* handler; what is pending is dropped.
InformerEnds ==
  /\ main = "shutdown" /\ informer
  /\ sending = 0
  /\ informer' = FALSE /\ pending' = <<>>
  /\ UNCHANGED <<secretVars, indexed, synced, sending, main, procVars, cachedVars,
                 caller, using>>

-----------------------------------------------------------------------------
(* clientService.Run, main and clientService.Shutdown.                      *)

\* Run has waited for the cache; it starts processCredentialUpdate, and main
\* starts the manager.
RunReturnsOnce(ready) ==
  /\ main = "run"
  /\ ready
  /\ main' = "manager" /\ proc' = "select"
  /\ UNCHANGED <<secretVars, informerVars, creds, at, faults, cachedVars,
                 caller, using>>

\* Mutant: Run waits until the handler has seen the first list.
RunWaitsForHandler == RunReturnsOnce(synced /\ pending = <<>> /\ sending = 0)

RunReturns == RunReturnsOnce(synced)

\* The manager stops; main cancels ctx and calls Shutdown.
ManagerStops ==
  /\ main = "manager"
  /\ main' = "shutdown"
  /\ UNCHANGED <<secretVars, informerVars, procVars, cachedVars, caller, using>>

\* Shutdown ends when both goroutines have ended, and not later than its
\* timeout.
ShutdownGraceful ==
  /\ main = "shutdown"
  /\ ~informer /\ proc = "ended"
  /\ main' = "exited"
  /\ UNCHANGED <<secretVars, informerVars, procVars, cachedVars, caller, using>>

\* Mutant: Shutdown waits for as long as the goroutines run.
ShutdownWaits == ShutdownGraceful

ShutdownTimesOut ==
  /\ main = "shutdown"
  /\ informer \/ proc # "ended"
  /\ main' = "exited"
  /\ UNCHANGED <<secretVars, informerVars, procVars, cachedVars, caller, using>>

-----------------------------------------------------------------------------
(* buildClient, called with the lock held.                                  *)

\* It is given the credentials ...
BuildBegins(a, c) == using' = [using EXCEPT ![a] = credentials[c]]

\* ... and ends with a client made from them, or with none.
BuildEnds(a, c, v) ==
  /\ v \in {0, using[a]}
  /\ client' = [client EXCEPT ![c] = v]
  /\ using' = [using EXCEPT ![a] = 0]

-----------------------------------------------------------------------------
(* processCredentialUpdate and SetCredentials.                              *)

FromK8sSecretAccepts(v) == v \notin Malformed

\* writeCA fails.
WriteCAFails == faults < MaxFaults /\ faults' = faults + 1

\* A version is received from the handler.  One that does not parse, or whose
\* CA cannot be written, is dropped; the others go to every listener.
Receive ==
  /\ main # "exited"
  /\ proc = "select" /\ sending # 0
  /\ sending' = 0
  /\ \/ /\ FromK8sSecretAccepts(sending) /\ Len(Listeners) > 0
        /\ proc' = "set" /\ creds' = sending /\ at' = 1
        /\ UNCHANGED faults
     \/ /\ ~FromK8sSecretAccepts(sending) \/ Len(Listeners) = 0
        /\ UNCHANGED procVars
     \/ /\ FromK8sSecretAccepts(sending) /\ WriteCAFails
        /\ UNCHANGED <<proc, creds, at>>
  /\ UNCHANGED <<secretVars, indexed, synced, pending, informer, main, cachedVars,
                 caller, using>>

ServiceEnds ==
  /\ main = "shutdown"
  /\ proc = "select"
  /\ proc' = "ended"
  /\ UNCHANGED <<secretVars, informerVars, main, creds, at, faults, cachedVars,
                 caller, using>>

SetCredentialsWith(locking) ==
  /\ main # "exited"
  /\ proc = "set"
  /\ locking
  /\ credentials' = [credentials EXCEPT ![Listeners[at]] = creds]
  /\ using' = [using EXCEPT ![Service] = creds]
  /\ proc' = "build"
  /\ UNCHANGED <<secretVars, informerVars, main, creds, at, faults, client, caller>>

\* Mutant: SetCredentials does not take the lock.
SetCredentialsUnlocked == SetCredentialsWith(UNCHANGED lock)

SetCredentials ==
  SetCredentialsWith(/\ lock[Listeners[at]] = Free
                     /\ lock' = [lock EXCEPT ![Listeners[at]] = Service])

\* buildClient ends with v; the next listener follows if there are more.
Built(v, more) ==
  /\ main # "exited"
  /\ proc = "build"
  /\ BuildEnds(Service, Listeners[at], v)
  /\ lock' = [lock EXCEPT ![Listeners[at]] = Free]
  /\ IF more THEN proc' = "set" /\ at' = at + 1 /\ creds' = creds
             ELSE proc' = "select" /\ at' = 1 /\ creds' = 0
  /\ UNCHANGED <<secretVars, informerVars, main, faults, credentials, caller>>

\* Mutants: the loop over the listeners is left when a client cannot be built; it
\* runs one listener too far.
ListenerBuiltOrStop  == \E v \in Versions : Built(v, at < Len(Listeners) /\ v # 0)
ListenerBuiltOneMore == \E v \in Versions : Built(v, at <= Len(Listeners))

\* The result of buildClient is ignored.
ListenerBuilt == \E v \in Versions : Built(v, at < Len(Listeners))

-----------------------------------------------------------------------------
(* Get.                                                                     *)

GetBegins(g) ==
  /\ main = "manager"
  /\ caller[g] = "idle"
  /\ LET c == ClientOf[g]
     IN lock[c] = Free /\ lock' = [lock EXCEPT ![c] = g]
  /\ caller' = [caller EXCEPT ![g] = "test"]
  /\ UNCHANGED <<secretVars, informerVars, main, procVars, credentials, client,
                 using>>

\* Get returns, with a client or an error.
Leave(g) ==
  /\ caller' = [caller EXCEPT ![g] = "idle"]
  /\ lock' = [lock EXCEPT ![ClientOf[g]] = Free]

\* A client that passes its test is the answer; without one, or if the test
\* fails, a client is built.
GetTestsWith(g, locking) ==
  /\ main # "exited"
  /\ caller[g] = "test"
  /\ \/ /\ client[ClientOf[g]] # 0
        /\ Leave(g)
        /\ UNCHANGED using
     \/ /\ caller' = [caller EXCEPT ![g] = "build"]
        /\ BuildBegins(g, ClientOf[g])
        /\ locking
  /\ UNCHANGED <<secretVars, informerVars, main, procVars, credentials, client>>

\* Mutant: the lock is released before a client is built.
GetTestsUnlocks(g) == GetTestsWith(g, lock' = [lock EXCEPT ![ClientOf[g]] = Free])

GetTests(g) == GetTestsWith(g, UNCHANGED lock)

\* The client just built is the answer; if it could not be built Get fails.
GetBuilds(g) ==
  /\ main # "exited"
  /\ caller[g] = "build"
  /\ \E v \in Versions : BuildEnds(g, ClientOf[g], v)
  /\ Leave(g)
  /\ UNCHANGED <<secretVars, informerVars, main, procVars, credentials>>

-----------------------------------------------------------------------------
Informer == InformerObserves \/ HandlerSends \/ InformerEnds
Processor == Receive \/ ServiceEnds \/ SetCredentials \/ ListenerBuilt
Get(g) == GetBegins(g) \/ GetTests(g) \/ GetBuilds(g)

Next ==
  \/ SecretWritten \/ SecretRemoved
  \/ Informer \/ InformerResyncs
  \/ RunReturns \/ ManagerStops \/ ShutdownGraceful \/ ShutdownTimesOut
  \/ Processor
  \/ \E g \in Callers : Get(g)

Spec == Init /\ [][Next]_vars

\* Goroutines run, a Get that holds the lock comes to its end (Test has the
\* client's default timeouts), a Go mutex is handed to a waiter that has
\* starved, and the resync timer fires.  Nothing makes the manager stop or
\* anyone call Get.
Fairness ==
  /\ WF_vars(InformerObserves) /\ WF_vars(InformerResyncs)
  /\ WF_vars(HandlerSends) /\ WF_vars(InformerEnds)
  /\ WF_vars(RunReturns) /\ WF_vars(ShutdownGraceful) /\ WF_vars(ShutdownTimesOut)
  /\ WF_vars(Receive) /\ WF_vars(ServiceEnds) /\ WF_vars(ListenerBuilt)
  /\ SF_vars(SetCredentials)
  /\ \A g \in Callers : WF_vars(GetTests(g) \/ GetBuilds(g))

FairSpec == Spec /\ Fairness

-----------------------------------------------------------------------------
(* Properties.                                                              *)

\* A cached client whose lock is free was built from the credentials it was
\* last given: no Get that was building with the old ones puts its result over
\* the new ones (SetCredentials, Get, buildClient).
ClientIsCurrent ==
  \A c \in Clients : lock[c] = Free => client[c] \in {0, credentials[c]}

\* Credentials never go back to an earlier version of the Secret: notifications
\* are neither reordered on their way through the channel nor by the loop over
\* the listeners (AddFunc, UpdateFunc, processCredentialUpdate).
CredentialsAdvance ==
  [][\A c \in Clients : credentials'[c] >= credentials[c]]_vars

\* Only the goroutine that holds a client's lock is inside its critical section
\* (updateLock).
MutualExclusion ==
  \A c \in Clients :
    /\ proc = "build" /\ Listeners[at] = c => lock[c] = Service
    /\ \A g \in Callers : caller[g] # "idle" /\ ClientOf[g] = c => lock[c] = g

\* What a build in progress was given is what the cached client still holds.
BuildIsCurrent ==
  /\ proc = "build" => using[Service] = credentials[Listeners[at]]
  /\ \A g \in Callers : caller[g] = "build" => using[g] = credentials[ClientOf[g]]

\* The inductive strengthening of ClientIsCurrent; only SetCredentials replaces
\* a client's credentials, and it leaves a client of theirs or none.
ClientInv ==
  /\ ClientIsCurrent
  /\ MutualExclusion
  /\ BuildIsCurrent
  /\ \A g \in Callers : caller[g] # "idle" =>
       client[ClientOf[g]] \in {0, credentials[ClientOf[g]]}

\* A well-formed Secret that is no longer changed reaches every listener, unless
\* the manager stops: neither a failed build of one client, nor a malformed
\* version or a failed writeCA before it, keeps it from the others
\* (processCredentialUpdate, the informer's resync).
CredentialsArrive ==
  \A v \in (1 .. MaxVersion) \ Malformed :
    <>[](secret = v /\ main = "manager") =>
      <>[](\A i \in 1 .. Len(Listeners) : credentials[Listeners[i]] = v)

\* Run returns although its handler is already blocked on the channel nobody
\* receives from yet (Run, HasSynced).
StartsUp == main = "run" ~> main # "run"

\* Shutdown returns although the handler may be blocked for ever in a send to a
\* goroutine that has ended (Shutdown).
ShutdownEnds == main = "shutdown" ~> main = "exited"

=============================================================================
