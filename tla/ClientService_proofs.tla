------------------------ MODULE ClientService_proofs ------------------------
(***************************************************************************)
(* Proofs about ClientService, for any number of cached clients, callers   *)
(* and versions of the Secret.                                             *)
(***************************************************************************)
EXTENDS ClientService, TLAPS

\* The listener that processCredentialUpdate is at is a cached client.
LEMMA ListenerIsClient ==
  ASSUME TypeOK, proc \in {"set", "build"}
  PROVE  Listeners[at] \in Clients
BY ServiceAssumption DEF TypeOK

\* The queue of notifications stays a sequence of versions.
LEMMA PendingTyped ==
  /\ <<>> \in Seq(Versions)
  /\ \A q \in Seq(Versions), v \in Versions : Append(q, v) \in Seq(Versions)
OBVIOUS

\* Every step keeps the types of the informer's and main's variables and of the
\* Secret, for whatever the cached clients do.
LEMMA TypeWatch ==
  ASSUME TypeOK,
         \/ SecretWritten \/ SecretRemoved \/ InformerObserves \/ InformerResyncs
         \/ HandlerSends \/ InformerEnds \/ RunReturns \/ ManagerStops
         \/ ShutdownGraceful \/ ShutdownTimesOut \/ ServiceEnds
  PROVE  TypeOK'
<1> USE ServiceAssumption DEF TypeOK, Versions, secretVars, informerVars, procVars,
      cachedVars, Notify
<1>1. CASE SecretWritten BY <1>1 DEF SecretWritten
<1>2. CASE SecretRemoved BY <1>2 DEF SecretRemoved
<1>3. CASE InformerObserves
  <2>1. pending' \in Seq(Versions)
    <3> HIDE DEF Versions
    <3> QED BY <1>3, PendingTyped DEF InformerObserves
  <2> QED BY <1>3, <2>1 DEF InformerObserves
<1>4. CASE InformerResyncs BY <1>4 DEF InformerResyncs
<1>5. CASE HandlerSends BY <1>5 DEF HandlerSends, Handler
<1>6. CASE InformerEnds BY <1>6, PendingTyped DEF InformerEnds
<1>7. CASE RunReturns BY <1>7 DEF RunReturns, RunReturnsOnce
<1>8. CASE ManagerStops BY <1>8 DEF ManagerStops
<1>9. CASE ShutdownGraceful BY <1>9 DEF ShutdownGraceful
<1>10. CASE ShutdownTimesOut BY <1>10 DEF ShutdownTimesOut
<1>11. CASE ServiceEnds BY <1>11 DEF ServiceEnds
<1> QED BY <1>1, <1>2, <1>3, <1>4, <1>5, <1>6, <1>7, <1>8, <1>9, <1>10, <1>11

\* So do the steps that hand out credentials.
LEMMA TypeProcessor ==
  ASSUME TypeOK, Receive \/ SetCredentials \/ ListenerBuilt
  PROVE  TypeOK'
<1> USE ServiceAssumption DEF TypeOK, Versions, secretVars, informerVars, procVars,
      cachedVars, Actors
<1>1. CASE Receive BY <1>1 DEF Receive, WriteCAFails, WriteCAFails
<1>2. CASE SetCredentials BY <1>2, ListenerIsClient DEF SetCredentials, SetCredentialsWith
<1>3. CASE ListenerBuilt
  <2>1. PICK v \in Versions : BuildEnds(Service, Listeners[at], v)
    BY <1>3 DEF ListenerBuilt, Built
  <2>2. Listeners[at] \in Clients
    BY <1>3, ListenerIsClient DEF ListenerBuilt, Built
  <2>3. client' \in [Clients -> Versions] /\ using' \in [Actors -> Versions]
    BY <2>1, <2>2 DEF BuildEnds
  <2>4. lock' \in [Clients -> Actors \cup {Free}]
    BY <1>3, <2>2 DEF ListenerBuilt, Built
  <2>5. /\ at' \in Nat \ {0} /\ creds' \in Versions
        /\ proc' \in {"off", "select", "set", "build", "ended"}
        /\ proc' \in {"set", "build"} => at' \in 1 .. Len(Listeners)
    <3> DEFINE n == Len(Listeners)
    <3>1. n \in Nat /\ at \in 1 .. n /\ creds \in Versions /\ 0 \in Versions
      BY <1>3 DEF ListenerBuilt, Built
    <3>2. CASE at < n
      <4>1. proc' = "set" /\ at' = at + 1 /\ creds' = creds
        BY <1>3, <3>2 DEF ListenerBuilt, Built
      <4>2. at + 1 \in 1 .. n /\ at + 1 \in Nat \ {0}
        BY <3>1, <3>2
      <4> QED BY <3>1, <4>1, <4>2
    <3>3. CASE ~(at < n)
      BY <1>3, <3>1, <3>3 DEF ListenerBuilt, Built
    <3> QED BY <3>2, <3>3
  <2> QED BY <1>3, <2>3, <2>4, <2>5 DEF ListenerBuilt, Built
<1> QED BY <1>1, <1>2, <1>3

\* And so do the steps of Get.
LEMMA TypeGet ==
  ASSUME TypeOK, NEW g \in Callers, Get(g)
  PROVE  TypeOK'
<1> USE ServiceAssumption DEF TypeOK, Versions, secretVars, informerVars, procVars,
      cachedVars, Actors
<1>1. CASE GetBegins(g) BY <1>1 DEF GetBegins
<1>2. CASE GetTests(g) BY <1>2 DEF GetTests, GetTestsWith, Leave, BuildBegins
<1>3. CASE GetBuilds(g) BY <1>3 DEF GetBuilds, Leave, BuildEnds
<1> QED BY <1>1, <1>2, <1>3 DEF Get

\* The cached clients, the goroutines and the credentials they hold are always
\* of their types; in particular the loop of processCredentialUpdate never runs
\* past the last listener.
THEOREM ServiceTypeCorrect == Spec => []TypeOK
<1>1. ASSUME Init PROVE TypeOK
  <2>1. pending \in Seq(Versions)
    BY <1>1, PendingTyped DEF Init
  <2>2. 0 \in Versions
    BY ServiceAssumption DEF Versions
  <2>3. /\ credentials \in [Clients -> Versions] /\ client \in [Clients -> Versions]
        /\ using \in [Actors -> Versions]
    BY <1>1, <2>2 DEF Init
  <2>4. lock \in [Clients -> Actors \cup {Free}]
    BY <1>1 DEF Init
  <2>5. caller \in [Callers -> {"idle", "test", "build"}]
    BY <1>1 DEF Init
  <2>6. /\ secret \in Versions /\ written \in Versions /\ indexed \in Versions
        /\ sending \in Versions /\ creds \in Versions
        /\ at \in Nat \ {0} /\ faults \in Nat
    BY <1>1, <2>2 DEF Init
  <2>7. /\ synced \in BOOLEAN /\ informer \in BOOLEAN
        /\ main \in {"run", "manager", "shutdown", "exited"}
        /\ proc \in {"off", "select", "set", "build", "ended"}
        /\ proc \notin {"set", "build"}
    BY <1>1 DEF Init
  <2> QED BY <2>1, <2>3, <2>4, <2>5, <2>6, <2>7 DEF TypeOK
<1>2. TypeOK /\ [Next]_vars => TypeOK'
  <2> SUFFICES ASSUME TypeOK, [Next]_vars PROVE TypeOK'
    OBVIOUS
  <2>1. CASE UNCHANGED vars
    BY <2>1 DEF TypeOK, vars, secretVars, informerVars, procVars, cachedVars
  <2>2. CASE Next
    BY <2>2, TypeWatch, TypeProcessor, TypeGet DEF Next, Informer, Processor
  <2> QED BY <2>1, <2>2
<1> QED BY <1>1, <1>2, PTL DEF Spec

-----------------------------------------------------------------------------
\* A step that leaves the cached clients and everyone inside a critical section
\* alone keeps ClientInv.
LEMMA ClientFrame ==
  ASSUME ClientInv, UNCHANGED <<cachedVars, caller, using, at>>,
         proc' # proc => proc' # "build"
  PROVE  ClientInv'
BY DEF ClientInv, ClientIsCurrent, MutualExclusion, BuildIsCurrent, cachedVars

\* SetCredentials enters the critical section of a client whose lock is free.
LEMMA ClientSet ==
  ASSUME TypeOK, ClientInv, SetCredentials
  PROVE  ClientInv'
<1> DEFINE c == Listeners[at]
<1>1. c \in Clients /\ lock[c] = Free
  BY ListenerIsClient DEF SetCredentials, SetCredentialsWith
<1>2. /\ lock' = [lock EXCEPT ![c] = Service]
      /\ credentials' = [credentials EXCEPT ![c] = creds]
      /\ using' = [using EXCEPT ![Service] = creds]
      /\ proc' = "build" /\ at' = at /\ client' = client /\ caller' = caller
  BY DEF SetCredentials, SetCredentialsWith
<1>3. Service \notin Callers /\ Free \notin Callers /\ ClientOf \in [Callers -> Clients]
  BY ServiceAssumption
<1>4. /\ lock \in [Clients -> Actors \cup {Free}] /\ using \in [Actors -> Versions]
      /\ credentials \in [Clients -> Versions]
  BY DEF TypeOK
<1> HIDE DEF c
<1>5. \A g \in Callers : caller[g] # "idle" => ClientOf[g] # c
  BY <1>1, <1>3 DEF ClientInv, MutualExclusion
<1>6. ClientIsCurrent'
  BY <1>1, <1>2, <1>4 DEF ClientInv, ClientIsCurrent, Service, Free
<1>7. MutualExclusion'
  BY <1>1, <1>2, <1>3, <1>4, <1>5 DEF ClientInv, MutualExclusion, c
<1>8. BuildIsCurrent'
  BY <1>1, <1>2, <1>3, <1>4, <1>5 DEF ClientInv, BuildIsCurrent, Actors, c
<1> QED
  BY <1>2, <1>3, <1>4, <1>5, <1>6, <1>7, <1>8 DEF ClientInv

\* The end of SetCredentials leaves a client of the credentials it set, or none.
LEMMA ClientBuilt ==
  ASSUME TypeOK, ClientInv, ListenerBuilt
  PROVE  ClientInv'
<1> DEFINE c == Listeners[at]
<1>1. c \in Clients /\ lock[c] = Service /\ using[Service] = credentials[c]
  BY ListenerIsClient DEF ListenerBuilt, Built, ClientInv, MutualExclusion, BuildIsCurrent
<1>2. PICK v \in Versions : BuildEnds(Service, c, v)
  BY DEF ListenerBuilt, Built
<1>3. /\ lock' = [lock EXCEPT ![c] = Free]
      /\ client' = [client EXCEPT ![c] = v]
      /\ using' = [using EXCEPT ![Service] = 0]
      /\ v \in {0, credentials[c]}
      /\ proc' # "build" /\ credentials' = credentials /\ caller' = caller
  BY <1>1, <1>2 DEF ListenerBuilt, Built, BuildEnds
<1>4. Service \notin Callers /\ Free \notin Callers /\ ClientOf \in [Callers -> Clients]
  BY ServiceAssumption
<1>5. /\ lock \in [Clients -> Actors \cup {Free}] /\ using \in [Actors -> Versions]
      /\ client \in [Clients -> Versions]
  BY DEF TypeOK
<1> HIDE DEF c
<1>6. \A g \in Callers : caller[g] # "idle" => ClientOf[g] # c
  BY <1>1, <1>4 DEF ClientInv, MutualExclusion
<1>7. ClientIsCurrent'
  BY <1>1, <1>3, <1>5 DEF ClientInv, ClientIsCurrent
<1>8. MutualExclusion'
  BY <1>3, <1>4, <1>5, <1>6 DEF ClientInv, MutualExclusion
<1>9. BuildIsCurrent'
  BY <1>3, <1>4, <1>5 DEF ClientInv, BuildIsCurrent, Actors
<1> QED
  BY <1>3, <1>4, <1>5, <1>6, <1>7, <1>8, <1>9 DEF ClientInv

\* Get works on its client only between taking and releasing the lock.
LEMMA ClientGet ==
  ASSUME TypeOK, ClientInv, NEW g \in Callers, Get(g)
  PROVE  ClientInv'
<1> DEFINE c == ClientOf[g]
<1>1. /\ Service \notin Callers /\ Free \notin Callers /\ c \in Clients
      /\ ClientOf \in [Callers -> Clients]
  BY ServiceAssumption
<1>2. /\ lock \in [Clients -> Actors \cup {Free}] /\ using \in [Actors -> Versions]
      /\ client \in [Clients -> Versions]
      /\ caller \in [Callers -> {"idle", "test", "build"}]
  BY DEF TypeOK
<1>3. /\ UNCHANGED <<proc, at, credentials>>
  BY DEF Get, GetBegins, GetTests, GetTestsWith, GetBuilds, procVars
<1>4. CASE GetBegins(g)
  <2>1. /\ lock[c] = Free /\ lock' = [lock EXCEPT ![c] = g]
        /\ caller' = [caller EXCEPT ![g] = "test"]
        /\ client' = client /\ using' = using
    BY <1>4 DEF GetBegins
  <2>2. client[c] \in {0, credentials[c]}
    BY <1>1, <2>1 DEF ClientInv, ClientIsCurrent
  <2>3. \A h \in Callers \ {g} : caller[h] # "idle" => ClientOf[h] # c
    BY <1>1, <2>1 DEF ClientInv, MutualExclusion
  <2>4. proc = "build" => Listeners[at] # c
    BY <1>1, <2>1 DEF ClientInv, MutualExclusion, Service, Free
  <2>5. ClientIsCurrent' 
    BY <1>1, <1>2, <1>3, <2>1 DEF ClientInv, ClientIsCurrent
  <2>6. MutualExclusion'
    BY <1>1, <1>2, <1>3, <2>1, <2>3, <2>4 DEF ClientInv, MutualExclusion
  <2>7. BuildIsCurrent'
    BY <1>2, <1>3, <2>1 DEF ClientInv, BuildIsCurrent
  <2> QED
    BY <1>1, <1>2, <1>3, <2>1, <2>2, <2>5, <2>6, <2>7 DEF ClientInv
<1>5. ASSUME caller[g] \in {"test", "build"}
      PROVE  /\ lock[c] = g /\ client[c] \in {0, credentials[c]}
             /\ \A h \in Callers \ {g} : caller[h] # "idle" => ClientOf[h] # c
             /\ proc = "build" => Listeners[at] # c
  BY <1>1, <1>5 DEF ClientInv, MutualExclusion
<1>6. ASSUME NEW v \in {0, credentials[c]}, Leave(g),
             client' = [client EXCEPT ![c] = v],
             using' = [using EXCEPT ![g] = 0] \/ using' = using,
             caller[g] \in {"test", "build"}
      PROVE  ClientInv'
  <2>1. /\ lock' = [lock EXCEPT ![c] = Free]
        /\ caller' = [caller EXCEPT ![g] = "idle"]
    BY <1>6 DEF Leave
  <2>2. ClientIsCurrent'
    BY <1>1, <1>2, <1>3, <1>6, <2>1 DEF ClientInv, ClientIsCurrent
  <2>3. MutualExclusion'
    BY <1>1, <1>2, <1>3, <1>5, <1>6, <2>1 DEF ClientInv, MutualExclusion
  <2>4. BuildIsCurrent'
    BY <1>1, <1>2, <1>3, <1>6, <2>1 DEF ClientInv, BuildIsCurrent, Actors
  <2> QED
    BY <1>1, <1>2, <1>3, <1>5, <1>6, <2>1, <2>2, <2>3, <2>4 DEF ClientInv
<1>7. CASE GetTests(g)
  <2>1. CASE Leave(g) /\ UNCHANGED using
    <3>1. client' = [client EXCEPT ![c] = client[c]]
      BY <1>1, <1>2, <1>7 DEF GetTests, GetTestsWith
    <3> QED BY <1>5, <1>6, <1>7, <2>1, <3>1 DEF GetTests, GetTestsWith
  <2>2. CASE /\ caller' = [caller EXCEPT ![g] = "build"]
             /\ BuildBegins(g, c) /\ UNCHANGED lock
    <3>1. client' = client /\ using' = [using EXCEPT ![g] = credentials[c]]
      BY <1>7, <2>2 DEF GetTests, GetTestsWith, BuildBegins
    <3>2. ClientIsCurrent' /\ MutualExclusion'
      BY <1>1, <1>2, <1>3, <1>5, <1>7, <2>2, <3>1
      DEF ClientInv, ClientIsCurrent, MutualExclusion, GetTests, GetTestsWith
    <3>3. BuildIsCurrent'
      BY <1>1, <1>2, <1>3, <2>2, <3>1 DEF ClientInv, BuildIsCurrent, Actors
    <3> QED
      BY <1>1, <1>2, <1>3, <1>5, <1>7, <2>2, <3>1, <3>2, <3>3 DEF ClientInv, GetTests, GetTestsWith
  <2> QED BY <1>7, <2>1, <2>2 DEF GetTests, GetTestsWith
<1>8. CASE GetBuilds(g)
  <2>1. (\E v \in Versions : BuildEnds(g, c, v)) /\ Leave(g)
    BY <1>8 DEF GetBuilds
  <2>2. PICK v \in Versions : BuildEnds(g, c, v)
    BY <2>1
  <2>3. /\ caller[g] = "build" /\ v \in {0, credentials[c]}
        /\ client' = [client EXCEPT ![c] = v] /\ using' = [using EXCEPT ![g] = 0]
    BY <1>8, <2>2 DEF GetBuilds, BuildEnds, ClientInv, BuildIsCurrent
  <2> QED BY <1>6, <2>1, <2>3
<1> QED BY <1>4, <1>7, <1>8 DEF Get

\* Whatever Get and SetCredentials overlap, each is alone inside the lock, and a
\* build under way was given the credentials that the client still holds.
THEOREM ClientInvariant == Spec => []ClientInv
<1>1. Init => ClientInv
  BY ServiceAssumption
  DEF Init, ClientInv, ClientIsCurrent, MutualExclusion, BuildIsCurrent
<1>2. TypeOK /\ ClientInv /\ [Next]_vars => ClientInv'
  <2> SUFFICES ASSUME TypeOK, ClientInv, [Next]_vars PROVE ClientInv'
    OBVIOUS
  <2>1. CASE UNCHANGED vars
    BY <2>1, ClientFrame DEF vars, procVars
  <2>2. CASE \/ SecretWritten \/ SecretRemoved \/ InformerObserves \/ InformerResyncs
             \/ HandlerSends \/ InformerEnds \/ RunReturns \/ ManagerStops
             \/ ShutdownGraceful \/ ShutdownTimesOut \/ ServiceEnds
    BY <2>2, ClientFrame
    DEF SecretWritten, SecretRemoved, InformerObserves, InformerResyncs, HandlerSends, Handler,
        InformerEnds, RunReturns, RunReturnsOnce, ManagerStops, ShutdownGraceful, ShutdownTimesOut,
        ServiceEnds, procVars
  <2>3. CASE Receive
    <3>1. /\ UNCHANGED <<cachedVars, caller, using>> /\ proc = "select"
          /\ proc' # "build"
      BY <2>3 DEF Receive, WriteCAFails, procVars
    <3> QED
      BY <3>1 DEF ClientInv, ClientIsCurrent, MutualExclusion, BuildIsCurrent, cachedVars
  <2>4. CASE Next
    BY <2>2, <2>3, <2>4, ClientSet, ClientBuilt, ClientGet DEF Next, Informer, Processor
  <2> QED BY <2>1, <2>4
<1> QED BY <1>1, <1>2, ServiceTypeCorrect, PTL DEF Spec

\* A cached client whose lock is free was built from the credentials it was last
\* given (SetCredentials, Get).
THEOREM ClientCurrent == Spec => []ClientIsCurrent
<1>1. ClientInv => ClientIsCurrent
  BY DEF ClientInv
<1> QED BY <1>1, ClientInvariant, PTL
-----------------------------------------------------------------------------
\* v is not older than any credentials on their way out of the service.
NotOlder(v) ==
  /\ \A c \in Clients : credentials[c] <= v
  /\ creds <= v

\* Why credentials never go back: the Secret has its last version or is gone, and
\* along the way from the indexer over the queue, the channel and the loop to the
\* clients every version is at least as new as those ahead of it.
OrderInv ==
  /\ secret \in {0, written} /\ indexed <= written
  /\ NotOlder(written) /\ sending <= written
  /\ \A i \in 1 .. Len(pending) : pending[i] <= written
  /\ indexed # 0 =>
       /\ NotOlder(indexed) /\ sending <= indexed
       /\ \A i \in 1 .. Len(pending) : pending[i] <= indexed
  /\ sending # 0 => NotOlder(sending)
  /\ \A i \in 1 .. Len(pending) : NotOlder(pending[i]) /\ sending <= pending[i]
  /\ \A i, j \in 1 .. Len(pending) : i <= j => pending[i] <= pending[j]
  /\ proc \in {"set", "build"} => \A c \in Clients : credentials[c] <= creds

\* A version at least as new as all of them may be put at the end of the queue.
LEMMA OrderAppend ==
  ASSUME TypeOK, OrderInv, NEW v \in Versions,
         NotOlder(v), sending <= v,
         \A i \in 1 .. Len(pending) : pending[i] <= v,
         Notify(v)
  PROVE  /\ \A i \in 1 .. Len(pending') :
              pending'[i] = v \/ \E k \in 1 .. Len(pending) : pending'[i] = pending[k]
         /\ \A i \in 1 .. Len(pending') : NotOlder(pending'[i]) /\ sending <= pending'[i]
         /\ \A i, j \in 1 .. Len(pending') : i <= j => pending'[i] <= pending'[j]
<1>1. CASE v = 0
  <2>1. pending' = pending
    BY <1>1 DEF Notify
  <2> QED BY <2>1 DEF OrderInv
<1>2. CASE v # 0
  <2>1. pending' = Append(pending, v) /\ pending \in Seq(Versions)
    BY <1>2 DEF Notify, TypeOK
  <2>2. /\ Len(pending') = Len(pending) + 1 /\ Len(pending) \in Nat
        /\ \A i \in 1 .. Len(pending) : pending'[i] = pending[i]
        /\ pending'[Len(pending) + 1] = v
    BY <2>1
  <2>3. \A i \in 1 .. Len(pending') : i \in 1 .. Len(pending) \/ i = Len(pending) + 1
    BY <2>2
  <2>4. /\ \A i \in 1 .. Len(pending) : NotOlder(pending[i]) /\ sending <= pending[i]
        /\ \A i, j \in 1 .. Len(pending) : i <= j => pending[i] <= pending[j]
    BY DEF OrderInv
  <2>5. \A i \in 1 .. Len(pending') : NotOlder(pending'[i]) /\ sending <= pending'[i]
    BY <2>2, <2>3, <2>4
  <2>6. \A i, j \in 1 .. Len(pending') : i <= j => pending'[i] <= pending'[j]
    <3> SUFFICES ASSUME NEW i \in 1 .. Len(pending'), NEW j \in 1 .. Len(pending'), i <= j
                 PROVE  pending'[i] <= pending'[j]
      OBVIOUS
    <3>1. CASE j \in 1 .. Len(pending)
      BY <2>2, <2>4, <3>1
    <3>2. CASE j = Len(pending) + 1
      BY <2>2, <2>3, <3>2 DEF Versions
    <3> QED BY <2>3, <3>1, <3>2
  <2>7. \A i \in 1 .. Len(pending') :
          pending'[i] = v \/ \E k \in 1 .. Len(pending) : pending'[i] = pending[k]
    BY <2>2, <2>3
  <2> QED BY <2>5, <2>6, <2>7
<1> QED BY <1>1, <1>2
\* Versions are numbers.
LEMMA OrderTyped ==
  ASSUME TypeOK
  PROVE  /\ \A c \in Clients : credentials[c] \in Nat
         /\ creds \in Nat /\ sending \in Nat /\ indexed \in Nat
         /\ secret \in Nat /\ written \in Nat /\ Len(pending) \in Nat
         /\ \A i \in 1 .. Len(pending) : pending[i] \in Nat
<1>1. /\ \A c \in Clients : credentials[c] \in Versions
      /\ {creds, sending, indexed, secret, written} \subseteq Versions
  BY DEF TypeOK
<1>2. pending \in Seq(Versions)
  BY DEF TypeOK
<1>3. Len(pending) \in Nat /\ \A i \in 1 .. Len(pending) : pending[i] \in Versions
  BY <1>2
<1>4. Versions \subseteq Nat
  BY ServiceAssumption DEF Versions
<1> QED BY <1>1, <1>3, <1>4

\* What is not older than the credentials handed out is not older than what the
\* clients hold next, if that is one of them or what they held.
LEMMA NotOlderKept ==
  ASSUME TypeOK, NEW v \in Nat, NotOlder(v),
         \A c \in Clients : credentials'[c] \in {credentials[c], creds},
         creds' \in {creds, 0} \/ (creds' = sending /\ sending <= v)
  PROVE  (\A c \in Clients : credentials'[c] <= v) /\ creds' <= v
BY OrderTyped DEF NotOlder

\* The Secret and the informer keep the order.
LEMMA OrderInformer ==
  ASSUME TypeOK, OrderInv,
         SecretWritten \/ SecretRemoved \/ InformerObserves \/ InformerResyncs \/ HandlerSends
  PROVE  OrderInv'
<1> USE DEF TypeOK, Versions
<1>1. CASE SecretWritten \/ SecretRemoved
  <2>1. /\ written' \in {written, written + 1} /\ secret' \in {0, written'}
        /\ UNCHANGED <<indexed, pending, sending, proc, creds, credentials>>
    BY <1>1 DEF SecretWritten, SecretRemoved, informerVars, procVars, cachedVars
  <2>2. /\ indexed <= written' /\ NotOlder(written') /\ sending <= written'
        /\ \A i \in 1 .. Len(pending) : pending[i] <= written'
    BY <2>1, OrderTyped DEF OrderInv, NotOlder
  <2> QED
    BY <2>1, <2>2 DEF OrderInv, NotOlder
<1>2. CASE InformerObserves
  <2>1. /\ indexed' = secret /\ Notify(secret)
        /\ UNCHANGED <<secret, written, sending, proc, creds, credentials>>
    BY <1>2 DEF InformerObserves, secretVars, procVars, cachedVars
  <2>2. CASE secret = 0
    BY <2>1, <2>2 DEF Notify, OrderInv, NotOlder
  <2>3. CASE secret # 0
    <3>1. /\ secret = written /\ NotOlder(secret) /\ sending <= secret
          /\ \A i \in 1 .. Len(pending) : pending[i] <= secret
      BY <2>3 DEF OrderInv
    <3>2. /\ \A i \in 1 .. Len(pending') : NotOlder(pending'[i]) /\ sending <= pending'[i]
          /\ \A i, j \in 1 .. Len(pending') : i <= j => pending'[i] <= pending'[j]
          /\ \A i \in 1 .. Len(pending') :
               pending'[i] = secret \/ \E k \in 1 .. Len(pending) : pending'[i] = pending[k]
      BY <2>1, <3>1, OrderAppend
    <3>3. \A i \in 1 .. Len(pending') : pending'[i] <= secret
      BY <3>1, <3>2, OrderTyped
    <3> QED
      BY <2>1, <3>1, <3>2, <3>3 DEF OrderInv, NotOlder
  <2> QED BY <2>2, <2>3
<1>3. CASE InformerResyncs
  <2>1. /\ indexed # 0 /\ Notify(indexed)
        /\ UNCHANGED <<secret, written, indexed, sending, proc, creds, credentials>>
    BY <1>3 DEF InformerResyncs, secretVars, procVars, cachedVars
  <2>2. /\ indexed <= written /\ NotOlder(indexed) /\ sending <= indexed
        /\ \A i \in 1 .. Len(pending) : pending[i] <= indexed
    BY <2>1 DEF OrderInv
  <2>3. /\ \A i \in 1 .. Len(pending') : NotOlder(pending'[i]) /\ sending <= pending'[i]
        /\ \A i, j \in 1 .. Len(pending') : i <= j => pending'[i] <= pending'[j]
        /\ \A i \in 1 .. Len(pending') :
             pending'[i] = indexed \/ \E k \in 1 .. Len(pending) : pending'[i] = pending[k]
    BY <2>1, <2>2, OrderAppend
  <2>4. \A i \in 1 .. Len(pending') : pending'[i] <= indexed /\ pending'[i] <= written
    BY <2>2, <2>3 DEF OrderInv
  <2> QED
    BY <2>1, <2>2, <2>3, <2>4 DEF OrderInv, NotOlder
<1>4. CASE HandlerSends
  <2>1. /\ pending # <<>> /\ sending' = Head(pending) /\ pending' = Tail(pending)
        /\ UNCHANGED <<secret, written, indexed, proc, creds, credentials>>
    BY <1>4 DEF HandlerSends, Handler, secretVars, procVars, cachedVars
  <2>2. /\ Len(pending) \in Nat \ {0} /\ sending' = pending[1]
        /\ Len(pending') = Len(pending) - 1
        /\ \A i \in 1 .. Len(pending') : pending'[i] = pending[i + 1]
        /\ \A i \in 1 .. Len(pending') : i + 1 \in 1 .. Len(pending)
    BY <2>1
  <2>3. 1 \in 1 .. Len(pending)
    BY <2>2
  <2>4. sending' <= written /\ NotOlder(sending') /\ (indexed # 0 => sending' <= indexed)
    BY <2>2, <2>3 DEF OrderInv
  <2>5. ASSUME NEW i \in 1 .. Len(pending')
        PROVE  /\ pending'[i] <= written /\ (indexed # 0 => pending'[i] <= indexed)
               /\ NotOlder(pending'[i]) /\ sending' <= pending'[i]
    <3>1. pending'[i] = pending[i + 1] /\ i + 1 \in 1 .. Len(pending)
      BY <2>2
    <3>2. 1 <= i + 1
      OBVIOUS
    <3>3. pending[1] <= pending[i + 1]
      BY <2>3, <3>1, <3>2 DEF OrderInv
    <3> QED BY <2>2, <3>1, <3>3 DEF OrderInv
  <2>6. ASSUME NEW i \in 1 .. Len(pending'), NEW j \in 1 .. Len(pending'), i <= j
        PROVE  pending'[i] <= pending'[j]
    <3>1. /\ pending'[i] = pending[i + 1] /\ i + 1 \in 1 .. Len(pending)
          /\ pending'[j] = pending[j + 1] /\ j + 1 \in 1 .. Len(pending)
      BY <2>2
    <3>2. i + 1 <= j + 1
      BY <2>6
    <3> QED BY <3>1, <3>2 DEF OrderInv
  <2> QED
    BY <2>1, <2>4, <2>5, <2>6 DEF OrderInv, NotOlder
<1> QED BY <1>1, <1>2, <1>3, <1>4

\* So do the channel and the loop over the listeners.
LEMMA OrderProcessor ==
  ASSUME TypeOK, OrderInv, Receive \/ SetCredentials \/ ListenerBuilt
  PROVE  OrderInv'
<1>1. ASSUME UNCHANGED <<secret, written, indexed, pending>>,
             sending' \in {sending, 0},
             \A c \in Clients : credentials'[c] \in {credentials[c], creds},
             creds' \in {creds, 0} \/ creds' = sending,
             creds' # creds /\ creds' # 0 => sending' = 0,
             proc' \in {"set", "build"} => \A c \in Clients : credentials'[c] <= creds'
      PROVE  OrderInv'
  <2>1. NotOlder(written)' /\ sending' <= written
    BY <1>1, OrderTyped, NotOlderKept DEF OrderInv, NotOlder
  <2>2. indexed # 0 => NotOlder(indexed)' /\ sending' <= indexed
    BY <1>1, OrderTyped, NotOlderKept DEF OrderInv, NotOlder
  <2>3. sending' # 0 => NotOlder(sending)'
    BY <1>1, OrderTyped, NotOlderKept DEF OrderInv, NotOlder
  <2>4. ASSUME NEW i \in 1 .. Len(pending)
        PROVE  NotOlder(pending[i])' /\ sending' <= pending[i]
    <3>1. pending[i] \in Nat /\ NotOlder(pending[i]) /\ sending <= pending[i]
      BY OrderTyped DEF OrderInv
    <3>2. (\A c \in Clients : credentials'[c] <= pending[i]) /\ creds' <= pending[i]
      BY <1>1, <3>1, NotOlderKept
    <3> QED BY <1>1, <3>1, <3>2 DEF NotOlder
  <2> QED
    BY <1>1, <2>1, <2>2, <2>3, <2>4 DEF OrderInv
<1>2. CASE Receive
  <2>1. /\ sending # 0 /\ sending' = 0 /\ creds' \in {creds, sending}
        /\ proc = "select" /\ proc' \in {"select", "set"}
        /\ proc' = "set" => creds' = sending
        /\ UNCHANGED <<secret, written, indexed, pending, credentials>>
    BY <1>2 DEF Receive, WriteCAFails, secretVars, procVars, cachedVars
  <2>2. \A c \in Clients : credentials[c] <= sending
    BY <2>1 DEF OrderInv, NotOlder
  <2> QED BY <1>1, <2>1, <2>2
<1>3. CASE SetCredentials
  <2>1. /\ proc = "set" /\ \A c \in Clients : credentials'[c] \in {credentials[c], creds}
        /\ UNCHANGED <<secret, written, indexed, pending, sending, creds>>
    BY <1>3 DEF SetCredentials, SetCredentialsWith, secretVars, informerVars, TypeOK
  <2>2. \A c \in Clients : credentials'[c] <= creds'
    BY <2>1, OrderTyped DEF OrderInv
  <2> QED BY <1>1, <2>1, <2>2
<1>4. CASE ListenerBuilt
  <2>1. /\ proc = "build" /\ creds' \in {creds, 0}
        /\ proc' \in {"set", "select"} /\ (proc' = "set" => creds' = creds)
        /\ UNCHANGED <<secret, written, indexed, pending, sending, credentials>>
    BY <1>4 DEF ListenerBuilt, Built, secretVars, informerVars
  <2>2. \A c \in Clients : credentials[c] <= creds
    BY <2>1 DEF OrderInv
  <2> QED BY <1>1, <2>1, <2>2
<1> QED BY <1>2, <1>3, <1>4

\* Along every behaviour the versions stay in order.
LEMMA OrderInvariant == Spec => []OrderInv
<1>1. Init => OrderInv
  BY ServiceAssumption DEF Init, OrderInv, NotOlder, Versions
<1>2. TypeOK /\ OrderInv /\ [Next]_vars => OrderInv'
  <2> SUFFICES ASSUME TypeOK, OrderInv, [Next]_vars PROVE OrderInv'
    OBVIOUS
  <2>1. ASSUME UNCHANGED <<secret, written, indexed, pending, sending, creds, credentials>>,
               proc' = proc \/ proc' \in {"select", "ended"}
        PROVE  OrderInv'
    BY <2>1 DEF OrderInv, NotOlder
  <2>2. CASE UNCHANGED vars
    BY <2>1, <2>2 DEF vars, secretVars, informerVars, procVars, cachedVars
  <2>3. CASE InformerEnds
    BY <2>3 DEF InformerEnds, secretVars, procVars, cachedVars, OrderInv, NotOlder
  <2>4. CASE \/ RunReturns \/ ManagerStops \/ ShutdownGraceful \/ ShutdownTimesOut \/ ServiceEnds
    BY <2>1, <2>4
    DEF RunReturns, RunReturnsOnce, ManagerStops, ShutdownGraceful, ShutdownTimesOut,
        ServiceEnds, secretVars, informerVars, procVars, cachedVars
  <2>5. ASSUME NEW g \in Callers, Get(g)
        PROVE  OrderInv'
    BY <2>1, <2>5
    DEF Get, GetBegins, GetTests, GetTestsWith, GetBuilds, secretVars, informerVars, procVars
  <2> QED
    BY <2>2, <2>3, <2>4, <2>5, OrderInformer, OrderProcessor DEF Next, Informer, Processor
<1> QED BY <1>1, <1>2, ServiceTypeCorrect, PTL DEF Spec

\* Credentials never go back to an earlier version of the Secret, whatever the
\* informer skips, repeats or resyncs and whatever builds fail
\* (processCredentialUpdate, SetCredentials).
THEOREM CredentialsInOrder == Spec => CredentialsAdvance
<1>1. TypeOK /\ OrderInv /\ [Next]_vars
        => [\A c \in Clients : credentials'[c] >= credentials[c]]_vars
  <2> SUFFICES ASSUME TypeOK, OrderInv, Next, NEW c \in Clients
               PROVE  credentials'[c] >= credentials[c]
    OBVIOUS
  <2>1. credentials[c] \in Nat /\ creds \in Nat
    BY DEF TypeOK, Versions
  <2>2. CASE SetCredentials
    <3>1. proc = "set" /\ credentials'[c] \in {credentials[c], creds}
      BY <2>2 DEF SetCredentials, SetCredentialsWith, TypeOK
    <3> QED BY <2>1, <3>1 DEF OrderInv
  <2>3. CASE ~SetCredentials
    <3>1. credentials' = credentials
      BY <2>3
      DEF Next, Informer, Processor, Get, SecretWritten, SecretRemoved, InformerObserves,
          InformerResyncs, HandlerSends, Handler, InformerEnds, RunReturns, RunReturnsOnce,
          ManagerStops, ShutdownGraceful, ShutdownTimesOut, Receive, ServiceEnds, ListenerBuilt,
          Built, GetBegins, GetTests, GetTestsWith, GetBuilds, cachedVars
    <3> QED BY <2>1, <3>1
  <2> QED BY <2>2, <2>3
<1> QED BY <1>1, ServiceTypeCorrect, OrderInvariant, PTL DEF Spec, CredentialsAdvance
=============================================================================
