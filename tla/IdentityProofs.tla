--------------------------- MODULE IdentityProofs ---------------------------
(* Identity, for any devices and users, pages of any length and any number  *)
(* of replicas.                                                             *)
EXTENDS Identity, TLAPS

(* The persons that an id can have: its own and that of any user.           *)
Own(d) == {d} \cup Users

(* An event of the page of r is of the id, or links it.                     *)
Busy(r, d) == \E i \in 1..Slots : d \in {task[r][i].did, task[r][i].anon}

(* Where an event can be in resolve() and handleIdentify().                 *)
Sound(t, written) ==
  /\ t.did = None => t = Idle
  /\ t.pc = "idle" => t.did = None
  /\ t.anon # None => t.did \in Users /\ t.pc # "done"
  /\ t.user # None => t.user \in Own(t.did)
  /\ t.pc \in {"resolve", "lookup", "honor", "get"} => t.user = None /\ t.from = None
  /\ t.pc = "honor" => t.read \in Own(t.did)
  /\ t.pc \in {"anon", "anonRow", "override", "link"} => t.anon # None
  /\ t.pc \in {"anon", "anonRow", "override", "link", "done"} => t.user # None
  /\ t.pc \in {"anon", "anonRow"} => t.from = None
  /\ t.pc \in {"anonRow", "link"} /\ t.from = None => t.read = None
  /\ t.pc = "override" => t.from \in Own(t.anon)
  /\ t.pc = "link" /\ t.from # None => t.from \in Own(t.anon) /\ written[t.anon] # None

KeysOK ==
  /\ redis \in [Dids -> Maybe(Persons)] /\ young \in SUBSET Dids
  /\ \A d \in Dids : redis[d] \in Maybe(Own(d))
  /\ override \in [Dids -> Maybe(Users)] /\ \A u \in Users : override[u] = None
  /\ link \in [Anons -> Maybe(Users)]
  /\ lapses \in SUBSET (Dids \X Causes)
  /\ pages \in 0..MaxPages /\ faults \in 0..MaxFaults

PagesOK ==
  /\ task \in [Replicas -> [1..Slots -> Task]]
  /\ \A r \in Replicas, i \in 1..Slots : Sound(task[r][i], override)
  /\ cache \in [Replicas -> [Dids -> Maybe(Persons)]]
  /\ \A r \in Replicas, d \in Dids : cache[r][d] \in Maybe(Own(d))

(* The person of a device is merged when the override of the device is written. *)
Merge == {m \in Persons \X Users : m[1] \in Users \/ override[m[1]] # None}
Pair == {e \in Dids \X Persons : e[2] \in Own(e[1])}

StoresOK ==
  /\ pdi \in [Dids -> Maybe(Persons)] /\ \A d \in Dids : pdi[d] \in Maybe(Own(d))
  /\ pending \in [Replicas -> [Dids -> Maybe(Persons)]]
  /\ \A r \in Replicas, d \in Dids : pending[r][d] \in Maybe(Own(d))
  /\ merges \in [Replicas -> SUBSET Merge] /\ unmerged \in SUBSET Merge
  /\ buffer \in [Replicas -> SUBSET Pair] /\ events \in SUBSET Pair

(* A key that is set while an event of its id is being resolved outlives it:*)
(* what has found it does so again.                                         *)
Lasting ==
  /\ \A r \in Replicas, d \in Dids : Busy(r, d) /\ cache[r][d] = None => redis[d] = None \/ d \in young
  /\ \A r \in Replicas, i \in 1..Slots :
       /\ task[r][i].pc \in {"lookup", "get"} => redis[task[r][i].did] # None /\ task[r][i].did \in young
       /\ task[r][i].pc \in {"anonRow", "link"} /\ task[r][i].from = None =>
            redis[task[r][i].anon] = None \/ task[r][i].anon \in young

(* Somewhere, but for the keys of Redis, the id has this person.            *)
Says(d, p) ==
  \/ pdi[d] = p \/ <<d, p>> \in events
  \/ \E r \in Replicas :
       \/ pending[r][d] = p \/ <<d, p>> \in buffer[r]
       \/ Busy(r, d) /\ cache[r][d] = p
       \/ \E i \in 1..Slots : /\ task[r][i].did = d
                              /\ task[r][i].user = p \/ (task[r][i].pc = "honor" /\ task[r][i].read = p)

(* Ids whose events can only agree by all having the same person.           *)
Plain == {d \in Dids : Spared(d, {"raced", "forgotten", "repointed"}) /\ override[d] = None}

(* A user is nobody else.                                                   *)
Single(u) == redis[u] \in {None, u} /\ \A p \in Persons : Says(u, p) => p = u

Agrees(a) ==
  /\ \A p, q \in Persons : Says(a, p) /\ Says(a, q) => p = q
  /\ redis[a] \in Users => \A p \in Persons : Says(a, p) => p = redis[a]
  /\ redis[a] = a => \A p \in Persons : Says(a, p) => p = a \/ pdi[a] = p
  /\ link[a] # None => /\ \A p \in Persons : Says(a, p) => p = link[a]
                       /\ redis[a] = link[a] \/ pdi[a] = link[a]

Agree ==
  /\ \A u \in Plain \cap Users : Single(u)
  /\ \A a \in Plain \cap Anons :
       /\ Agrees(a)
       /\ \A r \in Replicas, i \in 1..Slots :
            /\ task[r][i].pc = "lookup" /\ task[r][i].did = a /\ pdi[a] = None => redis[a] = a
            /\ task[r][i].pc = "link" /\ task[r][i].from = None /\ task[r][i].anon = a /\ redis[a] = None =>
                 pdi[a] \in {None, task[r][i].user}

(* An id that anything has a person for is in Redis or in PostgreSQL.       *)
Known(a) ==
  \/ \E p \in Persons : Says(a, p)
  \/ override[a] # None
  \/ \E r \in Replicas, i \in 1..Slots :
       task[r][i].anon = a /\ task[r][i].pc \in {"override", "link"} /\ task[r][i].from # None
Stored(a) == redis[a] # None \/ pdi[a] # None
Kept == \A a \in Anons : Spared(a, {"forgotten"}) /\ Known(a) => Stored(a)

(* The $identify events that have read the person of the device.            *)
Links(t, a) == t.anon = a /\ t.pc \in {"anonRow", "override", "link"}
Linking(a) == \E r \in Replicas, i \in 1..Slots : task[r][i].anon = a /\ HalfLinked(task[r][i])

(* The override of a device names the user it was linked to last, and its   *)
(* key does so too, or is about to.                                         *)
Holds(a) ==
  /\ override[a] # None => link[a] = override[a] /\ (redis[a] \in {None, a, override[a]} \/ Linking(a))
  /\ \A r \in Replicas, i \in 1..Slots : task[r][i].anon = a /\ task[r][i].pc = "link" =>
       /\ task[r][i].from # None => override[a] = task[r][i].user
       /\ task[r][i].from = None /\ redis[a] = None => override[a] \in {None, task[r][i].user}
  /\ \A r, q \in Replicas, i, j \in 1..Slots :
       Links(task[r][i], a) /\ Links(task[q][j], a) => task[r][i].user = task[q][j].user
Held == \A a \in Anons : Spared(a, Causes) => Holds(a)

(* The inductive invariant.                                                 *)
IInv == KeysOK /\ PagesOK /\ StoresOK /\ Lasting /\ Agree /\ Kept /\ Held
-----------------------------------------------------------------------------
LEMMA OwnFacts ==
  /\ \A a \in Anons : a \in Dids /\ a # None /\ a \notin Users /\ Own(a) = {a} \cup Users
  /\ \A u \in Users : u \in Dids /\ u # None /\ u \notin Anons /\ Own(u) = Users
  /\ \A d \in Dids : Own(d) \subseteq Persons /\ d \in Own(d) /\ None \notin Own(d) /\ d # None /\ Users \subseteq Own(d)
  /\ Persons = Dids /\ None \notin Persons /\ Users \subseteq Persons
<1>1. /\ \A a \in Anons : a \in Dids /\ a # None /\ a \notin Users
      /\ \A u \in Users : u \in Dids /\ u # None /\ u \notin Anons
  BY IdsAssumption DEF Dids
<1>2. \A d \in Dids : Own(d) \subseteq Persons /\ d \in Own(d) /\ None \notin Own(d) /\ d # None /\ Users \subseteq Own(d)
  BY <1>1 DEF Own, Dids, Persons
<1>3. Persons = Dids /\ None \notin Persons /\ Users \subseteq Persons
  BY <1>1 DEF Dids, Persons
<1>4. (\A a \in Anons : Own(a) = {a} \cup Users) /\ \A u \in Users : Own(u) = Users
  BY DEF Own
<1> QED
  BY <1>1, <1>2, <1>3, <1>4

LEMMA TaskFacts ==
  ASSUME PagesOK, NEW r \in Replicas, NEW i \in 1..Slots
  PROVE  /\ task[r][i] \in Task /\ Sound(task[r][i], override)
         /\ task[r][i].did \in Maybe(Dids) /\ task[r][i].anon \in Maybe(Anons)
         /\ task[r][i].user \in Maybe(Persons) /\ task[r][i].read \in Maybe(Persons)
         /\ task[r][i].from \in Maybe(Persons)
         /\ task[r][i].pc # "idle" => task[r][i].did \in Dids
<1>1. task[r][i] \in Task /\ Sound(task[r][i], override)
  BY DEF PagesOK
<1>2. task[r][i].did = None => task[r][i].pc = "idle"
  BY <1>1 DEF Sound, Idle
<1> QED
  BY <1>1, <1>2 DEF Task, Maybe

LEMMA Types == KeysOK /\ PagesOK /\ StoresOK => TypeOK
<1> SUFFICES ASSUME KeysOK, PagesOK, StoresOK PROVE TypeOK
  OBVIOUS
<1>1. Merge \subseteq Persons \X Users /\ Pair \subseteq Dids \X Persons
  BY DEF Pair, Merge
<1> QED
  BY <1>1 DEF TypeOK, KeysOK, PagesOK, StoresOK

LEMMA IdleFacts ==
  /\ Idle \in Task /\ Sound(Idle, override) /\ Sound(Idle, override')
  /\ Idle.did = None /\ Idle.anon = None /\ Idle.pc = "idle" /\ Idle.user = None /\ Idle.from = None
  /\ Nowhere \in [Dids -> Maybe(Persons)] /\ \A d \in Dids : Nowhere[d] = None
  BY DEF Idle, Task, Sound, Maybe, Nowhere

(* Nobody at work and nothing stored: nothing is said.                      *)
LEMMA Silence ==
  ASSUME Init, NEW d \in Dids, NEW p \in Persons
  PROVE  ~Says(d, p)
<1>1. p # None
  BY OwnFacts
<1>2. /\ pdi[d] = None /\ events = {}
      /\ \A r \in Replicas : pending[r][d] = None /\ cache[r][d] = None /\ buffer[r] = {}
  BY IdleFacts DEF Init
<1>3. \A r \in Replicas, i \in 1..Slots : task[r][i] = Idle
  BY DEF Init
<1>4. \A r \in Replicas, i \in 1..Slots : task[r][i].user = None /\ task[r][i].pc # "honor"
  BY <1>3, IdleFacts
<1> QED
  BY <1>1, <1>2, <1>4 DEF Says

LEMMA Start == Init => IInv
<1> SUFFICES ASSUME Init PROVE IInv
  OBVIOUS
<1>1. \A r \in Replicas, i \in 1..Slots : task[r][i] = Idle
  BY DEF Init
<1>2. task \in [Replicas -> [1..Slots -> Task]]
  BY IdleFacts DEF Init
<1>3. PagesOK
  BY <1>1, <1>2, IdleFacts DEF Init, PagesOK, Maybe
<1>4. KeysOK
  <2>1. Nowhere \in [Dids -> Maybe(Users)] /\ (\A u \in Users : Nowhere[u] = None)
    BY DEF Nowhere, Maybe, Dids
  <2>2. link \in [Anons -> Maybe(Users)]
    BY DEF Init, Maybe
  <2>3. pages \in 0..MaxPages /\ faults \in 0..MaxFaults
    BY IdsAssumption DEF Init
  <2> QED
    BY IdleFacts, <2>1, <2>2, <2>3 DEF Init, KeysOK, Maybe
<1>5. StoresOK
  <2>1. merges \in [Replicas -> SUBSET Merge] /\ buffer \in [Replicas -> SUBSET Pair]
    BY DEF Init
  <2>2. pending \in [Replicas -> [Dids -> Maybe(Persons)]] /\ \A r \in Replicas, d \in Dids : pending[r][d] = None
    BY IdleFacts DEF Init
  <2> QED
    BY IdleFacts, <2>1, <2>2 DEF Init, StoresOK, Maybe
<1>6. /\ \A d \in Dids : redis[d] = None /\ override[d] = None /\ pdi[d] = None
      /\ \A a \in Anons : link[a] = None
      /\ \A r \in Replicas, i \in 1..Slots : task[r][i].pc = "idle"
  BY <1>1, IdleFacts DEF Init
<1>7. Lasting
  BY <1>1, <1>6, IdleFacts DEF Init, Lasting, Busy
<1>8. Agree
  <2>1. \A d \in Dids : \A p \in Persons : ~Says(d, p)
    BY Silence
  <2>2. \A u \in Users : Single(u)
    BY <1>6, <2>1, OwnFacts DEF Single
  <2>3. \A a \in Anons : Agrees(a)
    BY <1>6, <2>1, OwnFacts DEF Agrees
  <2> QED
    BY <1>6, <2>2, <2>3 DEF Agree
<1>9. Kept
  <2>1. \A d \in Dids : \A p \in Persons : ~Says(d, p)
    BY Silence
  <2> QED
    BY <1>6, <2>1, OwnFacts DEF Kept, Known
<1>10. Held
  BY <1>6, OwnFacts DEF Held, Holds, Links
<1> QED
  BY <1>3, <1>4, <1>5, <1>7, <1>8, <1>9, <1>10 DEF IInv

(* The invariant is enough.                                                 *)
LEMMA Enough == IInv => TypeOK /\ ReadsAgree /\ LinkSticks
<1> SUFFICES ASSUME IInv PROVE TypeOK /\ ReadsAgree /\ LinkSticks
  OBVIOUS
<1>1. TypeOK
  BY Types DEF IInv
<1>2. \A e \in events : e \in Dids \X Persons /\ e = <<e[1], e[2]>> /\ e[1] \in Dids /\ e[2] \in Persons
  BY DEF IInv, StoresOK, Pair
<1>3. \A e \in events : Says(e[1], e[2])
  BY <1>2 DEF Says
<1>4. ASSUME NEW d \in Dids, Spared(d, {"raced", "forgotten", "repointed"}),
             NEW e \in events, NEW f \in events, e[1] = d, f[1] = d
      PROVE  Read(d, e[2]) = Read(d, f[2])
  <2>1. CASE override[d] # None
    BY <2>1 DEF Read
  <2>2. CASE override[d] = None
    <3>1. d \in Plain /\ (d \in Users \/ d \in Anons)
      BY <1>4, <2>2 DEF Plain, Dids
    <3>2. (d \in Users => Single(d)) /\ (d \in Anons => Agrees(d))
      BY <3>1 DEF IInv, Agree
    <3> QED
      BY <1>2, <1>3, <1>4, <3>1, <3>2 DEF Single, Agrees
  <2> QED
    BY <2>1, <2>2
<1>5. ASSUME NEW a \in Anons, Spared(a, Causes), link[a] # None, NEW e \in events, e[1] = a
      PROVE  Read(a, e[2]) = link[a]
  <2>1. CASE override[a] # None
    BY <1>5, <2>1 DEF Read, IInv, Held, Holds
  <2>2. CASE override[a] = None
    <3>1. a \in Plain
      BY <1>5, <2>2, OwnFacts DEF Plain, Spared, Causes
    <3>2. Agrees(a)
      BY <3>1 DEF IInv, Agree
    <3> QED
      BY <1>2, <1>3, <1>5, <2>2, <3>2 DEF Agrees, Read
  <2> QED
    BY <2>1, <2>2
<1> QED
  BY <1>1, <1>4, <1>5 DEF ReadsAgree, LinkSticks
-----------------------------------------------------------------------------
(* What a step can do to an id.                                             *)
Onward == \A d \in Dids : override[d] # None => override'[d] # None
Grows  == lapses \subseteq lapses'

(* $identify sets the key of a device that nothing knows but as the user's. *)
Joined(a, u) ==
  /\ a \in Anons /\ u \in Users
  /\ redis[a] = None /\ redis'[a] = u /\ pdi[a] \in {None, u}

(* The key of an id: set, left alone, expired, or aged with nobody at work. *)
KeyMoves(d) ==
  \/ redis'[d] # None /\ d \in young'
  \/ redis'[d] = redis[d] /\ (d \in young => d \in young')
  \/ redis'[d] = None /\ d \notin young
  \/ redis'[d] = redis[d] /\ \A r \in Replicas : ~Busy(r, d)'

(* What a task has found out is old, or true as of now.                     *)
TaskMoves ==
  /\ \A r \in Replicas, d \in Dids : Busy(r, d)' /\ cache'[r][d] = None =>
       (Busy(r, d) /\ cache[r][d] = None) \/ redis'[d] = None
  /\ \A r \in Replicas, i \in 1..Slots :
       /\ task'[r][i].pc \in {"lookup", "get"} =>
            \/ task[r][i].pc \in {"lookup", "get"} /\ task[r][i].did = task'[r][i].did
            \/ redis'[task'[r][i].did] # None /\ task'[r][i].did \in young'
       /\ task'[r][i].pc \in {"anonRow", "link"} /\ task'[r][i].from = None =>
            \/ task[r][i].pc \in {"anonRow", "link"} /\ task[r][i].from = None /\ task[r][i].anon = task'[r][i].anon
            \/ redis'[task'[r][i].anon] = None

LEMMA LastingMoves ==
  ASSUME Lasting, PagesOK, PagesOK', TaskMoves, \A d \in Dids : KeyMoves(d)
  PROVE  Lasting'
<1>1. ASSUME NEW r \in Replicas, NEW d \in Dids, Busy(r, d)', cache'[r][d] = None
      PROVE  redis'[d] = None \/ d \in young'
  <2>1. CASE redis'[d] = None
    BY <2>1
  <2>2. CASE Busy(r, d) /\ cache[r][d] = None
    BY <1>1, <2>2 DEF Lasting, KeyMoves
  <2> QED
    BY <1>1, <2>1, <2>2 DEF TaskMoves
<1>2. ASSUME NEW r \in Replicas, NEW i \in 1..Slots, NEW d, d = task'[r][i].did, task'[r][i].pc \in {"lookup", "get"}
      PROVE  redis'[d] # None /\ d \in young'
  <2>1. d \in Dids
    <3>1. task'[r][i] \in Task /\ Sound(task'[r][i], override')
      BY DEF PagesOK
    <3>2. task'[r][i].did # None
      BY <1>2, <3>1 DEF Sound, Idle
    <3> QED
      BY <1>2, <3>1, <3>2 DEF Task, Maybe
  <2>2. Busy(r, d)'
    BY <1>2 DEF Busy
  <2>3. CASE task[r][i].pc \in {"lookup", "get"} /\ task[r][i].did = d
    BY <2>1, <2>2, <2>3 DEF Lasting, KeyMoves
  <2> QED
    BY <1>2, <2>3 DEF TaskMoves
<1>3. ASSUME NEW r \in Replicas, NEW i \in 1..Slots, NEW a, a = task'[r][i].anon,
             task'[r][i].pc \in {"anonRow", "link"}, task'[r][i].from = None
      PROVE  redis'[a] = None \/ a \in young'
  <2>1. a \in Anons /\ a \in Dids
    <3>1. task'[r][i] \in Task /\ Sound(task'[r][i], override')
      BY DEF PagesOK
    <3> QED
      BY <1>3, <3>1 DEF Sound, Task, Maybe, Dids
  <2>2. Busy(r, a)'
    BY <1>3 DEF Busy
  <2>3. CASE task[r][i].pc \in {"anonRow", "link"} /\ task[r][i].from = None /\ task[r][i].anon = a
    BY <2>1, <2>2, <2>3 DEF Lasting, KeyMoves
  <2> QED
    BY <1>3, <2>3 DEF TaskMoves
<1> QED
  BY <1>1, <1>2, <1>3 DEF Lasting

(* Who says what of an id that is plain: what was said, or what its key     *)
(* says with nothing that contradicts it, or the user it joins.             *)
Moves(d) ==
  /\ \A p \in Persons : Says(d, p)' => Says(d, p) \/ (redis[d] = p /\ ~Provisional(d)) \/ Joined(d, p)
  /\ \/ redis'[d] = redis[d]
     \/ redis[d] = None /\ redis'[d] = d
     \/ redis'[d] \in Persons /\ Says(d, redis'[d])
     \/ \E u \in Users : Joined(d, u)
     \/ redis'[d] = None /\ d \notin young /\ (d \in Anons => pdi[d] # None)
  /\ pdi'[d] = pdi[d] \/ (pdi[d] = None /\ pdi'[d] \in Persons /\ Says(d, pdi'[d]))
  /\ d \in Anons => \/ link'[d] = link[d]
                    \/ redis'[d] = redis[d] /\ redis[d] = link'[d] /\ link'[d] \in Users
                    \/ Joined(d, link'[d])
  /\ \A r \in Replicas, i \in 1..Slots :
       /\ task'[r][i].pc = "lookup" /\ task'[r][i].did = d =>
            (task[r][i].pc = "lookup" /\ task[r][i].did = d) \/ redis'[d] = d
       /\ task'[r][i].pc = "link" /\ task'[r][i].from = None /\ task'[r][i].anon = d =>
            \/ /\ task[r][i].pc = "link" /\ task[r][i].from = None /\ task[r][i].anon = d
               /\ task[r][i].user = task'[r][i].user
            \/ pdi'[d] \in {None, task'[r][i].user}

LEMMA SingleMoves ==
  ASSUME NEW u \in Users, Single(u), Moves(u)
  PROVE  Single(u)'
<1>1. u \notin Anons
  BY OwnFacts
<1>2. ~\E p \in Persons : Joined(u, p)
  BY <1>1 DEF Joined
<1>3. Users \subseteq Persons
  BY OwnFacts
<1>4. \A p \in Persons : Says(u, p)' => p = u
  BY <1>2, OwnFacts DEF Moves, Single
<1>5. redis'[u] \in {None, u}
  BY <1>2, <1>3 DEF Moves, Single
<1> QED
  BY <1>4, <1>5 DEF Single

LEMMA AgreesMoves ==
  ASSUME KeysOK, StoresOK, NEW a \in Anons, Agrees(a), Moves(a),
         \A p \in Persons : Says(a, p) => Stored(a)
  PROVE  Agrees(a)'
<1>1. /\ a \in Dids /\ a # None /\ a \in Persons /\ a \notin Users
      /\ None \notin Users /\ None \notin Persons /\ Users \subseteq Persons
  BY OwnFacts
<1>2. pdi[a] = None \/ (pdi[a] \in Persons /\ Says(a, pdi[a]))
  BY <1>1 DEF StoresOK, Maybe, Says
<1>3. redis[a] = None \/ redis[a] = a \/ redis[a] \in Users
  BY <1>1, OwnFacts DEF KeysOK, Maybe
<1>4. redis[a] = None => \A p \in Persons : Says(a, p) => p = pdi[a]
  BY <1>2 DEF Agrees, Stored
(* What is said next: what was, or the key, or the user joined; and it is one person. *)
<1>5. ASSUME NEW p \in Persons, NEW q \in Persons, Says(a, p), ~Says(a, q), redis[a] = q, ~Provisional(a) PROVE p = q
  BY <1>1, <1>2, <1>3, <1>5 DEF Agrees, Provisional
<1>6. ASSUME NEW p \in Persons, NEW q, Says(a, p), Joined(a, q) PROVE p = q
  BY <1>1, <1>2, <1>4, <1>6 DEF Joined
<1>7. ASSUME NEW p \in Persons, NEW q \in Persons, Says(a, p)', Says(a, q)' PROVE p = q
  <2>1. Says(a, p) \/ (redis[a] = p /\ ~Provisional(a)) \/ Joined(a, p)
    BY <1>7 DEF Moves
  <2>2. Says(a, q) \/ (redis[a] = q /\ ~Provisional(a)) \/ Joined(a, q)
    BY <1>7 DEF Moves
  <2>3. Says(a, p) /\ Says(a, q) => p = q
    BY DEF Agrees
  <2>4. ~Says(a, p) /\ ~Says(a, q) => p = q
    BY <1>1, <2>1, <2>2 DEF Joined
  <2> QED
    BY <1>5, <1>6, <2>1, <2>2, <2>3, <2>4
<1>8. ASSUME NEW p \in Persons, Says(a, p)', redis'[a] \in Users PROVE p = redis'[a]
  <2>1. Says(a, p) \/ (redis[a] = p /\ ~Provisional(a)) \/ Joined(a, p)
    BY <1>8 DEF Moves
  <2>2. CASE redis'[a] = redis[a]
    BY <1>1, <1>8, <2>1, <2>2 DEF Agrees, Joined
  <2>3. CASE redis'[a] \in Persons /\ Says(a, redis'[a])
    BY <1>5, <1>6, <2>1, <2>3 DEF Agrees
  <2>4. CASE \E u \in Users : Joined(a, u)
    BY <1>1, <1>6, <2>1, <2>4 DEF Joined
  <2> QED
    BY <1>1, <1>8, <2>2, <2>3, <2>4 DEF Moves
<1>9. ASSUME NEW p \in Persons, Says(a, p)', redis'[a] = a PROVE p = a \/ pdi'[a] = p
  <2>1. Says(a, p) \/ (redis[a] = p /\ ~Provisional(a)) \/ Joined(a, p)
    BY <1>9 DEF Moves
  <2>2. CASE redis'[a] = redis[a]
    BY <1>1, <1>9, <2>1, <2>2 DEF Agrees, Joined, Moves
  <2>3. CASE redis'[a] \in Persons /\ Says(a, redis'[a])
    BY <1>5, <1>6, <1>9, <2>1, <2>3 DEF Agrees
  <2>4. CASE redis[a] = None
    BY <1>1, <1>2, <1>4, <1>9, <2>1, <2>4 DEF Moves, Joined
  <2> QED
    BY <1>1, <1>9, <2>2, <2>3, <2>4 DEF Moves, Joined
<1>10. ASSUME link'[a] # None
       PROVE  /\ \A p \in Persons : Says(a, p)' => p = link'[a]
              /\ redis'[a] = link'[a] \/ pdi'[a] = link'[a]
  <2>1. CASE link'[a] = link[a]
    <3>1. redis[a] = link[a] \/ pdi[a] = link[a]
      BY <1>10, <2>1 DEF Agrees
    <3>2. \A p \in Persons : Says(a, p) => p = link[a]
      BY <1>10, <2>1 DEF Agrees
    <3>3. \A p \in Persons : redis[a] = p /\ ~Provisional(a) => p = link[a]
      BY <1>1, <1>2, <1>3, <1>10, <2>1, <3>1, <3>2 DEF Agrees, Provisional
    <3>4. \A p : Joined(a, p) => p = link[a]
      BY <1>1, <1>10, <2>1, <3>1 DEF Joined
    <3>5. \A p \in Persons : Says(a, p)' => p = link'[a]
      BY <2>1, <3>2, <3>3, <3>4 DEF Moves
    <3>6. pdi[a] = link[a] => pdi'[a] = link[a]
      BY <1>10, <2>1 DEF Moves
    <3>7. pdi[a] # None => pdi[a] = link[a]
      BY <1>2, <3>2
    <3>8. pdi[a] # link[a] => redis'[a] = link[a]
      <4>1. SUFFICES ASSUME pdi[a] # link[a] PROVE redis'[a] = link[a]
        OBVIOUS
      <4>2. redis[a] = link[a] /\ redis[a] # None /\ pdi[a] = None
        BY <1>10, <2>1, <3>1, <3>7, <4>1
      <4> QED
        BY <3>2, <4>2 DEF Moves, Joined
    <3> QED
      BY <2>1, <3>5, <3>6, <3>8
  <2>2. CASE redis'[a] = redis[a] /\ redis[a] = link'[a] /\ link'[a] \in Users
    BY <1>8, <2>2
  <2>3. CASE Joined(a, link'[a])
    <3>1. redis'[a] = link'[a] /\ link'[a] \in Users
      BY <2>3 DEF Joined
    <3> QED
      BY <1>8, <3>1
  <2> QED
    BY <2>1, <2>2, <2>3 DEF Moves
<1> QED
  BY <1>7, <1>8, <1>9, <1>10 DEF Agrees

LEMMA AgreeMoves ==
  ASSUME KeysOK, StoresOK, PagesOK, Lasting, Agree, Kept,
         Plain' \subseteq Plain, \A d \in Plain' : Moves(d)
  PROVE  Agree'
<1>1. ASSUME NEW u \in Plain' \cap Users PROVE Single(u)'
  <2>1. u \in Users /\ Single(u) /\ Moves(u)
    BY DEF Agree
  <2> QED
    BY <2>1, SingleMoves
<1>2. ASSUME NEW a \in Plain' \cap Anons
      PROVE  /\ a \in Plain /\ a \in Anons /\ Moves(a) /\ Agrees(a) /\ a \in Dids /\ a # None
             /\ Spared(a, {"forgotten"})
             /\ \A p \in Persons : Says(a, p) => Stored(a)
  <2>1. a \in Plain /\ a \in Anons /\ Moves(a) /\ Agrees(a) /\ a \in Dids /\ a # None
    BY OwnFacts DEF Agree
  <2>2. Spared(a, {"forgotten"})
    BY <2>1 DEF Plain, Spared
  <2> QED
    BY <2>1, <2>2 DEF Kept, Known
<1>3. ASSUME NEW a \in Plain' \cap Anons PROVE Agrees(a)'
  <2>1. a \in Anons /\ Moves(a) /\ Agrees(a) /\ \A p \in Persons : Says(a, p) => Stored(a)
    BY <1>2
  <2> QED
    BY <2>1, AgreesMoves
<1>4. ASSUME NEW a \in Plain' \cap Anons, NEW r \in Replicas, NEW i \in 1..Slots,
             task'[r][i].pc = "lookup", task'[r][i].did = a, pdi'[a] = None
      PROVE  redis'[a] = a
  <2>1. Moves(a) /\ Agrees(a) /\ a \in Anons /\ a \in Plain /\ a \in Dids /\ a # None
    BY <1>2
  <2>2. SUFFICES ASSUME task[r][i].pc = "lookup", task[r][i].did = a PROVE redis'[a] = a
    BY <1>4, <2>1 DEF Moves
  <2>3. pdi[a] = None
    BY <1>4, <2>1, OwnFacts DEF Moves
  <2>4. redis[a] = a
    BY <2>1, <2>2, <2>3 DEF Agree
  <2>5. \A p \in Persons : Says(a, p) => p = a
    BY <2>1, <2>3, <2>4, OwnFacts DEF Agrees
  <2> QED
    BY <2>1, <2>3, <2>4, <2>5 DEF Moves, Joined
<1>5. ASSUME NEW a \in Plain' \cap Anons, NEW r \in Replicas, NEW i \in 1..Slots,
             task'[r][i].pc = "link", task'[r][i].from = None, task'[r][i].anon = a, redis'[a] = None
      PROVE  pdi'[a] \in {None, task'[r][i].user}
  <2>1. Moves(a) /\ Agrees(a) /\ a \in Anons /\ a \in Plain /\ a \in Dids /\ a # None
    BY <1>2
  <2>2. SUFFICES ASSUME task[r][i].pc = "link", task[r][i].from = None, task[r][i].anon = a,
                        task[r][i].user = task'[r][i].user
                 PROVE  pdi'[a] \in {None, task'[r][i].user}
    BY <1>5, <2>1 DEF Moves
  <2>3. redis[a] = None
    <3>1. redis[a] = None \/ a \in young
      BY <2>2 DEF Lasting
    <3> QED
      BY <1>5, <2>1, <3>1, OwnFacts DEF Moves, Joined
  <2>4. pdi[a] \in {None, task[r][i].user}
    BY <2>1, <2>2, <2>3 DEF Agree
  <2>5. pdi[a] = None => \A p \in Persons : ~Says(a, p)
    BY <1>2, <2>3 DEF Stored
  <2> QED
    BY <2>1, <2>2, <2>4, <2>5 DEF Moves
<1> QED
  BY <1>1, <1>3, <1>4, <1>5 DEF Agree

(* What is known of a device stays stored, or is stored by now.             *)
Keeps(a) == (Known(a)' => Known(a) \/ Stored(a)') /\ (Stored(a) => Stored(a)')

(* A device whose override, link and $identify events stay as they are.     *)
Calm(a) ==
  /\ override'[a] = override[a] /\ link'[a] = link[a]
  /\ override[a] # None => redis'[a] \in {redis[a], None, a, override[a]}
  /\ \A r \in Replicas, i \in 1..Slots :
       Links(task'[r][i], a) => /\ Links(task[r][i], a) /\ task'[r][i].user = task[r][i].user
                                /\ task'[r][i].pc = "link" =>
                                     task[r][i].pc = "link" /\ task'[r][i].from = task[r][i].from
  /\ Linking(a) => Linking(a)'

LEMMA CalmHolds ==
  ASSUME Lasting, NEW a \in Anons, KeyMoves(a), Holds(a), Calm(a), a # None
  PROVE  Holds(a)'
<1>1. \A r \in Replicas, i \in 1..Slots : task'[r][i].anon = a /\ task'[r][i].pc = "link" =>
        /\ task[r][i].anon = a /\ task[r][i].pc = "link"
        /\ task'[r][i].user = task[r][i].user /\ task'[r][i].from = task[r][i].from
  BY DEF Calm, Links
<1>2. \A r \in Replicas, i \in 1..Slots : task[r][i].anon = a /\ task[r][i].pc = "link" /\ task[r][i].from = None
        /\ redis'[a] = None /\ task'[r][i].anon = a => redis[a] = None
  <2>1. SUFFICES ASSUME NEW r \in Replicas, NEW i \in 1..Slots, task[r][i].anon = a, task[r][i].pc = "link",
                        task[r][i].from = None, redis'[a] = None, task'[r][i].anon = a
                 PROVE  redis[a] = None
    OBVIOUS
  <2>2. redis[a] = None \/ a \in young
    BY <2>1 DEF Lasting
  <2> QED
    BY <2>1, <2>2 DEF KeyMoves
<1>3. override'[a] # None => link'[a] = override'[a] /\ (redis'[a] \in {None, a, override'[a]} \/ Linking(a)')
  BY DEF Holds, Calm
<1>4. \A r, q \in Replicas, i, j \in 1..Slots :
       Links(task'[r][i], a) /\ Links(task'[q][j], a) => task'[r][i].user = task'[q][j].user
  BY DEF Holds, Calm
<1>5. \A r \in Replicas, i \in 1..Slots : task'[r][i].anon = a /\ task'[r][i].pc = "link" =>
       /\ task'[r][i].from # None => override'[a] = task'[r][i].user
       /\ task'[r][i].from = None /\ redis'[a] = None => override'[a] \in {None, task'[r][i].user}
  BY <1>1, <1>2 DEF Holds, Calm
<1> QED
  BY <1>3, <1>4, <1>5 DEF Holds, Links

LEMMA Close ==
  ASSUME IInv, KeysOK', PagesOK', StoresOK', TaskMoves, Onward, Grows, \A d \in Dids : KeyMoves(d),
         \A d \in Plain' : Moves(d),
         \A a \in Anons : Spared(a, {"forgotten"})' => Keeps(a),
         \A a \in Anons : Spared(a, Causes)' => Calm(a) \/ Holds(a)'
  PROVE  IInv'
<1>1. Lasting'
  BY LastingMoves DEF IInv
<1>2. \A d \in Dids : \A S : Spared(d, S)' => Spared(d, S)
  BY DEF Spared, Grows
<1>3. Plain' \subseteq Plain
  BY <1>2 DEF Plain, Onward
<1>4. Agree'
  BY <1>3, AgreeMoves DEF IInv
<1>5. Kept'
  <2>1. ASSUME NEW a \in Anons, Spared(a, {"forgotten"})', Known(a)' PROVE Stored(a)'
    <3>1. Spared(a, {"forgotten"}) /\ Keeps(a)
      BY <1>2, <2>1, OwnFacts
    <3> QED
      BY <2>1, <3>1 DEF IInv, Kept, Keeps
  <2> QED
    BY <2>1 DEF Kept
<1>6. Held'
  <2>1. ASSUME NEW a \in Anons, Spared(a, Causes)' PROVE Holds(a)'
    <3>1. Spared(a, Causes) /\ a \in Dids /\ a # None
      BY <1>2, <2>1, OwnFacts
    <3>2. Holds(a) /\ KeyMoves(a) /\ Lasting
      BY <3>1 DEF IInv, Held
    <3> QED
      BY <2>1, <3>1, <3>2, CalmHolds
  <2> QED
    BY <2>1 DEF Held
<1> QED
  BY <1>1, <1>4, <1>5, <1>6 DEF IInv
-----------------------------------------------------------------------------
(* The steps of one event: its task and the cache of its page change, and   *)
(* what it leaves in the batch store.                                       *)
Put(r, i, t, c) == task' = [task EXCEPT ![r][i] = t] /\ cache' = [cache EXCEPT ![r] = c]

CacheOK(c) == c \in [Dids -> Maybe(Persons)] /\ \A d \in Dids : c[d] \in Maybe(Own(d))

Others(r, i) == \A q \in Replicas, k \in 1..Slots : q # r \/ k # i => task'[q][k] = task[q][k]

(* After a step of r, with the cache c, that gives an event of e the person p. *)
Progressed(r, c, e, p) ==
  /\ pdi' = pdi
  /\ \A q \in Replicas, d \in Dids : Busy(q, d)' =>
       Busy(q, d) /\ (cache'[q] = cache[q] \/ (q = r /\ cache'[q] = c))
  /\ \A d \in Dids : \A x \in Persons : Says(d, x)' =>
       Says(d, x) \/ (d = e /\ x = p) \/ (Busy(r, d) /\ c[d] = x)

LEMMA PagesStep ==
  ASSUME PagesOK, Onward, NEW r \in Replicas, NEW i \in 1..Slots,
         NEW t \in Task, Sound(t, override'), NEW c, CacheOK(c),
         Put(r, i, t, c)
  PROVE  /\ PagesOK'
         /\ task'[r][i] = t /\ cache'[r] = c /\ Others(r, i)
         /\ \A q \in Replicas : q # r => cache'[q] = cache[q]
<1>1. task' \in [Replicas -> [1..Slots -> Task]] /\ task'[r][i] = t /\ Others(r, i)
  BY DEF PagesOK, Put, Others
<1>2. /\ cache' \in [Replicas -> [Dids -> Maybe(Persons)]] /\ cache'[r] = c
      /\ \A q \in Replicas : q # r => cache'[q] = cache[q]
  BY DEF PagesOK, CacheOK, Put
<1>3. ASSUME NEW q \in Replicas, NEW k \in 1..Slots PROVE Sound(task'[q][k], override')
  <2>1. CASE q = r /\ k = i
    BY <1>1, <2>1
  <2>2. CASE ~(q = r /\ k = i)
    <3>1. task'[q][k] = task[q][k] /\ task[q][k] \in Task /\ Sound(task[q][k], override)
      BY <1>1, <2>2 DEF PagesOK, Others
    <3>2. task[q][k].anon \in Maybe(Anons)
      BY <3>1 DEF Task
    <3>3. task[q][k].pc = "link" => task[q][k].anon \in Dids
      BY <3>1, <3>2, OwnFacts DEF Sound, Maybe
    <3> QED
      BY <3>1, <3>3 DEF Sound, Onward
  <2> QED
    BY <2>1, <2>2
<1>4. \A q \in Replicas, d \in Dids : cache'[q][d] \in Maybe(Own(d))
  BY <1>2 DEF PagesOK, CacheOK
<1> QED
  BY <1>1, <1>2, <1>3, <1>4 DEF PagesOK

LEMMA MergeGrows == Onward => Merge \subseteq Merge'
  BY OwnFacts DEF Merge, Onward

LEMMA StoresOnward ==
  ASSUME StoresOK, Onward, UNCHANGED storeVars
  PROVE  StoresOK'
<1>1. Merge \subseteq Merge'
  BY MergeGrows
<1>2. UNCHANGED <<pdi, unmerged, events, pending, merges, buffer>>
  BY DEF storeVars
<1>3. merges' \in [Replicas -> SUBSET Merge'] /\ unmerged' \in SUBSET Merge'
  BY <1>1, <1>2 DEF StoresOK
<1> QED
  BY <1>2, <1>3 DEF StoresOK, Pair

(* The event goes to another command of Redis, PostgreSQL or ClickHouse, in *)
(* resolve() with the person p it has found for e, if any.                  *)
LEMMA GotoStep ==
  ASSUME PagesOK, StoresOK, Onward, NEW r \in Replicas, NEW i \in 1..Slots,
         NEW t \in Task, Sound(t, override'), NEW c, CacheOK(c),
         t.did = task[r][i].did, t.anon = task[r][i].anon,
         t.pc = "honor" => t.read = pdi[t.did],
         NEW e, NEW p, t.user = task[r][i].user \/ (t.user = p /\ t.did = e),
         Put(r, i, t, c), UNCHANGED storeVars
  PROVE  /\ PagesOK' /\ StoresOK' /\ Progressed(r, c, e, p)
         /\ task'[r][i] = t /\ Others(r, i)
<1>1. /\ PagesOK' /\ task'[r][i] = t /\ cache'[r] = c /\ Others(r, i)
      /\ \A q \in Replicas : q # r => cache'[q] = cache[q]
  BY PagesStep
<1>2. StoresOK' /\ UNCHANGED <<pdi, events, pending, buffer>>
  BY StoresOnward DEF storeVars
<1>3. \A q \in Replicas, d \in Dids : Busy(q, d)' => Busy(q, d)
  BY <1>1 DEF Busy, Others
<1>4. ASSUME NEW d \in Dids, NEW x \in Persons, Says(d, x)'
      PROVE  Says(d, x) \/ (d = e /\ x = p) \/ (Busy(r, d) /\ c[d] = x)
  <2>1. CASE pdi'[d] = x \/ <<d, x>> \in events'
    BY <1>2, <2>1 DEF Says
  <2>2. ASSUME NEW q \in Replicas, pending'[q][d] = x \/ <<d, x>> \in buffer'[q] PROVE Says(d, x)
    BY <1>2, <2>2 DEF Says
  <2>3. ASSUME NEW q \in Replicas, Busy(q, d)', cache'[q][d] = x PROVE Says(d, x) \/ (Busy(r, d) /\ c[d] = x)
    BY <1>1, <1>3, <2>3 DEF Says
  <2>4. ASSUME NEW q \in Replicas, NEW k \in 1..Slots, task'[q][k].did = d, task'[q][k].user = x
        PROVE  Says(d, x) \/ (d = e /\ x = p)
    BY <1>1, <2>4 DEF Says, Others
  <2>5. ASSUME NEW q \in Replicas, NEW k \in 1..Slots, task'[q][k].did = d, task'[q][k].pc = "honor", task'[q][k].read = x
        PROVE  Says(d, x)
    BY <1>1, <2>5 DEF Says, Others
  <2> QED
    BY <1>4, <2>1, <2>2, <2>3, <2>4, <2>5 DEF Says
<1>5. Progressed(r, c, e, p)
  BY <1>1, <1>2, <1>3, <1>4 DEF Progressed
<1> QED
  BY <1>1, <1>2, <1>5

Done(e, p) == [Idle EXCEPT !.did = e, !.pc = "done", !.user = p]

LEMMA DoneFacts ==
  ASSUME NEW e \in Dids, NEW p \in Own(e)
  PROVE  /\ Done(e, p) \in Task /\ Sound(Done(e, p), override')
         /\ Done(e, p).did = e /\ Done(e, p).user = p /\ Done(e, p).pc = "done" /\ Done(e, p).anon = None
<1>1. p \in Persons /\ p # None /\ e # None
  BY OwnFacts
<1>2. /\ Done(e, p).did = e /\ Done(e, p).user = p /\ Done(e, p).pc = "done" /\ Done(e, p).anon = None
      /\ Done(e, p).from = None
  BY DEF Done, Idle
<1>3. Done(e, p) \in Task
  BY <1>1 DEF Done, Idle, Task, Maybe
<1> HIDE DEF Done
<1> QED
  BY <1>1, <1>2, <1>3 DEF Sound

(* The event is resolved: the batch store has its id and, after an          *)
(* override, the merge.                                                     *)
LEMMA FinishStep ==
  ASSUME PagesOK, StoresOK, Onward, NEW r \in Replicas, NEW i \in 1..Slots, NEW c, CacheOK(c),
         NEW e \in Dids, e = task[r][i].did, NEW p \in Own(e), NEW from,
         from = None \/ <<from, p>> \in Merge', Finish(r, i, c, p, from)
  PROVE  /\ PagesOK' /\ StoresOK' /\ Progressed(r, c, e, p)
         /\ task'[r][i] = Done(e, p) /\ Others(r, i)
<1>1. Put(r, i, Done(e, p), c)
  BY DEF Finish, Put, Done
<1>2. /\ Done(e, p) \in Task /\ Sound(Done(e, p), override')
      /\ Done(e, p).did = e /\ Done(e, p).user = p /\ Done(e, p).pc = "done" /\ Done(e, p).anon = None
  BY DoneFacts
<1>3. /\ PagesOK' /\ task'[r][i] = Done(e, p) /\ cache'[r] = c /\ Others(r, i)
      /\ \A q \in Replicas : q # r => cache'[q] = cache[q]
  BY <1>1, <1>2, PagesStep
<1>4. UNCHANGED <<pdi, unmerged, events, buffer>>
  BY DEF Finish
<1>5. /\ pending' \in [Replicas -> [Dids -> Maybe(Persons)]]
      /\ \A q \in Replicas, d \in Dids : pending'[q][d] = IF q = r /\ d = e THEN p ELSE pending[q][d]
  <2>1. pending' = [pending EXCEPT ![r][e] = p]
    BY DEF Finish
  <2>2. p \in Maybe(Persons)
    BY OwnFacts DEF Maybe
  <2> QED
    BY <2>1, <2>2 DEF StoresOK
<1>7. merges' \in [Replicas -> SUBSET Merge'] /\ unmerged' \in SUBSET Merge'
  <2>1. Merge \subseteq Merge'
    BY MergeGrows
  <2>2. merges' = [merges EXCEPT ![r] = IF from = None THEN @ ELSE @ \cup {<<from, p>>}]
    BY DEF Finish
  <2>3. merges \in [Replicas -> SUBSET Merge'] /\ unmerged \in SUBSET Merge'
    BY <2>1 DEF StoresOK
  <2>4. CASE from = None
    BY <1>4, <2>2, <2>3, <2>4
  <2>5. CASE from # None
    <3>1. <<from, p>> \in Merge'
      BY <2>5
    <3> HIDE DEF Merge
    <3> QED
      BY <1>4, <2>2, <2>3, <2>5, <3>1
  <2> QED
    BY <2>4, <2>5
<1>8. StoresOK'
  <2>1. \A q \in Replicas, d \in Dids : pending'[q][d] \in Maybe(Own(d))
    BY <1>5 DEF StoresOK, Maybe
  <2> QED
    BY <1>4, <1>5, <1>7, <2>1 DEF StoresOK, Pair
<1>9. ASSUME NEW q \in Replicas, NEW d \in Dids, Busy(q, d)'
      PROVE  Busy(q, d) /\ (cache'[q] = cache[q] \/ (q = r /\ cache'[q] = c))
  <2>1. PICK j \in 1..Slots : d \in {task'[q][j].did, task'[q][j].anon}
    BY <1>9 DEF Busy
  <2>2. d # None
    BY OwnFacts
  <2>3. d \in {task[q][j].did, task[q][j].anon}
    BY <1>2, <1>3, <2>1, <2>2 DEF Others
  <2> QED
    BY <1>3, <2>3 DEF Busy
<1>10. ASSUME NEW d \in Dids, NEW x \in Persons, Says(d, x)'
       PROVE  Says(d, x) \/ (d = e /\ x = p) \/ (Busy(r, d) /\ c[d] = x)
  <2>1. CASE pdi'[d] = x \/ <<d, x>> \in events'
    BY <1>4, <2>1 DEF Says
  <2>2. ASSUME NEW q \in Replicas, pending'[q][d] = x \/ <<d, x>> \in buffer'[q] PROVE Says(d, x) \/ (d = e /\ x = p)
    BY <1>4, <1>5, <2>2 DEF Says
  <2>3. ASSUME NEW q \in Replicas, Busy(q, d)', cache'[q][d] = x PROVE Says(d, x) \/ (Busy(r, d) /\ c[d] = x)
    BY <1>9, <2>3 DEF Says
  <2>4. ASSUME NEW q \in Replicas, NEW j \in 1..Slots, task'[q][j].did = d, task'[q][j].user = x
        PROVE  Says(d, x) \/ (d = e /\ x = p)
    BY <1>2, <1>3, <2>4 DEF Says, Others
  <2>5. ASSUME NEW q \in Replicas, NEW j \in 1..Slots, task'[q][j].did = d, task'[q][j].pc = "honor", task'[q][j].read = x
        PROVE  Says(d, x)
    BY <1>2, <1>3, <2>5 DEF Says, Others
  <2> QED
    BY <1>10, <2>1, <2>2, <2>3, <2>4, <2>5 DEF Says
<1> QED
  BY <1>3, <1>4, <1>8, <1>9, <1>10 DEF Progressed

(* resolve() returns: the event is resolved, or goes on to its device.      *)
LEMMA ResolvedStep ==
  ASSUME PagesOK, StoresOK, Onward, NEW r \in Replicas, NEW i \in 1..Slots, NEW c, CacheOK(c),
         task[r][i].pc \in {"resolve", "lookup", "honor", "get"},
         NEW e \in Dids, e = task[r][i].did, NEW p \in Own(e), Resolved(r, i, c, p)
  PROVE  /\ PagesOK' /\ StoresOK' /\ Progressed(r, c, e, p)
         /\ task'[r][i].pc \in {"done", "anon"} /\ Others(r, i)
<1>1. CASE task[r][i].anon = None
  <2>1. Finish(r, i, c, p, None)
    BY <1>1 DEF Resolved
  <2>2. PagesOK' /\ StoresOK' /\ Progressed(r, c, e, p) /\ task'[r][i] = Done(e, p) /\ Others(r, i)
    BY <2>1, FinishStep
  <2> QED
    BY <2>2, DoneFacts
<1>2. CASE task[r][i].anon # None
  <2> DEFINE t == [task[r][i] EXCEPT !.pc = "anon", !.user = p]
  <2>2. /\ t \in Task /\ t.did = task[r][i].did /\ t.anon = task[r][i].anon /\ t.pc = "anon"
        /\ t.user = p /\ t.from = task[r][i].from
    <3>1. task[r][i] \in Task /\ p \in Maybe(Persons)
      BY TaskFacts, OwnFacts DEF Maybe
    <3> QED
      BY <3>1 DEF Task
  <2>3. Sound(t, override')
    <3>1. Sound(task[r][i], override) /\ e # None /\ p # None
      BY TaskFacts, OwnFacts
    <3> HIDE DEF t
    <3> QED
      BY <1>2, <2>2, <3>1 DEF Sound
  <2>4. Put(r, i, t, c) /\ UNCHANGED storeVars
    <3>1. task' = [task EXCEPT ![r][i] = t]
      BY <1>2 DEF Resolved, PagesOK, Task
    <3> QED
      BY <1>2, <3>1 DEF Resolved, Put
  <2> HIDE DEF t
  <2>5. PagesOK' /\ StoresOK' /\ Progressed(r, c, e, p) /\ task'[r][i] = t /\ Others(r, i)
    BY <2>2, <2>3, <2>4, GotoStep
  <2> QED
    BY <2>2, <2>5
<1> QED
  BY <1>1, <1>2
-----------------------------------------------------------------------------
(* resolve()                                                                *)
LEMMA CacheFacts ==
  ASSUME PagesOK, NEW r \in Replicas
  PROVE  CacheOK(cache[r]) /\ \A e \in Dids : \A p \in Own(e) :
           /\ CacheOK(Cached(r, e, p)) /\ Cached(r, e, p)[e] = p
           /\ \A d \in Dids : d # e => Cached(r, e, p)[d] = cache[r][d]
<1>1. CacheOK(cache[r])
  BY DEF PagesOK, CacheOK
<1>2. ASSUME NEW e \in Dids, NEW p \in Own(e)
      PROVE  /\ CacheOK(Cached(r, e, p)) /\ Cached(r, e, p)[e] = p
             /\ \A d \in Dids : d # e => Cached(r, e, p)[d] = cache[r][d]
  <2>1. p \in Maybe(Persons) /\ p \in Maybe(Own(e))
    BY OwnFacts DEF Maybe
  <2> QED
    BY <1>1, <2>1 DEF CacheOK, Cached
<1> QED
  BY <1>1, <1>2

LEMMA LapseFacts ==
  ASSUME KeysOK, NEW ids \in SUBSET Dids, NEW cause \in Causes, Lapse(ids, cause)
  PROVE  /\ lapses' \in SUBSET (Dids \X Causes) /\ Grows
         /\ \A d \in ids : <<d, cause>> \in lapses'
<1>1. lapses' = lapses \cup (ids \X {cause}) /\ lapses \in SUBSET (Dids \X Causes)
  BY DEF KeysOK, Lapse
<1>2. ids \X {cause} \subseteq Dids \X Causes
  OBVIOUS
<1>3. \A d \in ids : <<d, cause>> \in ids \X {cause}
  OBVIOUS
<1> QED
  BY <1>1, <1>2, <1>3 DEF Grows

LEMMA LinkingStays ==
  ASSUME NEW r \in Replicas, NEW i \in 1..Slots, Others(r, i), NEW a, ~HalfLinked(task[r][i]) \/ task[r][i].anon # a
  PROVE  Linking(a) => Linking(a)'
<1>1. SUFFICES ASSUME Linking(a) PROVE Linking(a)'
  OBVIOUS
<1>2. PICK q \in Replicas, k \in 1..Slots : task[q][k].anon = a /\ HalfLinked(task[q][k])
  BY <1>1 DEF Linking
<1>3. task'[q][k] = task[q][k]
  BY <1>2 DEF Others
<1> QED
  BY <1>2, <1>3 DEF Linking, HalfLinked

(* The device's own $identify events go on: nothing new to hold.            *)
LEMMA CalmStep ==
  ASSUME PagesOK, NEW r \in Replicas, NEW i \in 1..Slots, Others(r, i), NEW a \in Anons,
         override'[a] = override[a], link'[a] = link[a],
         override[a] # None => redis'[a] \in {redis[a], None, a, override[a]},
         ~HalfLinked(task[r][i]) \/ task[r][i].anon # a,
         Links(task'[r][i], a) => /\ Links(task[r][i], a) /\ task'[r][i].user = task[r][i].user
                                  /\ task'[r][i].pc # "link"
  PROVE  Calm(a)
<1>1. Linking(a) => Linking(a)'
  BY LinkingStays
<1>2. \A q \in Replicas, k \in 1..Slots :
       Links(task'[q][k], a) => /\ Links(task[q][k], a) /\ task'[q][k].user = task[q][k].user
                                /\ task'[q][k].pc = "link" =>
                                     task[q][k].pc = "link" /\ task'[q][k].from = task[q][k].from
  BY DEF Others
<1> QED
  BY <1>1, <1>2 DEF Calm

(* Nothing new is known of a device but what r found for its id e.          *)
LEMMA KeepsStep ==
  ASSUME PagesOK, NEW r \in Replicas, NEW i \in 1..Slots, Others(r, i), NEW a \in Anons,
         NEW c, NEW e, NEW p, Progressed(r, c, e, p),
         c[a] = cache[r][a] \/ (a = e /\ c[a] = p),
         a = e => Says(a, p) \/ Stored(a),
         p \in Persons \/ a # e,
         override'[a] = override[a] \/ Known(a),
         Stored(a) => redis'[a] # None \/ redis'[a] = redis[a],
         task'[r][i].anon = a /\ task'[r][i].pc \in {"override", "link"} /\ task'[r][i].from # None => Known(a) \/ Stored(a)
  PROVE  Keeps(a)
<1>1. Stored(a) => Stored(a)'
  BY DEF Stored, Progressed
<1>2. ASSUME NEW x \in Persons, Says(a, x)' PROVE Known(a) \/ Stored(a)
  <2>1. Says(a, x) \/ (a = e /\ x = p) \/ (Busy(r, a) /\ c[a] = x)
    BY <1>2, OwnFacts DEF Progressed
  <2>2. Busy(r, a) /\ cache[r][a] = x => Says(a, x)
    BY DEF Says
  <2> QED
    BY <2>1, <2>2 DEF Known
<1>3. override'[a] # None => Known(a)
  BY DEF Known
<1>4. ASSUME NEW q \in Replicas, NEW k \in 1..Slots, task'[q][k].anon = a,
             task'[q][k].pc \in {"override", "link"}, task'[q][k].from # None
      PROVE  Known(a) \/ Stored(a)
  BY <1>4 DEF Known, Others
<1>5. Known(a)' => Known(a) \/ Stored(a)
  BY <1>2, <1>3, <1>4 DEF Known
<1> QED
  BY <1>1, <1>5 DEF Keeps

LEMMA ResolvedKeeps ==
  ASSUME IInv, KeysOK', NEW r \in Replicas, NEW i \in 1..Slots,
         task[r][i].pc \in {"resolve", "lookup", "honor", "get"},
         NEW e \in Dids, e = task[r][i].did, NEW p \in Own(e), NEW c \in {cache[r], Cached(r, e, p)},
         Resolved(r, i, c, p),
         override' = override, link' = link, Grows,
         \A d \in Dids : (redis'[d] = redis[d] /\ (d \in young => d \in young')) \/ (redis'[d] # None /\ d \in young'),
         \A d \in Plain' : d = e => Says(d, p) \/ (redis[d] = p /\ ~Provisional(d)),
         \A d \in Plain' : redis'[d] = redis[d] \/ (redis'[d] \in Persons /\ Says(d, redis'[d])),
         Says(e, p) \/ redis[e] # None,
         \A a \in Anons : Spared(a, Causes)' /\ override[a] # None => redis'[a] \in {redis[a], a, override[a]}
  PROVE  IInv'
<1>1. KeysOK /\ PagesOK /\ StoresOK /\ Onward
  BY DEF IInv, Onward
<1>2. /\ CacheOK(c) /\ \A d \in Dids : c[d] = cache[r][d] \/ (d = e /\ c[d] = p)
  BY <1>1, CacheFacts
<1>3. /\ PagesOK' /\ StoresOK' /\ Progressed(r, c, e, p)
      /\ task'[r][i].pc \in {"done", "anon"} /\ Others(r, i)
  BY <1>1, <1>2, ResolvedStep
<1>4. TaskMoves
  <2>1. ASSUME NEW q \in Replicas, NEW d \in Dids, Busy(q, d)', cache'[q][d] = None
        PROVE  Busy(q, d) /\ cache[q][d] = None
    <3>1. p # None
      BY OwnFacts
    <3> QED
      BY <1>2, <1>3, <2>1, <3>1 DEF Progressed
  <2> QED
    BY <1>3, <2>1 DEF TaskMoves, Others
<1>5. \A d \in Dids : KeyMoves(d)
  BY DEF KeyMoves
<1>7. ASSUME NEW d \in Plain' PROVE Moves(d)
  <2>1. d \in Dids
    BY DEF Plain
  <2>2. ASSUME NEW x \in Persons, Says(d, x)' PROVE Says(d, x) \/ (redis[d] = x /\ ~Provisional(d))
    <3>1. CASE d = e /\ x = p
      BY <3>1
    <3>2. CASE Busy(r, d) /\ cache[r][d] = x
      BY <3>2 DEF Says
    <3> QED
      BY <1>2, <1>3, <2>1, <2>2, <3>1, <3>2 DEF Progressed
  <2>3. pdi'[d] = pdi[d]
    BY <1>3 DEF Progressed
  <2>4. \A q \in Replicas, k \in 1..Slots : task'[q][k].pc \in {"lookup", "link"} => task'[q][k] = task[q][k]
    BY <1>3 DEF Others
  <2> QED
    BY <2>2, <2>3, <2>4 DEF Moves
<1>8. ASSUME NEW a \in Anons PROVE Keeps(a)
  <2>1. a \in Dids /\ p \in Persons
    BY OwnFacts
  <2>2. a = e => Says(a, p) \/ Stored(a)
    BY DEF Stored
  <2>3. Stored(a) => redis'[a] # None \/ redis'[a] = redis[a]
    BY <2>1
  <2>4. c[a] = cache[r][a] \/ (a = e /\ c[a] = p)
    BY <1>2, <2>1
  <2> QED
    BY <1>1, <1>3, <2>1, <2>2, <2>3, <2>4, KeepsStep
<1>9. ASSUME NEW a \in Anons, Spared(a, Causes)' PROVE Calm(a)
  <2>1. override[a] # None => redis'[a] \in {redis[a], None, a, override[a]}
    BY <1>9
  <2>2. ~HalfLinked(task[r][i]) /\ ~Links(task'[r][i], a)
    BY <1>3 DEF HalfLinked, Links
  <2> QED
    BY <1>1, <1>3, <2>1, <2>2, CalmStep
<1> QED
  BY <1>1, <1>3, <1>4, <1>5, <1>7, <1>8, <1>9, Close

LEMMA BusyFacts ==
  ASSUME PagesOK, NEW r \in Replicas, NEW i \in 1..Slots
  PROVE  /\ task[r][i].did \in Dids => Busy(r, task[r][i].did)
         /\ task[r][i].anon \in Anons => Busy(r, task[r][i].anon)
  BY DEF Busy

LEMMA ResolveCachedKeeps ==
  ASSUME IInv, NEW r \in Replicas, NEW i \in 1..Slots, ResolveCached(r, i)
  PROVE  IInv'
<1> DEFINE e == task[r][i].did
           p == cache[r][e]
<1>1. KeysOK /\ PagesOK /\ task[r][i].pc = "resolve" /\ Resolved(r, i, cache[r], p) /\ p # None
  BY DEF IInv, ResolveCached, At
<1>2. e \in Dids /\ p \in Own(e) /\ Says(e, p)
  <2>1. e \in Dids
    BY <1>1, TaskFacts
  <2>2. p \in Own(e)
    BY <1>1, <2>1 DEF PagesOK, Maybe
  <2> QED
    BY <1>1, <2>1, <2>2, BusyFacts DEF Says
<1>3. UNCHANGED <<redis, young, override, link, lapses, pages, faults>> /\ Grows
  BY DEF ResolveCached, boundVars, Grows
<1>4. KeysOK'
  BY <1>1, <1>3 DEF KeysOK
<1> HIDE DEF e, p
<1>5. e = task[r][i].did
  BY DEF e
<1> QED
  BY <1>1, <1>2, <1>3, <1>4, <1>5, ResolvedKeeps

(* SET of a key.                                                            *)
LEMMA SetFacts ==
  ASSUME KeysOK, NEW d \in Dids, NEW p \in Own(d), Set(d, p)
  PROVE  /\ redis' \in [Dids -> Maybe(Persons)] /\ young' \in SUBSET Dids
         /\ \A x \in Dids : redis'[x] \in Maybe(Own(x))
         /\ redis'[d] = p /\ p # None /\ d \in young' /\ young \subseteq young'
         /\ \A x \in Dids : x # d => redis'[x] = redis[x]
<1>1. p # None /\ p \in Persons
  BY OwnFacts
<1> QED
  BY <1>1 DEF KeysOK, Set, Maybe

(* What only the task of an event and its cache bear on the invariant.      *)
LEMMA SaysProgressed ==
  ASSUME PagesOK, NEW r \in Replicas, NEW c, NEW e, NEW p, Progressed(r, c, e, p), NEW d \in Dids, NEW x \in Persons,
         Says(d, x)', c[d] = cache[r][d], d # e \/ (p = x => Says(d, x))
  PROVE  Says(d, x)
  BY DEF Progressed, Says

LEMMA SetNxKeeps ==
  ASSUME IInv, NEW r \in Replicas, NEW i \in 1..Slots, SetNx(r, i)
  PROVE  IInv'
<1> DEFINE e == task[r][i].did
           pc == IF redis[e] = None THEN "lookup" ELSE "get"
           t == [task[r][i] EXCEPT !.pc = pc]
<1>1. KeysOK /\ PagesOK /\ StoresOK /\ Lasting /\ task[r][i].pc = "resolve" /\ cache[r][e] = None
  BY DEF IInv, SetNx, At
<1>2. e \in Dids /\ Busy(r, e)
  BY <1>1, TaskFacts, BusyFacts
<1>3. UNCHANGED <<override, cache, link, lapses, pages, faults, storeVars>> /\ Onward /\ Grows
  BY DEF SetNx, boundVars, Onward, Grows
<1>4. Put(r, i, t, cache[r])
  <2>1. task' = [task EXCEPT ![r][i] = t]
    BY DEF SetNx, Goto
  <2>2. cache' = [cache EXCEPT ![r] = cache[r]]
    BY <1>1, <1>3 DEF PagesOK
  <2> QED
    BY <2>1, <2>2 DEF Put
<1>5. \/ redis[e] = None /\ Set(e, e)
      \/ redis[e] # None /\ UNCHANGED <<redis, young>>
  BY DEF SetNx
<1>6. /\ t \in Task /\ t.did = e /\ t.anon = task[r][i].anon /\ t.pc = pc /\ t.from = task[r][i].from
      /\ t.user = task[r][i].user /\ pc \in {"lookup", "get"}
  BY <1>1, TaskFacts DEF Task
<1>7. e = task[r][i].did /\ (pc = "lookup" <=> redis[e] = None)
  OBVIOUS
<1> HIDE DEF e, t, pc
<1>8. Sound(t, override')
  <2>1. Sound(task[r][i], override) /\ e # None
    BY <1>1, <1>2, TaskFacts, OwnFacts
  <2> QED
    BY <1>1, <1>6, <1>7, <2>1 DEF Sound
<1>9. /\ PagesOK' /\ StoresOK' /\ Progressed(r, cache[r], None, None) /\ task'[r][i] = t /\ Others(r, i)
  <2>1. UNCHANGED storeVars /\ CacheOK(cache[r])
    BY <1>1, <1>3, CacheFacts
  <2>2. t.did = task[r][i].did /\ t.pc # "honor"
    BY <1>6, <1>7
  <2> QED
    BY <1>1, <1>3, <1>4, <1>6, <1>8, <2>1, <2>2, GotoStep
<1>10. KeysOK' /\ e \in young' /\ redis'[e] # None
  <2>1. CASE Set(e, e)
    <3>1. e \in Own(e)
      BY <1>2, OwnFacts
    <3> QED
      BY <1>1, <1>2, <1>3, <2>1, <3>1, SetFacts DEF KeysOK
  <2>2. CASE redis[e] # None /\ UNCHANGED <<redis, young>>
    BY <1>1, <1>2, <1>3, <2>2 DEF KeysOK, Lasting
  <2> QED
    BY <1>5, <2>1, <2>2
<1>11. /\ \A d \in Dids : redis'[d] = redis[d] \/ (d = e /\ redis[d] = None /\ redis'[d] = d)
       /\ young \subseteq young'
       /\ redis[e] = None => redis'[e] = e
  <2>1. e \in Own(e)
    BY <1>2, OwnFacts
  <2> QED
    BY <1>1, <1>2, <1>5, <2>1, SetFacts
<1>12. TaskMoves
  <2>1. \A q \in Replicas, d \in Dids : Busy(q, d)' /\ cache'[q][d] = None => Busy(q, d) /\ cache[q][d] = None
    BY <1>3, <1>9 DEF Progressed
  <2> QED
    BY <1>6, <1>9, <1>10, <2>1 DEF TaskMoves, Others
<1>13. \A d \in Dids : KeyMoves(d)
  BY <1>10, <1>11 DEF KeyMoves
<1>15. ASSUME NEW d \in Plain' PROVE Moves(d)
  <2>1. d \in Dids /\ d # None
    BY OwnFacts DEF Plain
  <2>2. \A x \in Persons : Says(d, x)' => Says(d, x)
    BY <1>1, <1>9, <2>1, SaysProgressed
  <2>3. pdi'[d] = pdi[d] /\ link'[d] = link[d]
    BY <1>3 DEF storeVars
  <2>4. redis'[d] = redis[d] \/ (redis[d] = None /\ redis'[d] = d)
    BY <1>11, <2>1
  <2>5. t.pc = "lookup" /\ t.did = d => redis'[d] = d
    BY <1>6, <1>7, <1>11
  <2> QED
    BY <1>6, <1>9, <2>2, <2>3, <2>4, <2>5 DEF Moves, Others
<1>16. ASSUME NEW a \in Anons PROVE Keeps(a)
  <2>1. a \in Dids /\ a # None
    BY OwnFacts
  <2>2. Stored(a) => redis'[a] # None \/ redis'[a] = redis[a]
    BY <1>11, <2>1
  <2>3. override'[a] = override[a] /\ ~(task'[r][i].pc \in {"override", "link"})
    BY <1>3, <1>6, <1>9
  <2> QED
    BY <1>1, <1>9, <2>1, <2>2, <2>3, KeepsStep
<1>17. ASSUME NEW a \in Anons PROVE Calm(a)
  <2>1. redis'[a] \in {redis[a], None, a, override[a]} /\ override'[a] = override[a] /\ link'[a] = link[a]
    BY <1>3, <1>11, OwnFacts
  <2>2. ~HalfLinked(task[r][i]) /\ ~Links(task'[r][i], a)
    BY <1>1, <1>6, <1>9 DEF HalfLinked, Links
  <2> QED
    BY <1>1, <1>9, <2>1, <2>2, CalmStep
<1> QED
  BY <1>3, <1>9, <1>10, <1>12, <1>13, <1>15, <1>16, <1>17, Close

LEMMA LookupKeeps ==
  ASSUME IInv, NEW r \in Replicas, NEW i \in 1..Slots, Lookup(r, i)
  PROVE  IInv'
<1> DEFINE e == task[r][i].did
           t == [task[r][i] EXCEPT !.pc = "honor", !.read = pdi[e]]
<1>1. KeysOK /\ PagesOK /\ StoresOK /\ Agree /\ Lasting /\ task[r][i].pc = "lookup"
  BY DEF IInv, Lookup, At
<1>2. e \in Dids /\ redis[e] # None
  BY <1>1, TaskFacts DEF Lasting
<1>3. UNCHANGED <<redis, young, override, link, lapses, pages, faults>> /\ Onward /\ Grows
  BY DEF Lookup, boundVars, Onward, Grows
<1>4. KeysOK'
  BY <1>1, <1>3 DEF KeysOK
<1>5. CASE pdi[e] = None
  <2>1. Resolved(r, i, Cached(r, e, e), e)
    BY <1>5 DEF Lookup
  <2>2. e \in Own(e)
    BY <1>2, OwnFacts
  <2>3. \A d \in Plain' : d = e => redis[d] = e /\ ~Provisional(d)
    <3>1. \A d \in Plain' : d \in Plain /\ (d \in Users \/ d \in Anons)
      BY <1>3 DEF Plain, Spared, Dids
    <3>2. \A u \in Users \cap Plain : redis[u] \in {None, u}
      BY <1>1 DEF Agree, Single
    <3> QED
      BY <1>1, <1>2, <1>5, <3>1, <3>2 DEF Agree, Provisional
  <2>4. e = task[r][i].did
    OBVIOUS
  <2> HIDE DEF e
  <2> QED
    BY <1>1, <1>2, <1>3, <1>4, <2>1, <2>2, <2>3, <2>4, ResolvedKeeps
<1>6. CASE pdi[e] # None
  <2>1. Put(r, i, t, cache[r]) /\ UNCHANGED <<cache, storeVars>>
    <3>1. task' = [task EXCEPT ![r][i] = t] /\ UNCHANGED <<cache, storeVars>>
      <4>1. /\ task' = [task EXCEPT ![r][i].pc = "honor", ![r][i].read = pdi[e]]
            /\ UNCHANGED <<cache, storeVars>>
        BY <1>6 DEF Lookup
      <4>2. task \in [Replicas -> [1..Slots -> Task]]
        BY <1>1 DEF PagesOK
      <4> QED
        BY <4>1, <4>2 DEF Task
    <3>2. cache' = [cache EXCEPT ![r] = cache[r]]
      BY <1>1, <3>1 DEF PagesOK
    <3> QED
      BY <3>1, <3>2 DEF Put
  <2>2. pdi[e] \in Own(e) /\ pdi[e] \in Maybe(Persons)
    BY <1>1, <1>2, <1>6 DEF StoresOK, Maybe
  <2>3. /\ t \in Task /\ t.did = e /\ t.anon = task[r][i].anon /\ t.pc = "honor" /\ t.from = task[r][i].from
        /\ t.read = pdi[e] /\ t.user = task[r][i].user
    BY <1>1, <2>2, TaskFacts DEF Task
  <2>4. e = task[r][i].did
    OBVIOUS
  <2> HIDE DEF e, t
  <2>5. Sound(t, override')
    <3>1. Sound(task[r][i], override) /\ e # None
      BY <1>1, <1>2, TaskFacts, OwnFacts
    <3> QED
      BY <1>1, <2>2, <2>3, <2>4, <3>1 DEF Sound
  <2>6. /\ PagesOK' /\ StoresOK' /\ Progressed(r, cache[r], None, None) /\ task'[r][i] = t /\ Others(r, i)
    <3>1. UNCHANGED storeVars /\ CacheOK(cache[r]) /\ t.did = task[r][i].did /\ t.read = pdi[t.did]
      BY <1>1, <2>1, <2>3, <2>4, CacheFacts
    <3> QED
      BY <1>1, <1>3, <2>1, <2>3, <2>5, <3>1, GotoStep
  <2>7. TaskMoves
    <3>1. \A q \in Replicas, d \in Dids : Busy(q, d)' /\ cache'[q][d] = None => Busy(q, d) /\ cache[q][d] = None
      BY <2>1, <2>6 DEF Progressed
    <3> QED
      BY <2>3, <2>6, <3>1 DEF TaskMoves, Others
  <2>8. \A d \in Dids : KeyMoves(d)
    BY <1>3 DEF KeyMoves
  <2>10. ASSUME NEW d \in Plain' PROVE Moves(d)
    <3>1. d \in Dids /\ d # None
      BY OwnFacts DEF Plain
    <3>2. \A x \in Persons : Says(d, x)' => Says(d, x)
      BY <1>1, <2>6, <3>1, SaysProgressed
    <3>3. pdi'[d] = pdi[d] /\ link'[d] = link[d] /\ redis'[d] = redis[d]
      BY <1>3, <2>1 DEF storeVars
    <3> QED
      BY <2>3, <2>6, <3>2, <3>3 DEF Moves, Others
  <2>11. ASSUME NEW a \in Anons PROVE Keeps(a) /\ Calm(a)
    <3>1. a \in Dids /\ a # None
      BY OwnFacts
    <3>2. override'[a] = override[a] /\ link'[a] = link[a] /\ redis'[a] = redis[a]
      BY <1>3
    <3>3. ~HalfLinked(task[r][i]) /\ task'[r][i].pc = "honor" /\ ~Links(task'[r][i], a)
      BY <1>1, <2>3, <2>6 DEF HalfLinked, Links
    <3>4. Keeps(a)
      BY <1>1, <2>6, <3>1, <3>2, <3>3, KeepsStep
    <3>5. Calm(a)
      BY <1>1, <2>6, <3>2, <3>3, CalmStep
    <3> QED
      BY <3>4, <3>5
  <2> QED
    BY <1>3, <1>4, <2>6, <2>7, <2>8, <2>10, <2>11, Close
<1> QED
  BY <1>5, <1>6

LEMMA HonorKeeps ==
  ASSUME IInv, NEW r \in Replicas, NEW i \in 1..Slots, Honor(r, i)
  PROVE  IInv'
<1> DEFINE e == task[r][i].did
           p == task[r][i].read
<1>1. /\ KeysOK /\ PagesOK /\ task[r][i].pc = "honor"
      /\ Set(e, p) /\ Resolved(r, i, Cached(r, e, p), p)
  BY DEF IInv, Honor, At
<1>2. e \in Dids /\ p \in Own(e) /\ Says(e, p)
  <2>1. e \in Dids /\ Sound(task[r][i], override)
    BY <1>1, TaskFacts
  <2>2. p \in Own(e)
    BY <1>1, <2>1 DEF Sound
  <2> QED
    BY <1>1, <2>1, <2>2 DEF Says
<1>3. /\ UNCHANGED <<override, link, pages, faults>>
      /\ Lapse({d \in {e} : Stale(d, p)}, "stale row")
  BY DEF Honor, boundVars
<1>4. e = task[r][i].did
  OBVIOUS
<1> HIDE DEF e, p
<1>5. /\ lapses' \in SUBSET (Dids \X Causes) /\ Grows
      /\ \A d \in {e} : Stale(d, p) => <<d, "stale row">> \in lapses'
  <2> DEFINE ids == {d \in {e} : Stale(d, p)}
             cause == "stale row"
  <2>1. ids \in SUBSET Dids /\ cause \in Causes /\ Lapse(ids, cause)
    BY <1>2, <1>3 DEF Causes
  <2>2. \A d \in {e} : Stale(d, p) => d \in ids
    OBVIOUS
  <2>3. cause = "stale row"
    OBVIOUS
  <2> HIDE DEF ids, cause
  <2>4. lapses' \in SUBSET (Dids \X Causes) /\ Grows /\ \A d \in ids : <<d, cause>> \in lapses'
    BY <1>1, <2>1, LapseFacts
  <2> QED
    BY <2>2, <2>3, <2>4
<1>6. KeysOK'
  BY <1>1, <1>2, <1>3, <1>5, SetFacts DEF KeysOK
<1>7. /\ \A d \in Dids : (redis'[d] = redis[d] /\ (d \in young => d \in young')) \/ (redis'[d] # None /\ d \in young')
      /\ \A d \in Dids : redis'[d] = redis[d] \/ (d = e /\ redis'[d] = p)
  BY <1>1, <1>2, SetFacts
<1>8. \A d \in Plain' : redis'[d] = redis[d] \/ (redis'[d] \in Persons /\ Says(d, redis'[d]))
  <2>1. \A d \in Plain' : d \in Dids
    BY DEF Plain
  <2> QED
    BY <1>2, <1>7, <2>1, OwnFacts
<1>9. \A a \in Anons : Spared(a, Causes)' /\ override[a] # None => redis'[a] \in {redis[a], a, override[a]}
  <2>1. ASSUME NEW a \in Anons, Spared(a, Causes)', override[a] # None, a = e PROVE p \in {a, override[a]}
    <3>1. ~Stale(a, p)
      BY <1>5, <2>1 DEF Spared, Causes
    <3> QED
      BY <1>2, <2>1, <3>1, OwnFacts DEF Stale
  <2> QED
    BY <1>7, <2>1, OwnFacts
<1>10. /\ override' = override /\ link' = link /\ task[r][i].pc \in {"resolve", "lookup", "honor", "get"}
       /\ \A d \in Plain' : d = e => Says(d, p) \/ (redis[d] = p /\ ~Provisional(d))
       /\ Says(e, p) \/ redis[e] # None
  BY <1>1, <1>2, <1>3
<1>11. PICK c \in {cache[r], Cached(r, e, p)} : Resolved(r, i, c, p)
  BY <1>1
<1>12. /\ Grows /\ e \in Dids /\ p \in Own(e) /\ e = task[r][i].did
       /\ \A d \in Dids : (redis'[d] = redis[d] /\ (d \in young => d \in young')) \/ (redis'[d] # None /\ d \in young')
  BY <1>2, <1>4, <1>5, <1>7
<1> QED
  BY <1>6, <1>8, <1>9, <1>10, <1>11, <1>12, ResolvedKeeps

LEMMA GetKeeps ==
  ASSUME IInv, NEW r \in Replicas, NEW i \in 1..Slots, Get(r, i)
  PROVE  IInv'
<1> DEFINE e == task[r][i].did
           p == redis[e]
<1>1. KeysOK /\ PagesOK /\ Lasting /\ task[r][i].pc = "get"
  BY DEF IInv, Get, At
<1>2. e \in Dids /\ p # None
  BY <1>1, TaskFacts DEF Lasting
<1>3. Resolved(r, i, Cached(r, e, p), p) /\ UNCHANGED <<redis, young>>
  BY <1>2 DEF Get
<1>4. /\ UNCHANGED <<override, link, pages, faults>>
      /\ Lapse({d \in {e} : Provisional(d)}, "raced")
  BY DEF Get, boundVars
<1>5. p \in Own(e)
  BY <1>1, <1>2 DEF KeysOK, Maybe
<1>6. e = task[r][i].did /\ p = redis[e]
  OBVIOUS
<1> HIDE DEF e, p
<1>7. /\ lapses' \in SUBSET (Dids \X Causes) /\ Grows
      /\ \A d \in {e} : Provisional(d) => <<d, "raced">> \in lapses'
  <2> DEFINE ids == {d \in {e} : Provisional(d)}
             cause == "raced"
  <2>1. ids \in SUBSET Dids /\ cause \in Causes /\ Lapse(ids, cause)
    BY <1>2, <1>4 DEF Causes
  <2>2. \A d \in {e} : Provisional(d) => d \in ids
    OBVIOUS
  <2>3. cause = "raced"
    OBVIOUS
  <2> HIDE DEF ids, cause
  <2>4. lapses' \in SUBSET (Dids \X Causes) /\ Grows /\ \A d \in ids : <<d, cause>> \in lapses'
    BY <1>1, <2>1, LapseFacts
  <2> QED
    BY <2>2, <2>3, <2>4
<1>8. KeysOK'
  BY <1>1, <1>3, <1>4, <1>7 DEF KeysOK
<1>9. \A d \in Plain' : d = e => redis[d] = p /\ ~Provisional(d)
  BY <1>6, <1>7 DEF Plain, Spared
<1> QED
  BY <1>1, <1>2, <1>3, <1>4, <1>5, <1>6, <1>7, <1>8, <1>9, ResolvedKeeps
-----------------------------------------------------------------------------
(* handleIdentify()                                                         *)
LEMMA IdentifyFacts ==
  ASSUME KeysOK, PagesOK, NEW r \in Replicas, NEW i \in 1..Slots,
         task[r][i].pc \in {"anon", "anonRow", "override", "link"}
  PROVE  LET t == task[r][i] IN
         /\ t \in Task /\ Sound(t, override) /\ Busy(r, t.anon)
         /\ t.anon \in Anons /\ t.anon \in Dids /\ t.anon # None /\ t.anon \notin Users
         /\ t.did \in Users /\ t.did \in Dids /\ t.did # t.anon
         /\ t.user \in Users /\ t.user # None /\ t.user # t.anon /\ t.user \in Own(t.did) /\ t.user \in Own(t.anon)
         /\ Says(t.did, t.user)
<1>1. task[r][i] \in Task /\ Sound(task[r][i], override) /\ task[r][i].anon \in Anons
  BY TaskFacts DEF Sound, Maybe
<1>2. task[r][i].did \in Users
  BY <1>1, OwnFacts DEF Sound
<1>3. task[r][i].user # None /\ task[r][i].user \in Own(task[r][i].did)
  BY <1>1 DEF Sound
<1>4. task[r][i].user \in Users
  BY <1>2, <1>3, OwnFacts
<1>5. Says(task[r][i].did, task[r][i].user)
  BY DEF Says
<1> QED
  BY <1>1, <1>2, <1>3, <1>4, <1>5, OwnFacts, BusyFacts

(* Steps that leave the keys of Redis and the rows of PostgreSQL alone.     *)
LEMMA KeysAlone ==
  ASSUME IInv, KeysOK', PagesOK', StoresOK', TaskMoves, Onward, Grows, UNCHANGED <<redis, young>>,
         NEW r \in Replicas, NEW i \in 1..Slots, Others(r, i),
         NEW e, NEW p, Progressed(r, cache[r], e, p), e \notin Anons, e \in Dids => Says(e, p),
         task'[r][i].pc # "lookup",
         \A d \in Plain' : task'[r][i].pc = "link" /\ task'[r][i].from = None /\ task'[r][i].anon = d =>
           pdi[d] \in {None, task'[r][i].user},
         \A a \in Anons : a \in Plain' => link'[a] = link[a] \/ (redis[a] = link'[a] /\ link'[a] \in Users),
         \A a \in Anons : override'[a] = override[a] \/ Known(a),
         \A a \in Anons : task'[r][i].anon = a /\ task'[r][i].pc \in {"override", "link"} /\ task'[r][i].from # None =>
           Known(a) \/ Stored(a),
         \A a \in Anons : Spared(a, Causes)' => Calm(a) \/ Holds(a)'
  PROVE  IInv'
<1>1. \A d \in Dids : KeyMoves(d)
  BY DEF KeyMoves
<1>2. PagesOK
  BY DEF IInv
<1>3. ASSUME NEW d \in Plain' PROVE Moves(d)
  <2>1. d \in Dids /\ redis'[d] = redis[d] /\ pdi'[d] = pdi[d]
    BY DEF Progressed, Plain
  <2>2. \A x \in Persons : Says(d, x)' => Says(d, x)
    BY <1>2, <2>1, SaysProgressed
  <2>3. \A q \in Replicas, k \in 1..Slots :
          /\ task'[q][k].pc = "lookup" => task'[q][k] = task[q][k]
          /\ task'[q][k].pc = "link" /\ task'[q][k].from = None /\ task'[q][k].anon = d =>
               task'[q][k] = task[q][k] \/ pdi'[d] \in {None, task'[q][k].user}
    BY <2>1 DEF Others
  <2> QED
    BY <2>1, <2>2, <2>3 DEF Moves
<1>4. ASSUME NEW a \in Anons PROVE Keeps(a)
  BY <1>2, KeepsStep
<1> QED
  BY <1>1, <1>3, <1>4, Close

(* A $identify of the device goes on: what the others have read is the same user. *)
LEMMA HoldsStep ==
  ASSUME NEW a \in Anons, Holds(a), NEW r \in Replicas, NEW i \in 1..Slots, Others(r, i),
         override'[a] # None => link'[a] = override'[a] /\ (redis'[a] \in {None, a, override'[a]} \/ Linking(a)'),
         \/ override'[a] = override[a] /\ (redis'[a] = None => redis[a] = None)
         \/ \A q \in Replicas, k \in 1..Slots : Links(task[q][k], a) => task[q][k].user = override'[a],
         Links(task'[r][i], a) =>
           /\ \A q \in Replicas, k \in 1..Slots : Links(task[q][k], a) => task[q][k].user = task'[r][i].user
           /\ task'[r][i].pc = "link" =>
                /\ task'[r][i].from # None => override'[a] = task'[r][i].user
                /\ task'[r][i].from = None /\ redis'[a] = None => override'[a] \in {None, task'[r][i].user}
  PROVE  Holds(a)'
<1>1. \A q \in Replicas, k \in 1..Slots : (q = r /\ k = i) \/ task'[q][k] = task[q][k]
  BY DEF Others
<1>2. ASSUME NEW q \in Replicas, NEW k \in 1..Slots, task'[q][k].anon = a, task'[q][k].pc = "link"
      PROVE  /\ task'[q][k].from # None => override'[a] = task'[q][k].user
             /\ task'[q][k].from = None /\ redis'[a] = None => override'[a] \in {None, task'[q][k].user}
  <2>1. CASE q = r /\ k = i
    BY <1>2, <2>1 DEF Links
  <2>2. CASE task'[q][k] = task[q][k]
    <3>1. Links(task[q][k], a)
      BY <1>2, <2>2 DEF Links
    <3> QED
      BY <1>2, <2>2, <3>1 DEF Holds
  <2> QED
    BY <1>1, <2>1, <2>2
<1>3. ASSUME NEW q \in Replicas, NEW k \in 1..Slots, NEW s \in Replicas, NEW j \in 1..Slots,
             Links(task'[q][k], a), Links(task'[s][j], a)
      PROVE  task'[q][k].user = task'[s][j].user
  <2>1. CASE q = r /\ k = i
    BY <1>1, <1>3, <2>1
  <2>2. CASE s = r /\ j = i
    BY <1>1, <1>3, <2>2
  <2>3. CASE task'[q][k] = task[q][k] /\ task'[s][j] = task[s][j]
    BY <1>3, <2>3 DEF Holds
  <2> QED
    BY <1>1, <2>1, <2>2, <2>3
<1> QED
  BY <1>2, <1>3 DEF Holds, Links

LEMMA AnonReadKeeps ==
  ASSUME IInv, NEW r \in Replicas, NEW i \in 1..Slots, AnonRead(r, i)
  PROVE  IInv'
<1> DEFINE b == task[r][i].anon
           u == task[r][i].user
           e == task[r][i].did
           person == IF cache[r][b] # None THEN cache[r][b] ELSE redis[b]
           ids == {a \in {b} : Overlaps(r, i) \/ (person = u /\ redis[a] # person)}
           cause == "raced"
<1>1. KeysOK /\ PagesOK /\ StoresOK /\ Held /\ task[r][i].pc = "anon"
  BY DEF IInv, AnonRead, At
<1>2. /\ task[r][i] \in Task /\ Sound(task[r][i], override) /\ Busy(r, b)
      /\ b \in Anons /\ b \in Dids /\ b # None /\ b \notin Users
      /\ e \in Users /\ e \in Dids /\ e # b
      /\ u \in Users /\ u # None /\ u # b /\ u \in Own(e) /\ Says(e, u)
  BY <1>1, IdentifyFacts
<1>3. task[r][i].from = None
  BY <1>1, <1>2 DEF Sound
<1>4. UNCHANGED <<redis, young, override, pages, faults>> /\ Onward /\ Lapse(ids, cause)
  BY DEF AnonRead, boundVars, Onward
<1>5. /\ lapses' \in SUBSET (Dids \X Causes) /\ Grows
      /\ \A d \in ids : <<d, "raced">> \in lapses'
  <2>1. ids \in SUBSET Dids /\ cause \in Causes /\ cause = "raced"
    BY <1>2 DEF Causes
  <2> HIDE DEF ids, cause
  <2> QED
    BY <1>1, <1>4, <2>1, LapseFacts
<1>6. person \in Maybe(Own(b)) /\ (person = None => redis[b] = None)
      /\ (person # None => Known(b) \/ Stored(b))
  <2>1. person \in Maybe(Own(b)) /\ (person = None => redis[b] = None)
    BY <1>1, <1>2 DEF KeysOK, PagesOK
  <2>2. CASE cache[r][b] # None
    <3>1. cache[r][b] \in Persons
      BY <1>1, <1>2, <2>2 DEF PagesOK, Maybe
    <3> QED
      BY <1>2, <2>1, <3>1 DEF Known, Says
  <2>3. CASE cache[r][b] = None
    BY <2>1, <2>3 DEF Stored
  <2> QED
    BY <2>1, <2>2, <2>3
<1>7. CacheOK(cache[r]) /\ cache \in [Replicas -> [Dids -> Maybe(Persons)]]
  BY <1>1, CacheFacts DEF PagesOK
<1>8. Overlaps(r, i) \/ (person = u /\ redis[b] # person) => b \in ids
  OBVIOUS
<1>9. ~Overlaps(r, i) => \A q \in Replicas, k \in 1..Slots : Links(task[q][k], b) => task[q][k].user = u
  BY DEF Overlaps, Links
<1>10. /\ person = u => Linked(r, i) /\ Finish(r, i, cache[r], u, None)
       /\ person # u => /\ UNCHANGED <<link, cache, storeVars>>
                        /\ \/ /\ person # None
                              /\ task' = [task EXCEPT ![r][i] = [@ EXCEPT !.pc = "override", !.read = person, !.from = person]]
                           \/ /\ person = None
                              /\ task' = [task EXCEPT ![r][i].pc = "anonRow", ![r][i].read = None]
  BY <1>2 DEF AnonRead
<1>11. ASSUME NEW a \in Anons, Spared(a, Causes)' PROVE Holds(a) /\ (a = b => b \notin ids)
  <2>1. a \in Dids
    BY OwnFacts
  <2>2. Spared(a, Causes)
    BY <1>5, <1>11 DEF Spared, Grows
  <2>3. <<a, "raced">> \notin lapses'
    BY <1>11 DEF Spared, Causes
  <2> HIDE DEF ids
  <2> QED
    BY <1>1, <1>5, <2>2, <2>3 DEF Held
<1>12. CASE person = u
  <2>1. Linked(r, i) /\ Finish(r, i, cache[r], u, None) /\ link' = [link EXCEPT ![b] = u]
    BY <1>10, <1>12 DEF Linked
  <2>2. e = task[r][i].did /\ b = task[r][i].anon
    OBVIOUS
  <2> HIDE DEF b, u, e, person, ids, cause
  <2>3. b \notin ids => ~Overlaps(r, i) /\ redis[b] = u
    BY <1>8, <1>12
  <2>4. /\ PagesOK' /\ StoresOK' /\ Progressed(r, cache[r], e, u) /\ task'[r][i] = Done(e, u) /\ Others(r, i)
    <3>1. /\ PagesOK /\ StoresOK /\ Onward /\ CacheOK(cache[r]) /\ e \in Dids /\ u \in Own(e)
          /\ e = task[r][i].did /\ Finish(r, i, cache[r], u, None)
      BY <1>1, <1>2, <1>4, <1>7, <2>1, <2>2
    <3> QED
      BY <3>1, FinishStep
  <2>5. task'[r][i].pc = "done" /\ task'[r][i].anon = None
    BY <1>2, <2>4, DoneFacts
  <2>6. KeysOK'
    <3>1. link' \in [Anons -> Maybe(Users)]
      BY <1>1, <1>2, <2>1 DEF KeysOK, Maybe
    <3> QED
      BY <1>1, <1>4, <1>5, <3>1 DEF KeysOK
  <2>7. TaskMoves
    <3>1. \A q \in Replicas, d \in Dids : Busy(q, d)' /\ cache'[q][d] = None => Busy(q, d) /\ cache[q][d] = None
      BY <2>4 DEF Progressed
    <3> QED
      BY <2>4, <2>5, <3>1 DEF TaskMoves, Others
  <2>8. \A a \in Anons : a \in Plain' => link'[a] = link[a] \/ (redis[a] = link'[a] /\ link'[a] \in Users)
    <3>1. ASSUME NEW a \in Anons, a \in Plain', a = b PROVE redis[a] = u
      <4>1. <<a, "raced">> \notin lapses'
        BY <3>1 DEF Plain, Spared
      <4> QED
        BY <1>5, <2>3, <3>1, <4>1
    <3> QED
      BY <1>1, <1>2, <2>1, <3>1 DEF KeysOK
  <2>9. \A a \in Anons : override'[a] = override[a]
    BY <1>4
  <2>10. ASSUME NEW a \in Anons, Spared(a, Causes)' PROVE Calm(a) \/ Holds(a)'
    <3>1. ~HalfLinked(task[r][i]) /\ ~Links(task'[r][i], a)
      BY <1>1, <2>5 DEF HalfLinked, Links
    <3>2. CASE a # b
      <4>1. redis'[a] = redis[a] /\ override'[a] = override[a] /\ link'[a] = link[a]
        BY <1>1, <1>2, <1>4, <2>1, <3>2 DEF KeysOK
      <4> QED
        BY <1>1, <2>4, <3>1, <4>1, CalmStep
    <3>3. CASE a = b
      <4>1. Holds(b) /\ ~Overlaps(r, i) /\ redis[b] = u
        BY <1>11, <2>3, <2>10, <3>3
      <4>2. override[b] # None => override[b] = u
        <5>1. SUFFICES ASSUME override[b] # None, override[b] # u PROVE FALSE
          OBVIOUS
        <5>2. Linking(b)
          BY <1>2, <4>1, <5>1 DEF Holds
        <5>3. PICK q \in Replicas, k \in 1..Slots : task[q][k].anon = b /\ HalfLinked(task[q][k])
          BY <5>2 DEF Linking
        <5>4. task[q][k].user = override[b] /\ task[q][k].pc = "link"
          BY <4>1, <5>3 DEF Holds, HalfLinked
        <5>5. task[q][k].user = u
          BY <1>9, <4>1, <5>3, <5>4 DEF Links
        <5> QED
          BY <5>1, <5>4, <5>5
      <4>3. link'[b] = u /\ redis'[b] = u /\ override'[b] = override[b]
        BY <1>1, <1>2, <1>4, <2>1, <4>1 DEF KeysOK
      <4> QED
        BY <1>2, <2>4, <3>1, <3>3, <4>1, <4>2, <4>3, HoldsStep
    <3> QED
      BY <3>2, <3>3
  <2>11. UNCHANGED <<redis, young>> /\ e \notin Anons /\ Says(e, u)
    BY <1>2, <1>4, OwnFacts
  <2> QED
    BY <1>4, <1>5, <2>4, <2>5, <2>6, <2>7, <2>8, <2>9, <2>10, <2>11, KeysAlone
<1>13. CASE person # u
  <2> DEFINE t == IF person = None THEN [task[r][i] EXCEPT !.pc = "anonRow", !.read = None]
                  ELSE [task[r][i] EXCEPT !.pc = "override", !.read = person, !.from = person]
  <2>1. task' = [task EXCEPT ![r][i] = t] /\ UNCHANGED <<link, cache, storeVars>>
    BY <1>1, <1>10, <1>13 DEF PagesOK, Task
  <2>2. Put(r, i, t, cache[r])
    BY <1>7, <2>1 DEF Put
  <2>3. /\ t \in Task /\ t.did = e /\ t.anon = b /\ t.user = u
        /\ \/ person = None /\ t.pc = "anonRow" /\ t.read = None /\ t.from = None
           \/ person # None /\ person \in Own(b) /\ t.pc = "override" /\ t.from = person
    <3>1. person \in Maybe(Persons)
      BY <1>2, <1>6, OwnFacts DEF Maybe
    <3>2. person # None => person \in Own(b)
      BY <1>6 DEF Maybe
    <3> QED
      BY <1>2, <1>3, <3>1, <3>2 DEF Task
  <2>4. u = task[r][i].user /\ b = task[r][i].anon /\ e = task[r][i].did
    OBVIOUS
  <2>5. b \notin ids => ~Overlaps(r, i)
    BY <1>8
  <2> HIDE DEF b, u, e, person, t, ids, cause
  <2>6. Sound(t, override')
    <3>1. t.user \in Own(t.did) /\ e # None
      BY <1>2, <2>3, OwnFacts
    <3> QED
      BY <1>2, <2>3, <3>1 DEF Sound
  <2>7. /\ PagesOK' /\ StoresOK' /\ Progressed(r, cache[r], None, None) /\ task'[r][i] = t /\ Others(r, i)
    <3>1. t.did = task[r][i].did /\ t.anon = task[r][i].anon /\ t.user = task[r][i].user /\ t.pc # "honor"
      BY <2>3, <2>4
    <3> QED
      BY <1>1, <1>4, <1>7, <2>1, <2>2, <2>3, <2>6, <3>1, GotoStep
  <2>8. KeysOK'
    BY <1>1, <1>4, <1>5, <2>1 DEF KeysOK
  <2>9. TaskMoves
    <3>1. \A q \in Replicas, d \in Dids : Busy(q, d)' /\ cache'[q][d] = None => Busy(q, d) /\ cache[q][d] = None
      BY <2>1, <2>7 DEF Progressed
    <3> QED
      BY <1>4, <1>6, <2>3, <2>7, <3>1 DEF TaskMoves, Others
  <2>10. \A a \in Anons : override'[a] = override[a] /\ link'[a] = link[a]
    BY <1>4, <2>1
  <2>11. ASSUME NEW a \in Anons, Spared(a, Causes)' PROVE Calm(a) \/ Holds(a)'
    <3>1. ~HalfLinked(task[r][i])
      BY <1>1 DEF HalfLinked
    <3>2. CASE a # b
      <4>1. redis'[a] = redis[a] /\ ~Links(task'[r][i], a)
        BY <1>4, <2>3, <2>7, <3>2 DEF Links
      <4> QED
        BY <1>1, <2>7, <2>10, <3>1, <4>1, CalmStep
    <3>3. CASE a = b
      <4>1. Holds(b) /\ ~Overlaps(r, i)
        BY <1>11, <2>5, <2>11, <3>3
      <4>2. \A q \in Replicas, k \in 1..Slots : Links(task[q][k], b) => task[q][k].user = task'[r][i].user
        BY <1>9, <2>3, <2>7, <4>1
      <4>3. Linking(a) => Linking(a)'
        BY <2>7, <3>1, LinkingStays
      <4>4. override'[b] = override[b] /\ link'[b] = link[b] /\ redis'[b] = redis[b]
        BY <1>2, <1>4, <2>10
      <4>5. override'[a] # None => link'[a] = override'[a] /\ (redis'[a] \in {None, a, override'[a]} \/ Linking(a)')
        BY <3>3, <4>1, <4>3, <4>4 DEF Holds
      <4>6. task'[r][i].pc # "link"
        BY <2>3, <2>7
      <4> QED
        BY <1>2, <2>7, <3>3, <4>1, <4>2, <4>4, <4>5, <4>6, HoldsStep
    <3> QED
      BY <3>2, <3>3
  <2>12. task'[r][i].pc \notin {"lookup", "link"} /\ None \notin Anons /\ None \notin Dids
    BY <2>3, <2>7, IdsAssumption DEF Dids
  <2>13. \A a \in Anons : task'[r][i].anon = a /\ task'[r][i].pc \in {"override", "link"} /\ task'[r][i].from # None =>
           Known(a) \/ Stored(a)
    BY <1>6, <2>3, <2>7
  <2>14. UNCHANGED <<redis, young>>
    BY <1>4
  <2> QED
    BY <1>4, <1>5, <2>7, <2>8, <2>9, <2>10, <2>11, <2>12, <2>13, <2>14, KeysAlone
<1> QED
  BY <1>12, <1>13

LEMMA AnonRowKeeps ==
  ASSUME IInv, NEW r \in Replicas, NEW i \in 1..Slots, AnonRow(r, i)
  PROVE  IInv'
<1> DEFINE b == task[r][i].anon
           u == task[r][i].user
           e == task[r][i].did
           row == pdi[b]
           ids == {a \in {b} : Stale(a, row)}
           cause == "stale row"
           t == IF row \in {None, u} THEN [task[r][i] EXCEPT !.pc = "link"]
                ELSE [task[r][i] EXCEPT !.pc = "override", !.from = row]
<1>1. KeysOK /\ PagesOK /\ StoresOK /\ Kept /\ Held /\ task[r][i].pc = "anonRow"
  BY DEF IInv, AnonRow, At
<1>2. /\ task[r][i] \in Task /\ Sound(task[r][i], override)
      /\ b \in Anons /\ b \in Dids /\ b # None /\ b \notin Users
      /\ e \in Users /\ e \in Dids
      /\ u \in Users /\ u # None /\ u # b /\ u \in Own(e)
  BY <1>1, IdentifyFacts
<1>3. task[r][i].from = None /\ task[r][i].read = None
  BY <1>1, <1>2 DEF Sound
<1>4. UNCHANGED <<redis, young, override, cache, link, pages, faults, storeVars>> /\ Onward /\ Lapse(ids, cause)
  BY DEF AnonRow, boundVars, Onward
<1>5. /\ lapses' \in SUBSET (Dids \X Causes) /\ Grows
      /\ \A d \in ids : <<d, "stale row">> \in lapses'
  <2>1. ids \in SUBSET Dids /\ cause \in Causes /\ cause = "stale row"
    BY <1>2 DEF Causes
  <2> HIDE DEF ids, cause
  <2> QED
    BY <1>1, <1>4, <2>1, LapseFacts
<1>6. row \in Maybe(Own(b)) /\ row \in Maybe(Persons)
  BY <1>1, <1>2 DEF StoresOK
<1>7. CacheOK(cache[r]) /\ cache \in [Replicas -> [Dids -> Maybe(Persons)]]
  BY <1>1, CacheFacts DEF PagesOK
<1>8. b \notin ids => ~Stale(b, row)
  OBVIOUS
<1>9. Put(r, i, t, cache[r])
  <2>1. CASE row \in {None, u}
    BY <1>4, <1>7, <2>1 DEF AnonRow, Goto, Put
  <2>2. CASE row \notin {None, u}
    <3>1. task' = [task EXCEPT ![r][i] = t]
      BY <1>1, <1>2, <2>2 DEF AnonRow, PagesOK, Task
    <3> QED
      BY <1>4, <1>7, <3>1 DEF Put
  <2> QED
    BY <2>1, <2>2
<1>10. /\ t \in Task /\ t.did = e /\ t.anon = b /\ t.user = u
       /\ \/ row \in {None, u} /\ t.pc = "link" /\ t.read = None /\ t.from = None
          \/ row # None /\ row \in Own(b) /\ t.pc = "override" /\ t.from = row
  <2>1. row # None => row \in Own(b)
    BY <1>6 DEF Maybe
  <2> QED
    BY <1>2, <1>3, <1>6, <2>1 DEF Task
<1>11. u = task[r][i].user /\ b = task[r][i].anon /\ e = task[r][i].did /\ row = pdi[b]
  OBVIOUS
<1> HIDE DEF b, u, e, row, t, ids, cause
<1>12. Sound(t, override')
  <2>1. t.user \in Own(t.did) /\ e # None
    BY <1>2, <1>10, OwnFacts
  <2> QED
    BY <1>2, <1>10, <2>1 DEF Sound
<1>13. /\ PagesOK' /\ StoresOK' /\ Progressed(r, cache[r], None, None) /\ task'[r][i] = t /\ Others(r, i)
  <2>1. t.did = task[r][i].did /\ t.anon = task[r][i].anon /\ t.user = task[r][i].user /\ t.pc # "honor"
    BY <1>10, <1>11
  <2>2. UNCHANGED storeVars
    BY <1>4
  <2> QED
    BY <1>1, <1>4, <1>7, <1>9, <1>10, <1>12, <2>1, <2>2, GotoStep
<1>14. KeysOK'
  BY <1>1, <1>4, <1>5 DEF KeysOK
<1>15. TaskMoves
  <2>1. \A q \in Replicas, d \in Dids : Busy(q, d)' /\ cache'[q][d] = None => Busy(q, d) /\ cache[q][d] = None
    BY <1>4, <1>13 DEF Progressed
  <2>2. /\ task'[r][i].pc \notin {"lookup", "get"}
        /\ task[r][i].pc \in {"anonRow", "link"} /\ task[r][i].from = None /\ task[r][i].anon = task'[r][i].anon
    BY <1>1, <1>3, <1>10, <1>11, <1>13
  <2> QED
    BY <1>13, <2>1, <2>2 DEF TaskMoves, Others
<1>16. \A a \in Anons : override'[a] = override[a] /\ link'[a] = link[a] /\ redis'[a] = redis[a]
  BY <1>4
<1>17. ASSUME NEW a \in Anons, Spared(a, Causes)' PROVE Calm(a) \/ Holds(a)'
  <2>1. a \in Dids /\ Spared(a, Causes) /\ Spared(a, {"forgotten"}) /\ Holds(a) /\ (a = b => b \notin ids)
    <3>1. a \in Dids
      BY OwnFacts
    <3>2. Spared(a, Causes) /\ Spared(a, {"forgotten"})
      BY <1>5, <1>17 DEF Spared, Grows, Causes
    <3>3. <<a, "stale row">> \notin lapses'
      BY <1>17 DEF Spared, Causes
    <3> QED
      BY <1>1, <1>5, <3>1, <3>2, <3>3 DEF Held
  <2>2. ~HalfLinked(task[r][i])
    BY <1>1 DEF HalfLinked
  <2>3. CASE a # b \/ t.pc = "override"
    <3>1. Links(task'[r][i], a) => /\ Links(task[r][i], a) /\ task'[r][i].user = task[r][i].user
                                   /\ task'[r][i].pc # "link"
      BY <1>1, <1>10, <1>11, <1>13, <2>3 DEF Links
    <3> QED
      BY <1>1, <1>13, <1>16, <2>2, <3>1, CalmStep
  <2>4. CASE a = b /\ t.pc = "link" /\ row \in {None, u} /\ t.from = None
    <3>1. \A q \in Replicas, k \in 1..Slots : Links(task[q][k], a) => task[q][k].user = task'[r][i].user
      <4>1. Links(task[r][i], a) /\ task[r][i].user = task'[r][i].user
        BY <1>1, <1>10, <1>11, <1>13, <2>4 DEF Links
      <4> QED
        BY <2>1, <4>1 DEF Holds
    <3>2. Linking(a) => Linking(a)'
      BY <1>13, <2>2, LinkingStays
    <3>3. override'[a] # None => link'[a] = override'[a] /\ (redis'[a] \in {None, a, override'[a]} \/ Linking(a)')
      BY <1>16, <2>1, <3>2 DEF Holds
    <3>4. redis'[a] = None => override'[a] \in {None, task'[r][i].user}
      <4>1. SUFFICES ASSUME redis[a] = None, override[a] # None PROVE override[a] = u
        BY <1>10, <1>13, <1>16
      <4>2. Known(a) /\ Stored(a)
        <5>1. Known(a)
          BY <4>1 DEF Known
        <5> QED
          BY <1>1, <2>1, <5>1 DEF Kept
      <4>3. row = u
        BY <1>11, <2>4, <4>1, <4>2 DEF Stored
      <4>4. ~Stale(b, row)
        BY <1>8, <2>1, <2>4
      <4> QED
        BY <1>2, <2>4, <4>1, <4>3, <4>4 DEF Stale
    <3> QED
      BY <1>10, <1>13, <1>16, <2>1, <2>4, <3>1, <3>3, <3>4, HoldsStep
  <2> QED
    BY <1>10, <2>3, <2>4
<1>18. /\ task'[r][i].pc # "lookup" /\ None \notin Anons /\ None \notin Dids
       /\ \A d \in Plain' : task'[r][i].pc = "link" /\ task'[r][i].from = None /\ task'[r][i].anon = d =>
            pdi[d] \in {None, task'[r][i].user}
  BY <1>10, <1>11, <1>13, IdsAssumption DEF Dids
<1>19. \A a \in Anons : task'[r][i].anon = a /\ task'[r][i].pc \in {"override", "link"} /\ task'[r][i].from # None =>
         Known(a) \/ Stored(a)
  BY <1>10, <1>11, <1>13 DEF Stored
<1>20. UNCHANGED <<redis, young>>
  BY <1>4
<1> QED
  BY <1>4, <1>5, <1>13, <1>14, <1>15, <1>16, <1>17, <1>18, <1>19, <1>20, KeysAlone

LEMMA WriteOverrideKeeps ==
  ASSUME IInv, NEW r \in Replicas, NEW i \in 1..Slots, WriteOverride(r, i)
  PROVE  IInv'
<1> DEFINE b == task[r][i].anon
           u == task[r][i].user
           e == task[r][i].did
           t == [task[r][i] EXCEPT !.pc = "link"]
<1>1. KeysOK /\ PagesOK /\ StoresOK /\ Held /\ task[r][i].pc = "override"
  BY DEF IInv, WriteOverride, At
<1>2. /\ task[r][i] \in Task /\ Sound(task[r][i], override)
      /\ b \in Anons /\ b \in Dids /\ b # None /\ b \notin Users
      /\ e \in Users /\ e \in Dids
      /\ u \in Users /\ u # None /\ u # b /\ u \in Own(e)
  BY <1>1, IdentifyFacts
<1>3. task[r][i].from \in Own(b) /\ task[r][i].from # None
  <2>1. task[r][i].from \in Own(b)
    BY <1>1, <1>2 DEF Sound
  <2> QED
    BY <1>2, <2>1, OwnFacts
<1>4. /\ UNCHANGED <<redis, young, cache, lapses, pages, faults, storeVars>> /\ Grows
      /\ override' = [override EXCEPT ![b] = u] /\ link' = [link EXCEPT ![b] = u]
  BY DEF WriteOverride, boundVars, Linked, Grows
<1>5. CacheOK(cache[r]) /\ cache \in [Replicas -> [Dids -> Maybe(Persons)]]
  BY <1>1, CacheFacts DEF PagesOK
<1>6. Put(r, i, t, cache[r])
  <2>1. task' = [task EXCEPT ![r][i] = t]
    BY DEF WriteOverride, Goto
  <2> QED
    BY <1>4, <1>5, <2>1 DEF Put
<1>7. t \in Task /\ t.did = e /\ t.anon = b /\ t.user = u /\ t.pc = "link" /\ t.from = task[r][i].from
  BY <1>2 DEF Task
<1>8. u = task[r][i].user /\ b = task[r][i].anon /\ e = task[r][i].did
  OBVIOUS
<1> HIDE DEF b, u, e, t
<1>9. /\ override' \in [Dids -> Maybe(Users)] /\ override'[b] = u
      /\ \A d \in Dids : d # b => override'[d] = override[d]
      /\ link' \in [Anons -> Maybe(Users)] /\ link'[b] = u
      /\ \A a \in Anons : a # b => link'[a] = link[a]
  BY <1>1, <1>2, <1>4 DEF KeysOK, Maybe
<1>10. KeysOK' /\ Onward
  <2>1. \A v \in Users : override'[v] = None
    BY <1>1, <1>2, <1>9, OwnFacts DEF KeysOK
  <2> QED
    BY <1>1, <1>2, <1>4, <1>9, <2>1 DEF KeysOK, Onward
<1>11. Sound(t, override')
  <2>1. t.user \in Own(t.did) /\ e # None
    BY <1>2, <1>7, OwnFacts
  <2> QED
    BY <1>2, <1>3, <1>7, <1>9, <2>1 DEF Sound
<1>12. /\ PagesOK' /\ StoresOK' /\ Progressed(r, cache[r], None, None) /\ task'[r][i] = t /\ Others(r, i)
  <2>1. t.did = task[r][i].did /\ t.anon = task[r][i].anon /\ t.user = task[r][i].user /\ t.pc # "honor"
    BY <1>7, <1>8
  <2>2. UNCHANGED storeVars
    BY <1>4
  <2> QED
    BY <1>1, <1>5, <1>6, <1>7, <1>10, <1>11, <2>1, <2>2, GotoStep
<1>13. TaskMoves
  <2>1. \A q \in Replicas, d \in Dids : Busy(q, d)' /\ cache'[q][d] = None => Busy(q, d) /\ cache[q][d] = None
    BY <1>4, <1>12 DEF Progressed
  <2>2. task'[r][i].pc \notin {"lookup", "get"} /\ task'[r][i].from # None
    BY <1>3, <1>7, <1>12
  <2> QED
    BY <1>12, <2>1, <2>2 DEF TaskMoves, Others
<1>14. Known(b) /\ b \notin Plain'
  BY <1>1, <1>2, <1>3, <1>8, <1>9 DEF Known, Plain
<1>15. ASSUME NEW a \in Anons, Spared(a, Causes)' PROVE Calm(a) \/ Holds(a)'
  <2>1. a \in Dids /\ Holds(a)
    <3>1. a \in Dids
      BY OwnFacts
    <3>2. Spared(a, Causes)
      BY <1>15, <1>4 DEF Spared
    <3> QED
      BY <1>1, <3>1, <3>2 DEF Held
  <2>2. CASE a # b
    <3>1. override'[a] = override[a] /\ link'[a] = link[a] /\ redis'[a] = redis[a]
      BY <1>4, <1>9, <2>1, <2>2
    <3>2. ~HalfLinked(task[r][i]) /\ ~Links(task'[r][i], a)
      BY <1>1, <1>7, <1>12, <2>2 DEF HalfLinked, Links
    <3> QED
      BY <1>1, <1>12, <3>1, <3>2, CalmStep
  <2>3. CASE a = b
    <3>1. \A q \in Replicas, k \in 1..Slots : Links(task[q][k], a) => task[q][k].user = u
      <4>1. Links(task[r][i], a) /\ task[r][i].user = u
        BY <1>1, <1>8, <2>3 DEF Links
      <4> QED
        BY <2>1, <4>1 DEF Holds
    <3>2. override'[a] = u /\ link'[a] = u
      BY <1>9, <2>3
    <3>3. Linking(a)'
      <4>1. task'[r][i].anon = a /\ HalfLinked(task'[r][i])
        BY <1>3, <1>7, <1>12, <2>3 DEF HalfLinked
      <4> QED
        BY <4>1 DEF Linking, HalfLinked
    <3>4. task'[r][i].user = u /\ task'[r][i].from # None
      BY <1>3, <1>7, <1>12
    <3> QED
      BY <1>12, <2>1, <3>1, <3>2, <3>3, <3>4, HoldsStep
  <2> QED
    BY <2>2, <2>3
<1>16. /\ task'[r][i].pc # "lookup" /\ task'[r][i].from # None /\ None \notin Anons /\ None \notin Dids
  BY <1>3, <1>7, <1>12, IdsAssumption DEF Dids
<1>17. \A a \in Anons : /\ a \in Plain' => link'[a] = link[a]
                        /\ override'[a] = override[a] \/ Known(a)
                        /\ task'[r][i].anon = a => Known(a)
  BY <1>7, <1>9, <1>12, <1>14, OwnFacts
<1>18. UNCHANGED <<redis, young>>
  BY <1>4
<1>19. /\ None \notin Anons /\ (None \in Dids => Says(None, None))
       /\ task'[r][i].pc # "lookup"
       /\ \A d \in Plain' : task'[r][i].pc = "link" /\ task'[r][i].from = None /\ task'[r][i].anon = d =>
            pdi[d] \in {None, task'[r][i].user}
       /\ \A a \in Anons : a \in Plain' => link'[a] = link[a] \/ (redis[a] = link'[a] /\ link'[a] \in Users)
       /\ \A a \in Anons : override'[a] = override[a] \/ Known(a)
       /\ \A a \in Anons : task'[r][i].anon = a /\ task'[r][i].pc \in {"override", "link"} /\ task'[r][i].from # None =>
            Known(a) \/ Stored(a)
       /\ \A a \in Anons : Spared(a, Causes)' => Calm(a) \/ Holds(a)'
  BY <1>15, <1>16, <1>17
<1>20. KeysOK' /\ PagesOK' /\ StoresOK' /\ Onward /\ Grows /\ Others(r, i) /\ Progressed(r, cache[r], None, None)
  BY <1>4, <1>10, <1>12
<1> QED
  BY <1>13, <1>18, <1>19, <1>20, KeysAlone

LEMMA LinkKeeps ==
  ASSUME IInv, NEW r \in Replicas, NEW i \in 1..Slots, Link(r, i)
  PROVE  IInv'
<1> DEFINE b == task[r][i].anon
           u == task[r][i].user
           e == task[r][i].did
           from == task[r][i].from
           c == Cached(r, b, u)
           ids == {a \in {b} : redis[a] # task[r][i].read}
           cause == "raced"
<1>1. KeysOK /\ PagesOK /\ StoresOK /\ Agree /\ Held /\ task[r][i].pc = "link"
  BY DEF IInv, Link, At
<1>2. /\ Sound(task[r][i], override)
      /\ b \in Anons /\ b \in Dids /\ b # None /\ b \notin Users
      /\ e \in Users /\ e \in Dids /\ e # b /\ e \notin Anons
      /\ u \in Users /\ u # None /\ u # b /\ u \in Own(e) /\ u \in Own(b) /\ u \in Persons /\ Says(e, u)
  BY <1>1, IdentifyFacts, OwnFacts
<1>3. /\ from = None => task[r][i].read = None
      /\ from # None => from \in Own(b) /\ override[b] # None
  BY <1>1, <1>2 DEF Sound
<1>4. /\ UNCHANGED <<override, pages, faults>> /\ Onward /\ Lapse(ids, cause)
      /\ Set(b, u) /\ Finish(r, i, c, u, from)
      /\ link' = IF from = None THEN [link EXCEPT ![b] = u] ELSE link
  BY DEF Link, Linked, boundVars, Onward
<1>5. /\ lapses' \in SUBSET (Dids \X Causes) /\ Grows
      /\ \A d \in ids : <<d, "raced">> \in lapses'
  <2>1. ids \in SUBSET Dids /\ cause \in Causes /\ cause = "raced"
    BY <1>2 DEF Causes
  <2> HIDE DEF ids, cause
  <2> QED
    BY <1>1, <1>4, <2>1, LapseFacts
<1>6. CacheOK(c) /\ c[b] = u /\ \A d \in Dids : d # b => c[d] = cache[r][d]
  BY <1>1, <1>2, CacheFacts
<1>7. from = None \/ <<from, u>> \in Merge'
  <2>1. from # None => from \in Persons /\ (from \in Users \/ override'[from] # None)
    BY <1>2, <1>3, <1>4, OwnFacts
  <2> QED
    BY <1>2, <2>1 DEF Merge
<1>8. /\ u = task[r][i].user /\ b = task[r][i].anon /\ e = task[r][i].did /\ from = task[r][i].from
      /\ b \notin ids => redis[b] = task[r][i].read
  OBVIOUS
<1> HIDE DEF b, u, e, from, c, ids, cause
<1>9. /\ PagesOK' /\ StoresOK' /\ Progressed(r, c, e, u) /\ task'[r][i] = Done(e, u) /\ Others(r, i)
  <2>1. /\ PagesOK /\ StoresOK /\ Onward /\ CacheOK(c) /\ e \in Dids /\ u \in Own(e)
        /\ e = task[r][i].did /\ Finish(r, i, c, u, from)
    BY <1>1, <1>2, <1>4, <1>6, <1>8
  <2> QED
    BY <1>7, <2>1, FinishStep
<1>10. task'[r][i].pc = "done" /\ task'[r][i].anon = None
  BY <1>2, <1>9, DoneFacts
<1>11. /\ redis' \in [Dids -> Maybe(Persons)] /\ young' \in SUBSET Dids
       /\ \A x \in Dids : redis'[x] \in Maybe(Own(x))
       /\ redis'[b] = u /\ b \in young' /\ young \subseteq young'
       /\ \A x \in Dids : x # b => redis'[x] = redis[x]
  BY <1>1, <1>2, <1>4, SetFacts
<1>12. link' \in [Anons -> Maybe(Users)] /\ (\A a \in Anons : a # b => link'[a] = link[a])
       /\ link'[b] = IF from = None THEN u ELSE link[b]
  BY <1>1, <1>2, <1>4 DEF KeysOK, Maybe
<1>13. KeysOK'
  BY <1>1, <1>4, <1>5, <1>11, <1>12 DEF KeysOK
<1>14. TaskMoves
  <2>1. \A q \in Replicas, d \in Dids : Busy(q, d)' /\ cache'[q][d] = None => Busy(q, d) /\ cache[q][d] = None
    BY <1>2, <1>6, <1>9 DEF Progressed
  <2> QED
    BY <1>9, <1>10, <2>1 DEF TaskMoves, Others
<1>15. \A d \in Dids : KeyMoves(d)
  BY <1>2, <1>11 DEF KeyMoves
<1>16. ASSUME NEW d \in Plain' PROVE Moves(d)
  <2>1. d \in Dids /\ d \in Plain /\ d # None
    BY <1>4, <1>5, OwnFacts DEF Plain, Spared, Grows
  <2>2. pdi'[d] = pdi[d]
    BY <1>9 DEF Progressed
  <2>3. \A q \in Replicas, k \in 1..Slots : task'[q][k].pc \in {"lookup", "link"} => task'[q][k] = task[q][k]
    BY <1>9, <1>10 DEF Others
  <2>4. CASE d # b
    <3>1. ASSUME NEW x \in Persons, Says(d, x)' PROVE Says(d, x)
      <4>1. c[d] = cache[r][d] /\ (d # e \/ (u = x => Says(d, x)))
        BY <1>2, <1>6, <2>1, <2>4
      <4> QED
        BY <1>1, <1>9, <2>1, <3>1, <4>1, SaysProgressed
    <3>2. redis'[d] = redis[d] /\ (d \in Anons => link'[d] = link[d])
      BY <1>11, <1>12, <2>1, <2>4
    <3> QED
      BY <2>2, <2>3, <3>1, <3>2 DEF Moves
  <2>5. CASE d = b
    <3>1. override[b] = None /\ <<b, "raced">> \notin lapses'
      BY <1>4, <2>1, <2>5 DEF Plain, Spared
    <3>2. from = None /\ redis[b] = None
      BY <1>3, <1>5, <1>8, <3>1
    <3>3. pdi[b] \in {None, u}
      BY <1>1, <1>2, <1>8, <2>1, <2>5, <3>2 DEF Agree
    <3>4. Joined(d, u)
      BY <1>2, <1>11, <2>5, <3>2, <3>3 DEF Joined
    <3>5. ASSUME NEW x \in Persons, Says(d, x)' PROVE Says(d, x) \/ x = u
      BY <1>2, <1>6, <1>9, <2>1, <2>5, <3>5 DEF Progressed
    <3>6. link'[d] = u
      BY <1>12, <2>5, <3>2
    <3> QED
      BY <1>2, <2>2, <2>3, <3>4, <3>5, <3>6 DEF Moves
  <2> QED
    BY <2>4, <2>5
<1>17. ASSUME NEW a \in Anons PROVE Keeps(a)
  <2>1. a \in Dids /\ a # e
    BY <1>2, OwnFacts
  <2>2. Stored(a) => redis'[a] # None \/ redis'[a] = redis[a]
    BY <1>2, <1>11, <2>1
  <2>3. CASE a # b
    <3>1. c[a] = cache[r][a] /\ task'[r][i].pc # "link" /\ task'[r][i].pc # "override" /\ override'[a] = override[a]
      BY <1>4, <1>6, <1>10, <2>1, <2>3
    <3> QED
      BY <1>1, <1>9, <2>1, <2>2, <3>1, KeepsStep
  <2>4. CASE a = b
    BY <1>2, <1>11, <2>4 DEF Keeps, Stored
  <2> QED
    BY <2>3, <2>4
<1>18. ASSUME NEW a \in Anons, Spared(a, Causes)' PROVE Calm(a) \/ Holds(a)'
  <2>1. a \in Dids /\ Holds(a) /\ (a = b => b \notin ids)
    <3>1. a \in Dids
      BY OwnFacts
    <3>2. Spared(a, Causes)
      BY <1>5, <1>18 DEF Spared, Grows
    <3>3. <<a, "raced">> \notin lapses'
      BY <1>18 DEF Spared, Causes
    <3> QED
      BY <1>1, <1>5, <3>1, <3>2, <3>3 DEF Held
  <2>2. override'[a] = override[a] /\ ~Links(task'[r][i], a)
    BY <1>4, <1>10 DEF Links
  <2>3. CASE a # b
    <3>1. link'[a] = link[a] /\ redis'[a] = redis[a] /\ (~HalfLinked(task[r][i]) \/ task[r][i].anon # a)
      BY <1>8, <1>11, <1>12, <2>1, <2>3
    <3> QED
      BY <1>1, <1>9, <2>2, <3>1, CalmStep
  <2>4. CASE a = b
    <3>1. redis[b] = task[r][i].read
      BY <1>8, <2>1, <2>4
    <3>2. from # None => override[b] = u /\ link[b] = u
      BY <1>1, <1>2, <1>8, <2>1, <2>4 DEF Holds
    <3>3. from = None => redis[b] = None /\ override[b] \in {None, u}
      BY <1>1, <1>3, <1>8, <2>1, <2>4, <3>1 DEF Holds
    <3>4. /\ override'[a] # None => link'[a] = override'[a] /\ redis'[a] = override'[a]
          /\ redis'[a] # None
      BY <1>2, <1>11, <1>12, <2>2, <2>4, <3>2, <3>3
    <3> QED
      BY <1>9, <2>1, <2>2, <3>4, HoldsStep
  <2> QED
    BY <2>3, <2>4
<1> QED
  BY <1>4, <1>5, <1>9, <1>13, <1>14, <1>15, <1>16, <1>17, <1>18, Close
-----------------------------------------------------------------------------
(* Pages, flushes, faults and time.                                         *)

(* Events of the page of r come or go; nothing else moves but its buffers.  *)
LEMMA PageKeeps ==
  ASSUME IInv, NEW r \in Replicas, KeysOK', PagesOK', StoresOK', Grows,
         UNCHANGED <<redis, young, override, link, pdi>>,
         \A q \in Replicas, k \in 1..Slots :
           task'[q][k] = task[q][k] \/ (q = r /\ task'[q][k].pc \in {"idle", "resolve"}),
         \A q \in Replicas, d \in Dids : Busy(q, d)' =>
           (Busy(q, d) /\ cache'[q][d] = cache[q][d]) \/ cache'[q][d] = redis[d],
         \A d \in Dids : \A x \in Persons : Says(d, x)' =>
           Says(d, x) \/ (redis[d] = x /\ (~Provisional(d) \/ d \notin Plain')),
         \A k \in 1..Slots : HalfLinked(task[r][k]) =>
           task'[r][k] = task[r][k] \/ <<task[r][k].anon, "half linked">> \in lapses'
  PROVE  IInv'
<1>1. \A q \in Replicas, k \in 1..Slots :
        task'[q][k].pc \notin {"idle", "resolve"} => task'[q][k] = task[q][k]
  OBVIOUS
<1>2. TaskMoves
  <2>1. \A q \in Replicas, d \in Dids : Busy(q, d)' /\ cache'[q][d] = None =>
          (Busy(q, d) /\ cache[q][d] = None) \/ redis'[d] = None
    OBVIOUS
  <2>2. \A q \in Replicas, k \in 1..Slots :
          task'[q][k].pc \in {"lookup", "get", "anonRow", "link"} => task'[q][k] = task[q][k]
    BY <1>1
  <2> QED
    BY <2>1, <2>2 DEF TaskMoves
<1>3. \A d \in Dids : KeyMoves(d)
  BY DEF KeyMoves
<1>4. ASSUME NEW d \in Plain' PROVE Moves(d)
  <2>1. d \in Dids
    BY DEF Plain
  <2>2. \A x \in Persons : Says(d, x)' => Says(d, x) \/ (redis[d] = x /\ ~Provisional(d))
    BY <2>1
  <2>3. \A q \in Replicas, k \in 1..Slots : task'[q][k].pc \in {"lookup", "link"} => task'[q][k] = task[q][k]
    BY <1>1
  <2>4. redis'[d] = redis[d] /\ pdi'[d] = pdi[d] /\ link' = link
    OBVIOUS
  <2> QED
    BY <2>2, <2>3, <2>4 DEF Moves
<1>5. ASSUME NEW a \in Anons PROVE Keeps(a)
  <2>1. a \in Dids /\ Stored(a)' = Stored(a)
    BY OwnFacts DEF Stored
  <2>2. ASSUME NEW x \in Persons, Says(a, x)' PROVE Known(a) \/ Stored(a)
    BY <2>1, <2>2, OwnFacts DEF Known, Stored
  <2>3. ASSUME NEW q \in Replicas, NEW k \in 1..Slots, task'[q][k].anon = a,
               task'[q][k].pc \in {"override", "link"}, task'[q][k].from # None
        PROVE  Known(a)
    <3>1. task[q][k].anon = a /\ task[q][k].pc \in {"override", "link"} /\ task[q][k].from # None
      BY <1>1, <2>3
    <3> QED
      BY <3>1 DEF Known
  <2>4. override'[a] # None => Known(a)
    BY DEF Known
  <2> QED
    BY <2>1, <2>2, <2>3, <2>4 DEF Keeps, Known
<1>6. ASSUME NEW a \in Anons, Spared(a, Causes)' PROVE Calm(a)
  <2>1. \A q \in Replicas, k \in 1..Slots : Links(task'[q][k], a) => task'[q][k] = task[q][k]
    BY <1>1 DEF Links
  <2>2. ASSUME Linking(a) PROVE Linking(a)'
    <3>1. PICK q \in Replicas, k \in 1..Slots : task[q][k].anon = a /\ HalfLinked(task[q][k])
      BY <2>2 DEF Linking
    <3>2. <<a, "half linked">> \notin lapses'
      BY <1>6 DEF Spared, Causes
    <3>3. task'[q][k] = task[q][k]
      BY <3>1, <3>2
    <3>4. task'[q][k].anon = a /\ task'[q][k].pc = "link" /\ task'[q][k].from # None
      BY <3>1, <3>3 DEF HalfLinked
    <3> QED
      BY <3>4 DEF Linking, HalfLinked
  <2> QED
    BY <2>1, <2>2 DEF Calm
<1>7. Onward
  BY DEF Onward
<1> QED
  BY <1>2, <1>3, <1>4, <1>5, <1>6, <1>7, Close

(* The pages stay as they are; what is stored moves on.                     *)
LEMMA RestKeeps ==
  ASSUME IInv, KeysOK', PagesOK', StoresOK', Grows, UNCHANGED <<override, cache, task, link>>,
         \A d \in Dids : KeyMoves(d),
         \A d \in Dids : \/ redis'[d] = redis[d]
                         \/ /\ redis'[d] = None /\ d \notin young
                            /\ d \in Anons => pdi[d] # None \/ <<d, "forgotten">> \in lapses',
         \A d \in Dids : pdi[d] # None => pdi'[d] # None,
         \A d \in Plain' : pdi'[d] = pdi[d] \/ (pdi[d] = None /\ pdi'[d] \in Persons /\ Says(d, pdi'[d])),
         \A d \in Dids : \A x \in Persons : Says(d, x)' => Says(d, x) \/ (d \notin Plain' /\ Stored(d)')
  PROVE  IInv'
<1>1. \A q \in Replicas, d \in Dids : Busy(q, d)' <=> Busy(q, d)
  BY DEF Busy
<1>2. TaskMoves
  BY <1>1 DEF TaskMoves
<1>3. ASSUME NEW d \in Plain' PROVE Moves(d)
  <2>1. d \in Dids /\ <<d, "forgotten">> \notin lapses'
    BY DEF Plain, Spared
  <2>2. \A x \in Persons : Says(d, x)' => Says(d, x)
    BY <2>1
  <2>3. redis'[d] = redis[d] \/ (redis'[d] = None /\ d \notin young /\ (d \in Anons => pdi[d] # None))
    BY <2>1
  <2> QED
    BY <2>2, <2>3 DEF Moves
<1>4. ASSUME NEW a \in Anons, Spared(a, {"forgotten"})' PROVE Keeps(a)
  <2>1. a \in Dids /\ <<a, "forgotten">> \notin lapses'
    BY <1>4, OwnFacts DEF Spared
  <2>2. Stored(a) => Stored(a)'
    BY <2>1 DEF Stored
  <2>3. \A x \in Persons : Says(a, x)' => Known(a) \/ Stored(a)'
    BY <2>1 DEF Known
  <2> QED
    BY <2>2, <2>3 DEF Keeps, Known
<1>5. ASSUME NEW a \in Anons PROVE Calm(a)
  <2>1. redis'[a] \in {redis[a], None}
    BY OwnFacts
  <2> QED
    BY <2>1 DEF Calm, Linking
<1>6. Onward
  BY DEF Onward
<1> QED
  BY <1>2, <1>3, <1>4, <1>5, <1>6, Close

LEMMA PrefetchKeeps ==
  ASSUME IInv, NEW r \in Replicas, Prefetch(r)
  PROVE  IInv'
<1>1. KeysOK /\ PagesOK /\ StoresOK
  BY DEF IInv
<1>2. PICK page \in [1..Slots -> {<<None, None>>} \cup (Dids \X {None}) \cup (Users \X Anons)] :
        LET keys == {d \in Dids : \E i \in 1..Slots : d \in {page[i][1], page[i][2]}} IN
        /\ task' = [task EXCEPT ![r] = [i \in 1..Slots |->
             IF page[i][1] = None THEN Idle
             ELSE [Idle EXCEPT !.did = page[i][1], !.anon = page[i][2], !.pc = "resolve"]]]
        /\ cache' = [cache EXCEPT ![r] = [d \in Dids |-> IF d \in keys THEN redis[d] ELSE None]]
        /\ Lapse({d \in keys : Provisional(d)}, "raced")
  BY DEF Prefetch
<1> DEFINE keys == {d \in Dids : \E i \in 1..Slots : d \in {page[i][1], page[i][2]}}
           ts == [i \in 1..Slots |-> IF page[i][1] = None THEN Idle
                  ELSE [Idle EXCEPT !.did = page[i][1], !.anon = page[i][2], !.pc = "resolve"]]
           c == [d \in Dids |-> IF d \in keys THEN redis[d] ELSE None]
           ids == {d \in keys : Provisional(d)}
           cause == "raced"
<1>3. /\ task' = [task EXCEPT ![r] = ts] /\ cache' = [cache EXCEPT ![r] = c]
      /\ Lapse(ids, cause)
  BY <1>2
<1>4. /\ UNCHANGED <<redis, young, override, link, faults, storeVars>> /\ Onward
      /\ pages < MaxPages /\ pages' = pages + 1
  BY DEF Prefetch, Onward
<1>5. \A i \in 1..Slots : task[r][i].pc = "idle"
  BY DEF Prefetch, At
<1>6. ASSUME NEW i \in 1..Slots
      PROVE  /\ ts[i] \in Task /\ Sound(ts[i], override')
             /\ ts[i].pc \in {"idle", "resolve"} /\ ts[i].user = None
             /\ \A d \in Dids : d \in {ts[i].did, ts[i].anon} => d \in keys
  <2>1. \/ page[i][1] = None
        \/ page[i][1] \in Dids /\ page[i][2] = None
        \/ page[i][1] \in Users /\ page[i][2] \in Anons
    OBVIOUS
  <2>2. CASE page[i][1] = None
    <3>1. ts[i] = Idle
      BY <2>2
    <3> HIDE DEF ts
    <3> QED
      BY <3>1, OwnFacts, IdleFacts
  <2>3. CASE page[i][1] # None
    <3>1. ts[i] = [did |-> page[i][1], anon |-> page[i][2], pc |-> "resolve", user |-> None, read |-> None, from |-> None]
      BY <2>3 DEF Idle
    <3>2. page[i][1] \in Dids /\ page[i][2] \in Maybe(Anons) /\ (page[i][2] # None => page[i][1] \in Users)
      BY <2>1, <2>3, OwnFacts DEF Maybe
    <3> HIDE DEF ts
    <3>3. PICK did, anon : did = page[i][1] /\ anon = page[i][2]
      OBVIOUS
    <3>4. ts[i] = [did |-> did, anon |-> anon, pc |-> "resolve", user |-> None, read |-> None, from |-> None]
      BY <3>1, <3>3
    <3>5. did \in Dids /\ did # None /\ anon \in Maybe(Anons) /\ (anon # None => did \in Users)
      BY <3>2, <3>3, OwnFacts
    <3>6. ts[i] \in Task
      BY <3>4, <3>5 DEF Task, Maybe
    <3>7. Sound(ts[i], override')
      BY <3>4, <3>5 DEF Sound
    <3>8. \A d \in Dids : d \in {ts[i].did, ts[i].anon} => d \in keys
      BY <3>3, <3>4
    <3> QED
      BY <3>4, <3>6, <3>7, <3>8
  <2> QED
    BY <2>2, <2>3
<1>7. CacheOK(c) /\ \A d \in keys : c[d] = redis[d]
  BY <1>1 DEF CacheOK, KeysOK, Maybe
<1>8. /\ keys \subseteq Dids /\ ids \in SUBSET Dids /\ cause \in Causes /\ cause = "raced"
      /\ \A d \in keys : Provisional(d) => d \in ids
      /\ ts \in [1..Slots -> Task]
  BY <1>6 DEF Causes
<1> HIDE DEF keys, ts, c, ids, cause
<1>9. /\ task' \in [Replicas -> [1..Slots -> Task]] /\ task'[r] = ts
      /\ \A q \in Replicas : q # r => task'[q] = task[q]
      /\ cache' \in [Replicas -> [Dids -> Maybe(Persons)]] /\ cache'[r] = c
      /\ \A q \in Replicas : q # r => cache'[q] = cache[q]
  BY <1>1, <1>3, <1>7, <1>8 DEF PagesOK, CacheOK
<1>10. PagesOK'
  <2>1. \A q \in Replicas, k \in 1..Slots : Sound(task'[q][k], override')
    BY <1>1, <1>4, <1>6, <1>9 DEF PagesOK
  <2>2. \A q \in Replicas, d \in Dids : cache'[q][d] \in Maybe(Own(d))
    BY <1>1, <1>7, <1>9 DEF PagesOK, CacheOK
  <2> QED
    BY <1>9, <2>1, <2>2 DEF PagesOK
<1>11. StoresOK' /\ UNCHANGED <<pdi, events, pending, buffer>>
  BY <1>1, <1>4, StoresOnward DEF storeVars
<1>12. /\ lapses' \in SUBSET (Dids \X Causes) /\ Grows
       /\ \A d \in ids : <<d, "raced">> \in lapses'
  BY <1>1, <1>3, <1>8, LapseFacts
<1>13. KeysOK'
  <2>1. pages' \in 0..MaxPages
    BY <1>1, <1>4, IdsAssumption DEF KeysOK
  <2> QED
    BY <1>1, <1>4, <1>12, <2>1 DEF KeysOK
<1>14. ASSUME NEW q \in Replicas, NEW d \in Dids, Busy(q, d)'
       PROVE  (q # r /\ Busy(q, d) /\ cache'[q] = cache[q]) \/ (q = r /\ d \in keys /\ cache'[q][d] = redis[d])
  BY <1>6, <1>7, <1>9, <1>14 DEF Busy
<1>15. ASSUME NEW d \in Dids, NEW x \in Persons, Says(d, x)'
       PROVE  Says(d, x) \/ (redis[d] = x /\ (~Provisional(d) \/ d \notin Plain'))
  <2>1. x # None
    BY OwnFacts
  <2>2. CASE pdi'[d] = x \/ <<d, x>> \in events'
    BY <1>11, <2>2 DEF Says
  <2>3. ASSUME NEW q \in Replicas, pending'[q][d] = x \/ <<d, x>> \in buffer'[q] PROVE Says(d, x)
    BY <1>11, <2>3 DEF Says
  <2>4. ASSUME NEW q \in Replicas, Busy(q, d)', cache'[q][d] = x
        PROVE  Says(d, x) \/ (redis[d] = x /\ (~Provisional(d) \/ d \notin Plain'))
    <3>1. CASE q # r /\ Busy(q, d) /\ cache'[q] = cache[q]
      BY <2>4, <3>1 DEF Says
    <3>2. CASE d \in keys /\ cache'[q][d] = redis[d]
      <4>1. Provisional(d) => <<d, "raced">> \in lapses'
        BY <1>8, <1>12, <3>2
      <4>2. Provisional(d) => d \notin Plain'
        BY <4>1 DEF Plain, Spared
      <4> QED
        BY <2>4, <3>2, <4>2
    <3> QED
      BY <1>14, <2>4, <3>1, <3>2
  <2>5. ASSUME NEW q \in Replicas, NEW k \in 1..Slots, task'[q][k].did = d,
               task'[q][k].user = x \/ (task'[q][k].pc = "honor" /\ task'[q][k].read = x)
        PROVE  Says(d, x)
    <3>1. q # r
      BY <1>6, <1>9, <2>1, <2>5
    <3> QED
      BY <1>9, <2>5, <3>1 DEF Says
  <2> QED
    BY <1>15, <2>2, <2>3, <2>4, <2>5 DEF Says
<1>16. \A q \in Replicas, k \in 1..Slots :
         task'[q][k] = task[q][k] \/ (q = r /\ task'[q][k].pc \in {"idle", "resolve"})
  BY <1>6, <1>9
<1>17. \A q \in Replicas, d \in Dids : Busy(q, d)' =>
         (Busy(q, d) /\ cache'[q][d] = cache[q][d]) \/ cache'[q][d] = redis[d]
  BY <1>14
<1>18. \A k \in 1..Slots : ~HalfLinked(task[r][k])
  BY <1>5 DEF HalfLinked
<1>19. UNCHANGED <<redis, young, override, link, pdi>>
  BY <1>4, <1>11
<1> QED
  BY <1>10, <1>11, <1>12, <1>13, <1>15, <1>16, <1>17, <1>18, <1>19, PageKeeps

(* What a group or a whole process that goes away leaves of the page.       *)
LEMMA IdleKeeps ==
  ASSUME IInv, NEW r \in Replicas, KeysOK', StoresOK', Grows,
         UNCHANGED <<redis, young, override, link, pdi>>,
         NEW ts, task' = [task EXCEPT ![r] = ts],
         ts \in [1..Slots -> Task], \A k \in 1..Slots : ts[k] = Idle \/ ts[k] = task[r][k],
         NEW c, cache' = [cache EXCEPT ![r] = c],
         c = cache[r] \/ (c = Nowhere /\ \A k \in 1..Slots : ts[k] = Idle),
         \A k \in 1..Slots : HalfLinked(task[r][k]) /\ ts[k] = Idle =>
           <<task[r][k].anon, "half linked">> \in lapses',
         \A d \in Dids : \A x \in Persons :
           \/ <<d, x>> \in events'
           \/ \E q \in Replicas : pending'[q][d] = x \/ <<d, x>> \in buffer'[q]
           => Says(d, x)
  PROVE  IInv'
<1>1. KeysOK /\ PagesOK /\ StoresOK
  BY DEF IInv
<1>2. /\ task' \in [Replicas -> [1..Slots -> Task]]
      /\ \A q \in Replicas, k \in 1..Slots :
           task'[q][k] = task[q][k] \/ (q = r /\ task'[q][k] = Idle)
      /\ \A k \in 1..Slots : task'[r][k] = ts[k]
  BY <1>1 DEF PagesOK
<1>3. /\ cache' \in [Replicas -> [Dids -> Maybe(Persons)]]
      /\ \A q \in Replicas : q # r => cache'[q] = cache[q]
      /\ cache'[r] = c
  BY <1>1, IdleFacts DEF PagesOK
<1>4. PagesOK'
  <2>1. \A q \in Replicas, k \in 1..Slots : Sound(task'[q][k], override')
    BY <1>1, <1>2, IdleFacts DEF PagesOK
  <2>2. \A q \in Replicas, d \in Dids : cache'[q][d] \in Maybe(Own(d))
    BY <1>1, <1>3, IdleFacts DEF PagesOK, Maybe
  <2> QED
    BY <1>2, <1>3, <2>1, <2>2 DEF PagesOK
<1>5. ASSUME NEW q \in Replicas, NEW d \in Dids, Busy(q, d)'
      PROVE  Busy(q, d) /\ cache'[q] = cache[q]
  <2>1. PICK k \in 1..Slots : d \in {task'[q][k].did, task'[q][k].anon}
    BY <1>5 DEF Busy
  <2>2. task'[q][k] # Idle
    <3>1. d # None
      BY OwnFacts
    <3>2. Idle.did = None /\ Idle.anon = None
      BY IdleFacts
    <3> QED
      BY <2>1, <3>1, <3>2
  <2>3. task'[q][k] = task[q][k]
    BY <1>2, <2>2
  <2>4. cache'[q] = cache[q]
    BY <1>2, <1>3, <2>2
  <2> QED
    BY <2>1, <2>3, <2>4 DEF Busy
<1>6. ASSUME NEW d \in Dids, NEW x \in Persons, Says(d, x)' PROVE Says(d, x)
  <2>1. x # None /\ d # None
    BY OwnFacts
  <2>2. CASE pdi'[d] = x
    BY <2>2 DEF Says
  <2>3. CASE <<d, x>> \in events' \/ \E q \in Replicas : pending'[q][d] = x \/ <<d, x>> \in buffer'[q]
    BY <2>3
  <2>4. ASSUME NEW q \in Replicas, Busy(q, d)', cache'[q][d] = x PROVE Says(d, x)
    BY <1>5, <2>4 DEF Says
  <2>5. ASSUME NEW q \in Replicas, NEW k \in 1..Slots, task'[q][k].did = d,
               task'[q][k].user = x \/ (task'[q][k].pc = "honor" /\ task'[q][k].read = x)
        PROVE  Says(d, x)
    <3>1. task'[q][k] = task[q][k]
      BY <1>2, <2>1, <2>5, IdleFacts
    <3>2. CASE task'[q][k].user = x
      <4>1. task[q][k].did = d /\ task[q][k].user = x
        BY <2>5, <3>1, <3>2
      <4> QED
        BY <4>1 DEF Says
    <3>3. CASE task'[q][k].pc = "honor" /\ task'[q][k].read = x
      <4>1. task[q][k].did = d /\ task[q][k].pc = "honor" /\ task[q][k].read = x
        BY <2>5, <3>1, <3>3
      <4> QED
        BY <4>1 DEF Says
    <3> QED
      BY <2>5, <3>2, <3>3
  <2> QED
    BY <1>6, <2>2, <2>3, <2>4, <2>5 DEF Says
<1>7. \A q \in Replicas, k \in 1..Slots :
        task'[q][k] = task[q][k] \/ (q = r /\ task'[q][k].pc \in {"idle", "resolve"})
  BY <1>2, IdleFacts
<1>8. \A k \in 1..Slots : HalfLinked(task[r][k]) =>
        task'[r][k] = task[r][k] \/ <<task[r][k].anon, "half linked">> \in lapses'
  BY <1>2
<1> QED
  BY <1>4, <1>5, <1>6, <1>7, <1>8, PageKeeps

LEMMA BufferKeeps ==
  ASSUME IInv, NEW r \in Replicas, Buffer(r)
  PROVE  IInv'
<1> DEFINE done == {i \in 1..Slots : At(r, i, "done")}
           es == {<<task[r][i].did, task[r][i].user>> : i \in done}
           ts == [i \in 1..Slots |-> Idle]
<1>1. KeysOK /\ PagesOK /\ StoresOK
  BY DEF IInv
<1>2. /\ UNCHANGED <<redis, young, override, link, lapses, pages, faults, pdi, unmerged, events, pending, merges>>
      /\ buffer' = [buffer EXCEPT ![r] = @ \cup es]
      /\ task' = [task EXCEPT ![r] = ts] /\ cache' = [cache EXCEPT ![r] = Nowhere]
      /\ \A i \in 1..Slots \ done : At(r, i, "idle")
  BY DEF Buffer, boundVars
<1>3. \A i \in 1..Slots : task[r][i].pc \in {"done", "idle"}
  BY <1>2 DEF At
<1>4. ASSUME NEW i \in done
      PROVE  /\ <<task[r][i].did, task[r][i].user>> \in Pair
             /\ Says(task[r][i].did, task[r][i].user)
  <2>1. i \in 1..Slots /\ task[r][i].pc = "done"
    BY DEF At
  <2>2. task[r][i].did \in Dids /\ task[r][i].user \in Own(task[r][i].did)
    BY <1>1, <2>1, TaskFacts DEF Sound
  <2> QED
    BY <2>1, <2>2, OwnFacts DEF Pair, Says
<1>5. es \subseteq Pair /\ \A d, x : <<d, x>> \in es => Says(d, x)
  BY <1>4
<1>6. ts \in [1..Slots -> Task] /\ \A k \in 1..Slots : ts[k] = Idle
  BY IdleFacts
<1> HIDE DEF done, es, ts
<1>7. KeysOK' /\ Grows
  BY <1>1, <1>2 DEF KeysOK, Grows
<1>8. /\ buffer' \in [Replicas -> SUBSET Pair]
      /\ \A q \in Replicas : buffer'[q] = IF q = r THEN buffer[q] \cup es ELSE buffer[q]
  BY <1>1, <1>2, <1>5 DEF StoresOK
<1>9. StoresOK'
  <2>1. Merge' = Merge /\ Pair' = Pair
    BY <1>2 DEF Merge, Pair
  <2> QED
    BY <1>1, <1>2, <1>8, <2>1 DEF StoresOK
<1>10. \A k \in 1..Slots : ~HalfLinked(task[r][k])
  BY <1>3 DEF HalfLinked
<1>11. \A d \in Dids : \A x \in Persons :
         \/ <<d, x>> \in events'
         \/ \E q \in Replicas : pending'[q][d] = x \/ <<d, x>> \in buffer'[q]
         => Says(d, x)
  <2>1. ASSUME NEW d \in Dids, NEW x \in Persons, <<d, x>> \in events' PROVE Says(d, x)
    BY <1>2, <2>1 DEF Says
  <2>2. ASSUME NEW d \in Dids, NEW x \in Persons, NEW q \in Replicas, pending'[q][d] = x PROVE Says(d, x)
    BY <1>2, <2>2 DEF Says
  <2>3. ASSUME NEW d \in Dids, NEW x \in Persons, NEW q \in Replicas, <<d, x>> \in buffer'[q] PROVE Says(d, x)
    <3>1. <<d, x>> \in buffer[q] \/ <<d, x>> \in es
      BY <1>8, <2>3
    <3> QED
      BY <1>5, <3>1 DEF Says
  <2> QED
    BY <2>1, <2>2, <2>3
<1> QED
  BY <1>2, <1>6, <1>7, <1>9, <1>10, <1>11, IdleKeeps

LEMMA CrashKeeps ==
  ASSUME IInv, NEW r \in Replicas, Crash(r)
  PROVE  IInv'
<1> DEFINE ids == {task[r][i].anon : i \in {j \in 1..Slots : HalfLinked(task[r][j])}}
           cause == "half linked"
           ts == [i \in 1..Slots |-> Idle]
<1>1. KeysOK /\ PagesOK /\ StoresOK
  BY DEF IInv
<1>2. /\ UNCHANGED <<redis, young, override, link, pages, pdi, unmerged, events>>
      /\ faults < MaxFaults /\ faults' = faults + 1
      /\ Lapse(ids, cause)
      /\ cache' = [cache EXCEPT ![r] = Nowhere]
      /\ task' = [task EXCEPT ![r] = ts]
      /\ pending' = [pending EXCEPT ![r] = Nowhere]
      /\ merges' = [merges EXCEPT ![r] = {}] /\ buffer' = [buffer EXCEPT ![r] = {}]
  BY DEF Crash, Fault
<1>3. ids \in SUBSET Dids /\ cause \in Causes /\ cause = "half linked"
  <2>1. ASSUME NEW i \in 1..Slots, HalfLinked(task[r][i]) PROVE task[r][i].anon \in Dids
    <3>1. Sound(task[r][i], override) /\ task[r][i].anon \in Maybe(Anons)
      BY <1>1, TaskFacts
    <3>2. task[r][i].anon # None
      BY <2>1, <3>1 DEF HalfLinked, Sound
    <3> QED
      BY <3>1, <3>2, OwnFacts DEF Maybe
  <2> QED
    BY <2>1 DEF Causes
<1>4. \A k \in 1..Slots : HalfLinked(task[r][k]) => task[r][k].anon \in ids
  OBVIOUS
<1>5. ts \in [1..Slots -> Task] /\ \A k \in 1..Slots : ts[k] = Idle
  BY IdleFacts
<1> HIDE DEF ids, cause, ts
<1>6. /\ lapses' \in SUBSET (Dids \X Causes) /\ Grows
      /\ \A d \in ids : <<d, "half linked">> \in lapses'
  BY <1>1, <1>2, <1>3, LapseFacts
<1>7. KeysOK'
  <2>1. faults' \in 0..MaxFaults
    BY <1>1, <1>2, IdsAssumption DEF KeysOK
  <2> QED
    BY <1>1, <1>2, <1>6, <2>1 DEF KeysOK
<1>8. /\ pending' \in [Replicas -> [Dids -> Maybe(Persons)]]
      /\ \A q \in Replicas : pending'[q] = IF q = r THEN Nowhere ELSE pending[q]
      /\ buffer' \in [Replicas -> SUBSET Pair]
      /\ \A q \in Replicas : buffer'[q] = IF q = r THEN {} ELSE buffer[q]
  BY <1>1, <1>2, IdleFacts DEF StoresOK
<1>9. StoresOK'
  <2>1. Merge' = Merge /\ Pair' = Pair
    BY <1>2 DEF Merge, Pair
  <2>2. merges' \in [Replicas -> SUBSET Merge'] /\ unmerged' \in SUBSET Merge'
    BY <1>1, <1>2, <2>1 DEF StoresOK
  <2>3. \A q \in Replicas, d \in Dids : pending'[q][d] \in Maybe(Own(d))
    BY <1>1, <1>8, IdleFacts DEF StoresOK, Maybe
  <2> QED
    BY <1>1, <1>2, <1>8, <2>1, <2>2, <2>3 DEF StoresOK
<1>10. \A d \in Dids : \A x \in Persons :
         \/ <<d, x>> \in events'
         \/ \E q \in Replicas : pending'[q][d] = x \/ <<d, x>> \in buffer'[q]
         => Says(d, x)
  BY <1>2, <1>8, IdleFacts, OwnFacts DEF Says
<1>11. \A k \in 1..Slots : HalfLinked(task[r][k]) /\ ts[k] = Idle => <<task[r][k].anon, "half linked">> \in lapses'
  BY <1>4, <1>6
<1> QED
  BY <1>2, <1>5, <1>6, <1>7, <1>9, <1>10, <1>11, IdleKeeps

LEMMA GroupFailsKeeps ==
  ASSUME IInv, NEW r \in Replicas, NEW i \in 1..Slots, GroupFails(r, i)
  PROVE  IInv'
<1> DEFINE group == {j \in 1..Slots : task[r][j].did = task[r][i].did}
           ids == {task[r][j].anon : j \in {k \in group : HalfLinked(task[r][k])}}
           cause == "half linked"
           ts == [j \in 1..Slots |-> IF j \in group THEN Idle ELSE task[r][j]]
<1>1. KeysOK /\ PagesOK /\ StoresOK
  BY DEF IInv
<1>2. /\ UNCHANGED <<redis, young, override, cache, link, pages, storeVars>> /\ Onward
      /\ faults < MaxFaults /\ faults' = faults + 1
      /\ Lapse(ids, cause)
  BY DEF GroupFails, Fault, Onward
<1>3. task' = [task EXCEPT ![r] = ts]
  BY <1>1 DEF GroupFails, PagesOK
<1>4. ids \in SUBSET Dids /\ cause \in Causes /\ cause = "half linked"
  <2>1. ASSUME NEW k \in 1..Slots, HalfLinked(task[r][k]) PROVE task[r][k].anon \in Dids
    <3>1. Sound(task[r][k], override) /\ task[r][k].anon \in Maybe(Anons)
      BY <1>1, TaskFacts
    <3>2. task[r][k].anon # None
      BY <2>1, <3>1 DEF HalfLinked, Sound
    <3> QED
      BY <3>1, <3>2, OwnFacts DEF Maybe
  <2> QED
    BY <2>1 DEF Causes
<1>5. /\ ts \in [1..Slots -> Task] /\ \A k \in 1..Slots : ts[k] = Idle \/ ts[k] = task[r][k]
      /\ \A k \in 1..Slots : HalfLinked(task[r][k]) /\ ts[k] = Idle => task[r][k].anon \in ids
  <2>1. \A k \in 1..Slots : ~HalfLinked(Idle)
    BY IdleFacts DEF HalfLinked
  <2>2. \A k \in 1..Slots : task[r][k] \in Task
    BY <1>1 DEF PagesOK
  <2> QED
    BY <2>1, <2>2, IdleFacts
<1> HIDE DEF group, ids, cause, ts
<1>6. /\ lapses' \in SUBSET (Dids \X Causes) /\ Grows
      /\ \A d \in ids : <<d, "half linked">> \in lapses'
  BY <1>1, <1>2, <1>4, LapseFacts
<1>7. KeysOK'
  <2>1. faults' \in 0..MaxFaults
    BY <1>1, <1>2, IdsAssumption DEF KeysOK
  <2> QED
    BY <1>1, <1>2, <1>6, <2>1 DEF KeysOK
<1>8. StoresOK' /\ UNCHANGED <<pdi, events, pending, buffer>>
  BY <1>1, <1>2, StoresOnward DEF storeVars
<1>9. cache' = [cache EXCEPT ![r] = cache[r]]
  BY <1>1, <1>2 DEF PagesOK
<1>10. \A d \in Dids : \A x \in Persons :
         \/ <<d, x>> \in events'
         \/ \E q \in Replicas : pending'[q][d] = x \/ <<d, x>> \in buffer'[q]
         => Says(d, x)
  BY <1>8 DEF Says
<1>11. \A k \in 1..Slots : HalfLinked(task[r][k]) /\ ts[k] = Idle => <<task[r][k].anon, "half linked">> \in lapses'
  BY <1>5, <1>6
<1>12. /\ KeysOK' /\ StoresOK' /\ Grows /\ UNCHANGED <<redis, young, override, link, pdi>>
       /\ ts \in [1..Slots -> Task] /\ \A k \in 1..Slots : ts[k] = Idle \/ ts[k] = task[r][k]
       /\ cache[r] = cache[r] \/ (cache[r] = Nowhere /\ \A k \in 1..Slots : ts[k] = Idle)
  BY <1>2, <1>5, <1>6, <1>7, <1>8
<1> QED
  BY <1>3, <1>9, <1>10, <1>11, <1>12, IdleKeeps

LEMMA FlushKeeps ==
  ASSUME IInv, NEW r \in Replicas, Flush(r)
  PROVE  IInv'
<1>1. KeysOK /\ PagesOK /\ StoresOK
  BY DEF IInv
<1>2. /\ UNCHANGED <<redis, young, override, cache, task, link, lapses, pages, faults>>
      /\ pdi' = [d \in Dids |-> IF pdi[d] = None THEN pending[r][d] ELSE pdi[d]]
      /\ unmerged' = unmerged \cup merges[r]
      /\ events' = events \cup buffer[r]
      /\ pending' = [pending EXCEPT ![r] = Nowhere]
      /\ merges' = [merges EXCEPT ![r] = {}] /\ buffer' = [buffer EXCEPT ![r] = {}]
  BY DEF Flush, boundVars
<1>3. /\ pdi' \in [Dids -> Maybe(Persons)]
      /\ \A d \in Dids : pdi'[d] \in Maybe(Own(d)) /\ pdi'[d] = IF pdi[d] = None THEN pending[r][d] ELSE pdi[d]
  BY <1>1, <1>2 DEF StoresOK
<1>4. /\ pending' \in [Replicas -> [Dids -> Maybe(Persons)]]
      /\ \A q \in Replicas, d \in Dids : pending'[q][d] \in {None, pending[q][d]}
      /\ buffer' \in [Replicas -> SUBSET Pair]
      /\ \A q \in Replicas : buffer'[q] \subseteq buffer[q]
  BY <1>1, <1>2, IdleFacts DEF StoresOK
<1>5. KeysOK' /\ Grows
  BY <1>1, <1>2 DEF KeysOK, Grows
<1>6. PagesOK'
  BY <1>1, <1>2 DEF PagesOK
<1>7. StoresOK'
  <2>1. Merge' = Merge /\ Pair' = Pair
    BY <1>2 DEF Merge, Pair
  <2>2. merges' \in [Replicas -> SUBSET Merge'] /\ unmerged' \in SUBSET Merge'
    BY <1>1, <1>2, <2>1 DEF StoresOK
  <2>3. events' \in SUBSET Pair'
    BY <1>1, <1>2, <2>1 DEF StoresOK
  <2>4. \A q \in Replicas, d \in Dids : pending'[q][d] \in Maybe(Own(d))
    BY <1>1, <1>4 DEF StoresOK, Maybe
  <2> QED
    BY <1>3, <1>4, <2>1, <2>2, <2>3, <2>4 DEF StoresOK
<1>8. \A d \in Dids : pdi'[d] = pdi[d] \/ (pdi[d] = None /\ pdi'[d] \in Persons /\ Says(d, pdi'[d]))
  BY <1>1, <1>3 DEF StoresOK, Says, Maybe
<1>9. ASSUME NEW d \in Dids, NEW x \in Persons, Says(d, x)' PROVE Says(d, x)
  <2>1. x # None
    BY OwnFacts
  <2>2. CASE pdi'[d] = x \/ <<d, x>> \in events'
    BY <1>2, <1>8, <2>1, <2>2 DEF Says
  <2>3. ASSUME NEW q \in Replicas, pending'[q][d] = x \/ <<d, x>> \in buffer'[q] PROVE Says(d, x)
    BY <1>4, <2>1, <2>3 DEF Says
  <2>4. ASSUME NEW q \in Replicas, Busy(q, d)', cache'[q][d] = x PROVE Says(d, x)
    BY <1>2, <2>4 DEF Says, Busy
  <2>5. ASSUME NEW q \in Replicas, NEW k \in 1..Slots, task'[q][k].did = d,
               task'[q][k].user = x \/ (task'[q][k].pc = "honor" /\ task'[q][k].read = x)
        PROVE  Says(d, x)
    BY <1>2, <2>5 DEF Says
  <2> QED
    BY <1>9, <2>2, <2>3, <2>4, <2>5 DEF Says
<1>10. \A d \in Dids : KeyMoves(d)
  BY <1>2 DEF KeyMoves
<1>11. \A d \in Dids : pdi[d] # None => pdi'[d] # None
  BY <1>3
<1>12. \A d \in Plain' : d \in Dids
  BY DEF Plain
<1> QED
  BY <1>2, <1>5, <1>6, <1>7, <1>8, <1>9, <1>10, <1>11, <1>12, RestKeeps

(* A merge takes no row of a plain id: that of a device whose person it     *)
(* merges has an override, and any other it takes along is recorded.        *)
LEMMA MergePersonsKeeps ==
  ASSUME IInv, MergePersons
  PROVE  IInv'
<1>1. KeysOK /\ PagesOK /\ StoresOK
  BY DEF IInv
<1>2. PICK m \in unmerged :
        /\ pdi' = [d \in Dids |-> IF pdi[d] = m[1] THEN m[2] ELSE pdi[d]]
        /\ unmerged' = unmerged \ {m}
        /\ Lapse({d \in Dids : m[1] \in Users /\ pdi[d] = m[1] /\ override[d] = None}, "repointed")
  BY DEF MergePersons
<1> DEFINE ids == {d \in Dids : m[1] \in Users /\ pdi[d] = m[1] /\ override[d] = None}
           cause == "repointed"
<1>3. UNCHANGED <<redis, young, override, cache, task, link, pages, faults, events, pending, merges, buffer>>
  BY DEF MergePersons, boundVars
<1>4. /\ m[1] \in Persons /\ m[2] \in Users /\ m[2] \in Persons /\ m[2] # None
      /\ m[1] \in Users \/ override[m[1]] # None
  <2>1. m \in Merge
    BY <1>1 DEF StoresOK
  <2> QED
    BY <2>1, OwnFacts DEF Merge
<1>5. Lapse(ids, cause) /\ ids \in SUBSET Dids /\ cause \in Causes /\ cause = "repointed"
  BY <1>2 DEF Causes
<1>6. \A d \in Dids : m[1] \in Users /\ pdi[d] = m[1] /\ override[d] = None => d \in ids
  OBVIOUS
<1> HIDE DEF ids, cause
<1>7. /\ lapses' \in SUBSET (Dids \X Causes) /\ Grows
      /\ \A d \in ids : <<d, "repointed">> \in lapses'
  BY <1>1, <1>5, LapseFacts
<1>8. /\ pdi' \in [Dids -> Maybe(Persons)]
      /\ \A d \in Dids : pdi'[d] \in Maybe(Own(d)) /\ pdi'[d] = IF pdi[d] = m[1] THEN m[2] ELSE pdi[d]
  BY <1>1, <1>2, <1>4, OwnFacts DEF StoresOK, Maybe
<1>9. KeysOK' /\ PagesOK'
  BY <1>1, <1>3, <1>7 DEF KeysOK, PagesOK
<1>10. StoresOK'
  <2>1. Merge' = Merge /\ Pair' = Pair
    BY <1>3 DEF Merge, Pair
  <2>2. merges' \in [Replicas -> SUBSET Merge'] /\ unmerged' \in SUBSET Merge'
    BY <1>1, <1>2, <1>3, <2>1 DEF StoresOK
  <2> QED
    BY <1>1, <1>3, <1>8, <2>1, <2>2 DEF StoresOK
<1>11. ASSUME NEW d \in Plain' PROVE d \in Dids /\ pdi'[d] = pdi[d]
  <2>1. d \in Dids /\ override[d] = None /\ <<d, "repointed">> \notin lapses'
    BY <1>3 DEF Plain, Spared
  <2>2. pdi[d] # m[1]
    <3>1. SUFFICES ASSUME pdi[d] = m[1] PROVE FALSE
      OBVIOUS
    <3>2. m[1] \notin Users
      BY <1>6, <1>7, <2>1, <3>1
    <3>3. m[1] \in Own(d)
      BY <1>1, <1>4, <2>1, <3>1, OwnFacts DEF StoresOK, Maybe
    <3>4. m[1] = d
      BY <3>2, <3>3 DEF Own
    <3> QED
      BY <1>4, <2>1, <3>2, <3>4
  <2> QED
    BY <1>8, <2>1, <2>2
<1>12. ASSUME NEW d \in Dids, NEW x \in Persons, Says(d, x)' PROVE Says(d, x) \/ (d \notin Plain' /\ Stored(d)')
  <2>1. x # None
    BY OwnFacts
  <2>2. CASE pdi'[d] = x
    <3>1. CASE pdi[d] = x
      BY <3>1 DEF Says
    <3>2. CASE pdi[d] # x
      <4>1. d \notin Plain'
        BY <1>11, <2>2, <3>2
      <4> QED
        BY <2>1, <2>2, <4>1 DEF Stored
    <3> QED
      BY <3>1, <3>2
  <2>3. ASSUME NEW q \in Replicas, Busy(q, d)', cache'[q][d] = x PROVE Says(d, x)
    BY <1>3, <2>3 DEF Says, Busy
  <2> QED
    BY <1>3, <1>12, <2>2, <2>3 DEF Says
<1>13. \A d \in Dids : KeyMoves(d)
  BY <1>3 DEF KeyMoves
<1>14. \A d \in Dids : pdi[d] # None => pdi'[d] # None
  BY <1>4, <1>8
<1> QED
  BY <1>3, <1>7, <1>9, <1>10, <1>11, <1>12, <1>13, <1>14, RestKeeps

LEMMA ExpiryKeeps ==
  ASSUME IInv, NEW d \in Dids, Age(d) \/ Expire(d)
  PROVE  IInv'
<1>1. KeysOK /\ PagesOK /\ StoresOK
  BY DEF IInv
<1>2. UNCHANGED <<override, cache, task, link, pages, storeVars>> /\ Onward
  BY DEF Age, Expire, boundVars, Onward
<1>3. PagesOK' /\ StoresOK' /\ UNCHANGED <<pdi, events, pending, buffer>>
  BY <1>1, <1>2, StoresOnward DEF PagesOK, storeVars
<1>4. \A r \in Replicas, x \in Dids : Busy(r, x)' <=> Busy(r, x)
  BY <1>2 DEF Busy
<1>5. \A x \in Dids : \A p \in Persons : Says(x, p)' => Says(x, p)
  BY <1>2, <1>3, <1>4 DEF Says
<1>6. CASE Age(d)
  <2>1. /\ redis' = redis /\ young' = young \ {d} /\ lapses' = lapses /\ faults' = faults
        /\ \A r \in Replicas : \A i \in 1..Slots : d \notin {task[r][i].did, task[r][i].anon}
    BY <1>6 DEF Age, boundVars
  <2>2. KeysOK' /\ Grows
    BY <1>1, <1>2, <2>1 DEF KeysOK, Grows
  <2>3. \A x \in Dids : KeyMoves(x)
    <3>1. \A r \in Replicas : ~Busy(r, d)'
      BY <1>4, <2>1 DEF Busy
    <3> QED
      BY <2>1, <3>1 DEF KeyMoves
  <2> QED
    BY <1>2, <1>3, <1>5, <2>1, <2>2, <2>3, RestKeeps
<1>7. CASE Expire(d)
  <2> DEFINE ids == {a \in {d} \cap Anons : pdi[a] = None}
             cause == "forgotten"
  <2>1. /\ redis' = [redis EXCEPT ![d] = None] /\ young' = young /\ d \notin young
        /\ faults < MaxFaults /\ faults' = faults + 1
        /\ Lapse(ids, cause)
    BY <1>7 DEF Expire, Fault
  <2>2. /\ ids \in SUBSET Dids /\ cause \in Causes /\ cause = "forgotten"
        /\ d \in Anons /\ pdi[d] = None => d \in ids
    BY OwnFacts DEF Causes
  <2> HIDE DEF ids, cause
  <2>3. /\ lapses' \in SUBSET (Dids \X Causes) /\ Grows
        /\ \A x \in ids : <<x, "forgotten">> \in lapses'
    BY <1>1, <2>1, <2>2, LapseFacts
  <2>4. /\ redis' \in [Dids -> Maybe(Persons)] /\ \A x \in Dids : redis'[x] \in Maybe(Own(x))
        /\ redis'[d] = None /\ \A x \in Dids : x # d => redis'[x] = redis[x]
    BY <1>1, <2>1 DEF KeysOK, Maybe
  <2>5. KeysOK'
    <3>1. faults' \in 0..MaxFaults
      BY <1>1, <2>1, IdsAssumption DEF KeysOK
    <3> QED
      BY <1>1, <1>2, <2>1, <2>3, <2>4, <3>1 DEF KeysOK
  <2>6. \A x \in Dids : KeyMoves(x)
    BY <2>1, <2>4 DEF KeyMoves
  <2>7. \A x \in Dids : \/ redis'[x] = redis[x]
                        \/ /\ redis'[x] = None /\ x \notin young
                           /\ x \in Anons => pdi[x] # None \/ <<x, "forgotten">> \in lapses'
    BY <2>1, <2>2, <2>3, <2>4
  <2>8. \A x \in Plain' : x \in Dids
    BY DEF Plain
  <2> QED
    BY <1>2, <1>3, <1>5, <2>3, <2>5, <2>6, <2>7, <2>8, RestKeeps
<1> QED
  BY <1>6, <1>7
-----------------------------------------------------------------------------
LEMMA Inductive == IInv /\ [Next]_vars => IInv'
<1> SUFFICES ASSUME IInv, [Next]_vars PROVE IInv'
  OBVIOUS
<1>1. ASSUME NEW r \in Replicas, Prefetch(r) \/ Buffer(r) \/ Flush(r) \/ Crash(r) PROVE IInv'
  BY <1>1, PrefetchKeeps, BufferKeeps, FlushKeeps, CrashKeeps
<1>2. ASSUME NEW r \in Replicas, NEW i \in 1..Slots, Resolve(r, i) PROVE IInv'
  BY <1>2, ResolveCachedKeeps, SetNxKeeps, LookupKeeps, HonorKeeps, GetKeeps DEF Resolve
<1>3. ASSUME NEW r \in Replicas, NEW i \in 1..Slots, Identify(r, i) \/ GroupFails(r, i) PROVE IInv'
  BY <1>3, AnonReadKeeps, AnonRowKeeps, WriteOverrideKeeps, LinkKeeps, GroupFailsKeeps DEF Identify
<1>4. CASE UNCHANGED vars
  <2>1. UNCHANGED <<redis, young, override, cache, task, link, lapses, pages, faults,
                    pdi, unmerged, events, pending, merges, buffer>>
    BY <1>4 DEF vars, storeVars, boundVars
  <2>2. KeysOK' /\ Grows
    BY <2>1 DEF IInv, KeysOK, Grows
  <2>3. PagesOK'
    BY <2>1 DEF IInv, PagesOK
  <2>4. StoresOK'
    <3>1. Merge' = Merge /\ Pair' = Pair
      BY <2>1 DEF Merge, Pair
    <3>2. StoresOK
      BY DEF IInv
    <3> QED
      BY <2>1, <3>1, <3>2 DEF StoresOK
  <2>5. \A r \in Replicas, d \in Dids : Busy(r, d)' <=> Busy(r, d)
    BY <2>1 DEF Busy
  <2>6. \A d \in Dids : \A p \in Persons : Says(d, p)' => Says(d, p)
    BY <2>1, <2>5 DEF Says
  <2>7. \A d \in Dids : KeyMoves(d)
    BY <2>1 DEF KeyMoves
  <2> QED
    BY <2>1, <2>2, <2>3, <2>4, <2>6, <2>7, RestKeeps
<1> QED
  BY <1>1, <1>2, <1>3, <1>4, MergePersonsKeeps, ExpiryKeeps DEF Next

LEMMA Invariant == Spec => []IInv
  BY Start, Inductive, PTL DEF Spec

(* Types of the maps and of the events in progress.                         *)
THEOREM IdentityTyped == Spec => []TypeOK
  BY Invariant, Enough, PTL

(* However resolve(), $identify, flushes, merges, crashes, failing calls and *)
(* expired keys interleave on the replicas, and whichever users take turns   *)
(* on a device: the events of a distinct id read as one person, unless a     *)
(* race for its key, a key that expired too early or a merge of two users is *)
(* on record for it.                                                         *)
THEOREM EventsReadAsOne == Spec => []ReadsAgree
  BY Invariant, Enough, PTL

(* And those of a device that $identify has linked, earlier ones and later  *)
(* ones, read as those of the user it was linked to last (handleIdentify),  *)
(* outside the five causes on record.                                       *)
THEOREM LinksStick == Spec => []LinkSticks
  BY Invariant, Enough, PTL
=============================================================================
