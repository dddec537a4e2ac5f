-------------------------- MODULE AdmissionProofs --------------------------
(* The guards of the ingest, for every number of projects, tokens, requests *)
(* and rotations at a time, and every plan.  A step of Admission is a step  *)
(* of TokenCache and a step of EventQuota, or leaves one of them alone, so  *)
(* each part has an inductive invariant of its own.                         *)
EXTENDS Admission, TLAPS

(* What the guard is about to cache is, or was, a project's token; what it  *)
(* looks up by its hash has been looked up as it is.                        *)
LookedUp ==
  /\ \A p \in Projects : row[p] # Gone => row[p] \in issued
  /\ \A s \in Slots :
       /\ request[s].pc = "fill" => Key(request[s]) \in issued
       /\ request[s].hashed => ~Owned(request[s].token)
       /\ request[s] # NoRequest => request[s].token \in issued \cup Secrets

TokenInv == TokenTypeOK /\ LookedUp /\ CacheFollowsRow

(* The records of requests and rotations.                                   *)
LEMMA RequestFacts ==
  ASSUME NEW q \in Request
  PROVE  /\ q.token \in Tokens /\ Key(q) \in Tokens /\ q # NoRequest
         /\ q.pc \in {"fill", "resolved"} => q.project \in Projects
         /\ q.pc # "idle"
  BY TokenAssumption DEF Request, NoRequest, Key, Secrets

LEMMA TokenStart == TokenInit => TokenInv
<1> SUFFICES ASSUME TokenInit PROVE TokenInv
  OBVIOUS
<1>1. TokenTypeOK
  BY TokenAssumption DEF TokenInit, TokenTypeOK
<1>2. LookedUp
  BY TokenAssumption DEF TokenInit, LookedUp, NoRequest
<1>3. CacheFollowsRow
  BY TokenAssumption DEF TokenInit, CacheFollowsRow
<1> QED
  BY <1>1, <1>2, <1>3 DEF TokenInv

(* A step of one request in the guard that changes nothing of the API's.    *)
LEMMA GuardStep ==
  ASSUME TokenInv, NEW s \in Slots, InGuard(s)
  PROVE  TokenInv'
<1> DEFINE q == request[s]
           After(r) == request' = [request EXCEPT ![s] = r]
<1>1. /\ q \in Request /\ q.token \in Tokens /\ Key(q) \in Tokens /\ q # NoRequest
      /\ q.pc \in {"fill", "resolved"} => q.project \in Projects
  <2>1. q.pc # "idle"
    BY DEF InGuard, ReadCache, LookUp, WriteCache
  <2>2. q \in Request \cup {NoRequest} /\ NoRequest.pc = "idle"
    BY DEF TokenInv, TokenTypeOK, NoRequest
  <2> QED
    BY <2>1, <2>2, RequestFacts
<1>2. UNCHANGED <<row, rotation, issued>>
  BY DEF InGuard, ReadCache, LookUp, WriteCache
<1>3. ASSUME NEW r \in Request \cup {NoRequest}, After(r),
             r.pc = "fill" => Key(r) \in issued,
             r.hashed => ~Owned(r.token),
             r # NoRequest => r.token = q.token
      PROVE  /\ request' \in [Slots -> Request \cup {NoRequest}]
             /\ LookedUp'
  <2>1. /\ request \in [Slots -> Request \cup {NoRequest}] /\ LookedUp
        /\ \A t : Owned(t)' <=> Owned(t)
    BY <1>2 DEF TokenInv, TokenTypeOK, Owned, Owns
  <2>2. request' = [request EXCEPT ![s] = r]
    BY <1>3
  <2>3. q.token \in issued \cup Secrets
    BY <1>1, <2>1 DEF LookedUp
  <2>4. \A o \in Slots : request'[o] = IF o = s THEN r ELSE request[o]
    BY <2>1, <2>2
  <2>5. ASSUME NEW o \in Slots
        PROVE  /\ request'[o].pc = "fill" => Key(request'[o]) \in issued
               /\ request'[o].hashed => ~Owned(request'[o].token)
               /\ request'[o] # NoRequest => request'[o].token \in issued \cup Secrets
    BY <1>3, <2>1, <2>3, <2>4 DEF LookedUp
  <2> QED
    BY <1>2, <2>1, <2>2, <2>5 DEF LookedUp, Key, Owned, Owns
<1>4. CASE ReadCache(s)
  <2>1. PICK r \in Request \cup {NoRequest} :
           /\ After(r) /\ r.pc # "fill" /\ r # NoRequest
           /\ r.token = q.token /\ r.hashed = q.hashed
    <3>1. CASE /\ cache[Key(q)] # None
               /\ After([q EXCEPT !.pc = "resolved", !.project = cache[Key(q)]])
      <4> DEFINE r == [q EXCEPT !.pc = "resolved", !.project = cache[Key(q)]]
      <4>1. cache[Key(q)] \in Projects
        BY <1>1, <3>1 DEF TokenInv, TokenTypeOK
      <4>2. r \in Request /\ r.pc = "resolved" /\ r.token = q.token /\ r.hashed = q.hashed
        BY <1>1, <4>1, TokenAssumption DEF Request
      <4> QED
        BY <3>1, <4>2, RequestFacts
    <3>2. CASE After([q EXCEPT !.pc = "db"])
      <4> DEFINE r == [q EXCEPT !.pc = "db"]
      <4>1. q.pc = "cache"
        BY <1>4 DEF ReadCache
      <4>2. r \in Request /\ r.pc = "db" /\ r.token = q.token /\ r.hashed = q.hashed
        BY <1>1, <4>1 DEF Request
      <4> QED
        BY <3>2, <4>2, RequestFacts
    <3> QED
      BY <1>4, <3>1, <3>2 DEF ReadCache
  <2>2. q.hashed => ~Owned(q.token)
    BY DEF TokenInv, LookedUp
  <2>3. UNCHANGED <<cache, excuse>>
    BY <1>4 DEF ReadCache
  <2> QED
    BY <1>2, <1>3, <2>1, <2>2, <2>3
       DEF TokenInv, TokenTypeOK, CacheFollowsRow, Owns, Deleting
<1>5. CASE LookUp(s)
  <2>1. UNCHANGED <<cache, excuse>> /\ q.pc = "db"
    BY <1>5 DEF LookUp
  <2>2. ASSUME NEW p \in Projects, Owns(p, Key(q)), After([q EXCEPT !.pc = "fill", !.project = p])
        PROVE  request' \in [Slots -> Request \cup {NoRequest}] /\ LookedUp'
    <3> DEFINE r == [q EXCEPT !.pc = "fill", !.project = p]
    <3>1. /\ r \in Request /\ r.token = q.token /\ r.hashed = q.hashed
          /\ Key(r) = Key(q)
      BY <1>1, TokenAssumption DEF Request, Key
    <3>2. Key(q) \in issued
      BY <1>1, <2>2, TokenAssumption DEF TokenInv, LookedUp, Owns
    <3>3. q.hashed => ~Owned(q.token)
      BY DEF TokenInv, LookedUp
    <3> QED
      BY <1>3, <2>2, <3>1, <3>2, <3>3
  <2>3. ASSUME ~Owned(Key(q)), ~q.hashed, q.token \in Secrets,
               After([q EXCEPT !.pc = "cache", !.hashed = TRUE])
        PROVE  request' \in [Slots -> Request \cup {NoRequest}] /\ LookedUp'
    <3> DEFINE r == [q EXCEPT !.pc = "cache", !.hashed = TRUE]
    <3>1. r \in Request /\ r.token = q.token /\ r.pc = "cache"
      BY <1>1, <2>1, <2>3 DEF Request
    <3>2. ~Owned(q.token)
      BY <2>3 DEF Key
    <3> QED
      BY <1>3, <2>3, <3>1, <3>2
  <2>4. ASSUME After(NoRequest)
        PROVE  request' \in [Slots -> Request \cup {NoRequest}] /\ LookedUp'
    <3>1. NoRequest.pc = "idle" /\ NoRequest.hashed = FALSE
      BY DEF NoRequest
    <3> QED
      BY <1>3, <2>4, <3>1
  <2>5. request' \in [Slots -> Request \cup {NoRequest}] /\ LookedUp'
    BY <1>5, <2>2, <2>3, <2>4 DEF LookUp
  <2> QED
    BY <1>2, <2>1, <2>5 DEF TokenInv, TokenTypeOK, CacheFollowsRow, Owns, Deleting
<1>6. CASE WriteCache(s)
  <2> DEFINE r == [q EXCEPT !.pc = "resolved"]
  <2>1. After(r) /\ q.pc = "fill"
    BY <1>6 DEF WriteCache
  <2>2. /\ r \in Request /\ r.pc = "resolved" /\ r.token = q.token /\ r.hashed = q.hashed
        /\ q.project \in Projects
    BY <1>1, <2>1, TokenAssumption DEF Request
  <2>3. (q.hashed => ~Owned(q.token)) /\ Key(q) \in issued
    BY <2>1 DEF TokenInv, LookedUp
  <2>4. request' \in [Slots -> Request \cup {NoRequest}] /\ LookedUp'
    BY <1>3, <2>1, <2>2, <2>3
  <2>5. \/ UNCHANGED <<cache, excuse>>
        \/ /\ cache' = [cache EXCEPT ![Key(q)] = q.project]
           /\ excuse' = IF Owns(q.project, Key(q)) \/ Deleting(Key(q)) THEN excuse
                        ELSE excuse \cup {Key(q)}
    BY <1>6 DEF WriteCache
  <2>6. TokenTypeOK'
    BY <1>1, <1>2, <2>2, <2>3, <2>4, <2>5 DEF TokenInv, TokenTypeOK
  <2>7. CacheFollowsRow'
    BY <1>1, <1>2, <2>2, <2>5 DEF TokenInv, TokenTypeOK, CacheFollowsRow, Owns, Deleting
  <2> QED
    BY <2>4, <2>6, <2>7 DEF TokenInv
<1> QED
  BY <1>4, <1>5, <1>6 DEF InGuard

(* The other steps of a slot, and the end of an entry.                      *)
LEMMA SlotStep ==
  ASSUME TokenInv, NEW s \in Slots,
         (\E t \in Tokens : Ask(s, t)) \/ PassGuard(s)
  PROVE  TokenInv'
<1>1. UNCHANGED <<row, cache, rotation, issued, excuse>>
  BY DEF Ask, PassGuard
<1>2. PICK r \in Request \cup {NoRequest} :
         /\ request' = [request EXCEPT ![s] = r] /\ r.pc # "fill" /\ ~r.hashed
         /\ r # NoRequest => r.token \in issued \cup Secrets
  <2>1. NoRequest.pc = "idle" /\ ~NoRequest.hashed
    BY DEF NoRequest
  <2>2. CASE PassGuard(s)
    BY <2>1, <2>2 DEF PassGuard
  <2>3. ASSUME NEW t \in Tokens, Ask(s, t)
        PROVE  \E r \in Request : /\ request' = [request EXCEPT ![s] = r] /\ r.pc = "cache"
                                  /\ ~r.hashed /\ r.token = t /\ t \in issued \cup Secrets
    <3> DEFINE r == [pc |-> "cache", token |-> t, hashed |-> FALSE, project |-> None]
    <3>1. r \in Request /\ r.pc = "cache" /\ ~r.hashed /\ r.token = t
      BY DEF Request
    <3>2. t \in issued \cup Secrets
      BY <2>3 DEF Ask
    <3> QED
      BY <2>3, <3>1, <3>2 DEF Ask
  <2> QED
    BY <2>2, <2>3
<1>3. \A o \in Slots : request'[o] = IF o = s THEN r ELSE request[o]
  BY <1>2 DEF TokenInv, TokenTypeOK
<1>4. \A t : Owned(t)' <=> Owned(t)
  BY <1>1 DEF Owned, Owns
<1>5. LookedUp'
  <2>1. ASSUME NEW o \in Slots
        PROVE  /\ request'[o].pc = "fill" => Key(request'[o]) \in issued
               /\ request'[o].hashed => ~Owned(request'[o].token)
               /\ request'[o] # NoRequest => request'[o].token \in issued \cup Secrets
    BY <1>2, <1>3 DEF TokenInv, LookedUp
  <2>2. \A p \in Projects : row[p] # Gone => row[p] \in issued
    BY DEF TokenInv, LookedUp
  <2> QED
    BY <1>1, <2>1, <2>2 DEF LookedUp, Key, Owned, Owns
<1>6. request' \in [Slots -> Request \cup {NoRequest}]
  BY <1>2 DEF TokenInv, TokenTypeOK
<1> QED
  BY <1>1, <1>5, <1>6 DEF TokenInv, TokenTypeOK, CacheFollowsRow, Owns, Deleting

LEMMA ExpiryStep ==
  ASSUME TokenInv, NEW k \in Tokens, ExpireToken(k)
  PROVE  TokenInv'
<1>1. /\ UNCHANGED <<row, request, rotation, issued, excuse>>
      /\ cache' = [cache EXCEPT ![k] = None]
  BY DEF ExpireToken
<1>2. LookedUp'
  BY <1>1 DEF TokenInv, LookedUp, Owned, Owns, Key
<1> QED
  BY <1>1, <1>2 DEF TokenInv, TokenTypeOK, CacheFollowsRow, Owns, Deleting

(* A token that a project is given is no token yet, so it cannot be one     *)
(* that was looked up in vain; tokens go only.                              *)
LEMMA LookedUpStays ==
  ASSUME TokenInv, UNCHANGED request, issued \subseteq issued',
         \A p \in Projects : row'[p] # Gone => row'[p] \in issued',
         \A p \in Projects : row'[p] \in {row[p], Gone} \/ row'[p] \notin issued \cup Secrets
  PROVE  LookedUp'
<1>1. ASSUME NEW s \in Slots, request[s].hashed
      PROVE  ~ \E p \in Projects : row'[p] = request[s].token
  <2>1. request[s] # NoRequest
    BY <1>1 DEF NoRequest
  <2>2. request[s] \in Request
    BY <2>1 DEF TokenInv, TokenTypeOK
  <2>3. /\ request[s].token \in issued \cup Secrets /\ request[s].token # Gone
        /\ \A p \in Projects : row[p] # request[s].token
    BY <1>1, <2>1, <2>2, TokenAssumption DEF TokenInv, LookedUp, Owned, Owns, Request
  <2> QED
    BY <2>3
<1> QED
  BY <1>1 DEF TokenInv, LookedUp, Key, Owned, Owns

LEMMA ApiKeeps ==
  ASSUME TokenInv, ApiStep
  PROVE  TokenInv'
<1>1. /\ row \in [Projects -> Tokens \cup {Gone}] /\ cache \in [Tokens -> Projects \cup {None}]
      /\ rotation \in [Callers -> Rotation \cup {NoRotation}]
      /\ issued \subseteq Tokens /\ excuse \subseteq Tokens
      /\ \A t \in Tokens : cache[t] # None => t \in issued
      /\ \A p \in Projects : row[p] # Gone => row[p] \in issued
      /\ request \in [Slots -> Request \cup {NoRequest}]
  BY DEF TokenInv, TokenTypeOK, LookedUp
<1>2. NoRotation.pc = "idle" /\ \A o \in Rotation : o.project \in Projects /\ o.old \in Tokens
  BY DEF NoRotation, Rotation
<1>3. \A t \in Tokens \ excuse : cache[t] # None => row[cache[t]] = t \/ Deleting(t)
  BY DEF TokenInv, CacheFollowsRow, Owns
<1>4. ASSUME NEW c \in Callers, NEW p \in Projects, ReadToken(c, p)
      PROVE  TokenInv'
  <2> DEFINE o == [pc |-> "update", project |-> p, old |-> row[p]]
  <2>1. /\ UNCHANGED <<row, cache, request, issued, excuse>>
        /\ rotation' = [rotation EXCEPT ![c] = o] /\ rotation[c] = NoRotation
        /\ row[p] # Gone
    BY <1>4 DEF ReadToken
  <2>2. o \in Rotation /\ o.pc = "update"
    BY <1>1, <2>1 DEF Rotation
  <2>3. \A t : Deleting(t) => Deleting(t)'
    BY <1>1, <1>2, <2>1 DEF Deleting
  <2>4. LookedUp'
    BY <1>1, <2>1, LookedUpStays
  <2>5. TokenTypeOK'
    BY <1>1, <2>1, <2>2 DEF TokenTypeOK
  <2>6. CacheFollowsRow'
    BY <1>3, <2>1, <2>3 DEF CacheFollowsRow, Owns
  <2> QED
    BY <2>4, <2>5, <2>6 DEF TokenInv
<1>5. ASSUME NEW c \in Callers, NEW t \in Tokens, WriteToken(c, t)
      PROVE  TokenInv'
  <2> DEFINE o == rotation[c]
             p == o.project
  <2>1. /\ o.pc = "update" /\ t \in Tokens \ (issued \cup Secrets)
        /\ UNCHANGED <<cache, request>> /\ issued' = issued \cup {t}
        /\ rotation' = [rotation EXCEPT ![c].pc = "delete"]
        /\ row' = IF row[p] = Gone THEN row ELSE [row EXCEPT ![p] = t]
        /\ excuse' = IF row[p] \in {o.old, Gone} THEN excuse ELSE excuse \cup {row[p]}
    BY <1>5 DEF WriteToken
  <2>2. o \in Rotation /\ p \in Projects /\ o.old \in Tokens
    BY <1>1, <1>2, <2>1
  <2> DEFINE n == [o EXCEPT !.pc = "delete"]
  <2>3. n \in Rotation /\ n.pc = "delete" /\ n.old = o.old
    BY <2>2 DEF Rotation
  <2>4. \A d \in Callers : rotation'[d] = IF d = c THEN n ELSE rotation[d]
    BY <1>1, <2>1
  <2>5. (\A u : Deleting(u) => Deleting(u)') /\ (\A u : u = o.old => Deleting(u)')
    <3>1. ASSUME NEW u, NEW d \in Callers, rotation[d].pc = "delete", rotation[d].old = u
          PROVE  rotation'[d].pc = "delete" /\ rotation'[d].old = u
      BY <2>1, <2>4, <3>1
    <3>2. \A u : Deleting(u) => Deleting(u)'
      BY <3>1 DEF Deleting
    <3>3. \A u : u = o.old => Deleting(u)'
      BY <2>3, <2>4 DEF Deleting
    <3> QED
      BY <3>2, <3>3
  <2>6. \A r \in Projects : row'[r] = IF r = p /\ row[p] # Gone THEN t ELSE row[r]
    BY <1>1, <2>1, <2>2
  <2>7. LookedUp'
    <3>1. issued \subseteq issued' /\ t \in issued'
      BY <2>1
    <3>2. \A r \in Projects : row'[r] # Gone => row'[r] \in issued'
      BY <1>1, <2>6, <3>1
    <3>3. \A r \in Projects : row'[r] \in {row[r], Gone} \/ row'[r] \notin issued \cup Secrets
      BY <2>1, <2>6
    <3> QED
      BY <2>1, <3>1, <3>2, <3>3, LookedUpStays
  <2>8. TokenTypeOK'
    <3>1. row' \in [Projects -> Tokens \cup {Gone}]
      BY <1>1, <2>1, <2>2
    <3>2. excuse' \subseteq Tokens
      BY <1>1, <2>1, <2>2
    <3>3. rotation' \in [Callers -> Rotation \cup {NoRotation}]
      BY <1>1, <2>1, <2>3
    <3> QED
      BY <1>1, <2>1, <3>1, <3>2, <3>3 DEF TokenTypeOK
  <2>9. CacheFollowsRow'
    <3> SUFFICES ASSUME NEW u \in Tokens \ excuse', cache[u] # None
                 PROVE  row'[cache[u]] = u \/ Deleting(u)'
      BY <2>1 DEF CacheFollowsRow, Owns
    <3>1. u \notin excuse /\ cache[u] \in Projects
      BY <1>1, <2>1
    <3>2. row[cache[u]] = u \/ Deleting(u)
      BY <1>3, <3>1
    <3>3. CASE Deleting(u)
      BY <2>5, <3>3
    <3>4. CASE row[cache[u]] = u /\ (cache[u] # p \/ row[p] = Gone)
      BY <2>6, <3>1, <3>4
    <3>5. CASE row[cache[u]] = u /\ cache[u] = p /\ row[p] # Gone
      <4>1. u = o.old
        BY <2>1, <3>5
      <4> QED
        BY <2>5, <4>1
    <3> QED
      BY <3>2, <3>3, <3>4, <3>5
  <2> QED
    BY <2>7, <2>8, <2>9 DEF TokenInv
<1>6. ASSUME NEW c \in Callers, DeleteCached(c)
      PROVE  TokenInv'
  <2> DEFINE old == rotation[c].old
  <2>1. /\ rotation[c].pc = "delete" /\ rotation' = [rotation EXCEPT ![c] = NoRotation]
        /\ UNCHANGED <<row, request, issued>>
        /\ \/ cache' = [cache EXCEPT ![old] = None] /\ excuse' = excuse
           \/ excuse' = excuse \cup {old} /\ cache' = cache
    BY <1>6 DEF DeleteCached
  <2>2. old \in Tokens
    BY <1>1, <1>2, <2>1
  <2>3. \A u : Deleting(u) => u = old \/ Deleting(u)'
    BY <1>1, <2>1 DEF Deleting
  <2>4. LookedUp'
    BY <1>1, <2>1, LookedUpStays
  <2>5. TokenTypeOK'
    BY <1>1, <2>1, <2>2 DEF TokenTypeOK
  <2>6. CacheFollowsRow'
    <3> SUFFICES ASSUME NEW u \in Tokens \ excuse', cache'[u] # None
                 PROVE  row'[cache'[u]] = u \/ Deleting(u)'
      BY DEF CacheFollowsRow, Owns
    <3>1. u # old /\ u \notin excuse /\ cache'[u] = cache[u]
      BY <1>1, <2>1, <2>2
    <3>2. row[cache[u]] = u \/ Deleting(u)
      BY <1>3, <3>1
    <3> QED
      BY <2>1, <2>3, <3>1, <3>2
  <2> QED
    BY <2>4, <2>5, <2>6 DEF TokenInv
<1>7. ASSUME NEW p \in Projects, Remove(p)
      PROVE  TokenInv'
  <2>1. /\ row[p] # Gone /\ row' = [row EXCEPT ![p] = Gone] /\ excuse' = excuse \cup {row[p]}
        /\ UNCHANGED <<cache, request, rotation, issued>>
    BY <1>7 DEF Remove
  <2>2. \A r \in Projects : row'[r] = IF r = p THEN Gone ELSE row[r]
    BY <1>1, <2>1
  <2>3. LookedUp'
    BY <1>1, <2>1, <2>2, LookedUpStays
  <2>4. TokenTypeOK'
    BY <1>1, <2>1 DEF TokenTypeOK
  <2>5. \A u : Deleting(u) => Deleting(u)'
    BY <2>1 DEF Deleting
  <2>6. CacheFollowsRow'
    <3> SUFFICES ASSUME NEW u \in Tokens \ excuse', cache[u] # None
                 PROVE  row'[cache[u]] = u \/ Deleting(u)'
      BY <2>1 DEF CacheFollowsRow, Owns
    <3>1. u \notin excuse /\ u # row[p] /\ cache[u] \in Projects
      BY <1>1, <2>1
    <3>2. row[cache[u]] = u \/ Deleting(u)
      BY <1>3, <3>1
    <3> QED
      BY <2>2, <2>5, <3>1, <3>2
  <2> QED
    BY <2>3, <2>4, <2>6 DEF TokenInv
<1> QED
  BY <1>4, <1>5, <1>6, <1>7 DEF ApiStep

LEMMA TokenStep == TokenInv /\ [TokenNext]_tokenVars => TokenInv'
<1> SUFFICES ASSUME TokenInv, [TokenNext]_tokenVars
             PROVE  TokenInv'
  OBVIOUS
<1>1. CASE UNCHANGED tokenVars
  BY <1>1 DEF tokenVars, TokenInv, TokenTypeOK, LookedUp, CacheFollowsRow, Owned, Owns,
              Deleting, Key
<1>2. CASE TokenNext
  BY <1>2, GuardStep, SlotStep, ExpiryStep, ApiKeeps DEF TokenNext
<1> QED
  BY <1>1, <1>2

(* A request is refused by LookUp alone: every other step of the guard needs *)
(* another state of the request.                                            *)
LEMMA Refusals ==
  ASSUME TokenInv, BudgetOK, [TokenNext]_tokenVars, NEW s \in Slots,
         request[s].pc = "db", request'[s] = NoRequest, UNCHANGED faults
  PROVE  /\ ~Owned(request[s].token)
         /\ request[s].token \in Secrets => ~Owned(Hash[request[s].token])
<1> DEFINE q == request[s]
<1>1. /\ request \in [Slots -> Request \cup {NoRequest}] /\ q \in Request /\ q # NoRequest
      /\ q.token \in Tokens /\ NoRequest.pc = "idle"
      /\ q.hashed => q.token \in Secrets /\ ~Owned(q.token)
  BY DEF TokenInv, TokenTypeOK, LookedUp, NoRequest, Request
<1>2. ~Fault
  BY RequestsAssumption DEF Fault, BudgetOK
<1>3. request'[s] # request[s]
  BY <1>1
<1>4. LookUp(s)
  <2>1. ~UNCHANGED request
    BY <1>3
  <2>2. TokenNext /\ ~ApiStep /\ ~(\E t \in Tokens : ExpireToken(t))
    BY <2>1 DEF tokenVars, ApiStep, ReadToken, WriteToken, DeleteCached, Remove, ExpireToken
  <2>3. ASSUME NEW r \in Slots, NEW t \in Tokens, Ask(r, t)
        PROVE  FALSE
    <3>1. request[r] = NoRequest /\ \A o \in Slots : o # r => request'[o] = request[o]
      BY <1>1, <2>3 DEF Ask
    <3> QED
      BY <1>1, <1>3, <3>1
  <2>4. ASSUME NEW r \in Slots, InGuard(r) \/ PassGuard(r)
        PROVE  r = s
    BY <1>1, <1>3, <2>4 DEF InGuard, ReadCache, LookUp, WriteCache, PassGuard
  <2>5. ~ReadCache(s) /\ ~WriteCache(s) /\ ~PassGuard(s)
    BY DEF ReadCache, WriteCache, PassGuard
  <2> QED
    BY <2>2, <2>3, <2>4, <2>5 DEF TokenNext, InGuard
<1>5. ~Owned(Key(q)) /\ ~(~q.hashed /\ q.token \in Secrets)
  <2>1. ASSUME NEW r, request' = [request EXCEPT ![s] = r]
        PROVE  r = NoRequest
    BY <1>1, <2>1
  <2>2. \A p : [q EXCEPT !.pc = "fill", !.project = p].pc = "fill"
    BY <1>1 DEF Request
  <2>3. [q EXCEPT !.pc = "cache", !.hashed = TRUE].pc = "cache"
    BY <1>1 DEF Request
  <2>4. ~ \E p \in Projects : request' = [request EXCEPT ![s].pc = "fill", ![s].project = p]
    BY <1>1, <2>1, <2>2
  <2>5. request' # [request EXCEPT ![s].pc = "cache", ![s].hashed = TRUE]
    BY <1>1, <2>1, <2>3
  <2> QED
    BY <1>2, <1>4, <2>4, <2>5 DEF LookUp
<1> QED
  BY <1>1, <1>5 DEF Key, Secrets
-----------------------------------------------------------------------------
(* What the worker has read is the plan unless it was changed since, who is *)
(* over the limit was so when read, and counters only grow.                 *)
CycleFollows ==
  /\ worker # NoCycle => \A p \in Projects \ worker.changed : worker.rows[p] = limit[p]
  /\ worker.pc = "replace" =>
       \A p \in worker.over : AtLimit(counter[p][worker.month], worker.rows[p])
SetFollows ==
  \A p \in limited \ basis.changed : AtLimit(counter[p][basis.month], limit[p])

QuotaInv == QuotaTypeOK /\ CycleFollows /\ SetFollows

LEMMA QuotaStart == QuotaInit => QuotaInv
<1> SUFFICES ASSUME QuotaInit PROVE QuotaInv
  OBVIOUS
<1>1. /\ limit \in [Projects -> Limits \cup {NoLimit}] /\ month \in 1..Months
      /\ counter \in [Projects -> [1..Months -> Nat]]
  BY QuotaAssumption DEF QuotaInit
<1>2. /\ check \in [Slots -> Check \cup {NoCheck}]
      /\ basis \in [month : 1..Months, changed : SUBSET Projects]
  BY QuotaAssumption DEF QuotaInit
<1>3. limited = {} /\ worker = NoCycle /\ down = FALSE /\ NoCycle.pc = "idle"
  BY DEF QuotaInit, NoCycle
<1> QED
  BY <1>1, <1>2, <1>3 DEF QuotaInv, QuotaTypeOK, CycleFollows, SetFollows

(* The steps of a request up to the write.                                  *)
LEMMA CheckStep ==
  ASSUME QuotaInv, NEW s \in Slots,
         (\E p \in Projects : Arrive(s, p)) \/ CheckQuota(s) \/ WriteBatch(s)
  PROVE  QuotaInv'
<1>1. UNCHANGED <<limit, month, counter, limited, worker, down, basis>>
  BY DEF Arrive, CheckQuota, WriteBatch
<1>2. check' \in [Slots -> Check \cup {NoCheck}]
  <2>1. check \in [Slots -> Check \cup {NoCheck}] /\ month \in 1..Months /\ NoCheck.pc = "idle"
    BY DEF QuotaInv, QuotaTypeOK, NoCheck
  <2>2. ASSUME NEW p \in Projects, Arrive(s, p)
        PROVE  check' \in [Slots -> Check \cup {NoCheck}]
    <3>1. [pc |-> "billing", project |-> p, month |-> month] \in Check
      BY <2>1 DEF Check
    <3> QED
      BY <2>1, <2>2, <3>1 DEF Arrive
  <2>3. CASE CheckQuota(s)
    <3>1. check[s] \in Check
      BY <2>1, <2>3 DEF CheckQuota
    <3>2. [check[s] EXCEPT !.pc = "write"] \in Check
      BY <3>1 DEF Check
    <3> QED
      BY <2>1, <2>3, <3>2 DEF CheckQuota
  <2>4. CASE WriteBatch(s)
    <3>1. check[s] \in Check
      BY <2>1, <2>4 DEF WriteBatch
    <3>2. [check[s] EXCEPT !.pc = "count", !.month = month] \in Check
      BY <2>1, <3>1 DEF Check
    <3> QED
      BY <2>1, <2>4, <3>2 DEF WriteBatch
  <2> QED
    BY <2>2, <2>3, <2>4
<1> QED
  BY <1>1, <1>2 DEF QuotaInv, QuotaTypeOK, CycleFollows, SetFollows

(* A counter that grows stays at the limit.                                 *)
LEMMA CountStep ==
  ASSUME QuotaInv, NEW s \in Slots, IncrementCounter(s)
  PROVE  QuotaInv'
<1> DEFINE h == check[s]
<1>1. /\ UNCHANGED <<limit, month, limited, worker, down, basis>>
      /\ check' = [check EXCEPT ![s] = NoCheck]
      /\ \/ counter' = [counter EXCEPT ![h.project][h.month] = @ + 1]
         \/ counter' = counter
  BY DEF IncrementCounter
<1>2. h \in Check /\ h.project \in Projects /\ h.month \in 1..Months
  BY DEF IncrementCounter, QuotaInv, QuotaTypeOK, Check, NoCheck
<1>3. counter \in [Projects -> [1..Months -> Nat]]
  BY DEF QuotaInv, QuotaTypeOK
<1>4. /\ counter' \in [Projects -> [1..Months -> Nat]]
      /\ \A p \in Projects, m \in 1..Months : counter'[p][m] >= counter[p][m]
  <2>1. CASE counter' = counter
    <3>1. \A p \in Projects, m \in 1..Months : counter[p][m] \in Nat
      BY <1>3
    <3>2. \A n \in Nat : n >= n
      OBVIOUS
    <3> QED
      BY <1>3, <2>1, <3>1, <3>2
  <2>2. CASE counter' = [counter EXCEPT ![h.project][h.month] = @ + 1]
    <3> DEFINE P == h.project
               M == h.month
    <3>1. P \in Projects /\ M \in 1..Months
      BY <1>2
    <3> HIDE DEF P, M
    <3>2. counter' = [counter EXCEPT ![P] = [counter[P] EXCEPT ![M] = counter[P][M] + 1]]
      BY <2>2 DEF P, M
    <3>3. counter[P] \in [1..Months -> Nat] /\ counter[P][M] \in Nat
      BY <1>3, <3>1
    <3>4. [counter[P] EXCEPT ![M] = counter[P][M] + 1] \in [1..Months -> Nat]
      BY <3>1, <3>3
    <3>5. counter' \in [Projects -> [1..Months -> Nat]]
      BY <1>3, <3>2, <3>4
    <3>6. ASSUME NEW p \in Projects, NEW m \in 1..Months
          PROVE  counter'[p][m] >= counter[p][m]
      <4>1. counter[p][m] \in Nat /\ counter[p] \in [1..Months -> Nat]
        BY <1>3
      <4>2. counter'[p][m] = IF p = P /\ m = M THEN counter[p][m] + 1 ELSE counter[p][m]
        BY <1>3, <3>1, <3>2, <3>3, <4>1
      <4> QED
        BY <4>1, <4>2
    <3> QED
      BY <3>5, <3>6
  <2> QED
    BY <1>1, <2>1, <2>2
<1>5. \A p \in Projects, m \in 1..Months, max \in Limits \cup {NoLimit} :
        AtLimit(counter[p][m], max) => AtLimit(counter'[p][m], max)
  BY <1>3, <1>4, QuotaAssumption DEF AtLimit
<1>6. QuotaTypeOK'
  BY <1>1, <1>4 DEF QuotaInv, QuotaTypeOK
<1>7. CycleFollows'
  <2> SUFFICES ASSUME worker.pc = "replace", NEW p \in worker.over
               PROVE  AtLimit(counter'[p][worker.month], worker.rows[p])
    BY <1>1 DEF QuotaInv, CycleFollows
  <2>1. worker \in Cycle
    BY DEF QuotaInv, QuotaTypeOK, NoCycle
  <2>2. p \in Projects /\ worker.month \in 1..Months /\ worker.rows[p] \in Limits \cup {NoLimit}
    BY <2>1 DEF Cycle
  <2> QED
    BY <1>5, <2>2 DEF QuotaInv, CycleFollows
<1>8. SetFollows'
  <2> SUFFICES ASSUME NEW p \in limited \ basis.changed
               PROVE  AtLimit(counter'[p][basis.month], limit[p])
    BY <1>1 DEF SetFollows
  <2>1. p \in Projects /\ basis.month \in 1..Months /\ limit[p] \in Limits \cup {NoLimit}
    BY DEF QuotaInv, QuotaTypeOK
  <2> QED
    BY <1>5, <2>1 DEF QuotaInv, SetFollows
<1> QED
  BY <1>6, <1>7, <1>8 DEF QuotaInv

LEMMA WorkerStep ==
  ASSUME QuotaInv, CycleStep \/ CycleThrows \/ WorkerStops \/ WorkerStarts \/ ExpireSet
  PROVE  QuotaInv'
<1>1. UNCHANGED <<limit, month, counter, check>> /\ NoCycle.pc = "idle"
  BY DEF CycleStep, SelectRows, ClearSet, TakeNow, ReadCounters, ReplaceSet, CycleThrows,
         WorkerStops, WorkerStarts, ExpireSet, NoCycle
<1>2. /\ worker.pc # "idle" => worker \in Cycle
      /\ limit \in [Projects -> Limits \cup {NoLimit}] /\ month \in 1..Months
  BY <1>1 DEF QuotaInv, QuotaTypeOK
<1>3. CASE SelectRows
  <2> DEFINE w == [pc |-> IF \E p \in Projects : limit[p] # NoLimit THEN "plan" ELSE "clear",
                   rows |-> limit, month |-> month, over |-> {}, changed |-> {}]
  <2>1. UNCHANGED <<limited, down, basis>> /\ worker' = w
    BY <1>3 DEF SelectRows
  <2>2. w \in Cycle /\ w.pc \in {"plan", "clear"} /\ w.rows = limit
    BY <1>2 DEF Cycle
  <2> HIDE DEF w
  <2> QED
    BY <1>1, <2>1, <2>2 DEF QuotaInv, QuotaTypeOK, CycleFollows, SetFollows
<1>4. CASE ClearSet
  <2>1. /\ worker.pc = "clear" /\ limited' = {} /\ worker' = NoCycle /\ down' = down
        /\ basis' = [basis EXCEPT !.changed = worker.changed]
    BY <1>4 DEF ClearSet
  <2>2. worker.changed \subseteq Projects
    BY <1>2, <2>1 DEF Cycle
  <2> QED
    BY <1>1, <2>1, <2>2 DEF QuotaInv, QuotaTypeOK, CycleFollows, SetFollows
<1>5. CASE TakeNow
  <2> DEFINE w == [worker EXCEPT !.pc = "read", !.month = month]
  <2>1. UNCHANGED <<limited, down, basis>> /\ worker' = w /\ worker.pc = "plan"
    BY <1>5 DEF TakeNow
  <2>2. /\ w \in Cycle /\ w.pc = "read" /\ w.rows = worker.rows /\ w.changed = worker.changed
        /\ worker # NoCycle
    BY <1>1, <1>2, <2>1 DEF Cycle
  <2> HIDE DEF w
  <2> QED
    BY <1>1, <2>1, <2>2 DEF QuotaInv, QuotaTypeOK, CycleFollows, SetFollows
<1>6. CASE ReadCounters
  <2> DEFINE over == {p \in Projects : AtLimit(counter[p][worker.month], worker.rows[p])}
             w == [worker EXCEPT !.pc = "replace", !.over = over]
  <2>1. UNCHANGED <<limited, down, basis>> /\ worker' = w /\ worker.pc = "read"
    BY <1>6 DEF ReadCounters
  <2>2. /\ w \in Cycle /\ w.rows = worker.rows /\ w.changed = worker.changed
        /\ w.over = over /\ w.month = worker.month /\ worker # NoCycle
    BY <1>1, <1>2, <2>1 DEF Cycle
  <2>3. \A p \in w.over : AtLimit(counter[p][w.month], w.rows[p])
    BY <2>2
  <2> HIDE DEF w, over
  <2> QED
    BY <1>1, <2>1, <2>2, <2>3 DEF QuotaInv, QuotaTypeOK, CycleFollows, SetFollows
<1>7. CASE ReplaceSet
  <2> DEFINE b == [month |-> worker.month, changed |-> worker.changed]
  <2>1. /\ worker.pc = "replace" /\ limited' = worker.over /\ worker' = NoCycle
        /\ basis' = b /\ down' = down
    BY <1>7 DEF ReplaceSet
  <2>2. /\ worker.over \subseteq Projects /\ b \in [month : 1..Months, changed : SUBSET Projects]
        /\ worker # NoCycle
    BY <1>1, <1>2, <2>1 DEF Cycle
  <2>3. \A p \in worker.over \ b.changed : AtLimit(counter[p][b.month], limit[p])
    BY <2>1, <2>2 DEF QuotaInv, CycleFollows
  <2> QED
    BY <1>1, <2>1, <2>2, <2>3 DEF QuotaInv, QuotaTypeOK, CycleFollows, SetFollows
<1>8. CASE CycleThrows \/ WorkerStops
  <2>1. /\ UNCHANGED <<limited, basis>> /\ worker' = NoCycle /\ down' \in {down, TRUE}
    BY <1>8 DEF CycleThrows, WorkerStops
  <2> QED
    BY <1>1, <2>1 DEF QuotaInv, QuotaTypeOK, CycleFollows, SetFollows
<1>9. CASE WorkerStarts \/ ExpireSet
  <2>1. /\ UNCHANGED <<basis, worker>> /\ down' \in {down, FALSE} /\ limited' \in {limited, {}}
    BY <1>9 DEF WorkerStarts, ExpireSet
  <2> QED
    BY <1>1, <2>1 DEF QuotaInv, QuotaTypeOK, CycleFollows, SetFollows
<1> QED
  BY <1>3, <1>4, <1>5, <1>6, <1>7, <1>8, <1>9 DEF CycleStep

LEMMA PlanStep ==
  ASSUME QuotaInv, NEW p \in Projects, NEW max \in Limits \cup {NoLimit}, ChangePlan(p, max)
  PROVE  QuotaInv'
<1> DEFINE w == [worker EXCEPT !.changed = @ \cup {p}]
           b == [basis EXCEPT !.changed = @ \cup {p}]
<1>1. /\ UNCHANGED <<month, counter, limited, check, down>>
      /\ limit' = [limit EXCEPT ![p] = max] /\ basis' = b
      /\ worker' = IF worker = NoCycle THEN worker ELSE w
  BY DEF ChangePlan
<1>2. /\ limit' \in [Projects -> Limits \cup {NoLimit}]
      /\ \A q \in Projects : q # p => limit'[q] = limit[q]
  BY <1>1 DEF QuotaInv, QuotaTypeOK
<1>3. /\ b \in [month : 1..Months, changed : SUBSET Projects]
      /\ b.month = basis.month /\ b.changed = basis.changed \cup {p}
  BY DEF QuotaInv, QuotaTypeOK
<1>4. worker # NoCycle => /\ w \in Cycle /\ w.pc = worker.pc /\ w.rows = worker.rows
                          /\ w.over = worker.over /\ w.month = worker.month
                          /\ w.changed = worker.changed \cup {p}
  BY DEF QuotaInv, QuotaTypeOK, Cycle
<1> HIDE DEF w, b
<1>5. CycleFollows'
  <2>1. NoCycle.pc = "idle"
    BY DEF NoCycle
  <2> QED
    BY <1>1, <1>2, <1>4, <2>1 DEF QuotaInv, CycleFollows
<1>6. SetFollows'
  BY <1>1, <1>2, <1>3 DEF QuotaInv, QuotaTypeOK, SetFollows
<1> QED
  BY <1>1, <1>2, <1>3, <1>4, <1>5, <1>6 DEF QuotaInv, QuotaTypeOK

LEMMA QuotaStep == QuotaInv /\ [QuotaNext]_quotaVars => QuotaInv'
<1> SUFFICES ASSUME QuotaInv, [QuotaNext]_quotaVars
             PROVE  QuotaInv'
  OBVIOUS
<1>1. CASE UNCHANGED quotaVars
  BY <1>1 DEF quotaVars, QuotaInv, QuotaTypeOK, CycleFollows, SetFollows
<1>2. CASE NextMonth
  BY <1>2, QuotaAssumption DEF NextMonth, QuotaInv, QuotaTypeOK, CycleFollows, SetFollows
<1>3. CASE QuotaNext /\ ~NextMonth
  BY <1>3, CheckStep, CountStep, WorkerStep, PlanStep DEF QuotaNext, QuotaAlone, Handling
<1> QED
  BY <1>1, <1>2, <1>3
-----------------------------------------------------------------------------
(* A slot serves one request; the faults and changes are bounded.           *)
OneRequest == \A s \in Slots : request[s] = NoRequest \/ check[s] = NoCheck

AdmissionInv == TokenInv /\ QuotaInv /\ BudgetOK /\ OneRequest

LEMMA StepOfToken == Next => [TokenNext]_tokenVars
  BY DEF Next, Send, NextGuard, TokenNext

LEMMA StepOfQuota == TokenInv /\ Next => [QuotaNext]_quotaVars
<1> SUFFICES ASSUME TokenInv, NEW s \in Slots, NextGuard(s)
             PROVE  \E p \in Projects : Arrive(s, p)
  BY DEF Next, Send, QuotaNext
<1>1. request[s].pc = "resolved" /\ Arrive(s, request[s].project) /\ NoRequest.pc = "idle"
  BY DEF NextGuard, PassGuard, NoRequest
<1>2. request[s].project \in Projects
  BY <1>1, RequestFacts DEF TokenInv, TokenTypeOK
<1> QED
  BY <1>1, <1>2

LEMMA BudgetStep ==
  ASSUME BudgetOK, Next
  PROVE  BudgetOK'
<1>1. UNCHANGED budget \/ Fault \/ Change
  <2>1. ASSUME NEW s \in Slots, NEW t \in Tokens, Send(s, t)
        PROVE  UNCHANGED budget
    BY <2>1 DEF Send, Ask
  <2>2. ASSUME NEW s \in Slots, InGuard(s)
        PROVE  UNCHANGED budget \/ Fault
    BY <2>2 DEF InGuard, ReadCache, LookUp, WriteCache
  <2>3. ASSUME NEW s \in Slots, NextGuard(s)
        PROVE  UNCHANGED budget
    BY <2>3 DEF NextGuard
  <2>4. ASSUME NEW t \in Tokens, ExpireToken(t)
        PROVE  UNCHANGED budget
    BY <2>4 DEF ExpireToken
  <2>5. CASE ApiStep
    BY <2>5 DEF ApiStep, ReadToken, WriteToken, DeleteCached, Remove
  <2>6. ASSUME NEW s \in Slots, Handling(s)
        PROVE  UNCHANGED budget \/ Fault
    BY <2>6 DEF Handling, CheckQuota, WriteBatch, IncrementCounter
  <2>7. CASE CycleStep \/ CycleThrows \/ WorkerStops \/ WorkerStarts \/ ExpireSet
    BY <2>7 DEF CycleStep, SelectRows, ClearSet, TakeNow, ReadCounters, ReplaceSet,
                CycleThrows, WorkerStops, WorkerStarts, ExpireSet
  <2>8. ASSUME \/ NextMonth
               \/ \E p \in Projects, max \in Limits \cup {NoLimit} : ChangePlan(p, max)
        PROVE  Change
    BY <2>8 DEF NextMonth, ChangePlan
  <2> QED
    BY <2>1, <2>2, <2>3, <2>4, <2>5, <2>6, <2>7, <2>8 DEF Next, QuotaAlone
<1> QED
  BY <1>1, RequestsAssumption DEF BudgetOK, budget, Fault, Change

LEMMA SlotsStep ==
  ASSUME AdmissionInv, Next
  PROVE  OneRequest'
<1>1. /\ request \in [Slots -> Request \cup {NoRequest}]
      /\ check \in [Slots -> Check \cup {NoCheck}]
      /\ NoRequest.pc = "idle" /\ NoCheck.pc = "idle"
  BY DEF AdmissionInv, TokenInv, TokenTypeOK, QuotaInv, QuotaTypeOK, NoRequest, NoCheck
<1>2. ASSUME NEW s \in Slots, NEW t \in Tokens, Send(s, t)
      PROVE  OneRequest'
  <2>1. /\ check[s] = NoCheck /\ check' = check
        /\ \A o \in Slots : o # s => request'[o] = request[o]
    BY <1>1, <1>2 DEF Send, Ask, quotaVars
  <2> QED
    BY <2>1 DEF AdmissionInv, OneRequest
<1>3. ASSUME NEW s \in Slots, InGuard(s) /\ UNCHANGED quotaVars
      PROVE  OneRequest'
  <2>1. /\ request[s].pc # "idle" /\ check' = check
        /\ \A o \in Slots : o # s => request'[o] = request[o]
    BY <1>1, <1>3 DEF InGuard, ReadCache, LookUp, WriteCache, quotaVars
  <2>2. check[s] = NoCheck
    BY <1>1, <2>1 DEF AdmissionInv, OneRequest
  <2> QED
    BY <2>1, <2>2 DEF AdmissionInv, OneRequest
<1>4. ASSUME NEW s \in Slots, NextGuard(s)
      PROVE  OneRequest'
  <2>1. /\ request'[s] = NoRequest
        /\ \A o \in Slots : o # s => request'[o] = request[o] /\ check'[o] = check[o]
    BY <1>1, <1>4 DEF NextGuard, PassGuard, Arrive
  <2> QED
    BY <2>1 DEF AdmissionInv, OneRequest
<1>5. ASSUME NEW s \in Slots, Handling(s) /\ UNCHANGED tokenVars
      PROVE  OneRequest'
  <2>1. /\ check[s].pc # "idle" /\ request' = request
        /\ \A o \in Slots : o # s => check'[o] = check[o]
    BY <1>1, <1>5 DEF Handling, CheckQuota, WriteBatch, IncrementCounter, tokenVars
  <2>2. request[s] = NoRequest
    BY <1>1, <2>1 DEF AdmissionInv, OneRequest
  <2> QED
    BY <2>1, <2>2 DEF AdmissionInv, OneRequest
<1>6. ASSUME UNCHANGED <<request, check>>
      PROVE  OneRequest'
  BY <1>6 DEF AdmissionInv, OneRequest
<1>7. ASSUME NEW t \in Tokens, ExpireToken(t) /\ UNCHANGED quotaVars
      PROVE  UNCHANGED <<request, check>>
  BY <1>7 DEF ExpireToken, quotaVars
<1>8. CASE ApiStep /\ UNCHANGED quotaVars
  <2>1. UNCHANGED <<request, check>>
    BY <1>8 DEF ApiStep, ReadToken, WriteToken, DeleteCached, Remove, quotaVars
  <2> QED
    BY <1>6, <2>1
<1>9. CASE /\ \/ CycleStep \/ CycleThrows \/ WorkerStops \/ WorkerStarts \/ ExpireSet
              \/ \E p \in Projects, max \in Limits \cup {NoLimit} : ChangePlan(p, max)
              \/ NextMonth
           /\ UNCHANGED tokenVars
  <2>1. UNCHANGED <<request, check>>
    BY <1>9 DEF CycleStep, SelectRows, ClearSet, TakeNow, ReadCounters, ReplaceSet,
                CycleThrows, WorkerStops, WorkerStarts, ExpireSet, ChangePlan, NextMonth,
                tokenVars
  <2> QED
    BY <1>6, <2>1
<1> QED
  BY <1>2, <1>3, <1>4, <1>5, <1>6, <1>7, <1>8, <1>9 DEF Next, QuotaAlone

LEMMA AdmissionStart == Init => AdmissionInv
<1> SUFFICES ASSUME Init PROVE AdmissionInv
  OBVIOUS
<1>1. BudgetOK /\ OneRequest
  BY RequestsAssumption DEF Init, TokenInit, BudgetOK, OneRequest
<1> QED
  BY <1>1, TokenStart, QuotaStart DEF Init, AdmissionInv

LEMMA AdmissionStep == AdmissionInv /\ [Next]_vars => AdmissionInv'
<1> SUFFICES ASSUME AdmissionInv, [Next]_vars
             PROVE  AdmissionInv'
  OBVIOUS
<1>1. CASE UNCHANGED vars
  <2>1. TokenInv' /\ QuotaInv'
    BY <1>1, TokenStep, QuotaStep DEF AdmissionInv, vars
  <2>2. UNCHANGED <<request, check, faults, changes>>
    BY <1>1 DEF vars, tokenVars, quotaVars, budget
  <2> QED
    BY <2>1, <2>2 DEF AdmissionInv, BudgetOK, OneRequest
<1>2. CASE Next
  BY <1>2, StepOfToken, StepOfQuota, TokenStep, QuotaStep, BudgetStep, SlotsStep
     DEF AdmissionInv
<1> QED
  BY <1>1, <1>2

LEMMA AdmissionHolds == Spec => []AdmissionInv
  BY AdmissionStart, AdmissionStep, PTL DEF Spec
-----------------------------------------------------------------------------
(* Types; a slot serves one request at a time, in ApiKeyGuard or after it.  *)
THEOREM AdmissionTyped == Spec => []TypeOK
<1>1. AdmissionInv => TypeOK
  BY DEF AdmissionInv, TypeOK, TokenInv, QuotaInv, OneRequest
<1> QED
  BY <1>1, AdmissionHolds, PTL

(* The cache of ApiKeyGuard holds no token that its project no longer has,  *)
(* outside a rotation and the four exceptions.                              *)
THEOREM CacheFollows == Spec => []CacheFollowsRow
<1>1. AdmissionInv => CacheFollowsRow
  BY DEF AdmissionInv, TokenInv
<1> QED
  BY <1>1, AdmissionHolds, PTL

(* ApiKeyGuard refuses no token, and no secret, that a project has.         *)
THEOREM OwnersAreLetIn == Spec => RefusedUnowned
<1>1. AdmissionInv /\ [Next]_vars =>
        [\A s \in Slots :
           request[s].pc = "db" /\ request'[s] = NoRequest /\ UNCHANGED faults =>
             /\ ~Owned(request[s].token)
             /\ request[s].token \in Secrets => ~Owned(Hash[request[s].token])]_tokenVars
  BY StepOfToken, Refusals DEF AdmissionInv, vars
<1> QED
  BY <1>1, AdmissionHolds, PTL DEF Spec, RefusedUnowned

(* BillingGuard drops batches only of projects at the limit of their plan.  *)
THEOREM OnlyTheLimitedAreDropped == Spec => []LimitedAtLimit
<1>1. AdmissionInv => LimitedAtLimit
  BY DEF AdmissionInv, QuotaInv, SetFollows, LimitedAtLimit, OverLimit
<1> QED
  BY <1>1, AdmissionHolds, PTL
=============================================================================
