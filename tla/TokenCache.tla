---------------------------- MODULE TokenCache ----------------------------
(***************************************************************************)
(* ApiKeyGuard of the ingest, which resolves the token of a request to its *)
(* project through a cache in Redis, and the calls of the API that take a  *)
(* token away: rotateToken and remove of ProjectsService.                  *)
(*                                                                         *)
(* A slot is a place for one request of an ingest replica at a time.  The  *)
(* guard does not await the SET that fills the cache, but whatever the     *)
(* request asks of Redis next comes after it on the same connection, so it *)
(* is a step of the request.  Old SDKs send a secret whose SHA-256 the     *)
(* project stores: Hash gives the stored token of a secret.  Time is an    *)
(* order: an entry of the cache may expire at any moment after its SET.    *)
(***************************************************************************)
EXTENDS Requests

CONSTANTS
  Tokens,
  Stored,   \* the token of each project at the start
  Hash,     \* the token stored for a secret, None for other tokens
  Callers,  \* of rotateToken
  None, Gone

ASSUME TokenAssumption ==
  /\ Hash \in [Tokens -> Tokens \cup {None}]
  /\ None \notin Tokens \cup Projects /\ Gone \notin Tokens
  /\ Stored \in [Projects -> {t \in Tokens : Hash[t] = None}]
  /\ \A p, q \in Projects : Stored[p] = Stored[q] => p = q

VARIABLES
  row,      \* projects.token, Gone when the project is removed
  cache,    \* project_token:<token> in Redis
  request,  \* the request of each slot, in the guard
  rotation, \* the rotateToken of each caller
  issued,   \* history: tokens that projects have had
  excuse    \* history: tokens that may stay in the cache until they expire

tokenVars == <<row, cache, request, rotation, issued, excuse>>

NoRequest  == [pc |-> "idle", token |-> None, hashed |-> FALSE, project |-> None]
NoRotation == [pc |-> "idle", project |-> None, old |-> None]
Secrets == {t \in Tokens : Hash[t] # None}
Key(q) == IF q.hashed THEN Hash[q.token] ELSE q.token

Request ==
  {q \in [pc : {"cache", "db", "fill", "resolved"}, token : Tokens, hashed : BOOLEAN,
          project : Projects \cup {None}] :
     /\ q.hashed => q.token \in Secrets
     /\ q.project = None <=> q.pc \in {"cache", "db"}}
Rotation == [pc : {"update", "delete"}, project : Projects, old : Tokens]

(* Types; what is cached belongs, or has belonged, to a project.            *)
TokenTypeOK ==
  /\ row \in [Projects -> Tokens \cup {Gone}]
  /\ cache \in [Tokens -> Projects \cup {None}]
  /\ request \in [Slots -> Request \cup {NoRequest}]
  /\ rotation \in [Callers -> Rotation \cup {NoRotation}]
  /\ issued \subseteq Tokens /\ excuse \subseteq Tokens
  /\ \A t \in Tokens : cache[t] # None => t \in issued
-----------------------------------------------------------------------------
Owns(p, t) == row[p] = t
Owned(t) == \E p \in Projects : Owns(p, t)

TokenInit ==
  /\ row = Stored
  /\ cache = [t \in Tokens |-> None]
  /\ request = [s \in Slots |-> NoRequest]
  /\ rotation = [c \in Callers |-> NoRotation]
  /\ issued = {Stored[p] : p \in Projects}
  /\ excuse = {}

(* A client sends a token that it was given, or the secret of one.          *)
Ask(s, t) ==
  /\ request[s] = NoRequest
  /\ t \in issued \/ (t \in Secrets /\ Hash[t] \in issued)
  /\ request' = [request EXCEPT ![s] = [pc |-> "cache", token |-> t,
                                        hashed |-> FALSE, project |-> None]]
  /\ UNCHANGED <<row, cache, rotation, issued, excuse, budget>>

ReadCacheRenews(s) ==  \* bug: a hit is written back with a new time to live
  LET found == cache[Key(request[s])] IN
  /\ request[s].pc = "cache"
  /\ \/ /\ found # None
        /\ request' = [request EXCEPT ![s].pc = "fill", ![s].project = found]
        /\ UNCHANGED budget
     \/ /\ request' = [request EXCEPT ![s].pc = "db"]
        /\ IF found = None THEN UNCHANGED budget ELSE Fault
  /\ UNCHANGED <<row, cache, rotation, issued, excuse>>

(* readCache: an error of Redis counts as a miss.                           *)
ReadCache(s) ==
  LET found == cache[Key(request[s])] IN
  /\ request[s].pc = "cache"
  /\ \/ /\ found # None
        /\ request' = [request EXCEPT ![s].pc = "resolved", ![s].project = found]
        /\ UNCHANGED budget
     \/ /\ request' = [request EXCEPT ![s].pc = "db"]
        /\ IF found = None THEN UNCHANGED budget ELSE Fault
  /\ UNCHANGED <<row, cache, rotation, issued, excuse>>

LookUpDirectly(s) ==  \* bug: no second look with the hash
  LET key == Key(request[s]) IN
  /\ request[s].pc = "db"
  /\ \/ /\ \E p \in Projects :
             Owns(p, key) /\ request' = [request EXCEPT ![s].pc = "fill", ![s].project = p]
        /\ UNCHANGED budget
     \/ /\ request' = [request EXCEPT ![s] = NoRequest]
        /\ IF Owned(key) THEN Fault ELSE UNCHANGED budget
  /\ UNCHANGED <<row, cache, rotation, issued, excuse>>

(* lookupByToken, first with the token and then with its hash; 401 when     *)
(* neither is found, 500 when the query throws.                             *)
LookUp(s) ==
  LET q == request[s]
      key == Key(q)
      again == ~q.hashed /\ q.token \in Secrets
  IN
  /\ q.pc = "db"
  /\ \/ /\ \E p \in Projects :
             Owns(p, key) /\ request' = [request EXCEPT ![s].pc = "fill", ![s].project = p]
        /\ UNCHANGED budget
     \/ /\ ~Owned(key) /\ again
        /\ request' = [request EXCEPT ![s].pc = "cache", ![s].hashed = TRUE]
        /\ UNCHANGED budget
     \/ /\ request' = [request EXCEPT ![s] = NoRequest]
        /\ IF Owned(key) \/ again THEN Fault ELSE UNCHANGED budget
  /\ UNCHANGED <<row, cache, rotation, issued, excuse>>

(* The DEL of a rotation of t is still to come.                             *)
Deleting(t) == \E c \in Callers : rotation[c].pc = "delete" /\ rotation[c].old = t

WriteUnderSecret(s) ==  \* bug: the entry gets the key of what the client sent
  LET q == request[s]
      key == q.token
  IN
  /\ q.pc = "fill"
  /\ request' = [request EXCEPT ![s].pc = "resolved"]
  /\ \/ /\ cache' = [cache EXCEPT ![key] = q.project] /\ UNCHANGED budget
        /\ excuse' = IF Owns(q.project, key) \/ Deleting(key) THEN excuse ELSE excuse \cup {key}
     \/ Fault /\ UNCHANGED <<cache, excuse>>
  /\ UNCHANGED <<row, rotation, issued>>

(* writeCache, whose failure is logged.  A rotation may have overtaken it.  *)
WriteCache(s) ==
  LET q == request[s]
      key == Key(q)
  IN
  /\ q.pc = "fill"
  /\ request' = [request EXCEPT ![s].pc = "resolved"]
  /\ \/ /\ cache' = [cache EXCEPT ![key] = q.project] /\ UNCHANGED budget
        /\ excuse' = IF Owns(q.project, key) \/ Deleting(key) THEN excuse ELSE excuse \cup {key}
     \/ Fault /\ UNCHANGED <<cache, excuse>>
  /\ UNCHANGED <<row, rotation, issued>>

(* canActivate is true.                                                     *)
PassGuard(s) ==
  /\ request[s].pc = "resolved"
  /\ request' = [request EXCEPT ![s] = NoRequest]
  /\ UNCHANGED <<row, cache, rotation, issued, excuse>>

ExpireToken(t) ==
  /\ cache[t] # None
  /\ cache' = [cache EXCEPT ![t] = None]
  /\ UNCHANGED <<row, request, rotation, issued, excuse, budget>>
-----------------------------------------------------------------------------
(* rotateToken, up to the SELECT.                                           *)
ReadToken(c, p) ==
  /\ rotation[c] = NoRotation /\ row[p] # Gone /\ Change
  /\ rotation' = [rotation EXCEPT ![c] = [pc |-> "update", project |-> p, old |-> row[p]]]
  /\ UNCHANGED <<row, cache, request, issued, excuse>>

(* Its UPDATE: it may replace another token than it has read, when two      *)
(* rotations overlap.                                                       *)
WriteToken(c, t) ==
  LET o == rotation[c]
      p == o.project
  IN
  /\ o.pc = "update" /\ t \in Tokens \ (issued \cup Secrets)
  /\ row' = IF row[p] = Gone THEN row ELSE [row EXCEPT ![p] = t]
  /\ rotation' = [rotation EXCEPT ![c].pc = "delete"]
  /\ issued' = issued \cup {t}
  /\ excuse' = IF row[p] \in {o.old, Gone} THEN excuse ELSE excuse \cup {row[p]}
  /\ UNCHANGED <<cache, request, budget>>

DeleteNew(c) ==  \* bug: the key of the new token is deleted
  LET p == rotation[c].project IN
  /\ rotation[c].pc = "delete"
  /\ rotation' = [rotation EXCEPT ![c] = NoRotation]
  /\ \/ cache' = [cache EXCEPT ![row[p]] = None] /\ UNCHANGED <<excuse, budget>>
     \/ Fault /\ excuse' = excuse \cup {row[p]} /\ UNCHANGED cache
  /\ UNCHANGED <<row, request, issued>>

(* Its DEL; a failure is logged, or the process dies before it.             *)
DeleteCached(c) ==
  LET old == rotation[c].old IN
  /\ rotation[c].pc = "delete"
  /\ rotation' = [rotation EXCEPT ![c] = NoRotation]
  /\ \/ cache' = [cache EXCEPT ![old] = None] /\ UNCHANGED <<excuse, budget>>
     \/ Fault /\ excuse' = excuse \cup {old} /\ UNCHANGED cache
  /\ UNCHANGED <<row, request, issued>>

(* remove() leaves the cache alone.                                         *)
Remove(p) ==
  /\ row[p] # Gone /\ Change
  /\ row' = [row EXCEPT ![p] = Gone]
  /\ excuse' = excuse \cup {row[p]}
  /\ UNCHANGED <<cache, request, rotation, issued>>
-----------------------------------------------------------------------------
InGuard(s) == ReadCache(s) \/ LookUp(s) \/ WriteCache(s)
ApiStep == \/ \E c \in Callers, p \in Projects : ReadToken(c, p)
           \/ \E c \in Callers, t \in Tokens : WriteToken(c, t)
           \/ \E c \in Callers : DeleteCached(c)
           \/ \E p \in Projects : Remove(p)

TokenNext ==
  \/ \E s \in Slots, t \in Tokens : Ask(s, t)
  \/ \E s \in Slots : InGuard(s) \/ PassGuard(s)
  \/ \E t \in Tokens : ExpireToken(t)
  \/ ApiStep

TokenSpec == TokenInit /\ [][TokenNext]_tokenVars
-----------------------------------------------------------------------------
(* "Invalidate ingest Redis cache for the old token so it can no longer     *)
(* authenticate" (projects.service.ts:137): a token that its project no     *)
(* longer has is cached only while its DEL is on the way, or for one of     *)
(* four reasons: the DEL failed, a lookup was overtaken by the rotation,    *)
(* another rotation replaced a token that it had not read, or the project   *)
(* was removed.                                                             *)
CacheFollowsRow ==
  \A t \in Tokens \ excuse : cache[t] # None => Owns(cache[t], t) \/ Deleting(t)

(* 401 only for a token that no project has, whatever the cache holds and   *)
(* whichever way the client's SDK is authenticated.                         *)
RefusedUnowned ==
  [][\A s \in Slots :
       request[s].pc = "db" /\ request'[s] = NoRequest /\ UNCHANGED faults =>
         /\ ~Owned(request[s].token)
         /\ request[s].token \in Secrets => ~Owned(Hash[request[s].token])]_tokenVars

Retired(t) == t \in issued /\ ~Owned(t)

(* A token taken away is finally refused for ever: hits do not renew an     *)
(* entry, and lookups find nothing more to write.                           *)
RetiredFinally ==
  <>[](\A t \in Tokens : Retired(t) =>
         /\ cache[t] = None
         /\ \A s \in Slots : request[s].pc = "resolved" => Key(request[s]) # t)
=============================================================================
