------------------------------- MODULE ApiKeys -------------------------------
(***************************************************************************)
(* Applications and their API keys: registration (create_application), the *)
(* cache-aside resolution of a key (get_current_application), reading an   *)
(* application (get_application) and key rotation                          *)
(* (rotate_application_key), over one PostgreSQL table and one Redis cache.*)
(*                                                                         *)
(* An application is named after the request that registers it, and a key  *)
(* after the request that generates it: ids and keys are fresh random      *)
(* values, and only the hash and prefix of a key, which determine each     *)
(* other here, are ever stored.  Every await of the code ends a step.      *)
(***************************************************************************)
EXTENDS Naturals, FiniteSets

CONSTANTS
    Requests,  \* the calls
    Kind,      \* "register", "fetch" or "rotate"
    Emails,    \* owner_email addresses
    Nothing,   \* no key, no application, no row
    Faults     \* which of "redis", "db" and "kill" may happen

Apps == {r \in Requests : Kind[r] = "register"}
Keys == {r \in Requests : Kind[r] \in {"register", "rotate"}}

ASSUME KindAssumption ==
    /\ Kind \in [Requests -> {"register", "fetch", "rotate"}]
    /\ Nothing \notin Requests \cup Emails
    /\ Faults \subseteq {"redis", "db", "kill"}

VARIABLES
    keyOf,     \* committed rows: the key of each application, or Nothing
    active,    \* committed rows with is_active
    cache,     \* auth:key:{hash}: the application each key resolves to, or Nothing
    write,     \* the row each open transaction has inserted or updated
    pc,        \* where each request is
    shown,     \* its X-API-Key
    path,      \* the application id in its URL
    email,     \* the owner_email of each registration
    caller,    \* current_app
    attached,  \* requests whose current_app was loaded by their session
    answer,    \* what each request answers
    spared     \* history: keys that a rotation did not delete from the cache, or too early

store   == <<keyOf, active, write, spared>>
asked   == <<shown, path, email>>
session == <<caller, attached>>
vars    == <<keyOf, active, cache, write, pc, shown, path, email, caller, attached, answer, spared>>

Steps   == {"new", "cache", "table", "fill", "handle", "drop", "email", "insert",
            "closing", "done"}
Answers == {"none", "ok", "created", "unauthorized", "forbidden", "conflict", "error"}

-----------------------------------------------------------------------------
(* A call succeeds, raises without effect, or takes effect and raises. *)
RedisOutcomes == {"ok"} \cup (IF "redis" \in Faults THEN {"error", "doubt"} ELSE {})
DbOutcomes    == {"ok"} \cup (IF "db" \in Faults THEN {"error", "doubt"} ELSE {})
Applied(o)    == o # "error"
Raised(o)     == o # "ok"

Goto(r, step) == pc' = [pc EXCEPT ![r] = step]
Say(r, a)     == answer' = [answer EXCEPT ![r] = a]

(* get_session's commit: the row that r has written gets r's key.  A       *)
(* session that never met the database has no transaction to commit.  A    *)
(* key in the row that is not the one r was shown is revoked unnoticed.    *)
Commit(r, o) ==
    /\ keyOf' = IF Applied(o) /\ write[r] # Nothing
                THEN [keyOf EXCEPT ![write[r]] = r] ELSE keyOf
    /\ active' = IF Applied(o) /\ write[r] = r THEN active \cup {r} ELSE active
    /\ spared' = IF Applied(o) /\ write[r] # Nothing
                 THEN spared \cup ({keyOf[write[r]]} \ {Nothing, shown[r]}) ELSE spared
    /\ write' = [write EXCEPT ![r] = Nothing]

InTransaction(r) == r \in attached \/ r \in Apps
CommitOutcomes(r) == IF InTransaction(r) THEN DbOutcomes ELSE {"ok"}

(* An exception leaves the handler, an HTTPException included: get_session *)
(* rolls back.                                                             *)
Refuse(r, a) ==
    /\ Goto(r, "done")
    /\ Say(r, a)
    /\ write' = [write EXCEPT ![r] = Nothing]
    /\ UNCHANGED <<keyOf, active, spared>>

(* The registrations with r's owner_email, and the keys clients hold. *)
SameOwner(r) == {p \in Apps \ {r} : email[p] = email[r]}
HandedOut    == {k \in Keys : pc[k] = "done" /\ answer[k] = "created"}

(* r read a row that has got another key since, or is about to: the        *)
(* rotation has made its DELETE.                                           *)
ReadTooEarly(r) ==
    \/ keyOf[caller[r]] # shown[r]
    \/ \E q \in Requests :
          pc[q] = "closing" /\ write[q] = caller[r] /\ shown[q] = shown[r]

-----------------------------------------------------------------------------
(* Plausible bugs, each put in the place of the action it names.           *)

(* The entry holds the key and not the application's id. *)
FillCacheWithKey(r) ==
    /\ pc[r] = "fill"
    /\ cache' = [cache EXCEPT ![shown[r]] = shown[r]]
    /\ Goto(r, "handle")
    /\ UNCHANGED <<store, asked, session, answer>>

(* The entry's name does not depend on the key. *)
FillCacheUnderOneName(r) ==
    /\ pc[r] = "fill"
    /\ cache' = [k \in Keys |-> caller[r]]
    /\ Goto(r, "handle")
    /\ UNCHANGED <<store, asked, session, answer>>

(* The table has no unique index on owner_email. *)
InsertWithoutIndex(r) ==
    /\ pc[r] = "insert"
    /\ write' = [write EXCEPT ![r] = r]
    /\ Goto(r, "closing")
    /\ Say(r, "created")
    /\ UNCHANGED <<keyOf, active, spared, cache, asked, session>>

(* The old key's entry is written again instead of deleted. *)
RefreshCache(r) ==
    /\ pc[r] = "drop"
    /\ cache' = [cache EXCEPT ![shown[r]] = caller[r]]
    /\ Goto(r, "closing")
    /\ Say(r, "created")
    /\ UNCHANGED <<store, asked, session>>

(* The entry that is deleted is that of the new key. *)
DropCacheOfNewKey(r) ==
    /\ pc[r] = "drop"
    /\ \E o \in RedisOutcomes :
          /\ cache' = IF Applied(o) THEN [cache EXCEPT ![r] = Nothing] ELSE cache
          /\ spared' = IF Applied(o) THEN spared \ {shown[r]} ELSE spared \cup {shown[r]}
    /\ Goto(r, "closing")
    /\ Say(r, "created")
    /\ UNCHANGED <<keyOf, active, write, asked, session>>

(* The handler commits before it deletes the entry, and an exception of    *)
(* the deletion is not swallowed.                                          *)
DropCacheAfterCommit(r) ==
    /\ pc[r] = "drop"
    /\ Commit(r, "ok")
    /\ \E o \in RedisOutcomes :
          /\ cache' = IF Applied(o) THEN [cache EXCEPT ![shown[r]] = Nothing] ELSE cache
          /\ Say(r, IF Raised(o) THEN "error" ELSE "created")
    /\ Goto(r, "done")
    /\ UNCHANGED <<asked, session>>

(* The answer is sent before the commit. *)
CloseAfterAnswer(r) ==
    /\ pc[r] = "closing"
    /\ \E o \in CommitOutcomes(r) : Commit(r, o)
    /\ Goto(r, "done")
    /\ UNCHANGED <<cache, asked, session, answer>>

(* A transaction that fails keeps its row lock. *)
CloseKeepingLocks(r) ==
    /\ pc[r] = "closing"
    /\ Goto(r, "done")
    /\ keyOf' = IF write[r] # Nothing THEN [keyOf EXCEPT ![write[r]] = r] ELSE keyOf
    /\ active' = IF write[r] = r THEN active \cup {r} ELSE active
    /\ UNCHANGED <<write, spared, cache, asked, session, answer>>

-----------------------------------------------------------------------------
(* A registration arrives, or a call with a key that some client was       *)
(* handed, or without one.                                                 *)
Arrive(r) ==
    /\ pc[r] = "new"
    /\ \/ /\ r \in Apps
          /\ \E e \in Emails : email' = [email EXCEPT ![r] = e]
          /\ Goto(r, "email")
          /\ UNCHANGED <<shown, path, answer>>
       \/ /\ r \notin Apps
          /\ \E k \in HandedOut, p \in Apps :
                /\ shown' = [shown EXCEPT ![r] = k]
                /\ path' = [path EXCEPT ![r] = p]
          /\ Goto(r, "cache")
          /\ UNCHANGED <<email, answer>>
       \/ /\ r \notin Apps
          /\ Goto(r, "done")
          /\ Say(r, "unauthorized")
          /\ UNCHANGED asked
    /\ UNCHANGED <<store, cache, session>>

(* redis.get of the key's entry; an exception falls through to the table.  *)
(* A hit yields a transient Application that no session tracks.            *)
ReadCache(r) ==
    /\ pc[r] = "cache"
    /\ \/ /\ cache[shown[r]] # Nothing
          /\ caller' = [caller EXCEPT ![r] = cache[shown[r]]]
          /\ Goto(r, "handle")
       \/ /\ cache[shown[r]] = Nothing \/ "redis" \in Faults
          /\ Goto(r, "table")
          /\ UNCHANGED caller
    /\ UNCHANGED <<store, cache, asked, attached, answer>>

(* repo.get_by_api_key_hash. *)
ReadTable(r) ==
    /\ pc[r] = "table"
    /\ \/ \E p \in active :
             /\ keyOf[p] = shown[r]
             /\ caller' = [caller EXCEPT ![r] = p]
             /\ attached' = attached \cup {r}
             /\ Goto(r, "fill")
             /\ UNCHANGED <<store, answer>>
       \/ /\ \A p \in active : keyOf[p] # shown[r]
          /\ Refuse(r, "unauthorized")
          /\ UNCHANGED session
       \/ /\ "db" \in Faults
          /\ Refuse(r, "error")
          /\ UNCHANGED session
    /\ UNCHANGED <<cache, asked>>

(* redis.set with ex=300; an exception is swallowed. *)
FillCache(r) ==
    /\ pc[r] = "fill"
    /\ \E o \in RedisOutcomes :
          /\ cache' = IF Applied(o) THEN [cache EXCEPT ![shown[r]] = caller[r]] ELSE cache
          /\ spared' = IF Applied(o) /\ ReadTooEarly(r) THEN spared \cup {shown[r]} ELSE spared
    /\ Goto(r, "handle")
    /\ UNCHANGED <<keyOf, active, write, asked, session, answer>>

Forbid(r) ==
    /\ pc[r] = "handle"
    /\ caller[r] # path[r]
    /\ Refuse(r, "forbidden")
    /\ UNCHANGED <<cache, asked, session>>

(* get_application: a transient Application has no created_at, and the     *)
(* response model rejects it.                                              *)
Fetch(r) ==
    /\ pc[r] = "handle" /\ Kind[r] = "fetch"
    /\ caller[r] = path[r]
    /\ \/ /\ r \in attached
          /\ Goto(r, "closing")
          /\ Say(r, "ok")
          /\ UNCHANGED store
       \/ /\ r \notin attached
          /\ Refuse(r, "error")
    /\ UNCHANGED <<cache, asked, session>>

(* rotate_application_key up to its flush, which updates the row when      *)
(* current_app is tracked by the session, waits while another transaction  *)
(* holds the row, and does nothing for a transient current_app.            *)
Rotate(r) ==
    /\ pc[r] = "handle" /\ Kind[r] = "rotate"
    /\ caller[r] = path[r]
    /\ \/ /\ r \in attached
          /\ \A q \in Requests \ {r} : write[q] # caller[r]
          /\ write' = [write EXCEPT ![r] = caller[r]]
          /\ Goto(r, "drop")
          /\ UNCHANGED <<keyOf, active, spared, answer>>
       \/ /\ r \notin attached
          /\ Goto(r, "drop")
          /\ UNCHANGED <<store, answer>>
       \/ /\ r \in attached /\ "db" \in Faults
          /\ Refuse(r, "error")
    /\ UNCHANGED <<cache, asked, session>>

(* redis.delete of the old key's entry, before the commit; an exception is *)
(* swallowed.                                                              *)
DropCache(r) ==
    /\ pc[r] = "drop"
    /\ \E o \in RedisOutcomes :
          /\ cache' = IF Applied(o) THEN [cache EXCEPT ![shown[r]] = Nothing] ELSE cache
          /\ spared' = IF Applied(o) THEN spared \ {shown[r]} ELSE spared \cup {shown[r]}
    /\ Goto(r, "closing")
    /\ Say(r, "created")
    /\ UNCHANGED <<keyOf, active, write, asked, session>>

(* repo.get_by_owner_email: an answered 409, or on to the insert. *)
LookUpEmail(r) ==
    /\ pc[r] = "email"
    /\ \/ /\ \E p \in SameOwner(r) : keyOf[p] # Nothing
          /\ Refuse(r, "conflict")
       \/ /\ \A p \in SameOwner(r) : keyOf[p] = Nothing
          /\ Goto(r, "insert")
          /\ UNCHANGED <<store, answer>>
       \/ /\ "db" \in Faults
          /\ Refuse(r, "error")
    /\ UNCHANGED <<cache, asked, session>>

(* repo.create: the unique index on owner_email makes the insert wait for  *)
(* an open transaction with that address, and raise once it is committed.  *)
Insert(r) ==
    /\ pc[r] = "insert"
    /\ \/ /\ \A p \in SameOwner(r) : keyOf[p] = Nothing /\ write[p] # p
          /\ write' = [write EXCEPT ![r] = r]
          /\ Goto(r, "closing")
          /\ Say(r, "created")
          /\ UNCHANGED <<keyOf, active, spared>>
       \/ /\ "db" \in Faults \/ \E p \in SameOwner(r) : keyOf[p] # Nothing
          /\ Refuse(r, "error")
    /\ UNCHANGED <<cache, asked, session>>

Close(r) ==
    /\ pc[r] = "closing"
    /\ \E o \in CommitOutcomes(r) :
          /\ Commit(r, o)
          /\ Say(r, IF Raised(o) THEN "error" ELSE answer[r])
    /\ Goto(r, "done")
    /\ UNCHANGED <<cache, asked, session>>

(* The process dies, or the request is cancelled, before the answer. *)
Vanish(r) ==
    /\ "kill" \in Faults
    /\ pc[r] \notin {"new", "done"}
    /\ \/ Refuse(r, "none")
       \/ /\ pc[r] = "closing"
          /\ Commit(r, "ok")
          /\ Goto(r, "done")
          /\ Say(r, "none")
    /\ UNCHANGED <<cache, asked, session>>

(* The entry's 300 seconds are over. *)
Expire(k) ==
    /\ cache[k] # Nothing
    /\ cache' = [cache EXCEPT ![k] = Nothing]
    /\ UNCHANGED <<store, asked, session, pc, answer>>

(* An operator clears is_active in the table: no endpoint does. *)
Deactivate(p) ==
    /\ p \in active
    /\ active' = active \ {p}
    /\ UNCHANGED <<keyOf, write, spared, cache, asked, session, pc, answer>>

Serve(r) ==
    \/ ReadCache(r) \/ ReadTable(r) \/ FillCache(r)
    \/ Forbid(r) \/ Fetch(r) \/ Rotate(r) \/ DropCache(r)
    \/ LookUpEmail(r) \/ Insert(r) \/ Close(r)

Init ==
    /\ keyOf = [p \in Apps |-> Nothing] /\ active = {}
    /\ cache = [k \in Keys |-> Nothing]
    /\ write = [r \in Requests |-> Nothing]
    /\ pc = [r \in Requests |-> "new"]
    /\ shown = [r \in Requests |-> Nothing] /\ path = [r \in Requests |-> Nothing]
    /\ email = [p \in Apps |-> Nothing]
    /\ caller = [r \in Requests |-> Nothing] /\ attached = {}
    /\ answer = [r \in Requests |-> "none"] /\ spared = {}

Next ==
    \/ \E r \in Requests : Arrive(r) \/ Serve(r) \/ Vanish(r)
    \/ \E k \in Keys : Expire(k)
    \/ \E p \in Apps : Deactivate(p)

Spec == Init /\ [][Next]_vars

(* The event loop serves every request that has arrived. *)
FairSpec ==
    /\ Spec
    /\ \A r \in Requests : WF_vars(Serve(r))

-----------------------------------------------------------------------------
(* The application a key was issued to. *)
Owner(k) == IF k \in Apps THEN k ELSE caller[k]

(* The values every variable takes. *)
TypeOK ==
    /\ keyOf \in [Apps -> Keys \cup {Nothing}]
    /\ active \in SUBSET Apps
    /\ cache \in [Keys -> Apps \cup {Nothing}]
    /\ write \in [Requests -> Apps \cup {Nothing}]
    /\ pc \in [Requests -> Steps]
    /\ shown \in [Requests -> Keys \cup {Nothing}]
    /\ path \in [Requests -> Apps \cup {Nothing}]
    /\ email \in [Apps -> Emails \cup {Nothing}]
    /\ caller \in [Requests -> Apps \cup {Nothing}]
    /\ attached \in SUBSET Requests
    /\ answer \in [Requests -> Answers]
    /\ spared \in SUBSET Keys

(* A key resolves to the application it was issued to and to no other, in  *)
(* the table, in the cache and in every request, across rotations that     *)
(* overlap (get_current_application).                                      *)
KeysNeverCrossTenants ==
    /\ \A p \in Apps : keyOf[p] # Nothing => Owner(keyOf[p]) = p
    /\ \A k \in Keys : cache[k] # Nothing => cache[k] = Owner(k)
    /\ \A r \in Requests : caller[r] # Nothing => caller[r] = Owner(shown[r])

(* Two registrations that race past the check of create_application do not *)
(* both get an application.                                                *)
OneApplicationPerEmail ==
    \A p, q \in Apps : keyOf[p] # Nothing /\ keyOf[q] # Nothing /\ email[p] = email[q]
        => p = q

(* Whoever reads 201 from a registration has an application, although the  *)
(* handler returns before the commit.                                      *)
CreatedIsCommitted ==
    \A p \in Apps : pc[p] = "done" /\ answer[p] = "created" => keyOf[p] # Nothing

(* A key that is in no row and no cache entry, with nobody left who is     *)
(* about to put it there, never authenticates again.                       *)
Dead(k) ==
    /\ pc[k] = "done" /\ cache[k] = Nothing
    /\ \A p \in Apps : keyOf[p] # k
    /\ \A r \in Requests : shown[r] = k => pc[r] # "fill"

DeadKeysStayDead == [][\A k \in Keys : Dead(k) => Dead(k)']_vars

(* A key that a rotation took out of its row goes on resolving from the    *)
(* cache in three cases and in no fourth: the DELETE of that rotation      *)
(* failed; a call that had read the row before filed the key when the      *)
(* DELETE was over; or the rotation had been shown an earlier key, because *)
(* it overlapped the one that issued this key (rotate_application_key and  *)
(* get_current_application; docs/PulseTrack_SRD.md FR-AUTH-05 knows no     *)
(* exception).                                                             *)
RevokedKeysAreForgotten ==
    \A k \in Keys : cache[k] # Nothing /\ (\A p \in Apps : keyOf[p] # k) => k \in spared

(* While the database works and processes live, nobody is locked out: the  *)
(* key in a row is one that a client was handed, whatever Redis does       *)
(* (rotate_application_key).                                               *)
RowsHoldHandedOutKeys ==
    \A p \in Apps : keyOf[p] # Nothing => answer[keyOf[p]] = "created"

(* Every call that arrives is answered: no rotation or registration waits  *)
(* for ever on the row of another.                                         *)
RequestsAreAnswered == \A r \in Requests : pc[r] # "new" ~> pc[r] = "done"

-----------------------------------------------------------------------------
(* What the documentation says and the code does not do.                   *)

(* applications.py: "Generates a new API key for the application, revoking *)
(* the old one", docs/PulseTrack_SRD.md FR-APP-05.  On a cache hit the     *)
(* rotation updates an object that no session tracks.                      *)
RotationTakesEffect ==
    [][\A r \in Keys \ Apps :
          pc[r] # "done" /\ pc'[r] = "done" /\ answer'[r] = "created"
              => keyOf'[caller[r]] = r]_vars

=============================================================================
