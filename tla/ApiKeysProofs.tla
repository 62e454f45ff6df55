---------------------------- MODULE ApiKeysProofs ----------------------------
(***************************************************************************)
(* Theorems about ApiKeys for any registrations, reads, rotations,         *)
(* addresses and faults.                                                   *)
(***************************************************************************)
EXTENDS ApiKeys, TLAPS

(* Registrations and the other calls keep to the steps of their handlers;  *)
(* a call shows a key from its arrival on, and is resolved from it.        *)
HandlerInv ==
    \A r \in Requests :
        /\ pc[r] \in {"email", "insert"} => r \in Apps
        /\ r \in Apps => pc[r] \in {"new", "email", "insert", "closing", "done"}
        /\ pc[r] = "new" => shown[r] = Nothing
        /\ r \notin Apps /\ pc[r] \notin {"new", "done"} => shown[r] # Nothing

(* An open transaction writes one row, that of the application its key is  *)
(* for, and is on its way to answer 201; a registration that is about to   *)
(* answer has written its row.                                             *)
WriteInv ==
    \A r \in Requests :
        /\ write[r] # Nothing =>
              /\ r \in Keys /\ pc[r] \in {"drop", "closing"}
              /\ write[r] = Owner(r)
              /\ pc[r] = "closing" => answer[r] = "created"
        /\ r \in Apps /\ pc[r] = "closing" => write[r] = r

(* A row's registration and the call that generated its key are over.      *)
RowInv ==
    \A p \in Apps : keyOf[p] # Nothing =>
        pc[p] = "done" /\ pc[keyOf[p]] = "done" /\ Owner(keyOf[p]) = p

(* Only keys that clients hold are cached, for applications with a row.    *)
CacheInv ==
    \A k \in Keys : cache[k] # Nothing =>
        k \in HandedOut /\ cache[k] = Owner(k) /\ keyOf[cache[k]] # Nothing

(* Calls show keys that clients hold, and act for their owners.            *)
CallerInv ==
    \A r \in Requests :
        /\ shown[r] # Nothing => shown[r] \in HandedOut
        /\ caller[r] # Nothing =>
              shown[r] # Nothing /\ caller[r] = Owner(shown[r]) /\ keyOf[caller[r]] # Nothing

(* p occupies its address in the unique index: with a row, or with an      *)
(* insert that is not committed.                                           *)
Claims(p) == keyOf[p] # Nothing \/ write[p] = p

AddressInv ==
    \A p, q \in Apps : Claims(p) /\ Claims(q) /\ email[p] = email[q] => p = q

KeyInv ==
    /\ TypeOK /\ HandlerInv /\ WriteInv /\ RowInv /\ CacheInv /\ CallerInv
    /\ AddressInv /\ CreatedIsCommitted

-----------------------------------------------------------------------------
(* Types and frames. *)

(* Registrations generate keys, and no call is Nothing.                    *)
LEMMA KeysAreCalls ==
    /\ Apps \subseteq Keys /\ Keys \subseteq Requests
    /\ Nothing \notin Requests
  BY KindAssumption DEF Apps, Keys

(* The ends of a session keep the types of what they write.                *)
LEMMA SessionTypes ==
    ASSUME TypeOK, WriteInv, NEW r \in Requests, NEW o, NEW a \in Answers
    PROVE  /\ Commit(r, o) => /\ keyOf' \in [Apps -> Keys \cup {Nothing}]
                              /\ active' \in SUBSET Apps
                              /\ write' \in [Requests -> Apps \cup {Nothing}]
                              /\ spared' \in SUBSET Keys
           /\ Refuse(r, a) => /\ keyOf' \in [Apps -> Keys \cup {Nothing}]
                              /\ active' \in SUBSET Apps
                              /\ write' \in [Requests -> Apps \cup {Nothing}]
                              /\ spared' \in SUBSET Keys
                              /\ pc' \in [Requests -> Steps]
                              /\ answer' \in [Requests -> Answers]
<1>1. write[r] # Nothing => r \in Keys /\ write[r] \in Apps
  BY DEF TypeOK, WriteInv
<1>2. write[r] = r => r \in Apps
  BY KeysAreCalls DEF TypeOK
<1>3. Commit(r, o) => keyOf' \in [Apps -> Keys \cup {Nothing}]
  BY <1>1 DEF TypeOK, Commit
<1>4. Commit(r, o) => active' \in SUBSET Apps
  BY <1>2 DEF TypeOK, Commit
<1>5. "done" \in Steps
  BY DEF Steps
<1>6. Commit(r, o) => spared' \in SUBSET Keys
  <2>1. keyOf[write[r]] \in Keys \/ keyOf[write[r]] = Nothing \/ write[r] = Nothing
    BY <1>1 DEF TypeOK
  <2>2. QED
    BY <2>1 DEF TypeOK, Commit
<1>7. QED
  BY <1>3, <1>4, <1>5, <1>6 DEF TypeOK, Commit, Refuse, Goto, Say

(* A step of a call keeps the types.                                       *)
LEMMA CallTypes ==
    ASSUME TypeOK, HandlerInv, WriteInv, NEW r \in Requests, Arrive(r) \/ Serve(r) \/ Vanish(r)
    PROVE  TypeOK'
<1> USE DEF TypeOK, Steps, Answers
<1>0. \A o : Commit(r, o) => /\ keyOf' \in [Apps -> Keys \cup {Nothing}]
                             /\ active' \in SUBSET Apps
                             /\ write' \in [Requests -> Apps \cup {Nothing}]
                             /\ spared' \in SUBSET Keys
  BY SessionTypes
<1>1. CASE Arrive(r)
  BY <1>1 DEF Arrive, Goto, Say, HandedOut, store, session, asked
<1>2. CASE ReadCache(r)
  <2>1. cache[shown[r]] \in Apps \cup {Nothing}
    BY <1>2 DEF ReadCache, HandlerInv
  <2>2. QED
    BY <1>2, <2>1 DEF ReadCache, Goto, store, asked
<1>3. CASE ReadTable(r)
  BY <1>3 DEF ReadTable, Goto, Say, Refuse, store, asked, session
<1>4. CASE FillCache(r)
  <2>1. shown[r] \in Keys
    BY <1>4 DEF FillCache, HandlerInv
  <2>2. spared' \in SUBSET Keys
    BY <1>4, <2>1 DEF FillCache
  <2>3. QED
    BY <1>4, <2>2 DEF FillCache, Goto, asked, session
<1>5. CASE Forbid(r)
  BY <1>5 DEF Forbid, Goto, Say, Refuse, asked, session
<1>6. CASE Fetch(r)
  BY <1>6 DEF Fetch, Goto, Say, Refuse, store, asked, session
<1>7. CASE Rotate(r)
  BY <1>7 DEF Rotate, Goto, Say, Refuse, store, asked, session
<1>8. CASE DropCache(r)
  <2>1. shown[r] \in Keys
    BY <1>8 DEF DropCache, HandlerInv
  <2>2. spared' \in SUBSET Keys
    BY <1>8, <2>1 DEF DropCache
  <2>3. QED
    BY <1>8, <2>2 DEF DropCache, Goto, Say, asked, session
<1>9. CASE LookUpEmail(r)
  BY <1>9 DEF LookUpEmail, Goto, Say, Refuse, store, asked, session
<1>10. CASE Insert(r)
  <2>1. r \in Apps
    BY <1>10 DEF Insert, HandlerInv
  <2>2. QED
    BY <1>10, <2>1 DEF Insert, Goto, Say, Refuse, asked, session
<1>11. CASE Close(r)
  BY <1>11, <1>0 DEF Close, Goto, Say, asked, session
<1>12. CASE Vanish(r)
  BY <1>12, <1>0 DEF Vanish, Goto, Say, Refuse, asked, session
<1>13. QED
  BY <1>1, <1>2, <1>3, <1>4, <1>5, <1>6, <1>7, <1>8, <1>9, <1>10, <1>11, <1>12 DEF Serve

(* What a step of r leaves alone: the other calls, and of r everything     *)
(* that its present step does not write.                                   *)
LEMMA CallFrame ==
    ASSUME TypeOK, NEW r \in Requests, Arrive(r) \/ Serve(r) \/ Vanish(r)
    PROVE  /\ \A q \in Requests : q # r =>
                 /\ pc'[q] = pc[q] /\ answer'[q] = answer[q] /\ write'[q] = write[q]
                 /\ shown'[q] = shown[q] /\ caller'[q] = caller[q]
           /\ pc[r] # "done"
           /\ pc[r] # "new" => shown' = shown /\ email' = email
           /\ pc[r] \notin {"cache", "table"} => caller' = caller
           /\ \A q \in Apps : q # r => email'[q] = email[q]
<1> USE DEF TypeOK
<1>1. \A q \in Requests : q # r => pc'[q] = pc[q] /\ answer'[q] = answer[q]
  BY DEF Arrive, Serve, Vanish, ReadCache, ReadTable, FillCache, Forbid, Fetch, Rotate,
     DropCache, LookUpEmail, Insert, Close, Refuse, Goto, Say
<1>2. \A q \in Requests : q # r => write'[q] = write[q]
  BY DEF Arrive, Serve, Vanish, ReadCache, ReadTable, FillCache, Forbid, Fetch, Rotate,
     DropCache, LookUpEmail, Insert, Close, Refuse, Commit, store
<1>3. /\ \A q \in Requests : q # r => shown'[q] = shown[q] /\ caller'[q] = caller[q]
      /\ pc[r] # "new" => shown' = shown /\ email' = email
      /\ pc[r] \notin {"cache", "table"} => caller' = caller
      /\ \A q \in Apps : q # r => email'[q] = email[q]
  BY DEF Arrive, Serve, Vanish, ReadCache, ReadTable, FillCache, Forbid, Fetch, Rotate,
     DropCache, LookUpEmail, Insert, Close, asked, session
<1>4. pc[r] # "done"
  BY DEF Arrive, Serve, Vanish, ReadCache, ReadTable, FillCache, Forbid, Fetch, Rotate,
     DropCache, LookUpEmail, Insert, Close
<1>5. QED
  BY <1>1, <1>2, <1>3, <1>4

(* What a step of r may do to the stores: commit the row it has written,   *)
(* fill the entry of the key it shows, or delete it.                       *)
LEMMA StoreFrame ==
    ASSUME TypeOK, WriteInv, NEW r \in Requests, Arrive(r) \/ Serve(r) \/ Vanish(r)
    PROVE  /\ \/ keyOf' = keyOf
              \/ /\ pc[r] = "closing" /\ pc'[r] = "done"
                 /\ r \in Keys /\ write[r] \in Apps
                 /\ keyOf' = [keyOf EXCEPT ![write[r]] = r]
           /\ \/ cache' = cache
              \/ pc[r] = "fill" /\ cache' = [cache EXCEPT ![shown[r]] = caller[r]]
              \/ pc[r] = "drop" /\ cache' = [cache EXCEPT ![shown[r]] = Nothing]
           /\ \A p \in Apps : keyOf[p] # Nothing => keyOf'[p] # Nothing
<1> USE DEF TypeOK
<1>1. \/ keyOf' = keyOf
      \/ /\ pc[r] = "closing" /\ pc'[r] = "done" /\ write[r] # Nothing
         /\ keyOf' = [keyOf EXCEPT ![write[r]] = r]
  BY DEF Arrive, Serve, Vanish, ReadCache, ReadTable, FillCache, Forbid, Fetch, Rotate,
     DropCache, LookUpEmail, Insert, Close, Refuse, Commit, Goto, store
<1>2. write[r] # Nothing => r \in Keys /\ write[r] \in Apps
  BY DEF WriteInv
<1>3. \/ cache' = cache
      \/ pc[r] = "fill" /\ cache' = [cache EXCEPT ![shown[r]] = caller[r]]
      \/ pc[r] = "drop" /\ cache' = [cache EXCEPT ![shown[r]] = Nothing]
  BY DEF Arrive, Serve, Vanish, ReadCache, ReadTable, FillCache, Forbid, Fetch, Rotate,
     DropCache, LookUpEmail, Insert, Close
<1>4. \A p \in Apps : keyOf[p] # Nothing => keyOf'[p] # Nothing
  BY <1>1, KeysAreCalls
<1>5. QED
  BY <1>1, <1>2, <1>3, <1>4

(* A key that has been generated keeps its owner, and a key that was       *)
(* handed out stays so.                                                    *)
LEMMA OwnersStay ==
    ASSUME TypeOK, NEW r \in Requests, Arrive(r) \/ Serve(r) \/ Vanish(r)
    PROVE  /\ \A k \in Keys : pc[k] = "done" => /\ pc'[k] = "done" /\ answer'[k] = answer[k]
                                                /\ Owner(k)' = Owner(k)
           /\ HandedOut \subseteq HandedOut'
<1>1. \A k \in Keys : pc[k] = "done" => /\ pc'[k] = "done" /\ answer'[k] = answer[k]
                                        /\ caller'[k] = caller[k]
  BY KeysAreCalls, CallFrame
<1>2. QED
  BY <1>1 DEF Owner, HandedOut

-----------------------------------------------------------------------------
(* Each part of the invariant is kept by a step of a call. *)

(* A step of a call keeps to its handler.                                  *)
LEMMA HandlerKept ==
    ASSUME TypeOK, HandlerInv, NEW r \in Requests, Arrive(r) \/ Serve(r) \/ Vanish(r)
    PROVE  HandlerInv'
<1>1. /\ pc'[r] # "new"
      /\ pc'[r] \in {"email", "insert"} => r \in Apps
      /\ r \in Apps => pc'[r] \in {"new", "email", "insert", "closing", "done"}
  BY DEF TypeOK, HandlerInv, Apps, Arrive, Serve, Vanish, ReadCache, ReadTable, FillCache,
     Forbid, Fetch, Rotate, DropCache, LookUpEmail, Insert, Close, Refuse, Goto
<1>2. r \notin Apps /\ pc'[r] \notin {"new", "done"} => shown'[r] # Nothing
  <2>1. CASE Arrive(r)
    BY <2>1, KeysAreCalls DEF TypeOK, Arrive, Goto, HandedOut
  <2>2. CASE ~Arrive(r)
    <3>1. pc[r] # "new" /\ pc[r] # "done"
      BY <2>2, CallFrame DEF Serve, Vanish, ReadCache, ReadTable, FillCache, Forbid, Fetch,
         Rotate, DropCache, LookUpEmail, Insert, Close
    <3>2. QED
      BY <3>1, CallFrame DEF HandlerInv
  <2>3. QED
    BY <2>1, <2>2
<1>3. QED
  BY <1>1, <1>2, CallFrame DEF HandlerInv

(* A step of a call leaves open transactions with the row their calls may  *)
(* write.                                                                  *)
LEMMA WriteKept ==
    ASSUME TypeOK, HandlerInv, WriteInv, NEW r \in Requests, Arrive(r) \/ Serve(r) \/ Vanish(r)
    PROVE  WriteInv'
<1> USE DEF TypeOK
<1> DEFINE P(q) ==
        /\ write'[q] # Nothing =>
              /\ q \in Keys /\ pc'[q] \in {"drop", "closing"}
              /\ write'[q] = (IF q \in Apps THEN q ELSE caller'[q])
              /\ pc'[q] = "closing" => answer'[q] = "created"
        /\ q \in Apps /\ pc'[q] = "closing" => write'[q] = q
<1>1. ASSUME NEW q \in Requests, q # r PROVE P(q)
  BY <1>1, CallFrame DEF WriteInv, Owner
<1>2. P(r)
  <2>1. ASSUME write'[r] = Nothing, r \in Apps => pc'[r] # "closing" PROVE P(r)
    BY <2>1
  <2>2. CASE Rotate(r)
    <3>1. r \notin Apps /\ r \in Keys /\ pc'[r] # "closing"
      BY <2>2 DEF Rotate, Refuse, Goto, Keys, Apps
    <3>2. caller' = caller /\ (write'[r] = Nothing \/ (write'[r] = caller[r] /\ pc'[r] = "drop"))
      BY <2>2 DEF Rotate, Refuse, Goto, session, store, WriteInv
    <3>3. QED
      BY <3>1, <3>2
  <2>3. CASE DropCache(r)
    BY <2>3 DEF DropCache, Goto, Say, WriteInv, HandlerInv, Owner, store, session
  <2>4. CASE Insert(r)
    <3>1. r \in Apps /\ r \in Keys
      BY <2>4, KeysAreCalls DEF Insert, HandlerInv
    <3>2. \/ write'[r] = Nothing /\ pc'[r] = "done"
          \/ write'[r] = r /\ pc'[r] = "closing" /\ answer'[r] = "created"
      BY <2>4, <3>1 DEF Insert, Goto, Say, Refuse
    <3>3. QED
      BY <3>1, <3>2
  <2>5. CASE Arrive(r) \/ ReadCache(r) \/ ReadTable(r) \/ FillCache(r) \/ Forbid(r)
             \/ Fetch(r) \/ LookUpEmail(r)
    <3>1. write'[r] = Nothing
      BY <2>5 DEF Arrive, ReadCache, ReadTable, FillCache, Forbid, Fetch, LookUpEmail,
         Refuse, WriteInv, store
    <3>2. pc'[r] = "closing" => Fetch(r)
      BY <2>5 DEF Arrive, ReadCache, ReadTable, FillCache, Forbid, Fetch, LookUpEmail,
         Refuse, Goto
    <3>3. QED
      BY <3>1, <3>2, <2>1 DEF Fetch, Apps
  <2>6. CASE Close(r) \/ Vanish(r)
    <3>1. write'[r] = Nothing /\ pc'[r] = "done"
      BY <2>6 DEF Close, Vanish, Commit, Refuse, Goto
    <3>2. QED
      BY <3>1, <2>1
  <2>7. QED
    BY <2>2, <2>3, <2>4, <2>5, <2>6 DEF Serve
<1>3. QED
  BY <1>1, <1>2 DEF WriteInv, Owner

(* A step of a call puts a key into a row only when the calls the key      *)
(* comes from are over.                                                    *)
LEMMA RowsKept ==
    ASSUME TypeOK, HandlerInv, WriteInv, RowInv, CallerInv,
           NEW r \in Requests, Arrive(r) \/ Serve(r) \/ Vanish(r)
    PROVE  RowInv'
<1> SUFFICES ASSUME NEW p \in Apps, NEW k, k = keyOf'[p], k # Nothing
             PROVE  pc'[p] = "done" /\ pc'[k] = "done" /\ Owner(k)' = p
  BY DEF RowInv, Owner
<1>1. CASE k = keyOf[p]
  <2>1. p \in Keys /\ k \in Keys
    BY <1>1, KeysAreCalls DEF TypeOK
  <2>2. pc[p] = "done" /\ pc[k] = "done" /\ Owner(k) = p
    BY <1>1 DEF RowInv
  <2>3. QED
    BY <2>1, <2>2, OwnersStay
<1>2. CASE k # keyOf[p]
  <2>1. /\ p = write[r] /\ k = r /\ pc'[r] = "done" /\ pc[r] = "closing"
        /\ r \in Keys
    BY <1>2, StoreFrame DEF TypeOK
  <2>2. Owner(r) = p
    BY <2>1, KeysAreCalls DEF WriteInv
  <2>3. Owner(r)' = Owner(r)
    BY <2>1, CallFrame DEF Owner
  <2>4. pc'[p] = "done"
    <3>1. CASE r \in Apps
      BY <3>1, <2>1, <2>2 DEF Owner
    <3>2. CASE r \notin Apps
      <4>1. caller[r] = p
        BY <3>2, <2>2 DEF Owner
      <4>2. keyOf[p] # Nothing
        BY <4>1, KeysAreCalls DEF CallerInv
      <4>3. pc[p] = "done"
        BY <4>2 DEF RowInv
      <4>4. QED
        BY <4>3, KeysAreCalls, OwnersStay
    <3>3. QED
      BY <3>1, <3>2
  <2>5. QED
    BY <2>1, <2>2, <2>3, <2>4
<1>3. QED
  BY <1>1, <1>2

(* An entry is filled from the row that a call has read, for the key it    *)
(* shows.                                                                  *)
LEMMA CacheKept ==
    ASSUME TypeOK, WriteInv, CacheInv, CallerInv,
           NEW r \in Requests, Arrive(r) \/ Serve(r) \/ Vanish(r)
    PROVE  CacheInv'
<1> SUFFICES ASSUME NEW k \in Keys, NEW p, p = cache'[k], p # Nothing
             PROVE  k \in HandedOut' /\ p = Owner(k)' /\ keyOf'[p] # Nothing
  BY DEF CacheInv, Owner
<1>1. /\ k \in HandedOut /\ p = Owner(k) /\ p \in Apps /\ keyOf[p] # Nothing
  <2>1. CASE p = cache[k]
    BY <2>1 DEF CacheInv, TypeOK
  <2>2. CASE p # cache[k]
    <3>1. k = shown[r] /\ p = caller[r]
      BY <2>2, StoreFrame DEF TypeOK
    <3>2. QED
      BY <3>1, KeysAreCalls DEF CallerInv, TypeOK
  <2>3. QED
    BY <2>1, <2>2
<1>2. pc[k] = "done"
  BY <1>1 DEF HandedOut
<1>3. QED
  BY <1>1, <1>2, OwnersStay, StoreFrame

(* A call shows a key that was handed out, and finds its owner by the      *)
(* cache or by the table.                                                  *)
LEMMA CallersKept ==
    ASSUME TypeOK, HandlerInv, WriteInv, RowInv, CacheInv, CallerInv,
           NEW r \in Requests, Arrive(r) \/ Serve(r) \/ Vanish(r)
    PROVE  CallerInv'
<1> SUFFICES ASSUME NEW q \in Requests
             PROVE  /\ shown'[q] # Nothing => shown'[q] \in HandedOut'
                    /\ caller'[q] # Nothing =>
                          /\ shown'[q] # Nothing
                          /\ caller'[q] = Owner(shown[q])'
                          /\ keyOf'[caller'[q]] # Nothing
  BY DEF CallerInv
<1>1. shown'[q] # Nothing => shown'[q] \in HandedOut
  <2>1. CASE shown'[q] = shown[q]
    BY <2>1 DEF CallerInv
  <2>2. CASE shown'[q] # shown[q]
    <3>1. Arrive(r) /\ q = r
      BY <2>2, CallFrame DEF Arrive, Serve, Vanish, ReadCache, ReadTable, FillCache, Forbid,
         Fetch, Rotate, DropCache, LookUpEmail, Insert, Close, asked
    <3>2. QED
      BY <2>2, <3>1 DEF TypeOK, Arrive, asked
  <2>3. QED
    BY <2>1, <2>2
<1>2. ASSUME caller'[q] # Nothing
      PROVE  /\ shown'[q] = shown[q] /\ shown[q] # Nothing
             /\ caller'[q] = Owner(shown[q]) /\ keyOf[caller'[q]] # Nothing
  <2>1. CASE caller'[q] = caller[q]
    <3>1. shown[q] # Nothing /\ caller'[q] = Owner(shown[q]) /\ keyOf[caller'[q]] # Nothing
      BY <1>2, <2>1 DEF CallerInv
    <3>2. QED
      <4>1. CASE q = r /\ pc[r] = "new"
        \* a call that is new shows nothing
        BY <4>1, <3>1 DEF HandlerInv
      <4>2. QED
        BY <3>1, <4>1, CallFrame
  <2>2. CASE caller'[q] # caller[q]
    <3>1. q = r /\ pc[r] \in {"cache", "table"}
      BY <2>2, CallFrame
    <3>2. shown'[q] = shown[q] /\ shown[q] # Nothing /\ shown[q] \in Keys
      BY <3>1, CallFrame DEF HandlerInv, TypeOK
    <3>3. CASE ReadCache(r)
      BY <3>1, <3>2, <3>3, <1>2, <2>2 DEF ReadCache, CacheInv, TypeOK
    <3>4. CASE ReadTable(r)
      BY <3>1, <3>2, <3>4, <2>2 DEF ReadTable, RowInv, TypeOK, session
    <3>5. QED
      BY <2>2, <3>1, <3>3, <3>4 DEF Arrive, Serve, Vanish, FillCache, Forbid,
         Fetch, Rotate, DropCache, LookUpEmail, Insert, Close, session
  <2>3. QED
    BY <2>1, <2>2
<1>3. QED
  <2>1. shown'[q] # Nothing => shown'[q] \in HandedOut'
    BY <1>1, OwnersStay
  <2>2. ASSUME caller'[q] # Nothing
        PROVE  /\ shown'[q] # Nothing /\ caller'[q] = Owner(shown[q])'
               /\ keyOf'[caller'[q]] # Nothing
    <3>1. PICK k : k = shown[q]
      OBVIOUS
    <3>2. PICK p : p = caller'[q]
      OBVIOUS
    <3>3. k \in HandedOut /\ k \in Keys /\ pc[k] = "done" /\ k = shown'[q]
      BY <1>1, <1>2, <2>2, <3>1 DEF HandedOut
    <3>4. p = Owner(k) /\ keyOf[p] # Nothing
      BY <1>2, <2>2, <3>1, <3>2
    <3>5. Owner(k)' = p
      BY <3>3, <3>4, OwnersStay
    <3>6. p \in Apps
      BY <2>2, <3>2, CallTypes DEF TypeOK
    <3>7. QED
      BY <1>2, <2>2, <3>2, <3>3, <3>4, <3>5, <3>6, StoreFrame DEF Owner
  <2>3. QED
    BY <2>1, <2>2

(* No insert or commit gives an address to a second application.           *)
LEMMA AddressesKept ==
    ASSUME TypeOK, HandlerInv, WriteInv, RowInv, CallerInv, AddressInv,
           NEW r \in Requests, Arrive(r) \/ Serve(r) \/ Vanish(r)
    PROVE  AddressInv'
<1> USE DEF TypeOK
<1>1. ASSUME NEW p \in Apps, Claims(p)' PROVE Claims(p) \/ (p = r /\ Insert(r))
  <2>1. CASE keyOf'[p] # Nothing /\ keyOf[p] = Nothing
    <3>1. write[r] = p /\ r \in Keys
      BY <2>1, StoreFrame
    <3>2. Owner(r) = p
      BY <3>1, KeysAreCalls DEF WriteInv
    <3>3. r \notin Apps => keyOf[p] # Nothing
      BY <3>2, KeysAreCalls DEF CallerInv, Owner
    <3>4. QED
      BY <2>1, <3>1, <3>2, <3>3 DEF Owner, Claims
  <2>2. CASE write'[p] = p /\ write[p] # p
    <3>1. p = r /\ r \in Apps /\ write'[r] = r
      BY <2>2, KeysAreCalls, CallFrame
    <3>2. QED
      BY <2>2, <3>1, KeysAreCalls DEF HandlerInv, Arrive, Serve, Vanish, ReadCache, ReadTable, FillCache,
         Forbid, Fetch, Rotate, DropCache, LookUpEmail, Insert, Close, Refuse, Commit, store, Apps
  <2>3. QED
    BY <1>1, <2>1, <2>2 DEF Claims
<1>2. ASSUME NEW p \in Apps, Claims(p)' PROVE email'[p] = email[p]
  <2>1. pc[p] # "new"
    BY <1>1, <1>2, KeysAreCalls DEF Claims, WriteInv, RowInv, Insert
  <2>2. QED
    BY <2>1, CallFrame
<1>3. ASSUME NEW p \in Apps, Claims(p)', Insert(r), r \in Apps, email[p] = email[r], write'[r] = r
      PROVE  p = r
  <2>1. \A q \in SameOwner(r) : ~Claims(q)
    BY <1>3, KeysAreCalls DEF Insert, Refuse, Claims
  <2>2. QED
    BY <1>1, <1>3, <2>1 DEF SameOwner
<1>4. SUFFICES ASSUME NEW p \in Apps, NEW q \in Apps, Claims(p)', Claims(q)', email[p] = email[q]
               PROVE  p = q
  BY <1>2 DEF AddressInv, Claims
<1>5. CASE Claims(p) /\ Claims(q)
  BY <1>4, <1>5 DEF AddressInv
<1>6. CASE ~Claims(p) \/ ~Claims(q)
  <2>1. /\ Insert(r) /\ r \in Apps /\ (p = r \/ q = r)
        /\ ~Claims(r) /\ Claims(r)'
    BY <1>1, <1>4, <1>6 DEF Claims
  <2>2. write'[r] = r
    BY <2>1, KeysAreCalls DEF Claims, Insert, Refuse
  <2>3. QED
    BY <1>3, <1>4, <2>1, <2>2
<1>7. QED
  BY <1>5, <1>6

(* A registration that answers 201 has committed its row.                  *)
LEMMA CreatedKept ==
    ASSUME TypeOK, HandlerInv, WriteInv, CreatedIsCommitted,
           NEW r \in Requests, Arrive(r) \/ Serve(r) \/ Vanish(r)
    PROVE  CreatedIsCommitted'
<1> SUFFICES ASSUME NEW p \in Apps, pc'[p] = "done", answer'[p] = "created"
             PROVE  keyOf'[p] # Nothing
  BY DEF CreatedIsCommitted
<1>1. CASE p # r
  BY <1>1, KeysAreCalls, CallFrame, StoreFrame DEF CreatedIsCommitted
<1>2. CASE p = r
  <2>1. CASE Close(r)
    <3>1. write[r] = r
      BY <1>2, <2>1 DEF Close, WriteInv
    <3>2. PICK o : Commit(r, o) /\ Say(r, IF Raised(o) THEN "error" ELSE answer[r])
      BY <2>1 DEF Close
    <3>3. ~Raised(o)
      BY <1>2, <3>2 DEF Say, TypeOK
    <3>4. keyOf' = [keyOf EXCEPT ![r] = r]
      BY <3>1, <3>2, <3>3, KeysAreCalls DEF Commit, Raised, Applied
    <3>5. QED
      BY <1>2, <3>4, KeysAreCalls DEF TypeOK
  <2>2. CASE ~Close(r)
    BY <1>2, <2>2 DEF TypeOK, HandlerInv, Arrive, Serve, Vanish, ReadCache, ReadTable, FillCache,
       Forbid, Fetch, Rotate, DropCache, LookUpEmail, Insert, Refuse, Goto, Say
  <2>3. QED
    BY <2>1, <2>2
<1>3. QED
  BY <1>1, <1>2

-----------------------------------------------------------------------------
(* The invariant holds in every reachable state. *)

(* Nothing has happened initially.                                         *)
LEMMA InitKeys == Init => KeyInv
<1> SUFFICES ASSUME Init PROVE KeyInv
  OBVIOUS
<1>1. TypeOK
  BY DEF Init, TypeOK, Steps, Answers
<1>2. HandlerInv /\ WriteInv /\ RowInv /\ CacheInv /\ CreatedIsCommitted
  BY KeysAreCalls DEF Init, HandlerInv, WriteInv, RowInv, CacheInv, CreatedIsCommitted
<1>3. CallerInv
  BY DEF Init, CallerInv
<1>4. AddressInv
  BY KeysAreCalls DEF Init, AddressInv, Claims
<1>5. QED
  BY <1>1, <1>2, <1>3, <1>4 DEF KeyInv

(* Every step keeps it.                                                    *)
LEMMA NextKeys == KeyInv /\ [Next]_vars => KeyInv'
<1> SUFFICES ASSUME KeyInv, [Next]_vars PROVE KeyInv'
  OBVIOUS
<1> USE DEF KeyInv
<1>1. ASSUME NEW r \in Requests, Arrive(r) \/ Serve(r) \/ Vanish(r) PROVE KeyInv'
  BY <1>1, CallTypes, HandlerKept, WriteKept, RowsKept, CacheKept, CallersKept, AddressesKept,
     CreatedKept
<1>2. ASSUME NEW k \in Keys, Expire(k) PROVE KeyInv'
  <2>1. cache' = [cache EXCEPT ![k] = Nothing]
        /\ UNCHANGED <<keyOf, active, write, spared, pc, shown, path, email, caller, attached, answer>>
    BY <1>2 DEF Expire, store, asked, session
  <2>2. TypeOK' /\ HandlerInv' /\ WriteInv' /\ RowInv' /\ CreatedIsCommitted'
    BY <2>1 DEF TypeOK, HandlerInv, WriteInv, RowInv, Owner, CreatedIsCommitted
  <2>3. CacheInv'
    BY <2>1 DEF TypeOK, CacheInv, HandedOut, Owner
  <2>4. CallerInv' /\ AddressInv'
    BY <2>1 DEF CallerInv, HandedOut, Owner, AddressInv, Claims
  <2>5. QED
    BY <2>2, <2>3, <2>4
<1>3. ASSUME UNCHANGED <<keyOf, cache, write, spared, pc, shown, path, email, caller, attached, answer>>,
             active' \subseteq active
      PROVE  KeyInv'
  <2>1. TypeOK' /\ HandlerInv' /\ WriteInv' /\ RowInv' /\ CreatedIsCommitted'
    BY <1>3 DEF TypeOK, HandlerInv, WriteInv, RowInv, Owner, CreatedIsCommitted
  <2>2. CacheInv' /\ CallerInv' /\ AddressInv'
    BY <1>3 DEF CacheInv, CallerInv, HandedOut, Owner, AddressInv, Claims
  <2>3. QED
    BY <2>1, <2>2
<1>4. ASSUME NEW p \in Apps, Deactivate(p) PROVE KeyInv'
  BY <1>3, <1>4 DEF Deactivate, asked, session
<1>5. CASE UNCHANGED vars
  BY <1>3, <1>5 DEF vars
<1>6. QED
  BY <1>1, <1>2, <1>4, <1>5 DEF Next

(* The invariant holds in every reachable state.                           *)
LEMMA KeyInvariance == Spec => []KeyInv
  BY InitKeys, NextKeys, PTL DEF Spec

(* Every reachable state is well typed.                                    *)
THEOREM KeysTypeCorrect == Spec => []TypeOK
<1>1. KeyInv => TypeOK
  BY DEF KeyInv
<1>2. QED
  BY <1>1, KeyInvariance, PTL

(* A key acts for the application it was issued to and for no other: in    *)
(* the table, in the cache and in every call, however rotations, reads and *)
(* registrations overlap and whatever Redis and the database do.           *)
THEOREM KeysStayWithTheirTenant == Spec => []KeysNeverCrossTenants
<1>1. KeyInv => KeysNeverCrossTenants
  BY DEF KeyInv, RowInv, CacheInv, CallerInv, KeysNeverCrossTenants
<1>2. QED
  BY <1>1, KeyInvariance, PTL

(* Of registrations that race for one address at most one gets a row.      *)
THEOREM AddressesAreUnique == Spec => []OneApplicationPerEmail
<1>1. KeyInv => OneApplicationPerEmail
  BY DEF KeyInv, AddressInv, Claims, OneApplicationPerEmail
<1>2. QED
  BY <1>1, KeyInvariance, PTL

(* A client that reads 201 from a registration has an application.         *)
THEOREM CreatedAnswersAreTrue == Spec => []CreatedIsCommitted
<1>1. KeyInv => CreatedIsCommitted
  BY DEF KeyInv
<1>2. QED
  BY <1>1, KeyInvariance, PTL

-----------------------------------------------------------------------------
(* Dead keys, and keys in rows. *)

(* A step of a call does not bring a dead key back.                        *)
LEMMA CallsRaiseNoDead ==
    ASSUME KeyInv, NEW r \in Requests, Arrive(r) \/ Serve(r) \/ Vanish(r),
           NEW k \in Keys, Dead(k)
    PROVE  Dead(k)'
<1> USE DEF KeyInv, TypeOK
<1>0. pc[k] = "done" /\ cache[k] = Nothing /\ k \in Requests /\ k # Nothing
  BY KeysAreCalls DEF Dead
<1>1. pc'[k] = "done"
  BY <1>0, OwnersStay
<1>2. cache'[k] = Nothing
  <2>1. CASE cache' = [cache EXCEPT ![shown[r]] = caller[r]] /\ pc[r] = "fill"
    BY <2>1, <1>0 DEF Dead
  <2>2. QED
    BY <2>1, <1>0, StoreFrame
<1>3. \A p \in Apps : keyOf'[p] # k
  BY <1>0, StoreFrame DEF Dead
<1>4. ASSUME NEW q \in Requests, shown'[q] = k, pc'[q] = "fill" PROVE FALSE
  <2>1. CASE q # r
    BY <1>4, <2>1, CallFrame DEF Dead
  <2>2. CASE q = r
    <3>1. ReadTable(r)
      BY <1>4, <2>2 DEF Dead, Arrive, Serve, Vanish, ReadCache, FillCache,
         Forbid, Fetch, Rotate, DropCache, LookUpEmail, Insert, Close, Refuse, Goto, asked
    <3>2. \E p \in active : keyOf[p] = shown[r]
      BY <1>4, <2>2, <3>1 DEF ReadTable, Refuse, Goto
    <3>3. shown[r] = k
      BY <1>4, <2>2, <3>1 DEF ReadTable, asked
    <3>4. QED
      BY <3>2, <3>3 DEF Dead
  <2>3. QED
    BY <2>1, <2>2
<1>5. QED
  BY <1>1, <1>2, <1>3, <1>4 DEF Dead

(* A key that is in no row and no entry, with nobody about to file it,     *)
(* never authenticates again, although entries are deleted before the      *)
(* commit and filled by calls that read an older row.                      *)
THEOREM DeadKeysNeverReturn == Spec => DeadKeysStayDead
<1>1. ASSUME KeyInv, [Next]_vars, NEW k \in Keys, Dead(k) PROVE Dead(k)'
  <2>1. CASE \E r \in Requests : Arrive(r) \/ Serve(r) \/ Vanish(r)
    BY <1>1, <2>1, CallsRaiseNoDead
  <2>2. ASSUME NEW l \in Keys, Expire(l) PROVE Dead(k)'
    BY <1>1, <2>2 DEF Expire, Dead, KeyInv, TypeOK, store, asked
  <2>3. CASE (\E p \in Apps : Deactivate(p)) \/ UNCHANGED vars
    BY <1>1, <2>3 DEF Deactivate, vars, Dead, asked
  <2>4. QED
    BY <1>1, <2>1, <2>2, <2>3 DEF Next
<1>2. KeyInv /\ [Next]_vars => \A k \in Keys : Dead(k) => Dead(k)'
  BY <1>1
<1>3. KeyInv /\ [Next]_vars => [\A k \in Keys : Dead(k) => Dead(k)']_vars
  BY <1>2
<1>4. QED
  BY <1>3, KeyInvariance, PTL DEF Spec, DeadKeysStayDead

(* While the database answers and processes live, no commit puts a key in  *)
(* a row whose call does not go on to answer 201.                          *)
LEMMA CommitsAreAnswered ==
    ASSUME Faults \subseteq {"redis"}, KeyInv, RowsHoldHandedOutKeys, [Next]_vars
    PROVE  RowsHoldHandedOutKeys'
<1> USE DEF KeyInv, TypeOK
<1>1. ASSUME NEW r \in Requests, Arrive(r) \/ Serve(r) \/ Vanish(r)
      PROVE  RowsHoldHandedOutKeys'
  <2> SUFFICES ASSUME NEW p \in Apps, NEW k, k = keyOf'[p], k # Nothing
               PROVE  answer'[k] = "created"
    BY DEF RowsHoldHandedOutKeys
  <2>1. CASE k = keyOf[p]
    <3>1. k \in Keys /\ pc[k] = "done" /\ answer[k] = "created"
      BY <2>1 DEF RowInv, RowsHoldHandedOutKeys
    <3>2. QED
      BY <1>1, <3>1, OwnersStay
  <2>2. CASE k # keyOf[p]
    <3>1. k = r /\ pc[r] = "closing" /\ write[r] = p
      BY <1>1, <2>2, StoreFrame
    <3>2. answer[r] = "created"
      BY <3>1, KeysAreCalls DEF WriteInv
    <3>3. Close(r)
      BY <1>1, <3>1 DEF Arrive, Serve, Vanish, ReadCache, ReadTable, FillCache, Forbid, Fetch,
         Rotate, DropCache, LookUpEmail, Insert
    <3>4. DbOutcomes = {"ok"} /\ CommitOutcomes(r) = {"ok"}
      BY DEF DbOutcomes, CommitOutcomes
    <3>5. answer'[r] = answer[r]
      BY <3>3, <3>4 DEF Close, Say, Raised
    <3>6. QED
      BY <3>1, <3>2, <3>5
  <2>3. QED
    BY <2>1, <2>2
<1>2. CASE \/ \E k \in Keys : Expire(k)
           \/ \E p \in Apps : Deactivate(p)
           \/ UNCHANGED vars
  BY <1>2 DEF Expire, Deactivate, vars, store, RowsHoldHandedOutKeys
<1>3. QED
  BY <1>1, <1>2 DEF Next

(* While the database works and processes live, a row holds a key that a   *)
(* client was handed, whatever Redis does: nobody is locked out.           *)
THEOREM NobodyIsLockedOut ==
    ASSUME Faults \subseteq {"redis"}
    PROVE  Spec => []RowsHoldHandedOutKeys
<1>1. Init => RowsHoldHandedOutKeys
  BY DEF Init, RowsHoldHandedOutKeys
<1>2. KeyInv /\ RowsHoldHandedOutKeys /\ [Next]_vars => RowsHoldHandedOutKeys'
  BY CommitsAreAnswered
<1>3. QED
  BY <1>1, <1>2, KeyInvariance, PTL DEF Spec

-----------------------------------------------------------------------------
(* Keys that a rotation takes out of their row. *)

(* A rotation that is about to commit has taken the key it was shown out   *)
(* of the cache, or that key is one of the exceptions.                     *)
ClosingInv ==
    \A r \in Requests :
        r \notin Apps /\ write[r] # Nothing /\ pc[r] = "closing"
            => cache[shown[r]] = Nothing \/ shown[r] \in spared

SparedInv == RevokedKeysAreForgotten /\ ClosingInv

(* Filing a key that has just left its row, or is leaving it, is recorded. *)
LEMMA FillsAreRecorded ==
    ASSUME KeyInv, SparedInv, NEW r \in Requests, FillCache(r)
    PROVE  SparedInv'
<1> USE DEF KeyInv, TypeOK
<1>1. /\ keyOf' = keyOf /\ write' = write /\ shown' = shown /\ spared \subseteq spared'
      /\ pc[r] = "fill" /\ pc'[r] = "handle"
      /\ \A q \in Requests : q # r => pc'[q] = pc[q]
  BY DEF FillCache, Goto, asked
<1>2. \/ cache' = cache
      \/ /\ cache' = [cache EXCEPT ![shown[r]] = caller[r]]
         /\ ReadTooEarly(r) => shown[r] \in spared'
  BY DEF FillCache
<1>3. shown[r] \in Keys
  BY <1>1 DEF HandlerInv
<1>4. RevokedKeysAreForgotten'
  <2> SUFFICES ASSUME NEW k \in Keys, cache'[k] # Nothing, \A p \in Apps : keyOf[p] # k
               PROVE  k \in spared'
    BY <1>1 DEF RevokedKeysAreForgotten
  <2>1. CASE cache'[k] = cache[k]
    BY <2>1, <1>1 DEF SparedInv, RevokedKeysAreForgotten
  <2>2. CASE cache'[k] # cache[k]
    <3>1. k = shown[r] /\ cache'[k] = caller[r] /\ (ReadTooEarly(r) => k \in spared')
      BY <2>2, <1>2, <1>3
    <3>2. caller[r] \in Apps
      BY <3>1
    <3>3. ReadTooEarly(r)
      BY <3>1, <3>2 DEF ReadTooEarly
    <3>4. QED
      BY <3>1, <3>3
  <2>3. QED
    BY <2>1, <2>2
<1>5. ClosingInv'
  <2> SUFFICES ASSUME NEW q \in Requests, q \notin Apps, write[q] # Nothing, pc'[q] = "closing",
                      cache'[shown[q]] # Nothing
               PROVE  shown[q] \in spared'
    BY <1>1 DEF ClosingInv
  <2>1. q # r /\ pc[q] = "closing"
    BY <1>1
  <2>2. shown[q] \in Keys
    BY <2>1 DEF HandlerInv
  <2>3. CASE cache'[shown[q]] = cache[shown[q]]
    BY <2>1, <2>3, <1>1 DEF SparedInv, ClosingInv
  <2>4. CASE cache'[shown[q]] # cache[shown[q]]
    <3>1. /\ shown[q] = shown[r] /\ cache'[shown[q]] = caller[r]
          /\ ReadTooEarly(r) => shown[q] \in spared'
      BY <2>2, <2>4, <1>2, <1>3
    <3>2. caller[r] = Owner(shown[q])
      BY <3>1 DEF CallerInv
    <3>3. write[q] = caller[q] /\ caller[q] = Owner(shown[q])
      BY DEF WriteInv, Owner, CallerInv
    <3>4. ReadTooEarly(r)
      BY <2>1, <3>1, <3>2, <3>3 DEF ReadTooEarly
    <3>5. QED
      BY <3>1, <3>4
  <2>5. QED
    BY <2>3, <2>4
<1>6. QED
  BY <1>4, <1>5 DEF SparedInv

(* A DELETE that has no effect is recorded.                                *)
LEMMA DropsAreRecorded ==
    ASSUME KeyInv, SparedInv, NEW r \in Requests, DropCache(r)
    PROVE  SparedInv'
<1> USE DEF KeyInv, TypeOK
<1>1. keyOf' = keyOf /\ write' = write /\ shown' = shown
      /\ \A q \in Requests : q # r => pc'[q] = pc[q]
  BY DEF DropCache, Goto, asked
<1>2. shown[r] \in Keys
  BY DEF HandlerInv, DropCache
<1>3. /\ \A k \in Keys : k # shown[r] =>
            cache'[k] = cache[k] /\ (k \in spared => k \in spared')
      /\ cache'[shown[r]] = Nothing \/ shown[r] \in spared'
  BY <1>2 DEF DropCache
<1>4. RevokedKeysAreForgotten'
  BY <1>1, <1>3 DEF SparedInv, RevokedKeysAreForgotten
<1>5. ClosingInv'
  <2> SUFFICES ASSUME NEW q \in Requests, q \notin Apps, write[q] # Nothing, pc'[q] = "closing"
               PROVE  cache'[shown[q]] = Nothing \/ shown[q] \in spared'
    BY <1>1 DEF ClosingInv
  <2>1. CASE shown[q] = shown[r]
    BY <2>1, <1>3
  <2>2. CASE shown[q] # shown[r]
    <3>1. q # r /\ pc[q] = "closing"
      BY <2>2, <1>1
    <3>2. shown[q] \in Keys
      BY <3>1 DEF HandlerInv
    <3>3. QED
      BY <2>2, <3>1, <3>2, <1>3 DEF SparedInv, ClosingInv
  <2>3. QED
    BY <2>1, <2>2
<1>6. QED
  BY <1>4, <1>5 DEF SparedInv

(* A commit that takes a key out of its row has deleted its entry, or      *)
(* records the key.                                                        *)
LEMMA CommitsAreRecorded ==
    ASSUME KeyInv, SparedInv, NEW r \in Requests, Close(r) \/ Vanish(r)
    PROVE  SparedInv'
<1> USE DEF KeyInv, TypeOK
<1>1. /\ cache' = cache /\ shown' = shown /\ write'[r] = Nothing
      /\ \A q \in Requests : q # r => pc'[q] = pc[q] /\ write'[q] = write[q]
  BY DEF Close, Vanish, Commit, Refuse, Goto, asked
<1>2. \/ keyOf' = keyOf
      \/ /\ pc[r] = "closing" /\ write[r] # Nothing
         /\ keyOf' = [keyOf EXCEPT ![write[r]] = r]
         /\ spared' = spared \cup ({keyOf[write[r]]} \ {Nothing, shown[r]})
  BY DEF Close, Vanish, Commit, Refuse
<1>3. spared \subseteq spared'
  BY DEF Close, Vanish, Commit, Refuse
<1>4. RevokedKeysAreForgotten'
  <2> SUFFICES ASSUME NEW k \in Keys, cache[k] # Nothing, \A p \in Apps : keyOf'[p] # k
               PROVE  k \in spared'
    BY <1>1 DEF RevokedKeysAreForgotten
  <2>1. CASE \A p \in Apps : keyOf[p] # k
    BY <2>1, <1>3 DEF SparedInv, RevokedKeysAreForgotten
  <2>2. ASSUME NEW p \in Apps, keyOf[p] = k PROVE k \in spared'
    <3>1. /\ pc[r] = "closing" /\ write[r] = p
          /\ spared' = spared \cup ({k} \ {Nothing, shown[r]})
      BY <2>2, <1>2
    <3>2. k # Nothing
      BY KeysAreCalls
    <3>3. CASE k # shown[r]
      BY <3>1, <3>2, <3>3
    <3>4. CASE k = shown[r]
      <4>1. r \notin Apps
        \* a registration that has a row is over
        <5>1. r \in Apps => write[r] = r
          BY <3>1 DEF WriteInv
        <5>2. pc[p] = "done"
          BY <2>2, <3>2 DEF RowInv
        <5>3. QED
          BY <3>1, <5>1, <5>2
      <4>2. k \in spared
        BY <3>1, <3>4, <4>1, KeysAreCalls DEF SparedInv, ClosingInv
      <4>3. QED
        BY <4>2, <1>3
    <3>5. QED
      BY <3>3, <3>4
  <2>3. QED
    BY <2>1, <2>2
<1>5. ClosingInv'
  BY <1>1, <1>3 DEF SparedInv, ClosingInv
<1>6. QED
  BY <1>4, <1>5 DEF SparedInv

(* No other step of a call files, deletes or revokes a key.                *)
LEMMA OthersReviveNothing ==
    ASSUME KeyInv, SparedInv, NEW r \in Requests,
           Arrive(r) \/ Serve(r), ~FillCache(r), ~DropCache(r), ~Close(r)
    PROVE  SparedInv'
<1> USE DEF KeyInv, TypeOK
<1>1. keyOf' = keyOf /\ cache' = cache /\ spared' = spared
  BY DEF Arrive, Serve, ReadCache, ReadTable, Forbid, Fetch, Rotate, LookUpEmail, Insert,
     Refuse, store
<1>2. pc'[r] = "closing" => write'[r] = Nothing \/ r \in Apps
  <2>1. CASE Fetch(r)
    BY <2>1 DEF Fetch, Refuse, WriteInv, store
  <2>2. CASE Insert(r)
    BY <2>2 DEF Insert, HandlerInv
  <2>3. CASE ~Fetch(r) /\ ~Insert(r)
    BY <2>3 DEF Arrive, Serve, ReadCache, ReadTable, Forbid, Rotate, LookUpEmail, Refuse, Goto
  <2>4. QED
    BY <2>1, <2>2, <2>3
<1>3. \A q \in Requests : q # r => /\ pc'[q] = pc[q] /\ write'[q] = write[q]
                                   /\ shown'[q] = shown[q]
  BY CallFrame
<1>4. RevokedKeysAreForgotten'
  BY <1>1 DEF SparedInv, RevokedKeysAreForgotten
<1>5. ClosingInv'
  BY <1>1, <1>2, <1>3 DEF SparedInv, ClosingInv
<1>6. QED
  BY <1>4, <1>5 DEF SparedInv

(* A key that a rotation took out of its row has left the cache, in every  *)
(* reachable state, unless the DELETE failed, a call filed the key after   *)
(* the DELETE from a row it had read before, or the rotation did not know  *)
(* the key it replaced: however many rotations and reads overlap, whatever *)
(* fails and whoever dies, there is no fourth way for a revoked key to     *)
(* stay.                                                                   *)
THEOREM RevokedKeysLeaveTheCache == Spec => []RevokedKeysAreForgotten
<1>1. Init => SparedInv
  BY KeysAreCalls DEF Init, SparedInv, RevokedKeysAreForgotten, ClosingInv
<1>2. KeyInv /\ SparedInv /\ [Next]_vars => SparedInv'
  <2> SUFFICES ASSUME KeyInv, SparedInv, [Next]_vars PROVE SparedInv'
    OBVIOUS
  <2>1. ASSUME NEW r \in Requests, Arrive(r) \/ Serve(r) \/ Vanish(r) PROVE SparedInv'
    BY <2>1, FillsAreRecorded, DropsAreRecorded, CommitsAreRecorded, OthersReviveNothing
  <2>2. ASSUME NEW k \in Keys, Expire(k) PROVE SparedInv'
    <3>1. /\ cache' = [cache EXCEPT ![k] = Nothing]
          /\ UNCHANGED <<keyOf, write, spared, pc, shown>>
      BY <2>2 DEF Expire, store, asked
    <3>2. RevokedKeysAreForgotten'
      BY <3>1 DEF SparedInv, RevokedKeysAreForgotten, KeyInv, TypeOK
    <3>3. ClosingInv'
      <4> SUFFICES ASSUME NEW r \in Requests, r \notin Apps, write[r] # Nothing,
                          pc[r] = "closing"
                   PROVE  cache'[shown[r]] = Nothing \/ shown[r] \in spared
        BY <3>1 DEF ClosingInv
      <4>1. shown[r] \in Keys
        BY DEF KeyInv, TypeOK, HandlerInv
      <4>2. QED
        BY <3>1, <4>1 DEF SparedInv, ClosingInv, KeyInv, TypeOK
    <3>4. QED
      BY <3>2, <3>3 DEF SparedInv
  <2>3. CASE (\E p \in Apps : Deactivate(p)) \/ UNCHANGED vars
    <3>1. UNCHANGED <<keyOf, cache, write, spared, pc, shown>>
      BY <2>3 DEF Deactivate, vars, asked
    <3>2. QED
      BY <3>1 DEF SparedInv, RevokedKeysAreForgotten, ClosingInv
  <2>4. QED
    BY <2>1, <2>2, <2>3 DEF Next
<1>3. SparedInv => RevokedKeysAreForgotten
  BY DEF SparedInv
<1>4. QED
  BY <1>1, <1>2, <1>3, KeyInvariance, PTL DEF Spec

=============================================================================
