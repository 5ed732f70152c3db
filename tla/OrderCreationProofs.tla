------------------------ MODULE OrderCreationProofs ------------------------
(***************************************************************************)
(* Theorems about OrderCreation for every set of keys, orders, payloads and *)
(* requests, and any number of faults.                                      *)
(***************************************************************************)
EXTENDS OrderCreation, OrderRepositoryProofs, TLAPS

----------------------------------------------------------------------------
(* Type correctness *)

LEMMA DocumentTyped ==
    ASSUME TypeOK, NEW r \in Requests, create[r] \in Holding
    PROVE  /\ DocumentOf(r) \in OrderDocument
           /\ DocumentOf(r).requestId = requestKey[r]
           /\ DocumentOf(r).payloadHash = HashPayload(requestBody[r])
           /\ requestOrder[r] \in OrderIds
<1>1. /\ requestKey[r] \in RequestIds /\ requestBody[r] \in Payloads
      /\ requestOrder[r] \in OrderIds
  BY DEF TypeOK
<1>2. HashPayload(requestBody[r]) \in PayloadHashes
  BY <1>1, PayloadHashesAssumption
<1> QED BY <1>1, <1>2, NewDocument DEF DocumentOf

LEMMA InsertedTyped ==
    ASSUME orders \in Collection, NEW o \in OrderIds, NEW doc \in OrderDocument,
           InsertOne(o, doc)
    PROVE  /\ orders' \in Collection
           /\ orders'[o] = doc
           /\ \A p \in OrderIds \ {o} : orders'[p] = orders[p]
BY DEF InsertOne, Collection

LEMMA TypeInit == Init => TypeOK
BY MaxFaultsAssumption DEF Init, TypeOK, Collection, Replies, Holding

LEMMA TypeNext == TypeOK /\ [Next]_vars => TypeOK'
<1> SUFFICES ASSUME TypeOK, [Next]_vars PROVE TypeOK'
  OBVIOUS
<1> USE MaxFaultsAssumption
<1>1. ASSUME NEW r \in Requests, RefuseCreate(r)
      PROVE  TypeOK'
  BY <1>1 DEF RefuseCreate, TypeOK, Replies, Holding
<1>2. ASSUME NEW r \in Requests, NEW key \in RequestIds, NEW p \in Payloads,
             LookupKey(r, key, p)
      PROVE  TypeOK'
  <2>1. /\ create' \in [Requests -> {"new", "insert", "publish"} \cup Replies]
        /\ requestOrder' \in [Requests -> OrderIds \cup {None}]
        /\ \A q \in Requests \ {r} : /\ create'[q] = create[q]
                                     /\ requestOrder'[q] = requestOrder[q]
        /\ create'[r] \in Holding => requestOrder'[r] \in OrderIds
    <3>1. CASE FindByRequestId(key) = {} /\ BuildOrder(r, p)
      BY <3>1 DEF BuildOrder, FreshIds, TypeOK, Replies, Holding
    <3>2. ASSUME NEW o \in FindByRequestId(key), ReplayOrConflict(r, p, o)
          PROVE  <2>1
      BY <3>2 DEF ReplayOrConflict, FindByRequestId, TypeOK, Replies, Holding
    <3> QED BY <1>2, <3>1, <3>2 DEF LookupKey
  <2>2. /\ requestKey' = [requestKey EXCEPT ![r] = key]
        /\ requestBody' = [requestBody EXCEPT ![r] = p]
        /\ UNCHANGED <<orders, announced, strayInserts, faults>>
    BY <1>2 DEF LookupKey
  <2> QED BY <2>1, <2>2 DEF TypeOK
<1>3. ASSUME NEW r \in Requests, InsertOrder(r)
      PROVE  TypeOK'
  <2>1. orders' \in Collection
    <3>1. DocumentOf(r) \in OrderDocument /\ requestOrder[r] \in OrderIds
      BY <1>3, DocumentTyped DEF InsertOrder, Holding
    <3> QED BY <1>3, <3>1, InsertedTyped DEF InsertOrder, TypeOK
  <2>2. /\ create' \in [Requests -> {"new", "insert", "publish"} \cup Replies]
        /\ requestOrder' \in [Requests -> OrderIds \cup {None}]
        /\ \A q \in Requests : create'[q] \in Holding =>
              create[q] \in Holding /\ requestOrder'[q] = requestOrder[q]
    BY <1>3 DEF InsertOrder, TypeOK, Replies, Holding
  <2> QED BY <1>3, <2>1, <2>2 DEF InsertOrder, TypeOK
<1>4. ASSUME NEW r \in Requests, PublishOrder(r)
      PROVE  TypeOK'
  <2>1. requestOrder[r] \in OrderIds
    BY <1>4 DEF PublishOrder, TypeOK, Holding
  <2>2. Append(announced, requestOrder[r]) \in Seq(OrderIds)
    BY <2>1, AppendHolds DEF TypeOK
  <2> QED BY <1>4, <2>2 DEF PublishOrder, TypeOK, Replies, Holding
<1>5. ASSUME NEW r \in Requests, CreateFault(r)
      PROVE  TypeOK'
  <2>1. create[r] = "insert" => InsertOf(r) \in Insert
    BY DocumentTyped DEF InsertOf, Insert, Holding
  <2>2. strayInserts' \in SUBSET Insert
    BY <1>5, <2>1 DEF CreateFault, TypeOK
  <2> QED BY <1>5, <2>2 DEF CreateFault, CountFault, TypeOK, Replies, Holding
<1>6. ASSUME NEW w \in strayInserts, StrayInsertLands(w)
      PROVE  TypeOK'
  <2>1. w.order \in OrderIds /\ w.doc \in OrderDocument
    BY DEF TypeOK, Insert
  <2>2. orders' \in Collection
    BY <1>6, <2>1, InsertedTyped DEF StrayInsertLands, TypeOK
  <2> QED BY <1>6, <2>2 DEF StrayInsertLands, requestVars, TypeOK
<1>7. ASSUME NEW w \in strayInserts, StrayInsertIsLost(w)
      PROVE  TypeOK'
  BY <1>7 DEF StrayInsertIsLost, requestVars, TypeOK
<1>8. CASE Restart
  <2>1. \A r \in Requests : create[r] = "insert" => InsertOf(r) \in Insert
    BY DocumentTyped DEF InsertOf, Insert, Holding
  <2>2. strayInserts' \in SUBSET Insert
    BY <1>8, <2>1 DEF Restart, TypeOK
  <2> QED BY <1>8, <2>2 DEF Restart, CountFault, TypeOK, Replies, Holding
<1>9. CASE UNCHANGED vars
  BY <1>9 DEF vars, requestVars, TypeOK
<1> QED
  BY <1>1, <1>2, <1>3, <1>4, <1>5, <1>6, <1>7, <1>8, <1>9 DEF Next

(* The variables keep their types: in particular a request holds an order id
   from the moment it builds or finds the order. *)
THEOREM TypeCorrect == Spec => []TypeOK
BY TypeInit, TypeNext, PTL DEF Spec

----------------------------------------------------------------------------
(* The collection only gains documents with new keys *)

OrdersStep ==
    \/ UNCHANGED orders
    \/ \E o \in OrderIds, doc \in OrderDocument :
          UniqueIndexesAccept(o, doc) /\ InsertOne(o, doc)

LEMMA StepOnOrders ==
    ASSUME TypeOK, [Next]_vars
    PROVE  OrdersStep
<1>1. ASSUME NEW r \in Requests, InsertOrder(r)
      PROVE  OrdersStep
  <2>1. DocumentOf(r) \in OrderDocument /\ requestOrder[r] \in OrderIds
    BY <1>1, DocumentTyped DEF InsertOrder, Holding
  <2> QED BY <1>1, <2>1 DEF InsertOrder, OrdersStep
<1>2. ASSUME NEW w \in strayInserts, StrayInsertLands(w)
      PROVE  OrdersStep
  <2>1. w.order \in OrderIds /\ w.doc \in OrderDocument
    BY DEF TypeOK, Insert
  <2> QED BY <1>2, <2>1 DEF StrayInsertLands, OrdersStep
<1> QED
  BY <1>1, <1>2
     DEF Next, RefuseCreate, LookupKey, PublishOrder, CreateFault, StrayInsertIsLost,
         Restart, vars, OrdersStep

(* A stored document is never changed by order creation. *)
LEMMA StoredStays ==
    ASSUME TypeOK, OrdersStep, NEW o \in OrderIds, Stored(o)
    PROVE  Stored(o)' /\ orders'[o] = orders[o]
<1>1. CASE UNCHANGED orders
  BY <1>1 DEF Stored
<1>2. ASSUME NEW p \in OrderIds, NEW doc \in OrderDocument,
             UniqueIndexesAccept(p, doc), InsertOne(p, doc)
      PROVE  Stored(o)' /\ orders'[o] = orders[o]
  <2>1. p # o
    BY <1>2 DEF UniqueIndexesAccept
  <2> QED BY <1>2, <2>1, InsertedTyped DEF TypeOK, Stored
<1> QED BY <1>1, <1>2 DEF OrdersStep

(* What the unique index on requestId is for. *)
UniqueKeys ==
    \A o, p \in OrderIds :
        Stored(o) /\ Stored(p) /\ orders[o].requestId = orders[p].requestId => o = p

LEMMA UniqueKeysStep ==
    ASSUME TypeOK, UniqueKeys, OrdersStep
    PROVE  UniqueKeys'
<1> SUFFICES ASSUME NEW o \in OrderIds, NEW p \in OrderIds, Stored(o)', Stored(p)',
                    orders'[o].requestId = orders'[p].requestId
             PROVE  o = p
  BY DEF UniqueKeys
<1>1. CASE UNCHANGED orders
  BY <1>1 DEF UniqueKeys, Stored
<1>2. ASSUME NEW n \in OrderIds, NEW doc \in OrderDocument,
             UniqueIndexesAccept(n, doc), InsertOne(n, doc)
      PROVE  o = p
  <2>1. /\ orders'[n] = doc
        /\ \A q \in OrderIds \ {n} : orders'[q] = orders[q]
    BY <1>2, InsertedTyped DEF TypeOK
  <2>2. \A q \in OrderIds : Stored(q) => orders[q].requestId # doc.requestId
    BY <1>2 DEF UniqueIndexesAccept, FindByRequestId
  <2>3. CASE o = n /\ p # n
    BY <2>1, <2>2, <2>3 DEF Stored
  <2>4. CASE p = n /\ o # n
    BY <2>1, <2>2, <2>4 DEF Stored
  <2>5. CASE o # n /\ p # n
    BY <2>1, <2>5 DEF Stored, UniqueKeys
  <2> QED BY <2>3, <2>4, <2>5
<1> QED BY <1>1, <1>2 DEF OrdersStep

----------------------------------------------------------------------------
(* Requests agree with what is stored *)

(* A request that holds a stored order holds the one of its key and its body;
   a conflict was answered because of a stored order with another hash. *)
Agrees(r) ==
    /\ Stored(requestOrder[r])
    /\ orders[requestOrder[r]].requestId = requestKey[r]
    /\ orders[requestOrder[r]].payloadHash = HashPayload(requestBody[r])

Conflicts(r) ==
    /\ requestKey[r] \in RequestIds /\ requestBody[r] \in Payloads
    /\ \E o \in OrderIds :
          /\ Stored(o)
          /\ orders[o].requestId = requestKey[r]
          /\ orders[o].payloadHash # HashPayload(requestBody[r])

RequestsAgree ==
    \A r \in Requests :
        /\ create[r] \in {"publish", "200", "201"} => Agrees(r)
        /\ create[r] = "mismatch" => Conflicts(r)

LEMMA RequestsAgreeStep ==
    ASSUME TypeOK, TypeOK', RequestsAgree, OrdersStep, [Next]_vars
    PROVE  RequestsAgree'
<1> DEFINE Agreed(r)   == create[r] \in {"publish", "200", "201"} => Agrees(r)
           Conflict(r) == create[r] = "mismatch" => Conflicts(r)
<1> SUFFICES ASSUME NEW r \in Requests PROVE Agreed(r)' /\ Conflict(r)'
  BY DEF RequestsAgree
<1>1. Agreed(r) /\ Conflict(r)
  BY DEF RequestsAgree
<1>2. ASSUME create'[r] = create[r], requestKey'[r] = requestKey[r],
             requestBody'[r] = requestBody[r], requestOrder'[r] = requestOrder[r]
      PROVE  Agreed(r)' /\ Conflict(r)'
  <2>1. CASE create[r] \in {"publish", "200", "201"}
    <3>1. requestOrder[r] \in OrderIds
      BY <2>1 DEF TypeOK, Holding
    <3> QED BY <1>1, <1>2, <2>1, <3>1, StoredStays DEF Agrees, Stored
  <2>2. CASE create[r] = "mismatch"
    BY <1>1, <1>2, <2>2, StoredStays DEF Conflicts, Stored
  <2> QED BY <1>2, <2>1, <2>2
<1>3. ASSUME create'[r] \notin {"publish", "200", "201", "mismatch"}
      PROVE  Agreed(r)' /\ Conflict(r)'
  BY <1>3
<1>4. ASSUME NEW q \in Requests,
             \/ RefuseCreate(q) \/ InsertOrder(q) \/ PublishOrder(q) \/ CreateFault(q)
             \/ \E key \in RequestIds, p \in Payloads : LookupKey(q, key, p),
             q # r
      PROVE  Agreed(r)' /\ Conflict(r)'
  BY <1>2, <1>4
     DEF RefuseCreate, InsertOrder, PublishOrder, CreateFault, LookupKey, BuildOrder,
         ReplayOrConflict, TypeOK
<1>5. CASE RefuseCreate(r) \/ CreateFault(r)
  BY <1>3, <1>5 DEF RefuseCreate, CreateFault, TypeOK
<1>6. ASSUME NEW key \in RequestIds, NEW p \in Payloads, LookupKey(r, key, p)
      PROVE  Agreed(r)' /\ Conflict(r)'
  <2>1. requestKey'[r] = key /\ requestBody'[r] = p /\ orders' = orders
    BY <1>6 DEF LookupKey, TypeOK
  <2>2. CASE BuildOrder(r, p)
    BY <1>3, <2>2 DEF BuildOrder, TypeOK
  <2>3. ASSUME NEW o \in FindByRequestId(key), ReplayOrConflict(r, p, o)
        PROVE  Agreed(r)' /\ Conflict(r)'
    <3>1. o \in OrderIds /\ Stored(o) /\ orders[o].requestId = key
      BY DEF FindByRequestId
    <3>2. CASE orders[o].payloadHash = HashPayload(p)
      <4>1. create'[r] = "200" /\ requestOrder'[r] = o
        BY <2>3, <3>2 DEF ReplayOrConflict, TypeOK
      <4> QED BY <2>1, <3>1, <3>2, <4>1 DEF Agrees, Stored
    <3>3. CASE orders[o].payloadHash # HashPayload(p)
      <4>1. create'[r] = "mismatch"
        BY <2>3, <3>3 DEF ReplayOrConflict, TypeOK
      <4> QED BY <2>1, <3>1, <3>3, <4>1 DEF Conflicts, Stored
    <3> QED BY <3>2, <3>3
  <2> QED BY <1>6, <2>2, <2>3 DEF LookupKey
<1>7. CASE InsertOrder(r)
  <2>1. CASE create'[r] = "500"
    BY <1>3, <2>1
  <2>2. CASE /\ UniqueIndexesAccept(requestOrder[r], DocumentOf(r))
             /\ InsertOne(requestOrder[r], DocumentOf(r))
             /\ create' = [create EXCEPT ![r] = "publish"]
             /\ UNCHANGED requestOrder
    <3>1. /\ DocumentOf(r) \in OrderDocument /\ requestOrder[r] \in OrderIds
          /\ DocumentOf(r).requestId = requestKey[r]
          /\ DocumentOf(r).payloadHash = HashPayload(requestBody[r])
      BY <1>7, DocumentTyped DEF InsertOrder, Holding
    <3>2. orders'[requestOrder[r]] = DocumentOf(r)
      BY <2>2, <3>1, InsertedTyped DEF TypeOK
    <3>3. create'[r] = "publish" /\ requestOrder' = requestOrder
          /\ requestKey' = requestKey /\ requestBody' = requestBody
      BY <1>7, <2>2 DEF InsertOrder, TypeOK
    <3>4. orders'[requestOrder[r]] # NoDocument
      BY <3>1, <3>2, NoDocumentAssumption
    <3> QED BY <3>1, <3>2, <3>3, <3>4 DEF Agrees, Stored
  <2> QED BY <1>7, <2>1, <2>2 DEF InsertOrder, TypeOK
<1>8. CASE PublishOrder(r)
  <2>1. create[r] = "publish" /\ create'[r] = "201" /\ orders' = orders
        /\ UNCHANGED <<requestKey, requestBody, requestOrder>>
    BY <1>8 DEF PublishOrder, TypeOK
  <2> QED BY <1>1, <2>1 DEF Agrees, Stored
<1>9. CASE Restart
  BY <1>2, <1>3, <1>9 DEF Restart
<1>10. CASE UNCHANGED <<create, requestKey, requestBody, requestOrder>>
  BY <1>2, <1>10
<1> QED
  BY <1>4, <1>5, <1>6, <1>7, <1>8, <1>9, <1>10
     DEF Next, StrayInsertLands, StrayInsertIsLost, requestVars, vars

----------------------------------------------------------------------------
(* Ids and announcements *)

(* The requests that drew their order id, rather than found it. *)
Owner(r) == create[r] \in {"insert", "publish", "201"}

(* No two of them drew the same id. *)
OwnIds ==
    \A q, r \in Requests :
        Owner(q) /\ Owner(r) /\ requestOrder[q] = requestOrder[r] => q = r

(* An order is not announced while its request is still to publish it. *)
Unannounced ==
    \A r \in Requests :
        create[r] \in {"insert", "publish"} => requestOrder[r] \notin ToSet(announced)

LEMMA OwnIdsStep ==
    ASSUME TypeOK, OwnIds, [Next]_vars
    PROVE  OwnIds'
<1>1. ASSUME \A r \in Requests : Owner(r)' => Owner(r) /\ requestOrder'[r] = requestOrder[r]
      PROVE  OwnIds'
  BY <1>1 DEF OwnIds
<1>2. ASSUME NEW r \in Requests, NEW key \in RequestIds, NEW p \in Payloads,
             LookupKey(r, key, p)
      PROVE  OwnIds'
  <2>1. CASE BuildOrder(r, p)
    <3>1. \A q \in Requests \ {r} :
             create'[q] = create[q] /\ requestOrder'[q] = requestOrder[q]
      BY <2>1 DEF BuildOrder, TypeOK
    <3>2. \/ create'[r] = "unavailable"
          \/ requestOrder'[r] \in FreshIds
      BY <2>1 DEF BuildOrder, TypeOK
    <3> QED BY <3>1, <3>2 DEF OwnIds, Owner, FreshIds
  <2>2. ASSUME NEW o \in FindByRequestId(key), ReplayOrConflict(r, p, o)
        PROVE  OwnIds'
    BY <1>1, <2>2 DEF ReplayOrConflict, Owner, TypeOK
  <2> QED BY <1>2, <2>1, <2>2 DEF LookupKey
<1>3. ASSUME NEW r \in Requests,
             RefuseCreate(r) \/ InsertOrder(r) \/ PublishOrder(r) \/ CreateFault(r)
      PROVE  OwnIds'
  BY <1>1, <1>3
     DEF RefuseCreate, InsertOrder, PublishOrder, CreateFault, Owner, TypeOK
<1>4. CASE Restart
  BY <1>1, <1>4 DEF Restart, Owner
<1> QED
  BY <1>1, <1>2, <1>3, <1>4
     DEF Next, StrayInsertLands, StrayInsertIsLost, requestVars, vars,
         Owner

LEMMA AnnouncedStep ==
    ASSUME TypeOK, TypeOK', RequestsAgree, OwnIds, AnnouncedOnce, Unannounced,
           OrdersStep, [Next]_vars
    PROVE  AnnouncedOnce' /\ Unannounced'
<1>1. \A o \in ToSet(announced) : o \in OrderIds /\ Stored(o)
  BY ToSetElements DEF AnnouncedOnce, ToSet, TypeOK
<1>2. \A o \in ToSet(announced) : orders'[o] # NoDocument
  BY <1>1, StoredStays DEF Stored
<1>3. ASSUME announced' = announced
      PROVE  AnnouncedOnce'
  <2>1. \A i \in 1..Len(announced) : announced[i] \in ToSet(announced)
    BY DEF ToSet, TypeOK
  <2> QED BY <1>2, <1>3, <2>1 DEF AnnouncedOnce, Stored
<1>4. ASSUME announced' = announced,
             \A r \in Requests : create'[r] \in {"insert", "publish"} =>
                 /\ create[r] \in {"insert", "publish"}
                 /\ requestOrder'[r] = requestOrder[r]
      PROVE  Unannounced'
  BY <1>4 DEF Unannounced
<1>5. ASSUME NEW r \in Requests, NEW key \in RequestIds, NEW p \in Payloads,
             LookupKey(r, key, p)
      PROVE  AnnouncedOnce' /\ Unannounced'
  <2>1. announced' = announced
    BY <1>5 DEF LookupKey
  <2>2. CASE BuildOrder(r, p)
    <3>1. \A q \in Requests \ {r} :
             create'[q] = create[q] /\ requestOrder'[q] = requestOrder[q]
      BY <2>2 DEF BuildOrder, TypeOK
    <3>2. \/ create'[r] = "unavailable"
          \/ requestOrder'[r] \in FreshIds
      BY <2>2 DEF BuildOrder, TypeOK
    <3>3. \A o \in FreshIds : o \notin ToSet(announced)
      BY <1>1 DEF FreshIds
    <3> QED BY <1>3, <2>1, <3>1, <3>2, <3>3 DEF Unannounced
  <2>3. ASSUME NEW o \in FindByRequestId(key), ReplayOrConflict(r, p, o)
        PROVE  AnnouncedOnce' /\ Unannounced'
    BY <1>3, <1>4, <2>1, <2>3 DEF ReplayOrConflict, TypeOK
  <2> QED BY <1>5, <2>2, <2>3 DEF LookupKey
<1>6. ASSUME NEW r \in Requests, PublishOrder(r)
      PROVE  AnnouncedOnce' /\ Unannounced'
  <2> PICK o \in OrderIds : o = requestOrder[r]
    BY <1>6 DEF PublishOrder, TypeOK, Holding
  <2>1. /\ create[r] = "publish" /\ create' = [create EXCEPT ![r] = "201"]
        /\ announced' = Append(announced, o) /\ UNCHANGED <<orders, requestOrder>>
    BY <1>6 DEF PublishOrder
  <2>2. Stored(o) /\ o \notin ToSet(announced)
    BY <2>1 DEF RequestsAgree, Agrees, Unannounced
  <2>3. announced \in Seq(OrderIds) /\ Len(announced) \in Nat
    BY DEF TypeOK
  <2>4. /\ Len(announced') = Len(announced) + 1
        /\ announced'[Len(announced) + 1] = o
        /\ \A i \in 1..Len(announced) : announced'[i] = announced[i]
    BY <2>1, <2>3
  <2>5. \A i \in 1..Len(announced) : announced[i] # o /\ Stored(announced[i])
    BY <2>2, <2>3 DEF ToSet, AnnouncedOnce
  <2>6. ASSUME NEW i \in 1..Len(announced'), NEW j \in 1..Len(announced'),
               announced'[i] = announced'[j]
        PROVE  i = j
    <3>1. CASE i \in 1..Len(announced) /\ j \in 1..Len(announced)
      BY <2>4, <2>6, <3>1 DEF AnnouncedOnce
    <3>2. CASE i = Len(announced) + 1
      BY <2>3, <2>4, <2>5, <2>6, <3>2
    <3>3. CASE j = Len(announced) + 1
      BY <2>3, <2>4, <2>5, <2>6, <3>3
    <3> QED BY <2>3, <2>4, <3>1, <3>2, <3>3
  <2>7. \A i \in 1..Len(announced') : orders'[announced'[i]] # NoDocument
    BY <2>1, <2>2, <2>3, <2>4, <2>5 DEF Stored
  <2>8. ToSet(announced') = ToSet(announced) \cup {o}
    BY <2>1, <2>3, AppendHolds
  <2>9. Unannounced'
    <3> SUFFICES ASSUME NEW q \in Requests, create'[q] \in {"insert", "publish"}
                 PROVE  requestOrder[q] \notin ToSet(announced')
      BY <2>1 DEF Unannounced
    <3>1. q # r /\ create[q] \in {"insert", "publish"}
      BY <2>1 DEF TypeOK
    <3>2. requestOrder[q] # o
      BY <2>1, <3>1 DEF OwnIds, Owner
    <3> QED BY <2>8, <3>1, <3>2 DEF Unannounced
  <2> QED BY <2>6, <2>7, <2>9 DEF AnnouncedOnce, Stored
<1>7. ASSUME NEW r \in Requests, RefuseCreate(r) \/ InsertOrder(r) \/ CreateFault(r)
      PROVE  AnnouncedOnce' /\ Unannounced'
  BY <1>3, <1>4, <1>7 DEF RefuseCreate, InsertOrder, CreateFault, TypeOK
<1>8. CASE Restart
  BY <1>3, <1>4, <1>8 DEF Restart
<1>9. CASE UNCHANGED <<announced, create, requestOrder>>
  BY <1>3, <1>4, <1>9
<1> QED
  BY <1>5, <1>6, <1>7, <1>8, <1>9
     DEF Next, StrayInsertLands, StrayInsertIsLost, requestVars, vars

----------------------------------------------------------------------------
(* The inductive invariant and what follows from it *)

(* Uniqueness of keys in the store carries the agreement of the replies;
   uniqueness of the ids drawn carries that of the announcements. *)
IInv ==
    /\ TypeOK
    /\ UniqueKeys
    /\ RequestsAgree
    /\ OwnIds
    /\ AnnouncedOnce
    /\ Unannounced

LEMMA IInvInit == Init => IInv
<1> SUFFICES ASSUME Init PROVE IInv
  OBVIOUS
<1>1. TypeOK
  BY TypeInit
<1>2. \A o \in OrderIds : ~Stored(o)
  BY DEF Init, Stored
<1>3. Len(announced) = 0
  BY DEF Init
<1>4. \A r \in Requests : create[r] = "new"
  BY DEF Init
<1> QED
  BY <1>1, <1>2, <1>3, <1>4
     DEF IInv, UniqueKeys, RequestsAgree, OwnIds, Owner, AnnouncedOnce, Unannounced

LEMMA IInvNext == IInv /\ [Next]_vars => IInv'
<1> SUFFICES ASSUME IInv, [Next]_vars PROVE IInv'
  OBVIOUS
<1>1. TypeOK'
  BY TypeNext DEF IInv
<1>2. OrdersStep
  BY StepOnOrders DEF IInv
<1>3. UniqueKeys'
  BY <1>2, UniqueKeysStep DEF IInv
<1>4. RequestsAgree'
  BY <1>1, <1>2, RequestsAgreeStep DEF IInv
<1>5. OwnIds'
  BY OwnIdsStep DEF IInv
<1>6. AnnouncedOnce' /\ Unannounced'
  BY <1>1, <1>2, AnnouncedStep DEF IInv
<1> QED BY <1>1, <1>3, <1>4, <1>5, <1>6 DEF IInv

LEMMA IInvariant == Spec => []IInv
BY IInvInit, IInvNext, PTL DEF Spec

(* The order a request holds once it is stored is the one of its key. *)
LEMMA HeldOrder ==
    ASSUME IInv, NEW r \in Requests, create[r] \in {"publish", "200", "201"}
    PROVE  /\ requestOrder[r] \in OrderIds
           /\ Stored(requestOrder[r])
           /\ orders[requestOrder[r]].requestId = requestKey[r]
           /\ orders[requestOrder[r]].payloadHash = HashPayload(requestBody[r])
BY DEF IInv, RequestsAgree, Agrees, TypeOK, Holding

(* However many requests race for a key, and whatever fails or lands late, all
   that get an order for it get the same one, and at most one created it. *)
THEOREM KeyNamesOneOrder == Spec => []OneOrderPerKey
<1>1. IInv => OneOrderPerKey
  <2> SUFFICES ASSUME IInv, NEW q \in Requests, NEW r \in Requests,
                      create[q] \in {"200", "201", "publish"},
                      create[r] \in {"200", "201", "publish"},
                      requestKey[q] = requestKey[r]
               PROVE  /\ requestOrder[q] = requestOrder[r]
                      /\ create[q] # "200" /\ create[r] # "200" => q = r
    BY DEF OneOrderPerKey
  <2>1. requestOrder[q] = requestOrder[r]
    BY HeldOrder DEF IInv, UniqueKeys
  <2>2. create[q] # "200" /\ create[r] # "200" => q = r
    BY <2>1 DEF IInv, OwnIds, Owner
  <2> QED BY <2>1, <2>2
<1> QED BY <1>1, IInvariant, PTL

(* The hash tells two bodies apart exactly when they are different requests. *)
LEMMA HashTellsBodiesApart ==
    ASSUME NEW p \in Payloads, NEW q \in Payloads
    PROVE  HashPayload(p) = HashPayload(q) <=> SameBody(p, q)
BY DEF HashPayload, SameBody

(* Replays of a key get its order exactly when they carry its body. *)
THEOREM ConflictIffOtherBody == Spec => []ConflictExactlyOnMismatch
<1>1. IInv => ConflictExactlyOnMismatch
  <2> SUFFICES ASSUME IInv, NEW q \in Requests, NEW r \in Requests,
                      Answered(q), requestKey[q] = requestKey[r]
               PROVE  /\ Answered(r) => SameBody(requestBody[q], requestBody[r])
                      /\ create[r] = "mismatch"
                            => ~SameBody(requestBody[q], requestBody[r])
    BY DEF ConflictExactlyOnMismatch
  <2>1. requestBody[q] \in Payloads
    BY DEF IInv, TypeOK, Answered, Holding
  <2>2. ASSUME Answered(r)
        PROVE  SameBody(requestBody[q], requestBody[r])
    <3>1. requestBody[r] \in Payloads
      BY <2>2 DEF IInv, TypeOK, Answered, Holding
    <3>2. requestOrder[q] = requestOrder[r]
      BY <2>2, HeldOrder DEF IInv, UniqueKeys, Answered
    <3>3. HashPayload(requestBody[q]) = HashPayload(requestBody[r])
      BY <2>2, <3>2, HeldOrder DEF Answered
    <3> QED BY <2>1, <3>1, <3>3, HashTellsBodiesApart
  <2>3. ASSUME create[r] = "mismatch"
        PROVE  ~SameBody(requestBody[q], requestBody[r])
    <3>1. Conflicts(r)
      BY <2>3 DEF IInv, RequestsAgree
    <3>2. PICK o \in OrderIds : /\ Stored(o) /\ orders[o].requestId = requestKey[r]
                                /\ orders[o].payloadHash # HashPayload(requestBody[r])
      BY <3>1 DEF Conflicts
    <3>3. o = requestOrder[q]
      BY <3>2, HeldOrder DEF IInv, UniqueKeys, Answered
    <3>4. HashPayload(requestBody[q]) # HashPayload(requestBody[r])
      BY <3>2, <3>3, HeldOrder DEF Answered
    <3> QED BY <2>1, <3>1, <3>4, HashTellsBodiesApart DEF Conflicts
  <2> QED BY <2>2, <2>3
<1> QED BY <1>1, IInvariant, PTL

(* No order is ever announced twice, or before it is stored. *)
THEOREM OrdersAreAnnouncedOnce == Spec => []AnnouncedOnce
<1>1. IInv => AnnouncedOnce
  BY DEF IInv
<1> QED BY <1>1, IInvariant, PTL

----------------------------------------------------------------------------
(* What only faults do *)

(* The requests that stored an order of their own. *)
Creator(r) == create[r] \in {"publish", "201"}

(* A 201 and the event of its order come together, whatever fails. *)
AnnouncedIffCreated ==
    \A o \in OrderIds :
        o \in ToSet(announced) <=>
            \E r \in Requests : create[r] = "201" /\ requestOrder[r] = o

(* As long as nothing fails, the request that stored an order is there to
   announce it, or has announced it: what liveness comes down to. *)
StoredHasCreator ==
    faults = 0 =>
        /\ strayInserts = {}
        /\ \A o \in OrderIds :
              Stored(o) => \E r \in Requests : Creator(r) /\ requestOrder[r] = o

(* As long as nothing fails, a 500 is the answer to a request that lost the race
   for its key: another one has created the order. *)
ErrorOnlyInRace ==
    \A r \in Requests :
        create[r] = "500" =>
            \/ faults > 0
            \/ \E q \in Requests \ {r} : Creator(q) /\ requestKey[q] = requestKey[r]

FInv == AnnouncedIffCreated /\ StoredHasCreator /\ ErrorOnlyInRace

(* The state of a creator as long as nothing fails is for good. *)
LEMMA CreatorsStay ==
    ASSUME IInv, [Next]_vars, faults' = 0, NEW r \in Requests, Creator(r)
    PROVE  /\ faults = 0
           /\ Creator(r)' /\ requestOrder'[r] = requestOrder[r]
           /\ requestKey'[r] = requestKey[r]
<1> USE DEF Creator
<1>1. TypeOK /\ faults \in Nat
  BY MaxFaultsAssumption DEF IInv, TypeOK
<1>2. ASSUME NEW q \in Requests, NEW key \in RequestIds, NEW p \in Payloads,
             LookupKey(q, key, p)
      PROVE  /\ q # r /\ faults = 0 /\ create'[r] = create[r]
             /\ requestOrder'[r] = requestOrder[r] /\ requestKey'[r] = requestKey[r]
  BY <1>1, <1>2 DEF LookupKey, ReplayOrConflict, BuildOrder, TypeOK
<1>3. ASSUME NEW q \in Requests, RefuseCreate(q) \/ InsertOrder(q) \/ PublishOrder(q)
      PROVE  /\ faults = 0 /\ Creator(r)' /\ requestOrder'[r] = requestOrder[r]
             /\ requestKey'[r] = requestKey[r]
  BY <1>1, <1>3 DEF RefuseCreate, InsertOrder, PublishOrder, TypeOK
<1>4. ~Restart /\ \A q \in Requests : ~CreateFault(q)
  BY <1>1 DEF Restart, CreateFault, CountFault
<1> QED
  BY <1>1, <1>2, <1>3, <1>4
     DEF Next, StrayInsertLands, StrayInsertIsLost, requestVars, vars

LEMMA AnnouncedIffCreatedNext ==
    ASSUME IInv, AnnouncedIffCreated, [Next]_vars
    PROVE  AnnouncedIffCreated'
<1>1. TypeOK
  BY DEF IInv
<1>2. ASSUME announced' = announced,
             \A r \in Requests :
                /\ create'[r] = "201" <=> create[r] = "201"
                /\ create[r] = "201" => requestOrder'[r] = requestOrder[r]
      PROVE  AnnouncedIffCreated'
  BY <1>2 DEF AnnouncedIffCreated
<1>3. ASSUME NEW r \in Requests, PublishOrder(r)
      PROVE  AnnouncedIffCreated'
  <2>1. ToSet(announced') = ToSet(announced) \cup {requestOrder[r]}
    <3>1. requestOrder[r] \in OrderIds /\ announced \in Seq(OrderIds)
      BY <1>1, <1>3 DEF PublishOrder, TypeOK, Holding
    <3> QED BY <1>3, <3>1, AppendHolds DEF PublishOrder
  <2>2. /\ create'[r] = "201" /\ UNCHANGED requestOrder
        /\ \A q \in Requests \ {r} : create'[q] = create[q]
        /\ create[r] = "publish"
    BY <1>1, <1>3 DEF PublishOrder, TypeOK
  <2> QED BY <2>1, <2>2 DEF AnnouncedIffCreated
<1>4. ASSUME NEW r \in Requests, NEW key \in RequestIds, NEW p \in Payloads,
             LookupKey(r, key, p)
      PROVE  AnnouncedIffCreated'
  BY <1>1, <1>2, <1>4 DEF LookupKey, ReplayOrConflict, BuildOrder, TypeOK
<1>5. ASSUME NEW r \in Requests, RefuseCreate(r) \/ InsertOrder(r) \/ CreateFault(r)
      PROVE  AnnouncedIffCreated'
  BY <1>1, <1>2, <1>5 DEF RefuseCreate, InsertOrder, CreateFault, TypeOK
<1>6. CASE Restart
  BY <1>1, <1>2, <1>6 DEF Restart, TypeOK
<1> QED
  BY <1>2, <1>3, <1>4, <1>5, <1>6
     DEF Next, StrayInsertLands, StrayInsertIsLost, requestVars, vars

LEMMA StoredHasCreatorNext ==
    ASSUME IInv, StoredHasCreator, [Next]_vars
    PROVE  StoredHasCreator'
<1> SUFFICES ASSUME faults' = 0
             PROVE  /\ strayInserts' = {}
                    /\ \A o \in OrderIds :
                          Stored(o)' => \E r \in Requests : Creator(r)' /\ requestOrder'[r] = o
  BY DEF StoredHasCreator
<1>1. TypeOK /\ faults \in Nat
  BY MaxFaultsAssumption DEF IInv, TypeOK
<1>2. ~Restart /\ \A q \in Requests : ~CreateFault(q)
  BY <1>1 DEF Restart, CreateFault, CountFault
<1>3. faults = 0 /\ strayInserts = {}
  BY <1>1, <1>2
     DEF StoredHasCreator, Next, RefuseCreate, LookupKey, InsertOrder, PublishOrder,
         StrayInsertLands, StrayInsertIsLost, vars
<1>4. strayInserts' = {}
  BY <1>2, <1>3
     DEF Next, RefuseCreate, LookupKey, InsertOrder, PublishOrder, vars
<1>5. ASSUME NEW o \in OrderIds, Stored(o)'
      PROVE  \E r \in Requests : Creator(r)' /\ requestOrder'[r] = o
  <2>1. CASE Stored(o)
    BY <1>3, <2>1, CreatorsStay DEF StoredHasCreator
  <2>2. CASE ~Stored(o)
    <3>1. orders' # orders
      BY <1>5, <2>2 DEF Stored
    <3>2. PICK r \in Requests : InsertOrder(r)
      BY <1>2, <1>3, <3>1 DEF Next, RefuseCreate, LookupKey, PublishOrder, vars
    <3>3. /\ requestOrder[r] \in OrderIds /\ DocumentOf(r) \in OrderDocument
          /\ InsertOne(requestOrder[r], DocumentOf(r))
          /\ create'[r] = "publish" /\ UNCHANGED requestOrder
      BY <1>1, <3>1, <3>2, DocumentTyped DEF InsertOrder, Holding, TypeOK
    <3>4. o = requestOrder[r]
      BY <1>1, <1>5, <2>2, <3>3, InsertedTyped DEF Stored, TypeOK
    <3> QED BY <3>3, <3>4 DEF Creator
  <2> QED BY <2>1, <2>2
<1> QED BY <1>4, <1>5

LEMMA ErrorOnlyInRaceNext ==
    ASSUME IInv, StoredHasCreator, ErrorOnlyInRace, [Next]_vars
    PROVE  ErrorOnlyInRace'
<1> SUFFICES ASSUME NEW r \in Requests, create'[r] = "500", ~(faults' > 0)
             PROVE  \E q \in Requests \ {r} : Creator(q)' /\ requestKey'[q] = requestKey'[r]
  BY DEF ErrorOnlyInRace
<1>1. TypeOK /\ faults \in Nat /\ faults' = 0
  <2>1. TypeOK /\ TypeOK'
    BY TypeNext DEF IInv
  <2> QED BY <2>1, MaxFaultsAssumption DEF TypeOK
<1>2. ~Restart /\ \A q \in Requests : ~CreateFault(q)
  BY <1>1 DEF Restart, CreateFault, CountFault
<1>3. faults = 0
  BY <1>1, <1>2
     DEF Next, RefuseCreate, LookupKey, InsertOrder, PublishOrder,
         StrayInsertLands, StrayInsertIsLost, vars
<1>4. ASSUME NEW q \in Requests \ {r}, Creator(q), requestKey[q] = requestKey[r],
             requestKey'[r] = requestKey[r]
      PROVE  Creator(q)' /\ requestKey'[q] = requestKey'[r]
  BY <1>1, <1>4, CreatorsStay
<1>5. CASE create[r] = "500"
  <2>1. requestKey'[r] = requestKey[r]
    BY <1>1, <1>2, <1>5
       DEF Next, RefuseCreate, LookupKey, InsertOrder, PublishOrder,
           StrayInsertLands, StrayInsertIsLost, requestVars, vars, TypeOK
  <2> QED BY <1>3, <1>4, <1>5, <2>1 DEF ErrorOnlyInRace
<1>6. CASE create[r] # "500"
  <2>1. InsertOrder(r)
    BY <1>1, <1>2, <1>6
       DEF Next, RefuseCreate, LookupKey, ReplayOrConflict, BuildOrder, InsertOrder,
           PublishOrder, StrayInsertLands, StrayInsertIsLost, requestVars, vars, TypeOK
  <2>2. /\ create[r] = "insert" /\ UNCHANGED requestKey
        /\ ~UniqueIndexesAccept(requestOrder[r], DocumentOf(r))
    BY <1>1, <2>1 DEF InsertOrder, TypeOK
  <2>3. /\ requestOrder[r] \in OrderIds
        /\ DocumentOf(r).requestId = requestKey[r]
    BY <1>1, <2>2, DocumentTyped DEF Holding
  <2>4. ~Stored(requestOrder[r])
    BY <1>3, <2>2, <2>3 DEF StoredHasCreator, Creator, IInv, OwnIds, Owner
  <2>5. PICK o \in OrderIds : Stored(o) /\ orders[o].requestId = requestKey[r]
    BY <2>2, <2>3, <2>4 DEF UniqueIndexesAccept, FindByRequestId
  <2>6. PICK q \in Requests : Creator(q) /\ requestOrder[q] = o
    BY <1>3, <2>5 DEF StoredHasCreator
  <2>7. requestKey[q] = requestKey[r] /\ q # r
    BY <2>2, <2>5, <2>6, HeldOrder DEF Creator
  <2> QED BY <1>4, <2>2, <2>6, <2>7
<1> QED BY <1>5, <1>6

LEMMA FInvInit == Init => FInv
<1> SUFFICES ASSUME Init PROVE FInv
  OBVIOUS
<1>1. ToSet(announced) = {}
  BY DEF Init, ToSet
<1> QED
  BY <1>1 DEF Init, FInv, AnnouncedIffCreated, StoredHasCreator, ErrorOnlyInRace, Stored

LEMMA FInvariant == Spec => []FInv
<1>1. IInv /\ FInv /\ [Next]_vars => FInv'
  BY AnnouncedIffCreatedNext, StoredHasCreatorNext, ErrorOnlyInRaceNext DEF FInv
<1> QED BY <1>1, FInvInit, IInvariant, PTL DEF Spec

(* createOrder answers 201 exactly for the orders it has published: a retried,
   refused or failed request never announces one, and no announced order is
   without the client that was told of it. *)
THEOREM CreatedMeansAnnounced == Spec => []AnnouncedIffCreated
BY FInvariant, PTL DEF FInv

(* A stored order is left without an event by a fault only: before the first
   one it has been announced, or the request that stored it is about to. *)
StrandedOnlyByFault ==
    faults = 0 =>
        \A o \in OrderIds :
            Stored(o) => \/ o \in ToSet(announced)
                         \/ \E r \in Requests : create[r] = "publish" /\ requestOrder[r] = o

(* Between the insert and the publish of createOrder nothing but a fault can
   separate an order from its event. *)
THEOREM OrdersAreStrandedOnlyByFaults == Spec => []StrandedOnlyByFault
<1>1. FInv => StrandedOnlyByFault
  BY DEF FInv, AnnouncedIffCreated, StoredHasCreator, StrandedOnlyByFault, Creator
<1> QED BY <1>1, FInvariant, PTL

(* The 500 that a client gets for a key used twice at once is the only one there
   is without a fault: its order exists, made by the request that won. *)
THEOREM ErrorsAreLostRaces == Spec => []ErrorOnlyInRace
BY FInvariant, PTL DEF FInv

----------------------------------------------------------------------------
(* What a lost event leaves behind *)

(* The requests that ended without learning what became of their order. *)
Failed(r) == create[r] \in {"500", "dropped"}

(* An order without an event is either about to be published or has, among the
   requests of its key, one that failed. *)
StrandedIsUnanswered ==
    \A o \in OrderIds :
        Stored(o) /\ o \notin ToSet(announced) =>
            \/ \E r \in Requests : create[r] = "publish" /\ requestOrder[r] = o
            \/ \E r \in Requests : Failed(r) /\ requestKey[r] = orders[o].requestId

(* The same of the orders that a late insert may still store. *)
StraysOfFailed ==
    \A w \in strayInserts :
        \E r \in Requests : Failed(r) /\ requestKey[r] = w.doc.requestId

SInv == StrandedIsUnanswered /\ StraysOfFailed

LEMMA FailedStays ==
    ASSUME TypeOK, [Next]_vars, NEW r \in Requests, Failed(r)
    PROVE  Failed(r)' /\ requestKey'[r] = requestKey[r]
<1>1. ASSUME NEW q \in Requests, NEW key \in RequestIds, NEW p \in Payloads,
             LookupKey(q, key, p)
      PROVE  q # r /\ create'[r] = create[r] /\ requestKey'[r] = requestKey[r]
  BY <1>1 DEF LookupKey, ReplayOrConflict, BuildOrder, TypeOK, Failed
<1>2. ASSUME NEW q \in Requests,
             RefuseCreate(q) \/ InsertOrder(q) \/ PublishOrder(q) \/ CreateFault(q)
      PROVE  q # r /\ create'[r] = create[r] /\ requestKey'[r] = requestKey[r]
  BY <1>2 DEF RefuseCreate, InsertOrder, PublishOrder, CreateFault, TypeOK, Failed
<1> QED
  BY <1>1, <1>2
     DEF Next, Restart, StrayInsertLands, StrayInsertIsLost, requestVars, vars, Failed

(* An insert becomes a stray one in the step that fails its request. *)
LEMMA StraysOfFailedNext ==
    ASSUME TypeOK, StraysOfFailed, [Next]_vars
    PROVE  StraysOfFailed'
<1> SUFFICES ASSUME NEW w \in strayInserts'
             PROVE  \E r \in Requests : Failed(r)' /\ requestKey'[r] = w.doc.requestId
  BY DEF StraysOfFailed
<1>1. CASE w \in strayInserts
  BY <1>1, FailedStays DEF StraysOfFailed
<1>2. CASE w \notin strayInserts
  <2>1. PICK r \in Requests :
            /\ create[r] = "insert" /\ w = InsertOf(r)
            /\ Failed(r)' /\ requestKey'[r] = requestKey[r]
    <3>1. ASSUME NEW r \in Requests, CreateFault(r)
          PROVE  create[r] = "insert" /\ w = InsertOf(r) /\ Failed(r)' /\ UNCHANGED requestKey
      BY <1>2, <3>1 DEF CreateFault, Failed, TypeOK
    <3>2. ASSUME Restart
          PROVE  \E r \in Requests : /\ create[r] = "insert" /\ w = InsertOf(r)
                                     /\ Failed(r)' /\ UNCHANGED requestKey
      BY <1>2, <3>2 DEF Restart, Failed
    <3> QED
      BY <1>2, <3>1, <3>2
         DEF Next, RefuseCreate, LookupKey, InsertOrder, PublishOrder,
             StrayInsertLands, StrayInsertIsLost, vars
  <2>2. DocumentOf(r).requestId = requestKey[r]
    BY <2>1, DocumentTyped DEF Holding
  <2> QED BY <2>1, <2>2 DEF InsertOf
<1> QED BY <1>1, <1>2

LEMMA StrandedIsUnansweredNext ==
    ASSUME IInv, IInv', SInv, [Next]_vars
    PROVE  StrandedIsUnanswered'
<1> SUFFICES ASSUME NEW o \in OrderIds, Stored(o)', o \notin ToSet(announced')
             PROVE  \/ \E r \in Requests : create'[r] = "publish" /\ requestOrder'[r] = o
                    \/ \E r \in Requests :
                          Failed(r)' /\ requestKey'[r] = orders'[o].requestId
  BY DEF StrandedIsUnanswered
<1>1. TypeOK /\ OrdersStep
  BY StepOnOrders DEF IInv
<1>2. CASE Stored(o)
  <2>1. orders'[o] = orders[o]
    BY <1>1, <1>2, StoredStays
  <2>2. o \notin ToSet(announced)
    <3>1. ASSUME NEW r \in Requests, PublishOrder(r)
          PROVE  ToSet(announced) \subseteq ToSet(announced')
      <4>1. requestOrder[r] \in OrderIds /\ announced \in Seq(OrderIds)
        BY <1>1, <3>1 DEF PublishOrder, TypeOK, Holding
      <4> QED BY <3>1, <4>1, AppendHolds DEF PublishOrder
    <3>2. \/ announced' = announced
          \/ \E r \in Requests : PublishOrder(r)
      BY DEF Next, RefuseCreate, LookupKey, InsertOrder, CreateFault,
             StrayInsertLands, StrayInsertIsLost, Restart, vars
    <3> QED BY <3>1, <3>2
  <2>3. CASE \E r \in Requests : Failed(r) /\ requestKey[r] = orders[o].requestId
    BY <1>1, <2>1, <2>3, FailedStays
  <2>4. ASSUME NEW r \in Requests, create[r] = "publish", requestOrder[r] = o
        PROVE  \/ create'[r] = "publish" /\ requestOrder'[r] = o
               \/ Failed(r)' /\ requestKey'[r] = orders'[o].requestId
    <3>1. orders'[o].requestId = requestKey[r]
      BY <2>1, <2>4, HeldOrder
    <3>2. ~PublishOrder(r)
      <4>1. ASSUME PublishOrder(r) PROVE o \in ToSet(announced')
        <5>1. announced \in Seq(OrderIds) /\ announced' = Append(announced, o)
          BY <1>1, <2>4, <4>1 DEF PublishOrder, TypeOK
        <5> QED BY <5>1, AppendHolds
      <4> QED BY <4>1
    <3>3. ASSUME NEW q \in Requests, NEW key \in RequestIds, NEW p \in Payloads,
                 LookupKey(q, key, p)
          PROVE  create'[r] = create[r] /\ requestOrder'[r] = requestOrder[r]
      BY <1>1, <2>4, <3>3 DEF LookupKey, ReplayOrConflict, BuildOrder, TypeOK
    <3>4. ASSUME NEW q \in Requests,
                 \/ RefuseCreate(q) \/ InsertOrder(q) \/ CreateFault(q)
                 \/ PublishOrder(q) /\ q # r
          PROVE  create'[r] = create[r] /\ requestOrder'[r] = requestOrder[r]
      BY <1>1, <2>4, <3>4
         DEF RefuseCreate, InsertOrder, PublishOrder, CreateFault, TypeOK
    <3>5. CASE Restart
      BY <2>4, <3>1, <3>5 DEF Restart, Failed
    <3> QED
      BY <2>4, <3>2, <3>3, <3>4, <3>5
         DEF Next, StrayInsertLands, StrayInsertIsLost, requestVars, vars
  <2> QED BY <1>2, <2>2, <2>3, <2>4 DEF SInv, StrandedIsUnanswered
<1>3. CASE ~Stored(o)
  <2>1. orders' # orders
    BY <1>3 DEF Stored
  <2>2. ASSUME NEW r \in Requests, InsertOrder(r)
        PROVE  create'[r] = "publish" /\ requestOrder'[r] = o
    <3>1. /\ requestOrder[r] \in OrderIds /\ DocumentOf(r) \in OrderDocument
          /\ InsertOne(requestOrder[r], DocumentOf(r))
          /\ create'[r] = "publish" /\ UNCHANGED requestOrder
      BY <1>1, <2>1, <2>2, DocumentTyped DEF InsertOrder, Holding, TypeOK
    <3>2. o = requestOrder[r]
      BY <1>1, <1>3, <3>1, InsertedTyped DEF Stored, TypeOK
    <3> QED BY <3>1, <3>2
  <2>3. ASSUME NEW w \in strayInserts, StrayInsertLands(w)
        PROVE  \E r \in Requests : Failed(r)' /\ requestKey'[r] = orders'[o].requestId
    <3>1. w.order \in OrderIds /\ w.doc \in OrderDocument
      BY <1>1 DEF TypeOK, Insert
    <3>2. InsertOne(w.order, w.doc)
      BY <2>1, <2>3 DEF StrayInsertLands
    <3>3. orders'[o] = w.doc
      BY <1>1, <1>3, <3>1, <3>2, InsertedTyped DEF Stored, TypeOK
    <3> QED BY <1>1, <3>3, FailedStays DEF SInv, StraysOfFailed
  <2> QED
    BY <2>1, <2>2, <2>3
       DEF Next, RefuseCreate, LookupKey, PublishOrder, CreateFault,
           StrayInsertIsLost, Restart, vars
<1> QED BY <1>2, <1>3

LEMMA SInvariant == Spec => []SInv
<1>1. Init => SInv
  BY DEF Init, SInv, StrandedIsUnanswered, StraysOfFailed, Stored
<1>2. IInv /\ IInv' /\ SInv /\ [Next]_vars => SInv'
  BY StrandedIsUnansweredNext, StraysOfFailedNext DEF SInv, IInv
<1> QED BY <1>1, <1>2, IInvariant, PTL DEF Spec

(* No order is stranded behind a client's back: as long as no request of a key
   fails, whatever faults other keys meet, its order has its event or is about
   to.  A fault between insert and publish, or a late insert, always leaves a
   request of the same key with a 500 or no answer. *)
THEOREM StrandedOrdersHaveFailedRequest == Spec => []StrandedIsUnanswered
BY SInvariant, PTL DEF SInv

----------------------------------------------------------------------------
(* The abstract key register is implemented *)

LEMMA KeysSimulation ==
    ASSUME TypeOK, OrdersStep
    PROVE  [Abstract!Next]_([key \in RequestIds |-> Bound(key)])
<1> DEFINE B == [key \in RequestIds |-> Bound(key)]
<1>1. CASE UNCHANGED orders
  <2>1. \A key \in RequestIds : Bound(key)' = Bound(key)
    BY <1>1 DEF Bound, FindByRequestId, Stored
  <2> QED BY <2>1
<1>2. ASSUME NEW o \in OrderIds, NEW doc \in OrderDocument,
             UniqueIndexesAccept(o, doc), InsertOne(o, doc)
      PROVE  Abstract!Next
  <2> DEFINE key == doc.requestId
             binding == [order |-> o, hash |-> doc.payloadHash]
  <2>1. key \in RequestIds /\ doc.payloadHash \in PayloadHashes /\ doc # NoDocument
    BY NoDocumentAssumption DEF OrderDocument
  <2>2. /\ orders'[o] = doc
        /\ \A p \in OrderIds \ {o} : orders'[p] = orders[p]
    BY <1>2, InsertedTyped DEF TypeOK
  <2>3. ~Stored(o) /\ FindByRequestId(key) = {}
    BY <1>2 DEF UniqueIndexesAccept
  <2>4. Bound(key) = {}
    BY <2>3 DEF Bound
  <2>5. \A k \in RequestIds : \A b \in Bound(k) : b.order # o
    BY <2>3 DEF Bound, FindByRequestId
  <2>6. FindByRequestId(key)' = {o}
    BY <2>1, <2>2, <2>3 DEF FindByRequestId, Stored
  <2>7. Bound(key)' = {binding}
    BY <2>2, <2>6 DEF Bound
  <2>8. \A k \in RequestIds \ {key} : Bound(k)' = Bound(k)
    <3> SUFFICES ASSUME NEW k \in RequestIds \ {key} PROVE Bound(k)' = Bound(k)
      OBVIOUS
    <3>1. FindByRequestId(k)' = FindByRequestId(k)
      BY <2>2, <2>3 DEF FindByRequestId, Stored
    <3>2. \A p \in FindByRequestId(k) : orders'[p] = orders[p]
      BY <2>2, <2>3 DEF FindByRequestId
    <3> QED BY <3>1, <3>2 DEF Bound
  <2> HIDE DEF key, binding
  <2>9. B' = [B EXCEPT ![key] = {binding}]
    BY <2>1, <2>7, <2>8
  <2>10. Abstract!Unclaimed(o)
    BY <2>5 DEF Abstract!Unclaimed
  <2>11. Abstract!Bind(key, o, doc.payloadHash)
    BY <2>1, <2>4, <2>9, <2>10 DEF Abstract!Bind, binding
  <2> QED BY <2>1, <2>11 DEF Abstract!Next
<1> QED BY <1>1, <1>2 DEF OrdersStep

LEMMA KeysInitially == Init => Abstract!Init
BY DEF Init, Abstract!Init, Bound, FindByRequestId, Stored

(* Whatever requests, faults and late inserts do, the collection behaves as a
   write-once register for every key. *)
THEOREM KeysImplemented == Spec => ImplementsIdempotencyKeys
<1>1. IInv /\ [Next]_vars => [Abstract!Next]_([key \in RequestIds |-> Bound(key)])
  BY StepOnOrders, KeysSimulation DEF IInv
<1> QED
  BY <1>1, IInvariant, KeysInitially, PTL DEF Spec, ImplementsIdempotencyKeys, Abstract!Spec
============================================================================
