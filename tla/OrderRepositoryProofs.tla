----------------------- MODULE OrderRepositoryProofs -----------------------
(***************************************************************************)
(* Lemmas the proofs of the parts share: about the documents of               *)
(* OrderRepository and its commands, and about a queue kept as a sequence,   *)
(* what it holds after an Append and after a Tail, and how often.            *)
(***************************************************************************)
EXTENDS OrderRepository, SequencesExt, FiniteSetTheorems, TLAPS

(* Appending an event to a document yields a document. *)
LEMMA AppendedDocument ==
    ASSUME NEW o \in OrderIds, NEW event \in StatusEvent,
           orders \in Collection, Stored(o), AppendStatusEvent(o, event)
    PROVE  /\ orders' \in Collection
           /\ orders'[o] \in OrderDocument
           /\ orders'[o].status = event.status
           /\ orders'[o].statusHistory = Append(orders[o].statusHistory, event)
           /\ orders'[o].version = orders[o].version + 1
           /\ orders'[o].requestId = orders[o].requestId
           /\ orders'[o].payloadHash = orders[o].payloadHash
           /\ \A p \in OrderIds \ {o} : orders'[p] = orders[p]
<1> DEFINE doc == orders[o]
           new == Appended(doc, event)
<1>1. doc \in OrderDocument
  BY DEF Stored, Collection
<1>2. orders' = [orders EXCEPT ![o] = new]
  BY DEF AppendStatusEvent
<1>3. event.status \in OrderStatus
  BY DEF StatusEvent
<1>4. Append(doc.statusHistory, event) \in Seq(StatusEvent)
  BY <1>1 DEF OrderDocument
<1>5. doc.version + 1 \in Nat
  BY <1>1 DEF OrderDocument
<1>6. /\ new \in OrderDocument
      /\ new.status = event.status
      /\ new.statusHistory = Append(doc.statusHistory, event)
      /\ new.version = doc.version + 1
      /\ new.requestId = doc.requestId
      /\ new.payloadHash = doc.payloadHash
  BY <1>1, <1>3, <1>4, <1>5 DEF OrderDocument, Appended
<1> HIDE DEF new
<1>7. orders'[o] = new /\ \A p \in OrderIds \ {o} : orders'[p] = orders[p]
  BY <1>2 DEF Collection
<1>8. orders' \in Collection
  BY <1>2, <1>6 DEF Collection
<1> QED BY <1>6, <1>7, <1>8

(* The document createOrder builds is a document of the collection. *)
LEMMA NewDocument ==
    ASSUME NEW key \in RequestIds, NEW hash \in PayloadHashes
    PROVE  /\ NewOrder(key, hash) \in OrderDocument
           /\ NewOrder(key, hash).requestId = key
           /\ NewOrder(key, hash).payloadHash = hash
           /\ NewOrder(key, hash).version = 1
           /\ NewOrder(key, hash).status = "PENDING_SHIPMENT"
           /\ Len(NewOrder(key, hash).statusHistory) = 1
           /\ NewOrder(key, hash).statusHistory[1].status = "PENDING_SHIPMENT"
<1> DEFINE h == << [eventId |-> CreatedEventId(key), status |-> "PENDING_SHIPMENT"] >>
<1>1. h \in Seq(StatusEvent) /\ Len(h) = 1 /\ h[1].status = "PENDING_SHIPMENT"
  BY CreatedEventIdAssumption DEF StatusEvent, OrderStatus
<1> HIDE DEF h
<1>2. NewOrder(key, hash) =
        [requestId |-> key, payloadHash |-> hash, status |-> "PENDING_SHIPMENT",
         version |-> 1, statusHistory |-> h, shipment |-> NoShipment]
  BY DEF NewOrder, h
<1> QED BY <1>1, <1>2 DEF OrderDocument, OrderStatus

----------------------------------------------------------------------------
(* Queues *)

LEMMA AppendHolds ==
    ASSUME NEW S, NEW q \in Seq(S), NEW e \in S
    PROVE  /\ Append(q, e) \in Seq(S)
           /\ ToSet(Append(q, e)) = ToSet(q) \cup {e}
<1> DEFINE a == Append(q, e)
<1>1. a \in Seq(S) /\ Len(a) = Len(q) + 1 /\ Len(q) \in Nat
  OBVIOUS
<1>2. /\ \A i \in 1..Len(q) : a[i] = q[i]
      /\ a[Len(q) + 1] = e
  OBVIOUS
<1>3. DOMAIN a = 1..Len(q) + 1 /\ DOMAIN q = 1..Len(q)
  BY <1>1
<1> HIDE DEF a
<1>4. ASSUME NEW i \in DOMAIN a PROVE a[i] \in ToSet(q) \cup {e}
  <2>1. CASE i = Len(q) + 1 BY <2>1, <1>2
  <2>2. CASE i # Len(q) + 1 BY <2>2, <1>1, <1>2, <1>3 DEF ToSet
  <2> QED BY <2>1, <2>2
<1>5. ToSet(a) \subseteq ToSet(q) \cup {e}
  BY <1>4 DEF ToSet
<1>6. ASSUME NEW i \in DOMAIN q PROVE q[i] \in ToSet(a)
  BY <1>1, <1>2, <1>3 DEF ToSet
<1>7. e \in ToSet(a)
  BY <1>1, <1>2, <1>3 DEF ToSet
<1>8. ToSet(q) \cup {e} \subseteq ToSet(a)
  BY <1>6, <1>7 DEF ToSet
<1> QED BY <1>1, <1>5, <1>8 DEF a

LEMMA HeadTailHold ==
    ASSUME NEW S, NEW q \in Seq(S), q # << >>
    PROVE  /\ Head(q) \in S
           /\ Tail(q) \in Seq(S)
           /\ ToSet(q) = {Head(q)} \cup ToSet(Tail(q))
<1> DEFINE t == Tail(q)
<1>1. Len(q) \in Nat /\ Len(q) > 0 /\ t \in Seq(S) /\ Len(t) = Len(q) - 1
  OBVIOUS
<1>2. Head(q) = q[1] /\ \A i \in 1..Len(t) : t[i] = q[i + 1]
  BY <1>1
<1>3. DOMAIN q = 1..Len(q) /\ DOMAIN t = 1..Len(t)
  BY <1>1
<1> HIDE DEF t
<1>4. ASSUME NEW i \in DOMAIN q PROVE q[i] \in {Head(q)} \cup ToSet(t)
  <2>1. CASE i = 1 BY <2>1, <1>2
  <2>2. CASE i # 1
    <3>1. i - 1 \in 1..Len(t) BY <2>2, <1>1, <1>3
    <3>2. t[i - 1] = q[i] BY <3>1, <1>2, <1>3
    <3> QED BY <3>1, <3>2, <1>3 DEF ToSet
  <2> QED BY <2>1, <2>2
<1>5. ASSUME NEW i \in DOMAIN t PROVE t[i] \in ToSet(q)
  BY <1>1, <1>2, <1>3 DEF ToSet
<1>6. Head(q) \in ToSet(q)
  BY <1>1, <1>2, <1>3 DEF ToSet
<1>7. ToSet(q) = {Head(q)} \cup ToSet(t)
  BY <1>4, <1>5, <1>6 DEF ToSet
<1>8. Head(q) \in S
  BY <1>1, <1>2, <1>3
<1> QED BY <1>1, <1>7, <1>8 DEF t

LEMMA ToSetElements ==
    ASSUME NEW S, NEW q \in Seq(S)
    PROVE  ToSet(q) \subseteq S
BY DEF ToSet

----------------------------------------------------------------------------
(* Counting *)

(* Where a queue holds m. *)
Places(q, m) == {i \in 1..Len(q) : q[i] = m}

(* One copy, if e is what is counted. *)
One(e, m) == IF e = m THEN 1 ELSE 0

LEMMA PlacesFinite ==
    ASSUME NEW S, NEW q \in Seq(S), NEW m
    PROVE  IsFiniteSet(Places(q, m)) /\ Cardinality(Places(q, m)) \in Nat
<1>1. IsFiniteSet(1..Len(q))
  BY FS_Interval
<1>2. Places(q, m) \in SUBSET (1..Len(q))
  BY DEF Places
<1> QED BY <1>1, <1>2, FS_Subset, FS_CardinalityType

(* An Append adds one copy of what is appended, and none of anything else. *)
LEMMA AppendCounts ==
    ASSUME NEW S, NEW q \in Seq(S), NEW e \in S, NEW m
    PROVE  Cardinality(Places(Append(q, e), m)) = Cardinality(Places(q, m)) + One(e, m)
<1> DEFINE a == Append(q, e)
<1>1. Len(q) \in Nat /\ Len(a) = Len(q) + 1
  OBVIOUS
<1>2. (\A i \in 1..Len(q) : a[i] = q[i]) /\ a[Len(q) + 1] = e
  OBVIOUS
<1> HIDE DEF a
<1>3. CASE e = m
  <2>1. Places(a, m) = Places(q, m) \cup {Len(q) + 1}
    BY <1>1, <1>2, <1>3 DEF Places
  <2>2. Len(q) + 1 \notin Places(q, m)
    BY <1>1 DEF Places
  <2> QED BY <1>3, <2>1, <2>2, PlacesFinite, FS_AddElement DEF One, a
<1>4. CASE e # m
  <2>1. Places(a, m) = Places(q, m)
    BY <1>1, <1>2, <1>4 DEF Places
  <2> QED BY <1>4, <2>1, PlacesFinite DEF One, a
<1> QED BY <1>3, <1>4

(* A Tail takes away one copy of the head, and none of anything else. *)
LEMMA TailCounts ==
    ASSUME NEW S, NEW q \in Seq(S), q # << >>, NEW m
    PROVE  Cardinality(Places(q, m)) = Cardinality(Places(Tail(q), m)) + One(Head(q), m)
<1> DEFINE t == Tail(q)
           rest == Places(q, m) \ {1}
           shift == [i \in Places(t, m) |-> i + 1]
<1>1. Len(q) \in Nat /\ Len(q) > 0 /\ t \in Seq(S) /\ Len(t) = Len(q) - 1
  OBVIOUS
<1>2. Head(q) = q[1] /\ \A i \in 1..Len(t) : t[i] = q[i + 1]
  BY <1>1
<1> HIDE DEF t
<1>3. shift \in Bijection(Places(t, m), rest)
  <2>1. ASSUME NEW i \in Places(t, m) PROVE i \in Nat /\ i + 1 \in rest
    BY <1>1, <1>2 DEF Places
  <2>2. ASSUME NEW j \in rest PROVE \E i \in Places(t, m) : shift[i] = j
    <3>1. j \in Int /\ j - 1 \in Places(t, m)
      BY <1>1, <1>2 DEF Places
    <3>2. shift[j - 1] = (j - 1) + 1
      BY <3>1
    <3> QED BY <3>1, <3>2
  <2>3. shift \in [Places(t, m) -> rest]
    BY <2>1
  <2>4. \A i, j \in Places(t, m) : shift[i] = shift[j] => i = j
    BY <2>1
  <2> QED BY <2>2, <2>3, <2>4 DEF Bijection, Injection, Surjection, IsInjective
<1>4. IsFiniteSet(Places(t, m)) /\ Cardinality(rest) = Cardinality(Places(t, m))
  BY <1>1, <1>3, PlacesFinite, FS_Bijection DEF ExistsBijection
<1>5. 1 \in Places(q, m) <=> Head(q) = m
  BY <1>1, <1>2 DEF Places
<1>6. IsFiniteSet(Places(q, m)) /\ Cardinality(Places(q, m)) \in Nat
  BY PlacesFinite
<1>7. Cardinality(rest) = IF 1 \in Places(q, m) THEN Cardinality(Places(q, m)) - 1
                                              ELSE Cardinality(Places(q, m))
  BY <1>6, FS_RemoveElement
<1> QED BY <1>4, <1>5, <1>6, <1>7 DEF One, t

(* Where a function has the value m. *)
Holders(D, f, m) == {e \in D : f[e] = m}

(* Counting them over a finite domain when one of its elements gets another value. *)
LEMMA UpdateCounts ==
    ASSUME NEW D, IsFiniteSet(D), NEW f, NEW g, NEW d \in D, NEW m,
           \A e \in D \ {d} : g[e] = f[e]
    PROVE  /\ Cardinality(Holders(D, f, m)) \in Nat
           /\ Cardinality(Holders(D, g, m)) \in Nat
           /\ Cardinality(Holders(D, g, m)) + One(f[d], m)
                = Cardinality(Holders(D, f, m)) + One(g[d], m)
<1> DEFINE F == {e \in D : f[e] = m}
           G == {e \in D : g[e] = m}
<1>1. IsFiniteSet(F) /\ IsFiniteSet(G)
  <2>1. F \in SUBSET D /\ G \in SUBSET D
    OBVIOUS
  <2> QED BY <2>1, FS_Subset
<1>2. Cardinality(F) \in Nat /\ Cardinality(G) \in Nat
  BY <1>1, FS_CardinalityType
<1>3. F \ {d} = G \ {d}
  OBVIOUS
<1>d. (d \in F <=> f[d] = m) /\ (d \in G <=> g[d] = m)
  OBVIOUS
<1> HIDE DEF F, G
<1>r. /\ Cardinality(F \ {d}) = IF d \in F THEN Cardinality(F) - 1 ELSE Cardinality(F)
      /\ Cardinality(G \ {d}) = IF d \in G THEN Cardinality(G) - 1 ELSE Cardinality(G)
  BY <1>1, FS_RemoveElement
<1>4. Cardinality(F \ {d}) = Cardinality(F) - One(f[d], m)
  BY <1>2, <1>d, <1>r DEF One
<1>5. Cardinality(G \ {d}) = Cardinality(G) - One(g[d], m)
  BY <1>2, <1>d, <1>r DEF One
<1>6. One(f[d], m) \in Nat /\ One(g[d], m) \in Nat
  BY DEF One
<1> QED BY <1>2, <1>3, <1>4, <1>5, <1>6 DEF F, G, Holders
============================================================================
