--------------------------- MODULE StoreAdapterProofs ---------------------------
(***************************************************************************)
(* Theorems about StoreAdapter, for any number of clients, ids, objects and  *)
(* changes.                                                                  *)
(***************************************************************************)
EXTENDS StoreAdapter, TLAPS

USE ConstantsAssumption, NoRecordIsNone

\* A variable holds a record in both stores or in neither, and so does an id.
Owned ==
  /\ \A c \in Clients : (held[c] = NONE <=> ref[c] = NONE) /\ (held[c] = NONE <=> own[c] = NONE)
  /\ \A i \in Ids : memory[i] = NONE <=> documents[i] = NONE

\* A variable without a record has no history.
Idle == \A c \in Clients : held[c] = NONE => c \notin fresh \cup dirty \cup stale

\* An object is of one id, whoever refers to it.
OneId ==
  /\ \A c \in Clients, i \in Ids : ref[c] # NONE /\ ref[c] = memory[i] => held[c] = i
  /\ \A c, d \in Clients : ref[c] # NONE /\ ref[c] = ref[d] => held[c] = held[d]
  /\ \A i, j \in Ids : memory[i] # NONE /\ memory[i] = memory[j] => i = j

\* Nobody else has a record that was not put yet.
FreshIsAlone ==
  \A c \in fresh :
    /\ \A i \in Ids : memory[i] # ref[c]
    /\ \A d \in Clients \ {c} : ref[d] # ref[c]

\* What a caller got is what MemoryStore keeps until somebody puts another.
Current ==
  \A c \in Clients :
    held[c] # NONE /\ c \notin fresh \cup stale => ref[c] = memory[held[c]]

\* The two stores gave a caller the same record, if it is new, or if all that was put
\* for its id is good and all other changes to it were put.
Shared(c) == \E d \in dirty \ {c} : ref[d] = ref[c]
Good(c) == c \in fresh \/ (c \notin stale /\ held[c] \notin spoiled)
Faithful ==
  \A c \in Clients : held[c] # NONE /\ ~Shared(c) /\ Good(c) => own[c] = heap[ref[c]]

\* The inductive invariant behind StoresAgree.
AgreementInv ==
  TypeOK /\ Owned /\ Idle /\ OneId /\ FreshIsAlone /\ Current /\ Faithful /\ StoresAgree

\* The inductive invariant behind TargetsAreGenuine.
HashesIssued ==
  /\ \A i \in Targets : documents[i] # NONE => documents[i].hash \in issued[i]
  /\ \A c \in Clients : held[c] \in Targets => own[c].hash = own[c].content

-----------------------------------------------------------------------------
\* A record with one more change is a record.
LEMMA ChangedRecord ==
  ASSUME NEW r \in Record, NEW x \in Changes
  PROVE  [r EXCEPT !.content = @ \cup {x}] \in Record
BY DEF Record

\* A new record is put nowhere and held by nobody else.
LEMMA CreateKeeps ==
  ASSUME AgreementInv, NEW c \in Clients, NEW i \in Ids, Create(c, i)
  PROVE  AgreementInv'
<1> USE DEF AgreementInv
<1>1. PICK o \in Garbage, r \in Record :
        /\ Hold(c, i, o, r)
        /\ heap' = [heap EXCEPT ![o] = r]
  BY DEF Create, Record
<1>2. /\ o \in Objects
      /\ \A j \in Ids : memory[j] # o
      /\ \A d \in Clients : ref[d] # o
  BY <1>1 DEF Garbage
<1>3. /\ held[c] = NONE
      /\ fresh' = fresh \cup {c}
      /\ UNCHANGED <<memory, documents, dirty, stale, spoiled, issued>>
  BY DEF Create
<1>4. TypeOK'
  BY <1>1, <1>2, <1>3 DEF TypeOK, Hold
<1>5. /\ held'[c] = i /\ ref'[c] = o /\ own'[c] = r /\ heap'[o] = r
      /\ i # NONE /\ o # NONE /\ r # NONE
      /\ \A d \in Clients \ {c} : held'[d] = held[d] /\ ref'[d] = ref[d] /\ own'[d] = own[d]
      /\ \A p \in Objects \ {o} : heap'[p] = heap[p]
  BY <1>1, <1>2 DEF TypeOK, Hold
<1>6. Owned'
  BY <1>3, <1>5 DEF Owned
<1>7. Idle'
  BY <1>3, <1>5 DEF Idle
<1>8. OneId'
  BY <1>2, <1>3, <1>5 DEF OneId
<1>9. FreshIsAlone'
  BY <1>2, <1>3, <1>5 DEF FreshIsAlone, TypeOK
<1>10. Current'
  BY <1>3, <1>5 DEF Current
<1>11. Faithful'
  <2> SUFFICES ASSUME NEW d \in Clients, (held[d] # NONE)', ~Shared(d)', Good(d)'
               PROVE  (own[d] = heap[ref[d]])'
    BY DEF Faithful
  <2>1. CASE d = c
    BY <1>5, <2>1
  <2>2. CASE d # c
    <3>1. held[d] # NONE /\ Good(d)
      BY <1>3, <1>5, <2>2 DEF Good
    <3>2. ~Shared(d)
      BY <1>3, <1>5, <2>2 DEF Shared, Idle, TypeOK
    <3>3. own[d] = heap[ref[d]]
      BY <3>1, <3>2 DEF Faithful
    <3>4. ref[d] \in Objects \ {o}
      BY <1>2, <3>1 DEF Owned, TypeOK
    <3> QED
      BY <1>5, <2>2, <3>3, <3>4
  <2> QED
    BY <2>1, <2>2
<1>12. StoresAgree'
  <2> SUFFICES ASSUME NEW j \in Ids, Settled(j)' PROVE (Stored(j) = documents[j])'
    BY DEF StoresAgree
  <2>1. Settled(j)
    BY <1>3, <1>5 DEF Settled, Idle, TypeOK
  <2>2. Stored(j)' = Stored(j)
    BY <1>2, <1>3, <1>5 DEF Stored, TypeOK
  <2> QED
    BY <1>3, <2>1, <2>2 DEF StoresAgree
<1> QED
  BY <1>4, <1>6, <1>7, <1>8, <1>9, <1>10, <1>11, <1>12

\* What a caller gets is what is stored, the same in both stores if the id is settled.
LEMMA GetKeeps ==
  ASSUME AgreementInv, NEW c \in Clients, NEW i \in Ids, Get(c, i)
  PROVE  AgreementInv'
<1> USE DEF AgreementInv
<1>1. /\ held[c] = NONE
      /\ documents[i] # NONE
      /\ UNCHANGED <<heap, memory, documents, fresh, dirty, stale, spoiled, issued>>
  BY DEF Get, stores, history
<1>2. memory[i] \in Objects /\ documents[i] \in Record
  BY <1>1 DEF TypeOK, Owned
<1>3. TypeOK'
  BY <1>1, <1>2 DEF TypeOK, Get, Hold
<1>4. /\ held'[c] = i /\ ref'[c] = memory[i] /\ own'[c] = documents[i]
      /\ i # NONE /\ memory[i] # NONE
      /\ \A d \in Clients \ {c} : held'[d] = held[d] /\ ref'[d] = ref[d] /\ own'[d] = own[d]
  BY <1>2 DEF TypeOK, Get, Hold
<1>5. c \notin fresh \cup dirty \cup stale
  BY <1>1 DEF Idle
<1>6. Owned'
  BY <1>1, <1>4 DEF Owned
<1>7. Idle'
  BY <1>1, <1>4, <1>5 DEF Idle
<1>8. OneId'
  BY <1>1, <1>4 DEF OneId
<1>9. FreshIsAlone'
  BY <1>1, <1>4, <1>5 DEF FreshIsAlone, TypeOK
<1>10. Current'
  BY <1>1, <1>4 DEF Current
<1>11. Faithful'
  <2> SUFFICES ASSUME NEW d \in Clients, (held[d] # NONE)', ~Shared(d)', Good(d)'
               PROVE  (own[d] = heap[ref[d]])'
    BY DEF Faithful
  <2>1. CASE d = c
    <3>1. Settled(i)
      BY <1>1, <1>4, <1>5, <2>1 DEF Settled, Shared, Good, TypeOK
    <3> QED
      BY <1>1, <1>4, <2>1, <3>1 DEF StoresAgree, Stored
  <2>2. CASE d # c
    BY <1>1, <1>4, <1>5, <2>2 DEF Faithful, Good, Shared, TypeOK
  <2> QED
    BY <2>1, <2>2
<1>12. StoresAgree'
  BY <1>1, <1>4, <1>5 DEF StoresAgree, Settled, Stored, TypeOK
<1> QED
  BY <1>3, <1>6, <1>7, <1>8, <1>9, <1>10, <1>11, <1>12

\* A change reaches whoever has the object, and makes the id unsettled.
LEMMA ChangeKeeps ==
  ASSUME AgreementInv, NEW c \in Clients, Change(c)
  PROVE  AgreementInv'
<1> USE DEF AgreementInv
<1>1. PICK x \in Changes :
        /\ heap' = [heap EXCEPT ![ref[c]].content = @ \cup {x}]
        /\ own' = [own EXCEPT ![c].content = @ \cup {x}]
  BY DEF Change
<1>2. /\ held[c] \in Ids
      /\ dirty' = dirty \cup {c}
      /\ UNCHANGED <<memory, documents, held, ref, fresh, stale, spoiled, issued>>
  BY DEF Change
<1>3. held[c] # NONE /\ ref[c] \in Objects /\ own[c] \in Record
  BY <1>2 DEF TypeOK, Owned
<1>4. /\ heap' = [heap EXCEPT ![ref[c]] = [heap[ref[c]] EXCEPT !.content = @ \cup {x}]]
      /\ own' = [own EXCEPT ![c] = [own[c] EXCEPT !.content = @ \cup {x}]]
  BY <1>1
<1>5. /\ [own[c] EXCEPT !.content = @ \cup {x}] \in Record
      /\ [heap[ref[c]] EXCEPT !.content = @ \cup {x}] \in Record
  BY <1>3, ChangedRecord DEF TypeOK
<1>6. TypeOK'
  BY <1>2, <1>4, <1>5 DEF TypeOK
<1>7. /\ own'[c] = [own[c] EXCEPT !.content = @ \cup {x}]
      /\ heap'[ref[c]] = [heap[ref[c]] EXCEPT !.content = @ \cup {x}]
      /\ \A d \in Clients \ {c} : own'[d] = own[d]
      /\ \A o \in Objects \ {ref[c]} : heap'[o] = heap[o]
      /\ own'[c] # NONE
  BY <1>3, <1>4, <1>5 DEF TypeOK
<1>8. Owned'
  BY <1>2, <1>3, <1>7 DEF Owned
<1>9. Idle'
  BY <1>2, <1>3 DEF Idle
<1>10. OneId' /\ FreshIsAlone' /\ Current'
  BY <1>2 DEF OneId, FreshIsAlone, Current
<1>11. Faithful'
  <2> SUFFICES ASSUME NEW d \in Clients, (held[d] # NONE)', ~Shared(d)', Good(d)'
               PROVE  (own[d] = heap[ref[d]])'
    BY DEF Faithful
  <2>1. held[d] # NONE /\ ~Shared(d) /\ Good(d)
    BY <1>2 DEF Shared, Good
  <2>2. own[d] = heap[ref[d]]
    BY <2>1 DEF Faithful
  <2>3. CASE d = c
    BY <1>2, <1>7, <2>2, <2>3
  <2>4. CASE d # c
    <3>1. ref[d] # ref[c]
      BY <1>2, <2>4 DEF Shared
    <3>2. ref[d] \in Objects
      BY <2>1 DEF Owned, TypeOK
    <3> QED
      BY <1>2, <1>7, <2>2, <2>4, <3>1, <3>2
  <2> QED
    BY <2>3, <2>4
<1>12. StoresAgree'
  <2> SUFFICES ASSUME NEW i \in Ids, Settled(i)' PROVE (Stored(i) = documents[i])'
    BY DEF StoresAgree
  <2>1. Settled(i) /\ memory[i] # ref[c]
    BY <1>2 DEF Settled
  <2>2. Stored(i)' = Stored(i)
    BY <1>2, <1>7, <2>1 DEF Stored, TypeOK
  <2> QED
    BY <1>2, <2>1, <2>2 DEF StoresAgree
<1> QED
  BY <1>6, <1>8, <1>9, <1>10, <1>11, <1>12

\* Storing a good record settles its id, and makes every other variable stale.
LEMMA PutKeeps ==
  ASSUME AgreementInv, NEW c \in Clients, Put(c)
  PROVE  AgreementInv'
<1> USE DEF AgreementInv
<1> DEFINE i == held[c]
<1>1. /\ i # NONE
      /\ memory' = [memory EXCEPT ![i] = ref[c]]
      /\ documents' = [documents EXCEPT ![i] = own[c]]
      /\ fresh' = fresh \ {c}
      /\ dirty' = dirty \ {c}
      /\ stale' = (stale \cup Holders(i)) \ {c}
      /\ spoiled' = IF c \in fresh THEN spoiled \ {i}
                    ELSE IF c \in stale THEN spoiled \cup {i} ELSE spoiled
      /\ issued' = [t \in Targets |-> IF t = i THEN issued[t] \cup {own[c].content} ELSE issued[t]]
      /\ UNCHANGED <<heap, held, ref, own>>
  BY DEF Put, Store, client
<1>2. i \in Ids /\ ref[c] \in Objects /\ own[c] \in Record
  BY <1>1 DEF TypeOK, Owned
<1>3. TypeOK'
  <2>1. own[c].content \in SUBSET Changes
    BY <1>2 DEF Record
  <2> QED
    BY <1>1, <1>2, <2>1 DEF TypeOK, Holders
<1>4. /\ memory'[i] = ref[c] /\ documents'[i] = own[c]
      /\ \A j \in Ids \ {i} : memory'[j] = memory[j] /\ documents'[j] = documents[j]
  BY <1>1, <1>2 DEF TypeOK
<1>5. \A d \in Clients \ {c} : held[d] = i => d \in stale'
  BY <1>1 DEF Holders
<1>6. /\ stale \ {c} \subseteq stale'
      /\ stale' \subseteq (stale \cup Holders(i)) \ {c}
      /\ \A j \in Ids \ {i} : j \in spoiled' <=> j \in spoiled
      /\ i \notin spoiled' => c \in fresh \/ (c \notin stale /\ i \notin spoiled)
  BY <1>1
<1> HIDE DEF i
<1>7. i = held[c]
  BY DEF i
<1>8. Owned'
  BY <1>1, <1>2, <1>4 DEF Owned
<1>9. Idle'
  BY <1>1, <1>6 DEF Idle, Holders
<1>10. OneId'
  BY <1>1, <1>2, <1>4, <1>7 DEF OneId
<1>11. FreshIsAlone'
  BY <1>1, <1>4, <1>2 DEF FreshIsAlone, TypeOK
<1>12. Current'
  BY <1>1, <1>4, <1>5, <1>6, <1>7 DEF Current, TypeOK
<1>13. Faithful'
  <2> SUFFICES ASSUME NEW d \in Clients, (held[d] # NONE)', ~Shared(d)', Good(d)'
               PROVE  own[d] = heap[ref[d]]
    BY <1>1 DEF Faithful
  <2>1. held[d] # NONE
    BY <1>1
  <2>2. CASE d = c
    <3>1. ~Shared(c) /\ Good(c)
      BY <1>1, <1>6, <1>7, <2>2 DEF Shared, Good
    <3> QED
      BY <2>1, <2>2, <3>1 DEF Faithful
  <2>3. CASE d # c /\ held[d] = i
    <3>1. d \in fresh /\ ref[d] # ref[c]
      BY <1>1, <1>5, <2>3 DEF Good, FreshIsAlone
    <3> QED
      BY <1>1, <2>1, <2>3, <3>1 DEF Faithful, Good, Shared
  <2>4. CASE held[d] # i
    <3>1. held[d] \in Ids \ {i} /\ ref[d] # ref[c]
      BY <1>2, <1>7, <2>1, <2>4 DEF OneId, TypeOK
    <3>2. Good(d)
      BY <1>1, <1>6, <1>7, <2>4, <3>1 DEF Good
    <3>3. ~Shared(d)
      BY <1>1, <3>1 DEF Shared
    <3> QED
      BY <2>1, <3>2, <3>3 DEF Faithful
  <2> QED
    BY <2>2, <2>3, <2>4
<1>14. StoresAgree'
  <2> SUFFICES ASSUME NEW j \in Ids, Settled(j)' PROVE (Stored(j) = documents[j])'
    BY DEF StoresAgree
  <2>1. CASE j = i
    <3>1. ~Shared(c) /\ Good(c)
      BY <1>1, <1>4, <1>6, <1>7, <2>1 DEF Shared, Good, Settled
    <3>2. own[c] = heap[ref[c]]
      BY <1>1, <1>7, <3>1 DEF Faithful
    <3> QED
      BY <1>1, <1>2, <1>4, <2>1, <3>2 DEF Stored
  <2>2. CASE j # i
    <3>1. j \in Ids \ {i} /\ memory[j] # ref[c]
      BY <1>2, <1>7, <2>2 DEF OneId
    <3>2. Settled(j)
      BY <1>1, <1>4, <1>6, <3>1 DEF Settled
    <3> QED
      BY <1>1, <1>4, <3>1, <3>2 DEF StoresAgree, Stored
  <2> QED
    BY <2>1, <2>2
<1> QED
  BY <1>3, <1>8, <1>9, <1>10, <1>11, <1>12, <1>13, <1>14

\* A change that goes out of scope with its variable spoils the id.
LEMMA ForgetKeeps ==
  ASSUME AgreementInv, NEW c \in Clients, Forget(c)
  PROVE  AgreementInv'
<1> USE DEF AgreementInv
<1> DEFINE i == held[c]
<1>1. /\ i # NONE
      /\ held' = [held EXCEPT ![c] = NONE]
      /\ ref' = [ref EXCEPT ![c] = NONE]
      /\ own' = [own EXCEPT ![c] = NONE]
      /\ fresh' = fresh \ {c} /\ dirty' = dirty \ {c} /\ stale' = stale \ {c}
      /\ spoiled' = IF c \in dirty /\ ref[c] = memory[i] THEN spoiled \cup {i} ELSE spoiled
      /\ UNCHANGED <<heap, memory, documents, issued>>
  BY DEF Forget, Hold, stores
<1>2. i \in Ids /\ ref[c] \in Objects
  BY <1>1 DEF TypeOK, Owned
<1>3. TypeOK'
  BY <1>1, <1>2 DEF TypeOK
<1>4. /\ held'[c] = NONE /\ ref'[c] = NONE /\ own'[c] = NONE
      /\ \A d \in Clients \ {c} : held'[d] = held[d] /\ ref'[d] = ref[d] /\ own'[d] = own[d]
  BY <1>1 DEF TypeOK
<1>5. /\ spoiled \subseteq spoiled'
      /\ c \in dirty /\ ref[c] = memory[i] => i \in spoiled'
  BY <1>1
<1> HIDE DEF i
<1>6. i = held[c]
  BY DEF i
<1>7. Owned'
  BY <1>1, <1>4 DEF Owned
<1>8. Idle'
  BY <1>1, <1>4 DEF Idle
<1>9. OneId'
  BY <1>1, <1>4 DEF OneId
<1>10. FreshIsAlone'
  <2> SUFFICES ASSUME NEW d \in fresh \ {c}
               PROVE  /\ \A j \in Ids : memory[j] # ref'[d]
                      /\ \A e \in Clients \ {d} : ref'[e] # ref'[d]
    BY <1>1 DEF FreshIsAlone
  <2>1. d \in Clients /\ ref'[d] = ref[d] /\ ref[d] # NONE
    BY <1>4 DEF TypeOK, Idle, Owned
  <2> QED
    BY <1>4, <2>1 DEF FreshIsAlone
<1>11. Current'
  BY <1>1, <1>4 DEF Current
<1>12. Faithful'
  <2> SUFFICES ASSUME NEW d \in Clients, (held[d] # NONE)', ~Shared(d)', Good(d)'
               PROVE  (own[d] = heap[ref[d]])'
    BY DEF Faithful
  <2>1. d # c
    BY <1>4
  <2>2. held[d] # NONE /\ Good(d)
    BY <1>1, <1>4, <1>5, <2>1 DEF Good
  <2>3. \A e \in dirty \ {c, d} : ref[e] # ref[d]
    BY <1>1, <1>4, <2>1 DEF Shared, TypeOK
  <2>4. ASSUME c \in dirty, ref[c] = ref[d] PROVE FALSE
    <3>1. held[d] = i
      BY <1>2, <1>6, <2>4 DEF OneId
    <3>2. d \notin fresh
      BY <2>1, <2>4 DEF FreshIsAlone
    <3>3. d \notin stale /\ i \notin spoiled'
      BY <1>1, <1>4, <2>1, <3>1, <3>2 DEF Good
    <3>4. ref[d] = memory[i]
      BY <2>2, <3>1, <3>2, <3>3 DEF Current
    <3> QED
      BY <1>5, <2>4, <3>3, <3>4
  <2>5. ~Shared(d)
    BY <2>3, <2>4 DEF Shared
  <2> QED
    BY <1>1, <1>4, <2>1, <2>2, <2>5 DEF Faithful
<1>13. StoresAgree'
  <2> SUFFICES ASSUME NEW j \in Ids, Settled(j)' PROVE (Stored(j) = documents[j])'
    BY DEF StoresAgree
  <2>1. j \notin spoiled /\ \A e \in dirty \ {c} : ref[e] # memory[j]
    BY <1>1, <1>4, <1>5 DEF Settled, TypeOK
  <2>2. c \in dirty => ref[c] # memory[j]
    BY <1>2, <1>5, <1>6 DEF Settled, OneId
  <2>3. Settled(j)
    BY <2>1, <2>2 DEF Settled
  <2> QED
    BY <1>1, <2>3 DEF StoresAgree, Stored
<1> QED
  BY <1>3, <1>7, <1>8, <1>9, <1>10, <1>11, <1>12, <1>13

\* A document that is altered is spoiled.
LEMMA AlterKeeps ==
  ASSUME AgreementInv, NEW i \in Targets, Alter(i)
  PROVE  AgreementInv'
<1> USE DEF AgreementInv
<1>1. PICK content \in SUBSET Changes :
        documents' = [documents EXCEPT ![i] = [documents[i] EXCEPT !.content = content]]
  BY DEF Alter
<1>2. /\ documents[i] # NONE
      /\ spoiled' = spoiled \cup {i}
      /\ UNCHANGED <<heap, memory, held, ref, own, fresh, dirty, stale, issued>>
  BY DEF Alter, client
<1>3. [documents[i] EXCEPT !.content = content] \in Record
  <2>1. documents[i] \in Record
    BY <1>2 DEF TypeOK
  <2> QED
    BY <2>1 DEF Record
<1>4. TypeOK'
  BY <1>1, <1>2, <1>3 DEF TypeOK
<1>5. /\ documents'[i] # NONE
      /\ \A j \in Ids \ {i} : documents'[j] = documents[j]
  BY <1>1, <1>3 DEF TypeOK
<1>6. Owned'
  BY <1>2, <1>5 DEF Owned
<1>7. Idle' /\ OneId' /\ FreshIsAlone' /\ Current'
  BY <1>2 DEF Idle, OneId, FreshIsAlone, Current
<1>8. Faithful'
  BY <1>2 DEF Faithful, Good, Shared
<1>9. StoresAgree'
  BY <1>2, <1>5 DEF StoresAgree, Settled, Stored
<1> QED
  BY <1>4, <1>6, <1>7, <1>8, <1>9

-----------------------------------------------------------------------------
\* All of it holds from the start and is kept by every step of every caller.
LEMMA Inductive == Spec => []AgreementInv
<1>1. Init => AgreementInv
  <2> SUFFICES ASSUME Init PROVE AgreementInv
    OBVIOUS
  <2>1. TypeOK
    BY DEF Init, TypeOK, Record
  <2>2. Owned /\ Idle /\ OneId /\ FreshIsAlone /\ Current /\ Faithful
    BY DEF Init, Owned, Idle, OneId, FreshIsAlone, Current, Faithful
  <2>3. StoresAgree
    BY DEF Init, StoresAgree, Stored
  <2> QED
    BY <2>1, <2>2, <2>3 DEF AgreementInv
<1>2. AgreementInv /\ [Next]_vars => AgreementInv'
  <2> SUFFICES ASSUME AgreementInv, [Next]_vars PROVE AgreementInv'
    OBVIOUS
  <2>1. ASSUME NEW c \in Clients, Change(c) \/ Put(c) \/ Forget(c) PROVE AgreementInv'
    BY <2>1, ChangeKeeps, PutKeeps, ForgetKeeps
  <2>2. ASSUME NEW c \in Clients, NEW i \in Ids, Create(c, i) \/ Get(c, i) PROVE AgreementInv'
    BY <2>2, CreateKeeps, GetKeeps
  <2>3. ASSUME NEW i \in Targets, Alter(i) PROVE AgreementInv'
    BY <2>3, AlterKeeps
  <2>4. CASE UNCHANGED vars
    BY <2>4 DEF vars, stores, client, history, AgreementInv, TypeOK, Owned, Idle, OneId,
       FreshIsAlone, Current, Faithful, Shared, Good, StoresAgree, Settled, Stored
  <2> QED
    BY <2>1, <2>2, <2>3, <2>4 DEF Next
<1> QED
  BY <1>1, <1>2, PTL DEF Spec

\* Every variable of both stores and of their callers keeps its type.
THEOREM TypeCorrect == Spec => []TypeOK
BY Inductive, PTL DEF AgreementInv

\* Callers who put what they change, and put nothing stale, cannot tell the two
\* stores apart, however many they are.
THEOREM Agreement == Spec => []StoresAgree
BY Inductive, PTL DEF AgreementInv

\* FirestoreStore hands out no target that was not put, whatever is altered.
THEOREM Genuine == Spec => []TargetsAreGenuine
<1>1. Init => HashesIssued /\ TargetsAreGenuine
  BY DEF Init, HashesIssued, TargetsAreGenuine
<1>2. AgreementInv /\ HashesIssued /\ TargetsAreGenuine /\ [Next]_vars
        => (HashesIssued /\ TargetsAreGenuine)'
  <2> SUFFICES ASSUME AgreementInv, HashesIssued, TargetsAreGenuine, [Next]_vars
               PROVE  HashesIssued' /\ TargetsAreGenuine'
    OBVIOUS
  <2> USE DEF AgreementInv, TypeOK, Owned, HashesIssued, TargetsAreGenuine
  <2>1. ASSUME NEW c \in Clients, Change(c) PROVE HashesIssued' /\ TargetsAreGenuine'
    BY <2>1 DEF Change
  <2>2. ASSUME NEW c \in Clients, Put(c) PROVE HashesIssued' /\ TargetsAreGenuine'
    BY <2>2 DEF Put, Store, client
  <2>3. ASSUME NEW c \in Clients, Forget(c) PROVE HashesIssued' /\ TargetsAreGenuine'
    BY <2>3 DEF Forget, Hold, stores
  <2>4. ASSUME NEW c \in Clients, NEW i \in Ids, Create(c, i)
        PROVE  HashesIssued' /\ TargetsAreGenuine'
    BY <2>4 DEF Create, Hold
  <2>5. ASSUME NEW c \in Clients, NEW i \in Ids, Get(c, i)
        PROVE  HashesIssued' /\ TargetsAreGenuine'
    BY <2>5 DEF Get, Hold, Readable, stores, history
  <2>6. ASSUME NEW i \in Targets, Alter(i) PROVE HashesIssued' /\ TargetsAreGenuine'
    BY <2>6 DEF Alter, client, Record
  <2>7. CASE UNCHANGED vars
    BY <2>7 DEF vars, stores, client, history
  <2> QED
    BY <2>1, <2>2, <2>3, <2>4, <2>5, <2>6, <2>7 DEF Next
<1> QED
  BY <1>1, <1>2, Inductive, PTL DEF Spec
=============================================================================
