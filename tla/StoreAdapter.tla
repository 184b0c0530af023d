----------------------------- MODULE StoreAdapter -----------------------------
(***************************************************************************)
(* The two implementations of RuntimeStore side by side, under the same      *)
(* calls: MemoryStore (store.py), which keeps the objects it is given and    *)
(* hands them out again, and FirestoreStore (firestore_store.py), which      *)
(* converts to and from documents.  A record is the set of changes made to   *)
(* it (a capability promoted, an epoch advanced, a lease revoked); a target  *)
(* also has the hash of its fields, and is replaced, never changed.          *)
(***************************************************************************)
EXTENDS FiniteSets

CONSTANTS
  Clients,   \* the variables of callers that hold a record
  Ids,       \* document ids
  Targets,   \* those of targets
  Objects,   \* Python objects
  Changes,
  NONE

ASSUME ConstantsAssumption ==
  /\ Targets \subseteq Ids
  /\ NONE \notin Ids \cup Objects

Record == [content: SUBSET Changes, hash: SUBSET Changes]

ASSUME NoRecordIsNone == NONE \notin Record

VARIABLES
  heap,       \* what each object contains
  memory,     \* the object MemoryStore keeps for an id
  documents,  \* what the document of an id contains
  held,       \* the id of the record in a client's variable
  ref,        \* the variable, with MemoryStore: an object
  own,        \* the variable, with FirestoreStore: a record nobody else has
  fresh,      \* history: clients whose record was created and not put yet
  dirty,      \* history: clients that changed their record since they put it
  stale,      \* history: clients whose record others have put since they got it
  spoiled,    \* history: ids that got a stale put, a change without a put, or were altered
  issued      \* history: the contents that were put, for each target

stores == <<heap, memory, documents>>
client == <<held, ref, own>>
history == <<fresh, dirty, stale, spoiled, issued>>
vars == <<stores, client, history>>

Init ==
  /\ heap = [o \in Objects |-> [content |-> {}, hash |-> {}]]
  /\ memory = [i \in Ids |-> NONE]
  /\ documents = [i \in Ids |-> NONE]
  /\ held = [c \in Clients |-> NONE]
  /\ ref = [c \in Clients |-> NONE]
  /\ own = [c \in Clients |-> NONE]
  /\ fresh = {} /\ dirty = {} /\ stale = {} /\ spoiled = {}
  /\ issued = [i \in Targets |-> {}]

Garbage == {o \in Objects : (\A i \in Ids : memory[i] # o) /\ (\A c \in Clients : ref[c] # o)}
Holders(i) == {c \in Clients : held[c] = i}

Hold(c, i, object, record) ==
  /\ held' = [held EXCEPT ![c] = i]
  /\ ref' = [ref EXCEPT ![c] = object]
  /\ own' = [own EXCEPT ![c] = record]

\* A constructor; MaterialTarget.create hashes the fields.  An agent or a lease
\* is created without any of the changes that are made to it later.
Create(c, i) ==
  /\ held[c] = NONE
  /\ \E o \in Garbage, content \in IF i \in Targets THEN SUBSET Changes ELSE {{}} :
       LET r == [content |-> content, hash |-> content]
       IN Hold(c, i, o, r) /\ heap' = [heap EXCEPT ![o] = r]
  /\ fresh' = fresh \cup {c}
  /\ UNCHANGED <<memory, documents, dirty, stale, spoiled, issued>>

\* Mutant: the hash of a target is not compared with its fields.
Anything(i, document) == TRUE

\* _target_from_doc
Readable(i, document) == i \in Targets => document.hash = document.content

\* get_*: one document that is there; without one both return None, and one that is
\* not readable raises ValueError.
Get(c, i) ==
  /\ held[c] = NONE
  /\ documents[i] # NONE /\ Readable(i, documents[i])
  /\ Hold(c, i, memory[i], documents[i])
  /\ UNCHANGED <<stores, history>>

\* What callers do with the agents and leases they hold.
Change(c) ==
  /\ held[c] \in Ids \ Targets
  /\ \E x \in Changes :
       /\ heap' = [heap EXCEPT ![ref[c]].content = @ \cup {x}]
       /\ own' = [own EXCEPT ![c].content = @ \cup {x}]
  /\ dirty' = dirty \cup {c}
  /\ UNCHANGED <<memory, documents, held, ref, fresh, stale, spoiled, issued>>

\* put_*, for what the caller holds and the document written for it.  The conversions
\* keep every field of a record: sets become sorted lists, and sets again in Get.
Store(c, i, document) ==
  /\ memory' = [memory EXCEPT ![i] = ref[c]]
  /\ documents' = [documents EXCEPT ![i] = document]
  /\ fresh' = fresh \ {c}
  /\ dirty' = dirty \ {c}
  /\ stale' = (stale \cup Holders(i)) \ {c}
  /\ spoiled' = IF c \in fresh THEN spoiled \ {i}
                ELSE IF c \in stale THEN spoiled \cup {i} ELSE spoiled
  /\ issued' = [t \in Targets |-> IF t = i THEN issued[t] \cup {own[c].content} ELSE issued[t]]
  /\ UNCHANGED <<heap, client>>

\* Mutant: the document is created, never overwritten.
PutOnce(c) ==
  /\ held[c] # NONE
  /\ Store(c, held[c], IF documents[held[c]] = NONE THEN own[c] ELSE documents[held[c]])

\* Mutant: the document is written without the hash.
PutWithoutHash(c) == held[c] # NONE /\ Store(c, held[c], [content |-> own[c].content])

Put(c) == held[c] # NONE /\ Store(c, held[c], own[c])

\* The variable goes out of scope.
Forget(c) ==
  LET i == held[c]
  IN /\ i # NONE
     /\ Hold(c, NONE, NONE, NONE)
     /\ fresh' = fresh \ {c} /\ dirty' = dirty \ {c} /\ stale' = stale \ {c}
     /\ spoiled' = IF c \in dirty /\ ref[c] = memory[i]
                   THEN spoiled \cup {i} ELSE spoiled
     /\ UNCHANGED <<stores, issued>>

\* Fields of a document are altered from outside.
Alter(i) ==
  /\ documents[i] # NONE
  /\ \E content \in SUBSET Changes :
       documents' = [documents EXCEPT ![i].content = content]
  /\ spoiled' = spoiled \cup {i}
  /\ UNCHANGED <<heap, memory, client, fresh, dirty, stale, issued>>

Next ==
  \/ \E c \in Clients : Change(c) \/ Put(c) \/ Forget(c)
  \/ \E c \in Clients, i \in Ids : Create(c, i) \/ Get(c, i)
  \/ \E i \in Targets : Alter(i)
Spec == Init /\ [][Next]_vars

-----------------------------------------------------------------------------
\* Every variable and both stores keep their types.
TypeOK ==
  /\ heap \in [Objects -> Record]
  /\ memory \in [Ids -> Objects \cup {NONE}]
  /\ documents \in [Ids -> Record \cup {NONE}]
  /\ held \in [Clients -> Ids \cup {NONE}]
  /\ ref \in [Clients -> Objects \cup {NONE}]
  /\ own \in [Clients -> Record \cup {NONE}]
  /\ fresh \subseteq Clients /\ dirty \subseteq Clients /\ stale \subseteq Clients
  /\ spoiled \subseteq Ids
  /\ issued \in [Targets -> SUBSET (SUBSET Changes)]

Stored(i) == IF memory[i] = NONE THEN NONE ELSE heap[memory[i]]
Settled(i) == i \notin spoiled /\ \A c \in dirty : ref[c] # memory[i]

\* The choice of store makes no difference to callers who put what they change, and
\* put nothing that others have put since they got it; and a new record, put over
\* one for which they differ, ends the difference.
StoresAgree == \A i \in Ids : Settled(i) => Stored(i) = documents[i]

\* A target that FirestoreStore hands out is one that was put, whatever fields of
\* its document were altered.
TargetsAreGenuine ==
  \A c \in Clients :
    held[c] \in Targets /\ c \notin fresh => own[c].content \in issued[held[c]]
=============================================================================
