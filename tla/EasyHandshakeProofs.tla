------------------------- MODULE EasyHandshakeProofs -------------------------
(***************************************************************************)
(* Proof that the values of libcat.rs own the objects of libcat.cpp, each  *)
(* one of them, whatever handshakes succeed, fail or are repeated; that    *)
(* the two ends of a handshake agree; and that messages come out whole.    *)
(***************************************************************************)
EXTENDS EasyHandshake, FiniteSetTheorems, TLAPS

\* The fields of the Rust structs and of the ghosts beside them.
IsClient(v) ==
  v = [class |-> "client", inner |-> v.inner, key |-> v.key,
       challenge |-> v.challenge, agreed |-> v.agreed]

IsServer(v) ==
  /\ v = [class |-> "server", inner |-> v.inner, _cookie_jar |-> v._cookie_jar,
          key |-> v.key]
  /\ v.inner # v._cookie_jar

IsSession(v) ==
  v = [class |-> "session", end |-> v.end, inner |-> v.inner, answer |-> v.answer,
       serial |-> v.serial, opened |-> v.opened]

Shape(v) == IsClient(v) \/ IsServer(v) \/ IsSession(v)

(***************************************************************************)
(* The objects D are those of the values V, no two of which share one.     *)
(* Owned becomes inductive once a value has its fields, so that a change   *)
(* of one of them leaves its pointers alone, and the heap is finite, so    *)
(* that it has a free address for the next object.                         *)
(***************************************************************************)
OwnedBy(D, V) ==
  /\ IsFiniteSet(D)
  /\ \A v \in V : Shape(v)
  /\ D = UNION {Owns(v) : v \in V}
  /\ \A v, w \in V : v # w => Owns(v) \cap Owns(w) = {}

IInv == OwnedBy(DOMAIN heap, values)

-----------------------------------------------------------------------------
\* The heap.

\* An address that nobody has is found: one of the first n + 1 is free.
LEMMA FreshIsFree ==
  ASSUME NEW h, IsFiniteSet(DOMAIN h)
  PROVE  Fresh(h) \notin DOMAIN h
<1> DEFINE n == Cardinality(DOMAIN h)
           S == 1 .. n + 1
<1>1. n \in Nat
  BY FS_CardinalityType
<1>2. IsFiniteSet(S) /\ Cardinality(S) = n + 1
  BY <1>1, FS_Interval
<1>3. ~ (S \subseteq DOMAIN h)
  <2>1. SUFFICES ASSUME S \subseteq DOMAIN h PROVE FALSE
    OBVIOUS
  <2>2. Cardinality(S) <= n
    BY <2>1, FS_Subset
  <2> QED
    BY <1>1, <1>2, <2>2
<1>4. \E p \in S : p \notin DOMAIN h
  BY <1>3
<1> QED
  BY <1>4 DEF Fresh

\* operator new allocates the fresh address.
LEMMA NewAllocates ==
  ASSUME NEW h, NEW object, IsFiniteSet(DOMAIN h)
  PROVE  /\ DOMAIN New(h, object) = DOMAIN h \cup {Fresh(h)}
         /\ IsFiniteSet(DOMAIN New(h, object))
         /\ Fresh(h) \notin DOMAIN h
<1>1. DOMAIN New(h, object) = DOMAIN h \cup {Fresh(h)}
  BY DEF New
<1>2. IsFiniteSet(DOMAIN h \cup {Fresh(h)})
  BY FS_AddElement
<1> QED
  BY <1>1, <1>2, FreshIsFree

\* operator delete frees its address.
LEMMA DeleteFrees ==
  ASSUME NEW h, NEW p, IsFiniteSet(DOMAIN h)
  PROVE  /\ DOMAIN Delete(h, p) = DOMAIN h \ {p}
         /\ IsFiniteSet(DOMAIN Delete(h, p))
<1>1. DOMAIN Delete(h, p) = DOMAIN h \ {p}
  BY DEF Delete
<1> QED
  BY <1>1, FS_Subset

-----------------------------------------------------------------------------
\* The values.

\* A new value comes with the objects it owns.
LEMMA ValueGained ==
  ASSUME NEW D, NEW V, NEW w, OwnedBy(D, V), Shape(w), Owns(w) \cap D = {},
         IsFiniteSet(D \cup Owns(w))
  PROVE  OwnedBy(D \cup Owns(w), V \cup {w})
  BY DEF OwnedBy

\* A dropped value takes the objects it owns with it.
LEMMA ValueDropped ==
  ASSUME NEW D, NEW V, NEW v \in V, OwnedBy(D, V)
  PROVE  OwnedBy(D \ Owns(v), V \ {v})
<1>1. IsFiniteSet(D \ Owns(v))
  BY FS_Subset DEF OwnedBy
<1> QED
  BY <1>1 DEF OwnedBy

\* A value may change as long as it keeps its objects.
LEMMA ValueChanged ==
  ASSUME NEW D, NEW V, NEW v \in V, NEW w, OwnedBy(D, V), Shape(w),
         Owns(w) = Owns(v)
  PROVE  OwnedBy(D, (V \ {v}) \cup {w})
  BY DEF OwnedBy

\* A step that changes no value and allocates and frees nothing.
LEMMA NothingMoves ==
  ASSUME IInv, UNCHANGED values, DOMAIN heap' = DOMAIN heap
  PROVE  IInv'
  BY DEF IInv

\* Initialize and the handshake's steps touch no pointer.
LEMMA ClientField ==
  ASSUME NEW v, IsClient(v), NEW x
  PROVE  /\ IsClient([v EXCEPT !.key = x]) /\ Owns([v EXCEPT !.key = x]) = Owns(v)
         /\ IsClient([v EXCEPT !.challenge = x])
         /\ Owns([v EXCEPT !.challenge = x]) = Owns(v)
         /\ IsClient([v EXCEPT !.agreed = x])
         /\ Owns([v EXCEPT !.agreed = x]) = Owns(v)
<1>1. IsClient([v EXCEPT !.key = x]) /\ Owns([v EXCEPT !.key = x]) = Owns(v)
  BY DEF IsClient, Owns
<1>2. /\ IsClient([v EXCEPT !.challenge = x])
      /\ Owns([v EXCEPT !.challenge = x]) = Owns(v)
  BY DEF IsClient, Owns
<1>3. IsClient([v EXCEPT !.agreed = x]) /\ Owns([v EXCEPT !.agreed = x]) = Owns(v)
  BY DEF IsClient, Owns
<1> QED
  BY <1>1, <1>2, <1>3

\* The same of a server's key.
LEMMA ServerField ==
  ASSUME NEW v, IsServer(v), NEW x
  PROVE  IsServer([v EXCEPT !.key = x]) /\ Owns([v EXCEPT !.key = x]) = Owns(v)
  BY DEF IsServer, Owns

\* And of what a session has opened.
LEMMA SessionField ==
  ASSUME NEW v, IsSession(v), NEW x
  PROVE  /\ IsSession([v EXCEPT !.opened = x]) /\ Owns([v EXCEPT !.opened = x]) = Owns(v)
         /\ [v EXCEPT !.opened = x] =
              [class |-> "session", end |-> v.end, inner |-> v.inner,
               answer |-> v.answer, serial |-> v.serial, opened |-> x]
<1>1. [v EXCEPT !.opened = x] =
        [class |-> "session", end |-> v.end, inner |-> v.inner,
         answer |-> v.answer, serial |-> v.serial, opened |-> x]
  BY DEF IsSession
<1> QED
  BY <1>1 DEF IsSession, Owns

\* The same, of a name for what comes out.
LEMMA SessionOpens ==
  ASSUME NEW v, IsSession(v), NEW x, NEW w, w = [v EXCEPT !.opened = x]
  PROVE  /\ IsSession(w) /\ w.inner = v.inner
         /\ w.answer = v.answer /\ w.end = v.end /\ w.serial = v.serial
         /\ w.opened = x
<1>1. w = [class |-> "session", end |-> v.end, inner |-> v.inner,
           answer |-> v.answer, serial |-> v.serial, opened |-> x]
  BY SessionField, Zenon
<1>2. IsSession(w)
  BY SessionField, Zenon
<1> QED
  BY <1>1, <1>2

\* GenerateChallenge changes two fields at once.
LEMMA ClientChallenge ==
  ASSUME NEW v, IsClient(v), NEW x
  PROVE  /\ IsClient([v EXCEPT !.challenge = x, !.agreed = FALSE])
         /\ Owns([v EXCEPT !.challenge = x, !.agreed = FALSE]) = Owns(v)
<1> DEFINE w == [v EXCEPT !.challenge = x]
<1>1. [v EXCEPT !.challenge = x, !.agreed = FALSE] = [w EXCEPT !.agreed = FALSE]
  BY Zenon
<1>2. IsClient(w) /\ Owns(w) = Owns(v)
  BY ClientField
<1> HIDE DEF w
<1>3. IsClient([w EXCEPT !.agreed = FALSE]) /\ Owns([w EXCEPT !.agreed = FALSE]) = Owns(w)
  BY <1>2, ClientField, Zenon
<1> QED
  BY <1>1, <1>2, <1>3, Zenon

\* The values of a class have that class's fields.
LEMMA HeldAre ==
  ASSUME IInv
  PROVE  /\ \A v \in Holds("client") : v \in values /\ IsClient(v)
         /\ \A v \in Holds("server") : v \in values /\ IsServer(v)
         /\ \A v \in Holds("session") : v \in values /\ IsSession(v)
<1>1. \A v : IsClient(v) => v.class = "client"
  BY DEF IsClient
<1>2. \A v : IsServer(v) => v.class = "server"
  BY DEF IsServer
<1>3. \A v : IsSession(v) => v.class = "session"
  BY DEF IsSession
<1> QED
  BY <1>1, <1>2, <1>3 DEF IInv, OwnedBy, Shape, Holds

-----------------------------------------------------------------------------
\* The functions of libcat.cpp that get an object change its fields.

\* None of them allocates or frees.
LEMMA FieldsOnly ==
  ASSUME NEW h, NEW self
  PROVE  /\ \A a : DOMAIN ClientEasyHandshake_Initialize(h, self, a).heap = DOMAIN h
         /\ \A a, b : DOMAIN ClientEasyHandshake_SetIdentity(h, self, a, b).heap = DOMAIN h
         /\ \A a : DOMAIN ClientEasyHandshake_GenerateChallenge(h, self, a).heap = DOMAIN h
         /\ \A a, b, c : DOMAIN ClientEasyHandshake_ProcessAnswer(h, self, a, b, c).heap = DOMAIN h
         /\ \A a : DOMAIN ServerEasyHandshake_FillCookieJar(h, self, a) = DOMAIN h
         /\ \A a, b : DOMAIN ServerEasyHandshake_Initialize(h, self, a, b).heap = DOMAIN h
         /\ \A a, b, c : DOMAIN ServerEasyHandshake_ProcessChallenge(h, self, a, b, c).heap = DOMAIN h
         /\ \A a, b, c : DOMAIN AuthenticatedEncryption_Encrypt(h, self, a, b, c).heap = DOMAIN h
         /\ \A a, b : DOMAIN AuthenticatedEncryption_Decrypt(h, self, a, b).heap = DOMAIN h
<1>1. \A a : DOMAIN ClientEasyHandshake_Initialize(h, self, a).heap = DOMAIN h
  BY DEF ClientEasyHandshake_Initialize, Called
<1>2. \A a, b : DOMAIN ClientEasyHandshake_SetIdentity(h, self, a, b).heap = DOMAIN h
  BY DEF ClientEasyHandshake_SetIdentity, Called
<1>3. \A a : DOMAIN ClientEasyHandshake_GenerateChallenge(h, self, a).heap = DOMAIN h
  BY DEF ClientEasyHandshake_GenerateChallenge, Called
<1>4. \A a, b, c : DOMAIN ClientEasyHandshake_ProcessAnswer(h, self, a, b, c).heap = DOMAIN h
  BY DEF ClientEasyHandshake_ProcessAnswer, Called
<1>5. \A a : DOMAIN ServerEasyHandshake_FillCookieJar(h, self, a) = DOMAIN h
  BY DEF ServerEasyHandshake_FillCookieJar
<1>6. \A a, b : DOMAIN ServerEasyHandshake_Initialize(h, self, a, b).heap = DOMAIN h
  BY DEF ServerEasyHandshake_Initialize, Called
<1>7. \A a, b, c : DOMAIN ServerEasyHandshake_ProcessChallenge(h, self, a, b, c).heap = DOMAIN h
  BY DEF ServerEasyHandshake_ProcessChallenge, Called
<1>8. \A a, b, c : DOMAIN AuthenticatedEncryption_Encrypt(h, self, a, b, c).heap = DOMAIN h
  BY DEF AuthenticatedEncryption_Encrypt
<1>9. \A a, b : DOMAIN AuthenticatedEncryption_Decrypt(h, self, a, b).heap = DOMAIN h
  BY DEF AuthenticatedEncryption_Decrypt
<1> QED
  BY <1>1, <1>2, <1>3, <1>4, <1>5, <1>6, <1>7, <1>8, <1>9

-----------------------------------------------------------------------------
\* What the methods of libcat.rs do.

\* A session is made for the heap in which its object is new.
LEMMA SessionGained ==
  ASSUME NEW V, NEW end, NEW answer, OwnedBy(DOMAIN heap, V)
  PROVE  OwnedBy(DOMAIN AuthenticatedEncryption_new(heap),
                 V \cup {Session(end, Fresh(heap), answer)})
<1> DEFINE w == Session(end, Fresh(heap), answer)
           h == AuthenticatedEncryption_new(heap)
<1>1. IsSession(w) /\ Owns(w) = {Fresh(heap)}
  BY DEF Session, IsSession, Owns
<1>2. /\ DOMAIN h = DOMAIN heap \cup {Fresh(heap)}
      /\ IsFiniteSet(DOMAIN h) /\ Fresh(heap) \notin DOMAIN heap
  BY NewAllocates DEF AuthenticatedEncryption_new, OwnedBy
<1>3. OwnedBy(DOMAIN heap \cup Owns(w), V \cup {w})
  BY <1>1, <1>2, ValueGained DEF Shape
<1> QED
  BY <1>1, <1>2, <1>3

\* The object of a session that did not come about is gone again.
LEMMA NoneLeft ==
  ASSUME NEW h, IsFiniteSet(DOMAIN heap),
         DOMAIN h = DOMAIN AuthenticatedEncryption_new(heap)
  PROVE  DOMAIN OutOfScope(h, Fresh(heap)) = DOMAIN heap
<1>1. /\ DOMAIN h = DOMAIN heap \cup {Fresh(heap)}
      /\ IsFiniteSet(DOMAIN h) /\ Fresh(heap) \notin DOMAIN heap
  BY NewAllocates DEF AuthenticatedEncryption_new
<1>2. DOMAIN OutOfScope(h, Fresh(heap)) = DOMAIN h \ {Fresh(heap)}
  BY <1>1, DeleteFrees DEF OutOfScope, AuthenticatedEncryption_drop
<1> QED
  BY <1>1, <1>2

\* ClientEasyHandshake::new.
LEMMA StepNewClient ==
  ASSUME IInv, NewClient
  PROVE  IInv'
<1> DEFINE w == [class |-> "client", inner |-> Fresh(heap), key |-> None,
                 challenge |-> None, agreed |-> FALSE]
<1>1. IsClient(w) /\ Owns(w) = {Fresh(heap)}
  BY DEF IsClient, Owns
<1>2. /\ DOMAIN heap' = DOMAIN heap \cup {Fresh(heap)}
      /\ IsFiniteSet(DOMAIN heap') /\ Fresh(heap) \notin DOMAIN heap
  BY NewAllocates DEF NewClient, ClientEasyHandshake_new, IInv, OwnedBy
<1>3. values' = values \cup {w}
  BY DEF NewClient, Gets
<1>4. /\ DOMAIN heap \cup Owns(w) = DOMAIN heap'
      /\ Owns(w) \cap DOMAIN heap = {}
  BY <1>1, <1>2
<1>5. OwnedBy(DOMAIN heap \cup Owns(w), values \cup {w})
  BY <1>1, <1>2, <1>4, ValueGained DEF Shape, IInv
<1> QED
  BY <1>3, <1>4, <1>5 DEF IInv

\* ServerEasyHandshake::new: the object and its cookie jar.
LEMMA StepNewServer ==
  ASSUME IInv, NewServer
  PROVE  IInv'
<1> DEFINE inner == Fresh(heap)
           h == ServerEasyHandshake_new(heap)
           jar == Fresh(h)
           w == [class |-> "server", inner |-> inner, _cookie_jar |-> jar,
                 key |-> None]
<1>1. /\ DOMAIN h = DOMAIN heap \cup {inner}
      /\ IsFiniteSet(DOMAIN h) /\ inner \notin DOMAIN heap
  BY NewAllocates DEF ServerEasyHandshake_new, IInv, OwnedBy
<1>2. /\ DOMAIN CookieJar_new(h) = DOMAIN h \cup {jar}
      /\ IsFiniteSet(DOMAIN CookieJar_new(h)) /\ jar \notin DOMAIN h
  BY <1>1, NewAllocates DEF CookieJar_new
<1>3. IsServer(w) /\ Owns(w) = {inner, jar}
  BY <1>1, <1>2 DEF IsServer, Owns
<1>4. DOMAIN heap' = DOMAIN CookieJar_new(h)
  BY FieldsOnly DEF NewServer
<1>5. values' = values \cup {w}
  BY DEF NewServer, Gets
<1>6. /\ DOMAIN heap \cup Owns(w) = DOMAIN CookieJar_new(h)
      /\ Owns(w) \cap DOMAIN heap = {}
  BY <1>1, <1>2, <1>3
<1>7. OwnedBy(DOMAIN heap \cup Owns(w), values \cup {w})
  BY <1>2, <1>3, <1>6, ValueGained DEF Shape, IInv
<1> QED
  BY <1>4, <1>5, <1>6, <1>7 DEF IInv

\* Initialize of a client or a server, whatever key it keeps.
LEMMA StepInitialized ==
  ASSUME IInv, NEW v \in values, NEW result, NEW public,
         IsClient(v) \/ IsServer(v), DOMAIN result.heap = DOMAIN heap,
         Initialized(v, result, public)
  PROVE  IInv'
<1> DEFINE w == [v EXCEPT !.key = Some(public)]
<1>1. DOMAIN heap' = DOMAIN heap
  BY DEF Initialized
<1>2. CASE result.ok
  <2>1. values' = (values \ {v}) \cup {w}
    BY <1>2 DEF Initialized, Became
  <2>2. Shape(w) /\ Owns(w) = Owns(v)
    BY ClientField, ServerField DEF Shape
  <2>3. OwnedBy(DOMAIN heap, (values \ {v}) \cup {w})
    BY <2>2, ValueChanged DEF IInv
  <2> QED
    BY <1>1, <2>1, <2>3 DEF IInv
<1>3. CASE ~ result.ok
  BY <1>1, <1>3, NothingMoves DEF Initialized, Keeps
<1> QED
  BY <1>2, <1>3

\* A challenge is generated.
LEMMA StepGenerateChallenge ==
  ASSUME IInv, NEW v \in values, IsClient(v), GenerateChallenge(v)
  PROVE  IInv'
<1> DEFINE nonce == Cardinality(challenges) + 1
           result == ClientEasyHandshake_GenerateChallenge(heap, v.inner, nonce)
           w == [v EXCEPT !.challenge = Some(OutArray(nonce)), !.agreed = FALSE]
<1>1. DOMAIN heap' = DOMAIN heap
  BY FieldsOnly DEF GenerateChallenge
<1>2. CASE result.ok
  <2>1. values' = (values \ {v}) \cup {w}
    BY <1>2 DEF GenerateChallenge, Became
  <2>2. Shape(w) /\ Owns(w) = Owns(v)
    BY ClientChallenge, Zenon DEF Shape
  <2>3. OwnedBy(DOMAIN heap, (values \ {v}) \cup {w})
    BY <2>2, ValueChanged DEF IInv
  <2> QED
    BY <1>1, <2>1, <2>3 DEF IInv
<1>3. CASE ~ result.ok
  BY <1>1, <1>3, NothingMoves DEF GenerateChallenge, Keeps
<1> QED
  BY <1>2, <1>3

\* A challenge is processed: the session it gives owns a new object.
LEMMA StepProcessChallenge ==
  ASSUME IInv, NEW v \in values, NEW challenge, ProcessChallenge(v, challenge)
  PROVE  IInv'
<1> DEFINE ae == Fresh(heap)
           answer == [id |-> Cardinality(answers) + 1, challenge |-> challenge,
                      key |-> IF v.key = None THEN 0 ELSE v.key[1]]
           result == ServerEasyHandshake_ProcessChallenge(
                       AuthenticatedEncryption_new(heap), v.inner, challenge, ae,
                       answer.id)
<1>1. DOMAIN result.heap = DOMAIN AuthenticatedEncryption_new(heap)
  BY DEF ServerEasyHandshake_ProcessChallenge, Called
<1>2. CASE result.ok
  <2>1. heap' = result.heap /\ values' = values \cup {Session("server", ae, answer)}
    BY <1>2 DEF ProcessChallenge, Gets
  <2>2. OwnedBy(DOMAIN AuthenticatedEncryption_new(heap),
                values \cup {Session("server", ae, answer)})
    BY SessionGained DEF IInv
  <2> QED
    BY <1>1, <2>1, <2>2 DEF IInv
<1>3. CASE ~ result.ok
  <2>1. heap' = OutOfScope(result.heap, ae) /\ UNCHANGED values
    BY <1>3 DEF ProcessChallenge, Keeps
  <2>2. DOMAIN OutOfScope(result.heap, ae) = DOMAIN heap
    BY <1>1, NoneLeft DEF IInv, OwnedBy
  <2> QED
    BY <2>1, <2>2, NothingMoves
<1> QED
  BY <1>2, <1>3

\* An answer is processed, with a new object or with one that is dropped.
LEMMA StepProcessAnswer ==
  ASSUME IInv, NEW v \in values, IsClient(v), NEW answer, ProcessAnswer(v, answer)
  PROVE  IInv'
<1> DEFINE ae == Fresh(heap)
           result(erase) == ClientEasyHandshake_ProcessAnswer(
                       AuthenticatedEncryption_new(heap), v.inner, answer, ae, erase)
           w == [v EXCEPT !.agreed = TRUE]
           V == (values \ {v}) \cup {w}
           s == Session("client", ae, answer)
<1>1. PICK erase \in BOOLEAN :
        IF result(erase).ok
        THEN heap' = result(erase).heap /\ values' = (values \ {v}) \cup {w, s}
        ELSE heap' = OutOfScope(result(erase).heap, ae) /\ UNCHANGED values
  BY DEF ProcessAnswer, Keeps
<1>2. DOMAIN result(erase).heap = DOMAIN AuthenticatedEncryption_new(heap)
  BY DEF ClientEasyHandshake_ProcessAnswer, Called
<1>3. CASE result(erase).ok
  <2>1. IsClient(w) /\ Owns(w) = Owns(v)
    BY ClientField, Zenon
  <2>2. OwnedBy(DOMAIN heap, V)
    BY <2>1, ValueChanged DEF IInv, Shape
  <2>3. OwnedBy(DOMAIN AuthenticatedEncryption_new(heap), V \cup {s})
    BY <2>2, SessionGained
  <2>4. heap' = result(erase).heap /\ values' = V \cup {s}
    BY <1>1, <1>3
  <2> QED
    BY <1>2, <2>3, <2>4 DEF IInv
<1>4. CASE ~ result(erase).ok
  <2>1. heap' = OutOfScope(result(erase).heap, ae) /\ UNCHANGED values
    BY <1>1, <1>4
  <2>2. DOMAIN OutOfScope(result(erase).heap, ae) = DOMAIN heap
    BY <1>2, NoneLeft DEF IInv, OwnedBy
  <2> QED
    BY <2>1, <2>2, NothingMoves
<1> QED
  BY <1>3, <1>4

\* A value goes with its objects.
LEMMA StepDrop ==
  ASSUME IInv, NEW v \in values, values' = values \ {v},
         DOMAIN heap' = DOMAIN heap \ Owns(v)
  PROVE  IInv'
  BY ValueDropped DEF IInv

\* A server drops its handshake and its cookie jar.
LEMMA StepDropServer ==
  ASSUME IInv, NEW v \in values, IsServer(v), DropServer(v)
  PROVE  IInv'
<1> DEFINE h == ServerEasyHandshake_drop(heap, v.inner)
<1>1. DOMAIN h = DOMAIN heap \ {v.inner} /\ IsFiniteSet(DOMAIN h)
  BY DeleteFrees DEF ServerEasyHandshake_drop, IInv, OwnedBy
<1>2. DOMAIN heap' = DOMAIN h \ {v._cookie_jar}
  BY <1>1, DeleteFrees DEF DropServer, CookieJar_drop
<1>3. Owns(v) = {v.inner, v._cookie_jar}
  BY DEF IsServer, Owns
<1> QED
  BY <1>1, <1>2, <1>3, StepDrop DEF DropServer, Drops
-----------------------------------------------------------------------------
\* The methods of a session and the generation of keys move nothing.
LEMMA StepSession ==
  ASSUME IInv, NEW v \in values, IsSession(v), SessionStep(v)
  PROVE  IInv'
<1>1. ASSUME NEW length, GenerateProof(v, length) PROVE IInv'
  BY <1>1, NothingMoves DEF GenerateProof, Keeps
<1>2. ASSUME NEW proof, ValidateProof(v, proof) PROVE IInv'
  BY <1>2, NothingMoves DEF ValidateProof, Keeps
<1>3. ASSUME NEW length, Encrypt(v, length) PROVE IInv'
  <2>1. DOMAIN heap' = DOMAIN heap
    BY <1>3 DEF Encrypt, AuthenticatedEncryption_Encrypt
  <2> QED
    BY <1>3, <2>1, NothingMoves DEF Encrypt, Keeps
<1>4. ASSUME NEW c, Decrypt(v, c) PROVE IInv'
  <2> DEFINE w == [v EXCEPT !.opened = @ \cup {c}]
  <2>1. DOMAIN heap' = DOMAIN heap
    BY <1>4 DEF Decrypt, AuthenticatedEncryption_Decrypt
  <2>2. IsSession(w) /\ Owns(w) = Owns(v)
    BY SessionField
  <2>3. CASE values' = (values \ {v}) \cup {w}
    BY <2>1, <2>2, <2>3, ValueChanged DEF IInv, Shape
  <2>4. CASE UNCHANGED values
    BY <2>1, <2>4, NothingMoves
  <2> QED
    BY <1>4, <2>3, <2>4 DEF Decrypt, Became, Keeps
<1>5. CASE DropSession(v)
  <2>1. Owns(v) = {v.inner}
    BY DEF IsSession, Owns
  <2>2. DOMAIN heap' = DOMAIN heap \ {v.inner}
    BY <1>5, DeleteFrees DEF DropSession, AuthenticatedEncryption_drop, IInv, OwnedBy
  <2> QED
    BY <1>5, <2>1, <2>2, StepDrop DEF DropSession, Drops
<1> QED
  BY <1>1, <1>2, <1>3, <1>4, <1>5 DEF SessionStep

\* Every step of a client.
LEMMA StepClient ==
  ASSUME IInv, NEW v \in values, IsClient(v), ClientStep(v)
  PROVE  IInv'
<1>1. ASSUME NEW pair, InitializeClient(v, pair) PROVE IInv'
  <2> DEFINE result == ClientEasyHandshake_Initialize(heap, v.inner, pair.public)
  <2>1. DOMAIN result.heap = DOMAIN heap
    BY DEF ClientEasyHandshake_Initialize, Called
  <2>2. Initialized(v, result, pair.public)
    BY <1>1 DEF InitializeClient
  <2> HIDE DEF result
  <2> QED
    BY <2>1, <2>2, StepInitialized
<1>2. ASSUME NEW pair, SetIdentity(v, pair) PROVE IInv'
  <2>1. DOMAIN heap' = DOMAIN heap
    BY <1>2, FieldsOnly DEF SetIdentity
  <2> QED
    BY <1>2, <2>1, NothingMoves DEF SetIdentity, Keeps
<1>3. ASSUME NEW answer, ProcessAnswer(v, answer) PROVE IInv'
  BY <1>3, StepProcessAnswer
<1>4. CASE GenerateServerKey(v)
  BY <1>4, NothingMoves DEF GenerateServerKey, Keeps
<1>5. CASE GenerateChallenge(v)
  BY <1>5, StepGenerateChallenge
<1>6. CASE DropClient(v)
  <2>1. Owns(v) = {v.inner}
    BY DEF IsClient, Owns
  <2>2. DOMAIN heap' = DOMAIN heap \ {v.inner}
    BY <1>6, DeleteFrees DEF DropClient, ClientEasyHandshake_drop, IInv, OwnedBy
  <2> QED
    BY <1>6, <2>1, <2>2, StepDrop DEF DropClient, Drops
<1> QED
  BY <1>1, <1>2, <1>3, <1>4, <1>5, <1>6 DEF ClientStep

\* Every step of a server.
LEMMA StepServer ==
  ASSUME IInv, NEW v \in values, IsServer(v), ServerStep(v)
  PROVE  IInv'
<1>1. ASSUME NEW pair, InitializeServer(v, pair) PROVE IInv'
  <2> DEFINE k == KeyArguments(pair)
             result == ServerEasyHandshake_Initialize(heap, v.inner, k[1], k[2])
  <2>1. DOMAIN result.heap = DOMAIN heap
    BY DEF ServerEasyHandshake_Initialize, Called
  <2>2. Initialized(v, result, pair.public)
    BY <1>1 DEF InitializeServer
  <2> HIDE DEF result
  <2> QED
    BY <2>1, <2>2, StepInitialized
<1>2. ASSUME NEW challenge, ProcessChallenge(v, challenge) PROVE IInv'
  BY <1>2, StepProcessChallenge
<1>3. CASE GenerateServerKey(v)
  BY <1>3, NothingMoves DEF GenerateServerKey, Keeps
<1>4. CASE DropServer(v)
  BY <1>4, StepDropServer
<1> QED
  BY <1>1, <1>2, <1>3, <1>4 DEF ServerStep

-----------------------------------------------------------------------------
\* The inductive invariant holds in every state of libcat.rs over libcat.cpp.
THEOREM HandshakeInvariant == Spec => []IInv
<1>1. Init => IInv
  <2>1. Init => DOMAIN heap = {} /\ values = {}
    BY DEF Init
  <2>2. OwnedBy({}, {})
    BY FS_EmptySet DEF OwnedBy
  <2> QED
    BY <2>1, <2>2 DEF IInv
<1>2. IInv /\ [Next]_vars => IInv'
  <2>1. SUFFICES ASSUME IInv, [Next]_vars PROVE IInv'
    OBVIOUS
  <2>2. CASE NewClient
    BY <2>1, <2>2, StepNewClient
  <2>3. CASE NewServer
    BY <2>1, <2>3, StepNewServer
  <2>4. ASSUME NEW v \in Holds("client"), ClientStep(v) PROVE IInv'
    BY <2>1, <2>4, HeldAre, StepClient
  <2>5. ASSUME NEW v \in Holds("server"), ServerStep(v) PROVE IInv'
    BY <2>1, <2>5, HeldAre, StepServer
  <2>6. ASSUME NEW v \in Holds("session"), SessionStep(v) PROVE IInv'
    BY <2>1, <2>6, HeldAre, StepSession
  <2>7. CASE UNCHANGED vars
    BY <2>1, <2>7, NothingMoves DEF vars
  <2> QED
    BY <2>1, <2>2, <2>3, <2>4, <2>5, <2>6, <2>7 DEF Next
<1> QED
  BY <1>1, <1>2, PTL DEF Spec

\* The C++ objects are those the Rust values own, each by one of them, however
\* many handshakes, answers and sessions there are: nothing leaks when a
\* handshake fails halfway and nothing is freed twice (libcat.rs:188-201,
\* 272-288, and the drops).
THEOREM HandshakesOwn == Spec => []Owned
<1>1. IInv => Owned
  BY DEF IInv, OwnedBy, Owned
<1> QED
  BY <1>1, HandshakeInvariant, PTL

-----------------------------------------------------------------------------
(***************************************************************************)
(* What the program knows of an object is what the object holds: a client  *)
(* and a server their keys, a client its challenge, unless libcat forgot   *)
(* the one that was answered, and a session the answer it came from and    *)
(* its end.                                                                *)
(***************************************************************************)
ClientHolds(v, h) ==
  /\ h[v.inner] = [class |-> "ClientEasyHandshake", key |-> v.key,
                   challenge |-> h[v.inner].challenge]
  /\ \/ h[v.inner].challenge = v.challenge
     \/ v.agreed /\ h[v.inner].challenge = None

ServerHolds(v, h) ==
  /\ h[v.inner] = [class |-> "ServerEasyHandshake", key |-> v.key]
  /\ h[v._cookie_jar].class = "CookieJar"

SessionHolds(v, h) ==
  h[v.inner] = [class |-> "AuthenticatedEncryption", session |-> Some(v.answer.id),
                end |-> v.end, iv |-> h[v.inner].iv, seen |-> h[v.inner].seen]

Matches(v, h) ==
  \/ IsClient(v) /\ ClientHolds(v, h)
  \/ IsServer(v) /\ ServerHolds(v, h)
  \/ IsSession(v) /\ SessionHolds(v, h)

\* The pairs of keys are pairs, and no challenge is an array of zeroes.
MadeRight ==
  /\ IsFiniteSet(keys)
  /\ \A pair \in keys : pair.public \in Nat \ {0} /\ pair.private = -pair.public
  /\ IsFiniteSet(challenges) /\ challenges \subseteq Nat \ {Zeroes}

\* A ciphertext is as long as what it carries and the overhead, as long as an
\* unsigned int holds that.
Whole(c) ==
  /\ c.meant \in Nat /\ c.carried = AsU32(c.meant)
  /\ c.length = AsU32(c.carried + OVERHEAD_BYTES)
  /\ c.session = Some(c.session[1])

AInv ==
  /\ MadeRight
  /\ \A c \in ciphertexts : Whole(c)
  /\ \A v \in values : Matches(v, heap)
  /\ HandshakesAgree
  /\ MessagesWhole

(***************************************************************************)
(* libcat numbers what an object encrypts, and remembers the numbers of    *)
(* what it decrypted: those of the ciphertexts the program saw come out.   *)
(* No two ciphertexts of one sender have the same number.                  *)
(***************************************************************************)
Counts(v, h) ==
  /\ v.opened \subseteq ciphertexts
  /\ h[v.inner].iv \in Nat
  /\ h[v.inner].seen = {o.iv : o \in v.opened}
  /\ \A c \in ciphertexts : c.by = v.serial => c.iv < h[v.inner].iv

Numbered ==
  /\ made \in Nat
  /\ \A c \in ciphertexts : c.by \in 1 .. made /\ c.iv \in Nat
  /\ \A c, d \in ciphertexts : c.by = d.by /\ c.iv = d.iv => c = d
  /\ \A v \in Holds("session") : v.serial \in 1 .. made /\ Counts(v, heap)
  /\ \A v, w \in Holds("session") : v.serial = w.serial => v = w

\* What the theorems below assume of the constants.
Sizes == U32 \in Nat \ {0} /\ MessageLength \subseteq Nat

\* A call on the objects of one value leaves those of the others.
LEMMA OthersMatch ==
  ASSUME NEW h, NEW k, NEW V, OwnedBy(DOMAIN h, V), NEW v \in V, NEW w \in V, v # w,
         \A p \in DOMAIN h \ Owns(v) : k[p] = h[p], Matches(w, h)
  PROVE  Matches(w, k)
<1>1. Owns(w) \subseteq DOMAIN h \ Owns(v)
  BY DEF OwnedBy
<1>2. \A p \in Owns(w) : k[p] = h[p]
  BY <1>1
<1>3. CASE IsClient(w) /\ ClientHolds(w, h)
  <2>1. w.inner \in Owns(w)
    BY DEF Owns
  <2> QED
    BY <1>2, <1>3, <2>1 DEF Matches, ClientHolds
<1>4. CASE IsServer(w) /\ ServerHolds(w, h)
  <2>1. Owns(w) = {w.inner, w._cookie_jar}
    BY <1>4 DEF IsServer, Owns
  <2> QED
    BY <1>2, <1>4, <2>1 DEF Matches, ServerHolds
<1>5. CASE IsSession(w) /\ SessionHolds(w, h)
  <2>1. w.inner \in Owns(w)
    BY DEF Owns
  <2> QED
    BY <1>2, <1>5, <2>1 DEF Matches, SessionHolds
<1> QED
  BY <1>3, <1>4, <1>5 DEF Matches

\* A heap that has the old objects and more.
LEMMA StillMatch ==
  ASSUME NEW h, NEW k, NEW V, OwnedBy(DOMAIN h, V),
         \A p \in DOMAIN h : k[p] = h[p], NEW w \in V, Matches(w, h)
  PROVE  Matches(w, k)
<1>1. Owns(w) \subseteq DOMAIN h
  BY DEF OwnedBy
<1>2. w.inner \in DOMAIN h /\ (IsServer(w) => w._cookie_jar \in DOMAIN h)
  BY <1>1 DEF Owns, IsServer
<1> QED
  BY <1>2 DEF Matches, ClientHolds, ServerHolds, SessionHolds

\* A value has one class.
LEMMA MatchesIs ==
  ASSUME NEW v, NEW h, Matches(v, h)
  PROVE  /\ IsClient(v) => ClientHolds(v, h)
         /\ IsServer(v) => ServerHolds(v, h)
         /\ IsSession(v) => SessionHolds(v, h)
<1>1. IsClient(v) => v.class = "client"
  BY DEF IsClient
<1>2. IsServer(v) => v.class = "server"
  BY DEF IsServer
<1>3. IsSession(v) => v.class = "session"
  BY DEF IsSession
<1> QED
  BY <1>1, <1>2, <1>3 DEF Matches

\* operator new leaves the other objects, and fills the new one.
LEMMA NewFills ==
  ASSUME NEW h, NEW object, IsFiniteSet(DOMAIN h)
  PROVE  /\ New(h, object)[Fresh(h)] = object
         /\ \A p \in DOMAIN h : New(h, object)[p] = h[p]
  BY NewAllocates DEF New

\* So does operator delete.
LEMMA DeleteLeaves ==
  ASSUME NEW h, NEW p
  PROVE  \A q \in DOMAIN h \ {p} : Delete(h, p)[q] = h[q]
  BY DEF Delete

-----------------------------------------------------------------------------
\* The methods once more: what they do to the objects, and what they say.

\* A call that ended as it could be expected, or said nothing.
LEMMA SaidRight ==
  ASSUME NEW method, NEW ok, NEW expected, method # "Decrypt",
         Ended(method, ok, expected), ok = expected, method = "Encrypt" => ok
  PROVE  HandshakesAgree' /\ MessagesWhole'
  BY DEF Ended, HandshakesAgree, MessagesWhole

\* A step that ends no call leaves nothing to be right or wrong about.
LEMMA SaidNothing ==
  ASSUME NothingToSay
  PROVE  HandshakesAgree' /\ MessagesWhole'
  BY DEF NothingToSay, HandshakesAgree, MessagesWhole

\* A step that makes nothing keeps what is known of what was made.
LEMMA MadeBefore ==
  ASSUME AInv, MadeNothing
  PROVE  MadeRight' /\ \A c \in ciphertexts' : Whole(c)
  BY DEF AInv, MadeNothing, MadeRight

\* ClientEasyHandshake::new: nothing is initialized on either side.
LEMMA AgreeNewClient ==
  ASSUME IInv, AInv, NewClient
  PROVE  AInv'
<1> DEFINE o == [class |-> "ClientEasyHandshake", key |-> None, challenge |-> None]
           w == [class |-> "client", inner |-> Fresh(heap), key |-> None,
                 challenge |-> None, agreed |-> FALSE]
<1>1. heap' = New(heap, o) /\ values' = values \cup {w}
  BY DEF NewClient, ClientEasyHandshake_new, Gets
<1>2. /\ heap'[Fresh(heap)] = o
      /\ \A p \in DOMAIN heap : heap'[p] = heap[p]
  BY <1>1, NewFills DEF IInv, OwnedBy
<1>3. Matches(w, heap')
  BY <1>2 DEF Matches, IsClient, ClientHolds
<1>4. \A v \in values : Matches(v, heap')
  BY <1>2, StillMatch DEF IInv, AInv
<1>5. HandshakesAgree' /\ MessagesWhole'
  BY SaidNothing DEF NewClient
<1>6. MadeRight' /\ \A c \in ciphertexts' : Whole(c)
  BY MadeBefore DEF NewClient
<1> QED
  BY <1>1, <1>3, <1>4, <1>5, <1>6 DEF AInv

\* ServerEasyHandshake::new: FillCookieJar leaves the handshake alone.
LEMMA AgreeNewServer ==
  ASSUME IInv, AInv, NewServer
  PROVE  AInv'
<1> DEFINE inner == Fresh(heap)
           o == [class |-> "ServerEasyHandshake", key |-> None]
           h == New(heap, o)
           jar == Fresh(h)
           j == [class |-> "CookieJar", filled |-> FALSE]
           k == New(h, j)
           w == [class |-> "server", inner |-> inner, _cookie_jar |-> jar,
                 key |-> None]
<1>1. heap' = [k EXCEPT ![jar].filled = TRUE] /\ values' = values \cup {w}
  BY DEF NewServer, ServerEasyHandshake_new, CookieJar_new,
     ServerEasyHandshake_FillCookieJar, Gets
<1>2. /\ IsFiniteSet(DOMAIN h) /\ DOMAIN h = DOMAIN heap \cup {inner}
      /\ h[inner] = o
      /\ \A p \in DOMAIN heap : h[p] = heap[p]
  BY NewFills, NewAllocates DEF IInv, OwnedBy
<1> HIDE DEF h
<1>3. /\ jar \notin DOMAIN h /\ DOMAIN k = DOMAIN h \cup {jar}
      /\ k[jar] = j
      /\ \A p \in DOMAIN h : k[p] = h[p]
  <2>1. jar \notin DOMAIN h /\ DOMAIN k = DOMAIN h \cup {jar}
    BY <1>2, NewAllocates
  <2>2. k[jar] = j /\ \A p \in DOMAIN h : k[p] = h[p]
    BY <1>2, NewFills
  <2> QED
    BY <2>1, <2>2
<1> HIDE DEF k, jar
<1>4. /\ \A p \in DOMAIN h : heap'[p] = h[p]
      /\ heap'[jar].class = "CookieJar"
  BY <1>1, <1>3
<1>5. Matches(w, heap')
  BY <1>2, <1>3, <1>4 DEF Matches, IsServer, ServerHolds
<1>6. \A p \in DOMAIN heap : heap'[p] = heap[p]
  BY <1>2, <1>4
<1>7. \A v \in values : Matches(v, heap')
  BY <1>6, StillMatch DEF IInv, AInv
<1>8. HandshakesAgree' /\ MessagesWhole'
  BY SaidNothing DEF NewServer
<1>9. MadeRight' /\ \A c \in ciphertexts' : Whole(c)
  BY MadeBefore DEF NewServer
<1> QED
  BY <1>1, <1>5, <1>7, <1>8, <1>9 DEF AInv

\* One value and its object change, the others stay as they are.
LEMMA OneChanged ==
  ASSUME IInv, AInv, NEW v \in values, NEW w, NEW k,
         \A p \in DOMAIN heap \ Owns(v) : k[p] = heap[p], Matches(w, k)
  PROVE  \A x \in (values \ {v}) \cup {w} : Matches(x, k)
<1>1. ASSUME NEW x \in values \ {v} PROVE Matches(x, k)
  BY <1>1, OthersMatch DEF IInv, AInv
<1> QED
  BY <1>1

\* A pair is taken, and both sides keep its public key.
LEMMA AgreeInitializeClient ==
  ASSUME IInv, AInv, NEW v \in values, IsClient(v), NEW pair \in keys,
         InitializeClient(v, pair)
  PROVE  AInv'
<1> DEFINE w == [v EXCEPT !.key = Some(pair.public)]
<1>1. pair.public > 0
  BY DEF AInv, MadeRight
<1>2. /\ heap' = [heap EXCEPT ![v.inner].key = Some(pair.public)]
      /\ values' = (values \ {v}) \cup {w}
      /\ Ended("Initialize", TRUE, TRUE) /\ MadeNothing
  BY <1>1 DEF InitializeClient, ClientEasyHandshake_Initialize, Called, Initialized,
     Became
<1>3. v.inner \in DOMAIN heap /\ Owns(v) = {v.inner} /\ ClientHolds(v, heap)
  BY MatchesIs DEF AInv, IInv, OwnedBy, Owns, IsClient
<1>4. IsClient(w) /\ w.inner = v.inner /\ w.key = Some(pair.public)
      /\ w.challenge = v.challenge /\ w.agreed = v.agreed
  BY DEF IsClient
<1> HIDE DEF w
<1>5. heap'[v.inner] = [class |-> "ClientEasyHandshake", key |-> Some(pair.public),
                        challenge |-> heap[v.inner].challenge]
  BY <1>2, <1>3 DEF ClientHolds
<1>6. Matches(w, heap')
  BY <1>3, <1>4, <1>5 DEF Matches, ClientHolds
<1>7. \A p \in DOMAIN heap \ Owns(v) : heap'[p] = heap[p]
  BY <1>2, <1>3
<1>8. \A x \in (values \ {v}) \cup {w} : Matches(x, heap')
  BY <1>6, <1>7, OneChanged
<1> QED
  BY <1>2, <1>8, SaidRight, MadeBefore DEF AInv

\* Initialize of a server takes a pair of keys, which match, and succeeds: the
\* object has the key that the value remembers (libcat.rs:254-268).
LEMMA AgreeInitializeServer ==
  ASSUME IInv, AInv, NEW v \in values, IsServer(v), NEW pair \in keys,
         InitializeServer(v, pair)
  PROVE  AInv'
<1> DEFINE w == [v EXCEPT !.key = Some(pair.public)]
<1>1. Pair(pair.public, pair.private)
  BY DEF AInv, MadeRight, Pair
<1>2. KeyArguments(pair)[1] = pair.public /\ KeyArguments(pair)[2] = pair.private
  BY DEF KeyArguments
<1>3. /\ heap' = [heap EXCEPT ![v.inner].key = Some(pair.public)]
      /\ values' = (values \ {v}) \cup {w}
      /\ Ended("Initialize", TRUE, TRUE) /\ MadeNothing
  BY <1>1, <1>2 DEF InitializeServer, ServerEasyHandshake_Initialize, Called,
     Initialized, Became
<1>4. /\ v.inner \in DOMAIN heap /\ v._cookie_jar \in DOMAIN heap
      /\ v.inner # v._cookie_jar
      /\ Owns(v) = {v.inner, v._cookie_jar} /\ ServerHolds(v, heap)
  BY MatchesIs DEF AInv, IInv, OwnedBy, Owns, IsServer
<1>5. IsServer(w) /\ w.inner = v.inner /\ w.key = Some(pair.public)
      /\ w._cookie_jar = v._cookie_jar
  BY DEF IsServer
<1> HIDE DEF w
<1>6. /\ heap'[v.inner] = [class |-> "ServerEasyHandshake", key |-> Some(pair.public)]
      /\ heap'[v._cookie_jar] = heap[v._cookie_jar]
  BY <1>3, <1>4 DEF ServerHolds
<1>7. Matches(w, heap')
  BY <1>4, <1>5, <1>6 DEF Matches, ServerHolds
<1>8. \A p \in DOMAIN heap \ Owns(v) : heap'[p] = heap[p]
  BY <1>3, <1>4
<1>9. \A x \in (values \ {v}) \cup {w} : Matches(x, heap')
  BY <1>7, <1>8, OneChanged
<1> QED
  BY <1>3, <1>9, SaidRight, MadeBefore DEF AInv

\* SetIdentity is called with pairs, which it takes.
LEMMA AgreeSetIdentity ==
  ASSUME IInv, AInv, NEW v \in values, NEW pair \in keys, SetIdentity(v, pair)
  PROVE  AInv'
<1>1. Pair(pair.public, pair.private)
  BY DEF AInv, MadeRight, Pair
<1>2. heap' = heap /\ values' = values /\ Ended("Initialize", TRUE, TRUE) /\ MadeNothing
  BY <1>1 DEF SetIdentity, ClientEasyHandshake_SetIdentity, Called, Keeps
<1> QED
  BY <1>2, SaidRight, MadeBefore DEF AInv

\* A pair of keys that is a pair.
LEMMA AgreeGenerateServerKey ==
  ASSUME IInv, AInv, NEW v, GenerateServerKey(v)
  PROVE  AInv'
<1> DEFINE pair == ClientEasyHandshake_GenerateServerKey
<1>1. keys' = keys \/ keys' = keys \cup {pair}
  BY DEF GenerateServerKey, ServerEasyHandshake_GenerateServerKey
<1>2. Cardinality(keys) \in Nat
  BY FS_CardinalityType DEF AInv, MadeRight
<1>3. pair.public \in Nat \ {0} /\ pair.private = -pair.public
  BY <1>2 DEF ClientEasyHandshake_GenerateServerKey
<1>4. IsFiniteSet(keys')
  BY <1>1, FS_AddElement DEF AInv, MadeRight
<1>5. MadeRight'
  BY <1>1, <1>3, <1>4 DEF GenerateServerKey, AInv, MadeRight
<1>6. HandshakesAgree' /\ MessagesWhole'
  BY SaidNothing DEF GenerateServerKey
<1> QED
  BY <1>5, <1>6 DEF GenerateServerKey, Keeps, AInv

\* A challenge that is no array of zeroes, as soon as there is a key; the
\* caller's array and the object hold the same.
LEMMA AgreeGenerateChallenge ==
  ASSUME IInv, AInv, NEW v \in values, IsClient(v), GenerateChallenge(v)
  PROVE  AInv'
<1> DEFINE nonce == Cardinality(challenges) + 1
           w == [v EXCEPT !.challenge = Some(nonce), !.agreed = FALSE]
<1>1. v.inner \in DOMAIN heap /\ Owns(v) = {v.inner} /\ ClientHolds(v, heap)
  BY MatchesIs DEF AInv, IInv, OwnedBy, Owns, IsClient
<1>2. heap[v.inner].key = v.key
  BY <1>1 DEF ClientHolds
<1>3. CASE v.key = None
  <2>1. /\ heap' = heap /\ values' = values
        /\ Ended("GenerateChallenge", FALSE, FALSE) /\ MadeNothing
    BY <1>2, <1>3 DEF GenerateChallenge, ClientEasyHandshake_GenerateChallenge, Called,
       Keeps, MadeNothing
  <2> QED
    BY <2>1, SaidRight, MadeBefore DEF AInv
<1>4. CASE v.key # None
  <2>1. /\ heap' = [heap EXCEPT ![v.inner].challenge = Some(nonce)]
        /\ values' = (values \ {v}) \cup {w}
        /\ challenges' = challenges \cup {nonce}
        /\ Ended("GenerateChallenge", TRUE, TRUE)
        /\ UNCHANGED <<keys, ciphertexts>>
    BY <1>2, <1>4 DEF GenerateChallenge, ClientEasyHandshake_GenerateChallenge, Called,
       Became, OutArray
  <2>2. nonce \in Nat \ {Zeroes}
    BY FS_CardinalityType DEF AInv, MadeRight, Zeroes
  <2>3. IsFiniteSet(challenges')
    BY <2>1, FS_AddElement DEF AInv, MadeRight
  <2>4. MadeRight'
    BY <2>1, <2>2, <2>3 DEF AInv, MadeRight
  <2> HIDE DEF nonce
  <2>5. IsClient(w) /\ w.inner = v.inner /\ w.key = v.key /\ w.challenge = Some(nonce)
    <3> DEFINE u == [v EXCEPT !.challenge = Some(nonce)]
    <3>1. /\ u.inner = v.inner /\ u.key = v.key /\ u.challenge = Some(nonce)
          /\ IsClient(u)
      BY DEF IsClient
    <3>2. w = [u EXCEPT !.agreed = FALSE]
      BY Zenon
    <3>3. IsClient(w)
      BY ClientChallenge, Zenon
    <3> HIDE DEF u, w
    <3>4. /\ u = [class |-> "client", inner |-> u.inner, key |-> u.key,
                  challenge |-> u.challenge, agreed |-> u.agreed]
      BY <3>1 DEF IsClient
    <3>5. w.inner = u.inner /\ w.key = u.key /\ w.challenge = u.challenge
      BY <3>2, <3>4
    <3> QED
      BY <3>1, <3>3, <3>5
  <2> HIDE DEF w
  <2>6. heap'[v.inner] = [class |-> "ClientEasyHandshake", key |-> v.key,
                          challenge |-> Some(nonce)]
    BY <1>1, <2>1 DEF ClientHolds
  <2>7. Matches(w, heap')
    BY <2>5, <2>6 DEF Matches, ClientHolds
  <2>8. \A p \in DOMAIN heap \ Owns(v) : heap'[p] = heap[p]
    BY <1>1, <2>1
  <2>9. \A x \in (values \ {v}) \cup {w} : Matches(x, heap')
    BY <2>7, <2>8, OneChanged
  <2> QED
    BY <2>1, <2>4, <2>9, SaidRight DEF AInv
<1> QED
  BY <1>3, <1>4

\* What a call sees of the objects there were before the session's.
LEMMA SessionFills ==
  ASSUME IInv
  PROVE  LET k == AuthenticatedEncryption_new(heap)
         IN  /\ DOMAIN k = DOMAIN heap \cup {Fresh(heap)}
             /\ Fresh(heap) \notin DOMAIN heap
             /\ k[Fresh(heap)] = [class |-> "AuthenticatedEncryption", session |-> None,
                                  end |-> "none", iv |-> 0, seen |-> {}]
             /\ \A p \in DOMAIN heap : k[p] = heap[p]
<1>1. IsFiniteSet(DOMAIN heap)
  BY DEF IInv, OwnedBy
<1>2. \A object :
        /\ DOMAIN New(heap, object) = DOMAIN heap \cup {Fresh(heap)}
        /\ Fresh(heap) \notin DOMAIN heap
  BY <1>1, NewAllocates
<1>3. \A object :
        /\ New(heap, object)[Fresh(heap)] = object
        /\ \A p \in DOMAIN heap : New(heap, object)[p] = heap[p]
  BY <1>1, NewFills
<1> QED
  BY <1>2, <1>3 DEF AuthenticatedEncryption_new

\* When it goes out of scope the others are as they were.
LEMMA OutOfScopeLeaves ==
  ASSUME IInv
  PROVE  \A p \in DOMAIN heap :
           OutOfScope(AuthenticatedEncryption_new(heap), Fresh(heap))[p] = heap[p]
  BY SessionFills, DeleteLeaves DEF OutOfScope, AuthenticatedEncryption_drop

\* A server with a key answers every challenge that was generated, and only
\* those, and the session is the answer's.
LEMMA AgreeProcessChallenge ==
  ASSUME IInv, AInv, NEW v \in values, IsServer(v),
         NEW challenge \in challenges \cup {Zeroes}, ProcessChallenge(v, challenge)
  PROVE  AInv'
<1> DEFINE ae == Fresh(heap)
           k == AuthenticatedEncryption_new(heap)
           answer == [id |-> Cardinality(answers) + 1, challenge |-> challenge,
                      key |-> IF v.key = None THEN 0 ELSE v.key[1]]
           s == Session("server", ae, answer)
           ok == v.key # None /\ challenge \in challenges
<1>1. v.inner \in DOMAIN heap /\ ServerHolds(v, heap)
  BY MatchesIs DEF AInv, IInv, OwnedBy, Owns, IsServer
<1>2. /\ DOMAIN k = DOMAIN heap \cup {ae} /\ ae \notin DOMAIN heap
      /\ k[ae] = [class |-> "AuthenticatedEncryption", session |-> None,
                  end |-> "none", iv |-> 0, seen |-> {}]
      /\ \A p \in DOMAIN heap : k[p] = heap[p]
  BY SessionFills
<1>3. k[v.inner].key = v.key
  BY <1>1, <1>2 DEF ServerHolds
<1>4. challenge \in challenges <=> challenge # Zeroes
  BY DEF AInv, MadeRight
<1> HIDE DEF k, ae
<1>5. MadeRight' /\ \A c \in ciphertexts' : Whole(c)
  BY DEF ProcessChallenge, AInv, MadeRight
<1>6. CASE ok
  <2>1. /\ heap' = [k EXCEPT ![ae].session = Some(answer.id), ![ae].end = "server"]
        /\ values' = values \cup {s}
        /\ Ended("ProcessChallenge", TRUE, TRUE)
    BY <1>3, <1>4, <1>6
       DEF ProcessChallenge, ServerEasyHandshake_ProcessChallenge, Called, Gets, k, ae
  <2>2. heap'[ae] = [class |-> "AuthenticatedEncryption", session |-> Some(answer.id),
                     end |-> "server", iv |-> 0, seen |-> {}]
    BY <1>2, <2>1
  <2>3. \A p \in DOMAIN heap : heap'[p] = heap[p]
    BY <1>2, <2>1
  <2>4. IsSession(s) /\ s.inner = ae /\ s.answer = answer /\ s.end = "server"
    BY DEF IsSession, Session
  <2> HIDE DEF s
  <2>5. Matches(s, heap')
    BY <2>2, <2>4 DEF Matches, SessionHolds
  <2>6. \A x \in values : Matches(x, heap')
    BY <2>3, StillMatch DEF IInv, AInv
  <2> QED
    BY <1>5, <2>1, <2>5, <2>6, SaidRight DEF AInv
<1>7. CASE ~ ok
  <2>1. /\ heap' = OutOfScope(k, ae) /\ values' = values
        /\ Ended("ProcessChallenge", FALSE, FALSE)
    BY <1>3, <1>4, <1>7
       DEF ProcessChallenge, ServerEasyHandshake_ProcessChallenge, Called, Keeps, k, ae
  <2>2. \A p \in DOMAIN heap : heap'[p] = heap[p]
    BY <2>1, OutOfScopeLeaves DEF k, ae
  <2>3. \A x \in values : Matches(x, heap')
    BY <2>2, StillMatch DEF IInv, AInv
  <2> QED
    BY <1>5, <2>1, <2>3, SaidRight DEF AInv
<1> QED
  BY <1>6, <1>7

\* A client gets a session from the answer it could expect one from; whether the
\* challenge is forgotten then, the program cannot tell before it tries again.
LEMMA AgreeProcessAnswer ==
  ASSUME IInv, AInv, NEW v \in values, IsClient(v), NEW answer, ProcessAnswer(v, answer)
  PROVE  AInv'
<1> DEFINE ae == Fresh(heap)
           k == AuthenticatedEncryption_new(heap)
           s == Session("client", ae, answer)
           w == [v EXCEPT !.agreed = TRUE]
           ok == /\ heap[v.inner].challenge = Some(answer.challenge)
                 /\ v.key = Some(answer.key)
<1>1. v.inner \in DOMAIN heap /\ Owns(v) = {v.inner} /\ ClientHolds(v, heap)
  BY MatchesIs DEF AInv, IInv, OwnedBy, Owns, IsClient
<1>2. /\ DOMAIN k = DOMAIN heap \cup {ae} /\ ae \notin DOMAIN heap
      /\ k[ae] = [class |-> "AuthenticatedEncryption", session |-> None,
                  end |-> "none", iv |-> 0, seen |-> {}]
      /\ \A p \in DOMAIN heap : k[p] = heap[p]
  BY SessionFills
<1>3. k[v.inner] = heap[v.inner] /\ heap[v.inner].key = v.key
  BY <1>1, <1>2 DEF ClientHolds
<1>4. MadeRight' /\ \A c \in ciphertexts' : Whole(c)
  BY MadeBefore DEF ProcessAnswer
<1>5. PICK erase \in BOOLEAN :
        LET result == ClientEasyHandshake_ProcessAnswer(k, v.inner, answer, ae, erase)
        IN  /\ IF result.ok
               THEN heap' = result.heap /\ values' = (values \ {v}) \cup {w, s}
               ELSE heap' = OutOfScope(result.heap, ae) /\ UNCHANGED values
            /\ IF v.agreed /\ ~ result.ok THEN NothingToSay
               ELSE Ended("ProcessAnswer", result.ok, Fits(v, answer))
  BY DEF ProcessAnswer, Keeps
<1> HIDE DEF k, ae
<1>6. CASE ok
  <2>1. /\ heap' = [k EXCEPT ![ae].session = Some(answer.id), ![ae].end = "client",
                             ![v.inner].challenge = IF erase THEN None ELSE @]
        /\ values' = (values \ {v}) \cup {w, s}
        /\ Ended("ProcessAnswer", TRUE, Fits(v, answer))
    BY <1>3, <1>5, <1>6 DEF ClientEasyHandshake_ProcessAnswer, Called
  <2>2. heap'[ae] = [class |-> "AuthenticatedEncryption", session |-> Some(answer.id),
                     end |-> "client", iv |-> 0, seen |-> {}]
    BY <1>1, <1>2, <2>1
  <2>3. \A p \in DOMAIN heap \ Owns(v) : heap'[p] = heap[p]
    BY <1>1, <1>2, <2>1
  <2>4. heap'[v.inner] = [class |-> "ClientEasyHandshake", key |-> v.key,
                          challenge |-> IF erase THEN None ELSE heap[v.inner].challenge]
    BY <1>1, <1>2, <2>1 DEF ClientHolds
  <2>5. heap[v.inner].challenge = v.challenge
    BY <1>1, <1>6 DEF ClientHolds, Some, None
  <2>6. Ended("ProcessAnswer", TRUE, TRUE)
    BY <1>6, <2>1, <2>5 DEF Fits
  <2>7. IsClient(w) /\ w.inner = v.inner /\ w.key = v.key
        /\ w.challenge = v.challenge /\ w.agreed = TRUE
    <3>1. IsClient(w)
      BY ClientField, Zenon
    <3>2. "agreed" \in DOMAIN v
      BY DEF IsClient
    <3>3. w.agreed = TRUE
      BY <3>2, Zenon
    <3> QED
      BY <3>1, <3>3 DEF IsClient
  <2>8. IsSession(s) /\ s.inner = ae /\ s.answer = answer /\ s.end = "client"
    BY DEF IsSession, Session
  <2> HIDE DEF s, w
  <2>9. Matches(w, heap')
    BY <2>4, <2>5, <2>7 DEF Matches, ClientHolds
  <2>10. Matches(s, heap')
    BY <2>2, <2>8 DEF Matches, SessionHolds
  <2>11. \A x \in (values \ {v}) \cup {w} : Matches(x, heap')
    BY <2>3, <2>9, OneChanged
  <2>12. \A x \in (values \ {v}) \cup {w, s} : Matches(x, heap')
    BY <2>10, <2>11
  <2> QED
    BY <1>4, <2>1, <2>6, <2>12, SaidRight DEF AInv
<1>7. CASE ~ ok
  <2>1. /\ heap' = OutOfScope(k, ae) /\ values' = values
        /\ IF v.agreed THEN NothingToSay
           ELSE Ended("ProcessAnswer", FALSE, Fits(v, answer))
    BY <1>3, <1>5, <1>7 DEF ClientEasyHandshake_ProcessAnswer, Called
  <2>2. ~ v.agreed => ~ Fits(v, answer)
    BY <1>1, <1>7 DEF Fits, ClientHolds
  <2>3. HandshakesAgree' /\ MessagesWhole'
    <3>1. CASE v.agreed
      BY <2>1, <3>1, SaidNothing
    <3>2. CASE ~ v.agreed
      <4>1. Ended("ProcessAnswer", FALSE, FALSE)
        BY <2>1, <2>2, <3>2 DEF Fits
      <4> QED
        BY <4>1, SaidRight
    <3> QED
      BY <3>1, <3>2
  <2>4. \A p \in DOMAIN heap : heap'[p] = heap[p]
    BY <2>1, OutOfScopeLeaves DEF k, ae
  <2>5. \A x \in values : Matches(x, heap')
    BY <2>4, StillMatch DEF IInv, AInv
  <2> QED
    BY <1>4, <2>1, <2>3, <2>5 DEF AInv
<1> QED
  BY <1>6, <1>7

\* A drop leaves the objects of the other values.
LEMMA AgreeDrop ==
  ASSUME IInv, AInv, NEW v \in values, Drops(v), NothingToSay, MadeNothing,
         \A p \in DOMAIN heap \ Owns(v) : heap'[p] = heap[p]
  PROVE  AInv'
<1>1. ASSUME NEW x \in values \ {v} PROVE Matches(x, heap')
  BY <1>1, OthersMatch DEF IInv, AInv
<1> QED
  BY <1>1, SaidNothing, MadeBefore DEF AInv, Drops

\* A server that is dropped takes nothing with it that the two ends of a
\* session agreed on.
LEMMA AgreeDropServer ==
  ASSUME IInv, AInv, NEW v \in values, IsServer(v), DropServer(v)
  PROVE  AInv'
<1>1. Owns(v) = {v.inner, v._cookie_jar}
  BY DEF Owns, IsServer
<1>2. \A p \in DOMAIN heap \ Owns(v) : heap'[p] = heap[p]
  BY <1>1 DEF DropServer, CookieJar_drop, ServerEasyHandshake_drop, Delete
<1> QED
  BY <1>2, AgreeDrop DEF DropServer

\* A client and a session have one object each.
LEMMA AgreeDropOne ==
  ASSUME IInv, AInv, NEW v \in values, IsClient(v) \/ IsSession(v),
         DropClient(v) \/ DropSession(v)
  PROVE  AInv'
<1>1. Owns(v) = {v.inner}
  BY DEF Owns, IsClient, IsSession
<1>2. heap' = Delete(heap, v.inner)
  BY DEF DropClient, DropSession, ClientEasyHandshake_drop,
     AuthenticatedEncryption_drop
<1>3. \A p \in DOMAIN heap \ Owns(v) : heap'[p] = heap[p]
  BY <1>1, <1>2, DeleteLeaves
<1> QED
  BY <1>3, AgreeDrop DEF DropClient, DropSession

-----------------------------------------------------------------------------
\* The methods of a session.

\* What a number that fits a u32 is as one, and what any number is.
LEMMA AsU32Facts ==
  ASSUME Sizes, NEW n \in Nat
  PROVE  /\ AsU32(n) \in 0 .. U32 - 1
         /\ n < U32 => AsU32(n) = n
  BY DEF Sizes, AsU32

\* The object of a session.
LEMMA SessionHas ==
  ASSUME IInv, AInv, NEW v \in values, IsSession(v)
  PROVE  /\ v.inner \in DOMAIN heap /\ Owns(v) = {v.inner} /\ SessionHolds(v, heap)
         /\ heap[v.inner].session = Some(v.answer.id) /\ heap[v.inner].end = v.end
<1>1. v.inner \in DOMAIN heap /\ Owns(v) = {v.inner} /\ SessionHolds(v, heap)
  BY MatchesIs DEF AInv, IInv, OwnedBy, Owns, IsSession
<1> QED
  BY <1>1 DEF SessionHolds

\* The object of a session has the fields of an AuthenticatedEncryption.
LEMMA SessionFields ==
  ASSUME IInv, AInv, NEW v \in values, IsSession(v)
  PROVE  /\ v.inner \in DOMAIN heap
         /\ heap[v.inner] = [class |-> "AuthenticatedEncryption",
                             session |-> heap[v.inner].session,
                             end |-> heap[v.inner].end, iv |-> heap[v.inner].iv,
                             seen |-> heap[v.inner].seen]
  BY SessionHas DEF SessionHolds

\* Proofs of the length the caller asks for, as long as that is one.
LEMMA AgreeGenerateProof ==
  ASSUME IInv, AInv, NEW v \in values,
         NEW length \in {PROOF_BYTES, PROOF_BYTES + 1}, GenerateProof(v, length)
  PROVE  AInv'
<1>1. AuthenticatedEncryption_GenerateProof(heap, v.inner, length)
        <=> length <= PROOF_BYTES
  BY DEF AuthenticatedEncryption_GenerateProof, PROOF_BYTES
<1> DEFINE ok == AuthenticatedEncryption_GenerateProof(heap, v.inner, length)
<1>2. Ended("GenerateProof", ok, length <= PROOF_BYTES)
  BY DEF GenerateProof
<1>3. ok \in BOOLEAN /\ (length <= PROOF_BYTES) \in BOOLEAN
  BY DEF AuthenticatedEncryption_GenerateProof, PROOF_BYTES
<1> HIDE DEF ok
<1>4. HandshakesAgree' /\ MessagesWhole'
  <2>1. ok = (length <= PROOF_BYTES)
    BY <1>1, <1>3 DEF ok
  <2> QED
    BY <1>2, <2>1, SaidRight
<1>5. UNCHANGED <<heap, values, keys, challenges, ciphertexts>>
  BY DEF GenerateProof, Keeps
<1> QED
  BY <1>4, <1>5 DEF AInv, MadeRight

\* A proof is valid at the other end of its session and nowhere else.
LEMMA AgreeValidateProof ==
  ASSUME IInv, AInv, NEW v \in values, IsSession(v), NEW proof, ValidateProof(v, proof)
  PROVE  AInv'
<1> DEFINE ok == AuthenticatedEncryption_ValidateProof(heap, v.inner, proof, proof.length)
           expected == FromOther(v, proof.session, proof.end)
<1>1. Ended("ValidateProof", ok, expected)
  BY DEF ValidateProof
<1>2. ok <=> expected
  BY SessionHas DEF AuthenticatedEncryption_ValidateProof, FromOther, Some
<1>3. ok \in BOOLEAN /\ expected \in BOOLEAN
  BY DEF AuthenticatedEncryption_ValidateProof, FromOther
<1> HIDE DEF ok, expected
<1>4. HandshakesAgree' /\ MessagesWhole'
  BY <1>1, <1>2, <1>3, SaidRight
<1>5. UNCHANGED <<heap, values>> /\ MadeNothing
  BY DEF ValidateProof, Keeps
<1> QED
  BY <1>4, <1>5, MadeBefore DEF AInv

\* The fields iv and seen are the library's own.
LEMMA SessionCounts ==
  ASSUME IInv, AInv, NEW v \in values, IsSession(v), NEW k,
         \A p \in DOMAIN heap \ {v.inner} : k[p] = heap[p],
         k[v.inner] = [class |-> "AuthenticatedEncryption",
                       session |-> heap[v.inner].session, end |-> heap[v.inner].end,
                       iv |-> k[v.inner].iv, seen |-> k[v.inner].seen]
  PROVE  \A x \in values : Matches(x, k)
<1>1. Owns(v) = {v.inner}
  BY SessionHas
<1>2. Matches(v, k)
  BY SessionHas DEF Matches, SessionHolds
<1>3. \A x \in (values \ {v}) \cup {v} : Matches(x, k)
  BY <1>1, <1>2, OneChanged
<1> QED
  BY <1>3

\* A message that fits with its overhead is encrypted; one that does not is
\* refused or cut.
LEMMA AgreeEncrypt ==
  ASSUME Sizes, IInv, AInv, NEW v \in values, IsSession(v),
         NEW length \in MessageLength, Encrypt(v, length)
  PROVE  AInv'
<1> DEFINE len == length + OVERHEAD_BYTES
           sum == AsU32(AsU32(length) + OVERHEAD_BYTES)
           k == [heap EXCEPT ![v.inner].iv = @ + 1]
           c == [by |-> v.serial, session |-> heap[v.inner].session,
                 end |-> heap[v.inner].end, iv |-> heap[v.inner].iv,
                 meant |-> length, carried |-> AsU32(length), length |-> sum]
           ok(notices) == /\ sum <= AsU32(len)
                          /\ notices => sum = AsU32(length) + OVERHEAD_BYTES
<1>0. /\ v.inner \in DOMAIN heap
      /\ heap[v.inner] = [class |-> "AuthenticatedEncryption",
                          session |-> heap[v.inner].session,
                          end |-> heap[v.inner].end, iv |-> heap[v.inner].iv,
                          seen |-> heap[v.inner].seen]
  BY SessionFields
<1>1. length \in Nat /\ len \in Nat /\ OVERHEAD_BYTES = 11
  BY DEF Sizes, OVERHEAD_BYTES, IV_BYTES, MAC_BYTES
<1>2. PICK notices \in BOOLEAN :
        /\ IF ok(notices) THEN heap' = k /\ ciphertexts' = ciphertexts \cup {c}
           ELSE UNCHANGED <<heap, ciphertexts>>
        /\ IF len < U32 THEN Ended("Encrypt", ok(notices), TRUE) ELSE NothingToSay
        /\ UNCHANGED <<values, keys, challenges>>
  BY DEF Encrypt, AuthenticatedEncryption_Encrypt, Resized, Keeps
<1>3. AsU32(length) \in 0 .. U32 - 1 /\ AsU32(len) \in 0 .. U32 - 1
  BY <1>1, AsU32Facts
<1>4. len < U32 => ok(notices) = TRUE
  <2>1. len < U32 => AsU32(len) = len /\ AsU32(length) = length
    BY <1>1, AsU32Facts DEF Sizes
  <2>2. len < U32 => sum = len
    BY <2>1
  <2> QED
    BY <1>1, <2>1, <2>2
<1>5. HandshakesAgree' /\ MessagesWhole'
  <2>1. CASE len < U32
    <3>1. Ended("Encrypt", TRUE, TRUE)
      BY <1>2, <1>4, <2>1
    <3> QED
      BY <3>1, SaidRight
  <2>2. CASE ~ (len < U32)
    BY <1>2, <2>2, SaidNothing
  <2> QED
    BY <2>1, <2>2
<1>6. MadeRight'
  BY <1>2 DEF AInv, MadeRight
<1>7. CASE ok(notices)
  <2>1. heap' = k /\ ciphertexts' = ciphertexts \cup {c}
    BY <1>2, <1>7
  <2>2. Whole(c)
    <3>1. c.session = Some(c.session[1])
      BY SessionHas DEF Some
    <3> QED
      BY <1>1, <3>1 DEF Whole
  <2>3. \A p \in DOMAIN heap \ {v.inner} : heap'[p] = heap[p]
    BY <2>1
  <2>4. heap'[v.inner] = [class |-> "AuthenticatedEncryption",
                       session |-> heap[v.inner].session, end |-> heap[v.inner].end,
                       iv |-> heap'[v.inner].iv, seen |-> heap'[v.inner].seen]
    BY <1>0, <2>1
  <2> HIDE DEF k, c
  <2>5. \A x \in values : Matches(x, heap')
    BY <2>3, <2>4, SessionCounts
  <2> QED
    BY <1>2, <1>5, <1>6, <2>1, <2>2, <2>5 DEF AInv
<1>8. CASE ~ ok(notices)
  BY <1>2, <1>5, <1>6, <1>8 DEF AInv
<1> QED
  BY <1>7, <1>8

\* What is decrypted is whole, comes from the other end and comes once.
LEMMA AgreeDecrypt ==
  ASSUME Sizes, IInv, AInv, Numbered, NEW v \in Holds("session"), IsSession(v),
         NEW c \in ciphertexts, Decrypt(v, c)
  PROVE  AInv'
<1> DEFINE ok == /\ AsU32(c.length) = c.carried + OVERHEAD_BYTES
                 /\ heap[v.inner].session = c.session
                 /\ heap[v.inner].end # c.end
                 /\ c.iv \notin heap[v.inner].seen
           expected == FromOther(v, c.session[1], c.end) /\ c \notin v.opened
           sure == Sure(v, c)
           k == [heap EXCEPT ![v.inner].seen = @ \cup {c.iv}]
           w == [v EXCEPT !.opened = @ \cup {c}]
           length == AsU32(c.length) - OVERHEAD_BYTES
<1>0. /\ v.inner \in DOMAIN heap /\ v \in values
      /\ heap[v.inner] = [class |-> "AuthenticatedEncryption",
                          session |-> heap[v.inner].session,
                          end |-> heap[v.inner].end, iv |-> heap[v.inner].iv,
                          seen |-> heap[v.inner].seen]
  BY SessionFields DEF Holds
<1>1. /\ IF ok THEN heap' = k /\ values' = (values \ {v}) \cup {w}
         ELSE UNCHANGED <<heap, values>>
      /\ outcome' = [method |-> "Decrypt", ok |-> ok, expected |-> expected,
                     sure |-> sure, meant |-> c.meant, length |-> length]
      /\ MadeNothing
  BY DEF Decrypt, AuthenticatedEncryption_Decrypt, Resized, Keeps, Became
<1>2. Whole(c) /\ c.meant \in Nat /\ OVERHEAD_BYTES = 11
  BY DEF AInv, Whole, OVERHEAD_BYTES, IV_BYTES, MAC_BYTES
<1>3. c.carried \in 0 .. U32 - 1 /\ (c.meant < U32 => c.carried = c.meant)
  BY <1>2, AsU32Facts DEF Whole
<1>4. c.meant + OVERHEAD_BYTES < U32 => AsU32(c.length) = c.carried + OVERHEAD_BYTES
  BY <1>2, <1>3, AsU32Facts DEF Whole, Sizes
<1>5. heap[v.inner].session = c.session /\ heap[v.inner].end # c.end
        <=> FromOther(v, c.session[1], c.end)
  BY <1>0, <1>2, SessionHas DEF Whole, FromOther, Some
<1>6. ok => expected
  <2>1. c \in v.opened => c.iv \in heap[v.inner].seen
    BY DEF Numbered, Counts
  <2> QED
    BY <1>5, <2>1
<1>7. expected /\ sure => ok
  <2>1. SUFFICES ASSUME expected, sure PROVE c.iv \notin heap[v.inner].seen
    BY <1>4, <1>5 DEF Sure
  <2>2. SUFFICES ASSUME c.iv \in heap[v.inner].seen PROVE FALSE
    OBVIOUS
  <2>3. PICK o \in v.opened : o.iv = c.iv
    BY <2>2 DEF Numbered, Counts
  <2>4. o \in ciphertexts /\ o.by = c.by
    BY <2>1, <2>3 DEF Numbered, Counts, Sure
  <2> QED
    BY <2>1, <2>3, <2>4 DEF Numbered
<1>8. ok /\ c.meant < U32 => length = c.meant
  BY <1>2, <1>3
<1>9. MadeRight' /\ \A d \in ciphertexts' : Whole(d)
  BY <1>1, MadeBefore
<1>10. \A x \in values' : Matches(x, heap')
  <2>1. CASE ok
    <3>1. heap' = k /\ values' = (values \ {v}) \cup {w}
      BY <1>1, <2>1
    <3>2. \A p \in DOMAIN heap \ Owns(v) : heap'[p] = heap[p]
      BY <1>0, <3>1, SessionHas
    <3>3. heap'[v.inner] = [class |-> "AuthenticatedEncryption",
                         session |-> heap[v.inner].session, end |-> heap[v.inner].end,
                         iv |-> heap'[v.inner].iv, seen |-> heap'[v.inner].seen]
      <4> HIDE DEF ok, w
      <4> QED
        BY <1>0, <3>1
    <3>4. IsSession(w) /\ w.inner = v.inner /\ w.answer = v.answer /\ w.end = v.end
      <4> DEFINE x == v.opened \cup {c}
      <4>1. w = [v EXCEPT !.opened = x]
        OBVIOUS
      <4> HIDE DEF x, w
      <4> QED
        BY <1>0, <4>1, SessionOpens
    <3> HIDE DEF k, w
    <3>5. Matches(w, heap')
      BY <1>0, <3>3, <3>4, SessionHas DEF Matches, SessionHolds
    <3> QED
      BY <1>0, <3>1, <3>2, <3>5, OneChanged
  <2>2. CASE ~ ok
    BY <1>1, <2>2 DEF AInv
  <2> QED
    BY <2>1, <2>2
<1> HIDE DEF ok, expected, sure, length, k, w
<1>11. HandshakesAgree' /\ MessagesWhole'
  <2>1. /\ outcome'.method = "Decrypt" /\ outcome'.ok = ok
        /\ outcome'.expected = expected /\ outcome'.sure = sure
        /\ outcome'.meant = c.meant /\ outcome'.length = length
    BY <1>1
  <2> QED
    BY <1>6, <1>7, <1>8, <2>1 DEF HandshakesAgree, MessagesWhole
<1> QED
  BY <1>9, <1>10, <1>11 DEF AInv

-----------------------------------------------------------------------------
\* The numbers of the ciphertexts.

\* A session that stays as it is keeps its numbers when no ciphertext is made.
LEMMA NumbersKept ==
  ASSUME Numbered, UNCHANGED ciphertexts, made' \in {made, made + 1},
         \A w \in Holds("session")' :
           w \in Holds("session") /\ heap'[w.inner] = heap[w.inner]
  PROVE  Numbered'
<1>1. made' \in Nat /\ \A i \in 1 .. made : i \in 1 .. made'
  BY DEF Numbered
<1>2. \A w \in Holds("session")' : w.serial \in 1 .. made' /\ Counts(w, heap)'
  BY <1>1 DEF Numbered, Counts
<1>3. \A c \in ciphertexts' : c.by \in 1 .. made' /\ c.iv \in Nat
  BY <1>1 DEF Numbered
<1>4. \A v, w \in Holds("session")' : v.serial = w.serial => v = w
  BY DEF Numbered
<1> QED
  BY <1>1, <1>2, <1>3, <1>4 DEF Numbered

\* The objects of a client and a server are no session's.
LEMMA NotTheirs ==
  ASSUME IInv, NEW v \in values, NEW w \in Holds("session"), v # w,
         \A p \in DOMAIN heap \ Owns(v) : heap'[p] = heap[p]
  PROVE  heap'[w.inner] = heap[w.inner]
<1>1. w \in values /\ Owns(w) = {w.inner}
  BY HeldAre DEF Owns, IsSession
<1>2. w.inner \in DOMAIN heap \ Owns(v)
  BY <1>1 DEF IInv, OwnedBy
<1> QED
  BY <1>2

\* So the steps of clients and servers that make no session keep the numbers.
LEMMA NumbersElsewhere ==
  ASSUME IInv, Numbered, NEW v \in values, v.class # "session",
         \A p \in DOMAIN heap \ Owns(v) : heap'[p] = heap[p],
         \A w \in values' : w.class = "session" => w \in values,
         UNCHANGED ciphertexts, UNCHANGED made
  PROVE  Numbered'
<1>1. ASSUME NEW w \in Holds("session")'
      PROVE  w \in Holds("session") /\ heap'[w.inner] = heap[w.inner]
  <2>1. w \in Holds("session") /\ v # w
    BY <1>1 DEF Holds
  <2> QED
    BY <2>1, NotTheirs
<1> QED
  BY <1>1, NumbersKept

\* A new session has opened nothing and encrypted nothing.
LEMMA NumbersBegin ==
  ASSUME Numbered, made' = made + 1, UNCHANGED ciphertexts,
         NEW s, s.serial = made + 1, s.opened = {},
         heap'[s.inner].iv = 0, heap'[s.inner].seen = {},
         \A w \in Holds("session")' :
           w # s => w \in Holds("session") /\ heap'[w.inner] = heap[w.inner]
  PROVE  Numbered'
<1>1. made \in Nat /\ made' \in Nat /\ \A i \in 1 .. made : i \in 1 .. made' /\ i # made + 1
  BY DEF Numbered
<1>2. ASSUME NEW w \in Holds("session")'
      PROVE  w.serial \in 1 .. made' /\ Counts(w, heap)'
  <2>1. CASE w = s
    <3>1. \A c \in ciphertexts' : c.by # s.serial
      BY <1>1 DEF Numbered
    <3>2. Counts(s, heap)'
      BY <3>1 DEF Counts
    <3> QED
      BY <1>1, <2>1, <3>2
  <2>2. CASE w # s
    BY <1>1, <1>2, <2>2 DEF Numbered, Counts
  <2> QED
    BY <2>1, <2>2
<1>3. \A c \in ciphertexts' : c.by \in 1 .. made' /\ c.iv \in Nat
  BY <1>1 DEF Numbered
<1>4. ASSUME NEW v \in Holds("session")', NEW w \in Holds("session")',
             v.serial = w.serial
      PROVE  v = w
  BY <1>1, <1>4 DEF Numbered
<1> QED
  BY <1>1, <1>2, <1>3, <1>4 DEF Numbered

\* Initialize keeps the pointers, and a client or a server is no session.
LEMMA NumbersInitialized ==
  ASSUME IInv, Numbered, NEW v \in values, IsClient(v) \/ IsServer(v),
         NEW result, NEW public,
         \A p \in DOMAIN heap \ Owns(v) : result.heap[p] = heap[p],
         Initialized(v, result, public)
  PROVE  Numbered'
<1> DEFINE w == [v EXCEPT !.key = Some(public)]
<1>1. v.class # "session" /\ w.class # "session"
  BY ClientField, ServerField DEF IsClient, IsServer
<1>2. /\ values' = values \/ values' = (values \ {v}) \cup {w}
      /\ UNCHANGED <<made, ciphertexts>> /\ heap' = result.heap
  BY DEF Initialized, Became, Keeps, MadeNothing
<1> HIDE DEF w
<1>3. \A x \in values' : x.class = "session" => x \in values
  BY <1>1, <1>2
<1> QED
  BY <1>1, <1>2, <1>3, NumbersElsewhere

\* Every step of a client: the only one that makes a session is ProcessAnswer.
LEMMA NumbersClient ==
  ASSUME IInv, Numbered, NEW v \in Holds("client"), ClientStep(v)
  PROVE  Numbered'
<1>1. v \in values /\ IsClient(v) /\ v.class # "session" /\ Owns(v) = {v.inner}
  BY HeldAre DEF IsClient, Owns
<1>2. ASSUME NEW pair \in keys, InitializeClient(v, pair) PROVE Numbered'
  <2> DEFINE result == ClientEasyHandshake_Initialize(heap, v.inner, pair.public)
  <2>1. \A p \in DOMAIN heap \ Owns(v) : result.heap[p] = heap[p]
    BY <1>1 DEF ClientEasyHandshake_Initialize, Called
  <2>2. Initialized(v, result, pair.public)
    BY <1>2 DEF InitializeClient
  <2> HIDE DEF result
  <2> QED
    BY <1>1, <2>1, <2>2, NumbersInitialized
<1>3. ASSUME NEW pair \in keys, SetIdentity(v, pair) PROVE Numbered'
  <2>1. \A p \in DOMAIN heap \ Owns(v) : heap'[p] = heap[p]
    BY <1>3 DEF SetIdentity, ClientEasyHandshake_SetIdentity, Called
  <2>2. UNCHANGED <<values, made, ciphertexts>>
    BY <1>3 DEF SetIdentity, Keeps, MadeNothing
  <2> QED
    BY <1>1, <2>1, <2>2, NumbersElsewhere
<1>4. ASSUME NEW answer \in answers, ProcessAnswer(v, answer) PROVE Numbered'
  <2> DEFINE ae == Fresh(heap)
             k == AuthenticatedEncryption_new(heap)
             s == Session("client", ae, answer)
             w == [v EXCEPT !.agreed = TRUE]
             result(erase) ==
               ClientEasyHandshake_ProcessAnswer(k, v.inner, answer, ae, erase)
  <2>1. PICK erase \in BOOLEAN :
          IF result(erase).ok
          THEN /\ heap' = result(erase).heap
               /\ values' = (values \ {v}) \cup {w, s} /\ made' = made + 1
          ELSE heap' = OutOfScope(result(erase).heap, ae) /\ UNCHANGED <<values, made>>
    BY <1>4 DEF ProcessAnswer, Keeps
  <2>2. UNCHANGED ciphertexts
    BY <1>4 DEF ProcessAnswer, MadeNothing
  <2>3. /\ DOMAIN k = DOMAIN heap \cup {ae} /\ ae \notin DOMAIN heap
        /\ k[ae].iv = 0 /\ k[ae].seen = {}
        /\ k[ae] = [class |-> "AuthenticatedEncryption", session |-> None,
                    end |-> "none", iv |-> 0, seen |-> {}]
        /\ \A p \in DOMAIN heap : k[p] = heap[p]
    BY SessionFills
  <2>4. v.inner \in DOMAIN heap
    BY <1>1 DEF IInv, OwnedBy
  <2>5. CASE result(erase).ok
    <3> HIDE DEF k, ae, s, w
    <3>1. heap' = [k EXCEPT ![ae].session = Some(answer.id), ![ae].end = "client",
                            ![v.inner].challenge = IF erase THEN None ELSE @]
      BY <2>1, <2>5 DEF ClientEasyHandshake_ProcessAnswer, Called
    <3>2. heap'[ae].iv = 0 /\ heap'[ae].seen = {}
      BY <2>3, <2>4, <3>1
    <3>3. \A p \in DOMAIN heap \ Owns(v) : heap'[p] = heap[p]
      BY <1>1, <2>3, <2>4, <3>1
    <3>4. s.inner = ae /\ s.serial = made + 1 /\ s.opened = {}
      BY DEF s, Session
    <3>5. w.class # "session"
      BY <1>1, ClientField DEF w, IsClient
    <3>6. ASSUME NEW x \in Holds("session")', x # s
          PROVE  x \in Holds("session") /\ heap'[x.inner] = heap[x.inner]
      <4>1. x \in Holds("session") /\ x # v
        BY <1>1, <2>1, <2>5, <3>5, <3>6 DEF Holds
      <4> QED
        BY <1>1, <3>3, <4>1, NotTheirs
    <3> QED
      BY <2>1, <2>2, <2>5, <3>2, <3>4, <3>6, NumbersBegin
  <2>6. CASE ~ result(erase).ok
    <3>1. heap' = OutOfScope(k, ae)
      BY <2>1, <2>6 DEF ClientEasyHandshake_ProcessAnswer, Called
    <3>2. \A p \in DOMAIN heap \ Owns(v) : heap'[p] = heap[p]
      BY <3>1, OutOfScopeLeaves
    <3> QED
      BY <1>1, <2>1, <2>2, <2>6, <3>2, NumbersElsewhere
  <2> QED
    BY <2>5, <2>6
<1>5. CASE GenerateServerKey(v)
  BY <1>1, <1>5, NumbersElsewhere DEF GenerateServerKey, Keeps
<1>6. CASE GenerateChallenge(v)
  <2> DEFINE nonce == Cardinality(challenges) + 1
             w == [v EXCEPT !.challenge = Some(OutArray(nonce)), !.agreed = FALSE]
  <2>1. \A p \in DOMAIN heap \ Owns(v) : heap'[p] = heap[p]
    BY <1>1, <1>6 DEF GenerateChallenge, ClientEasyHandshake_GenerateChallenge, Called
  <2>2. w.class # "session"
    <3>1. IsClient(w)
      BY <1>1, ClientChallenge, Zenon
    <3> HIDE DEF w
    <3> QED
      BY <3>1 DEF IsClient
  <2>3. /\ values' = values \/ values' = (values \ {v}) \cup {w}
        /\ UNCHANGED <<made, ciphertexts>>
    BY <1>6 DEF GenerateChallenge, Became, Keeps
  <2> HIDE DEF w
  <2>4. \A x \in values' : x.class = "session" => x \in values
    BY <2>2, <2>3
  <2> QED
    BY <1>1, <2>1, <2>3, <2>4, NumbersElsewhere
<1>7. CASE DropClient(v)
  <2>1. \A p \in DOMAIN heap \ Owns(v) : heap'[p] = heap[p]
    BY <1>1, <1>7, DeleteLeaves DEF DropClient, ClientEasyHandshake_drop
  <2> QED
    BY <1>1, <1>7, <2>1, NumbersElsewhere DEF DropClient, Drops, MadeNothing
<1> QED
  BY <1>2, <1>3, <1>4, <1>5, <1>6, <1>7 DEF ClientStep

\* Every step of a server.
LEMMA NumbersServer ==
  ASSUME IInv, Numbered, NEW v \in Holds("server"), ServerStep(v)
  PROVE  Numbered'
<1>1. /\ v \in values /\ IsServer(v) /\ v.class # "session"
      /\ Owns(v) = {v.inner, v._cookie_jar}
  BY HeldAre DEF IsServer, Owns
<1>2. ASSUME NEW pair \in keys, InitializeServer(v, pair) PROVE Numbered'
  <2> DEFINE a == KeyArguments(pair)
             result == ServerEasyHandshake_Initialize(heap, v.inner, a[1], a[2])
  <2>1. \A p \in DOMAIN heap \ Owns(v) : result.heap[p] = heap[p]
    BY <1>1 DEF ServerEasyHandshake_Initialize, Called
  <2>2. Initialized(v, result, pair.public)
    BY <1>2 DEF InitializeServer
  <2> HIDE DEF result
  <2> QED
    BY <1>1, <2>1, <2>2, NumbersInitialized
<1>3. ASSUME NEW challenge \in challenges \cup {Zeroes}, ProcessChallenge(v, challenge)
      PROVE  Numbered'
  <2> DEFINE ae == Fresh(heap)
             k == AuthenticatedEncryption_new(heap)
             answer == [id |-> Cardinality(answers) + 1, challenge |-> challenge,
                        key |-> IF v.key = None THEN 0 ELSE v.key[1]]
             s == Session("server", ae, answer)
             result == ServerEasyHandshake_ProcessChallenge(k, v.inner, challenge, ae,
                                                            answer.id)
  <2>1. /\ IF result.ok
           THEN heap' = result.heap /\ values' = values \cup {s} /\ made' = made + 1
           ELSE heap' = OutOfScope(result.heap, ae) /\ UNCHANGED <<values, made>>
        /\ UNCHANGED ciphertexts
    BY <1>3 DEF ProcessChallenge, Gets, Keeps
  <2>2. /\ DOMAIN k = DOMAIN heap \cup {ae} /\ ae \notin DOMAIN heap
        /\ k[ae] = [class |-> "AuthenticatedEncryption", session |-> None,
                    end |-> "none", iv |-> 0, seen |-> {}]
        /\ \A p \in DOMAIN heap : k[p] = heap[p]
    BY SessionFills
  <2>3. CASE result.ok
    <3> HIDE DEF k, ae, s, answer
    <3>1. heap' = [k EXCEPT ![ae].session = Some(answer.id), ![ae].end = "server"]
      BY <2>1, <2>3 DEF ServerEasyHandshake_ProcessChallenge, Called
    <3>2. heap'[ae].iv = 0 /\ heap'[ae].seen = {}
      BY <2>2, <3>1
    <3>3. \A p \in DOMAIN heap : heap'[p] = heap[p]
      BY <2>2, <3>1
    <3>4. s.inner = ae /\ s.serial = made + 1 /\ s.opened = {}
      BY DEF s, Session
    <3>5. ASSUME NEW x \in Holds("session")', x # s
          PROVE  x \in Holds("session") /\ heap'[x.inner] = heap[x.inner]
      <4>1. x \in Holds("session")
        BY <2>1, <2>3, <3>5 DEF Holds
      <4>2. x # v
        BY <1>1, <4>1 DEF Holds
      <4> QED
        BY <1>1, <3>3, <4>1, <4>2, NotTheirs
    <3> QED
      BY <2>1, <2>3, <3>2, <3>4, <3>5, NumbersBegin
  <2>4. CASE ~ result.ok
    <3>1. heap' = OutOfScope(k, ae)
      BY <2>1, <2>4 DEF ServerEasyHandshake_ProcessChallenge, Called
    <3>2. \A p \in DOMAIN heap \ Owns(v) : heap'[p] = heap[p]
      BY <3>1, OutOfScopeLeaves
    <3> QED
      BY <1>1, <2>1, <2>4, <3>2, NumbersElsewhere
  <2> QED
    BY <2>3, <2>4
<1>4. CASE GenerateServerKey(v)
  BY <1>1, <1>4, NumbersElsewhere DEF GenerateServerKey, Keeps
<1>5. CASE DropServer(v)
  <2>1. \A p \in DOMAIN heap \ Owns(v) : heap'[p] = heap[p]
    BY <1>1, <1>5 DEF DropServer, CookieJar_drop, ServerEasyHandshake_drop, Delete
  <2> QED
    BY <1>1, <1>5, <2>1, NumbersElsewhere DEF DropServer, Drops, MadeNothing
<1> QED
  BY <1>2, <1>3, <1>4, <1>5 DEF ServerStep

\* A ciphertext gets the next number of its sender, which has no other sender's
\* serial.
LEMMA NumbersEncrypt ==
  ASSUME IInv, AInv, Numbered, NEW v \in Holds("session"), NEW length,
         Encrypt(v, length)
  PROVE  Numbered'
<1> DEFINE k == [heap EXCEPT ![v.inner].iv = @ + 1]
<1>0. v \in values /\ IsSession(v)
  BY HeldAre
<1>1. v.inner \in DOMAIN heap /\ Owns(v) = {v.inner}
      /\ heap[v.inner] = [class |-> "AuthenticatedEncryption",
                          session |-> heap[v.inner].session,
                          end |-> heap[v.inner].end, iv |-> heap[v.inner].iv,
                          seen |-> heap[v.inner].seen]
  BY <1>0, SessionFields, SessionHas
<1>2. UNCHANGED <<values, made>>
  BY DEF Encrypt, Keeps
<1>3. CASE UNCHANGED <<heap, ciphertexts>>
  BY <1>2, <1>3, NumbersKept DEF Holds
<1>4. ASSUME heap' = k,
             NEW c, ciphertexts' = ciphertexts \cup {c}, c.by = v.serial,
             c.iv = heap[v.inner].iv
      PROVE  Numbered'
  <2>1. heap'[v.inner].iv = heap[v.inner].iv + 1 /\ heap'[v.inner].seen = heap[v.inner].seen
    BY <1>1, <1>4
  <2>2. \A p \in DOMAIN heap \ Owns(v) : heap'[p] = heap[p]
    BY <1>1, <1>4
  <2> HIDE DEF k
  <2>3. /\ made \in Nat /\ heap[v.inner].iv \in Nat /\ v.serial \in 1 .. made
        /\ \A d \in ciphertexts : d.by = v.serial => d.iv < heap[v.inner].iv
        /\ \A d \in ciphertexts : d.iv \in Nat
    BY DEF Numbered, Counts
  <2>4. \A d \in ciphertexts' : d.by \in 1 .. made' /\ d.iv \in Nat
    BY <1>2, <1>4, <2>3 DEF Numbered
  <2>5. ASSUME NEW d \in ciphertexts PROVE ~ (d.by = c.by /\ d.iv = c.iv)
    BY <1>4, <2>3
  <2>6. \A d, e \in ciphertexts' : d.by = e.by /\ d.iv = e.iv => d = e
    BY <1>4, <2>5 DEF Numbered
  <2>7. Counts(v, heap)'
    BY <1>4, <2>1, <2>3 DEF Numbered, Counts
  <2>8. ASSUME NEW w \in Holds("session"), w # v PROVE Counts(w, heap)'
    <3>1. heap'[w.inner] = heap[w.inner]
      BY <1>0, <2>2, <2>8, NotTheirs
    <3>2. w.serial # v.serial
      BY <2>8 DEF Numbered
    <3> QED
      BY <1>4, <2>8, <3>1, <3>2 DEF Numbered, Counts
  <2>9. Holds("session")' = Holds("session")
    BY <1>2 DEF Holds
  <2> QED
    BY <1>2, <2>4, <2>6, <2>7, <2>8, <2>9 DEF Numbered
<1>5. PICK notices \in BOOLEAN :
        \/ UNCHANGED <<heap, ciphertexts>>
        \/ /\ heap' = k
           /\ \E c : /\ ciphertexts' = ciphertexts \cup {c}
                     /\ c.by = v.serial /\ c.iv = heap[v.inner].iv
  <2> DEFINE sum == AsU32(AsU32(length) + OVERHEAD_BYTES)
             c == [by |-> v.serial, session |-> heap[v.inner].session,
                   end |-> heap[v.inner].end, iv |-> heap[v.inner].iv,
                   meant |-> length, carried |-> AsU32(length), length |-> sum]
  <2>1. \/ UNCHANGED <<heap, ciphertexts>>
        \/ heap' = k /\ ciphertexts' = ciphertexts \cup {c}
    BY DEF Encrypt, AuthenticatedEncryption_Encrypt, Resized
  <2>2. c.by = v.serial /\ c.iv = heap[v.inner].iv
    OBVIOUS
  <2> HIDE DEF c, k
  <2> QED
    BY <2>1, <2>2
<1> QED
  BY <1>3, <1>4, <1>5

\* What is opened is remembered on both sides.
LEMMA NumbersDecrypt ==
  ASSUME IInv, AInv, Numbered, NEW v \in Holds("session"), NEW c \in ciphertexts,
         Decrypt(v, c)
  PROVE  Numbered'
<1> DEFINE k == [heap EXCEPT ![v.inner].seen = @ \cup {c.iv}]
           x == v.opened \cup {c}
           w == [v EXCEPT !.opened = x]
<1>0. v \in values /\ IsSession(v)
  BY HeldAre
<1>1. v.inner \in DOMAIN heap /\ Owns(v) = {v.inner}
      /\ heap[v.inner] = [class |-> "AuthenticatedEncryption",
                          session |-> heap[v.inner].session,
                          end |-> heap[v.inner].end, iv |-> heap[v.inner].iv,
                          seen |-> heap[v.inner].seen]
  BY <1>0, SessionFields, SessionHas
<1>2. UNCHANGED <<made, ciphertexts>>
  BY DEF Decrypt, Keeps, Became, MadeNothing
<1>3. \/ UNCHANGED <<heap, values>>
      \/ heap' = k /\ values' = (values \ {v}) \cup {w}
  BY DEF Decrypt, AuthenticatedEncryption_Decrypt, Became, Keeps
<1>4. CASE UNCHANGED <<heap, values>>
  BY <1>2, <1>4, NumbersKept DEF Holds
<1>5. CASE heap' = k /\ values' = (values \ {v}) \cup {w}
  <2>1. heap'[v.inner].iv = heap[v.inner].iv
        /\ heap'[v.inner].seen = heap[v.inner].seen \cup {c.iv}
    BY <1>1, <1>5
  <2>2. \A p \in DOMAIN heap \ Owns(v) : heap'[p] = heap[p]
    BY <1>1, <1>5
  <2> HIDE DEF x
  <2>0. w = [v EXCEPT !.opened = x]
    OBVIOUS
  <2> HIDE DEF w
  <2>3. w.inner = v.inner /\ w.serial = v.serial /\ w.opened = x /\ w.class = "session"
    <3>1. IsSession(w) /\ w.inner = v.inner /\ w.serial = v.serial /\ w.opened = x
      BY <1>0, <2>0, SessionOpens
    <3> QED
      BY <3>1 DEF IsSession
  <2> USE DEF x
  <2> HIDE DEF k
  <2>4. /\ v.serial \in 1 .. made /\ Counts(v, heap)
    BY DEF Numbered
  <2>5. heap'[w.inner].seen = {o.iv : o \in w.opened}
    BY <2>1, <2>3, <2>4 DEF Counts
  <2>6. Counts(w, heap)'
    BY <1>2, <2>1, <2>3, <2>4, <2>5 DEF Counts
  <2>7. ASSUME NEW u \in Holds("session"), u # v PROVE Counts(u, heap)' /\ u.serial # v.serial
    <3>1. heap'[u.inner] = heap[u.inner]
      BY <1>0, <2>2, <2>7, NotTheirs
    <3> QED
      BY <1>2, <2>7, <3>1 DEF Numbered, Counts
  <2>8. Holds("session")' = (Holds("session") \ {v}) \cup {w}
    BY <1>5, <2>3 DEF Holds
  <2>9. \A u, y \in Holds("session")' : u.serial = y.serial => u = y
    BY <2>3, <2>7, <2>8 DEF Numbered
  <2>10. \A u \in Holds("session")' : u.serial \in 1 .. made' /\ Counts(u, heap)'
    BY <1>2, <2>3, <2>4, <2>6, <2>7, <2>8 DEF Numbered
  <2> QED
    BY <1>2, <2>9, <2>10 DEF Numbered
<1> QED
  BY <1>3, <1>4, <1>5

\* Every step.
LEMMA NumberedStep ==
  IInv /\ AInv /\ Numbered /\ [Next]_vars => Numbered'
<1>1. SUFFICES ASSUME IInv, AInv, Numbered, [Next]_vars PROVE Numbered'
  OBVIOUS
<1>2. ASSUME UNCHANGED ciphertexts, made' \in {made, made + 1},
             \A p \in DOMAIN heap : heap'[p] = heap[p],
             \A w \in values' : w.class = "session" => w \in values
      PROVE  Numbered'
  <2>1. ASSUME NEW w \in Holds("session")'
        PROVE  w \in Holds("session") /\ heap'[w.inner] = heap[w.inner]
    <3>1. w \in Holds("session")
      BY <1>2, <2>1 DEF Holds
    <3>2. w \in values /\ w.inner \in Owns(w)
      BY <1>1, <3>1, HeldAre DEF Owns, IsSession
    <3>3. w.inner \in DOMAIN heap
      BY <1>1, <3>2 DEF IInv, OwnedBy
    <3> QED
      BY <1>2, <3>1, <3>3
  <2> QED
    BY <1>1, <1>2, <2>1, NumbersKept
<1>3. CASE NewClient
  <2>1. \A p \in DOMAIN heap : heap'[p] = heap[p]
    BY <1>1, <1>3, NewFills DEF NewClient, ClientEasyHandshake_new, IInv, OwnedBy
  <2> QED
    BY <1>2, <1>3, <2>1 DEF NewClient, Gets, MadeNothing
<1>4. CASE NewServer
  <2> DEFINE h == ServerEasyHandshake_new(heap)
             jar == Fresh(h)
             k == CookieJar_new(h)
  <2>1. heap' = [k EXCEPT ![jar].filled = TRUE]
    BY <1>4 DEF NewServer, ServerEasyHandshake_FillCookieJar
  <2>2. /\ IsFiniteSet(DOMAIN h) /\ DOMAIN heap \subseteq DOMAIN h
        /\ \A p \in DOMAIN heap : h[p] = heap[p]
    <3>1. IsFiniteSet(DOMAIN heap)
      BY <1>1 DEF IInv, OwnedBy
    <3>2. PICK object : h = New(heap, object)
      BY DEF ServerEasyHandshake_new
    <3>3. \A p \in DOMAIN heap : New(heap, object)[p] = heap[p]
      BY <3>1, NewFills
    <3>4. /\ IsFiniteSet(DOMAIN New(heap, object))
          /\ DOMAIN New(heap, object) = DOMAIN heap \cup {Fresh(heap)}
      BY <3>1, NewAllocates, Zenon
    <3> HIDE DEF h
    <3> QED
      BY <3>2, <3>3, <3>4
  <2> HIDE DEF h
  <2>3. jar \notin DOMAIN h /\ \A p \in DOMAIN h : k[p] = h[p]
    <3>1. PICK object : k = New(h, object)
      BY DEF CookieJar_new
    <3> HIDE DEF k
    <3>2. \A p \in DOMAIN h : New(h, object)[p] = h[p]
      BY <2>2, NewFills
    <3>3. jar \notin DOMAIN h
      BY <2>2, NewAllocates, Zenon
    <3> QED
      BY <3>1, <3>2, <3>3
  <2> HIDE DEF jar, k
  <2>4. \A p \in DOMAIN heap : heap'[p] = heap[p]
    BY <2>1, <2>2, <2>3
  <2> QED
    BY <1>2, <1>4, <2>4 DEF NewServer, Gets, MadeNothing
<1>5. ASSUME NEW v \in Holds("client"), ClientStep(v) PROVE Numbered'
  BY <1>1, <1>5, NumbersClient
<1>6. ASSUME NEW v \in Holds("server"), ServerStep(v) PROVE Numbered'
  BY <1>1, <1>6, NumbersServer
<1>7. ASSUME NEW v \in Holds("session"), SessionStep(v) PROVE Numbered'
  <2>1. ASSUME NEW length, GenerateProof(v, length) PROVE Numbered'
    BY <1>1, <2>1, NumbersKept DEF GenerateProof, Keeps, Holds
  <2>2. ASSUME NEW proof, ValidateProof(v, proof) PROVE Numbered'
    BY <1>1, <2>2, NumbersKept DEF ValidateProof, Keeps, Holds, MadeNothing
  <2>3. CASE DropSession(v)
    <3>1. v \in values /\ Owns(v) = {v.inner}
      BY <1>1, <1>7, HeldAre DEF IsSession, Owns
    <3>2. \A p \in DOMAIN heap \ Owns(v) : heap'[p] = heap[p]
      BY <2>3, <3>1, DeleteLeaves DEF DropSession, AuthenticatedEncryption_drop
    <3>3. ASSUME NEW w \in Holds("session")'
          PROVE  w \in Holds("session") /\ heap'[w.inner] = heap[w.inner]
      <4>1. w \in Holds("session") /\ w # v
        BY <2>3, <3>3 DEF DropSession, Drops, Holds
      <4> QED
        BY <1>1, <3>1, <3>2, <4>1, NotTheirs
    <3> QED
      BY <1>1, <2>3, <3>3, NumbersKept DEF DropSession, Drops, MadeNothing
  <2> QED
    BY <1>1, <1>7, <2>1, <2>2, <2>3, NumbersEncrypt, NumbersDecrypt DEF SessionStep
<1>8. CASE UNCHANGED vars
  BY <1>1, <1>8, NumbersKept DEF vars, Holds
<1> QED
  BY <1>1, <1>3, <1>4, <1>5, <1>6, <1>7, <1>8 DEF Next

-----------------------------------------------------------------------------
\* What the program knows of its objects is so in every state, each call ended as
\* it could be expected, and libcat's numbers of the ciphertexts are those of the
\* ciphertexts the program saw go in and come out.
THEOREM AgreeInvariant ==
  ASSUME Sizes
  PROVE  Spec => [](IInv /\ AInv /\ Numbered)
<1>1. Init => AInv
  BY FS_EmptySet
     DEF Init, AInv, MadeRight, HandshakesAgree, MessagesWhole
<1>2. IInv /\ AInv /\ Numbered /\ [Next]_vars => AInv'
  <2>1. SUFFICES ASSUME IInv, AInv, Numbered, [Next]_vars PROVE AInv'
    OBVIOUS
  <2>2. CASE NewClient
    BY <2>1, <2>2, AgreeNewClient
  <2>3. CASE NewServer
    BY <2>1, <2>3, AgreeNewServer
  <2>4. ASSUME NEW v \in Holds("client"), ClientStep(v) PROVE AInv'
    <3>1. v \in values /\ IsClient(v)
      BY <2>1, HeldAre
    <3> QED
      BY <2>1, <2>4, <3>1, AgreeInitializeClient, AgreeSetIdentity, AgreeProcessAnswer,
         AgreeGenerateServerKey, AgreeGenerateChallenge, AgreeDropOne DEF ClientStep
  <2>5. ASSUME NEW v \in Holds("server"), ServerStep(v) PROVE AInv'
    <3>1. v \in values /\ IsServer(v)
      BY <2>1, HeldAre
    <3> QED
      BY <2>1, <2>5, <3>1, AgreeInitializeServer, AgreeProcessChallenge,
         AgreeGenerateServerKey, AgreeDropServer DEF ServerStep
  <2>6. ASSUME NEW v \in Holds("session"), SessionStep(v) PROVE AInv'
    <3>1. v \in values /\ IsSession(v)
      BY <2>1, HeldAre
    <3> QED
      BY <2>1, <2>6, <3>1, AgreeGenerateProof, AgreeValidateProof, AgreeEncrypt,
         AgreeDecrypt, AgreeDropOne DEF SessionStep
  <2>7. CASE UNCHANGED vars
    BY <2>1, <2>7 DEF vars, AInv, MadeRight, HandshakesAgree, MessagesWhole
  <2> QED
    BY <2>1, <2>2, <2>3, <2>4, <2>5, <2>6, <2>7 DEF Next
<1>3. Init => Numbered
  BY DEF Init, Numbered, Holds
<1>4. IInv /\ AInv /\ Numbered /\ [Next]_vars => Numbered'
  BY NumberedStep
<1> QED
  BY <1>1, <1>2, <1>3, <1>4, HandshakeInvariant, PTL DEF Spec

\* Every object has the class of the value that owns it, and what a ciphertext
\* carries fits a u32 (libcat.h).
THEOREM HandshakeTypes ==
  ASSUME Sizes
  PROVE  Spec => []TypeOK
<1>1. IInv /\ AInv => TypeOK
  <2>1. SUFFICES ASSUME IInv, AInv PROVE TypeOK
    OBVIOUS
  <2>2. ASSUME NEW p \in DOMAIN heap
        PROVE  heap[p].class \in {"CookieJar", "AuthenticatedEncryption",
                                  "ClientEasyHandshake", "ServerEasyHandshake"}
    <3>1. PICK v \in values : p \in Owns(v)
      BY <2>1, <2>2 DEF IInv, OwnedBy
    <3>2. Matches(v, heap)
      BY <2>1 DEF AInv
    <3> QED
      BY <3>1, <3>2 DEF Matches, IsClient, IsServer, IsSession, Owns, ClientHolds,
         ServerHolds, SessionHolds
  <2>3. ASSUME NEW c \in ciphertexts PROVE c.carried \in 0 .. U32 - 1
    BY <2>1, <2>3, AsU32Facts DEF AInv, Whole
  <2> QED
    BY <2>2, <2>3 DEF TypeOK
<1> QED
  BY <1>1, AgreeInvariant, PTL

\* A handshake succeeds when it should and only then, whatever old or repeated
\* challenges, answers and proofs come, and the two sessions that come from one
\* are its two ends (libcat.rs:45-67, 150-202, 254-289).
THEOREM HandshakesConcur ==
  ASSUME Sizes
  PROVE  Spec => []HandshakesAgree
<1>1. AInv => HandshakesAgree
  BY DEF AInv
<1> QED
  BY <1>1, AgreeInvariant, PTL

\* A message that fits a u32 with its overhead is encrypted, and is decrypted at
\* the other end in whatever order ciphertexts come, by whoever has opened no
\* other sender's; nothing is decrypted twice or elsewhere, and what is decrypted
\* is as long as the message was, if that fits a u32.  Of a message that does not
\* fit with its overhead, nothing is said but that it is not decrypted shorter
\* than it was, unless it is 2^32 bytes long or more (libcat.rs:69-107).
THEOREM HandshakeMessages ==
  ASSUME Sizes
  PROVE  Spec => []MessagesWhole
<1>1. AInv => MessagesWhole
  BY DEF AInv
<1> QED
  BY <1>1, AgreeInvariant, PTL
=============================================================================
