---------------------------- MODULE EasyHandshake ----------------------------
(***************************************************************************)
(* The easy handshake of libcat.rs over the C functions of libcat.cpp.     *)
(* The functions are operators on the C++ heap; a method takes &mut self   *)
(* and is one action.  Challenges, answers, proofs and ciphertexts cross a *)
(* network that loses, repeats and reorders them: what was made once can   *)
(* be used at any time, any number of times or never.                      *)
(***************************************************************************)
EXTENDS Integers, Sequences, FiniteSets

CONSTANTS
  U32,            \* how many numbers a u32 can hold
  MessageLength,  \* lengths of messages
  MaxMade,        \* bound: handshakes and sessions the program gets
  MaxGenerated,   \* bound: pairs of keys, challenges and answers
  MaxTotal        \* bound: all these, proofs and encrypted messages together

VARIABLES
  heap,         \* the C++ objects, by their addresses
  values,       \* the Rust values: what they own and what the program knows
  keys,         \* the pairs of keys that were generated
  challenges, answers, proofs, ciphertexts,  \* what was made of each
  outcome,      \* the last call that could fail, and how it ended
  made          \* how many values there were

vars ==
  <<heap, values, keys, challenges, answers, proofs, ciphertexts, outcome, made>>

None    == <<>>
Some(x) == <<x>>

Init ==
  /\ heap = <<>>
  /\ values = {}
  /\ keys = {}
  /\ challenges = {} /\ answers = {} /\ proofs = {} /\ ciphertexts = {}
  /\ outcome = [method |-> "none"]
  /\ made = 0

-----------------------------------------------------------------------------
\* libcat.cpp, and what libcat does.

\* As an unsigned int holds it.
AsU32(n) == n % U32

MAC_BYTES      == 8
IV_BYTES       == 3
OVERHEAD_BYTES == IV_BYTES + MAC_BYTES

PROOF_BYTES == 32

\* Bytes that are no challenge, an array of zeroes among them.
Zeroes == 0

Fresh(h) == CHOOSE p \in 1 .. Cardinality(DOMAIN h) + 1 : p \notin DOMAIN h

New(h, object) ==
  [p \in DOMAIN h \cup {Fresh(h)} |-> IF p \in DOMAIN h THEN h[p] ELSE object]

Delete(h, p) == [q \in DOMAIN h \ {p} |-> h[q]]

CookieJar_new(h)     == New(h, [class |-> "CookieJar", filled |-> FALSE])
CookieJar_drop(h, p) == Delete(h, p)

AuthenticatedEncryption_new(h) ==
  New(h, [class |-> "AuthenticatedEncryption", session |-> None, end |-> "none",
          iv |-> 0, seen |-> {}])
AuthenticatedEncryption_drop(h, p) == Delete(h, p)

ClientEasyHandshake_new(h) ==
  New(h, [class |-> "ClientEasyHandshake", key |-> None, challenge |-> None])
ClientEasyHandshake_drop(h, p) == Delete(h, p)

ServerEasyHandshake_new(h) ==
  New(h, [class |-> "ServerEasyHandshake", key |-> None])
ServerEasyHandshake_drop(h, p) == Delete(h, p)

ServerEasyHandshake_FillCookieJar(h, self, jar) ==
  [h EXCEPT ![jar].filled = TRUE]

\* Both handshakes make pairs for servers: a public and a private key.
ClientEasyHandshake_GenerateServerKey ==
  [public |-> Cardinality(keys) + 1, private |-> -(Cardinality(keys) + 1)]
ServerEasyHandshake_GenerateServerKey == ClientEasyHandshake_GenerateServerKey

Pair(public, private) == public > 0 /\ private = -public

Called(ok, h) == [ok |-> ok, heap |-> h]

ClientEasyHandshake_Initialize(h, self, public) ==
  IF public > 0 THEN Called(TRUE, [h EXCEPT ![self].key = Some(public)])
  ELSE Called(FALSE, h)

\* The identity counts for ProcessAnswerWithIdentity, which Rust never calls.
ClientEasyHandshake_SetIdentity(h, self, public, private) ==
  Called(Pair(public, private), h)

ServerEasyHandshake_Initialize(h, self, public, private) ==
  IF Pair(public, private)
  THEN Called(TRUE, [h EXCEPT ![self].key = Some(public)])
  ELSE Called(FALSE, h)

\* A new challenge takes the place of the one before.
ClientEasyHandshake_GenerateChallenge(h, self, nonce) ==
  IF h[self].key = None THEN Called(FALSE, h)
  ELSE Called(TRUE, [h EXCEPT ![self].challenge = Some(nonce)])

\* Every answer begins a session, also a second one to the same challenge.
ServerEasyHandshake_ProcessChallenge(h, self, challenge, ae, answer) ==
  IF h[self].key = None \/ challenge = Zeroes THEN Called(FALSE, h)
  ELSE Called(TRUE, [h EXCEPT ![ae].session = Some(answer), ![ae].end = "server"])

\* The answer must be for the challenge, from the holder of the private key.
ClientEasyHandshake_ProcessAnswer(h, self, answer, ae, erase) ==
  IF \/ h[self].challenge # Some(answer.challenge)
     \/ h[self].key # Some(answer.key)
  THEN Called(FALSE, h)
  ELSE Called(TRUE,
         [h EXCEPT ![ae].session = Some(answer.id), ![ae].end = "client",
                   ![self].challenge = IF erase THEN None ELSE @])

AuthenticatedEncryption_GenerateProof(h, self, proof_bytes) ==
  proof_bytes \in 1 .. PROOF_BYTES

AuthenticatedEncryption_ValidateProof(h, self, proof, proof_bytes) ==
  /\ h[self].session = Some(proof.session)
  /\ h[self].end # proof.end
  /\ proof_bytes = proof.length

\* msg_bytes is in-out: with the overhead after the call, as an unsigned int
\* holds the sum.
AuthenticatedEncryption_Encrypt(h, self, buffer_bytes, msg_bytes, notices) ==
  LET sum == AsU32(msg_bytes + OVERHEAD_BYTES)
  IN  [ok |-> /\ sum <= buffer_bytes
              /\ notices => sum = msg_bytes + OVERHEAD_BYTES,
       msg_bytes |-> sum,
       heap |-> [h EXCEPT ![self].iv = @ + 1]]

\* Refuses what is not whole, not from the other end, or was there before.
AuthenticatedEncryption_Decrypt(h, self, c, buf_bytes) ==
  [ok |-> /\ buf_bytes = c.carried + OVERHEAD_BYTES
          /\ h[self].session = c.session
          /\ h[self].end # c.end
          /\ c.iv \notin h[self].seen,
   msg_bytes |-> buf_bytes - OVERHEAD_BYTES,
   heap |-> [h EXCEPT ![self].seen = @ \cup {c.iv}]]

-----------------------------------------------------------------------------
\* libcat.rs: the handshakes.

Holds(class) == {v \in values : v.class = class}

Room == made < MaxMade

Generated ==
  Cardinality(keys) + Cardinality(challenges) + Cardinality(answers)

Exchanges == Generated + Cardinality(proofs \cup ciphertexts) < MaxTotal

Generates == Generated < MaxGenerated /\ Exchanges

\* The values, with a new one; with one that has changed.
Gets(v) == values' = values \cup {v} /\ made' = made + 1

Became(v, w) == values' = (values \ {v}) \cup {w} /\ UNCHANGED made

Keeps == UNCHANGED <<values, made>>

Drops(v) == values' = values \ {v} /\ UNCHANGED made

MadeNothing == UNCHANGED <<keys, challenges, answers, proofs, ciphertexts>>

NothingToSay == outcome' = [method |-> "none"]

\* How a call ended; whether the program could expect it to succeed.
Ended(method, ok, expected) ==
  outcome' = [method |-> method, ok |-> ok, expected |-> expected]

\* The program makes a client or a server once it has let the last one go.
NewClient ==
  /\ Room /\ Holds("client") = {}
  /\ heap' = ClientEasyHandshake_new(heap)
  /\ Gets([class |-> "client", inner |-> Fresh(heap), key |-> None,
           challenge |-> None, agreed |-> FALSE])
  /\ MadeNothing /\ NothingToSay

NewServer ==
  LET inner == Fresh(heap)
      h == ServerEasyHandshake_new(heap)
      cookie_jar == Fresh(h)
  IN  /\ Room /\ Holds("server") = {}
      /\ heap' = ServerEasyHandshake_FillCookieJar(CookieJar_new(h), inner, cookie_jar)
      /\ Gets([class |-> "server", inner |-> inner, _cookie_jar |-> cookie_jar,
               key |-> None])
      /\ MadeNothing /\ NothingToSay

\* None when libcat has no key to give.
GenerateServerKey(v) ==
  /\ Generates
  /\ \/ UNCHANGED keys
     \/ keys' = keys \cup
          {IF v.class = "client" THEN ClientEasyHandshake_GenerateServerKey
           ELSE ServerEasyHandshake_GenerateServerKey}
  /\ NothingToSay /\ Keeps
  /\ UNCHANGED <<heap, challenges, answers, proofs, ciphertexts>>

\* The program goes on if the call succeeded.
Initialized(v, result, public) ==
  /\ heap' = result.heap
  /\ IF result.ok THEN Became(v, [v EXCEPT !.key = Some(public)])
     ELSE Keeps
  /\ MadeNothing
  /\ Ended("Initialize", result.ok, TRUE)

InitializeClient(v, pair) ==
  Initialized(v, ClientEasyHandshake_Initialize(heap, v.inner, pair.public),
              pair.public)

SetIdentity(v, pair) ==
  LET result == ClientEasyHandshake_SetIdentity(heap, v.inner, pair.public,
                                                pair.private)
  IN  /\ heap' = result.heap
      /\ Ended("Initialize", result.ok, TRUE)
      /\ MadeNothing /\ Keeps

\* Slip: the private key comes first.
PrivateFirst(pair) == <<pair.private, pair.public>>

\* The two arguments, in the order of the C function's.
KeyArguments(pair) == <<pair.public, pair.private>>

InitializeServer(v, pair) ==
  LET k == KeyArguments(pair)
  IN  Initialized(v, ServerEasyHandshake_Initialize(heap, v.inner, k[1], k[2]),
                  pair.public)

\* Slip: the C function writes to a copy of the array.
CopyWritten(written) == Zeroes

\* What the caller's array holds when the C function has written to it.
OutArray(written) == written

GenerateChallenge(v) ==
  LET nonce == Cardinality(challenges) + 1
      result == ClientEasyHandshake_GenerateChallenge(heap, v.inner, nonce)
      challenge == OutArray(nonce)
  IN  /\ Generates
      /\ heap' = result.heap
      /\ IF result.ok
         THEN /\ Became(v, [v EXCEPT !.challenge = Some(challenge),
                                     !.agreed = FALSE])
              /\ challenges' = challenges \cup {challenge}
         ELSE Keeps /\ UNCHANGED challenges
      /\ Ended("GenerateChallenge", result.ok, v.key # None)
      /\ UNCHANGED <<keys, answers, proofs, ciphertexts>>

\* Slip: what was made for the session stays when there is none.
Leaked(h, ae) == h

\* The new AuthenticatedEncryption goes out of scope with None.
OutOfScope(h, ae) == AuthenticatedEncryption_drop(h, ae)

\* Beside the pointer: what the program knows, the how-manieth value this is,
\* and what it has decrypted.
Session(end, inner, answer) ==
  [class |-> "session", end |-> end, inner |-> inner, answer |-> answer,
   serial |-> made + 1, opened |-> {}]

ProcessChallenge(v, challenge) ==
  LET ae == Fresh(heap)
      answer == [id |-> Cardinality(answers) + 1, challenge |-> challenge,
                 key |-> IF v.key = None THEN 0 ELSE v.key[1]]
      result == ServerEasyHandshake_ProcessChallenge(
                  AuthenticatedEncryption_new(heap), v.inner, challenge, ae, answer.id)
  IN  /\ Room /\ Generates
      /\ IF result.ok
         THEN /\ heap' = result.heap
              /\ Gets(Session("server", ae, answer))
              /\ answers' = answers \cup {answer}
         ELSE /\ heap' = OutOfScope(result.heap, ae)
              /\ Keeps /\ UNCHANGED answers
      /\ Ended("ProcessChallenge", result.ok,
               v.key # None /\ challenge \in challenges)
      /\ UNCHANGED <<keys, challenges, proofs, ciphertexts>>

\* The answer is to the last challenge, and from the server it was meant for.
Fits(client, answer) ==
  client.challenge = Some(answer.challenge) /\ client.key = Some(answer.key)

\* Whether libcat forgets the challenge that was answered is left open.
ProcessAnswer(v, answer) ==
  \E erase \in BOOLEAN :
    LET ae == Fresh(heap)
        result == ClientEasyHandshake_ProcessAnswer(
                    AuthenticatedEncryption_new(heap), v.inner, answer, ae, erase)
    IN  /\ Room
        /\ IF result.ok
           THEN /\ heap' = result.heap
                /\ values' = (values \ {v}) \cup {[v EXCEPT !.agreed = TRUE],
                                                  Session("client", ae, answer)}
                /\ made' = made + 1
           ELSE /\ heap' = OutOfScope(result.heap, ae)
                /\ Keeps
        /\ IF v.agreed /\ ~result.ok THEN NothingToSay
           ELSE Ended("ProcessAnswer", result.ok, Fits(v, answer))
        /\ MadeNothing

DropClient(v) ==
  /\ heap' = ClientEasyHandshake_drop(heap, v.inner)
  /\ Drops(v)
  /\ MadeNothing /\ NothingToSay

\* The body of drop first, then the fields.
DropServer(v) ==
  /\ heap' = CookieJar_drop(ServerEasyHandshake_drop(heap, v.inner), v._cookie_jar)
  /\ Drops(v)
  /\ MadeNothing /\ NothingToSay

-----------------------------------------------------------------------------
\* libcat.rs: the sessions.

GenerateProof(v, length) ==
  LET ok == AuthenticatedEncryption_GenerateProof(heap, v.inner, length)
      proof == [session |-> heap[v.inner].session[1], end |-> heap[v.inner].end,
                length |-> length]
  IN  /\ Exchanges
      /\ proofs' = IF ok THEN proofs \cup {proof} ELSE proofs
      /\ Ended("GenerateProof", ok, length <= PROOF_BYTES)
      /\ Keeps /\ UNCHANGED <<heap, keys, challenges, answers, ciphertexts>>

\* What comes from the other end of the session, as far as the program knows.
FromOther(v, session, end) == session = v.answer.id /\ end # v.end

ValidateProof(v, proof) ==
  /\ Ended("ValidateProof",
           AuthenticatedEncryption_ValidateProof(heap, v.inner, proof, proof.length),
           FromOther(v, proof.session, proof.end))
  /\ MadeNothing /\ Keeps /\ UNCHANGED heap

\* Slip: the buffer stays as long as it was before the call.
NotResized(v_len, msg_bytes) == v_len

\* v.resize(msg_bytes, 0)
Resized(v_len, msg_bytes) == msg_bytes

\* The buffer is the message and room for the overhead.  Whether libcat notices
\* that the sum of the two wraps is left open.
Encrypt(v, length) ==
  \E notices \in BOOLEAN :
    LET v_len == length + OVERHEAD_BYTES
        result == AuthenticatedEncryption_Encrypt(heap, v.inner, AsU32(v_len),
                                                  AsU32(length), notices)
        c == [by |-> v.serial, session |-> heap[v.inner].session,
              end |-> heap[v.inner].end, iv |-> heap[v.inner].iv, meant |-> length,
              carried |-> AsU32(length), length |-> Resized(v_len, result.msg_bytes)]
    IN  /\ Exchanges
        /\ IF result.ok
           THEN heap' = result.heap /\ ciphertexts' = ciphertexts \cup {c}
           ELSE UNCHANGED <<heap, ciphertexts>>
        /\ IF v_len < U32 THEN Ended("Encrypt", result.ok, TRUE) ELSE NothingToSay
        /\ Keeps /\ UNCHANGED <<keys, challenges, answers, proofs>>

\* The sender was told that the message fits, and the receiver has opened no
\* other sender's: an answer that is processed twice gives two senders, whose
\* messages libcat cannot tell apart.
Sure(v, c) ==
  /\ c.meant + OVERHEAD_BYTES < U32
  /\ \A o \in v.opened : o.by = c.by

Decrypt(v, c) ==
  LET result == AuthenticatedEncryption_Decrypt(heap, v.inner, c, AsU32(c.length))
  IN  /\ IF result.ok
         THEN /\ heap' = result.heap
              /\ Became(v, [v EXCEPT !.opened = @ \cup {c}])
         ELSE UNCHANGED heap /\ Keeps
      /\ outcome' =
           [method |-> "Decrypt", ok |-> result.ok,
            expected |-> FromOther(v, c.session[1], c.end) /\ c \notin v.opened,
            sure |-> Sure(v, c),
            meant |-> c.meant, length |-> Resized(c.length, result.msg_bytes)]
      /\ MadeNothing

DropSession(v) ==
  /\ heap' = AuthenticatedEncryption_drop(heap, v.inner)
  /\ Drops(v)
  /\ MadeNothing /\ NothingToSay

-----------------------------------------------------------------------------
ClientStep(v) ==
  \/ \E pair \in keys : InitializeClient(v, pair) \/ SetIdentity(v, pair)
  \/ \E answer \in answers : ProcessAnswer(v, answer)
  \/ GenerateServerKey(v) \/ GenerateChallenge(v) \/ DropClient(v)

ServerStep(v) ==
  \/ \E pair \in keys : InitializeServer(v, pair)
  \/ \E challenge \in challenges \cup {Zeroes} : ProcessChallenge(v, challenge)
  \/ GenerateServerKey(v) \/ DropServer(v)

SessionStep(v) ==
  \/ \E length \in {PROOF_BYTES, PROOF_BYTES + 1} : GenerateProof(v, length)
  \/ \E proof \in proofs : ValidateProof(v, proof)
  \/ \E length \in MessageLength : Encrypt(v, length)
  \/ \E c \in ciphertexts : Decrypt(v, c)
  \/ DropSession(v)

Next ==
  \/ NewClient \/ NewServer
  \/ \E v \in Holds("client") : ClientStep(v)
  \/ \E v \in Holds("server") : ServerStep(v)
  \/ \E v \in Holds("session") : SessionStep(v)

Spec == Init /\ [][Next]_vars

-----------------------------------------------------------------------------
TypeOK ==
  /\ \A p \in DOMAIN heap :
       heap[p].class \in {"CookieJar", "AuthenticatedEncryption",
                          "ClientEasyHandshake", "ServerEasyHandshake"}
  /\ \A c \in ciphertexts : c.carried \in 0 .. U32 - 1

Owns(v) == IF v.class = "server" THEN {v.inner, v._cookie_jar} ELSE {v.inner}

\* The C++ objects are those the Rust values own, each by one of them: nothing
\* leaks, also when a handshake fails halfway, and no value holds a pointer to
\* what another one frees (libcat.rs: the drops, 188-201, 272-288).
Owned ==
  /\ DOMAIN heap = UNION {Owns(v) : v \in values}
  /\ \A v, w \in values : v # w => Owns(v) \cap Owns(w) = {}

\* A handshake succeeds when it should and only then: keys that were generated
\* are taken, a server with a key answers what a client generated, and a client
\* gets a session from the answer to its last challenge from the server it was
\* initialized for, whatever old or repeated answers came before.  The two
\* sessions then are the ends of one: each validates the proofs of the other,
\* and nobody else's (libcat.rs:45-67, 150-202, 254-289).
HandshakesAgree ==
  outcome.method \in {"Initialize", "GenerateChallenge", "ProcessChallenge",
                     "ProcessAnswer", "GenerateProof", "ValidateProof"}
    => outcome.ok = outcome.expected

\* A message that fits a u32 with its overhead is encrypted, and is decrypted at
\* the other end of the session, in whatever order ciphertexts come, if that end
\* has opened no other sender's of the same session; nothing is
\* decrypted twice or at another end, and what is decrypted is as long as the
\* message was, if that fits a u32.  A message of the last eleven lengths below
\* 2^32 may be encrypted, its buffer cut, and never be decrypted; a longer one is
\* cut before it is encrypted (libcat.rs:69-107).
MessagesWhole ==
  /\ outcome.method = "Encrypt" => outcome.ok
  /\ outcome.method = "Decrypt" =>
       /\ outcome.ok => outcome.expected
       /\ outcome.expected /\ outcome.sure => outcome.ok
       /\ outcome.ok /\ outcome.meant < U32 => outcome.length = outcome.meant

=============================================================================
