---------------------------- MODULE PeerCallsProofs ----------------------------
(***************************************************************************)
(* Proofs about the calls of a RakPeer: what reaches RakNet is what was    *)
(* meant, what comes back is about it, and the connections a server takes  *)
(* are secured, for any systems, slots, hosts and passwords.               *)
(***************************************************************************)
EXTENDS PeerCalls, FiniteSetTheorems, TLAPS

\* What the theorems below assume of the constants.
Listed ==
  /\ Slot \subseteq SystemIndex /\ IsFiniteSet(Slot)
  /\ HostLength \subseteq Nat

-----------------------------------------------------------------------------
\* Types.

Raknets ==
  [active : BOOLEAN, ping : BOOLEAN, migration : BOOLEAN, unreliable : Nat,
   timeout : Nat, incoming : 0 .. Cardinality(Slot), security : SUBSET {Own},
   addresses : Nat, attempt : BOOLEAN,
   slot : [Slot -> [system : System \cup {Nobody}, secured : SUBSET {Own}]],
   guid : [Slot -> RakNetGUID]]

AddressMethods ==
  {"SetTimeoutTime", "GetGuidFromSystemAddress", "Ping", "GetStatistics"}

TargetMethods == {"CloseConnection", "GetAveragePing", "GetLastPing"}

PlainMethods ==
  {"SetOccasionalPing", "AllowConnectionResponseIPMigration",
   "SetUnreliableTimeout", "SetMaximumIncomingConnections",
   "GetNumberOfAddresses", "GetLocalIP", "GetInternalID",
   "GetSystemAddressFromIndex", "Shutdown"}

Methods ==
  AddressMethods \cup TargetMethods \cup PlainMethods
    \cup {"InitializeSecurity", "Startup", "Connect"}

ConsoleMethods ==
  {"GetSystemAddressFromIndex", "Ping", "GetStatistics",
   "GetGuidFromSystemAddress"} \cup TargetMethods

\* A call that went in, and one that came out.
WentIn(c) ==
  c = [at |-> "in", method |-> c.method, meant |-> c.meant, mem |-> c.mem]

CameOut(c) ==
  c = [at |-> "out", method |-> c.method, meant |-> c.meant, mem |-> c.mem,
       seen |-> c.seen, result |-> c.result, moved |-> c.moved]

CallShape(c) ==
  \/ c.at \in {"unborn", "idle", "failed", "down", "ended"}
  \/ c.method \in Methods /\ (WentIn(c) \/ CameOut(c))

Shape ==
  /\ raknet \in Raknets
  /\ call = [t \in Thread |-> call[t]]
  /\ known = [t \in Thread |-> known[t]]
  /\ answer = [t \in Thread |-> answer[t]]
  /\ \A t \in Thread : CallShape(call[t])

-----------------------------------------------------------------------------
\* What a call holds on its way in and on its way out.

\* What the pointers hold is what is meant.
Fit(c) ==
  /\ c.method \in AddressMethods =>
       DOMAIN c.meant = {"target"} /\ Resolve(c.mem.target) = c.meant.target
  /\ c.method \in TargetMethods =>
       /\ DOMAIN c.meant = {"target"}
       /\ ResolveTarget(c.mem.target) = c.meant.target
       /\ c.mem.target \in AddressOrGUID
  /\ c.method \in PlainMethods => DOMAIN c.meant = {}
  /\ c.method = "GetSystemAddressFromIndex" => c.mem.index \in Slot
  /\ c.method = "InitializeSecurity" =>
       DOMAIN c.meant = {"key"} /\ c.meant.key = {Own} /\ c.mem.key = {Own}
  /\ c.method = "Startup" =>
       /\ DOMAIN c.meant = {"host"}
       /\ CString(c.mem.descriptor.hostAddress) = c.meant.host
       /\ c.mem.descriptor \in SocketDescriptor
  /\ c.method = "Connect" =>
       /\ DOMAIN c.meant = {"host", "key", "password"}
       /\ c.mem.host = c.meant.host
       /\ c.meant.key \in Key(1, Own) /\ c.mem.publicKey = KeyToC(c.meant.key)

\* An address, and the system it is the address of.
AddressOf(c, who) ==
  /\ c.sin_family = AF_INET /\ c.systemIndex \in SystemIndex
  /\ c.debugPort \in {<<0, 0>>, <<1, 0>>}
  /\ \/ c.s_addr = <<0, 0>> /\ c.sin_port = <<0, 0>> /\ who = {Own}
     \/ \E s \in System :
          c.s_addr = <<0, s>> /\ c.sin_port = <<0, 1>> /\ who = {s}

\* What came back is about what was meant.
Answers(c) ==
  /\ \A a \in DOMAIN c.meant \ {"password"} : c.seen[a] = c.meant[a]
  /\ c.method = "GetSystemAddressFromIndex" =>
       AddressOf(c.result.address, c.result.of)
  /\ c.method = "GetStatistics" =>
       /\ c.result # NULL => c.result = <<[of |-> c.meant.target]>>
       /\ c.meant.target \subseteq System \cup {Own}
  /\ c.method \in {"GetAveragePing", "GetLastPing"} =>
       c.result \subseteq c.meant.target
  /\ c.method = "GetGuidFromSystemAddress" =>
       /\ c.result = [to |-> c.result.to, index |-> c.result.index]
       /\ c.result.to \in {"own", "list", "none"}
       /\ c.result.to = "own" => c.meant.target = {Own}
       /\ c.result.to = "list" => c.result.index \in Slot
  /\ c.method \in {"InitializeSecurity", "Startup", "Connect"} =>
       c.result \in BOOLEAN

AboutCalls ==
  \A t \in Thread : /\ At(t, "in") => Fit(call[t])
                    /\ At(t, "out") => Answers(call[t])
                    /\ AddressOf(AddressToC(known[t].address), known[t].of)

-----------------------------------------------------------------------------
\* How far the programs are.

After(s, n) == SubSeq(s, n + 1, Len(s))

\* The functions a step of the setup calls.
FunctionsOf(m) ==
  IF m = "GetInternalAddresses" THEN {"GetNumberOfAddresses", "GetInternalID"}
  ELSE IF m = "GetLocalIpAddresses" THEN {"GetNumberOfAddresses", "GetLocalIP"}
  ELSE {m}

InCall(t, methods) == (At(t, "in") \/ At(t, "out")) /\ call[t].method \in methods

\* Main is between two calls, or in the nth.
Doing(s, n) ==
  \/ At("main", "idle")
  \/ /\ n # 0 /\ InCall("main", FunctionsOf(s[n]))
     /\ call["main"].method = "GetNumberOfAddresses" =>
          Mem("main").each \in FunctionsOf(s[n]) \ {"GetNumberOfAddresses"}

\* The kth call has not been made.
NotYet(n, k) == n < k \/ (n = k /\ At("main", "in"))

ServerAt(n) ==
  /\ setup = After(ServerSetup, n) /\ Doing(ServerSetup, n)
  /\ ~ raknet.attempt
  /\ NotYet(n, 5) => ~ raknet.active
  /\ ~ NotYet(n, 4) => raknet.security = {Own}

ClientAt(n) ==
  /\ setup = After(ClientSetup, n) /\ Doing(ClientSetup, n)
  /\ raknet.incoming = 0
  /\ NotYet(n, 3) => ~ raknet.active
  /\ NotYet(n, 4) => ~ raknet.attempt

\* The end: the peer is shut down or did not start.
Over ==
  /\ setup = <<>>
  /\ call["main"].at \in {"failed", "down", "ended"} \/ InCall("main", {"Shutdown"})

\* The program is setting its peer up, or done with it.
Programs ==
  (\E n \in 0 .. 8 : ServerAt(n)) \/ (\E n \in 0 .. 6 : ClientAt(n)) \/ Over

\* Where main is, and where that leaves the console.
Console ==
  /\ setup # <<>> \/ At("main", "failed") => At("console", "unborn")
  /\ At("main", "down") \/ InCall("main", {"Shutdown"}) => At("console", "ended")
  /\ call["console"].at \in {"unborn", "idle", "ended"}
       \/ InCall("console", ConsoleMethods)

Control == Programs /\ Console

-----------------------------------------------------------------------------
\* The connections.

Occupied(i) == raknet.slot[i].system # Nobody

Secured ==
  /\ raknet.incoming > 0 => raknet.security = {Own} /\ ~ raknet.attempt
  /\ \A i \in Slot : Occupied(i) => raknet.attempt \/ raknet.slot[i].secured = {Own}

\* What a pointer into RakNet's list of systems points to.
Pointer(c) ==
  /\ raknet.active
  /\ ~ c.moved => raknet.guid[c.result.index].g \in c.meant.target \cup {MAX64}

Live ==
  /\ \A i \in Slot : Occupied(i) =>
       raknet.active /\ raknet.guid[i].g = raknet.slot[i].system
  /\ \A t \in Thread :
       At(t, "out") /\ call[t].method = "GetGuidFromSystemAddress"
         /\ call[t].result.to = "list" => Pointer(call[t])

\* RakNet is asked for as many addresses as it has.
Counted ==
  /\ At("main", "out") /\ call["main"].method = "GetNumberOfAddresses" =>
       call["main"].result = raknet.addresses
  /\ InCall("main", {"GetLocalIP", "GetInternalID"}) =>
       /\ Mem("main").index \in Nat /\ Mem("main").index < Mem("main").number
       /\ Mem("main").number = raknet.addresses
  /\ At("main", "out") /\ call["main"].method = "GetLocalIP" =>
       call["main"].result # NULL

CInv ==
  Shape /\ AboutCalls /\ Control /\ Secured /\ Live /\ Counted /\ AnswersAboutAsked

-----------------------------------------------------------------------------
\* The conversions of an address.

\* The two bytes of a number change places.
LEMMA Swapped == \A a, b : ToBE(<<a, b>>) = <<b, a>>
  BY DEF ToBE, SequenceOps!Reverse

\* RakNet finds the system an address is the address of, and only that.
LEMMA AddressResolves ==
  ASSUME NEW c, NEW who, AddressOf(c, who)
  PROVE  /\ Resolve(c) = who
         /\ who = {Own} \/ \E s \in System : who = {s}
<1>1. 0 \notin System
  BY TypesAssumption
<1>2. \A s \in System : <<0, s>> # <<0, 0>>
  BY <1>1
<1>3. \A r, s \in System : <<0, r>> = <<0, s>> => r = s
  OBVIOUS
<1>4. <<0, 1>> # <<0, 0>>
  OBVIOUS
<1>5. CASE c.s_addr = <<0, 0>> /\ c.sin_port = <<0, 0>> /\ who = {Own}
  BY <1>2, <1>5 DEF Resolve, InRakNet, NoAddress
<1>6. ASSUME NEW s \in System,
             c.s_addr = <<0, s>> /\ c.sin_port = <<0, 1>> /\ who = {s}
      PROVE  Resolve(c) = who
  BY <1>2, <1>3, <1>6 DEF Resolve, InRakNet, NoAddress
<1> QED
  BY <1>5, <1>6 DEF AddressOf

\* RakNet's own structures, and the addresses a program makes.
LEMMA TheAddresses ==
  ASSUME Listed
  PROVE  /\ AddressOf(NoAddress, {Own})
         /\ \A s \in System, i \in Slot : AddressOf(InRakNet(s, i), {s})
         /\ AddressOf(AddressToC(UnassignedAddress), {Own})
         /\ \A s \in System : AddressOf(AddressToC(Literal(s)), {s})
<1>1. AddressOf(NoAddress, {Own})
  BY DEF AddressOf, NoAddress, SystemIndex, UNASSIGNED_PLAYER_INDEX
<1>2. \A s \in System, i \in Slot : AddressOf(InRakNet(s, i), {s})
  BY DEF AddressOf, InRakNet, Listed
<1>3. AddressOf(AddressToC(UnassignedAddress), {Own})
  BY Swapped DEF AddressOf, AddressToC, UnassignedAddress, IndexToC, SystemIndex,
     UNASSIGNED_PLAYER_INDEX, None
<1>4. ASSUME NEW s \in System PROVE AddressOf(AddressToC(Literal(s)), {s})
  BY Swapped DEF AddressOf, AddressToC, Literal, IndexToC, SystemIndex,
     UNASSIGNED_PLAYER_INDEX, None
<1> QED
  BY <1>1, <1>2, <1>3, <1>4

\* An address that RakNet gave still names its system when it goes back.
LEMMA ThereAndBack ==
  ASSUME NEW c, NEW who, AddressOf(c, who)
  PROVE  AddressOf(AddressToC(AddressToRust(c)), who)
<1> DEFINE d == AddressToC(AddressToRust(c))
<1>1. /\ d.sin_family = AF_INET /\ d.debugPort = c.debugPort
      /\ d.s_addr = ToBE(ToBE(c.s_addr)) /\ d.sin_port = ToBE(ToBE(c.sin_port))
  BY DEF AddressToC, AddressToRust
<1>2. d.systemIndex = c.systemIndex
  BY DEF AddressToC, AddressToRust, IndexToC, IndexToRust, None, Some
<1> HIDE DEF d
<1>3. CASE c.s_addr = <<0, 0>> /\ c.sin_port = <<0, 0>> /\ who = {Own}
  <2>1. d.s_addr = <<0, 0>> /\ d.sin_port = <<0, 0>>
    BY <1>1, <1>3, Swapped
  <2> QED
    BY <1>1, <1>2, <1>3, <2>1 DEF AddressOf, d
<1>4. ASSUME NEW s \in System,
             c.s_addr = <<0, s>> /\ c.sin_port = <<0, 1>> /\ who = {s}
      PROVE  AddressOf(d, who)
  <2>1. d.s_addr = <<0, s>> /\ d.sin_port = <<0, 1>>
    BY <1>1, <1>4, Swapped
  <2> QED
    BY <1>1, <1>2, <1>4, <2>1 DEF AddressOf
<1> QED
  BY <1>3, <1>4 DEF AddressOf, d

\* It is a structure of raknet_types.h.
LEMMA AddressTyped ==
  ASSUME NEW a, NEW who, AddressOf(AddressToC(a), who)
  PROVE  AddressToC(a) \in SystemAddress
<1>1. 0 \in Byte /\ 1 \in Byte /\ System \subseteq Byte
  BY TypesAssumption
<1>2. \A x, y \in Byte : <<x, y>> \in Word
  BY DEF Word
<1>3. /\ AddressToC(a).sin_port \in Word /\ AddressToC(a).s_addr \in Word
      /\ AddressToC(a).debugPort \in Word
  BY <1>1, <1>2 DEF AddressOf
<1> QED
  BY <1>3 DEF AddressOf, SystemAddress, AddressToC

\* The address side and the GUID side of a target.
LEMMA TargetResolves ==
  ASSUME Listed
  PROVE  /\ \A a, who : AddressOf(AddressToC(a), who) =>
              /\ ResolveTarget(TargetToC(ByAddress(a))) = who
              /\ TargetToC(ByAddress(a)) \in AddressOrGUID
         /\ \A s \in System :
              /\ ResolveTarget(TargetToC(ByGuid(GuidToRust(GuidOf(s, 0))))) = {s}
              /\ TargetToC(ByGuid(GuidToRust(GuidOf(s, 0)))) \in AddressOrGUID
<1>1. ASSUME NEW a, NEW who, AddressOf(AddressToC(a), who)
      PROVE  /\ ResolveTarget(TargetToC(ByAddress(a))) = who
             /\ TargetToC(ByAddress(a)) \in AddressOrGUID
  <2> DEFINE c == TargetToC(ByAddress(a))
  <2>1. c = [systemAddress |-> AddressToC(a),
             rakNetGuid |-> [g |-> MAX64, systemIndex |-> UNASSIGNED_PLAYER_INDEX]]
    BY DEF TargetToC, ByAddress, GuidToC, UnassignedGuid, IndexToC, None
  <2>2. ResolveTarget(c) = Resolve(AddressToC(a))
    BY <2>1 DEF ResolveTarget, NoGuid
  <2>3. c \in AddressOrGUID
    BY <1>1, <2>1, AddressTyped
       DEF AddressOrGUID, RakNetGUID, SystemIndex, MAX64, UNASSIGNED_PLAYER_INDEX
  <2> QED
    BY <1>1, <2>2, <2>3, AddressResolves
<1>2. ASSUME NEW s \in System
      PROVE  /\ ResolveTarget(TargetToC(ByGuid(GuidToRust(GuidOf(s, 0))))) = {s}
             /\ TargetToC(ByGuid(GuidToRust(GuidOf(s, 0)))) \in AddressOrGUID
  <2> DEFINE c == TargetToC(ByGuid(GuidToRust(GuidOf(s, 0))))
  <2>1. c = [systemAddress |-> AddressToC(UnassignedAddress),
             rakNetGuid |-> [g |-> s, systemIndex |-> 0]]
    BY DEF TargetToC, ByGuid, GuidToC, GuidToRust, GuidOf, IndexToC, IndexToRust, None,
       Some, UNASSIGNED_PLAYER_INDEX
  <2>2. s \in Nat /\ s # MAX64
    BY TypesAssumption
  <2>3. ResolveTarget(c) = {s}
    BY <2>1, <2>2 DEF ResolveTarget, NoGuid
  <2>4. AddressToC(UnassignedAddress) \in SystemAddress
    BY TheAddresses, AddressTyped
  <2>5. [g |-> s, systemIndex |-> 0] \in RakNetGUID
    BY <2>2 DEF RakNetGUID, SystemIndex
  <2> HIDE DEF c
  <2>6. c \in AddressOrGUID
    BY <2>1, <2>4, <2>5 DEF AddressOrGUID
  <2> QED
    BY <2>3, <2>6 DEF c
<1> QED
  BY <1>1, <1>2

-----------------------------------------------------------------------------
\* What the methods pass.

In(method, meant, mem) ==
  [at |-> "in", method |-> method, meant |-> meant, mem |-> mem]

\* What Fit asks of each kind of method.
LEMMA FitKinds ==
  ASSUME NEW c
  PROVE  /\ c.method \in AddressMethods /\ DOMAIN c.meant = {"target"}
              /\ Resolve(c.mem.target) = c.meant.target => Fit(c)
         /\ c.method \in TargetMethods /\ DOMAIN c.meant = {"target"}
              /\ ResolveTarget(c.mem.target) = c.meant.target
              /\ c.mem.target \in AddressOrGUID => Fit(c)
         /\ c.method \in PlainMethods /\ DOMAIN c.meant = {}
              /\ (c.method = "GetSystemAddressFromIndex" => c.mem.index \in Slot)
              => Fit(c)
  BY DEF Fit, AddressMethods, TargetMethods, PlainMethods

\* The address side: known, made by the program, or unassigned.
LEMMA AddressPassFits ==
  ASSUME Listed, AboutCalls, NEW t \in Thread, NEW a \in AddressPass(t),
         NEW method \in AddressMethods
  PROVE  Fit(In(method, a.meant, a.mem))
<1>1. \E who : \E c : /\ AddressOf(c, who)
                      /\ a = Pass([target |-> who], [target |-> c])
  BY TheAddresses DEF AboutCalls, AddressPass, UnassignedArgs
<1>2. PICK who, c : /\ AddressOf(c, who)
                    /\ a = Pass([target |-> who], [target |-> c])
  BY <1>1
<1>3. /\ a.meant = [target |-> who] /\ a.mem = [target |-> c]
  BY <1>2 DEF Pass
<1>4. Resolve(c) = who
  BY <1>2, AddressResolves
<1> DEFINE r == In(method, a.meant, a.mem)
<1>5. /\ r.method = method /\ DOMAIN r.meant = {"target"}
      /\ r.meant.target = who /\ r.mem.target = c
  BY <1>3 DEF In
<1> HIDE DEF r
<1> QED
  BY <1>4, <1>5, FitKinds DEF r

\* What GetGuidFromSystemAddress and SetTimeoutTime get when a peer is set up.
LEMMA UnassignedFits ==
  ASSUME Listed, NEW a \in UnassignedArgs, NEW method \in AddressMethods
  PROVE  Fit(In(method, a.meant, a.mem))
<1> DEFINE c == AddressToC(UnassignedAddress)
           r == In(method, a.meant, a.mem)
<1>1. a.meant = [target |-> {Own}] /\ a.mem = [target |-> c]
  BY DEF UnassignedArgs, Pass
<1>2. Resolve(c) = {Own}
  BY TheAddresses, AddressResolves
<1> HIDE DEF c
<1>3. /\ r.method = method /\ DOMAIN r.meant = {"target"}
      /\ r.meant.target = {Own} /\ r.mem.target = c
  BY <1>1 DEF In
<1> HIDE DEF r
<1> QED
  BY <1>2, <1>3, FitKinds DEF r

\* Both sides of a target.
LEMMA TargetPassFits ==
  ASSUME Listed, AboutCalls, NEW t \in Thread, NEW a \in TargetPass(t),
         NEW method \in TargetMethods
  PROVE  Fit(In(method, a.meant, a.mem))
<1>1. \E who : \E c : /\ ResolveTarget(c) = who /\ c \in AddressOrGUID
                      /\ a = Pass([target |-> who], [target |-> c])
  <2>1. CASE a = Pass([target |-> known[t].of],
                      [target |-> TargetToC(ByAddress(known[t].address))])
    BY <2>1, TargetResolves DEF AboutCalls
  <2>2. CASE \E s \in System :
               a = Pass([target |-> {s}], [target |-> TargetToC(ByAddress(Literal(s)))])
    BY <2>2, TheAddresses, TargetResolves
  <2>3. CASE \E s \in System :
               a = Pass([target |-> {s}],
                        [target |-> TargetToC(ByGuid(GuidToRust(GuidOf(s, 0))))])
    BY <2>3, TargetResolves
  <2> QED
    BY <2>1, <2>2, <2>3 DEF TargetPass
<1>2. PICK who, c : /\ ResolveTarget(c) = who /\ c \in AddressOrGUID
                    /\ a = Pass([target |-> who], [target |-> c])
  BY <1>1
<1>3. /\ a.meant = [target |-> who] /\ a.mem = [target |-> c]
  BY <1>2 DEF Pass
<1> DEFINE r == In(method, a.meant, a.mem)
<1>4. /\ r.method = method /\ DOMAIN r.meant = {"target"}
      /\ r.meant.target = who /\ r.mem.target = c
  BY <1>3 DEF In
<1> HIDE DEF r
<1> QED
  BY <1>2, <1>4, FitKinds DEF r

\* The host a socket is opened on: as long as it was, with its 0.
LEMMA StartupFits ==
  ASSUME Listed, NEW a \in StartupArgs
  PROVE  Fit(In("Startup", a.meant, a.mem))
<1>1. PICK h \in HostLength, n \in 0 .. 32 :
        /\ string_to_char_array(h) = Some(n)
        /\ a = Pass([host |-> h],
                    [descriptor |-> [port |-> <<1, 0>>, hostAddress |-> n,
                                     socketFamily |-> AF_INET]])
  BY DEF StartupArgs
<1>2. h \in Nat /\ h = n /\ h <= 16
  <2>1. h \in Nat
    BY DEF Listed
  <2> QED
    BY <1>1, <2>1 DEF string_to_char_array, Some, None
<1>3. CString(n) = h
  BY <1>2 DEF CString
<1> DEFINE d == [port |-> <<1, 0>>, hostAddress |-> n, socketFamily |-> AF_INET]
<1>4. d \in SocketDescriptor
  <2>1. <<1, 0>> \in Word
    BY TypesAssumption DEF Word
  <2> QED
    BY <2>1 DEF SocketDescriptor
<1>5. d.hostAddress = n /\ a.meant = [host |-> h] /\ a.mem = [descriptor |-> d]
  BY <1>1 DEF Pass
<1> HIDE DEF d
<1> DEFINE r == In("Startup", a.meant, a.mem)
<1>6. /\ r.method = "Startup" /\ DOMAIN r.meant = {"host"}
      /\ r.meant.host = h /\ r.mem.descriptor = d
  BY <1>5 DEF In
<1> HIDE DEF r
<1>7. Fit(r)
  BY <1>3, <1>4, <1>5, <1>6 DEF Fit, AddressMethods, TargetMethods, PlainMethods
<1> QED
  BY <1>7 DEF r

\* The host and the keys of Connect.
LEMMA ConnectFits ==
  ASSUME NEW a \in ConnectArgs
  PROVE  Fit(In("Connect", a.meant, a.mem))
<1>1. PICK h \in HostLength, k \in Key(1, Own), p \in Password :
        \E hc \in HostPointer(h), pc \in PasswordPointer(p) :
          a = Pass([host |-> h, key |-> k, password |-> p],
                   [host |-> hc, publicKey |-> KeyToC(k), password |-> pc])
  <2>1. PICK h \in HostLength, k \in Key(1, Own), p \in Password :
          a \in ConnectPass(h, k, p)
    BY DEF ConnectArgs
  <2> QED
    BY <2>1 DEF ConnectPass
<1>2. /\ DOMAIN a.meant = {"host", "key", "password"} /\ a.meant.host = h
      /\ a.meant.key = k /\ a.mem.host = h /\ a.mem.publicKey = KeyToC(k)
  BY <1>1 DEF Pass, HostPointer
<1> DEFINE r == In("Connect", a.meant, a.mem)
<1>3. r.method = "Connect" /\ r.meant = a.meant /\ r.mem = a.mem
  BY DEF In
<1> HIDE DEF r
<1>4. Fit(r)
  BY <1>2, <1>3 DEF Fit, AddressMethods, TargetMethods, PlainMethods
<1> QED
  BY <1>4 DEF r

\* The methods a program sets its peer up with.
SetupCalls ==
  {"AllowConnectionResponseIPMigration", "SetOccasionalPing",
   "SetUnreliableTimeout", "SetTimeoutTime", "InitializeSecurity", "Startup",
   "Connect", "SetMaximumIncomingConnections", "GetInternalAddresses",
   "GetLocalIpAddresses", "GetGuidFromSystemAddress"}

\* Every call that sets the peer up.
LEMMA SetupFits ==
  ASSUME Listed, NEW m, NEW a \in SetupArgs(m),
         m \in SetupCalls
  PROVE  /\ Fit(In(FirstCall(m), a.meant, a.mem))
         /\ FirstCall(m) \in Methods \cap FunctionsOf(m)
         /\ FirstCall(m) = "GetNumberOfAddresses" =>
              a.mem.each \in FunctionsOf(m) \ {"GetNumberOfAddresses"}
<1>1. CASE m = "Startup"
  BY <1>1, StartupFits DEF SetupArgs, FirstCall, FunctionsOf, Methods
<1>2. CASE m = "Connect"
  BY <1>2, ConnectFits DEF SetupArgs, FirstCall, FunctionsOf, Methods
<1>3. CASE m \in {"SetTimeoutTime", "GetGuidFromSystemAddress"}
  <2>1. a \in UnassignedArgs /\ FirstCall(m) = m /\ FunctionsOf(m) = {m}
    BY <1>3 DEF SetupArgs, FirstCall, FunctionsOf
  <2>2. m \in AddressMethods
    BY <1>3 DEF AddressMethods
  <2> QED
    BY <1>3, <2>1, <2>2, UnassignedFits DEF Methods
<1>4. CASE m = "InitializeSecurity"
  <2>1. a = Pass([key |-> {Own}], [key |-> {Own}])
    BY <1>4 DEF SetupArgs
  <2>2. a.meant = [key |-> {Own}] /\ a.mem = [key |-> {Own}]
    BY <2>1 DEF Pass
  <2> DEFINE r == In(m, a.meant, a.mem)
  <2>3. /\ r.method = "InitializeSecurity" /\ DOMAIN r.meant = {"key"}
        /\ r.meant.key = {Own} /\ r.mem.key = {Own}
    BY <1>4, <2>2 DEF In
  <2> HIDE DEF r
  <2>4. Fit(r)
    BY <2>3 DEF Fit, AddressMethods, TargetMethods, PlainMethods
  <2> QED
    BY <1>4, <2>4 DEF FirstCall, FunctionsOf, Methods, r
<1>5. CASE m \in {"GetInternalAddresses", "GetLocalIpAddresses"}
  <2>1. FirstCall(m) = "GetNumberOfAddresses" /\ a.meant = <<>>
    BY <1>5 DEF SetupArgs, FirstCall, Pass
  <2>2. a.mem.each \in FunctionsOf(m) \ {"GetNumberOfAddresses"}
    BY <1>5 DEF SetupArgs, FunctionsOf, Pass
  <2> DEFINE r == In(FirstCall(m), a.meant, a.mem)
  <2>3. r.method = "GetNumberOfAddresses" /\ DOMAIN r.meant = {}
    BY <2>1 DEF In
  <2> HIDE DEF r
  <2>4. Fit(r)
    BY <2>3, FitKinds DEF PlainMethods
  <2> QED
    BY <1>5, <2>1, <2>2, <2>4 DEF FunctionsOf, Methods, PlainMethods, r
<1>6. CASE m \in {"AllowConnectionResponseIPMigration", "SetOccasionalPing",
                  "SetUnreliableTimeout", "SetMaximumIncomingConnections"}
  <2>1. FirstCall(m) = m /\ a.meant = <<>> /\ FunctionsOf(m) = {m}
    BY <1>6 DEF SetupArgs, FirstCall, FunctionsOf, Pass
  <2> DEFINE r == In(m, a.meant, a.mem)
  <2>2. r.method = m /\ DOMAIN r.meant = {}
    BY <2>1 DEF In
  <2> HIDE DEF r
  <2>3. Fit(r)
    BY <1>6, <2>2, FitKinds DEF PlainMethods
  <2> QED
    BY <1>6, <2>1, <2>3 DEF Methods, PlainMethods, r
<1> QED
  BY <1>1, <1>2, <1>3, <1>4, <1>5, <1>6 DEF SetupCalls
-----------------------------------------------------------------------------
\* What a function of rakpeer.cpp does to its call and to RakNet.

Out(c, seen, result) ==
  [at |-> "out", method |-> c.method, meant |-> c.meant, mem |-> c.mem,
   seen |-> seen, result |-> result, moved |-> FALSE]

\* Only the call of thread t changes.
OneCall(t) ==
  /\ call' = [u \in Thread |-> call'[u]]
  /\ \A u \in Thread \ {t} : call'[u] = call[u]

\* A connection is as it was, or gone.
LeftOrGone(i) ==
  \/ raknet'.slot[i] = raknet.slot[i] /\ raknet'.guid[i] = raknet.guid[i]
  \/ raknet'.slot[i].system = Nobody /\ raknet'.guid[i] = NoGuid

\* The call has come back with an answer.
Done(t) ==
  LET m == call[t].method
  IN  /\ \E seen, result : call'[t] = Out(call[t], seen, result)
      /\ Answers(call[t]')
      /\ OneCall(t) /\ UNCHANGED <<setup, known, answer>>

\* What each function may change of what RakNet knows.
Changes(m) ==
  /\ raknet' \in Raknets
  /\ m \notin {"Startup", "Shutdown"} => raknet'.active = raknet.active
  /\ m # "SetMaximumIncomingConnections" => raknet'.incoming = raknet.incoming
  /\ m # "InitializeSecurity" => raknet'.security = raknet.security
  /\ m # "Connect" => raknet'.attempt = raknet.attempt
  /\ m # "Startup" => raknet'.addresses = raknet.addresses
  /\ \A i \in Slot : LeftOrGone(i)
  /\ m = "Shutdown" => \A i \in Slot : raknet'.slot[i].system = Nobody
  /\ m \notin {"CloseConnection", "Shutdown"} =>
       raknet'.slot = raknet.slot /\ raknet'.guid = raknet.guid

\* A call goes in, and nobody else's changes.
LEMMA EnterEffect ==
  ASSUME Shape, NEW t \in Thread, NEW method, NEW meant, NEW mem,
         Enter(t, method, meant, mem)
  PROVE  call'[t] = In(method, meant, mem) /\ OneCall(t) /\ At(t, "idle")
  BY DEF Shape, Enter, In, OneCall

\* A call comes out, and nobody else's changes.
LEMMA ReturnsEffect ==
  ASSUME Shape, NEW t \in Thread, NEW seen, NEW result, Returns(t, seen, result)
  PROVE  /\ call'[t] = Out(call[t], seen, result) /\ OneCall(t)
         /\ UNCHANGED <<setup, known, answer>>
  BY DEF Shape, Returns, Out, OneCall

\* Nothing changes for RakNet.
LEMMA SameChanges ==
  ASSUME Shape, UNCHANGED raknet, NEW m, m # "Shutdown"
  PROVE  Changes(m)
  BY DEF Shape, Changes, LeftOrGone

\* A call that arrived as it was meant and has an answer of its kind.
LEMMA ReturnsDone ==
  ASSUME Shape, NEW t \in Thread, NEW seen, NEW result, Returns(t, seen, result),
         Answers(Out(call[t], seen, result))
  PROVE  Done(t)
  BY ReturnsEffect DEF Done

\* Which answers are of their kind.
LEMMA AnswersKinds ==
  ASSUME NEW c, NEW seen, NEW result, Fit(c)
  PROVE  /\ c.method \in PlainMethods
              /\ (c.method = "GetSystemAddressFromIndex" =>
                    AddressOf(result.address, result.of))
              => Answers(Out(c, seen, result))
         /\ c.method \in {"SetTimeoutTime", "Ping", "CloseConnection"}
              /\ seen.target = c.meant.target
              => Answers(Out(c, seen, result))
         /\ c.method = "GetStatistics" /\ seen.target = c.meant.target
              /\ (result # NULL => result = <<[of |-> c.meant.target]>>)
              /\ c.meant.target \subseteq System \cup {Own}
              => Answers(Out(c, seen, result))
         /\ c.method \in {"GetAveragePing", "GetLastPing"}
              /\ seen.target = c.meant.target /\ result \subseteq c.meant.target
              => Answers(Out(c, seen, result))
<1> DEFINE o == Out(c, seen, result)
<1>1. /\ o.method = c.method /\ o.meant = c.meant /\ o.seen = seen
      /\ o.result = result
  BY DEF Out
<1>2. /\ c.method \in PlainMethods => DOMAIN c.meant = {}
      /\ c.method \in AddressMethods \cup TargetMethods => DOMAIN c.meant = {"target"}
  BY DEF Fit
<1> HIDE DEF o
<1>3. CASE c.method \in PlainMethods
            /\ (c.method = "GetSystemAddressFromIndex" =>
                    AddressOf(result.address, result.of))
  BY <1>1, <1>2, <1>3 DEF Answers, o, PlainMethods
<1>4. CASE c.method \in {"SetTimeoutTime", "Ping", "CloseConnection"}
             /\ seen.target = c.meant.target
  BY <1>1, <1>2, <1>4 DEF Answers, o, AddressMethods, TargetMethods
<1>5. CASE c.method = "GetStatistics" /\ seen.target = c.meant.target
              /\ (result # NULL => result = <<[of |-> c.meant.target]>>)
              /\ c.meant.target \subseteq System \cup {Own}
  BY <1>1, <1>2, <1>5 DEF Answers, o, AddressMethods
<1>6. CASE c.method \in {"GetAveragePing", "GetLastPing"}
              /\ seen.target = c.meant.target /\ result \subseteq c.meant.target
  BY <1>1, <1>2, <1>6 DEF Answers, o, TargetMethods
<1> QED
  BY <1>3, <1>4, <1>5, <1>6 DEF o

\* RakNet without some of its connections.
LEMMA WithoutTyped ==
  ASSUME raknet \in Raknets, NEW S
  PROVE  LET r == Without(S)
         IN  /\ r \in Raknets
             /\ r.active = raknet.active /\ r.incoming = raknet.incoming
             /\ r.security = raknet.security /\ r.attempt = raknet.attempt
             /\ r.addresses = raknet.addresses
             /\ \A i \in Slot : IF i \in S
                  THEN r.slot[i].system = Nobody /\ r.guid[i] = NoGuid
                  ELSE r.slot[i] = raknet.slot[i] /\ r.guid[i] = raknet.guid[i]
<1> DEFINE s == [i \in Slot |-> IF i \in S THEN [system |-> Nobody, secured |-> {}]
                                ELSE raknet.slot[i]]
           g == [i \in Slot |-> IF i \in S THEN NoGuid ELSE raknet.guid[i]]
           q == [raknet EXCEPT !.slot = s]
           r == [q EXCEPT !.guid = g]
<1>1. Without(S) = r
  BY DEF Without, Raknets
<1>2. NoGuid \in RakNetGUID
  BY DEF NoGuid, RakNetGUID, MAX64, UNASSIGNED_PLAYER_INDEX, SystemIndex
<1>3. s \in [Slot -> [system : System \cup {Nobody}, secured : SUBSET {Own}]]
  BY DEF Raknets
<1>4. g \in [Slot -> RakNetGUID]
  BY <1>2 DEF Raknets
<1>5. \A i \in Slot : IF i \in S THEN s[i].system = Nobody /\ g[i] = NoGuid
                      ELSE s[i] = raknet.slot[i] /\ g[i] = raknet.guid[i]
  OBVIOUS
<1> HIDE DEF s, g
<1>6. /\ q \in Raknets /\ q.slot = s
      /\ q.active = raknet.active /\ q.incoming = raknet.incoming
      /\ q.security = raknet.security /\ q.attempt = raknet.attempt
      /\ q.addresses = raknet.addresses
  BY <1>3 DEF Raknets
<1> HIDE DEF q
<1>7. /\ r \in Raknets /\ r.slot = q.slot /\ r.guid = g
      /\ r.active = q.active /\ r.incoming = q.incoming
      /\ r.security = q.security /\ r.attempt = q.attempt
      /\ r.addresses = q.addresses
  BY <1>4, <1>6 DEF Raknets
<1> HIDE DEF r
<1> QED
  BY <1>1, <1>5, <1>6, <1>7
-----------------------------------------------------------------------------
\* The functions of rakpeer.cpp, one by one.

\* A setting: the call has nothing to say.
LEMMA SettingDone ==
  ASSUME Shape, AboutCalls, NEW t \in Thread, NEW method \in PlainMethods,
         method # "GetSystemAddressFromIndex", Function(t, method),
         Returns(t, <<>>, NULL)
  PROVE  Done(t)
<1>1. Fit(call[t]) /\ call[t].method = method
  BY DEF AboutCalls, Function
<1>2. Answers(Out(call[t], <<>>, NULL))
  BY <1>1, AnswersKinds
<1> QED
  BY <1>2, ReturnsDone

\* The methods that set something.
LEMMA SettingsDone ==
  ASSUME Listed, Shape, AboutCalls, NEW t \in Thread,
         \/ RakPeer_SetOccasionalPing(t)
         \/ RakPeer_AllowConnectionResponseIPMigration(t)
         \/ RakPeer_SetUnreliableTimeout(t)
         \/ RakPeer_SetMaximumIncomingConnections(t)
  PROVE  Done(t) /\ Changes(call[t].method)
<1>1. CASE RakPeer_SetOccasionalPing(t)
  <2>1. Function(t, "SetOccasionalPing") /\ Returns(t, <<>>, NULL)
        /\ raknet' = [raknet EXCEPT !.ping = TRUE]
    BY <1>1 DEF RakPeer_SetOccasionalPing, Set
  <2>2. Changes("SetOccasionalPing")
    BY <2>1 DEF Changes, LeftOrGone, Shape, Raknets
  <2> QED
    BY <2>1, <2>2, SettingDone DEF PlainMethods, Function
<1>2. CASE RakPeer_AllowConnectionResponseIPMigration(t)
  <2>1. Function(t, "AllowConnectionResponseIPMigration") /\ Returns(t, <<>>, NULL)
        /\ raknet' = [raknet EXCEPT !.migration = FALSE]
    BY <1>2 DEF RakPeer_AllowConnectionResponseIPMigration, Set
  <2>2. Changes("AllowConnectionResponseIPMigration")
    BY <2>1 DEF Changes, LeftOrGone, Shape, Raknets
  <2> QED
    BY <2>1, <2>2, SettingDone DEF PlainMethods, Function
<1>3. CASE RakPeer_SetUnreliableTimeout(t)
  <2>1. Function(t, "SetUnreliableTimeout") /\ Returns(t, <<>>, NULL)
        /\ raknet' = [raknet EXCEPT !.unreliable = TimeMS(1000)]
    BY <1>3 DEF RakPeer_SetUnreliableTimeout, Set
  <2>2. TimeMS(1000) \in Nat
    BY TypesAssumption DEF TimeMS
  <2>3. Changes("SetUnreliableTimeout")
    BY <2>1, <2>2 DEF Changes, LeftOrGone, Shape, Raknets
  <2> QED
    BY <2>1, <2>3, SettingDone DEF PlainMethods, Function
<1>4. CASE RakPeer_SetMaximumIncomingConnections(t)
  <2>1. Function(t, "SetMaximumIncomingConnections") /\ Returns(t, <<>>, NULL)
        /\ raknet' = [raknet EXCEPT !.incoming = Cardinality(Slot)]
    BY <1>4 DEF RakPeer_SetMaximumIncomingConnections, Set
  <2>2. Cardinality(Slot) \in 0 .. Cardinality(Slot)
    BY FS_CardinalityType DEF Listed
  <2>3. Changes("SetMaximumIncomingConnections")
    BY <2>1, <2>2 DEF Changes, LeftOrGone, Shape, Raknets
  <2> QED
    BY <2>1, <2>3, SettingDone DEF PlainMethods, Function
<1> QED
  BY <1>1, <1>2, <1>3, <1>4

\* The timeout of all connections.
LEMMA SetTimeoutTimeDone ==
  ASSUME Shape, AboutCalls, NEW t \in Thread, RakPeer_SetTimeoutTime(t)
  PROVE  Done(t) /\ Changes(call[t].method)
<1> DEFINE target == Resolve(Mem(t).target)
           time == IF target = {Own} THEN TimeMS(30000) ELSE raknet.timeout
<1>1. /\ Function(t, "SetTimeoutTime") /\ Returns(t, [target |-> target], NULL)
      /\ raknet' = [raknet EXCEPT !.timeout = time]
  BY DEF RakPeer_SetTimeoutTime, Shape, Raknets
<1>2. time \in Nat
  BY TypesAssumption DEF TimeMS, Shape, Raknets
<1> HIDE DEF time
<1>3. Changes("SetTimeoutTime")
  BY <1>1, <1>2 DEF Changes, LeftOrGone, Shape, Raknets
<1>4. Fit(call[t]) /\ call[t].method = "SetTimeoutTime"
  BY <1>1 DEF AboutCalls, Function
<1>5. [target |-> target].target = call[t].meant.target
  BY <1>4 DEF Fit, AddressMethods, Mem
<1>6. Answers(Out(call[t], [target |-> target], NULL))
  BY <1>4, <1>5, AnswersKinds
<1> QED
  BY <1>1, <1>3, <1>4, <1>6, ReturnsDone

\* RakNet takes the keys as long as it is not active.
LEMMA InitializeSecurityDone ==
  ASSUME Shape, AboutCalls, NEW t \in Thread, RakPeer_InitializeSecurity(t)
  PROVE  /\ Done(t) /\ Changes(call[t].method)
         /\ ~ raknet.active => raknet'.security = {Own}
<1> DEFINE k == IF raknet.active THEN raknet.security ELSE Mem(t).key
<1>1. /\ Function(t, "InitializeSecurity")
      /\ Returns(t, [key |-> Mem(t).key], ~ raknet.active)
      /\ raknet' = [raknet EXCEPT !.security = k]
  BY DEF RakPeer_InitializeSecurity, Shape, Raknets
<1>2. /\ Fit(call[t]) /\ call[t].method = "InitializeSecurity"
      /\ Mem(t).key = {Own} /\ DOMAIN call[t].meant = {"key"}
      /\ call[t].meant.key = {Own}
  BY <1>1 DEF AboutCalls, Function, Fit, Mem
<1>3. k \in SUBSET {Own} /\ (~ raknet.active => k = {Own})
  BY <1>2 DEF Shape, Raknets
<1> HIDE DEF k
<1>4. Changes("InitializeSecurity") /\ raknet'.security = k
  BY <1>1, <1>3 DEF Changes, LeftOrGone, Shape, Raknets
<1>5. Answers(Out(call[t], [key |-> Mem(t).key], ~ raknet.active))
  <2> DEFINE o == Out(call[t], [key |-> Mem(t).key], ~ raknet.active)
  <2>1. /\ o.method = "InitializeSecurity" /\ o.meant = call[t].meant
        /\ o.seen = [key |-> {Own}] /\ o.result = ~ raknet.active
    BY <1>2 DEF Out
  <2>2. (~ raknet.active) \in BOOLEAN
    OBVIOUS
  <2> HIDE DEF o
  <2>3. Answers(o)
    BY <1>2, <2>1, <2>2, SMTT(20) DEF Answers
  <2> QED
    BY <2>3 DEF o
<1> QED
  BY <1>1, <1>2, <1>3, <1>4, <1>5, ReturnsDone

\* The peer is started, or it is not: its connections are as they were.
LEMMA StartupDone ==
  ASSUME Shape, AboutCalls, NEW t \in Thread, RakPeer_Startup(t)
  PROVE  Done(t) /\ Changes(call[t].method)
<1>1. PICK started \in BOOLEAN :
        /\ Function(t, "Startup")
        /\ raknet' = [raknet EXCEPT !.active = started,
                                    !.addresses = IF started THEN 2 ELSE 0]
        /\ Returns(t, [host |-> CString(Mem(t).descriptor.hostAddress)], started)
  BY DEF RakPeer_Startup
<1> DEFINE q == [raknet EXCEPT !.active = started]
           n == IF started THEN 2 ELSE 0
<1>2. /\ q \in Raknets /\ q.incoming = raknet.incoming
      /\ q.security = raknet.security /\ q.attempt = raknet.attempt
      /\ q.slot = raknet.slot /\ q.guid = raknet.guid
  BY DEF Shape, Raknets
<1>3. raknet' = [q EXCEPT !.addresses = n] /\ n \in Nat
  BY <1>1, Zenon
<1> HIDE DEF q, n
<1>4. Changes("Startup")
  BY <1>2, <1>3 DEF Changes, LeftOrGone, Raknets
<1>5. /\ Fit(call[t]) /\ call[t].method = "Startup"
      /\ DOMAIN call[t].meant = {"host"}
      /\ CString(Mem(t).descriptor.hostAddress) = call[t].meant.host
  BY <1>1 DEF AboutCalls, Function, Fit, Mem
<1> DEFINE o == Out(call[t], [host |-> CString(Mem(t).descriptor.hostAddress)], started)
<1>6. /\ o.method = "Startup" /\ o.meant = call[t].meant
      /\ o.seen.host = call[t].meant.host /\ o.result = started
  BY <1>5 DEF Out
<1> HIDE DEF o
<1>7. Answers(o)
  BY <1>5, <1>6 DEF Answers
<1> QED
  BY <1>1, <1>4, <1>5, <1>7, ReturnsDone DEF o

\* What RakNet reads of the keys is what the program holds.
LEMMA ConnectDone ==
  ASSUME Shape, AboutCalls, NEW t \in Thread, RakPeer_Connect(t)
  PROVE  Done(t) /\ Changes(call[t].method)
<1> DEFINE key == Mem(t).publicKey
           seen == [host |-> Mem(t).host, password |-> Mem(t).password,
                    key |-> [mode |-> key.publicKeyMode,
                             remote |-> key.remoteServerPublicKey,
                             mine |-> key.myPublicKey]]
<1>1. PICK started \in BOOLEAN :
        /\ Function(t, "Connect")
        /\ raknet' = [raknet EXCEPT !.attempt = started]
        /\ Returns(t, seen, started)
  BY DEF RakPeer_Connect
<1>2. Changes("Connect")
  BY <1>1 DEF Changes, LeftOrGone, Shape, Raknets
<1>3. /\ Fit(call[t]) /\ call[t].method = "Connect"
      /\ DOMAIN call[t].meant = {"host", "key", "password"}
      /\ Mem(t).host = call[t].meant.host
      /\ call[t].meant.key \in Key(1, Own) /\ Mem(t).publicKey = KeyToC(call[t].meant.key)
  BY <1>1 DEF AboutCalls, Function, Fit, Mem
<1>4. seen.key = call[t].meant.key
  BY <1>3 DEF KeyToC, Key
<1>5. seen.host = call[t].meant.host
  BY <1>3
<1> HIDE DEF seen
<1> DEFINE o == Out(call[t], seen, started)
<1>6. /\ o.method = "Connect" /\ o.meant = call[t].meant /\ o.seen = seen
      /\ o.result = started
  BY <1>3 DEF Out
<1> HIDE DEF o
<1>7. Answers(o)
  BY <1>3, <1>4, <1>5, <1>6 DEF Answers
<1> QED
  BY <1>1, <1>2, <1>3, <1>7, ReturnsDone DEF o

\* The addresses of the peer itself.
LEMMA CountingDone ==
  ASSUME Shape, AboutCalls, NEW t \in Thread,
         \/ RakPeer_GetNumberOfAddresses(t)
         \/ RakPeer_GetLocalIP(t) \/ RakPeer_GetInternalID(t)
  PROVE  /\ Done(t) /\ UNCHANGED raknet
         /\ call[t].method \in {"GetNumberOfAddresses", "GetLocalIP", "GetInternalID"}
         /\ call[t].method = "GetNumberOfAddresses" =>
              call'[t].result = raknet.addresses
         /\ call[t].method = "GetLocalIP" /\ Mem(t).index < raknet.addresses =>
              call'[t].result # NULL
<1>1. PICK result :
        /\ \/ Function(t, "GetNumberOfAddresses") /\ result = raknet.addresses
           \/ /\ Function(t, "GetLocalIP")
              /\ result = IF Mem(t).index < raknet.addresses THEN <<Own>> ELSE NULL
           \/ Function(t, "GetInternalID")
        /\ Returns(t, <<>>, result) /\ UNCHANGED raknet
  BY DEF RakPeer_GetNumberOfAddresses, RakPeer_GetLocalIP, RakPeer_GetInternalID, Query
<1>2. Fit(call[t])
  BY <1>1 DEF AboutCalls, Function
<1>3. Answers(Out(call[t], <<>>, result))
  BY <1>1, <1>2, AnswersKinds DEF Function, PlainMethods
<1>4. call'[t].result = result
  <2>1. call'[t] = Out(call[t], <<>>, result)
    BY <1>1, ReturnsEffect
  <2> QED
    BY <2>1 DEF Out
<1>5. <<Own>> # NULL
  BY DEF NULL
<1> QED
  BY <1>1, <1>3, <1>4, <1>5, ReturnsDone DEF Function
\* A target RakNet looks for is the peer itself or a remote system.
LEMMA TargetIs ==
  ASSUME NEW c
  PROVE  Resolve(c) \subseteq System \cup {Own}
  BY DEF Resolve

\* A pointer into the list is to a system that was asked for.
LEMMA GuidDone ==
  ASSUME Shape, AboutCalls, NEW t \in Thread, RakPeer_GetGuidFromSystemAddress(t)
  PROVE  /\ Done(t) /\ UNCHANGED raknet
         /\ call[t].method = "GetGuidFromSystemAddress"
         /\ call'[t].result.to = "list" =>
              /\ call'[t].result.index \in Slot
              /\ Occupied(call'[t].result.index)
              /\ raknet.slot[call'[t].result.index].system \in call[t].meant.target
<1> DEFINE target == Resolve(Mem(t).target)
           result == IF target = {Own} THEN [to |-> "own", index |-> 0]
                     ELSE IF SlotsOf(target) = {} THEN [to |-> "none", index |-> 0]
                     ELSE [to |-> "list", index |-> CHOOSE i \in SlotsOf(target) : TRUE]
<1>1. /\ Function(t, "GetGuidFromSystemAddress") /\ UNCHANGED raknet
      /\ Returns(t, [target |-> target], result)
  BY DEF RakPeer_GetGuidFromSystemAddress, Query
<1>2. /\ Fit(call[t]) /\ call[t].method = "GetGuidFromSystemAddress"
      /\ DOMAIN call[t].meant = {"target"} /\ call[t].meant.target = target
  BY <1>1 DEF AboutCalls, Function, Fit, AddressMethods, Mem
<1>3. /\ result = [to |-> result.to, index |-> result.index]
      /\ result.to \in {"own", "list", "none"}
      /\ result.to = "own" => target = {Own}
      /\ result.to = "list" =>
           /\ result.index \in SlotsOf(target) /\ target # {Own}
  OBVIOUS
<1>4. result.to = "list" => /\ result.index \in Slot
                            /\ raknet.slot[result.index].system \in target
                            /\ Occupied(result.index)
  <2>1. SUFFICES ASSUME result.to = "list"
                 PROVE  /\ result.index \in Slot
                        /\ raknet.slot[result.index].system \in target
                        /\ Occupied(result.index)
    OBVIOUS
  <2>2. /\ result.index \in Slot
        /\ raknet.slot[result.index].system \in target
    BY <1>3, <2>1 DEF SlotsOf
  <2>3. target = {Own} \/ Nobody \notin target
    <3>1. Nobody \notin System
      BY TypesAssumption DEF Nobody
    <3>2. CASE Mem(t).target.s_addr = <<0, 0>>
      <4>1. \A s \in System : <<0, s>> # <<0, 0>>
        BY <3>1 DEF Nobody
      <4> QED
        BY <3>1, <3>2, <4>1 DEF Resolve, InRakNet, NoAddress
    <3>3. CASE Mem(t).target.s_addr # <<0, 0>>
      BY <3>1, <3>3 DEF Resolve, NoAddress
    <3> QED
      BY <3>2, <3>3
  <2> QED
    BY <1>3, <2>1, <2>2, <2>3 DEF Occupied
<1> HIDE DEF target, result
<1> DEFINE o == Out(call[t], [target |-> target], result)
<1>5. /\ o.method = "GetGuidFromSystemAddress" /\ o.meant = call[t].meant
      /\ o.seen.target = target /\ o.result = result
  BY <1>2 DEF Out
<1>6. call'[t] = o
  BY <1>1, ReturnsEffect
<1> HIDE DEF o
<1>7. Answers(o)
  BY <1>2, <1>3, <1>4, <1>5 DEF Answers
<1>8. Done(t)
  BY <1>1, <1>7, ReturnsDone DEF o
<1> QED
  BY <1>1, <1>2, <1>4, <1>5, <1>6, <1>8

\* The address in a slot, and whose it is.
LEMMA IndexDone ==
  ASSUME Listed, Shape, AboutCalls, NEW t \in Thread,
         RakPeer_GetSystemAddressFromIndex(t)
  PROVE  /\ Done(t) /\ UNCHANGED raknet
         /\ call[t].method = "GetSystemAddressFromIndex"
<1> DEFINE i == Mem(t).index
           s == raknet.slot[i].system
           result == IF s = Nobody THEN [address |-> NoAddress, of |-> {Own}]
                     ELSE [address |-> InRakNet(s, i), of |-> {s}]
<1>1. /\ Function(t, "GetSystemAddressFromIndex") /\ UNCHANGED raknet
      /\ Returns(t, <<>>, result)
  BY DEF RakPeer_GetSystemAddressFromIndex, Query
<1>2. Fit(call[t]) /\ call[t].method = "GetSystemAddressFromIndex" /\ i \in Slot
  BY <1>1 DEF AboutCalls, Function, Fit, Mem
<1>3. s \in System \cup {Nobody}
  BY <1>2 DEF Shape, Raknets
<1>4. AddressOf(result.address, result.of)
  <2>1. CASE s = Nobody
    BY <2>1, TheAddresses
  <2>2. CASE s # Nobody
    BY <1>2, <1>3, <2>2, TheAddresses
  <2> QED
    BY <2>1, <2>2
<1> HIDE DEF result
<1>5. Answers(Out(call[t], <<>>, result))
  BY <1>2, <1>4, AnswersKinds DEF PlainMethods
<1> QED
  BY <1>1, <1>2, <1>5, ReturnsDone

\* The queries about one system.
LEMMA QueriesDone ==
  ASSUME Shape, AboutCalls, NEW t \in Thread,
         \/ RakPeer_GetStatistics_address(t) \/ RakPeer_GetAveragePing(t)
         \/ RakPeer_GetLastPing(t) \/ RakPeer_Ping(t)
  PROVE  /\ Done(t) /\ UNCHANGED raknet
         /\ call[t].method \in {"GetStatistics", "GetAveragePing", "GetLastPing", "Ping"}
<1>1. CASE RakPeer_GetStatistics_address(t)
  <2> DEFINE target == Resolve(Mem(t).target)
             result == IF SlotsOf(target) = {} THEN NULL ELSE <<[of |-> target]>>
  <2>1. /\ Function(t, "GetStatistics") /\ UNCHANGED raknet
        /\ Returns(t, [target |-> target], result)
    BY <1>1 DEF RakPeer_GetStatistics_address, Query
  <2>2. /\ Fit(call[t]) /\ call[t].method = "GetStatistics"
        /\ call[t].meant.target = target
    BY <2>1 DEF AboutCalls, Function, Fit, AddressMethods, Mem
  <2>3. target \subseteq System \cup {Own}
    BY TargetIs
  <2>4. result # NULL => result = <<[of |-> target]>>
    OBVIOUS
  <2> HIDE DEF target, result
  <2>5. Answers(Out(call[t], [target |-> target], result))
    BY <2>2, <2>3, <2>4, AnswersKinds
  <2> QED
    BY <2>1, <2>2, <2>5, ReturnsDone
<1>2. CASE RakPeer_GetAveragePing(t) \/ RakPeer_GetLastPing(t)
  <2> DEFINE target == ResolveTarget(Mem(t).target)
  <2>1. PICK method \in {"GetAveragePing", "GetLastPing"} :
          /\ Function(t, method) /\ UNCHANGED raknet
          /\ Returns(t, [target |-> target], PingOf(target))
    BY <1>2 DEF RakPeer_GetAveragePing, RakPeer_GetLastPing, Query
  <2>2. /\ Fit(call[t]) /\ call[t].method = method
        /\ call[t].meant.target = target
    BY <2>1 DEF AboutCalls, Function, Fit, TargetMethods, Mem
  <2>3. PingOf(target) \subseteq target
    BY DEF PingOf, NobodysPing
  <2> HIDE DEF target
  <2>4. Answers(Out(call[t], [target |-> target], PingOf(target)))
    BY <2>2, <2>3, AnswersKinds
  <2> QED
    BY <2>1, <2>2, <2>4, ReturnsDone
<1>3. CASE RakPeer_Ping(t)
  <2> DEFINE target == Resolve(Mem(t).target)
  <2>1. /\ Function(t, "Ping") /\ UNCHANGED raknet
        /\ Returns(t, [target |-> target], NULL)
    BY <1>3 DEF RakPeer_Ping, Query
  <2>2. /\ Fit(call[t]) /\ call[t].method = "Ping"
        /\ call[t].meant.target = target
    BY <2>1 DEF AboutCalls, Function, Fit, AddressMethods, Mem
  <2> HIDE DEF target
  <2>3. Answers(Out(call[t], [target |-> target], NULL))
    BY <2>2, AnswersKinds
  <2> QED
    BY <2>1, <2>2, <2>3, ReturnsDone
<1> QED
  BY <1>1, <1>2, <1>3

\* The calls that end connections.
LEMMA ClosingDone ==
  ASSUME Shape, AboutCalls, NEW t \in Thread,
         RakPeer_CloseConnection(t) \/ RakPeer_Shutdown(t)
  PROVE  /\ Done(t) /\ Changes(call[t].method)
         /\ call[t].method = "Shutdown" => ~ raknet'.active
<1>1. CASE RakPeer_CloseConnection(t)
  <2> DEFINE target == ResolveTarget(Mem(t).target)
  <2>1. /\ Function(t, "CloseConnection") /\ raknet' = Without(SlotsOf(target))
        /\ Returns(t, [target |-> target], NULL)
    BY <1>1 DEF RakPeer_CloseConnection
  <2>2. /\ Fit(call[t]) /\ call[t].method = "CloseConnection"
        /\ call[t].meant.target = target
    BY <2>1 DEF AboutCalls, Function, Fit, TargetMethods, Mem
  <2>3. Changes("CloseConnection")
    BY <2>1, WithoutTyped DEF Changes, LeftOrGone, Shape
  <2> HIDE DEF target
  <2>4. Answers(Out(call[t], [target |-> target], NULL))
    BY <2>2, AnswersKinds
  <2> QED
    BY <2>1, <2>2, <2>3, <2>4, ReturnsDone
<1>2. CASE RakPeer_Shutdown(t)
  <2> DEFINE q == Without(Slot)
  <2>1. /\ Function(t, "Shutdown") /\ raknet' = [q EXCEPT !.active = FALSE]
        /\ Returns(t, <<>>, NULL)
    BY <1>2 DEF RakPeer_Shutdown
  <2>2. /\ q \in Raknets /\ q.incoming = raknet.incoming
        /\ q.security = raknet.security /\ q.attempt = raknet.attempt
        /\ q.addresses = raknet.addresses
        /\ \A i \in Slot : q.slot[i].system = Nobody /\ q.guid[i] = NoGuid
    BY WithoutTyped DEF Shape
  <2> HIDE DEF q
  <2>3. Changes("Shutdown") /\ ~ raknet'.active
    BY <2>1, <2>2 DEF Changes, LeftOrGone, Raknets
  <2> QED
    BY <2>1, <2>3, SettingDone DEF PlainMethods, Function
<1> QED
  BY <1>1, <1>2

\* Every function.
LEMMA CallDone ==
  ASSUME Listed, Shape, AboutCalls, NEW t \in Thread, Call(t)
  PROVE  /\ At(t, "in") /\ Done(t) /\ Changes(call[t].method)
         /\ call[t].method = "InitializeSecurity" /\ ~ raknet.active =>
              raknet'.security = {Own}
         /\ call[t].method = "GetNumberOfAddresses" =>
              call'[t].result = raknet.addresses
         /\ call[t].method = "GetLocalIP" /\ Mem(t).index < raknet.addresses =>
              call'[t].result # NULL
         /\ call[t].method = "GetGuidFromSystemAddress"
              /\ call'[t].result.to = "list" =>
                   /\ call'[t].result.index \in Slot
                   /\ Occupied(call'[t].result.index)
                   /\ raknet.slot[call'[t].result.index].system \in call[t].meant.target
<1>0. At(t, "in")
  <2>1. \/ RakPeer_SetOccasionalPing(t)
        \/ RakPeer_AllowConnectionResponseIPMigration(t)
        \/ RakPeer_SetUnreliableTimeout(t)
        \/ RakPeer_SetMaximumIncomingConnections(t)
        => At(t, "in")
    BY DEF Function, Set, RakPeer_SetOccasionalPing,
       RakPeer_AllowConnectionResponseIPMigration, RakPeer_SetUnreliableTimeout,
       RakPeer_SetMaximumIncomingConnections
  <2>2. RakPeer_SetTimeoutTime(t) \/ RakPeer_InitializeSecurity(t) => At(t, "in")
    BY DEF Function, RakPeer_SetTimeoutTime, RakPeer_InitializeSecurity
  <2>3. RakPeer_Startup(t) \/ RakPeer_Connect(t) => At(t, "in")
    BY DEF Function, RakPeer_Startup, RakPeer_Connect
  <2>4. RakPeer_GetNumberOfAddresses(t) \/ RakPeer_GetLocalIP(t)
          \/ RakPeer_GetInternalID(t) => At(t, "in")
    BY DEF Function, RakPeer_GetNumberOfAddresses, RakPeer_GetLocalIP,
       RakPeer_GetInternalID
  <2>5. RakPeer_GetGuidFromSystemAddress(t) \/ RakPeer_GetSystemAddressFromIndex(t)
          => At(t, "in")
    BY DEF Function, RakPeer_GetGuidFromSystemAddress, RakPeer_GetSystemAddressFromIndex
  <2>6. RakPeer_GetStatistics_address(t) \/ RakPeer_GetAveragePing(t)
          \/ RakPeer_GetLastPing(t) \/ RakPeer_Ping(t) => At(t, "in")
    BY DEF Function, RakPeer_GetStatistics_address, RakPeer_GetAveragePing,
       RakPeer_GetLastPing, RakPeer_Ping
  <2>7. RakPeer_CloseConnection(t) \/ RakPeer_Shutdown(t) => At(t, "in")
    BY DEF Function, RakPeer_CloseConnection, RakPeer_Shutdown
  <2> QED
    BY <2>1, <2>2, <2>3, <2>4, <2>5, <2>6, <2>7 DEF Call
<1> DEFINE m == call[t].method
<1>1. CASE \/ RakPeer_SetOccasionalPing(t)
           \/ RakPeer_AllowConnectionResponseIPMigration(t)
           \/ RakPeer_SetUnreliableTimeout(t)
           \/ RakPeer_SetMaximumIncomingConnections(t)
  <2>1. m \in {"SetOccasionalPing", "AllowConnectionResponseIPMigration",
               "SetUnreliableTimeout", "SetMaximumIncomingConnections"}
    BY <1>1 DEF RakPeer_SetOccasionalPing, RakPeer_AllowConnectionResponseIPMigration,
       RakPeer_SetUnreliableTimeout, RakPeer_SetMaximumIncomingConnections, Set, Function
  <2> QED
    BY <1>0, <1>1, <2>1, SettingsDone
<1>2. CASE RakPeer_SetTimeoutTime(t)
  <2>1. m = "SetTimeoutTime"
    BY <1>2 DEF RakPeer_SetTimeoutTime, Function
  <2> QED
    BY <1>0, <1>2, <2>1, SetTimeoutTimeDone
<1>3. CASE RakPeer_InitializeSecurity(t)
  <2>1. m = "InitializeSecurity"
    BY <1>3 DEF RakPeer_InitializeSecurity, Function
  <2> QED
    BY <1>0, <1>3, <2>1, InitializeSecurityDone
<1>4. CASE RakPeer_Startup(t)
  <2>1. m = "Startup"
    BY <1>4 DEF RakPeer_Startup, Function
  <2> QED
    BY <1>0, <1>4, <2>1, StartupDone
<1>5. CASE RakPeer_Connect(t)
  <2>1. m = "Connect"
    BY <1>5 DEF RakPeer_Connect, Function
  <2> QED
    BY <1>0, <1>5, <2>1, ConnectDone
<1>6. CASE \/ RakPeer_GetNumberOfAddresses(t)
           \/ RakPeer_GetLocalIP(t) \/ RakPeer_GetInternalID(t)
  <2>1. m # "GetGuidFromSystemAddress" /\ m # "Shutdown" /\ m # "InitializeSecurity"
    BY <1>6, CountingDone
  <2> QED
    BY <1>0, <1>6, <2>1, CountingDone, SameChanges
<1>7. CASE RakPeer_GetGuidFromSystemAddress(t)
  <2>1. m = "GetGuidFromSystemAddress" /\ UNCHANGED raknet
    BY <1>7, GuidDone
  <2>2. Changes(m)
    BY <2>1, SameChanges
  <2> QED
    BY <1>0, <1>7, <2>1, <2>2, GuidDone
<1>8. CASE RakPeer_GetSystemAddressFromIndex(t)
  <2>1. m = "GetSystemAddressFromIndex"
    BY <1>8, IndexDone
  <2> QED
    BY <1>0, <1>8, <2>1, IndexDone, SameChanges
<1>9. CASE \/ RakPeer_GetStatistics_address(t) \/ RakPeer_GetAveragePing(t)
           \/ RakPeer_GetLastPing(t) \/ RakPeer_Ping(t)
  <2>1. m \in {"GetStatistics", "GetAveragePing", "GetLastPing", "Ping"}
    BY <1>9, QueriesDone
  <2> QED
    BY <1>0, <1>9, <2>1, QueriesDone, SameChanges
<1>10. CASE RakPeer_CloseConnection(t) \/ RakPeer_Shutdown(t)
  <2>1. m \in {"CloseConnection", "Shutdown"}
    BY <1>10 DEF RakPeer_CloseConnection, RakPeer_Shutdown, Function
  <2> QED
    BY <1>0, <1>10, <2>1, ClosingDone
<1> QED
  BY <1>1, <1>2, <1>3, <1>4, <1>5, <1>6, <1>7, <1>8, <1>9, <1>10 DEF Call
-----------------------------------------------------------------------------
\* How far the programs are, step by step.

\* The calls that set a server and a client up.
LEMMA SetupLengths ==
  /\ ServerSetup \in Seq(SetupCalls) /\ Len(ServerSetup) = 8
  /\ ClientSetup \in Seq(SetupCalls) /\ Len(ClientSetup) = 6
  BY DEF ServerSetup, ClientSetup, SetupCalls

\* The next call is the first of those that are left.
LEMMA AfterNext ==
  ASSUME NEW S, NEW s \in Seq(S), NEW n \in 0 .. Len(s)
  PROVE  /\ n = Len(s) => After(s, n) = <<>>
         /\ n < Len(s) => /\ After(s, n) # <<>>
                          /\ Head(After(s, n)) = s[n + 1]
                          /\ Tail(After(s, n)) = After(s, n + 1)
<1>1. /\ After(s, n) \in Seq(S)
      /\ Len(After(s, n)) = Len(s) - n
      /\ \A i \in 1 .. Len(s) - n : After(s, n)[i] = s[n + i]
  BY DEF After
<1>2. ASSUME n < Len(s)
      PROVE  Tail(After(s, n)) = After(s, n + 1)
  <2>1. /\ After(s, n + 1) \in Seq(S)
        /\ Len(After(s, n + 1)) = Len(s) - (n + 1)
        /\ \A i \in 1 .. Len(s) - (n + 1) : After(s, n + 1)[i] = s[n + 1 + i]
    BY <1>2 DEF After
  <2>2. /\ Tail(After(s, n)) \in Seq(S)
        /\ Len(Tail(After(s, n))) = Len(s) - (n + 1)
        /\ \A i \in 1 .. Len(s) - (n + 1) : Tail(After(s, n))[i] = After(s, n)[i + 1]
    BY <1>1, <1>2
  <2>3. \A i \in 1 .. Len(s) - (n + 1) : Tail(After(s, n))[i] = After(s, n + 1)[i]
    BY <1>1, <2>1, <2>2
  <2> HIDE DEF After
  <2> QED
    BY <2>1, <2>2, <2>3
<1> QED
  BY <1>1, <1>2

\* What a thread that is not in a call is at.
LEMMA IdleIs ==
  /\ Idle.at = "idle"
  /\ \A m, x, y : In(m, x, y).at = "in" /\ In(m, x, y).method = m
                    /\ In(m, x, y).mem = y /\ In(m, x, y).meant = x
  /\ \A c, x, y : /\ Out(c, x, y).at = "out" /\ Out(c, x, y).method = c.method
                  /\ Out(c, x, y).mem = c.mem /\ Out(c, x, y).meant = c.meant
                  /\ Out(c, x, y).result = y /\ Out(c, x, y).moved = FALSE
  BY DEF Idle, In, Out

\* Steps that leave RakNet alone and bring no call back.
LEMMA QuietStep ==
  ASSUME CInv, NEW t \in Thread, UNCHANGED raknet, OneCall(t), call'[t].at # "out",
         CallShape(call'[t]), call'[t].at = "in" => Fit(call'[t])
  PROVE  /\ Live' /\ Secured'
         /\ UNCHANGED <<known, answer>> => Shape' /\ AboutCalls' /\ AnswersAboutAsked'
<1>1. Secured'
  BY DEF CInv, Secured, Occupied
<1>2. Live'
  BY DEF CInv, Live, Occupied, OneCall, At, Pointer
<1>3. ASSUME UNCHANGED <<known, answer>>
      PROVE  Shape' /\ AboutCalls' /\ AnswersAboutAsked'
  <2>1. Shape'
    BY <1>3 DEF CInv, Shape, OneCall
  <2>2. AboutCalls'
    BY <1>3 DEF CInv, AboutCalls, OneCall, At
  <2>3. AnswersAboutAsked'
    BY <1>3 DEF CInv, AnswersAboutAsked
  <2> QED
    BY <2>1, <2>2, <2>3
<1> QED
  BY <1>1, <1>2, <1>3

\* A call that goes in.
LEMMA EntersQuiet ==
  ASSUME CInv, NEW t \in Thread, NEW method \in Methods, NEW meant, NEW mem,
         Enter(t, method, meant, mem), Fit(In(method, meant, mem)),
         UNCHANGED <<raknet, known, answer>>
  PROVE  Live' /\ Secured' /\ Shape' /\ AboutCalls' /\ AnswersAboutAsked'
<1>1. call'[t] = In(method, meant, mem) /\ OneCall(t)
  BY EnterEffect DEF CInv
<1>2. CallShape(In(method, meant, mem)) /\ In(method, meant, mem).at # "out"
  BY DEF CallShape, WentIn, In
<1> QED
  BY <1>1, <1>2, QuietStep

\* The next call of the setup.
LEMMA StepSetUp ==
  ASSUME Listed, CInv, SetUp
  PROVE  CInv'
<1> DEFINE m == Head(setup)
<1>1. PICK a \in SetupArgs(m) : Enter("main", FirstCall(m), a.meant, a.mem)
  BY DEF SetUp
<1>2. /\ setup # <<>> /\ setup' = Tail(setup) /\ UNCHANGED <<raknet, known, answer>>
      /\ "main" \in Thread
  BY DEF SetUp, Thread
<1>3. /\ call'["main"] = In(FirstCall(m), a.meant, a.mem) /\ OneCall("main")
      /\ At("main", "idle")
  BY <1>1, <1>2, EnterEffect DEF CInv
<1>4. \/ \E n \in 0 .. 7 : ServerAt(n) /\ m = ServerSetup[n + 1]
                             /\ setup' = After(ServerSetup, n + 1)
      \/ \E n \in 0 .. 5 : ClientAt(n) /\ m = ClientSetup[n + 1]
                             /\ setup' = After(ClientSetup, n + 1)
  <2>1. ASSUME NEW n \in 0 .. 8, ServerAt(n)
        PROVE  n \in 0 .. 7 /\ m = ServerSetup[n + 1] /\ setup' = After(ServerSetup, n + 1)
    <3>1. n \in 0 .. Len(ServerSetup) /\ setup = After(ServerSetup, n)
      BY <2>1, SetupLengths DEF ServerAt
    <3>2. n # Len(ServerSetup)
      BY <1>2, <3>1, SetupLengths, AfterNext
    <3>3. n < Len(ServerSetup) /\ n \in 0 .. 7
      BY <3>1, <3>2, SetupLengths
    <3> QED
      BY <1>2, <3>1, <3>3, SetupLengths, AfterNext
  <2>2. ASSUME NEW n \in 0 .. 6, ClientAt(n)
        PROVE  n \in 0 .. 5 /\ m = ClientSetup[n + 1] /\ setup' = After(ClientSetup, n + 1)
    <3>1. n \in 0 .. Len(ClientSetup) /\ setup = After(ClientSetup, n)
      BY <2>2, SetupLengths DEF ClientAt
    <3>2. n # Len(ClientSetup)
      BY <1>2, <3>1, SetupLengths, AfterNext
    <3>3. n < Len(ClientSetup) /\ n \in 0 .. 5
      BY <3>1, <3>2, SetupLengths
    <3> QED
      BY <1>2, <3>1, <3>3, SetupLengths, AfterNext
  <2> QED
    BY <1>2, <2>1, <2>2 DEF CInv, Control, Over, Programs, Console
<1>5. m \in SetupCalls
  BY <1>4 DEF ServerSetup, ClientSetup, SetupCalls
<1> HIDE DEF m
<1>6. /\ Fit(In(FirstCall(m), a.meant, a.mem))
      /\ FirstCall(m) \in Methods /\ FirstCall(m) \in FunctionsOf(m)
      /\ FirstCall(m) = "GetNumberOfAddresses" =>
           a.mem.each \in FunctionsOf(m) \ {"GetNumberOfAddresses"}
  BY <1>5, SetupFits
<1>7. Live' /\ Secured' /\ Shape' /\ AboutCalls' /\ AnswersAboutAsked'
  BY <1>1, <1>2, <1>6, EntersQuiet
<1>8. /\ call'["main"].at = "in" /\ call'["main"].method = FirstCall(m)
      /\ call'["main"].mem = a.mem /\ call'["console"] = call["console"]
  BY <1>3, IdleIs DEF OneCall, Thread
<1>9. Counted'
  BY <1>5, <1>8 DEF Counted, InCall, At, FirstCall, SetupCalls
<1>10. Control'
  <2>1. FirstCall(m) # "Shutdown"
    BY <1>5 DEF FirstCall, SetupCalls
  <2>2. ~ InCall("main", {"Shutdown"})' /\ ~ At("main", "failed")' /\ ~ At("main", "down")'
    BY <1>8, <2>1 DEF InCall, At
  <2>3. At("console", "unborn")'
    BY <1>2, <1>8 DEF CInv, Control, At, Programs, Console
  <2>4. ASSUME NEW n \in 0 .. 7, ServerAt(n), m = ServerSetup[n + 1],
               setup' = After(ServerSetup, n + 1)
        PROVE  ServerAt(n + 1)'
    <3>1. Doing(ServerSetup, n + 1)'
      BY <1>6, <1>8, <2>4 DEF Doing, InCall, At, Mem
    <3>2. \A k \in {4, 5} : NotYet(n + 1, k)' <=> n + 1 <= k
      BY <1>8 DEF NotYet, At
    <3>3. \A k \in {4, 5} : NotYet(n, k) <=> n < k
      BY <1>3 DEF NotYet, At
    <3> QED
      BY <1>2, <2>4, <3>1, <3>2, <3>3 DEF ServerAt
  <2>5. ASSUME NEW n \in 0 .. 5, ClientAt(n), m = ClientSetup[n + 1],
               setup' = After(ClientSetup, n + 1)
        PROVE  ClientAt(n + 1)'
    <3>1. Doing(ClientSetup, n + 1)'
      BY <1>6, <1>8, <2>5 DEF Doing, InCall, At, Mem
    <3>2. \A k \in {3, 4} : NotYet(n + 1, k)' <=> n + 1 <= k
      BY <1>8 DEF NotYet, At
    <3>3. \A k \in {3, 4} : NotYet(n, k) <=> n < k
      BY <1>3 DEF NotYet, At
    <3> QED
      BY <1>2, <2>5, <3>1, <3>2, <3>3 DEF ClientAt
  <2>6. (\E n \in 0 .. 8 : ServerAt(n)') \/ (\E n \in 0 .. 6 : ClientAt(n)')
    <3>1. \A n \in 0 .. 7 : n + 1 \in 0 .. 8
      OBVIOUS
    <3>2. \A n \in 0 .. 5 : n + 1 \in 0 .. 6
      OBVIOUS
    <3> QED
      BY <1>4, <2>4, <2>5, <3>1, <3>2
  <2> QED
    BY <2>2, <2>3, <2>6 DEF Control, At, Programs, Console
<1> QED
  BY <1>7, <1>9, <1>10 DEF CInv
\* Startup panics and main is done.
LEMMA StepHostRefused ==
  ASSUME CInv, HostRefused
  PROVE  CInv'
<1>1. /\ setup # <<>> /\ setup' = <<>> /\ UNCHANGED <<raknet, known, answer>>
      /\ call' = [call EXCEPT !["main"] = [at |-> "failed"]] /\ "main" \in Thread
  BY DEF HostRefused, Thread
<1>2. call'["main"] = [at |-> "failed"] /\ OneCall("main")
  BY <1>1 DEF CInv, Shape, OneCall
<1>3. call'["main"].at = "failed" /\ CallShape(call'["main"])
  BY <1>2 DEF CallShape
<1>4. Live' /\ Secured' /\ Shape' /\ AboutCalls' /\ AnswersAboutAsked'
  BY <1>1, <1>2, <1>3, QuietStep
<1>5. Counted'
  BY <1>3 DEF Counted, InCall, At
<1>6. Over'
  BY <1>1, <1>3 DEF Over
<1>7. At("console", "unborn")'
  <2>1. At("console", "unborn")
    BY <1>1 DEF CInv, Control, Programs, Console
  <2> QED
    BY <1>2, <2>1 DEF OneCall, Thread, At
<1>8. Console'
  BY <1>3, <1>7 DEF Console, InCall, At
<1> QED
  BY <1>4, <1>5, <1>6, <1>8 DEF CInv, Programs, Control, Console

\* What main has done does not depend on the console.
LEMMA MainStays ==
  ASSUME CInv, OneCall("console"), UNCHANGED setup,
         raknet'.active = raknet.active, raknet'.incoming = raknet.incoming,
         raknet'.security = raknet.security, raknet'.attempt = raknet.attempt,
         raknet'.addresses = raknet.addresses
  PROVE  Programs' /\ Counted' /\ call'["main"] = call["main"]
<1>1. call'["main"] = call["main"]
  BY DEF OneCall, Thread
<1>2. ASSUME NEW n, ServerAt(n) PROVE ServerAt(n)'
  BY <1>1, <1>2 DEF ServerAt, Doing, InCall, At, Mem, NotYet
<1>3. ASSUME NEW n, ClientAt(n) PROVE ClientAt(n)'
  BY <1>1, <1>3 DEF ClientAt, Doing, InCall, At, Mem, NotYet
<1>4. Over => Over'
  BY <1>1 DEF Over, InCall, At
<1>5. Programs'
  BY <1>2, <1>3, <1>4 DEF CInv, Programs, Control, Console
<1>6. Counted'
  BY <1>1 DEF CInv, Counted, InCall, At, Mem
<1> QED
  BY <1>1, <1>5, <1>6

\* The console is spawned when the peer is set up, and may quit.
LEMMA StepConsole ==
  ASSUME CInv, Spawn \/ Quit
  PROVE  CInv'
<1>1. PICK place \in {"idle", "ended"} :
        Becomes("console", place) /\ (place = "idle" => setup = <<>> /\ At("main", "idle"))
          /\ (place = "ended" => At("console", "idle"))
  BY DEF Spawn, Quit
<1>2. /\ UNCHANGED <<raknet, setup, known, answer>>
      /\ call' = [call EXCEPT !["console"] = [at |-> place]] /\ "console" \in Thread
  BY <1>1 DEF Becomes, Thread
<1>3. call'["console"] = [at |-> place] /\ OneCall("console")
  BY <1>2 DEF CInv, Shape, OneCall
<1>4. call'["console"].at = place /\ CallShape(call'["console"])
  BY <1>3 DEF CallShape
<1>5. Live' /\ Secured' /\ Shape' /\ AboutCalls' /\ AnswersAboutAsked'
  BY <1>2, <1>3, <1>4, QuietStep
<1>6. Programs' /\ Counted' /\ call'["main"] = call["main"]
  BY <1>2, <1>3, MainStays
<1>7. Console'
  <2>1. CASE place = "idle"
    BY <1>1, <1>2, <1>4, <1>6, <2>1 DEF Console, InCall, At
  <2>2. CASE place = "ended"
    <3>1. ~ At("console", "unborn")
      BY <1>1, <2>2 DEF At
    <3> QED
      BY <1>2, <1>4, <1>6, <2>2, <3>1 DEF CInv, Console, InCall, At, Control, Programs
  <2> QED
    BY <2>1, <2>2
<1> QED
  BY <1>5, <1>6, <1>7 DEF CInv, Programs, Control, Console
\* Main shuts the peer down when the console has ended.
LEMMA StepShutdown ==
  ASSUME CInv, Shutdown
  PROVE  CInv'
<1>1. /\ setup = <<>> /\ At("console", "ended") /\ Enter("main", "Shutdown", <<>>, <<>>)
      /\ UNCHANGED <<raknet, setup, known, answer>> /\ "main" \in Thread
  BY DEF Shutdown, Stopped, Thread
<1>2. Fit(In("Shutdown", <<>>, <<>>))
  <2> DEFINE r == In("Shutdown", <<>>, <<>>)
  <2>1. r.method = "Shutdown" /\ DOMAIN r.meant = {}
    BY DEF In
  <2> HIDE DEF r
  <2>2. Fit(r)
    BY <2>1, FitKinds DEF PlainMethods
  <2> QED
    BY <2>2 DEF r
<1>3. "Shutdown" \in Methods
  BY DEF Methods, PlainMethods
<1>4. Live' /\ Secured' /\ Shape' /\ AboutCalls' /\ AnswersAboutAsked'
  BY <1>1, <1>2, <1>3, EntersQuiet
<1>5. /\ call'["main"].at = "in" /\ call'["main"].method = "Shutdown"
      /\ call'["console"] = call["console"]
  <2>1. call'["main"] = In("Shutdown", <<>>, <<>>) /\ OneCall("main")
    BY <1>1, EnterEffect DEF CInv
  <2> QED
    BY <2>1, IdleIs DEF OneCall, Thread
<1>6. Counted'
  BY <1>5 DEF Counted, InCall, At
<1>7. Over'
  BY <1>1, <1>5 DEF Over, InCall, At
<1>8. Console'
  BY <1>1, <1>5 DEF Console, InCall, At
<1> QED
  BY <1>4, <1>6, <1>7, <1>8 DEF CInv, Control, Programs

\* The peer is dropped, by a main that is done with it.
LEMMA StepDrop ==
  ASSUME CInv, RakPeer_drop
  PROVE  CInv'
<1> DEFINE q == Without(Slot)
<1>1. /\ At("main", "failed") \/ At("main", "down")
      /\ "main" \in Thread
      /\ raknet' = [q EXCEPT !.active = FALSE]
      /\ call' = [call EXCEPT !["main"] = [at |-> "ended"]]
      /\ UNCHANGED <<setup, known, answer>>
  BY DEF RakPeer_drop, Thread
<1>2. /\ q \in Raknets /\ q.incoming = raknet.incoming
      /\ q.security = raknet.security /\ q.attempt = raknet.attempt
      /\ \A i \in Slot : q.slot[i].system = Nobody
  BY WithoutTyped DEF CInv, Shape
<1> HIDE DEF q
<1>3. /\ raknet' \in Raknets /\ raknet'.incoming = raknet.incoming
      /\ raknet'.security = raknet.security /\ raknet'.attempt = raknet.attempt
      /\ \A i \in Slot : raknet'.slot[i].system = Nobody
  BY <1>1, <1>2 DEF Raknets
<1>4. call'["main"] = [at |-> "ended"] /\ OneCall("main")
  BY <1>1 DEF CInv, Shape, OneCall, Thread
<1>5. /\ call'["main"].at = "ended" /\ CallShape(call'["main"])
      /\ call'["console"] = call["console"]
      /\ At("console", "unborn") \/ At("console", "ended")
  BY <1>1, <1>4 DEF CallShape, OneCall, Thread, CInv, Control, Console
<1>6. Shape'
  BY <1>1, <1>3, <1>4, <1>5 DEF CInv, Shape, OneCall
<1>7. AboutCalls'
  BY <1>1, <1>4, <1>5 DEF CInv, AboutCalls, OneCall, At
<1>8. AnswersAboutAsked'
  BY <1>1 DEF CInv, AnswersAboutAsked
<1>9. Secured'
  BY <1>3 DEF CInv, Secured, Occupied
<1>10. Live'
  BY <1>3, <1>5 DEF Live, Occupied, At, Thread
<1>11. Counted'
  BY <1>5 DEF Counted, InCall, At
<1>12. Over'
  <2>1. Over
    BY <1>1 DEF CInv, Control, Programs, ServerAt, ClientAt, Doing, InCall, At
  <2> QED
    BY <1>1, <1>5, <2>1 DEF Over
<1>13. Console'
  <2>1. setup' = <<>>
    BY <1>12 DEF Over
  <2> QED
    BY <1>5, <2>1 DEF Console, InCall, At
<1> QED
  BY <1>6, <1>7, <1>8, <1>9, <1>10, <1>11, <1>12, <1>13 DEF CInv, Control, Programs

\* The console asks.
LEMMA StepAsk ==
  ASSUME Listed, CInv, AskIndex \/ AskAddress \/ AskTarget
  PROVE  CInv'
<1>1. PICK method \in ConsoleMethods : \E meant, mem :
        /\ Enter("console", method, meant, mem) /\ Fit(In(method, meant, mem))
        /\ UNCHANGED <<raknet, setup, known, answer>>
  <2>1. CASE AskIndex
    <3>1. PICK i \in Slot :
            /\ Enter("console", "GetSystemAddressFromIndex", <<>>, [index |-> i])
            /\ UNCHANGED <<raknet, setup, known, answer>>
      BY <2>1 DEF AskIndex, Ask, Pass
    <3> DEFINE r == In("GetSystemAddressFromIndex", <<>>, [index |-> i])
    <3>2. /\ r.method = "GetSystemAddressFromIndex" /\ DOMAIN r.meant = {}
          /\ r.mem.index \in Slot
      BY DEF In
    <3> HIDE DEF r
    <3>3. Fit(r)
      BY <3>2, FitKinds DEF PlainMethods
    <3>4. "GetSystemAddressFromIndex" \in ConsoleMethods
      BY DEF ConsoleMethods
    <3> QED
      BY <3>1, <3>3, <3>4 DEF r
  <2>2. CASE AskAddress
    <3>1. PICK method \in {"Ping", "GetStatistics", "GetGuidFromSystemAddress"},
               a \in AddressPass("console") :
            /\ Enter("console", method, a.meant, a.mem)
            /\ UNCHANGED <<raknet, setup, known, answer>>
      BY <2>2 DEF AskAddress, Ask
    <3>2. method \in AddressMethods /\ method \in ConsoleMethods /\ "console" \in Thread
      BY DEF AddressMethods, ConsoleMethods, Thread
    <3>3. Fit(In(method, a.meant, a.mem))
      BY <3>2, AddressPassFits DEF CInv
    <3> QED
      BY <3>1, <3>2, <3>3
  <2>3. CASE AskTarget
    <3>1. PICK method \in TargetMethods, a \in TargetPass("console") :
            /\ Enter("console", method, a.meant, a.mem)
            /\ UNCHANGED <<raknet, setup, known, answer>>
      BY <2>3 DEF AskTarget, Ask, TargetMethods
    <3>2. method \in ConsoleMethods /\ "console" \in Thread
      BY DEF ConsoleMethods, Thread
    <3>3. Fit(In(method, a.meant, a.mem))
      BY <3>2, TargetPassFits DEF CInv
    <3> QED
      BY <3>1, <3>2, <3>3
  <2> QED
    BY <2>1, <2>2, <2>3
<1>2. PICK meant, mem :
        /\ Enter("console", method, meant, mem) /\ Fit(In(method, meant, mem))
        /\ UNCHANGED <<raknet, setup, known, answer>>
  BY <1>1
<1>3. method \in Methods /\ "console" \in Thread
  BY DEF ConsoleMethods, Methods, AddressMethods, TargetMethods, PlainMethods, Thread
<1>4. Live' /\ Secured' /\ Shape' /\ AboutCalls' /\ AnswersAboutAsked'
  BY <1>2, <1>3, EntersQuiet
<1>5. /\ call'["console"].at = "in" /\ call'["console"].method = method
      /\ OneCall("console") /\ At("console", "idle")
  <2>1. call'["console"] = In(method, meant, mem) /\ OneCall("console") /\ At("console", "idle")
    BY <1>2, <1>3, EnterEffect DEF CInv
  <2> QED
    BY <2>1, IdleIs
<1>6. Programs' /\ Counted' /\ call'["main"] = call["main"]
  BY <1>2, <1>5, MainStays
<1>7. Console'
  BY <1>2, <1>5, <1>6 DEF CInv, Control, Console, InCall, At
<1> QED
  BY <1>4, <1>6, <1>7 DEF CInv, Control
\* Which call of the setup a function belongs to.
LEMMA SetupOrder ==
  /\ \A n \in 1 .. 8 : \A m \in FunctionsOf(ServerSetup[n]) :
       /\ m \notin {"Connect", "Shutdown"}
       /\ m = "Startup" => n = 5
       /\ m = "InitializeSecurity" <=> n = 4
       /\ m = "SetMaximumIncomingConnections" => n = 6
       /\ m \in {"GetNumberOfAddresses", "GetInternalID", "GetLocalIP"} => n = 7
  /\ \A n \in 1 .. 6 : \A m \in FunctionsOf(ClientSetup[n]) :
       /\ m \notin {"SetMaximumIncomingConnections", "Shutdown", "InitializeSecurity"}
       /\ m = "Startup" => n = 3
       /\ m = "Connect" => n = 4
       /\ m \in {"GetNumberOfAddresses", "GetInternalID", "GetLocalIP"} => n = 5
<1>1. ASSUME NEW n \in 1 .. 8, NEW m \in FunctionsOf(ServerSetup[n])
      PROVE  /\ m \notin {"Connect", "Shutdown"}
             /\ m = "Startup" => n = 5
             /\ m = "InitializeSecurity" <=> n = 4
             /\ m = "SetMaximumIncomingConnections" => n = 6
             /\ m \in {"GetNumberOfAddresses", "GetInternalID", "GetLocalIP"} => n = 7
  BY DEF ServerSetup, FunctionsOf
<1>2. ASSUME NEW n \in 1 .. 6, NEW m \in FunctionsOf(ClientSetup[n])
      PROVE  /\ m \notin {"SetMaximumIncomingConnections", "Shutdown", "InitializeSecurity"}
             /\ m = "Startup" => n = 3
             /\ m = "Connect" => n = 4
             /\ m \in {"GetNumberOfAddresses", "GetInternalID", "GetLocalIP"} => n = 5
  BY DEF ClientSetup, FunctionsOf
<1> QED
  BY <1>1, <1>2

\* Where the programs are while main is in a call.
LEMMA MainCalls ==
  ASSUME CInv, At("main", "in") \/ At("main", "out")
  PROVE  \/ \E n \in 1 .. 8 : ServerAt(n) /\ call["main"].method \in FunctionsOf(ServerSetup[n])
         \/ \E n \in 1 .. 6 : ClientAt(n) /\ call["main"].method \in FunctionsOf(ClientSetup[n])
         \/ Over /\ call["main"].method = "Shutdown"
<1>1. ~ At("main", "idle")
  BY DEF At
<1>2. ASSUME NEW n \in 0 .. 8, ServerAt(n)
      PROVE  n \in 1 .. 8 /\ call["main"].method \in FunctionsOf(ServerSetup[n])
  BY <1>1, <1>2 DEF ServerAt, Doing, InCall
<1>3. ASSUME NEW n \in 0 .. 6, ClientAt(n)
      PROVE  n \in 1 .. 6 /\ call["main"].method \in FunctionsOf(ClientSetup[n])
  BY <1>1, <1>3 DEF ClientAt, Doing, InCall
<1>4. Over => call["main"].method = "Shutdown"
  BY DEF Over, InCall, At
<1> QED
  BY <1>2, <1>3, <1>4 DEF CInv, Control, Programs

\* There is something left to do before the last call.
LEMMA NotLast ==
  /\ \A n \in 0 .. 7 : After(ServerSetup, n) # <<>>
  /\ \A n \in 0 .. 5 : After(ClientSetup, n) # <<>>
<1>1. ASSUME NEW n \in 0 .. 7 PROVE After(ServerSetup, n) # <<>>
  <2>1. n \in 0 .. Len(ServerSetup) /\ n < Len(ServerSetup)
    BY SetupLengths
  <2> QED
    BY <2>1, SetupLengths, AfterNext
<1>2. ASSUME NEW n \in 0 .. 5 PROVE After(ClientSetup, n) # <<>>
  <2>1. n \in 0 .. Len(ClientSetup) /\ n < Len(ClientSetup)
    BY SetupLengths
  <2> QED
    BY <2>1, SetupLengths, AfterNext
<1> QED
  BY <1>1, <1>2

\* The calls that start and stop the peer are made when nobody else calls,
\* and when there are no connections yet.
LEMMA AloneStarting ==
  ASSUME CInv, NEW t \in Thread, At(t, "in")
  PROVE  /\ t = "console" => call[t].method \in ConsoleMethods
         /\ call[t].method = "Startup" => ~ raknet.active
         /\ call[t].method \in {"Startup", "Shutdown"} =>
              t = "main" /\ ~ At("console", "in") /\ ~ At("console", "out")
         /\ call[t].method = "SetMaximumIncomingConnections" =>
              raknet.security = {Own} /\ ~ raknet.attempt
         /\ call[t].method = "InitializeSecurity" => ~ raknet.active
         /\ call[t].method = "Connect" => raknet.incoming = 0 /\ ~ raknet.attempt
<1>1. t = "console" => call[t].method \in ConsoleMethods
  BY DEF CInv, Control, Console, InCall, At
<1>2. ConsoleMethods \cap {"Startup", "Shutdown", "SetMaximumIncomingConnections",
                           "InitializeSecurity", "Connect"} = {}
  BY DEF ConsoleMethods, TargetMethods
<1>3. SUFFICES ASSUME t = "main", At("main", "in")
               PROVE  /\ call["main"].method = "Startup" =>
                           ~ raknet.active /\ At("console", "unborn")
                      /\ call["main"].method = "Shutdown" => At("console", "ended")
                      /\ call["main"].method = "SetMaximumIncomingConnections" =>
                           raknet.security = {Own} /\ ~ raknet.attempt
                      /\ call["main"].method = "InitializeSecurity" => ~ raknet.active
                      /\ call["main"].method = "Connect" =>
                           raknet.incoming = 0 /\ ~ raknet.attempt
  BY <1>1, <1>2 DEF Thread, At
<1> DEFINE m == call["main"].method
<1>4. m = "Shutdown" => At("console", "ended")
  BY <1>3 DEF CInv, Control, Console, InCall
<1>5. ASSUME NEW n \in 1 .. 8, ServerAt(n), m \in FunctionsOf(ServerSetup[n])
      PROVE  /\ m = "Startup" => ~ raknet.active /\ setup # <<>>
             /\ m = "InitializeSecurity" => ~ raknet.active
             /\ m = "SetMaximumIncomingConnections" =>
                  raknet.security = {Own} /\ ~ raknet.attempt
             /\ m # "Connect"
  <2>1. /\ m = "Startup" => n = 5
        /\ m = "InitializeSecurity" => n = 4
        /\ m = "SetMaximumIncomingConnections" => n = 6
        /\ m # "Connect"
    BY <1>5, SetupOrder
  <2>2. n = 5 => setup # <<>>
    BY <1>5, NotLast DEF ServerAt
  <2> QED
    BY <1>3, <1>5, <2>1, <2>2 DEF ServerAt, NotYet
<1>6. ASSUME NEW n \in 1 .. 6, ClientAt(n), m \in FunctionsOf(ClientSetup[n])
      PROVE  /\ m = "Startup" => ~ raknet.active /\ setup # <<>>
             /\ m \notin {"InitializeSecurity", "SetMaximumIncomingConnections"}
             /\ m = "Connect" => raknet.incoming = 0 /\ ~ raknet.attempt
  <2>1. /\ m = "Startup" => n = 3
        /\ m = "Connect" => n = 4
        /\ m \notin {"InitializeSecurity", "SetMaximumIncomingConnections"}
    BY <1>6, SetupOrder
  <2>2. n = 3 => setup # <<>>
    BY <1>6, NotLast DEF ClientAt
  <2> QED
    BY <1>3, <1>6, <2>1, <2>2 DEF ClientAt, NotYet
<1>7. setup # <<>> => At("console", "unborn")
  BY DEF CInv, Control, Console
<1> QED
  BY <1>3, <1>4, <1>5, <1>6, <1>7, MainCalls
\* A call that comes out keeps its method and what it was made with.
LEMMA CameOutAs ==
  ASSUME NEW t \in Thread, Done(t)
  PROVE  /\ call'[t].at = "out" /\ call'[t].method = call[t].method
         /\ call'[t].mem = call[t].mem /\ call'[t].meant = call[t].meant
         /\ call'[t].moved = FALSE
         /\ call[t].method \in Methods => CallShape(call'[t])
<1>1. PICK seen, result : call'[t] = Out(call[t], seen, result)
  BY DEF Done
<1>2. call'[t].seen = seen /\ call'[t].result = result
  BY <1>1 DEF Out
<1>3. CameOut(call'[t])
  BY <1>1, <1>2 DEF CameOut, Out
<1> QED
  BY <1>1, <1>3, IdleIs DEF CallShape

\* The connections after a call.
LEMMA CallConnections ==
  ASSUME Listed, CInv, NEW t \in Thread, Call(t)
  PROVE  Secured' /\ Live'
<1> DEFINE m == call[t].method
<1>1. At(t, "in") /\ Done(t) /\ Changes(m)
  BY CallDone DEF CInv
<1>2. \A i \in Slot : Occupied(i)' =>
        /\ Occupied(i) /\ raknet'.slot[i] = raknet.slot[i]
        /\ raknet'.guid[i] = raknet.guid[i]
  BY <1>1 DEF Changes, LeftOrGone, Occupied
<1>3. Secured'
  <2>1. raknet'.incoming > 0 => raknet'.security = {Own} /\ ~ raknet'.attempt
    <3>1. m = "SetMaximumIncomingConnections" =>
            raknet'.security = {Own} /\ ~ raknet'.attempt
      BY <1>1, AloneStarting DEF Changes
    <3>2. m = "InitializeSecurity" =>
            /\ raknet'.security = {Own}
            /\ raknet'.incoming = raknet.incoming /\ raknet'.attempt = raknet.attempt
      BY <1>1, AloneStarting, CallDone DEF Changes, CInv
    <3>3. m = "Connect" => raknet'.incoming = raknet.incoming /\ raknet.incoming = 0
      BY <1>1, AloneStarting DEF Changes
    <3>4. m \notin {"SetMaximumIncomingConnections", "InitializeSecurity", "Connect"} =>
            /\ raknet'.incoming = raknet.incoming /\ raknet'.security = raknet.security
            /\ raknet'.attempt = raknet.attempt
      BY <1>1 DEF Changes
    <3> QED
      BY <3>1, <3>2, <3>3, <3>4 DEF CInv, Secured
  <2>2. ASSUME NEW i \in Slot, Occupied(i)'
        PROVE  raknet'.attempt \/ raknet'.slot[i].secured = {Own}
    <3>1. m # "Connect" => raknet'.attempt = raknet.attempt
      BY <1>1 DEF Changes
    <3>2. m = "Connect" => ~ raknet.attempt
      BY <1>1, AloneStarting
    <3> QED
      BY <1>2, <2>2, <3>1, <3>2 DEF CInv, Secured
  <2> QED
    BY <2>1, <2>2 DEF Secured, Occupied
<1>4. Live'
  <2>1. ASSUME NEW i \in Slot, Occupied(i)'
        PROVE  raknet'.active /\ raknet'.guid[i].g = raknet'.slot[i].system
    <3>1. Occupied(i) /\ raknet.active /\ raknet.guid[i].g = raknet.slot[i].system
      BY <1>2, <2>1 DEF CInv, Live
    <3>2. m # "Startup"
      BY <1>1, <3>1, AloneStarting
    <3>3. m # "Shutdown"
      BY <1>1, <2>1 DEF Changes, Occupied
    <3> QED
      BY <1>1, <1>2, <2>1, <3>1, <3>2, <3>3 DEF Changes
  <2>2. ASSUME NEW u \in Thread, At(u, "out")',
               call'[u].method = "GetGuidFromSystemAddress",
               call'[u].result.to = "list"
        PROVE  Pointer(call[u])'
    <3>1. CASE u = t
      <4>1. call[t].method = "GetGuidFromSystemAddress" /\ call'[t].meant = call[t].meant
        BY <1>1, <2>2, <3>1, CameOutAs
      <4> DEFINE i == call'[t].result.index
      <4>2. /\ i \in Slot /\ Occupied(i)
            /\ raknet.slot[i].system \in call[t].meant.target
        BY <2>2, <3>1, <4>1, CallDone DEF CInv
      <4>3. raknet.active /\ raknet.guid[i].g = raknet.slot[i].system
        BY <4>2 DEF CInv, Live
      <4>4. raknet'.active = raknet.active /\ raknet'.guid = raknet.guid
        BY <1>1, <4>1 DEF Changes
      <4> QED
        BY <3>1, <4>1, <4>2, <4>3, <4>4 DEF Pointer
    <3>2. CASE u # t
      <4>1. call'[u] = call[u] /\ At(u, "out")
        BY <1>1, <2>2, <3>2 DEF Done, OneCall, At
      <4>2. Pointer(call[u]) /\ call[u].result.index \in Slot
        BY <2>2, <4>1 DEF CInv, Live, AboutCalls, Answers
      <4>3. m \notin {"Startup", "Shutdown"}
        BY <1>1, <3>2, <4>1, AloneStarting DEF Thread
      <4>4. raknet'.active = raknet.active
        BY <1>1, <4>3 DEF Changes
      <4> DEFINE i == call[u].result.index
      <4>5. raknet'.guid[i].g \in {raknet.guid[i].g, MAX64}
        BY <1>1, <4>2 DEF Changes, LeftOrGone, NoGuid
      <4> QED
        BY <4>1, <4>2, <4>4, <4>5 DEF Pointer
    <3> QED
      BY <3>1, <3>2
  <2> QED
    BY <2>1, <2>2 DEF Live, Occupied, At
<1> QED
  BY <1>3, <1>4

\* The control after a call of main.
LEMMA CallControl ==
  ASSUME Listed, CInv, Call("main")
  PROVE  Programs' /\ Counted'
<1> DEFINE m == call["main"].method
<1>1. At("main", "in") /\ Done("main") /\ Changes(m) /\ "main" \in Thread
  BY CallDone DEF CInv, Thread
<1>2. /\ call'["main"].at = "out" /\ call'["main"].method = m
      /\ call'["main"].mem = call["main"].mem /\ setup' = setup
  BY <1>1, CameOutAs DEF Done
<1>3. ASSUME NEW n \in 1 .. 8, ServerAt(n), m \in FunctionsOf(ServerSetup[n])
      PROVE  ServerAt(n)'
  <2>1. m \notin {"Connect", "Shutdown"} /\ (m = "Startup" => n = 5)
          /\ (m = "InitializeSecurity" <=> n = 4)
    BY <1>3, SetupOrder
  <2>2. \A k \in Nat : /\ NotYet(n, k)' <=> n < k
                       /\ NotYet(n, k) <=> n <= k
    BY <1>1, <1>2 DEF NotYet, At
  <2>3. Doing(ServerSetup, n)'
    BY <1>1, <1>2, <1>3 DEF ServerAt, Doing, InCall, At, Mem
  <2>4. NotYet(n, 5)' => ~ raknet'.active
    BY <1>1, <1>3, <2>1, <2>2 DEF ServerAt, Changes
  <2>5. ~ NotYet(n, 4)' => raknet'.security = {Own}
    <3>1. CASE n = 4
      BY <1>1, <1>3, <2>1, <3>1, AloneStarting, CallDone DEF CInv
    <3>2. CASE n # 4
      BY <1>1, <1>3, <2>1, <2>2, <3>2 DEF ServerAt, Changes
    <3> QED
      BY <3>1, <3>2
  <2> QED
    BY <1>1, <1>2, <1>3, <2>1, <2>3, <2>4, <2>5 DEF ServerAt, Changes
<1>4. ASSUME NEW n \in 1 .. 6, ClientAt(n), m \in FunctionsOf(ClientSetup[n])
      PROVE  ClientAt(n)'
  <2>1. m \notin {"SetMaximumIncomingConnections", "Shutdown"}
          /\ (m = "Startup" => n = 3) /\ (m = "Connect" => n = 4)
    BY <1>4, SetupOrder
  <2>2. \A k \in Nat : /\ NotYet(n, k)' <=> n < k
                       /\ NotYet(n, k) <=> n <= k
    BY <1>1, <1>2 DEF NotYet, At
  <2>3. Doing(ClientSetup, n)'
    BY <1>1, <1>2, <1>4 DEF ClientAt, Doing, InCall, At, Mem
  <2>4. NotYet(n, 3)' => ~ raknet'.active
    BY <1>1, <1>4, <2>1, <2>2 DEF ClientAt, Changes
  <2>5. NotYet(n, 4)' => ~ raknet'.attempt
    BY <1>1, <1>4, <2>1, <2>2 DEF ClientAt, Changes
  <2> QED
    BY <1>1, <1>2, <1>4, <2>1, <2>3, <2>4, <2>5 DEF ClientAt, Changes
<1>5. ASSUME Over, m = "Shutdown" PROVE Over'
  BY <1>2, <1>5 DEF Over, InCall, At
<1>6. Programs'
  <2>1. 1 .. 8 \subseteq 0 .. 8 /\ 1 .. 6 \subseteq 0 .. 6
    OBVIOUS
  <2>2. \/ \E n \in 1 .. 8 : ServerAt(n)'
        \/ \E n \in 1 .. 6 : ClientAt(n)'
        \/ Over'
    BY <1>1, <1>3, <1>4, <1>5, MainCalls
  <2> QED
    BY <2>1, <2>2 DEF Programs
<1>7. Counted'
  <2>1. m # "Startup" => raknet'.addresses = raknet.addresses
    BY <1>1 DEF Changes
  <2>2. m = "GetNumberOfAddresses" => call'["main"].result = raknet.addresses
    BY <1>1, CallDone DEF CInv
  <2>3. m \in {"GetLocalIP", "GetInternalID"} =>
          /\ call["main"].mem.index \in Nat
          /\ call["main"].mem.index < call["main"].mem.number
          /\ call["main"].mem.number = raknet.addresses
    BY <1>1 DEF CInv, Counted, InCall, Mem
  <2>4. m = "GetLocalIP" => call'["main"].result # NULL
    BY <1>1, <2>3, CallDone DEF CInv, Mem
  <2> QED
    BY <1>2, <2>1, <2>2, <2>3, <2>4 DEF Counted, InCall, At, Mem
<1> QED
  BY <1>6, <1>7

\* Any function, by any thread.
LEMMA StepCall ==
  ASSUME Listed, CInv, NEW t \in Thread, Call(t)
  PROVE  CInv'
<1> DEFINE m == call[t].method
<1>1. At(t, "in") /\ Done(t) /\ Changes(m)
  BY CallDone DEF CInv
<1>2. /\ call'[t].at = "out" /\ call'[t].method = m
      /\ OneCall(t) /\ UNCHANGED <<setup, known, answer>>
  BY <1>1, CameOutAs DEF Done
<1>3. Shape'
  <2>1. m \in Methods
    BY <1>1 DEF CInv, Shape, CallShape, At
  <2>2. CallShape(call'[t])
    BY <1>1, <2>1, CameOutAs
  <2>3. raknet' \in Raknets
    BY <1>1 DEF Changes
  <2> QED
    BY <1>2, <2>2, <2>3 DEF CInv, Shape, OneCall
<1>4. AboutCalls'
  <2>1. Answers(call'[t])
    BY <1>1 DEF Done
  <2> QED
    BY <1>2, <2>1 DEF CInv, AboutCalls, OneCall, At
<1>5. AnswersAboutAsked'
  BY <1>2 DEF CInv, AnswersAboutAsked
<1>6. Programs' /\ Counted'
  <2>1. CASE t = "main"
    BY <2>1, CallControl
  <2>2. CASE t = "console"
    <3>1. m \in ConsoleMethods
      BY <1>1, <2>2, AloneStarting
    <3>2. m \notin {"Startup", "Shutdown", "SetMaximumIncomingConnections",
                    "InitializeSecurity", "Connect"}
      BY <3>1 DEF ConsoleMethods, TargetMethods
    <3> QED
      BY <1>1, <1>2, <2>2, <3>2, MainStays DEF Changes
  <2> QED
    BY <2>1, <2>2 DEF Thread
<1>7. Console'
  <2>1. CASE t = "main"
    <3>1. call'["console"] = call["console"]
      BY <1>2, <2>1 DEF OneCall, Thread
    <3> QED
      BY <1>1, <1>2, <2>1, <3>1 DEF CInv, Control, Console, InCall, At
  <2>2. CASE t = "console"
    <3>1. call'["main"] = call["main"]
      BY <1>2, <2>2 DEF OneCall, Thread
    <3> QED
      BY <1>1, <1>2, <2>2, <3>1 DEF CInv, Control, Console, InCall, At
  <2> QED
    BY <2>1, <2>2 DEF Thread
<1>8. Secured' /\ Live'
  BY CallConnections
<1> QED
  BY <1>3, <1>4, <1>5, <1>6, <1>7, <1>8 DEF CInv, Control
\* A method returns, and nobody else's call changes.
LEMMA LeaveEffect ==
  ASSUME CInv, NEW t \in Thread, NEW methods, NEW next, Leave(t, methods, next)
  PROVE  /\ call'[t] = next /\ OneCall(t) /\ UNCHANGED raknet
         /\ At(t, "out") /\ call[t].method \in methods
  BY DEF CInv, Shape, Leave, OneCall

\* A thread whose call has returned can go on.
LEMMA IdleAgain ==
  ASSUME CInv, NEW t \in Thread, At(t, "out"), call[t].method # "Shutdown",
         call'[t] = Idle, OneCall(t), UNCHANGED <<raknet, setup>>
  PROVE  Control' /\ Counted' /\ Live' /\ Secured'
<1>1. call'[t].at = "idle" /\ CallShape(call'[t])
  BY IdleIs DEF CallShape
<1>2. Live' /\ Secured'
  BY <1>1, QuietStep
<1>3. CASE t = "main"
  <2>1. /\ call'["console"] = call["console"] /\ call'["main"].at = "idle"
        /\ At("main", "out") /\ call["main"].method # "Shutdown"
    BY <1>1, <1>3 DEF OneCall, Thread
  <2>2. ASSUME NEW n, ServerAt(n) PROVE ServerAt(n)'
    BY <2>1, <2>2 DEF ServerAt, Doing, At, NotYet
  <2>3. ASSUME NEW n, ClientAt(n) PROVE ClientAt(n)'
    BY <2>1, <2>3 DEF ClientAt, Doing, At, NotYet
  <2>4. ~ Over
    BY <2>1 DEF Over, At, InCall
  <2>5. Programs'
    BY <2>2, <2>3, <2>4 DEF CInv, Control, Programs
  <2>6. Console'
    BY <2>1 DEF CInv, Control, Console, At, InCall
  <2>7. Counted'
    BY <2>1 DEF Counted, At, InCall
  <2> QED
    BY <1>2, <2>5, <2>6, <2>7 DEF Control
<1>4. CASE t = "console"
  <2>1. Programs' /\ Counted' /\ call'["main"] = call["main"]
    BY <1>4, MainStays
  <2>2. Console'
    BY <1>1, <1>4, <2>1 DEF CInv, Control, Console, At, InCall
  <2> QED
    BY <1>2, <2>1, <2>2 DEF Control
<1> QED
  BY <1>3, <1>4 DEF Thread

\* Methods without a result.
LEMMA StepReturnNothing ==
  ASSUME CInv, NEW t \in Thread, ReturnNothing(t)
  PROVE  CInv'
<1>1. /\ call'[t] = Idle /\ OneCall(t) /\ UNCHANGED <<raknet, setup, known, answer>>
      /\ At(t, "out") /\ call[t].method # "Shutdown"
  BY LeaveEffect DEF ReturnNothing
<1>2. call'[t].at = "idle" /\ CallShape(call'[t])
  BY <1>1, IdleIs DEF CallShape
<1>3. Shape' /\ AboutCalls' /\ AnswersAboutAsked'
  BY <1>1, <1>2, QuietStep
<1> QED
  BY <1>1, <1>3, IdleAgain DEF CInv

\* Only main sets the peer up and shuts it down.
LEMMA MainOnly ==
  ASSUME CInv, NEW t \in Thread, At(t, "out"), call[t].method \notin ConsoleMethods
  PROVE  t = "main"
  BY DEF CInv, Control, Console, InCall, At, Thread

\* The programs end when a peer does not start.
LEMMA StepReturnStarted ==
  ASSUME CInv, NEW t \in Thread, ReturnStarted(t)
  PROVE  CInv'
<1> DEFINE m == call[t].method
           ok == call[t].result
           next == IF ok THEN Idle ELSE [at |-> "failed"]
<1>1. /\ Leave(t, {"InitializeSecurity", "Startup", "Connect"}, next)
      /\ setup' = (IF ok THEN setup ELSE <<>>) /\ UNCHANGED <<known, answer>>
  BY DEF ReturnStarted
<1>2. /\ call'[t] = next /\ OneCall(t) /\ UNCHANGED raknet
      /\ At(t, "out") /\ m \in {"InitializeSecurity", "Startup", "Connect"}
  BY <1>1, LeaveEffect
<1>3. CASE ok
  <2>1. call'[t] = Idle /\ UNCHANGED setup
    BY <1>1, <1>2, <1>3
  <2>2. call'[t].at = "idle" /\ CallShape(call'[t])
    BY <2>1, IdleIs DEF CallShape
  <2>3. Shape' /\ AboutCalls' /\ AnswersAboutAsked'
    BY <1>1, <1>2, <2>2, QuietStep
  <2> QED
    BY <1>2, <2>1, <2>3, IdleAgain DEF CInv
<1>4. CASE ~ ok
  <2>1. t = "main"
    <3>1. m \notin ConsoleMethods
      BY <1>2 DEF ConsoleMethods, TargetMethods
    <3> QED
      BY <1>2, <3>1, MainOnly
  <2>2. /\ call'["main"].at = "failed" /\ setup' = <<>> /\ CallShape(call'["main"])
        /\ call'["console"] = call["console"]
    BY <1>1, <1>2, <1>4, <2>1 DEF CallShape, OneCall, Thread
  <2>3. Live' /\ Secured' /\ Shape' /\ AboutCalls' /\ AnswersAboutAsked'
    BY <1>1, <1>2, <2>1, <2>2, QuietStep
  <2>4. setup # <<>>
    <3>1. ASSUME NEW n \in 1 .. 8, ServerAt(n), m \in FunctionsOf(ServerSetup[n])
          PROVE  setup # <<>>
      <4>1. n \in 0 .. 7
        BY <1>2, <3>1, SetupOrder
      <4> QED
        BY <3>1, <4>1, NotLast DEF ServerAt
    <3>2. ASSUME NEW n \in 1 .. 6, ClientAt(n), m \in FunctionsOf(ClientSetup[n])
          PROVE  setup # <<>>
      <4>1. n \in 0 .. 5
        BY <1>2, <3>2, SetupOrder
      <4> QED
        BY <3>2, <4>1, NotLast DEF ClientAt
    <3> QED
      BY <1>2, <2>1, <3>1, <3>2, MainCalls
  <2>5. At("console", "unborn")'
    BY <2>2, <2>4 DEF CInv, Control, Console, At
  <2>6. Over' /\ Console' /\ Counted'
    BY <2>2, <2>5 DEF Over, Console, Counted, InCall, At
  <2> QED
    BY <2>3, <2>6 DEF CInv, Control, Programs
<1> QED
  BY <1>3, <1>4

\* The peer is down.
LEMMA StepReturnShutdown ==
  ASSUME CInv, NEW t \in Thread, ReturnShutdown(t)
  PROVE  CInv'
<1>1. /\ call'[t] = [at |-> "down"] /\ OneCall(t)
      /\ UNCHANGED <<raknet, setup, known, answer>>
      /\ At(t, "out") /\ call[t].method = "Shutdown"
  BY LeaveEffect DEF ReturnShutdown
<1>2. t = "main"
  <2>1. "Shutdown" \notin ConsoleMethods
    BY DEF ConsoleMethods, TargetMethods
  <2> QED
    BY <1>1, <2>1, MainOnly
<1>3. /\ call'["main"].at = "down" /\ CallShape(call'["main"])
      /\ call'["console"] = call["console"]
  BY <1>1, <1>2 DEF CallShape, OneCall, Thread
<1>4. Live' /\ Secured' /\ Shape' /\ AboutCalls' /\ AnswersAboutAsked'
  BY <1>1, <1>2, <1>3, QuietStep
<1>5. Over
  BY <1>1, <1>2, MainCalls, SetupOrder
<1>6. At("console", "ended")'
  BY <1>1, <1>2, <1>3 DEF CInv, Control, Console, InCall, At
<1>7. Over' /\ Console' /\ Counted'
  BY <1>1, <1>3, <1>5, <1>6 DEF Over, Console, Counted, InCall, At
<1> QED
  BY <1>4, <1>7 DEF CInv, Control, Programs

\* The next of the peer's own addresses.
LEMMA GoesOn ==
  ASSUME CInv, At("main", "out"), OneCall("main"),
         UNCHANGED <<raknet, setup, known, answer>>,
         call["main"].method \in {"GetNumberOfAddresses", "GetLocalIP", "GetInternalID"},
         NEW each \in {"GetLocalIP", "GetInternalID"},
         each = IF call["main"].method = "GetNumberOfAddresses" THEN Mem("main").each
                ELSE call["main"].method,
         NEW i \in Nat, i < raknet.addresses,
         call'["main"] = In(each, <<>>, [index |-> i, number |-> raknet.addresses])
  PROVE  CInv'
<1> DEFINE r == In(each, <<>>, [index |-> i, number |-> raknet.addresses])
           m == call["main"].method
<1>1. /\ r.at = "in" /\ r.method = each /\ DOMAIN r.meant = {}
      /\ r.mem = [index |-> i, number |-> raknet.addresses]
  BY DEF In
<1>2. Fit(r)
  <2> HIDE DEF r
  <2> QED
    BY <1>1, FitKinds DEF PlainMethods
<1>3. CallShape(r)
  BY DEF CallShape, WentIn, In, Methods, PlainMethods
<1>4. call'["main"] = r /\ call'["console"] = call["console"] /\ "main" \in Thread
  BY DEF OneCall, Thread
<1> HIDE DEF r
<1>5. Live' /\ Secured' /\ Shape' /\ AboutCalls' /\ AnswersAboutAsked'
  BY <1>1, <1>2, <1>3, <1>4, QuietStep
<1>6. r.mem.index = i /\ r.mem.number = raknet.addresses
  BY <1>1
<1>7. Counted'
  BY <1>1, <1>4, <1>6 DEF Counted, InCall, At, Mem
<1>8. ASSUME NEW n \in 1 .. 8, ServerAt(n), m \in FunctionsOf(ServerSetup[n])
      PROVE  ServerAt(n)'
  <2>1. n = 7
    BY <1>8, SetupOrder
  <2>2. each \in FunctionsOf(ServerSetup[n])
    BY <1>8 DEF ServerAt, Doing, At
  <2>3. Doing(ServerSetup, n)'
    BY <1>1, <1>4, <2>1, <2>2 DEF Doing, InCall, At
  <2>4. \A k \in {4, 5} : ~ NotYet(n, k) /\ ~ NotYet(n, k)'
    BY <2>1 DEF NotYet
  <2> QED
    BY <1>8, <2>3, <2>4 DEF ServerAt
<1>9. ASSUME NEW n \in 1 .. 6, ClientAt(n), m \in FunctionsOf(ClientSetup[n])
      PROVE  ClientAt(n)'
  <2>1. n = 5
    BY <1>9, SetupOrder
  <2>2. each \in FunctionsOf(ClientSetup[n])
    BY <1>9 DEF ClientAt, Doing, At
  <2>3. Doing(ClientSetup, n)'
    BY <1>1, <1>4, <2>1, <2>2 DEF Doing, InCall, At
  <2>4. \A k \in {3, 4} : ~ NotYet(n, k) /\ ~ NotYet(n, k)'
    BY <2>1 DEF NotYet
  <2> QED
    BY <1>9, <2>3, <2>4 DEF ClientAt
<1>10. Programs'
  <2>1. 1 .. 8 \subseteq 0 .. 8 /\ 1 .. 6 \subseteq 0 .. 6
    OBVIOUS
  <2> QED
    BY <1>8, <1>9, <2>1, MainCalls DEF Programs
<1>11. Console'
  BY <1>1, <1>4 DEF CInv, Control, Console, InCall, At
<1> QED
  BY <1>5, <1>7, <1>10, <1>11 DEF CInv, Control

\* How many addresses there are, and then each of them.
LEMMA StepReturnCounting ==
  ASSUME CInv, NEW t \in Thread, ReturnNumber(t) \/ ReturnNextAddress(t)
  PROVE  CInv'
<1> DEFINE m == call[t].method
<1>1. PICK each, i, n :
        /\ \/ /\ Leave(t, {"GetNumberOfAddresses"}, EachAddress(each, i, n))
              /\ each = Mem(t).each /\ i = 0 /\ n = call[t].result
           \/ /\ Leave(t, {"GetLocalIP", "GetInternalID"}, EachAddress(each, i, n))
              /\ each = m /\ i = Mem(t).index + 1 /\ n = Mem(t).number
        /\ UNCHANGED <<setup, known, answer>>
  BY DEF ReturnNumber, ReturnNextAddress
<1>2. /\ call'[t] = EachAddress(each, i, n) /\ OneCall(t)
      /\ UNCHANGED <<raknet, setup, known, answer>> /\ At(t, "out")
      /\ m \in {"GetNumberOfAddresses", "GetLocalIP", "GetInternalID"}
      /\ m = "GetNumberOfAddresses" =>
           each = Mem(t).each /\ i = 0 /\ n = call[t].result
      /\ m \in {"GetLocalIP", "GetInternalID"} =>
           each = m /\ i = Mem(t).index + 1 /\ n = Mem(t).number
  BY <1>1, LeaveEffect
<1>3. t = "main"
  <2>1. m \notin ConsoleMethods
    BY <1>2 DEF ConsoleMethods, TargetMethods
  <2> QED
    BY <1>2, <2>1, MainOnly
<1>4. n = raknet.addresses /\ i \in Nat
  BY <1>2, <1>3 DEF CInv, Counted, InCall, At
<1>5. CASE i < n
  <2>1. call'["main"] = In(each, <<>>, [index |-> i, number |-> raknet.addresses])
    BY <1>2, <1>3, <1>4, <1>5 DEF EachAddress, InRange, In
  <2>2. each \in {"GetLocalIP", "GetInternalID"}
    <3>1. CASE m = "GetNumberOfAddresses"
      <4>1. ASSUME NEW s \in 1 .. 8, ServerAt(s), m \in FunctionsOf(ServerSetup[s])
            PROVE  each \in {"GetLocalIP", "GetInternalID"}
        <5>1. each \in FunctionsOf(ServerSetup[s]) \ {"GetNumberOfAddresses"}
          BY <1>2, <1>3, <3>1, <4>1 DEF ServerAt, Doing, At
        <5>2. s = 7
          BY <3>1, <4>1, SetupOrder
        <5> QED
          BY <5>1, <5>2 DEF ServerSetup, FunctionsOf
      <4>2. ASSUME NEW s \in 1 .. 6, ClientAt(s), m \in FunctionsOf(ClientSetup[s])
            PROVE  each \in {"GetLocalIP", "GetInternalID"}
        <5>1. each \in FunctionsOf(ClientSetup[s]) \ {"GetNumberOfAddresses"}
          BY <1>2, <1>3, <3>1, <4>2 DEF ClientAt, Doing, At
        <5>2. s = 5
          BY <3>1, <4>2, SetupOrder
        <5> QED
          BY <5>1, <5>2 DEF ClientSetup, FunctionsOf
      <4> QED
        BY <1>2, <1>3, <3>1, <4>1, <4>2, MainCalls
    <3>2. CASE m # "GetNumberOfAddresses"
      BY <1>2, <3>2
    <3> QED
      BY <3>1, <3>2
  <2>3. each = IF m = "GetNumberOfAddresses" THEN Mem(t).each ELSE m
    BY <1>2
  <2> QED
    BY <1>2, <1>3, <1>4, <1>5, <2>1, <2>2, <2>3, GoesOn
<1>6. CASE ~ (i < n)
  <2>1. call'[t] = Idle
    BY <1>2, <1>6 DEF EachAddress, InRange
  <2>2. call'[t].at = "idle" /\ CallShape(call'[t])
    BY <2>1, IdleIs DEF CallShape
  <2>3. Shape' /\ AboutCalls' /\ AnswersAboutAsked'
    BY <1>2, <2>2, QuietStep
  <2> QED
    BY <1>2, <2>1, <2>3, IdleAgain DEF CInv
<1> QED
  BY <1>5, <1>6
\* The address of a system, to be passed back later.
LEMMA StepReturnAddress ==
  ASSUME CInv, NEW t \in Thread, ReturnAddress(t)
  PROVE  CInv'
<1> DEFINE c == call[t].result.address
           who == call[t].result.of
           k == [address |-> AddressToRust(c), of |-> who]
<1>1. /\ call'[t] = Idle /\ OneCall(t) /\ UNCHANGED <<raknet, setup, answer>>
      /\ At(t, "out") /\ call[t].method = "GetSystemAddressFromIndex"
      /\ known' = [known EXCEPT ![t] = k]
  BY LeaveEffect DEF ReturnAddress
<1>2. call'[t].at = "idle" /\ CallShape(call'[t])
  BY <1>1, IdleIs DEF CallShape
<1>3. AddressOf(c, who)
  BY <1>1 DEF CInv, AboutCalls, Answers
<1>4. AddressOf(AddressToC(k.address), k.of)
  BY <1>3, ThereAndBack
<1> HIDE DEF k
<1>5. /\ known'[t] = k /\ known' = [u \in Thread |-> known'[u]]
      /\ \A u \in Thread \ {t} : known'[u] = known[u]
  BY <1>1 DEF CInv, Shape
<1>6. AboutCalls'
  BY <1>1, <1>2, <1>4, <1>5 DEF CInv, AboutCalls, OneCall, At
<1>7. Shape'
  BY <1>1, <1>2, <1>5 DEF CInv, Shape, OneCall
<1>8. AnswersAboutAsked'
  BY <1>1 DEF CInv, AnswersAboutAsked
<1> QED
  BY <1>1, <1>6, <1>7, <1>8, IdleAgain DEF CInv

\* An answer is about what was asked, or its pointer led somewhere else.
LEMMA AnswersFit ==
  ASSUME CInv, NEW t \in Thread, NEW method, NEW of,
         Answered(t, method, of), method # "Shutdown",
         of \subseteq call[t].meant.target \/ call[t].moved
  PROVE  CInv'
<1> DEFINE a == [method |-> method, meant |-> call[t].meant.target, of |-> of,
                 moved |-> call[t].moved]
<1>1. /\ call'[t] = Idle /\ OneCall(t) /\ UNCHANGED <<raknet, setup, known>>
      /\ At(t, "out") /\ call[t].method = method
      /\ answer' = [answer EXCEPT ![t] = a]
  BY LeaveEffect DEF Answered
<1>2. call'[t].at = "idle" /\ CallShape(call'[t])
  BY <1>1, IdleIs DEF CallShape
<1>3. a.of \subseteq a.meant \/ a.moved
  OBVIOUS
<1> HIDE DEF a
<1>4. /\ answer'[t] = a /\ answer' = [u \in Thread |-> answer'[u]]
      /\ \A u \in Thread \ {t} : answer'[u] = answer[u]
  BY <1>1 DEF CInv, Shape
<1>5. AboutCalls'
  BY <1>1, <1>2 DEF CInv, AboutCalls, OneCall, At
<1>6. Shape'
  BY <1>1, <1>2, <1>4 DEF CInv, Shape, OneCall
<1>7. AnswersAboutAsked'
  BY <1>3, <1>4 DEF CInv, AnswersAboutAsked
<1> QED
  BY <1>1, <1>5, <1>6, <1>7, IdleAgain DEF CInv

\* What the thread learns is about the system it asked for.
LEMMA StepReturnAnswer ==
  ASSUME CInv, NEW t \in Thread,
         \/ ReturnGuid(t) \/ ReturnStatistics(t)
         \/ ReturnAveragePing(t) \/ ReturnLastPing(t)
  PROVE  CInv'
<1> DEFINE p == call[t].result
           asked == call[t].meant.target
<1>1. CASE ReturnGuid(t)
  <2> DEFINE of == {GuidToRust(GuidAt(p)).g} \ {MAX64}
  <2>1. /\ At(t, "out") /\ call[t].method = "GetGuidFromSystemAddress"
        /\ Answered(t, "GetGuidFromSystemAddress", of)
    BY <1>1 DEF ReturnGuid, Answered, Leave
  <2>2. of = {GuidAt(p).g} \ {MAX64}
    BY DEF GuidToRust
  <2>3. /\ p.to \in {"own", "list", "none"}
        /\ p.to = "own" => asked = {Own}
    BY <2>1 DEF CInv, AboutCalls, Answers
  <2>4. of \subseteq asked \/ call[t].moved
    <3>1. CASE p.to = "list"
      <4>1. ~ call[t].moved => raknet.guid[p.index].g \in asked \cup {MAX64}
        BY <2>1, <3>1 DEF CInv, Live, Pointer
      <4> QED
        BY <2>2, <3>1, <4>1 DEF GuidAt
    <3>2. CASE p.to = "own"
      BY <2>2, <2>3, <3>2 DEF GuidAt, GuidOf
    <3>3. CASE p.to = "none"
      BY <2>2, <3>3 DEF GuidAt, NoGuid
    <3> QED
      BY <2>3, <3>1, <3>2, <3>3
  <2> QED
    BY <2>1, <2>4, AnswersFit
<1>2. CASE ReturnStatistics(t)
  <2> DEFINE of == IF p = NULL THEN Zeroed.of ELSE p[1].of
  <2>1. /\ At(t, "out") /\ call[t].method = "GetStatistics"
        /\ Answered(t, "GetStatistics", of)
    BY <1>2 DEF ReturnStatistics, Answered, Leave
  <2>2. p # NULL => p = <<[of |-> asked]>>
    BY <2>1 DEF CInv, AboutCalls, Answers
  <2>3. of \subseteq asked
    BY <2>2 DEF Zeroed, NoStatistics
  <2> QED
    BY <2>1, <2>3, AnswersFit
<1>3. CASE ReturnAveragePing(t) \/ ReturnLastPing(t)
  <2> DEFINE res == IF p = NobodysPing THEN None ELSE Some(p)
  <2>0. (IF res = None THEN {} ELSE res[1]) = p
    <3>1. Some(p) # None /\ Some(p)[1] = p
      BY DEF None, Some
    <3>2. CASE p = NobodysPing
      BY <3>2 DEF NobodysPing
    <3>3. CASE p # NobodysPing
      BY <3>1, <3>3
    <3> QED
      BY <3>2, <3>3
  <2>1. PICK method \in {"GetAveragePing", "GetLastPing"} : Answered(t, method, p)
    BY <1>3, <2>0 DEF ReturnAveragePing, ReturnLastPing
  <2>2. At(t, "out") /\ call[t].method = method
    BY <2>1 DEF Answered, Leave
  <2>3. p \subseteq asked
    BY <2>2 DEF CInv, AboutCalls, Answers
  <2> QED
    BY <2>1, <2>3, AnswersFit
<1> QED
  BY <1>1, <1>2, <1>3

-----------------------------------------------------------------------------
\* RakNet's threads.

\* What a pointer that leads elsewhere changes of a call.
LEMMA MovedCalls ==
  ASSUME CInv, NEW i \in Slot, call' = MovedIn(i)
  PROVE  \A t \in Thread :
           \/ call'[t] = call[t]
                /\ ~ (/\ At(t, "out") /\ call[t].method = "GetGuidFromSystemAddress"
                      /\ call[t].result.to = "list" /\ call[t].result.index = i)
           \/ /\ At(t, "out") /\ call[t].method = "GetGuidFromSystemAddress"
              /\ call[t].result.to = "list" /\ call[t].result.index = i
              /\ call'[t] = [call[t] EXCEPT !.moved = TRUE]
<1> SUFFICES ASSUME NEW t \in Thread
             PROVE  \/ call'[t] = call[t]
                         /\ ~ (/\ At(t, "out")
                               /\ call[t].method = "GetGuidFromSystemAddress"
                               /\ call[t].result.to = "list"
                               /\ call[t].result.index = i)
                    \/ /\ At(t, "out") /\ call[t].method = "GetGuidFromSystemAddress"
                       /\ call[t].result.to = "list" /\ call[t].result.index = i
                       /\ call'[t] = [call[t] EXCEPT !.moved = TRUE]
  OBVIOUS
<1>1. At(t, "out") /\ call[t].method = "GetGuidFromSystemAddress" =>
        call[t].result = [to |-> call[t].result.to, index |-> call[t].result.index]
  BY DEF CInv, AboutCalls, Answers
<1>2. call'[t] = IF /\ At(t, "out") /\ call[t].method = "GetGuidFromSystemAddress"
                    /\ call[t].result = [to |-> "list", index |-> i]
                 THEN [call[t] EXCEPT !.moved = TRUE] ELSE call[t]
  BY DEF MovedIn
<1> QED
  BY <1>1, <1>2
\* One field changes, the others do not.
LEMMA MovedRecord ==
  ASSUME NEW m, NEW x, NEW y, NEW z, NEW r, NEW v, NEW c, NEW d,
         c = [at |-> "out", method |-> m, meant |-> x, mem |-> y, seen |-> z,
              result |-> r, moved |-> v],
         d = [c EXCEPT !.moved = TRUE]
  PROVE  d = [at |-> "out", method |-> m, meant |-> x, mem |-> y, seen |-> z,
              result |-> r, moved |-> TRUE]
  OBVIOUS

\* A connection comes or goes: only pointers into its slot are touched.
LEMMA ListChanges ==
  ASSUME CInv, NEW i \in Slot, call' = MovedIn(i), UNCHANGED <<setup, known, answer>>,
         raknet' \in Raknets,
         raknet'.active = raknet.active, raknet'.incoming = raknet.incoming,
         raknet'.security = raknet.security, raknet'.attempt = raknet.attempt,
         raknet'.addresses = raknet.addresses,
         \A j \in Slot \ {i} : raknet'.slot[j] = raknet.slot[j]
                                 /\ raknet'.guid[j] = raknet.guid[j],
         Occupied(i)' => /\ raknet.active
                         /\ raknet'.guid[i].g = raknet'.slot[i].system
                         /\ raknet.attempt \/ raknet'.slot[i].secured = {Own}
  PROVE  CInv'
<1>1. ASSUME NEW t \in Thread
      PROVE  /\ call'[t].at = call[t].at
             /\ At(t, "in") \/ At(t, "out") =>
                  /\ call'[t].method = call[t].method /\ call'[t].meant = call[t].meant
                  /\ call'[t].mem = call[t].mem
             /\ At(t, "in") => call'[t] = call[t]
             /\ At(t, "out") => /\ call'[t].seen = call[t].seen
                                /\ call'[t].result = call[t].result
             /\ CallShape(call'[t])
  <2>1. CASE call'[t] = call[t]
    BY <2>1 DEF CInv, Shape, At
  <2>2. CASE At(t, "out") /\ call'[t] = [call[t] EXCEPT !.moved = TRUE]
    <3> DEFINE c == call[t]
    <3>1. c = [at |-> "out", method |-> c.method, meant |-> c.meant, mem |-> c.mem,
               seen |-> c.seen, result |-> c.result, moved |-> c.moved]
          /\ c.method \in Methods
      BY <2>2 DEF CInv, Shape, CallShape, WentIn, CameOut, At
    <3>2. call'[t] = [at |-> "out", method |-> c.method, meant |-> c.meant, mem |-> c.mem,
                      seen |-> c.seen, result |-> c.result, moved |-> TRUE]
      <4> HIDE DEF c
      <4>1. call'[t] = [c EXCEPT !.moved = TRUE]
        BY <2>2 DEF c
      <4>2. PICK m, x, y, z, r, v :
              c = [at |-> "out", method |-> m, meant |-> x, mem |-> y, seen |-> z,
                   result |-> r, moved |-> v]
        BY <3>1, ZenonT(30)
      <4>3. call'[t] = [at |-> "out", method |-> m, meant |-> x, mem |-> y, seen |-> z,
                        result |-> r, moved |-> TRUE]
        BY <4>1, <4>2, MovedRecord
      <4>4. /\ c.method = m /\ c.meant = x /\ c.mem = y /\ c.seen = z /\ c.result = r
        BY <4>2
      <4> QED
        BY <4>3, <4>4
    <3>3. /\ call'[t].at = "out" /\ call'[t].method = c.method /\ call'[t].meant = c.meant
          /\ call'[t].mem = c.mem /\ call'[t].seen = c.seen /\ call'[t].result = c.result
          /\ call'[t].moved = TRUE
      BY <3>2
    <3>4. CallShape(call'[t])
      BY <3>1, <3>2, <3>3 DEF CallShape, CameOut
    <3> QED
      BY <2>2, <3>3, <3>4 DEF At
  <2> QED
    BY <2>1, <2>2, MovedCalls
<1>2. Shape'
  BY <1>1 DEF CInv, Shape, MovedIn
<1>3. AboutCalls'
  <2>1. ASSUME NEW t \in Thread, At(t, "out") PROVE Answers(call'[t])
    <3>1. Answers(call[t])
      BY <2>1 DEF CInv, AboutCalls
    <3> QED
      BY <1>1, <2>1, <3>1 DEF Answers
  <2> QED
    BY <1>1, <2>1 DEF CInv, AboutCalls, At
<1>4. AnswersAboutAsked'
  BY DEF CInv, AnswersAboutAsked
<1>5. Programs'
  <2> "main" \in Thread
    BY DEF Thread
  <2>1. ASSUME NEW n, ServerAt(n) PROVE ServerAt(n)'
    BY <1>1, <2>1 DEF ServerAt, Doing, InCall, At, Mem, NotYet
  <2>2. ASSUME NEW n, ClientAt(n) PROVE ClientAt(n)'
    BY <1>1, <2>2 DEF ClientAt, Doing, InCall, At, Mem, NotYet
  <2>3. Over => Over'
    BY <1>1 DEF Over, InCall, At
  <2> QED
    BY <2>1, <2>2, <2>3 DEF CInv, Control, Programs
<1>6. Console'
  BY <1>1 DEF CInv, Control, Console, InCall, At, Thread
<1>7. Counted'
  BY <1>1 DEF CInv, Counted, InCall, At, Mem, Thread
<1>8. Secured'
  BY DEF CInv, Secured, Occupied
<1>9. Live'
  <2>1. \A j \in Slot : Occupied(j)' =>
          raknet'.active /\ raknet'.guid[j].g = raknet'.slot[j].system
    BY DEF CInv, Live, Occupied
  <2>2. ASSUME NEW t \in Thread, At(t, "out")',
               call'[t].method = "GetGuidFromSystemAddress",
               call'[t].result.to = "list"
        PROVE  Pointer(call[t])'
    <3>1. /\ At(t, "out") /\ call[t].method = "GetGuidFromSystemAddress"
          /\ call[t].result.to = "list" /\ call'[t].result = call[t].result
          /\ call'[t].meant = call[t].meant
      BY <1>1, <2>2 DEF At
    <3>2. Pointer(call[t]) /\ call[t].result.index \in Slot
      BY <3>1 DEF CInv, Live, AboutCalls, Answers
    <3>3. CASE call[t].result.index = i
      <4>1. call'[t] = [call[t] EXCEPT !.moved = TRUE]
        BY <3>1, <3>3, MovedCalls
      <4>2. CameOut(call[t])
        BY <3>1 DEF CInv, Shape, CallShape, WentIn, CameOut, At
      <4>3. call'[t].moved
        BY <4>1, <4>2 DEF CameOut
      <4> QED
        BY <3>2, <4>3 DEF Pointer
    <3>4. CASE call[t].result.index # i
      <4>1. call'[t] = call[t]
        BY <3>1, <3>4, MovedCalls
      <4> QED
        BY <3>2, <3>4, <4>1 DEF Pointer
    <3> QED
      BY <3>3, <3>4
  <2> QED
    BY <2>1, <2>2 DEF Live, Occupied, At
<1> QED
  BY <1>2, <1>3, <1>4, <1>5, <1>6, <1>7, <1>8, <1>9 DEF CInv, Control

\* RakNet welcomes a system as a server, or because it was asked to connect.
LEMMA StepAccept ==
  ASSUME Listed, CInv, NEW s \in System, NEW i \in Slot, Accept(s, i)
  PROVE  CInv'
<1> DEFINE new == [system |-> s, secured |-> raknet.security]
           q == [raknet EXCEPT !.slot[i] = new]
<1>1. /\ raknet.active /\ Welcome(s) /\ call' = MovedIn(i)
      /\ UNCHANGED <<setup, known, answer>>
      /\ raknet' = [raknet EXCEPT !.slot[i] = new, !.guid[i] = GuidOf(s, i)]
  BY DEF Accept
<1>2. GuidOf(s, i) \in RakNetGUID /\ GuidOf(s, i).g = s
  BY TypesAssumption DEF Listed, GuidOf, RakNetGUID
<1>3. new \in [system : System \cup {Nobody}, secured : SUBSET {Own}]
  BY DEF CInv, Shape, Raknets
<1>4. /\ q \in Raknets /\ q.active = raknet.active /\ q.incoming = raknet.incoming
      /\ q.security = raknet.security /\ q.attempt = raknet.attempt
      /\ q.addresses = raknet.addresses /\ q.guid = raknet.guid
      /\ q.slot[i] = new /\ \A j \in Slot \ {i} : q.slot[j] = raknet.slot[j]
  <2> HIDE DEF new
  <2> QED
    BY <1>3 DEF CInv, Shape, Raknets
<1>5. raknet' = [q EXCEPT !.guid[i] = GuidOf(s, i)]
  BY <1>1, Zenon
<1> HIDE DEF q
<1>6. /\ raknet' \in Raknets /\ raknet'.active = q.active /\ raknet'.incoming = q.incoming
      /\ raknet'.security = q.security /\ raknet'.attempt = q.attempt
      /\ raknet'.addresses = q.addresses /\ raknet'.slot = q.slot
      /\ raknet'.guid[i] = GuidOf(s, i) /\ \A j \in Slot \ {i} : raknet'.guid[j] = q.guid[j]
  BY <1>2, <1>4, <1>5 DEF Raknets
<1>7. raknet.attempt \/ raknet.security = {Own}
  <2>1. CASE Cardinality(SlotsOf(System)) < raknet.incoming
    <3>1. IsFiniteSet(SlotsOf(System))
      BY FS_Subset DEF SlotsOf, Listed
    <3>2. Cardinality(SlotsOf(System)) \in Nat
      BY <3>1, FS_CardinalityType
    <3>3. Cardinality(Slot) \in Nat
      BY FS_CardinalityType DEF Listed
    <3>4. raknet.incoming > 0
      BY <2>1, <3>2, <3>3 DEF CInv, Shape, Raknets
    <3> QED
      BY <3>4 DEF CInv, Secured
  <2> QED
    BY <1>1, <2>1 DEF Welcome
<1>8. raknet'.slot[i].system = s /\ raknet'.slot[i].secured = raknet.security
  BY <1>4, <1>6
<1>9. \A j \in Slot \ {i} : raknet'.slot[j] = raknet.slot[j]
                              /\ raknet'.guid[j] = raknet.guid[j]
  BY <1>4, <1>6
<1>10. /\ raknet'.active = raknet.active /\ raknet'.incoming = raknet.incoming
       /\ raknet'.security = raknet.security /\ raknet'.attempt = raknet.attempt
       /\ raknet'.addresses = raknet.addresses
  BY <1>4, <1>6
<1>11. raknet'.guid[i].g = raknet'.slot[i].system
  BY <1>2, <1>6, <1>8
<1> QED
  BY <1>1, <1>6, <1>7, <1>8, <1>9, <1>10, <1>11, ListChanges

\* A connection is lost.
LEMMA StepLose ==
  ASSUME CInv, NEW i \in Slot, Lose(i)
  PROVE  CInv'
<1>1. /\ raknet' = Without({i}) /\ call' = MovedIn(i)
      /\ UNCHANGED <<setup, known, answer>>
  BY DEF Lose
<1>2. raknet \in Raknets
  BY DEF CInv, Shape
<1>3. raknet'.slot[i].system = Nobody
  BY <1>1, <1>2, WithoutTyped
<1>4. \A j \in Slot \ {i} : raknet'.slot[j] = raknet.slot[j]
                              /\ raknet'.guid[j] = raknet.guid[j]
  BY <1>1, <1>2, WithoutTyped
<1>5. /\ raknet' \in Raknets
      /\ raknet'.active = raknet.active /\ raknet'.incoming = raknet.incoming
      /\ raknet'.security = raknet.security /\ raknet'.attempt = raknet.attempt
      /\ raknet'.addresses = raknet.addresses
  BY <1>1, <1>2, WithoutTyped
<1> QED
  BY <1>1, <1>3, <1>4, <1>5, ListChanges DEF Occupied
-----------------------------------------------------------------------------
\* The invariant, and what it says.

\* The invariant holds before the set-up.
LEMMA CallsInit ==
  ASSUME Listed, Init
  PROVE  CInv
<1>1. \A t \in Thread : call[t].at \in {"idle", "unborn"}
  BY DEF Init, Idle, Thread
<1>2. /\ call["main"].at = "idle" /\ call["console"].at = "unborn"
  BY DEF Init, Idle
<1>3. Shape
  <2>1. NoGuid \in RakNetGUID
    BY DEF NoGuid, RakNetGUID, MAX64, UNASSIGNED_PLAYER_INDEX, SystemIndex
  <2>2. Cardinality(Slot) \in Nat
    BY FS_CardinalityType DEF Listed
  <2>3. raknet \in Raknets
    BY <2>1, <2>2 DEF Init, Raknets
  <2>4. call = [t \in Thread |-> call[t]]
    BY DEF Init, Thread
  <2>5. known = [t \in Thread |-> known[t]] /\ answer = [t \in Thread |-> answer[t]]
    BY DEF Init
  <2> QED
    BY <1>1, <2>3, <2>4, <2>5 DEF Shape, CallShape
<1>4. AboutCalls
  <2>1. \A t \in Thread : AddressOf(AddressToC(known[t].address), known[t].of)
    BY TheAddresses DEF Init
  <2> QED
    BY <1>1, <2>1 DEF AboutCalls, At
<1>5. Programs
  <2>1. \A S : \A s \in Seq(S) : After(s, 0) = s
    BY DEF After
  <2>2. setup \in {After(ServerSetup, 0), After(ClientSetup, 0)}
    BY <2>1, SetupLengths DEF Init
  <2>3. ServerAt(0) \/ ClientAt(0)
    BY <1>2, <2>2 DEF Init, ServerAt, ClientAt, Doing, NotYet, At
  <2> QED
    BY <2>3 DEF Programs
<1>6. Console
  BY <1>2 DEF Console, At, InCall
<1>7. \A i \in Slot : ~ Occupied(i)
  BY DEF Init, Occupied
<1>8. Secured
  BY <1>7 DEF Init, Secured
<1>9. Live
  BY <1>1, <1>7 DEF Live, At
<1>10. Counted
  BY <1>2 DEF Counted, At, InCall
<1>11. AnswersAboutAsked
  BY DEF Init, AnswersAboutAsked
<1> QED
  BY <1>3, <1>4, <1>5, <1>6, <1>8, <1>9, <1>10, <1>11 DEF CInv, Control

\* Every step keeps the invariant.
LEMMA CallsStep ==
  ASSUME Listed, CInv, [Next]_vars
  PROVE  CInv'
<1>1. CASE SetUp
  BY <1>1, StepSetUp
<1>2. CASE HostRefused
  BY <1>2, StepHostRefused
<1>3. CASE Spawn \/ Quit
  BY <1>3, StepConsole
<1>4. CASE Shutdown
  BY <1>4, StepShutdown
<1>5. CASE RakPeer_drop
  BY <1>5, StepDrop
<1>6. CASE AskIndex \/ AskAddress \/ AskTarget
  BY <1>6, StepAsk
<1>7. ASSUME NEW t \in Thread, Call(t)
      PROVE  CInv'
  BY <1>7, StepCall
<1>8. ASSUME NEW t \in Thread, Return(t)
      PROVE  CInv'
  BY <1>8, StepReturnNothing, StepReturnStarted, StepReturnShutdown,
     StepReturnCounting, StepReturnAddress, StepReturnAnswer DEF Return
<1>9. ASSUME NEW s \in System, NEW i \in Slot, Accept(s, i)
      PROVE  CInv'
  BY <1>9, StepAccept
<1>10. ASSUME NEW i \in Slot, Lose(i)
       PROVE  CInv'
  BY <1>10, StepLose
<1>11. CASE UNCHANGED vars
  <2>1. UNCHANGED <<raknet, setup, call, known, answer>>
    BY <1>11 DEF vars
  <2>2. Shape' /\ AboutCalls' /\ AnswersAboutAsked'
    BY <2>1 DEF CInv, Shape, AboutCalls, AnswersAboutAsked, At
  <2>3. Programs'
    BY <2>1 DEF CInv, Control, Programs, ServerAt, ClientAt, Doing, Over, NotYet,
       At, InCall, Mem
  <2>4. Console'
    BY <2>1 DEF CInv, Control, Console, At, InCall
  <2>5. Secured' /\ Live' /\ Counted'
    BY <2>1 DEF CInv, Secured, Live, Counted, Occupied, Pointer, At, InCall, Mem
  <2> QED
    BY <2>2, <2>3, <2>4, <2>5 DEF CInv, Control
<1> QED
  BY <1>1, <1>2, <1>3, <1>4, <1>5, <1>6, <1>7, <1>8, <1>9, <1>10, <1>11 DEF Next

\* The invariant holds of every peer the programs set up and use.
THEOREM CallsInvariant ==
  ASSUME Listed
  PROVE  Spec => []CInv
<1>1. Init => CInv
  BY CallsInit
<1>2. CInv /\ [Next]_vars => CInv'
  BY CallsStep
<1> QED
  BY <1>1, <1>2, PTL DEF Spec

\* What the methods pass are structures of raknet_types.h.
LEMMA CallsTypes ==
  ASSUME Listed, CInv
  PROVE  TypeOK
<1>1. /\ raknet.timeout \in Nat /\ raknet.incoming \in 0 .. Cardinality(Slot)
      /\ \A i \in Slot : raknet.guid[i] \in RakNetGUID
  BY DEF CInv, Shape, Raknets
<1>2. ASSUME NEW t \in Thread
      PROVE  AddressToC(known[t].address) \in SystemAddress
  <2>1. AddressOf(AddressToC(known[t].address), known[t].of)
    BY DEF CInv, AboutCalls
  <2> QED
    BY <2>1, AddressTyped
<1>3. ASSUME NEW t \in Thread, At(t, "in"), call[t].method \in {"CloseConnection", "GetLastPing"}
      PROVE  Mem(t).target \in AddressOrGUID
  BY <1>3 DEF CInv, AboutCalls, Fit, TargetMethods, Mem
<1>4. ASSUME NEW t \in Thread, At(t, "out"), call[t].method = "GetStatistics",
             call[t].result # NULL
      PROVE  call[t].result[1] \in RakNetStatistics
  <2>1. /\ call[t].result = <<[of |-> call[t].meant.target]>>
        /\ call[t].meant.target \subseteq System \cup {Own}
    BY <1>4 DEF CInv, AboutCalls, Answers
  <2>2. System \cup {Own} \subseteq Nat
    BY TypesAssumption
  <2>3. call[t].meant.target \subseteq Nat
    BY <2>1, <2>2
  <2> QED
    BY <2>1, <2>3 DEF RakNetStatistics
<1>5. ASSUME NEW t \in Thread, At(t, "in"), call[t].method = "Connect"
      PROVE  Mem(t).publicKey \in PublicKey({NULL, <<1>>, <<Own>>})
  <2>1. PICK k \in Key(1, Own) : Mem(t).publicKey = KeyToC(k)
    BY <1>5 DEF CInv, AboutCalls, Fit, Mem
  <2>2. /\ k.mode \in PublicKeyMode /\ k.remote \in {NULL, <<1>>}
        /\ k.mine \in {NULL, <<Own>>}
    BY DEF Key, PublicKeyMode
  <2> QED
    BY <2>1, <2>2 DEF KeyToC, PublicKey
<1>6. ASSUME NEW t \in Thread, At(t, "in"), call[t].method = "Startup"
      PROVE  Mem(t).descriptor \in SocketDescriptor
  BY <1>6 DEF CInv, AboutCalls, Fit, Mem
<1> QED
  BY <1>1, <1>2, <1>3, <1>4, <1>5, <1>6 DEF TypeOK

\* In every state what is passed has its type.
THEOREM CallsTyped ==
  ASSUME Listed
  PROVE  Spec => []TypeOK
<1>1. CInv => TypeOK
  BY CallsTypes
<1> QED
  BY <1>1, CallsInvariant, PTL

\* What RakNet sees is what the program meant.
THEOREM CallsArrive ==
  ASSUME Listed
  PROVE  Spec => []ArgumentsArrive
<1>1. CInv => ArgumentsArrive
  BY DEF CInv, AboutCalls, Answers, ArgumentsArrive
<1> QED
  BY <1>1, CallsInvariant, PTL

\* No pointer is read that leads nowhere.
THEOREM CallsPointers ==
  ASSUME Listed
  PROVE  Spec => []PointersLive
<1>1. ASSUME CInv, NEW t \in Thread, At(t, "out"), call[t].method = "GetLocalIP"
      PROVE  call[t].result # NULL
  <2>1. "GetLocalIP" \notin ConsoleMethods
    BY DEF ConsoleMethods, TargetMethods
  <2>2. t = "main"
    BY <1>1, <2>1, MainOnly
  <2> QED
    BY <1>1, <2>2 DEF CInv, Counted
<1>2. CInv => PointersLive
  BY <1>1 DEF CInv, Live, Pointer, PointersLive
<1> QED
  BY <1>2, CallsInvariant, PTL

\* Every answer is about the system that was asked for.
THEOREM CallsAnswer ==
  ASSUME Listed
  PROVE  Spec => []AnswersAboutAsked
<1>1. CInv => AnswersAboutAsked
  BY DEF CInv
<1> QED
  BY <1>1, CallsInvariant, PTL

\* A server's connections are secured.
THEOREM CallsSecured ==
  ASSUME Listed
  PROVE  Spec => []SecuredConnections
<1>1. CInv => SecuredConnections
  BY DEF CInv, Secured, Occupied, SecuredConnections
<1> QED
  BY <1>1, CallsInvariant, PTL

=============================================================================
